# A verification model of passwall-server

TLA+ specifications of the server's stateful logic, TLC configurations that
check them on small instances, and proofs checked by TLAPS.  The reference is
the Go code in `src/`; `PROJECT.json` maps every definition to the lines it
stands for.

## 1. Inventory

passwall-server is a Go HTTP server (gin) over PostgreSQL (gorm).  Each request
runs in a goroutine; background workers run beside them.  Almost no handler
opens a database transaction: a handler is a series of SQL statements, and most
changes load a row, change the struct and write *all* of its columns back
(`gorm.Save`).  What makes the server hard is therefore always the same: what a
handler read may be stale when it writes, a handler may fail between two
writes, and events from outside (payment providers, identity providers, stores)
arrive twice, late, or out of order.

| Component | State | Operations | What must be true |
|---|---|---|---|
| Subscription rows (`service/subscription_service.go`, `gormrepo/subscription.go`) | `subscriptions`: one row per bought or granted subscription; provider id, plan, state, dates, seats | Create, Cancel, Resume, HandlePaymentSuccess, HandlePaymentFailed, ExpireSubscription, UpdateSeats | one row per provider subscription; at most one active-like row; whatever is over ends |
| Expiry worker (`cleanup/subscription_worker.go`) | none of its own | a pass over three lists: past due, canceled, manual grants | expires everything that is due, and nothing else |
| Stripe (`service/payment_service.go`, `handler/http/webhook.go`) | subscriptions at Stripe, customer id | webhooks created, updated, deleted, paid, unpaid; seat and plan changes; sync | once all events are handled, the row says what Stripe says |
| RevenueCat (`service/revenuecat_service.go`) | purchases at the stores | nine webhook events | as for Stripe |
| Manual grants (`handler/http/admin_subscriptions.go`) | rows without a provider id | grant, revoke | a grant never takes over a bought row, and ends on its date |
| Entitlements (`feature_service.go`, `permission_service.go`) | reads the effective row | read-only override, plan limits | an organization that lapsed becomes read-only |
| Membership (`organization_service.go`, `user.go`, `invitation.go`, `scim_service.go`, `sso_service.go`) | `organization_users` (role, status, wrapped key), `invitations` | invite, accept, decline, confirm, role change, remove, transfer, account deletion, provisioning | an owner remains; one membership per user; an active member has a key; seats are not exceeded |
| Sessions (`auth.go`, `two_factor.go`, `gormrepo/token.go`) | `tokens`, the user row, 2FA secret, recovery codes, tickets | sign-in, second factor, rotation, sign-out, password change, cleanup | one exchange per token; one live device on the free plan; a code serves once; a second factor in force was confirmed |
| Accounts (`auth.go`, `user.go`, `verification.go`) | users, personal vaults, schemas, codes, deletion tokens | sign-up, verification, changes, deletion | verified means proved; an account has its vault; a deleted account leaves no live vault |
| Emergency access (`emergency_access_service.go`) | one row per grantor and grantee | invite, accept, confirm, request, approve, reject, read the vault, revoke | the vault is read only after a consent to a confirmed contact's request |
| SSO and key escrow (`sso_service.go`, `key_escrow_service.go`) | connections, login states, escrow keys, enrolments | manage connections, enrol, log in | a state opens one session; escrows are wrapped with the key there is |
| Vault of an organization (`collection_service.go`, `organization_item_service.go`, `organization_folder_service.go`, `item_share_service.go`) | collections, folders, items, shares | create, change, delete, re-share | no item without collection or share without item; what is deleted stays so |
| Access (`collection_service.go`, `team_service.go`, `scim_service.go`) | teams, their members, grants | grant, revoke, team changes, provisioning of groups | one grant each; nothing refers to what is gone |
| Own items (`item_service.go`) | a user's rows | create, change, delete | an item is what its changes made of it |
| Sends (`send_service.go`, `cleanup/send_cleanup.go`) | an encrypted share with a limit and dates | read, change, delete, cleanup | never read more often than allowed; deleted when due |
| Policies, firewall (`organization_policy_service.go`, `policy_firewall.go`) | one row per type; rules | enable, disable, filter | an enabled policy's dependencies are enabled; the first decisive rule decides |
| Failed logins, rate limiter (`policy_failed_login.go`, `handler/http/ratelimit.go`) | counters in memory | record, block, clean up; take a token | bounded failures per window while the policy is on and readable; bounded requests per time |
| Caches (`handler/http/icons.go`, `pkg/hibp`) | maps with an order, a limit and an age | get, set, evict, upload | an icon is the one last uploaded; what is in memory can be evicted |
| Breach monitor (`breach_monitor_service.go`, its worker) | addresses, recorded breaches | add, remove, check, dismiss | a breach is recorded once; a removed address stays removed |
| Telemetry (`compat_telemetry.go`, `ai_telemetry_analysis.go`) | events, verdicts | report, ask the model | an event once per window; a verdict is kept |
| Mail jobs (`admin_bulk_email.go`) | jobs in memory | create, work off with retries | one mail per recipient; the job ends |
| Start-up, mail delivery, activity logs, settings | rows written once | | not modelled: no protocol |

Interactions: Stripe, RevenueCat, owners, administrators and the worker all
write the same subscription rows; membership reads the subscription for its
seat limit; single sign-on and SCIM write memberships and single sign-on also
issues sessions; deleting an account touches memberships, tokens, invitations.
`PROJECT.json` lists all parts under `components` and what is hard to test,
line by line, under `hazards`.

## 2. Modules

    SubscriptionRows          rows, queries, row changes (operators only)
      SubscriptionService     requests, events and worker on the rows
        StripeBilling         ... together with Stripe's account and webhooks
        MCSubscriptionService values for TLC
        SubscriptionProofs    theorems
      MCStripeBilling         values for TLC
      StripeProofs            theorems

    Membership                one organization's members, invitations, accounts
      MCMembership            values for TLC
      MembershipProofs        theorems

    Sessions                  one user's tokens, second factor and password
      SessionsProofs          theorems
    Accounts                  users, personal vaults, codes, deletion
      AccountsProofs          theorems
    EmergencyAccess           one emergency access
      RecoveryConsent         what it promises (abstract)
    SsoLogin                  connections, login states, key escrow
      AccessProofs            theorems of the two, the refinement among them
    MCAccounts                the four side by side, values for TLC

    OrgItems                  collections, folders, items, shares
    CollectionAccess          teams, grants, access
    Items                     a user's own items
    Sends                     one send
    Policies                  policies of one organization, firewall
    FailedLogins              one address's failures
    RateLimiter               one address's bucket
    Caches                    icons and password ranges
    BreachMonitor             monitored addresses
    Telemetry                 events and verdicts
    MailJobs                  one mail job
      GuardsProofs            theorems of the last seven
    MCVault                   the eleven side by side, values for TLC
      VaultProofs             theorems of the first four, and of the eleven together

**SubscriptionRows.**  A table is a sequence of rows in creation order; the
primary key is the index.  A row keeps the columns on which a decision depends:
`ext` (`stripe_subscription_id`, `Manual` for NULL), `plan`, `state`, `renew`
(`renew_at`), `grace` (`grace_period_ends_at`), `seats`.  One organization is
modelled, as nothing in the code relates the rows of two.  The row changes
(`Paid`, `PaymentFailed`, `Canceled`, ...) are what each service operation
writes back; `Effective` is the three-step query of `GetByOrganizationID`;
`DueIn` holds the three WHERE clauses of the worker.

**SubscriptionService.**  `req[r]` is the frame of a running request: the next
SQL statement (`pc`), the one its handler goes on with (`then`), and the row it
holds in memory.  Every statement is one step, so requests, and the worker,
interleave between any read and the write that follows.  `Save` writes the
whole stale row.  `Fail` ends a handler at any statement (a database error, a
crash of the process, a canceled context).  Where the code goes on after a failure, so does the
model: after the seat sync of a subscription update, after Create's lookup of
the provider's id (`err == nil && existing != nil`), and after the lookup of a
row whose subscription has ended, which answers as if there were no row.
The worker is the frame `worker`: the list to ask for next, the ids still to
do, and the row about to be saved.  `Tick` moves the clock.  Upgrade, Downgrade
and Renew of the service have no caller and are left out.  A RevenueCat product
change sets `PlanID` but leaves the preloaded plan in the struct, whose id gorm
writes back on Save; the model therefore changes the date only.

**StripeBilling.**  Adds Stripe: what each subscription is (`stripe`), every
event sent (`log`), which were answered with 200 (`acked`).  A webhook carries
the values at the moment it was sent, except `invoice.payment_succeeded`, whose
handler asks Stripe for the subscription as it is now.  `HandleUnread` and
`Abort` are the events answered with 200 although something could not be read:
the row of a subscription that ended, or a paid subscription at Stripe;
`endsMissed` remembers the former.  `InOrder` chooses
between delivery in order, repeated until it succeeds, and delivery of any
event at any time.  Every step of `SubscriptionService` is reused; the owner's
requests also change the account.

**Membership.**  `members` is the table `organization_users` of one shared
organization (id to row: user, role, status, and what the column
`encrypted_org_key` holds), `invites` the invitations that are neither used nor
expired, `accounts` the users that exist.  Again a request is a frame, and here
every *write* is a step; the reads before a request's first write are one step
with its arrival, since what they hand on (the row, its id) is kept in the frame
and goes stale there.  The one later read that decides, the ownership check of
an account deletion that follows the deletion of organizations, is a step of its
own (`AccountCheck`).  `Write` is gorm's Save: it updates the row, and inserts
it again when it was deleted meanwhile, unless the foreign key to the user
refuses.  `Arrive` begins a request, `Then` goes on with its next write, `Fail`
ends it anywhere.  A request that is refused changes nothing and is no step.
Lookups of a membership take an error for absence (`NotFound`), and the
ownership check passes over an organization it cannot read (`NotSole`); both may
happen at any lookup of a row that is there, `MaxMisread` times, and `misread`
remembers about whom.
Manager and member are one role, as no modelled operation tells them apart.
Two ways lead in at a sign-in: `SignInJoin`, by which a sign-in with a password
accepts a pending invitation, and the member a first single sign-on provisions.

**Sessions, Accounts, SsoLogin.**  The same frames again (`calls`, `jobs`,
`ssoCalls`): the statements a request still has to do, one step each, any of
which may fail.  `Accounts` writes a request as the *list* of its statements
(`DeleteSteps` is the list of an account deletion), so that a failure cuts the
list.  The user row is in both `Sessions` (second factor, password) and
`Accounts` (address, verification, keys), each with the columns it decides by;
both save it whole.  Passwords, codes and secrets are values that are equal or
not.  Tokens, codes and states expire at any moment, which covers every clock.
A sign-in whose plan cannot be read goes on without a device limit
(`unlimited`).  The lookups of an address at sign-up and of a domain in single
sign-on that fail leave the decision to the unique index, so the actions ask
for neither.

**EmergencyAccess** is one row and requests that read it and save it in two
statements.  **RecoveryConsent** says what it is for: a causal order of the
events invite, accept, confirm, ask, consent, open.  `OpenedByConsent` is the
refinement: `EmergencyAccess` with `past <- events` implements it.

**OrgItems** keeps the tables as sequences of rows (`dropped` remembers the
deleted), and a request is the row it is about to write and with which
statement.  **CollectionAccess** has one table for grants and memberships of
teams, because the code looks up and writes them alike; access is computed from
it as `authz/collection_access.go` does.  `NoRowSeen` is a lookup that finds
nothing or fails; `unseen` remembers the keys whose row an insert did not see, also
when the directory's PUT names a member twice or its PATCH adds him again.  **Items**, **Sends**, **Policies**,
**BreachMonitor** and **Telemetry** have the same two- or three-statement
requests.  **FailedLogins**, **RateLimiter** and **Caches** are state in memory:
a step is what one lock covers.  A sign-in that finds its policy off or cannot
read it is let through a block (`unread` counts those) and may leave its failure
uncounted; the numbers of the policy themselves do not change.  The firewall of
**Policies** likewise answers with its rules or, when its policy is off or
unreadable, as if there were none (`GetPolicyData`).  In **Telemetry** a place may
have no error code (`Codeless`): the prompt writes "(none)" for it, and an answer
that repeats the word is stored where no lookup finds it, so the model leaves it
out of `verdicts`.  **MailJobs** is a goroutine with its job.

**Histories.**  A variable named `calm`, `orderly`, `...Calm` or `steady` is
true as long as no two requests overlapped and no error that the code ignores
has happened.  It is recorded at the moment a request begins while another is
under way.  `misread`, `unseen`, `unread` and `endsMissed` remember
reads whose failure the code takes for an answer; the properties concerned except
just the user, key, sign-in or subscription it happened to, and hold for all
others.  A property that says "while requests do not overlap" has it as its
premise: overlapping requests can break it, because no transaction and no unique
index keeps them apart, and the code does not say otherwise.

**Errors that are not errors.**  Where a read fails and the code carries on, the
model does as well:

| Read | The code goes on as if | Model |
|---|---|---|
| row of an ended subscription (`payment_service.go:667, 690`) | there were none, answers 200 | `HandleUnread`, `Abort`, `endsMissed` |
| subscription at Stripe after a payment (`payment_service.go:728`) | done, answers 200 | `HandleUnread` |
| Create's lookup (`subscription_service.go:111`) | there were none | `CreateLookup` |
| seat sync (`payment_service.go:655`) | done | `Fail`, `seatsMissed` |
| subscription before a grant (`admin_subscriptions.go:461`) | there were none | `GrantNew` |
| membership (`organization_service.go:454, 763`, `scim_service.go:238`) | not a member | `NotFound`, `misread` |
| organization or its members in the ownership check (`user.go:471, 482`) | not the sole owner | `NotSole`, `misread` |
| plan at sign-in (`auth.go:509`) | no device limit | `EnforceDeviceLimit` |
| e-mail at sign-up (`auth.go:125`, `user.go:109`), domain (`sso_service.go:115, 201`) | free; the unique index decides | no guard in `SignUp`, `CreateByAdmin`, `CreateConnection`, `UpdateConnection` |
| grant, team member (`collection_service.go:284, 347`, `team_service.go:198`) | there were none | `NoRowSeen`, `unseen` |
| a member of a group's PUT (`scim_service.go:584`) | not wanted | a smaller wanted set in `SaveTeam` |
| firewall's policy (`policy_firewall.go:51`) | allowed | `FilterRequest` |
| failed-login policy (`policy_failed_login.go:47, 79, 119`) | not blocked, not counted | `BeginLogin`, `FailLogin`, `unread` |
| events stored, verdicts known (`compat_telemetry.go`, `ai_telemetry_analysis.go`) | none | `IngestBatch`, `AnalyzeEvents` |

The remaining ones only decide whether a request is refused, or belong to what is
left out: names of collections and teams, the single-organization policy, the policy
that turns sends off, the read-only state of an organization.

## 3. Runs

| Run | Configuration | Shows |
|---|---|---|
| `subscription_concurrent` | two requests, one Stripe subscription, one store purchase, two rows, no clock | every pair of handlers interleaved at every statement, failures included: types, one row per provider id, rows keep their provider and never vanish |
| `subscription_expiry` | one request beside the worker, clock up to 2, one Stripe subscription, manual grants | past-due rows carry a grace date; past-due, canceled and granted rows that are over do end; an organization with only lapsed rows becomes read-only |
| `stripe_in_order` | one Stripe subscription, six events, one request, clock up to 1 | when everything is answered: ended at Stripe implies expired here unless the end was answered unread, the seats are those paid for; Create leaves exactly one live row |
| `stripe_out_of_order` (violation) | two Stripe subscriptions, any order | "at most one active-like subscription" does not survive late events |
| `stripe_plan_change` (violation) | two plans, in order | the webhook does not catch up on a plan change whose write failed |
| `membership_concurrent` | two users, two requests, two memberships, one invitation | any two operations interleaved at every write: types, status and key agree |
| `membership_sequential` | two users, one request, three memberships, one invitation, one read that fails unnoticed, owner and member to be given | long sequences with failures: one membership per user (but where a lookup failed), an owner remains, joining keeps the row's role, a deleted account leaves nothing |
| `membership_placeholder` (violation) | one request | SCIM activates a member without a key |
| `membership_owners` (violation) | two requests | the ownership check of an account deletion is stale when the memberships go |
| `membership_signin` (violation) | one request | a sign-in accepts a pending invitation nobody answered |
| `accounts` | two requests (three in emergency access), two addresses of which one is written in two ways, two accounts, four tokens, two secrets, two connections, two escrow keys | what stale saves, failed statements and repeated requests may not do to accounts, sessions, grants and logins |
| `vault` | two requests, two or three rows of each kind, eleven components | rows left behind, doubled or brought back; limits passed; work never done |

Bounds.  Two requests are enough for each lost update and each check-then-write
race: both involve one reader and one writer.  Two rows are what uniqueness,
staleness and "the effective row" need; with two rows every query can prefer one
to another.  In `subscription_expiry`, two ticks let a date lie in the future,
then be now, then be past.  Six Stripe events allow create, a failed payment,
recovery, and the end.  `MaxRows`, `MaxTime` and `MaxEvents` cut behaviours
off, hence `CHECK_DEADLOCK FALSE`.  In the membership runs two users are an
owner and someone else, and every rule is about such a pair; three insertions
let a member be removed and join again, by another way, or get a second row where
a lookup failed (`MaxMisread = 1`, once in a behaviour and at any lookup); with two
requests it is 0, as overlapping inserts bring about the same rows, and the proofs
of that run's properties allow any number; symmetry
exchanges requests only (and users other than the founder, of which there is one).
`OneMembershipPerUser`, `OwnerRemains` and `DeletionLeavesOwner` are checked for
requests that do not overlap: overlapping ones can break each, as no transaction
or unique index protects them, and `membership_owners` shows it where the code
claims otherwise.

`MCAccounts` and `MCVault` check independent components in one run: `focus` is
chosen at the start, and only that component moves, so the state spaces are
added and not multiplied.  The invariants of a component that does not move hold
of its initial states.  `OnceEach`, `WritesStay`, `GuardsHold` and `WorkIsDone`
are conjunctions of properties that the modules state one by one, with their
comments.  The `MCFew...` predicates are bounds: a step that would leave them is
not taken.  They let requests that do *not* overlap run long (a token is
exchanged twice, a second account is made and deleted, a team follows another)
and cut overlapping requests shorter, to the few rows that a race of two
requests needs.  One icon in memory with two domains makes the eviction happen;
windows and blocks of 1 and 2 within a clock of 7 let a block end, an entry be
forgotten and a new one begin, and one sign-in comes through a block
(`MaxUnread`); one of the four policy types is the firewall's; one of the two places
of telemetry has no error code; one key of the access table is inserted unseen; a page of one user and a batch of two make the
mail job read four pages and pause.  The two rates of a limiter are as in the
router: an idle visitor is dropped only after its bucket would be full again
(`Rate * Burst <= IdleFor`).

Fairness of the subscription runs (`FairSpec`).  `WF(Continue(r))`: the Go runtime runs every goroutine
and a statement ends in success or `Fail`.  `WF(Worker)`: the ticker of
`Run` starts passes for ever.  `<>[][WorkerFail => Worker]`: from some time on
the worker's statements succeed; with a database that never answers nothing
ends.  The last is needed because `WorkerFail` would otherwise be allowed to
spoil each pass.  Nothing is assumed of owners, stores, or the clock.
`LapsedBecomesReadOnly` additionally assumes `Settles`: an owner who cancels
and resumes for ever (neither operation asks whether the period is over) can
dodge the pass for ever.

Fairness of the vault run.  `SendsFairness`, `WF(DeleteExpired)`: the cleanup's
ticker runs as long as the server, and a pass deletes everything that is due in
one statement.  `MailFairness`, `WF(MailWork)`: a job's goroutine runs as long
as the server; each mail it tries succeeds or fails.  Nothing is assumed of
requests.

## 4. Proofs

`SubscriptionProofs` proves, for every set of requests, providers and plans and
for every bound, from the named assumptions `ProvidersAssumption`,
`PlansAssumption`, `NumbersAssumption`, `BoundsAssumption`:

* `EffectiveIsRow`: the effective subscription is one of the rows, so the
  newest-first queries are well defined (`Newest` has a maximum to choose);
* `TypeCorrect`: `Spec => []TypeOK`;
* `ProviderIdsUnique`: `Spec => []OneRowPerProviderId`;
* `ProvidersKept`: `Spec => RowsKeepTheirProvider`;
* `GraceKept`: `[]PastDueHasGrace` when there are no store purchases
  (`RcIds = {}`): the renewal of one takes the grace date from a row that may be
  past due again by then.  `GraceInv` asks the same of the copies that requests
  and the worker hold.

`OneRowPerProviderId` is not inductive: a request or the worker may hold a row
in memory, and writing it back keeps the ids unique only if the row in memory
carries the id of the row it overwrites.  `IInv` adds that: `GoodFrame` for
requests, `GoodWorker` for the worker, together with the fact that what a
`grant_insert` frame holds is a row without a provider id, and that every id
the worker still has to do is a row's.  The proof shows first how each statement
*moves* a frame (`...Moves` lemmas), then that a move keeps `IInv`
(`MoveKeepsIInv`), that a write does (`WriteKeepsIInv`), and inserts separately;
`NextKeeps` puts the actions together and also yields the action property.

`StripeProofs` proves of `StripeBilling`:

* `StripeTypeCorrect` and `StripeImplements` (`StripeSpec => Spec`: around
  Stripe's account and webhooks the service takes no step that
  `SubscriptionService` does not have, so all that is proved of `Spec` holds of
  it).  Both need `StripeInv`: rows, requests and events are about
  subscriptions Stripe has sold, and a request of this model brings no
  expiration date and grants nothing (`StripeFrame`);
* `CreateLeavesOne`, one request at a time: between the UPDATE and the INSERT
  of Create no row is live, because the only other writer, the expiry worker,
  writes expired rows (`OneLiveInv`);
* `EndedIsExpired`, one request at a time and events in order.  `LogInv` says
  what the log tells of a subscription (created before deleted, nothing after
  that, the last "updated" has Stripe's seats), `AckedInv` that the answered
  events are a prefix of the log, and `EndedInv` that nobody holds a live copy
  of a row whose deletion was answered, unless it was answered unread
  (`endsMissed`), and that a purchase that was refused would be refused again by a
  later sync (`RefusedTerms`);
* `SeatsAreStripes`, the same for the seats: `SeatsInv` says that a row's seats
  are right when no "updated" is on its way.  It assumes that the worker writes
  back no seats older than the row's (`FreshSeats`): its copy of a row may be
  stale, and it saves all columns.  In the run it writes nothing, so TLC checks
  a case of it.

Without those conditions the last three are false: two requests at a time leave
two live rows (`subscription_concurrent`), and events out of order revive a
subscription (`stripe_out_of_order`).

`MembershipProofs` proves, for every set of users and requests and every bound,
from `MembersAssumption`:

* `MembershipTypeCorrect`: `Spec => []TypeOK`;
* `KeysFit`: `Spec => []KeyFitsStatus`.

`KeyFitsStatus` speaks of the table alone and is not inductive: a request holds
rows that it writes later, over a row that has changed or is gone.  `IInv` says
that every row a frame holds fits as well (`KeyFits`), and that a frame about to
save holds an id the table has given out (`GoodFrame`), also one whose *next*
statement is the save.  The lemmas go bottom-up: tables under `Put` and
`Without`; frames as the actions build them (`CallIsGood`); one lemma per
arriving request (`...Keeps`, by `ArriveKeeps`); one per statement; `NextKeeps`.
`FirstIsMember`, that the row with the lowest id exists, uses the library's
well-foundedness of `<` on `Nat`.

The same module proves, when there is one request at a time (`Requests = {one}`,
as in the sequential run; with two the properties are false, see
`membership_owners`), the five properties of that run: `OneMembershipEach`,
`DeletionIsComplete`, `RoleIsKept`, `OwnerOutlivesAccounts` and `OwnerIsKept`.
A read that fails unnoticed, of a membership or by the ownership check, is a step
like the others; three of the five name the users in `misread` as exceptions, and
the proofs carry the same exception through (`Sound`, `Inserting`, `Deleting`).
`SerialInv` says what the table is like between two statements (`Sound`: one row
for each user, rows and invitations of existing accounts only) and what the frame
relies on (`Fits`): which statement may follow which (`Sequel`), that the row to be
written is the one in the table but for its change (`Writing`), that who is to be
inserted has no row (`Inserting`), and how much of an account is still to be
deleted (`Deleting`).  `IdsKeepTheirUser` is what is left of this for any number
of overlapping requests: a stale save may undo a change or bring a row back, but
all claims to an id, in the table and in the frames, name the same user
(`ClaimsInv`).

`SessionsProofs` proves `SecondFactorConfirmed`: types, and
`EnabledIsConfirmed`.  `SessionsInv` adds that the user row a request is about
to save satisfies it as well, and that what is `confirmed` stays so: a stale
save can take a set-up back but not put one in force.  The three action
properties `TokensServeOnce`, `CodesServeOnce` and `DeviceLimitHolds` speak of
requests that come one by one; a sign-in that could not read its plan
is excepted from the last, the sign-ins after it are not.  `CalmInv` says of those
that one is under way at most, that a token exchanged is no longer there (`InOrder`), and what the next
statement of the request finds (`Finds`).

`AccountsProofs` proves `VerifiedByProof`, that is `[]VerifiedWasProved`.
`VerifiedInv` says of every request that has still to save a user row that the
row is verified only if its user is in `proved`.  It asks this of the *list* of
statements (`Saves`): the tail of a list saves nothing the list did not, and a
creation never saves (`CreatingSaves`), so the user id a creation does not have
yet does no harm.

The same module proves, for requests that come one by one (`orderly`),
`OneCodeCounts`, `OpenedHasVault` and `DeletedVaultIsRetired`.  None is
inductive: they hold because of what the statements *before* the next one have
done.  `OrderInv` therefore says of the one request under way what its next
statement finds (`Ready`: the code's address has no codes left, the new vault is
nobody's, the owner of no live vault is about to go) and that the account it
closes is there with that vault and schema (`ClosesOwn`); `Follows` says which
statement may stand after which, so that a statement need only make ready what
`MayFollow` it (`WorkFits`), and an error may end the list anywhere.  `RowsInOrder`
adds that users share neither vault nor schema.

`TypesCorrect` is `[]TypesOK` of the `accounts` run as a whole.  A step of the run
is a step of one component and leaves the others alone (`EachComponentSteps`), so
the theorem follows from one for each component: `SecondFactorConfirmed`,
`TypesHold`, `GrantTyped`, `SsoTyped`.  `TypesHold` needs that the ids a request
holds were given out by the time a statement uses them (`IdsFit`: an owner is
inserted after its vault), `SsoTyped` that a connection about to be saved was
inserted (`CallsCounted`).

`AccessProofs` proves the refinement, `ConsentOrder`.  `GrantInv` says that
the status of the row has its events behind it (`Behind`), and that the row of
each request does so once its own write is counted (`FrameFollows`); events only
grow, so no stale save can break it.  `OneReading` is the action property
`OneReadingPerApproval`: `ReadingInv` says what the row and the requests hold of
an approval that was used already.

Of `SsoLogin` it proves `EscrowServes`, that is `[]EscrowKeyServes`.  `SsoInv` says
that a row about to be saved with the escrow on belongs to an organization that
has a key, and an enrolment about to be inserted has that key; `KeysStay`, that
a key is never replaced (the unique index), keeps both.  `LoginsServeOnce` is
`LoginServesOnce`: `LoginsInv` says that, while requests come one by one, a login
that opened a session is gone or about to be deleted by the callback that did it
(`ServedAreLeaving`), and that ids are not given out again (`LoginsCounted`).

`VaultProofs` proves of `Sends` that a limit is overshot by the readers under
way at most (`LimitOvershoot`) and that a deleted send stays deleted
(`DeletedSendStays`).  `SendsInv` counts: the views are what the counter says,
and with the readers who passed the check and have not incremented yet they
exceed the limit by the other readers only (`ViewsCounted`).  Of `OrgItems` it proves
`ItemsHaveCollections` and `DeletedRowsStay`; `VaultInv` says that while requests
come one by one one of them writes at most, that there is one default collection,
that every item is at home in a live one, and that what a request is about to
write is still there (`CallFits`), also between the two statements of a
collection's deletion.  `ItemsAreAsAsked` is about a user's own items: the row a
request is about to save is the one in the table with the change applied
(`SavePending`).  Of `CollectionAccess` it proves `GrantsAreSingle`: while requests
come one by one, a grant that is about to be inserted has no row yet or its key is
in `unseen`, and one about to be changed is the only one of its key, with the same
exception (`WriteFits`).

The last part of the module is about the `vault` run as a whole.
`EachFollowsItsSpec` shows that the composition implements the specification of
each component, because a step of the run is a step of one component and leaves
the variables of the others alone (`EachKeepsToItsOwn`).  With it the theorems of
the components give four invariants of the run: `VaultTypesCorrect`,
`EverythingOnce` (`OnceEach`), `LaterSavesUndoNothing` (`WritesStay`) and
`GuardsAlwaysHold` (`GuardsHold`).

`GuardsProofs` proves `DependenciesEnabled`: `PoliciesInv` says that while
updates come one by one there is one request at most, and what it found out
when it asked (`Supported`, `Unneeded`) still holds when it writes (`CallHolds`).
It proves `FailuresBounded`, where
`FailuresLeaveRoom` is the strengthening: an entry that is not blocked is below
the limit, and one that is leaves room for the sign-ins under way, if the block
outlasts the window (`BlockFor >= Window`, a premise of that conjunct only); each
sign-in that came through a block with the policy off or unreadable adds one.  And it
proves `AdmissionBounded` of the limiter: what was admitted and the tokens left
never exceed the burst and what the rate has given.  Of telemetry and the
breach monitor it proves, for requests one by one, that an event is stored once
and answers stay (`EventsAreSingle`, `AnswersStay`), that addresses and breaches
are recorded once and removed addresses stay removed (`BreachesAreSingle`,
`RemovedEmailsStay`).  The invariants say what the one request under way still has
right: the events it will insert are not there (`CallStands`), the addresses
it will check are live and the breach it will record is not there (`CallStill`).

`FirewallAnswers` is about the firewall.  `CheckAccess` goes through the rules with
an accumulator (`Verdict`, a fold of the library over the places of the list);
`FirewallAgrees` says which rule decides without going through them.  The two are
brought together by an induction of our own: a fold over a finite set of places is
a function (`Folding`, `FoldingExists`), its value after each place follows from
the value before (`FoldStep`), and a least counterexample to "what it holds is what
the first decisive rule so far says" cannot exist (`VerdictIsFirst`).
`FirewallInv` then says that the last answer is of the rules there are, or, when the
policy was off or could not be read, of none.

`CachesAreRight` is about the icons and the password ranges.  `CachesInv` says that
while requests come one by one the files of a domain and the icon in memory are
those of its last upload, but for what the request under way is about to write,
delete or clear (`IconsInOrder`, `FilesFit`, `Serves`); and, however requests
overlap, that every icon in memory is in the list of the order it is evicted by
(`IconsListed`).  `RemoveFirstIs`, `AppendIs` and `TailIs` say what is left of that
list.

`MailsAreSingle` and `EveryoneIsMailed` are about mail jobs.  `MailInv` says of the
job how its page and state go with its next step (`JobShape`), that its report adds
up and nobody is queued twice, or again after he was tried (`JobCounts`), that those
who were mailed are as many as it reports and are no longer queued (`JobDelivers`),
and that everybody who matched from the beginning was seen, is on the page, or has
his place behind the offset (`JobCovers`).  The last needs that a user who appears
only moves others back, and that a page is not empty while somebody is behind its
offset (`PlaceIs`, `PagesAreFilled`).  That the addresses of a request name nobody
twice is again a fold (`NormalizedIsDistinct`).

Every theorem holds for every value of the constants that the module's named
assumption admits; the bounds (`Max...`) are such constants.

Every invariant and every action property of the passing runs is stated by one of
these theorems.  Only model-checked is liveness under fairness (`GraceEnds`,
`PeriodEnds`, `GrantEnds`, `LapsedBecomesReadOnly`, `WorkIsDone`), which needs
`ENABLED`.  The violations are shown by TLC's counterexamples.

## 5. What the runs found

* **Late events revive a subscription** (`stripe_out_of_order`).
  `subscription_service.go:151` calls "multiple active-like subscriptions" a
  hard invariant that Create keeps "even if events arrive out-of-order".  An
  update of the older subscription that arrives after the newer was created
  makes it active (or past due) again, beside the newer.
* **A plan change is not repaired** (`stripe_plan_change`).
  `payment_service.go:437`: "Stripe is the source of truth and the webhook will
  catch up".  The handler of `subscription.updated` syncs status and seats,
  never the plan, and Create returns an existing row unchanged.
* **A member is active without a key** (`membership_placeholder`).  According to
  `sso_service.go:753` an administrator must confirm a provisioned member "to
  complete the key exchange".  `PatchUser` of SCIM confirms whoever the
  directory calls active; the placeholder stays, and `ConfirmProvisionedMember`
  then refuses, as the member is no longer provisioned.
* **The last owner can be deleted** (`membership_owners`).  `user.go:294`
  promises to "prevent deleting a user that would leave organizations without
  an owner".  The check and the deletions are separate statements; an ownership
  transfer, or the deletion of the other owner, fits between them.
* **A sign-in accepts for the invited** (`membership_signin`).
  `auth.go:219`: "Organization invitations remain pending - user will see them
  after sign-in and can accept/decline".  Every sign-in by password accepts the
  newest pending one.

Seen while modelling, without a run.  Most need requests that overlap, or a read
that fails unnoticed, which is why the properties concerned are stated for requests
that do not overlap, or except what was misread:

* Errors taken for answers: `webhook.go:57` says that a transient failure is
  answered with 500 "so Stripe can retry", but an ended subscription whose row
  cannot be read is answered with 200 and stays live; a failed lookup gives a user
  a second membership, a member a second grant or place in a team, a sole owner the
  deletion of his account, and a free account a second device; a firewall or a block
  whose policy cannot be read lets everybody in.  Create expires the live rows even
  when its lookup failed and the unique index then refuses its insert.
* Subscriptions: a RevenueCat renewal clears the grace date of whichever row is
  effective, and a past-due row without one is in none of the worker's lists
  (this is why `subscription_expiry` has no store purchases); the worker does
  not ask again whether a listed row is still due, so a payment in between is
  lost.
* Membership: two concurrent invitations, or an invitation and a first sign-on,
  insert two memberships; removing an invited member leaves the invitation
  pending; the seat limit is asked only when inviting.
* Sessions: two exchanges of one refresh token that overlap both succeed
  (`auth.go:574` says that this "prevents replay after rotation"); a rotation that overlaps a
  password change stores a token after all were deleted; rotation does not ask
  for the device limit.
* Single sign-on: expired states that SAML callbacks meet are never cleaned up;
  removing a member does not revoke his escrow; no unique index covers
  (user, organization) of the escrows.
* Vault: `collection_service.go:237` speaks of no orphan items, but an item
  created while its collection is deleted is one; a grant counts for the list
  of collections even without the right to read; the directory may delete the
  default team, which `organization_service.go:79` says cannot be; creating an
  own item with auto-fill off stores it on, as gorm replaces the zero value by
  the column's default; sends deleted by their owner are never removed from the
  table.
* Guards and caches: a block longer than two hours ends when the cleanup forgets
  the entry; a block shorter than the window is not renewed by further failures; the
  eviction list of the icon cache may name a domain twice, so the oldest is not always
  what goes, or nothing goes and the cache passes its limit; an upload that fails half way, or overlaps a
  request, leaves an old icon in memory for its time to live.
* Breach monitor and telemetry: the cascade in a column's tag is not one the
  migration applies; a check saves a removed address back when it had no
  breaches; two groups of one place in a batch make the insert of verdicts fail; a
  verdict that repeats the prompt's "(none)" is never found again, although
  `telemetry_ai_verdict.go:9` says that a group with a verdict is skipped.
* Mail jobs: a job that could not read a page is "failed" while the rest of its
  queue is still sent; paging by offset passes a user over when an earlier one
  stops to match; jobs are lost at a restart.

## 6. Not modelled

* Checkout sessions and billing data (they write the customer id only), the
  resolution of a RevenueCat event's user, plan seeding.
* Of membership: personal vaults (every operation refuses them), the
  single-organization policy (it only refuses), editing an organization's name,
  platform invitations.
* Of directories and providers: bearer tokens, the mapping of SCIM attributes,
  OIDC and SAML messages, metadata and redirect addresses.
* The checks other services make of a policy (`policy_enforcement.go`), which
  only refuse a request; validation of fields; listings.
* Profile, preferences, settings, excluded domains: single-row upserts, which
  nothing else reads to decide.
* Activity logs (append-only, deleted by age), the log viewer, support mail,
  mail templates and senders: input and output.
* Configuration, migration, seeding, routing: they run once, before the first
  request.  The organization-deletion worker is started by no code.
* A crash of the whole server is that of each request at its statement (`Fail`
  in every module); what is in memory (`FailedLogins`, `RateLimiter`, `Caches`,
  `MailJobs`) starts again from `Init`, which needs no action of its own.

`components` in `PROJECT.json` has the reason for each part.  `hazards` lists,
line by line, what is hard to test and which property would catch it; five have
no property, with the reason in their notes: the code makes no statement there
that could be checked.

-------------------------- MODULE SubscriptionRows --------------------------
(***************************************************************************)
(* The rows of the `subscriptions` table that belong to one organization,  *)
(* and the queries and row changes that subscription_service.go,           *)
(* payment_service.go, revenuecat_service.go, admin_subscriptions.go and   *)
(* the gorm repository make of them.                                       *)
(*                                                                         *)
(* A table is a sequence of rows in creation order: a row's primary key is *)
(* its index, "ORDER BY created_at DESC" reads the sequence backwards and  *)
(* no code deletes a row.  Nothing in the code relates the rows of two     *)
(* organizations, so one organization's rows are modelled.                 *)
(***************************************************************************)
EXTENDS Integers, Sequences

CONSTANTS
    StripeIds,   \* ids of Stripe subscriptions ("sub_...")
    RcIds,       \* ids of RevenueCat purchases ("rc_{store}_{transaction}")
    Manual,      \* a NULL stripe_subscription_id
    Plans,       \* the active plans
    FreePlan,    \* "free-monthly"
    Fits,        \* plans this kind of organization may subscribe to
    SeatBased,   \* family, team and business plans
    Period,      \* plan |-> length of its billing cycle
    Trial,       \* plan |-> length of its trial, 0 when it has none
    Grace,       \* the grace period after a failed payment
    SeatCounts   \* the seat quantities that can be bought

(* The value of a nullable column that is NULL. *)
Null == -1

Exts == StripeIds \cup RcIds

ASSUME ProvidersAssumption ==
    /\ StripeIds \cap RcIds = {}
    /\ Manual \notin Exts

ASSUME PlansAssumption ==
    /\ FreePlan \in Fits
    /\ Fits \subseteq Plans
    /\ SeatBased \subseteq Plans
    /\ Period \in [Plans -> Nat \ {0}]
    /\ Trial \in [Plans -> Nat]

ASSUME NumbersAssumption ==
    /\ Grace \in Nat
    /\ SeatCounts \subseteq Nat \ {0}

States == {"trialing", "active", "past_due", "canceled", "expired"}
ActiveLike == {"trialing", "active", "past_due"}

Times == Nat \cup {Null}
Seats == SeatCounts \cup {Null}

(* renew is renew_at and grace is grace_period_ends_at.  started_at,       *)
(* cancel_at, ended_at and trial_ends_at are written beside them and never *)
(* read by a decision.                                                     *)
Row == [ext: Exts \cup {Manual}, plan: Plans, state: States,
        renew: Times, grace: Times, seats: Seats]

FreeRow == [ext |-> Manual, plan |-> FreePlan, state |-> "active",
            renew |-> Null, grace |-> Null, seats |-> Null]

-----------------------------------------------------------------------------
(* Queries. *)

WithExt(subs, ext) == {i \in DOMAIN subs : subs[i].ext = ext}

Newest(ids) == CHOOSE i \in ids : \A j \in ids : j <= i

LiveIds(subs) == {i \in DOMAIN subs : subs[i].state \in ActiveLike}

InWindowIds(subs, now) ==
    {i \in DOMAIN subs : /\ subs[i].state = "canceled"
                         /\ subs[i].renew # Null
                         /\ subs[i].renew > now}

(* The id of the row that entitlements are read from (subs # <<>>). *)
Effective(subs, now) ==
    IF LiveIds(subs) # {} THEN Newest(LiveIds(subs))
    ELSE IF InWindowIds(subs, now) # {} THEN Newest(InWindowIds(subs, now))
    ELSE Len(subs)

GraceOver(row, now) ==
    row.state = "past_due" /\ row.grace # Null /\ row.grace < now

PeriodOver(row, now) ==
    row.state = "canceled" /\ row.renew # Null /\ row.renew < now

GrantOver(row, now) ==
    /\ row.ext = Manual
    /\ row.renew # Null
    /\ row.renew < now
    /\ row.state \in {"active", "trialing"}

(* The three lists of the expiry worker, in the order it asks for them. *)
DueIn(phase, row, now) ==
    CASE phase = 1 -> GraceOver(row, now)
      [] phase = 2 -> PeriodOver(row, now)
      [] phase = 3 -> GrantOver(row, now)

Due(phase, subs, now) == {i \in DOMAIN subs : DueIn(phase, subs[i], now)}

-----------------------------------------------------------------------------
(* Row changes: what a handler writes back, given the row it read. *)

(* Mutant: a transition table without past_due -> expired. *)
ExpiredUnlessPastDue(row) ==
    [row EXCEPT !.state = IF @ = "past_due" THEN @ ELSE "expired"]

Expired(row) == [row EXCEPT !.state = "expired"]

(* Mutant: only rows bought from a provider are expired. *)
ExpireProviderRows(subs) ==
    [i \in DOMAIN subs |->
        IF subs[i].state \in ActiveLike /\ subs[i].ext # Manual
        THEN Expired(subs[i]) ELSE subs[i]]

ExpireLive(subs) ==
    [i \in DOMAIN subs |->
        IF subs[i].state \in ActiveLike THEN Expired(subs[i]) ELSE subs[i]]

(* Mutant: the provider's own status is stored. *)
NewRowAsTold(ext, plan, seats, now) ==
    [ext |-> ext, plan |-> plan, seats |-> seats, grace |-> Null,
     state |-> "incomplete", renew |-> now + Period[plan]]

NewRow(ext, plan, seats, now) ==
    [ext |-> ext, plan |-> plan, seats |-> seats, grace |-> Null,
     state |-> IF Trial[plan] > 0 THEN "trialing" ELSE "active",
     renew |-> now + IF Trial[plan] > 0 THEN Trial[plan] ELSE Period[plan]]

(* A canceled row keeps its state: only its renewal date moves.  A stale   *)
(* grace date survives everything but past_due -> active.                  *)
Paid(row, now) ==
    [row EXCEPT !.state = IF @ = "canceled" THEN @ ELSE "active",
                !.grace = IF row.state = "past_due" THEN Null ELSE @,
                !.renew = now + Period[row.plan]]

(* Mutant: a failed payment starts no grace period. *)
PaymentFailedOnly(row, graceEnd) == [row EXCEPT !.state = "past_due"]

PaymentFailed(row, graceEnd) ==
    [row EXCEPT !.state = "past_due", !.grace = graceEnd]

(* Most RevenueCat events carry an expiration date, some do not. *)
WithExpiration(row, exp) ==
    IF exp = Null THEN row ELSE [row EXCEPT !.renew = exp]

Canceled(row, exp) ==
    WithExpiration([row EXCEPT !.state = "canceled"], exp)

Reactivated(row, exp) ==
    WithExpiration([row EXCEPT !.state = "active"], exp)

Extended(row, exp) ==
    IF row.state \in {"expired", "canceled"}
    THEN Reactivated(row, exp) ELSE WithExpiration(row, exp)

Granted(row, plan, seats, endsAt) ==
    [row EXCEPT !.ext = Manual, !.plan = plan, !.state = "active",
                !.renew = endsAt, !.grace = Null, !.seats = seats]

Revoked(row) ==
    [row EXCEPT !.state = "expired", !.renew = Null, !.seats = Null]
=============================================================================

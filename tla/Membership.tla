----------------------------- MODULE Membership -----------------------------
(***************************************************************************)
(* The members of one shared organization: the rows of organization_users, *)
(* the pending invitations, and the accounts behind them.                  *)
(*                                                                         *)
(* As in SubscriptionService every request is a frame and each write is a  *)
(* step of its own; the reads that precede a request's first write are one *)
(* step with its arrival.  gorm Save writes the whole row a request holds, *)
(* and inserts it when it was deleted in the meantime.  A request that is  *)
(* refused leaves no trace, so a refusal is no action.                     *)
(*                                                                         *)
(* Two reads may fail without failing the request: the lookup before an    *)
(* insertion, whose error passes for no membership, and the check before   *)
(* an account is deleted, which passes over an organization it cannot      *)
(* read.  misread remembers about whom that happened.                      *)
(*                                                                         *)
(* Not modelled: personal vaults (every operation refuses them), the       *)
(* single-organization policy (it can only refuse), and default teams.     *)
(***************************************************************************)
EXTENDS Integers, FiniteSets

CONSTANTS
    Users,
    Founder,     \* who created the organization
    Requests,    \* concurrent requests
    AskedRoles,  \* roles that requests may give
    SsoRole,     \* default role of the single sign-on connection
    MaxUsers,    \* seats of the subscription
    MaxRows,     \* bound: memberships ever inserted
    MaxInvites,  \* bound: invitations ever sent
    MaxMisread   \* bound: reads that fail unnoticed

(* Owners and administrators manage members; "member" stands for manager   *)
(* and member, which these operations do not tell apart.                   *)
Roles == {"owner", "admin", "member"}
Statuses == {"invited", "accepted", "confirmed", "suspended", "provisioned"}

(* encrypted_org_key: wrapped by the inviter, wrapped for the member on    *)
(* joining, or the placeholder "pending_key_exchange".                     *)
Keys == {"given", "own", "pending"}

ASSUME MembersAssumption ==
    /\ Founder \in Users
    /\ AskedRoles \subseteq Roles
    /\ SsoRole \in Roles
    /\ MaxUsers \in Nat
    /\ MaxRows \in Nat \ {0}
    /\ MaxInvites \in Nat
    /\ MaxMisread \in Nat

VARIABLES
    members,     \* id |-> row, the table organization_users
    lastRow,     \* the highest id given to a row
    invites,     \* id |-> invitation that is neither used nor expired
    lastInvite,  \* the highest id given to an invitation
    accounts,    \* the users that exist
    misread,     \* <<what, user>>: reads whose failure nobody noticed
    req          \* request |-> frame

vars == <<members, lastRow, invites, lastInvite, accounts, misread, req>>

Row == [user: Users, role: Roles, status: Statuses, key: Keys]

Tables(S) == UNION {[ids -> S] : ids \in SUBSET Nat}

NewRow(user, role, status, key) ==
    [user |-> user, role |-> role, status |-> status, key |-> key]

FounderRow == NewRow(Founder, "owner", "confirmed", "own")

PCs == {"idle", "invite", "insert", "save", "mark", "decline", "drop",
        "remove", "promote", "restore", "deprovision", "dissolve", "account",
        "purge", "forget", "close"}

(* The statement to run next, the one after it, the row to write, a second *)
(* row, the invitation (0 for any of the user), and the rows to delete.    *)
Frame == [pc: PCs, then: PCs, id: Nat, row: Row, id2: Nat, row2: Row,
          inv: Nat, todo: SUBSET Nat]

(* The frame of a request that runs pc and then `then`.  FounderRow stands *)
(* for no row.                                                             *)
Call(pc, then, id, row, inv) ==
    [pc |-> pc, then |-> then, id |-> id, row |-> row,
     id2 |-> 0, row2 |-> FounderRow, inv |-> inv, todo |-> {}]

Idle == Call("idle", "idle", 0, FounderRow, 0)

TypeOK ==
    /\ DOMAIN members \subseteq 1..lastRow
    /\ members \in [DOMAIN members -> Row]
    /\ lastRow \in 0..MaxRows
    /\ DOMAIN invites \subseteq 1..lastInvite
    /\ invites \in [DOMAIN invites -> [user: Users, role: Roles]]
    /\ lastInvite \in 0..MaxInvites
    /\ accounts \subseteq Users
    /\ misread \subseteq {"membership", "ownership"} \X Users
    /\ req \in [Requests -> Frame]

Init ==
    /\ members = [i \in {1} |-> FounderRow]
    /\ lastRow = 1
    /\ invites = [i \in {} |-> FounderRow]
    /\ lastInvite = 0
    /\ accounts = Users
    /\ misread = {}
    /\ req = [r \in Requests |-> Idle]

-----------------------------------------------------------------------------
(* Tables and queries. *)

Put(table, id, row) ==
    [i \in DOMAIN table \cup {id} |-> IF i = id THEN row ELSE table[i]]

Without(table, ids) == [i \in DOMAIN table \ ids |-> table[i]]

RowsOf(u) == {i \in DOMAIN members : members[i].user = u}

First(ids) == CHOOSE i \in ids : \A j \in ids : i <= j

(* GetByOrgAndUser: the row with the lowest primary key. *)
RowOf(u) == members[First(RowsOf(u))]

HasRow(u) == RowsOf(u) # {}

InvitesOf(u) == {i \in DOMAIN invites : invites[i].user = u}

Owners == {i \in DOMAIN members : members[i].role = "owner"}

IsOwner(u) == HasRow(u) /\ RowOf(u).role = "owner"

(* Whatever the status of the row. *)
CanManage(u) == HasRow(u) /\ RowOf(u).role \in {"owner", "admin"}

MemberCount ==
    Cardinality({i \in DOMAIN members :
                    members[i].status \in {"accepted", "confirmed"}})

(* Mutant: an owner counts as sole when nobody else is a member. *)
SoleMember(u) ==
    Cardinality(DOMAIN members) = 1 /\ \E i \in Owners : members[i].user = u

(* CheckOwnership counts the rows of any status. *)
SoleOwner(u) ==
    Cardinality(Owners) = 1 /\ \E i \in Owners : members[i].user = u

-----------------------------------------------------------------------------
(* Frames. *)

Goto(r, frame) == req' = [req EXCEPT ![r] = frame]

Then(r) ==
    Goto(r, IF req[r].then = "idle" THEN Idle
            ELSE [req[r] EXCEPT !.pc = req[r].then, !.then = "idle"])

(* What most steps leave alone. *)
Frozen == UNCHANGED <<lastInvite, accounts, misread>>

Begin(r, frame) ==
    /\ req[r].pc = "idle"
    /\ Goto(r, frame)
    /\ UNCHANGED <<members, lastRow, invites, lastInvite, accounts>>

Arrive(r, frame) == Begin(r, frame) /\ UNCHANGED misread

(* A read says that something does not hold of u, rightly or because it    *)
(* failed.                                                                 *)
Denied(what, u, holds) ==
    IF holds
    THEN /\ misread' = misread \cup {<<what, u>>}
         /\ Cardinality(misread') <= MaxMisread
    ELSE UNCHANGED misread

(* "err == nil && existing != nil" finds no membership. *)
NotFound(u) == Denied("membership", u, HasRow(u))

(* CheckOwnership: "continue" on an error. *)
NotSole(u) == Denied("ownership", u, SoleOwner(u))

(* A row of a deleted account cannot be inserted: the foreign key refuses. *)
Write(id, row) ==
    /\ members' = IF id \in DOMAIN members \/ row.user \in accounts
                  THEN Put(members, id, row) ELSE members
    /\ UNCHANGED <<lastRow, invites>>
    /\ Frozen

Erase(ids) ==
    /\ members' = Without(members, ids)
    /\ UNCHANGED <<lastRow, invites>>

-----------------------------------------------------------------------------
(* Inviting. *)

Invite(r, by, u, role) ==
    /\ CanManage(by)
    /\ role = "owner" => IsOwner(by)
    /\ MemberCount < MaxUsers
    /\ u \in accounts
    /\ NotFound(u)
    /\ InvitesOf(u) = {}
    /\ Begin(r, Call("invite", "idle", 0, NewRow(u, role, "invited", "given"), 0))

InviteRecord(r) ==
    /\ req[r].pc = "invite"
    /\ lastInvite < MaxInvites
    /\ invites' = Put(invites, lastInvite + 1,
                      [user |-> req[r].row.user, role |-> req[r].row.role])
    /\ lastInvite' = lastInvite + 1
    /\ Goto(r, [req[r] EXCEPT !.pc = "insert"])
    /\ UNCHANGED <<members, lastRow, accounts, misread>>

Insert(r) ==
    /\ req[r].pc = "insert"
    /\ \/ /\ req[r].row.user \in accounts
          /\ lastRow < MaxRows
          /\ members' = Put(members, lastRow + 1, req[r].row)
          /\ lastRow' = lastRow + 1
          /\ Then(r)
       \/ /\ req[r].row.user \notin accounts
          /\ Goto(r, Idle)
          /\ UNCHANGED <<members, lastRow>>
    /\ UNCHANGED invites
    /\ Frozen

Save(r) ==
    /\ req[r].pc = "save"
    /\ Write(req[r].id, req[r].row)
    /\ Then(r)

(* The invitation expires after seven days. *)
Lapse(i) ==
    /\ invites' = Without(invites, {i})
    /\ UNCHANGED <<members, lastRow, req>>
    /\ Frozen

-----------------------------------------------------------------------------
(* Answering an invitation. *)

Accepted(row) == [row EXCEPT !.status = "accepted", !.key = "own"]

(* AcceptInvitation, by the membership's id. *)
AcceptRow(r, i) ==
    /\ members[i].status = "invited"
    /\ Arrive(r, Call("save", "mark", i, Accepted(members[i]), 0))

(* Mutant: the role is the invitation's, with a row or without. *)
AcceptInviteAsSent(r, i) ==
    LET u == invites[i].user
    IN  \/ /\ HasRow(u)
           /\ RowOf(u).status = "invited"
           /\ Arrive(r, Call("save", "mark", First(RowsOf(u)),
                              [Accepted(RowOf(u)) EXCEPT !.role = invites[i].role], i))
        \/ /\ NotFound(u)
           /\ Begin(r, Call("insert", "mark", 0,
                             NewRow(u, invites[i].role, "accepted", "own"), i))

(* Accept, by the invitation's id, and AddExistingMember: the role of an   *)
(* existing row stands, when none is found it is the invitation's.         *)
AcceptInvite(r, i) ==
    LET u == invites[i].user
    IN  \/ /\ HasRow(u)
           /\ RowOf(u).status = "invited"
           /\ Arrive(r, Call("save", "mark", First(RowsOf(u)), Accepted(RowOf(u)), i))
        \/ /\ NotFound(u)
           /\ Begin(r, Call("insert", "mark", 0,
                             NewRow(u, invites[i].role, "accepted", "own"), i))

(* processPendingOrgInvitations, at the end of every sign-in by password:  *)
(* the newest pending invitation is taken as accepted, and the key stays   *)
(* the one its inviter wrapped.                                            *)
SignInJoin(r, i) ==
    LET u == invites[i].user
    IN  /\ u \in accounts
        /\ \A j \in InvitesOf(u) : j <= i
        /\ \/ /\ HasRow(u)
              /\ RowOf(u).status = "invited"
              /\ Arrive(r, Call("save", "drop", First(RowsOf(u)),
                    [RowOf(u) EXCEPT !.status = "accepted", !.key = "given"], i))
           \/ /\ HasRow(u)
              /\ RowOf(u).status # "invited"
              /\ Arrive(r, Call("drop", "idle", 0, FounderRow, i))
           \/ /\ ~HasRow(u)
              /\ Arrive(r, Call("insert", "drop", 0,
                                 NewRow(u, invites[i].role, "accepted", "given"), i))

(* The newest pending invitation of the user, or the one answered. *)
Marked(f) ==
    IF f.inv # 0 THEN {f.inv}
    ELSE {i \in InvitesOf(f.row.user) : \A j \in InvitesOf(f.row.user) : j <= i}

Mark(r) ==
    /\ req[r].pc = "mark"
    /\ invites' = Without(invites, Marked(req[r]))
    /\ Goto(r, Idle)
    /\ UNCHANGED <<members, lastRow>>
    /\ Frozen

Decline(r, i) ==
    LET u == invites[i].user
    IN  \/ /\ HasRow(u)
           /\ RowOf(u).status = "invited"
           /\ Arrive(r, Call("decline", "drop", First(RowsOf(u)), FounderRow, i))
        \/ /\ ~HasRow(u)
           /\ Arrive(r, Call("drop", "idle", 0, FounderRow, i))

DeclineRow(r) ==
    /\ req[r].pc = "decline"
    /\ Erase({req[r].id})
    /\ Then(r)
    /\ Frozen

Drop(r) ==
    /\ req[r].pc = "drop"
    /\ invites' = Without(invites, {req[r].inv})
    /\ Goto(r, Idle)
    /\ UNCHANGED <<members, lastRow>>
    /\ Frozen

-----------------------------------------------------------------------------
(* Managing members. *)

(* Mutant: the role of an owner can be changed. *)
ChangeAnyRole(r, by, i, role) ==
    /\ CanManage(by)
    /\ role = "owner" => IsOwner(by)
    /\ Arrive(r, Call("save", "idle", i, [members[i] EXCEPT !.role = role], 0))

ChangeRole(r, by, i, role) ==
    /\ CanManage(by)
    /\ role = "owner" => IsOwner(by)
    /\ members[i].role # "owner"
    /\ Arrive(r, Call("save", "idle", i, [members[i] EXCEPT !.role = role], 0))

Remove(r, by, i) ==
    /\ CanManage(by)
    /\ members[i].role # "owner"
    /\ Arrive(r, Call("remove", "idle", i, FounderRow, 0))

RemoveRow(r) ==
    /\ req[r].pc = "remove"
    /\ Erase({req[r].id})
    /\ Goto(r, Idle)
    /\ Frozen

Confirm(r, by, i) ==
    /\ CanManage(by)
    /\ members[i].status = "provisioned"
    /\ Arrive(r, Call("save", "idle", i,
          [members[i] EXCEPT !.status = "confirmed", !.key = "own"], 0))

(* TransferOwnership demotes, then promotes; if that fails it takes the    *)
(* demotion back.                                                          *)
Transfer(r, u, v) ==
    /\ IsOwner(u)
    /\ HasRow(v)
    /\ Arrive(r, [Call("save", "promote", First(RowsOf(u)),
                       [RowOf(u) EXCEPT !.role = "admin"], 0)
                  EXCEPT !.id2 = First(RowsOf(v)),
                         !.row2 = [RowOf(v) EXCEPT !.role = "owner"]])

Promote(r) ==
    /\ req[r].pc = "promote"
    /\ Write(req[r].id2, req[r].row2)
    /\ Goto(r, Idle)

PromoteRefused(r) ==
    /\ req[r].pc = "promote"
    /\ Goto(r, [req[r] EXCEPT !.pc = "restore"])
    /\ UNCHANGED <<members, lastRow, invites>>
    /\ Frozen

Restore(r) ==
    /\ req[r].pc = "restore"
    /\ Write(req[r].id, [req[r].row EXCEPT !.role = "owner"])
    /\ Goto(r, Idle)

-----------------------------------------------------------------------------
(* Deleting the organization and accounts. *)

DeleteOrganization(r, by) ==
    /\ IsOwner(by)
    /\ Arrive(r, Call("dissolve", "idle", 0, FounderRow, 0))

(* One transaction.  That the organization is marked deleted stops none of *)
(* the other operations; they find no rows.                                *)
Dissolve(r) ==
    /\ req[r].pc = "dissolve"
    /\ members' = Without(members, DOMAIN members)
    /\ invites' = Without(invites, DOMAIN invites)
    /\ Then(r)
    /\ UNCHANGED lastRow
    /\ Frozen

(* A row that only says whose account is meant. *)
Of(u) == [FounderRow EXCEPT !.user = u]

(* CheckOwnership, then the list of the user's memberships. *)
Purging(u) ==
    [Call(IF HasRow(u) THEN "purge" ELSE "forget", "idle", 0, Of(u), 0)
        EXCEPT !.todo = RowsOf(u)]

DeleteAccount(r, u) ==
    /\ u \in accounts
    /\ NotSole(u)
    /\ Begin(r, Purging(u))

(* DeleteWithOrganizations asks for a sole owner, DeleteForRecovery for an *)
(* owner; both then delete the account as above.                           *)
DeleteAll(r, u) ==
    /\ u \in accounts
    /\ \E i \in Owners : members[i].user = u
    /\ Arrive(r, Call("dissolve", "account", 0, Of(u), 0))

AccountCheck(r) ==
    LET u == req[r].row.user
    IN  /\ req[r].pc = "account"
        /\ \/ u \in accounts /\ NotSole(u) /\ Goto(r, Purging(u))
           \/ /\ u \notin accounts \/ SoleOwner(u)
              /\ Goto(r, Idle)
              /\ UNCHANGED misread
        /\ UNCHANGED <<members, lastRow, invites, lastInvite, accounts>>

PurgeRow(r) ==
    LET i == First(req[r].todo)
    IN  /\ req[r].pc = "purge"
        /\ Erase({i})
        /\ Goto(r, [req[r] EXCEPT !.todo = @ \ {i},
                        !.pc = IF req[r].todo = {i} THEN "forget" ELSE "purge"])
        /\ Frozen

(* Mutant: the invitations are kept. *)
ForgetNothing(r) ==
    /\ req[r].pc = "forget"
    /\ Goto(r, [req[r] EXCEPT !.pc = "close"])
    /\ UNCHANGED <<members, lastRow, invites>>
    /\ Frozen

Forget(r) ==
    /\ req[r].pc = "forget"
    /\ invites' = Without(invites, InvitesOf(req[r].row.user))
    /\ Goto(r, [req[r] EXCEPT !.pc = "close"])
    /\ UNCHANGED <<members, lastRow>>
    /\ Frozen

(* The foreign key keeps an account that still has a membership. *)
Close(r) ==
    LET u == req[r].row.user
    IN  /\ req[r].pc = "close"
        /\ accounts' = IF HasRow(u) THEN accounts ELSE accounts \ {u}
        /\ Goto(r, Idle)
        /\ UNCHANGED <<members, lastRow, invites, lastInvite, misread>>

-----------------------------------------------------------------------------
(* Single sign-on and SCIM. *)

(* Mutant: a user who is a member already is provisioned again. *)
ProvisionAgain(r, u, role) ==
    /\ u \in accounts
    /\ Arrive(r, Call("insert", "idle", 0,
                      NewRow(u, role, "provisioned", "pending"), 0))

Provision(r, u, role) ==
    /\ u \in accounts
    /\ NotFound(u)
    /\ Begin(r, Call("insert", "idle", 0,
                     NewRow(u, role, "provisioned", "pending"), 0))

(* Mutant: whoever the directory lists as active counts as accepted. *)
ScimUpdateAll(r, u, active) ==
    /\ HasRow(u)
    /\ Arrive(r, Call("save", "idle", First(RowsOf(u)),
          [RowOf(u) EXCEPT !.status =
              IF active THEN "accepted" ELSE "suspended"], 0))

(* UpdateUser reactivates a suspended member only. *)
ScimUpdate(r, u, active) ==
    /\ HasRow(u)
    /\ Arrive(r, Call("save", "idle", First(RowsOf(u)),
          [RowOf(u) EXCEPT !.status =
              IF ~active THEN "suspended"
              ELSE IF @ = "suspended" THEN "confirmed" ELSE @], 0))

(* Mutant: the directory's word for it is stored. *)
ScimPatchInactive(r, u, active) ==
    /\ HasRow(u)
    /\ Arrive(r, Call("save", "idle", First(RowsOf(u)),
          [RowOf(u) EXCEPT !.status =
              IF active THEN "confirmed" ELSE "inactive"], 0))

(* PatchUser confirms whoever is active. *)
ScimPatch(r, u, active) ==
    /\ HasRow(u)
    /\ Arrive(r, Call("save", "idle", First(RowsOf(u)),
          [RowOf(u) EXCEPT !.status =
              IF active THEN "confirmed" ELSE "suspended"], 0))

ScimDelete(r, u) ==
    /\ HasRow(u)
    /\ Arrive(r, Call("deprovision", "idle", First(RowsOf(u)), FounderRow, 0))

(* Owners too. *)
DeprovisionRow(r) ==
    /\ req[r].pc = "deprovision"
    /\ Erase({req[r].id})
    /\ Goto(r, Idle)
    /\ Frozen

-----------------------------------------------------------------------------
(* An error or a crash ends a request. *)
Fail(r) ==
    /\ req[r].pc # "idle"
    /\ Goto(r, Idle)
    /\ UNCHANGED <<members, lastRow, invites>>
    /\ Frozen

Answer(r) ==
    \/ \E i \in DOMAIN members : AcceptRow(r, i)
    \/ \E i \in DOMAIN invites :
          AcceptInvite(r, i) \/ Decline(r, i) \/ SignInJoin(r, i)

Manage(r, by) ==
    \/ \E u \in Users, role \in AskedRoles : Invite(r, by, u, role)
    \/ \E i \in DOMAIN members :
          \/ \E role \in AskedRoles : ChangeRole(r, by, i, role)
          \/ Remove(r, by, i)
          \/ Confirm(r, by, i)
    \/ \E v \in Users : Transfer(r, by, v)
    \/ DeleteOrganization(r, by)

Administer(r, u) == DeleteAccount(r, u) \/ DeleteAll(r, u)

(* ScimCreate makes members, a first sign-on the connection's role. *)
Directory(r, u) ==
    \/ \E role \in {"member", SsoRole} : Provision(r, u, role)
    \/ \E active \in BOOLEAN : ScimUpdate(r, u, active) \/ ScimPatch(r, u, active)
    \/ ScimDelete(r, u)

Continue(r) ==
    \/ InviteRecord(r)
    \/ Insert(r)
    \/ Save(r)
    \/ Mark(r)
    \/ DeclineRow(r)
    \/ Drop(r)
    \/ RemoveRow(r)
    \/ Promote(r)
    \/ PromoteRefused(r)
    \/ Restore(r)
    \/ Dissolve(r)
    \/ AccountCheck(r)
    \/ PurgeRow(r)
    \/ Forget(r)
    \/ Close(r)
    \/ DeprovisionRow(r)

Next ==
    \/ \E r \in Requests : Answer(r)
    \/ \E r \in Requests, u \in Users : Manage(r, u)
    \/ \E r \in Requests, u \in Users : Administer(r, u)
    \/ \E r \in Requests, u \in Users : Directory(r, u)
    \/ \E r \in Requests : Continue(r)
    \/ \E r \in Requests : Fail(r)
    \/ \E i \in DOMAIN invites : Lapse(i)

Spec == Init /\ [][Next]_vars

-----------------------------------------------------------------------------
(* Properties. *)

(* The status of a membership and its key move together, whatever stale    *)
(* row is written back: who accepted can open the vault, who is only       *)
(* provisioned has no key yet, and the placeholder never passes for one.   *)
KeyFits(row) ==
    /\ row.status = "invited" => row.key = "given"
    /\ row.status = "accepted" => row.key # "pending"
    /\ row.status = "provisioned" => row.key = "pending"

KeyFitsStatus == \A i \in DOMAIN members : KeyFits(members[i])

(* A user has one membership, however invitations, provisioning, removals  *)
(* and failures follow one another (one request at a time); only a lookup  *)
(* that failed unnoticed lets a second row in, and only for its user.      *)
OneMembershipPerUser ==
    \A i, j \in DOMAIN members :
        members[i].user = members[j].user =>
            i = j \/ <<"membership", members[i].user>> \in misread

(* About u a read failed unnoticed: his second row counts as a second      *)
(* owner, or he was not seen to be the only one.                           *)
Misread(u) == {<<"membership", u>>, <<"ownership", u>>} \cap misread # {}

(* The last owner's row goes only when SCIM deletes it, an invited owner   *)
(* declines, the organization is deleted, a deletion went by a read that   *)
(* failed unnoticed, or between the two halves of a transfer; a transfer   *)
(* that ends leaves an owner (one request at a time).                      *)
OwnerRemains ==
    [][\A r \in Requests :
          /\ Owners # {} /\ Owners' = {} /\ req'[r] # req[r] =>
                \/ req[r].pc \in {"decline", "deprovision", "dissolve"}
                \/ req[r].pc = "purge" /\ Misread(req[r].row.user)
                \/ req[r].then = "promote"
          /\ Promote(r) \/ Restore(r) => Owners' # {}]_vars

(* Joining keeps the role the row has now, not the invitation's.           *)
AcceptingKeepsRole ==
    [][\A r \in Requests :
          LET i == req[r].id
          IN  Save(r) /\ req[r].then \in {"mark", "drop"}
                  => members'[i].role = members[i].role]_vars

(* Deleting an account leaves no invitation behind that would collide with *)
(* the next one for the same address.                                      *)
DeletedLeaveNothing ==
    \A u \in Users \ accounts : InvitesOf(u) = {} /\ ~HasRow(u)

(* A member whose status is active holds a key: provisioned members are    *)
(* confirmed by an administrator, who completes the key exchange.          *)
ActiveHasKey ==
    \A i \in DOMAIN members :
        members[i].status = "confirmed" => members[i].key # "pending"

(* Deleting an account never takes the last owner's row, unless a read     *)
(* about its owner failed unnoticed before.                                *)
DeletionLeavesOwner ==
    [][\A r \in Requests :
          PurgeRow(r) /\ Owners # {} /\ ~Misread(req[r].row.user)
              => Owners' # {}]_vars

(* An invited member joins by an answer of theirs: invitations stay        *)
(* pending until the user accepts or declines them.                        *)
JoiningIsAnswered ==
    [][\A i \in DOMAIN members \cap DOMAIN members' :
          members[i].status = "invited" /\ members'[i].status = "accepted"
              => \E r \in Requests : req[r].then = "mark"]_vars
=============================================================================

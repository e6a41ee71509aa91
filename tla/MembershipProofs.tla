-------------------------- MODULE MembershipProofs --------------------------
(***************************************************************************)
(* What TLAPS proves of Membership for every set of users and every bound. *)
(* For any requests: types, the key that goes with a status, and that the  *)
(* id of a membership stays one user's.  For requests one by one: one      *)
(* membership each, an owner remains, joining keeps the role, a deleted    *)
(* account leaves nothing.                                                 *)
(***************************************************************************)
EXTENDS Membership, FiniteSetTheorems, WellFoundedInduction, TLAPS

-----------------------------------------------------------------------------
(* The inductive invariant.  KeyFitsStatus is not inductive: a request     *)
(* holds rows that it will write back, perhaps after the row it read was   *)
(* changed or deleted, so these must fit as well, and their ids be ids     *)
(* that the table has given out.                                           *)

GoodTable(table, n) ==
    /\ DOMAIN table \subseteq 1..n
    /\ table \in [DOMAIN table -> Row]
    /\ \A i \in DOMAIN table : KeyFits(table[i])

GoodInvites(table, n) ==
    /\ DOMAIN table \subseteq 1..n
    /\ table \in [DOMAIN table -> [user: Users, role: Roles]]

GoodFrame(f, n) ==
    /\ f \in Frame
    /\ KeyFits(f.row) /\ KeyFits(f.row2)
    /\ f.id <= n /\ f.id2 <= n
    /\ f.pc \in {"save", "promote", "restore"} => f.id # 0
    /\ f.then \in {"save", "promote", "restore"} => f.id # 0
    /\ f.pc = "promote" \/ f.then = "promote" => f.id2 # 0

IInv ==
    /\ GoodTable(members, lastRow)
    /\ lastRow \in 0..MaxRows
    /\ GoodInvites(invites, lastInvite)
    /\ lastInvite \in 0..MaxInvites
    /\ accounts \subseteq Users
    /\ req \in [Requests -> Frame]
    /\ \A r \in Requests : GoodFrame(req[r], lastRow)

-----------------------------------------------------------------------------
(* Rows. *)

(* First chooses the row that "ORDER BY id" returns. *)
LEMMA FirstIsMember ==
    ASSUME NEW S \in SUBSET Nat, S # {}
    PROVE  First(S) \in S
<1>1. PICK x \in S : \A y \in S : ~ (<<y, x>> \in OpToRel(<, Nat))
  BY NatLessThanWellFounded, WFMin, Zenon
<1>2. x \in Nat /\ S \subseteq Nat
  BY <1>1
<1>3. \A y \in S : ~ (y < x)
  BY <1>1, <1>2 DEF OpToRel
<1>4. \A y \in S : x <= y
  BY <1>2, <1>3
<1> QED  BY <1>4 DEF First

LEMMA RowOfIsGood ==
    ASSUME IInv, NEW u, HasRow(u)
    PROVE  /\ First(RowsOf(u)) \in DOMAIN members
           /\ RowOf(u) = members[First(RowsOf(u))]
           /\ RowOf(u) \in Row /\ KeyFits(RowOf(u))
           /\ RowOf(u).user = u
<1>1. RowsOf(u) \subseteq Nat
  BY DEF IInv, GoodTable, RowsOf
<1>2. First(RowsOf(u)) \in RowsOf(u)
  BY <1>1, FirstIsMember DEF HasRow
<1> QED  BY <1>2 DEF RowOf, RowsOf, IInv, GoodTable

LEMMA PutIsGood ==
    ASSUME NEW table, NEW n \in Nat, GoodTable(table, n),
           NEW id \in 1..n, NEW row \in Row, KeyFits(row)
    PROVE  GoodTable(Put(table, id, row), n)
BY DEF GoodTable, Put

LEMMA WithoutIsGood ==
    ASSUME NEW table, NEW n \in Nat, GoodTable(table, n), NEW ids
    PROVE  GoodTable(Without(table, ids), n)
BY DEF GoodTable, Without

LEMMA WithoutInvites ==
    ASSUME NEW table, NEW n \in Nat, GoodInvites(table, n), NEW ids
    PROVE  GoodInvites(Without(table, ids), n)
BY DEF GoodInvites, Without

LEMMA TableGrows ==
    ASSUME NEW table, NEW n \in Nat, NEW m \in Nat, n <= m
    PROVE  /\ GoodTable(table, n) => GoodTable(table, m)
           /\ GoodInvites(table, n) => GoodInvites(table, m)
           /\ \A f : GoodFrame(f, n) => GoodFrame(f, m)
<1>1. GoodTable(table, n) => GoodTable(table, m)
  BY DEF GoodTable
<1>2. GoodInvites(table, n) => GoodInvites(table, m)
  BY DEF GoodInvites
<1>3. \A f : GoodFrame(f, n) => GoodFrame(f, m)
  BY DEF GoodFrame, Frame
<1> QED  BY <1>1, <1>2, <1>3

LEMMA FounderIsGood == FounderRow \in Row /\ KeyFits(FounderRow)
BY MembersAssumption DEF FounderRow, NewRow, Row, Roles, Statuses, Keys, KeyFits

LEMMA NewRowIsGood ==
    ASSUME NEW u \in Users, NEW role \in Roles,
           NEW status \in Statuses, NEW key \in Keys
    PROVE  NewRow(u, role, status, key) \in Row
BY DEF NewRow, Row

-----------------------------------------------------------------------------
(* Frames. *)

LEMMA FrameFields ==
    ASSUME NEW f \in Frame
    PROVE  /\ f.pc \in PCs /\ f.then \in PCs
           /\ f.id \in Nat /\ f.id2 \in Nat /\ f.inv \in Nat
           /\ f.row \in Row /\ f.row2 \in Row /\ f.todo \in SUBSET Nat
BY DEF Frame

LEMMA IdleIsGood ==
    ASSUME NEW n \in Nat
    PROVE  Idle \in Frame /\ GoodFrame(Idle, n)
<1>1. Idle \in Frame
  <2>1. "idle" \in PCs
    BY DEF PCs
  <2> QED  BY <2>1, FounderIsGood DEF Idle, Call, Frame
<1> QED  BY <1>1, FounderIsGood DEF Idle, Call, GoodFrame

(* Frames as the actions build them. *)
LEMMA CallIsGood ==
    ASSUME NEW n \in Nat, NEW pc \in PCs, NEW then \in PCs, NEW id \in 0..n,
           NEW row \in Row, KeyFits(row), NEW i \in Nat,
           pc \in {"save", "restore"} => id # 0, pc # "promote",
           then \notin {"save", "promote", "restore"}
    PROVE  GoodFrame(Call(pc, then, id, row, i), n)
<1> USE FounderIsGood
<1>1. Call(pc, then, id, row, i) \in Frame
  BY DEF Call, Frame
<1> QED  BY <1>1 DEF Call, GoodFrame

LEMMA Bounds ==
    ASSUME IInv
    PROVE  lastRow \in Nat /\ lastInvite \in Nat
BY MembersAssumption DEF IInv

LEMMA OfIsGood ==
    ASSUME NEW u \in Users
    PROVE  Of(u) \in Row /\ KeyFits(Of(u))
BY FounderIsGood DEF Of, FounderRow, NewRow, Row, KeyFits

LEMMA PurgingIsGood ==
    ASSUME IInv, NEW u \in Users
    PROVE  GoodFrame(Purging(u), lastRow)
<1> DEFINE pc == IF HasRow(u) THEN "purge" ELSE "forget"
           c == Call(pc, "idle", 0, Of(u), 0)
<1>1. RowsOf(u) \in SUBSET Nat
  BY DEF IInv, GoodTable, RowsOf
<1>2. pc \in PCs /\ "idle" \in PCs /\ pc \notin {"save", "restore", "promote"}
  BY DEF PCs
<1>3. GoodFrame(c, lastRow)
  <2> HIDE DEF pc
  <2> QED  BY <1>2, Bounds, OfIsGood, CallIsGood
<1>4. GoodFrame([c EXCEPT !.todo = RowsOf(u)], lastRow)
  <2> HIDE DEF c
  <2> QED  BY <1>1, <1>3 DEF GoodFrame, Frame
<1> QED  BY <1>4 DEF Purging

(* A step of one request that leaves the tables alone. *)
LEMMA FramesStayGood ==
    ASSUME IInv, NEW r \in Requests, NEW f, NEW n \in Nat, lastRow <= n,
           GoodFrame(f, n), Goto(r, f)
    PROVE  /\ req' \in [Requests -> Frame]
           /\ \A q \in Requests : GoodFrame(req'[q], n)
<1>1. \A q \in Requests : GoodFrame(req[q], n)
  BY Bounds, TableGrows DEF IInv
<1>2. f \in Frame
  BY DEF GoodFrame
<1> QED  BY <1>1, <1>2 DEF Goto, IInv

LEMMA ThenIsGood ==
    ASSUME IInv, NEW r \in Requests, Then(r), NEW n \in Nat, lastRow <= n
    PROVE  /\ req' \in [Requests -> Frame]
           /\ \A q \in Requests : GoodFrame(req'[q], n)
<1> DEFINE f == IF req[r].then = "idle" THEN Idle
                ELSE [req[r] EXCEPT !.pc = req[r].then, !.then = "idle"]
<1>1. GoodFrame(req[r], n)
  BY Bounds, TableGrows DEF IInv
<1>2. GoodFrame([req[r] EXCEPT !.pc = req[r].then, !.then = "idle"], n)
  <2> DEFINE g == req[r]
             moved == [g EXCEPT !.pc = g.then]
             ended == [moved EXCEPT !.then = "idle"]
  <2>1. /\ g \in Frame /\ KeyFits(g.row) /\ KeyFits(g.row2)
        /\ g.id <= n /\ g.id2 <= n
        /\ g.then \in {"save", "promote", "restore"} => g.id # 0
        /\ g.then = "promote" => g.id2 # 0
    BY <1>1 DEF GoodFrame
  <2> HIDE DEF g
  <2>2. /\ moved \in Frame /\ moved.pc = g.then
        /\ moved.row = g.row /\ moved.row2 = g.row2
        /\ moved.id = g.id /\ moved.id2 = g.id2
    BY <2>1 DEF Frame
  <2> HIDE DEF moved
  <2>3. /\ ended \in Frame /\ ended.pc = g.then /\ ended.then = "idle"
        /\ ended.row = g.row /\ ended.row2 = g.row2
        /\ ended.id = g.id /\ ended.id2 = g.id2
    BY <2>2 DEF Frame, PCs
  <2> HIDE DEF ended
  <2>4. GoodFrame(ended, n)
    BY <2>1, <2>3 DEF GoodFrame
  <2> QED BY <2>4 DEF g, moved, ended
<1>3. GoodFrame(f, n)
  BY <1>2, IdleIsGood
<1>4. Goto(r, f)
  BY DEF Then
<1> HIDE DEF f
<1> QED  BY <1>3, <1>4, FramesStayGood

LEMMA ArriveKeeps ==
    ASSUME IInv, NEW r \in Requests, NEW f, GoodFrame(f, lastRow), Begin(r, f)
    PROVE  IInv'
<1>1. req' \in [Requests -> Frame] /\ \A q \in Requests : GoodFrame(req'[q], lastRow)
  BY Bounds, FramesStayGood DEF Begin
<1> QED  BY <1>1 DEF IInv, Begin, Frozen

-----------------------------------------------------------------------------
(* Arrivals.  Each lemma builds the frame and cites ArriveKeeps. *)

(* What a request reads of a row of the table. *)
LEMMA RowIsGood ==
    ASSUME IInv, NEW i \in DOMAIN members
    PROVE  i \in 1..lastRow /\ i \in Nat /\ members[i] \in Row /\ KeyFits(members[i])
BY Bounds DEF IInv, GoodTable

LEMMA AcceptedIsGood ==
    ASSUME NEW row \in Row
    PROVE  Accepted(row) \in Row /\ KeyFits(Accepted(row))
BY DEF Accepted, Row, Statuses, Keys, KeyFits

LEMMA JoinedIsGood ==
    ASSUME NEW row \in Row
    PROVE  /\ [row EXCEPT !.status = "accepted", !.key = "given"] \in Row
           /\ KeyFits([row EXCEPT !.status = "accepted", !.key = "given"])
BY DEF Row, Statuses, Keys, KeyFits

LEMMA SavingKeeps ==
    ASSUME IInv, NEW r \in Requests, NEW id \in 1..lastRow, NEW row \in Row,
           KeyFits(row), NEW then \in {"idle", "mark", "drop"}, NEW i \in Nat,
           Begin(r, Call("save", then, id, row, i))
    PROVE  IInv'
<1>1. GoodFrame(Call("save", then, id, row, i), lastRow)
  <2>1. "save" \in PCs /\ then \in PCs
    BY DEF PCs
  <2>2. id \in 0..lastRow /\ id # 0
    BY Bounds
  <2> QED  BY <2>1, <2>2, Bounds, CallIsGood
<1> QED  BY <1>1, ArriveKeeps

(* Any frame that does not write its row over one of the table. *)
LEMMA OtherKeeps ==
    ASSUME IInv, NEW r \in Requests, NEW pc \in PCs, NEW then \in PCs,
           NEW id \in 0..lastRow, NEW row \in Row, KeyFits(row), NEW i \in Nat,
           pc \notin {"save", "restore", "promote"},
           then \notin {"save", "restore", "promote"},
           Begin(r, Call(pc, then, id, row, i))
    PROVE  IInv'
<1>1. GoodFrame(Call(pc, then, id, row, i), lastRow)
  BY Bounds, CallIsGood
<1> QED  BY <1>1, ArriveKeeps

LEMMA InviteKeeps ==
    ASSUME IInv, NEW r \in Requests, NEW by \in Users, NEW u \in Users,
           NEW role \in AskedRoles, Invite(r, by, u, role)
    PROVE  IInv'
<1> DEFINE row == NewRow(u, role, "invited", "given")
<1>1. row \in Row
  BY MembersAssumption, NewRowIsGood DEF Statuses, Keys
<1>2. KeyFits(row)
  BY DEF NewRow, KeyFits
<1>3. Begin(r, Call("invite", "idle", 0, row, 0))
  BY DEF Invite, Arrive
<1>4. "invite" \in PCs /\ "idle" \in PCs /\ 0 \in 0..lastRow
  BY Bounds DEF PCs
<1> HIDE DEF row
<1> QED  BY <1>1, <1>2, <1>3, <1>4, OtherKeeps

LEMMA AnswerKeeps ==
    ASSUME IInv, NEW r \in Requests, Answer(r)
    PROVE  IInv'
<1>1. ASSUME NEW i \in DOMAIN members, AcceptRow(r, i)
      PROVE  IInv'
  BY <1>1, RowIsGood, AcceptedIsGood, SavingKeeps DEF AcceptRow, Arrive
<1>2. ASSUME NEW i \in DOMAIN invites, AcceptInvite(r, i)
      PROVE  IInv'
  <2> DEFINE u == invites[i].user
             row == NewRow(u, invites[i].role, "accepted", "own")
  <2>1. u \in Users /\ invites[i].role \in Roles /\ i \in Nat
    BY Bounds DEF IInv, GoodInvites
  <2>2. CASE /\ HasRow(u)
             /\ Begin(r, Call("save", "mark", First(RowsOf(u)), Accepted(RowOf(u)), i))
    <3>1. Begin(r, Call("save", "mark", First(RowsOf(u)), Accepted(RowOf(u)), i))
      BY <2>2
    <3>2. First(RowsOf(u)) \in 1..lastRow /\ RowOf(u) \in Row
      BY <2>2, RowOfIsGood, RowIsGood
    <3> HIDE DEF u
    <3> QED  BY <2>1, <3>1, <3>2, AcceptedIsGood, SavingKeeps
  <2>3. CASE Begin(r, Call("insert", "mark", 0, row, i))
    <3>2. row \in Row
      BY <2>1, NewRowIsGood DEF Statuses, Keys
    <3>3. KeyFits(row)
      BY DEF NewRow, KeyFits
    <3>4. "insert" \in PCs /\ "mark" \in PCs /\ 0 \in 0..lastRow
      BY Bounds DEF PCs
    <3> HIDE DEF u, row
    <3> QED  BY <2>1, <2>3, <3>2, <3>3, <3>4, OtherKeeps
  <2> QED  BY <1>2, <2>2, <2>3 DEF AcceptInvite, Arrive
<1>3. ASSUME NEW i \in DOMAIN invites, Decline(r, i)
      PROVE  IInv'
  <2> DEFINE u == invites[i].user
  <2>1. i \in Nat
    BY Bounds DEF IInv, GoodInvites
  <2>2. "decline" \in PCs /\ "drop" \in PCs /\ "idle" \in PCs /\ 0 \in 0..lastRow
    BY Bounds DEF PCs
  <2>3. CASE HasRow(u)
    <3>1. Begin(r, Call("decline", "drop", First(RowsOf(u)), FounderRow, i))
      BY <1>3, <2>3 DEF Decline, Arrive
    <3>2. First(RowsOf(u)) \in 0..lastRow
      BY <2>3, RowOfIsGood, RowIsGood, Bounds
    <3> HIDE DEF u
    <3> QED  BY <2>1, <2>2, <3>1, <3>2, FounderIsGood, OtherKeeps
  <2>4. CASE ~HasRow(u)
    <3>1. Begin(r, Call("drop", "idle", 0, FounderRow, i))
      BY <1>3, <2>4 DEF Decline, Arrive
    <3> QED  BY <2>1, <2>2, <3>1, FounderIsGood, OtherKeeps
  <2> QED  BY <2>3, <2>4
<1>4. ASSUME NEW i \in DOMAIN invites, SignInJoin(r, i)
      PROVE  IInv'
  <2> DEFINE u == invites[i].user
             row == NewRow(u, invites[i].role, "accepted", "given")
             old == [RowOf(u) EXCEPT !.status = "accepted", !.key = "given"]
  <2>1. u \in Users /\ invites[i].role \in Roles /\ i \in Nat
    BY Bounds DEF IInv, GoodInvites
  <2>2. "insert" \in PCs /\ "drop" \in PCs /\ "idle" \in PCs /\ 0 \in 0..lastRow
    BY Bounds DEF PCs
  <2>3. CASE HasRow(u) /\ Begin(r, Call("save", "drop", First(RowsOf(u)), old, i))
    <3>1. First(RowsOf(u)) \in 1..lastRow /\ old \in Row /\ KeyFits(old)
      BY <2>3, RowOfIsGood, RowIsGood, JoinedIsGood
    <3> HIDE DEF u, old
    <3> QED  BY <2>1, <2>3, <3>1, SavingKeeps
  <2>4. CASE Begin(r, Call("drop", "idle", 0, FounderRow, i))
    BY <2>1, <2>2, <2>4, FounderIsGood, OtherKeeps
  <2>5. CASE Begin(r, Call("insert", "drop", 0, row, i))
    <3>1. row \in Row
      BY <2>1, NewRowIsGood DEF Statuses, Keys
    <3>2. KeyFits(row)
      BY DEF NewRow, KeyFits
    <3> HIDE DEF u, row
    <3> QED  BY <2>1, <2>2, <2>5, <3>1, <3>2, OtherKeeps
  <2> QED  BY <1>4, <2>3, <2>4, <2>5 DEF SignInJoin, Arrive
<1> QED  BY <1>1, <1>2, <1>3, <1>4 DEF Answer

(* Managing members. *)
LEMMA ChangeRoleKeeps ==
    ASSUME IInv, NEW r \in Requests, NEW by \in Users,
           NEW i \in DOMAIN members, NEW role \in AskedRoles,
           ChangeRole(r, by, i, role)
    PROVE  IInv'
<1> DEFINE row == [members[i] EXCEPT !.role = role]
<1>1. row \in Row /\ KeyFits(row)
  BY RowIsGood, MembersAssumption DEF Row, KeyFits
<1>2. Begin(r, Call("save", "idle", i, row, 0))
  BY DEF ChangeRole, Arrive
<1> HIDE DEF row
<1> QED  BY <1>1, <1>2, RowIsGood, SavingKeeps

LEMMA RemoveKeeps ==
    ASSUME IInv, NEW r \in Requests, NEW by \in Users,
           NEW i \in DOMAIN members, Remove(r, by, i)
    PROVE  IInv'
<1>1. Begin(r, Call("remove", "idle", i, FounderRow, 0))
  BY DEF Remove, Arrive
<1>2. "remove" \in PCs /\ "idle" \in PCs
  BY DEF PCs
<1>3. i \in 0..lastRow
  BY RowIsGood, Bounds
<1> QED  BY <1>1, <1>2, <1>3, FounderIsGood, OtherKeeps

LEMMA ConfirmKeeps ==
    ASSUME IInv, NEW r \in Requests, NEW by \in Users,
           NEW i \in DOMAIN members, Confirm(r, by, i)
    PROVE  IInv'
<1> DEFINE row == [members[i] EXCEPT !.status = "confirmed", !.key = "own"]
<1>1. row \in Row /\ KeyFits(row)
  BY RowIsGood DEF Row, Statuses, Keys, KeyFits
<1>2. Begin(r, Call("save", "idle", i, row, 0))
  BY DEF Confirm, Arrive
<1> HIDE DEF row
<1> QED  BY <1>1, <1>2, RowIsGood, SavingKeeps

(* A transfer holds two rows. *)
LEMMA TransferKeeps ==
    ASSUME IInv, NEW r \in Requests, NEW u \in Users, NEW v \in Users,
           Transfer(r, u, v)
    PROVE  IInv'
<1> DEFINE i == First(RowsOf(u))
           j == First(RowsOf(v))
           row == [RowOf(u) EXCEPT !.role = "admin"]
           row2 == [RowOf(v) EXCEPT !.role = "owner"]
           c == Call("save", "promote", i, row, 0)
           f == [c EXCEPT !.id2 = j, !.row2 = row2]
<1>1. HasRow(u) /\ HasRow(v) /\ Begin(r, f)
  BY DEF Transfer, IsOwner, Arrive
<1>2. i \in 1..lastRow /\ row \in Row /\ KeyFits(row)
  BY <1>1, RowOfIsGood, RowIsGood DEF Row, Roles, KeyFits
<1>3. j \in 1..lastRow /\ row2 \in Row /\ KeyFits(row2)
  BY <1>1, RowOfIsGood, RowIsGood DEF Row, Roles, KeyFits
<1>4. "save" \in PCs /\ "promote" \in PCs
  BY DEF PCs
<1> HIDE DEF i, j, row, row2
<1>5. /\ c \in Frame
      /\ c.pc = "save" /\ c.then = "promote" /\ c.id = i /\ c.row = row
  <2>1. 0 \in Nat /\ i \in Nat /\ {} \in SUBSET Nat
    BY <1>2, Bounds
  <2>2. c = [pc |-> "save", then |-> "promote", id |-> i, row |-> row,
             id2 |-> 0, row2 |-> FounderRow, inv |-> 0, todo |-> {}]
    BY Zenon DEF Call
  <2> HIDE DEF c
  <2> QED  BY <1>2, <1>4, <2>1, <2>2, FounderIsGood DEF Frame
<1> HIDE DEF c
<1>6. f \in Frame
  <2> DEFINE g == [c EXCEPT !.id2 = j]
  <2>1. g \in Frame
    BY <1>3, <1>5, Bounds DEF Frame
  <2>2. f = [g EXCEPT !.row2 = row2]
    BY Zenon
  <2> HIDE DEF f, g
  <2> QED  BY <1>3, <2>1, <2>2 DEF Frame
<1>7. GoodFrame(f, lastRow)
  <2>1. /\ f.pc = "save" /\ f.then = "promote" /\ f.id = i /\ f.row = row
        /\ f.id2 = j /\ f.row2 = row2
    BY <1>5 DEF Frame
  <2> HIDE DEF f
  <2> QED  BY <1>2, <1>3, <1>6, <2>1, Bounds DEF GoodFrame
<1> HIDE DEF f
<1> QED  BY <1>1, <1>7, ArriveKeeps

LEMMA ManageKeeps ==
    ASSUME IInv, NEW r \in Requests, NEW by \in Users, Manage(r, by)
    PROVE  IInv'
<1>1. CASE DeleteOrganization(r, by)
  <2>1. Begin(r, Call("dissolve", "idle", 0, FounderRow, 0))
    BY <1>1 DEF DeleteOrganization, Arrive
  <2>2. "dissolve" \in PCs /\ "idle" \in PCs /\ 0 \in 0..lastRow
    BY Bounds DEF PCs
  <2> QED  BY <2>1, <2>2, FounderIsGood, OtherKeeps
<1> QED
  BY <1>1, InviteKeeps, ChangeRoleKeeps, RemoveKeeps, ConfirmKeeps, TransferKeeps
  DEF Manage

LEMMA AdministerKeeps ==
    ASSUME IInv, NEW r \in Requests, NEW u \in Users, Administer(r, u)
    PROVE  IInv'
<1>1. CASE DeleteAccount(r, u)
  BY <1>1, PurgingIsGood, ArriveKeeps DEF DeleteAccount, Arrive
<1>2. CASE DeleteAll(r, u)
  <2>1. Begin(r, Call("dissolve", "account", 0, Of(u), 0))
    BY <1>2 DEF DeleteAll, Arrive
  <2>2. "dissolve" \in PCs /\ "account" \in PCs /\ 0 \in 0..lastRow
    BY Bounds DEF PCs
  <2> QED  BY <2>1, <2>2, OfIsGood, OtherKeeps
<1> QED  BY <1>1, <1>2 DEF Administer

LEMMA ProvisionKeeps ==
    ASSUME IInv, NEW r \in Requests, NEW u \in Users, NEW role \in Roles,
           Provision(r, u, role)
    PROVE  IInv'
<1> DEFINE row == NewRow(u, role, "provisioned", "pending")
<1>1. row \in Row
  BY NewRowIsGood DEF Statuses, Keys
<1>2. KeyFits(row)
  BY DEF NewRow, KeyFits
<1>3. Begin(r, Call("insert", "idle", 0, row, 0))
  BY DEF Provision, Arrive
<1>4. "insert" \in PCs /\ "idle" \in PCs /\ 0 \in 0..lastRow
  BY Bounds DEF PCs
<1> HIDE DEF row
<1> QED  BY <1>1, <1>2, <1>3, <1>4, OtherKeeps

(* Suspending and confirming take a row to a status that asks for no key,  *)
(* and leaving the status alone keeps the row.                             *)
LEMMA StatusChangeIsGood ==
    ASSUME NEW row \in Row, KeyFits(row),
           NEW status \in {"suspended", "confirmed", row.status}
    PROVE  /\ [row EXCEPT !.status = status] \in Row
           /\ KeyFits([row EXCEPT !.status = status])
BY DEF Row, Statuses, KeyFits

LEMMA DirectoryKeeps ==
    ASSUME IInv, NEW r \in Requests, NEW u \in Users, Directory(r, u)
    PROVE  IInv'
<1>1. ASSUME NEW role \in {"member", SsoRole}, Provision(r, u, role)
      PROVE  IInv'
  <2>1. role \in Roles
    BY MembersAssumption DEF Roles
  <2> QED  BY <1>1, <2>1, ProvisionKeeps
<1>2. ASSUME HasRow(u), NEW status \in {"suspended", "confirmed", RowOf(u).status},
             Begin(r, Call("save", "idle", First(RowsOf(u)),
                            [RowOf(u) EXCEPT !.status = status], 0))
      PROVE  IInv'
  <2> DEFINE row == [RowOf(u) EXCEPT !.status = status]
  <2>1. row \in Row /\ KeyFits(row)
    BY <1>2, RowOfIsGood, StatusChangeIsGood
  <2>2. First(RowsOf(u)) \in 1..lastRow
    BY <1>2, RowOfIsGood, RowIsGood
  <2>3. Begin(r, Call("save", "idle", First(RowsOf(u)), row, 0))
    BY <1>2
  <2> HIDE DEF row
  <2> QED  BY <2>1, <2>2, <2>3, SavingKeeps
<1>3. ASSUME NEW active \in BOOLEAN, ScimUpdate(r, u, active)
      PROVE  IInv'
  <2> DEFINE status == IF ~active THEN "suspended"
                       ELSE IF RowOf(u).status = "suspended" THEN "confirmed"
                            ELSE RowOf(u).status
  <2>1. HasRow(u) /\ Begin(r, Call("save", "idle", First(RowsOf(u)),
                                    [RowOf(u) EXCEPT !.status = status], 0))
    BY <1>3 DEF ScimUpdate, Arrive
  <2>2. status \in {"suspended", "confirmed", RowOf(u).status}
    OBVIOUS
  <2> HIDE DEF status
  <2> QED  BY <1>2, <2>1, <2>2
<1>4. ASSUME NEW active \in BOOLEAN, ScimPatch(r, u, active)
      PROVE  IInv'
  <2> DEFINE status == IF active THEN "confirmed" ELSE "suspended"
  <2>1. HasRow(u) /\ Begin(r, Call("save", "idle", First(RowsOf(u)),
                                    [RowOf(u) EXCEPT !.status = status], 0))
    BY <1>4 DEF ScimPatch, Arrive
  <2>2. status \in {"suspended", "confirmed", RowOf(u).status}
    OBVIOUS
  <2> HIDE DEF status
  <2> QED  BY <1>2, <2>1, <2>2
<1>5. CASE ScimDelete(r, u)
  <2>1. HasRow(u) /\ Begin(r, Call("deprovision", "idle", First(RowsOf(u)),
                                    FounderRow, 0))
    BY <1>5 DEF ScimDelete, Arrive
  <2>2. First(RowsOf(u)) \in 0..lastRow
    BY <2>1, RowOfIsGood, RowIsGood, Bounds
  <2>3. "deprovision" \in PCs /\ "idle" \in PCs
    BY DEF PCs
  <2> QED  BY <2>1, <2>2, <2>3, FounderIsGood, OtherKeeps
<1> QED  BY <1>1, <1>3, <1>4, <1>5 DEF Directory
-----------------------------------------------------------------------------
(* Statements. *)

(* What the frame of a running request holds. *)
LEMMA HeldIsGood ==
    ASSUME IInv, NEW r \in Requests
    PROVE  /\ GoodFrame(req[r], lastRow) /\ req[r] \in Frame
           /\ req[r].row \in Row /\ KeyFits(req[r].row)
           /\ req[r].row2 \in Row /\ KeyFits(req[r].row2)
BY FrameFields DEF IInv, GoodFrame

(* A statement that only moves to the next one, or ends. *)
LEMMA MovingIsGood ==
    ASSUME IInv, NEW r \in Requests,
           NEW pc \in PCs \ {"save", "promote", "restore"},
           Goto(r, [req[r] EXCEPT !.pc = pc]) \/ Goto(r, Idle)
    PROVE  /\ req' \in [Requests -> Frame]
           /\ \A q \in Requests : GoodFrame(req'[q], lastRow)
<1>1. GoodFrame([req[r] EXCEPT !.pc = pc], lastRow)
  BY HeldIsGood DEF GoodFrame, Frame
<1> QED  BY <1>1, Bounds, IdleIsGood, FramesStayGood

(* What is left to show when the request's frame is good. *)
LEMMA ErasingKeeps ==
    ASSUME IInv, NEW ids, Erase(ids), Frozen,
           req' \in [Requests -> Frame],
           \A q \in Requests : GoodFrame(req'[q], lastRow)
    PROVE  IInv'
<1>1. GoodTable(Without(members, ids), lastRow)
  BY Bounds, WithoutIsGood DEF IInv
<1> QED  BY <1>1 DEF IInv, Erase, Frozen

LEMMA ForgettingKeeps ==
    ASSUME IInv, NEW ids, invites' = Without(invites, ids),
           UNCHANGED <<members, lastRow>>, Frozen,
           req' \in [Requests -> Frame],
           \A q \in Requests : GoodFrame(req'[q], lastRow)
    PROVE  IInv'
<1>1. GoodInvites(Without(invites, ids), lastInvite)
  BY Bounds, WithoutInvites DEF IInv
<1> QED  BY <1>1 DEF IInv, Frozen

LEMMA WritingKeeps ==
    ASSUME IInv, NEW id \in 1..lastRow, NEW row \in Row, KeyFits(row),
           Write(id, row),
           req' \in [Requests -> Frame],
           \A q \in Requests : GoodFrame(req'[q], lastRow)
    PROVE  IInv'
<1>1. GoodTable(Put(members, id, row), lastRow)
  BY Bounds, PutIsGood DEF IInv
<1> QED  BY <1>1 DEF IInv, Write, Frozen

LEMMA InviteRecordKeeps ==
    ASSUME IInv, NEW r \in Requests, InviteRecord(r)
    PROVE  IInv'
<1> DEFINE n == lastInvite + 1
           invite == [user |-> req[r].row.user, role |-> req[r].row.role]
<1>1. invite \in [user: Users, role: Roles]
  BY HeldIsGood DEF Row
<1>2. n \in 0..MaxInvites /\ lastInvite <= n /\ n \in 1..n
  BY Bounds, MembersAssumption DEF InviteRecord
<1>3. GoodInvites(Put(invites, n, invite), n)
  <2>1. DOMAIN invites \subseteq 1..n
    BY Bounds DEF IInv, GoodInvites
  <2>2. \A i \in DOMAIN invites : invites[i] \in [user: Users, role: Roles]
    BY DEF IInv, GoodInvites
  <2> HIDE DEF n, invite
  <2> QED  BY <1>1, <1>2, <2>1, <2>2 DEF GoodInvites, Put
<1>4. /\ req' \in [Requests -> Frame]
      /\ \A q \in Requests : GoodFrame(req'[q], lastRow)
  BY MovingIsGood DEF InviteRecord, PCs
<1>5. invites' = Put(invites, n, invite) /\ lastInvite' = n
      /\ UNCHANGED <<members, lastRow, accounts>>
  BY DEF InviteRecord
<1> HIDE DEF n, invite
<1> QED  BY <1>2, <1>3, <1>4, <1>5 DEF IInv

LEMMA InsertKeeps ==
    ASSUME IInv, NEW r \in Requests, Insert(r)
    PROVE  IInv'
<1>1. CASE req[r].row.user \notin accounts
  <2>1. Goto(r, Idle) /\ UNCHANGED <<members, lastRow, invites>> /\ Frozen
    BY <1>1 DEF Insert
  <2>2. /\ req' \in [Requests -> Frame]
        /\ \A q \in Requests : GoodFrame(req'[q], lastRow)
    BY <2>1, Bounds, IdleIsGood, FramesStayGood
  <2> QED  BY <2>1, <2>2 DEF IInv, Frozen
<1>2. CASE req[r].row.user \in accounts
  <2> DEFINE n == lastRow + 1
  <2>1. n \in 0..MaxRows /\ n \in Nat /\ lastRow <= n /\ n \in 1..n
    BY <1>2, Bounds, MembersAssumption DEF Insert
  <2>2. GoodTable(Put(members, n, req[r].row), n)
    <3>1. GoodTable(members, n)
      BY <2>1, Bounds, TableGrows DEF IInv
    <3> HIDE DEF n
    <3> QED  BY <2>1, <3>1, HeldIsGood, PutIsGood
  <2>3. /\ Then(r) /\ lastRow' = n /\ members' = Put(members, n, req[r].row)
        /\ UNCHANGED invites /\ Frozen
    BY <1>2 DEF Insert
  <2> HIDE DEF n
  <2>4. /\ req' \in [Requests -> Frame]
        /\ \A q \in Requests : GoodFrame(req'[q], n)
    BY <2>1, <2>3, ThenIsGood
  <2> QED  BY <2>1, <2>2, <2>3, <2>4 DEF IInv, Frozen
<1> QED  BY <1>1, <1>2

LEMMA SaveKeeps ==
    ASSUME IInv, NEW r \in Requests, Save(r)
    PROVE  IInv'
<1>1. req[r].id \in 1..lastRow
  BY HeldIsGood, FrameFields, Bounds DEF GoodFrame, Save
<1>2. /\ req' \in [Requests -> Frame]
      /\ \A q \in Requests : GoodFrame(req'[q], lastRow)
  BY Bounds, ThenIsGood DEF Save
<1> QED  BY <1>1, <1>2, HeldIsGood, WritingKeeps DEF Save

LEMMA PromoteKeeps ==
    ASSUME IInv, NEW r \in Requests, Promote(r)
    PROVE  IInv'
<1>1. req[r].id2 \in 1..lastRow
  BY HeldIsGood, FrameFields, Bounds DEF GoodFrame, Promote
<1>2. /\ req' \in [Requests -> Frame]
      /\ \A q \in Requests : GoodFrame(req'[q], lastRow)
  BY Bounds, IdleIsGood, FramesStayGood DEF Promote
<1> QED  BY <1>1, <1>2, HeldIsGood, WritingKeeps DEF Promote

LEMMA RestoreKeeps ==
    ASSUME IInv, NEW r \in Requests, Restore(r)
    PROVE  IInv'
<1> DEFINE row == [req[r].row EXCEPT !.role = "owner"]
<1>1. req[r].id \in 1..lastRow
  BY HeldIsGood, FrameFields, Bounds DEF GoodFrame, Restore
<1>2. row \in Row /\ KeyFits(row)
  BY HeldIsGood DEF Row, Roles, KeyFits
<1>3. /\ req' \in [Requests -> Frame]
      /\ \A q \in Requests : GoodFrame(req'[q], lastRow)
  BY Bounds, IdleIsGood, FramesStayGood DEF Restore
<1>4. Write(req[r].id, row)
  BY DEF Restore
<1> HIDE DEF row
<1> QED  BY <1>1, <1>2, <1>3, <1>4, WritingKeeps

(* A transfer that fails half way goes back to the row it demoted. *)
LEMMA PromoteRefusedKeeps ==
    ASSUME IInv, NEW r \in Requests, PromoteRefused(r)
    PROVE  IInv'
<1> DEFINE f == [req[r] EXCEPT !.pc = "restore"]
<1>1. GoodFrame(f, lastRow)
  BY HeldIsGood DEF PromoteRefused, GoodFrame, Frame, PCs
<1>2. Goto(r, f) /\ UNCHANGED <<members, lastRow, invites>> /\ Frozen
  BY DEF PromoteRefused
<1>3. /\ req' \in [Requests -> Frame]
      /\ \A q \in Requests : GoodFrame(req'[q], lastRow)
  <2> HIDE DEF f
  <2> QED  BY <1>1, <1>2, Bounds, FramesStayGood
<1> QED  BY <1>2, <1>3 DEF IInv, Frozen

LEMMA AccountCheckKeeps ==
    ASSUME IInv, NEW r \in Requests, AccountCheck(r)
    PROVE  IInv'
<1> DEFINE u == req[r].row.user
<1>1. u \in Users
  BY HeldIsGood DEF Row
<1>2. GoodFrame(Purging(u), lastRow) /\ GoodFrame(Idle, lastRow)
  BY <1>1, PurgingIsGood, IdleIsGood, Bounds
<1>3. PICK f \in {Purging(u), Idle} :
         Goto(r, f) /\ UNCHANGED <<members, lastRow, invites, lastInvite, accounts>>
  BY DEF AccountCheck
<1> HIDE DEF u
<1>4. /\ req' \in [Requests -> Frame]
      /\ \A q \in Requests : GoodFrame(req'[q], lastRow)
  BY <1>2, <1>3, Bounds, FramesStayGood
<1> QED  BY <1>3, <1>4 DEF IInv

LEMMA PurgeRowKeeps ==
    ASSUME IInv, NEW r \in Requests, PurgeRow(r)
    PROVE  IInv'
<1> DEFINE i == First(req[r].todo)
           pc == IF req[r].todo = {i} THEN "forget" ELSE "purge"
           f == [req[r] EXCEPT !.todo = @ \ {i}, !.pc = pc]
<1>1. pc \in PCs \ {"save", "promote", "restore"}
  BY DEF PCs
<1>2. Erase({i}) /\ Goto(r, f) /\ Frozen
  BY DEF PurgeRow
<1>3. GoodFrame(f, lastRow)
  <2> DEFINE g == [req[r] EXCEPT !.todo = req[r].todo \ {i}]
  <2> HIDE DEF pc, i
  <2>1. GoodFrame(g, lastRow)
    BY HeldIsGood DEF GoodFrame, Frame
  <2>2. f = [g EXCEPT !.pc = pc]
    BY Zenon
  <2> HIDE DEF f, g
  <2> QED  BY <1>1, <2>1, <2>2 DEF GoodFrame, Frame
<1> HIDE DEF f, i
<1>4. /\ req' \in [Requests -> Frame]
      /\ \A q \in Requests : GoodFrame(req'[q], lastRow)
  BY <1>2, <1>3, Bounds, FramesStayGood
<1> QED  BY <1>2, <1>4, ErasingKeeps

LEMMA DissolveKeeps ==
    ASSUME IInv, NEW r \in Requests, Dissolve(r)
    PROVE  IInv'
<1>1. GoodTable(Without(members, DOMAIN members), lastRow)
  BY Bounds, WithoutIsGood DEF IInv
<1>2. GoodInvites(Without(invites, DOMAIN invites), lastInvite)
  BY Bounds, WithoutInvites DEF IInv
<1>3. /\ req' \in [Requests -> Frame]
      /\ \A q \in Requests : GoodFrame(req'[q], lastRow)
  BY Bounds, ThenIsGood DEF Dissolve
<1> QED  BY <1>1, <1>2, <1>3 DEF IInv, Dissolve, Frozen

LEMMA CloseKeeps ==
    ASSUME IInv, NEW r \in Requests, Close(r)
    PROVE  IInv'
<1>1. /\ req' \in [Requests -> Frame]
      /\ \A q \in Requests : GoodFrame(req'[q], lastRow)
  BY Bounds, IdleIsGood, FramesStayGood DEF Close
<1> QED  BY <1>1 DEF IInv, Close

(* The statements that delete rows or invitations and then end or go on. *)
LEMMA DeletingKeeps ==
    ASSUME IInv, NEW r \in Requests,
           \/ Mark(r) \/ DeclineRow(r) \/ Drop(r)
           \/ RemoveRow(r) \/ Forget(r) \/ DeprovisionRow(r)
    PROVE  IInv'
<1>1. CASE Mark(r) \/ Drop(r) \/ Forget(r)
  <2>1. /\ req' \in [Requests -> Frame]
        /\ \A q \in Requests : GoodFrame(req'[q], lastRow)
    BY <1>1, MovingIsGood DEF Mark, Drop, Forget, PCs
  <2>2. PICK ids : /\ invites' = Without(invites, ids)
                   /\ UNCHANGED <<members, lastRow>>
                   /\ Frozen
    BY <1>1 DEF Mark, Drop, Forget
  <2> QED  BY <2>1, <2>2, ForgettingKeeps
<1>2. CASE DeclineRow(r) \/ RemoveRow(r) \/ DeprovisionRow(r)
  <2>1. /\ req' \in [Requests -> Frame]
        /\ \A q \in Requests : GoodFrame(req'[q], lastRow)
    <3>1. Then(r) \/ Goto(r, Idle)
      BY <1>2 DEF DeclineRow, RemoveRow, DeprovisionRow
    <3> QED  BY <3>1, Bounds, ThenIsGood, IdleIsGood, FramesStayGood
  <2>2. Erase({req[r].id}) /\ Frozen
    BY <1>2 DEF DeclineRow, RemoveRow, DeprovisionRow
  <2> QED  BY <2>1, <2>2, ErasingKeeps
<1> QED  BY <1>1, <1>2

LEMMA ContinueKeeps ==
    ASSUME IInv, NEW r \in Requests, Continue(r)
    PROVE  IInv'
BY InviteRecordKeeps, InsertKeeps, SaveKeeps, PromoteKeeps, RestoreKeeps,
   PromoteRefusedKeeps, AccountCheckKeeps, PurgeRowKeeps, DissolveKeeps,
   CloseKeeps, DeletingKeeps
DEF Continue

-----------------------------------------------------------------------------
(* The invariant holds. *)

LEMMA InitIInv ==
    ASSUME Init
    PROVE  IInv
<1>1. GoodTable(members, lastRow) /\ lastRow \in 0..MaxRows /\ lastRow \in Nat
  BY MembersAssumption, FounderIsGood DEF Init, GoodTable
<1>2. GoodInvites(invites, lastInvite) /\ lastInvite \in 0..MaxInvites
  BY MembersAssumption DEF Init, GoodInvites
<1>3. \A r \in Requests : GoodFrame(Idle, lastRow) /\ Idle \in Frame
  BY <1>1, IdleIsGood
<1>4. req = [r \in Requests |-> Idle] /\ accounts = Users
  BY DEF Init
<1> QED  BY <1>1, <1>2, <1>3, <1>4 DEF IInv

LEMMA NextKeeps ==
    ASSUME IInv, [Next]_vars
    PROVE  IInv'
<1>1. CASE UNCHANGED vars
  BY <1>1 DEF vars, IInv
<1>2. ASSUME NEW r \in Requests, Fail(r)
      PROVE  IInv'
  <2>1. /\ req' \in [Requests -> Frame]
        /\ \A q \in Requests : GoodFrame(req'[q], lastRow)
    BY <1>2, Bounds, IdleIsGood, FramesStayGood DEF Fail
  <2> QED  BY <1>2, <2>1 DEF IInv, Fail, Frozen
<1>3. ASSUME NEW i \in DOMAIN invites, Lapse(i)
      PROVE  IInv'
  BY <1>3, ForgettingKeeps DEF Lapse, IInv
<1>4. CASE Next
  BY <1>2, <1>3, <1>4, AnswerKeeps, ManageKeeps, AdministerKeeps,
     DirectoryKeeps, ContinueKeeps
  DEF Next
<1> QED  BY <1>1, <1>4

LEMMA IInvAlways == Spec => []IInv
<1>1. Init => IInv
  BY InitIInv
<1>2. IInv /\ [Next]_vars => IInv'
  BY NextKeeps
<1> QED  BY <1>1, <1>2, PTL DEF Spec

(* What a read that failed unnoticed was about. *)
MisreadTyped == misread \subseteq {"membership", "ownership"} \X Users

LEMMA DeniedGrows ==
    ASSUME NEW u, NotFound(u) \/ NotSole(u)
    PROVE  /\ misread \subseteq misread'
           /\ misread' \subseteq misread \cup
                 {<<"membership", u>>, <<"ownership", u>>}
           /\ NotFound(u) => ~HasRow(u) \/ <<"membership", u>> \in misread'
           /\ NotSole(u) => ~SoleOwner(u) \/ <<"ownership", u>> \in misread'
<1>1. CASE NotFound(u)
  BY <1>1 DEF NotFound, NotSole, Denied
<1>2. CASE NotSole(u)
  BY <1>2 DEF NotFound, NotSole, Denied
<1> QED  BY <1>1, <1>2

LEMMA MisreadStep ==
    ASSUME IInv, [Next]_vars
    PROVE  \/ UNCHANGED misread
           \/ \E u \in Users : NotFound(u) \/ NotSole(u)
<1>1. ASSUME NEW r \in Requests, Answer(r)
      PROVE  UNCHANGED misread \/ \E u \in Users : NotFound(u)
  <2>1. \A i \in DOMAIN invites : invites[i].user \in Users
    BY DEF IInv, GoodInvites
  <2> QED  BY <1>1, <2>1 DEF Answer, AcceptRow, AcceptInvite, Decline, SignInJoin, Arrive
<1>2. ASSUME NEW r \in Requests, NEW u \in Users, Manage(r, u)
      PROVE  UNCHANGED misread \/ \E w \in Users : NotFound(w)
  BY <1>2 DEF Manage, Invite, ChangeRole, Remove, Confirm, Transfer,
              DeleteOrganization, Arrive
<1>3. ASSUME NEW r \in Requests, NEW u \in Users,
             Administer(r, u) \/ Directory(r, u)
      PROVE  UNCHANGED misread \/ NotFound(u) \/ NotSole(u)
  BY <1>3 DEF Administer, DeleteAccount, DeleteAll, Directory, Provision,
              ScimUpdate, ScimPatch, ScimDelete, Arrive
<1>4. ASSUME NEW r \in Requests, AccountCheck(r)
      PROVE  UNCHANGED misread \/ \E u \in Users : NotSole(u)
  <2>1. req[r].row.user \in Users
    BY HeldIsGood DEF Row
  <2> QED  BY <1>4, <2>1 DEF AccountCheck
<1>5. ASSUME NEW r \in Requests, Continue(r), ~AccountCheck(r)
      PROVE  UNCHANGED misread
  BY <1>5 DEF Continue, InviteRecord, Insert, Save, Mark, DeclineRow, Drop,
              RemoveRow, Promote, PromoteRefused, Restore, Dissolve, PurgeRow,
              Forget, Close, DeprovisionRow, Write, Frozen
<1>6. ASSUME NEW r \in Requests, Fail(r)
      PROVE  UNCHANGED misread
  BY <1>6 DEF Fail, Frozen
<1>7. ASSUME NEW i, Lapse(i)
      PROVE  UNCHANGED misread
  BY <1>7 DEF Lapse, Frozen
<1> QED  BY <1>1, <1>2, <1>3, <1>4, <1>5, <1>6, <1>7 DEF Next, vars

LEMMA MisreadAlways == Spec => []MisreadTyped
<1>1. Init => MisreadTyped
  BY DEF Init, MisreadTyped
<1>2. IInv /\ MisreadTyped /\ [Next]_vars => MisreadTyped'
  <2>1. ASSUME IInv, MisreadTyped, [Next]_vars
        PROVE  MisreadTyped'
    <3>1. ASSUME NEW u \in Users, NotFound(u) \/ NotSole(u)
          PROVE  MisreadTyped'
      <4>1. misread' \subseteq misread \cup
               {<<"membership", u>>, <<"ownership", u>>}
        BY <3>1, DeniedGrows
      <4> QED  BY <2>1, <4>1 DEF MisreadTyped
    <3> QED  BY <2>1, <3>1, MisreadStep DEF MisreadTyped
  <2> QED  BY <2>1
<1> QED  BY <1>1, <1>2, IInvAlways, PTL DEF Spec

(* The tables and the frames keep their types: no request, however late it *)
(* writes the row it read, stores an id or a value the code does not know. *)
THEOREM MembershipTypeCorrect == Spec => []TypeOK
<1>1. IInv /\ MisreadTyped => TypeOK
  BY DEF IInv, TypeOK, GoodTable, GoodInvites, MisreadTyped
<1> QED  BY <1>1, IInvAlways, MisreadAlways, PTL

(* Status and key agree in every row, for any number of concurrent         *)
(* requests that write whole rows back (organization_service.go,           *)
(* scim_service.go: gorm Save).                                            *)
THEOREM KeysFit == Spec => []KeyFitsStatus
<1>1. IInv => KeyFitsStatus
  BY DEF IInv, KeyFitsStatus, GoodTable
<1> QED  BY <1>1, IInvAlways, PTL

-----------------------------------------------------------------------------
(* One request at a time.  What a request read is then still true when it  *)
(* writes, failures or not, and every property of the sequential run       *)
(* follows from one invariant of the tables m (memberships), v             *)
(* (invitations) and a (accounts) and the frame f of the request.          *)

OwnerIds(m) == {i \in DOMAIN m : m[i].role = "owner"}

Apart(m, x) ==
    \A i, j \in DOMAIN m :
        m[i].user = m[j].user => i = j \/ <<"membership", m[i].user>> \in x

Known(table, a) == \A i \in DOMAIN table : table[i].user \in a

Sound(m, v, a, x) == Apart(m, x) /\ Known(m, a) /\ Known(v, a)

(* Only a transfer writes two rows. *)
Sequel(f) ==
    /\ f.then \in {"idle", "mark", "drop", "promote", "account"}
    /\ f.then = "promote" => f.pc = "save"

(* A row is written over the one it was read from, an owner's row by an    *)
(* owner's except in a transfer, and whoever accepts keeps the role.       *)
Writing(f, m) ==
    /\ f.pc \in {"save", "promote", "restore"} =>
          f.id \in DOMAIN m /\ m[f.id].user = f.row.user
    /\ f.pc = "save" /\ f.then # "promote" /\ m[f.id].role = "owner" =>
          f.row.role = "owner"
    /\ f.pc = "save" /\ f.then \in {"mark", "drop"} =>
          f.row.role = m[f.id].role
    /\ f.pc = "promote" \/ f.then = "promote" =>
          /\ f.id2 \in DOMAIN m /\ m[f.id2].user = f.row2.user
          /\ f.row2.role = "owner"

(* Whoever is about to become a member is none yet, or was not found. *)
Inserting(f, m, a, x) ==
    /\ f.pc \in {"invite", "insert"} =>
          \/ \A i \in DOMAIN m : m[i].user # f.row.user
          \/ <<"membership", f.row.user>> \in x
    /\ f.pc = "invite" => f.row.user \in a

(* A read about u failed unnoticed. *)
Doubted(u, x) == {<<"membership", u>>, <<"ownership", u>>} \cap x # {}

(* Neither a removal nor the deletion of an account takes the last owner,  *)
(* unless a read about whose account it is failed unnoticed, and an        *)
(* account is closed after its invitations are gone.                       *)
Deleting(f, m, v, x) ==
    /\ f.pc = "remove" => f.id \notin OwnerIds(m)
    /\ f.pc = "purge" =>
          /\ f.todo # {}
          /\ \/ Doubted(f.row.user, x)
             \/ OwnerIds(m) # {} => OwnerIds(m) \ f.todo # {}
    /\ f.pc = "close" => \A i \in DOMAIN v : v[i].user # f.row.user

Fits(f, m, v, a, x) ==
    Sequel(f) /\ Writing(f, m) /\ Inserting(f, m, a, x) /\ Deleting(f, m, v, x)

SerialInv(r) ==
    /\ Sound(members, invites, accounts, misread)
    /\ Fits(req[r], members, invites, accounts, misread)

(* The statements at which a frame promises something. *)
Promising ==
    {"save", "promote", "restore", "invite", "insert", "remove", "purge", "close"}

LEMMA CalmFits ==
    ASSUME NEW f, NEW m, NEW v, NEW a, NEW x, f.pc \notin Promising,
           f.then \in {"idle", "mark", "drop", "account"}
    PROVE  Fits(f, m, v, a, x)
BY DEF Promising, Fits, Sequel, Writing, Inserting, Deleting

LEMMA CallFields ==
    ASSUME NEW pc, NEW then, NEW id, NEW row, NEW i
    PROVE  /\ Call(pc, then, id, row, i).pc = pc
           /\ Call(pc, then, id, row, i).then = then
           /\ Call(pc, then, id, row, i).id = id
           /\ Call(pc, then, id, row, i).row = row
BY DEF Call

LEMMA SaveFits ==
    ASSUME NEW m, NEW v, NEW a, NEW x, NEW id \in DOMAIN m, NEW row, NEW i,
           NEW then \in {"idle", "mark", "drop"},
           row.user = m[id].user,
           m[id].role = "owner" => row.role = "owner",
           then \in {"mark", "drop"} => row.role = m[id].role
    PROVE  Fits(Call("save", then, id, row, i), m, v, a, x)
<1> DEFINE f == Call("save", then, id, row, i)
<1>1. f.pc = "save" /\ f.then = then /\ f.id = id /\ f.row = row
  BY CallFields
<1> HIDE DEF f
<1>2. Fits(f, m, v, a, x)
  BY <1>1 DEF Fits, Sequel, Writing, Inserting, Deleting
<1> QED  BY <1>2 DEF f

LEMMA InsertFits ==
    ASSUME NEW m, NEW v, NEW a, NEW x, NEW row, NEW i,
           NEW then \in {"idle", "mark", "drop"},
           \/ \A j \in DOMAIN m : m[j].user # row.user
           \/ <<"membership", row.user>> \in x
    PROVE  Fits(Call("insert", then, 0, row, i), m, v, a, x)
<1> DEFINE f == Call("insert", then, 0, row, i)
<1>1. f.pc = "insert" /\ f.then = then /\ f.row = row
  BY CallFields
<1> HIDE DEF f
<1>2. Fits(f, m, v, a, x)
  BY <1>1 DEF Fits, Sequel, Writing, Inserting, Deleting
<1> QED  BY <1>2 DEF f

LEMMA CalmCallFits ==
    ASSUME NEW m, NEW v, NEW a, NEW x, NEW pc, pc \notin Promising,
           NEW then \in {"idle", "mark", "drop", "account"},
           NEW id, NEW row, NEW i
    PROVE  Fits(Call(pc, then, id, row, i), m, v, a, x)
<1> DEFINE f == Call(pc, then, id, row, i)
<1>1. f.pc = pc /\ f.then = then
  BY CallFields
<1> HIDE DEF f
<1>2. Fits(f, m, v, a, x)
  BY <1>1, CalmFits
<1> QED  BY <1>2 DEF f

LEMMA IdleFits ==
    ASSUME NEW m, NEW v, NEW a, NEW x
    PROVE  Fits(Idle, m, v, a, x)
BY CalmCallFits DEF Idle, Promising

(* A request that ended or moved on, the tables being sound after it. *)
LEMMA FrameIs ==
    ASSUME IInv, NEW r \in Requests, NEW f, Goto(r, f)
    PROVE  req'[r] = f
BY DEF IInv, Goto

LEMMA ArriveSerial ==
    ASSUME IInv, NEW r \in Requests, SerialInv(r), NEW f, Begin(r, f),
           misread \subseteq misread',
           Fits(f, members, invites, accounts, misread')
    PROVE  SerialInv(r)'
<1>1. req'[r] = f
  BY FrameIs DEF Begin
<1>2. UNCHANGED <<members, invites, accounts>>
  BY DEF Begin
<1>3. Sound(members, invites, accounts, misread')
  BY DEF SerialInv, Sound, Apart
<1> QED  BY <1>1, <1>2, <1>3 DEF SerialInv

LEMMA AwareSerial ==
    ASSUME IInv, NEW r \in Requests, SerialInv(r), NEW f, Arrive(r, f),
           Fits(f, members, invites, accounts, misread)
    PROVE  SerialInv(r)'
<1>1. misread' = misread /\ Begin(r, f)
  BY DEF Arrive
<1>2. Fits(f, members, invites, accounts, misread')
  BY <1>1
<1> QED  BY <1>1, <1>2, ArriveSerial

LEMMA NoRow ==
    ASSUME NEW u, ~HasRow(u)
    PROVE  \A i \in DOMAIN members : members[i].user # u
BY DEF HasRow, RowsOf

(* Whoever was not found is inserted. *)
LEMMA InsertingSerial ==
    ASSUME IInv, NEW r \in Requests, SerialInv(r), NEW u, NotFound(u),
           NEW row, row.user = u, NEW then \in {"idle", "mark", "drop"}, NEW i,
           Begin(r, Call("insert", then, 0, row, i))
    PROVE  SerialInv(r)'
<1>1. /\ misread \subseteq misread'
      /\ ~HasRow(u) \/ <<"membership", u>> \in misread'
  BY DeniedGrows
<1>2. Fits(Call("insert", then, 0, row, i), members, invites, accounts, misread')
  BY <1>1, NoRow, InsertFits
<1> QED  BY <1>1, <1>2, ArriveSerial

LEMMA AnswerSerial ==
    ASSUME IInv, NEW r \in Requests, SerialInv(r), Answer(r)
    PROVE  SerialInv(r)'
<1>1. ASSUME NEW i \in DOMAIN members, AcceptRow(r, i)
      PROVE  SerialInv(r)'
  <2> DEFINE row == Accepted(members[i])
  <2>1. row.user = members[i].user /\ row.role = members[i].role
    BY RowIsGood DEF Accepted, Row
  <2>2. Arrive(r, Call("save", "mark", i, row, 0))
    BY <1>1 DEF AcceptRow
  <2> HIDE DEF row
  <2> QED  BY <2>1, <2>2, SaveFits, AwareSerial
<1>2. ASSUME NEW i \in DOMAIN invites, AcceptInvite(r, i)
      PROVE  SerialInv(r)'
  <2> DEFINE u == invites[i].user
             row == NewRow(u, invites[i].role, "accepted", "own")
             old == Accepted(RowOf(u))
  <2>1. CASE /\ HasRow(u)
             /\ Arrive(r, Call("save", "mark", First(RowsOf(u)), old, i))
    <3>1. Arrive(r, Call("save", "mark", First(RowsOf(u)), old, i))
      BY <2>1
    <3>2. /\ First(RowsOf(u)) \in DOMAIN members
          /\ RowOf(u) = members[First(RowsOf(u))] /\ RowOf(u) \in Row
      BY <2>1, RowOfIsGood
    <3>3. old.user = RowOf(u).user /\ old.role = RowOf(u).role
      BY <3>2 DEF Accepted, Row
    <3> HIDE DEF u, old
    <3> QED  BY <3>1, <3>2, <3>3, SaveFits, AwareSerial
  <2>2. CASE NotFound(u) /\ Begin(r, Call("insert", "mark", 0, row, i))
    <3>2. row.user = u
      BY DEF NewRow
    <3> HIDE DEF u, row
    <3> QED  BY <2>2, <3>2, InsertingSerial
  <2> QED  BY <1>2, <2>1, <2>2 DEF AcceptInvite
<1>3. ASSUME NEW i \in DOMAIN invites, Decline(r, i)
      PROVE  SerialInv(r)'
  BY <1>3, CalmCallFits, AwareSerial DEF Decline, Promising
<1>4. ASSUME NEW i \in DOMAIN invites, SignInJoin(r, i)
      PROVE  SerialInv(r)'
  <2> DEFINE u == invites[i].user
             row == NewRow(u, invites[i].role, "accepted", "given")
             old == [RowOf(u) EXCEPT !.status = "accepted", !.key = "given"]
  <2>1. CASE HasRow(u) /\ Arrive(r, Call("save", "drop", First(RowsOf(u)), old, i))
    <3>1. /\ First(RowsOf(u)) \in DOMAIN members
          /\ RowOf(u) = members[First(RowsOf(u))] /\ RowOf(u) \in Row
      BY <2>1, RowOfIsGood
    <3>2. old.user = RowOf(u).user /\ old.role = RowOf(u).role
      BY <3>1 DEF Row
    <3> HIDE DEF u, old
    <3> QED  BY <2>1, <3>1, <3>2, SaveFits, AwareSerial
  <2>2. CASE Arrive(r, Call("drop", "idle", 0, FounderRow, i))
    BY <2>2, CalmCallFits, AwareSerial DEF Promising
  <2>3. CASE ~HasRow(u) /\ Arrive(r, Call("insert", "drop", 0, row, i))
    <3>1. row.user = u
      BY DEF NewRow
    <3> HIDE DEF u, row
    <3> QED  BY <2>3, <3>1, NoRow, InsertFits, AwareSerial
  <2> QED  BY <1>4, <2>1, <2>2, <2>3 DEF SignInJoin
<1> QED  BY <1>1, <1>2, <1>3, <1>4 DEF Answer

LEMMA InviteSerial ==
    ASSUME IInv, NEW r \in Requests, SerialInv(r), NEW by \in Users,
           NEW u \in Users, NEW role \in AskedRoles, Invite(r, by, u, role)
    PROVE  SerialInv(r)'
<1> DEFINE row == NewRow(u, role, "invited", "given")
           f == Call("invite", "idle", 0, row, 0)
<1>1. f.pc = "invite" /\ f.then = "idle" /\ f.row = row
  BY CallFields
<1>2. row.user = u
  BY DEF NewRow
<1>3. /\ misread \subseteq misread'
      /\ \/ \A i \in DOMAIN members : members[i].user # u
         \/ <<"membership", u>> \in misread'
  BY NoRow, DeniedGrows DEF Invite
<1>4. u \in accounts /\ Begin(r, f)
  BY DEF Invite
<1> HIDE DEF f, row
<1>5. Fits(f, members, invites, accounts, misread')
  BY <1>1, <1>2, <1>3, <1>4 DEF Fits, Sequel, Writing, Inserting, Deleting
<1> QED  BY <1>3, <1>4, <1>5, ArriveSerial

(* Whoever is not the sole owner leaves another one: the memberships that  *)
(* the deletion of an account lists are one at most, if no read failed.    *)
LEMMA PurgingFits ==
    ASSUME IInv, NEW u, NotSole(u), Sound(members, invites, accounts, misread)
    PROVE  Fits(Purging(u), members, invites, accounts, misread')
<1> DEFINE c == Call(IF HasRow(u) THEN "purge" ELSE "forget", "idle", 0, Of(u), 0)
           f == [c EXCEPT !.todo = RowsOf(u)]
<1>1. /\ f.pc = IF HasRow(u) THEN "purge" ELSE "forget"
      /\ f.then = "idle" /\ f.todo = RowsOf(u) /\ f.row.user = u
  BY DEF Call, Of, FounderRow, NewRow
<1>2. CASE ~HasRow(u)
  <2>1. f.pc = "forget" /\ f.then = "idle"
    BY <1>1, <1>2
  <2> HIDE DEF f
  <2>2. Fits(f, members, invites, accounts, misread')
    BY <2>1, CalmFits DEF Promising
  <2> QED  BY <2>2 DEF f, Purging
<1>3. CASE HasRow(u)
  <2>1. /\ f.pc = "purge" /\ f.then = "idle" /\ f.todo = RowsOf(u)
        /\ f.row.user = u /\ RowsOf(u) # {}
    BY <1>1, <1>3 DEF HasRow
  <2>2. ASSUME Owners # {}, ~Doubted(u, misread')
        PROVE  Owners \ RowsOf(u) # {}
    <3>0. ~SoleOwner(u) /\ <<"membership", u>> \notin misread
      BY <2>2, DeniedGrows DEF Doubted
    <3>1. SUFFICES ASSUME Owners \subseteq RowsOf(u)
                   PROVE  FALSE
      OBVIOUS
    <3>2. PICK i \in Owners : TRUE
      BY <2>2
    <3>3. i \in DOMAIN members /\ members[i].user = u
      BY <3>1 DEF RowsOf
    <3>4. ASSUME NEW j \in Owners
          PROVE  j = i
      <4>1. j \in DOMAIN members /\ members[j].user = u
        BY <3>1 DEF RowsOf
      <4> QED  BY <3>0, <3>3, <4>1 DEF Sound, Apart
    <3>5. Owners = {i}
      BY <3>2, <3>4
    <3>6. Cardinality(Owners) = 1
      BY <3>5, FS_Singleton
    <3> QED  BY <3>0, <3>2, <3>3, <3>6 DEF SoleOwner
  <2>3. OwnerIds(members) = Owners
    BY DEF OwnerIds, Owners
  <2> HIDE DEF f
  <2>4. Fits(f, members, invites, accounts, misread')
    BY <2>1, <2>2, <2>3 DEF Fits, Sequel, Writing, Inserting, Deleting
  <2> QED  BY <2>4 DEF f, Purging
<1> QED  BY <1>2, <1>3

LEMMA TransferSerial ==
    ASSUME IInv, NEW r \in Requests, SerialInv(r), NEW u, NEW w,
           Transfer(r, u, w)
    PROVE  SerialInv(r)'
<1> DEFINE id == First(RowsOf(u))
           row == [RowOf(u) EXCEPT !.role = "admin"]
           id2 == First(RowsOf(w))
           row2 == [RowOf(w) EXCEPT !.role = "owner"]
           c == Call("save", "promote", id, row, 0)
           f == [c EXCEPT !.id2 = id2, !.row2 = row2]
<1>1. HasRow(u) /\ HasRow(w)
  BY DEF Transfer, IsOwner
<1>2. /\ id \in DOMAIN members /\ RowOf(u) = members[id] /\ RowOf(u) \in Row
      /\ id2 \in DOMAIN members /\ RowOf(w) = members[id2] /\ RowOf(w) \in Row
  BY <1>1, RowOfIsGood
<1>3. row.user = RowOf(u).user /\ row2.user = RowOf(w).user /\ row2.role = "owner"
  BY <1>2 DEF Row
<1>4. Arrive(r, f)
  BY DEF Transfer
<1> HIDE DEF id, id2, row, row2
<1>5. /\ f.pc = "save" /\ f.then = "promote" /\ f.id = id /\ f.row = row
      /\ f.id2 = id2 /\ f.row2 = row2
  BY DEF Call
<1> HIDE DEF f
<1>6. Fits(f, members, invites, accounts, misread)
  BY <1>2, <1>3, <1>5 DEF Fits, Sequel, Writing, Inserting, Deleting
<1> QED  BY <1>4, <1>6, AwareSerial

LEMMA ManageSerial ==
    ASSUME IInv, NEW r \in Requests, SerialInv(r), NEW by \in Users, Manage(r, by)
    PROVE  SerialInv(r)'
<1>1. ASSUME NEW i \in DOMAIN members, NEW role, ChangeRole(r, by, i, role)
      PROVE  SerialInv(r)'
  <2> DEFINE row == [members[i] EXCEPT !.role = role]
  <2>1. row.user = members[i].user /\ members[i].role # "owner"
    BY <1>1, RowIsGood DEF ChangeRole, Row
  <2>2. Arrive(r, Call("save", "idle", i, row, 0))
    BY <1>1 DEF ChangeRole
  <2> HIDE DEF row
  <2> QED  BY <2>1, <2>2, SaveFits, AwareSerial
<1>2. ASSUME NEW i \in DOMAIN members, Remove(r, by, i)
      PROVE  SerialInv(r)'
  <2> DEFINE f == Call("remove", "idle", i, FounderRow, 0)
  <2>1. f.pc = "remove" /\ f.then = "idle" /\ f.id = i
    BY CallFields
  <2>2. Arrive(r, f) /\ i \notin OwnerIds(members)
    BY <1>2 DEF Remove, OwnerIds
  <2> HIDE DEF f
  <2>3. Fits(f, members, invites, accounts, misread)
    BY <2>1, <2>2 DEF Fits, Sequel, Writing, Inserting, Deleting
  <2> QED  BY <2>2, <2>3, AwareSerial
<1>3. ASSUME NEW i \in DOMAIN members, Confirm(r, by, i)
      PROVE  SerialInv(r)'
  <2> DEFINE row == [members[i] EXCEPT !.status = "confirmed", !.key = "own"]
  <2>1. row.user = members[i].user /\ row.role = members[i].role
    BY RowIsGood DEF Row
  <2>2. Arrive(r, Call("save", "idle", i, row, 0))
    BY <1>3 DEF Confirm
  <2> HIDE DEF row
  <2> QED  BY <2>1, <2>2, SaveFits, AwareSerial
<1>4. ASSUME DeleteOrganization(r, by)
      PROVE  SerialInv(r)'
  BY <1>4, CalmCallFits, AwareSerial DEF DeleteOrganization, Promising
<1> QED  BY <1>1, <1>2, <1>3, <1>4, InviteSerial, TransferSerial DEF Manage

LEMMA AdministerSerial ==
    ASSUME IInv, NEW r \in Requests, SerialInv(r), NEW u \in Users, Administer(r, u)
    PROVE  SerialInv(r)'
<1>1. CASE DeleteAccount(r, u)
  BY <1>1, PurgingFits, DeniedGrows, ArriveSerial DEF DeleteAccount, SerialInv
<1>2. CASE DeleteAll(r, u)
  BY <1>2, CalmCallFits, AwareSerial DEF DeleteAll, Promising
<1> QED  BY <1>1, <1>2 DEF Administer

(* The directory changes the status of a row and nothing else.             *)
LEMMA StatusSerial ==
    ASSUME IInv, NEW r \in Requests, SerialInv(r), NEW u, HasRow(u), NEW status,
           Arrive(r, Call("save", "idle", First(RowsOf(u)),
                          [RowOf(u) EXCEPT !.status = status], 0))
    PROVE  SerialInv(r)'
<1> DEFINE row == [RowOf(u) EXCEPT !.status = status]
<1>1. /\ First(RowsOf(u)) \in DOMAIN members
      /\ RowOf(u) = members[First(RowsOf(u))] /\ RowOf(u) \in Row
  BY RowOfIsGood
<1>2. row.user = RowOf(u).user /\ row.role = RowOf(u).role
  BY <1>1 DEF Row
<1>3. Arrive(r, Call("save", "idle", First(RowsOf(u)), row, 0))
  OBVIOUS
<1> HIDE DEF row
<1> QED  BY <1>1, <1>2, <1>3, SaveFits, AwareSerial

LEMMA DirectorySerial ==
    ASSUME IInv, NEW r \in Requests, SerialInv(r), NEW u \in Users, Directory(r, u)
    PROVE  SerialInv(r)'
<1>1. ASSUME NEW role, Provision(r, u, role)
      PROVE  SerialInv(r)'
  <2> DEFINE row == NewRow(u, role, "provisioned", "pending")
  <2>1. row.user = u
    BY DEF NewRow
  <2>2. Begin(r, Call("insert", "idle", 0, row, 0)) /\ NotFound(u)
    BY <1>1 DEF Provision
  <2> HIDE DEF row
  <2> QED  BY <2>1, <2>2, InsertingSerial
<1>2. ASSUME NEW active \in BOOLEAN, ScimUpdate(r, u, active)
      PROVE  SerialInv(r)'
  <2> DEFINE status == IF ~active THEN "suspended"
                       ELSE IF RowOf(u).status = "suspended" THEN "confirmed"
                       ELSE RowOf(u).status
  <2>1. /\ HasRow(u)
        /\ Arrive(r, Call("save", "idle", First(RowsOf(u)),
                          [RowOf(u) EXCEPT !.status = status], 0))
    BY <1>2 DEF ScimUpdate
  <2> HIDE DEF status
  <2> QED  BY <2>1, StatusSerial
<1>3. ASSUME NEW active \in BOOLEAN, ScimPatch(r, u, active)
      PROVE  SerialInv(r)'
  <2> DEFINE status == IF active THEN "confirmed" ELSE "suspended"
  <2>1. /\ HasRow(u)
        /\ Arrive(r, Call("save", "idle", First(RowsOf(u)),
                          [RowOf(u) EXCEPT !.status = status], 0))
    BY <1>3 DEF ScimPatch
  <2> HIDE DEF status
  <2> QED  BY <2>1, StatusSerial
<1>4. ASSUME ScimDelete(r, u)
      PROVE  SerialInv(r)'
  BY <1>4, CalmCallFits, AwareSerial DEF ScimDelete, Promising
<1> QED  BY <1>1, <1>2, <1>3, <1>4 DEF Directory

(* What the statements do to tables that are sound. *)
LEMMA OverwritingSound ==
    ASSUME NEW m, NEW v, NEW a, NEW x, Sound(m, v, a, x), NEW id \in DOMAIN m, NEW row,
           row.user = m[id].user
    PROVE  /\ Sound(Put(m, id, row), v, a, x)
           /\ DOMAIN Put(m, id, row) = DOMAIN m
           /\ \A i \in DOMAIN m : Put(m, id, row)[i].user = m[i].user
           /\ \A i \in DOMAIN m : Put(m, id, row)[i] = IF i = id THEN row ELSE m[i]
<1>1. DOMAIN Put(m, id, row) = DOMAIN m
  BY DEF Put
<1>2. \A i \in DOMAIN m : Put(m, id, row)[i] = IF i = id THEN row ELSE m[i]
  BY DEF Put
<1>3. \A i \in DOMAIN m : Put(m, id, row)[i].user = m[i].user
  BY <1>2
<1> QED  BY <1>1, <1>2, <1>3 DEF Sound, Apart, Known

LEMMA ErasingSound ==
    ASSUME NEW m, NEW v, NEW a, NEW x, Sound(m, v, a, x), NEW ids
    PROVE  Sound(Without(m, ids), v, a, x) /\ Sound(m, Without(v, ids), a, x)
BY DEF Sound, Apart, Known, Without

(* The frame after a statement that a transfer does not use. *)
LEMMA ThenFits ==
    ASSUME IInv, NEW r \in Requests, SerialInv(r), Then(r),
           req[r].then # "promote", NEW m, NEW v, NEW a, NEW x
    PROVE  Fits(req'[r], m, v, a, x)
<1> DEFINE f == IF req[r].then = "idle" THEN Idle
                ELSE [req[r] EXCEPT !.pc = req[r].then, !.then = "idle"]
<1>1. req'[r] = f
  BY FrameIs DEF Then
<1>2. CASE req[r].then = "idle"
  BY <1>1, <1>2, IdleFits
<1>3. CASE req[r].then # "idle"
  <2>1. req[r].then \in {"mark", "drop", "account"}
    BY <1>3 DEF SerialInv, Fits, Sequel
  <2>2. f.pc = req[r].then /\ f.then = "idle"
    BY <1>3, HeldIsGood DEF Frame
  <2> HIDE DEF f
  <2> QED  BY <1>1, <2>1, <2>2, CalmFits DEF Promising
<1> QED  BY <1>2, <1>3

LEMMA InviteRecordSerial ==
    ASSUME IInv, NEW r \in Requests, SerialInv(r), InviteRecord(r)
    PROVE  SerialInv(r)'
<1> DEFINE f == req[r]
           g == [f EXCEPT !.pc = "insert"]
           n == lastInvite + 1
           invite == [user |-> f.row.user, role |-> f.row.role]
<1>1. /\ f \in Frame /\ f.pc = "invite"
      /\ Fits(f, members, invites, accounts, misread) /\ Sound(members, invites, accounts, misread)
  BY HeldIsGood DEF InviteRecord, SerialInv
<1>2. req'[r] = g
  BY FrameIs DEF InviteRecord
<1>3. invites' = Put(invites, n, invite) /\ UNCHANGED <<members, accounts, misread>>
  BY DEF InviteRecord
<1>4. invite.user = f.row.user
  OBVIOUS
<1> HIDE DEF f, invite, n
<1>5. g.pc = "insert" /\ g.then = f.then /\ g.row = f.row
  BY <1>1 DEF Frame
<1> HIDE DEF g
<1>6. Fits(g, members, Put(invites, n, invite), accounts, misread)
  BY <1>1, <1>5 DEF Fits, Sequel, Writing, Inserting, Deleting
<1>7. Sound(members, Put(invites, n, invite), accounts, misread)
  <2>1. f.row.user \in accounts
    BY <1>1 DEF Fits, Inserting
  <2> QED  BY <1>1, <1>4, <2>1 DEF Sound, Known, Put
<1> QED  BY <1>2, <1>3, <1>6, <1>7 DEF SerialInv

LEMMA InsertSerial ==
    ASSUME IInv, NEW r \in Requests, SerialInv(r), Insert(r)
    PROVE  SerialInv(r)'
<1> DEFINE n == lastRow + 1
           row == req[r].row
<1>1. UNCHANGED <<invites, accounts, misread>> /\ req[r].pc = "insert"
  BY DEF Insert, Frozen
<1>2. CASE row.user \notin accounts
  <2>1. UNCHANGED members /\ req'[r] = Idle
    BY <1>2, FrameIs DEF Insert
  <2> QED  BY <1>1, <2>1, IdleFits DEF SerialInv
<1>3. CASE row.user \in accounts
  <2>1. members' = Put(members, n, row) /\ Then(r)
    BY <1>3 DEF Insert
  <2>2. \/ \A i \in DOMAIN members : members[i].user # row.user
        \/ <<"membership", row.user>> \in misread
    BY <1>1 DEF SerialInv, Fits, Inserting
  <2>3. n \notin DOMAIN members
    BY Bounds DEF IInv, GoodTable
  <2>4. req[r].then # "promote"
    BY <1>1 DEF SerialInv, Fits, Sequel
  <2>5. Fits(req'[r], members', invites', accounts', misread')
    BY <2>1, <2>4, ThenFits
  <2> HIDE DEF n, row
  <2>6. Sound(Put(members, n, row), invites, accounts, misread)
    BY <1>3, <2>2, <2>3 DEF SerialInv, Sound, Apart, Known, Put
  <2> QED  BY <1>1, <2>1, <2>5, <2>6 DEF SerialInv
<1> QED  BY <1>2, <1>3

LEMMA SaveSerial ==
    ASSUME IInv, NEW r \in Requests, SerialInv(r), Save(r)
    PROVE  SerialInv(r)'
<1> DEFINE f == req[r]
           m == Put(members, f.id, f.row)
<1>1. /\ f \in Frame /\ f.pc = "save"
      /\ Fits(f, members, invites, accounts, misread) /\ Sound(members, invites, accounts, misread)
  BY HeldIsGood DEF Save, SerialInv
<1>2. f.id \in DOMAIN members /\ members[f.id].user = f.row.user
  BY <1>1 DEF Fits, Writing
<1>3. members' = m /\ UNCHANGED <<invites, accounts, misread>>
  BY <1>2 DEF Save, Write, Frozen
<1>4. /\ Sound(m, invites, accounts, misread) /\ DOMAIN m = DOMAIN members
      /\ \A i \in DOMAIN members : m[i].user = members[i].user
  BY <1>1, <1>2, OverwritingSound
<1>5. Fits(req'[r], m, invites, accounts, misread)
  <2>1. CASE f.then # "promote"
    BY <2>1, ThenFits DEF Save
  <2>2. CASE f.then = "promote"
    <3> DEFINE g == [f EXCEPT !.pc = f.then, !.then = "idle"]
    <3>1. req'[r] = g
      BY <2>2, FrameIs DEF Save, Then
    <3> HIDE DEF f
    <3>2. /\ g.pc = "promote" /\ g.then = "idle" /\ g.id = f.id /\ g.row = f.row
          /\ g.id2 = f.id2 /\ g.row2 = f.row2
      BY <1>1, <2>2 DEF Frame
    <3> HIDE DEF g, m
    <3>3. Fits(g, m, invites, accounts, misread)
      BY <1>1, <1>4, <2>2, <3>2 DEF Fits, Sequel, Writing, Inserting, Deleting
    <3> QED  BY <3>1, <3>3
  <2> QED  BY <2>1, <2>2
<1> QED  BY <1>3, <1>4, <1>5 DEF SerialInv

LEMMA TransferEndsSerial ==
    ASSUME IInv, NEW r \in Requests, SerialInv(r), Promote(r) \/ Restore(r)
    PROVE  SerialInv(r)'
<1> DEFINE f == req[r]
           back == [f.row EXCEPT !.role = "owner"]
<1>1. /\ f \in Frame /\ f.row \in Row /\ Sound(members, invites, accounts, misread)
      /\ Fits(f, members, invites, accounts, misread)
  BY HeldIsGood DEF SerialInv
<1>2. back.user = f.row.user
  BY <1>1 DEF Row
<1>3. PICK id, row : /\ id \in DOMAIN members /\ row.user = members[id].user
                     /\ members' = Put(members, id, row)
  <2>1. CASE Promote(r)
    <3>1. f.id2 \in DOMAIN members /\ members[f.id2].user = f.row2.user
      BY <1>1, <2>1 DEF Promote, Fits, Writing
    <3> QED  BY <2>1, <3>1 DEF Promote, Write
  <2>2. CASE Restore(r)
    <3>1. f.id \in DOMAIN members /\ members[f.id].user = f.row.user
      BY <1>1, <2>2 DEF Restore, Fits, Writing
    <3>2. members' = Put(members, f.id, back)
      BY <2>2, <3>1 DEF Restore, Write
    <3> HIDE DEF back
    <3> QED  BY <1>2, <3>1, <3>2
  <2> QED  BY <2>1, <2>2
<1>4. Sound(members', invites, accounts, misread)
  BY <1>1, <1>3, OverwritingSound
<1>5. req'[r] = Idle /\ UNCHANGED <<invites, accounts, misread>>
  BY FrameIs DEF Promote, Restore, Write, Frozen
<1> QED  BY <1>4, <1>5, IdleFits DEF SerialInv

LEMMA PromoteRefusedSerial ==
    ASSUME IInv, NEW r \in Requests, SerialInv(r), PromoteRefused(r)
    PROVE  SerialInv(r)'
<1> DEFINE f == req[r]
           g == [f EXCEPT !.pc = "restore"]
<1>1. /\ f \in Frame /\ f.pc = "promote"
      /\ Fits(f, members, invites, accounts, misread) /\ Sound(members, invites, accounts, misread)
  BY HeldIsGood DEF PromoteRefused, SerialInv
<1>2. req'[r] = g /\ UNCHANGED <<members, invites, accounts, misread>>
  BY FrameIs DEF PromoteRefused, Frozen
<1> HIDE DEF f
<1>3. /\ g.pc = "restore" /\ g.then = f.then /\ g.id = f.id /\ g.row = f.row
      /\ g.id2 = f.id2 /\ g.row2 = f.row2
  BY <1>1 DEF Frame
<1> HIDE DEF g
<1>4. Fits(g, members, invites, accounts, misread)
  BY <1>1, <1>3 DEF Fits, Sequel, Writing, Inserting, Deleting
<1> QED  BY <1>1, <1>2, <1>4 DEF SerialInv

LEMMA DissolveSerial ==
    ASSUME IInv, NEW r \in Requests, SerialInv(r), Dissolve(r)
    PROVE  SerialInv(r)'
<1>1. req[r].then # "promote"
  BY DEF Dissolve, SerialInv, Fits, Sequel
<1>2. Fits(req'[r], members', invites', accounts', misread')
  BY <1>1, ThenFits DEF Dissolve
<1>3. Sound(members', invites', accounts', misread')
  <2>1. /\ members' = Without(members, DOMAIN members)
        /\ invites' = Without(invites, DOMAIN invites)
        /\ accounts' = accounts /\ misread' = misread
    BY DEF Dissolve, Frozen
  <2> QED  BY <2>1, ErasingSound DEF SerialInv
<1> QED  BY <1>2, <1>3 DEF SerialInv

LEMMA AccountCheckSerial ==
    ASSUME IInv, NEW r \in Requests, SerialInv(r), AccountCheck(r)
    PROVE  SerialInv(r)'
<1> DEFINE u == req[r].row.user
<1>1. PICK f : /\ req'[r] = f /\ UNCHANGED <<members, invites, accounts>>
               /\ \/ f = Purging(u) /\ NotSole(u)
                  \/ f = Idle /\ misread' = misread
  BY FrameIs DEF AccountCheck
<1>2. Sound(members, invites, accounts, misread)
  BY DEF SerialInv
<1> HIDE DEF u
<1>3. misread \subseteq misread'
  BY <1>1, DeniedGrows
<1>4. Fits(f, members, invites, accounts, misread')
  BY <1>1, <1>2, PurgingFits, IdleFits
<1>5. Sound(members, invites, accounts, misread')
  BY <1>2, <1>3 DEF Sound, Apart
<1> QED  BY <1>1, <1>4, <1>5 DEF SerialInv

(* The row deleted next is one of those listed, and an owner is left among *)
(* the others, if no read failed.                                          *)
LEMMA PurgedRow ==
    ASSUME IInv, NEW r \in Requests, SerialInv(r), PurgeRow(r)
    PROVE  /\ First(req[r].todo) \in req[r].todo
           /\ members' = Without(members, {First(req[r].todo)})
           /\ \/ Doubted(req[r].row.user, misread)
              \/ OwnerIds(members) # {} => OwnerIds(members) \ req[r].todo # {}
<1>1. req[r].todo \in SUBSET Nat
  BY HeldIsGood, FrameFields
<1>2. /\ req[r].todo # {}
      /\ \/ Doubted(req[r].row.user, misread)
         \/ OwnerIds(members) # {} => OwnerIds(members) \ req[r].todo # {}
  BY DEF PurgeRow, SerialInv, Fits, Deleting
<1> QED  BY <1>1, <1>2, FirstIsMember DEF PurgeRow, Erase

LEMMA PurgeRowSerial ==
    ASSUME IInv, NEW r \in Requests, SerialInv(r), PurgeRow(r)
    PROVE  SerialInv(r)'
<1> DEFINE f == req[r]
           i == First(f.todo)
           m == Without(members, {i})
           pc == IF f.todo = {i} THEN "forget" ELSE "purge"
           g == [f EXCEPT !.todo = f.todo \ {i}, !.pc = pc]
<1>1. /\ f \in Frame /\ f.pc = "purge" /\ i \in f.todo
      /\ Fits(f, members, invites, accounts, misread) /\ Sound(members, invites, accounts, misread)
      /\ \/ Doubted(f.row.user, misread)
         \/ OwnerIds(members) # {} => OwnerIds(members) \ f.todo # {}
  BY HeldIsGood, PurgedRow DEF PurgeRow, SerialInv
<1>2. req'[r] = g
  <2>1. Goto(r, g)
    BY DEF PurgeRow
  <2> QED  BY <2>1, FrameIs
<1>3. members' = m /\ UNCHANGED <<invites, accounts, misread>>
  BY DEF PurgeRow, Erase, Frozen
<1>4. OwnerIds(m) = OwnerIds(members) \ {i}
  BY DEF OwnerIds, Without
<1>5. Sound(m, invites, accounts, misread)
  BY <1>1, ErasingSound
<1> HIDE DEF f, i, m
<1>6. g.pc = pc /\ g.then = f.then /\ g.todo = f.todo \ {i} /\ g.row = f.row
  BY <1>1 DEF Frame
<1> HIDE DEF g
<1>7. f.then \in {"idle", "mark", "drop", "account"}
  BY <1>1 DEF Fits, Sequel
<1>8. Fits(g, m, invites, accounts, misread)
  <2>1. CASE f.todo = {i}
    BY <1>6, <1>7, <2>1, CalmFits DEF Promising
  <2>2. CASE f.todo # {i}
    <3>1. g.pc = "purge" /\ g.todo # {}
      BY <1>1, <1>6, <2>2
    <3>2. \/ Doubted(g.row.user, misread)
          \/ OwnerIds(m) # {} => OwnerIds(m) \ g.todo # {}
      BY <1>1, <1>4, <1>6
    <3> QED  BY <1>6, <1>7, <3>1, <3>2
             DEF Fits, Sequel, Writing, Inserting, Deleting
  <2> QED  BY <2>1, <2>2
<1> QED  BY <1>2, <1>3, <1>5, <1>8 DEF SerialInv

LEMMA ForgetSerial ==
    ASSUME IInv, NEW r \in Requests, SerialInv(r), Forget(r)
    PROVE  SerialInv(r)'
<1> DEFINE f == req[r]
           g == [f EXCEPT !.pc = "close"]
           v == Without(invites, InvitesOf(f.row.user))
<1>1. /\ f \in Frame /\ f.pc = "forget"
      /\ Fits(f, members, invites, accounts, misread) /\ Sound(members, invites, accounts, misread)
  BY HeldIsGood DEF Forget, SerialInv
<1>2. req'[r] = g /\ invites' = v /\ UNCHANGED <<members, accounts, misread>>
  BY FrameIs DEF Forget, Frozen
<1>3. \A i \in DOMAIN v : v[i].user # f.row.user
  BY DEF Without, InvitesOf
<1>4. Sound(members, v, accounts, misread)
  BY <1>1, ErasingSound
<1> HIDE DEF f, v
<1>5. g.pc = "close" /\ g.then = f.then /\ g.row = f.row
  BY <1>1 DEF Frame
<1> HIDE DEF g
<1>6. Fits(g, members, v, accounts, misread)
  BY <1>1, <1>3, <1>5 DEF Fits, Sequel, Writing, Inserting, Deleting
<1> QED  BY <1>2, <1>4, <1>6 DEF SerialInv

LEMMA CloseSerial ==
    ASSUME IInv, NEW r \in Requests, SerialInv(r), Close(r)
    PROVE  SerialInv(r)'
<1> DEFINE u == req[r].row.user
<1>1. req'[r] = Idle /\ UNCHANGED <<members, invites, misread>>
  BY FrameIs DEF Close
<1>2. Sound(members, invites, accounts', misread)
  <2>1. CASE HasRow(u)
    BY <2>1 DEF Close, SerialInv
  <2>2. CASE ~HasRow(u)
    <3>1. accounts' = accounts \ {u}
      BY <2>2 DEF Close
    <3>2. \A i \in DOMAIN members : members[i].user # u
      BY <2>2, NoRow
    <3>3. \A i \in DOMAIN invites : invites[i].user # u
      BY DEF Close, SerialInv, Fits, Deleting
    <3> HIDE DEF u
    <3> QED  BY <3>1, <3>2, <3>3 DEF SerialInv, Sound, Known
  <2> QED  BY <2>1, <2>2
<1> QED  BY <1>1, <1>2, IdleFits DEF SerialInv

(* The statements that delete and then end, or go on to end.               *)
LEMMA DeletingSerial ==
    ASSUME IInv, NEW r \in Requests, SerialInv(r),
           \/ Mark(r) \/ DeclineRow(r) \/ Drop(r)
           \/ RemoveRow(r) \/ DeprovisionRow(r)
    PROVE  SerialInv(r)'
<1>1. CASE Mark(r) \/ Drop(r)
  <2>1. PICK ids : invites' = Without(invites, ids)
    BY <1>1 DEF Mark, Drop
  <2>2. req'[r] = Idle /\ UNCHANGED <<members, accounts, misread>>
    BY <1>1, FrameIs DEF Mark, Drop, Frozen
  <2>3. Sound(members, Without(invites, ids), accounts, misread)
    BY ErasingSound DEF SerialInv
  <2> QED  BY <2>1, <2>2, <2>3, IdleFits DEF SerialInv
<1>2. CASE DeclineRow(r) \/ RemoveRow(r) \/ DeprovisionRow(r)
  <2>1. /\ members' = Without(members, {req[r].id})
        /\ UNCHANGED <<invites, accounts, misread>>
    BY <1>2 DEF DeclineRow, RemoveRow, DeprovisionRow, Erase, Frozen
  <2>2. Sound(Without(members, {req[r].id}), invites, accounts, misread)
    BY ErasingSound DEF SerialInv
  <2>3. Fits(req'[r], members', invites', accounts', misread')
    <3>1. CASE DeclineRow(r)
      <4>1. req[r].then # "promote"
        BY <3>1 DEF DeclineRow, SerialInv, Fits, Sequel
      <4> QED  BY <3>1, <4>1, ThenFits DEF DeclineRow
    <3>2. CASE RemoveRow(r) \/ DeprovisionRow(r)
      <4>1. req'[r] = Idle
        BY <3>2, FrameIs DEF RemoveRow, DeprovisionRow
      <4> QED  BY <4>1, IdleFits
    <3> QED  BY <1>2, <3>1, <3>2
  <2> QED  BY <2>1, <2>2, <2>3 DEF SerialInv
<1> QED  BY <1>1, <1>2

LEMMA ContinueSerial ==
    ASSUME IInv, NEW r \in Requests, SerialInv(r), Continue(r)
    PROVE  SerialInv(r)'
BY InviteRecordSerial, InsertSerial, SaveSerial, TransferEndsSerial,
   PromoteRefusedSerial, DissolveSerial, AccountCheckSerial, PurgeRowSerial,
   ForgetSerial, CloseSerial, DeletingSerial
DEF Continue

LEMMA LapseSerial ==
    ASSUME NEW r \in Requests, SerialInv(r), NEW i, Lapse(i)
    PROVE  SerialInv(r)'
<1> DEFINE v == Without(invites, {i})
<1>1. invites' = v /\ UNCHANGED <<members, accounts, misread, req>>
  BY DEF Lapse, Frozen
<1>2. Sound(members, v, accounts, misread)
  BY ErasingSound DEF SerialInv
<1>3. Fits(req[r], members, v, accounts, misread)
  <2>1. \A j \in DOMAIN v : j \in DOMAIN invites /\ v[j] = invites[j]
    BY DEF Without
  <2> HIDE DEF v
  <2> QED  BY <2>1 DEF SerialInv, Fits, Deleting
<1> HIDE DEF v
<1> QED  BY <1>1, <1>2, <1>3 DEF SerialInv

LEMMA NextSerial ==
    ASSUME NEW one, Requests = {one}, IInv, SerialInv(one), [Next]_vars
    PROVE  SerialInv(one)'
<1>1. CASE UNCHANGED vars
  BY <1>1 DEF vars, SerialInv
<1>2. ASSUME NEW r \in Requests, Fail(r)
      PROVE  SerialInv(one)'
  <2>1. req'[one] = Idle /\ UNCHANGED <<members, invites, accounts, misread>>
    BY <1>2, FrameIs DEF Fail, Frozen
  <2> QED  BY <2>1, IdleFits DEF SerialInv
<1>3. CASE Next
  BY <1>2, <1>3, AnswerSerial, ManageSerial, AdministerSerial,
     DirectorySerial, ContinueSerial, LapseSerial
  DEF Next
<1> QED  BY <1>1, <1>3

LEMMA SerialAlways ==
    ASSUME NEW one, Requests = {one} PROVE Spec => []SerialInv(one)
<1>1. Init => SerialInv(one)
  <2>1. ASSUME Init PROVE SerialInv(one)
    <3>1. /\ DOMAIN members = {1} /\ members[1].user = Founder
          /\ DOMAIN invites = {} /\ accounts = Users /\ req[one] = Idle
      BY <2>1 DEF Init, FounderRow, NewRow
    <3>2. Sound(members, invites, accounts, misread)
      BY <3>1, MembersAssumption DEF Sound, Apart, Known
    <3> QED  BY <3>1, <3>2, IdleFits DEF SerialInv
  <2> QED  BY <2>1
<1>2. IInv /\ SerialInv(one) /\ [Next]_vars => SerialInv(one)'
  BY NextSerial
<1> QED  BY <1>1, <1>2, IInvAlways, PTL DEF Spec

-----------------------------------------------------------------------------
(* What follows for one request at a time.                                 *)

(* A user never gets a second membership, although only the code and no    *)
(* constraint of the table says so: whoever is inserted was found to have  *)
(* none (GetByOrgAndUser before Create), and who is written over is the    *)
(* row that was read.  The code takes an error of that lookup for "none";  *)
(* the users for whom it did so are the only ones with a second row.       *)
THEOREM OneMembershipEach ==
    ASSUME NEW one, Requests = {one} PROVE Spec => []OneMembershipPerUser
<1>1. SerialInv(one) => OneMembershipPerUser
  BY DEF SerialInv, Sound, Apart, OneMembershipPerUser
<1> QED  BY <1>1, SerialAlways, PTL

(* The deletion of an account takes its memberships and invitations along, *)
(* wherever it fails: the account goes last, and until then an invitation  *)
(* is of somebody who exists.                                              *)
THEOREM DeletionIsComplete ==
    ASSUME NEW one, Requests = {one} PROVE Spec => []DeletedLeaveNothing
<1>1. SerialInv(one) => DeletedLeaveNothing
  BY DEF SerialInv, Sound, Known, DeletedLeaveNothing, InvitesOf, HasRow, RowsOf
<1> QED  BY <1>1, SerialAlways, PTL

LEMMA SavingKeepsRole ==
    ASSUME IInv, NEW r \in Requests, SerialInv(r), Save(r)
    PROVE  /\ req[r].id \in DOMAIN members
           /\ members' = Put(members, req[r].id, req[r].row)
           /\ req[r].then \in {"mark", "drop"} =>
                 members'[req[r].id].role = members[req[r].id].role
           /\ req[r].then # "promote" => (Owners # {} => Owners' # {})
<1> DEFINE f == req[r]
<1>1. f.pc = "save" /\ Writing(f, members)
  BY DEF Save, SerialInv, Fits
<1>2. f.id \in DOMAIN members /\ members[f.id].user = f.row.user
  BY <1>1 DEF Writing
<1>3. members' = Put(members, f.id, f.row)
  BY <1>2 DEF Save, Write
<1>4. /\ DOMAIN members' = DOMAIN members
      /\ \A i \in DOMAIN members :
            members'[i] = IF i = f.id THEN f.row ELSE members[i]
  BY <1>2, <1>3 DEF Put
<1> HIDE DEF f
<1>5. f.then \in {"mark", "drop"} => members'[f.id].role = members[f.id].role
  BY <1>1, <1>2, <1>4 DEF Writing
<1>6. ASSUME f.then # "promote", NEW i \in Owners
      PROVE  i \in Owners'
  BY <1>1, <1>2, <1>4, <1>6 DEF Owners, Writing
<1> QED  BY <1>2, <1>3, <1>5, <1>6 DEF f

(* Whoever accepts keeps the role that the row has, not the invitation's   *)
(* (AcceptInvitation, Accept, AddExistingMember, the join at sign-in).     *)
THEOREM RoleIsKept ==
    ASSUME NEW one, Requests = {one} PROVE Spec => AcceptingKeepsRole
<1>1. IInv /\ SerialInv(one) /\ [Next]_vars
        => [\A r \in Requests :
               LET i == req[r].id
               IN  Save(r) /\ req[r].then \in {"mark", "drop"}
                       => members'[i].role = members[i].role]_vars
  BY SavingKeepsRole
<1> QED  BY <1>1, IInvAlways, SerialAlways, PTL DEF Spec, AcceptingKeepsRole

LEMMA PurgingLeavesOwner ==
    ASSUME IInv, NEW r \in Requests, SerialInv(r), PurgeRow(r), Owners # {},
           ~Misread(req[r].row.user)
    PROVE  Owners' # {}
<1> DEFINE i == First(req[r].todo)
<1>1. /\ i \in req[r].todo /\ members' = Without(members, {i})
      /\ OwnerIds(members) # {} => OwnerIds(members) \ req[r].todo # {}
  BY PurgedRow DEF Misread, Doubted
<1>2. OwnerIds(members) = Owners
  BY DEF OwnerIds, Owners
<1>3. Owners' = Owners \ {i}
  BY <1>1 DEF Owners, Without
<1> HIDE DEF i
<1> QED  BY <1>1, <1>2, <1>3

(* The deletion of an account never takes the last owner's row, also when  *)
(* it fails between two memberships (CheckOwnership precedes the           *)
(* deletion), unless a read about its owner failed unnoticed: the check    *)
(* passed over the organization, or counted his second row as another      *)
(* owner's.                                                                *)
THEOREM OwnerOutlivesAccounts ==
    ASSUME NEW one, Requests = {one} PROVE Spec => DeletionLeavesOwner
<1>1. IInv /\ SerialInv(one) /\ [Next]_vars
        => [\A r \in Requests :
               PurgeRow(r) /\ Owners # {} /\ ~Misread(req[r].row.user)
                   => Owners' # {}]_vars
  BY PurgingLeavesOwner
<1> QED  BY <1>1, IInvAlways, SerialAlways, PTL DEF Spec, DeletionLeavesOwner

(* Neither half of a transfer that ends leaves the organization without.   *)
LEMMA TransferLeavesOwner ==
    ASSUME IInv, NEW r \in Requests, SerialInv(r), Promote(r) \/ Restore(r)
    PROVE  Owners' # {}
<1> DEFINE f == req[r]
           back == [f.row EXCEPT !.role = "owner"]
<1>1. Writing(f, members) /\ f.row \in Row
  BY HeldIsGood DEF SerialInv, Fits
<1>2. back.role = "owner"
  BY <1>1 DEF Row
<1>3. PICK id, row : members' = Put(members, id, row) /\ row.role = "owner"
  <2>1. CASE Promote(r)
    <3>1. f.id2 \in DOMAIN members /\ f.row2.role = "owner"
      BY <1>1, <2>1 DEF Promote, Writing
    <3> QED  BY <2>1, <3>1 DEF Promote, Write
  <2>2. CASE Restore(r)
    <3>1. f.id \in DOMAIN members
      BY <1>1, <2>2 DEF Restore, Writing
    <3>2. members' = Put(members, f.id, back)
      BY <2>2, <3>1 DEF Restore, Write
    <3> HIDE DEF back
    <3> QED  BY <1>2, <3>2
  <2> QED  BY <2>1, <2>2
<1>4. id \in DOMAIN members' /\ members'[id] = row
  BY <1>3 DEF Put
<1> QED  BY <1>3, <1>4 DEF Owners

(* The steps that may take the last owner's row. *)
LEMMA OwnersShrink ==
    ASSUME IInv, NEW r \in Requests, SerialInv(r), Continue(r), Owners # {},
           Owners' = {}
    PROVE  \/ req[r].pc \in {"decline", "deprovision", "dissolve"}
           \/ req[r].pc = "purge" /\ Misread(req[r].row.user)
           \/ req[r].then = "promote"
<1>1. CASE Save(r)
  BY <1>1, SavingKeepsRole
<1>2. CASE PurgeRow(r)
  BY <1>2, PurgingLeavesOwner DEF PurgeRow
<1>3. CASE Promote(r) \/ Restore(r)
  BY <1>3, TransferLeavesOwner
<1>4. CASE DeclineRow(r) \/ DeprovisionRow(r) \/ Dissolve(r)
  BY <1>4 DEF DeclineRow, DeprovisionRow, Dissolve
<1>5. CASE RemoveRow(r)
  <2>1. req[r].id \notin Owners
    BY <1>5 DEF RemoveRow, SerialInv, Fits, Deleting, OwnerIds, Owners
  <2>2. Owners' = Owners
    BY <1>5, <2>1 DEF RemoveRow, Erase, Without, Owners
  <2> QED  BY <2>2
<1>6. CASE Insert(r)
  <2>1. lastRow + 1 \notin DOMAIN members
    BY Bounds DEF IInv, GoodTable
  <2>2. ASSUME NEW i \in Owners
        PROVE  i \in Owners'
    <3>1. \/ members' = members
          \/ members' = Put(members, lastRow + 1, req[r].row)
      BY <1>6 DEF Insert
    <3> QED  BY <2>1, <3>1 DEF Owners, Put
  <2> QED  BY <2>2
<1>7. CASE \/ InviteRecord(r) \/ Mark(r) \/ Drop(r) \/ PromoteRefused(r)
           \/ AccountCheck(r) \/ Forget(r) \/ Close(r)
  <2>1. members' = members
    BY <1>7 DEF InviteRecord, Mark, Drop, PromoteRefused, AccountCheck, Forget,
                Close
  <2> QED  BY <2>1 DEF Owners
<1> QED  BY <1>1, <1>2, <1>3, <1>4, <1>5, <1>6, <1>7 DEF Continue

(* The other steps leave the rows alone. *)
LEMMA OnlyStatementsWrite ==
    ASSUME [Next]_vars, \A r \in Requests : ~Continue(r)
    PROVE  members' = members
<1>1. ASSUME NEW r \in Requests, Answer(r)
      PROVE  members' = members
  BY <1>1 DEF Answer, AcceptRow, AcceptInvite, Decline, SignInJoin, Arrive, Begin
<1>2. ASSUME NEW r \in Requests, NEW u \in Users, Manage(r, u)
      PROVE  members' = members
  BY <1>2 DEF Manage, Invite, ChangeRole, Remove, Confirm, Transfer,
              DeleteOrganization, Arrive, Begin
<1>3. ASSUME NEW r \in Requests, NEW u \in Users,
             Administer(r, u) \/ Directory(r, u)
      PROVE  members' = members
  BY <1>3 DEF Administer, DeleteAccount, DeleteAll, Directory, Provision,
              ScimUpdate, ScimPatch, ScimDelete, Arrive, Begin
<1>4. ASSUME NEW r \in Requests, Fail(r)
      PROVE  members' = members
  BY <1>4 DEF Fail
<1>5. ASSUME NEW i, Lapse(i)
      PROVE  members' = members
  BY <1>5 DEF Lapse
<1> QED  BY <1>1, <1>2, <1>3, <1>4, <1>5 DEF Next, vars

(* An organization that has an owner keeps one, except where the code      *)
(* gives it up: SCIM deletes the row, an invited owner declines, the       *)
(* organization is deleted, a read about the owner who deletes his account *)
(* failed unnoticed, or a transfer is under way; a transfer that ends has  *)
(* made an owner or restored the one it demoted.                           *)
THEOREM OwnerIsKept ==
    ASSUME NEW one, Requests = {one} PROVE Spec => OwnerRemains
<1>1. ASSUME IInv, SerialInv(one), [Next]_vars, NEW r \in Requests
      PROVE  /\ Owners # {} /\ Owners' = {} /\ req'[r] # req[r] =>
                   \/ req[r].pc \in {"decline", "deprovision", "dissolve"}
                   \/ req[r].pc = "purge" /\ Misread(req[r].row.user)
                   \/ req[r].then = "promote"
             /\ Promote(r) \/ Restore(r) => Owners' # {}
  <2>1. CASE Continue(one)
    BY <1>1, <2>1, OwnersShrink, TransferLeavesOwner
  <2>2. CASE ~Continue(one)
    <3>1. Owners' = Owners
      BY <1>1, <2>2, OnlyStatementsWrite DEF Owners
    <3> QED  BY <1>1, <2>2, <3>1 DEF Continue
  <2> QED  BY <2>1, <2>2
<1>2. IInv /\ SerialInv(one) /\ [Next]_vars
        => [\A r \in Requests :
               /\ Owners # {} /\ Owners' = {} /\ req'[r] # req[r] =>
                     \/ req[r].pc \in {"decline", "deprovision", "dissolve"}
                     \/ req[r].pc = "purge" /\ Misread(req[r].row.user)
                     \/ req[r].then = "promote"
               /\ Promote(r) \/ Restore(r) => Owners' # {}]_vars
  BY <1>1
<1> QED  BY <1>2, IInvAlways, SerialAlways, PTL DEF Spec, OwnerRemains

-----------------------------------------------------------------------------
(* Any number of requests.  A row that is written late may undo a change   *)
(* or bring a deleted membership back, but never under somebody else's     *)
(* name: all who hold an id, the table and the frames, agree on its user.  *)

RowClaims(m) == {<<i, m[i].user>> : i \in DOMAIN m}

Held(f) ==
    (IF f.pc \in {"save", "promote", "restore"} \/ f.then = "promote"
     THEN {<<f.id, f.row.user>>} ELSE {})
    \cup (IF f.pc = "promote" \/ f.then = "promote"
          THEN {<<f.id2, f.row2.user>>} ELSE {})

Claims == RowClaims(members) \cup UNION {Held(req[r]) : r \in Requests}

Agree(C) == \A c, d \in C : c[1] = d[1] => c[2] = d[2]

(* What a transfer has still to do is promote, and nothing else is.        *)
Ordered(f) == f.then \notin {"save", "restore"}

ClaimsInv ==
    /\ Agree(Claims)
    /\ Known(members, accounts)
    /\ \A r \in Requests : Ordered(req[r])

(* Ids of claims were given out: the next one is nobody's yet.             *)
LEMMA ClaimsAreOld ==
    ASSUME IInv
    PROVE  \A c \in Claims : c[1] \in 0..lastRow
<1>1. ASSUME NEW c \in RowClaims(members)
      PROVE  c[1] \in 0..lastRow
  BY <1>1, Bounds DEF RowClaims, IInv, GoodTable
<1>2. ASSUME NEW r \in Requests, NEW c \in Held(req[r])
      PROVE  c[1] \in 0..lastRow
  <2> DEFINE f == req[r]
  <2>1. f.id \in 0..lastRow /\ f.id2 \in 0..lastRow
    BY HeldIsGood, FrameFields, Bounds DEF GoodFrame
  <2>2. c \in {<<f.id, f.row.user>>, <<f.id2, f.row2.user>>}
    BY <1>2 DEF Held
  <2> HIDE DEF f
  <2> QED  BY <2>1, <2>2
<1> QED  BY <1>1, <1>2 DEF Claims

LEMMA AgreeGrows ==
    ASSUME IInv, Agree(Claims), NEW u, NEW C,
           C \subseteq Claims \cup {<<lastRow + 1, u>>}
    PROVE  Agree(C)
<1>1. \A c \in Claims : c[1] # lastRow + 1
  BY ClaimsAreOld, Bounds
<1>2. ASSUME NEW c \in C, NEW d \in C, c[1] = d[1]
      PROVE  c[2] = d[2]
  <2>1. CASE c \in Claims /\ d \in Claims
    BY <1>2, <2>1 DEF Agree
  <2>2. CASE c = <<lastRow + 1, u>> \/ d = <<lastRow + 1, u>>
    <3>1. c = <<lastRow + 1, u>> /\ d = <<lastRow + 1, u>>
      BY <1>1, <1>2, <2>2
    <3> QED  BY <3>1
  <2> QED  BY <2>1, <2>2
<1> QED  BY <1>2 DEF Agree

(* A step of one request: its frame and the rows claim nothing new but the *)
(* next id.                                                                *)
LEMMA ClaimsStep ==
    ASSUME IInv, ClaimsInv, NEW r \in Requests, NEW f, Goto(r, f), Ordered(f),
           NEW u, NEW X, X = Claims \cup {<<lastRow + 1, u>>},
           Held(f) \subseteq X, RowClaims(members') \subseteq X,
           Known(members', accounts')
    PROVE  ClaimsInv'
<1>1. req'[r] = f /\ \A q \in Requests : q # r => req'[q] = req[q]
  BY DEF Goto, IInv
<1>2. \A q \in Requests : Held(req'[q]) \subseteq X
  <2>1. \A q \in Requests : Held(req[q]) \subseteq X
    BY DEF Claims
  <2> QED  BY <1>1, <2>1
<1>3. Claims' \subseteq X
  BY <1>2 DEF Claims
<1>4. Agree(Claims')
  BY <1>3, AgreeGrows DEF ClaimsInv
<1>5. \A q \in Requests : Ordered(req'[q])
  BY <1>1 DEF ClaimsInv
<1> QED  BY <1>4, <1>5 DEF ClaimsInv

(* A frame that claims nothing, or rows of the table. *)
LEMMA ArriveClaims ==
    ASSUME IInv, ClaimsInv, NEW r \in Requests, NEW f, Begin(r, f), Ordered(f),
           Held(f) \subseteq RowClaims(members)
    PROVE  ClaimsInv'
<1>1. PICK X : X = Claims \cup {<<lastRow + 1, Founder>>}
  OBVIOUS
<1>2. Held(f) \subseteq X /\ RowClaims(members) \subseteq X
  BY <1>1 DEF Claims
<1>3. Goto(r, f) /\ UNCHANGED <<members, accounts>> /\ Known(members, accounts)
  BY DEF Begin, Frozen, ClaimsInv
<1> QED  BY <1>1, <1>2, <1>3, ClaimsStep

LEMMA SaveClaims ==
    ASSUME IInv, ClaimsInv, NEW r \in Requests, NEW id \in DOMAIN members,
           NEW row, row.user = members[id].user, NEW i,
           NEW then \in {"idle", "mark", "drop"},
           Begin(r, Call("save", then, id, row, i))
    PROVE  ClaimsInv'
<1> DEFINE f == Call("save", then, id, row, i)
<1>1. f.pc = "save" /\ f.then = then /\ f.id = id /\ f.row = row /\ Begin(r, f)
  BY CallFields
<1> HIDE DEF f
<1>2. Held(f) = {<<id, members[id].user>>} /\ Ordered(f)
  BY <1>1 DEF Held, Ordered
<1> QED  BY <1>1, <1>2, ArriveClaims DEF RowClaims

LEMMA OtherClaims ==
    ASSUME IInv, ClaimsInv, NEW r \in Requests, NEW pc,
           pc \notin {"save", "promote", "restore"}, NEW id, NEW row, NEW i,
           NEW then \in {"idle", "mark", "drop", "account"},
           Begin(r, Call(pc, then, id, row, i))
    PROVE  ClaimsInv'
<1> DEFINE f == Call(pc, then, id, row, i)
<1>1. f.pc = pc /\ f.then = then /\ Begin(r, f)
  BY CallFields
<1> HIDE DEF f
<1>2. Held(f) = {} /\ Ordered(f)
  BY <1>1 DEF Held, Ordered
<1> QED  BY <1>1, <1>2, ArriveClaims

LEMMA AnswerClaims ==
    ASSUME IInv, ClaimsInv, NEW r \in Requests, Answer(r)
    PROVE  ClaimsInv'
<1>1. ASSUME NEW i \in DOMAIN members, AcceptRow(r, i)
      PROVE  ClaimsInv'
  <2> DEFINE row == Accepted(members[i])
  <2>1. row.user = members[i].user
    BY RowIsGood DEF Accepted, Row
  <2>2. Begin(r, Call("save", "mark", i, row, 0))
    BY <1>1 DEF AcceptRow, Arrive
  <2> HIDE DEF row
  <2> QED  BY <2>1, <2>2, SaveClaims
<1>2. ASSUME NEW u, HasRow(u), NEW then \in {"mark", "drop"}, NEW i, NEW key,
             Begin(r, Call("save", then, First(RowsOf(u)),
                    [RowOf(u) EXCEPT !.status = "accepted", !.key = key], i))
      PROVE  ClaimsInv'
  <2> DEFINE row == [RowOf(u) EXCEPT !.status = "accepted", !.key = key]
  <2>1. /\ First(RowsOf(u)) \in DOMAIN members
        /\ RowOf(u) = members[First(RowsOf(u))] /\ RowOf(u) \in Row
    BY <1>2, RowOfIsGood
  <2>2. row.user = RowOf(u).user
    BY <2>1 DEF Row
  <2>3. Begin(r, Call("save", then, First(RowsOf(u)), row, i))
    BY <1>2
  <2> HIDE DEF row
  <2> QED  BY <2>1, <2>2, <2>3, SaveClaims
<1>3. ASSUME NEW i \in DOMAIN invites, AcceptInvite(r, i)
      PROVE  ClaimsInv'
  BY <1>2, <1>3, OtherClaims DEF AcceptInvite, Accepted, Arrive
<1>4. ASSUME NEW i \in DOMAIN invites, Decline(r, i)
      PROVE  ClaimsInv'
  BY <1>4, OtherClaims DEF Decline, Arrive
<1>5. ASSUME NEW i \in DOMAIN invites, SignInJoin(r, i)
      PROVE  ClaimsInv'
  BY <1>2, <1>5, OtherClaims DEF SignInJoin, Arrive
<1> QED  BY <1>1, <1>3, <1>4, <1>5 DEF Answer

LEMMA TransferClaims ==
    ASSUME IInv, ClaimsInv, NEW r \in Requests, NEW u, NEW w, Transfer(r, u, w)
    PROVE  ClaimsInv'
<1> DEFINE id == First(RowsOf(u))
           row == [RowOf(u) EXCEPT !.role = "admin"]
           id2 == First(RowsOf(w))
           row2 == [RowOf(w) EXCEPT !.role = "owner"]
           c == Call("save", "promote", id, row, 0)
           f == [c EXCEPT !.id2 = id2, !.row2 = row2]
<1>1. HasRow(u) /\ HasRow(w)
  BY DEF Transfer, IsOwner, Arrive
<1>2. /\ id \in DOMAIN members /\ RowOf(u) = members[id] /\ RowOf(u) \in Row
      /\ id2 \in DOMAIN members /\ RowOf(w) = members[id2] /\ RowOf(w) \in Row
  BY <1>1, RowOfIsGood
<1>3. row.user = members[id].user /\ row2.user = members[id2].user
  BY <1>2 DEF Row
<1>4. Begin(r, f)
  BY DEF Transfer, Arrive
<1> HIDE DEF id, id2, row, row2
<1>5. /\ f.pc = "save" /\ f.then = "promote" /\ f.id = id /\ f.row = row
      /\ f.id2 = id2 /\ f.row2 = row2
  BY DEF Call
<1> HIDE DEF f
<1>6. Held(f) = {<<id, members[id].user>>, <<id2, members[id2].user>>}
  BY <1>3, <1>5 DEF Held
<1>7. Held(f) \subseteq RowClaims(members) /\ Ordered(f)
  BY <1>2, <1>5, <1>6 DEF RowClaims, Ordered
<1> QED  BY <1>4, <1>7, ArriveClaims

LEMMA ManageClaims ==
    ASSUME IInv, ClaimsInv, NEW r \in Requests, NEW by \in Users, Manage(r, by)
    PROVE  ClaimsInv'
<1>1. ASSUME NEW i \in DOMAIN members, NEW role, ChangeRole(r, by, i, role)
      PROVE  ClaimsInv'
  <2> DEFINE row == [members[i] EXCEPT !.role = role]
  <2>1. row.user = members[i].user
    BY RowIsGood DEF Row
  <2>2. Begin(r, Call("save", "idle", i, row, 0))
    BY <1>1 DEF ChangeRole, Arrive
  <2> HIDE DEF row
  <2> QED  BY <2>1, <2>2, SaveClaims
<1>2. ASSUME NEW i \in DOMAIN members, Confirm(r, by, i)
      PROVE  ClaimsInv'
  <2> DEFINE row == [members[i] EXCEPT !.status = "confirmed", !.key = "own"]
  <2>1. row.user = members[i].user
    BY RowIsGood DEF Row
  <2>2. Begin(r, Call("save", "idle", i, row, 0))
    BY <1>2 DEF Confirm, Arrive
  <2> HIDE DEF row
  <2> QED  BY <2>1, <2>2, SaveClaims
<1>3. ASSUME NEW i \in DOMAIN members, Remove(r, by, i)
      PROVE  ClaimsInv'
  BY <1>3, OtherClaims DEF Remove, Arrive
<1>4. ASSUME NEW u, NEW role, Invite(r, by, u, role)
      PROVE  ClaimsInv'
  BY <1>4, OtherClaims DEF Invite, Arrive
<1>5. ASSUME DeleteOrganization(r, by)
      PROVE  ClaimsInv'
  BY <1>5, OtherClaims DEF DeleteOrganization, Arrive
<1> QED  BY <1>1, <1>2, <1>3, <1>4, <1>5, TransferClaims DEF Manage

LEMMA PurgingClaims ==
    ASSUME NEW u
    PROVE  Held(Purging(u)) = {} /\ Ordered(Purging(u))
<1> DEFINE f == Purging(u)
<1>1. f.pc \in {"purge", "forget"} /\ f.then = "idle"
  BY DEF Purging, Call
<1> HIDE DEF f
<1>2. Held(f) = {} /\ Ordered(f)
  BY <1>1 DEF Held, Ordered
<1> QED  BY <1>2 DEF f

LEMMA ArrivalClaims ==
    ASSUME IInv, ClaimsInv, NEW r \in Requests, NEW u \in Users,
           Administer(r, u) \/ Directory(r, u)
    PROVE  ClaimsInv'
<1>1. CASE DeleteAccount(r, u)
  BY <1>1, PurgingClaims, ArriveClaims DEF DeleteAccount, Arrive
<1>2. CASE DeleteAll(r, u)
  BY <1>2, OtherClaims DEF DeleteAll, Arrive
<1>3. ASSUME NEW role, Provision(r, u, role)
      PROVE  ClaimsInv'
  BY <1>3, OtherClaims DEF Provision, Arrive
<1>4. ASSUME NEW status, HasRow(u),
             Begin(r, Call("save", "idle", First(RowsOf(u)),
                            [RowOf(u) EXCEPT !.status = status], 0))
      PROVE  ClaimsInv'
  <2> DEFINE row == [RowOf(u) EXCEPT !.status = status]
  <2>1. /\ First(RowsOf(u)) \in DOMAIN members
        /\ RowOf(u) = members[First(RowsOf(u))] /\ RowOf(u) \in Row
    BY <1>4, RowOfIsGood
  <2>2. row.user = RowOf(u).user
    BY <2>1 DEF Row
  <2>3. Begin(r, Call("save", "idle", First(RowsOf(u)), row, 0))
    BY <1>4
  <2> HIDE DEF row
  <2> QED  BY <2>1, <2>2, <2>3, SaveClaims
<1>5. ASSUME NEW active \in BOOLEAN, ScimUpdate(r, u, active)
      PROVE  ClaimsInv'
  <2> DEFINE status == IF ~active THEN "suspended"
                       ELSE IF RowOf(u).status = "suspended" THEN "confirmed"
                       ELSE RowOf(u).status
  <2>1. /\ HasRow(u)
        /\ Begin(r, Call("save", "idle", First(RowsOf(u)),
                          [RowOf(u) EXCEPT !.status = status], 0))
    BY <1>5 DEF ScimUpdate, Arrive
  <2> HIDE DEF status
  <2> QED  BY <1>4, <2>1
<1>6. ASSUME NEW active \in BOOLEAN, ScimPatch(r, u, active)
      PROVE  ClaimsInv'
  <2> DEFINE status == IF active THEN "confirmed" ELSE "suspended"
  <2>1. /\ HasRow(u)
        /\ Begin(r, Call("save", "idle", First(RowsOf(u)),
                          [RowOf(u) EXCEPT !.status = status], 0))
    BY <1>6 DEF ScimPatch, Arrive
  <2> HIDE DEF status
  <2> QED  BY <1>4, <2>1
<1>7. ASSUME ScimDelete(r, u)
      PROVE  ClaimsInv'
  BY <1>7, OtherClaims DEF ScimDelete, Arrive
<1> QED  BY <1>1, <1>2, <1>3, <1>5, <1>6, <1>7 DEF Administer, Directory

(* What follows in a frame claims no more than the frame did.              *)
LEMMA ThenClaims ==
    ASSUME IInv, ClaimsInv, NEW r \in Requests, Then(r)
    PROVE  \E f : Goto(r, f) /\ Ordered(f) /\ Held(f) \subseteq Claims
<1> DEFINE f == req[r]
           g == [f EXCEPT !.pc = f.then, !.then = "idle"]
<1>1. CASE f.then = "idle"
  <2>1. Goto(r, Idle)
    BY <1>1 DEF Then
  <2>2. Idle.pc = "idle" /\ Idle.then = "idle"
    BY DEF Idle, Call
  <2>3. Ordered(Idle) /\ Held(Idle) = {}
    BY <2>2 DEF Ordered, Held
  <2> QED  BY <2>1, <2>3
<1>2. CASE f.then # "idle"
  <2>1. Goto(r, g)
    BY <1>2 DEF Then
  <2>2. f \in Frame /\ Ordered(f) /\ Held(f) \subseteq Claims
    BY HeldIsGood DEF ClaimsInv, Claims
  <2> HIDE DEF f
  <2>3. /\ g.pc = f.then /\ g.then = "idle" /\ g.id = f.id /\ g.row = f.row
        /\ g.id2 = f.id2 /\ g.row2 = f.row2
    BY <2>2 DEF Frame
  <2> HIDE DEF g
  <2>4. Held(g) \subseteq Held(f) /\ Ordered(g)
    BY <2>2, <2>3 DEF Held, Ordered
  <2> QED  BY <2>1, <2>2, <2>4
<1> QED  BY <1>1, <1>2

LEMMA IdleClaims == Held(Idle) = {} /\ Ordered(Idle)
<1>1. Idle.pc = "idle" /\ Idle.then = "idle"
  BY DEF Idle, Call
<1> HIDE DEF Idle
<1> QED  BY <1>1 DEF Held, Ordered

(* A row is saved as the frame claims it. *)
LEMMA WriteClaims ==
    ASSUME IInv, ClaimsInv, NEW id, NEW row, <<id, row.user>> \in Claims,
           Write(id, row)
    PROVE  RowClaims(members') \subseteq Claims /\ Known(members', accounts')
<1>1. RowClaims(members) \subseteq Claims
  BY DEF Claims
<1>2. CASE id \notin DOMAIN members /\ row.user \notin accounts
  BY <1>1, <1>2 DEF Write, Frozen, ClaimsInv
<1>3. CASE id \in DOMAIN members \/ row.user \in accounts
  <2>1. members' = Put(members, id, row) /\ accounts' = accounts
    BY <1>3 DEF Write, Frozen
  <2>2. row.user \in accounts
    <3>1. CASE id \in DOMAIN members
      <4>1. <<id, members[id].user>> \in Claims
        BY <1>1, <3>1 DEF RowClaims
      <4>2. <<id, members[id].user>>[1] = <<id, row.user>>[1]
        OBVIOUS
      <4>3. <<id, members[id].user>>[2] = <<id, row.user>>[2]
        BY <4>1, <4>2 DEF ClaimsInv, Agree
      <4> QED  BY <3>1, <4>3 DEF ClaimsInv, Known
    <3> QED  BY <1>3, <3>1
  <2>3. RowClaims(Put(members, id, row)) \subseteq Claims
    BY <1>1 DEF RowClaims, Put
  <2>4. Known(Put(members, id, row), accounts)
    BY <2>2 DEF ClaimsInv, Known, Put
  <2> QED  BY <2>1, <2>3, <2>4
<1> QED  BY <1>2, <1>3

LEMMA ErasingClaims ==
    ASSUME IInv, ClaimsInv, NEW ids, members' = Without(members, ids),
           accounts' = accounts
    PROVE  RowClaims(members') \subseteq Claims /\ Known(members', accounts')
<1>1. RowClaims(Without(members, ids)) \subseteq RowClaims(members)
  BY DEF RowClaims, Without
<1>2. Known(Without(members, ids), accounts)
  BY DEF ClaimsInv, Known, Without
<1> QED  BY <1>1, <1>2 DEF Claims

(* The statements, one by one: the rows first.                             *)
LEMMA RowsStayClaimed ==
    ASSUME IInv, ClaimsInv, NEW r \in Requests, Continue(r)
    PROVE  \E u : /\ RowClaims(members') \subseteq Claims \cup {<<lastRow + 1, u>>}
                  /\ Known(members', accounts')
<1>1. Held(req[r]) \subseteq Claims /\ RowClaims(members) \subseteq Claims
  BY DEF Claims
<1>2. CASE Save(r)
  <2>1. <<req[r].id, req[r].row.user>> \in Claims
    BY <1>1, <1>2 DEF Save, Held
  <2> QED  BY <1>2, <2>1, WriteClaims DEF Save
<1>3. CASE Promote(r)
  <2>1. <<req[r].id2, req[r].row2.user>> \in Claims
    BY <1>1, <1>3 DEF Promote, Held
  <2> QED  BY <1>3, <2>1, WriteClaims DEF Promote
<1>4. CASE Restore(r)
  <2> DEFINE row == [req[r].row EXCEPT !.role = "owner"]
  <2>1. row.user = req[r].row.user
    BY HeldIsGood DEF Row
  <2>2. <<req[r].id, row.user>> \in Claims
    BY <1>1, <1>4, <2>1 DEF Restore, Held
  <2>3. Write(req[r].id, row)
    BY <1>4 DEF Restore
  <2> HIDE DEF row
  <2> QED  BY <2>2, <2>3, WriteClaims
<1>5. CASE Insert(r)
  <2>1. CASE members' = members /\ accounts' = accounts
    BY <1>1, <2>1 DEF ClaimsInv
  <2>2. CASE /\ members' = Put(members, lastRow + 1, req[r].row)
             /\ req[r].row.user \in accounts /\ accounts' = accounts
    <3> DEFINE n == lastRow + 1
    <3>1. RowClaims(Put(members, n, req[r].row))
             \subseteq RowClaims(members) \cup {<<n, req[r].row.user>>}
      BY DEF RowClaims, Put
    <3>2. Known(Put(members, n, req[r].row), accounts)
      BY <2>2 DEF ClaimsInv, Known, Put
    <3> QED  BY <1>1, <2>2, <3>1, <3>2
  <2> QED  BY <1>5, <2>1, <2>2 DEF Insert, Frozen
<1>6. CASE \/ DeclineRow(r) \/ RemoveRow(r) \/ DeprovisionRow(r)
           \/ PurgeRow(r) \/ Dissolve(r)
  <2>1. PICK ids : members' = Without(members, ids) /\ accounts' = accounts
    BY <1>6 DEF DeclineRow, RemoveRow, DeprovisionRow, PurgeRow, Dissolve,
                Erase, Frozen
  <2> QED  BY <2>1, ErasingClaims
<1>7. CASE Close(r)
  <2>1. members' = members /\ RowClaims(members) \subseteq Claims
    BY <1>1, <1>7 DEF Close
  <2>2. Known(members, accounts')
    <3>1. CASE HasRow(req[r].row.user)
      BY <1>7, <3>1 DEF Close, ClaimsInv
    <3>2. CASE ~HasRow(req[r].row.user)
      BY <1>7, <3>2, NoRow DEF Close, ClaimsInv, Known
    <3> QED  BY <3>1, <3>2
  <2> QED  BY <2>1, <2>2
<1>8. CASE \/ InviteRecord(r) \/ Mark(r) \/ Drop(r) \/ PromoteRefused(r)
           \/ AccountCheck(r) \/ Forget(r)
  <2>1. members' = members /\ accounts' = accounts
    BY <1>8 DEF InviteRecord, Mark, Drop, PromoteRefused, AccountCheck, Forget,
                Frozen
  <2> QED  BY <1>1, <2>1 DEF ClaimsInv
<1> QED  BY <1>2, <1>3, <1>4, <1>5, <1>6, <1>7, <1>8 DEF Continue

(* Then the frame. *)
LEMMA FrameStaysClaimed ==
    ASSUME IInv, ClaimsInv, NEW r \in Requests, Continue(r)
    PROVE  \E f : Goto(r, f) /\ Ordered(f) /\ Held(f) \subseteq Claims
<1> DEFINE f == req[r]
<1>1. f \in Frame /\ Ordered(f) /\ Held(f) \subseteq Claims
  BY HeldIsGood DEF ClaimsInv, Claims
<1>2. ASSUME NEW g, Goto(r, g), g.pc \notin {"save", "promote", "restore"},
             g.then # "promote", g.then \notin {"save", "restore"}
      PROVE  \E h : Goto(r, h) /\ Ordered(h) /\ Held(h) \subseteq Claims
  BY <1>2 DEF Ordered, Held
<1>3. CASE Goto(r, Idle)
  BY <1>3, IdleClaims
<1>4. CASE Then(r)
  BY <1>4, ThenClaims
<1>5. ASSUME NEW pc, Goto(r, [req[r] EXCEPT !.pc = pc]),
             pc \notin {"save", "promote", "restore"} \/ f.pc = "promote"
      PROVE  \E g : Goto(r, g) /\ Ordered(g) /\ Held(g) \subseteq Claims
  <2> DEFINE g == [f EXCEPT !.pc = pc]
  <2>1. Goto(r, g)
    BY <1>5
  <2>2. f.pc = "promote" \/ pc \notin {"save", "promote", "restore"}
    BY <1>5
  <2> HIDE DEF f
  <2>3. /\ g.pc = pc /\ g.then = f.then /\ g.id = f.id /\ g.row = f.row
        /\ g.id2 = f.id2 /\ g.row2 = f.row2
    BY <1>1 DEF Frame
  <2> HIDE DEF g
  <2>4. Held(g) \subseteq Held(f) /\ Ordered(g)
    BY <1>1, <2>2, <2>3 DEF Held, Ordered
  <2> QED  BY <1>1, <2>1, <2>4
<1>6. CASE InviteRecord(r) \/ Forget(r)
  BY <1>5, <1>6 DEF InviteRecord, Forget
<1>7. CASE PromoteRefused(r)
  BY <1>5, <1>7 DEF PromoteRefused
<1>8. CASE PurgeRow(r)
  <2> DEFINE i == First(f.todo)
             pc == IF f.todo = {i} THEN "forget" ELSE "purge"
             g == [f EXCEPT !.todo = f.todo \ {i}, !.pc = pc]
  <2>1. Goto(r, g)
    BY <1>8 DEF PurgeRow
  <2> HIDE DEF f
  <2>2. g.pc = pc /\ g.then = f.then /\ g.id = f.id /\ g.row = f.row
        /\ g.id2 = f.id2 /\ g.row2 = f.row2
    BY <1>1 DEF Frame
  <2> HIDE DEF g
  <2>3. Held(g) \subseteq Held(f) /\ Ordered(g)
    BY <1>1, <2>2 DEF Held, Ordered
  <2> QED  BY <1>1, <2>1, <2>3
<1>9. CASE AccountCheck(r)
  <2>1. Goto(r, Idle) \/ \E u : Goto(r, Purging(u))
    BY <1>9 DEF AccountCheck
  <2> QED  BY <1>3, <2>1, PurgingClaims
<1>10. CASE \/ Insert(r) \/ Save(r) \/ Mark(r) \/ DeclineRow(r) \/ Drop(r)
            \/ RemoveRow(r) \/ Promote(r) \/ Restore(r) \/ Dissolve(r)
            \/ Close(r) \/ DeprovisionRow(r)
  <2>1. Goto(r, Idle) \/ Then(r)
    BY <1>10 DEF Insert, Save, Mark, DeclineRow, Drop, RemoveRow, Promote,
                 Restore, Dissolve, Close, DeprovisionRow
  <2> QED  BY <1>3, <1>4, <2>1
<1> QED  BY <1>6, <1>7, <1>8, <1>9, <1>10 DEF Continue

LEMMA ContinueClaims ==
    ASSUME IInv, ClaimsInv, NEW r \in Requests, Continue(r)
    PROVE  ClaimsInv'
<1>1. PICK f : Goto(r, f) /\ Ordered(f) /\ Held(f) \subseteq Claims
  BY FrameStaysClaimed
<1>2. PICK u : /\ RowClaims(members') \subseteq Claims \cup {<<lastRow + 1, u>>}
               /\ Known(members', accounts')
  BY RowsStayClaimed
<1>3. PICK X : X = Claims \cup {<<lastRow + 1, u>>}
  OBVIOUS
<1>4. Held(f) \subseteq X /\ RowClaims(members') \subseteq X
  BY <1>1, <1>2, <1>3
<1> QED  BY <1>1, <1>2, <1>3, <1>4, ClaimsStep

LEMMA NextClaims ==
    ASSUME IInv, ClaimsInv, [Next]_vars
    PROVE  ClaimsInv'
<1>1. CASE UNCHANGED vars
  BY <1>1 DEF vars, ClaimsInv, Claims
<1>2. ASSUME NEW r \in Requests, Fail(r)
      PROVE  ClaimsInv'
  <2>1. PICK X : X = Claims \cup {<<lastRow + 1, Founder>>}
    OBVIOUS
  <2>2. Goto(r, Idle) /\ UNCHANGED <<members, accounts>> /\ Known(members, accounts)
    BY <1>2 DEF Fail, Frozen, ClaimsInv
  <2>3. Held(Idle) \subseteq X /\ RowClaims(members) \subseteq X
    BY <2>1, IdleClaims DEF Claims
  <2> QED  BY <2>1, <2>2, <2>3, IdleClaims, ClaimsStep
<1>3. ASSUME NEW i, Lapse(i)
      PROVE  ClaimsInv'
  BY <1>3 DEF Lapse, Frozen, ClaimsInv, Claims
<1>4. CASE Next
  BY <1>2, <1>3, <1>4, AnswerClaims, ManageClaims, ArrivalClaims, ContinueClaims
  DEF Next
<1> QED  BY <1>1, <1>4

LEMMA ClaimsAlways == Spec => []ClaimsInv
<1>1. Init => ClaimsInv
  <2>1. ASSUME Init PROVE ClaimsInv
    <3>1. /\ DOMAIN members = {1} /\ members[1].user = Founder
          /\ accounts = Users /\ \A r \in Requests : req[r] = Idle
      BY <2>1 DEF Init, FounderRow, NewRow
    <3>2. RowClaims(members) = {<<1, Founder>>}
      BY <3>1 DEF RowClaims
    <3>3. \A r \in Requests : Held(req[r]) = {} /\ Ordered(req[r])
      BY <3>1, IdleClaims
    <3>4. Claims = {<<1, Founder>>}
      BY <3>2, <3>3 DEF Claims
    <3>5. Known(members, accounts)
      BY <3>1, MembersAssumption DEF Known
    <3> QED  BY <3>3, <3>4, <3>5 DEF ClaimsInv, Agree
  <2> QED  BY <2>1
<1>2. IInv /\ ClaimsInv /\ [Next]_vars => ClaimsInv'
  BY NextClaims
<1> QED  BY <1>1, <1>2, IInvAlways, PTL DEF Spec

(* The id of a membership stays one user's, for any number of concurrent   *)
(* requests: Save writes rows back that were changed or deleted in the     *)
(* meantime, but an id is never handed to another user by it, and nobody   *)
(* without an account has a row (the foreign key, and Close's refusal).    *)
THEOREM IdsKeepTheirUser ==
    Spec => /\ []Known(members, accounts)
            /\ [][\A i \in DOMAIN members \cap DOMAIN members' :
                     members'[i].user = members[i].user]_vars
<1>1. ClaimsInv => Known(members, accounts)
  BY DEF ClaimsInv
<1>2. ASSUME IInv, ClaimsInv, [Next]_vars,
             NEW i \in DOMAIN members \cap DOMAIN members'
      PROVE  members'[i].user = members[i].user
  <2>1. ASSUME NEW r \in Requests, Continue(r)
        PROVE  members'[i].user = members[i].user
    <3>1. PICK u : RowClaims(members') \subseteq Claims \cup {<<lastRow + 1, u>>}
      BY <1>2, <2>1, RowsStayClaimed
    <3> DEFINE c == <<i, members[i].user>>
               d == <<i, members'[i].user>>
    <3>2. c \in Claims
      BY <1>2 DEF Claims, RowClaims
    <3>3. d \in RowClaims(members')
      BY <1>2 DEF RowClaims
    <3>4. i # lastRow + 1
      BY <1>2, Bounds DEF IInv, GoodTable
    <3>5. d \in Claims
      BY <3>1, <3>3, <3>4
    <3>6. c[1] = d[1] /\ c[2] = members[i].user /\ d[2] = members'[i].user
      OBVIOUS
    <3> HIDE DEF c, d
    <3> QED  BY <1>2, <3>2, <3>5, <3>6 DEF ClaimsInv, Agree
  <2>2. CASE \A r \in Requests : ~Continue(r)
    <3>1. members' = members
      BY <1>2, <2>2, OnlyStatementsWrite
    <3> QED  BY <3>1
  <2> QED  BY <2>1, <2>2
<1>3. IInv /\ ClaimsInv /\ [Next]_vars
        => [\A i \in DOMAIN members \cap DOMAIN members' :
               members'[i].user = members[i].user]_vars
  BY <1>2
<1> QED  BY <1>1, <1>3, IInvAlways, ClaimsAlways, PTL DEF Spec
=============================================================================

------------------------- MODULE SubscriptionProofs -------------------------
(***************************************************************************)
(* What TLAPS proves of SubscriptionService for every set of requests,     *)
(* providers, plans and bounds.                                            *)
(***************************************************************************)
EXTENDS SubscriptionService, WellFoundedInduction, SequenceTheorems, TLAPS

-----------------------------------------------------------------------------
(* The queries return rows of the table. *)

(* The newest of some rows is one of them: `subs[0]` of a descending list. *)
LEMMA NewestIsMember ==
    ASSUME NEW n \in Nat, NEW S \in SUBSET (1..n), S # {}
    PROVE  Newest(S) \in S
<1> DEFINE T == {n - i : i \in S}
<1>1. T \subseteq Nat /\ T # {}
  <2>1. \A i \in S : n - i \in Nat
    OBVIOUS
  <2>2. PICK i \in S : TRUE
    OBVIOUS
  <2>3. n - i \in T
    OBVIOUS
  <2> QED  BY <2>1, <2>3
<1>2. PICK x \in T : \A y \in T : ~ (<<y, x>> \in OpToRel(<, Nat))
  <2> HIDE DEF T
  <2> QED  BY <1>1, NatLessThanWellFounded, WFMin, Zenon
<1>3. \A y \in T : ~ (y < x)
  BY <1>1, <1>2 DEF OpToRel
<1>4. PICK i \in S : x = n - i
  OBVIOUS
<1>5. \A j \in S : j <= i
  <2> TAKE j \in S
  <2>1. n - j \in T
    OBVIOUS
  <2>2. ~ (n - j < n - i)
    BY <1>3, <1>4, <2>1
  <2> QED  BY <2>2
<1> QED  BY <1>5 DEF Newest

(* GetByOrganizationID returns one of the organization's rows. *)
LEMMA EffectiveIsRow ==
    ASSUME NEW s \in Seq(Row), s # <<>>, NEW t \in Nat
    PROVE  Effective(s, t) \in DOMAIN s
<1>1. Len(s) \in Nat \ {0} /\ DOMAIN s = 1..Len(s)
  BY EmptySeq, LenProperties
<1>2. LiveIds(s) \in SUBSET (1..Len(s)) /\ InWindowIds(s, t) \in SUBSET (1..Len(s))
  BY <1>1 DEF LiveIds, InWindowIds
<1>3. CASE LiveIds(s) # {}
  BY <1>1, <1>2, <1>3, NewestIsMember DEF Effective
<1>4. CASE LiveIds(s) = {} /\ InWindowIds(s, t) # {}
  BY <1>1, <1>2, <1>4, NewestIsMember DEF Effective
<1>5. CASE LiveIds(s) = {} /\ InWindowIds(s, t) = {}
  BY <1>1, <1>5 DEF Effective
<1> QED  BY <1>3, <1>4, <1>5

-----------------------------------------------------------------------------
(* The inductive invariant.  OneRowPerProviderId alone is not inductive: a *)
(* request or the worker that writes a row back must still hold the        *)
(* provider's id of the row it is about to overwrite.                      *)

GoodFrame(f, s) ==
    /\ f \in Frame
    /\ f.pc \in {"save", "expire_read"} => f.id \in DOMAIN s
    /\ f.pc = "save" => f.row.ext = s[f.id].ext
    /\ f.pc = "grant_insert" => f.row.ext = Manual

GoodWorker(w, s) ==
    /\ w \in [phase: 1..3, todo: SUBSET Nat, id: Nat, row: Row]
    /\ w.todo \subseteq DOMAIN s
    /\ w.id # 0 => w.id \in DOMAIN s /\ w.row.ext = s[w.id].ext

IInv ==
    /\ subs \in Seq(Row)
    /\ now \in Nat
    /\ req \in [Requests -> Frame]
    /\ \A r \in Requests : GoodFrame(req[r], subs)
    /\ GoodWorker(worker, subs)
    /\ OneRowPerProviderId

(* What a step may do to the table: rows stay, under their provider's id.  *)
KeepsExts(s, t) ==
    \A i \in DOMAIN s : i \in DOMAIN t /\ t[i].ext = s[i].ext

(* The steps that read the table and leave it alone. *)
Moves(r) == UNCHANGED subs /\ \E g : GoodFrame(g, subs) /\ Goto(r, g)

-----------------------------------------------------------------------------
(* Row changes yield rows, and all but Granted keep the provider's id. *)

LEMMA FreeRowIsRow == FreeRow \in Row /\ FreeRow.ext = Manual
BY PlansAssumption DEF FreeRow, Row, States, Times, Seats

LEMMA RowChanges ==
    ASSUME NEW row \in Row, NEW t \in Nat, NEW exp \in Times
    PROVE  /\ Expired(row) \in Row /\ Expired(row).ext = row.ext
           /\ Paid(row, t) \in Row /\ Paid(row, t).ext = row.ext
           /\ PaymentFailed(row, exp) \in Row
           /\ PaymentFailed(row, exp).ext = row.ext
           /\ WithExpiration(row, exp) \in Row
           /\ WithExpiration(row, exp).ext = row.ext
           /\ Canceled(row, exp) \in Row /\ Canceled(row, exp).ext = row.ext
           /\ Reactivated(row, exp) \in Row
           /\ Reactivated(row, exp).ext = row.ext
           /\ Extended(row, exp) \in Row /\ Extended(row, exp).ext = row.ext
           /\ Revoked(row) \in Row /\ Revoked(row).ext = row.ext
<1>1. /\ Expired(row) \in Row /\ Expired(row).ext = row.ext
      /\ PaymentFailed(row, exp) \in Row
      /\ PaymentFailed(row, exp).ext = row.ext
      /\ Revoked(row) \in Row /\ Revoked(row).ext = row.ext
  BY DEF Row, States, Times, Seats, Expired, PaymentFailed, Revoked
<1>2. Paid(row, t) \in Row /\ Paid(row, t).ext = row.ext
  <2>1. t + Period[row.plan] \in Nat
    BY PlansAssumption DEF Row
  <2> QED  BY <2>1 DEF Row, States, Times, Paid
<1>3. ASSUME NEW x \in Row
      PROVE  WithExpiration(x, exp) \in Row /\ WithExpiration(x, exp).ext = x.ext
  BY DEF Row, WithExpiration
<1>4. \A st \in {"canceled", "active"} :
        LET x == [row EXCEPT !.state = st] IN x \in Row /\ x.ext = row.ext
  BY DEF Row, States
<1>5. Canceled(row, exp) \in Row /\ Canceled(row, exp).ext = row.ext
  BY <1>3, <1>4 DEF Canceled
<1>6. Reactivated(row, exp) \in Row /\ Reactivated(row, exp).ext = row.ext
  BY <1>3, <1>4 DEF Reactivated
<1>7. Extended(row, exp) \in Row /\ Extended(row, exp).ext = row.ext
  BY <1>3, <1>6 DEF Extended
<1> QED  BY <1>1, <1>2, <1>3, <1>5, <1>6, <1>7

LEMMA NewRows ==
    ASSUME NEW row \in Row, NEW plan \in Plans, NEW seats \in Seats,
           NEW t \in Nat, NEW ext \in Exts \cup {Manual}
    PROVE  /\ NewRow(ext, plan, seats, t) \in Row
           /\ Granted(row, plan, seats, t) \in Row
           /\ Granted(row, plan, seats, t).ext = Manual
<1>1. NewRow(ext, plan, seats, t) \in Row
  <2>1. t + Trial[plan] \in Nat /\ t + Period[plan] \in Nat
    BY PlansAssumption
  <2> QED  BY <2>1 DEF Row, States, Times, NewRow
<1>2. Granted(row, plan, seats, t) \in Row /\ Granted(row, plan, seats, t).ext = Manual
  BY DEF Row, States, Times, Granted
<1> QED  BY <1>1, <1>2

(* ExpireActiveByOrganizationID keeps every row in its place. *)
LEMMA ExpireLiveRows ==
    ASSUME NEW s \in Seq(Row)
    PROVE  /\ ExpireLive(s) \in Seq(Row)
           /\ DOMAIN ExpireLive(s) = DOMAIN s
           /\ \A i \in DOMAIN s : ExpireLive(s)[i].ext = s[i].ext
<1>1. Len(s) \in Nat /\ DOMAIN s = 1..Len(s) /\ \A i \in 1..Len(s) : s[i] \in Row
  BY LenProperties, ElementOfSeq
<1>2. \A i \in 1..Len(s) : ExpireLive(s)[i] \in Row /\ ExpireLive(s)[i].ext = s[i].ext
  BY <1>1, RowChanges DEF ExpireLive, Times
<1>3. DOMAIN ExpireLive(s) = 1..Len(s)
  BY <1>1 DEF ExpireLive
<1>4. ExpireLive(s) \in Seq(Row)
  BY <1>1, <1>2, <1>3, IsASeq DEF ExpireLive
<1> QED  BY <1>1, <1>2, <1>3, <1>4
-----------------------------------------------------------------------------
(* Frames. *)

LEMMA IdleIsGood == ASSUME NEW s PROVE GoodFrame(Idle, s) /\ Idle \in Frame
BY FreeRowIsRow DEF GoodFrame, Idle, Frame, PCs, Thens, Times

(* The row at an id of the table, and the id. *)
LEMMA RowsOfTable ==
    ASSUME NEW s \in Seq(Row), NEW i \in DOMAIN s
    PROVE  s[i] \in Row /\ i \in Nat \ {0} /\ s # <<>>
BY LenProperties, ElementOfSeq, EmptySeq

LEMMA RowFields ==
    ASSUME NEW row \in Row
    PROVE  /\ row.ext \in Exts \cup {Manual}
           /\ row.plan \in Plans
           /\ row.seats \in Seats
           /\ \A ext \in Exts \cup {Manual} : [row EXCEPT !.ext = ext] \in Row
           /\ \A plan \in Plans, seats \in Seats :
                 /\ [row EXCEPT !.plan = plan, !.seats = seats] \in Row
                 /\ [row EXCEPT !.plan = plan, !.seats = seats].ext = row.ext
           /\ \A plan \in Plans :
                 /\ [row EXCEPT !.plan = plan] \in Row
                 /\ [row EXCEPT !.plan = plan].ext = row.ext
           /\ \A seats \in Seats :
                 /\ [row EXCEPT !.seats = seats] \in Row
                 /\ [row EXCEPT !.seats = seats].ext = row.ext
           /\ \A t \in Times :
                 /\ [row EXCEPT !.renew = t, !.grace = Null] \in Row
                 /\ [row EXCEPT !.renew = t, !.grace = Null].ext = row.ext
BY DEF Row, Times

LEMMA FrameFields ==
    ASSUME NEW f \in Frame
    PROVE  /\ f.row \in Row /\ f.exp \in Times /\ f.then \in Thens
           /\ f.id \in Nat
           /\ \A row \in Row : /\ [f EXCEPT !.row = row] \in Frame
                               /\ [f EXCEPT !.row = row].row = row
                               /\ [f EXCEPT !.row = row].pc = f.pc
BY DEF Frame

(* A handler that is about to write back a change of the row it read. *)
LEMMA SaveIsGood ==
    ASSUME NEW s \in Seq(Row), NEW f \in Frame, NEW i \in DOMAIN s,
           NEW row \in Row, row.ext = s[i].ext
    PROVE  GoodFrame([f EXCEPT !.pc = "save", !.id = i, !.row = row], s)
<1>1. i \in Nat
  BY RowsOfTable
<1> QED  BY <1>1 DEF GoodFrame, Frame, PCs

LEMMA SaveMoves ==
    ASSUME IInv, NEW r \in Requests, NEW f \in Frame, NEW i \in DOMAIN subs,
           NEW row \in Row, row.ext = subs[i].ext,
           SaveLater(r, f, i, row), UNCHANGED subs
    PROVE  Moves(r)
BY SaveIsGood DEF IInv, SaveLater, Moves

LEMMA IdleMoves ==
    ASSUME NEW r \in Requests, Goto(r, Idle), UNCHANGED subs
    PROVE  Moves(r)
BY IdleIsGood DEF Moves

(* A called statement starts from a frame of the right type. *)
LEMMA CallIsFrame ==
    ASSUME NEW pc \in PCs, NEW then \in Thens, NEW row \in Row,
           NEW exp \in Times
    PROVE  /\ Call(pc, then, row, exp) \in Frame
           /\ Call(pc, then, row, exp).row = row
           /\ Call(pc, then, row, exp).pc = pc
           /\ Call(pc, then, row, exp).then = then
BY DEF Call, Frame

LEMMA Basics ==
    /\ "idle" \in PCs /\ "idle" \in Thens /\ "extend_read" \in Thens
    /\ "seats_read" \in PCs /\ "grant_insert" \in PCs
    /\ StripeIds \subseteq Exts \cup {Manual}
    /\ RcIds \subseteq Exts \cup {Manual}
    /\ Null \in Times /\ Null \in Seats /\ SeatCounts \subseteq Seats
    /\ FreePlan \in Plans
    /\ Expirations \subseteq Nat /\ Expirations \cup {Null} \subseteq Times
BY PlansAssumption, BoundsAssumption DEF PCs, Thens, Exts, Times, Seats

LEMMA AboutIsRow ==
    ASSUME NEW ext \in Exts \cup {Manual}, NEW plan \in Plans, NEW seats \in Seats
    PROVE  /\ About(ext, plan, seats) \in Row
           /\ About(ext, plan, seats).ext = ext
           /\ About(ext, plan, seats).seats = seats
BY FreeRowIsRow DEF About, Row

LEMMA ReturnIsGood ==
    ASSUME NEW s \in Seq(Row), NEW f \in Frame
    PROVE  GoodFrame(IF f.then = "idle" THEN Idle
                     ELSE [f EXCEPT !.pc = f.then, !.then = "idle"], s)
<1>1. GoodFrame([f EXCEPT !.pc = f.then, !.then = "idle"], s)
  BY DEF GoodFrame, Frame, Thens, PCs
<1> QED  BY <1>1, IdleIsGood

-----------------------------------------------------------------------------
(* How a step keeps the invariant and the rows' providers.                 *)

Keeps == IInv' /\ KeepsExts(subs, subs')

(* A frame stays good while rows keep their place and their provider.      *)
LEMMA FramesStayGood ==
    ASSUME NEW s, NEW t, KeepsExts(s, t)
    PROVE  /\ \A f : GoodFrame(f, s) => GoodFrame(f, t)
           /\ \A w : GoodWorker(w, s) => GoodWorker(w, t)
BY DEF KeepsExts, GoodFrame, GoodWorker

LEMMA SameRowsStayUnique ==
    ASSUME OneRowPerProviderId, KeepsExts(subs, subs'), DOMAIN subs' = DOMAIN subs
    PROVE  OneRowPerProviderId'
BY DEF OneRowPerProviderId, KeepsExts

(* A write by a request. *)
LEMMA WriteKeepsIInv ==
    ASSUME IInv, NEW r \in Requests, NEW g, Goto(r, g), GoodFrame(g, subs'),
           subs' \in Seq(Row), KeepsExts(subs, subs'), OneRowPerProviderId',
           UNCHANGED <<now, worker>>
    PROVE  Keeps
<1>1. g \in Frame
  BY DEF GoodFrame
<1>2. req' \in [Requests -> Frame]
  BY <1>1 DEF IInv, Goto
<1>3. \A q \in Requests : GoodFrame(req'[q], subs')
  <2> TAKE q \in Requests
  <2>1. GoodFrame(req[q], subs)
    BY DEF IInv
  <2>2. CASE q = r
    BY <2>2 DEF IInv, Goto
  <2>3. CASE q # r
    BY <2>1, <2>3, FramesStayGood DEF IInv, Goto
  <2> QED  BY <2>2, <2>3
<1>4. GoodWorker(worker', subs')
  BY FramesStayGood DEF IInv
<1> QED  BY <1>2, <1>3, <1>4 DEF IInv, Keeps

(* A step that only reads the table. *)
LEMMA MoveKeepsIInv ==
    ASSUME IInv, NEW r \in Requests, Moves(r), UNCHANGED <<now, worker>>
    PROVE  Keeps
<1>1. PICK g : GoodFrame(g, subs) /\ Goto(r, g)
  BY DEF Moves
<1>2. subs' = subs
  BY DEF Moves
<1>3. KeepsExts(subs, subs')
  BY <1>2 DEF KeepsExts
<1>4. OneRowPerProviderId'
  BY <1>2 DEF IInv, OneRowPerProviderId
<1> QED  BY <1>1, <1>2, <1>3, <1>4, WriteKeepsIInv DEF IInv
-----------------------------------------------------------------------------
(* The statements that only read: each leaves the request with a good      *)
(* frame.                                                                  *)

LEMMA WithExtIsRow ==
    ASSUME IInv, NEW ext, NEW i \in WithExt(subs, ext)
    PROVE  /\ i \in DOMAIN subs /\ subs[i] \in Row /\ subs[i].ext = ext
           /\ subs \in Seq(Row) /\ now \in Nat
BY RowsOfTable DEF WithExt, IInv

LEMMA SeatsReadMoves ==
    ASSUME IInv, NEW r \in Requests, NEW f \in Frame, SeatsRead(r, f)
    PROVE  Moves(r)
<1>1. CASE Goto(r, Idle)
  BY <1>1, IdleMoves DEF SeatsRead
<1>2. ASSUME NEW i \in WithExt(subs, f.row.ext),
             SaveLater(r, f, i, [subs[i] EXCEPT !.seats = f.row.seats])
      PROVE  Moves(r)
  <2>1. f.row.seats \in Seats
    BY FrameFields, RowFields
  <2>2. /\ [subs[i] EXCEPT !.seats = f.row.seats] \in Row
        /\ [subs[i] EXCEPT !.seats = f.row.seats].ext = subs[i].ext
    BY <2>1, WithExtIsRow, RowFields
  <2> QED  BY <1>2, <2>2, WithExtIsRow, SaveMoves DEF SeatsRead
<1> QED  BY <1>1, <1>2 DEF SeatsRead

LEMMA CreatedMoves ==
    ASSUME IInv, NEW r \in Requests, NEW f \in Frame,
           NEW i \in DOMAIN subs, Created(r, f, i, subs[i]), UNCHANGED subs
    PROVE  Moves(r)
<1>1. CASE Goto(r, Idle)
  BY <1>1, IdleMoves
<1>2. CASE SaveLater(r, [f EXCEPT !.then = "idle"], i, WithExpiration(subs[i], f.exp))
  <2>1. [f EXCEPT !.then = "idle"] \in Frame
    BY DEF Frame, Thens
  <2>2. subs[i] \in Row
    BY RowsOfTable DEF IInv
  <2>3. /\ WithExpiration(subs[i], f.exp) \in Row
        /\ WithExpiration(subs[i], f.exp).ext = subs[i].ext
    BY <2>2, FrameFields, RowChanges DEF IInv
  <2> QED  BY <1>2, <2>1, <2>3, SaveMoves
<1> QED  BY <1>1, <1>2 DEF Created

LEMMA CreateLookupMoves ==
    ASSUME IInv, NEW r \in Requests, NEW f \in Frame, CreateLookup(r, f)
    PROVE  Moves(r)
<1>1. CASE Goto(r, Idle)
  BY <1>1, IdleMoves DEF CreateLookup
<1>2. ASSUME NEW i \in WithExt(subs, f.row.ext), Created(r, f, i, subs[i])
      PROVE  Moves(r)
  BY <1>2, WithExtIsRow, CreatedMoves DEF CreateLookup
<1>3. ASSUME Goto(r, Call("create_expire", "idle",
                          NewRow(f.row.ext, f.row.plan, f.row.seats, now),
                          f.exp))
      PROVE  Moves(r)
  <2> DEFINE g == Call("create_expire", "idle",
                       NewRow(f.row.ext, f.row.plan, f.row.seats, now), f.exp)
  <2>1. NewRow(f.row.ext, f.row.plan, f.row.seats, now) \in Row
    BY FrameFields, RowFields, NewRows DEF IInv
  <2>2. g \in Frame /\ g.pc = "create_expire"
    BY <2>1, CallIsFrame, FrameFields DEF PCs, Thens
  <2>3. GoodFrame(g, subs)
    BY <2>2 DEF GoodFrame
  <2> QED  BY <1>3, <2>3 DEF Moves, CreateLookup
<1> QED  BY <1>1, <1>2, <1>3 DEF CreateLookup

LEMMA SuccessReadMoves ==
    ASSUME IInv, NEW r \in Requests, NEW f \in Frame, SuccessRead(r, f)
    PROVE  Moves(r)
<1>1. ASSUME NEW i \in WithExt(subs, f.row.ext), UNCHANGED subs,
             SaveLater(r, f, i, Paid(subs[i], now))
      PROVE  Moves(r)
  <2>1. Paid(subs[i], now) \in Row /\ Paid(subs[i], now).ext = subs[i].ext
    BY WithExtIsRow, RowChanges DEF Times
  <2> QED  BY <1>1, <2>1, WithExtIsRow, SaveMoves
<1>2. CASE CreateLookup(r, f)
  BY <1>2, CreateLookupMoves
<1>3. CASE Goto(r, Idle) /\ UNCHANGED subs
  BY <1>3, IdleMoves
<1> QED  BY <1>1, <1>2, <1>3 DEF SuccessRead

LEMMA FailedReadMoves ==
    ASSUME IInv, NEW r \in Requests, NEW f \in Frame, FailedRead(r, f)
    PROVE  Moves(r)
<1>1. ASSUME NEW i \in WithExt(subs, f.row.ext),
             SaveLater(r, f, i, PaymentFailed(subs[i], now + Grace))
      PROVE  Moves(r)
  <2>1. now + Grace \in Times
    BY NumbersAssumption DEF IInv, Times
  <2>2. /\ PaymentFailed(subs[i], now + Grace) \in Row
        /\ PaymentFailed(subs[i], now + Grace).ext = subs[i].ext
    BY <2>1, WithExtIsRow, RowChanges
  <2> QED  BY <1>1, <2>2, WithExtIsRow, SaveMoves DEF FailedRead
<1>2. CASE Goto(r, Idle)
  BY <1>2, IdleMoves DEF FailedRead
<1> QED  BY <1>1, <1>2 DEF FailedRead

LEMMA EndedReadMoves ==
    ASSUME IInv, NEW r \in Requests, NEW f \in Frame, EndedRead(r, f)
    PROVE  Moves(r)
<1>1. ASSUME NEW i \in WithExt(subs, f.row.ext),
             Goto(r, [f EXCEPT !.pc = "expire_read", !.id = i])
      PROVE  Moves(r)
  <2>1. i \in DOMAIN subs /\ i \in Nat
    BY WithExtIsRow, RowsOfTable
  <2>2. GoodFrame([f EXCEPT !.pc = "expire_read", !.id = i], subs)
    BY <2>1 DEF GoodFrame, Frame, PCs
  <2> QED  BY <1>1, <2>2 DEF Moves, EndedRead
<1>2. CASE Goto(r, Idle)
  BY <1>2, IdleMoves DEF EndedRead
<1> QED  BY <1>1, <1>2 DEF EndedRead

LEMMA ExpireReadMoves ==
    ASSUME IInv, NEW r \in Requests, ExpireRead(r)
    PROVE  Moves(r)
<1>1. GoodFrame(req[r], subs) /\ req[r] \in Frame
  BY DEF IInv, GoodFrame
<1>2. req[r].id \in DOMAIN subs /\ subs[req[r].id] \in Row
  BY <1>1, RowsOfTable DEF ExpireRead, GoodFrame, IInv
<1>3. /\ Expired(subs[req[r].id]) \in Row
      /\ Expired(subs[req[r].id]).ext = subs[req[r].id].ext
  BY <1>2, RowChanges DEF IInv, Times
<1> QED  BY <1>1, <1>2, <1>3, SaveMoves DEF ExpireRead

LEMMA ExtendReadMoves ==
    ASSUME IInv, NEW r \in Requests, ExtendRead(r)
    PROVE  Moves(r)
<1> DEFINE i == Effective(subs, now)
           row == [subs[i] EXCEPT !.renew = req[r].exp, !.grace = Null]
<1>1. CASE Goto(r, Idle)
  BY <1>1, IdleMoves DEF ExtendRead
<1>2. CASE subs # <<>> /\ SaveLater(r, req[r], i, row)
  <2>1. req[r] \in Frame
    BY DEF IInv
  <2>2. i \in DOMAIN subs /\ subs[i] \in Row
    BY <1>2, EffectiveIsRow, RowsOfTable DEF IInv
  <2>3. row \in Row /\ row.ext = subs[i].ext
    BY <2>1, <2>2, FrameFields, RowFields
  <2>4. UNCHANGED subs
    BY DEF ExtendRead
  <2> HIDE DEF i, row
  <2> QED  BY <1>2, <2>1, <2>2, <2>3, <2>4, SaveMoves
<1> QED  BY <1>1, <1>2 DEF ExtendRead
-----------------------------------------------------------------------------
(* The statements that write. *)

LEMMA SaveKeepsIInv ==
    ASSUME IInv, NEW r \in Requests, Save(r), UNCHANGED <<now, worker>>
    PROVE  Keeps
<1> DEFINE f == req[r]
           g == IF f.then = "idle" THEN Idle
                ELSE [f EXCEPT !.pc = f.then, !.then = "idle"]
<1>1. /\ f \in Frame /\ f.row \in Row /\ f.id \in DOMAIN subs
      /\ f.row.ext = subs[f.id].ext
  BY FrameFields DEF IInv, GoodFrame, Save
<1>2. subs' = [subs EXCEPT ![f.id] = f.row] /\ Goto(r, g)
  BY DEF Save, Return
<1>3. subs' \in Seq(Row) /\ DOMAIN subs' = DOMAIN subs
  BY <1>1, <1>2, ExceptSeq, LenProperties DEF IInv
<1>4. KeepsExts(subs, subs')
  BY <1>1, <1>2, <1>3 DEF KeepsExts
<1>5. OneRowPerProviderId'
  BY <1>3, <1>4, SameRowsStayUnique DEF IInv
<1>6. GoodFrame(g, subs')
  BY <1>1, <1>3, ReturnIsGood
<1> HIDE DEF f, g
<1> QED  BY <1>2, <1>3, <1>4, <1>5, <1>6, WriteKeepsIInv

LEMMA CreateExpireKeepsIInv ==
    ASSUME IInv, NEW r \in Requests, CreateExpire(r), UNCHANGED <<now, worker>>
    PROVE  Keeps
<1> DEFINE g == [req[r] EXCEPT !.pc = "create_insert"]
<1>1. subs' = ExpireLive(subs) /\ Goto(r, g)
  BY DEF CreateExpire
<1>2. subs' \in Seq(Row) /\ DOMAIN subs' = DOMAIN subs
  BY <1>1, ExpireLiveRows DEF IInv
<1>3. KeepsExts(subs, subs')
  BY <1>1, <1>2, ExpireLiveRows DEF KeepsExts, IInv
<1>4. OneRowPerProviderId'
  BY <1>2, <1>3, SameRowsStayUnique DEF IInv
<1>5. GoodFrame(g, subs')
  BY DEF IInv, GoodFrame, Frame, PCs
<1> HIDE DEF g
<1> QED  BY <1>1, <1>2, <1>3, <1>4, <1>5, WriteKeepsIInv

(* An INSERT that the unique index lets through, or of a manual row.       *)
LEMMA InsertKeepsRows ==
    ASSUME IInv, NEW row \in Row, subs' = Append(subs, row),
           row.ext = Manual \/ WithExt(subs, row.ext) = {}
    PROVE  /\ subs' \in Seq(Row)
           /\ KeepsExts(subs, subs')
           /\ OneRowPerProviderId'
           /\ Len(subs) + 1 \in DOMAIN subs'
           /\ subs'[Len(subs) + 1] = row
<1>1. subs \in Seq(Row) /\ Len(subs) \in Nat /\ DOMAIN subs = 1..Len(subs)
  BY LenProperties DEF IInv
<1>2. /\ subs' \in Seq(Row)
      /\ DOMAIN subs' = 1..(Len(subs) + 1)
      /\ \A i \in 1..Len(subs) : subs'[i] = subs[i]
      /\ subs'[Len(subs) + 1] = row
  BY <1>1, AppendProperties, LenProperties
<1>3. KeepsExts(subs, subs')
  BY <1>1, <1>2 DEF KeepsExts
<1>4. OneRowPerProviderId'
  <2> SUFFICES ASSUME NEW i \in DOMAIN subs', NEW j \in DOMAIN subs',
                      subs'[i].ext \in Exts, subs'[i].ext = subs'[j].ext
               PROVE  i = j
    BY DEF OneRowPerProviderId
  <2>1. CASE i \in DOMAIN subs /\ j \in DOMAIN subs
    BY <1>1, <1>2, <2>1 DEF IInv, OneRowPerProviderId
  <2>2. ASSUME NEW k \in DOMAIN subs, subs[k].ext = row.ext, row.ext \in Exts
        PROVE  FALSE
    BY <2>2, ProvidersAssumption DEF WithExt
  <2> QED  BY <1>1, <1>2, <2>1, <2>2
<1> QED  BY <1>1, <1>2, <1>3, <1>4

LEMMA CreateInsertKeepsIInv ==
    ASSUME IInv, NEW r \in Requests, CreateInsert(r), UNCHANGED <<now, worker>>
    PROVE  Keeps
<1> DEFINE f == req[r]
           n == Len(subs) + 1
<1>1. f \in Frame /\ f.row \in Row /\ f.exp \in Times
  BY FrameFields DEF IInv
<1>2. CASE Goto(r, Idle) /\ UNCHANGED subs
  BY <1>2, IdleMoves, MoveKeepsIInv
<1>3. CASE /\ WithExt(subs, f.row.ext) = {}
           /\ subs' = Append(subs, f.row)
           /\ Created(r, f, n, f.row)
  <2>1. /\ subs' \in Seq(Row) /\ KeepsExts(subs, subs') /\ OneRowPerProviderId'
        /\ n \in DOMAIN subs' /\ subs'[n] = f.row
    BY <1>1, <1>3, InsertKeepsRows
  <2>2. CASE Goto(r, Idle)
    BY <2>1, <2>2, IdleIsGood, WriteKeepsIInv
  <2>3. CASE SaveLater(r, [f EXCEPT !.then = "idle"], n, WithExpiration(f.row, f.exp))
    <3> DEFINE x == WithExpiration(f.row, f.exp)
               h == [f EXCEPT !.then = "idle"]
               g == [h EXCEPT !.pc = "save", !.id = n, !.row = x]
    <3>1. x \in Row /\ x.ext = f.row.ext
      BY <1>1, RowChanges DEF IInv
    <3>2. h \in Frame
      BY <1>1 DEF Frame, Thens
    <3>3. GoodFrame(g, subs')
      <4> HIDE DEF h, x, n, f
      <4> QED  BY <2>1, <3>1, <3>2, SaveIsGood
    <3>4. Goto(r, g)
      BY <2>3 DEF SaveLater
    <3> HIDE DEF g
    <3> QED  BY <2>1, <3>3, <3>4, WriteKeepsIInv
  <2> QED  BY <1>3, <2>2, <2>3 DEF Created
<1> QED  BY <1>2, <1>3 DEF CreateInsert

LEMMA GrantInsertKeepsIInv ==
    ASSUME IInv, NEW r \in Requests, GrantInsert(r), UNCHANGED <<now, worker>>
    PROVE  Keeps
<1>1. req[r].row \in Row /\ req[r].row.ext = Manual
  BY FrameFields DEF IInv, GoodFrame, GrantInsert
<1>2. subs' \in Seq(Row) /\ KeepsExts(subs, subs') /\ OneRowPerProviderId'
  BY <1>1, InsertKeepsRows DEF GrantInsert
<1>3. Goto(r, Idle)
  BY DEF GrantInsert
<1> QED  BY <1>2, <1>3, IdleIsGood, WriteKeepsIInv

LEMMA ContinueKeepsIInv ==
    ASSUME IInv, NEW r \in Requests, Continue(r)
    PROVE  Keeps
<1>1. UNCHANGED <<now, worker>> /\ req[r] \in Frame
  BY DEF Continue, IInv
<1>2. CASE Save(r)
  BY <1>1, <1>2, SaveKeepsIInv
<1>3. CASE SeatsRead(r, req[r])
  BY <1>1, <1>3, SeatsReadMoves, MoveKeepsIInv
<1>4. CASE SuccessRead(r, req[r])
  BY <1>1, <1>4, SuccessReadMoves, MoveKeepsIInv
<1>5. CASE FailedRead(r, req[r])
  BY <1>1, <1>5, FailedReadMoves, MoveKeepsIInv
<1>6. CASE EndedRead(r, req[r])
  BY <1>1, <1>6, EndedReadMoves, MoveKeepsIInv
<1>7. CASE ExpireRead(r)
  BY <1>1, <1>7, ExpireReadMoves, MoveKeepsIInv
<1>8. CASE ExtendRead(r)
  BY <1>1, <1>8, ExtendReadMoves, MoveKeepsIInv
<1>9. CASE CreateExpire(r)
  BY <1>1, <1>9, CreateExpireKeepsIInv
<1>10. CASE CreateInsert(r)
  BY <1>1, <1>10, CreateInsertKeepsIInv
<1>11. CASE GrantInsert(r)
  BY <1>1, <1>11, GrantInsertKeepsIInv
<1> QED  BY <1>2, <1>3, <1>4, <1>5, <1>6, <1>7, <1>8, <1>9, <1>10, <1>11
         DEF Continue

LEMMA FailKeepsIInv ==
    ASSUME IInv, NEW r \in Requests, Fail(r)
    PROVE  Keeps
<1>1. UNCHANGED <<subs, now, worker>> /\ req[r] \in Frame /\ subs \in Seq(Row)
  BY DEF Fail, IInv
<1>2. CASE Return(r, req[r])
  BY <1>1, <1>2, ReturnIsGood, MoveKeepsIInv DEF Return, Moves
<1>3. CASE Goto(r, Idle)
  BY <1>1, <1>3, IdleMoves, MoveKeepsIInv
<1> QED  BY <1>2, <1>3 DEF Fail
-----------------------------------------------------------------------------
(* Arrivals. *)

(* A handler that writes back a change of the effective row. *)
LEMMA EffectiveMoves ==
    ASSUME IInv, NEW r \in Requests, subs # <<>>, NEW row \in Row,
           row.ext = EffectiveRow.ext, UNCHANGED subs,
           SaveLater(r, Idle, Effective(subs, now), row)
    PROVE  Moves(r)
<1>1. Effective(subs, now) \in DOMAIN subs
  BY EffectiveIsRow DEF IInv
<1> QED  BY <1>1, IdleIsGood, SaveMoves DEF EffectiveRow

LEMMA EffectiveRowIsRow ==
    ASSUME IInv, subs # <<>>
    PROVE  EffectiveRow \in Row /\ now \in Nat
BY EffectiveIsRow, RowsOfTable DEF EffectiveRow, IInv

LEMMA StripeRequestMoves ==
    ASSUME IInv, NEW r \in Requests, StripeRequest(r)
    PROVE  Moves(r) /\ UNCHANGED <<now, worker>>
<1>1. ASSUME NEW s \in StripeIds, NEW plan \in Plans, NEW seats \in Seats,
             StripeCreate(r, s, plan, seats)
      PROVE  Moves(r) /\ UNCHANGED <<now, worker>>
  <2>1. About(s, plan, seats) \in Row
    BY Basics, AboutIsRow
  <2>2. Call("idle", "idle", About(s, plan, seats), Null) \in Frame
    BY <2>1, Basics, CallIsFrame
  <2> QED  BY <1>1, <2>2, CreateLookupMoves DEF StripeCreate, Arrive
<1>2. ASSUME NEW s \in StripeIds, NEW status \in DOMAIN StatusStep,
             NEW seats \in Seats, StripeUpdated(r, s, status, seats)
      PROVE  Moves(r) /\ UNCHANGED <<now, worker>>
  <2>1. StatusStep[status] \in Thens
    BY DEF StatusStep, Thens
  <2>2. About(s, FreePlan, seats) \in Row
    BY Basics, AboutIsRow
  <2>3. Call("idle", StatusStep[status], About(s, FreePlan, seats), Null) \in Frame
    BY <2>1, <2>2, Basics, CallIsFrame
  <2> QED  BY <1>2, <2>3, SeatsReadMoves DEF StripeUpdated, Arrive
<1>3. ASSUME NEW s \in StripeIds, StripeDeleted(r, s)
      PROVE  Moves(r) /\ UNCHANGED <<now, worker>>
  <2>1. About(s, FreePlan, Null) \in Row
    BY Basics, AboutIsRow
  <2>2. Call("idle", "idle", About(s, FreePlan, Null), Null) \in Frame
    BY <2>1, Basics, CallIsFrame
  <2> QED  BY <1>3, <2>2, EndedReadMoves DEF StripeDeleted, Arrive
<1> QED  BY <1>1, <1>2, <1>3 DEF StripeRequest

LEMMA OwnerRequestMoves ==
    ASSUME IInv, NEW r \in Requests, OwnerRequest(r)
    PROVE  Moves(r) /\ UNCHANGED <<now, worker>>
<1>1. CASE Cancel(r)
  <2>1. subs # <<>> /\ EffectiveRow \in Row
    BY <1>1, EffectiveRowIsRow DEF Cancel
  <2>2. /\ Canceled(EffectiveRow, Null) \in Row
        /\ Canceled(EffectiveRow, Null).ext = EffectiveRow.ext
    BY <2>1, Basics, RowChanges DEF IInv
  <2>3. /\ SaveLater(r, Idle, Effective(subs, now), Canceled(EffectiveRow, Null))
        /\ UNCHANGED <<subs, now, worker>>
    BY <1>1 DEF Cancel, OnEffective, Arrive, EffectiveRow
  <2> QED  BY <2>1, <2>2, <2>3, EffectiveMoves
<1>2. CASE Resume(r)
  <2>1. subs # <<>> /\ EffectiveRow \in Row
    BY <1>2, EffectiveRowIsRow DEF Resume
  <2>2. /\ Reactivated(EffectiveRow, Null) \in Row
        /\ Reactivated(EffectiveRow, Null).ext = EffectiveRow.ext
    BY <2>1, Basics, RowChanges DEF IInv
  <2>3. /\ SaveLater(r, Idle, Effective(subs, now), Reactivated(EffectiveRow, Null))
        /\ UNCHANGED <<subs, now, worker>>
    BY <1>2 DEF Resume, OnEffective, Arrive, EffectiveRow
  <2> QED  BY <2>1, <2>2, <2>3, EffectiveMoves
<1>3. ASSUME NEW seats \in SeatCounts, UpdateSeats(r, seats)
      PROVE  Moves(r) /\ UNCHANGED <<now, worker>>
  <2> DEFINE g == Call("seats_read", "idle",
                       About(EffectiveRow.ext, FreePlan, seats), Null)
  <2>0. About(EffectiveRow.ext, FreePlan, seats) \in Row
    BY <1>3, Basics, AboutIsRow DEF UpdateSeats
  <2>1. g \in Frame /\ g.pc = "seats_read"
    BY <2>0, Basics, CallIsFrame
  <2>2. GoodFrame(g, subs)
    BY <2>1 DEF GoodFrame
  <2> QED  BY <1>3, <2>2 DEF UpdateSeats, Arrive, Moves
<1>4. ASSUME NEW plan \in Plans, NEW seats \in SeatCounts, ChangePlan(r, plan, seats)
      PROVE  Moves(r) /\ UNCHANGED <<now, worker>>
  <2> DEFINE x == [EffectiveRow EXCEPT !.plan = plan, !.seats = seats]
  <2>1. subs # <<>> /\ EffectiveRow \in Row
    BY <1>4, EffectiveRowIsRow DEF ChangePlan
  <2>2. x \in Row /\ x.ext = EffectiveRow.ext
    <3>1. seats \in Seats
      BY Basics
    <3> QED  BY <2>1, <3>1 DEF Row
  <2>3. SaveLater(r, Idle, Effective(subs, now), x) /\ UNCHANGED <<subs, now, worker>>
    BY <1>4 DEF ChangePlan, OnEffective, Arrive, EffectiveRow
  <2> HIDE DEF x
  <2> QED  BY <2>1, <2>2, <2>3, EffectiveMoves
<1> QED  BY <1>1, <1>2, <1>3, <1>4 DEF OwnerRequest

LEMMA AdminRequestMoves ==
    ASSUME IInv, NEW r \in Requests, AdminRequest(r)
    PROVE  Moves(r) /\ UNCHANGED <<now, worker>>
<1> USE BoundsAssumption
<1>1. ASSUME NEW plan \in Plans, NEW seats \in Seats, NEW endsAt \in Expirations,
             GrantManual(r, plan, seats, endsAt)
      PROVE  Moves(r) /\ UNCHANGED <<now, worker>>
  <2> DEFINE x == Granted(EffectiveRow, plan, seats, endsAt)
  <2>1. subs # <<>> /\ EffectiveRow \in Row /\ EffectiveRow.ext = Manual
    BY <1>1, EffectiveRowIsRow DEF GrantManual
  <2>2. x \in Row /\ x.ext = Manual
    BY <2>1, NewRows
  <2>3. SaveLater(r, Idle, Effective(subs, now), x) /\ UNCHANGED <<subs, now, worker>>
    BY <1>1 DEF GrantManual, OnEffective, Arrive, EffectiveRow
  <2> HIDE DEF x
  <2> QED  BY <2>1, <2>2, <2>3, EffectiveMoves
<1>2. ASSUME NEW plan \in Plans, NEW seats \in Seats, NEW endsAt \in Expirations,
             GrantNew(r, plan, seats, endsAt)
      PROVE  Moves(r) /\ UNCHANGED <<now, worker>>
  <2> DEFINE x == Granted(FreeRow, plan, seats, endsAt)
             g == Call("grant_insert", "idle", x, Null)
  <2>1. x \in Row /\ x.ext = Manual
    BY FreeRowIsRow, NewRows
  <2>2. g \in Frame /\ g.pc = "grant_insert" /\ g.row = x
    <3> HIDE DEF x
    <3> QED  BY <2>1, Basics, CallIsFrame
  <2>3. GoodFrame(g, subs)
    BY <2>1, <2>2 DEF GoodFrame
  <2> QED  BY <1>2, <2>3 DEF GrantNew, Arrive, Moves
<1>3. CASE RevokeManual(r)
  <2>1. subs # <<>> /\ EffectiveRow \in Row
    BY <1>3, EffectiveRowIsRow DEF RevokeManual
  <2>2. Revoked(EffectiveRow) \in Row /\ Revoked(EffectiveRow).ext = EffectiveRow.ext
    BY <2>1, Basics, RowChanges DEF IInv
  <2>3. /\ SaveLater(r, Idle, Effective(subs, now), Revoked(EffectiveRow))
        /\ UNCHANGED <<subs, now, worker>>
    BY <1>3 DEF RevokeManual, OnEffective, Arrive, EffectiveRow
  <2> QED  BY <2>1, <2>2, <2>3, EffectiveMoves
<1> QED  BY <1>1, <1>2, <1>3 DEF AdminRequest
LEMMA RevenueCatMoves ==
    ASSUME IInv, NEW r \in Requests, RevenueCatEvent(r)
    PROVE  Moves(r) /\ UNCHANGED <<now, worker>>
<1>1. PICK rc \in RcIds, exp \in Expirations \cup {Null} :
        \/ \E plan \in Plans : RcInitialPurchase(r, rc, plan, exp)
        \/ \E plan \in Plans : RcRenewal(r, rc, plan, exp)
        \/ RcProductChange(r, exp)
        \/ RcCancellation(r, exp)
        \/ RcUncancellation(r, exp)
        \/ RcBillingIssue(r, exp)
        \/ RcExpiration(r)
        \/ RcPaused(r, exp)
        \/ RcExtended(r, exp)
  BY DEF RevenueCatEvent
<1>2. exp \in Times
  BY Basics
<1>3. ASSUME NEW plan \in Plans, RcInitialPurchase(r, rc, plan, exp)
      PROVE  Moves(r) /\ UNCHANGED <<now, worker>>
  <2>1. About(rc, plan, Null) \in Row
    BY Basics, AboutIsRow
  <2>2. Call("idle", "idle", About(rc, plan, Null), exp) \in Frame
    BY <1>2, <2>1, Basics, CallIsFrame
  <2> QED  BY <1>3, <2>2, CreateLookupMoves DEF RcInitialPurchase, Arrive
<1>4. ASSUME NEW plan \in Plans, RcRenewal(r, rc, plan, exp)
      PROVE  Moves(r) /\ UNCHANGED <<now, worker>>
  <2>1. About(rc, plan, Null) \in Row
    BY Basics, AboutIsRow
  <2>2. Call("idle", "extend_read", About(rc, plan, Null), exp) \in Frame
    BY <1>2, <2>1, Basics, CallIsFrame
  <2> QED  BY <1>4, <2>2, SuccessReadMoves DEF RcRenewal, Arrive
(* The events that write back a change of the effective row. *)
<1>5. ASSUME NEW row \in Row, subs # <<>>, row.ext = EffectiveRow.ext,
             SaveLater(r, Idle, Effective(subs, now), row),
             UNCHANGED subs, UNCHANGED <<now, worker>>
      PROVE  Moves(r) /\ UNCHANGED <<now, worker>>
  BY <1>5, EffectiveMoves
<1>6. ASSUME subs # <<>>, NEW t \in Times
      PROVE  /\ WithExpiration(EffectiveRow, t) \in Row
             /\ WithExpiration(EffectiveRow, t).ext = EffectiveRow.ext
             /\ Canceled(EffectiveRow, t) \in Row
             /\ Canceled(EffectiveRow, t).ext = EffectiveRow.ext
             /\ Reactivated(EffectiveRow, t) \in Row
             /\ Reactivated(EffectiveRow, t).ext = EffectiveRow.ext
             /\ Extended(EffectiveRow, t) \in Row
             /\ Extended(EffectiveRow, t).ext = EffectiveRow.ext
             /\ PaymentFailed(EffectiveRow, t) \in Row
             /\ PaymentFailed(EffectiveRow, t).ext = EffectiveRow.ext
  BY <1>6, EffectiveRowIsRow, RowChanges
<1>7. CASE RcProductChange(r, exp)
  BY <1>2, <1>5, <1>6, <1>7 DEF RcProductChange, OnEffective, Arrive, EffectiveRow
<1>8. CASE RcCancellation(r, exp)
  BY <1>2, <1>5, <1>6, <1>8 DEF RcCancellation, OnEffective, Arrive, EffectiveRow
<1>9. CASE RcUncancellation(r, exp)
  BY <1>2, <1>5, <1>6, <1>9 DEF RcUncancellation, OnEffective, Arrive, EffectiveRow
<1>10. CASE RcBillingIssue(r, exp)
  <2> DEFINE graceEnd == IF exp = Null THEN now + Grace ELSE exp
  <2>1. graceEnd \in Times
    BY <1>2, NumbersAssumption DEF IInv, Times
  <2>2. /\ SaveLater(r, Idle, Effective(subs, now), PaymentFailed(EffectiveRow, graceEnd))
        /\ subs # <<>> /\ UNCHANGED <<subs, now, worker>>
    BY <1>10 DEF RcBillingIssue, OnEffective, Arrive, EffectiveRow
  <2> HIDE DEF graceEnd
  <2> QED  BY <1>5, <1>6, <2>1, <2>2
<1>11. CASE RcExpiration(r)
  <2> DEFINE i == Effective(subs, now)
  <2>1. i \in DOMAIN subs /\ i \in Nat
    BY <1>11, EffectiveIsRow, RowsOfTable DEF RcExpiration, IInv
  <2>2. GoodFrame([Idle EXCEPT !.pc = "expire_read", !.id = i], subs)
    <3> HIDE DEF i
    <3> QED  BY <2>1, IdleIsGood DEF GoodFrame, Frame, PCs
  <2> QED  BY <1>11, <2>2 DEF RcExpiration, Arrive, Moves
<1>12. CASE RcPaused(r, exp)
  BY <1>2, <1>5, <1>6, <1>12 DEF RcPaused, OnEffective, Arrive, EffectiveRow
<1>13. CASE RcExtended(r, exp)
  BY <1>2, <1>5, <1>6, <1>13 DEF RcExtended, OnEffective, Arrive, EffectiveRow
<1> QED  BY <1>1, <1>3, <1>4, <1>7, <1>8, <1>9, <1>10, <1>11, <1>12, <1>13

-----------------------------------------------------------------------------
(* The worker. *)

LEMMA WorkerKeepsIInv ==
    ASSUME IInv, Worker \/ WorkerFail
    PROVE  Keeps
<1>0. /\ subs \in Seq(Row) /\ GoodWorker(worker, subs) /\ DOMAIN subs \subseteq Nat
      /\ worker \in [phase: 1..3, todo: SUBSET Nat, id: Nat, row: Row]
  BY LenProperties DEF IInv, GoodWorker
(* A step that only changes the worker. *)
<1>1. ASSUME GoodWorker(worker', subs), UNCHANGED <<subs, now, req>>
      PROVE  Keeps
  BY <1>1 DEF IInv, OneRowPerProviderId, Keeps, KeepsExts
<1>2. CASE WorkerList
  <2> DEFINE due == Due(worker.phase, subs, now)
             phase == IF worker.phase = 3 THEN 1 ELSE worker.phase + 1
  <2>1. due \subseteq DOMAIN subs /\ phase \in 1..3
    BY <1>0 DEF Due
  <2>2. worker' = [worker EXCEPT !.phase = phase, !.todo = due] /\ worker.id = 0
    BY <1>2 DEF WorkerList
  <2>3. GoodWorker(worker', subs)
    <3> HIDE DEF due, phase
    <3> QED  BY <1>0, <2>1, <2>2 DEF GoodWorker
  <2> QED  BY <1>1, <1>2, <2>3 DEF WorkerList
<1>3. ASSUME NEW i \in worker.todo, WorkerRead(i)
      PROVE  Keeps
  <2>1. i \in DOMAIN subs /\ i \in Nat /\ subs[i] \in Row
    BY <1>0, RowsOfTable DEF GoodWorker
  <2>2. Expired(subs[i]) \in Row /\ Expired(subs[i]).ext = subs[i].ext
    BY <2>1, Basics, RowChanges DEF IInv
  <2>3. GoodWorker(worker', subs)
    BY <1>0, <1>3, <2>1, <2>2 DEF WorkerRead, GoodWorker
  <2> QED  BY <1>1, <1>3, <2>3 DEF WorkerRead
<1>4. CASE WorkerSave
  <2>1. /\ worker.id \in DOMAIN subs /\ worker.row \in Row
        /\ worker.row.ext = subs[worker.id].ext
        /\ subs' = [subs EXCEPT ![worker.id] = worker.row]
    BY <1>0, <1>4 DEF WorkerSave, GoodWorker
  <2>2. subs' \in Seq(Row) /\ DOMAIN subs' = DOMAIN subs
    BY <1>0, <2>1, ExceptSeq, LenProperties
  <2>3. KeepsExts(subs, subs')
    BY <2>1, <2>2 DEF KeepsExts
  <2>4. OneRowPerProviderId'
    BY <2>2, <2>3, SameRowsStayUnique DEF IInv
  <2>5. GoodWorker(worker', subs')
    BY <1>0, <1>4, <2>2, FreeRowIsRow DEF WorkerSave, GoodWorker
  <2>6. now' \in Nat /\ req' \in [Requests -> Frame]
        /\ \A r \in Requests : GoodFrame(req'[r], subs')
    BY <1>4, <2>3, FramesStayGood DEF WorkerSave, IInv
  <2> QED  BY <2>2, <2>3, <2>4, <2>5, <2>6 DEF IInv, Keeps
<1>5. CASE WorkerFail
  <2>1. GoodWorker(worker', subs)
    <3>1. CASE worker' = [worker EXCEPT !.id = 0, !.row = FreeRow]
      BY <1>0, <3>1, FreeRowIsRow DEF GoodWorker
    <3>2. ASSUME NEW i \in worker.todo,
                 worker' = [worker EXCEPT !.todo = @ \ {i}]
          PROVE  GoodWorker(worker', subs)
      BY <1>0, <3>2 DEF GoodWorker
    <3>3. CASE worker' = Resting
      BY <1>0, <3>3, FreeRowIsRow DEF GoodWorker, Resting
    <3> QED  BY <1>5, <3>1, <3>2, <3>3 DEF WorkerFail
  <2> QED  BY <1>1, <1>5, <2>1 DEF WorkerFail
<1> QED  BY <1>2, <1>3, <1>4, <1>5 DEF Worker

-----------------------------------------------------------------------------
(* The theorems. *)

LEMMA InitIInv == Init => IInv
<1> SUFFICES ASSUME Init PROVE IInv
  OBVIOUS
<1>1. subs \in Seq(Row) /\ OneRowPerProviderId
  <2>1. CASE subs = <<>>
    BY <2>1, EmptySeq DEF OneRowPerProviderId
  <2>2. CASE subs = <<FreeRow>>
    <3>1. \A i \in DOMAIN subs : i = 1
      BY <2>2
    <3> QED  BY <2>2, <3>1, FreeRowIsRow DEF OneRowPerProviderId
  <2> QED  BY <2>1, <2>2 DEF Init
<1>2. \A r \in Requests : GoodFrame(req[r], subs) /\ req[r] \in Frame
  BY IdleIsGood DEF Init
<1>3. GoodWorker(worker, subs)
  BY FreeRowIsRow DEF Init, GoodWorker, Resting
<1> QED  BY <1>1, <1>2, <1>3 DEF Init, IInv

LEMMA NextKeeps == IInv /\ [Next]_vars => Keeps
<1> SUFFICES ASSUME IInv, [Next]_vars PROVE Keeps
  OBVIOUS
<1>1. ASSUME NEW r \in Requests, StripeRequest(r) PROVE Keeps
  BY <1>1, StripeRequestMoves, MoveKeepsIInv
<1>2. ASSUME NEW r \in Requests, OwnerRequest(r) PROVE Keeps
  BY <1>2, OwnerRequestMoves, MoveKeepsIInv
<1>3. ASSUME NEW r \in Requests, RevenueCatEvent(r) PROVE Keeps
  BY <1>3, RevenueCatMoves, MoveKeepsIInv
<1>4. ASSUME NEW r \in Requests, AdminRequest(r) PROVE Keeps
  BY <1>4, AdminRequestMoves, MoveKeepsIInv
<1>5. ASSUME NEW r \in Requests, Continue(r) PROVE Keeps
  BY <1>5, ContinueKeepsIInv
<1>6. ASSUME NEW r \in Requests, Fail(r) PROVE Keeps
  BY <1>6, FailKeepsIInv
<1>7. CASE Worker \/ WorkerFail
  BY <1>7, WorkerKeepsIInv
<1>8. CASE Tick
  BY <1>8 DEF Tick, IInv, OneRowPerProviderId, Keeps, KeepsExts
<1>9. CASE UNCHANGED vars
  BY <1>9 DEF vars, IInv, OneRowPerProviderId, Keeps, KeepsExts
<1> QED  BY <1>1, <1>2, <1>3, <1>4, <1>5, <1>6, <1>7, <1>8, <1>9 DEF Next

LEMMA IInvAlways == Spec => []IInv
<1>1. IInv /\ [Next]_vars => IInv'
  BY NextKeeps DEF Keeps
<1> QED  BY InitIInv, <1>1, PTL DEF Spec

(* Whatever the requests, the webhooks and the worker do, and however they *)
(* interleave, the tables and the frames stay well typed: in particular no *)
(* handler writes back a row the database could not hold.                  *)
THEOREM TypeCorrect == Spec => []TypeOK
<1>1. IInv => TypeOK
  BY DEF IInv, GoodWorker, TypeOK
<1> QED  BY <1>1, IInvAlways, PTL

(* A provider's subscription never gets a second row. *)
THEOREM ProviderIdsUnique == Spec => []OneRowPerProviderId
<1>1. IInv => OneRowPerProviderId
  BY DEF IInv
<1> QED  BY <1>1, IInvAlways, PTL
(* No stale copy that a handler or the worker writes back moves a row to   *)
(* another provider, and no row is ever deleted.                           *)
THEOREM ProvidersKept == Spec => RowsKeepTheirProvider
<1>1. IInv /\ [Next]_vars
        => [\A i \in DOMAIN subs :
               i \in DOMAIN subs' /\ subs'[i].ext = subs[i].ext]_vars
  BY NextKeeps DEF Keeps, KeepsExts
<1> QED  BY <1>1, IInvAlways, PTL DEF Spec, RowsKeepTheirProvider
-----------------------------------------------------------------------------
(* Without store purchases a past-due row always carries the date the      *)
(* worker searches for.  GraceInv extends that to the copies: what a       *)
(* request or the worker holds in memory and may write back is graced too, *)
(* and no request is on its way to the statement that drops the date.      *)

Graced(row) == row.state = "past_due" => row.grace # Null

GracedFrame(f) ==
    Graced(f.row) /\ f.pc # "extend_read" /\ f.then # "extend_read"

GraceInv ==
    /\ PastDueHasGrace
    /\ \A r \in Requests : GracedFrame(req[r])
    /\ Graced(worker.row)

(* A step that reads the table and goes on with a graced frame. *)
GracedMoves(r) == UNCHANGED subs /\ \E g : GracedFrame(g) /\ Goto(r, g)

LEMMA GracedChanges ==
    ASSUME NEW row \in Row, Graced(row), NEW t \in Nat, NEW exp \in Times,
           NEW date \in Nat
    PROVE  /\ Graced(Expired(row))
           /\ Graced(Paid(row, t))
           /\ Graced(PaymentFailed(row, date))
           /\ Graced(WithExpiration(row, exp))
           /\ Graced(Canceled(row, exp))
           /\ Graced(Reactivated(row, exp))
           /\ Graced(Revoked(row))
           /\ \A seats : Graced([row EXCEPT !.seats = seats])
           /\ \A plan, seats : Graced([row EXCEPT !.plan = plan, !.seats = seats])
           /\ \A plan, seats, end : Graced(Granted(row, plan, seats, end))
<1>1. date # Null
  BY DEF Null
<1>2. /\ Graced(Expired(row))
      /\ Graced(Paid(row, t))
      /\ Graced(PaymentFailed(row, date))
      /\ Graced(Revoked(row))
      /\ \A seats : Graced([row EXCEPT !.seats = seats])
      /\ \A plan, seats : Graced([row EXCEPT !.plan = plan, !.seats = seats])
      /\ \A plan, seats, end : Graced(Granted(row, plan, seats, end))
  BY <1>1 DEF Row, Graced, Expired, Paid, PaymentFailed, Revoked, Granted
<1>3. ASSUME NEW x \in Row, Graced(x) PROVE Graced(WithExpiration(x, exp))
  BY <1>3 DEF Row, Graced, WithExpiration
<1>4. \A st \in {"canceled", "active"} :
        [row EXCEPT !.state = st] \in Row /\ Graced([row EXCEPT !.state = st])
  BY DEF Row, States, Graced
<1>5. Graced(Canceled(row, exp)) /\ Graced(Reactivated(row, exp))
  BY <1>3, <1>4 DEF Canceled, Reactivated
<1> QED  BY <1>2, <1>3, <1>5

LEMMA GracedNew ==
    /\ Graced(FreeRow) /\ GracedFrame(Idle)
    /\ \A ext, plan, seats : Graced(About(ext, plan, seats))
    /\ \A ext, plan, seats, t : Graced(NewRow(ext, plan, seats, t))
BY DEF Graced, GracedFrame, Idle, FreeRow, About, NewRow

LEMMA GracedSave ==
    ASSUME NEW r \in Requests, NEW f \in Frame, GracedFrame(f), NEW i,
           NEW row, Graced(row), SaveLater(r, f, i, row)
    PROVE  \E g : GracedFrame(g) /\ Goto(r, g)
<1> DEFINE g == [f EXCEPT !.pc = "save", !.id = i, !.row = row]
<1>1. GracedFrame(g)
  BY DEF GracedFrame, Frame
<1> HIDE DEF g
<1>2. Goto(r, [f EXCEPT !.pc = "save", !.id = i, !.row = row])
  BY DEF SaveLater
<1> QED  BY <1>1, <1>2 DEF g

LEMMA GracedReturn ==
    ASSUME NEW r \in Requests, NEW f \in Frame, GracedFrame(f), Return(r, f)
    PROVE  \E g : GracedFrame(g) /\ Goto(r, g)
<1>1. GracedFrame([f EXCEPT !.pc = f.then, !.then = "idle"])
  BY DEF GracedFrame, Frame
<1> QED  BY <1>1, GracedNew DEF Return

(* A row of the table is graced. *)
LEMMA TableIsGraced ==
    ASSUME IInv, PastDueHasGrace, NEW i \in DOMAIN subs
    PROVE  subs[i] \in Row /\ Graced(subs[i]) /\ now \in Nat
BY RowsOfTable DEF IInv, PastDueHasGrace, Graced

(* The statements that read a provider's row. *)
LEMMA GracedReads ==
    ASSUME IInv, GraceInv, NEW r \in Requests, NEW f \in Frame, GracedFrame(f),
           \/ SeatsRead(r, f)
           \/ SuccessRead(r, f)
           \/ FailedRead(r, f)
           \/ EndedRead(r, f)
    PROVE  GracedMoves(r)
<1>1. ASSUME NEW i \in WithExt(subs, f.row.ext)
      PROVE  /\ i \in DOMAIN subs /\ subs[i] \in Row /\ Graced(subs[i])
             /\ now \in Nat /\ now + Grace \in Nat
  BY TableIsGraced, NumbersAssumption DEF WithExt, GraceInv
<1>2. Goto(r, Idle) => \E g : GracedFrame(g) /\ Goto(r, g)
  BY GracedNew
<1>3. CASE SeatsRead(r, f)
  <2>1. ASSUME NEW i \in WithExt(subs, f.row.ext)
        PROVE  Graced([subs[i] EXCEPT !.seats = f.row.seats])
    BY <1>1, GracedChanges DEF Times
  <2> QED  BY <1>2, <1>3, <2>1, GracedSave DEF SeatsRead, GracedMoves
<1>4. CASE SuccessRead(r, f)
  <2>1. ASSUME NEW i \in WithExt(subs, f.row.ext)
        PROVE  Graced(Paid(subs[i], now))
    BY <1>1, GracedChanges DEF Times
  <2> QED  BY <1>2, <1>4, <2>1, GracedSave DEF SuccessRead, GracedMoves, GracedFrame
<1>5. CASE FailedRead(r, f)
  <2>1. ASSUME NEW i \in WithExt(subs, f.row.ext)
        PROVE  Graced(PaymentFailed(subs[i], now + Grace))
    BY <1>1, GracedChanges DEF Times
  <2> QED  BY <1>2, <1>5, <2>1, GracedSave DEF FailedRead, GracedMoves
<1>6. CASE EndedRead(r, f)
  <2>1. ASSUME NEW i
        PROVE  GracedFrame([f EXCEPT !.pc = "expire_read", !.id = i])
    BY DEF GracedFrame, Frame
  <2> QED  BY <1>2, <1>6, <2>1 DEF EndedRead, GracedMoves
<1> QED  BY <1>3, <1>4, <1>5, <1>6

LEMMA GracedCreated ==
    ASSUME NEW r \in Requests, NEW f \in Frame, GracedFrame(f), NEW i,
           NEW row \in Row, Graced(row), Created(r, f, i, row)
    PROVE  \E g : GracedFrame(g) /\ Goto(r, g)
<1>1. CASE Goto(r, Idle)
  BY <1>1, GracedNew
<1>2. CASE SaveLater(r, [f EXCEPT !.then = "idle"], i, WithExpiration(row, f.exp))
  <2>1. [f EXCEPT !.then = "idle"] \in Frame /\ GracedFrame([f EXCEPT !.then = "idle"])
    BY DEF Frame, Thens, GracedFrame
  <2>2. Graced(WithExpiration(row, f.exp))
    BY FrameFields, GracedChanges DEF Times
  <2> QED  BY <1>2, <2>1, <2>2, GracedSave
<1> QED  BY <1>1, <1>2 DEF Created

LEMMA GracedLookup ==
    ASSUME IInv, GraceInv, NEW r \in Requests, NEW f \in Frame, GracedFrame(f),
           CreateLookup(r, f)
    PROVE  GracedMoves(r)
<1>1. CASE Goto(r, Idle)
  BY <1>1, GracedNew DEF CreateLookup, GracedMoves
<1>2. ASSUME NEW i \in WithExt(subs, f.row.ext), Created(r, f, i, subs[i])
      PROVE  GracedMoves(r)
  <2>1. subs[i] \in Row /\ Graced(subs[i])
    BY TableIsGraced DEF WithExt, GraceInv
  <2> QED  BY <1>2, <2>1, GracedCreated DEF CreateLookup, GracedMoves
<1>3. ASSUME Goto(r, Call("create_expire", "idle",
                          NewRow(f.row.ext, f.row.plan, f.row.seats, now),
                          f.exp))
      PROVE  GracedMoves(r)
  <2>1. GracedFrame(Call("create_expire", "idle",
                         NewRow(f.row.ext, f.row.plan, f.row.seats, now), f.exp))
    BY GracedNew DEF GracedFrame, Call
  <2> QED  BY <1>3, <2>1 DEF CreateLookup, GracedMoves
<1> QED  BY <1>1, <1>2, <1>3 DEF CreateLookup

(* Requests that write back a change of the effective row. *)
LEMMA GracedEffective ==
    ASSUME IInv, GraceInv, NEW r \in Requests, subs # <<>>, UNCHANGED subs,
           NEW row, SaveLater(r, Idle, Effective(subs, now), row),
           Graced(EffectiveRow) => Graced(row)
    PROVE  GracedMoves(r)
<1>1. Graced(EffectiveRow)
  BY EffectiveIsRow, TableIsGraced DEF IInv, GraceInv, EffectiveRow
<1> QED  BY <1>1, IdleIsGood, GracedNew, GracedSave DEF GracedMoves

LEMMA OwnerGraced ==
    ASSUME IInv, GraceInv, NEW r \in Requests, OwnerRequest(r)
    PROVE  GracedMoves(r) /\ UNCHANGED <<now, worker>>
<1>1. CASE Cancel(r)
  <2>1. EffectiveRow \in Row /\ now \in Nat
    BY <1>1, EffectiveRowIsRow DEF Cancel
  <2>2. Graced(EffectiveRow) => Graced(Canceled(EffectiveRow, Null))
    BY <2>1, Basics, GracedChanges
  <2>3. /\ subs # <<>> /\ UNCHANGED <<subs, now, worker>>
        /\ SaveLater(r, Idle, Effective(subs, now), Canceled(EffectiveRow, Null))
    BY <1>1 DEF Cancel, OnEffective, Arrive, EffectiveRow
  <2> QED  BY <2>2, <2>3, GracedEffective
<1>2. CASE Resume(r)
  <2>1. EffectiveRow \in Row /\ now \in Nat
    BY <1>2, EffectiveRowIsRow DEF Resume
  <2>2. Graced(EffectiveRow) => Graced(Reactivated(EffectiveRow, Null))
    BY <2>1, Basics, GracedChanges
  <2>3. /\ subs # <<>> /\ UNCHANGED <<subs, now, worker>>
        /\ SaveLater(r, Idle, Effective(subs, now), Reactivated(EffectiveRow, Null))
    BY <1>2 DEF Resume, OnEffective, Arrive, EffectiveRow
  <2> QED  BY <2>2, <2>3, GracedEffective
<1>3. ASSUME NEW seats \in SeatCounts, UpdateSeats(r, seats)
      PROVE  GracedMoves(r) /\ UNCHANGED <<now, worker>>
  <2>1. GracedFrame(Call("seats_read", "idle",
                         About(EffectiveRow.ext, FreePlan, seats), Null))
    BY GracedNew DEF GracedFrame, Call
  <2> QED  BY <1>3, <2>1 DEF UpdateSeats, Arrive, GracedMoves
<1>4. ASSUME NEW plan \in Plans, NEW seats \in SeatCounts, ChangePlan(r, plan, seats)
      PROVE  GracedMoves(r) /\ UNCHANGED <<now, worker>>
  <2> DEFINE x == [EffectiveRow EXCEPT !.plan = plan, !.seats = seats]
  <2>1. EffectiveRow \in Row /\ now \in Nat
    BY <1>4, EffectiveRowIsRow DEF ChangePlan
  <2>2. Graced(EffectiveRow) => Graced(x)
    BY <2>1, Basics, GracedChanges
  <2>3. /\ subs # <<>> /\ UNCHANGED <<subs, now, worker>>
        /\ SaveLater(r, Idle, Effective(subs, now), x)
    BY <1>4 DEF ChangePlan, OnEffective, Arrive, EffectiveRow
  <2> HIDE DEF x
  <2> QED  BY <2>2, <2>3, GracedEffective
<1> QED  BY <1>1, <1>2, <1>3, <1>4 DEF OwnerRequest

LEMMA AdminGraced ==
    ASSUME IInv, GraceInv, NEW r \in Requests, AdminRequest(r)
    PROVE  GracedMoves(r) /\ UNCHANGED <<now, worker>>
<1>1. ASSUME NEW plan \in Plans, NEW seats \in Seats, NEW endsAt \in Expirations,
             GrantManual(r, plan, seats, endsAt)
      PROVE  GracedMoves(r) /\ UNCHANGED <<now, worker>>
  <2> DEFINE x == Granted(EffectiveRow, plan, seats, endsAt)
  <2>1. EffectiveRow \in Row /\ now \in Nat
    BY <1>1, EffectiveRowIsRow DEF GrantManual
  <2>2. Graced(EffectiveRow) => Graced(x)
    BY <2>1, Basics, GracedChanges
  <2>3. /\ subs # <<>> /\ UNCHANGED <<subs, now, worker>>
        /\ SaveLater(r, Idle, Effective(subs, now), x)
    BY <1>1 DEF GrantManual, OnEffective, Arrive, EffectiveRow
  <2> HIDE DEF x
  <2> QED  BY <2>2, <2>3, GracedEffective
<1>2. ASSUME NEW plan \in Plans, NEW seats \in Seats, NEW endsAt \in Expirations,
             GrantNew(r, plan, seats, endsAt)
      PROVE  GracedMoves(r) /\ UNCHANGED <<now, worker>>
  <2> DEFINE x == Granted(FreeRow, plan, seats, endsAt)
  <2>1. Graced(x)
    BY FreeRowIsRow, GracedNew, Basics, GracedChanges
  <2>2. GracedFrame(Call("grant_insert", "idle", x, Null))
    <3> HIDE DEF x
    <3> QED  BY <2>1 DEF GracedFrame, Call
  <2> QED  BY <1>2, <2>2 DEF GrantNew, Arrive, GracedMoves
<1>3. CASE RevokeManual(r)
  <2>1. EffectiveRow \in Row /\ now \in Nat
    BY <1>3, EffectiveRowIsRow DEF RevokeManual
  <2>2. Graced(EffectiveRow) => Graced(Revoked(EffectiveRow))
    BY <2>1, Basics, GracedChanges
  <2>3. /\ subs # <<>> /\ UNCHANGED <<subs, now, worker>>
        /\ SaveLater(r, Idle, Effective(subs, now), Revoked(EffectiveRow))
    BY <1>3 DEF RevokeManual, OnEffective, Arrive, EffectiveRow
  <2> QED  BY <2>2, <2>3, GracedEffective
<1> QED  BY <1>1, <1>2, <1>3 DEF AdminRequest

LEMMA StripeGraced ==
    ASSUME IInv, GraceInv, NEW r \in Requests, StripeRequest(r)
    PROVE  GracedMoves(r) /\ UNCHANGED <<now, worker>>
<1>1. ASSUME NEW s \in StripeIds, NEW plan \in Plans, NEW seats \in Seats,
             StripeCreate(r, s, plan, seats)
      PROVE  GracedMoves(r) /\ UNCHANGED <<now, worker>>
  <2> DEFINE f == Call("idle", "idle", About(s, plan, seats), Null)
  <2>1. f \in Frame
    BY Basics, AboutIsRow, CallIsFrame
  <2>2. GracedFrame(f)
    BY GracedNew DEF GracedFrame, Call
  <2>3. CreateLookup(r, f) /\ UNCHANGED <<now, worker>>
    BY <1>1 DEF StripeCreate, Arrive
  <2> HIDE DEF f
  <2> QED  BY <2>1, <2>2, <2>3, GracedLookup
<1>2. ASSUME NEW s \in StripeIds, NEW status \in DOMAIN StatusStep,
             NEW seats \in Seats, StripeUpdated(r, s, status, seats)
      PROVE  GracedMoves(r) /\ UNCHANGED <<now, worker>>
  <2> DEFINE f == Call("idle", StatusStep[status], About(s, FreePlan, seats), Null)
  <2>1. StatusStep[status] \in Thens \ {"extend_read"}
    BY DEF StatusStep, Thens
  <2>2. f \in Frame
    BY <2>1, Basics, AboutIsRow, CallIsFrame
  <2>3. GracedFrame(f)
    BY <2>1, GracedNew DEF GracedFrame, Call
  <2>4. SeatsRead(r, f) /\ UNCHANGED <<now, worker>>
    BY <1>2 DEF StripeUpdated, Arrive
  <2> HIDE DEF f
  <2> QED  BY <2>2, <2>3, <2>4, GracedReads
<1>3. ASSUME NEW s \in StripeIds, StripeDeleted(r, s)
      PROVE  GracedMoves(r) /\ UNCHANGED <<now, worker>>
  <2> DEFINE f == Call("idle", "idle", About(s, FreePlan, Null), Null)
  <2>1. f \in Frame
    BY Basics, AboutIsRow, CallIsFrame
  <2>2. GracedFrame(f)
    BY GracedNew DEF GracedFrame, Call
  <2>3. EndedRead(r, f) /\ UNCHANGED <<now, worker>>
    BY <1>3 DEF StripeDeleted, Arrive
  <2> HIDE DEF f
  <2> QED  BY <2>1, <2>2, <2>3, GracedReads
<1> QED  BY <1>1, <1>2, <1>3 DEF StripeRequest

(* How a step keeps the invariant. *)
LEMMA GracedWrite ==
    ASSUME IInv, GraceInv, NEW r \in Requests, NEW g, GracedFrame(g), Goto(r, g),
           PastDueHasGrace', UNCHANGED worker
    PROVE  GraceInv'
<1>1. \A q \in Requests : GracedFrame(req'[q])
  BY DEF IInv, GraceInv, Goto
<1> QED  BY <1>1 DEF GraceInv

LEMMA GracedMove ==
    ASSUME IInv, GraceInv, NEW r \in Requests, GracedMoves(r), UNCHANGED worker
    PROVE  GraceInv'
<1>1. PastDueHasGrace'
  BY DEF GracedMoves, GraceInv, PastDueHasGrace
<1> QED  BY <1>1, GracedWrite DEF GracedMoves

LEMMA ContinueGraced ==
    ASSUME IInv, GraceInv, NEW r \in Requests, Continue(r)
    PROVE  GraceInv'
<1>1. /\ UNCHANGED <<now, worker>> /\ req[r] \in Frame /\ GracedFrame(req[r])
      /\ req[r].row \in Row /\ Graced(req[r].row) /\ subs \in Seq(Row)
      /\ GoodFrame(req[r], subs) /\ now \in Nat
  BY FrameFields DEF Continue, IInv, GraceInv, GracedFrame
<1>2. CASE Save(r)
  <2>1. DOMAIN subs' = DOMAIN subs /\ subs' = [subs EXCEPT ![req[r].id] = req[r].row]
    BY <1>2 DEF Save
  <2>2. PastDueHasGrace'
    BY <1>1, <2>1 DEF GraceInv, PastDueHasGrace, Graced
  <2> QED  BY <1>1, <1>2, <2>2, GracedReturn, GracedWrite DEF Save
<1>3. CASE \/ SeatsRead(r, req[r])
           \/ SuccessRead(r, req[r])
           \/ FailedRead(r, req[r])
           \/ EndedRead(r, req[r])
  BY <1>1, <1>3, GracedReads, GracedMove
<1>4. CASE ExpireRead(r)
  <2>1. subs[req[r].id] \in Row /\ Graced(subs[req[r].id])
    BY <1>1, <1>4, TableIsGraced DEF ExpireRead, GoodFrame, GraceInv
  <2>2. Graced(Expired(subs[req[r].id]))
    BY <1>1, <2>1, Basics, GracedChanges
  <2> QED  BY <1>1, <1>4, <2>2, GracedSave, GracedMove DEF ExpireRead, GracedMoves
<1>5. CASE ExtendRead(r)
  BY <1>1, <1>5 DEF ExtendRead, GracedFrame
<1>6. CASE CreateExpire(r)
  <2>1. PastDueHasGrace'
    BY <1>6 DEF CreateExpire, ExpireLive, Expired, GraceInv, PastDueHasGrace
  <2>2. GracedFrame([req[r] EXCEPT !.pc = "create_insert"])
    BY <1>1 DEF GracedFrame, Frame
  <2> QED  BY <1>1, <1>6, <2>1, <2>2, GracedWrite DEF CreateExpire
(* A new row that is graced. *)
<1>7. subs' = Append(subs, req[r].row) => PastDueHasGrace'
  <2> SUFFICES ASSUME subs' = Append(subs, req[r].row) PROVE PastDueHasGrace'
    OBVIOUS
  <2>1. /\ DOMAIN subs' = 1..(Len(subs) + 1) /\ DOMAIN subs = 1..Len(subs)
        /\ Len(subs) \in Nat
        /\ \A i \in 1..Len(subs) : subs'[i] = subs[i]
        /\ subs'[Len(subs) + 1] = req[r].row
    BY <1>1, AppendProperties, LenProperties
  <2> QED  BY <1>1, <2>1 DEF GraceInv, PastDueHasGrace, Graced
<1>8. CASE CreateInsert(r)
  <2>1. CASE Goto(r, Idle) /\ UNCHANGED subs
    BY <1>1, <2>1, GracedNew, GracedMove DEF GracedMoves
  <2>2. CASE /\ subs' = Append(subs, req[r].row)
             /\ Created(r, req[r], Len(subs) + 1, req[r].row)
    BY <1>1, <1>7, <2>2, GracedCreated, GracedWrite
  <2> QED  BY <1>8, <2>1, <2>2 DEF CreateInsert
<1>9. CASE GrantInsert(r)
  BY <1>1, <1>7, <1>9, GracedNew, GracedWrite DEF GrantInsert
<1> QED  BY <1>2, <1>3, <1>4, <1>5, <1>6, <1>8, <1>9 DEF Continue

LEMMA WorkerGraced ==
    ASSUME IInv, GraceInv, Worker \/ WorkerFail
    PROVE  GraceInv'
<1>1. UNCHANGED req /\ worker \in [phase: 1..3, todo: SUBSET Nat, id: Nat, row: Row]
  BY DEF Worker, WorkerFail, WorkerList, WorkerRead, WorkerSave, IInv, GoodWorker
<1>2. CASE UNCHANGED subs /\ Graced(worker'.row)
  BY <1>1, <1>2 DEF GraceInv, PastDueHasGrace
<1>3. CASE WorkerList \/ WorkerFail
  <2>1. \A S, p : /\ [worker EXCEPT !.phase = p, !.todo = S].row = worker.row
                  /\ [worker EXCEPT !.todo = S].row = worker.row
    BY <1>1
  <2>2. [worker EXCEPT !.id = 0, !.row = FreeRow].row = FreeRow
    BY <1>1
  <2>3. WorkerList => worker'.row \in {worker.row, FreeRow}
    BY <2>1 DEF WorkerList
  <2>4. WorkerFail => worker'.row \in {worker.row, FreeRow}
    <3>1. Resting.row = FreeRow
      BY DEF Resting
    <3>2. WorkerFail => \/ worker' = [worker EXCEPT !.id = 0, !.row = FreeRow]
                        \/ \E S : worker' = [worker EXCEPT !.todo = S]
                        \/ worker' = Resting
      <4>1. \A i : \E S : [worker EXCEPT !.todo = @ \ {i}] = [worker EXCEPT !.todo = S]
        OBVIOUS
      <4> QED  BY <4>1 DEF WorkerFail
    <3> QED  BY <2>1, <2>2, <3>1, <3>2
  <2>5. worker'.row \in {worker.row, FreeRow}
    BY <1>3, <2>3, <2>4
  <2> QED  BY <1>2, <1>3, <2>5, GracedNew DEF WorkerList, WorkerFail, GraceInv
<1>4. ASSUME NEW i \in worker.todo, WorkerRead(i) PROVE GraceInv'
  <2>1. Graced(Expired(subs[i]))
    BY TableIsGraced, Basics, GracedChanges DEF IInv, GoodWorker, GraceInv
  <2> QED  BY <1>1, <1>2, <1>4, <2>1 DEF WorkerRead
<1>5. CASE WorkerSave
  <2>1. DOMAIN subs' = DOMAIN subs /\ subs' = [subs EXCEPT ![worker.id] = worker.row]
    BY <1>5 DEF WorkerSave
  <2>2. PastDueHasGrace'
    BY <2>1 DEF GraceInv, PastDueHasGrace, Graced
  <2> QED  BY <1>1, <1>5, <2>2, GracedNew DEF WorkerSave, GraceInv
<1> QED  BY <1>3, <1>4, <1>5 DEF Worker

(* An organization without store purchases: whatever Stripe's events, the  *)
(* owner, the administrator and the worker do to stale copies of its rows, *)
(* a past-due row has the date by which ListPastDueExpired finds it.       *)
THEOREM GraceKept ==
    ASSUME RcIds = {} PROVE Spec => []PastDueHasGrace
<1>1. Init => GraceInv
  BY GracedNew DEF Init, GraceInv, PastDueHasGrace, Resting, FreeRow
<1>2. IInv /\ GraceInv /\ [Next]_vars => GraceInv'
  <2> SUFFICES ASSUME IInv, GraceInv, [Next]_vars PROVE GraceInv'
    OBVIOUS
  <2>1. ASSUME NEW r \in Requests, StripeRequest(r) PROVE GraceInv'
    BY <2>1, StripeGraced, GracedMove
  <2>2. ASSUME NEW r \in Requests, OwnerRequest(r) PROVE GraceInv'
    BY <2>2, OwnerGraced, GracedMove
  <2>3. ASSUME NEW r \in Requests, RevenueCatEvent(r) PROVE GraceInv'
    BY <2>3 DEF RevenueCatEvent
  <2>4. ASSUME NEW r \in Requests, AdminRequest(r) PROVE GraceInv'
    BY <2>4, AdminGraced, GracedMove
  <2>5. ASSUME NEW r \in Requests, Continue(r) PROVE GraceInv'
    BY <2>5, ContinueGraced
  <2>6. ASSUME NEW r \in Requests, Fail(r) PROVE GraceInv'
    <3>1. UNCHANGED <<subs, worker>> /\ req[r] \in Frame /\ GracedFrame(req[r])
      BY <2>6 DEF Fail, IInv, GraceInv
    <3>2. Return(r, req[r]) \/ Goto(r, Idle)
      BY <2>6 DEF Fail
    <3>3. GracedMoves(r)
      BY <3>1, <3>2, GracedReturn, GracedNew DEF GracedMoves
    <3> QED  BY <3>1, <3>3, GracedMove
  <2>7. CASE Worker \/ WorkerFail
    BY <2>7, WorkerGraced
  <2>8. CASE Tick
    BY <2>8 DEF Tick, GraceInv, PastDueHasGrace
  <2>9. CASE UNCHANGED vars
    BY <2>9 DEF vars, GraceInv, PastDueHasGrace
  <2> QED  BY <2>1, <2>2, <2>3, <2>4, <2>5, <2>6, <2>7, <2>8, <2>9 DEF Next
<1>3. GraceInv => PastDueHasGrace
  BY DEF GraceInv
<1> QED  BY <1>1, <1>2, <1>3, IInvAlways, PTL DEF Spec
=============================================================================

---------------------------- MODULE StripeProofs ----------------------------
(***************************************************************************)
(* What TLAPS proves of StripeBilling.  In any order of events: its types, *)
(* and that the service takes no step SubscriptionService does not have.   *)
(* For requests one at a time: what Create leaves.  For events in order    *)
(* besides: that the rows end with Stripe's subscriptions and have the     *)
(* seats that Stripe has.                                                  *)
(***************************************************************************)
EXTENDS StripeBilling, SubscriptionProofs

-----------------------------------------------------------------------------
(* What Stripe says is well typed because rows are about subscriptions it  *)
(* has sold: an owner who changes one sends no event about another.        *)

Sold(s) == stripe[s].status # "none"

Creating == {"create_expire", "create_insert"}

(* A request of this model brings no expiration date and grants nothing,   *)
(* and expires the row of the subscription it is about.                    *)
StripeFrame(f) ==
    /\ f.exp = Null
    /\ f.pc \notin {"extend_read", "grant_insert"}
    /\ f.then # "extend_read"
    /\ f.pc = "expire_read" => subs[f.id].ext = f.row.ext
    /\ f.pc \in Creating => f.row.ext \in StripeIds /\ Sold(f.row.ext)

AccountTyped ==
    /\ stripe \in [StripeIds -> Account]
    /\ log \in Seq(Event)
    /\ \A i \in DOMAIN log : Sold(log[i].sub)

AnswersTyped ==
    /\ acked \in SUBSET Nat
    /\ handling \in [Requests -> Nat]
    /\ seatsMissed \in BOOLEAN
    /\ endsMissed \in SUBSET (Exts \cup {Manual})

RowsSold == \A i \in DOMAIN subs : subs[i].ext \in StripeIds => Sold(subs[i].ext)

FramesSold == \A r \in Requests : StripeFrame(req[r])

StripeInv == IInv /\ AccountTyped /\ AnswersTyped /\ RowsSold /\ FramesSold

(* What the owner's request or Stripe itself adds to the log. *)
LEMMA ChangeAppends ==
    ASSUME AccountTyped, NEW s \in StripeIds, NEW account \in Account,
           account.status # "none",
           NEW types \in Seq({"created", "updated", "deleted", "paid", "unpaid"}),
           Change(s, account, types)
    PROVE  /\ AccountTyped'
           /\ stripe' = [stripe EXCEPT ![s] = account]
           /\ Len(log) \in Nat /\ Len(types) \in Nat
           /\ DOMAIN log = 1..Len(log)
           /\ DOMAIN log' = 1..(Len(log) + Len(types))
           /\ \A i \in 1..Len(log) : log'[i] = log[i]
           /\ \A k \in 1..Len(types) : log'[Len(log) + k] = Sent(types[k], s, account)
           /\ \A t \in StripeIds : Sold(t) => Sold(t)'
<1> DEFINE new == [k \in DOMAIN types |-> Sent(types[k], s, account)]
<1>1. stripe' = [stripe EXCEPT ![s] = account] /\ log' = log \o new
  BY DEF Change
<1>2. /\ Len(types) \in Nat /\ DOMAIN types = 1..Len(types)
      /\ \A k \in 1..Len(types) :
            types[k] \in {"created", "updated", "deleted", "paid", "unpaid"}
  BY LenProperties, ElementOfSeq
<1>3. \A k \in DOMAIN types : new[k] = Sent(types[k], s, account) /\ new[k] \in Event
  BY <1>2 DEF Sent, Event, Account
<1>4. new \in Seq(Event) /\ Len(new) = Len(types)
  <2>1. new \in [1..Len(types) -> Event]
    BY <1>2, <1>3
  <2> HIDE DEF new
  <2> QED BY <1>2, <2>1, SeqDef, LenProperties
<1> HIDE DEF new
<1>5. log \in Seq(Event) /\ Len(log) \in Nat /\ DOMAIN log = 1..Len(log)
  BY LenProperties DEF AccountTyped
<1>6. /\ log' \in Seq(Event) /\ Len(log') = Len(log) + Len(types)
      /\ \A i \in 1..Len(log') :
            log'[i] = IF i <= Len(log) THEN log[i] ELSE new[i - Len(log)]
  BY <1>1, <1>4, <1>5, ConcatProperties
<1>7. DOMAIN log' = 1..(Len(log) + Len(types))
  BY <1>6, LenProperties
<1>8. \A i \in 1..Len(log) : log'[i] = log[i]
  BY <1>2, <1>5, <1>6
<1>9. ASSUME NEW k \in 1..Len(types)
      PROVE  log'[Len(log) + k] = Sent(types[k], s, account)
  <2>1. /\ Len(log) + k \in 1..Len(log') /\ ~(Len(log) + k <= Len(log))
        /\ (Len(log) + k) - Len(log) = k
    BY <1>2, <1>5, <1>6
  <2>2. log'[Len(log) + k] = new[k]
    BY <1>6, <2>1
  <2> QED BY <1>2, <1>3, <2>2
<1>10. stripe' \in [StripeIds -> Account]
  BY <1>1 DEF AccountTyped
<1>11. \A t \in StripeIds : Sold(t) => Sold(t)'
  BY <1>1 DEF AccountTyped, Sold
<1>12. ASSUME NEW i \in DOMAIN log'
       PROVE  Sold(log[i].sub)'
  <2>1. CASE i \in 1..Len(log)
    <3>1. log[i] \in Event /\ Sold(log[i].sub)
      BY <1>5, <2>1, ElementOfSeq DEF AccountTyped
    <3> QED BY <1>8, <1>11, <2>1, <3>1 DEF Event, Sold
  <2>2. CASE i \notin 1..Len(log)
    <3>1. PICK k \in 1..Len(types) : i = Len(log) + k
      <4>1. i - Len(log) \in 1..Len(types) /\ i = Len(log) + (i - Len(log))
        BY <1>2, <1>5, <1>7, <2>2
      <4> QED BY <4>1
    <3>2. log'[i].sub = s
      <4>1. log'[Len(log) + k] = Sent(types[k], s, account)
        BY <1>9
      <4>2. log'[i] = Sent(types[k], s, account)
        BY <3>1, <4>1
      <4> QED BY <4>2 DEF Sent
    <3>3. stripe'[s] = account
      BY <1>1 DEF AccountTyped
    <3> QED BY <3>2, <3>3 DEF Sold
  <2> QED BY <2>1, <2>2
<1> QED BY <1>1, <1>2, <1>5, <1>6, <1>7, <1>8, <1>9, <1>10, <1>11, <1>12
        DEF AccountTyped

-----------------------------------------------------------------------------
(* What the statements of a request do to its frame. *)

LEMMA GotoGoes ==
    ASSUME IInv, NEW r \in Requests, NEW g, Goto(r, g)
    PROVE  req'[r] = g /\ \A q \in Requests \ {r} : req'[q] = req[q]
BY DEF IInv, Goto

(* The frame g goes on to write back the row of f's subscription. *)
GoesToSave(f, g) ==
    /\ g \in Frame /\ g.pc = "save" /\ g.then = f.then /\ g.exp = f.exp
    /\ g.id \in DOMAIN subs
    /\ g.row.ext = f.row.ext /\ subs[g.id].ext = f.row.ext

LEMMA SaveLaterGoes ==
    ASSUME IInv, NEW r \in Requests, NEW f \in Frame, NEW i \in DOMAIN subs,
           NEW row \in Row, SaveLater(r, f, i, row)
    PROVE  \E g \in Frame : /\ Goto(r, g) /\ g.pc = "save" /\ g.then = f.then
                            /\ g.exp = f.exp /\ g.id = i /\ g.row = row
<1> DEFINE g == [f EXCEPT !.pc = "save", !.id = i, !.row = row]
<1>1. i \in Nat
  BY RowsOfTable DEF IInv
<1>2. g \in Frame /\ g.pc = "save" /\ g.then = f.then /\ g.exp = f.exp
  BY <1>1 DEF Frame, PCs
<1>3. g.id = i /\ g.row = row
  BY <1>1 DEF Frame
<1>4. Goto(r, g)
  BY DEF SaveLater
<1> HIDE DEF g
<1> QED BY <1>2, <1>3, <1>4

LEMMA RowSeats ==
    ASSUME NEW row \in Row, NEW t \in Nat, NEW exp \in Times
    PROVE  /\ \A seats \in Seats : [row EXCEPT !.seats = seats].seats = seats
           /\ Paid(row, t).seats = row.seats
           /\ PaymentFailed(row, exp).seats = row.seats
           /\ Expired(row).seats = row.seats /\ Expired(row).state = "expired"
BY DEF Row, Paid, PaymentFailed, Expired

LEMMA SeatsReadGoes ==
    ASSUME IInv, NEW r \in Requests, NEW f \in Frame, SeatsRead(r, f)
    PROVE  /\ UNCHANGED subs
           /\ \/ WithExt(subs, f.row.ext) = {} /\ Goto(r, Idle)
              \/ \E g \in Frame : Goto(r, g) /\ GoesToSave(f, g) /\ g.row.seats = f.row.seats
<1>1. ASSUME NEW i \in WithExt(subs, f.row.ext),
             SaveLater(r, f, i, [subs[i] EXCEPT !.seats = f.row.seats])
      PROVE  \E g \in Frame : Goto(r, g) /\ GoesToSave(f, g) /\ g.row.seats = f.row.seats
  <2> DEFINE row == [subs[i] EXCEPT !.seats = f.row.seats]
  <2>1. i \in DOMAIN subs /\ subs[i] \in Row /\ subs[i].ext = f.row.ext
    BY WithExtIsRow
  <2>2. f.row.seats \in Seats
    BY FrameFields, RowFields
  <2>3. row \in Row /\ row.ext = f.row.ext
    BY <2>1, <2>2, RowFields
  <2>4. row.seats = f.row.seats
    BY <2>1, <2>2 DEF Row
  <2> HIDE DEF row
  <2>5. SaveLater(r, f, i, row)
    BY <1>1 DEF row
  <2>6. PICK g \in Frame : /\ Goto(r, g) /\ g.pc = "save" /\ g.then = f.then
                           /\ g.exp = f.exp /\ g.id = i /\ g.row = row
    BY <2>1, <2>3, <2>5, SaveLaterGoes
  <2> QED BY <2>1, <2>3, <2>4, <2>6 DEF GoesToSave
<1> QED BY <1>1 DEF SeatsRead

(* Payments do not touch the seats. *)
LEMMA PaymentGoes ==
    ASSUME IInv, NEW r \in Requests, NEW f \in Frame, f.then # "extend_read",
           SuccessRead(r, f) \/ FailedRead(r, f)
    PROVE  /\ UNCHANGED subs
           /\ \/ WithExt(subs, f.row.ext) = {} /\ Goto(r, Idle)
              \/ \E g \in Frame : Goto(r, g) /\ GoesToSave(f, g)
                                  /\ g.row.seats = subs[g.id].seats
<1>1. ASSUME NEW i \in WithExt(subs, f.row.ext), NEW row \in Row,
             row.ext = f.row.ext, row.seats = subs[i].seats, SaveLater(r, f, i, row)
      PROVE  \E g \in Frame : Goto(r, g) /\ GoesToSave(f, g)
                              /\ g.row.seats = subs[g.id].seats
  <2>1. i \in DOMAIN subs /\ subs[i].ext = f.row.ext
    BY WithExtIsRow
  <2>2. PICK g \in Frame : /\ Goto(r, g) /\ g.pc = "save" /\ g.then = f.then
                           /\ g.exp = f.exp /\ g.id = i /\ g.row = row
    BY <1>1, <2>1, SaveLaterGoes
  <2> QED BY <1>1, <2>1, <2>2 DEF GoesToSave
<1>2. ASSUME NEW i \in WithExt(subs, f.row.ext)
      PROVE  /\ Paid(subs[i], now) \in Row /\ Paid(subs[i], now).ext = f.row.ext
             /\ Paid(subs[i], now).seats = subs[i].seats
             /\ PaymentFailed(subs[i], now + Grace) \in Row
             /\ PaymentFailed(subs[i], now + Grace).ext = f.row.ext
             /\ PaymentFailed(subs[i], now + Grace).seats = subs[i].seats
  <2>1. now + Grace \in Times /\ now \in Nat
    BY NumbersAssumption DEF IInv, Times
  <2> QED BY <2>1, WithExtIsRow, RowChanges, RowSeats
<1>3. CASE SuccessRead(r, f)
  BY <1>1, <1>2, <1>3 DEF SuccessRead
<1>4. CASE FailedRead(r, f)
  BY <1>1, <1>2, <1>4 DEF FailedRead
<1> QED BY <1>3, <1>4

LEMMA EndedReadGoes ==
    ASSUME IInv, NEW r \in Requests, NEW f \in Frame, EndedRead(r, f)
    PROVE  /\ UNCHANGED subs
           /\ \/ /\ Goto(r, Idle)
                 /\ \A i \in WithExt(subs, f.row.ext) : subs[i].state = "expired"
              \/ \E g \in Frame :
                    /\ Goto(r, g) /\ g.pc = "expire_read" /\ g.then = f.then
                    /\ g.exp = f.exp /\ g.row = f.row
                    /\ g.id \in DOMAIN subs /\ subs[g.id].ext = f.row.ext
<1>1. ASSUME NEW i \in WithExt(subs, f.row.ext),
             Goto(r, [f EXCEPT !.pc = "expire_read", !.id = i])
      PROVE  \E g \in Frame :
                /\ Goto(r, g) /\ g.pc = "expire_read" /\ g.then = f.then
                /\ g.exp = f.exp /\ g.row = f.row
                /\ g.id \in DOMAIN subs /\ subs[g.id].ext = f.row.ext
  <2> DEFINE g == [f EXCEPT !.pc = "expire_read", !.id = i]
  <2>1. i \in DOMAIN subs /\ i \in Nat /\ subs[i].ext = f.row.ext
    BY WithExtIsRow, RowsOfTable
  <2>2. /\ g \in Frame /\ g.pc = "expire_read" /\ g.then = f.then
        /\ g.exp = f.exp /\ g.row = f.row
    BY <2>1 DEF Frame, PCs
  <2>3. g.id = i
    BY <2>1 DEF Frame
  <2> HIDE DEF g
  <2> QED BY <1>1, <2>1, <2>2, <2>3 DEF g
<1> QED BY <1>1 DEF EndedRead

LEMMA CreateLookupGoes ==
    ASSUME IInv, NEW r \in Requests, NEW f \in Frame, f.exp = Null, CreateLookup(r, f)
    PROVE  /\ UNCHANGED subs
           /\ \/ /\ Goto(r, Idle)
                 /\ WithExt(subs, f.row.ext) # {} \/ f.row.plan \notin Fits
              \/ /\ f.row.plan \in Fits
                 /\ \E g \in Frame :
                       /\ Goto(r, g) /\ g.pc = "create_expire" /\ g.then = "idle"
                       /\ g.exp = Null /\ g.row.ext = f.row.ext
                       /\ g.row.seats = f.row.seats /\ g.row.state \in ActiveLike
<1>1. CASE /\ f.row.plan \in Fits
           /\ Goto(r, Call("create_expire", "idle",
                           NewRow(f.row.ext, f.row.plan, f.row.seats, now), f.exp))
  <2> DEFINE row == NewRow(f.row.ext, f.row.plan, f.row.seats, now)
             g == Call("create_expire", "idle", row, f.exp)
  <2>1. row \in Row
    BY FrameFields, RowFields, NewRows DEF IInv
  <2>2. row.ext = f.row.ext /\ row.seats = f.row.seats /\ row.state \in ActiveLike
    BY DEF NewRow, ActiveLike
  <2> HIDE DEF row
  <2>3. g \in Frame /\ g.pc = "create_expire" /\ g.then = "idle" /\ g.row = row
    BY <2>1, CallIsFrame, FrameFields DEF PCs, Thens
  <2>4. g.exp = Null
    BY DEF Call
  <2>5. Goto(r, g)
    BY <1>1 DEF row
  <2> HIDE DEF g
  <2> QED BY <1>1, <2>2, <2>3, <2>4, <2>5 DEF CreateLookup
<1> QED BY <1>1 DEF CreateLookup, Created

(* The kinds of statements a request of this model runs.                   *)
Stops(r) ==
    /\ UNCHANGED subs /\ Goto(r, Idle)
    /\ \/ /\ req[r].pc \in {"seats_read", "success_read", "failed_read"}
          /\ WithExt(subs, req[r].row.ext) = {}
       \/ /\ req[r].pc = "ended_read"
          /\ \A i \in WithExt(subs, req[r].row.ext) : subs[i].state = "expired"
       \/ /\ req[r].pc = "create_insert"
          /\ WithExt(subs, req[r].row.ext) # {}

Computes(r) ==
    /\ UNCHANGED subs
    /\ \E g \in Frame :
          /\ Goto(r, g) /\ GoesToSave(req[r], g)
          /\ \/ req[r].pc = "seats_read" /\ g.row.seats = req[r].row.seats
             \/ /\ req[r].pc \in {"success_read", "failed_read"}
                /\ g.row.seats = subs[g.id].seats
             \/ /\ req[r].pc = "expire_read" /\ g.row.state = "expired"
                /\ g.row.seats = subs[g.id].seats

Finds(r) ==
    /\ UNCHANGED subs /\ req[r].pc = "ended_read"
    /\ \E g \in Frame :
          /\ Goto(r, g) /\ g.pc = "expire_read" /\ g.then = req[r].then
          /\ g.exp = req[r].exp /\ g.row = req[r].row
          /\ g.id \in DOMAIN subs /\ subs[g.id].ext = g.row.ext

(* The handler is through, or comes to its second part.                    *)
Proceeds(r) ==
    \/ req[r].then = "idle" /\ Goto(r, Idle)
    \/ /\ req[r].then \in {"success_read", "failed_read", "ended_read"}
       /\ \E g \in Frame : /\ Goto(r, g) /\ g.pc = req[r].then /\ g.then = "idle"
                           /\ g.exp = req[r].exp /\ g.row = req[r].row

Saves(r) ==
    /\ req[r].pc = "save"
    /\ req[r].id \in DOMAIN subs /\ subs[req[r].id].ext = req[r].row.ext
    /\ subs' = [subs EXCEPT ![req[r].id] = req[r].row]
    /\ Proceeds(r)

Clears(r) ==
    /\ req[r].pc = "create_expire"
    /\ subs' = ExpireLive(subs)
    /\ \E g \in Frame : /\ Goto(r, g) /\ g.pc = "create_insert"
                        /\ g.then = req[r].then /\ g.exp = req[r].exp
                        /\ g.row = req[r].row

Inserts(r) ==
    /\ req[r].pc = "create_insert" /\ WithExt(subs, req[r].row.ext) = {}
    /\ subs' = Append(subs, req[r].row)
    /\ Goto(r, Idle)

LEMMA ReturnProceeds ==
    ASSUME IInv, NEW r \in Requests, StripeFrame(req[r]), Return(r, req[r])
    PROVE  Proceeds(r)
<1> DEFINE f == req[r]
           g == [f EXCEPT !.pc = f.then, !.then = "idle"]
<1>1. f \in Frame /\ f.then # "extend_read"
  BY DEF IInv, StripeFrame
<1>2. f.then \in {"idle", "success_read", "failed_read", "ended_read"}
  BY <1>1 DEF Frame, Thens
<1>3. /\ g \in Frame /\ g.pc = f.then /\ g.then = "idle"
      /\ g.exp = f.exp /\ g.row = f.row
  BY <1>1 DEF Frame, Thens, PCs
<1>4. IF f.then = "idle" THEN Goto(r, Idle) ELSE Goto(r, g)
  BY DEF Return
<1> HIDE DEF g
<1> QED BY <1>2, <1>3, <1>4 DEF Proceeds

LEMMA ContinueGoes ==
    ASSUME IInv, NEW r \in Requests, StripeFrame(req[r]), Continue(r)
    PROVE  /\ UNCHANGED <<now, worker>>
           /\ \/ Stops(r) \/ Computes(r) \/ Finds(r)
              \/ Saves(r) \/ Clears(r) \/ Inserts(r)
<1> DEFINE f == req[r]
<1>0. UNCHANGED <<now, worker>>
  BY DEF Continue
<1>1. /\ f \in Frame /\ GoodFrame(f, subs) /\ f.exp = Null
      /\ f.pc \notin {"extend_read", "grant_insert"} /\ f.then # "extend_read"
  BY DEF IInv, StripeFrame
<1>2. CASE Save(r)
  BY <1>0, <1>1, <1>2, ReturnProceeds DEF Save, Saves, GoodFrame
<1>3. CASE f.pc = "seats_read" /\ SeatsRead(r, f)
  BY <1>0, <1>1, <1>3, SeatsReadGoes DEF Stops, Computes
<1>4. CASE f.pc \in {"success_read", "failed_read"}
           /\ (SuccessRead(r, f) \/ FailedRead(r, f))
  BY <1>0, <1>1, <1>4, PaymentGoes DEF Stops, Computes
<1>5. CASE f.pc = "ended_read" /\ EndedRead(r, f)
  BY <1>0, <1>1, <1>5, EndedReadGoes DEF Stops, Finds
<1>6. CASE ExpireRead(r)
  <2> DEFINE i == f.id
             row == Expired(subs[i])
  <2>1. i \in DOMAIN subs /\ subs[i].ext = f.row.ext /\ subs[i] \in Row
    BY <1>1, <1>6, RowsOfTable DEF ExpireRead, GoodFrame, StripeFrame, IInv
  <2>2. row \in Row /\ row.ext = f.row.ext
    BY <2>1, RowChanges DEF IInv, Times
  <2>3. row.state = "expired" /\ row.seats = subs[i].seats
    BY <2>1 DEF Expired, Row
  <2>4. SaveLater(r, f, i, row) /\ UNCHANGED subs /\ f.pc = "expire_read"
    BY <1>6 DEF ExpireRead
  <2> HIDE DEF row, i
  <2>5. PICK g \in Frame : /\ Goto(r, g) /\ g.pc = "save" /\ g.then = f.then
                           /\ g.exp = f.exp /\ g.id = i /\ g.row = row
    BY <1>1, <2>1, <2>2, <2>4, SaveLaterGoes
  <2>6. GoesToSave(f, g) /\ g.row.state = "expired" /\ g.row.seats = subs[g.id].seats
    BY <2>1, <2>2, <2>3, <2>5 DEF GoesToSave
  <2> QED BY <1>0, <2>4, <2>5, <2>6 DEF Computes
<1>7. CASE CreateExpire(r)
  <2> DEFINE g == [f EXCEPT !.pc = "create_insert"]
  <2>1. /\ g \in Frame /\ g.pc = "create_insert" /\ g.then = f.then
        /\ g.exp = f.exp /\ g.row = f.row
    BY <1>1 DEF Frame, PCs
  <2>2. Goto(r, g) /\ f.pc = "create_expire" /\ subs' = ExpireLive(subs)
    BY <1>7 DEF CreateExpire
  <2> HIDE DEF g
  <2> QED BY <1>0, <2>1, <2>2 DEF Clears
<1>8. CASE CreateInsert(r)
  BY <1>0, <1>1, <1>8 DEF CreateInsert, Created, Stops, Inserts
<1> QED BY <1>1, <1>2, <1>3, <1>4, <1>5, <1>6, <1>7, <1>8
        DEF Continue, ExtendRead, GrantInsert

LEMMA FailGoes ==
    ASSUME IInv, NEW r \in Requests, StripeFrame(req[r]), Fail(r)
    PROVE  /\ UNCHANGED <<subs, now, worker>> /\ req[r].pc # "idle"
           /\ Proceeds(r)
<1>1. req[r].then \in {"idle", "success_read", "failed_read", "ended_read"}
  BY DEF IInv, StripeFrame, Frame, Thens
<1>2. CASE req[r].then = "idle"
  BY <1>2 DEF Fail, Proceeds
<1>3. CASE req[r].then # "idle"
  BY <1>1, <1>3, ReturnProceeds DEF Fail
<1> QED BY <1>2, <1>3 DEF Fail

-----------------------------------------------------------------------------
(* How requests begin. *)

LEMMA CreateGoes ==
    ASSUME IInv, NEW r \in Requests, NEW s \in StripeIds, NEW plan \in Plans,
           NEW seats \in SeatCounts, StripeCreate(r, s, plan, seats)
    PROVE  /\ UNCHANGED <<subs, now, worker>> /\ req[r].pc = "idle"
           /\ \/ /\ Goto(r, Idle)
                 /\ WithExt(subs, s) # {} \/ plan \notin Fits
              \/ /\ plan \in Fits
                 /\ \E g \in Frame :
                       /\ Goto(r, g) /\ g.pc = "create_expire" /\ g.then = "idle"
                       /\ g.exp = Null /\ g.row.ext = s
                       /\ g.row.seats = seats /\ g.row.state \in ActiveLike
<1> DEFINE row == About(s, plan, seats)
           f == Call("idle", "idle", row, Null)
<1>1. row \in Row /\ row.ext = s /\ row.seats = seats
  BY Basics, AboutIsRow
<1>2. row.plan = plan
  BY FreeRowIsRow DEF About, Row
<1> HIDE DEF row
<1>3. f \in Frame /\ f.row = row /\ f.exp = Null
  BY <1>1, Basics, CallIsFrame DEF Call
<1>4. CreateLookup(r, f) /\ Arrive(r)
  BY DEF StripeCreate, row
<1> HIDE DEF f
<1> QED BY <1>1, <1>2, <1>3, <1>4, CreateLookupGoes DEF Arrive

LEMMA UpdatedGoes ==
    ASSUME IInv, NEW r \in Requests, NEW s \in StripeIds,
           NEW status \in {"active", "past_due", "canceled"},
           NEW seats \in SeatCounts, StripeUpdated(r, s, status, seats)
    PROVE  /\ UNCHANGED <<subs, now, worker>> /\ req[r].pc = "idle"
           /\ \/ WithExt(subs, s) = {} /\ Goto(r, Idle)
              \/ \E g \in Frame :
                    /\ Goto(r, g) /\ g.pc = "save" /\ g.exp = Null
                    /\ g.then \in {"success_read", "failed_read", "ended_read"}
                    /\ g.id \in DOMAIN subs /\ subs[g.id].ext = s
                    /\ g.row.ext = s /\ g.row.seats = seats
<1> DEFINE row == About(s, FreePlan, seats)
           then == StatusStep[status]
           f == Call("idle", then, row, Null)
<1>1. row \in Row /\ row.ext = s /\ row.seats = seats
  BY Basics, AboutIsRow
<1>2. then \in {"success_read", "failed_read", "ended_read"} /\ then \in Thens
  BY DEF StatusStep, Thens
<1> HIDE DEF row, then
<1>3. f \in Frame /\ f.row = row /\ f.then = then /\ f.exp = Null
  BY <1>1, <1>2, Basics, CallIsFrame DEF Call
<1>4. SeatsRead(r, f) /\ Arrive(r)
  BY DEF StripeUpdated, row, then
<1> HIDE DEF f
<1> QED BY <1>1, <1>2, <1>3, <1>4, SeatsReadGoes DEF Arrive, GoesToSave

LEMMA DeletedGoes ==
    ASSUME IInv, NEW r \in Requests, NEW s \in StripeIds, StripeDeleted(r, s)
    PROVE  /\ UNCHANGED <<subs, now, worker>> /\ req[r].pc = "idle"
           /\ \/ /\ Goto(r, Idle)
                 /\ \A i \in WithExt(subs, s) : subs[i].state = "expired"
              \/ \E g \in Frame :
                    /\ Goto(r, g) /\ g.pc = "expire_read" /\ g.then = "idle"
                    /\ g.exp = Null /\ g.row.ext = s
                    /\ g.id \in DOMAIN subs /\ subs[g.id].ext = s
<1> DEFINE row == About(s, FreePlan, Null)
           f == Call("idle", "idle", row, Null)
<1>1. row \in Row /\ row.ext = s
  BY Basics, AboutIsRow
<1> HIDE DEF row
<1>2. f \in Frame /\ f.row = row /\ f.then = "idle" /\ f.exp = Null
  BY <1>1, Basics, CallIsFrame DEF Call
<1>3. EndedRead(r, f) /\ Arrive(r)
  BY DEF StripeDeleted, row
<1> HIDE DEF f
<1> QED BY <1>1, <1>2, <1>3, EndedReadGoes DEF Arrive

(* What every request of the owner comes down to. *)
OwnerGoes(r) ==
    /\ subs # <<>> /\ req[r].pc = "idle" /\ UNCHANGED <<subs, now, worker>>
    /\ \E g \in Frame :
          /\ Goto(r, g) /\ g.then = "idle" /\ g.exp = Null
          /\ g.row.ext = EffectiveRow.ext
          /\ \/ /\ g.pc = "save" /\ g.id \in DOMAIN subs
                /\ subs[g.id].ext = g.row.ext
             \/ g.pc = "seats_read"

LEMMA OwnerRequestGoes ==
    ASSUME IInv, NEW r \in Requests, OwnerRequest(r)
    PROVE  OwnerGoes(r)
<1>1. ASSUME NEW row \in Row, row.ext = EffectiveRow.ext, subs # <<>>, Arrive(r),
             SaveLater(r, Idle, Effective(subs, now), row), UNCHANGED subs
      PROVE  OwnerGoes(r)
  <2> DEFINE i == Effective(subs, now)
  <2>1. i \in DOMAIN subs /\ subs[i].ext = row.ext
    BY <1>1, EffectiveIsRow DEF IInv, EffectiveRow
  <2>2. PICK g \in Frame : /\ Goto(r, g) /\ g.pc = "save" /\ g.then = Idle.then
                           /\ g.exp = Idle.exp /\ g.id = i /\ g.row = row
    <3> HIDE DEF i
    <3>1. SaveLater(r, Idle, i, row)
      BY <1>1 DEF i
    <3> QED BY <2>1, <3>1, IdleIsGood, SaveLaterGoes
  <2>3. Idle.then = "idle" /\ Idle.exp = Null
    BY DEF Idle
  <2> HIDE DEF i
  <2> QED BY <1>1, <2>1, <2>2, <2>3 DEF OwnerGoes, Arrive
<1>2. CASE Cancel(r)
  <2>1. subs # <<>> /\ EffectiveRow \in Row
    BY <1>2, EffectiveRowIsRow DEF Cancel
  <2>2. /\ Canceled(EffectiveRow, Null) \in Row
        /\ Canceled(EffectiveRow, Null).ext = EffectiveRow.ext
    BY <2>1, Basics, RowChanges DEF IInv
  <2>3. /\ SaveLater(r, Idle, Effective(subs, now), Canceled(EffectiveRow, Null))
        /\ UNCHANGED subs /\ Arrive(r)
    BY <1>2 DEF Cancel, OnEffective, EffectiveRow
  <2> QED BY <1>1, <2>1, <2>2, <2>3
<1>3. CASE Resume(r)
  <2>1. subs # <<>> /\ EffectiveRow \in Row
    BY <1>3, EffectiveRowIsRow DEF Resume
  <2>2. /\ Reactivated(EffectiveRow, Null) \in Row
        /\ Reactivated(EffectiveRow, Null).ext = EffectiveRow.ext
    BY <2>1, Basics, RowChanges DEF IInv
  <2>3. /\ SaveLater(r, Idle, Effective(subs, now), Reactivated(EffectiveRow, Null))
        /\ UNCHANGED subs /\ Arrive(r)
    BY <1>3 DEF Resume, OnEffective, EffectiveRow
  <2> QED BY <1>1, <2>1, <2>2, <2>3
<1>4. ASSUME NEW seats \in SeatCounts, UpdateSeats(r, seats)
      PROVE  OwnerGoes(r)
  <2> DEFINE row == About(EffectiveRow.ext, FreePlan, seats)
             g == Call("seats_read", "idle", row, Null)
  <2>1. row \in Row /\ row.ext = EffectiveRow.ext
    BY <1>4, Basics, AboutIsRow DEF UpdateSeats
  <2> HIDE DEF row
  <2>2. g \in Frame /\ g.pc = "seats_read" /\ g.row = row /\ g.then = "idle"
    BY <2>1, Basics, CallIsFrame
  <2>3. g.exp = Null
    BY DEF Call
  <2>4. Goto(r, g) /\ UNCHANGED subs /\ Arrive(r) /\ subs # <<>>
    BY <1>4 DEF UpdateSeats, row
  <2> HIDE DEF g
  <2> QED BY <2>1, <2>2, <2>3, <2>4 DEF OwnerGoes, Arrive
<1>5. ASSUME NEW plan \in Plans, NEW seats \in SeatCounts, ChangePlan(r, plan, seats)
      PROVE  OwnerGoes(r)
  <2> DEFINE x == [EffectiveRow EXCEPT !.plan = plan, !.seats = seats]
  <2>1. subs # <<>> /\ EffectiveRow \in Row /\ seats \in Seats
    BY <1>5, EffectiveRowIsRow, Basics DEF ChangePlan
  <2>2. x \in Row /\ x.ext = EffectiveRow.ext
    BY <2>1 DEF Row
  <2>3. SaveLater(r, Idle, Effective(subs, now), x) /\ UNCHANGED subs /\ Arrive(r)
    BY <1>5 DEF ChangePlan, OnEffective, EffectiveRow
  <2> HIDE DEF x
  <2> QED BY <1>1, <2>1, <2>2, <2>3
<1> QED BY <1>2, <1>3, <1>4, <1>5 DEF OwnerRequest

-----------------------------------------------------------------------------
(* Every step is one of SubscriptionService, or leaves the rows alone.     *)

LEMMA LoggedEvent ==
    ASSUME AccountTyped, NEW i \in DOMAIN log
    PROVE  /\ log[i] \in Event /\ i \in Nat \ {0}
           /\ log[i].sub \in StripeIds /\ Sold(log[i].sub)
           /\ log[i].plan \in Plans /\ log[i].seats \in SeatCounts
           /\ log[i].status \in {"active", "past_due", "canceled"}
           /\ stripe[log[i].sub].plan \in Plans
           /\ stripe[log[i].sub].seats \in SeatCounts
<1>1. log[i] \in Event /\ i \in Nat \ {0}
  BY LenProperties, ElementOfSeq DEF AccountTyped
<1> QED BY <1>1 DEF AccountTyped, Event, Account

LEMMA HandledIsRequest ==
    ASSUME AccountTyped, NEW r \in Requests, NEW i \in DOMAIN log,
           HandleEvent(r, i, log[i])
    PROVE  StripeRequest(r) \/ UNCHANGED vars
<1>1. /\ log[i].sub \in StripeIds /\ log[i].plan \in Plans
      /\ log[i].seats \in Seats /\ log[i].status \in DOMAIN StatusStep
      /\ stripe[log[i].sub].plan \in Plans /\ stripe[log[i].sub].seats \in Seats
  BY LoggedEvent, Basics DEF StatusStep
<1> QED BY <1>1 DEF HandleEvent, StripeRequest

LEMMA SyncIsRequest ==
    ASSUME AccountTyped, NEW r \in Requests, Sync(r)
    PROVE  StripeRequest(r)
<1>1. \A s \in StripeIds : stripe[s].plan \in Plans /\ stripe[s].seats \in Seats
  BY Basics DEF AccountTyped, Account
<1> QED BY <1>1 DEF Sync, StripeRequest

LEMMA StripeNextIsNext ==
    ASSUME AccountTyped, [StripeNext]_allVars
    PROVE  [Next]_vars
<1>1. CASE StripeStep
  BY <1>1 DEF StripeStep, Checkout, InvoicePaid, InvoiceUnpaid, Ended, StripeOnly
<1>2. ASSUME NEW r \in Requests, Deliver(r) PROVE [Next]_vars
  BY <1>2, HandledIsRequest DEF Deliver, HandleUnread, Next
<1>3. ASSUME NEW r \in Requests, StripeCancel(r) \/ StripeResume(r)
      PROVE  [Next]_vars
  BY <1>3 DEF StripeCancel, StripeResume, Next, OwnerRequest
<1>4. ASSUME NEW r \in Requests, NEW seats \in SeatCounts, StripeSeats(r, seats)
      PROVE  [Next]_vars
  BY <1>4 DEF StripeSeats, Next, OwnerRequest
<1>5. ASSUME NEW r \in Requests, NEW plan \in Plans, NEW seats \in SeatCounts,
             StripePlan(r, plan, seats)
      PROVE  [Next]_vars
  BY <1>5 DEF StripePlan, Next, OwnerRequest
<1>6. ASSUME NEW r \in Requests, Sync(r) PROVE [Next]_vars
  BY <1>6, SyncIsRequest DEF Next
<1>7. ASSUME NEW r \in Requests, Advance(r) \/ Abort(r) PROVE [Next]_vars
  BY <1>7 DEF Advance, Abort, Next
<1>8. CASE Background
  BY <1>8 DEF Background, Next
<1>9. CASE UNCHANGED allVars
  BY <1>9 DEF allVars
<1> QED BY <1>1, <1>2, <1>3, <1>4, <1>5, <1>6, <1>7, <1>8, <1>9 DEF StripeNext

-----------------------------------------------------------------------------
(* The invariant is kept.                                                  *)

(* The requests that a step does not concern. *)
LEMMA OthersKept ==
    ASSUME StripeInv, Keeps, NEW q \in Requests, req'[q] = req[q],
           \A t \in StripeIds : Sold(t) => Sold(t)'
    PROVE  StripeFrame(req[q])'
<1>1. StripeFrame(req[q]) /\ GoodFrame(req[q], subs)
  BY DEF StripeInv, FramesSold, IInv
<1>2. req[q].pc = "expire_read" => subs'[req[q].id].ext = req[q].row.ext
  BY <1>1 DEF GoodFrame, StripeFrame, Keeps, KeepsExts
<1> QED BY <1>1, <1>2 DEF StripeFrame

LEMMA RequestKept ==
    ASSUME StripeInv, Keeps, NEW r \in Requests, NEW g, Goto(r, g),
           AccountTyped', AnswersTyped',
           \A t \in StripeIds : Sold(t) => Sold(t)',
           g.exp = Null, g.pc \notin {"extend_read", "grant_insert"},
           g.then # "extend_read",
           g.pc = "expire_read" => subs'[g.id].ext = g.row.ext,
           g.pc \in Creating => g.row.ext \in StripeIds /\ Sold(g.row.ext),
           \A i \in DOMAIN subs' \ DOMAIN subs :
               subs'[i].ext \in StripeIds => Sold(subs'[i].ext)
    PROVE  StripeInv'
<1>1. req'[r] = g /\ \A q \in Requests \ {r} : req'[q] = req[q]
  BY GotoGoes DEF StripeInv
<1>2. FramesSold'
  <2>1. StripeFrame(req[r])'
    BY <1>1 DEF StripeFrame
  <2> QED BY <1>1, <2>1, OthersKept DEF FramesSold
<1>3. RowsSold'
  <2> SUFFICES ASSUME NEW i \in DOMAIN subs', subs'[i].ext \in StripeIds
               PROVE  Sold(subs[i].ext)'
    BY DEF RowsSold
  <2>1. Sold(subs'[i].ext)
    BY DEF StripeInv, RowsSold, Keeps, KeepsExts
  <2>2. Sold(subs'[i].ext) => stripe'[subs'[i].ext].status # "none"
    BY DEF Sold
  <2> QED BY <2>1, <2>2 DEF Sold
<1> QED BY <1>2, <1>3 DEF StripeInv, Keeps

(* Stripe and the worker leave the requests alone. *)
LEMMA BesidesKept ==
    ASSUME StripeInv, Keeps, UNCHANGED req, DOMAIN subs' = DOMAIN subs,
           AccountTyped', AnswersTyped',
           \A t \in StripeIds : Sold(t) => Sold(t)'
    PROVE  StripeInv'
<1>1. FramesSold'
  BY OthersKept DEF FramesSold
<1>2. RowsSold'
  <2> SUFFICES ASSUME NEW i \in DOMAIN subs', subs'[i].ext \in StripeIds
               PROVE  Sold(subs[i].ext)'
    BY DEF RowsSold
  <2>1. Sold(subs'[i].ext)
    BY DEF StripeInv, RowsSold, Keeps, KeepsExts
  <2> QED BY <2>1 DEF Sold
<1> QED BY <1>1, <1>2 DEF StripeInv, Keeps

LEMMA StripeStepKept ==
    ASSUME StripeInv, StripeStep
    PROVE  StripeInv'
<1>1. ASSUME NEW s \in StripeIds, NEW status \in {"active", "past_due", "canceled"},
             NEW types \in Seq({"created", "updated", "deleted", "paid", "unpaid"}),
             Change(s, [stripe[s] EXCEPT !.status = status], types), StripeOnly
      PROVE  StripeInv'
  <2> DEFINE account == [stripe[s] EXCEPT !.status = status]
  <2>1. account \in Account /\ account.status # "none"
    BY DEF StripeInv, AccountTyped, Account
  <2> HIDE DEF account
  <2>2. Change(s, account, types)
    BY <1>1 DEF account
  <2>3. AccountTyped' /\ \A t \in StripeIds : Sold(t) => Sold(t)'
    BY <2>1, <2>2, ChangeAppends DEF StripeInv
  <2>4. AnswersTyped' /\ UNCHANGED vars
    BY <1>1 DEF StripeOnly, StripeInv, AnswersTyped
  <2>5. Keeps
    BY <2>4, NextKeeps DEF StripeInv
  <2> QED BY <2>3, <2>4, <2>5, BesidesKept DEF vars
<1>2. \A a, b \in {"created", "updated", "deleted", "paid", "unpaid"} :
         /\ <<a>> \in Seq({"created", "updated", "deleted", "paid", "unpaid"})
         /\ <<a, b>> \in Seq({"created", "updated", "deleted", "paid", "unpaid"})
  OBVIOUS
<1> QED BY <1>1, <1>2 DEF StripeStep, Checkout, InvoicePaid, InvoiceUnpaid, Ended

LEMMA IdleIsPlain == Idle.pc = "idle" /\ Idle.then = "idle" /\ Idle.exp = Null
BY DEF Idle

LEMMA AccountSame ==
    ASSUME AccountTyped, UNCHANGED <<stripe, log>>
    PROVE  AccountTyped' /\ \A t \in StripeIds : Sold(t) => Sold(t)'
BY DEF AccountTyped, Sold

(* Event i gets an answer, 200 or not, once its request is through.        *)
Replies(r, i) ==
    \/ /\ req'[r] = Idle
       /\ acked' = acked \/ acked' = acked \cup {i}
       /\ handling' = [handling EXCEPT ![r] = 0]
    \/ /\ req'[r] # Idle
       /\ acked' = acked
       /\ handling' = [handling EXCEPT ![r] = i]

LEMMA DeliverReplies ==
    ASSUME AccountTyped, AnswersTyped, NEW r \in Requests, Deliver(r)
    PROVE  \E i \in DOMAIN log :
              /\ Arrives(i) /\ Replies(r, i)
              /\ \/ HandleEvent(r, i, log[i]) /\ UNCHANGED endsMissed
                 \/ HandleUnread(r, i, log[i])
              /\ endsMissed \subseteq endsMissed'
              /\ endsMissed' \in SUBSET (Exts \cup {Manual})
<1>1. PICK i \in DOMAIN log :
         /\ Arrives(i)
         /\ \/ HandleEvent(r, i, log[i]) /\ UNCHANGED endsMissed
            \/ HandleUnread(r, i, log[i])
  BY DEF Deliver
<1>2. Replies(r, i)
  BY <1>1 DEF HandleEvent, HandleUnread, Answered, Replies
<1>3. log[i].sub \in Exts
  BY LoggedEvent DEF Exts
<1> QED BY <1>1, <1>2, <1>3 DEF HandleUnread, AnswersTyped

LEMMA AdvanceReplies ==
    ASSUME NEW r, Advance(r)
    PROVE  /\ handling[r] = 0 => UNCHANGED <<acked, handling>>
           /\ handling[r] # 0 => Replies(r, handling[r])
BY DEF Advance, Reply, Answered, Replies

LEMMA AbortReplies ==
    ASSUME NEW r, Abort(r)
    PROVE  /\ handling[r] = 0 => UNCHANGED <<acked, handling>>
           /\ handling[r] # 0 => Replies(r, handling[r])
           /\ req[r].pc # "ended_read" => UNCHANGED acked
           /\ endsMissed \subseteq endsMissed'
BY DEF Abort, Reply, Answered, Replies

LEMMA RepliesTyped ==
    ASSUME AnswersTyped, NEW r \in Requests, NEW i \in Nat, Replies(r, i),
           seatsMissed' \in BOOLEAN, endsMissed' \in SUBSET (Exts \cup {Manual})
    PROVE  AnswersTyped'
<1>1. acked' = acked \cup {i} \/ acked' = acked
  BY DEF Replies
<1>2. \/ handling' = [handling EXCEPT ![r] = 0]
      \/ handling' = [handling EXCEPT ![r] = i]
  BY DEF Replies
<1>3. acked' \in SUBSET Nat
  BY <1>1 DEF AnswersTyped
<1>4. handling' \in [Requests -> Nat]
  BY <1>2 DEF AnswersTyped
<1> QED BY <1>3, <1>4 DEF AnswersTyped

LEMMA ProceedsKept ==
    ASSUME StripeInv, Keeps, AccountTyped', AnswersTyped',
           \A t \in StripeIds : Sold(t) => Sold(t)',
           NEW r \in Requests, Proceeds(r), DOMAIN subs' = DOMAIN subs
    PROVE  StripeInv'
<1>1. StripeFrame(req[r])
  BY DEF StripeInv, FramesSold
<1>2. CASE Goto(r, Idle)
  BY <1>2, IdleIsPlain, RequestKept DEF Creating
<1>3. ASSUME NEW g \in Frame, Goto(r, g), g.then = "idle", g.exp = req[r].exp,
             g.pc \in {"success_read", "failed_read", "ended_read"}
      PROVE  StripeInv'
  BY <1>1, <1>3, RequestKept DEF Creating, StripeFrame
<1> QED BY <1>2, <1>3 DEF Proceeds

LEMMA ContinueKept ==
    ASSUME StripeInv, NEW r \in Requests, Continue(r), AccountTyped', AnswersTyped',
           \A t \in StripeIds : Sold(t) => Sold(t)'
    PROVE  StripeInv'
<1> DEFINE f == req[r]
<1>1. /\ f.exp = Null /\ f.then # "extend_read" /\ IInv /\ StripeFrame(f)
      /\ f.pc \in Creating => f.row.ext \in StripeIds /\ Sold(f.row.ext)
  BY DEF StripeInv, FramesSold, StripeFrame
<1>2. Keeps
  BY <1>1, NextKeeps DEF Next
<1>3. CASE Stops(r)
  BY <1>2, <1>3, IdleIsPlain, RequestKept DEF Stops, Creating
<1>4. CASE Computes(r)
  <2>1. PICK g \in Frame : Goto(r, g) /\ GoesToSave(f, g)
    BY <1>4 DEF Computes
  <2> QED BY <1>1, <1>2, <1>4, <2>1, RequestKept DEF Computes, GoesToSave, Creating
<1>5. CASE Finds(r)
  <2>1. PICK g \in Frame : /\ Goto(r, g) /\ g.pc = "expire_read" /\ g.then = f.then
                           /\ g.exp = f.exp /\ subs[g.id].ext = g.row.ext
    BY <1>5 DEF Finds
  <2> QED BY <1>1, <1>2, <1>5, <2>1, RequestKept DEF Finds, Creating
<1>6. CASE Saves(r)
  <2>1. DOMAIN subs' = DOMAIN subs
    BY <1>6 DEF Saves
  <2> QED BY <1>2, <1>6, <2>1, ProceedsKept DEF Saves
<1>7. CASE Clears(r)
  <2>1. PICK g \in Frame : /\ Goto(r, g) /\ g.pc = "create_insert"
                           /\ g.then = f.then /\ g.exp = f.exp /\ g.row = f.row
    BY <1>7 DEF Clears
  <2>2. DOMAIN subs' = DOMAIN subs
    BY <1>1, <1>7, ExpireLiveRows DEF Clears, IInv
  <2>3. g.row.ext \in StripeIds /\ Sold(g.row.ext)
    BY <1>1, <1>7, <2>1 DEF Clears, Creating
  <2> QED BY <1>1, <1>2, <2>1, <2>2, <2>3, RequestKept DEF Creating
<1>8. CASE Inserts(r)
  <2>1. /\ DOMAIN subs' = DOMAIN subs \cup {Len(subs) + 1}
        /\ subs'[Len(subs) + 1] = f.row
    <3>1. subs \in Seq(Row) /\ f.row \in Row
      BY <1>1, FrameFields DEF IInv
    <3> QED BY <1>8, <3>1, AppendProperties, LenProperties DEF Inserts
  <2>2. Sold(f.row.ext)
    BY <1>1, <1>8 DEF Inserts, Creating
  <2>3. \A i \in DOMAIN subs' \ DOMAIN subs : Sold(subs'[i].ext)
    BY <2>1, <2>2
  <2>4. Goto(r, Idle)
    BY <1>8 DEF Inserts
  <2> QED BY <1>2, <2>3, <2>4, IdleIsPlain, RequestKept DEF Creating
<1> QED BY <1>1, <1>3, <1>4, <1>5, <1>6, <1>7, <1>8, ContinueGoes

LEMMA DeliverKept ==
    ASSUME StripeInv, NEW r \in Requests, Deliver(r)
    PROVE  StripeInv'
<1>3. IInv /\ AccountTyped /\ AnswersTyped
  BY DEF StripeInv
<1>1. PICK i \in DOMAIN log :
         /\ Replies(r, i) /\ endsMissed' \in SUBSET (Exts \cup {Manual})
         /\ HandleEvent(r, i, log[i]) \/ HandleUnread(r, i, log[i])
  BY <1>3, DeliverReplies
<1>2. UNCHANGED <<stripe, log, seatsMissed>>
  BY DEF Deliver
<1> DEFINE e == log[i]
<1>4. /\ e.sub \in StripeIds /\ Sold(e.sub) /\ i \in Nat
      /\ e.plan \in Plans /\ e.seats \in SeatCounts
      /\ e.status \in {"active", "past_due", "canceled"}
      /\ stripe[e.sub].plan \in Plans /\ stripe[e.sub].seats \in SeatCounts
  BY <1>3, LoggedEvent
<1>5. AccountTyped' /\ \A t \in StripeIds : Sold(t) => Sold(t)'
  BY <1>2, <1>3, AccountSame
<1>6. AnswersTyped'
  <2>1. seatsMissed' \in BOOLEAN
    BY <1>2, <1>3 DEF AnswersTyped
  <2> QED BY <1>1, <1>3, <1>4, <2>1, RepliesTyped
<1>7. Keeps
  <2>1. [Next]_vars
    BY <1>1, <1>3, HandledIsRequest DEF Next, HandleUnread
  <2> QED BY <1>3, <2>1, NextKeeps
<1> HIDE DEF e
<1>8. HandleEvent(r, i, e) \/ HandleUnread(r, i, e)
  BY <1>1 DEF e
<1>9. ASSUME NEW plan \in Plans, NEW seats \in SeatCounts,
             StripeCreate(r, e.sub, plan, seats)
      PROVE  StripeInv'
  <2>1. /\ UNCHANGED subs
        /\ \/ Goto(r, Idle)
           \/ \E g \in Frame : /\ Goto(r, g) /\ g.pc = "create_expire"
                               /\ g.then = "idle" /\ g.exp = Null /\ g.row.ext = e.sub
    BY <1>3, <1>4, <1>9, CreateGoes
  <2> QED BY <1>4, <1>5, <1>6, <1>7, <2>1, IdleIsPlain, RequestKept DEF Creating
<1>10. CASE StripeUpdated(r, e.sub, e.status, e.seats)
  <2>1. /\ UNCHANGED subs
        /\ \/ Goto(r, Idle)
           \/ \E g \in Frame :
                 /\ Goto(r, g) /\ g.pc = "save" /\ g.exp = Null
                 /\ g.then \in {"success_read", "failed_read", "ended_read"}
    BY <1>3, <1>4, <1>10, UpdatedGoes
  <2> QED BY <1>5, <1>6, <1>7, <2>1, IdleIsPlain, RequestKept DEF Creating
<1>11. CASE StripeDeleted(r, e.sub)
  <2>1. /\ UNCHANGED subs
        /\ \/ Goto(r, Idle)
           \/ \E g \in Frame :
                 /\ Goto(r, g) /\ g.pc = "expire_read" /\ g.exp = Null
                 /\ g.then = "idle" /\ g.row.ext = e.sub /\ subs[g.id].ext = e.sub
    BY <1>3, <1>4, <1>11, DeletedGoes
  <2> QED BY <1>5, <1>6, <1>7, <2>1, IdleIsPlain, RequestKept DEF Creating
<1>12. CASE UNCHANGED vars
  BY <1>5, <1>6, <1>7, <1>12, BesidesKept DEF vars
<1> QED BY <1>4, <1>8, <1>9, <1>10, <1>11, <1>12 DEF HandleEvent, HandleUnread

LEMMA SyncKept ==
    ASSUME StripeInv, NEW r \in Requests, Sync(r)
    PROVE  StripeInv'
<1>1. IInv /\ AccountTyped /\ AnswersTyped
  BY DEF StripeInv
<1>2. PICK s \in StripeIds :
         Sold(s) /\ StripeCreate(r, s, stripe[s].plan, stripe[s].seats)
  BY DEF Sync, Sold
<1>3. UNCHANGED stripeVars
  BY DEF Sync
<1>4. AccountTyped' /\ AnswersTyped' /\ \A t \in StripeIds : Sold(t) => Sold(t)'
  BY <1>1, <1>3, AccountSame DEF stripeVars, AnswersTyped
<1>5. Keeps
  BY <1>1, SyncIsRequest, NextKeeps DEF Next
<1>6. stripe[s].plan \in Plans /\ stripe[s].seats \in SeatCounts
  BY <1>1 DEF AccountTyped, Account
<1>7. /\ UNCHANGED subs
      /\ \/ Goto(r, Idle)
         \/ \E g \in Frame : /\ Goto(r, g) /\ g.pc = "create_expire"
                             /\ g.then = "idle" /\ g.exp = Null /\ g.row.ext = s
  BY <1>1, <1>2, <1>6, CreateGoes
<1> QED BY <1>2, <1>4, <1>5, <1>7, IdleIsPlain, RequestKept DEF Creating

(* What the owner changes at Stripe is a subscription with a row.          *)
OwnerAtStripe(r) ==
    /\ OwnerRequest(r)
    /\ EffectiveRow.ext \notin StripeIds => UNCHANGED <<stripe, log>>
    /\ EffectiveRow.ext \in StripeIds =>
          /\ Live(EffectiveRow.ext)
          /\ \E account \in Account :
                /\ account.status = stripe[EffectiveRow.ext].status
                /\ Change(EffectiveRow.ext, account, <<"updated">>)
    /\ UNCHANGED <<acked, handling, seatsMissed, endsMissed>>

LEMMA OwnerActs ==
    ASSUME AccountTyped, NEW r \in Requests,
           \/ StripeCancel(r)
           \/ StripeResume(r)
           \/ \E seats \in SeatCounts : StripeSeats(r, seats)
           \/ \E plan \in Plans, seats \in SeatCounts : StripePlan(r, plan, seats)
    PROVE  OwnerAtStripe(r)
<1>1. CASE StripeCancel(r) \/ StripeResume(r)
  <2>1. OwnerRequest(r) /\ UNCHANGED <<acked, handling, seatsMissed, endsMissed>>
    BY <1>1 DEF StripeCancel, StripeResume, OwnerRequest
  <2>2. CASE EffectiveRow.ext \in StripeIds
    <3>1. stripe[EffectiveRow.ext] \in Account
      BY <2>2 DEF AccountTyped
    <3> QED BY <1>1, <2>1, <2>2, <3>1 DEF StripeCancel, StripeResume, OwnerAtStripe
  <2>3. CASE EffectiveRow.ext \notin StripeIds
    BY <1>1, <2>1, <2>3 DEF StripeCancel, StripeResume, OwnerAtStripe
  <2> QED BY <2>2, <2>3
<1>2. ASSUME NEW seats \in SeatCounts, StripeSeats(r, seats)
      PROVE  OwnerAtStripe(r)
  <2> DEFINE account == [stripe[EffectiveRow.ext] EXCEPT !.seats = seats]
  <2>1. EffectiveRow.ext \in StripeIds /\ OwnerRequest(r)
    BY <1>2 DEF StripeSeats, UpdateSeats, OwnerRequest
  <2>2. account \in Account /\ account.status = stripe[EffectiveRow.ext].status
    BY <2>1 DEF AccountTyped, Account
  <2>3. /\ Change(EffectiveRow.ext, account, <<"updated">>) /\ Live(EffectiveRow.ext)
        /\ UNCHANGED <<acked, handling, seatsMissed, endsMissed>>
    BY <1>2 DEF StripeSeats
  <2> HIDE DEF account
  <2> QED BY <2>1, <2>2, <2>3 DEF OwnerAtStripe
<1>3. ASSUME NEW plan \in Plans, NEW seats \in SeatCounts, StripePlan(r, plan, seats)
      PROVE  OwnerAtStripe(r)
  <2> DEFINE account == [stripe[EffectiveRow.ext] EXCEPT !.plan = plan, !.seats = seats]
  <2>1. EffectiveRow.ext \in StripeIds /\ OwnerRequest(r)
    BY <1>3 DEF StripePlan, ChangePlan, OwnerRequest
  <2>2. account \in Account /\ account.status = stripe[EffectiveRow.ext].status
    BY <2>1 DEF AccountTyped, Account
  <2>3. /\ Change(EffectiveRow.ext, account, <<"updated">>) /\ Live(EffectiveRow.ext)
        /\ UNCHANGED <<acked, handling, seatsMissed, endsMissed>>
    BY <1>3 DEF StripePlan
  <2> HIDE DEF account
  <2> QED BY <2>1, <2>2, <2>3 DEF OwnerAtStripe
<1> QED BY <1>1, <1>2, <1>3

LEMMA EffectiveSold ==
    ASSUME StripeInv, subs # <<>>
    PROVE  /\ Effective(subs, now) \in DOMAIN subs
           /\ EffectiveRow.ext \in StripeIds => Sold(EffectiveRow.ext)
<1>1. Effective(subs, now) \in DOMAIN subs
  BY EffectiveIsRow DEF StripeInv, IInv
<1> QED BY <1>1 DEF StripeInv, RowsSold, EffectiveRow

LEMMA OwnerKept ==
    ASSUME StripeInv, NEW r \in Requests, OwnerAtStripe(r)
    PROVE  StripeInv'
<1>1. IInv /\ AccountTyped /\ AnswersTyped
  BY DEF StripeInv
<1>2. OwnerGoes(r) /\ Keeps
  BY <1>1, OwnerRequestGoes, NextKeeps DEF OwnerAtStripe, Next
<1>3. AnswersTyped'
  BY <1>1 DEF OwnerAtStripe, AnswersTyped
<1>4. AccountTyped' /\ \A t \in StripeIds : Sold(t) => Sold(t)'
  <2>1. CASE UNCHANGED <<stripe, log>>
    BY <1>1, <2>1, AccountSame
  <2>2. ASSUME NEW account \in Account, EffectiveRow.ext \in StripeIds,
               account.status = stripe[EffectiveRow.ext].status,
               Change(EffectiveRow.ext, account, <<"updated">>)
        PROVE  AccountTyped' /\ \A t \in StripeIds : Sold(t) => Sold(t)'
    <3>1. account.status # "none"
      BY <1>2, <2>2, EffectiveSold DEF OwnerGoes, Sold
    <3>2. <<"updated">> \in Seq({"created", "updated", "deleted", "paid", "unpaid"})
      OBVIOUS
    <3> QED BY <1>1, <2>2, <3>1, <3>2, ChangeAppends
  <2> QED BY <2>1, <2>2 DEF OwnerAtStripe
<1>5. PICK g \in Frame : /\ Goto(r, g) /\ g.then = "idle" /\ g.exp = Null
                         /\ g.pc \in {"save", "seats_read"}
  BY <1>2 DEF OwnerGoes
<1> QED BY <1>2, <1>3, <1>4, <1>5, RequestKept DEF OwnerGoes, Creating

LEMMA AdvanceKept ==
    ASSUME StripeInv, NEW r \in Requests, Advance(r)
    PROVE  StripeInv'
<1>1. IInv /\ AccountTyped /\ AnswersTyped /\ UNCHANGED <<stripe, log>>
  BY DEF StripeInv, Advance
<1>2. AnswersTyped'
  <2>1. /\ seatsMissed' \in BOOLEAN /\ endsMissed' \in SUBSET (Exts \cup {Manual})
        /\ handling[r] \in Nat
    BY <1>1 DEF Advance, AnswersTyped
  <2>2. CASE handling[r] = 0
    BY <1>1, <2>1, <2>2, AdvanceReplies DEF AnswersTyped
  <2>3. CASE handling[r] # 0
    BY <1>1, <2>1, <2>3, AdvanceReplies, RepliesTyped
  <2> QED BY <2>2, <2>3
<1> QED BY <1>1, <1>2, AccountSame, ContinueKept DEF Advance

LEMMA AbortKept ==
    ASSUME StripeInv, NEW r \in Requests, Abort(r)
    PROVE  StripeInv'
<1>1. /\ IInv /\ AccountTyped /\ AnswersTyped /\ UNCHANGED <<stripe, log>>
      /\ StripeFrame(req[r]) /\ Fail(r)
  BY DEF StripeInv, FramesSold, Abort
<1>2. AnswersTyped'
  <2>1. seatsMissed' \in BOOLEAN /\ handling[r] \in Nat
    BY <1>1 DEF Abort, AnswersTyped
  <2>2. endsMissed' \in SUBSET (Exts \cup {Manual})
    <3>1. req[r].row.ext \in Exts \cup {Manual}
      BY FrameFields, RowFields DEF StripeInv, IInv
    <3> QED BY <1>1, <3>1 DEF Abort, AnswersTyped
  <2>3. CASE handling[r] = 0
    BY <1>1, <2>1, <2>2, <2>3, AbortReplies DEF AnswersTyped
  <2>4. CASE handling[r] # 0
    BY <1>1, <2>1, <2>2, <2>4, AbortReplies, RepliesTyped
  <2> QED BY <2>3, <2>4
<1>3. Keeps
  BY <1>1, NextKeeps DEF Next
<1> QED BY <1>1, <1>2, <1>3, AccountSame, FailGoes, ProceedsKept

LEMMA BackgroundKept ==
    ASSUME StripeInv, Background
    PROVE  StripeInv'
<1>1. IInv /\ AccountTyped /\ AnswersTyped /\ UNCHANGED stripeVars
  BY DEF StripeInv, Background
<1>2. AccountTyped' /\ AnswersTyped' /\ \A t \in StripeIds : Sold(t) => Sold(t)'
  BY <1>1, AccountSame DEF stripeVars, AnswersTyped
<1>3. Keeps
  BY <1>1, NextKeeps DEF Background, Next
<1>4. UNCHANGED req /\ DOMAIN subs' = DOMAIN subs
  BY DEF Background, Worker, WorkerList, WorkerRead, WorkerSave, WorkerFail, Tick
<1> QED BY <1>2, <1>3, <1>4, BesidesKept

LEMMA StripeNextKept ==
    ASSUME StripeInv, [StripeNext]_allVars
    PROVE  StripeInv'
<1>1. CASE UNCHANGED allVars
  <2>1. Keeps /\ AccountTyped' /\ AnswersTyped'
    BY <1>1, NextKeeps, AccountSame DEF StripeInv, allVars, stripeVars, AnswersTyped
  <2> QED BY <1>1, <2>1, AccountSame, BesidesKept
          DEF StripeInv, allVars, vars, stripeVars
<1>2. ASSUME NEW r \in Requests, OwnerAtStripe(r) PROVE StripeInv'
  BY <1>2, OwnerKept
<1>3. AccountTyped
  BY DEF StripeInv
<1> QED BY <1>1, <1>2, <1>3, StripeStepKept, DeliverKept, SyncKept, OwnerActs,
           AdvanceKept, AbortKept, BackgroundKept DEF StripeNext

LEMMA StripeInvAlways == StripeSpec => []StripeInv
<1>1. StripeInit => StripeInv
  <2> SUFFICES ASSUME StripeInit PROVE StripeInv
    OBVIOUS
  <2>1. IInv
    BY InitIInv DEF StripeInit
  <2>2. AccountTyped /\ AnswersTyped
    <3>1. <<>> \in Seq(Event) /\ DOMAIN <<>> = {}
      OBVIOUS
    <3>2. stripe \in [StripeIds -> Account] /\ log = <<>>
      BY DEF StripeInit
    <3> QED BY <3>1, <3>2 DEF StripeInit, AccountTyped, AnswersTyped
  <2>3. RowsSold
    <3>1. \A i \in DOMAIN subs : subs[i].ext = Manual
      BY FreeRowIsRow DEF StripeInit, Init
    <3> QED BY <3>1, ProvidersAssumption DEF RowsSold, Exts
  <2>4. FramesSold
    BY IdleIsPlain DEF FramesSold, StripeFrame, StripeInit, Init, Creating
  <2> QED BY <2>1, <2>2, <2>3, <2>4 DEF StripeInv
<1>2. StripeInv /\ [StripeNext]_allVars => StripeInv'
  BY StripeNextKept
<1> QED BY <1>1, <1>2, PTL DEF StripeSpec

(* Whatever Stripe sends, in whatever order and however often, the rows,   *)
(* the account and the log stay well typed.                                *)
THEOREM StripeTypeCorrect == StripeSpec => []StripeTypeOK
<1>1. StripeInv => StripeTypeOK
  BY DEF StripeInv, IInv, GoodWorker, TypeOK, AccountTyped, AnswersTyped, StripeTypeOK
<1> QED BY <1>1, StripeInvAlways, PTL

(* Stripe and its webhooks make the service do nothing that                *)
(* SubscriptionService does not describe: all that is proved of Spec for   *)
(* every interleaving holds for the composition.                           *)
THEOREM StripeImplements == StripeSpec => Spec
<1>1. StripeInit => Init
  BY DEF StripeInit
<1>2. StripeInv /\ [StripeNext]_allVars => [Next]_vars
  BY StripeNextIsNext DEF StripeInv
<1> QED BY <1>1, <1>2, StripeInvAlways, PTL DEF StripeSpec, Spec

-----------------------------------------------------------------------------
(* One request at a time.  Between the UPDATE and the INSERT of Create no  *)
(* row is live: the only other writer is the expiry worker, and it writes  *)
(* expired rows.                                                           *)

OneLiveInv ==
    /\ \A r \in Requests :
          /\ req[r].pc = "create_insert" => LiveIds(subs) = {}
          /\ req[r].pc \in Creating => req[r].row.state \in ActiveLike
    /\ worker.id # 0 => worker.row.state = "expired"

LEMMA NoneLive ==
    ASSUME NEW s \in Seq(Row)
    PROVE  /\ LiveIds(ExpireLive(s)) = {}
           /\ \A i \in DOMAIN s, row \in Row :
                 row.state = "expired" /\ LiveIds(s) = {}
                     => LiveIds([s EXCEPT ![i] = row]) = {}
           /\ \A row \in Row :
                 row.state \in ActiveLike /\ LiveIds(s) = {}
                     => LiveIds(Append(s, row)) = {Len(Append(s, row))}
<1>1. LiveIds(ExpireLive(s)) = {}
  <2>1. ASSUME NEW i \in DOMAIN s PROVE ExpireLive(s)[i].state \notin ActiveLike
    <3>1. s[i] \in Row
      BY RowsOfTable
    <3>2. Expired(s[i]).state = "expired"
      BY <3>1 DEF Expired, Row
    <3> QED BY <3>2 DEF ExpireLive, ActiveLike
  <2> QED BY <2>1, ExpireLiveRows DEF LiveIds
<1>2. ASSUME NEW i \in DOMAIN s, NEW row \in Row, row.state = "expired",
             LiveIds(s) = {}
      PROVE  LiveIds([s EXCEPT ![i] = row]) = {}
  <2> DEFINE t == [s EXCEPT ![i] = row]
  <2>1. DOMAIN t = DOMAIN s /\ \A j \in DOMAIN s : t[j] = IF j = i THEN row ELSE s[j]
    OBVIOUS
  <2> HIDE DEF t
  <2> QED BY <1>2, <2>1 DEF LiveIds, ActiveLike
<1>3. ASSUME NEW row \in Row, row.state \in ActiveLike, LiveIds(s) = {}
      PROVE  LiveIds(Append(s, row)) = {Len(Append(s, row))}
  <2> DEFINE t == Append(s, row)
  <2>1. /\ Len(t) = Len(s) + 1 /\ DOMAIN s = 1..Len(s) /\ DOMAIN t = 1..Len(t)
        /\ Len(s) \in Nat /\ t[Len(t)] = row
        /\ \A j \in 1..Len(s) : t[j] = s[j]
    BY AppendProperties, LenProperties
  <2> HIDE DEF t
  <2>2. \A j \in DOMAIN t : j \in DOMAIN s \/ j = Len(t)
    BY <2>1
  <2>3. Len(t) \in DOMAIN t
    BY <2>1
  <2> QED BY <1>3, <2>1, <2>2, <2>3 DEF LiveIds
<1> QED BY <1>1, <1>2, <1>3

(* A request begins with a read. *)
Begins(r) ==
    /\ UNCHANGED <<subs, worker>>
    /\ \/ UNCHANGED req /\ req[r] = Idle
       \/ \E g \in Frame :
             /\ Goto(r, g)
             /\ g = Idle \/ g.pc \notin {"idle", "create_insert"}
             /\ g.pc = "create_expire" => g.row.state \in ActiveLike

LEMMA RequestBegins ==
    ASSUME StripeInv, NEW r \in Requests,
           Deliver(r) \/ Sync(r) \/ OwnerAtStripe(r)
    PROVE  Begins(r)
<1>1. IInv /\ AccountTyped
  BY DEF StripeInv
<1>2. ASSUME NEW s \in StripeIds, NEW plan \in Plans, NEW seats \in SeatCounts,
             StripeCreate(r, s, plan, seats)
      PROVE  Begins(r)
  <2>1. /\ UNCHANGED <<subs, worker>>
        /\ \/ Goto(r, Idle)
           \/ \E g \in Frame : /\ Goto(r, g) /\ g.pc = "create_expire"
                               /\ g.row.state \in ActiveLike
    BY <1>1, <1>2, CreateGoes
  <2> QED BY <2>1, IdleIsGood, IdleIsPlain DEF Begins, PCs
<1>3. CASE Deliver(r)
  <2>1. PICK i \in DOMAIN log :
           HandleEvent(r, i, log[i]) \/ HandleUnread(r, i, log[i])
    BY <1>3 DEF Deliver
  <2> DEFINE e == log[i]
  <2>2. /\ e.sub \in StripeIds /\ e.plan \in Plans /\ e.seats \in SeatCounts
        /\ e.status \in {"active", "past_due", "canceled"}
        /\ stripe[e.sub].plan \in Plans /\ stripe[e.sub].seats \in SeatCounts
    BY <1>1, LoggedEvent
  <2> HIDE DEF e
  <2>3. HandleEvent(r, i, e) \/ HandleUnread(r, i, e)
    BY <2>1 DEF e
  <2>4. CASE StripeUpdated(r, e.sub, e.status, e.seats)
    <3>1. /\ UNCHANGED <<subs, worker>>
          /\ Goto(r, Idle) \/ \E g \in Frame : Goto(r, g) /\ g.pc = "save"
      BY <1>1, <2>2, <2>4, UpdatedGoes
    <3> QED BY <3>1, IdleIsGood, IdleIsPlain DEF Begins, PCs
  <2>5. CASE StripeDeleted(r, e.sub)
    <3>1. /\ UNCHANGED <<subs, worker>>
          /\ Goto(r, Idle) \/ \E g \in Frame : Goto(r, g) /\ g.pc = "expire_read"
      BY <1>1, <2>2, <2>5, DeletedGoes
    <3> QED BY <3>1, IdleIsGood, IdleIsPlain DEF Begins, PCs
  <2>6. CASE UNCHANGED vars /\ req[r] = Idle
    BY <2>6 DEF vars, Begins
  <2> QED BY <1>2, <2>2, <2>3, <2>4, <2>5, <2>6 DEF HandleEvent, HandleUnread
<1>4. CASE Sync(r)
  <2>1. \A s \in StripeIds : stripe[s].plan \in Plans /\ stripe[s].seats \in SeatCounts
    BY <1>1 DEF AccountTyped, Account
  <2> QED BY <1>2, <1>4, <2>1 DEF Sync
<1>5. CASE OwnerAtStripe(r)
  <2>1. OwnerGoes(r)
    BY <1>1, <1>5, OwnerRequestGoes DEF OwnerAtStripe
  <2>2. /\ UNCHANGED <<subs, worker>>
        /\ \E g \in Frame : Goto(r, g) /\ g.pc \in {"save", "seats_read"}
    BY <2>1 DEF OwnerGoes
  <2> QED BY <2>2 DEF Begins, PCs
<1> QED BY <1>3, <1>4, <1>5

(* What the worker may do to the rows. *)
LEMMA WorkerSteps ==
    ASSUME IInv, Background
    PROVE  /\ UNCHANGED <<req, stripeVars>>
           /\ \/ UNCHANGED subs
              \/ /\ worker.id # 0 /\ worker.id \in DOMAIN subs
                 /\ worker.row \in Row /\ worker.row.ext = subs[worker.id].ext
                 /\ subs' = [subs EXCEPT ![worker.id] = worker.row]
           /\ \/ worker'.id = 0
              \/ UNCHANGED worker
              \/ worker'.row.state = "expired"
<1>1. /\ worker \in [phase: 1..3, todo: SUBSET Nat, id: Nat, row: Row]
      /\ worker.todo \subseteq DOMAIN subs
      /\ worker.id # 0 => worker.id \in DOMAIN subs
                          /\ worker.row.ext = subs[worker.id].ext
  BY DEF IInv, GoodWorker
<1>2. CASE WorkerList
  <2>1. worker'.id = 0
    BY <1>1, <1>2 DEF WorkerList
  <2> QED BY <1>2, <2>1 DEF WorkerList, Background
<1>3. ASSUME NEW i \in worker.todo, WorkerRead(i)
      PROVE  worker'.row.state = "expired" /\ UNCHANGED subs
  <2>1. subs[i] \in Row
    BY <1>1, RowsOfTable DEF IInv
  <2>2. Expired(subs[i]).state = "expired"
    BY <2>1 DEF Expired, Row
  <2>3. worker'.row = Expired(subs[i])
    BY <1>1, <1>3 DEF WorkerRead
  <2> QED BY <1>3, <2>2, <2>3 DEF WorkerRead
<1>4. CASE WorkerSave
  <2>1. worker'.id = 0
    BY <1>1, <1>4 DEF WorkerSave
  <2> QED BY <1>1, <1>4, <2>1 DEF WorkerSave, Background
<1>5. CASE WorkerFail
  <2>1. CASE worker.id # 0 /\ worker' = [worker EXCEPT !.id = 0, !.row = FreeRow]
    BY <1>1, <1>5, <2>1 DEF WorkerFail, Background
  <2>2. ASSUME worker.id = 0, NEW i, worker' = [worker EXCEPT !.todo = @ \ {i}]
        PROVE  worker'.id = 0
    BY <1>1, <2>2
  <2>3. CASE worker' = Resting
    BY <1>5, <2>3 DEF Resting, WorkerFail, Background
  <2> QED BY <1>5, <2>1, <2>2, <2>3 DEF WorkerFail, Background
<1>6. CASE Tick
  BY <1>6 DEF Tick, Background
<1>7. CASE \E i \in worker.todo : WorkerRead(i)
  BY <1>3, <1>7 DEF WorkerRead, Background
<1> QED BY <1>2, <1>4, <1>5, <1>6, <1>7 DEF Background, Worker

(* What one request's step leaves of OneLiveInv. *)
LEMMA RequestOneLive ==
    ASSUME StripeInv, OneLiveInv, NEW one, Requests = {one},
           NEW g, Goto(one, g),
           g.pc = "create_insert" => LiveIds(subs') = {},
           g.pc \in Creating => g.row.state \in ActiveLike,
           UNCHANGED worker
    PROVE  OneLiveInv'
<1>1. req'[one] = g
  BY GotoGoes DEF StripeInv
<1> QED BY <1>1 DEF OneLiveInv

LEMMA ProceedsOneLive ==
    ASSUME StripeInv, OneLiveInv, NEW one, Requests = {one}, Proceeds(one),
           UNCHANGED worker
    PROVE  OneLiveInv'
<1>1. CASE Goto(one, Idle)
  BY <1>1, IdleIsPlain, RequestOneLive DEF Creating
<1>2. ASSUME NEW g, Goto(one, g),
             g.pc \in {"success_read", "failed_read", "ended_read"}
      PROVE  OneLiveInv'
  BY <1>2, RequestOneLive DEF Creating
<1> QED BY <1>1, <1>2 DEF Proceeds

LEMMA OneLiveKept ==
    ASSUME StripeInv, OneLiveInv, NEW one, Requests = {one}, [StripeNext]_allVars
    PROVE  /\ OneLiveInv'
           /\ req[one].pc = "create_insert" /\ Len(subs') > Len(subs)
                 => LiveIds(subs') = {Len(subs')}
<1> DEFINE Q == req[one].pc = "create_insert" /\ Len(subs') > Len(subs)
                    => LiveIds(subs') = {Len(subs')}
<1>1. /\ IInv /\ subs \in Seq(Row) /\ Len(subs) \in Nat /\ StripeFrame(req[one])
      /\ req[one] \in Frame /\ req[one].row \in Row
      /\ req[one].pc = "create_insert" => LiveIds(subs) = {}
      /\ req[one].pc \in Creating => req[one].row.state \in ActiveLike
      /\ worker.id # 0 => worker.row.state = "expired"
  BY LenProperties, FrameFields DEF StripeInv, FramesSold, IInv, OneLiveInv
<1>2. ~(Len(subs) > Len(subs))
  BY <1>1
<1>3. CASE UNCHANGED <<subs, req, worker>>
  BY <1>2, <1>3 DEF OneLiveInv
<1>4. CASE Begins(one)
  <2>1. ASSUME NEW g \in Frame, Goto(one, g), g.pc # "create_insert",
               g.pc = "create_expire" => g.row.state \in ActiveLike
        PROVE  OneLiveInv'
    BY <1>4, <2>1, RequestOneLive DEF Begins, Creating
  <2> QED BY <1>2, <1>3, <1>4, <2>1, IdleIsPlain DEF Begins
<1>5. ASSUME Continue(one) PROVE OneLiveInv' /\ Q
  <2>1. /\ UNCHANGED worker
        /\ \/ Stops(one) \/ Computes(one) \/ Finds(one)
           \/ Saves(one) \/ Clears(one) \/ Inserts(one)
    BY <1>1, <1>5, ContinueGoes
  <2>2. CASE Stops(one)
    BY <1>2, <2>1, <2>2, IdleIsPlain, RequestOneLive DEF Stops, Creating
  <2>3. CASE Computes(one) \/ Finds(one)
    <3>1. PICK g : Goto(one, g) /\ g.pc \in {"save", "expire_read"}
      BY <2>3 DEF Computes, Finds, GoesToSave
    <3> QED BY <1>2, <2>1, <2>3, <3>1, RequestOneLive DEF Computes, Finds, Creating
  <2>4. CASE Saves(one)
    BY <2>1, <2>4, ProceedsOneLive DEF Saves
  <2>5. CASE Clears(one)
    <3>1. PICK g : Goto(one, g) /\ g.pc = "create_insert" /\ g.row = req[one].row
      BY <2>5 DEF Clears
    <3>2. LiveIds(subs') = {}
      BY <1>1, <2>5, NoneLive DEF Clears
    <3> QED BY <1>1, <2>1, <2>5, <3>1, <3>2, RequestOneLive DEF Clears, Creating
  <2>6. CASE Inserts(one)
    <3>1. LiveIds(subs') = {Len(subs')}
      BY <1>1, <2>6, NoneLive DEF Inserts, Creating
    <3> QED BY <2>1, <2>6, <3>1, IdleIsPlain, RequestOneLive DEF Inserts, Creating
  <2> QED BY <2>1, <2>2, <2>3, <2>4, <2>5, <2>6
<1>6. CASE Fail(one)
  BY <1>1, <1>2, <1>6, FailGoes, ProceedsOneLive
<1>7. CASE Background
  <2>1. /\ UNCHANGED req
        /\ \/ worker'.id = 0 \/ UNCHANGED worker \/ worker'.row.state = "expired"
    BY <1>1, <1>7, WorkerSteps
  <2>2. (LiveIds(subs) = {} => LiveIds(subs') = {}) /\ Len(subs') = Len(subs)
    <3>1. CASE UNCHANGED subs
      BY <3>1
    <3>2. CASE /\ worker.id # 0 /\ worker.id \in DOMAIN subs /\ worker.row \in Row
               /\ subs' = [subs EXCEPT ![worker.id] = worker.row]
      <4>1. worker.id \in 1..Len(subs)
        BY <1>1, <3>2, LenProperties
      <4>2. Len(subs') = Len(subs)
        BY <1>1, <3>2, <4>1, ExceptSeq
      <4>3. worker.row.state = "expired"
        BY <1>1, <3>2
      <4>4. LiveIds(subs) = {} => LiveIds(subs') = {}
        BY <1>1, <3>2, <4>3, NoneLive
      <4> QED BY <4>2, <4>4
    <3> QED BY <1>1, <1>7, <3>1, <3>2, WorkerSteps
  <2> QED BY <1>1, <1>2, <2>1, <2>2 DEF OneLiveInv
<1>8. CASE StripeStep \/ UNCHANGED allVars
  <2>1. UNCHANGED vars
    BY <1>8 DEF StripeStep, Checkout, InvoicePaid, InvoiceUnpaid, Ended, StripeOnly,
                allVars
  <2> QED BY <1>3, <2>1 DEF vars
<1>9. AccountTyped
  BY DEF StripeInv
<1> HIDE DEF Q
<1>10. OneLiveInv' /\ Q
  BY <1>4, <1>5, <1>6, <1>7, <1>8, <1>9, RequestBegins, OwnerActs
     DEF StripeNext, Advance, Abort, Q
<1> QED BY <1>10 DEF Q

(* While one request runs at a time, Create leaves its row the only live   *)
(* one, whatever the expiry worker does meanwhile.                         *)
THEOREM CreateLeavesOne ==
    ASSUME NEW one, Requests = {one} PROVE StripeSpec => CreateLeavesOneLive
<1>1. StripeInit => OneLiveInv
  BY IdleIsPlain DEF StripeInit, Init, OneLiveInv, Resting, Creating
<1>2. StripeInv /\ OneLiveInv /\ [StripeNext]_allVars => OneLiveInv'
  BY OneLiveKept
<1>3. StripeInv /\ OneLiveInv /\ [StripeNext]_allVars
        => [\A r \in Requests :
               req[r].pc = "create_insert" /\ Len(subs') > Len(subs)
                   => LiveIds(subs') = {Len(subs')}]_allVars
  BY OneLiveKept
<1> QED BY <1>1, <1>2, <1>3, StripeInvAlways, PTL
        DEF StripeSpec, CreateLeavesOneLive

-----------------------------------------------------------------------------
(* What the log tells of Stripe's subscriptions: the first event about one *)
(* says it was created, nothing follows the one that says it was deleted,  *)
(* and the last "updated" carries the seats it has.                        *)

LogInv ==
    /\ \A i \in DOMAIN log : log[i].type = "deleted" => ~Live(log[i].sub)
    /\ \A i, j \in DOMAIN log :
          i < j /\ log[i].type = "deleted" => log[j].sub # log[i].sub
    /\ \A s \in StripeIds : ~Live(s) =>
          \E i \in DOMAIN log : log[i].type = "deleted" /\ log[i].sub = s
    /\ \A i \in DOMAIN log : log[i].type = "deleted" =>
          \E j \in DOMAIN log :
              j < i /\ log[j].type = "created" /\ log[j].sub = log[i].sub
    /\ \A s \in StripeIds : Sold(s) =>
          \E i \in DOMAIN log : log[i].type = "created" /\ log[i].sub = s
    /\ \A i \in DOMAIN log :
          /\ log[i].type = "updated"
          /\ \A j \in DOMAIN log :
                log[j].type = "updated" /\ log[j].sub = log[i].sub => ~(i < j)
          => log[i].seats = stripe[log[i].sub].seats

Types == {"created", "updated", "deleted", "paid", "unpaid"}

(* A change at Stripe and what it sends.                                   *)
Proper(s, account, types) ==
    /\ s \in StripeIds /\ account \in Account /\ types \in Seq(Types)
    /\ Live(s) /\ account.status # "none"
    /\ \A k \in DOMAIN types : types[k] = "deleted" =>
          Sold(s) /\ account.status = "canceled" /\ \A l \in DOMAIN types : l <= k
    /\ account.status = "canceled" => \E k \in DOMAIN types : types[k] = "deleted"
    /\ ~Sold(s) => \E k \in DOMAIN types : types[k] = "created"
    /\ account.seats # stripe[s].seats => \E k \in DOMAIN types : types[k] = "updated"

LEMMA LogGrows ==
    ASSUME AccountTyped, NEW s, NEW account, NEW types,
           Proper(s, account, types), Change(s, account, types)
    PROVE  /\ AccountTyped' /\ Len(log) \in Nat /\ DOMAIN log \subseteq DOMAIN log'
           /\ stripe' = [stripe EXCEPT ![s] = account]
           /\ \A i \in DOMAIN log : log'[i] = log[i] /\ i \in Nat
           /\ \A i \in DOMAIN log' \ DOMAIN log : \E k \in DOMAIN types :
                 i = Len(log) + k /\ log'[i] = Sent(types[k], s, account)
           /\ \A k \in DOMAIN types :
                 /\ k \in Nat /\ Len(log) + k \in DOMAIN log' \ DOMAIN log
                 /\ log'[Len(log) + k] = Sent(types[k], s, account)
           /\ \A i \in DOMAIN log, j \in DOMAIN log' \ DOMAIN log : i < j /\ ~(j < i)
           /\ \A t \in StripeIds : Sold(t) => Sold(t)'
<1>1. /\ AccountTyped'
      /\ stripe' = [stripe EXCEPT ![s] = account]
      /\ Len(log) \in Nat /\ Len(types) \in Nat
      /\ DOMAIN log = 1..Len(log)
      /\ DOMAIN log' = 1..(Len(log) + Len(types))
      /\ \A i \in 1..Len(log) : log'[i] = log[i]
      /\ \A k \in 1..Len(types) : log'[Len(log) + k] = Sent(types[k], s, account)
      /\ \A t \in StripeIds : Sold(t) => Sold(t)'
  BY ChangeAppends DEF Proper, Types
<1>2. DOMAIN types = 1..Len(types)
  BY LenProperties DEF Proper
<1>3. /\ DOMAIN log \subseteq DOMAIN log'
      /\ \A i \in DOMAIN log : i \in Nat
      /\ \A k \in DOMAIN types : k \in Nat /\ Len(log) + k \in DOMAIN log' \ DOMAIN log
      /\ \A i \in DOMAIN log, j \in DOMAIN log' \ DOMAIN log : i < j /\ ~(j < i)
  BY <1>1, <1>2
<1>4. ASSUME NEW i \in DOMAIN log' \ DOMAIN log
      PROVE  \E k \in DOMAIN types :
                i = Len(log) + k /\ log'[i] = Sent(types[k], s, account)
  <2> DEFINE k == i - Len(log)
  <2>1. k \in DOMAIN types /\ i = Len(log) + k
    BY <1>1, <1>2
  <2>2. log'[Len(log) + k] = Sent(types[k], s, account)
    BY <1>1, <1>2, <2>1
  <2> HIDE DEF k
  <2> QED BY <2>1, <2>2
<1> QED BY <1>1, <1>2, <1>3, <1>4

LEMMA LogKept ==
    ASSUME AccountTyped, LogInv, NEW s, NEW account, NEW types,
           Proper(s, account, types), Change(s, account, types)
    PROVE  LogInv'
<1> DEFINE new == DOMAIN log' \ DOMAIN log
<1>1. /\ Len(log) \in Nat /\ DOMAIN log \subseteq DOMAIN log'
      /\ stripe' = [stripe EXCEPT ![s] = account]
      /\ \A i \in DOMAIN log : log'[i] = log[i] /\ i \in Nat
      /\ \A i \in new : \E k \in DOMAIN types :
            i = Len(log) + k /\ log'[i] = Sent(types[k], s, account)
      /\ \A k \in DOMAIN types :
            /\ k \in Nat /\ Len(log) + k \in new
            /\ log'[Len(log) + k] = Sent(types[k], s, account)
      /\ \A i \in DOMAIN log, j \in new : i < j /\ ~(j < i)
  BY LogGrows
<1>2. /\ s \in StripeIds /\ Live(s)
      /\ \A k \in DOMAIN types : types[k] = "deleted" =>
            Sold(s) /\ account.status = "canceled" /\ \A l \in DOMAIN types : l <= k
      /\ account.status = "canceled" => \E k \in DOMAIN types : types[k] = "deleted"
      /\ ~Sold(s) => \E k \in DOMAIN types : types[k] = "created"
      /\ account.seats # stripe[s].seats
            => \E k \in DOMAIN types : types[k] = "updated"
  BY DEF Proper
<1>3. /\ stripe'[s] = account
      /\ \A t \in StripeIds \ {s} : stripe'[t] = stripe[t]
  BY <1>1, <1>2 DEF AccountTyped
<1>4. \A i \in DOMAIN log : log[i].sub \in StripeIds
  BY LoggedEvent
<1>5. \A i \in new : \E k \in DOMAIN types :
         /\ i = Len(log) + k /\ log'[i].type = types[k]
         /\ log'[i].sub = s /\ log'[i].seats = account.seats
  BY <1>1 DEF Sent
<1>6. ASSUME NEW k \in DOMAIN types
      PROVE  /\ Len(log) + k \in new /\ log'[Len(log) + k].type = types[k]
             /\ log'[Len(log) + k].sub = s
  <2>1. Len(log) + k \in new /\ log'[Len(log) + k] = Sent(types[k], s, account)
    BY <1>1
  <2> QED BY <2>1 DEF Sent
<1>7. \A type \in Types : (\E k \in DOMAIN types : types[k] = type)
         => \E i \in new : log'[i].type = type /\ log'[i].sub = s
  BY <1>6
<1> HIDE DEF new
<1>8. \A i \in DOMAIN log' : i \in DOMAIN log \/ i \in new
  BY DEF new
<1>9. new \subseteq DOMAIN log'
  BY DEF new
<1>10. ASSUME NEW i \in DOMAIN log', log'[i].type = "deleted"
       PROVE  ~(Live(log[i].sub)')
  <2>1. CASE i \in DOMAIN log
    <3>1. log[i].sub \in StripeIds \ {s} /\ ~Live(log[i].sub)
      BY <1>1, <1>2, <1>4, <1>10, <2>1 DEF LogInv
    <3> QED BY <1>1, <1>3, <2>1, <3>1 DEF Live
  <2>2. CASE i \in new
    BY <1>2, <1>3, <1>5, <1>10, <2>2 DEF Live
  <2> QED BY <1>8, <2>1, <2>2
<1>11. ASSUME NEW i \in DOMAIN log', NEW j \in DOMAIN log', i < j,
              log'[i].type = "deleted"
       PROVE  log'[j].sub # log'[i].sub
  <2>1. CASE i \in DOMAIN log /\ j \in DOMAIN log
    BY <1>1, <1>11, <2>1 DEF LogInv
  <2>2. CASE i \in DOMAIN log /\ j \in new
    BY <1>1, <1>2, <1>5, <1>11, <2>2 DEF LogInv
  <2>3. CASE i \in new /\ j \in new
    <3>1. PICK k \in DOMAIN types : i = Len(log) + k /\ types[k] = "deleted"
      BY <1>5, <1>11, <2>3
    <3>2. PICK l \in DOMAIN types : j = Len(log) + l
      BY <1>5, <2>3
    <3> QED BY <1>1, <1>2, <1>11, <3>1, <3>2
  <2> QED BY <1>1, <1>8, <1>11, <2>1, <2>2, <2>3
<1>12. ASSUME NEW t \in StripeIds, ~(Live(t)')
       PROVE  \E i \in DOMAIN log' : log'[i].type = "deleted" /\ log'[i].sub = t
  <2>1. CASE t = s
    BY <1>2, <1>3, <1>7, <1>9, <1>12, <2>1 DEF Live, Types
  <2>2. CASE t # s
    BY <1>1, <1>3, <1>12, <2>2 DEF Live, LogInv
  <2> QED BY <2>1, <2>2
<1>13. ASSUME NEW i \in DOMAIN log', log'[i].type = "deleted"
       PROVE  \E j \in DOMAIN log' :
                 j < i /\ log'[j].type = "created" /\ log'[j].sub = log'[i].sub
  <2>1. CASE i \in DOMAIN log
    BY <1>1, <1>13, <2>1 DEF LogInv
  <2>2. CASE i \in new
    <3>1. log'[i].sub = s /\ Sold(s)
      BY <1>2, <1>5, <1>13, <2>2
    <3>2. PICK j \in DOMAIN log : log[j].type = "created" /\ log[j].sub = s
      BY <1>2, <3>1 DEF LogInv
    <3> QED BY <1>1, <2>2, <3>1, <3>2
  <2> QED BY <1>8, <2>1, <2>2
<1>14. ASSUME NEW t \in StripeIds, Sold(t)'
       PROVE  \E i \in DOMAIN log' : log'[i].type = "created" /\ log'[i].sub = t
  <2>1. CASE Sold(t)
    BY <1>1, <2>1 DEF LogInv
  <2>2. CASE ~Sold(t)
    <3>1. t = s
      BY <1>3, <1>14, <2>2 DEF Sold
    <3> QED BY <1>2, <1>7, <1>9, <2>2, <3>1 DEF Types
  <2> QED BY <2>1, <2>2
<1>15. ASSUME NEW i \in DOMAIN log', log'[i].type = "updated",
              \A j \in DOMAIN log' :
                 log'[j].type = "updated" /\ log'[j].sub = log'[i].sub => ~(i < j)
       PROVE  log'[i].seats = stripe'[log'[i].sub].seats
  <2>1. CASE i \in new
    BY <1>3, <1>5, <2>1
  <2>2. CASE i \in DOMAIN log
    <3>1. log[i].seats = stripe[log[i].sub].seats
      BY <1>1, <1>15, <2>2 DEF LogInv
    <3>2. CASE log[i].sub = s
      <4>1. ~ \E k \in DOMAIN types : types[k] = "updated"
        BY <1>1, <1>7, <1>9, <1>15, <2>2, <3>2 DEF Types
      <4> QED BY <1>1, <1>2, <1>3, <2>2, <3>1, <3>2, <4>1
    <3>3. CASE log[i].sub # s
      BY <1>1, <1>3, <1>4, <2>2, <3>1, <3>3
    <3> QED BY <3>2, <3>3
  <2> QED BY <1>8, <2>1, <2>2
<1>16. \A i \in DOMAIN log' : log'[i].type = "deleted" => ~(Live(log[i].sub)')
  BY <1>10
<1>17. \A t \in StripeIds : ~(Live(t)') =>
          \E i \in DOMAIN log' : log'[i].type = "deleted" /\ log'[i].sub = t
  BY <1>12
<1>18. \A t \in StripeIds : Sold(t)' =>
          \E i \in DOMAIN log' : log'[i].type = "created" /\ log'[i].sub = t
  BY <1>14
<1> QED BY <1>11, <1>13, <1>15, <1>16, <1>17, <1>18 DEF LogInv

LEMMA StripeStepProper ==
    ASSUME AccountTyped, StripeStep
    PROVE  /\ StripeOnly
           /\ \E s, account, types :
                 /\ Proper(s, account, types) /\ Change(s, account, types)
                 /\ account.plan = stripe[s].plan /\ account.seats = stripe[s].seats
<1>1. ASSUME NEW s \in StripeIds, NEW status \in {"active", "past_due", "canceled"},
             NEW types \in Seq(Types),
             Change(s, [stripe[s] EXCEPT !.status = status], types), Live(s),
             \A k \in DOMAIN types : types[k] = "deleted" =>
                Sold(s) /\ status = "canceled" /\ \A l \in DOMAIN types : l <= k,
             status = "canceled" => \E k \in DOMAIN types : types[k] = "deleted",
             ~Sold(s) => \E k \in DOMAIN types : types[k] = "created"
      PROVE  \E account :
                 /\ Proper(s, account, types) /\ Change(s, account, types)
                 /\ account.plan = stripe[s].plan /\ account.seats = stripe[s].seats
  <2> DEFINE account == [stripe[s] EXCEPT !.status = status]
  <2>1. /\ account \in Account /\ account.status = status
        /\ account.plan = stripe[s].plan /\ account.seats = stripe[s].seats
    BY DEF AccountTyped, Account
  <2>2. Change(s, account, types)
    BY <1>1
  <2> HIDE DEF account
  <2>3. Proper(s, account, types)
    BY <1>1, <2>1 DEF Proper
  <2> QED BY <2>1, <2>2, <2>3
<1>2. \A a, b \in Types :
         /\ <<a>> \in Seq(Types) /\ <<a, b>> \in Seq(Types)
         /\ DOMAIN <<a>> = {1} /\ DOMAIN <<a, b>> = {1, 2}
  OBVIOUS
<1>3. ASSUME NEW s \in StripeIds, Checkout(s)
      PROVE  \E account, types :
                 /\ Proper(s, account, types) /\ Change(s, account, types)
                 /\ account.plan = stripe[s].plan /\ account.seats = stripe[s].seats
  <2> DEFINE types == <<"created", "paid">>
  <2>1. /\ types \in Seq(Types) /\ DOMAIN types = {1, 2}
        /\ types[1] = "created" /\ types[2] = "paid"
    BY DEF Types
  <2>2. Change(s, [stripe[s] EXCEPT !.status = "active"], types) /\ Live(s)
    BY <1>3 DEF Checkout, Live
  <2> HIDE DEF types
  <2> QED BY <1>1, <2>1, <2>2
<1>4. ASSUME NEW s \in StripeIds, InvoicePaid(s)
      PROVE  \E account, types :
                 /\ Proper(s, account, types) /\ Change(s, account, types)
                 /\ account.plan = stripe[s].plan /\ account.seats = stripe[s].seats
  <2> DEFINE types == <<"updated", "paid">>
  <2>1. /\ types \in Seq(Types) /\ DOMAIN types = {1, 2}
        /\ types[1] = "updated" /\ types[2] = "paid"
    BY DEF Types
  <2>2. /\ Change(s, [stripe[s] EXCEPT !.status = "active"], types)
        /\ Live(s) /\ Sold(s)
    BY <1>4 DEF InvoicePaid, Live, Sold
  <2> HIDE DEF types
  <2> QED BY <1>1, <2>1, <2>2
<1>5. ASSUME NEW s \in StripeIds, InvoiceUnpaid(s)
      PROVE  \E account, types :
                 /\ Proper(s, account, types) /\ Change(s, account, types)
                 /\ account.plan = stripe[s].plan /\ account.seats = stripe[s].seats
  <2> DEFINE types == <<"unpaid", "updated">>
  <2>1. /\ types \in Seq(Types) /\ DOMAIN types = {1, 2}
        /\ types[1] = "unpaid" /\ types[2] = "updated"
    BY DEF Types
  <2>2. /\ Change(s, [stripe[s] EXCEPT !.status = "past_due"], types)
        /\ Live(s) /\ Sold(s)
    BY <1>5 DEF InvoiceUnpaid, Live, Sold
  <2> HIDE DEF types
  <2> QED BY <1>1, <2>1, <2>2
<1>6. ASSUME NEW s \in StripeIds, Ended(s)
      PROVE  \E account, types :
                 /\ Proper(s, account, types) /\ Change(s, account, types)
                 /\ account.plan = stripe[s].plan /\ account.seats = stripe[s].seats
  <2> DEFINE types == <<"deleted">>
  <2>1. types \in Seq(Types) /\ DOMAIN types = {1} /\ types[1] = "deleted"
    BY DEF Types
  <2>2. /\ Change(s, [stripe[s] EXCEPT !.status = "canceled"], types)
        /\ Live(s) /\ Sold(s)
    BY <1>6 DEF Ended, Live, Sold
  <2> HIDE DEF types
  <2>3. /\ \A k \in DOMAIN types : k = 1
        /\ \E k \in DOMAIN types : types[k] = "deleted"
        /\ 1 <= 1
    BY <2>1
  <2>4. \A k, l \in DOMAIN types : l <= k
    BY <2>3
  <2> QED BY <1>1, <2>1, <2>2, <2>3, <2>4
<1>7. StripeOnly
  BY DEF StripeStep, Checkout, InvoicePaid, InvoiceUnpaid, Ended
<1> QED BY <1>3, <1>4, <1>5, <1>6, <1>7 DEF StripeStep

LEMMA OwnerProper ==
    ASSUME StripeInv, NEW r \in Requests, OwnerAtStripe(r)
    PROVE  \/ EffectiveRow.ext \notin StripeIds /\ UNCHANGED <<stripe, log>>
           \/ /\ EffectiveRow.ext \in StripeIds
              /\ \E account : /\ Proper(EffectiveRow.ext, account, <<"updated">>)
                              /\ Change(EffectiveRow.ext, account, <<"updated">>)
<1>1. OwnerGoes(r)
  BY OwnerRequestGoes DEF OwnerAtStripe, StripeInv
<1> SUFFICES ASSUME NEW account \in Account, EffectiveRow.ext \in StripeIds,
                    Live(EffectiveRow.ext),
                    account.status = stripe[EffectiveRow.ext].status,
                    Change(EffectiveRow.ext, account, <<"updated">>)
             PROVE  Proper(EffectiveRow.ext, account, <<"updated">>)
  BY DEF OwnerAtStripe
<1>2. Sold(EffectiveRow.ext)
  BY <1>1, EffectiveSold DEF OwnerGoes
<1> DEFINE types == <<"updated">>
<1>3. types \in Seq(Types) /\ DOMAIN types = {1} /\ types[1] = "updated"
  BY DEF Types
<1> HIDE DEF types
<1>4. account.status # "none" /\ account.status # "canceled"
  BY <1>2 DEF Sold, Live
<1>5. Proper(EffectiveRow.ext, account, types)
  BY <1>2, <1>3, <1>4 DEF Proper
<1> QED BY <1>5 DEF types

-----------------------------------------------------------------------------
(* Events in order, one request at a time: what is answered is a prefix of *)
(* the log, and what is being handled comes next.                          *)

AckedInv ==
    /\ acked \subseteq DOMAIN log
    /\ \A i \in acked, j \in DOMAIN log : j < i => j \in acked
    /\ \A r \in Requests : handling[r] # 0 =>
          /\ handling[r] \in DOMAIN log \ acked
          /\ \A j \in DOMAIN log : j < handling[r] => j \in acked
          /\ req[r].pc # "idle"

LEMMA AnsweredNext ==
    ASSUME AccountTyped, AnswersTyped, AckedInv, NEW one, Requests = {one},
           NEW i \in DOMAIN log \ acked, \A j \in DOMAIN log : j < i => j \in acked,
           Replies(one, i), UNCHANGED log,
           req'[one] = Idle \/ req'[one].pc # "idle"
    PROVE  AckedInv'
<1>1. i \in Nat \ {0} /\ \A j \in DOMAIN log : j \in Nat
  BY LoggedEvent
<1>2. CASE req'[one] = Idle
  <2>1. (acked' = acked \/ acked' = acked \cup {i}) /\ handling'[one] = 0
    BY <1>2 DEF Replies, AnswersTyped
  <2> QED BY <2>1 DEF AckedInv
<1>3. CASE req'[one] # Idle
  <2>1. acked' = acked /\ handling'[one] = i
    BY <1>1, <1>3 DEF Replies, AnswersTyped
  <2> QED BY <1>3, <2>1 DEF AckedInv
<1> QED BY <1>2, <1>3

(* A request that goes on is idle, or at one of its statements.            *)
LEMMA ProceedsRests ==
    ASSUME IInv, NEW r \in Requests, Proceeds(r)
    PROVE  req'[r] = Idle \/ req'[r].pc # "idle"
<1>1. \E g : Goto(r, g) /\ (g = Idle \/ g.pc # "idle")
  BY DEF Proceeds
<1> QED BY <1>1, GotoGoes

LEMMA ContinueRests ==
    ASSUME IInv, NEW r \in Requests, StripeFrame(req[r]), Continue(r)
    PROVE  req'[r] = Idle \/ req'[r].pc # "idle"
<1>1. CASE Stops(r) \/ Inserts(r)
  <2>1. Goto(r, Idle)
    BY <1>1 DEF Stops, Inserts
  <2> QED BY <2>1, GotoGoes
<1>2. CASE Computes(r) \/ Finds(r) \/ Clears(r)
  <2>1. PICK g : Goto(r, g) /\ g.pc # "idle"
    BY <1>2 DEF Computes, Finds, Clears, GoesToSave
  <2> QED BY <2>1, GotoGoes
<1>3. CASE Saves(r)
  BY <1>3, ProceedsRests DEF Saves
<1> QED BY <1>1, <1>2, <1>3, ContinueGoes

LEMMA AckedKept ==
    ASSUME StripeInv, AckedInv, InOrder = TRUE, NEW one, Requests = {one},
           [StripeNext]_allVars
    PROVE  AckedInv'
<1>1. /\ IInv /\ AccountTyped /\ AnswersTyped /\ StripeFrame(req[one])
      /\ DOMAIN log = 1..Len(log) /\ Len(log) \in Nat
  BY LenProperties DEF StripeInv, FramesSold, AccountTyped
<1>2. CASE UNCHANGED <<acked, handling, req>>
           /\ \/ UNCHANGED log
              \/ \E s, account, types : /\ Proper(s, account, types)
                                        /\ Change(s, account, types)
  <2>1. /\ DOMAIN log \subseteq DOMAIN log'
        /\ \A i \in DOMAIN log, j \in DOMAIN log' \ DOMAIN log : ~(j < i)
    BY <1>1, <1>2, LogGrows
  <2> QED BY <1>2, <2>1 DEF AckedInv
<1>3. ASSUME Sync(one) \/ OwnerAtStripe(one)
      PROVE  AckedInv'
  <2>1. /\ req[one].pc = "idle" /\ UNCHANGED <<acked, handling>>
        /\ \/ UNCHANGED log
           \/ \E s, account, types : /\ Proper(s, account, types)
                                     /\ Change(s, account, types)
    <3>1. CASE Sync(one)
      BY <1>1, <3>1 DEF Sync, StripeCreate, Arrive, stripeVars
    <3>2. CASE OwnerAtStripe(one)
      BY <1>1, <3>2, OwnerProper, OwnerRequestGoes DEF OwnerAtStripe, OwnerGoes
    <3> QED BY <1>3, <3>1, <3>2
  <2>2. /\ DOMAIN log \subseteq DOMAIN log'
        /\ \A i \in DOMAIN log, j \in DOMAIN log' \ DOMAIN log : ~(j < i)
    BY <1>1, <2>1, LogGrows
  <2> QED BY <2>1, <2>2 DEF AckedInv
<1>4. ASSUME Deliver(one) PROVE AckedInv'
  <2>1. PICK i \in DOMAIN log : Arrives(i) /\ Replies(one, i)
    BY <1>1, <1>4, DeliverReplies
  <2>2. i \notin acked /\ \A j \in DOMAIN log : j < i => j \in acked
    BY <1>1, <2>1 DEF Arrives
  <2>3. req'[one] = Idle \/ req'[one].pc # "idle"
    <3>1. Begins(one)
      BY <1>4, RequestBegins
    <3>2. CASE UNCHANGED req /\ req[one] = Idle
      BY <3>2
    <3>3. ASSUME NEW g, Goto(one, g), g = Idle \/ g.pc # "idle"
          PROVE  req'[one] = Idle \/ req'[one].pc # "idle"
      BY <1>1, <3>3, GotoGoes
    <3> QED BY <3>1, <3>2, <3>3 DEF Begins
  <2> QED BY <1>1, <1>4, <2>1, <2>2, <2>3, AnsweredNext DEF Deliver
<1>5. ASSUME Advance(one) PROVE AckedInv'
  <2>1. req'[one] = Idle \/ req'[one].pc # "idle"
    BY <1>1, <1>5, ContinueRests DEF Advance
  <2>2. CASE handling[one] = 0
    BY <1>5, <2>2, AdvanceReplies DEF Advance, AckedInv
  <2>3. CASE handling[one] # 0
    BY <1>1, <1>5, <2>1, <2>3, AdvanceReplies, AnsweredNext DEF Advance, AckedInv
  <2> QED BY <2>2, <2>3
<1>6. ASSUME Abort(one) PROVE AckedInv'
  <2>1. req'[one] = Idle \/ req'[one].pc # "idle"
    BY <1>1, <1>6, FailGoes, ProceedsRests DEF Abort
  <2>2. CASE handling[one] = 0
    BY <1>6, <2>2, AbortReplies DEF Abort, AckedInv
  <2>3. CASE handling[one] # 0
    BY <1>1, <1>6, <2>1, <2>3, AbortReplies, AnsweredNext DEF Abort, AckedInv
  <2> QED BY <2>2, <2>3
<1>7. CASE Background
  BY <1>1, <1>2, <1>7, WorkerSteps DEF stripeVars
<1>8. CASE StripeStep
  BY <1>1, <1>2, <1>8, StripeStepProper DEF StripeOnly, vars
<1>9. CASE UNCHANGED allVars
  BY <1>2, <1>9 DEF allVars, vars, stripeVars
<1> QED BY <1>1, <1>3, <1>4, <1>5, <1>6, <1>7, <1>8, <1>9, OwnerActs DEF StripeNext

-----------------------------------------------------------------------------
(* A subscription is over for the server once its deletion is answered,    *)
(* unless it was answered unread.  Nobody then holds a live copy of its    *)
(* row, and nobody inserts one: a purchase that was answered has a row,    *)
(* and the unique index refuses the one that a sync whose lookup failed    *)
(* makes of it.                                                            *)

Over(s) ==
    s \notin endsMissed /\ \E i \in acked : log[i].type = "deleted" /\ log[i].sub = s

OverRows == \A n \in DOMAIN subs : Over(subs[n].ext) => subs[n].state = "expired"

(* A request that writes no row, or only by an INSERT.                     *)
Inserting(f) == f.pc = "idle" \/ (f.pc \in Creating /\ f.then = "idle")

OverFrames == \A r \in Requests : ~Inserting(req[r]) => ~Over(req[r].row.ext)

(* Until a subscription has a row nobody changes what was bought.          *)
NewTerms ==
    \A i \in DOMAIN log :
        WithExt(subs, log[i].sub) = {} => log[i].seats = stripe[log[i].sub].seats

BoughtRows ==
    \A i \in acked : log[i].type = "created" => WithExt(subs, log[i].sub) # {}

(* What a request that handles event e is doing.                           *)
Handles(f, e) ==
    /\ f.row.ext = e.sub
    /\ e.type \in {"created", "deleted"} => f.then = "idle"
    /\ e.type = "created" => f.pc \in Creating
    /\ e.type = "deleted" =>
          f.pc = "expire_read" \/ (f.pc = "save" /\ f.row.state = "expired")

ToldFrames ==
    \A r \in Requests : handling[r] # 0 => Handles(req[r], log[handling[r]])

EndedInv == OverRows /\ OverFrames /\ NewTerms /\ BoughtRows /\ ToldFrames

(* Rows stay, so a subscription that has one keeps it.                     *)
LEMMA StillWithRow ==
    ASSUME KeepsExts(subs, subs'), NEW s, WithExt(subs', s) = {}
    PROVE  WithExt(subs, s) = {}
BY DEF KeepsExts, WithExt

(* Event i is answered, and rightly.                                       *)
AnsweredRight(i) ==
    /\ acked' = acked \cup {i}
    /\ log[i].type = "deleted" =>
          \/ log[i].sub \in endsMissed'
          \/ \A n \in DOMAIN subs' :
                subs'[n].ext = log[i].sub => subs'[n].state = "expired"
    /\ log[i].type = "created" => WithExt(subs', log[i].sub) # {}

LEMMA AnswersEnded ==
    ASSUME EndedInv, UNCHANGED <<stripe, log>>, KeepsExts(subs, subs'),
           endsMissed \subseteq endsMissed',
           acked' = acked \/ \E i \in DOMAIN log : AnsweredRight(i),
           \A n \in DOMAIN subs' : Over(subs'[n].ext) => subs'[n].state = "expired"
    PROVE  OverRows' /\ NewTerms' /\ BoughtRows'
<1>1. NewTerms'
  BY StillWithRow DEF EndedInv, NewTerms
<1>2. CASE acked' = acked
  <2>1. OverRows'
    BY <1>2 DEF OverRows, Over
  <2>2. BoughtRows'
    BY <1>2, StillWithRow DEF EndedInv, BoughtRows
  <2> QED BY <1>1, <2>1, <2>2
<1>3. ASSUME NEW i \in DOMAIN log, AnsweredRight(i)
      PROVE  OverRows' /\ BoughtRows'
  <2>1. OverRows'
    BY <1>3 DEF OverRows, Over, AnsweredRight
  <2>2. BoughtRows'
    BY <1>3, StillWithRow DEF EndedInv, BoughtRows, AnsweredRight
  <2> QED BY <2>1, <2>2
<1> QED BY <1>1, <1>2, <1>3

(* A step of the only request: it begins, goes on, ends or fails.          *)
LEMMA RequestEnded ==
    ASSUME IInv, EndedInv, NEW one, Requests = {one}, NEW g, Goto(one, g),
           UNCHANGED <<stripe, log>>, KeepsExts(subs, subs'),
           endsMissed \subseteq endsMissed',
           acked' = acked \/ (g = Idle /\ \E i \in DOMAIN log : AnsweredRight(i)),
           \A n \in DOMAIN subs' : Over(subs'[n].ext) => subs'[n].state = "expired",
           ~Inserting(g) => ~Over(g.row.ext),
           handling'[one] # 0 => Handles(g, log[handling'[one]])
    PROVE  EndedInv'
<1>1. OverRows' /\ NewTerms' /\ BoughtRows'
  BY AnswersEnded
<1>2. req'[one] = g
  BY GotoGoes
<1>3. OverFrames'
  <2>1. ~Inserting(g) => acked' = acked
    BY IdleIsPlain DEF Inserting
  <2> QED BY <1>2, <2>1 DEF OverFrames, Over
<1>4. ToldFrames'
  BY <1>2 DEF ToldFrames
<1> QED BY <1>1, <1>3, <1>4 DEF EndedInv

(* What is being handled is not over.                                      *)
LEMMA NextIsNotOver ==
    ASSUME AccountTyped, LogInv, AckedInv, NEW i \in DOMAIN log \ acked
    PROVE  ~Over(log[i].sub)
<1> SUFFICES ASSUME NEW j \in acked, log[j].type = "deleted",
                    log[j].sub = log[i].sub
             PROVE  FALSE
  BY DEF Over
<1>1. j \in DOMAIN log /\ i # j /\ i \in Nat /\ j \in Nat
  BY LoggedEvent DEF AckedInv
<1>2. CASE j < i
  BY <1>1, <1>2 DEF LogInv
<1>3. CASE i < j
  BY <1>1, <1>3 DEF AckedInv
<1> QED BY <1>1, <1>2, <1>3

(* What is over has ended at Stripe, and has a row.                        *)
LEMMA OverIsEnded ==
    ASSUME AccountTyped, LogInv, AckedInv, EndedInv, NEW s, Over(s)
    PROVE  s \in StripeIds /\ ~Live(s) /\ WithExt(subs, s) # {}
<1>1. PICK i \in acked : log[i].type = "deleted" /\ log[i].sub = s
  BY DEF Over
<1>2. i \in DOMAIN log /\ s \in StripeIds /\ ~Live(s)
  BY <1>1, LoggedEvent DEF AckedInv, LogInv
<1>3. PICK j \in DOMAIN log : j < i /\ log[j].type = "created" /\ log[j].sub = s
  BY <1>1, <1>2 DEF LogInv
<1>4. j \in acked
  BY <1>1, <1>3 DEF AckedInv
<1> QED BY <1>2, <1>3, <1>4 DEF EndedInv, BoughtRows

(* How the answer depends on where the request goes.                       *)
LEMMA AnswersWhenIdle ==
    ASSUME IInv, AnswersTyped, NEW r \in Requests, NEW g, Goto(r, g),
           NEW i \in Nat, Replies(r, i)
    PROVE  /\ g = Idle => acked' \in {acked, acked \cup {i}} /\ handling'[r] = 0
           /\ g # Idle => acked' = acked /\ handling'[r] = i
<1>1. req'[r] = g
  BY GotoGoes
<1> QED BY <1>1 DEF Replies, AnswersTyped

LEMMA AdvanceEnded ==
    ASSUME StripeInv, LogInv, AckedInv, EndedInv, NEW one, Requests = {one},
           Advance(one)
    PROVE  EndedInv'
<1> DEFINE f == req[one]
           h == handling[one]
<1>1. /\ IInv /\ AnswersTyped /\ StripeFrame(f) /\ Continue(one) /\ h \in Nat
      /\ UNCHANGED <<stripe, log, endsMissed>> /\ subs \in Seq(Row) /\ f \in Frame
      /\ GoodFrame(f, subs) /\ OneRowPerProviderId
  BY DEF StripeInv, FramesSold, Advance, AnswersTyped, IInv
<1>2. KeepsExts(subs, subs')
  BY <1>1, NextKeeps DEF Next, Keeps
<1>3. /\ h = 0 => UNCHANGED <<acked, handling>>
      /\ h # 0 => Replies(one, h) /\ h \in DOMAIN log /\ Handles(f, log[h])
  BY <1>1, AdvanceReplies DEF AckedInv, EndedInv, ToldFrames
<1>4. \A n \in DOMAIN subs : Over(subs[n].ext) => subs[n].state = "expired"
  BY DEF EndedInv, OverRows
<1>5. ~Inserting(f) => ~Over(f.row.ext)
  BY DEF EndedInv, OverFrames
<1> HIDE DEF h
<1>6. ASSUME NEW g, Goto(one, g), g # Idle, ~Inserting(g) => ~Over(g.row.ext),
             \A n \in DOMAIN subs' : Over(subs'[n].ext) => subs'[n].state = "expired",
             h # 0 => Handles(g, log[h])
      PROVE  EndedInv'
  <2>1. acked' = acked /\ handling'[one] = h
    BY <1>1, <1>3, <1>6, AnswersWhenIdle DEF h
  <2> QED BY <1>1, <1>2, <1>6, <2>1, RequestEnded
<1>7. ASSUME Goto(one, Idle),
             \A n \in DOMAIN subs' : Over(subs'[n].ext) => subs'[n].state = "expired",
             h # 0 /\ log[h].type = "deleted" =>
                \A n \in DOMAIN subs' :
                    subs'[n].ext = log[h].sub => subs'[n].state = "expired",
             h # 0 /\ log[h].type = "created" => WithExt(subs', log[h].sub) # {}
      PROVE  EndedInv'
  <2>1. CASE h = 0
    <3>1. acked' = acked /\ handling'[one] = 0
      BY <1>3, <2>1 DEF h
    <3> QED BY <1>1, <1>2, <1>7, <3>1, IdleIsPlain, RequestEnded DEF Inserting
  <2>2. CASE h # 0
    <3>1. acked' \in {acked, acked \cup {h}} /\ handling'[one] = 0
      BY <1>1, <1>3, <1>7, <2>2, AnswersWhenIdle
    <3>2. acked' = acked \/ (AnsweredRight(h) /\ h \in DOMAIN log)
      BY <1>3, <1>7, <2>2, <3>1 DEF AnsweredRight
    <3> QED BY <1>1, <1>2, <1>7, <3>1, <3>2, IdleIsPlain, RequestEnded DEF Inserting
  <2> QED BY <2>1, <2>2
<1>8. CASE Stops(one)
  <2>1. h # 0 => log[h].type \notin {"deleted"}
    BY <1>3, <1>8 DEF Stops, Handles
  <2>2. h # 0 /\ log[h].type = "created" => WithExt(subs', log[h].sub) # {}
    BY <1>3, <1>8 DEF Stops, Handles, Creating
  <2> QED BY <1>4, <1>7, <1>8, <2>1, <2>2 DEF Stops
<1>9. CASE Computes(one)
  <2>1. PICK g \in Frame :
           /\ Goto(one, g) /\ g.pc = "save" /\ g.row.ext = f.row.ext
           /\ g.then = f.then
           /\ f.pc \in {"seats_read", "success_read", "failed_read", "expire_read"}
           /\ f.pc = "expire_read" => g.row.state = "expired"
    BY <1>9 DEF Computes, GoesToSave
  <2>2. h # 0 => Handles(g, log[h])
    BY <1>3, <2>1 DEF Handles, Creating
  <2> QED BY <1>4, <1>5, <1>6, <1>9, <2>1, <2>2, IdleIsPlain
          DEF Computes, Inserting, Creating
<1>10. CASE Finds(one)
  <2>1. PICK g \in Frame : /\ Goto(one, g) /\ g.pc = "expire_read"
                           /\ g.then = f.then /\ g.row = f.row
    BY <1>10 DEF Finds
  <2>2. h # 0 => Handles(g, log[h])
    BY <1>3, <1>10, <2>1 DEF Handles, Creating, Finds
  <2> QED BY <1>4, <1>5, <1>6, <1>10, <2>1, <2>2, IdleIsPlain
          DEF Finds, Inserting, Creating
<1>11. CASE Saves(one)
  <2>1. /\ f.pc = "save" /\ f.id \in DOMAIN subs /\ subs[f.id].ext = f.row.ext
        /\ subs' = [subs EXCEPT ![f.id] = f.row]
    BY <1>11 DEF Saves
  <2>2. /\ DOMAIN subs' = DOMAIN subs /\ subs'[f.id] = f.row
        /\ \A n \in DOMAIN subs \ {f.id} : subs'[n] = subs[n]
    BY <2>1
  <2>3. \A n \in DOMAIN subs' : Over(subs'[n].ext) => subs'[n].state = "expired"
    BY <1>4, <1>5, <2>1, <2>2 DEF Inserting, Creating
  <2>4. h # 0 /\ log[h].type = "deleted" =>
           /\ f.then = "idle"
           /\ \A n \in DOMAIN subs' :
                 subs'[n].ext = log[h].sub => subs'[n].state = "expired"
    <3> SUFFICES ASSUME h # 0, log[h].type = "deleted"
                 PROVE  /\ f.then = "idle"
                        /\ \A n \in DOMAIN subs' :
                              subs'[n].ext = log[h].sub => subs'[n].state = "expired"
      OBVIOUS
    <3>1. log[h].sub = f.row.ext /\ f.row.state = "expired" /\ f.then = "idle"
      BY <1>3, <2>1 DEF Handles
    <3>2. log[h].sub \in Exts
      BY <1>3, LoggedEvent DEF StripeInv, Exts
    <3> QED BY <1>1, <2>1, <2>2, <3>1, <3>2 DEF OneRowPerProviderId
  <2>5. h # 0 => log[h].type # "created"
    BY <1>3, <2>1 DEF Handles, Creating
  <2>6. CASE Goto(one, Idle)
    BY <1>7, <2>3, <2>4, <2>5, <2>6
  <2>7. ASSUME NEW g \in Frame, Goto(one, g), f.then # "idle", g.pc # "idle",
               g.then = "idle", g.row = f.row
        PROVE  EndedInv'
    <3>1. h # 0 => Handles(g, log[h])
      BY <1>3, <2>4, <2>5, <2>7 DEF Handles
    <3> QED BY <1>5, <1>6, <2>1, <2>3, <2>7, <3>1, IdleIsPlain DEF Inserting
  <2> QED BY <1>11, <2>6, <2>7 DEF Saves, Proceeds
<1>12. CASE Clears(one)
  <2>1. PICK g \in Frame : /\ Goto(one, g) /\ g.pc = "create_insert"
                           /\ g.then = f.then /\ g.row = f.row
    BY <1>12 DEF Clears
  <2>2. h # 0 => Handles(g, log[h])
    BY <1>3, <1>12, <2>1 DEF Handles, Creating, Clears
  <2>3. ASSUME NEW n \in DOMAIN subs', Over(subs'[n].ext)
        PROVE  subs'[n].state = "expired"
    <3>1. subs' = ExpireLive(subs) /\ n \in DOMAIN subs /\ subs'[n].ext = subs[n].ext
      BY <1>1, <1>12, ExpireLiveRows DEF Clears
    <3>2. subs[n].state = "expired"
      BY <1>4, <2>3, <3>1
    <3> QED BY <3>1, <3>2 DEF ExpireLive, ActiveLike
  <2> QED BY <1>5, <1>6, <1>12, <2>1, <2>2, <2>3, IdleIsPlain
          DEF Clears, Inserting, Creating
<1>13. CASE Inserts(one)
  <2>1. /\ subs' = Append(subs, f.row) /\ f.pc = "create_insert" /\ Goto(one, Idle)
    BY <1>13 DEF Inserts
  <2>2. /\ DOMAIN subs' = DOMAIN subs \cup {Len(subs) + 1}
        /\ subs'[Len(subs) + 1] = f.row
        /\ \A n \in DOMAIN subs : subs'[n] = subs[n]
    BY <1>1, <2>1, FrameFields, AppendProperties, LenProperties
  <2>3. ~Over(f.row.ext)
    BY <1>13, OverIsEnded DEF Inserts, StripeInv
  <2>6. \A n \in DOMAIN subs' : Over(subs'[n].ext) => subs'[n].state = "expired"
    BY <1>4, <2>2, <2>3
  <2>4. h # 0 => log[h].type # "deleted" /\ log[h].sub = f.row.ext
    BY <1>3, <2>1 DEF Handles
  <2>5. WithExt(subs', f.row.ext) # {}
    BY <2>2 DEF WithExt
  <2> QED BY <1>7, <2>1, <2>4, <2>5, <2>6
<1> QED BY <1>1, <1>8, <1>9, <1>10, <1>11, <1>12, <1>13, ContinueGoes

LEMMA DeliverEnded ==
    ASSUME StripeInv, LogInv, AckedInv, EndedInv, InOrder = TRUE,
           NEW one, Requests = {one}, Deliver(one)
    PROVE  EndedInv'
<1>1. PICK i \in DOMAIN log :
         /\ Arrives(i) /\ Replies(one, i) /\ endsMissed \subseteq endsMissed'
         /\ \/ HandleEvent(one, i, log[i]) /\ UNCHANGED endsMissed
            \/ HandleUnread(one, i, log[i])
  BY DeliverReplies DEF StripeInv
<1> DEFINE e == log[i]
<1>2. /\ IInv /\ AccountTyped /\ AnswersTyped /\ UNCHANGED <<stripe, log>>
      /\ i \in Nat \ {0} /\ i \notin acked
      /\ e.sub \in StripeIds /\ e.plan \in Plans /\ e.seats \in SeatCounts
      /\ e.status \in {"active", "past_due", "canceled"}
      /\ stripe[e.sub].plan \in Plans /\ stripe[e.sub].seats \in SeatCounts
  BY <1>1, LoggedEvent DEF StripeInv, Deliver, Arrives
<1>3. \A n \in DOMAIN subs : Over(subs[n].ext) => subs[n].state = "expired"
  BY DEF EndedInv, OverRows
<1>4. ~Over(e.sub)
  BY <1>2, NextIsNotOver
<1>5. UNCHANGED subs /\ KeepsExts(subs, subs')
  BY RequestBegins DEF Begins, KeepsExts
<1>6. ASSUME NEW g, Goto(one, g), g # Idle, Handles(g, e)
      PROVE  EndedInv'
  <2>1. acked' = acked /\ handling'[one] = i
    BY <1>1, <1>2, <1>6, AnswersWhenIdle
  <2> QED BY <1>1, <1>2, <1>3, <1>4, <1>5, <1>6, <2>1, RequestEnded DEF Handles
<1>7. ASSUME Goto(one, Idle),
             e.type = "deleted" =>
                \/ e.sub \in endsMissed'
                \/ \A n \in WithExt(subs, e.sub) : subs[n].state = "expired",
             e.type = "created" => WithExt(subs, e.sub) # {} \/ acked' = acked
      PROVE  EndedInv'
  <2>1. acked' \in {acked, acked \cup {i}} /\ handling'[one] = 0
    BY <1>1, <1>2, <1>7, AnswersWhenIdle
  <2>2. acked' = acked \/ AnsweredRight(i)
    BY <1>5, <1>7, <2>1 DEF AnsweredRight, WithExt
  <2> QED BY <1>1, <1>2, <1>3, <1>5, <1>7, <2>1, <2>2, IdleIsPlain, RequestEnded
          DEF Inserting
<1> HIDE DEF e
<1>8. \/ HandleEvent(one, i, e) /\ UNCHANGED endsMissed
      \/ HandleUnread(one, i, e)
  BY <1>1 DEF e
<1>9. ASSUME NEW plan \in Plans, NEW seats \in SeatCounts,
             StripeCreate(one, e.sub, plan, seats),
             \/ e.type = "paid"
             \/ e.type = "created" /\ Answered(one, i, Accepted(e.sub, plan))
      PROVE  EndedInv'
  <2>1. \/ /\ Goto(one, Idle)
           /\ WithExt(subs, e.sub) # {} \/ plan \notin Fits
        \/ \E g \in Frame : /\ Goto(one, g) /\ g.pc = "create_expire"
                            /\ g.then = "idle" /\ g.row.ext = e.sub
    BY <1>2, <1>9, CreateGoes
  <2>2. CASE Goto(one, Idle) /\ (WithExt(subs, e.sub) # {} \/ plan \notin Fits)
    <3>1. e.type = "created" => WithExt(subs, e.sub) # {} \/ acked' = acked
      BY <1>9, <2>2 DEF Answered, Accepted
    <3> QED BY <1>7, <1>9, <2>2, <3>1
  <2>3. ASSUME NEW g \in Frame, Goto(one, g), g.pc = "create_expire",
               g.then = "idle", g.row.ext = e.sub
        PROVE  EndedInv'
    BY <1>6, <1>9, <2>3, IdleIsPlain DEF Handles, Creating
  <2> QED BY <2>1, <2>2, <2>3
<1>10. CASE e.type = "updated" /\ StripeUpdated(one, e.sub, e.status, e.seats)
  <2>1. \/ Goto(one, Idle)
        \/ \E g \in Frame : Goto(one, g) /\ g.pc = "save" /\ g.row.ext = e.sub
    BY <1>2, <1>10, UpdatedGoes
  <2> QED BY <1>6, <1>7, <1>10, <2>1, IdleIsPlain DEF Handles
<1>11. CASE e.type = "deleted" /\ StripeDeleted(one, e.sub)
  <2>1. \/ /\ Goto(one, Idle)
           /\ \A n \in WithExt(subs, e.sub) : subs[n].state = "expired"
        \/ \E g \in Frame : /\ Goto(one, g) /\ g.pc = "expire_read"
                            /\ g.then = "idle" /\ g.row.ext = e.sub
    BY <1>2, <1>11, DeletedGoes
  <2> QED BY <1>6, <1>7, <1>11, <2>1, IdleIsPlain DEF Handles
<1>12. CASE /\ e.type \in {"unpaid", "paid", "deleted"}
            /\ e.type = "deleted" => e.sub \in endsMissed'
            /\ req[one] = Idle /\ UNCHANGED vars
  <2>1. Goto(one, Idle)
    BY <1>2, <1>12 DEF vars, Goto, IInv
  <2> QED BY <1>7, <1>12, <2>1
<1> QED BY <1>2, <1>8, <1>9, <1>10, <1>11, <1>12 DEF HandleEvent, HandleUnread

LEMMA SyncEnded ==
    ASSUME StripeInv, AckedInv, EndedInv, NEW one, Requests = {one}, Sync(one)
    PROVE  EndedInv'
<1>1. /\ IInv /\ AccountTyped /\ UNCHANGED stripeVars /\ req[one].pc = "idle"
      /\ UNCHANGED subs
  BY RequestBegins DEF StripeInv, Sync, StripeCreate, Arrive, Begins
<1>2. PICK s \in StripeIds : StripeCreate(one, s, stripe[s].plan, stripe[s].seats)
  BY DEF Sync
<1>3. stripe[s].plan \in Plans /\ stripe[s].seats \in SeatCounts
  BY <1>1 DEF AccountTyped, Account
<1>4. PICK g : /\ Goto(one, g)
               /\ g = Idle \/ (g.pc = "create_expire" /\ g.then = "idle")
  BY <1>1, <1>2, <1>3, CreateGoes
<1>5. Inserting(g)
  BY <1>4, IdleIsPlain DEF Inserting, Creating
<1>6. handling'[one] = 0
  BY <1>1 DEF AckedInv, stripeVars
<1>7. \A n \in DOMAIN subs' : Over(subs'[n].ext) => subs'[n].state = "expired"
  BY <1>1 DEF EndedInv, OverRows
<1> QED BY <1>1, <1>4, <1>5, <1>6, <1>7, RequestEnded DEF stripeVars, KeepsExts

LEMMA AbortEnded ==
    ASSUME StripeInv, AckedInv, EndedInv, NEW one, Requests = {one}, Abort(one)
    PROVE  EndedInv'
<1> DEFINE f == req[one]
           h == handling[one]
<1>1. /\ IInv /\ AnswersTyped /\ StripeFrame(f) /\ Fail(one) /\ h \in Nat
      /\ UNCHANGED <<stripe, log>> /\ endsMissed \subseteq endsMissed'
  BY AbortReplies DEF StripeInv, FramesSold, Abort, AnswersTyped
<1>2. UNCHANGED subs /\ f.pc # "idle" /\ Proceeds(one)
  BY <1>1, FailGoes
<1>3. /\ h = 0 => UNCHANGED <<acked, handling>>
      /\ h # 0 => Replies(one, h) /\ h \in DOMAIN log /\ Handles(f, log[h])
      /\ f.pc # "ended_read" => UNCHANGED acked
  BY AbortReplies DEF AckedInv, EndedInv, ToldFrames
<1>4. /\ ~Inserting(f) => ~Over(f.row.ext)
      /\ \A n \in DOMAIN subs' : Over(subs'[n].ext) => subs'[n].state = "expired"
  BY <1>2 DEF EndedInv, OverFrames, OverRows
<1>5. Inserting(Idle) /\ KeepsExts(subs, subs')
  BY <1>2, IdleIsPlain DEF Inserting, KeepsExts
<1>6. CASE Goto(one, Idle)
  <2>1. CASE h = 0
    <3>1. acked' = acked /\ handling'[one] = 0
      BY <1>3, <2>1
    <3> QED BY <1>1, <1>4, <1>5, <1>6, <3>1, RequestEnded
  <2>2. CASE h # 0
    <3>1. acked' \in {acked, acked \cup {h}} /\ handling'[one] = 0
      BY <1>1, <1>3, <1>6, <2>2, AnswersWhenIdle
    <3>2. f.pc = "ended_read" => log[h].type \notin {"created", "deleted"}
      BY <1>3, <2>2 DEF Handles, Creating
    <3>3. acked' = acked \/ AnsweredRight(h)
      BY <1>3, <3>1, <3>2 DEF AnsweredRight
    <3> QED BY <1>1, <1>3, <1>4, <1>5, <1>6, <2>2, <3>1, <3>3, RequestEnded
  <2> QED BY <2>1, <2>2
<1>7. ASSUME NEW g \in Frame, Goto(one, g), f.then # "idle", g.pc # "idle",
             g.row = f.row
      PROVE  EndedInv'
  <2>1. acked' = acked /\ handling'[one] = h
    <3>1. CASE h = 0
      BY <1>3, <3>1
    <3>2. CASE h # 0
      BY <1>1, <1>3, <1>7, <3>2, IdleIsPlain, AnswersWhenIdle
    <3> QED BY <3>1, <3>2
  <2>2. h # 0 => Handles(g, log[h])
    BY <1>3, <1>7 DEF Handles
  <2>3. ~Over(g.row.ext)
    BY <1>2, <1>4, <1>7 DEF Inserting
  <2> QED BY <1>1, <1>4, <1>5, <1>7, <2>1, <2>2, <2>3, RequestEnded
<1> QED BY <1>2, <1>6, <1>7 DEF Proceeds

(* What was bought changes only by a request about a row.                  *)
LEMMA TermsKept ==
    ASSUME AccountTyped, AckedInv, EndedInv, UNCHANGED <<subs, acked>>,
           NEW s, NEW account, NEW types,
           Proper(s, account, types), Change(s, account, types),
           account.seats = stripe[s].seats \/ WithExt(subs, s) # {}
    PROVE  NewTerms' /\ BoughtRows'
<1>1. /\ DOMAIN log \subseteq DOMAIN log'
      /\ stripe' = [stripe EXCEPT ![s] = account]
      /\ \A i \in DOMAIN log : log'[i] = log[i] /\ log[i].sub \in StripeIds
      /\ \A i \in DOMAIN log' \ DOMAIN log : \E k \in DOMAIN types :
            log'[i] = Sent(types[k], s, account)
      /\ s \in StripeIds
  BY LogGrows, LoggedEvent DEF Proper
<1>2. /\ stripe'[s] = account
      /\ \A t \in StripeIds \ {s} : stripe'[t] = stripe[t]
  BY <1>1 DEF AccountTyped
<1>3. ASSUME NEW t \in StripeIds, WithExt(subs, t) = {}
      PROVE  stripe'[t].seats = stripe[t].seats
  BY <1>2, <1>3
<1>4. NewTerms'
  <2> SUFFICES ASSUME NEW i \in DOMAIN log', WithExt(subs, log'[i].sub) = {}
               PROVE  log'[i].seats = stripe'[log'[i].sub].seats
    BY DEF NewTerms
  <2>1. CASE i \in DOMAIN log
    BY <1>1, <1>3, <2>1 DEF EndedInv, NewTerms
  <2>2. CASE i \notin DOMAIN log
    BY <1>1, <1>2, <2>2 DEF Sent
  <2> QED BY <2>1, <2>2
<1>5. BoughtRows'
  <2>1. \A i \in acked : log'[i] = log[i]
    BY <1>1 DEF AckedInv
  <2> QED BY <2>1 DEF EndedInv, BoughtRows, WithExt
<1> QED BY <1>4, <1>5

(* Events that are added change nothing that is over or being handled.     *)
LEMMA OverSame ==
    ASSUME AccountTyped, AckedInv, UNCHANGED <<acked, endsMissed>>,
           \/ UNCHANGED log
           \/ \E s, account, types :
                 Proper(s, account, types) /\ Change(s, account, types)
    PROVE  /\ \A t : Over(t)' <=> Over(t)
           /\ \A r \in Requests : handling[r] # 0 => log'[handling[r]] = log[handling[r]]
<1>1. \A i \in DOMAIN log : log'[i] = log[i]
  BY LogGrows
<1> QED BY <1>1 DEF AckedInv, Over

LEMMA StripeStepEnded ==
    ASSUME StripeInv, AckedInv, EndedInv, StripeStep
    PROVE  EndedInv'
<1>1. /\ AccountTyped /\ StripeOnly
      /\ \E s, account, types :
            /\ Proper(s, account, types) /\ Change(s, account, types)
            /\ account.plan = stripe[s].plan /\ account.seats = stripe[s].seats
  BY StripeStepProper DEF StripeInv
<1>2. UNCHANGED <<subs, req, acked, handling, endsMissed>>
  BY <1>1 DEF StripeOnly, vars
<1>3. /\ \A t : Over(t)' <=> Over(t)
      /\ \A r \in Requests : handling[r] # 0 => log'[handling[r]] = log[handling[r]]
  BY <1>1, <1>2, OverSame
<1>4. NewTerms' /\ BoughtRows'
  BY <1>1, <1>2, TermsKept
<1>5. OverRows' /\ OverFrames'
  <2>1. OverRows'
    BY <1>2, <1>3 DEF EndedInv, OverRows, Over
  <2>2. OverFrames'
    BY <1>2, <1>3 DEF EndedInv, OverFrames, Over
  <2> QED BY <2>1, <2>2
<1>6. ToldFrames'
  BY <1>2, <1>3 DEF EndedInv, ToldFrames
<1> QED BY <1>4, <1>5, <1>6 DEF EndedInv

LEMMA OwnerEnded ==
    ASSUME StripeInv, LogInv, AckedInv, EndedInv, NEW one, Requests = {one},
           OwnerAtStripe(one)
    PROVE  EndedInv'
<1>1. /\ AccountTyped /\ OwnerGoes(one)
      /\ UNCHANGED <<subs, acked, handling, endsMissed>>
  BY OwnerRequestGoes DEF StripeInv, OwnerAtStripe, OwnerGoes
<1>2. handling[one] = 0 /\ subs # <<>>
  BY <1>1 DEF AckedInv, OwnerGoes
<1>3. ~Over(EffectiveRow.ext)
  BY <1>1, OverIsEnded DEF OwnerAtStripe
<1>4. PICK g : Goto(one, g) /\ g.row.ext = EffectiveRow.ext
  BY <1>1 DEF OwnerGoes
<1>5. \/ UNCHANGED <<stripe, log>>
      \/ /\ EffectiveRow.ext \in StripeIds
         /\ \E account : /\ Proper(EffectiveRow.ext, account, <<"updated">>)
                         /\ Change(EffectiveRow.ext, account, <<"updated">>)
  BY OwnerProper
<1>6. \A t : Over(t)' <=> Over(t)
  BY <1>1, <1>5, OverSame
<1>7. NewTerms' /\ BoughtRows'
  <2>1. CASE UNCHANGED <<stripe, log>>
    BY <1>1, <2>1 DEF EndedInv, NewTerms, BoughtRows
  <2>2. WithExt(subs, EffectiveRow.ext) # {}
    BY <1>2, EffectiveSold DEF WithExt, EffectiveRow
  <2> QED BY <1>1, <1>5, <2>1, <2>2, TermsKept
<1>8. OverRows'
  BY <1>1, <1>6 DEF EndedInv, OverRows, Over
<1>9. OverFrames' /\ ToldFrames'
  <2>1. req'[one] = g
    BY <1>4, GotoGoes DEF StripeInv
  <2>2. OverFrames'
    BY <1>3, <1>4, <1>6, <2>1 DEF OverFrames, Over
  <2>3. ToldFrames'
    BY <1>1, <1>2 DEF ToldFrames
  <2> QED BY <2>2, <2>3
<1> QED BY <1>7, <1>8, <1>9 DEF EndedInv

LEMMA BackgroundEnded ==
    ASSUME StripeInv, OneLiveInv, AckedInv, EndedInv, Background
    PROVE  EndedInv'
<1>1. /\ IInv /\ UNCHANGED <<req, stripe, log, acked, handling, endsMissed>>
  BY WorkerSteps DEF StripeInv, stripeVars
<1>2. KeepsExts(subs, subs')
  BY <1>1, NextKeeps DEF Background, Next, Keeps
<1>3. \A n \in DOMAIN subs' : Over(subs'[n].ext) => subs'[n].state = "expired"
  <2>1. CASE UNCHANGED subs
    BY <2>1 DEF EndedInv, OverRows
  <2>2. CASE /\ worker.id # 0 /\ worker.id \in DOMAIN subs
             /\ subs' = [subs EXCEPT ![worker.id] = worker.row]
    <3>1. worker.row.state = "expired"
      BY <2>2 DEF OneLiveInv
    <3> QED BY <2>2, <3>1 DEF EndedInv, OverRows
  <2> QED BY <1>1, <2>1, <2>2, WorkerSteps
<1>4. OverRows' /\ NewTerms' /\ BoughtRows'
  BY <1>1, <1>2, <1>3, AnswersEnded
<1>5. OverFrames' /\ ToldFrames'
  BY <1>1 DEF EndedInv, OverFrames, ToldFrames, Over
<1> QED BY <1>4, <1>5 DEF EndedInv

LEMMA EndedKept ==
    ASSUME StripeInv, OneLiveInv, LogInv, AckedInv, EndedInv, InOrder = TRUE,
           NEW one, Requests = {one}, [StripeNext]_allVars
    PROVE  EndedInv'
<1>1. CASE UNCHANGED allVars
  <2>1. UNCHANGED <<subs, req, stripe, log, acked, handling, endsMissed>>
    BY <1>1 DEF allVars, vars, stripeVars
  <2> QED BY <2>1 DEF EndedInv, OverRows, OverFrames, NewTerms, BoughtRows,
                      ToldFrames, Over
<1>2. AccountTyped
  BY DEF StripeInv
<1> QED BY <1>1, <1>2, StripeStepEnded, DeliverEnded, SyncEnded, OwnerActs,
           OwnerEnded, AdvanceEnded, AbortEnded, BackgroundEnded DEF StripeNext

LEMMA LogNextKept ==
    ASSUME StripeInv, LogInv, NEW one, Requests = {one}, [StripeNext]_allVars
    PROVE  LogInv'
<1>1. AccountTyped
  BY DEF StripeInv
<1>2. CASE UNCHANGED <<stripe, log>>
  BY <1>2 DEF LogInv, Live, Sold
<1>3. ASSUME NEW r \in Requests, OwnerAtStripe(r) PROVE LogInv'
  BY <1>1, <1>2, <1>3, OwnerProper, LogKept
<1>4. CASE StripeStep
  BY <1>1, <1>4, StripeStepProper, LogKept
<1> QED BY <1>1, <1>2, <1>3, <1>4, OwnerActs
        DEF StripeNext, Deliver, Sync, Advance, Abort, Background, allVars, stripeVars

OrderInv == StripeInv /\ OneLiveInv /\ LogInv /\ AckedInv /\ EndedInv

LEMMA OrderInvAlways ==
    ASSUME InOrder = TRUE, NEW one, Requests = {one}
    PROVE  StripeSpec => []OrderInv
<1>1. StripeInit => OneLiveInv /\ LogInv /\ AckedInv /\ EndedInv
  <2> SUFFICES ASSUME StripeInit
               PROVE  OneLiveInv /\ LogInv /\ AckedInv /\ EndedInv
    OBVIOUS
  <2>1. /\ DOMAIN log = {} /\ acked = {} /\ \A r \in Requests : handling[r] = 0
        /\ \A r \in Requests : req[r] = Idle
        /\ \A s \in StripeIds : ~Sold(s) /\ Live(s)
    BY DEF StripeInit, Init, Sold, Live
  <2>2. OneLiveInv
    BY IdleIsPlain DEF StripeInit, Init, OneLiveInv, Resting, Creating
  <2>3. LogInv
    BY <2>1 DEF LogInv
  <2>4. AckedInv
    BY <2>1 DEF AckedInv
  <2>5. EndedInv
    BY <2>1, IdleIsPlain DEF EndedInv, OverRows, OverFrames, NewTerms, BoughtRows,
                             ToldFrames, Over
  <2> QED BY <2>2, <2>3, <2>4, <2>5
<1>2. StripeInv /\ OneLiveInv /\ LogInv /\ AckedInv /\ EndedInv /\ [StripeNext]_allVars
        => OneLiveInv' /\ LogInv' /\ AckedInv' /\ EndedInv'
  BY OneLiveKept, LogNextKept, AckedKept, EndedKept
<1> QED BY <1>1, <1>2, StripeInvAlways, PTL DEF StripeSpec, OrderInv

(* When webhooks come in order and requests one at a time, nobody keeps a  *)
(* plan that nobody pays for: the subscription may have been refused,      *)
(* created late by a sync, changed by the owner or written over by the     *)
(* worker, but once Stripe's last event is answered its row is expired,    *)
(* unless the event that ended it was answered without reading the row.    *)
THEOREM EndedIsExpired ==
    ASSUME InOrder = TRUE, NEW one, Requests = {one}
    PROVE  StripeSpec => []EndedAtStripeIsExpired
<1>1. OrderInv => EndedAtStripeIsExpired
  <2> SUFFICES ASSUME OrderInv, acked = DOMAIN log, NEW n \in DOMAIN subs,
                      subs[n].ext \in StripeIds, ~Live(subs[n].ext),
                      subs[n].ext \notin endsMissed
               PROVE  subs[n].state = "expired"
    BY DEF EndedAtStripeIsExpired, Quiet
  <2>1. Over(subs[n].ext)
    BY DEF OrderInv, LogInv, Over
  <2> QED BY <2>1 DEF OrderInv, EndedInv, OverRows
<1> QED BY <1>1, OrderInvAlways, PTL

-----------------------------------------------------------------------------
(* The seats of a row are right when no "updated" event is on its way: the *)
(* last one carries what Stripe has, and the requests that hold an older   *)
(* copy of the row end before that event is handled.                       *)

Updates(s) ==
    {i \in DOMAIN log \ acked : log[i].type = "updated" /\ log[i].sub = s}

SeatsRight ==
    \A n \in DOMAIN subs :
        subs[n].ext \in StripeIds /\ Updates(subs[n].ext) = {}
            => subs[n].seats = stripe[subs[n].ext].seats

(* A request f that handles event e, with table s.                         *)
SeatsTold(f, e, s) ==
    /\ e.type # "unpaid"
    /\ e.type \in {"created", "paid"} => f.pc \in Creating
    /\ e.type = "deleted" /\ f.pc = "save" => f.row.seats = s[f.id].seats
    /\ e.type = "updated" =>
          /\ f.pc \notin Creating \cup {"seats_read"}
          /\ f.pc = "save" => f.row.seats = e.seats
          /\ f.then # "idle" => f.pc = "save"
          /\ f.pc # "save" \/ f.then = "idle" =>
                \A n \in WithExt(s, e.sub) : s[n].seats = e.seats

SeatsFrames ==
    \A r \in Requests :
        /\ req[r].pc \in Creating /\ WithExt(subs, req[r].row.ext) = {}
              => req[r].row.seats = stripe[req[r].row.ext].seats
        /\ handling[r] = 0 /\ req[r].pc \notin Creating \cup {"idle"}
           /\ req[r].row.ext \in StripeIds => Updates(req[r].row.ext) # {}
        /\ handling[r] # 0 => SeatsTold(req[r], log[handling[r]], subs)

SeatsInv == ~seatsMissed => SeatsRight /\ SeatsFrames

(* What the worker writes back has the seats of the row it writes over.    *)
FreshSeats == WorkerSave => worker.row.seats = subs[worker.id].seats

(* The last update that is answered carries the seats Stripe has.          *)
LEMMA LastUpdate ==
    ASSUME AccountTyped, LogInv, AckedInv, UNCHANGED log,
           NEW i \in DOMAIN log \ acked, acked' = acked \cup {i},
           log[i].type = "updated", Updates(log[i].sub)' = {}
    PROVE  log[i].seats = stripe[log[i].sub].seats
<1>1. ASSUME NEW j \in DOMAIN log, log[j].type = "updated", log[j].sub = log[i].sub
      PROVE  ~(i < j)
  <2> SUFFICES ASSUME i < j PROVE FALSE
    OBVIOUS
  <2>1. j \notin acked
    BY DEF AckedInv
  <2>2. i \in Nat
    BY LoggedEvent
  <2>3. j # i
    BY <2>2
  <2>4. j \in Updates(log[i].sub)'
    BY <1>1, <2>1, <2>3 DEF Updates
  <2> QED BY <2>4
<1> QED BY <1>1 DEF LogInv

(* A step of the only request.                                             *)
LEMMA RequestSeats ==
    ASSUME IInv, AccountTyped, LogInv, AckedInv, NEW one, Requests = {one},
           NEW g, Goto(one, g), UNCHANGED <<stripe, log>>,
           \A n \in DOMAIN subs' :
               subs'[n].ext \in StripeIds /\ Updates(subs'[n].ext) = {}
                   => subs'[n].seats = stripe[subs'[n].ext].seats,
           \/ acked' = acked
           \/ /\ g = Idle
              /\ \E i \in DOMAIN log \ acked :
                    /\ acked' = acked \cup {i}
                    /\ log[i].type = "updated" =>
                          \A n \in WithExt(subs', log[i].sub) :
                              subs'[n].seats = log[i].seats,
           g.pc \in Creating /\ WithExt(subs', g.row.ext) = {}
               => g.row.seats = stripe[g.row.ext].seats,
           handling'[one] = 0 /\ g.pc \notin Creating \cup {"idle"}
               /\ g.row.ext \in StripeIds => Updates(g.row.ext) # {},
           handling'[one] # 0 => SeatsTold(g, log[handling'[one]], subs')
    PROVE  SeatsRight' /\ SeatsFrames'
<1>1. req'[one] = g
  BY GotoGoes
<1>2. CASE acked' = acked
  <2>1. \A t : Updates(t)' = Updates(t)
    BY <1>2 DEF Updates
  <2>2. SeatsRight'
    BY <2>1 DEF SeatsRight
  <2>3. SeatsFrames'
    BY <1>1, <2>1 DEF SeatsFrames
  <2> QED BY <2>2, <2>3
<1>3. ASSUME NEW i \in DOMAIN log \ acked, acked' = acked \cup {i}, g = Idle,
             log[i].type = "updated" =>
                \A n \in WithExt(subs', log[i].sub) : subs'[n].seats = log[i].seats
      PROVE  SeatsRight' /\ SeatsFrames'
  <2>1. ASSUME NEW t, ~(log[i].type = "updated" /\ log[i].sub = t)
        PROVE  Updates(t)' = Updates(t)
    BY <1>3, <2>1 DEF Updates
  <2>2. ASSUME NEW n \in DOMAIN subs', NEW t \in StripeIds, subs'[n].ext = t,
               Updates(t)' = {}
        PROVE  subs'[n].seats = stripe[t].seats
    <3>1. CASE log[i].type = "updated" /\ log[i].sub = t
      <4>1. subs'[n].seats = log[i].seats
        BY <1>3, <2>2, <3>1 DEF WithExt
      <4>2. Updates(log[i].sub)' = {}
        BY <2>2, <3>1 DEF Updates
      <4>3. log[i].seats = stripe[log[i].sub].seats
        BY <1>3, <3>1, <4>2, LastUpdate
      <4> QED BY <3>1, <4>1, <4>3
    <3>2. CASE ~(log[i].type = "updated" /\ log[i].sub = t)
      <4>1. Updates(t) = {}
        BY <2>1, <2>2, <3>2
      <4> QED BY <2>2, <4>1
    <3> QED BY <3>1, <3>2
  <2>5. SeatsRight'
    <3> SUFFICES ASSUME NEW n \in DOMAIN subs', subs'[n].ext \in StripeIds,
                        Updates(subs[n].ext)' = {}
                 PROVE  subs'[n].seats = stripe'[subs'[n].ext].seats
      BY DEF SeatsRight
    <3>1. PICK t \in StripeIds : t = subs'[n].ext
      OBVIOUS
    <3>2. Updates(t)' = {}
      BY <3>1 DEF Updates
    <3> QED BY <2>2, <3>1, <3>2
  <2>4. SeatsFrames'
    BY <1>1, <1>3, IdleIsPlain DEF SeatsFrames, Creating
  <2> QED BY <2>4, <2>5
<1> QED BY <1>2, <1>3

LEMMA AdvanceSeats ==
    ASSUME StripeInv, LogInv, AckedInv, EndedInv, SeatsInv,
           NEW one, Requests = {one}, Advance(one)
    PROVE  SeatsInv'
<1> DEFINE f == req[one]
           h == handling[one]
           e == log[h]
<1>1. /\ IInv /\ AccountTyped /\ AnswersTyped /\ StripeFrame(f) /\ Continue(one)
      /\ h \in Nat /\ UNCHANGED <<stripe, log, seatsMissed>>
      /\ subs \in Seq(Row) /\ f \in Frame
      /\ OneRowPerProviderId
      /\ f.then \in {"idle", "success_read", "failed_read", "ended_read"}
  BY DEF StripeInv, FramesSold, Advance, AnswersTyped, IInv, StripeFrame, Frame, Thens
<1> SUFFICES ASSUME ~seatsMissed PROVE SeatsRight' /\ SeatsFrames'
  BY <1>1 DEF SeatsInv
<1>2. /\ SeatsRight
      /\ f.pc \in Creating /\ WithExt(subs, f.row.ext) = {}
            => f.row.seats = stripe[f.row.ext].seats
      /\ h = 0 /\ f.pc \notin Creating \cup {"idle"} /\ f.row.ext \in StripeIds
            => Updates(f.row.ext) # {}
      /\ h # 0 => SeatsTold(f, e, subs)
  BY DEF SeatsInv, SeatsFrames
<1>3. /\ h = 0 => UNCHANGED <<acked, handling>>
      /\ h # 0 => /\ Replies(one, h) /\ h \in DOMAIN log \ acked
                  /\ f.row.ext = e.sub /\ e.sub \in StripeIds /\ f.pc # "idle"
                  /\ e.type \in Types
                  /\ e.type \in {"created", "deleted"} => f.then = "idle"
                  /\ e.type = "deleted" => f.pc \in {"expire_read", "save"}
  <2>1. h # 0 => /\ h \in DOMAIN log \ acked /\ f.pc # "idle" /\ Handles(f, e)
    BY DEF AckedInv, EndedInv, ToldFrames
  <2>2. h # 0 => e \in Event /\ e.sub \in StripeIds
    BY <1>1, <2>1, LoggedEvent
  <2> QED BY <2>1, <2>2, AdvanceReplies DEF Handles, Event, Types
<1> HIDE DEF h, e
<1>4. ASSUME NEW g, Goto(one, g), g # Idle,
             \A n \in DOMAIN subs' :
                 subs'[n].ext \in StripeIds /\ Updates(subs'[n].ext) = {}
                     => subs'[n].seats = stripe[subs'[n].ext].seats,
             g.pc \in Creating /\ WithExt(subs', g.row.ext) = {}
                 => g.row.seats = stripe[g.row.ext].seats,
             h = 0 /\ g.pc \notin Creating \cup {"idle"}
                 /\ g.row.ext \in StripeIds => Updates(g.row.ext) # {},
             h # 0 => SeatsTold(g, e, subs')
      PROVE  SeatsRight' /\ SeatsFrames'
  <2>1. acked' = acked /\ handling'[one] = h
    BY <1>1, <1>3, <1>4, AnswersWhenIdle DEF h
  <2> QED BY <1>1, <1>4, <2>1, RequestSeats DEF e
<1>5. ASSUME Goto(one, Idle),
             \A n \in DOMAIN subs' :
                 subs'[n].ext \in StripeIds /\ Updates(subs'[n].ext) = {}
                     => subs'[n].seats = stripe[subs'[n].ext].seats,
             h # 0 /\ e.type = "updated" =>
                 \A n \in WithExt(subs', e.sub) : subs'[n].seats = e.seats
      PROVE  SeatsRight' /\ SeatsFrames'
  <2>1. CASE h = 0
    <3>1. acked' = acked /\ handling'[one] = 0
      BY <1>3, <2>1 DEF h
    <3> QED BY <1>1, <1>5, <3>1, IdleIsPlain, RequestSeats DEF Creating
  <2>2. CASE h # 0
    <3>1. acked' \in {acked, acked \cup {h}} /\ handling'[one] = 0
      BY <1>1, <1>3, <1>5, <2>2, AnswersWhenIdle
    <3> QED BY <1>1, <1>3, <1>5, <2>2, <3>1, IdleIsPlain, RequestSeats DEF Creating, e
  <2> QED BY <2>1, <2>2
<1>6. UNCHANGED subs =>
         \A n \in DOMAIN subs' :
             subs'[n].ext \in StripeIds /\ Updates(subs'[n].ext) = {}
                 => subs'[n].seats = stripe[subs'[n].ext].seats
  BY <1>2 DEF SeatsRight
<1>7. CASE Stops(one)
  <2>1. h # 0 /\ e.type = "updated" =>
           \A n \in WithExt(subs, e.sub) : subs[n].seats = e.seats
    BY <1>2, <1>7 DEF Stops, SeatsTold
  <2> QED BY <1>5, <1>6, <1>7, <2>1 DEF Stops
<1>8. CASE Computes(one)
  <2>1. PICK g \in Frame :
           /\ Goto(one, g) /\ GoesToSave(f, g)
           /\ \/ f.pc = "seats_read" /\ g.row.seats = f.row.seats
              \/ /\ f.pc \in {"success_read", "failed_read", "expire_read"}
                 /\ g.row.seats = subs[g.id].seats
    BY <1>8 DEF Computes
  <2>2. /\ g.pc = "save" /\ g.then = f.then /\ g.row.ext = f.row.ext
        /\ g.id \in DOMAIN subs /\ subs[g.id].ext = f.row.ext
    BY <2>1 DEF GoesToSave
  <2>3. h = 0 /\ g.row.ext \in StripeIds => Updates(g.row.ext) # {}
    BY <1>2, <2>1, <2>2 DEF Creating
  <2>4. ASSUME h # 0 PROVE SeatsTold(g, e, subs)
    <3>1. g.id \in WithExt(subs, e.sub)
      BY <1>3, <2>2, <2>4 DEF WithExt
    <3> QED BY <1>2, <1>3, <2>1, <2>2, <2>4, <3>1 DEF SeatsTold, Creating
  <2> QED BY <1>4, <1>6, <1>8, <2>1, <2>2, <2>3, <2>4, IdleIsPlain
          DEF Computes, Creating
<1>9. CASE Finds(one)
  <2>1. PICK g \in Frame : /\ Goto(one, g) /\ g.pc = "expire_read"
                           /\ g.then = f.then /\ g.row = f.row
    BY <1>9 DEF Finds
  <2>2. h = 0 /\ g.row.ext \in StripeIds => Updates(g.row.ext) # {}
    BY <1>2, <1>9, <2>1 DEF Finds, Creating
  <2>3. h # 0 => SeatsTold(g, e, subs)
    BY <1>2, <1>9, <2>1 DEF Finds, SeatsTold, Creating
  <2> QED BY <1>4, <1>6, <1>9, <2>1, <2>2, <2>3, IdleIsPlain DEF Finds, Creating
<1>10. CASE Saves(one)
  <2>1. /\ f.pc = "save" /\ f.id \in DOMAIN subs /\ subs[f.id].ext = f.row.ext
        /\ subs' = [subs EXCEPT ![f.id] = f.row]
    BY <1>10 DEF Saves
  <2>2. /\ DOMAIN subs' = DOMAIN subs /\ subs'[f.id] = f.row
        /\ \A n \in DOMAIN subs \ {f.id} : subs'[n] = subs[n]
    BY <2>1
  <2>3. h # 0 => e.type \in {"deleted", "updated"}
    BY <1>2, <1>3, <2>1 DEF SeatsTold, Creating, Types
  <2>4. ASSUME f.row.ext \in StripeIds, Updates(f.row.ext) = {}
        PROVE  f.row.seats = stripe[f.row.ext].seats
    <3>1. h # 0
      BY <1>2, <2>1, <2>4 DEF Creating
    <3>2. e.type = "deleted"
      <4> SUFFICES ASSUME e.type = "updated" PROVE FALSE
        BY <2>3, <3>1
      <4>1. h \in Updates(f.row.ext)
        BY <1>3, <3>1 DEF Updates, e
      <4> QED BY <2>4, <4>1
    <3>3. f.row.seats = subs[f.id].seats
      BY <1>2, <2>1, <3>1, <3>2 DEF SeatsTold
    <3> QED BY <1>2, <2>1, <2>4, <3>3 DEF SeatsRight
  <2>5. \A n \in DOMAIN subs' :
            subs'[n].ext \in StripeIds /\ Updates(subs'[n].ext) = {}
                => subs'[n].seats = stripe[subs'[n].ext].seats
    BY <1>2, <2>2, <2>4 DEF SeatsRight
  <2>6. h # 0 /\ e.type = "updated" =>
            /\ f.row.seats = e.seats
            /\ \A n \in WithExt(subs', e.sub) : subs'[n].seats = e.seats
    <3> SUFFICES ASSUME h # 0, e.type = "updated"
                 PROVE  /\ f.row.seats = e.seats
                        /\ \A n \in WithExt(subs', e.sub) : subs'[n].seats = e.seats
      OBVIOUS
    <3>1. f.row.seats = e.seats /\ f.row.ext = e.sub /\ e.sub \in Exts
      BY <1>2, <1>3, <2>1 DEF SeatsTold, Exts
    <3>2. \A n \in WithExt(subs', e.sub) : n = f.id
      BY <1>1, <2>1, <2>2, <3>1 DEF OneRowPerProviderId, WithExt
    <3> QED BY <2>2, <3>1, <3>2
  <2>7. CASE Goto(one, Idle)
    BY <1>5, <2>5, <2>6, <2>7
  <2>8. ASSUME NEW g \in Frame, Goto(one, g), f.then # "idle",
               g.pc \in {"success_read", "failed_read", "ended_read"},
               g.then = "idle", g.row = f.row
        PROVE  SeatsRight' /\ SeatsFrames'
    <3>1. h # 0 => e.type = "updated"
      BY <1>3, <2>3, <2>8
    <3>2. h # 0 => SeatsTold(g, e, subs')
      BY <2>6, <2>8, <3>1 DEF SeatsTold, Creating
    <3>3. h = 0 /\ g.row.ext \in StripeIds => Updates(g.row.ext) # {}
      BY <1>2, <2>1, <2>8 DEF Creating
    <3> QED BY <1>4, <2>5, <2>8, <3>2, <3>3, IdleIsPlain DEF Creating
  <2> QED BY <1>10, <2>7, <2>8 DEF Saves, Proceeds
<1>11. CASE Clears(one)
  <2>1. PICK g \in Frame : /\ Goto(one, g) /\ g.pc = "create_insert"
                           /\ g.then = f.then /\ g.row = f.row
    BY <1>11 DEF Clears
  <2>2. h # 0 => SeatsTold(g, e, subs')
    BY <1>2, <1>3, <1>11, <2>1 DEF SeatsTold, Creating, Clears
  <2>3. ASSUME NEW n \in DOMAIN subs'
        PROVE  /\ n \in DOMAIN subs /\ subs'[n].ext = subs[n].ext
               /\ subs'[n].seats = subs[n].seats
    <3>1. subs' = ExpireLive(subs) /\ n \in DOMAIN subs /\ subs'[n].ext = subs[n].ext
      BY <1>1, <1>11, ExpireLiveRows DEF Clears
    <3>2. subs[n] \in Row
      BY <1>1, <3>1, RowsOfTable
    <3>3. Expired(subs[n]).seats = subs[n].seats
      BY <3>2 DEF Expired, Row
    <3> QED BY <3>1, <3>3 DEF ExpireLive
  <2>4. \A n \in DOMAIN subs' :
            subs'[n].ext \in StripeIds /\ Updates(subs'[n].ext) = {}
                => subs'[n].seats = stripe[subs'[n].ext].seats
    BY <1>2, <2>3 DEF SeatsRight
  <2>5. WithExt(subs', g.row.ext) = {} => g.row.seats = stripe[g.row.ext].seats
    <3>1. WithExt(subs', f.row.ext) = WithExt(subs, f.row.ext)
      BY <1>1, <1>11, ExpireLiveRows DEF Clears, WithExt
    <3> QED BY <1>2, <1>11, <2>1, <3>1 DEF Clears, Creating
  <2> QED BY <1>4, <2>1, <2>2, <2>4, <2>5, IdleIsPlain DEF Creating
<1>12. CASE Inserts(one)
  <2>1. /\ subs' = Append(subs, f.row) /\ f.pc = "create_insert" /\ Goto(one, Idle)
    BY <1>12 DEF Inserts
  <2>2. /\ DOMAIN subs' = DOMAIN subs \cup {Len(subs) + 1}
        /\ subs'[Len(subs) + 1] = f.row
        /\ \A n \in DOMAIN subs : subs'[n] = subs[n]
    BY <1>1, <2>1, FrameFields, AppendProperties, LenProperties
  <2>3. f.row.seats = stripe[f.row.ext].seats
    BY <1>2, <1>12, <2>1 DEF Creating, Inserts
  <2>4. \A n \in DOMAIN subs' :
            subs'[n].ext \in StripeIds /\ Updates(subs'[n].ext) = {}
                => subs'[n].seats = stripe[subs'[n].ext].seats
    BY <1>2, <2>2, <2>3 DEF SeatsRight
  <2>5. h # 0 => e.type # "updated"
    BY <1>2, <2>1 DEF SeatsTold, Creating
  <2> QED BY <1>5, <2>1, <2>4, <2>5
<1> QED BY <1>1, <1>7, <1>8, <1>9, <1>10, <1>11, <1>12, ContinueGoes

LEMMA DeliverSeats ==
    ASSUME StripeInv, LogInv, AckedInv, EndedInv, SeatsInv, InOrder = TRUE,
           NEW one, Requests = {one}, Deliver(one)
    PROVE  SeatsInv'
<1>1. PICK i \in DOMAIN log :
         /\ Arrives(i) /\ Replies(one, i)
         /\ HandleEvent(one, i, log[i]) \/ HandleUnread(one, i, log[i])
  BY DeliverReplies DEF StripeInv
<1> DEFINE e == log[i]
<1>2. /\ IInv /\ AccountTyped /\ AnswersTyped
      /\ UNCHANGED <<stripe, log, seatsMissed>>
      /\ i \in Nat \ {0} /\ i \notin acked
      /\ e.sub \in StripeIds /\ e.plan \in Plans /\ e.seats \in SeatCounts
      /\ e.status \in {"active", "past_due", "canceled"}
      /\ stripe[e.sub].plan \in Plans /\ stripe[e.sub].seats \in SeatCounts
  BY <1>1, LoggedEvent DEF StripeInv, Deliver, Arrives
<1> SUFFICES ASSUME ~seatsMissed PROVE SeatsRight' /\ SeatsFrames'
  BY <1>2 DEF SeatsInv
<1>3. /\ SeatsRight
      /\ WithExt(subs, e.sub) = {} => e.seats = stripe[e.sub].seats
  BY DEF SeatsInv, EndedInv, NewTerms
<1>4. /\ UNCHANGED subs
      /\ \A n \in DOMAIN subs' :
            subs'[n].ext \in StripeIds /\ Updates(subs'[n].ext) = {}
                => subs'[n].seats = stripe[subs'[n].ext].seats
  BY <1>3, RequestBegins DEF Begins, SeatsRight
<1>5. ASSUME NEW g, Goto(one, g), g # Idle, SeatsTold(g, e, subs),
             g.pc \in Creating /\ WithExt(subs, g.row.ext) = {}
                 => g.row.seats = stripe[g.row.ext].seats
      PROVE  SeatsRight' /\ SeatsFrames'
  <2>1. acked' = acked /\ handling'[one] = i
    BY <1>1, <1>2, <1>5, AnswersWhenIdle
  <2> QED BY <1>2, <1>4, <1>5, <2>1, RequestSeats
<1>6. ASSUME Goto(one, Idle), e.type = "updated" => WithExt(subs, e.sub) = {}
      PROVE  SeatsRight' /\ SeatsFrames'
  <2>1. acked' \in {acked, acked \cup {i}} /\ handling'[one] = 0
    BY <1>1, <1>2, <1>6, AnswersWhenIdle
  <2> QED BY <1>2, <1>4, <1>6, <2>1, IdleIsPlain, RequestSeats DEF Creating
<1> HIDE DEF e
<1>7. HandleEvent(one, i, e) \/ HandleUnread(one, i, e)
  BY <1>1 DEF e
<1>8. ASSUME NEW plan \in Plans, NEW seats \in SeatCounts,
             StripeCreate(one, e.sub, plan, seats),
             \/ e.type = "paid" /\ seats = stripe[e.sub].seats
             \/ e.type = "created" /\ seats = e.seats
      PROVE  SeatsRight' /\ SeatsFrames'
  <2>1. \/ Goto(one, Idle)
        \/ \E g \in Frame : /\ Goto(one, g) /\ g.pc = "create_expire"
                            /\ g.row.ext = e.sub /\ g.row.seats = seats
    BY <1>2, <1>8, CreateGoes
  <2>2. CASE Goto(one, Idle)
    BY <1>6, <1>8, <2>2
  <2>3. ASSUME NEW g \in Frame, Goto(one, g), g.pc = "create_expire",
               g.row.ext = e.sub, g.row.seats = seats
        PROVE  SeatsRight' /\ SeatsFrames'
    <3>1. WithExt(subs, g.row.ext) = {} => g.row.seats = stripe[g.row.ext].seats
      BY <1>3, <1>8, <2>3
    <3>2. SeatsTold(g, e, subs)
      BY <1>8, <2>3 DEF SeatsTold, Creating
    <3> QED BY <1>5, <2>3, <3>1, <3>2, IdleIsPlain
  <2> QED BY <2>1, <2>2, <2>3
<1>9. CASE e.type = "updated" /\ StripeUpdated(one, e.sub, e.status, e.seats)
  <2>1. \/ WithExt(subs, e.sub) = {} /\ Goto(one, Idle)
        \/ \E g \in Frame :
              /\ Goto(one, g) /\ g.pc = "save" /\ g.row.seats = e.seats
              /\ g.then \in {"success_read", "failed_read", "ended_read"}
    BY <1>2, <1>9, UpdatedGoes
  <2>2. ASSUME NEW g \in Frame, Goto(one, g), g.pc = "save", g.row.seats = e.seats,
               g.then # "idle"
        PROVE  SeatsRight' /\ SeatsFrames'
    <3>1. SeatsTold(g, e, subs)
      BY <1>9, <2>2 DEF SeatsTold, Creating
    <3> QED BY <1>5, <2>2, <3>1, IdleIsPlain DEF Creating
  <2> QED BY <1>6, <2>1, <2>2
<1>10. CASE e.type = "deleted" /\ StripeDeleted(one, e.sub)
  <2>1. \/ Goto(one, Idle)
        \/ \E g \in Frame : Goto(one, g) /\ g.pc = "expire_read"
    BY <1>2, <1>10, DeletedGoes
  <2>2. ASSUME NEW g \in Frame, Goto(one, g), g.pc = "expire_read"
        PROVE  SeatsRight' /\ SeatsFrames'
    <3>1. SeatsTold(g, e, subs)
      BY <1>10, <2>2 DEF SeatsTold, Creating
    <3> QED BY <1>5, <2>2, <3>1, IdleIsPlain DEF Creating
  <2> QED BY <1>6, <1>10, <2>1, <2>2
<1>11. CASE /\ e.type \in {"unpaid", "paid", "deleted"}
            /\ req[one] = Idle /\ UNCHANGED vars
  <2>1. Goto(one, Idle)
    BY <1>2, <1>11 DEF vars, Goto, IInv
  <2> QED BY <1>6, <1>11, <2>1
<1> QED BY <1>2, <1>7, <1>8, <1>9, <1>10, <1>11 DEF HandleEvent, HandleUnread

LEMMA SyncSeats ==
    ASSUME StripeInv, LogInv, AckedInv, SeatsInv, NEW one, Requests = {one}, Sync(one)
    PROVE  SeatsInv'
<1>1. /\ IInv /\ AccountTyped /\ UNCHANGED stripeVars /\ req[one].pc = "idle"
      /\ UNCHANGED subs
  BY RequestBegins DEF StripeInv, Sync, StripeCreate, Arrive, Begins
<1>2. PICK s \in StripeIds : StripeCreate(one, s, stripe[s].plan, stripe[s].seats)
  BY DEF Sync
<1>3. stripe[s].plan \in Plans /\ stripe[s].seats \in SeatCounts
  BY <1>1 DEF AccountTyped, Account
<1>4. PICK g : /\ Goto(one, g)
               /\ \/ g = Idle
                  \/ /\ g.pc = "create_expire" /\ g.row.ext = s
                     /\ g.row.seats = stripe[s].seats
  BY <1>1, <1>2, <1>3, CreateGoes
<1>5. handling'[one] = 0
  BY <1>1 DEF AckedInv, stripeVars
<1> SUFFICES ASSUME ~seatsMissed PROVE SeatsRight' /\ SeatsFrames'
  BY <1>1 DEF SeatsInv, stripeVars
<1>6. \A n \in DOMAIN subs' :
          subs'[n].ext \in StripeIds /\ Updates(subs'[n].ext) = {}
              => subs'[n].seats = stripe[subs'[n].ext].seats
  BY <1>1 DEF SeatsInv, SeatsRight
<1> QED BY <1>1, <1>4, <1>5, <1>6, IdleIsPlain, RequestSeats DEF stripeVars, Creating

(* A seat sync that fails is only logged, and remembered as missed.        *)
LEMMA AbortSeats ==
    ASSUME StripeInv, LogInv, AckedInv, SeatsInv, NEW one, Requests = {one}, Abort(one)
    PROVE  SeatsInv'
<1> DEFINE f == req[one]
           h == handling[one]
           e == log[h]
<1>1. /\ IInv /\ AccountTyped /\ AnswersTyped /\ StripeFrame(f) /\ Fail(one)
      /\ UNCHANGED <<stripe, log>> /\ h \in Nat
      /\ h = 0 => UNCHANGED <<acked, handling>>
      /\ h # 0 => Replies(one, h) /\ h \in DOMAIN log \ acked
      /\ f.pc # "ended_read" => UNCHANGED acked
  BY AbortReplies DEF StripeInv, FramesSold, Abort, AnswersTyped, AckedInv
<1>2. UNCHANGED subs
  BY <1>1, FailGoes
<1> SUFFICES ASSUME seatsMissed' = FALSE PROVE SeatsRight' /\ SeatsFrames'
  BY <1>1 DEF SeatsInv, Abort, AnswersTyped
<1>3. Goto(one, Idle) /\ ~seatsMissed
  <2>1. req'[one] = Idle /\ seatsMissed = FALSE
    BY <1>1 DEF Abort, AnswersTyped
  <2>2. \E g : Goto(one, g)
    BY <1>1, FailGoes DEF Proceeds
  <2> QED BY <1>1, <2>1, <2>2, GotoGoes
<1>4. \A n \in DOMAIN subs' :
          subs'[n].ext \in StripeIds /\ Updates(subs'[n].ext) = {}
              => subs'[n].seats = stripe[subs'[n].ext].seats
  BY <1>2, <1>3 DEF SeatsInv, SeatsRight
<1>5. handling'[one] = 0 /\ acked' \in {acked, acked \cup {h}}
  <2>1. CASE h = 0
    BY <1>1, <2>1
  <2>2. CASE h # 0
    BY <1>1, <1>3, <2>2, AnswersWhenIdle
  <2> QED BY <2>1, <2>2
<1>6. CASE acked' = acked
  BY <1>1, <1>3, <1>4, <1>5, <1>6, IdleIsPlain, RequestSeats DEF Creating
<1>7. CASE acked' # acked
  <2>1. h # 0 /\ acked' = acked \cup {h} /\ f.pc = "ended_read"
    BY <1>1, <1>5, <1>7
  <2>2. SeatsTold(f, e, subs)
    BY <1>3, <2>1 DEF SeatsInv, SeatsFrames
  <2>3. e.type = "updated" => \A n \in WithExt(subs', e.sub) : subs'[n].seats = e.seats
    BY <1>2, <2>1, <2>2 DEF SeatsTold, WithExt
  <2> QED BY <1>1, <1>3, <1>4, <1>5, <2>1, <2>3, IdleIsPlain, RequestSeats
          DEF Creating
<1> QED BY <1>6, <1>7

(* What Stripe sends when something changes.                               *)
LEMMA UpdatesGrow ==
    ASSUME AccountTyped, AckedInv, UNCHANGED acked,
           NEW s, NEW account, NEW types,
           Proper(s, account, types), Change(s, account, types)
    PROVE  /\ \A t : Updates(t) \subseteq Updates(t)'
           /\ \A t \in StripeIds : Updates(t)' = {} =>
                 stripe'[t].seats = stripe[t].seats
           /\ (\E k \in DOMAIN types : types[k] = "updated") => Updates(s)' # {}
<1>1. /\ DOMAIN log \subseteq DOMAIN log'
      /\ stripe' = [stripe EXCEPT ![s] = account]
      /\ \A i \in DOMAIN log : log'[i] = log[i]
      /\ \A k \in DOMAIN types :
            /\ Len(log) + k \in DOMAIN log' \ DOMAIN log
            /\ log'[Len(log) + k] = Sent(types[k], s, account)
      /\ s \in StripeIds
      /\ account.seats # stripe[s].seats
            => \E k \in DOMAIN types : types[k] = "updated"
  BY LogGrows DEF Proper
<1>2. \A t : Updates(t) \subseteq Updates(t)'
  BY <1>1 DEF Updates
<1>3. ASSUME NEW k \in DOMAIN types, types[k] = "updated"
      PROVE  Updates(s)' # {}
  <2> DEFINE n == Len(log) + k
  <2>1. n \in DOMAIN log' /\ n \notin acked
    BY <1>1 DEF AckedInv
  <2>2. log'[n] = Sent(types[k], s, account)
    BY <1>1
  <2>3. log'[n].type = "updated" /\ log'[n].sub = s
    BY <1>3, <2>2 DEF Sent
  <2> HIDE DEF n
  <2>4. n \in Updates(s)'
    BY <2>1, <2>3 DEF Updates
  <2> QED BY <2>4
<1>4. ASSUME NEW t \in StripeIds, Updates(t)' = {}
      PROVE  stripe'[t].seats = stripe[t].seats
  <2>1. CASE t = s
    BY <1>1, <1>3, <1>4, <2>1 DEF AccountTyped
  <2>2. CASE t # s
    BY <1>1, <2>2 DEF AccountTyped
  <2> QED BY <2>1, <2>2
<1> QED BY <1>2, <1>3, <1>4

LEMMA RightWhileUpdating ==
    ASSUME AccountTyped, AckedInv, SeatsRight, UNCHANGED <<subs, acked>>,
           NEW s, NEW account, NEW types,
           Proper(s, account, types), Change(s, account, types)
    PROVE  SeatsRight'
<1> SUFFICES ASSUME NEW n \in DOMAIN subs, subs[n].ext \in StripeIds,
                    Updates(subs[n].ext)' = {}
             PROVE  subs[n].seats = stripe'[subs[n].ext].seats
  BY DEF SeatsRight
<1>1. PICK t \in StripeIds : t = subs[n].ext
  OBVIOUS
<1>2. Updates(t)' = {}
  BY <1>1 DEF Updates
<1>3. Updates(t) = {} /\ stripe'[t].seats = stripe[t].seats
  BY <1>2, UpdatesGrow
<1> QED BY <1>1, <1>3 DEF SeatsRight

LEMMA StripeStepSeats ==
    ASSUME StripeInv, AckedInv, SeatsInv, StripeStep
    PROVE  SeatsInv'
<1>1. /\ AccountTyped /\ UNCHANGED <<subs, req, acked, handling, seatsMissed>>
      /\ \E s, account, types :
            /\ Proper(s, account, types) /\ Change(s, account, types)
            /\ account.seats = stripe[s].seats
  BY StripeStepProper DEF StripeInv, StripeOnly, vars
<1>2. PICK s, account, types :
         /\ Proper(s, account, types) /\ Change(s, account, types)
         /\ account.seats = stripe[s].seats
  BY <1>1
<1> SUFFICES ASSUME ~seatsMissed PROVE SeatsRight' /\ SeatsFrames'
  BY <1>1 DEF SeatsInv
<1>3. SeatsRight'
  BY <1>1, <1>2, RightWhileUpdating DEF SeatsInv
<1>4. /\ \A t \in StripeIds : stripe'[t].seats = stripe[t].seats
      /\ \A i \in DOMAIN log : log'[i] = log[i]
      /\ \A t : Updates(t) \subseteq Updates(t)'
  <2>1. /\ stripe' = [stripe EXCEPT ![s] = account]
        /\ \A i \in DOMAIN log : log'[i] = log[i]
    BY <1>1, <1>2, LogGrows
  <2>2. \A t : Updates(t) \subseteq Updates(t)'
    BY <1>1, <1>2, UpdatesGrow
  <2>3. \A t \in StripeIds : stripe'[t].seats = stripe[t].seats
    BY <1>1, <1>2, <2>1 DEF AccountTyped
  <2> QED BY <2>1, <2>2, <2>3
<1>5. ASSUME NEW r \in Requests
      PROVE  /\ req[r].pc \in Creating /\ WithExt(subs, req[r].row.ext) = {}
                   => req[r].row.seats = stripe'[req[r].row.ext].seats
             /\ handling[r] = 0 /\ req[r].pc \notin Creating \cup {"idle"}
                /\ req[r].row.ext \in StripeIds => Updates(req[r].row.ext)' # {}
             /\ handling[r] # 0 => SeatsTold(req[r], log'[handling[r]], subs)
  <2>1. req[r].pc \in Creating => req[r].row.ext \in StripeIds
    BY DEF StripeInv, FramesSold, StripeFrame
  <2>2. PICK t : t = req[r].row.ext
    OBVIOUS
  <2>3. Updates(t) # {} => Updates(req[r].row.ext)' # {}
    BY <1>1, <1>4, <2>2 DEF Updates
  <2> QED BY <1>4, <2>1, <2>2, <2>3 DEF SeatsInv, SeatsFrames, AckedInv
<1>6. SeatsFrames'
  <2>1. \A r \in Requests : req'[r] = req[r] /\ handling'[r] = handling[r]
    BY <1>1
  <2> QED BY <1>1, <1>5, <2>1 DEF SeatsFrames
<1> QED BY <1>3, <1>6

(* The owner's change is announced before the request ends.                *)
LEMMA OwnerSeats ==
    ASSUME StripeInv, AckedInv, SeatsInv, NEW one, Requests = {one}, OwnerAtStripe(one)
    PROVE  SeatsInv'
<1>1. /\ AccountTyped /\ OwnerGoes(one)
      /\ UNCHANGED <<subs, acked, handling, seatsMissed>>
  BY OwnerRequestGoes DEF StripeInv, OwnerAtStripe, OwnerGoes
<1>2. handling[one] = 0
  BY <1>1 DEF AckedInv, OwnerGoes
<1>3. PICK x : x = EffectiveRow.ext
  OBVIOUS
<1>4. PICK g : Goto(one, g) /\ g.row.ext = x /\ g.pc \notin Creating
  BY <1>1, <1>3 DEF OwnerGoes, Creating
<1>5. \/ x \notin StripeIds /\ UNCHANGED <<stripe, log>>
      \/ /\ x \in StripeIds
         /\ \E account : /\ Proper(x, account, <<"updated">>)
                         /\ Change(x, account, <<"updated">>)
  BY <1>3, OwnerProper
<1> SUFFICES ASSUME ~seatsMissed PROVE SeatsRight' /\ SeatsFrames'
  BY <1>1 DEF SeatsInv
<1>6. SeatsRight'
  <2>1. CASE UNCHANGED <<stripe, log>>
    BY <1>1, <2>1 DEF SeatsInv, SeatsRight, Updates
  <2> QED BY <1>1, <1>5, <2>1, RightWhileUpdating DEF SeatsInv
<1>7. x \in StripeIds => Updates(x)' # {}
  <2> SUFFICES ASSUME NEW account, Proper(x, account, <<"updated">>),
                      Change(x, account, <<"updated">>)
               PROVE  Updates(x)' # {}
    BY <1>5
  <2> DEFINE types == <<"updated">>
  <2>1. \E k \in DOMAIN types : types[k] = "updated"
    OBVIOUS
  <2>2. Proper(x, account, types) /\ Change(x, account, types)
    OBVIOUS
  <2> HIDE DEF types
  <2>3. (\E k \in DOMAIN types : types[k] = "updated") => Updates(x)' # {}
    BY <1>1, <2>2, UpdatesGrow
  <2> QED BY <2>1, <2>3
<1>8. SeatsFrames'
  <2>1. req'[one] = g /\ handling'[one] = 0
    BY <1>1, <1>2, <1>4, GotoGoes DEF StripeInv
  <2>2. g.row.ext \in StripeIds => Updates(g.row.ext)' # {}
    BY <1>4, <1>7
  <2> QED BY <1>4, <2>1, <2>2 DEF SeatsFrames
<1> QED BY <1>6, <1>8

LEMMA BackgroundSeats ==
    ASSUME StripeInv, SeatsInv, Background, [FreshSeats]_vars
    PROVE  SeatsInv'
<1>1. /\ IInv /\ UNCHANGED <<req, stripe, log, acked, handling, seatsMissed>>
  BY WorkerSteps DEF StripeInv, stripeVars
<1> SUFFICES ASSUME ~seatsMissed PROVE SeatsRight' /\ SeatsFrames'
  BY <1>1 DEF SeatsInv
<1>2. /\ DOMAIN subs' = DOMAIN subs
      /\ \A n \in DOMAIN subs :
            subs'[n].ext = subs[n].ext /\ subs'[n].seats = subs[n].seats
  <2>1. CASE UNCHANGED subs
    BY <2>1
  <2>2. CASE WorkerSave /\ ~UNCHANGED subs
    <3>1. /\ worker.id \in DOMAIN subs /\ worker.row.ext = subs[worker.id].ext
          /\ subs' = [subs EXCEPT ![worker.id] = worker.row]
      BY <1>1, <2>2 DEF IInv, GoodWorker, WorkerSave
    <3>2. worker.row.seats = subs[worker.id].seats
      BY <2>2 DEF FreshSeats, vars
    <3> QED BY <3>1, <3>2
  <2> QED BY <2>1, <2>2 DEF Background, Worker, WorkerList, WorkerRead, WorkerFail, Tick
<1>3. \A t : Updates(t)' = Updates(t)
  BY <1>1 DEF Updates
<1>4. SeatsRight'
  <2> SUFFICES ASSUME NEW n \in DOMAIN subs', subs'[n].ext \in StripeIds,
                      Updates(subs[n].ext)' = {}
               PROVE  subs'[n].seats = stripe'[subs'[n].ext].seats
    BY DEF SeatsRight
  <2>1. PICK t : t = subs'[n].ext
    OBVIOUS
  <2>2. Updates(t) = {}
    BY <1>3, <2>1 DEF Updates
  <2> QED BY <1>1, <1>2, <2>1, <2>2 DEF SeatsInv, SeatsRight
<1>5. SeatsFrames'
  <2> SUFFICES ASSUME NEW r \in Requests
               PROVE  /\ req[r].pc \in Creating
                            /\ WithExt(subs', req[r].row.ext) = {}
                            => req[r].row.seats = stripe[req[r].row.ext].seats
                      /\ handling[r] = 0 /\ req[r].pc \notin Creating \cup {"idle"}
                         /\ req[r].row.ext \in StripeIds => Updates(req[r].row.ext) # {}
                      /\ handling[r] # 0 => SeatsTold(req[r], log[handling[r]], subs')
    BY <1>1 DEF SeatsFrames, Updates
  <2>1. GoodFrame(req[r], subs)
    BY <1>1 DEF IInv
  <2>2. \A ext : WithExt(subs', ext) = WithExt(subs, ext)
    BY <1>2 DEF WithExt
  <2>3. \A n \in DOMAIN subs : subs'[n].seats = subs[n].seats
    BY <1>2
  <2>4. SeatsTold(req[r], log[handling[r]], subs)
           => SeatsTold(req[r], log[handling[r]], subs')
    BY <2>1, <2>2, <2>3 DEF SeatsTold, GoodFrame, WithExt
  <2> QED BY <2>2, <2>4 DEF SeatsInv, SeatsFrames
<1> QED BY <1>4, <1>5

LEMMA SeatsKept ==
    ASSUME OrderInv, SeatsInv, InOrder = TRUE, NEW one, Requests = {one},
           [StripeNext]_allVars, [FreshSeats]_vars
    PROVE  SeatsInv'
<1>1. StripeInv /\ LogInv /\ AckedInv /\ EndedInv /\ AccountTyped
  BY DEF OrderInv, StripeInv
<1>2. CASE UNCHANGED allVars
  <2>1. UNCHANGED <<subs, req, stripe, log, acked, handling, seatsMissed>>
    BY <1>2 DEF allVars, vars, stripeVars
  <2> QED BY <2>1 DEF SeatsInv, SeatsRight, SeatsFrames, Updates
<1> QED BY <1>1, <1>2, StripeStepSeats, DeliverSeats, SyncSeats, OwnerActs,
           OwnerSeats, AdvanceSeats, AbortSeats, BackgroundSeats DEF StripeNext

(* When webhooks come in order and requests one at a time, and the worker  *)
(* writes back no seats older than the row's, the row holds what is paid   *)
(* for once every event is answered, unless a sync of the seats failed:    *)
(* the owner's changes and the syncs included, whose local writes come     *)
(* after Stripe's.                                                         *)
THEOREM SeatsAreStripes ==
    ASSUME InOrder = TRUE, NEW one, Requests = {one}
    PROVE  StripeSpec /\ [][FreshSeats]_vars => []SeatsFollowStripe
<1>1. StripeInit => SeatsInv
  <2> SUFFICES ASSUME StripeInit PROVE SeatsRight /\ SeatsFrames
    BY DEF SeatsInv
  <2>1. \A n \in DOMAIN subs : subs[n].ext = Manual
    BY FreeRowIsRow DEF StripeInit, Init
  <2>2. SeatsRight
    BY <2>1, ProvidersAssumption DEF SeatsRight, Exts
  <2>3. SeatsFrames
    BY IdleIsPlain DEF StripeInit, Init, SeatsFrames, Creating
  <2> QED BY <2>2, <2>3
<1>2. OrderInv /\ SeatsInv /\ [StripeNext]_allVars /\ [FreshSeats]_vars => SeatsInv'
  BY SeatsKept
<1>3. SeatsInv => SeatsFollowStripe
  <2> SUFFICES ASSUME SeatsRight, acked = DOMAIN log
               PROVE  \A n \in DOMAIN subs : subs[n].ext \in StripeIds
                         => subs[n].seats = stripe[subs[n].ext].seats
    BY DEF SeatsInv, SeatsFollowStripe, Quiet
  <2>1. \A t : Updates(t) = {}
    BY DEF Updates
  <2> QED BY <2>1 DEF SeatsRight
<1> QED BY <1>1, <1>2, <1>3, OrderInvAlways, PTL DEF StripeSpec
=============================================================================

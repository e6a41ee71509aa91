------------------------- MODULE SubscriptionService -------------------------
(***************************************************************************)
(* Requests and webhooks that work on one organization's subscription rows *)
(* at the same time as the expiry worker.                                  *)
(*                                                                         *)
(* Every HTTP request runs in a goroutine of its own and none of these     *)
(* handlers opens a transaction: each SQL statement is one step, and what  *)
(* a handler read may be stale when it writes the whole row back (gorm     *)
(* Save).  A request is a frame: `pc` names the statement it runs next,    *)
(* `then` the one its handler continues with, and the rest is what it      *)
(* holds in memory.  A statement that fails ends its handler.              *)
(*                                                                         *)
(* A Stripe API call is taken with the statement that precedes it.         *)
(***************************************************************************)
EXTENDS SubscriptionRows

CONSTANTS
    Requests,    \* concurrent requests
    Expirations, \* expiration dates RevenueCat and admins may send
    MaxRows,     \* bound: rows of the organization
    MaxTime      \* bound: clock

ASSUME BoundsAssumption ==
    /\ Expirations \subseteq Nat
    /\ MaxRows \in Nat
    /\ MaxTime \in Nat

VARIABLES
    subs,        \* the organization's rows
    now,         \* time.Now()
    req,         \* request |-> frame
    worker       \* the expiry worker

vars == <<subs, now, req, worker>>

PCs == {"idle", "save", "success_read", "failed_read", "ended_read",
        "expire_read", "seats_read", "create_expire", "create_insert",
        "grant_insert", "extend_read"}

Thens == {"idle", "success_read", "failed_read", "ended_read", "extend_read"}

Frame == [pc: PCs, then: Thens, id: Nat, row: Row, exp: Times]

Idle == [pc |-> "idle", then |-> "idle", id |-> 0, row |-> FreeRow,
         exp |-> Null]

Resting == [phase |-> 1, todo |-> {}, id |-> 0, row |-> FreeRow]

TypeOK ==
    /\ subs \in Seq(Row)
    /\ now \in Nat
    /\ req \in [Requests -> Frame]
    /\ worker \in [phase: 1..3, todo: SUBSET Nat, id: Nat, row: Row]

Init ==
    /\ subs \in {<<>>, <<FreeRow>>}
    /\ now = 0
    /\ req = [r \in Requests |-> Idle]
    /\ worker = Resting

-----------------------------------------------------------------------------
(* Frames. *)

Goto(r, frame) == req' = [req EXCEPT ![r] = frame]

(* The handler will write row back at id, then run the statement `then`    *)
(* for the provider's subscription row.ext.                                *)
SaveLater(r, f, id, row) ==
    Goto(r, [f EXCEPT !.pc = "save", !.id = id, !.row = row])

Return(r, f) ==
    Goto(r, IF f.then = "idle" THEN Idle
            ELSE [f EXCEPT !.pc = f.then, !.then = "idle"])

(* What a request or an event says of a provider's subscription. *)
About(ext, plan, seats) ==
    [FreeRow EXCEPT !.ext = ext, !.plan = plan, !.seats = seats]

(* A frame that is about to run `pc` with what it was told. *)
Call(pc, then, row, exp) ==
    [pc |-> pc, then |-> then, id |-> 0, row |-> row, exp |-> exp]

-----------------------------------------------------------------------------
(* The statements of the service operations. *)

(* Mutant: the organization's effective row is overwritten. *)
SaveEffective(r) ==
    /\ req[r].pc = "save"
    /\ subs' = [subs EXCEPT ![Effective(subs, now)] = req[r].row]
    /\ Return(r, req[r])

(* gorm Save: the whole row, as this request computed it. *)
Save(r) ==
    /\ req[r].pc = "save"
    /\ subs' = [subs EXCEPT ![req[r].id] = req[r].row]
    /\ Return(r, req[r])

(* Mutant: the quantity is added to the seats instead of replacing them. *)
SeatsAdded(r, f) ==
    /\ UNCHANGED subs
    /\ \/ /\ WithExt(subs, f.row.ext) = {}
          /\ Goto(r, Idle)
       \/ \E i \in WithExt(subs, f.row.ext) :
             SaveLater(r, f, i, [subs[i] EXCEPT !.seats = @ + f.row.seats])

(* UpdateSeatsPurchasedByStripeSubscriptionID: f.row.seats is the quantity.*)
SeatsRead(r, f) ==
    /\ UNCHANGED subs
    /\ \/ /\ WithExt(subs, f.row.ext) = {}
          /\ Goto(r, Idle)
       \/ \E i \in WithExt(subs, f.row.ext) :
             SaveLater(r, f, i, [subs[i] EXCEPT !.seats = f.row.seats])

(* CreateLookup covers the statements of Create up to the plan checks; a   *)
(* hit on the provider's id returns the existing row.  A lookup that fails *)
(* is taken for a miss, so Create may go on although the row exists.       *)
Created(r, f, id, row) ==
    IF f.exp = Null THEN Goto(r, Idle)
    ELSE SaveLater(r, [f EXCEPT !.then = "idle"], id,
                   WithExpiration(row, f.exp))

CreateLookup(r, f) ==
    /\ UNCHANGED subs
    /\ \/ \E i \in WithExt(subs, f.row.ext) : Created(r, f, i, subs[i])
       \/ /\ WithExt(subs, f.row.ext) = {}
          /\ f.row.plan \notin Fits
          /\ Goto(r, Idle)
       \/ /\ f.row.plan \in Fits
          /\ Goto(r, Call("create_expire", "idle",
                          NewRow(f.row.ext, f.row.plan, f.row.seats, now),
                          f.exp))

(* ExpireActiveByOrganizationID: one UPDATE over all the rows. *)
CreateExpire(r) ==
    /\ req[r].pc = "create_expire"
    /\ subs' = ExpireLive(subs)
    /\ Goto(r, [req[r] EXCEPT !.pc = "create_insert"])

(* Mutant: no unique index on stripe_subscription_id. *)
InsertUnchecked(r) ==
    /\ req[r].pc = "create_insert"
    /\ Len(subs) < MaxRows
    /\ subs' = Append(subs, req[r].row)
    /\ Created(r, req[r], Len(subs) + 1, req[r].row)

(* The unique index on stripe_subscription_id refuses a second row. *)
CreateInsert(r) ==
    /\ req[r].pc = "create_insert"
    /\ \/ /\ WithExt(subs, req[r].row.ext) # {}
          /\ Goto(r, Idle)
          /\ UNCHANGED subs
       \/ /\ WithExt(subs, req[r].row.ext) = {}
          /\ Len(subs) < MaxRows
          /\ subs' = Append(subs, req[r].row)
          /\ Created(r, req[r], Len(subs) + 1, req[r].row)

(* HandlePaymentSuccess; a RevenueCat renewal of an unknown purchase       *)
(* creates it.                                                             *)
SuccessRead(r, f) ==
    \/ /\ \E i \in WithExt(subs, f.row.ext) :
              SaveLater(r, f, i, Paid(subs[i], now))
       /\ UNCHANGED subs
    \/ /\ WithExt(subs, f.row.ext) = {}
       /\ f.then = "extend_read"
       /\ CreateLookup(r, f)
    \/ /\ WithExt(subs, f.row.ext) = {}
       /\ f.then # "extend_read"
       /\ Goto(r, Idle)
       /\ UNCHANGED subs

(* HandlePaymentFailed: whatever the row's state. *)
FailedRead(r, f) ==
    /\ UNCHANGED subs
    /\ \/ /\ WithExt(subs, f.row.ext) = {}
          /\ Goto(r, Idle)
       \/ \E i \in WithExt(subs, f.row.ext) :
             SaveLater(r, f, i, PaymentFailed(subs[i], now + Grace))

(* Mutant: a canceled row counts as ended already. *)
EndedReadUnlessCanceled(r, f) ==
    /\ UNCHANGED subs
    /\ \/ /\ \A i \in WithExt(subs, f.row.ext) :
                 subs[i].state \in {"expired", "canceled"}
          /\ Goto(r, Idle)
       \/ \E i \in WithExt(subs, f.row.ext) :
             /\ subs[i].state \notin {"expired", "canceled"}
             /\ Goto(r, [f EXCEPT !.pc = "expire_read", !.id = i])

(* The lookup of handleSubscriptionDeleted and of a "canceled" update,     *)
(* then ExpireSubscription unless the row is expired.  If the lookup fails *)
(* (Fail) the handler ends as it does without a row: the event is          *)
(* answered as handled.                                                    *)
EndedRead(r, f) ==
    /\ UNCHANGED subs
    /\ \/ /\ \A i \in WithExt(subs, f.row.ext) : subs[i].state = "expired"
          /\ Goto(r, Idle)
       \/ \E i \in WithExt(subs, f.row.ext) :
             /\ subs[i].state # "expired"
             /\ Goto(r, [f EXCEPT !.pc = "expire_read", !.id = i])

(* ExpireSubscription by primary key. *)
ExpireRead(r) ==
    /\ req[r].pc = "expire_read"
    /\ SaveLater(r, req[r], req[r].id, Expired(subs[req[r].id]))
    /\ UNCHANGED subs

(* The last part of handleRenewal works on the organization's effective    *)
(* row, whichever it is, and drops its grace date.                         *)
ExtendRead(r) ==
    /\ req[r].pc = "extend_read"
    /\ UNCHANGED subs
    /\ IF req[r].exp = Null \/ subs = <<>> THEN Goto(r, Idle)
       ELSE LET i == Effective(subs, now)
            IN  SaveLater(r, req[r], i,
                    [subs[i] EXCEPT !.renew = req[r].exp, !.grace = Null])

(* The INSERT of GrantManual. *)
GrantInsert(r) ==
    /\ req[r].pc = "grant_insert"
    /\ Len(subs) < MaxRows
    /\ subs' = Append(subs, req[r].row)
    /\ Goto(r, Idle)

(* The next statement of a request that is under way. *)
Continue(r) ==
    /\ \/ Save(r)
       \/ req[r].pc = "seats_read" /\ SeatsRead(r, req[r])
       \/ req[r].pc = "success_read" /\ SuccessRead(r, req[r])
       \/ req[r].pc = "failed_read" /\ FailedRead(r, req[r])
       \/ req[r].pc = "ended_read" /\ EndedRead(r, req[r])
       \/ ExpireRead(r)
       \/ ExtendRead(r)
       \/ CreateExpire(r)
       \/ CreateInsert(r)
       \/ GrantInsert(r)
    /\ UNCHANGED <<now, worker>>

(* A failed seat sync of subscription.updated is only logged. *)
Fail(r) ==
    /\ req[r].pc # "idle"
    /\ IF req[r].then \in {"success_read", "failed_read", "ended_read"}
       THEN Return(r, req[r]) ELSE Goto(r, Idle)
    /\ UNCHANGED <<subs, now, worker>>

-----------------------------------------------------------------------------
(* Arrivals: each handler up to its first write or its early return.       *)

Arrive(r) == req[r].pc = "idle" /\ UNCHANGED <<now, worker>>

(* customer.subscription.created, invoice.payment_succeeded and a manual   *)
(* sync all end in Create.                                                 *)
StripeCreate(r, s, plan, seats) ==
    /\ Arrive(r)
    /\ CreateLookup(r, Call("idle", "idle", About(s, plan, seats), Null))

StatusStep == [active |-> "success_read", trialing |-> "success_read",
               past_due |-> "failed_read", canceled |-> "ended_read",
               incomplete |-> "idle"]

(* Mutant: seats are synced for active subscriptions only. *)
SeatsWhenActive(r, s, status, seats) ==
    /\ Arrive(r)
    /\ LET f == Call("idle", StatusStep[status],
                     About(s, FreePlan, seats), Null)
       IN  IF status = "active" THEN SeatsRead(r, f)
           ELSE Return(r, f) /\ UNCHANGED subs

(* customer.subscription.updated *)
StripeUpdated(r, s, status, seats) ==
    /\ Arrive(r)
    /\ SeatsRead(r, Call("idle", StatusStep[status],
                         About(s, FreePlan, seats), Null))

(* customer.subscription.deleted *)
StripeDeleted(r, s) ==
    /\ Arrive(r)
    /\ EndedRead(r, Call("idle", "idle", About(s, FreePlan, Null), Null))

(* An operation that loads the effective row; without one it is an error. *)
OnEffective(r, Change(_)) ==
    /\ Arrive(r)
    /\ subs # <<>>
    /\ LET i == Effective(subs, now)
       IN  SaveLater(r, Idle, i, Change(subs[i]))
    /\ UNCHANGED subs

EffectiveRow == subs[Effective(subs, now)]

(* The owner cancels or resumes; store purchases are refused. *)
Cancel(r) ==
    /\ subs # <<>>
    /\ EffectiveRow.state \notin {"expired", "canceled"}
    /\ EffectiveRow.ext \notin RcIds
    /\ OnEffective(r, LAMBDA row : Canceled(row, Null))

Resume(r) ==
    /\ subs # <<>>
    /\ EffectiveRow.state = "canceled"
    /\ EffectiveRow.ext \notin RcIds
    /\ OnEffective(r, LAMBDA row : Reactivated(row, Null))

(* UpdateSubscriptionSeats: Stripe first, then the row by its Stripe id. *)
UpdateSeats(r, seats) ==
    /\ Arrive(r)
    /\ subs # <<>>
    /\ EffectiveRow.ext \in StripeIds
    /\ EffectiveRow.plan \in SeatBased
    /\ EffectiveRow.seats # seats
    /\ Goto(r, Call("seats_read", "idle",
                    About(EffectiveRow.ext, FreePlan, seats), Null))
    /\ UNCHANGED subs

ChangePlan(r, plan, seats) ==
    /\ subs # <<>>
    /\ EffectiveRow.ext \in StripeIds
    /\ plan \in Fits
    /\ OnEffective(r, LAMBDA row :
          [row EXCEPT !.plan = plan, !.seats = seats])

(* The administrator's grant and its revocation. *)
GrantManual(r, plan, seats, endsAt) ==
    /\ subs # <<>>
    /\ EffectiveRow.ext = Manual
    /\ endsAt > now
    /\ OnEffective(r, LAMBDA row : Granted(row, plan, seats, endsAt))

(* No row, or an error reading it: GrantManual inserts one either way. *)
GrantNew(r, plan, seats, endsAt) ==
    /\ Arrive(r)
    /\ endsAt > now
    /\ Goto(r, Call("grant_insert", "idle",
                    Granted(FreeRow, plan, seats, endsAt), Null))
    /\ UNCHANGED subs

RevokeManual(r) ==
    /\ subs # <<>>
    /\ EffectiveRow.ext = Manual
    /\ OnEffective(r, Revoked)

-----------------------------------------------------------------------------
(* RevenueCat webhooks.  Those that follow the purchase act on the         *)
(* effective row and do not look at the purchase the event names.          *)

RcInitialPurchase(r, rc, plan, exp) ==
    /\ Arrive(r)
    /\ CreateLookup(r, Call("idle", "idle", About(rc, plan, Null), exp))

RcRenewal(r, rc, plan, exp) ==
    /\ Arrive(r)
    /\ SuccessRead(r, Call("idle", "extend_read", About(rc, plan, Null), exp))

(* gorm resets PlanID from the plan loaded with the row, so only the       *)
(* expiration date of a product change reaches the table.                  *)
RcProductChange(r, exp) ==
    OnEffective(r, LAMBDA row : WithExpiration(row, exp))

RcCancellation(r, exp) == OnEffective(r, LAMBDA row : Canceled(row, exp))

RcUncancellation(r, exp) == OnEffective(r, LAMBDA row : Reactivated(row, exp))

RcBillingIssue(r, graceEnd) ==
    OnEffective(r, LAMBDA row : PaymentFailed(row,
        IF graceEnd = Null THEN now + Grace ELSE graceEnd))

RcExpiration(r) ==
    /\ Arrive(r)
    /\ subs # <<>>
    /\ Goto(r, [Idle EXCEPT !.pc = "expire_read",
                            !.id = Effective(subs, now)])
    /\ UNCHANGED subs

(* handleSubscriptionPaused carries the automatic resume date. *)
RcPaused(r, resumeAt) == OnEffective(r, LAMBDA row : Canceled(row, resumeAt))

RcExtended(r, exp) == OnEffective(r, LAMBDA row : Extended(row, exp))

RevenueCatEvent(r) ==
    \E rc \in RcIds, exp \in Expirations \cup {Null} :
        \/ \E plan \in Plans : RcInitialPurchase(r, rc, plan, exp)
        \/ \E plan \in Plans : RcRenewal(r, rc, plan, exp)
        \/ RcProductChange(r, exp)
        \/ RcCancellation(r, exp)
        \/ RcUncancellation(r, exp)
        \/ RcBillingIssue(r, exp)
        \/ RcExpiration(r)
        \/ RcPaused(r, exp)
        \/ RcExtended(r, exp)

AdminRequest(r) ==
    \/ \E plan \in Plans, seats \in Seats, endsAt \in Expirations :
          \/ GrantManual(r, plan, seats, endsAt)
          \/ GrantNew(r, plan, seats, endsAt)
    \/ RevokeManual(r)

-----------------------------------------------------------------------------
(* The expiry worker asks for three lists in turn and runs                 *)
(* ExpireSubscription for each id of a list: that re-reads the row and     *)
(* does not look at why it was listed.  Its ticker may wait at any length  *)
(* before a pass, which is a stutter before list 1.                        *)

(* Mutants: the worker never asks for the manual grants; it leaves         *)
(* canceled rows as they are.                                              *)
WorkerTwoLists ==
    /\ worker.id = 0
    /\ worker.todo = {}
    /\ worker' = [worker EXCEPT !.phase = IF @ = 2 THEN 1 ELSE @ + 1,
                                !.todo = Due(worker.phase, subs, now)]
    /\ UNCHANGED <<subs, now, req>>

WorkerReadLive(i) ==
    /\ worker.id = 0
    /\ worker' = [worker EXCEPT !.todo = @ \ {i}, !.id = i,
                                !.row = IF subs[i].state = "canceled"
                                        THEN subs[i] ELSE Expired(subs[i])]
    /\ UNCHANGED <<subs, now, req>>

WorkerList ==
    /\ worker.id = 0
    /\ worker.todo = {}
    /\ worker' = [worker EXCEPT !.phase = IF @ = 3 THEN 1 ELSE @ + 1,
                                !.todo = Due(worker.phase, subs, now)]
    /\ UNCHANGED <<subs, now, req>>

WorkerRead(i) ==
    /\ worker.id = 0
    /\ worker' = [worker EXCEPT !.todo = @ \ {i}, !.id = i,
                                !.row = Expired(subs[i])]
    /\ UNCHANGED <<subs, now, req>>

WorkerSave ==
    /\ worker.id # 0
    /\ subs' = [subs EXCEPT ![worker.id] = worker.row]
    /\ worker' = [worker EXCEPT !.id = 0, !.row = FreeRow]
    /\ UNCHANGED <<now, req>>

(* A row that cannot be read or written is skipped, a list that cannot be  *)
(* read ends the pass.                                                     *)
WorkerFail ==
    /\ \/ /\ worker.id # 0
          /\ worker' = [worker EXCEPT !.id = 0, !.row = FreeRow]
       \/ /\ worker.id = 0
          /\ \E i \in worker.todo : worker' = [worker EXCEPT !.todo = @ \ {i}]
       \/ /\ worker.id = 0
          /\ worker.todo = {}
          /\ worker.phase # 1
          /\ worker' = Resting
    /\ UNCHANGED <<subs, now, req>>

Worker ==
    \/ WorkerList
    \/ \E i \in worker.todo : WorkerRead(i)
    \/ WorkerSave

Tick ==
    /\ now < MaxTime
    /\ now' = now + 1
    /\ UNCHANGED <<subs, req, worker>>

-----------------------------------------------------------------------------
StripeRequest(r) ==
    \/ \E s \in StripeIds, plan \in Plans, seats \in Seats :
          StripeCreate(r, s, plan, seats)
    \/ \E s \in StripeIds, status \in DOMAIN StatusStep, seats \in Seats :
          StripeUpdated(r, s, status, seats)
    \/ \E s \in StripeIds : StripeDeleted(r, s)

OwnerRequest(r) ==
    \/ Cancel(r)
    \/ Resume(r)
    \/ \E seats \in SeatCounts : UpdateSeats(r, seats)
    \/ \E plan \in Plans, seats \in SeatCounts : ChangePlan(r, plan, seats)

Next ==
    \/ \E r \in Requests : StripeRequest(r)
    \/ \E r \in Requests : OwnerRequest(r)
    \/ \E r \in Requests : RevenueCatEvent(r)
    \/ \E r \in Requests : AdminRequest(r)
    \/ \E r \in Requests : Continue(r)
    \/ \E r \in Requests : Fail(r)
    \/ Worker
    \/ WorkerFail
    \/ Tick

Spec == Init /\ [][Next]_vars

(* Every request runs to its end; the worker's ticker starts one pass      *)
(* after another; and database errors do not hit the worker for ever.      *)
Fairness ==
    /\ \A r \in Requests : WF_vars(Continue(r))
    /\ WF_vars(Worker)
    /\ <>[][WorkerFail => Worker]_vars

FairSpec == Spec /\ Fairness

-----------------------------------------------------------------------------
(* Properties. *)

(* A subscription at a payment provider has one row: neither two webhooks  *)
(* that create it at the same time nor a redelivered one make a second.    *)
OneRowPerProviderId ==
    \A i, j \in DOMAIN subs :
        subs[i].ext \in Exts /\ subs[i].ext = subs[j].ext => i = j

(* A row never disappears and never passes from one provider to another,   *)
(* whatever stale copy of it a handler or the worker writes back.          *)
RowsKeepTheirProvider ==
    [][\A i \in DOMAIN subs :
          i \in DOMAIN subs' /\ subs'[i].ext = subs[i].ext]_vars

(* ExpireActiveByOrganizationID promises at most one active-like row.      *)
AtMostOneLive == \A i, j \in LiveIds(subs) : i = j

(* The worker expires subscriptions that should be expired: a row it       *)
(* writes is due, or expired already.                                      *)
WorkerExpiresOnlyDue ==
    [][WorkerSave =>
          \/ subs[worker.id].state = "expired"
          \/ \E phase \in 1..3 : DueIn(phase, subs[worker.id], now)]_vars

(* A past-due row carries the end of grace that the worker searches for.   *)
PastDueHasGrace ==
    \A i \in DOMAIN subs :
        subs[i].state = "past_due" => subs[i].grace # Null

(* The worker ends what is over: a past-due row after its grace period, a  *)
(* canceled one after its paid period, a manual grant after its end date.  *)
IsDue(phase, i) == i \in DOMAIN subs /\ DueIn(phase, subs[i], now)

EndsOnceDue(phase) ==
    \A i \in 1..MaxRows : IsDue(phase, i) ~> ~IsDue(phase, i)

GraceEnds == EndsOnceDue(1)
PeriodEnds == EndsOnceDue(2)
GrantEnds == EndsOnceDue(3)

(* Mutant: an organization without a subscription is writable. *)
CanWriteByDefault == subs = <<>> \/ EffectiveRow.state # "expired"

(* CheckSubscriptionOverride: an organization without a subscription, or   *)
(* whose effective one is expired, is read-only.                           *)
CanWrite == subs # <<>> /\ EffectiveRow.state # "expired"

Lapsed ==
    \A i \in DOMAIN subs :
        subs[i].state = "expired" \/ \E phase \in 1..3 : DueIn(phase, subs[i], now)

(* Neither the owner nor the store cancels and resumes for ever: neither   *)
(* Resume nor a store event asks whether the period is over, and           *)
(* alternating the two can dodge every pass of the worker.                 *)
Settles ==
    <>[][\A r \in Requests : ~Cancel(r) /\ ~Resume(r) /\ ~RevenueCatEvent(r)]_vars

(* An organization all of whose subscriptions are over becomes read-only,  *)
(* unless one of them is paid or granted again.                            *)
LapsedBecomesReadOnly == Settles => (Lapsed ~> (~Lapsed \/ ~CanWrite))
=============================================================================

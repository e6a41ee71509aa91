---------------------------- MODULE StripeBilling ----------------------------
(***************************************************************************)
(* The subscription rows together with Stripe: an account that owns the    *)
(* subscriptions, and the webhook events it sends about them.              *)
(*                                                                         *)
(* Stripe promises neither an order nor a single delivery, and repeats an  *)
(* event until the server answers 200.  With InOrder = TRUE the events     *)
(* arrive one after another, each once it succeeded; with FALSE any event  *)
(* sent so far may arrive at any time, again and again, as the server      *)
(* keeps no record of the events it has processed.                         *)
(***************************************************************************)
EXTENDS SubscriptionService

CONSTANTS
    InOrder,     \* how webhooks arrive
    MaxEvents    \* bound: events Stripe sends

ASSUME StripeAssumption == InOrder \in BOOLEAN /\ MaxEvents \in Nat

VARIABLES
    stripe,      \* Stripe's subscriptions
    log,         \* every webhook event sent, in order
    acked,       \* the events answered with 200
    handling,    \* request |-> the event it handles, 0 for none
    seatsMissed, \* history: a webhook's seat sync failed and was only logged
    endsMissed   \* history: subscriptions whose end was answered as handled
                 \* although their row could not be read

stripeVars == <<stripe, log, acked, handling, seatsMissed, endsMissed>>
allVars == <<vars, stripeVars>>

Account == [status: {"none", "active", "past_due", "canceled"},
            plan: Plans, seats: SeatCounts]

Event == [type: {"created", "updated", "deleted", "paid", "unpaid"},
          sub: StripeIds, status: {"active", "past_due", "canceled"},
          plan: Plans, seats: SeatCounts]

StripeTypeOK ==
    /\ TypeOK
    /\ stripe \in [StripeIds -> Account]
    /\ log \in Seq(Event)
    /\ acked \in SUBSET Nat
    /\ handling \in [Requests -> Nat]
    /\ seatsMissed \in BOOLEAN
    /\ endsMissed \in SUBSET (Exts \cup {Manual})

StripeInit ==
    /\ Init
    /\ stripe \in [StripeIds -> {a \in Account : a.status = "none"}]
    /\ log = <<>>
    /\ acked = {}
    /\ handling = [r \in Requests |-> 0]
    /\ seatsMissed = FALSE
    /\ endsMissed = {}

-----------------------------------------------------------------------------
(* Stripe's side (external). *)

Sent(type, s, account) ==
    [type |-> type, sub |-> s, status |-> account.status,
     plan |-> account.plan, seats |-> account.seats]

(* Stripe changes subscription s and sends events about it. *)
Change(s, account, types) ==
    /\ Len(log) + Len(types) <= MaxEvents
    /\ stripe' = [stripe EXCEPT ![s] = account]
    /\ log' = log \o [k \in DOMAIN types |-> Sent(types[k], s, account)]

StripeOnly == UNCHANGED <<vars, acked, handling, seatsMissed, endsMissed>>

(* The customer pays a checkout session. *)
Checkout(s) ==
    /\ stripe[s].status = "none"
    /\ Change(s, [stripe[s] EXCEPT !.status = "active"], <<"created", "paid">>)
    /\ StripeOnly

(* The next period's invoice is paid, at once or after failed attempts. *)
InvoicePaid(s) ==
    /\ stripe[s].status \in {"active", "past_due"}
    /\ Change(s, [stripe[s] EXCEPT !.status = "active"], <<"updated", "paid">>)
    /\ StripeOnly

InvoiceUnpaid(s) ==
    /\ stripe[s].status = "active"
    /\ Change(s, [stripe[s] EXCEPT !.status = "past_due"],
              <<"unpaid", "updated">>)
    /\ StripeOnly

(* The period of a canceled subscription ends, or Stripe gives up. *)
Ended(s) ==
    /\ stripe[s].status \in {"active", "past_due"}
    /\ Change(s, [stripe[s] EXCEPT !.status = "canceled"], <<"deleted">>)
    /\ StripeOnly

StripeStep ==
    \E s \in StripeIds :
        Checkout(s) \/ InvoicePaid(s) \/ InvoiceUnpaid(s) \/ Ended(s)

-----------------------------------------------------------------------------
(* Webhooks. *)

Live(s) == stripe[s].status # "canceled"

(* Which event may arrive now. *)
Arrives(i) ==
    /\ i \in DOMAIN log
    /\ InOrder => /\ i \notin acked
                  /\ \A j \in 1..(i - 1) : j \in acked
                  /\ \A r \in Requests : handling[r] = 0

(* A request that returns to idle answered 200, or 500 if it went wrong. *)
Answered(r, i, ok) ==
    IF req'[r] = Idle
    THEN /\ acked' = IF ok THEN acked \cup {i} ELSE acked
         /\ handling' = [handling EXCEPT ![r] = 0]
    ELSE acked' = acked /\ handling' = [handling EXCEPT ![r] = i]

(* Create refuses a plan that does not fit the organization. *)
Accepted(s, plan) == plan \in Fits \/ WithExt(subs, s) # {}

(* invoice.payment_succeeded loads the subscription as it is at Stripe now *)
(* and creates its row; invoice.payment_failed is only logged.             *)
HandleEvent(r, i, e) ==
    \/ /\ e.type = "created"
       /\ StripeCreate(r, e.sub, e.plan, e.seats)
       /\ Answered(r, i, Accepted(e.sub, e.plan))
    \/ /\ e.type = "paid"
       /\ StripeCreate(r, e.sub, stripe[e.sub].plan, stripe[e.sub].seats)
       /\ Answered(r, i, Accepted(e.sub, stripe[e.sub].plan))
    \/ /\ e.type = "updated"
       /\ StripeUpdated(r, e.sub, e.status, e.seats)
       /\ Answered(r, i, TRUE)
    \/ /\ e.type = "deleted"
       /\ StripeDeleted(r, e.sub)
       /\ Answered(r, i, TRUE)
    \/ /\ e.type = "unpaid"
       /\ req[r] = Idle
       /\ UNCHANGED vars
       /\ Answered(r, i, TRUE)

(* The subscription could not be read: its row for "deleted", the          *)
(* subscription at Stripe for "paid".  Either is answered with 200.        *)
HandleUnread(r, i, e) ==
    /\ e.type \in {"paid", "deleted"}
    /\ req[r] = Idle
    /\ UNCHANGED vars
    /\ Answered(r, i, TRUE)
    /\ endsMissed' = IF e.type = "deleted" THEN endsMissed \cup {e.sub}
                     ELSE endsMissed

(* Any other first statement that fails changes nothing, or no more than   *)
(* the failed seat sync of Abort.                                          *)
Deliver(r) ==
    \E i \in DOMAIN log :
        /\ Arrives(i)
        /\ \/ HandleEvent(r, i, log[i]) /\ UNCHANGED endsMissed
           \/ HandleUnread(r, i, log[i])
        /\ UNCHANGED <<stripe, log, seatsMissed>>

-----------------------------------------------------------------------------
(* The owner's requests, with the Stripe API calls they make.  Canceling   *)
(* and resuming at Stripe leave the status active until the period ends.   *)

StripeCancel(r) ==
    /\ Cancel(r)
    /\ IF EffectiveRow.ext \in StripeIds
       THEN /\ Live(EffectiveRow.ext)
            /\ Change(EffectiveRow.ext, stripe[EffectiveRow.ext], <<"updated">>)
       ELSE UNCHANGED <<stripe, log>>
    /\ UNCHANGED <<acked, handling, seatsMissed, endsMissed>>

StripeResume(r) ==
    /\ Resume(r)
    /\ IF EffectiveRow.ext \in StripeIds
       THEN /\ Live(EffectiveRow.ext)
            /\ Change(EffectiveRow.ext, stripe[EffectiveRow.ext], <<"updated">>)
       ELSE UNCHANGED <<stripe, log>>
    /\ UNCHANGED <<acked, handling, seatsMissed, endsMissed>>

StripeSeats(r, seats) ==
    /\ UpdateSeats(r, seats)
    /\ Live(EffectiveRow.ext)
    /\ Change(EffectiveRow.ext,
              [stripe[EffectiveRow.ext] EXCEPT !.seats = seats], <<"updated">>)
    /\ UNCHANGED <<acked, handling, seatsMissed, endsMissed>>

StripePlan(r, plan, seats) ==
    /\ ChangePlan(r, plan, seats)
    /\ Live(EffectiveRow.ext)
    /\ Change(EffectiveRow.ext,
              [stripe[EffectiveRow.ext] EXCEPT !.plan = plan, !.seats = seats],
              <<"updated">>)
    /\ UNCHANGED <<acked, handling, seatsMissed, endsMissed>>

(* SyncSubscription: Create from the account's first live subscription. *)
Sync(r) ==
    \E s \in StripeIds :
        /\ stripe[s].status # "none"
        /\ StripeCreate(r, s, stripe[s].plan, stripe[s].seats)
        /\ UNCHANGED stripeVars

(* The unique index refuses the row that Create inserts. *)
Refused(r) == req[r].pc = "create_insert" /\ subs' = subs

Reply(r, ok) ==
    IF handling[r] = 0 THEN UNCHANGED <<acked, handling>>
    ELSE Answered(r, handling[r], ok)

(* A request goes on, or fails; a failed webhook is not acknowledged,      *)
(* unless what failed is the lookup of a "canceled" update.                *)
Advance(r) ==
    /\ Continue(r)
    /\ Reply(r, ~Refused(r))
    /\ UNCHANGED <<stripe, log, seatsMissed, endsMissed>>

Abort(r) ==
    /\ Fail(r)
    /\ Reply(r, req[r].pc = "ended_read")
    /\ seatsMissed' = (seatsMissed \/ req'[r] # Idle)
    /\ endsMissed' = IF req[r].pc = "ended_read"
                     THEN endsMissed \cup {req[r].row.ext} ELSE endsMissed
    /\ UNCHANGED <<stripe, log>>

Background ==
    /\ Worker \/ WorkerFail \/ Tick
    /\ UNCHANGED stripeVars

StripeNext ==
    \/ StripeStep
    \/ \E r \in Requests : Deliver(r)
    \/ \E r \in Requests : StripeCancel(r)
    \/ \E r \in Requests : StripeResume(r)
    \/ \E r \in Requests, seats \in SeatCounts : StripeSeats(r, seats)
    \/ \E r \in Requests, plan \in Plans, seats \in SeatCounts :
          StripePlan(r, plan, seats)
    \/ \E r \in Requests : Sync(r)
    \/ \E r \in Requests : Advance(r)
    \/ \E r \in Requests : Abort(r)
    \/ Background

StripeSpec == StripeInit /\ [][StripeNext]_allVars

-----------------------------------------------------------------------------
(* Properties. *)

(* Every event was answered with 200 and no request is under way. *)
Quiet ==
    /\ acked = DOMAIN log
    /\ \A r \in Requests : req[r] = Idle

(* Once Stripe's subscription has ended and everything it sent is handled, *)
(* its row is expired: nobody keeps a plan that nobody pays for.  The      *)
(* exception is a subscription whose end was answered unread.              *)
EndedAtStripeIsExpired ==
    Quiet => \A i \in DOMAIN subs :
                 \/ subs[i].ext \notin StripeIds
                 \/ Live(subs[i].ext)
                 \/ subs[i].ext \in endsMissed
                 \/ subs[i].state = "expired"

(* Stripe is the source of truth for seats: once everything it sent is     *)
(* handled, the row holds the quantity that is paid for.                   *)
SeatsFollowStripe ==
    Quiet /\ ~seatsMissed =>
        \A i \in DOMAIN subs :
            subs[i].ext \in StripeIds
                => subs[i].seats = stripe[subs[i].ext].seats

(* "Stripe is the source of truth and the webhook will catch up": the same *)
(* for the plan.                                                           *)
PlanFollowsStripe ==
    Quiet => \A i \in DOMAIN subs :
                 subs[i].ext \in StripeIds
                     => subs[i].plan = stripe[subs[i].ext].plan

(* When Create returns, its row is the only one that is active, trialing   *)
(* or past due.                                                            *)
CreateLeavesOneLive ==
    [][\A r \in Requests :
          req[r].pc = "create_insert" /\ Len(subs') > Len(subs)
              => LiveIds(subs') = {Len(subs')}]_allVars
=============================================================================

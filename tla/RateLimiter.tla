---------------------------- MODULE RateLimiter ----------------------------
(***************************************************************************)
(* The token bucket of one address (handler/http/ratelimit.go).  The map   *)
(* of visitors and each visitor have their own locks: a request looks its  *)
(* visitor up under the first and takes a token under the second, and the  *)
(* cleanup may drop the visitor from the map in between.                   *)
(***************************************************************************)
EXTENDS Integers, Sequences, FiniteSets

CONSTANTS
    RateRequests,  \* concurrent requests
    Rate,          \* time that earns a token
    Burst,         \* tokens of a full bucket
    IdleFor,       \* idle time after which the visitor is dropped
    EndTime        \* bound on the clock

(* core/router.go: every limiter's bucket fills within the idle time. *)
ASSUME RateAssumption ==
    /\ IsFiniteSet(RateRequests)
    /\ {Rate, Burst} \subseteq Nat \ {0}
    /\ IdleFor \in Nat /\ IdleFor >= Rate * Burst
    /\ EndTime \in Nat

VARIABLES
    visitors,  \* every visitor made for the address, in order
    visitor,   \* the one in the map; 0: none
    holding,   \* request |-> the visitor it looked up; 0: none
    now,       \* the clock
    admitted,  \* history: requests let through
    strays     \* history: requests that held a visitor as it was dropped

rateVars == <<visitors, visitor, holding, now, admitted, strays>>

RateTypeOK ==
    /\ visitors \in Seq([lastSeen: Nat, tokens: 0..Burst])
    /\ visitor \in 0..Len(visitors)
    /\ holding \in [RateRequests -> 0..Len(visitors)]
    /\ now \in 0..EndTime
    /\ {admitted, strays} \subseteq Nat

RateInit ==
    /\ visitors = <<>>
    /\ visitor = 0
    /\ holding = [q \in RateRequests |-> 0]
    /\ now = 0
    /\ admitted = 0
    /\ strays = 0

-----------------------------------------------------------------------------
FindVisitor(q) ==
    /\ holding[q] = 0
    /\ IF visitor = 0
       THEN /\ visitors' = Append(visitors, [lastSeen |-> now, tokens |-> Burst])
            /\ visitor' = Len(visitors')
       ELSE UNCHANGED <<visitors, visitor>>
    /\ holding' = [holding EXCEPT ![q] = visitor']
    /\ UNCHANGED <<now, admitted, strays>>

(* Mutant: the tokens are not capped. *)
RefillUncapped(v) ==
    LET earned == (now - v.lastSeen) \div Rate
    IN IF earned = 0 THEN v ELSE [lastSeen |-> now, tokens |-> v.tokens + earned]

(* lastSeen moves only with a token: the rest of the time is lost then. *)
Refill(v) ==
    LET earned == (now - v.lastSeen) \div Rate
        full == v.tokens + earned > Burst
    IN IF earned = 0 THEN v
       ELSE [lastSeen |-> now, tokens |-> IF full THEN Burst ELSE v.tokens + earned]

(* Allow, from the visitor's lock on: a token is taken, or there is none. *)
TakeToken(q) ==
    /\ holding[q] # 0
    /\ LET v == Refill(visitors[holding[q]])
       IN IF v.tokens > 0
          THEN /\ visitors' = [visitors EXCEPT ![holding[q]] = [v EXCEPT !.tokens = @ - 1]]
               /\ admitted' = admitted + 1
          ELSE /\ visitors' = [visitors EXCEPT ![holding[q]] = v]
               /\ UNCHANGED admitted
    /\ holding' = [holding EXCEPT ![q] = 0]
    /\ UNCHANGED <<visitor, now, strays>>

CleanupVisitors ==
    /\ visitor # 0
    /\ now - visitors[visitor].lastSeen > IdleFor
    /\ strays' = strays + Cardinality({q \in RateRequests : holding[q] = visitor})
    /\ visitor' = 0
    /\ UNCHANGED <<visitors, holding, now, admitted>>

RateTimePasses ==
    /\ now < EndTime
    /\ now' = now + 1
    /\ UNCHANGED <<visitors, visitor, holding, admitted, strays>>

RateNext ==
    \/ \E q \in RateRequests : FindVisitor(q) \/ TakeToken(q)
    \/ CleanupVisitors
    \/ RateTimePasses

RateSpec == RateInit /\ [][RateNext]_rateVars

-----------------------------------------------------------------------------
(* From any start on, no more requests of an address are let through than  *)
(* a full bucket and the tokens the time since then has earned.            *)
(* Dropping an idle visitor costs nothing, its bucket is full by then, but *)
(* for the requests that still hold it.                                    *)
AdmittedIsBounded ==
    visitors # <<>> => admitted <= Burst + now \div Rate + strays
=============================================================================

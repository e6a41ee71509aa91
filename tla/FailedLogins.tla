--------------------------- MODULE FailedLogins ---------------------------
(***************************************************************************)
(* The count of failed sign-ins from one address against one organization  *)
(* (service/policy_failed_login.go), as sign-in uses it: it asks whether   *)
(* the address is blocked, compares the password, then reports the result. *)
(* The tracker's lock covers each of its calls, not the sign-in.  Each     *)
(* call reads the policy first; without one, because it is off or because  *)
(* the read fails, nobody is blocked and no failure is counted.            *)
(***************************************************************************)
EXTENDS Integers, FiniteSets

CONSTANTS
    LoginRequests,  \* concurrent sign-ins
    MaxAttempts,    \* the policy: failures that block,
    Window,         \*   the time they are counted over,
    BlockFor,       \*   the time the block lasts
    KeepFor,        \* age at which the cleanup forgets an entry
    LastTime,       \* bound on the clock
    MaxUnread       \* bound on the sign-ins let through a block nobody read

ASSUME FailedLoginsAssumption ==
    /\ IsFiniteSet(LoginRequests)
    /\ MaxAttempts \in Nat \ {0}
    /\ {Window, BlockFor, KeepFor, LastTime, MaxUnread} \subseteq Nat

VARIABLES
    entry,      \* the tracker's entry, or NoEntry
    clock,
    attempting, \* the sign-ins that were let through to the password
    unread      \* history: how many came through a block, the policy unread

loginVars == <<entry, clock, attempting, unread>>

NoEntry == [attempts |-> 0]

NotBlocked == -1

Entry == [attempts: Nat \ {0}, firstFail: Nat, blockedAt: Nat \cup {NotBlocked}]

FailedLoginsTypeOK ==
    /\ entry \in Entry \cup {NoEntry}
    /\ clock \in 0..LastTime
    /\ attempting \subseteq LoginRequests
    /\ unread \in 0..MaxUnread

FailedLoginsInit ==
    /\ entry = NoEntry
    /\ clock = 0
    /\ attempting = {}
    /\ unread = 0

-----------------------------------------------------------------------------
(* configured: the policy is on and was read. *)
IsBlocked(configured) ==
    /\ configured
    /\ entry # NoEntry
    /\ entry.blockedAt # NotBlocked
    /\ clock - entry.blockedAt <= BlockFor

(* The entry one failure is counted in: a new one, or one that starts over *)
(* because the window has passed.                                          *)
CountedIn ==
    IF entry = NoEntry \/ clock - entry.firstFail > Window
    THEN [attempts |-> 0, firstFail |-> clock, blockedAt |-> NotBlocked]
    ELSE entry

(* Mutant: one failure too many before the block. *)
BlocksLate(attempts) == attempts > MaxAttempts

Blocks(attempts) == attempts >= MaxAttempts

RecordFailedAttempt ==
    LET old == CountedIn
        n == old.attempts + 1
    IN entry' = [attempts |-> n, firstFail |-> old.firstFail,
                 blockedAt |-> IF Blocks(n) /\ old.blockedAt = NotBlocked
                               THEN clock
                               ELSE old.blockedAt]

BeginLogin(r) ==
    /\ r \notin attempting
    /\ \E configured \in BOOLEAN : ~IsBlocked(configured)
    /\ unread' = IF IsBlocked(TRUE) THEN unread + 1 ELSE unread
    /\ unread' <= MaxUnread
    /\ attempting' = attempting \cup {r}
    /\ UNCHANGED <<entry, clock>>

(* Without the policy the failure is not counted. *)
FailLogin(r) ==
    /\ r \in attempting
    /\ RecordFailedAttempt \/ UNCHANGED entry
    /\ attempting' = attempting \ {r}
    /\ UNCHANGED <<clock, unread>>

(* The right password: the entry goes, whoever else is counted in it. *)
RecordSuccess(r) ==
    /\ r \in attempting
    /\ entry' = NoEntry
    /\ attempting' = attempting \ {r}
    /\ UNCHANGED <<clock, unread>>

(* The goroutine that keeps the map small. *)
ForgetOldEntry ==
    /\ entry # NoEntry
    /\ LET age == IF entry.blockedAt # NotBlocked THEN entry.blockedAt ELSE entry.firstFail
       IN clock - age > KeepFor
    /\ entry' = NoEntry
    /\ UNCHANGED <<clock, attempting, unread>>

TimePasses ==
    /\ clock < LastTime
    /\ clock' = clock + 1
    /\ UNCHANGED <<entry, attempting, unread>>

FailedLoginsNext ==
    \/ \E r \in LoginRequests : BeginLogin(r) \/ FailLogin(r) \/ RecordSuccess(r)
    \/ ForgetOldEntry
    \/ TimePasses

FailedLoginsSpec == FailedLoginsInit /\ [][FailedLoginsNext]_loginVars

-----------------------------------------------------------------------------
(* Sign-ins that overlap are let through together, and yet within one      *)
(* window at most the policy's number of failures, and one more for every  *)
(* other sign-in under way, is counted, and one for each that came through *)
(* a block because the policy was off or unreadable (policy_failed_login.  *)
(* go:79), if the block outlasts the window: one that ends earlier is not  *)
(* renewed by the next failures of the same window (RecordFailedAttempt).  *)
FailuresAreBounded ==
    BlockFor >= Window =>
        entry.attempts <= MaxAttempts + Cardinality(LoginRequests) - 1 + unread

(* What makes it inductive: an entry that is not blocked is below the      *)
(* limit, and one that is leaves room for the sign-ins it did not stop, if *)
(* the block outlasts the window.                                          *)
FailuresLeaveRoom ==
    entry # NoEntry =>
        /\ entry.firstFail <= clock
        /\ IF entry.blockedAt = NotBlocked
           THEN entry.attempts < MaxAttempts
           ELSE /\ entry.firstFail <= entry.blockedAt
                /\ entry.blockedAt <= clock
                /\ BlockFor >= Window /\ clock - entry.firstFail <= Window =>
                      entry.attempts + Cardinality(attempting)
                          < MaxAttempts + Cardinality(LoginRequests) + unread
=============================================================================

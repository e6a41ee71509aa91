------------------------------- MODULE Sends -------------------------------
(***************************************************************************)
(* A send: a text shared by link, with a limit on how often it is read, an *)
(* expiration and a deletion date (service/send_service.go,                *)
(* cleanup/send_cleanup.go).                                               *)
(*                                                                         *)
(* A reader's request reads the row, checks it, and counts the access in a *)
(* statement of its own, whose failure is only logged.  The owner's update *)
(* saves the whole row, the count included.                                *)
(***************************************************************************)
EXTENDS Integers, FiniteSets

CONSTANTS
    SendRequests,  \* concurrent requests
    AccessLimits,  \* limits the owner asks for; 0 stands for none
    MaxCount,      \* bound on the accesses
    LastDay        \* bound on the clock

(* The dates a send starts with, 1 and 2, are days of the model. *)
ASSUME SendsAssumption ==
    /\ IsFiniteSet(SendRequests)
    /\ AccessLimits \subseteq Nat
    /\ MaxCount \in Nat
    /\ LastDay \in Nat \ {0}

VARIABLES
    send,       \* the row, or NoSend
    today,      \* the clock
    sendCalls,  \* request |-> what it is about to do
    views,      \* history: how often the text was handed out
    sendGone,   \* history: the owner deleted it
    steady,     \* history: every access counted, no count or limit undone
    sendCalm    \* history: no requests overlapped

sendVars == <<send, today, sendCalls, views, sendGone, steady, sendCalm>>

(* Later stands for a date the model's clock does not reach. *)
Later == LastDay + 1
Days == 0..Later

Send == [limit: AccessLimits, count: 0..MaxCount, expires: Days, deletes: Days,
         locked: BOOLEAN, disabled: BOOLEAN, deleted: BOOLEAN]

NoSend == [none |-> TRUE]

SendIdle == [op |-> "none"]

SendCall == {SendIdle} \cup [op: {"serve", "delete"}] \cup [op: {"save"}, row: Send]

SendsTypeOK ==
    /\ send \in Send \cup {NoSend}
    /\ today \in 0..LastDay
    /\ sendCalls \in [SendRequests -> SendCall]
    /\ views \in 0..MaxCount
    /\ {sendGone, steady, sendCalm} \subseteq BOOLEAN

SendsInit ==
    /\ send \in [limit: AccessLimits, count: {0}, expires: {1, Later}, deletes: {2},
                 locked: {FALSE}, disabled: {FALSE}, deleted: {FALSE}]
    /\ today = 0
    /\ sendCalls = [r \in SendRequests |-> SendIdle]
    /\ views = 0
    /\ sendGone = FALSE
    /\ steady = TRUE
    /\ sendCalm = TRUE

-----------------------------------------------------------------------------
IsExpired(row) == row.expires < today

(* Mutant: the limit is passed by one. *)
PassesLimit(row) == row.limit > 0 /\ row.count > row.limit

IsAccessLimitReached(row) == row.limit > 0 /\ row.count >= row.limit

IsDue == send # NoSend /\ ~send.deleted /\ send.deletes <= today

Found == send # NoSend /\ ~send.deleted

WillDo(r, call) ==
    /\ sendCalls[r] = SendIdle
    /\ sendCalls' = [sendCalls EXCEPT ![r] = call]
    /\ sendCalm' = (sendCalm /\ \A q \in SendRequests : sendCalls[q] = SendIdle)
    /\ UNCHANGED <<send, today, views, sendGone, steady>>

Readable == Found /\ ~send.disabled /\ ~IsExpired(send) /\ ~IsAccessLimitReached(send)

(* Reading by the link hands out the text unless a password locks it. *)
GetByAccessID(r) == Readable /\ ~send.locked /\ WillDo(r, [op |-> "serve"])

(* The right password hands it out, and any password that of a send without one. *)
VerifySendPassword(r) == Readable /\ WillDo(r, [op |-> "serve"])

IncrementAccessCount ==
    send' = IF send = NoSend THEN send ELSE [send EXCEPT !.count = @ + 1]

ServeSend(r) ==
    /\ sendCalls[r].op = "serve"
    /\ views < MaxCount
    /\ views' = views + 1
    /\ \/ IncrementAccessCount /\ UNCHANGED steady
       \/ UNCHANGED send /\ steady' = FALSE
    /\ sendCalls' = [sendCalls EXCEPT ![r] = SendIdle]
    /\ UNCHANGED <<today, sendGone, sendCalm>>

-----------------------------------------------------------------------------
(* The owner changes what he asks to change of the row read. *)
UpdateSend(r) ==
    /\ Found
    /\ \E row \in {[send EXCEPT !.limit = l] : l \in AccessLimits \ {0}}
             \cup {[send EXCEPT !.deletes = Later]}
             \cup {[send EXCEPT !.expires = Later]}
             \cup {[send EXCEPT !.disabled = ~@], [send EXCEPT !.locked = ~@]} :
          WillDo(r, [op |-> "save", row |-> row])

DeleteSend(r) == Found /\ WillDo(r, [op |-> "delete"])

(* A save writes the count it read, and a row that was deleted again. *)
SaveSend(r) ==
    /\ sendCalls[r].op = "save"
    /\ LET row == sendCalls[r].row
       IN  /\ send' = row
           /\ steady' = (steady /\ send # NoSend /\ row.count = send.count
                         /\ (row.limit = 0 \/ row.limit >= views))
    /\ sendCalls' = [sendCalls EXCEPT ![r] = SendIdle]
    /\ UNCHANGED <<today, views, sendGone, sendCalm>>

(* Mutant: a deletion that only disables the send. *)
DisableSend(r) ==
    /\ sendCalls[r].op = "delete"
    /\ send' = IF send = NoSend THEN send ELSE [send EXCEPT !.disabled = TRUE]
    /\ sendGone' = TRUE
    /\ sendCalls' = [sendCalls EXCEPT ![r] = SendIdle]
    /\ UNCHANGED <<today, views, steady, sendCalm>>

SoftDeleteSend(r) ==
    /\ sendCalls[r].op = "delete"
    /\ send' = IF send = NoSend THEN send ELSE [send EXCEPT !.deleted = TRUE]
    /\ sendGone' = TRUE
    /\ sendCalls' = [sendCalls EXCEPT ![r] = SendIdle]
    /\ UNCHANGED <<today, views, steady, sendCalm>>

(* A write that fails ends its request. *)
FailSend(r) ==
    /\ sendCalls[r].op \in {"save", "delete"}
    /\ sendCalls' = [sendCalls EXCEPT ![r] = SendIdle]
    /\ UNCHANGED <<send, today, views, sendGone, steady, sendCalm>>

-----------------------------------------------------------------------------
(* Mutant: the cleanup goes by the expiration. *)
DeleteByExpiration ==
    /\ Found
    /\ IsExpired(send)
    /\ send' = NoSend
    /\ UNCHANGED <<today, sendCalls, views, sendGone, steady, sendCalm>>

(* The cleanup runs at every tick of its interval: it deletes what is due  *)
(* for good.                                                               *)
DeleteExpired ==
    /\ IsDue
    /\ send' = NoSend
    /\ UNCHANGED <<today, sendCalls, views, sendGone, steady, sendCalm>>

DayPasses ==
    /\ today < LastDay
    /\ today' = today + 1
    /\ UNCHANGED <<send, sendCalls, views, sendGone, steady, sendCalm>>

SendRead(r) == GetByAccessID(r) \/ VerifySendPassword(r)

SendChange(r) == UpdateSend(r) \/ DeleteSend(r)

SendWrite(r) == ServeSend(r) \/ SaveSend(r) \/ SoftDeleteSend(r) \/ FailSend(r)

SendsNext ==
    \/ \E r \in SendRequests : SendRead(r) \/ SendChange(r) \/ SendWrite(r)
    \/ DeleteExpired
    \/ DayPasses

(* The cleanup goes on for as long as the server runs. *)
SendsFairness == WF_sendVars(DeleteExpired)

SendsSpec == SendsInit /\ [][SendsNext]_sendVars /\ SendsFairness

-----------------------------------------------------------------------------
(* The text is handed out at most as often as the limit allows; requests   *)
(* that overlap exceed it by no more than the other requests there can be  *)
(* at once, as long as every access is counted and no update takes a count *)
(* or the limit back (send_service.go:161, :187).                          *)
ViewsWithinLimit ==
    steady /\ send # NoSend /\ send.limit > 0 =>
        views <= send.limit + IF sendCalm THEN 0 ELSE Cardinality(SendRequests) - 1

(* A send whose deletion date has passed is eventually deleted, or its     *)
(* date is put off (send_cleanup.go:64).                                   *)
DueIsDeleted == IsDue ~> ~IsDue

(* While requests come one by one, a send its owner deleted stays deleted. *)
SendStaysDeleted == sendCalm /\ sendGone => ~Found
=============================================================================

--------------------------- MODULE BreachMonitor ---------------------------
(***************************************************************************)
(* The addresses an organization has monitored for breaches, and the       *)
(* breaches found (service/breach_monitor_service.go, and                  *)
(* cleanup/breach_monitor_worker.go, which checks every address).          *)
(*                                                                         *)
(* A check asks for the breaches of each address in turn, writes those     *)
(* that are not yet recorded one by one, and saves the address's row as it *)
(* was listed, with the new count.  The rows of the breaches refer to the  *)
(* row of the address, so that the database refuses to delete it then: the *)
(* cascade in the column's tag is not one the migration applies.           *)
(***************************************************************************)
EXTENDS Integers, Sequences, FiniteSets, SequencesExt

CONSTANTS
    MonitorRequests,  \* concurrent requests, and runs of the worker
    Emails,           \* addresses
    Breaches,         \* breaches there are
    MaxEmails,        \* bounds on the rows
    MaxRecords

ASSUME MonitorAssumption == MaxEmails \in Nat /\ MaxRecords \in Nat

VARIABLES
    monitored,     \* the rows of addresses, in the order of their ids
    breachRecords, \* the rows of breaches
    exposed,       \* address |-> the breaches the service reports
    monitorCalls,  \* request |-> what it is about to do
    removedEmails, \* history: the rows that were deleted
    monitorCalm    \* history: no requests overlapped

monitorVars == <<monitored, breachRecords, exposed, monitorCalls, removedEmails,
                 monitorCalm>>

MonitoredEmail == [live: BOOLEAN, address: Emails, count: Nat]
BreachRecord == [email: Nat, breach: Breaches, dismissed: BOOLEAN]

MonitorIdle == [op |-> "none"]

(* todo: the rows still to check, the newest of them now; left: the        *)
(* breaches reported and not yet handled; found: how many were reported.   *)
MonitorCall ==
    {MonitorIdle}
    \cup [op: {"add"}, address: Emails]
    \cup [op: {"remove", "dismiss"}, id: Nat]
    \cup [op: {"ask"}, todo: SUBSET Nat]
    \cup [op: {"record"}, todo: SUBSET Nat, left: SUBSET Breaches, found: Nat,
          new: BOOLEAN]

MonitorTypeOK ==
    /\ monitored \in Seq(MonitoredEmail)
    /\ breachRecords \in Seq(BreachRecord)
    /\ exposed \in [Emails -> SUBSET Breaches]
    /\ monitorCalls \in [MonitorRequests -> MonitorCall]
    /\ removedEmails \subseteq 1..Len(monitored)
    /\ monitorCalm \in BOOLEAN

MonitorInit ==
    /\ monitored = <<>>
    /\ breachRecords = <<>>
    /\ exposed = [a \in Emails |-> {}]
    /\ monitorCalls = [r \in MonitorRequests |-> MonitorIdle]
    /\ removedEmails = {}
    /\ monitorCalm = TRUE

-----------------------------------------------------------------------------
LiveEmails == {i \in 1..Len(monitored) : monitored[i].live}

RecordsOf(id) == {b \in ToSet(breachRecords) : b.email = id}

WillMonitor(r, call) ==
    /\ monitorCalls[r] = MonitorIdle
    /\ monitorCalls' = [monitorCalls EXCEPT ![r] = call]
    /\ monitorCalm' = (monitorCalm /\ \A q \in MonitorRequests : monitorCalls[q] = MonitorIdle)

ThenMonitor(r, call) ==
    /\ monitorCalls' = [monitorCalls EXCEPT ![r] = call]
    /\ UNCHANGED monitorCalm

Ask(todo) == IF todo = {} THEN MonitorIdle ELSE [op |-> "ask", todo |-> todo]

(* Mutant: the address is not looked up. *)
AddAgain(r, address) ==
    /\ WillMonitor(r, [op |-> "add", address |-> address])
    /\ UNCHANGED <<monitored, breachRecords, exposed, removedEmails>>

AddEmail(r, address) ==
    /\ \A i \in LiveEmails : monitored[i].address # address
    /\ WillMonitor(r, [op |-> "add", address |-> address])
    /\ UNCHANGED <<monitored, breachRecords, exposed, removedEmails>>

CreateEmail(r) ==
    /\ monitorCalls[r].op = "add"
    /\ Len(monitored) < MaxEmails
    /\ monitored' = Append(monitored, [live |-> TRUE, address |-> monitorCalls[r].address,
                                       count |-> 0])
    /\ ThenMonitor(r, Ask({Len(monitored) + 1}))
    /\ UNCHANGED <<breachRecords, exposed, removedEmails>>

(* CheckEmails, and the worker's check: the newest row first.              *)
CheckEmails(r) ==
    /\ LiveEmails # {}
    /\ WillMonitor(r, Ask(LiveEmails))
    /\ UNCHANGED <<monitored, breachRecords, exposed, removedEmails>>

Newest(ids) == CHOOSE id \in ids : \A other \in ids : other <= id

Rest(ids) == ids \ {Newest(ids)}

(* The breach service answers, or fails and the row is skipped. *)
CheckBreachedAccount(r) ==
    /\ monitorCalls[r].op = "ask"
    /\ LET todo == monitorCalls[r].todo
           reported == exposed[monitored[Newest(todo)].address]
       IN \/ ThenMonitor(r, [op |-> "record", todo |-> todo, left |-> reported,
                             found |-> Cardinality(reported), new |-> FALSE])
          \/ ThenMonitor(r, Ask(Rest(todo)))
    /\ UNCHANGED <<monitored, breachRecords, exposed, removedEmails>>

(* BreachExistsForEmail for the next of the breaches: one that is recorded *)
(* is passed over, and so is one that cannot be looked up.                 *)
NextBreach(call) == CHOOSE b \in call.left : TRUE

BreachExistsForEmail(r) ==
    /\ monitorCalls[r].op = "record"
    /\ ~monitorCalls[r].new
    /\ monitorCalls[r].left # {}
    /\ LET call == monitorCalls[r]
           b == NextBreach(call)
       IN \/ ThenMonitor(r, [call EXCEPT !.left = @ \ {b}])
          \/ /\ \A x \in RecordsOf(Newest(call.todo)) : x.breach # b
             /\ ThenMonitor(r, [call EXCEPT !.new = TRUE])
    /\ UNCHANGED <<monitored, breachRecords, exposed, removedEmails>>

(* The database refuses a breach of an address that is gone; after that,   *)
(* or any other error, the check goes on with the next.                    *)
CreateBreachRecord(r) ==
    /\ monitorCalls[r].op = "record"
    /\ monitorCalls[r].new
    /\ LET call == monitorCalls[r]
           id == Newest(call.todo)
           b == NextBreach(call)
       IN /\ \/ /\ monitored[id].live
                /\ Len(breachRecords) < MaxRecords
                /\ breachRecords' = Append(breachRecords, [email |-> id, breach |-> b,
                                                           dismissed |-> FALSE])
             \/ UNCHANGED breachRecords
          /\ ThenMonitor(r, [call EXCEPT !.left = @ \ {b}, !.new = FALSE])
    /\ UNCHANGED <<monitored, exposed, removedEmails>>

(* Save writes the row as it was listed: one deleted since comes back.  An *)
(* error is only logged.                                                   *)
UpdateEmail(r) ==
    /\ monitorCalls[r].op = "record"
    /\ monitorCalls[r].left = {}
    /\ LET call == monitorCalls[r]
       IN /\ \/ monitored' = [monitored EXCEPT ![Newest(call.todo)].live = TRUE,
                                               ![Newest(call.todo)].count = call.found]
             \/ UNCHANGED monitored
          /\ ThenMonitor(r, Ask(Rest(call.todo)))
    /\ UNCHANGED <<breachRecords, exposed, removedEmails>>

RemoveEmail(r, id) ==
    /\ id \in LiveEmails
    /\ WillMonitor(r, [op |-> "remove", id |-> id])
    /\ UNCHANGED <<monitored, breachRecords, exposed, removedEmails>>

DeleteEmail(r) ==
    /\ monitorCalls[r].op = "remove"
    /\ LET id == monitorCalls[r].id
       IN IF RecordsOf(id) = {}
          THEN /\ monitored' = [monitored EXCEPT ![id].live = FALSE]
               /\ removedEmails' = removedEmails \cup {id}
          ELSE UNCHANGED <<monitored, removedEmails>>
    /\ ThenMonitor(r, MonitorIdle)
    /\ UNCHANGED <<breachRecords, exposed>>

DismissBreach(r, id) ==
    /\ ~breachRecords[id].dismissed
    /\ WillMonitor(r, [op |-> "dismiss", id |-> id])
    /\ UNCHANGED <<monitored, breachRecords, exposed, removedEmails>>

UpdateBreachRecord(r) ==
    /\ monitorCalls[r].op = "dismiss"
    /\ breachRecords' = [breachRecords EXCEPT ![monitorCalls[r].id].dismissed = TRUE]
    /\ ThenMonitor(r, MonitorIdle)
    /\ UNCHANGED <<monitored, exposed, removedEmails>>

(* The service learns of a breach of an address. *)
Breach(address, b) ==
    /\ b \notin exposed[address]
    /\ exposed' = [exposed EXCEPT ![address] = @ \cup {b}]
    /\ UNCHANGED <<monitored, breachRecords, monitorCalls, removedEmails, monitorCalm>>

CheckSingleEmail(r) ==
    CheckBreachedAccount(r) \/ BreachExistsForEmail(r) \/ CreateBreachRecord(r) \/ UpdateEmail(r)

MonitorRequest(r) ==
    \/ \E a \in Emails : AddEmail(r, a)
    \/ \E id \in 1..Len(monitored) : RemoveEmail(r, id)
    \/ CheckEmails(r)
    \/ \E id \in 1..Len(breachRecords) : DismissBreach(r, id)

MonitorNext ==
    \/ \E r \in MonitorRequests :
          \/ MonitorRequest(r)
          \/ CreateEmail(r) \/ CheckSingleEmail(r)
          \/ DeleteEmail(r) \/ UpdateBreachRecord(r)
    \/ \E a \in Emails, b \in Breaches : Breach(a, b)

MonitorSpec == MonitorInit /\ [][MonitorNext]_monitorVars

-----------------------------------------------------------------------------
(* While requests, and the worker's runs, do not overlap, an address is    *)
(* monitored once and a breach of it is recorded once, however often it is *)
(* checked, and whatever was removed and added again in between.           *)
OneRecordEach ==
    monitorCalm =>
        /\ \A i, j \in LiveEmails : monitored[i].address = monitored[j].address => i = j
        /\ \A i, j \in 1..Len(breachRecords) :
              /\ breachRecords[i].email = breachRecords[j].email
              /\ breachRecords[i].breach = breachRecords[j].breach
              => i = j

(* An address that was removed does not come back by itself while requests *)
(* do not overlap: a check saves the rows it has listed.                   *)
EmailStaysRemoved ==
    monitorCalm => \A i \in removedEmails : ~monitored[i].live
=============================================================================

----------------------------- MODULE Telemetry -----------------------------
(***************************************************************************)
(* Events the browser extension reports of web sites, and the verdicts a   *)
(* language model gives on groups of them (service/compat_telemetry.go,    *)
(* ai_telemetry_analysis.go).  An event repeated within the window is      *)
(* dropped; a group with a verdict is not asked about again.               *)
(*                                                                         *)
(* The prompt shows a missing error code as "(none)", and an answer that   *)
(* says so too is stored under that word.  No event is: its code is empty  *)
(* or in capitals.  Nothing finds such a verdict, and it is left out.      *)
(***************************************************************************)
EXTENDS Integers, FiniteSets, Sequences, FiniteSetsExt, SequencesExt

CONSTANTS
    TelemetryRequests,  \* concurrent requests
    Places,             \* site, page, error, flow and surface
    Codeless,           \* the places without an error code
    Kinds,              \* event name and success; the key's other part
    UnlistedKind,       \* the kind of an answer about a place not asked for
    SampledOut,         \* keys of successes the sample leaves out
    MaxEvents           \* bound on the rows

ASSUME TelemetryAssumption ==
    /\ UnlistedKind \in Kinds
    /\ Codeless \subseteq Places
    /\ SampledOut \subseteq Codeless \X Kinds
    /\ MaxEvents \in Nat

VARIABLES
    events,          \* key |-> its rows inside the window, and older ones
    verdicts,        \* keys with a verdict
    telemetryCalls,  \* request |-> what it is about to do
    answered,        \* history: keys the model answered on by the place they have
    telemetryCalm    \* history: no overlap, no failed read, no twins

telemetryVars == <<events, verdicts, telemetryCalls, answered, telemetryCalm>>

Keys == Places \X Kinds

TelemetryIdle == [op |-> "none"]

TelemetryCall ==
    {TelemetryIdle}
    \cup [op: {"insert", "ask"}, keys: SUBSET Keys]
    \cup [op: {"upsert"}, keys: SUBSET Keys, results: SUBSET Keys, refused: BOOLEAN]

TelemetryTypeOK ==
    /\ events \in [Keys -> [fresh: Nat, old: Nat]]
    /\ verdicts \subseteq Keys
    /\ telemetryCalls \in [TelemetryRequests -> TelemetryCall]
    /\ answered \subseteq Keys
    /\ telemetryCalm \in BOOLEAN

TelemetryInit ==
    /\ events = [k \in Keys |-> [fresh |-> 0, old |-> 0]]
    /\ verdicts = {}
    /\ telemetryCalls = [r \in TelemetryRequests |-> TelemetryIdle]
    /\ answered = {}
    /\ telemetryCalm = TRUE

-----------------------------------------------------------------------------
NobodyReports == \A r \in TelemetryRequests : telemetryCalls[r] = TelemetryIdle

Proceed(r, call) == telemetryCalls' = [telemetryCalls EXCEPT ![r] = call]

(* The keys stored within the window; when they cannot be read, none. *)
ListExistingKeys == {k \in Keys : events[k].fresh > 0}

RowCount == MapThenSumSet(LAMBDA k : events[k].fresh + events[k].old, Keys)

(* The extension spells one site, page or code in several ways. *)
Report == [key: Keys, spelling: {"normal", "odd"}]

(* Letters' case, blanks, numbers in paths and what is too long are         *)
(* dropped; a batch with an event that cannot be read is refused as a whole. *)
NormalizeCompatPayload(report) == report.key

KeptKeys(batch) == {NormalizeCompatPayload(report) : report \in ToSet(batch)} \ SampledOut

(* Mutant: the events of one batch are not compared with each other, nor   *)
(* with what is stored.                                                    *)
IngestAll(r, batch) ==
    /\ telemetryCalls[r] = TelemetryIdle
    /\ RowCount + Len(batch) <= MaxEvents
    /\ events' = [k \in Keys |-> [events[k] EXCEPT
                    !.fresh = @ + Cardinality({i \in DOMAIN batch : batch[i].key = k})]]
    /\ UNCHANGED <<verdicts, telemetryCalls, answered, telemetryCalm>>

(* One event per key, without those stored and those left out of the       *)
(* sample.                                                                 *)
IngestBatch(r, batch) ==
    /\ telemetryCalls[r] = TelemetryIdle
    /\ \E existing \in {ListExistingKeys, {}} :
          /\ KeptKeys(batch) \ existing # {}
          /\ Proceed(r, [op |-> "insert", keys |-> KeptKeys(batch) \ existing])
          /\ telemetryCalm' = (telemetryCalm /\ NobodyReports /\ existing = ListExistingKeys)
    /\ UNCHANGED <<events, verdicts, answered>>

CreateEvents(r) ==
    /\ telemetryCalls[r].op = "insert"
    /\ LET keys == telemetryCalls[r].keys
       IN  /\ RowCount + Cardinality(keys) <= MaxEvents
           /\ events' = [k \in Keys |-> IF k \in keys THEN [events[k] EXCEPT !.fresh = @ + 1]
                                       ELSE events[k]]
    /\ Proceed(r, TelemetryIdle)
    /\ UNCHANGED <<verdicts, answered, telemetryCalm>>

(* The window, or the time events are kept, passes. *)
WindowPasses ==
    /\ ListExistingKeys # {}
    /\ events' = [k \in Keys |-> [fresh |-> 0, old |-> events[k].fresh + events[k].old]]
    /\ UNCHANGED <<verdicts, telemetryCalls, answered, telemetryCalm>>

DeleteOldEvents ==
    /\ \E k \in Keys : events[k].old > 0
    /\ events' = [k \in Keys |-> [events[k] EXCEPT !.old = 0]]
    /\ UNCHANGED <<verdicts, telemetryCalls, answered, telemetryCalm>>

-----------------------------------------------------------------------------
ListSummary == {k \in Keys : events[k].fresh + events[k].old > 0}

(* The groups asked for that have no verdict are put to the model; when    *)
(* the verdicts cannot be read, all of them are.                           *)
AnalyzeEvents(r) ==
    /\ telemetryCalls[r] = TelemetryIdle
    /\ \E groups \in SUBSET ListSummary, known \in {verdicts, {}} :
          /\ groups \ known # {}
          /\ Proceed(r, [op |-> "ask", keys |-> groups \ known])
          /\ telemetryCalm' = (telemetryCalm /\ NobodyReports)
    /\ UNCHANGED <<events, verdicts, answered>>

(* Mutant: the kind is not looked up. *)
KindUnlisted(keys, place, last) == UnlistedKind

(* An answer names a place, not a kind: it is taken to be about the last   *)
(* group of that place, and about UnlistedKind when there is none.         *)
KindOf(keys, place, last) ==
    IF \E k \in keys : k[1] = place THEN last[place] ELSE UnlistedKind

SamePlace(a, b) == a # b /\ a[1] = b[1]

(* What will be stored of an answer on groups named by their place, on     *)
(* groups it names by the prompt's word for a missing code, and on places  *)
(* it was not asked about.  Two results about one key will be refused.     *)
Results(keys, last, named, echoed, invented, twice) ==
    [op |-> "upsert",
     results |-> named,
     keys |-> {<<p, KindOf(keys, p, last)>> : p \in {k[1] : k \in named} \cup invented},
     refused |-> \/ twice
                 \/ \E a, b \in named : SamePlace(a, b)
                 \/ \E a, b \in echoed : SamePlace(a, b)]

(* The model answers on some of the groups, on one of them perhaps twice;  *)
(* what it says may also be no answer at all (FailAsked).                  *)
CallModel(r) ==
    /\ telemetryCalls[r].op = "ask"
    /\ LET keys == telemetryCalls[r].keys
           asked == {k[1] : k \in keys}
       IN  \E named \in SUBSET keys, echoed \in SUBSET {k \in keys : k[1] \in Codeless},
              invented \in SUBSET (Places \ asked), last \in [Places -> Kinds], twice \in BOOLEAN :
           /\ named \cap echoed = {}
           /\ \A p \in asked : <<p, last[p]>> \in keys
           /\ \A p \in Places \ asked : last[p] = UnlistedKind
           /\ Proceed(r, Results(keys, last, named, echoed, invented, twice))
           /\ telemetryCalm' = (telemetryCalm /\ ~twice /\ ~\E a, b \in keys : SamePlace(a, b))
    /\ UNCHANGED <<events, verdicts, answered>>

(* All verdicts in one statement, which the database refuses when two are  *)
(* about one key; the answer is given all the same.                        *)
UpsertVerdicts(r) ==
    /\ telemetryCalls[r].op = "upsert"
    /\ LET w == telemetryCalls[r]
       IN  /\ verdicts' = IF w.refused THEN verdicts ELSE verdicts \cup w.keys
           /\ answered' = answered \cup w.results
    /\ Proceed(r, TelemetryIdle)
    /\ UNCHANGED <<events, telemetryCalm>>

ResetVerdicts ==
    /\ verdicts # {}
    /\ verdicts' = {}
    /\ answered' = {}
    /\ telemetryCalm' = (telemetryCalm /\ NobodyReports)
    /\ UNCHANGED <<events, telemetryCalls>>

(* The insert fails, or the model does, or it says nothing that can be     *)
(* read; verdicts that cannot be saved are lost.                           *)
FailTelemetry(r) ==
    /\ telemetryCalls[r] # TelemetryIdle
    /\ Proceed(r, TelemetryIdle)
    /\ UNCHANGED <<events, verdicts, answered, telemetryCalm>>

TelemetryNext ==
    \/ \E r \in TelemetryRequests :
          \/ \E batch \in BoundedSeq(Report, 2) : IngestBatch(r, batch)
          \/ CreateEvents(r)
          \/ AnalyzeEvents(r) \/ CallModel(r) \/ UpsertVerdicts(r)
          \/ FailTelemetry(r)
    \/ WindowPasses \/ DeleteOldEvents \/ ResetVerdicts

TelemetrySpec == TelemetryInit /\ [][TelemetryNext]_telemetryVars

-----------------------------------------------------------------------------
(* While requests come one by one, an event is stored once in the window,  *)
(* however often one batch or several report it (compat_telemetry.go:141). *)
EventStoredOnce == telemetryCalm => \A k \in Keys : events[k].fresh <= 1

(* While requests come one by one, no two groups put to the model share a  *)
(* place and it answers once on each, what it answered on a group by the   *)
(* place the group has is kept, so that this group is not put to it again  *)
(* (telemetry_ai_verdict.go:9).  An answer that repeats the prompt's       *)
(* "(none)" is not by that place, and its group is put to the model again  *)
(* (ai_telemetry_analysis.go:402).                                         *)
AnswersAreKept == telemetryCalm => answered \subseteq verdicts
=============================================================================

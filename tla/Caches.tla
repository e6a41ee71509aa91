------------------------------- MODULE Caches -------------------------------
(***************************************************************************)
(* Two caches in memory: website icons (handler/http/icons.go) and ranges  *)
(* of compromised passwords (pkg/hibp/passwords.go).                       *)
(*                                                                         *)
(* An icon is looked for in memory, among the custom icons an              *)
(* administrator uploaded, on disk and upstream, and cached in memory in a *)
(* step of its own.  A custom icon is one file per extension; an upload    *)
(* removes the files of every extension, writes one, then clears the       *)
(* cache.                                                                  *)
(***************************************************************************)
EXTENDS Integers, Sequences, FiniteSets, SequencesExt

CONSTANTS
    IconRequests,   \* concurrent requests
    Domains,
    Icons,          \* what an administrator uploads
    Extensions,     \* of custom icon files, as a sequence in order of priority
    CacheLimit,     \* icons kept in memory
    MaxOrder,       \* bound on the length of the eviction list
    HashPrefixes,   \* of password hashes
    MaxRanges       \* ranges kept in memory

ASSUME CachesAssumption ==
    /\ Extensions \in Seq(STRING)
    /\ CacheLimit \in Nat \ {0}
    /\ MaxOrder \in Nat
    /\ MaxRanges \in Nat \ {0}

VARIABLES
    cached,     \* domain |-> the icon in memory, with its freshness
    order,      \* the domains in the order they were cached
    custom,     \* domain |-> extension |-> the custom icon's file
    onDisk,     \* domain |-> an upstream icon is on disk: not, fresh or old
    iconCalls,  \* request |-> what it is about to do
    uploaded,   \* history: domain |-> the custom icon it should have
    iconCalm,   \* history: no requests overlapped, no upload failed
    ranges,     \* the prefixes whose range is cached, oldest first
    fetching    \* the prefixes being fetched

cacheVars == <<cached, order, custom, onDisk, iconCalls, uploaded, iconCalm,
               ranges, fetching>>

iconVars == <<cached, order, custom, onDisk, iconCalls, uploaded, iconCalm>>

Upstream == "upstream"  \* an icon from one of the icon services
Missing == "missing"    \* none was found; or, among files, no file

NotCached == [icon |-> "none", fresh |-> FALSE]
InMemory(icon) == [icon |-> icon, fresh |-> TRUE]

Files == [ToSet(Extensions) -> Icons \cup {Missing}]
NoFiles == [e \in ToSet(Extensions) |-> Missing]

IconIdle == [op |-> "none"]

IconCall ==
    {IconIdle}
    \cup [op: {"fetch", "clear"}, domain: Domains]
    \cup [op: {"cache"}, domain: Domains, icon: Icons \cup {Upstream, Missing}]
    \cup [op: {"write"}, domain: Domains, icon: Icons, ext: ToSet(Extensions)]

CachesTypeOK ==
    /\ cached \in [Domains -> [icon: Icons \cup {Upstream, Missing}, fresh: BOOLEAN]
                               \cup {NotCached}]
    /\ order \in Seq(Domains)
    /\ custom \in [Domains -> Files]
    /\ onDisk \in [Domains -> {"no", "fresh", "old"}]
    /\ iconCalls \in [IconRequests -> IconCall]
    /\ uploaded \in [Domains -> Icons \cup {Missing}]
    /\ iconCalm \in BOOLEAN
    /\ ranges \in Seq(HashPrefixes)
    /\ fetching \subseteq HashPrefixes

CachesInit ==
    /\ cached = [d \in Domains |-> NotCached]
    /\ order = <<>>
    /\ custom = [d \in Domains |-> NoFiles]
    /\ onDisk = [d \in Domains |-> "no"]
    /\ iconCalls = [r \in IconRequests |-> IconIdle]
    /\ uploaded = [d \in Domains |-> Missing]
    /\ iconCalm = TRUE
    /\ ranges = <<>>
    /\ fetching = {}

-----------------------------------------------------------------------------
WillHandle(r, call) ==
    /\ iconCalls[r] = IconIdle
    /\ iconCalls' = [iconCalls EXCEPT ![r] = call]
    /\ iconCalm' = (iconCalm /\ \A q \in IconRequests : iconCalls[q] = IconIdle)
    /\ UNCHANGED <<ranges, fetching>>

GoOn(r, call) ==
    /\ iconCalls' = [iconCalls EXCEPT ![r] = call]
    /\ UNCHANGED <<ranges, fetching>>

(* The first extension, in order of priority, there is a file for. *)
LoadCustomIcon(d) ==
    LET there == {i \in DOMAIN Extensions : custom[d][Extensions[i]] # Missing}
    IN IF there = {} THEN Missing ELSE custom[d][Extensions[Min(there)]]

LoadFromDisk(d) == onDisk[d] = "fresh"

(* GetIcon for a domain whose icon is not in memory, or no longer fresh.   *)
GetIcon(r, d) ==
    /\ ~cached[d].fresh
    /\ LET found == IF LoadCustomIcon(d) # Missing THEN LoadCustomIcon(d)
                    ELSE IF LoadFromDisk(d) THEN Upstream ELSE Missing
       IN IF found # Missing
          THEN /\ WillHandle(r, [op |-> "cache", domain |-> d, icon |-> found])
               /\ UNCHANGED onDisk
          ELSE /\ WillHandle(r, [op |-> "fetch", domain |-> d])
               /\ onDisk' = [onDisk EXCEPT ![d] = "no"]
    /\ UNCHANGED <<cached, order, custom, uploaded>>

(* An icon that cannot be saved to disk is cached all the same. *)
FetchIcon(r) ==
    /\ iconCalls[r].op = "fetch"
    /\ LET d == iconCalls[r].domain
       IN \/ /\ GoOn(r, [op |-> "cache", domain |-> d, icon |-> Upstream])
             /\ onDisk' \in {onDisk, [onDisk EXCEPT ![d] = "fresh"]}
          \/ /\ GoOn(r, [op |-> "cache", domain |-> d, icon |-> Missing])
             /\ UNCHANGED onDisk
    /\ UNCHANGED <<cached, order, custom, uploaded, iconCalm>>

(* cache.set: with as many icons as the limit, the head of the list goes,  *)
(* whether or not it still stands for an icon in memory; a domain cached   *)
(* again is listed twice.                                                  *)
CacheIcon(r) ==
    /\ iconCalls[r].op = "cache"
    /\ LET d == iconCalls[r].domain
           full == Cardinality({x \in Domains : cached[x] # NotCached}) >= CacheLimit
           evicts == full /\ order # <<>>
           kept == IF evicts THEN [cached EXCEPT ![Head(order)] = NotCached] ELSE cached
       IN /\ Len(order) < MaxOrder
          /\ cached' = [kept EXCEPT ![d] = InMemory(iconCalls[r].icon)]
          /\ order' = Append(IF evicts THEN Tail(order) ELSE order, d)
    /\ GoOn(r, IconIdle)
    /\ UNCHANGED <<custom, onDisk, uploaded, iconCalm>>

RemoveExistingCustomIcons(d) == custom' = [custom EXCEPT ![d] = NoFiles]

UploadCustomIcon(r, d, icon, ext) ==
    /\ RemoveExistingCustomIcons(d)
    /\ WillHandle(r, [op |-> "write", domain |-> d, icon |-> icon, ext |-> ext])
    /\ UNCHANGED <<cached, order, onDisk, uploaded>>

WriteCustomIcon(r) ==
    /\ iconCalls[r].op = "write"
    /\ LET call == iconCalls[r]
       IN /\ custom' = [custom EXCEPT ![call.domain][call.ext] = call.icon]
          /\ uploaded' = [uploaded EXCEPT ![call.domain] = call.icon]
          /\ GoOn(r, [op |-> "clear", domain |-> call.domain])
    /\ UNCHANGED <<cached, order, onDisk, iconCalm>>

(* The upload ends there: the old files are gone, the cache is not cleared. *)
FailWriteCustomIcon(r) ==
    /\ iconCalls[r].op = "write"
    /\ GoOn(r, IconIdle)
    /\ iconCalm' = FALSE
    /\ UNCHANGED <<cached, order, custom, onDisk, uploaded>>

DeleteCustomIcon(r, d) ==
    /\ RemoveExistingCustomIcons(d)
    /\ uploaded' = [uploaded EXCEPT ![d] = Missing]
    /\ WillHandle(r, [op |-> "clear", domain |-> d])
    /\ UNCHANGED <<cached, order, onDisk>>

InvalidateCache(r) ==
    /\ iconCalls[r].op = "clear"
    /\ LET d == iconCalls[r].domain
       IN /\ cached' = [cached EXCEPT ![d] = NotCached]
          /\ order' = RemoveFirst(order, d)
    /\ GoOn(r, IconIdle)
    /\ UNCHANGED <<custom, onDisk, uploaded, iconCalm>>

(* A week, or an hour for a failure, after it was cached. *)
IconExpires(d) ==
    /\ cached[d].fresh
    /\ cached' = [cached EXCEPT ![d].fresh = FALSE]
    /\ UNCHANGED <<order, custom, onDisk, iconCalls, uploaded, iconCalm, ranges, fetching>>

DiskIconAges(d) ==
    /\ onDisk[d] = "fresh"
    /\ onDisk' = [onDisk EXCEPT ![d] = "old"]
    /\ UNCHANGED <<cached, order, custom, iconCalls, uploaded, iconCalm, ranges, fetching>>

-----------------------------------------------------------------------------
(* A prefix that is not cached, or too long ago, is fetched with no lock;  *)
(* a range fetched again moves to the end.                                 *)
FetchRange(p) ==
    /\ p \notin fetching
    /\ fetching' = fetching \cup {p}
    /\ UNCHANGED <<ranges, iconVars>>

StoreRange(p) ==
    /\ p \in fetching
    /\ LET kept == IF Len(ranges) >= MaxRanges THEN Tail(ranges) ELSE ranges
       IN ranges' = Append(RemoveFirst(kept, p), p)
    /\ fetching' = fetching \ {p}
    /\ UNCHANGED iconVars

FetchRangeFails(p) ==
    /\ p \in fetching
    /\ fetching' = fetching \ {p}
    /\ UNCHANGED <<ranges, iconVars>>

-----------------------------------------------------------------------------
IconStep(r) ==
    \/ \E d \in Domains : GetIcon(r, d) \/ DeleteCustomIcon(r, d)
    \/ \E d \in Domains, icon \in Icons, e \in ToSet(Extensions) :
           UploadCustomIcon(r, d, icon, e)
    \/ FetchIcon(r) \/ CacheIcon(r)
    \/ WriteCustomIcon(r) \/ FailWriteCustomIcon(r) \/ InvalidateCache(r)

RangeStep(p) == FetchRange(p) \/ StoreRange(p) \/ FetchRangeFails(p)

CachesNext ==
    \/ \E r \in IconRequests : IconStep(r)
    \/ \E d \in Domains : IconExpires(d) \/ DiskIconAges(d)
    \/ \E p \in HashPrefixes : RangeStep(p)

CachesSpec == CachesInit /\ [][CachesNext]_cacheVars

-----------------------------------------------------------------------------
(* While requests do not overlap and uploads succeed, the icon served from *)
(* memory is the custom icon last uploaded, if it was not deleted since,   *)
(* and never a custom icon otherwise.  Whatever happens, an icon in memory *)
(* is in the eviction list, and the ranges in memory keep to their limit.  *)
CachesHold ==
    /\ iconCalm /\ (\A r \in IconRequests : iconCalls[r].op \notin {"write", "clear"}) =>
          \A d \in Domains : cached[d].fresh =>
             IF uploaded[d] = Missing
             THEN cached[d].icon \in {Upstream, Missing}
             ELSE cached[d].icon = uploaded[d]
    /\ \A d \in Domains : cached[d] # NotCached => d \in ToSet(order)
    /\ Len(ranges) <= MaxRanges
=============================================================================

---------------------------- MODULE VaultProofs ----------------------------
(***************************************************************************)
(* Proofs about sends, the vault of an organization, a user's own items    *)
(* and the grants to members and teams: the limit of a send holds however  *)
(* its readers overlap, and while requests come one by one nothing deleted *)
(* comes back, no item is left without a collection, an item is what its   *)
(* changes made of it, and nobody has two rows for one thing.  The last    *)
(* part shows that side by side every component of the vault still follows *)
(* its own specification, and puts these theorems and those of             *)
(* GuardsProofs together.                                                  *)
(***************************************************************************)
EXTENDS MCVault, GuardsProofs

(* Sends. *)

(* The requests that are about to hand the text out. *)
Serving == {r \in SendRequests : sendCalls[r].op = "serve"}

(* How far requests that overlap may go beyond the limit. *)
Slack == IF sendCalm THEN 0 ELSE Cardinality(SendRequests) - 1

(* No row, stored or about to be, counts more than was handed out. *)
CountsWithinViews ==
    /\ send # NoSend => send.count <= views
    /\ \A r \in SendRequests :
          sendCalls[r].op = "save" => sendCalls[r].row.count <= views

(* The row counts what was handed out, and what is about to be still fits. *)
ViewsCounted ==
    steady /\ send # NoSend =>
        /\ send.count = views
        /\ send.limit > 0 => views + Cardinality(Serving) <= send.limit + Slack

OneSendCall ==
    sendCalm => \A r, q \in SendRequests :
        sendCalls[r] # SendIdle /\ sendCalls[q] # SendIdle => r = q

(* A deleted send stays so, and nobody is about to save it. *)
GoneStays ==
    sendCalm /\ sendGone =>
        ~Found /\ \A r \in SendRequests : sendCalls[r].op # "save"

SendsInv ==
    /\ SendsTypeOK
    /\ CountsWithinViews
    /\ ViewsCounted
    /\ OneSendCall
    /\ GoneStays

-----------------------------------------------------------------------------
(* The operation tells the kinds of calls apart. *)
LEMMA SendCallKinds ==
    ASSUME NEW call \in SendCall
    PROVE  /\ call.op = "save" => call.row \in Send
           /\ call # SendIdle => call.op \in {"serve", "delete", "save"}
           /\ call = SendIdle => call.op = "none"
<1> DEFINE Rows == Send
<1>1. call \in {SendIdle} \cup [op: {"serve", "delete"}] \cup [op: {"save"}, row: Rows]
  BY DEF SendCall
<1> HIDE DEF Rows
<1>2. /\ call.op = "save" => call.row \in Rows
      /\ call # SendIdle => call.op \in {"serve", "delete", "save"}
      /\ call = SendIdle => call.op = "none"
  BY <1>1 DEF SendIdle
<1> QED BY <1>2 DEF Rows

LEMMA IdleIsCall == SendIdle \in SendCall /\ SendIdle.op = "none"
  BY DEF SendCall, SendIdle

LEMMA SendFields ==
    ASSUME NEW row \in Send
    PROVE  /\ row.limit \in Nat /\ row.count \in Nat
           /\ [row EXCEPT !.deleted = TRUE] \in Send
           /\ [row EXCEPT !.deleted = TRUE].deleted
           /\ [row EXCEPT !.deleted = TRUE].count = row.count
           /\ [row EXCEPT !.deleted = TRUE].limit = row.limit
<1> DEFINE C == 0..MaxCount
           D == Days
<1>1. row \in [limit: AccessLimits, count: C, expires: D, deletes: D,
               locked: BOOLEAN, disabled: BOOLEAN, deleted: BOOLEAN]
  BY DEF Send
<1>2. C \subseteq Nat
  OBVIOUS
<1> HIDE DEF C, D
<1>3. row.limit \in Nat /\ row.count \in Nat
  BY <1>1, <1>2, SendsAssumption
<1> DEFINE gone == [row EXCEPT !.deleted = TRUE]
<1>4. /\ gone \in [limit: AccessLimits, count: C, expires: D, deletes: D,
                   locked: BOOLEAN, disabled: BOOLEAN, deleted: BOOLEAN]
      /\ gone.deleted /\ gone.count = row.count /\ gone.limit = row.limit
  BY <1>1
<1> QED BY <1>3, <1>4 DEF Send, C, D

LEMMA ServingIsFinite ==
    /\ IsFiniteSet(Serving)
    /\ Cardinality(Serving) \in Nat
    /\ Cardinality(SendRequests) \in Nat
    /\ Cardinality(Serving) <= Cardinality(SendRequests)
  BY SendsAssumption, FS_Subset, FS_CardinalityType DEF Serving

(* What a change of one request's call does to the number that serve. *)
LEMMA ServingCounted ==
    ASSUME sendCalls \in [SendRequests -> SendCall],
           NEW r \in SendRequests, NEW call \in SendCall,
           sendCalls' = [sendCalls EXCEPT ![r] = call]
    PROVE  /\ Cardinality(Serving') \in Nat
           /\ Cardinality(Serving') <= Cardinality(SendRequests)
           /\ call.op = "serve" /\ sendCalls[r].op # "serve" =>
                 Cardinality(Serving') = Cardinality(Serving) + 1
           /\ call.op # "serve" /\ sendCalls[r].op = "serve" =>
                 Cardinality(Serving') = Cardinality(Serving) - 1
           /\ call.op # "serve" /\ sendCalls[r].op # "serve" =>
                 /\ Cardinality(Serving') = Cardinality(Serving)
                 /\ Cardinality(Serving) <= Cardinality(SendRequests) - 1
<1>1. /\ sendCalls'[r] = call
      /\ \A q \in SendRequests \ {r} : sendCalls'[q] = sendCalls[q]
  OBVIOUS
<1>2. Serving' \subseteq SendRequests
  BY DEF Serving
<1>3. Cardinality(Serving') \in Nat /\ Cardinality(Serving') <= Cardinality(SendRequests)
  BY <1>2, SendsAssumption, FS_Subset, FS_CardinalityType
<1>4. CASE call.op = "serve" /\ sendCalls[r].op # "serve"
  <2>1. Serving' = Serving \cup {r} /\ r \notin Serving
    BY <1>1, <1>4 DEF Serving
  <2>2. Cardinality(Serving') = Cardinality(Serving) + 1
    BY <2>1, ServingIsFinite, FS_AddElement
  <2> QED BY <1>3, <1>4, <2>2
<1>5. CASE call.op # "serve" /\ sendCalls[r].op = "serve"
  <2>1. Serving' = Serving \ {r} /\ r \in Serving
    BY <1>1, <1>5 DEF Serving
  <2>2. Cardinality(Serving') = Cardinality(Serving) - 1
    BY <2>1, ServingIsFinite, FS_RemoveElement
  <2> QED BY <1>3, <1>5, <2>2
<1>6. CASE call.op # "serve" /\ sendCalls[r].op # "serve"
  <2>1. Serving' = Serving
    BY <1>1, <1>6 DEF Serving
  <2>2. Serving \subseteq SendRequests \ {r}
    BY <1>6 DEF Serving
  <2>3. /\ IsFiniteSet(SendRequests \ {r})
        /\ Cardinality(SendRequests \ {r}) = Cardinality(SendRequests) - 1
    BY SendsAssumption, FS_RemoveElement
  <2>4. Cardinality(Serving) <= Cardinality(SendRequests) - 1
    BY <2>2, <2>3, FS_Subset
  <2> QED BY <1>3, <1>6, <2>1, <2>4
<1>7. CASE call.op = "serve" /\ sendCalls[r].op = "serve"
  BY <1>3, <1>7
<1> QED BY <1>4, <1>5, <1>6, <1>7

LEMMA SendsInitInv == SendsInit => SendsInv
<1> SUFFICES ASSUME SendsInit PROVE SendsInv
  OBVIOUS
<1> USE SendsAssumption
<1>1. /\ send \in Send /\ send.count = 0
      /\ views = 0 /\ sendGone = FALSE /\ steady = TRUE /\ sendCalm = TRUE /\ today = 0
      /\ sendCalls \in [SendRequests -> {SendIdle}]
  <2>1. {1, Later} \subseteq Days /\ 2 \in Days /\ 0 \in 0..MaxCount
    BY DEF Days, Later
  <2>2. send \in [limit: AccessLimits, count: {0}, expires: {1, Later}, deletes: {2},
                  locked: {FALSE}, disabled: {FALSE}, deleted: {FALSE}]
    BY DEF SendsInit
  <2> DEFINE C == 0..MaxCount
             D == Days
  <2>3. {1, Later} \subseteq D /\ 2 \in D /\ 0 \in C
    BY <2>1
  <2> HIDE DEF C, D
  <2>4. send \in [limit: AccessLimits, count: C, expires: D, deletes: D,
                  locked: BOOLEAN, disabled: BOOLEAN, deleted: BOOLEAN]
        /\ send.count = 0
    BY <2>2, <2>3
  <2>5. send \in Send /\ send.count = 0
    BY <2>4 DEF Send, C, D
  <2> QED BY <2>5 DEF SendsInit
<1>2. SendsTypeOK
  <2>1. sendCalls \in [SendRequests -> SendCall]
    <3>1. SendIdle \in SendCall
      BY DEF SendCall
    <3> QED BY <1>1, <3>1
  <2>2. views \in 0..MaxCount /\ today \in 0..LastDay
    BY <1>1
  <2> QED BY <1>1, <2>1, <2>2 DEF SendsTypeOK
<1>3. Serving = {} /\ \A r \in SendRequests : sendCalls[r].op = "none"
  BY <1>1 DEF Serving, SendIdle
<1>4. Cardinality(Serving) = 0
  BY <1>3, FS_EmptySet
<1>5. send.limit \in Nat
  BY <1>1 DEF Send
<1> QED BY <1>1, <1>2, <1>3, <1>4, <1>5
        DEF SendsInv, CountsWithinViews, ViewsCounted, OneSendCall, GoneStays, Slack

(* A request goes on to a write: a read only while the limit has room.     *)
LEMMA WillDoKeeps ==
    ASSUME SendsInv, NEW r \in SendRequests, NEW call \in SendCall, call # SendIdle,
           WillDo(r, call), Found,
           call.op = "serve" => ~IsAccessLimitReached(send),
           call.op = "save" => call.row.count = send.count
    PROVE  SendsInv'
<1>1. /\ sendCalls' = [sendCalls EXCEPT ![r] = call]
      /\ sendCalls[r] = SendIdle
      /\ sendCalm' = (sendCalm /\ \A q \in SendRequests : sendCalls[q] = SendIdle)
      /\ UNCHANGED <<send, today, views, sendGone, steady>>
  BY DEF WillDo
<1>2. /\ send \in Send /\ views \in Nat /\ sendCalls \in [SendRequests -> SendCall]
      /\ sendCalm \in BOOLEAN
  BY DEF SendsInv, SendsTypeOK, Found
<1>3. /\ sendCalls'[r] = call
      /\ \A q \in SendRequests \ {r} : sendCalls'[q] = sendCalls[q]
  BY <1>1, <1>2
<1>4. SendsTypeOK'
  BY <1>1, <1>2 DEF SendsInv, SendsTypeOK
<1>5. CountsWithinViews'
  BY <1>1, <1>2, <1>3 DEF SendsInv, CountsWithinViews, Found
<1>6. sendCalls[r].op # "serve"
  BY <1>1 DEF SendIdle
<1>7. ASSUME steady, send.limit > 0
      PROVE  views + Cardinality(Serving') <= send.limit + Slack'
  <2> DEFINE s == Cardinality(Serving)
             n == Cardinality(SendRequests)
             k == Cardinality(Serving')
             limit == send.limit
  <2>1. limit \in Nat /\ limit > 0 /\ send.count = views
    BY <1>2, <1>7, SendsAssumption DEF Send, SendsInv, ViewsCounted, Found
  <2>2. views + s <= limit + Slack
    BY <1>7 DEF SendsInv, ViewsCounted, Found
  <2>3. s \in Nat /\ n \in Nat /\ k \in Nat /\ k <= n /\ n # 0
    <3>1. n # 0
      BY SendsAssumption, FS_EmptySet
    <3> QED BY <1>1, <1>2, <3>1, ServingIsFinite, ServingCounted
  <2>4. CASE call.op = "serve"
    <3>1. views < limit
      BY <1>2, <2>1, <2>4 DEF IsAccessLimitReached
    <3>2. CASE sendCalm'
      <4>1. Serving = {}
        <5>1. \A q \in SendRequests : sendCalls[q] = SendIdle
          BY <1>1, <3>2
        <5>2. SendIdle.op # "serve"
          BY DEF SendIdle
        <5> QED BY <5>1, <5>2 DEF Serving
      <4>2. s = 0
        BY <4>1, FS_EmptySet
      <4>3. k = s + 1
        BY <1>1, <1>2, <1>6, <2>4, ServingCounted
      <4> HIDE DEF s, n, k, limit
      <4>4. views + k <= limit + 0
        BY <1>2, <2>1, <3>1, <4>2, <4>3
      <4> QED BY <3>2, <4>4 DEF Slack, k, limit
    <3>3. CASE ~sendCalm'
      <4> HIDE DEF s, n, k, limit
      <4>1. views + k <= limit + (n - 1)
        BY <1>2, <2>1, <2>3, <3>1
      <4> QED BY <3>3, <4>1 DEF Slack, n, k, limit
    <3> QED BY <3>2, <3>3
  <2>5. CASE call.op # "serve"
    <3>1. k = s
      BY <1>1, <1>2, <1>6, <2>5, ServingCounted
    <3>2. CASE sendCalm'
      <4>1. Slack = 0 /\ Slack' = 0
        BY <1>1, <3>2 DEF Slack
      <4> QED BY <2>2, <3>1, <4>1
    <3>3. CASE ~sendCalm'
      <4>1. Slack \in {0, n - 1} /\ Slack' = n - 1
        BY <3>3 DEF Slack
      <4> HIDE DEF s, n, k, limit
      <4>2. views + k <= limit + (n - 1)
        BY <1>2, <2>1, <2>2, <2>3, <3>1, <4>1
      <4> QED BY <4>1, <4>2 DEF k, limit
    <3> QED BY <3>2, <3>3
  <2> QED BY <2>4, <2>5
<1>8. ViewsCounted'
  BY <1>1, <1>7 DEF SendsInv, ViewsCounted, Found
<1>9. OneSendCall'
  BY <1>1, <1>3 DEF OneSendCall
<1>10. GoneStays'
  BY <1>1 DEF SendsInv, GoneStays, Found
<1> QED BY <1>4, <1>5, <1>8, <1>9, <1>10 DEF SendsInv

(* A read that was let go on hands the text out, and counts itself or not. *)
LEMMA ServeKeeps ==
    ASSUME SendsInv, NEW r \in SendRequests, ServeSend(r)
    PROVE  SendsInv'
<1> USE SendsAssumption
<1> DEFINE counted == [send EXCEPT !.count = @ + 1]
<1>1. /\ sendCalls[r].op = "serve"
      /\ sendCalls' = [sendCalls EXCEPT ![r] = SendIdle]
      /\ views < MaxCount /\ views' = views + 1
      /\ UNCHANGED <<today, sendGone, sendCalm>>
      /\ \/ send' = (IF send = NoSend THEN send ELSE counted) /\ steady' = steady
         \/ send' = send /\ steady' = FALSE
  BY DEF ServeSend, IncrementAccessCount
<1>2. /\ views \in Nat /\ views' \in 0..MaxCount /\ MaxCount \in Nat
      /\ sendCalls \in [SendRequests -> SendCall] /\ steady \in BOOLEAN
      /\ send # NoSend => send \in Send
  BY <1>1 DEF SendsInv, SendsTypeOK
<1>3. /\ SendIdle \in SendCall /\ SendIdle.op = "none"
      /\ sendCalls'[r] = SendIdle
      /\ \A q \in SendRequests \ {r} : sendCalls'[q] = sendCalls[q]
  BY <1>1, <1>2, IdleIsCall
<1>4. send # NoSend => /\ counted \in Send /\ counted.count = send.count + 1
                       /\ counted.limit = send.limit /\ counted.deleted = send.deleted
                       /\ send.count <= views /\ send.limit \in Nat
  <2> SUFFICES ASSUME send # NoSend
               PROVE  /\ counted \in Send /\ counted.count = send.count + 1
                      /\ counted.limit = send.limit /\ counted.deleted = send.deleted
                      /\ send.count <= views /\ send.limit \in Nat
    OBVIOUS
  <2>1. send.count <= views /\ send \in Send
    BY <1>2 DEF SendsInv, CountsWithinViews
  <2>2. send.count \in Nat /\ send.count + 1 \in 0..MaxCount /\ send.limit \in Nat
    BY <1>1, <1>2, <2>1 DEF Send
  <2> QED BY <2>1, <2>2 DEF Send
<1> HIDE DEF counted
<1>5. send' # NoSend => /\ send # NoSend /\ send' \in Send
                        /\ send'.limit = send.limit /\ send'.deleted = send.deleted
                        /\ \/ steady' = steady /\ send'.count = send.count + 1
                           \/ steady' = FALSE /\ send'.count = send.count
  BY <1>1, <1>2, <1>4
<1>6. SendsTypeOK'
  <2>1. send' \in Send \cup {NoSend}
    BY <1>5
  <2>2. sendCalls' \in [SendRequests -> SendCall]
    BY <1>1, <1>2, <1>3
  <2>3. steady' \in BOOLEAN
    BY <1>1, <1>2
  <2> QED BY <1>1, <1>2, <2>1, <2>2, <2>3 DEF SendsInv, SendsTypeOK
<1>7. CountsWithinViews'
  <2>1. send' # NoSend => send'.count <= views'
    BY <1>1, <1>2, <1>4, <1>5 DEF Send
  <2>2. ASSUME NEW q \in SendRequests, sendCalls'[q].op = "save"
        PROVE  sendCalls'[q].row.count <= views'
    <3>1. sendCalls'[q] = sendCalls[q] /\ sendCalls[q].op = "save"
      BY <1>3, <2>2
    <3>2. sendCalls[q].row \in Send
      BY <1>2, <3>1, SendCallKinds
    <3>3. sendCalls[q].row.count \in Nat /\ sendCalls[q].row.count <= views
      BY <3>1, <3>2 DEF Send, SendsInv, CountsWithinViews
    <3> QED BY <1>1, <1>2, <3>1, <3>3
  <2> QED BY <2>1, <2>2 DEF CountsWithinViews
<1>8. ViewsCounted'
  <2> SUFFICES ASSUME steady', send' # NoSend
               PROVE  /\ send'.count = views'
                      /\ send'.limit > 0 =>
                            views' + Cardinality(Serving') <= send'.limit + Slack'
    BY DEF ViewsCounted
  <2>1. send # NoSend /\ steady /\ send'.count = send.count + 1
    BY <1>5
  <2>2. send.count = views
    BY <2>1 DEF SendsInv, ViewsCounted
  <2>3. Slack' = Slack
    BY <1>1 DEF Slack
  <2> DEFINE s == Cardinality(Serving)
             k == Cardinality(Serving')
  <2>4. k = s - 1 /\ s \in Nat
    BY <1>1, <1>2, <1>3, ServingCounted, ServingIsFinite
  <2> HIDE DEF s, k
  <2>5. views' + k = views + s
    BY <1>1, <1>2, <2>4
  <2>6. send.limit > 0 => views + s <= send.limit + Slack
    BY <2>1 DEF SendsInv, ViewsCounted, s
  <2> QED BY <1>1, <1>5, <2>1, <2>2, <2>3, <2>5, <2>6 DEF k
<1>9. OneSendCall'
  BY <1>1, <1>3 DEF SendsInv, OneSendCall
<1>10. GoneStays'
  <2> SUFFICES ASSUME sendCalm', sendGone'
               PROVE  Found' = FALSE /\ \A q \in SendRequests : sendCalls'[q].op # "save"
    BY DEF GoneStays, Found
  <2>1. ~Found /\ \A q \in SendRequests : sendCalls[q].op # "save"
    BY <1>1 DEF SendsInv, GoneStays
  <2>2. ~Found'
    BY <1>5, <2>1 DEF Found
  <2> QED BY <1>3, <2>1, <2>2 DEF Found
<1> QED BY <1>6, <1>7, <1>8, <1>9, <1>10 DEF SendsInv

(* A save: the row goes back to what was read. *)
LEMMA SendSaveKeeps ==
    ASSUME SendsInv, NEW r \in SendRequests, SaveSend(r)
    PROVE  SendsInv'
<1> USE SendsAssumption
<1> DEFINE row == sendCalls[r].row
<1>1. /\ sendCalls[r].op = "save"
      /\ sendCalls' = [sendCalls EXCEPT ![r] = SendIdle]
      /\ send' = row
      /\ steady' = (steady /\ send # NoSend /\ row.count = send.count
                    /\ (row.limit = 0 \/ row.limit >= views))
      /\ UNCHANGED <<today, views, sendGone, sendCalm>>
  BY DEF SaveSend
<1>2. /\ views \in Nat /\ sendCalls \in [SendRequests -> SendCall]
      /\ sendCalm \in BOOLEAN
  BY DEF SendsInv, SendsTypeOK
<1>3. /\ SendIdle \in SendCall /\ SendIdle.op = "none"
      /\ sendCalls'[r] = SendIdle
      /\ \A q \in SendRequests \ {r} : sendCalls'[q] = sendCalls[q]
      /\ row \in Send /\ sendCalls[r] # SendIdle
  BY <1>1, <1>2, SendCallKinds, IdleIsCall
<1>4. row.count <= views /\ row.limit \in Nat /\ row.count \in Nat
  <2>1. row.count <= views
    BY <1>1 DEF SendsInv, CountsWithinViews
  <2>2. row \in Send
    BY <1>3
  <2> HIDE DEF row
  <2>3. row.limit \in Nat /\ row.count \in Nat
    BY <2>2, SendFields
  <2> QED BY <2>1, <2>3
<1> HIDE DEF row
<1>5. SendsTypeOK'
  <2>1. sendCalls' \in [SendRequests -> SendCall]
    BY <1>1, <1>2, <1>3
  <2>2. steady' \in BOOLEAN
    BY <1>1
  <2> QED BY <1>1, <1>3, <2>1, <2>2 DEF SendsInv, SendsTypeOK
<1>6. CountsWithinViews'
  BY <1>1, <1>3, <1>4 DEF SendsInv, CountsWithinViews
<1>7. ViewsCounted'
  <2> SUFFICES ASSUME steady', send' # NoSend
               PROVE  /\ send'.count = views'
                      /\ send'.limit > 0 =>
                            views' + Cardinality(Serving') <= send'.limit + Slack'
    BY DEF ViewsCounted
  <2>1. row.count = views
    BY <1>1 DEF SendsInv, ViewsCounted
  <2> DEFINE n == Cardinality(SendRequests)
             k == Cardinality(Serving')
             limit == row.limit
  <2>2. ASSUME limit > 0
        PROVE  views + k <= limit + Slack'
    <3>1. limit \in Nat /\ views <= limit
      <4>1. (limit = 0 \/ limit >= views) /\ limit \in Nat
        BY <1>1, <1>4
      <4> HIDE DEF limit
      <4> QED BY <1>2, <2>2, <4>1
    <3>2. k \in Nat /\ n \in Nat /\ k <= n - 1
      BY <1>1, <1>2, <1>3, ServingCounted, ServingIsFinite
    <3>3. CASE sendCalm
      <4>1. \A q \in SendRequests \ {r} : sendCalls[q] = SendIdle
        BY <1>3, <3>3 DEF SendsInv, OneSendCall
      <4>2. Serving' = {}
        BY <1>3, <4>1 DEF Serving
      <4>3. k = 0
        BY <4>2, FS_EmptySet
      <4>4. Slack' = 0
        BY <1>1, <3>3 DEF Slack
      <4> HIDE DEF k, limit
      <4> QED BY <1>2, <3>1, <4>3, <4>4
    <3>4. CASE ~sendCalm
      <4>1. Slack' = n - 1
        BY <1>1, <3>4 DEF Slack
      <4> HIDE DEF k, limit, n
      <4> QED BY <1>2, <3>1, <3>2, <4>1
    <3> QED BY <3>3, <3>4
  <2> QED BY <1>1, <2>1, <2>2
<1>8. OneSendCall'
  BY <1>1, <1>3 DEF SendsInv, OneSendCall
<1>9. GoneStays'
  BY <1>1 DEF SendsInv, GoneStays
<1> QED BY <1>5, <1>6, <1>7, <1>8, <1>9 DEF SendsInv

(* A deletion: the row stays, with its dates and its count. *)
LEMMA SoftDeleteKeeps ==
    ASSUME SendsInv, NEW r \in SendRequests, SoftDeleteSend(r)
    PROVE  SendsInv'
<1> USE SendsAssumption
<1>1. /\ sendCalls[r].op = "delete"
      /\ sendCalls' = [sendCalls EXCEPT ![r] = SendIdle]
      /\ send' = (IF send = NoSend THEN send ELSE [send EXCEPT !.deleted = TRUE])
      /\ sendGone' = TRUE
      /\ UNCHANGED <<today, views, steady, sendCalm>>
  BY DEF SoftDeleteSend
<1>2. /\ sendCalls \in [SendRequests -> SendCall]
      /\ send # NoSend => send \in Send
  BY DEF SendsInv, SendsTypeOK
<1>3. /\ SendIdle \in SendCall /\ SendIdle.op = "none"
      /\ sendCalls'[r] = SendIdle /\ sendCalls[r] # SendIdle
      /\ \A q \in SendRequests \ {r} : sendCalls'[q] = sendCalls[q]
  BY <1>1, <1>2, IdleIsCall
<1>4. send' # NoSend => /\ send # NoSend /\ send' \in Send /\ send'.deleted
                        /\ send'.count = send.count /\ send'.limit = send.limit
  BY <1>1, <1>2, SendFields
<1>5. SendsTypeOK'
  <2>1. sendCalls' \in [SendRequests -> SendCall]
    BY <1>1, <1>2, <1>3
  <2>2. send' \in Send \cup {NoSend}
    BY <1>4
  <2> QED BY <1>1, <2>1, <2>2 DEF SendsInv, SendsTypeOK
<1>6. CountsWithinViews'
  BY <1>1, <1>3, <1>4 DEF SendsInv, CountsWithinViews
<1>7. Cardinality(Serving') = Cardinality(Serving) /\ Slack' = Slack
  <2>1. sendCalls[r].op # "serve"
    BY <1>1
  <2> QED BY <1>1, <1>2, <1>3, <2>1, ServingCounted DEF Slack
<1>8. ViewsCounted'
  BY <1>1, <1>4, <1>7 DEF SendsInv, ViewsCounted
<1>9. OneSendCall'
  BY <1>1, <1>3 DEF SendsInv, OneSendCall
<1>10. GoneStays'
  <2> SUFFICES ASSUME sendCalm'
               PROVE  ~Found' /\ \A q \in SendRequests : sendCalls'[q].op # "save"
    BY DEF GoneStays
  <2>1. \A q \in SendRequests \ {r} : sendCalls[q] = SendIdle
    BY <1>1, <1>3 DEF SendsInv, OneSendCall
  <2>2. ~Found'
    BY <1>4 DEF Found
  <2> QED BY <1>3, <2>1, <2>2
<1> QED BY <1>5, <1>6, <1>8, <1>9, <1>10 DEF SendsInv

LEMMA FailSendKeeps ==
    ASSUME SendsInv, NEW r \in SendRequests, FailSend(r)
    PROVE  SendsInv'
<1> USE SendsAssumption
<1>1. /\ sendCalls[r].op # "serve"
      /\ sendCalls' = [sendCalls EXCEPT ![r] = SendIdle]
      /\ UNCHANGED <<send, today, views, sendGone, steady, sendCalm>>
  BY DEF FailSend
<1>2. sendCalls \in [SendRequests -> SendCall]
  BY DEF SendsInv, SendsTypeOK
<1>3. /\ SendIdle \in SendCall /\ SendIdle.op = "none"
      /\ sendCalls'[r] = SendIdle
      /\ \A q \in SendRequests \ {r} : sendCalls'[q] = sendCalls[q]
  BY <1>1, <1>2, IdleIsCall
<1>4. SendsTypeOK'
  <2>1. sendCalls' \in [SendRequests -> SendCall]
    BY <1>1, <1>2, <1>3
  <2> QED BY <1>1, <2>1 DEF SendsInv, SendsTypeOK
<1>5. Cardinality(Serving') = Cardinality(Serving) /\ Slack' = Slack
  BY <1>1, <1>2, <1>3, ServingCounted DEF Slack
<1>6. ViewsCounted' /\ CountsWithinViews'
  BY <1>1, <1>3, <1>5 DEF SendsInv, ViewsCounted, CountsWithinViews
<1>7. OneSendCall' /\ GoneStays'
  BY <1>1, <1>3 DEF SendsInv, OneSendCall, GoneStays, Found
<1> QED BY <1>4, <1>6, <1>7 DEF SendsInv

(* The cleanup, the clock, and nothing at all. *)
LEMMA BackgroundKeeps ==
    ASSUME SendsInv, DeleteExpired \/ DayPasses \/ UNCHANGED sendVars
    PROVE  SendsInv'
<1> USE SendsAssumption
<1>1. /\ UNCHANGED <<sendCalls, views, sendGone, steady, sendCalm>>
      /\ send' = send \/ send' = NoSend
  BY DEF DeleteExpired, DayPasses, sendVars
<1>2. SendsTypeOK'
  <2>1. today' \in 0..LastDay
    BY DEF SendsInv, SendsTypeOK, DeleteExpired, DayPasses, sendVars
  <2> QED BY <1>1, <2>1 DEF SendsInv, SendsTypeOK
<1>3. Serving' = Serving /\ Slack' = Slack
  BY <1>1 DEF Serving, Slack
<1>4. ViewsCounted' /\ CountsWithinViews'
  BY <1>1, <1>3 DEF SendsInv, ViewsCounted, CountsWithinViews
<1>5. OneSendCall' /\ GoneStays'
  BY <1>1 DEF SendsInv, OneSendCall, GoneStays, Found
<1> QED BY <1>2, <1>4, <1>5 DEF SendsInv

(* What the requests of the readers and of the owner go on to do. *)
LEMMA SendRequestKeeps ==
    ASSUME SendsInv, NEW r \in SendRequests, SendRead(r) \/ SendChange(r)
    PROVE  SendsInv'
<1> USE SendsAssumption
<1>1. /\ [op |-> "serve"] \in SendCall /\ [op |-> "serve"] # SendIdle
      /\ [op |-> "delete"] \in SendCall /\ [op |-> "delete"] # SendIdle
  BY DEF SendCall, SendIdle
<1>2. CASE SendRead(r)
  <2>1. /\ Found /\ ~IsAccessLimitReached(send)
        /\ WillDo(r, [op |-> "serve"])
    BY <1>2 DEF SendRead, GetByAccessID, VerifySendPassword, Readable
  <2> QED BY <1>1, <2>1, WillDoKeeps
<1>3. CASE DeleteSend(r)
  <2>1. Found /\ WillDo(r, [op |-> "delete"])
    BY <1>3 DEF DeleteSend
  <2> QED BY <1>1, <2>1, WillDoKeeps
<1>4. CASE UpdateSend(r)
  <2>1. Found /\ send \in Send
    BY <1>4 DEF UpdateSend, Found, SendsInv, SendsTypeOK
  <2>2. PICK row \in {[send EXCEPT !.limit = l] : l \in AccessLimits \ {0}}
                     \cup {[send EXCEPT !.deletes = Later]}
                     \cup {[send EXCEPT !.expires = Later]}
                     \cup {[send EXCEPT !.disabled = ~@], [send EXCEPT !.locked = ~@]} :
             WillDo(r, [op |-> "save", row |-> row])
    BY <1>4, Zenon DEF UpdateSend
  <2>3. row \in Send /\ row.count = send.count
    <3>1. Later \in Days
      BY DEF Later, Days
    <3> QED BY <2>1, <2>2, <3>1 DEF Send
  <2> DEFINE call == [op |-> "save", row |-> row]
  <2>4. /\ call \in SendCall /\ call # SendIdle /\ call.op = "save"
        /\ call.row.count = send.count
    <3> DEFINE Rows == Send
    <3>1. row \in Rows
      BY <2>3
    <3> HIDE DEF Rows
    <3>2. call \in [op: {"save"}, row: Rows] /\ call # SendIdle
      BY <3>1 DEF SendIdle
    <3> QED BY <2>3, <3>2 DEF SendCall, Rows
  <2>5. WillDo(r, call)
    BY <2>2
  <2> HIDE DEF call
  <2> QED BY <2>1, <2>4, <2>5, WillDoKeeps
<1> QED BY <1>2, <1>3, <1>4 DEF SendChange

LEMMA SendsStep ==
    ASSUME SendsInv, [SendsNext]_sendVars
    PROVE  SendsInv'
<1>1. ASSUME NEW r \in SendRequests, SendWrite(r)
      PROVE  SendsInv'
  BY <1>1, ServeKeeps, SendSaveKeeps, SoftDeleteKeeps, FailSendKeeps DEF SendWrite
<1> QED BY <1>1, SendRequestKeeps, BackgroundKeeps DEF SendsNext

LEMMA SendsInvariant == SendsSpec => []SendsInv
<1> QED BY SendsInitInv, SendsStep, PTL DEF SendsSpec

(* However the requests overlap, and for any limits: as long as every      *)
(* access is counted and no update undoes a count, the text is handed out  *)
(* at most as often as the limit says, and by requests that overlap at     *)
(* most once more for each other request (send_service.go:163, :187).      *)
THEOREM LimitOvershoot == SendsSpec => []ViewsWithinLimit
<1>1. ASSUME SendsInv
      PROVE  ViewsWithinLimit
  <2> SUFFICES ASSUME steady, send # NoSend, send.limit > 0
               PROVE  views <= send.limit + Slack
    BY DEF ViewsWithinLimit, Slack
  <2>1. send \in Send /\ views \in Nat
    BY <1>1 DEF SendsInv, SendsTypeOK
  <2>2. send.limit \in Nat
    BY <2>1, SendsAssumption DEF Send
  <2> DEFINE s == Cardinality(Serving)
             limit == send.limit
  <2>3. views + s <= limit + Slack /\ s \in Nat /\ Slack \in Int
    BY <1>1, ServingIsFinite DEF SendsInv, ViewsCounted, Slack
  <2>4. limit \in Nat
    BY <2>2
  <2> HIDE DEF s, limit
  <2>5. views <= limit + Slack
    BY <2>1, <2>3, <2>4
  <2> QED BY <2>5 DEF limit
<1> QED BY <1>1, SendsInvariant, PTL

(* While requests come one by one, a send its owner deleted stays deleted, *)
(* whatever was read of it before (send_service.go:272).                   *)
THEOREM DeletedSendStays == SendsSpec => []SendStaysDeleted
<1>1. SendsInv => SendStaysDeleted
  BY DEF SendsInv, GoneStays, SendStaysDeleted
<1> QED BY <1>1, SendsInvariant, PTL

-----------------------------------------------------------------------------
(* The vault. *)

(* What a request is about to write over is a row that is there. *)
WritesExisting(w) ==
    /\ w.op \in {"save", "drop"} => w.id \in DOMAIN rows[w.table]
    /\ w.op = "move" => w.from \in DOMAIN rows["collection"]

VaultTyped ==
    /\ DOMAIN rows = Tables
    /\ \A t \in Tables : rows[t] \in Seq(VaultRow(t)) /\ Len(rows[t]) <= MaxRows[t]
    /\ DOMAIN vaultCalls = VaultRequests
    /\ \A r \in VaultRequests : IsVaultWrite(vaultCalls[r]) /\ WritesExisting(vaultCalls[r])
    /\ dropped \subseteq Tables \X Nat
    /\ vaultCalm \in BOOLEAN

(* What a request found out still holds when it writes, if it is alone:    *)
(* an item goes to a live collection, what is saved was not deleted since, *)
(* and a collection is deleted only after its items have moved.            *)
CallFits(w) ==
    /\ w.op = "insert" /\ w.table = "collection" => ~w.row.isDefault
    /\ w.op \in {"insert", "save"} /\ w.table = "item" =>
          w.row.collection \in Live("collection")
    /\ w.op = "save" => w.id \in Live(w.table)
    /\ w.op = "save" /\ w.table = "collection" =>
          w.row.live /\ w.row.isDefault = rows["collection"][w.id].isDefault
    /\ w.op = "drop" /\ w.table = "collection" =>
          /\ w.id \notin Defaults
          /\ \A i \in Live("item") : rows["item"][i].collection # w.id
    /\ w.op = "move" => w.from \notin Defaults /\ w.to \in Defaults

OneWrite ==
    \A r, q \in VaultRequests : vaultCalls[r] # NoWrite /\ vaultCalls[q] # NoWrite => r = q

OneDefault == \E d \in Live("collection") : Defaults = {d}

Homed == \A i \in Live("item") : rows["item"][i].collection \in Live("collection")

(* A row that was deleted is still there, marked or not to be found: its   *)
(* id is not given again.                                                  *)
DroppedStay ==
    \A d \in dropped : d[2] \in DOMAIN rows[d[1]] /\ ~rows[d[1]][d[2]].live

VaultInv ==
    /\ VaultTyped
    /\ vaultCalm => /\ OneWrite /\ OneDefault /\ Homed /\ DroppedStay
                    /\ \A r \in VaultRequests : CallFits(vaultCalls[r])

-----------------------------------------------------------------------------
LEMMA WriteKinds ==
    ASSUME NEW w, IsVaultWrite(w)
    PROVE  /\ w # NoWrite => w.op \in {"insert", "save", "drop", "move"}
           /\ w.op \in {"insert", "save"} => w.table \in Tables /\ w.row \in VaultRow(w.table)
           /\ w.op \in {"save", "drop"} => w.table \in Tables /\ w.id \in 1..MaxRows[w.table]
           /\ w.op = "move" => {w.from, w.to} \subseteq 1..MaxRows["collection"]
           /\ w = NoWrite => w.op = "none"
<1>1. w = NoWrite => w.op = "none"
  BY DEF NoWrite
<1> QED BY <1>1 DEF IsVaultWrite

LEMMA NoWriteFits ==
    IsVaultWrite(NoWrite) /\ WritesExisting(NoWrite) /\ CallFits(NoWrite)
<1>1. NoWrite.op = "none"
  BY DEF NoWrite
<1> QED BY <1>1 DEF IsVaultWrite, WritesExisting, CallFits

LEMMA RowKinds ==
    /\ VaultRow("collection") = Collection
    /\ VaultRow("folder") = Folder
    /\ VaultRow("item") = Item
    /\ VaultRow("share") = Share
  BY DEF VaultRow

LEMMA LiveRows ==
    ASSUME VaultTyped, NEW t \in Tables, NEW id \in Live(t)
    PROVE  /\ id \in DOMAIN rows[t] /\ id \in 1..MaxRows[t]
           /\ rows[t][id] \in VaultRow(t) /\ rows[t][id].live
<1> DEFINE R == VaultRow(t)
           n == MaxRows[t]
<1>1. rows[t] \in Seq(R) /\ Len(rows[t]) <= n /\ n \in Nat
  BY VaultAssumption DEF VaultTyped, Tables
<1>2. id \in DOMAIN rows[t] /\ rows[t][id].live
  BY DEF Live
<1> HIDE DEF R, n
<1>3. rows[t][id] \in R /\ id \in 1..n
  BY <1>1, <1>2
<1> QED BY <1>2, <1>3 DEF R, n

(* A row that is marked deleted, or a share that ends, keeps its type. *)
LEMMA MarkedRows ==
    ASSUME NEW t \in Tables, NEW row \in VaultRow(t)
    PROVE  /\ [row EXCEPT !.live = FALSE] \in VaultRow(t)
           /\ ~[row EXCEPT !.live = FALSE].live
<1> DEFINE marked == [row EXCEPT !.live = FALSE]
<1>1. CASE t = "collection"
  <2>1. row \in Collection
    BY <1>1, RowKinds
  <2>2. marked \in Collection /\ marked.live = FALSE
    BY <2>1 DEF Collection
  <2> QED BY <1>1, <2>2, RowKinds
<1>2. CASE t = "folder"
  <2>1. row \in Folder
    BY <1>2, RowKinds
  <2>2. marked \in Folder /\ marked.live = FALSE
    BY <2>1 DEF Folder
  <2> QED BY <1>2, <2>2, RowKinds
<1>3. CASE t = "item"
  <2>1. row \in Item
    BY <1>3, RowKinds
  <2>2. marked \in Item /\ marked.live = FALSE
    BY <2>1 DEF Item
  <2> QED BY <1>3, <2>2, RowKinds
<1>4. CASE t = "share"
  <2>1. row \in Share
    BY <1>4, RowKinds
  <2>2. marked \in Share /\ marked.live = FALSE
    BY <2>1 DEF Share
  <2> QED BY <1>4, <2>2, RowKinds
<1> QED BY <1>1, <1>2, <1>3, <1>4 DEF Tables

LEMMA VaultInitInv == OrgItemsInit => VaultInv
<1> SUFFICES ASSUME OrgItemsInit PROVE VaultInv
  OBVIOUS
<1> DEFINE first == [live |-> TRUE, name |-> DefaultName, isDefault |-> TRUE]
<1>1. /\ DOMAIN rows = Tables
      /\ rows["collection"] = <<first>>
      /\ \A t \in Tables \ {"collection"} : rows[t] = <<>>
      /\ DOMAIN vaultCalls = VaultRequests
      /\ \A r \in VaultRequests : vaultCalls[r] = NoWrite
      /\ dropped = {} /\ vaultCalm = TRUE
  BY DEF OrgItemsInit, Tables
<1>2. first \in Collection /\ first.live /\ first.isDefault
  BY VaultAssumption DEF Collection
<1> HIDE DEF first
<1>3. ASSUME NEW t \in Tables
      PROVE  rows[t] \in Seq(VaultRow(t)) /\ Len(rows[t]) <= MaxRows[t]
  <2>1. CASE t = "collection"
    <3>1. rows[t] = <<first>> /\ first \in VaultRow(t)
      BY <1>1, <1>2, <2>1, RowKinds
    <3>2. MaxRows[t] \in Nat /\ MaxRows[t] # 0
      BY <2>1, VaultAssumption
    <3> QED BY <3>1, <3>2
  <2>2. CASE t # "collection"
    <3>1. rows[t] = <<>>
      BY <1>1, <2>2
    <3>2. MaxRows[t] \in Nat
      BY VaultAssumption DEF Tables
    <3> QED BY <3>1, <3>2
  <2> QED BY <2>1, <2>2
<1>4. VaultTyped
  BY <1>1, <1>3, NoWriteFits DEF VaultTyped
<1>5. Live("collection") = {1} /\ Defaults = {1} /\ Live("item") = {}
  <2>1. Live("collection") = {1}
    BY <1>1, <1>2 DEF Live
  <2>2. Live("item") = {}
    BY <1>1 DEF Live, Tables
  <2> QED BY <1>1, <1>2, <2>1, <2>2 DEF Defaults
<1> QED BY <1>1, <1>4, <1>5, NoWriteFits
        DEF VaultInv, OneWrite, OneDefault, Homed, DroppedStay

(* A step of the only request there is: the others have nothing to write.  *)
LEMMA OnlyWrite ==
    ASSUME VaultInv, NEW r \in VaultRequests, NEW w,
           vaultCalls' = [vaultCalls EXCEPT ![r] = w],
           VaultTyped',
           vaultCalm' => /\ vaultCalm
                         /\ \A q \in VaultRequests \ {r} : vaultCalls[q] = NoWrite
                         /\ OneDefault' /\ Homed' /\ DroppedStay' /\ CallFits(w)'
    PROVE  VaultInv'
<1>1. /\ vaultCalls'[r] = w
      /\ \A q \in VaultRequests \ {r} : vaultCalls'[q] = vaultCalls[q]
  BY DEF VaultInv, VaultTyped
<1>2. ASSUME vaultCalm'
      PROVE  OneWrite' /\ \A q \in VaultRequests : CallFits(vaultCalls[q])'
  <2>1. \A q \in VaultRequests \ {r} : vaultCalls'[q] = NoWrite
    BY <1>1, <1>2
  <2>2. OneWrite'
    BY <2>1 DEF OneWrite
  <2>3. ASSUME NEW q \in VaultRequests
        PROVE  CallFits(vaultCalls[q])'
    <3>1. CASE q = r
      BY <1>1, <1>2, <3>1 DEF CallFits
    <3>2. CASE q # r
      <4>1. vaultCalls'[q].op = "none"
        BY <2>1, <3>2 DEF NoWrite
      <4> QED BY <4>1 DEF CallFits
    <3> QED BY <3>1, <3>2
  <2> QED BY <2>2, <2>3
<1> QED BY <1>2 DEF VaultInv

LEMMA VaultAlone ==
    ASSUME VaultInv, vaultCalm, NEW r \in VaultRequests, vaultCalls[r] # NoWrite
    PROVE  /\ \A q \in VaultRequests \ {r} : vaultCalls[q] = NoWrite
           /\ CallFits(vaultCalls[r]) /\ OneDefault /\ Homed /\ DroppedStay
BY DEF VaultInv, OneWrite

(* The types of the other requests' calls are not a step's business. *)
LEMMA TypedCalls ==
    ASSUME VaultTyped, NEW r \in VaultRequests, NEW w, IsVaultWrite(w),
           vaultCalls' = [vaultCalls EXCEPT ![r] = w],
           DOMAIN rows' = Tables,
           \A t \in Tables : /\ rows'[t] \in Seq(VaultRow(t)) /\ Len(rows'[t]) <= MaxRows[t]
                             /\ DOMAIN rows[t] \subseteq DOMAIN rows'[t],
           WritesExisting(w),
           dropped' \subseteq Tables \X Nat,
           vaultCalm' \in BOOLEAN
    PROVE  VaultTyped'
<1>1. /\ DOMAIN vaultCalls' = VaultRequests /\ vaultCalls'[r] = w
      /\ \A q \in VaultRequests \ {r} : vaultCalls'[q] = vaultCalls[q]
  BY DEF VaultTyped
<1>2. ASSUME NEW v, IsVaultWrite(v), WritesExisting(v)
      PROVE  WritesExisting(v)'
  <2>1. v.op \in {"save", "drop"} => v.table \in Tables
    BY <1>2, WriteKinds
  <2> QED BY <1>2, <2>1 DEF WritesExisting, Tables
<1>3. ASSUME NEW q \in VaultRequests
      PROVE  IsVaultWrite(vaultCalls'[q]) /\ WritesExisting(vaultCalls[q])'
  <2>1. IsVaultWrite(vaultCalls[q]) /\ WritesExisting(vaultCalls[q])
    BY DEF VaultTyped
  <2>2. \E v : v = vaultCalls'[q] /\ IsVaultWrite(v) /\ WritesExisting(v)
    BY <1>1, <2>1
  <2> QED BY <1>2, <2>2 DEF WritesExisting, IsVaultWrite
<1> QED BY <1>1, <1>3 DEF VaultTyped, IsVaultWrite

-----------------------------------------------------------------------------
(* What a request reads, and what it goes on with. *)

LEMMA WillWriteKeeps ==
    ASSUME VaultInv, NEW r \in VaultRequests, NEW w, WillWrite(r, w),
           IsVaultWrite(w), WritesExisting(w),
           Homed => CallFits(w)
    PROVE  VaultInv'
<1>1. /\ vaultCalls' = [vaultCalls EXCEPT ![r] = w]
      /\ vaultCalm' = (vaultCalm /\ NobodyWrites)
      /\ UNCHANGED <<rows, dropped>>
  BY DEF WillWrite
<1>2. VaultTyped /\ vaultCalm \in BOOLEAN
  BY DEF VaultInv, VaultTyped
<1>3. VaultTyped'
  <2>1. \A t \in Tables : /\ rows'[t] \in Seq(VaultRow(t)) /\ Len(rows'[t]) <= MaxRows[t]
                          /\ DOMAIN rows[t] \subseteq DOMAIN rows'[t]
    BY <1>1, <1>2 DEF VaultTyped
  <2>2. DOMAIN rows' = Tables /\ dropped' \subseteq Tables \X Nat /\ vaultCalm' \in BOOLEAN
    BY <1>1, <1>2 DEF VaultTyped
  <2> QED BY <1>1, <1>2, <2>1, <2>2, TypedCalls
<1>4. ASSUME vaultCalm'
      PROVE  /\ vaultCalm /\ \A q \in VaultRequests \ {r} : vaultCalls[q] = NoWrite
             /\ OneDefault' /\ Homed' /\ DroppedStay' /\ CallFits(w)'
  <2>1. vaultCalm /\ OneDefault /\ Homed /\ DroppedStay /\ CallFits(w)
    BY <1>1, <1>4 DEF VaultInv
  <2>2. Live("collection")' = Live("collection") /\ Live("item")' = Live("item")
        /\ Defaults' = Defaults
    BY <1>1 DEF Live, Defaults
  <2>3. CallFits(w)'
    BY <1>1, <2>1, <2>2 DEF CallFits, Live
  <2> QED BY <1>1, <1>4, <2>1, <2>2, <2>3
          DEF OneDefault, Homed, DroppedStay, NobodyWrites
<1> QED BY <1>1, <1>3, <1>4, OnlyWrite

LEMMA InsertingTyped ==
    ASSUME NEW t \in Tables, NEW row \in VaultRow(t)
    PROVE  /\ IsVaultWrite(Inserting(t, row)) /\ WritesExisting(Inserting(t, row))
           /\ Inserting(t, row).op = "insert" /\ Inserting(t, row).table = t
           /\ Inserting(t, row).row = row
  BY DEF Inserting, IsVaultWrite, WritesExisting

LEMMA SavingTyped ==
    ASSUME VaultTyped, NEW t \in Tables, NEW id \in Live(t), NEW row \in VaultRow(t)
    PROVE  /\ IsVaultWrite(Saving(t, id, row)) /\ WritesExisting(Saving(t, id, row))
           /\ Saving(t, id, row).op = "save" /\ Saving(t, id, row).table = t
           /\ Saving(t, id, row).row = row /\ Saving(t, id, row).id = id
  BY LiveRows DEF Saving, IsVaultWrite, WritesExisting

LEMMA DroppingTyped ==
    ASSUME NEW t \in Tables, NEW id \in DOMAIN rows[t], id \in 1..MaxRows[t]
    PROVE  /\ IsVaultWrite(Dropping(t, id)) /\ WritesExisting(Dropping(t, id))
           /\ Dropping(t, id).op = "drop" /\ Dropping(t, id).table = t
           /\ Dropping(t, id).id = id
  BY DEF Dropping, IsVaultWrite, WritesExisting

LEMMA CollectionRequests ==
    ASSUME VaultInv, NEW r \in VaultRequests, CollectionCreation(r) \/ CollectionRequest(r)
    PROVE  VaultInv'
<1> DEFINE t == "collection"
<1>1. VaultTyped /\ t \in Tables
  BY DEF VaultInv, Tables
<1>2. ASSUME NEW name \in Names, CreateCollection(r, name)
      PROVE  VaultInv'
  <2> DEFINE row == [live |-> TRUE, name |-> name, isDefault |-> FALSE]
             w == Inserting(t, row)
  <2>1. row \in VaultRow(t) /\ row.isDefault = FALSE
    BY RowKinds DEF Collection
  <2>2. WillWrite(r, w)
    BY <1>2 DEF CreateCollection
  <2> HIDE DEF row
  <2>3. /\ IsVaultWrite(w) /\ WritesExisting(w)
        /\ w.op = "insert" /\ w.table = t /\ w.row = row
    BY <1>1, <2>1, InsertingTyped
  <2>4. CallFits(w)
    BY <2>1, <2>3 DEF CallFits
  <2> QED BY <2>2, <2>3, <2>4, WillWriteKeeps
<1>3. ASSUME NEW id \in Live(t), NEW name \in Names, UpdateCollection(r, id, name)
      PROVE  VaultInv'
  <2> DEFINE old == rows[t][id]
             row == [old EXCEPT !.name = name]
             w == Saving(t, id, row)
  <2>1. old \in Collection /\ old.live = TRUE
    BY <1>1, LiveRows, RowKinds DEF Collection
  <2>2. WillWrite(r, w)
    BY <1>3 DEF UpdateCollection
  <2>3. row \in VaultRow(t) /\ row.live = TRUE /\ row.isDefault = old.isDefault
    BY <2>1, RowKinds DEF Collection
  <2> HIDE DEF row, old
  <2>4. /\ IsVaultWrite(w) /\ WritesExisting(w)
        /\ w.op = "save" /\ w.table = t /\ w.row = row /\ w.id = id
    BY <1>1, <2>3, SavingTyped
  <2>5. CallFits(w)
    BY <2>3, <2>4 DEF CallFits, old
  <2> QED BY <2>2, <2>4, <2>5, WillWriteKeeps
<1>4. ASSUME NEW id \in Live(t), DeleteCollection(r, id)
      PROVE  VaultInv'
  <2>1. PICK def \in Defaults : WillWrite(r, Moving(id, def)) /\ id \notin Defaults
    BY <1>4 DEF DeleteCollection
  <2> DEFINE w == Moving(id, def)
  <2>2. w.op = "move" /\ w.from = id /\ w.to = def
    BY DEF Moving
  <2>3. {id, def} \subseteq 1..MaxRows[t] /\ id \in DOMAIN rows[t]
    <3>1. def \in Live(t)
      BY <2>1 DEF Defaults
    <3> QED BY <1>1, <3>1, LiveRows
  <2> HIDE DEF w
  <2>4. IsVaultWrite(w) /\ WritesExisting(w) /\ CallFits(w)
    BY <2>1, <2>2, <2>3 DEF IsVaultWrite, WritesExisting, CallFits
  <2> QED BY <2>1, <2>4, WillWriteKeeps DEF w
<1> QED BY <1>2, <1>3, <1>4 DEF CollectionCreation, CollectionRequest

LEMMA FolderRequests ==
    ASSUME VaultInv, NEW r \in VaultRequests, FolderRequest(r)
    PROVE  VaultInv'
<1> DEFINE t == "folder"
<1>1. VaultTyped /\ t \in Tables
  BY DEF VaultInv, Tables
<1>2. ASSUME NEW name \in Names, CreateFolder(r, name)
      PROVE  VaultInv'
  <2> DEFINE row == [live |-> TRUE, name |-> name]
             w == Inserting(t, row)
  <2>1. row \in VaultRow(t)
    BY RowKinds DEF Folder
  <2>2. WillWrite(r, w)
    BY <1>2 DEF CreateFolder
  <2> HIDE DEF row
  <2>3. /\ IsVaultWrite(w) /\ WritesExisting(w)
        /\ w.op = "insert" /\ w.table = t /\ w.row = row
    BY <1>1, <2>1, InsertingTyped
  <2>4. CallFits(w)
    BY <2>3 DEF CallFits
  <2> QED BY <2>2, <2>3, <2>4, WillWriteKeeps
<1>3. ASSUME NEW id \in Live(t), NEW name \in Names, UpdateFolder(r, id, name)
      PROVE  VaultInv'
  <2> DEFINE old == rows[t][id]
             row == [old EXCEPT !.name = name]
             w == Saving(t, id, row)
  <2>1. row \in VaultRow(t)
    <3>1. old \in Folder
      BY <1>1, LiveRows, RowKinds
    <3> HIDE DEF old
    <3> QED BY <3>1, RowKinds DEF Folder
  <2>2. WillWrite(r, w)
    BY <1>3 DEF UpdateFolder
  <2> HIDE DEF row
  <2>3. /\ IsVaultWrite(w) /\ WritesExisting(w)
        /\ w.op = "save" /\ w.table = t /\ w.row = row /\ w.id = id
    BY <1>1, <2>1, SavingTyped
  <2>4. CallFits(w)
    BY <2>3 DEF CallFits
  <2> QED BY <2>2, <2>3, <2>4, WillWriteKeeps
<1>4. ASSUME NEW id \in Live(t), DeleteFolder(r, id)
      PROVE  VaultInv'
  <2> DEFINE w == Dropping(t, id)
  <2>1. WillWrite(r, w)
    BY <1>4 DEF DeleteFolder
  <2>2. /\ IsVaultWrite(w) /\ WritesExisting(w)
        /\ w.op = "drop" /\ w.table = t /\ w.id = id
    BY <1>1, LiveRows, DroppingTyped
  <2>3. CallFits(w)
    BY <2>2 DEF CallFits
  <2> QED BY <2>1, <2>2, <2>3, WillWriteKeeps
<1> QED BY <1>2, <1>3, <1>4 DEF FolderRequest

(* An item goes to a live collection: the one asked for, the default one,  *)
(* or the one it is in.                                                    *)
LEMMA VaultItemRequests ==
    ASSUME VaultInv, NEW r \in VaultRequests,
           ItemRequest(r) \/ \E p \in Placements : CreateItem(r, p[1], p[2])
    PROVE  VaultInv'
<1> DEFINE t == "item"
<1>1. VaultTyped /\ t \in Tables
  BY DEF VaultInv, Tables
<1>2. ASSUME NEW p \in Placements
      PROVE  p[1] \in Nat /\ p[2] \in Nat
  <2>1. rows["collection"] \in Seq(VaultRow("collection"))
    BY <1>1 DEF VaultTyped, Tables
  <2>2. DOMAIN rows["collection"] \subseteq Nat
    BY <2>1
  <2> QED BY <2>2, VaultAssumption DEF Placements
<1>3. ASSUME NEW p \in Placements, CreateItem(r, p[1], p[2])
      PROVE  VaultInv'
  <2> DEFINE row == [live |-> TRUE, collection |-> p[1], folder |-> p[2]]
             w == Inserting(t, row)
  <2>1. row \in VaultRow(t) /\ row.collection = p[1]
    BY <1>2, RowKinds DEF Item
  <2>2. WillWrite(r, w) /\ p[1] \in Live("collection")
    BY <1>3 DEF CreateItem
  <2> HIDE DEF row
  <2>3. /\ IsVaultWrite(w) /\ WritesExisting(w)
        /\ w.op = "insert" /\ w.table = t /\ w.row = row
    BY <1>1, <2>1, InsertingTyped
  <2>4. CallFits(w)
    BY <2>1, <2>2, <2>3 DEF CallFits
  <2> QED BY <2>2, <2>3, <2>4, WillWriteKeeps
<1>4. ASSUME NEW id \in Live(t), NEW p \in Placements, UpdateItem(r, id, p[1], p[2])
      PROVE  VaultInv'
  <2> DEFINE row == [live |-> TRUE, collection |-> p[1], folder |-> p[2]]
             w == Saving(t, id, row)
  <2>1. row \in VaultRow(t) /\ row.collection = p[1]
    BY <1>2, RowKinds DEF Item
  <2>2. WillWrite(r, w) /\ (p[1] = rows[t][id].collection \/ p[1] \in Live("collection"))
    BY <1>4 DEF UpdateItem
  <2> HIDE DEF row
  <2>3. /\ IsVaultWrite(w) /\ WritesExisting(w)
        /\ w.op = "save" /\ w.table = t /\ w.row = row /\ w.id = id
    BY <1>1, <2>1, SavingTyped
  <2>4. Homed => CallFits(w)
    BY <2>1, <2>2, <2>3 DEF CallFits, Homed
  <2> QED BY <2>2, <2>3, <2>4, WillWriteKeeps
<1>5. ASSUME NEW id \in Live(t), DeleteItem(r, id)
      PROVE  VaultInv'
  <2> DEFINE w == Dropping(t, id)
  <2>1. WillWrite(r, w)
    BY <1>5 DEF DeleteItem
  <2>2. /\ IsVaultWrite(w) /\ WritesExisting(w)
        /\ w.op = "drop" /\ w.table = t /\ w.id = id
    BY <1>1, LiveRows, DroppingTyped
  <2>3. CallFits(w)
    BY <2>2 DEF CallFits
  <2> QED BY <2>1, <2>2, <2>3, WillWriteKeeps
<1> QED BY <1>3, <1>4, <1>5 DEF ItemRequest

(* A second default collection is made only when a read fails. *)
LEMMA SecondDefaultKeeps ==
    ASSUME VaultInv, NEW r \in VaultRequests, CreateSecondDefault(r)
    PROVE  VaultInv'
<1> DEFINE t == "collection"
           S == VaultRow(t)
           new == [live |-> TRUE, name |-> DefaultName, isDefault |-> TRUE]
           row == [live |-> TRUE, folder |-> 0, collection |-> Len(rows'[t])]
           w == Inserting("item", row)
<1>1. VaultTyped /\ t \in Tables /\ "item" \in Tables
  BY DEF VaultInv, Tables
<1>2. /\ Len(rows[t]) < MaxRows[t]
      /\ rows' = [rows EXCEPT ![t] = Append(@, new)]
      /\ vaultCalls' = [vaultCalls EXCEPT ![r] = w]
      /\ vaultCalm' = FALSE /\ dropped' = dropped
  BY DEF CreateSecondDefault
<1>3. new \in S
  BY VaultAssumption, RowKinds DEF Collection
<1>4. rows[t] \in Seq(S) /\ Len(rows[t]) \in Nat /\ MaxRows[t] \in Nat /\ DOMAIN rows = Tables
  BY <1>1, VaultAssumption DEF VaultTyped
<1> HIDE DEF new, S
<1>5. /\ rows'[t] = Append(rows[t], new) /\ DOMAIN rows' = Tables
      /\ \A u \in Tables \ {t} : rows'[u] = rows[u]
  BY <1>1, <1>2, <1>4
<1>6. /\ rows'[t] \in Seq(S) /\ Len(rows'[t]) = Len(rows[t]) + 1
      /\ DOMAIN rows[t] \subseteq DOMAIN rows'[t]
  BY <1>3, <1>4, <1>5
<1>7. \A u \in Tables : /\ rows'[u] \in Seq(VaultRow(u)) /\ Len(rows'[u]) <= MaxRows[u]
                        /\ DOMAIN rows[u] \subseteq DOMAIN rows'[u]
  <2> TAKE u \in Tables
  <2>1. CASE u = t
    BY <1>2, <1>4, <1>6, <2>1 DEF S
  <2>2. CASE u # t
    BY <1>1, <1>5, <2>2 DEF VaultTyped
  <2> QED BY <2>1, <2>2
<1>8. IsVaultWrite(w) /\ WritesExisting(w)
  <2>1. Len(rows'[t]) \in Nat
    BY <1>4, <1>6
  <2>2. row \in VaultRow("item")
    BY <2>1, RowKinds DEF Item
  <2> HIDE DEF row
  <2> QED BY <1>1, <2>2, InsertingTyped
<1>9. VaultTyped'
  <2>1. dropped' \subseteq Tables \X Nat /\ vaultCalm' \in BOOLEAN
    BY <1>1, <1>2 DEF VaultTyped
  <2> QED BY <1>1, <1>2, <1>5, <1>7, <1>8, <2>1, TypedCalls
<1> QED BY <1>2, <1>9, OnlyWrite

LEMMA ShareRequests ==
    ASSUME VaultInv, NEW r \in VaultRequests,
           ShareCreation(r) \/ ShareChange(r) \/ ShareRequest(r)
    PROVE  VaultInv'
<1> DEFINE t == "share"
<1>1. VaultTyped /\ t \in Tables /\ "item" \in Tables
  BY DEF VaultInv, Tables
<1>2. ASSUME NEW item, NEW e \in BOOLEAN, NEW s \in BOOLEAN, NewShare(r, item, e, s)
      PROVE  VaultInv'
  <2> DEFINE row == [live |-> TRUE, item |-> item, expired |-> FALSE,
                     canEdit |-> e, canShare |-> s]
             w == Inserting(t, row)
  <2>1. WillWrite(r, w) /\ item \in Live("item")
    BY <1>2 DEF NewShare
  <2>2. item \in Nat
    BY <1>1, <2>1, LiveRows
  <2>3. row \in VaultRow(t)
    BY <2>2, RowKinds DEF Share
  <2> HIDE DEF row
  <2>4. /\ IsVaultWrite(w) /\ WritesExisting(w)
        /\ w.op = "insert" /\ w.table = t /\ w.row = row
    BY <1>1, <2>3, InsertingTyped
  <2>5. CallFits(w)
    BY <2>4 DEF CallFits
  <2> QED BY <2>1, <2>4, <2>5, WillWriteKeeps
<1>3. ASSUME NEW id \in Live(t), UpdateSharedItem(r, id)
      PROVE  VaultInv'
  <2> DEFINE item == rows[t][id].item
             row == rows["item"][item]
             w == Saving("item", item, row)
  <2>1. WillWrite(r, w) /\ item \in Live("item")
    BY <1>3 DEF UpdateSharedItem
  <2> HIDE DEF item
  <2>2. row \in VaultRow("item")
    BY <1>1, <2>1, LiveRows
  <2>3. Homed => row.collection \in Live("collection")
    BY <2>1 DEF Homed
  <2> HIDE DEF row
  <2>4. /\ IsVaultWrite(w) /\ WritesExisting(w)
        /\ w.op = "save" /\ w.table = "item" /\ w.row = row /\ w.id = item
    BY <1>1, <2>1, <2>2, SavingTyped
  <2>5. Homed => CallFits(w)
    BY <2>1, <2>3, <2>4 DEF CallFits
  <2> QED BY <2>1, <2>4, <2>5, WillWriteKeeps DEF row, item
<1>4. ASSUME NEW id \in Live(t), NEW e \in BOOLEAN, NEW s \in BOOLEAN,
             NEW renewed \in BOOLEAN, UpdatePermissions(r, id, e, s, renewed)
      PROVE  VaultInv'
  <2> DEFINE old == rows[t][id]
             row == [old EXCEPT !.canEdit = e, !.canShare = s, !.expired = @ /\ ~renewed]
             w == Saving(t, id, row)
  <2>1. WillWrite(r, w)
    BY <1>4 DEF UpdatePermissions
  <2>2. row \in VaultRow(t)
    <3>1. old \in Share
      BY <1>1, LiveRows, RowKinds
    <3> HIDE DEF old
    <3> DEFINE ended == old.expired /\ ~renewed
    <3>2. ended \in BOOLEAN
      OBVIOUS
    <3>3. row = [old EXCEPT !.canEdit = e, !.canShare = s, !.expired = ended]
      OBVIOUS
    <3> HIDE DEF ended, row
    <3>4. row \in Share
      BY <3>1, <3>2, <3>3 DEF Share
    <3> QED BY <3>4, RowKinds
  <2> HIDE DEF row
  <2>3. /\ IsVaultWrite(w) /\ WritesExisting(w)
        /\ w.op = "save" /\ w.table = t /\ w.row = row /\ w.id = id
    BY <1>1, <2>2, SavingTyped
  <2>4. CallFits(w)
    BY <2>3 DEF CallFits
  <2> QED BY <2>1, <2>3, <2>4, WillWriteKeeps
<1>5. ASSUME NEW id \in Live(t), RevokeShare(r, id)
      PROVE  VaultInv'
  <2> DEFINE w == Dropping(t, id)
  <2>1. WillWrite(r, w)
    BY <1>5 DEF RevokeShare
  <2>2. /\ IsVaultWrite(w) /\ WritesExisting(w)
        /\ w.op = "drop" /\ w.table = t /\ w.id = id
    BY <1>1, LiveRows, DroppingTyped
  <2>3. CallFits(w)
    BY <2>2 DEF CallFits
  <2> QED BY <2>1, <2>2, <2>3, WillWriteKeeps
<1> QED BY <1>2, <1>3, <1>4, <1>5
        DEF ShareCreation, ShareChange, ShareRequest, CreateShare, ReShare

-----------------------------------------------------------------------------
(* What is written. *)

LEMMA RowWritten ==
    ASSUME VaultTyped, NEW t \in Tables, NEW id \in DOMAIN rows[t], NEW row \in VaultRow(t),
           rows' = [rows EXCEPT ![t][id] = row]
    PROVE  /\ DOMAIN rows' = Tables
           /\ \A u \in Tables : /\ rows'[u] \in Seq(VaultRow(u)) /\ Len(rows'[u]) <= MaxRows[u]
                                /\ DOMAIN rows'[u] = DOMAIN rows[u]
           /\ rows'[t][id] = row
           /\ \A u \in Tables : \A k \in DOMAIN rows[u] :
                 u # t \/ k # id => rows'[u][k] = rows[u][k]
<1> DEFINE S == VaultRow(t)
           old == rows[t]
           new == [old EXCEPT ![id] = row]
<1>1. DOMAIN rows = Tables /\ old \in Seq(S) /\ Len(old) <= MaxRows[t]
  BY DEF VaultTyped
<1>2. DOMAIN rows' = Tables /\ rows'[t] = new /\ \A u \in Tables \ {t} : rows'[u] = rows[u]
  BY <1>1
<1>3. /\ new \in Seq(S) /\ Len(new) = Len(old) /\ DOMAIN new = DOMAIN old
      /\ new[id] = row /\ \A k \in DOMAIN old \ {id} : new[k] = old[k]
  <2> HIDE DEF S, old
  <2>1. id \in DOMAIN old /\ row \in S
    BY DEF S, old
  <2> QED BY <1>1, <2>1
<1> HIDE DEF S, new
<1>4. ASSUME NEW u \in Tables
      PROVE  /\ rows'[u] \in Seq(VaultRow(u)) /\ Len(rows'[u]) <= MaxRows[u]
             /\ DOMAIN rows'[u] = DOMAIN rows[u]
             /\ \A k \in DOMAIN rows[u] : u # t \/ k # id => rows'[u][k] = rows[u][k]
  <2>1. CASE u = t
    BY <1>1, <1>2, <1>3, <2>1 DEF S
  <2>2. CASE u # t
    BY <1>2, <2>2 DEF VaultTyped
  <2> QED BY <2>1, <2>2
<1> QED BY <1>2, <1>3, <1>4

LEMMA InsertKeeps ==
    ASSUME VaultInv, NEW r \in VaultRequests, InsertVaultRow(r)
    PROVE  VaultInv'
<1> DEFINE w == vaultCalls[r]
           t == w.table
           row == w.row
           S == VaultRow(t)
           n == Len(rows[t]) + 1
<1>1. VaultTyped
  BY DEF VaultInv
<1>2. /\ w.op = "insert" /\ Len(rows[t]) < MaxRows[t]
      /\ rows' = [rows EXCEPT ![t] = Append(@, row)]
      /\ vaultCalls' = [vaultCalls EXCEPT ![r] = NoWrite]
      /\ UNCHANGED <<dropped, vaultCalm>>
  BY DEF InsertVaultRow, EndVaultCall
<1>3. t \in Tables /\ row \in S /\ w # NoWrite
  BY <1>1, <1>2, WriteKinds DEF VaultTyped, NoWrite
<1>4. rows[t] \in Seq(S) /\ Len(rows[t]) \in Nat /\ MaxRows[t] \in Nat /\ DOMAIN rows = Tables
  BY <1>1, <1>3, VaultAssumption DEF VaultTyped, Tables
<1> HIDE DEF w, S
<1>5. /\ rows'[t] = Append(rows[t], row) /\ DOMAIN rows' = Tables
      /\ \A u \in Tables \ {t} : rows'[u] = rows[u]
  BY <1>2, <1>3, <1>4
<1>6. /\ rows'[t] \in Seq(S) /\ Len(rows'[t]) = n
      /\ DOMAIN rows'[t] = DOMAIN rows[t] \cup {n} /\ n \notin DOMAIN rows[t]
      /\ rows'[t][n] = row
      /\ \A k \in DOMAIN rows[t] : rows'[t][k] = rows[t][k]
  <2> DEFINE old == rows[t]
  <2>1. old \in Seq(S) /\ row \in S
    BY <1>3, <1>4
  <2> HIDE DEF old, t, row
  <2>2. /\ Append(old, row) \in Seq(S) /\ Len(Append(old, row)) = Len(old) + 1
        /\ DOMAIN Append(old, row) = DOMAIN old \cup {Len(old) + 1}
        /\ Len(old) + 1 \notin DOMAIN old
        /\ Append(old, row)[Len(old) + 1] = row
        /\ \A k \in DOMAIN old : Append(old, row)[k] = old[k]
    BY <2>1
  <2> QED BY <1>5, <2>2 DEF old
<1> HIDE DEF n, t, row
<1>7. \A u \in Tables : /\ rows'[u] \in Seq(VaultRow(u)) /\ Len(rows'[u]) <= MaxRows[u]
                        /\ DOMAIN rows[u] \subseteq DOMAIN rows'[u]
  <2> TAKE u \in Tables
  <2>1. CASE u = t
    BY <1>2, <1>4, <1>6, <2>1 DEF S, n
  <2>2. CASE u # t
    BY <1>1, <1>5, <2>2 DEF VaultTyped
  <2> QED BY <2>1, <2>2
<1>8. VaultTyped'
  <2>1. dropped' \subseteq Tables \X Nat /\ vaultCalm' \in BOOLEAN
    BY <1>1, <1>2 DEF VaultTyped
  <2> QED BY <1>1, <1>2, <1>5, <1>7, <2>1, NoWriteFits, TypedCalls
<1>9. \A u \in Tables : \A k \in DOMAIN rows[u] : rows'[u][k] = rows[u][k]
  BY <1>5, <1>6
<1>10. ASSUME vaultCalm'
       PROVE  /\ vaultCalm /\ \A q \in VaultRequests \ {r} : vaultCalls[q] = NoWrite
              /\ OneDefault' /\ Homed' /\ DroppedStay' /\ CallFits(NoWrite)'
  <2>1. /\ \A q \in VaultRequests \ {r} : vaultCalls[q] = NoWrite
        /\ vaultCalm /\ CallFits(w) /\ OneDefault /\ Homed /\ DroppedStay
    BY <1>2, <1>3, <1>10, VaultAlone DEF w
  <2>2. "collection" \in Tables /\ "item" \in Tables
    BY DEF Tables
  <2>3. Live("collection") \subseteq Live("collection")'
    BY <1>7, <1>9, <2>2 DEF Live
  <2>4. Defaults' = Defaults
    <3>1. CASE t = "collection"
      <4>1. ~row.isDefault
        BY <1>2, <2>1, <3>1 DEF CallFits, t, row
      <4> QED BY <1>6, <1>9, <3>1, <4>1 DEF Defaults, Live
    <3>2. CASE t # "collection"
      BY <1>5, <2>2, <3>2 DEF Defaults, Live
    <3> QED BY <3>1, <3>2
  <2>5. Homed'
    <3> SUFFICES ASSUME NEW i \in Live("item")'
                 PROVE  rows'["item"][i].collection \in Live("collection")
      BY <2>3 DEF Homed
    <3>1. CASE i \in DOMAIN rows["item"]
      BY <1>9, <2>1, <2>2, <3>1 DEF Live, Homed
    <3>2. CASE i \notin DOMAIN rows["item"]
      <4>1. t = "item" /\ i = n
        BY <1>5, <1>6, <2>2, <3>2 DEF Live
      <4>2. row.collection \in Live("collection")
        BY <1>2, <2>1, <4>1 DEF CallFits, t, row
      <4> QED BY <1>6, <4>1, <4>2
    <3> QED BY <3>1, <3>2
  <2>6. DroppedStay'
    <3> SUFFICES ASSUME NEW d \in dropped
                 PROVE  d[2] \in DOMAIN rows'[d[1]] /\ ~rows'[d[1]][d[2]].live
      BY <1>2 DEF DroppedStay
    <3>1. d[1] \in Tables
      BY <1>1 DEF VaultTyped
    <3> QED BY <1>7, <1>9, <2>1, <3>1 DEF DroppedStay
  <2>7. CallFits(NoWrite)'
    BY NoWriteFits DEF CallFits, NoWrite
  <2> QED BY <2>1, <2>3, <2>4, <2>5, <2>6, <2>7 DEF OneDefault
<1> QED BY <1>2, <1>8, <1>10, OnlyWrite

(* A row is saved as it was read, but for what was asked to change. *)
LEMMA SaveRowKeeps ==
    ASSUME VaultInv, NEW r \in VaultRequests, SaveVaultRow(r)
    PROVE  VaultInv'
<1> DEFINE w == vaultCalls[r]
           t == w.table
           id == w.id
           row == w.row
<1>1. VaultTyped
  BY DEF VaultInv
<1>2. /\ w.op = "save"
      /\ rows' = IF t = "folder" /\ id \notin Live("folder") THEN rows
                 ELSE [rows EXCEPT ![t][id] = row]
      /\ vaultCalls' = [vaultCalls EXCEPT ![r] = NoWrite]
      /\ UNCHANGED <<dropped, vaultCalm>>
  BY DEF SaveVaultRow, EndVaultCall
<1>3. t \in Tables /\ row \in VaultRow(t) /\ w # NoWrite /\ id \in DOMAIN rows[t]
  BY <1>1, <1>2, WriteKinds DEF VaultTyped, NoWrite, WritesExisting
<1> HIDE DEF w, t, id, row
<1>4. /\ DOMAIN rows' = Tables
      /\ \A u \in Tables : /\ rows'[u] \in Seq(VaultRow(u)) /\ Len(rows'[u]) <= MaxRows[u]
                           /\ DOMAIN rows'[u] = DOMAIN rows[u]
  <2>1. CASE rows' = rows
    BY <1>1, <2>1 DEF VaultTyped
  <2>2. CASE rows' = [rows EXCEPT ![t][id] = row]
    BY <1>1, <1>3, <2>2, RowWritten
  <2> QED BY <1>2, <2>1, <2>2
<1>5. VaultTyped'
  <2>1. dropped' \subseteq Tables \X Nat /\ vaultCalm' \in BOOLEAN
    BY <1>1, <1>2 DEF VaultTyped
  <2>2. \A u \in Tables : /\ rows'[u] \in Seq(VaultRow(u)) /\ Len(rows'[u]) <= MaxRows[u]
                          /\ DOMAIN rows[u] \subseteq DOMAIN rows'[u]
    BY <1>4
  <2> QED BY <1>1, <1>2, <1>4, <2>1, <2>2, NoWriteFits, TypedCalls
<1>6. ASSUME vaultCalm'
      PROVE  /\ vaultCalm /\ \A q \in VaultRequests \ {r} : vaultCalls[q] = NoWrite
             /\ OneDefault' /\ Homed' /\ DroppedStay' /\ CallFits(NoWrite)'
  <2>1. /\ \A q \in VaultRequests \ {r} : vaultCalls[q] = NoWrite
        /\ vaultCalm /\ CallFits(w) /\ OneDefault /\ Homed /\ DroppedStay
    BY <1>2, <1>3, <1>6, VaultAlone DEF w
  <2>2. "collection" \in Tables /\ "item" \in Tables
    BY DEF Tables
  <2>3. id \in Live(t)
    BY <1>2, <2>1 DEF CallFits, t, id
  <2>4. /\ rows'[t][id] = row
        /\ \A u \in Tables : \A k \in DOMAIN rows[u] :
              u # t \/ k # id => rows'[u][k] = rows[u][k]
    <3>1. rows' = [rows EXCEPT ![t][id] = row]
      BY <1>2, <2>3
    <3> QED BY <1>1, <1>3, <3>1, RowWritten
  <2>5. Live("collection")' = Live("collection") /\ Defaults' = Defaults
    <3>1. CASE t = "collection"
      <4>1. row.live /\ row.isDefault = rows["collection"][id].isDefault
        BY <1>2, <2>1, <3>1 DEF CallFits, t, row, id
      <4>2. Live("collection")' = Live("collection")
        BY <1>4, <2>2, <2>3, <2>4, <3>1, <4>1 DEF Live
      <4> QED BY <1>4, <2>2, <2>4, <3>1, <4>1, <4>2 DEF Defaults, Live
    <3>2. CASE t # "collection"
      <4>1. Live("collection")' = Live("collection")
        BY <1>4, <2>2, <2>4, <3>2 DEF Live
      <4> QED BY <2>2, <2>4, <3>2, <4>1 DEF Defaults, Live
    <3> QED BY <3>1, <3>2
  <2>6. Homed'
    <3> SUFFICES ASSUME NEW i \in Live("item")'
                 PROVE  rows'["item"][i].collection \in Live("collection")
      BY <2>5 DEF Homed
    <3>1. CASE t = "item" /\ i = id
      <4>1. row.collection \in Live("collection")
        BY <1>2, <2>1, <3>1 DEF CallFits, t, row
      <4> QED BY <2>4, <3>1, <4>1
    <3>2. CASE ~(t = "item" /\ i = id)
      BY <1>4, <2>1, <2>2, <2>4, <3>2 DEF Live, Homed
    <3> QED BY <3>1, <3>2
  <2>7. DroppedStay'
    <3> SUFFICES ASSUME NEW d \in dropped
                 PROVE  d[2] \in DOMAIN rows'[d[1]] /\ ~rows'[d[1]][d[2]].live
      BY <1>2 DEF DroppedStay
    <3>1. d[1] \in Tables /\ d[2] \in DOMAIN rows[d[1]] /\ ~rows[d[1]][d[2]].live
      BY <1>1, <2>1 DEF VaultTyped, DroppedStay
    <3>2. d[1] # t \/ d[2] # id
      BY <2>3, <3>1 DEF Live
    <3> QED BY <1>4, <2>4, <3>1, <3>2
  <2>8. CallFits(NoWrite)'
    BY NoWriteFits DEF CallFits, NoWrite
  <2> QED BY <2>1, <2>5, <2>6, <2>7, <2>8 DEF OneDefault
<1> QED BY <1>2, <1>5, <1>6, OnlyWrite

(* The items of a collection that goes away move to the default one; then  *)
(* it can be dropped.                                                      *)
LEMMA MoveKeeps ==
    ASSUME VaultInv, NEW r \in VaultRequests, MoveItemsToCollection(r)
    PROVE  VaultInv'
<1> DEFINE w == vaultCalls[r]
           from == w.from
           to == w.to
           old == rows["item"]
           moved == [i \in DOMAIN old |->
                        IF old[i].live /\ old[i].collection = from
                        THEN [old[i] EXCEPT !.collection = to] ELSE old[i]]
           next == Dropping("collection", from)
<1>1. VaultTyped /\ "item" \in Tables /\ "collection" \in Tables
  BY DEF VaultInv, Tables
<1>2. /\ w.op = "move"
      /\ rows' = [rows EXCEPT !["item"] = moved]
      /\ vaultCalls' = [vaultCalls EXCEPT ![r] = next]
      /\ UNCHANGED <<dropped, vaultCalm>>
  BY DEF MoveItemsToCollection
<1>3. /\ w # NoWrite /\ from \in DOMAIN rows["collection"]
      /\ from \in 1..MaxRows["collection"] /\ to \in 1..MaxRows["collection"]
  BY <1>1, <1>2, WriteKinds DEF VaultTyped, NoWrite, WritesExisting
<1> HIDE DEF w
<1>4. old \in Seq(Item) /\ Len(old) <= MaxRows["item"] /\ DOMAIN rows = Tables
  BY <1>1, RowKinds DEF VaultTyped
<1>5. to \in Nat
  BY <1>3
<1> HIDE DEF from, to
<1>6. /\ DOMAIN moved = DOMAIN old
      /\ \A i \in DOMAIN old :
            /\ moved[i] \in Item /\ moved[i].live = old[i].live
            /\ moved[i].live /\ old[i].collection = from => moved[i].collection = to
            /\ old[i].collection # from => moved[i].collection = old[i].collection
  <2>1. ASSUME NEW i \in DOMAIN old
        PROVE  /\ moved[i] \in Item /\ moved[i].live = old[i].live
               /\ moved[i].live /\ old[i].collection = from => moved[i].collection = to
               /\ old[i].collection # from => moved[i].collection = old[i].collection
    <3> DEFINE o == old[i]
               m == moved[i]
    <3>1. o \in Item
      BY <1>4
    <3>2. m = IF o.live /\ o.collection = from THEN [o EXCEPT !.collection = to] ELSE o
      OBVIOUS
    <3> HIDE DEF o, m
    <3>3. /\ m \in Item /\ m.live = o.live
          /\ m.live /\ o.collection = from => m.collection = to
          /\ o.collection # from => m.collection = o.collection
      <4>1. CASE o.live /\ o.collection = from
        BY <1>5, <3>1, <3>2, <4>1 DEF Item
      <4>2. CASE ~(o.live /\ o.collection = from)
        BY <3>1, <3>2, <4>2
      <4> QED BY <4>1, <4>2
    <3> QED BY <3>3 DEF o, m
  <2> QED BY <2>1
<1>7. moved \in Seq(Item) /\ Len(moved) = Len(old)
  <2> HIDE DEF moved, old
  <2>1. Len(old) \in Nat /\ DOMAIN old = 1..Len(old)
    BY <1>4
  <2>2. moved \in [1..Len(old) -> Item]
    <3>1. moved = [i \in DOMAIN old |-> moved[i]]
      BY DEF moved
    <3> QED BY <1>6, <2>1, <3>1
  <2> QED BY <2>1, <2>2, LenProperties
<1> HIDE DEF moved, old, next
<1>8. /\ DOMAIN rows' = Tables /\ rows'["item"] = moved
      /\ \A u \in Tables \ {"item"} : rows'[u] = rows[u]
  BY <1>1, <1>2, <1>4
<1>9. \A u \in Tables : /\ rows'[u] \in Seq(VaultRow(u)) /\ Len(rows'[u]) <= MaxRows[u]
                        /\ DOMAIN rows[u] = DOMAIN rows'[u]
  <2> TAKE u \in Tables
  <2>1. CASE u = "item"
    BY <1>4, <1>6, <1>7, <1>8, <2>1, RowKinds DEF old
  <2>2. CASE u # "item"
    BY <1>1, <1>8, <2>2 DEF VaultTyped
  <2> QED BY <2>1, <2>2
<1>10. PICK v : /\ v = next /\ IsVaultWrite(v) /\ WritesExisting(v)
                /\ v.op = "drop" /\ v.table = "collection" /\ v.id = from
  BY <1>1, <1>3, DroppingTyped DEF next
<1>11. VaultTyped'
  <2>1. dropped' \subseteq Tables \X Nat /\ vaultCalm' \in BOOLEAN
    BY <1>1, <1>2 DEF VaultTyped
  <2>2. \A u \in Tables : /\ rows'[u] \in Seq(VaultRow(u)) /\ Len(rows'[u]) <= MaxRows[u]
                          /\ DOMAIN rows[u] \subseteq DOMAIN rows'[u]
    BY <1>9
  <2> QED BY <1>1, <1>2, <1>8, <1>10, <2>1, <2>2, TypedCalls
<1>12. ASSUME vaultCalm'
       PROVE  /\ vaultCalm /\ \A q \in VaultRequests \ {r} : vaultCalls[q] = NoWrite
              /\ OneDefault' /\ Homed' /\ DroppedStay' /\ CallFits(v)'
  <2>1. /\ \A q \in VaultRequests \ {r} : vaultCalls[q] = NoWrite
        /\ vaultCalm /\ CallFits(w) /\ OneDefault /\ Homed /\ DroppedStay
    BY <1>2, <1>3, <1>12, VaultAlone DEF w
  <2>2. from \notin Defaults /\ to \in Defaults /\ to \in Live("collection") /\ to # from
    BY <1>2, <2>1 DEF CallFits, from, to, Defaults
  <2>3. Live("collection")' = Live("collection") /\ Defaults' = Defaults
    BY <1>1, <1>8 DEF Live, Defaults
  <2>4. \A i \in Live("item")' : /\ i \in Live("item") /\ i \in DOMAIN old
                                 /\ moved[i].live
    BY <1>6, <1>8, <1>9, <1>1 DEF Live, old
  <2>5. \A i \in Live("item")' : /\ rows'["item"][i].collection \in Live("collection")
                                 /\ rows'["item"][i].collection # from
    BY <1>6, <1>8, <2>1, <2>2, <2>4 DEF Homed, old
  <2>6. DroppedStay'
    <3> SUFFICES ASSUME NEW d \in dropped
                 PROVE  d[2] \in DOMAIN rows'[d[1]] /\ ~rows'[d[1]][d[2]].live
      BY <1>2 DEF DroppedStay
    <3>1. d[1] \in Tables /\ d[2] \in DOMAIN rows[d[1]] /\ ~rows[d[1]][d[2]].live
      BY <1>1, <2>1 DEF VaultTyped, DroppedStay
    <3> QED BY <1>6, <1>8, <1>9, <3>1 DEF old
  <2>7. CallFits(v)'
    <3>1. CallFits(v)' <=> /\ v.id \notin Defaults'
                              /\ \A i \in Live("item")' : rows'["item"][i].collection # v.id
      BY <1>10 DEF CallFits
    <3> QED BY <1>10, <2>2, <2>3, <2>5, <3>1
  <2> QED BY <2>1, <2>3, <2>5, <2>6, <2>7 DEF OneDefault, Homed
<1> QED BY <1>2, <1>10, <1>11, <1>12, OnlyWrite

LEMMA DropKeeps ==
    ASSUME VaultInv, NEW r \in VaultRequests, DropVaultRow(r)
    PROVE  VaultInv'
<1> DEFINE w == vaultCalls[r]
           t == w.table
           id == w.id
           row == [rows[t][id] EXCEPT !.live = FALSE]
<1>1. VaultTyped
  BY DEF VaultInv
<1>2. /\ w.op = "drop"
      /\ rows' = [rows EXCEPT ![t][id] = row]
      /\ dropped' = dropped \cup {<<t, id>>}
      /\ vaultCalls' = [vaultCalls EXCEPT ![r] = NoWrite]
      /\ vaultCalm' = vaultCalm
  BY DEF DropVaultRow, EndVaultCall
<1>3. t \in Tables /\ w # NoWrite /\ id \in DOMAIN rows[t] /\ id \in Nat
  BY <1>1, <1>2, WriteKinds DEF VaultTyped, NoWrite, WritesExisting
<1>4. row \in VaultRow(t) /\ ~row.live
  <2> DEFINE S == VaultRow(t)
             old == rows[t]
  <2>1. old \in Seq(S) /\ id \in DOMAIN old
    BY <1>1, <1>3 DEF VaultTyped
  <2> HIDE DEF S, old
  <2>2. old[id] \in S
    BY <2>1
  <2> QED BY <1>3, <2>2, MarkedRows DEF S, old
<1> HIDE DEF w, t, id, row
<1>5. /\ DOMAIN rows' = Tables
      /\ \A u \in Tables : /\ rows'[u] \in Seq(VaultRow(u)) /\ Len(rows'[u]) <= MaxRows[u]
                           /\ DOMAIN rows'[u] = DOMAIN rows[u]
      /\ rows'[t][id] = row
      /\ \A u \in Tables : \A k \in DOMAIN rows[u] :
            u # t \/ k # id => rows'[u][k] = rows[u][k]
  BY <1>1, <1>2, <1>3, <1>4, RowWritten
<1>6. VaultTyped'
  <2>1. dropped' \subseteq Tables \X Nat /\ vaultCalm' \in BOOLEAN
    BY <1>1, <1>2, <1>3 DEF VaultTyped
  <2>2. \A u \in Tables : /\ rows'[u] \in Seq(VaultRow(u)) /\ Len(rows'[u]) <= MaxRows[u]
                          /\ DOMAIN rows[u] \subseteq DOMAIN rows'[u]
    BY <1>5
  <2> QED BY <1>1, <1>2, <1>5, <2>1, <2>2, NoWriteFits, TypedCalls
<1>7. ASSUME vaultCalm'
      PROVE  /\ vaultCalm /\ \A q \in VaultRequests \ {r} : vaultCalls[q] = NoWrite
             /\ OneDefault' /\ Homed' /\ DroppedStay' /\ CallFits(NoWrite)'
  <2>1. /\ \A q \in VaultRequests \ {r} : vaultCalls[q] = NoWrite
        /\ vaultCalm /\ CallFits(w) /\ OneDefault /\ Homed /\ DroppedStay
    BY <1>2, <1>3, <1>7, VaultAlone DEF w
  <2>2. "collection" \in Tables /\ "item" \in Tables
    BY DEF Tables
  <2>3. Live("item")' \subseteq Live("item")
    BY <1>4, <1>5, <2>2 DEF Live
  <2>4. /\ Live("collection")' = IF t = "collection" THEN Live("collection") \ {id}
                                 ELSE Live("collection")
        /\ t = "collection" => id \notin Defaults
        /\ t = "collection" => \A i \in Live("item") : rows["item"][i].collection # id
    <3>1. t = "collection" => /\ id \notin Defaults
                              /\ \A i \in Live("item") : rows["item"][i].collection # id
      BY <1>2, <2>1 DEF CallFits, t, id
    <3> QED BY <1>4, <1>5, <2>2, <3>1 DEF Live
  <2>5. Defaults' = Defaults
    BY <1>5, <2>2, <2>4 DEF Defaults, Live
  <2>6. Homed'
    <3> SUFFICES ASSUME NEW i \in Live("item")'
                 PROVE  rows'["item"][i].collection \in Live("collection")'
      BY DEF Homed
    <3>1. i \in Live("item") /\ i \in DOMAIN rows["item"] /\ rows'["item"][i].live
      BY <2>3 DEF Live
    <3>2. rows'["item"][i] = rows["item"][i]
      BY <1>4, <1>5, <2>2, <3>1
    <3> QED BY <2>1, <2>4, <3>1, <3>2 DEF Homed
  <2>7. DroppedStay'
    <3> SUFFICES ASSUME NEW d \in dropped'
                 PROVE  d[2] \in DOMAIN rows'[d[1]] /\ ~rows'[d[1]][d[2]].live
      BY DEF DroppedStay
    <3>1. CASE d[1] = t /\ d[2] = id
      BY <1>3, <1>4, <1>5, <3>1
    <3>2. CASE ~(d[1] = t /\ d[2] = id)
      <4>1. d \in dropped
        BY <1>2, <3>2
      <4>2. d[1] \in Tables /\ d[2] \in DOMAIN rows[d[1]] /\ ~rows[d[1]][d[2]].live
        BY <1>1, <2>1, <4>1 DEF VaultTyped, DroppedStay
      <4> QED BY <1>5, <3>2, <4>2
    <3> QED BY <3>1, <3>2
  <2>8. CallFits(NoWrite)'
    BY NoWriteFits DEF CallFits, NoWrite
  <2> QED BY <2>1, <2>4, <2>5, <2>6, <2>7, <2>8 DEF OneDefault, Defaults
<1> QED BY <1>2, <1>6, <1>7, OnlyWrite

LEMMA FailWriteKeeps ==
    ASSUME VaultInv, NEW r \in VaultRequests, FailVaultWrite(r)
    PROVE  VaultInv'
<1>1. /\ vaultCalls[r] # NoWrite
      /\ vaultCalls' = [vaultCalls EXCEPT ![r] = NoWrite]
      /\ UNCHANGED <<rows, dropped, vaultCalm>>
  BY DEF FailVaultWrite, EndVaultCall
<1>2. VaultTyped'
  <2>1. VaultTyped
    BY DEF VaultInv
  <2>2. /\ dropped' \subseteq Tables \X Nat /\ vaultCalm' \in BOOLEAN
        /\ DOMAIN rows' = Tables
        /\ \A u \in Tables : /\ rows'[u] \in Seq(VaultRow(u)) /\ Len(rows'[u]) <= MaxRows[u]
                             /\ DOMAIN rows[u] \subseteq DOMAIN rows'[u]
    BY <1>1, <2>1 DEF VaultTyped
  <2> QED BY <1>1, <2>1, <2>2, NoWriteFits, TypedCalls
<1>3. ASSUME vaultCalm'
      PROVE  /\ vaultCalm /\ \A q \in VaultRequests \ {r} : vaultCalls[q] = NoWrite
             /\ OneDefault' /\ Homed' /\ DroppedStay' /\ CallFits(NoWrite)'
  <2>1. /\ \A q \in VaultRequests \ {r} : vaultCalls[q] = NoWrite
        /\ vaultCalm /\ OneDefault /\ Homed /\ DroppedStay
    BY <1>1, <1>3, VaultAlone
  <2>2. Live("collection")' = Live("collection") /\ Live("item")' = Live("item")
        /\ Defaults' = Defaults
    BY <1>1 DEF Live, Defaults
  <2>3. CallFits(NoWrite)'
    BY NoWriteFits DEF CallFits, NoWrite
  <2> QED BY <1>1, <2>1, <2>2, <2>3 DEF OneDefault, Homed, DroppedStay
<1> QED BY <1>1, <1>2, <1>3, OnlyWrite

(* A share that ends, at any time, is no deletion. *)
LEMMA ExpireShareKeeps ==
    ASSUME VaultInv, NEW id \in Live("share"), ExpireShare(id)
    PROVE  VaultInv'
<1> DEFINE t == "share"
           old == rows[t][id]
           row == [old EXCEPT !.expired = TRUE]
<1>1. VaultTyped /\ t \in Tables /\ "collection" \in Tables /\ "item" \in Tables
  BY DEF VaultInv, Tables
<1>2. /\ rows' = [rows EXCEPT ![t][id] = row]
      /\ UNCHANGED <<vaultCalls, dropped, vaultCalm>>
  BY DEF ExpireShare
<1>3. /\ id \in DOMAIN rows[t] /\ row \in VaultRow(t) /\ row.live = old.live
  <2>1. id \in DOMAIN rows[t] /\ old \in Share
    BY <1>1, LiveRows, RowKinds
  <2> HIDE DEF old
  <2>2. row \in Share /\ row.live = old.live
    BY <2>1 DEF Share
  <2> QED BY <2>1, <2>2, RowKinds
<1> HIDE DEF row
<1>4. /\ DOMAIN rows' = Tables
      /\ \A u \in Tables : /\ rows'[u] \in Seq(VaultRow(u)) /\ Len(rows'[u]) <= MaxRows[u]
                           /\ DOMAIN rows'[u] = DOMAIN rows[u]
      /\ rows'[t][id] = row
      /\ \A u \in Tables : \A k \in DOMAIN rows[u] :
            u # t \/ k # id => rows'[u][k] = rows[u][k]
  BY <1>1, <1>2, <1>3, RowWritten
<1>5. /\ \A u \in Tables : Live(u)' = Live(u)
      /\ \A u \in Tables \ {t} : \A k \in DOMAIN rows[u] : rows'[u][k] = rows[u][k]
      /\ Defaults' = Defaults
  <2>1. \A u \in Tables : \A k \in DOMAIN rows[u] : rows'[u][k].live = rows[u][k].live
    BY <1>3, <1>4
  <2>2. \A u \in Tables : Live(u)' = Live(u)
    BY <1>4, <2>1 DEF Live
  <2> QED BY <1>1, <1>4, <2>2 DEF Defaults, Live
<1>6. ASSUME NEW w, IsVaultWrite(w)
      PROVE  /\ WritesExisting(w) => WritesExisting(w)'
             /\ CallFits(w) => CallFits(w)'
  <2>1. w.op \in {"save", "drop", "insert"} => w.table \in Tables
    BY <1>6, WriteKinds
  <2>2. WritesExisting(w) => WritesExisting(w)'
    BY <1>1, <1>4, <2>1 DEF WritesExisting
  <2>3. CallFits(w) => CallFits(w)'
    <3> SUFFICES ASSUME CallFits(w) PROVE CallFits(w)'
      OBVIOUS
    <3>1. w.op \in {"insert", "save"} /\ w.table = "item" =>
             w.row.collection \in Live("collection")'
      BY <1>1, <1>5 DEF CallFits
    <3>2. w.op = "save" => w.id \in Live(w.table)'
      BY <1>5, <2>1 DEF CallFits
    <3>3. w.op = "save" /\ w.table = "collection" =>
             w.row.live /\ w.row.isDefault = rows'["collection"][w.id].isDefault
      BY <1>1, <1>5 DEF CallFits, Live
    <3>4. w.op = "drop" /\ w.table = "collection" =>
             /\ w.id \notin Defaults'
             /\ \A i \in Live("item")' : rows'["item"][i].collection # w.id
      BY <1>1, <1>5 DEF CallFits, Live
    <3> QED BY <1>5, <3>1, <3>2, <3>3, <3>4 DEF CallFits
  <2> QED BY <2>2, <2>3
<1>7. VaultTyped'
  BY <1>1, <1>2, <1>4, <1>6 DEF VaultTyped, IsVaultWrite
<1>8. ASSUME vaultCalm'
      PROVE  /\ OneWrite' /\ OneDefault' /\ Homed' /\ DroppedStay'
             /\ \A r \in VaultRequests : CallFits(vaultCalls[r])'
  <2>1. /\ OneWrite /\ OneDefault /\ Homed /\ DroppedStay
        /\ \A r \in VaultRequests : CallFits(vaultCalls[r])
    BY <1>2, <1>8 DEF VaultInv
  <2>2. OneWrite' /\ OneDefault'
    BY <1>1, <1>2, <1>5, <2>1 DEF OneWrite, OneDefault
  <2>3. Homed'
    BY <1>1, <1>5, <2>1 DEF Homed, Live
  <2>4. DroppedStay'
    BY <1>1, <1>2, <1>3, <1>4, <2>1 DEF DroppedStay, VaultTyped
  <2>5. ASSUME NEW r \in VaultRequests
        PROVE  CallFits(vaultCalls[r])'
    <3>1. PICK w : w = vaultCalls[r] /\ IsVaultWrite(w) /\ CallFits(w)
      BY <1>1, <2>1 DEF VaultTyped
    <3>2. CallFits(w)' /\ vaultCalls'[r] = w
      BY <1>2, <1>6, <3>1
    <3> QED BY <3>2 DEF CallFits
  <2> QED BY <2>2, <2>3, <2>4, <2>5
<1> QED BY <1>7, <1>8 DEF VaultInv

LEMMA VaultStep ==
    ASSUME VaultInv, [OrgItemsNext]_vaultVars
    PROVE  VaultInv'
<1>1. CASE UNCHANGED vaultVars
  <2>1. UNCHANGED <<rows, vaultCalls, dropped, vaultCalm>>
    BY <1>1 DEF vaultVars
  <2>2. VaultTyped'
    BY <2>1 DEF VaultInv, VaultTyped, IsVaultWrite, WritesExisting
  <2>3. (OneWrite' <=> OneWrite) /\ (DroppedStay' <=> DroppedStay)
    BY <2>1 DEF OneWrite, DroppedStay
  <2>4. (\A t : Live(t)' = Live(t)) /\ Defaults' = Defaults
    BY <2>1 DEF Live, Defaults
  <2>5. (OneDefault' <=> OneDefault) /\ (Homed' <=> Homed)
    BY <2>1, <2>4 DEF OneDefault, Homed
  <2>6. \A r \in VaultRequests : CallFits(vaultCalls[r])' <=> CallFits(vaultCalls[r])
    BY <2>1, <2>4 DEF CallFits
  <2> QED BY <2>1, <2>2, <2>3, <2>5, <2>6 DEF VaultInv
<1>2. ASSUME NEW r \in VaultRequests, VaultWrite(r)
      PROVE  VaultInv'
  BY <1>2, InsertKeeps, SaveRowKeeps, MoveKeeps, DropKeeps, FailWriteKeeps DEF VaultWrite
<1>3. ASSUME NEW r \in VaultRequests,
             \/ CollectionCreation(r) \/ CollectionRequest(r) \/ FolderRequest(r)
             \/ ItemCreation(r) \/ ItemRequest(r)
             \/ ShareCreation(r) \/ ShareChange(r) \/ ShareRequest(r)
      PROVE  VaultInv'
  BY <1>3, CollectionRequests, FolderRequests, VaultItemRequests, SecondDefaultKeeps, ShareRequests
     DEF ItemCreation
<1> QED BY <1>1, <1>2, <1>3, ExpireShareKeeps DEF OrgItemsNext

LEMMA VaultInvariant == OrgItemsSpec => []VaultInv
<1> QED BY VaultInitInv, VaultStep, PTL DEF OrgItemsSpec

(* Whatever a request read before it wrote, and wherever a deletion of a   *)
(* collection stopped: while requests come one by one every live item is   *)
(* in a live collection and there is one default collection                *)
(* (collection_service.go:243).                                            *)
THEOREM ItemsHaveCollections == OrgItemsSpec => []NothingOrphaned
<1>1. ASSUME VaultInv
      PROVE  NothingOrphaned
  <2> SUFFICES ASSUME vaultCalm
               PROVE  Homed /\ Cardinality(Defaults) = 1
    BY DEF NothingOrphaned, Homed
  <2>1. Homed /\ \E d : Defaults = {d}
    BY <1>1 DEF VaultInv, OneDefault
  <2> QED BY <2>1, FS_Singleton
<1> QED BY <1>1, VaultInvariant, PTL

(* While requests come one by one, what was deleted in the vault is not    *)
(* written back (collection.go:171, organization_item.go:217).             *)
THEOREM DeletedRowsStay == OrgItemsSpec => []VaultStaysDeleted
<1>1. VaultInv => VaultStaysDeleted
  BY DEF VaultInv, DroppedStay, VaultStaysDeleted, Live
<1> QED BY <1>1, VaultInvariant, PTL

-----------------------------------------------------------------------------
(* A user's own items.  While changes come one by one there is one at most *)
(* under way, and the row it will save is the stored one with its patch.   *)

ItemsTyped ==
    /\ ownItems \in Seq(OwnItem)
    /\ asked \in Seq(OwnItem)
    /\ Len(asked) = Len(ownItems)
    /\ Len(ownItems) <= MaxItems
    /\ ownCalls \in [ItemRequests -> [id: 1..MaxItems, row: OwnItem, patch: Patches]
                                     \cup {NoSave}]
    /\ ownCalm \in BOOLEAN
    /\ \A r \in ItemRequests :
          ownCalls[r] # NoSave => ownCalls[r].id \in 1..Len(ownItems)

SavePending(w) ==
    /\ w.row.deleted = ownItems[w.id].deleted
    /\ w.row.fields = With(ownItems[w.id].fields, w.patch)

ItemsInOrder ==
    /\ ownItems = asked
    /\ \A r \in ItemRequests : ownCalls[r] # NoSave =>
          /\ SavePending(ownCalls[r])
          /\ \A q \in ItemRequests : ownCalls[q] # NoSave => q = r

ItemsInv == ItemsTyped /\ (ownCalm => ItemsInOrder)

ItemCalls == [id: 1..MaxItems, row: OwnItem, patch: Patches]

LEMMA WithFields ==
    ASSUME NEW fields \in [ItemFields -> BOOLEAN], NEW patch \in Patches
    PROVE  With(fields, patch) \in [ItemFields -> BOOLEAN]
<1>1. PICK named \in SUBSET ItemFields : patch \in [named -> BOOLEAN]
  BY DEF Patches
<1> QED  BY <1>1 DEF With

(* NoSave is the record without a row. *)
LEMMA CallOrNone ==
    ASSUME NEW w \in ItemCalls \cup {NoSave}, w # NoSave
    PROVE  /\ w \in ItemCalls /\ w.id \in Nat /\ w.row \in OwnItem
           /\ w.patch \in Patches
BY DEF ItemCalls

LEMMA ItemParts ==
    ASSUME NEW item \in OwnItem
    PROVE  /\ item.fields \in [ItemFields -> BOOLEAN] /\ item.deleted \in BOOLEAN
           /\ item = [deleted |-> item.deleted, fields |-> item.fields]
BY DEF OwnItem

LEMMA ItemChanged ==
    ASSUME NEW item \in OwnItem, NEW fields \in [ItemFields -> BOOLEAN]
    PROVE  /\ [item EXCEPT !.fields = fields] \in OwnItem
           /\ [item EXCEPT !.fields = fields].fields = fields
           /\ [item EXCEPT !.fields = fields].deleted = item.deleted
BY DEF OwnItem

LEMMA ItemMarked ==
    ASSUME NEW item \in OwnItem
    PROVE  [item EXCEPT !.deleted = TRUE] \in OwnItem
BY DEF OwnItem

LEMMA SameItem ==
    ASSUME NEW x \in OwnItem, NEW y \in OwnItem,
           x.deleted = y.deleted, x.fields = y.fields
    PROVE  x = y
BY ItemParts

LEMMA CreateItemKeeps ==
    ASSUME ItemsInv, NEW fields \in [ItemFields -> BOOLEAN], CreateOwnItem(fields)
    PROVE  ItemsInv'
<1> DEFINE item == [deleted |-> FALSE, fields |-> [fields EXCEPT !["autoFill"] = TRUE]]
           n == Len(ownItems)
<1>1. item \in OwnItem
  BY DEF OwnItem, ItemFields
<1>2. /\ ownItems' = Append(ownItems, item) /\ asked' = Append(asked, item)
      /\ n < MaxItems /\ UNCHANGED <<ownCalls, ownCalm>>
  BY DEF CreateOwnItem
<1> HIDE DEF item
<1>3. /\ ownItems \in Seq(OwnItem) /\ asked \in Seq(OwnItem) /\ Len(asked) = n
  BY DEF ItemsInv, ItemsTyped
<1>4. /\ ownItems' \in Seq(OwnItem) /\ asked' \in Seq(OwnItem)
      /\ Len(ownItems') = n + 1 /\ Len(asked') = n + 1 /\ n \in Nat
      /\ \A i \in 1..n : ownItems'[i] = ownItems[i]
  BY <1>1, <1>2, <1>3
<1>5. ItemsTyped'
  BY <1>2, <1>4, ItemsAssumption DEF ItemsInv, ItemsTyped
<1>6. ASSUME ownCalm'
      PROVE  ItemsInOrder'
  <2>1. ItemsInOrder
    BY <1>2, <1>6 DEF ItemsInv
  <2>2. ownItems' = asked'
    BY <1>2, <2>1 DEF ItemsInOrder
  <2>3. ASSUME NEW r \in ItemRequests, ownCalls[r] # NoSave
        PROVE  SavePending(ownCalls[r])'
    <3>1. ownCalls[r].id \in 1..n
      BY <2>3 DEF ItemsInv, ItemsTyped
    <3> QED  BY <1>2, <1>4, <2>1, <2>3, <3>1 DEF ItemsInOrder, SavePending
  <2> QED  BY <1>2, <2>1, <2>2, <2>3 DEF ItemsInOrder
<1> QED  BY <1>5, <1>6 DEF ItemsInv

LEMMA UpdateItemKeeps ==
    ASSUME ItemsInv, NEW r \in ItemRequests, NEW id \in DOMAIN ownItems,
           NEW patch \in Patches, UpdateOwnItem(r, id, patch)
    PROVE  ItemsInv'
<1> DEFINE row == [ownItems[id] EXCEPT !.fields = With(ownItems[id].fields, patch)]
           w == [id |-> id, patch |-> patch, row |-> row]
<1>1. /\ ownItems \in Seq(OwnItem) /\ Len(ownItems) <= MaxItems
      /\ ownCalls \in [ItemRequests -> ItemCalls \cup {NoSave}]
  BY DEF ItemsInv, ItemsTyped, ItemCalls
<1>2. id \in 1..Len(ownItems) /\ id \in 1..MaxItems /\ ownItems[id] \in OwnItem
  BY <1>1, ItemsAssumption
<1>3. /\ row \in OwnItem /\ row.deleted = ownItems[id].deleted
      /\ row.fields = With(ownItems[id].fields, patch)
  <2>1. With(ownItems[id].fields, patch) \in [ItemFields -> BOOLEAN]
    BY <1>2, ItemParts, WithFields
  <2> QED  BY <1>2, <2>1, ItemChanged
<1>4. ownCalls' = [ownCalls EXCEPT ![r] = w] /\ UNCHANGED <<ownItems, asked>>
  BY DEF UpdateOwnItem
<1> HIDE DEF row
<1>5. w \in ItemCalls /\ w.id = id /\ w.row = row /\ w.patch = patch
  BY <1>2, <1>3 DEF ItemCalls
<1> HIDE DEF w
<1>6. /\ ownCalls'[r] = w
      /\ \A q \in ItemRequests : q # r => ownCalls'[q] = ownCalls[q]
      /\ ownCalls' \in [ItemRequests -> ItemCalls \cup {NoSave}]
  BY <1>1, <1>4, <1>5
<1>7. ownCalm' = (ownCalm /\ NobodySaves)
  BY DEF UpdateOwnItem
<1>8. ItemsTyped'
  <2>1. \A q \in ItemRequests :
           ownCalls'[q] # NoSave => ownCalls'[q].id \in 1..Len(ownItems)
    BY <1>2, <1>5, <1>6 DEF ItemsInv, ItemsTyped
  <2>2. ownCalm' \in BOOLEAN
    BY <1>7
  <2> QED  BY <1>4, <1>6, <2>1, <2>2 DEF ItemsInv, ItemsTyped, ItemCalls
<1>9. ASSUME ownCalm'
      PROVE  ItemsInOrder'
  <2>1. ItemsInOrder /\ NobodySaves
    BY <1>7, <1>9 DEF ItemsInv
  <2>2. \A q \in ItemRequests : ownCalls'[q] # NoSave => q = r
    BY <1>6, <2>1 DEF NobodySaves
  <2>3. SavePending(ownCalls[r])'
    BY <1>3, <1>4, <1>5, <1>6 DEF SavePending
  <2> QED  BY <1>4, <1>6, <2>1, <2>2, <2>3 DEF ItemsInOrder
<1> QED  BY <1>8, <1>9 DEF ItemsInv

LEMMA SaveItemKeeps ==
    ASSUME ItemsInv, NEW r \in ItemRequests, SaveOwnItem(r)
    PROVE  ItemsInv'
<1> DEFINE w == ownCalls[r]
           n == Len(ownItems)
           wish == [asked[w.id] EXCEPT !.fields = With(asked[w.id].fields, w.patch)]
<1>1. /\ ownItems \in Seq(OwnItem) /\ asked \in Seq(OwnItem) /\ Len(asked) = n
      /\ ownCalls \in [ItemRequests -> ItemCalls \cup {NoSave}]
  BY DEF ItemsInv, ItemsTyped, ItemCalls
<1>2. w # NoSave /\ w.id \in 1..n
  BY DEF SaveOwnItem, ItemsInv, ItemsTyped
<1>3. w \in ItemCalls /\ w.row \in OwnItem /\ w.patch \in Patches
  BY <1>1, <1>2, CallOrNone
<1>4. ownItems[w.id] \in OwnItem /\ asked[w.id] \in OwnItem
  BY <1>1, <1>2
<1>5. /\ wish \in OwnItem /\ wish.deleted = asked[w.id].deleted
      /\ wish.fields = With(asked[w.id].fields, w.patch)
  <2>1. With(asked[w.id].fields, w.patch) \in [ItemFields -> BOOLEAN]
    BY <1>3, <1>4, ItemParts, WithFields
  <2> QED  BY <1>4, <2>1, ItemChanged
<1>6. /\ ownItems' = [ownItems EXCEPT ![w.id] = w.row]
      /\ asked' = [asked EXCEPT ![w.id] = wish]
      /\ ownCalls' = [ownCalls EXCEPT ![r] = NoSave] /\ UNCHANGED ownCalm
  BY DEF SaveOwnItem
<1> HIDE DEF wish
<1>7. /\ ownItems' \in Seq(OwnItem) /\ asked' \in Seq(OwnItem)
      /\ Len(ownItems') = n /\ Len(asked') = n
  BY <1>1, <1>2, <1>3, <1>5, <1>6
<1>8. /\ ownCalls'[r] = NoSave
      /\ \A q \in ItemRequests : q # r => ownCalls'[q] = ownCalls[q]
      /\ ownCalls' \in [ItemRequests -> ItemCalls \cup {NoSave}]
  BY <1>1, <1>6
<1>9. ItemsTyped'
  BY <1>6, <1>7, <1>8 DEF ItemsInv, ItemsTyped, ItemCalls
<1>10. ASSUME ownCalm'
       PROVE  ItemsInOrder'
  <2>1. ItemsInOrder
    BY <1>6, <1>10 DEF ItemsInv
  <2>2. wish = w.row
    <3>1. w.row.deleted = wish.deleted /\ w.row.fields = wish.fields
      BY <1>2, <1>5, <2>1 DEF ItemsInOrder, SavePending
    <3> QED  BY <1>3, <1>5, <3>1, SameItem
  <2>3. ownItems' = asked'
    BY <1>6, <2>1, <2>2 DEF ItemsInOrder
  <2>4. \A q \in ItemRequests : ownCalls'[q] = NoSave
    BY <1>2, <1>8, <2>1 DEF ItemsInOrder
  <2> QED  BY <2>3, <2>4 DEF ItemsInOrder
<1> QED  BY <1>9, <1>10 DEF ItemsInv

LEMMA FailItemKeeps ==
    ASSUME ItemsInv, NEW r \in ItemRequests, FailOwnItem(r)
    PROVE  ItemsInv'
<1>1. /\ ownCalls \in [ItemRequests -> ItemCalls \cup {NoSave}]
      /\ ownCalls' = [ownCalls EXCEPT ![r] = NoSave]
      /\ UNCHANGED <<ownItems, asked, ownCalm>>
  BY DEF FailOwnItem, ItemsInv, ItemsTyped, ItemCalls
<1>2. /\ ownCalls'[r] = NoSave
      /\ \A q \in ItemRequests : q # r => ownCalls'[q] = ownCalls[q]
      /\ ownCalls' \in [ItemRequests -> ItemCalls \cup {NoSave}]
  BY <1>1
<1>3. ItemsTyped'
  BY <1>1, <1>2 DEF ItemsInv, ItemsTyped, ItemCalls
<1>4. ASSUME ownCalm'
      PROVE  ItemsInOrder'
  <2>1. ItemsInOrder
    BY <1>1, <1>4 DEF ItemsInv
  <2>2. \A q \in ItemRequests : ownCalls'[q] # NoSave => ownCalls'[q] = ownCalls[q]
    BY <1>2
  <2> QED  BY <1>1, <2>1, <2>2 DEF ItemsInOrder, SavePending
<1> QED  BY <1>3, <1>4 DEF ItemsInv

LEMMA DeleteItemKeeps ==
    ASSUME ItemsInv, NEW id \in DOMAIN ownItems, DeleteOwnItem(id)
    PROVE  ItemsInv'
<1> DEFINE n == Len(ownItems)
           gone == [ownItems[id] EXCEPT !.deleted = TRUE]
           wish == [asked[id] EXCEPT !.deleted = TRUE]
<1>1. ownItems \in Seq(OwnItem) /\ asked \in Seq(OwnItem) /\ Len(asked) = n
  BY DEF ItemsInv, ItemsTyped
<1>2. id \in 1..n /\ ownItems[id] \in OwnItem /\ asked[id] \in OwnItem
  BY <1>1
<1>3. gone \in OwnItem /\ wish \in OwnItem
  BY <1>2, ItemMarked
<1>4. /\ ownItems' = [ownItems EXCEPT ![id] = gone]
      /\ asked' = [asked EXCEPT ![id] = wish]
      /\ ownCalm' = (ownCalm /\ NobodySaves) /\ UNCHANGED ownCalls
  BY DEF DeleteOwnItem
<1>5. ownItems = asked => gone = wish
  OBVIOUS
<1> HIDE DEF gone, wish
<1>6. /\ ownItems' \in Seq(OwnItem) /\ asked' \in Seq(OwnItem)
      /\ Len(ownItems') = n /\ Len(asked') = n
  BY <1>1, <1>2, <1>3, <1>4
<1>7. ItemsTyped'
  <2>1. ownCalm' \in BOOLEAN
    BY <1>4
  <2> QED  BY <1>4, <1>6, <2>1 DEF ItemsInv, ItemsTyped
<1>8. ASSUME ownCalm'
      PROVE  ItemsInOrder'
  <2>1. ItemsInOrder /\ NobodySaves
    BY <1>4, <1>8 DEF ItemsInv
  <2>2. ownItems' = asked'
    BY <1>4, <1>5, <2>1 DEF ItemsInOrder
  <2> QED  BY <1>4, <2>1, <2>2 DEF ItemsInOrder, NobodySaves
<1> QED  BY <1>7, <1>8 DEF ItemsInv

LEMMA ItemsHold == ItemsSpec => []ItemsInv
<1>1. ItemsInit => ItemsInv
  <2>1. ASSUME ItemsInit PROVE ItemsInv
    <3>1. /\ ownItems = <<>> /\ asked = <<>> /\ ownCalm = TRUE
          /\ ownCalls = [r \in ItemRequests |-> NoSave]
      BY <2>1 DEF ItemsInit
    <3>2. ItemsTyped
      BY <3>1, ItemsAssumption DEF ItemsTyped
    <3> QED  BY <3>1, <3>2 DEF ItemsInv, ItemsInOrder
  <2> QED  BY <2>1
<1>2. ItemsInv /\ [ItemsNext]_ownVars => ItemsInv'
  <2>1. ASSUME ItemsInv, UNCHANGED ownVars PROVE ItemsInv'
    BY <2>1 DEF ItemsInv, ItemsTyped, ItemsInOrder, SavePending, ownVars
  <2> QED  BY <2>1, CreateItemKeeps, UpdateItemKeeps, SaveItemKeeps,
              FailItemKeeps, DeleteItemKeeps DEF ItemsNext, OwnItemRequest
<1> QED  BY <1>1, <1>2, PTL DEF ItemsSpec

(* While changes come one by one, an item is what its changes made of it,  *)
(* for any number of them, failed ones included: what a request does not   *)
(* name it leaves alone (Update: the item is read in one transaction and   *)
(* the whole row saved in another).                                        *)
THEOREM ItemsAreAsAsked == ItemsSpec => []ItemsAsAsked
<1>1. ItemsInv => ItemsAsAsked
  BY DEF ItemsInv, ItemsInOrder, ItemsAsAsked
<1> QED  BY <1>1, ItemsHold, PTL

-----------------------------------------------------------------------------
(* Collections and teams.  While requests come one by one, what a request  *)
(* looked up before its write is still so when it writes.                  *)

StoredRow == AccessRow \cup {Gone}

LiveGrants(grants) == {id \in DOMAIN grants : grants[id] # Gone}

RowsWithKey(grants, holder, object) ==
    {id \in LiveGrants(grants) : grants[id].holder = holder /\ grants[id].object = object}

(* x: the keys excepted, because a row was not seen. *)
OneRowPerKey(grants, x) ==
    \A a, b \in LiveGrants(grants) :
        grants[a].holder = grants[b].holder /\ grants[a].object = grants[b].object
        => a = b \/ <<grants[a].holder, grants[a].object>> \in x

(* An insert's key is free, a save's row is there under its key, and the   *)
(* members a group is missing have no row of it.                           *)
WriteFits(w, grants, x) ==
    /\ w.op = "insert" => \/ RowsWithKey(grants, w.row.holder, w.row.object) = {}
                          \/ <<w.row.holder, w.row.object>> \in x
    /\ w.op = "save" =>
          /\ w.id \in LiveGrants(grants)
          /\ w.row.holder = grants[w.id].holder /\ w.row.object = grants[w.id].object
    /\ w.op = "sync" =>
          \A m \in w.missing : RowsWithKey(grants, m, w.team) = {} \/ <<m, w.team>> \in x

(* A team to be saved was created. *)
TeamKnown(w, last) == w.op \in {"saveTeam", "syncTeam"} => w.team \in 1..last

AccessTyped ==
    /\ AccessTypeOK
    /\ accessRows \in Seq(StoredRow)
    /\ \A r \in AccessRequests :
          /\ accessCalls[r].op = "save" => accessCalls[r].id \in DOMAIN accessRows
          /\ TeamKnown(accessCalls[r], lastTeam)

AccessInOrder ==
    /\ OneRowPerKey(accessRows, unseen)
    /\ \A r \in AccessRequests :
          /\ WriteFits(accessCalls[r], accessRows, unseen)
          /\ accessCalls[r] # AccessIdle =>
                \A q \in AccessRequests : accessCalls[q] # AccessIdle => q = r

AccessInv == AccessTyped /\ (accessCalm => AccessInOrder)

(* Rows and writes as the requests build them. *)
LEMMA GrantIsRow ==
    ASSUME NEW holder \in OrgMembers \cup 1..MaxTeams, NEW c \in Collections,
           NEW rights \in SUBSET {"read", "write", "admin"}
    PROVE  [holder |-> holder, object |-> c, rights |-> rights] \in AccessRow
BY DEF AccessRow, CollectionUser, CollectionTeam

LEMMA TeamUserIsRow ==
    ASSUME NEW m \in OrgMembers, NEW t \in 1..MaxTeams, NEW g \in BOOLEAN
    PROVE  [holder |-> m, object |-> t, manager |-> g] \in AccessRow
BY DEF AccessRow, TeamUser

LEMMA ManagerChanged ==
    ASSUME NEW row \in AccessRow, NEW g \in BOOLEAN
    PROVE  /\ [row EXCEPT !.manager = g] \in AccessRow
           /\ [row EXCEPT !.manager = g].holder = row.holder
           /\ [row EXCEPT !.manager = g].object = row.object
<1>1. CASE row \in TeamUser
  BY <1>1 DEF TeamUser, AccessRow
<1>2. CASE row \in CollectionUser \cup CollectionTeam
  <2>1. DOMAIN row = {"holder", "object", "rights"}
        /\ row = [x \in {"holder", "object", "rights"} |-> row[x]]
    BY <1>2 DEF CollectionUser, CollectionTeam
  <2>2. [row EXCEPT !.manager = g] = row
    BY <2>1
  <2> QED  BY <2>2
<1> QED  BY <1>1, <1>2 DEF AccessRow

LEMMA WritesTyped ==
    /\ \A row \in AccessRow : [op |-> "insert", row |-> row] \in AccessWrites
    /\ \A row \in AccessRow, id \in 1..MaxAccessRows :
          [op |-> "save", id |-> id, row |-> row] \in AccessWrites
    /\ \A ids \in SUBSET (1..MaxAccessRows) :
          [op |-> "drop", ids |-> ids] \in AccessWrites
    /\ \A h \in OrgMembers \cup 1..MaxTeams, o \in Collections \cup 1..MaxTeams :
          [op |-> "dropKey", holder |-> h, object |-> o] \in AccessWrites
    /\ \A m \in OrgMembers : [op |-> "removeMember", member |-> m] \in AccessWrites
    /\ \A t \in 1..MaxTeams, op \in {"saveTeam", "syncTeam", "dropTeam"} :
          [op |-> op, team |-> t] \in AccessWrites
    /\ \A t \in 1..MaxTeams, missing \in SUBSET OrgMembers,
          surplus \in SUBSET (1..MaxAccessRows) :
          [op |-> "sync", team |-> t, missing |-> missing, surplus |-> surplus]
             \in AccessWrites
    /\ AccessIdle \in AccessWrites
BY DEF AccessWrites

LEMMA WriteParts ==
    ASSUME NEW w \in AccessWrites
    PROVE  /\ w.op = "insert" => w.row \in AccessRow
           /\ w.op = "save" => w.id \in 1..MaxAccessRows /\ w.row \in AccessRow
           /\ w.op \in {"saveTeam", "syncTeam", "dropTeam"} => w.team \in 1..MaxTeams
           /\ w.op = "sync" =>
                 /\ w = [op |-> "sync", team |-> w.team, missing |-> w.missing,
                         surplus |-> w.surplus]
                 /\ w.team \in 1..MaxTeams /\ w.missing \in SUBSET OrgMembers
                 /\ w.surplus \in SUBSET (1..MaxAccessRows)
BY DEF AccessWrites, AccessIdle

LEMMA OtherWriteFits ==
    ASSUME NEW w, w.op \notin {"insert", "save", "sync"}, NEW grants
    PROVE  \A x : WriteFits(w, grants, x)
BY DEF WriteFits

(* More keys may be excepted. *)
LEMMA MoreExcepted ==
    ASSUME NEW x, NEW y, x \subseteq y
    PROVE  /\ \A grants : OneRowPerKey(grants, x) => OneRowPerKey(grants, y)
           /\ \A w, grants : WriteFits(w, grants, x) => WriteFits(w, grants, y)
<1>1. ASSUME NEW grants, OneRowPerKey(grants, x)
      PROVE  OneRowPerKey(grants, y)
  BY <1>1 DEF OneRowPerKey
<1>2. ASSUME NEW w, NEW grants, WriteFits(w, grants, x)
      PROVE  WriteFits(w, grants, y)
  BY <1>2 DEF WriteFits
<1> QED  BY <1>1, <1>2

LEMMA NoTeamSaved ==
    ASSUME NEW w, w.op \notin {"saveTeam", "syncTeam"}, NEW last
    PROVE  TeamKnown(w, last)
BY DEF TeamKnown

LEMMA IdleWriteFits ==
    ASSUME NEW grants
    PROVE  (\A x : WriteFits(AccessIdle, grants, x)) /\ AccessIdle.op = "none"
BY DEF WriteFits, AccessIdle

LEMMA RowsForIs ==
    /\ RowIds = LiveGrants(accessRows)
    /\ \A h, o : RowsFor(h, o) = RowsWithKey(accessRows, h, o)
BY DEF RowIds, LiveGrants, RowsFor, RowsWithKey

LEMMA FirstRowIsOne ==
    ASSUME NEW ids \in SUBSET Nat, ids # {}
    PROVE  FirstRow(ids) \in ids
<1>1. PICK x \in ids : \A y \in ids : ~ (<<y, x>> \in OpToRel(<, Nat))
  BY NatLessThanWellFounded, WFMin, Zenon
<1>2. x \in Nat /\ ids \subseteq Nat
  BY <1>1
<1>3. \A y \in ids : ~ (y < x)
  BY <1>1, <1>2 DEF OpToRel
<1>4. \A y \in ids : x <= y
  BY <1>2, <1>3
<1> QED  BY <1>4 DEF FirstRow

LEMMA AccessFacts ==
    ASSUME AccessInv
    PROVE  /\ accessRows \in Seq(StoredRow) /\ Len(accessRows) <= MaxAccessRows
           /\ accessCalls \in [AccessRequests -> AccessWrites]
           /\ lastTeam \in 1..MaxTeams /\ teams \subseteq 1..lastTeam
           /\ orgMembers \subseteq OrgMembers /\ MaxTeams \in Nat
           /\ MaxAccessRows \in Nat /\ accessCalm \in BOOLEAN
           /\ unseen \subseteq AccessKeys
           /\ \A t \in 1..lastTeam : t \in 1..MaxTeams
           /\ DOMAIN accessRows = 1..Len(accessRows)
           /\ \A id \in DOMAIN accessRows : id \in 1..MaxAccessRows
<1>1. /\ AccessTypeOK /\ accessRows \in Seq(StoredRow)
  BY DEF AccessInv, AccessTyped
<1> QED  BY <1>1, AccessAssumption DEF AccessTypeOK

(* A request arrives: it writes nothing yet. *)
LEMMA BeginWriteKeeps ==
    ASSUME AccessInv, NEW r \in AccessRequests, NEW w \in AccessWrites,
           unseen \subseteq unseen', unseen' \subseteq AccessKeys,
           WriteFits(w, accessRows, unseen'), TeamKnown(w, lastTeam), BeginWrite(r, w)
    PROVE  AccessInv'
<1>1. /\ UNCHANGED <<orgMembers, teams, lastTeam, accessRows>>
      /\ accessCalls' = [accessCalls EXCEPT ![r] = w]
      /\ accessCalm' = (accessCalm /\ NobodyChangesAccess)
  BY DEF BeginWrite
<1>2. /\ accessCalls'[r] = w
      /\ \A q \in AccessRequests : q # r => accessCalls'[q] = accessCalls[q]
      /\ accessCalls' \in [AccessRequests -> AccessWrites]
  BY <1>1, AccessFacts
<1>3. w.op = "save" => w.id \in DOMAIN accessRows
  BY DEF WriteFits, LiveGrants
<1>4. AccessTyped'
  <2>1. accessCalm' \in BOOLEAN
    BY <1>1
  <2>2. \A q \in AccessRequests :
           /\ accessCalls'[q].op = "save" => accessCalls'[q].id \in DOMAIN accessRows
           /\ TeamKnown(accessCalls'[q], lastTeam)
    BY <1>2, <1>3 DEF AccessInv, AccessTyped
  <2> QED  BY <1>1, <1>2, <2>1, <2>2 DEF AccessInv, AccessTyped, AccessTypeOK
<1>5. ASSUME accessCalm'
      PROVE  AccessInOrder'
  <2>1. AccessInOrder /\ NobodyChangesAccess
    BY <1>1, <1>5 DEF AccessInv
  <2>2. \A q \in AccessRequests : accessCalls'[q] # AccessIdle => q = r
    BY <1>2, <2>1 DEF NobodyChangesAccess
  <2>3. /\ OneRowPerKey(accessRows, unseen')
        /\ \A q \in AccessRequests : WriteFits(accessCalls[q], accessRows, unseen')
    BY <2>1, MoreExcepted DEF AccessInOrder
  <2>4. \A q \in AccessRequests : WriteFits(accessCalls'[q], accessRows, unseen')
    BY <1>2, <2>3
  <2> QED  BY <1>1, <2>2, <2>3, <2>4 DEF AccessInOrder
<1> QED  BY <1>4, <1>5 DEF AccessInv

LEMMA WillChangeKeeps ==
    ASSUME AccessInv, NEW r \in AccessRequests, NEW w \in AccessWrites,
           WriteFits(w, accessRows, unseen), TeamKnown(w, lastTeam), WillChange(r, w)
    PROVE  AccessInv'
BY AccessFacts, BeginWriteKeeps DEF WillChange

(* A lookup that saw no row: its key is free or excepted from now on. *)
LEMMA NotSeenFits ==
    ASSUME AccessInv, NEW row \in AccessRow, NoRowSeen(row.holder, row.object)
    PROVE  /\ unseen \subseteq unseen' /\ unseen' \subseteq AccessKeys
           /\ \/ RowsFor(row.holder, row.object) = {}
              \/ <<row.holder, row.object>> \in unseen'
           /\ WriteFits([op |-> "insert", row |-> row], accessRows, unseen')
           /\ TeamKnown([op |-> "insert", row |-> row], lastTeam)
<1>1. unseen' = unseen \cup {<<row.holder, row.object>> :
                                id \in RowsFor(row.holder, row.object)}
  BY DEF NoRowSeen
<1>2. row.holder \in OrgMembers \cup 1..MaxTeams
      /\ row.object \in Collections \cup 1..MaxTeams
  BY DEF AccessRow, TeamUser, CollectionUser, CollectionTeam
<1>3. unseen \subseteq unseen' /\ unseen' \subseteq AccessKeys
  BY <1>1, <1>2, AccessFacts DEF AccessKeys
<1>4. RowsFor(row.holder, row.object) = {} \/ <<row.holder, row.object>> \in unseen'
  BY <1>1
<1> DEFINE w == [op |-> "insert", row |-> row]
<1>5. w.op = "insert" /\ w.row = row
  OBVIOUS
<1> HIDE DEF w
<1>6. WriteFits(w, accessRows, unseen') /\ TeamKnown(w, lastTeam)
  BY <1>4, <1>5, RowsForIs DEF WriteFits, TeamKnown
<1> QED  BY <1>3, <1>4, <1>6 DEF w

(* A request writes, and ends or goes on with w. *)
LEMMA WritingAccessKeeps ==
    ASSUME AccessInv, NEW r \in AccessRequests, NEW w \in AccessWrites,
           w.op \notin {"save", "saveTeam", "syncTeam"}, NEW grants \in Seq(StoredRow),
           Len(grants) <= MaxAccessRows, Len(accessRows) <= Len(grants),
           accessRows' = grants, accessCalls' = [accessCalls EXCEPT ![r] = w],
           accessCalls[r] # AccessIdle, UNCHANGED accessCalm,
           orgMembers' \subseteq OrgMembers, teams' \subseteq 1..lastTeam,
           UNCHANGED lastTeam, unseen' \subseteq AccessKeys,
           accessCalm => OneRowPerKey(grants, unseen') /\ WriteFits(w, grants, unseen')
    PROVE  AccessInv'
<1>1. /\ accessCalls'[r] = w
      /\ \A q \in AccessRequests : q # r => accessCalls'[q] = accessCalls[q]
      /\ accessCalls' \in [AccessRequests -> AccessWrites]
  BY AccessFacts
<1>2. DOMAIN accessRows \subseteq DOMAIN grants
  BY AccessFacts
<1>3. AccessTyped'
  <2>1. \A id \in DOMAIN grants : grants[id] \in AccessRow \cup {Gone}
    BY DEF StoredRow
  <2>2. \A q \in AccessRequests :
           /\ accessCalls'[q].op = "save" => accessCalls'[q].id \in DOMAIN grants
           /\ TeamKnown(accessCalls'[q], lastTeam)
    BY <1>1, <1>2 DEF AccessInv, AccessTyped, TeamKnown
  <2> QED  BY <1>1, <2>1, <2>2 DEF AccessInv, AccessTyped, AccessTypeOK
<1>4. ASSUME accessCalm'
      PROVE  AccessInOrder'
  <2>1. AccessInOrder /\ OneRowPerKey(grants, unseen') /\ WriteFits(w, grants, unseen')
    BY <1>4 DEF AccessInv
  <2>2. \A q \in AccessRequests : q # r => accessCalls'[q] = AccessIdle
    BY <1>1, <2>1 DEF AccessInOrder
  <2>3. \A q \in AccessRequests : WriteFits(accessCalls'[q], grants, unseen')
    BY <1>1, <2>1, <2>2, IdleWriteFits
  <2>4. \A q \in AccessRequests : accessCalls'[q] # AccessIdle => q = r
    BY <2>2
  <2> QED  BY <2>1, <2>3, <2>4 DEF AccessInOrder
<1> QED  BY <1>3, <1>4 DEF AccessInv

(* Requests that look for a row of the key they write. *)
LEMMA FoundRow ==
    ASSUME AccessInv, NEW h, NEW o, RowsFor(h, o) # {}
    PROVE  /\ FirstRow(RowsFor(h, o)) \in RowsFor(h, o)
           /\ FirstRow(RowsFor(h, o)) \in 1..MaxAccessRows
<1>1. RowsFor(h, o) \in SUBSET Nat
  BY AccessFacts DEF RowsFor, RowIds
<1> QED  BY <1>1, FirstRowIsOne, AccessFacts DEF RowsFor, RowIds

LEMMA SaveFitsKey ==
    ASSUME NEW row, NEW id \in RowsFor(row.holder, row.object)
    PROVE  /\ WriteFits([op |-> "save", id |-> id, row |-> row], accessRows, unseen)
           /\ TeamKnown([op |-> "save", id |-> id, row |-> row], lastTeam)
<1> DEFINE w == [op |-> "save", id |-> id, row |-> row]
<1>1. w.op = "save" /\ w.id = id /\ w.row = row
  OBVIOUS
<1>2. id \in LiveGrants(accessRows) /\ row.holder = accessRows[id].holder
      /\ row.object = accessRows[id].object
  BY DEF RowsFor, RowIds, LiveGrants
<1> HIDE DEF w
<1>3. WriteFits(w, accessRows, unseen) /\ TeamKnown(w, lastTeam)
  BY <1>1, <1>2 DEF WriteFits, TeamKnown
<1> QED  BY <1>3 DEF w

LEMMA GrantKeeps ==
    ASSUME AccessInv, NEW r \in AccessRequests,
           NEW h \in OrgMembers \cup 1..MaxTeams, NEW c \in Collections,
           NEW rights \in Levels, GrantAccess(r, h, c, rights)
    PROVE  AccessInv'
<1> DEFINE all == {"read", "write", "admin"}
           old == [holder |-> h, object |-> c, rights |-> rights]
           new == [holder |-> h, object |-> c, rights |-> rights \cup {"read"}]
           id == FirstRow(RowsFor(h, c))
<1>1. rights \in SUBSET all /\ rights \cup {"read"} \in SUBSET all
  BY AccessAssumption
<1>2. old \in AccessRow /\ new \in AccessRow
  BY <1>1, GrantIsRow
<1>3. old.holder = h /\ old.object = c /\ new.holder = h /\ new.object = c
  OBVIOUS
<1>4. CASE /\ RowsFor(h, c) # {}
           /\ WillChange(r, [op |-> "save", id |-> id, row |-> old])
  <2>1. id \in RowsFor(h, c) /\ id \in 1..MaxAccessRows
    BY <1>4, FoundRow
  <2> HIDE DEF old, id
  <2>2. [op |-> "save", id |-> id, row |-> old] \in AccessWrites
    BY <1>2, <2>1, WritesTyped
  <2>3. /\ WriteFits([op |-> "save", id |-> id, row |-> old], accessRows, unseen)
        /\ TeamKnown([op |-> "save", id |-> id, row |-> old], lastTeam)
    BY <1>3, <2>1, SaveFitsKey
  <2> QED  BY <1>4, <2>2, <2>3, WillChangeKeeps
<1>5. CASE NoRowSeen(h, c) /\ BeginWrite(r, [op |-> "insert", row |-> new])
  <2> HIDE DEF new
  <2>1. [op |-> "insert", row |-> new] \in AccessWrites
    BY <1>2, WritesTyped
  <2>2. /\ unseen \subseteq unseen' /\ unseen' \subseteq AccessKeys
        /\ WriteFits([op |-> "insert", row |-> new], accessRows, unseen')
        /\ TeamKnown([op |-> "insert", row |-> new], lastTeam)
    BY <1>2, <1>3, <1>5, NotSeenFits
  <2> QED  BY <1>5, <2>1, <2>2, BeginWriteKeeps
<1> QED  BY <1>4, <1>5 DEF GrantAccess

LEMMA GrantRequestKeeps ==
    ASSUME AccessInv, NEW r \in AccessRequests, GrantRequest(r)
    PROVE  AccessInv'
BY GrantKeeps, AccessFacts DEF GrantRequest, GrantUserAccess, GrantTeamAccess

LEMMA RevokeRequestKeeps ==
    ASSUME AccessInv, NEW r \in AccessRequests, RevokeRequest(r)
    PROVE  AccessInv'
<1>1. ASSUME NEW h \in OrgMembers \cup 1..MaxTeams, NEW c \in Collections,
             WillChange(r, [op |-> "dropKey", holder |-> h, object |-> c])
      PROVE  AccessInv'
  <2> DEFINE w == [op |-> "dropKey", holder |-> h, object |-> c]
  <2>1. w \in AccessWrites /\ w.op = "dropKey"
    BY WritesTyped
  <2>2. WillChange(r, w)
    BY <1>1
  <2> HIDE DEF w
  <2> QED  BY <2>1, <2>2, OtherWriteFits, NoTeamSaved, WillChangeKeeps
<1> QED  BY <1>1, AccessFacts DEF RevokeRequest, RevokeUserAccess, RevokeTeamAccess

LEMMA TeamWriteKeeps ==
    ASSUME AccessInv, NEW r \in AccessRequests, NEW t \in teams,
           NEW op \in {"saveTeam", "syncTeam", "dropTeam"},
           WillChange(r, [op |-> op, team |-> t])
    PROVE  AccessInv'
<1> DEFINE w == [op |-> op, team |-> t]
<1>1. t \in 1..MaxTeams /\ t \in 1..lastTeam
  BY AccessFacts
<1>2. w \in AccessWrites /\ w.op = op /\ w.team = t
  BY <1>1, WritesTyped
<1>3. WillChange(r, w)
  OBVIOUS
<1> HIDE DEF w
<1>4. TeamKnown(w, lastTeam)
  BY <1>1, <1>2 DEF TeamKnown
<1> QED  BY <1>2, <1>3, <1>4, OtherWriteFits, WillChangeKeeps

LEMMA TeamRequestKeeps ==
    ASSUME AccessInv, NEW r \in AccessRequests, TeamRequest(r)
    PROVE  AccessInv'
BY TeamWriteKeeps DEF TeamRequest, UpdateTeam, DeleteTeam

LEMMA TeamMemberRequestKeeps ==
    ASSUME AccessInv, NEW r \in AccessRequests, TeamMemberRequest(r)
    PROVE  AccessInv'
<1>1. ASSUME NEW by, NEW m \in OrgMembers, NEW t, NEW g \in BOOLEAN,
             AddMember(r, by, t, m, g)
      PROVE  AccessInv'
  <2> DEFINE row == [holder |-> m, object |-> t, manager |-> g]
  <2>1. t \in 1..MaxTeams
    BY <1>1, AccessFacts DEF AddMember
  <2>2. row \in AccessRow /\ row.holder = m /\ row.object = t
    BY <2>1, TeamUserIsRow
  <2>3. NoRowSeen(m, t) /\ BeginWrite(r, [op |-> "insert", row |-> row])
    BY <1>1 DEF AddMember
  <2> HIDE DEF row
  <2>4. [op |-> "insert", row |-> row] \in AccessWrites
    BY <2>2, WritesTyped
  <2>5. /\ unseen \subseteq unseen' /\ unseen' \subseteq AccessKeys
        /\ WriteFits([op |-> "insert", row |-> row], accessRows, unseen')
        /\ TeamKnown([op |-> "insert", row |-> row], lastTeam)
    BY <2>2, <2>3, NotSeenFits
  <2> QED  BY <2>3, <2>4, <2>5, BeginWriteKeeps
<1>2. ASSUME NEW by, NEW m, NEW t, NEW g \in BOOLEAN, UpdateMember(r, by, t, m, g)
      PROVE  AccessInv'
  <2>1. PICK id \in RowsFor(m, t) :
           WillChange(r, [op |-> "save", id |-> id,
                          row |-> [accessRows[id] EXCEPT !.manager = g]])
    BY <1>2 DEF UpdateMember
  <2> DEFINE row == [accessRows[id] EXCEPT !.manager = g]
  <2>2. /\ id \in DOMAIN accessRows /\ accessRows[id] # Gone
        /\ accessRows[id].holder = m /\ accessRows[id].object = t
    BY DEF RowsFor, RowIds
  <2>3. accessRows[id] \in AccessRow /\ id \in 1..MaxAccessRows
    BY <2>2, AccessFacts DEF StoredRow
  <2>4. row \in AccessRow /\ row.holder = m /\ row.object = t
    BY <2>2, <2>3, ManagerChanged
  <2>5. WillChange(r, [op |-> "save", id |-> id, row |-> row])
    BY <2>1
  <2> HIDE DEF row
  <2>6. [op |-> "save", id |-> id, row |-> row] \in AccessWrites
    BY <2>3, <2>4, WritesTyped
  <2>7. /\ WriteFits([op |-> "save", id |-> id, row |-> row], accessRows, unseen)
        /\ TeamKnown([op |-> "save", id |-> id, row |-> row], lastTeam)
    BY <2>4, SaveFitsKey
  <2> QED  BY <2>5, <2>6, <2>7, WillChangeKeeps
<1>3. ASSUME NEW by, NEW m, NEW t, RemoveTeamMember(r, by, t, m)
      PROVE  AccessInv'
  <2>1. PICK id \in RowsFor(m, t) : WillChange(r, [op |-> "drop", ids |-> {id}])
    BY <1>3 DEF RemoveTeamMember
  <2> DEFINE w == [op |-> "drop", ids |-> {id}]
  <2>2. {id} \in SUBSET (1..MaxAccessRows)
    BY AccessFacts DEF RowsFor, RowIds
  <2>3. w \in AccessWrites /\ w.op = "drop"
    BY <2>2, WritesTyped
  <2>4. WillChange(r, w)
    BY <2>1
  <2> HIDE DEF w
  <2> QED  BY <2>3, <2>4, OtherWriteFits, NoTeamSaved, WillChangeKeeps
<1> QED  BY <1>1, <1>2, <1>3 DEF TeamMemberRequest

LEMMA RemoveOrgMemberKeeps ==
    ASSUME AccessInv, NEW r \in AccessRequests, NEW m \in OrgMembers,
           RemoveOrgMember(r, m)
    PROVE  AccessInv'
<1> DEFINE w == [op |-> "removeMember", member |-> m]
<1>1. w \in AccessWrites /\ w.op = "removeMember" /\ WillChange(r, w)
  BY WritesTyped DEF RemoveOrgMember
<1> HIDE DEF w
<1> QED  BY <1>1, OtherWriteFits, NoTeamSaved, WillChangeKeeps

(* What deleting rows, and appending one, does to the keys. *)
LEMMA FewerRows ==
    ASSUME NEW grants, NEW ids, NEW less,
           less = [id \in DOMAIN grants |-> IF id \in ids THEN Gone ELSE grants[id]]
    PROVE  /\ \A x : OneRowPerKey(grants, x) => OneRowPerKey(less, x)
           /\ \A h, o : RowsWithKey(grants, h, o) = {} => RowsWithKey(less, h, o) = {}
BY DEF OneRowPerKey, LiveGrants, RowsWithKey

LEMMA FewerRowsTyped ==
    ASSUME AccessInv, NEW ids, NEW less,
           less = [id \in DOMAIN accessRows |->
                      IF id \in ids THEN Gone ELSE accessRows[id]]
    PROVE  /\ less \in Seq(StoredRow) /\ Len(less) = Len(accessRows)
<1>1. /\ accessRows \in Seq(StoredRow) /\ DOMAIN accessRows = 1..Len(accessRows)
      /\ Gone \in StoredRow /\ Len(accessRows) \in Nat
  BY AccessFacts DEF StoredRow
<1>2. less \in [1..Len(accessRows) -> StoredRow]
  BY <1>1
<1> HIDE DEF StoredRow
<1> QED  BY <1>1, <1>2

LEMMA OneMoreRow ==
    ASSUME AccessInv, NEW row \in AccessRow, NEW more, more = Append(accessRows, row),
           Len(accessRows) < MaxAccessRows
    PROVE  /\ more \in Seq(StoredRow) /\ Len(more) <= MaxAccessRows
           /\ Len(accessRows) <= Len(more)
           /\ \A x : /\ OneRowPerKey(accessRows, x)
                     /\ \/ RowsFor(row.holder, row.object) = {}
                        \/ <<row.holder, row.object>> \in x
                     => OneRowPerKey(more, x)
           /\ \A h, o : (row.holder # h \/ row.object # o) /\ RowsFor(h, o) = {}
                 => RowsWithKey(more, h, o) = {}
<1> DEFINE n == Len(accessRows)
<1>1. accessRows \in Seq(StoredRow) /\ row \in StoredRow /\ n \in Nat
  BY AccessFacts DEF StoredRow
<1>2. /\ more \in Seq(StoredRow) /\ Len(more) = n + 1 /\ more[n + 1] = row
      /\ \A i \in 1..n : more[i] = accessRows[i]
  BY <1>1, AppendProperties
<1>3. DOMAIN more = 1..(n + 1) /\ DOMAIN accessRows = 1..n
  BY <1>1, <1>2
<1>4. /\ LiveGrants(more) \subseteq LiveGrants(accessRows) \cup {n + 1}
      /\ \A id \in LiveGrants(more) :
            id # n + 1 => id \in LiveGrants(accessRows) /\ more[id] = accessRows[id]
  BY <1>1, <1>2, <1>3 DEF LiveGrants
<1>5. ASSUME NEW x, OneRowPerKey(accessRows, x),
             RowsFor(row.holder, row.object) = {} \/ <<row.holder, row.object>> \in x
      PROVE  OneRowPerKey(more, x)
  <2>1. \A id \in LiveGrants(accessRows) :
           \/ ~(accessRows[id].holder = row.holder /\ accessRows[id].object = row.object)
           \/ <<row.holder, row.object>> \in x
    BY <1>5 DEF RowsFor, RowIds, LiveGrants
  <2> HIDE DEF n
  <2>2. ASSUME NEW a \in LiveGrants(more), NEW b \in LiveGrants(more),
               more[a].holder = more[b].holder, more[a].object = more[b].object
        PROVE  a = b \/ <<more[a].holder, more[a].object>> \in x
    <3>1. CASE a # n + 1 /\ b # n + 1
      BY <1>4, <1>5, <2>2, <3>1 DEF OneRowPerKey
    <3>2. CASE a = n + 1 /\ b # n + 1
      BY <1>2, <1>4, <2>1, <2>2, <3>2
    <3>3. CASE a # n + 1 /\ b = n + 1
      BY <1>2, <1>4, <2>1, <2>2, <3>3
    <3> QED  BY <3>1, <3>2, <3>3
  <2> QED  BY <2>2 DEF OneRowPerKey
<1>6. ASSUME NEW h, NEW o, row.holder # h \/ row.object # o, RowsFor(h, o) = {}
      PROVE  RowsWithKey(more, h, o) = {}
  <2>1. \A id \in LiveGrants(accessRows) :
           ~(accessRows[id].holder = h /\ accessRows[id].object = o)
    BY <1>6 DEF RowsFor, RowIds, LiveGrants
  <2> HIDE DEF n
  <2> QED  BY <1>2, <1>4, <1>6, <2>1 DEF RowsWithKey
<1>7. \A x : /\ OneRowPerKey(accessRows, x)
             /\ RowsFor(row.holder, row.object) = {} \/ <<row.holder, row.object>> \in x
             => OneRowPerKey(more, x)
  BY <1>5
<1>8. \A h, o : (row.holder # h \/ row.object # o) /\ RowsFor(h, o) = {}
            => RowsWithKey(more, h, o) = {}
  BY <1>6
<1>9. n + 1 <= MaxAccessRows /\ n <= n + 1
  BY <1>1, AccessFacts
<1> HIDE DEF n
<1>10. Len(more) <= MaxAccessRows /\ Len(accessRows) <= Len(more)
  BY <1>2, <1>9 DEF n
<1> QED  BY <1>2, <1>7, <1>8, <1>10

(* A change of a group adds or removes a member at once. *)
LEMMA PatchedKeeps ==
    ASSUME AccessInv, NEW r \in AccessRequests, NEW w \in AccessWrites,
           w.op = "saveTeam", w.team \in 1..lastTeam, NEW grants \in Seq(StoredRow),
           Len(grants) <= MaxAccessRows, Len(accessRows) <= Len(grants),
           accessRows' = grants, accessCalls' = [accessCalls EXCEPT ![r] = w],
           UNCHANGED <<orgMembers, teams, lastTeam>>, unseen' \subseteq AccessKeys,
           accessCalm' = (accessCalm /\ NobodyChangesAccess),
           accessCalm => OneRowPerKey(grants, unseen')
    PROVE  AccessInv'
<1>1. /\ accessCalls'[r] = w
      /\ \A q \in AccessRequests : q # r => accessCalls'[q] = accessCalls[q]
      /\ accessCalls' \in [AccessRequests -> AccessWrites]
  BY AccessFacts
<1>2. DOMAIN accessRows \subseteq DOMAIN grants
  BY AccessFacts
<1>3. AccessTyped'
  <2>1. \A id \in DOMAIN grants : grants[id] \in AccessRow \cup {Gone}
    BY DEF StoredRow
  <2>2. \A q \in AccessRequests :
           /\ accessCalls'[q].op = "save" => accessCalls'[q].id \in DOMAIN grants
           /\ TeamKnown(accessCalls'[q], lastTeam)
    BY <1>1, <1>2 DEF AccessInv, AccessTyped, TeamKnown
  <2> QED  BY <1>1, <2>1, <2>2 DEF AccessInv, AccessTyped, AccessTypeOK
<1>4. ASSUME accessCalm'
      PROVE  AccessInOrder'
  <2>1. AccessInOrder /\ NobodyChangesAccess /\ OneRowPerKey(grants, unseen')
    BY <1>4 DEF AccessInv
  <2>2. \A q \in AccessRequests : accessCalls'[q] # AccessIdle => q = r
    BY <1>1, <2>1 DEF NobodyChangesAccess
  <2>3. \A q \in AccessRequests : WriteFits(accessCalls'[q], grants, unseen')
    BY <1>1, <2>1, IdleWriteFits, OtherWriteFits DEF NobodyChangesAccess
  <2> QED  BY <2>1, <2>2, <2>3 DEF AccessInOrder
<1> QED  BY <1>3, <1>4 DEF AccessInv

LEMMA PatchGroupKeeps ==
    ASSUME AccessInv, NEW r \in AccessRequests, NEW t \in 1..lastTeam,
           NEW m \in OrgMembers, PatchGroup(r, t, m)
    PROVE  AccessInv'
<1> DEFINE w == [op |-> "saveTeam", team |-> t]
           row == [holder |-> m, object |-> t, manager |-> FALSE]
<1>1. /\ w \in AccessWrites /\ w.op = "saveTeam" /\ w.team \in 1..lastTeam
      /\ t \in 1..MaxTeams
  BY AccessFacts, WritesTyped
<1>2. row \in AccessRow /\ row.holder = m /\ row.object = t
  BY <1>1, TeamUserIsRow
<1>3. /\ accessCalls' = [accessCalls EXCEPT ![r] = w]
      /\ UNCHANGED <<orgMembers, teams, lastTeam>>
      /\ accessCalm' = (accessCalm /\ NobodyChangesAccess)
  BY DEF PatchGroup
<1>4. CASE HandleGroupMemberAdd(t, m)
  <2>1. /\ Len(accessRows) < MaxAccessRows /\ accessRows' = Append(accessRows, row)
        /\ NoRowSeen(m, t)
    BY <1>4 DEF HandleGroupMemberAdd
  <2> HIDE DEF w, row
  <2>2. /\ accessRows' \in Seq(StoredRow) /\ Len(accessRows') <= MaxAccessRows
        /\ Len(accessRows) <= Len(accessRows')
        /\ \A x : /\ OneRowPerKey(accessRows, x)
                  /\ RowsFor(m, t) = {} \/ <<m, t>> \in x
                  => OneRowPerKey(accessRows', x)
    <3>1. row \in AccessRow /\ <<row.holder, row.object>> = <<m, t>>
      BY <1>2
    <3> QED  BY <1>2, <2>1, <3>1, OneMoreRow
  <2>3. /\ unseen \subseteq unseen' /\ unseen' \subseteq AccessKeys
        /\ RowsFor(m, t) = {} \/ <<m, t>> \in unseen'
    BY <1>2, <2>1, NotSeenFits
  <2>4. accessCalm => OneRowPerKey(accessRows', unseen')
    BY <2>2, <2>3, MoreExcepted DEF AccessInv, AccessInOrder
  <2> QED  BY <1>1, <1>3, <2>2, <2>3, <2>4, PatchedKeeps
<1>5. CASE HandleGroupMemberRemove(t, m)
  <2>1. /\ accessRows' = [id \in DOMAIN accessRows |->
                            IF id \in RowsFor(m, t) THEN Gone ELSE accessRows[id]]
        /\ UNCHANGED unseen
    BY <1>5 DEF HandleGroupMemberRemove
  <2> HIDE DEF w, row
  <2>2. /\ accessRows' \in Seq(StoredRow) /\ Len(accessRows') = Len(accessRows)
        /\ \A x : OneRowPerKey(accessRows, x) => OneRowPerKey(accessRows', x)
    BY <2>1, FewerRows, FewerRowsTyped
  <2>3. unseen' \subseteq AccessKeys
    BY <2>1, AccessFacts
  <2>4. accessCalm => OneRowPerKey(accessRows', unseen')
    BY <2>1, <2>2 DEF AccessInv, AccessInOrder
  <2>5. Len(accessRows') <= MaxAccessRows /\ Len(accessRows) <= Len(accessRows')
    BY <2>2, AccessFacts
  <2> QED  BY <1>1, <1>3, <2>2, <2>3, <2>4, <2>5, PatchedKeeps
<1> QED  BY <1>4, <1>5 DEF PatchGroup

LEMMA GroupRequestKeeps ==
    ASSUME AccessInv, NEW r \in AccessRequests, GroupRequest(r)
    PROVE  AccessInv'
<1>1. ASSUME NEW t, UpdateGroup(r, t) \/ DeleteGroup(r, t)
      PROVE  AccessInv'
  BY <1>1, TeamWriteKeeps DEF UpdateGroup, DeleteGroup
<1> QED  BY <1>1, PatchGroupKeeps DEF GroupRequest

(* A new team has no rows. *)
LEMMA TeamMadeKeeps ==
    ASSUME AccessInv, lastTeam < MaxTeams, lastTeam' = lastTeam + 1,
           teams' = teams \cup {lastTeam'},
           UNCHANGED <<orgMembers, accessRows, accessCalls, accessCalm, unseen>>
    PROVE  AccessInv'
<1>1. lastTeam' \in 1..MaxTeams /\ teams' \subseteq 1..lastTeam'
  BY AccessFacts
<1>2. \A r \in AccessRequests : TeamKnown(accessCalls[r], lastTeam')
  BY AccessFacts DEF AccessInv, AccessTyped, TeamKnown
<1>3. AccessTyped'
  BY <1>1, <1>2 DEF AccessInv, AccessTyped, AccessTypeOK
<1> QED  BY <1>3 DEF AccessInv, AccessInOrder

(* The writes. *)
LEMMA InsertAccessKeeps ==
    ASSUME AccessInv, NEW r \in AccessRequests, InsertAccessRow(r)
    PROVE  AccessInv'
<1> DEFINE w == accessCalls[r]
<1>1. /\ w.op = "insert" /\ Len(accessRows) < MaxAccessRows
      /\ accessRows' = Append(accessRows, w.row)
      /\ accessCalls' = [accessCalls EXCEPT ![r] = AccessIdle]
      /\ UNCHANGED <<orgMembers, teams, lastTeam, accessCalm, unseen>>
  BY DEF InsertAccessRow, EndAccessCall
<1>2. w.row \in AccessRow
  BY <1>1, AccessFacts, WriteParts
<1>3. /\ accessRows' \in Seq(StoredRow) /\ Len(accessRows') <= MaxAccessRows
      /\ Len(accessRows) <= Len(accessRows')
      /\ \A x : /\ OneRowPerKey(accessRows, x)
                /\ \/ RowsFor(w.row.holder, w.row.object) = {}
                   \/ <<w.row.holder, w.row.object>> \in x
                => OneRowPerKey(accessRows', x)
  BY <1>1, <1>2, OneMoreRow
<1>4. accessCalm => OneRowPerKey(accessRows', unseen)
  BY <1>1, <1>3, RowsForIs DEF AccessInv, AccessInOrder, WriteFits
<1>5. AccessIdle \in AccessWrites /\ AccessIdle.op = "none"
      /\ WriteFits(AccessIdle, accessRows', unseen) /\ w # AccessIdle
  BY <1>1, WritesTyped, IdleWriteFits
<1> QED  BY <1>1, <1>3, <1>4, <1>5, AccessFacts, WritingAccessKeeps

LEMMA RowSaved ==
    ASSUME AccessInv, NEW row \in AccessRow, NEW id \in DOMAIN accessRows, NEW grants,
           grants = [accessRows EXCEPT ![id] = row]
    PROVE  /\ grants \in Seq(StoredRow) /\ Len(grants) = Len(accessRows)
           /\ \A x : /\ OneRowPerKey(accessRows, x) /\ id \in LiveGrants(accessRows)
                     /\ row.holder = accessRows[id].holder
                     /\ row.object = accessRows[id].object
                     => OneRowPerKey(grants, x)
<1>1. accessRows \in Seq(StoredRow) /\ row \in StoredRow
  BY AccessFacts DEF StoredRow
<1>2. /\ grants \in Seq(StoredRow) /\ Len(grants) = Len(accessRows)
      /\ DOMAIN grants = DOMAIN accessRows /\ grants[id] = row
      /\ \A x \in DOMAIN accessRows : x # id => grants[x] = accessRows[x]
  BY <1>1
<1>3. ASSUME NEW x, OneRowPerKey(accessRows, x), id \in LiveGrants(accessRows),
             row.holder = accessRows[id].holder, row.object = accessRows[id].object
      PROVE  OneRowPerKey(grants, x)
  <2>1. \A i \in LiveGrants(grants) :
           /\ i \in LiveGrants(accessRows)
           /\ grants[i].holder = accessRows[i].holder
           /\ grants[i].object = accessRows[i].object
    BY <1>2, <1>3 DEF LiveGrants
  <2> QED  BY <1>3, <2>1 DEF OneRowPerKey
<1> QED  BY <1>2, <1>3

LEMMA SaveAccessKeeps ==
    ASSUME AccessInv, NEW r \in AccessRequests, SaveAccessRow(r)
    PROVE  AccessInv'
<1> DEFINE w == accessCalls[r]
<1>1. /\ w.op = "save" /\ accessRows' = [accessRows EXCEPT ![w.id] = w.row]
      /\ accessCalls' = [accessCalls EXCEPT ![r] = AccessIdle]
      /\ UNCHANGED <<orgMembers, teams, lastTeam, accessCalm, unseen>>
  BY DEF SaveAccessRow, EndAccessCall
<1>2. w.row \in AccessRow /\ w.id \in DOMAIN accessRows
  BY <1>1, AccessFacts, WriteParts DEF AccessInv, AccessTyped
<1>3. /\ accessRows' \in Seq(StoredRow) /\ Len(accessRows') = Len(accessRows)
      /\ \A x : /\ OneRowPerKey(accessRows, x) /\ w.id \in LiveGrants(accessRows)
                /\ w.row.holder = accessRows[w.id].holder
                /\ w.row.object = accessRows[w.id].object
                => OneRowPerKey(accessRows', x)
  BY <1>1, <1>2, RowSaved
<1>4. accessCalm => OneRowPerKey(accessRows', unseen)
  <2>1. accessCalm => OneRowPerKey(accessRows, unseen) /\ WriteFits(w, accessRows, unseen)
    BY DEF AccessInv, AccessInOrder
  <2> QED  BY <1>1, <1>3, <2>1 DEF WriteFits
<1>5. AccessIdle \in AccessWrites /\ AccessIdle.op = "none"
      /\ WriteFits(AccessIdle, accessRows', unseen) /\ w # AccessIdle
  BY <1>1, WritesTyped, IdleWriteFits
<1>6. Len(accessRows') <= MaxAccessRows /\ Len(accessRows) <= Len(accessRows')
  BY <1>3, AccessFacts
<1> QED  BY <1>1, <1>3, <1>4, <1>5, <1>6, AccessFacts, WritingAccessKeeps

(* Rows go, and perhaps a member or a team with them. *)
LEMMA DroppingKeeps ==
    ASSUME AccessInv, NEW r \in AccessRequests, accessCalls[r] # AccessIdle, NEW ids,
           accessRows' = [id \in DOMAIN accessRows |->
                            IF id \in ids THEN Gone ELSE accessRows[id]],
           EndAccessCall(r), UNCHANGED <<lastTeam, accessCalm, unseen>>,
           orgMembers' \subseteq orgMembers, teams' \subseteq teams
    PROVE  AccessInv'
<1>1. /\ accessRows' \in Seq(StoredRow) /\ Len(accessRows') = Len(accessRows)
      /\ \A x : OneRowPerKey(accessRows, x) => OneRowPerKey(accessRows', x)
  BY FewerRows, FewerRowsTyped
<1>2. accessCalm => OneRowPerKey(accessRows', unseen)
  BY <1>1 DEF AccessInv, AccessInOrder
<1>3. /\ AccessIdle \in AccessWrites /\ AccessIdle.op = "none"
      /\ \A x : WriteFits(AccessIdle, accessRows', x)
      /\ accessCalls' = [accessCalls EXCEPT ![r] = AccessIdle]
  BY WritesTyped, IdleWriteFits DEF EndAccessCall
<1>4. /\ Len(accessRows') <= MaxAccessRows /\ Len(accessRows) <= Len(accessRows')
      /\ orgMembers' \subseteq OrgMembers /\ teams' \subseteq 1..lastTeam
      /\ unseen' = unseen /\ unseen' \subseteq AccessKeys
  BY <1>1, AccessFacts
<1> QED  BY <1>1, <1>2, <1>3, <1>4, WritingAccessKeeps

LEMMA DropGrantKeeps ==
    ASSUME AccessInv, NEW r \in AccessRequests,
           DropAccessRows(r) \/ DropMember(r) \/ DropTeam(r)
    PROVE  AccessInv'
<1>1. accessCalls[r] # AccessIdle
  BY DEF DropAccessRows, DropMember, DropTeam, AccessIdle
<1>2. CASE DropAccessRows(r)
  BY <1>1, <1>2, DroppingKeeps DEF DropAccessRows, WithoutAccessRows
<1>3. CASE DropMember(r)
  BY <1>1, <1>3, DroppingKeeps DEF DropMember, WithoutAccessRows
<1>4. CASE DropTeam(r)
  BY <1>1, <1>4, DroppingKeeps DEF DropTeam, WithoutAccessRows
<1> QED  BY <1>2, <1>3, <1>4

(* A request goes on without touching the rows. *)
LEMMA SameRowsKeeps ==
    ASSUME AccessInv, NEW r \in AccessRequests, NEW w \in AccessWrites,
           w.op \notin {"save", "saveTeam", "syncTeam"}, accessCalls[r] # AccessIdle,
           accessCalls' = [accessCalls EXCEPT ![r] = w],
           UNCHANGED <<orgMembers, lastTeam, accessRows, accessCalm>>,
           unseen \subseteq unseen', unseen' \subseteq AccessKeys,
           teams' \subseteq 1..lastTeam, accessCalm => WriteFits(w, accessRows, unseen')
    PROVE  AccessInv'
<1>1. accessCalm => OneRowPerKey(accessRows, unseen')
  BY MoreExcepted DEF AccessInv, AccessInOrder
<1>2. /\ accessRows \in Seq(StoredRow) /\ Len(accessRows) <= MaxAccessRows
      /\ Len(accessRows) \in Nat /\ orgMembers' \subseteq OrgMembers
  BY AccessFacts
<1>3. /\ accessRows' = accessRows /\ lastTeam' = lastTeam
      /\ accessCalm' = accessCalm /\ Len(accessRows) <= Len(accessRows)
      /\ accessCalm => /\ OneRowPerKey(accessRows, unseen')
                       /\ WriteFits(w, accessRows, unseen')
  BY <1>1, <1>2
<1> QED  BY <1>2, <1>3, WritingAccessKeeps

LEMMA SaveTeamKeeps ==
    ASSUME AccessInv, NEW r \in AccessRequests, SaveTeam(r)
    PROVE  AccessInv'
<1> DEFINE t == accessCalls[r].team
<1>1. /\ accessCalls[r].op \in {"saveTeam", "syncTeam"} /\ teams' = teams \cup {t}
      /\ UNCHANGED <<orgMembers, lastTeam, accessRows, accessCalm, unseen>>
      /\ accessCalls[r] # AccessIdle
  BY DEF SaveTeam, AccessIdle
<1>2. t \in 1..lastTeam /\ t \in 1..MaxTeams
  BY <1>1, AccessFacts DEF AccessInv, AccessTyped, TeamKnown
<1>3. teams' \subseteq 1..lastTeam /\ unseen \subseteq unseen' /\ unseen' \subseteq AccessKeys
  BY <1>1, <1>2, AccessFacts
<1>4. CASE EndAccessCall(r)
  <2>1. AccessIdle \in AccessWrites /\ AccessIdle.op = "none"
        /\ WriteFits(AccessIdle, accessRows, unseen')
    BY WritesTyped, IdleWriteFits
  <2> QED  BY <1>1, <1>3, <1>4, <2>1, SameRowsKeeps DEF EndAccessCall
<1>5. ASSUME NEW desired \in SUBSET OrgMembers,
             accessCalls' = [accessCalls EXCEPT ![r] =
               [op |-> "sync", team |-> t,
                missing |-> {m \in desired \cap orgMembers : RowsFor(m, t) = {}},
                surplus |-> UNION {RowsFor(m, t) : m \in OrgMembers \ desired}]]
      PROVE  AccessInv'
  <2> DEFINE missing == {m \in desired \cap orgMembers : RowsFor(m, t) = {}}
             surplus == UNION {RowsFor(m, t) : m \in OrgMembers \ desired}
             w == [op |-> "sync", team |-> t, missing |-> missing, surplus |-> surplus]
  <2>1. missing \in SUBSET OrgMembers
    BY AccessFacts
  <2>2. surplus \in SUBSET (1..MaxAccessRows)
    BY AccessFacts DEF RowsFor, RowIds
  <2>3. \A m \in missing : RowsWithKey(accessRows, m, t) = {}
    BY RowsForIs
  <2>4. accessCalls' = [accessCalls EXCEPT ![r] = w]
    BY <1>5
  <2> HIDE DEF missing, surplus
  <2>5. /\ w \in AccessWrites /\ w.op = "sync" /\ w.missing = missing /\ w.team = t
    BY <1>2, <2>1, <2>2, WritesTyped
  <2> HIDE DEF w
  <2>6. WriteFits(w, accessRows, unseen')
    BY <2>3, <2>5 DEF WriteFits
  <2> QED  BY <1>1, <1>3, <2>4, <2>5, <2>6, SameRowsKeeps
<1> QED  BY <1>4, <1>5 DEF SaveTeam

(* A missing member gets his row: the list may name him once more. *)
LEMMA SyncInsertKeeps ==
    ASSUME AccessInv, NEW r \in AccessRequests, NEW w \in AccessWrites, w.op = "sync",
           w = accessCalls[r], NEW m \in w.missing, NEW v \in AccessWrites, v.op = "sync",
           v.team = w.team, v.missing \subseteq w.missing,
           m \in v.missing => <<m, w.team>> \in unseen',
           accessCalls' = [accessCalls EXCEPT ![r] = v],
           unseen \subseteq unseen', unseen' \subseteq AccessKeys,
           UNCHANGED <<orgMembers, teams, lastTeam, accessCalm>>,
           \/ /\ Len(accessRows) < MaxAccessRows
              /\ accessRows' = Append(accessRows, [holder |-> m, object |-> w.team,
                                                   manager |-> FALSE])
           \/ UNCHANGED accessRows
    PROVE  AccessInv'
<1> DEFINE row == [holder |-> m, object |-> w.team, manager |-> FALSE]
<1>1. /\ w.team \in 1..MaxTeams /\ w.missing \in SUBSET OrgMembers /\ w # AccessIdle
  BY WriteParts DEF AccessIdle
<1>2. row \in AccessRow /\ row.holder = m /\ row.object = w.team
  BY <1>1, TeamUserIsRow
<1>3. accessCalm => /\ OneRowPerKey(accessRows, unseen')
                    /\ \A q \in w.missing :
                          RowsFor(q, w.team) = {} \/ <<q, w.team>> \in unseen'
  <2>1. ASSUME accessCalm
        PROVE  OneRowPerKey(accessRows, unseen') /\ WriteFits(w, accessRows, unseen')
    BY <2>1, MoreExcepted DEF AccessInv, AccessInOrder
  <2> QED  BY <2>1, RowsForIs DEF WriteFits
<1>4. /\ orgMembers' \subseteq OrgMembers /\ teams' \subseteq 1..lastTeam
      /\ accessRows \in Seq(StoredRow) /\ Len(accessRows) <= MaxAccessRows
      /\ Len(accessRows) \in Nat
  BY AccessFacts
<1>5. CASE /\ Len(accessRows) < MaxAccessRows
           /\ accessRows' = Append(accessRows, row)
  <2> HIDE DEF row
  <2>1. /\ accessRows' \in Seq(StoredRow) /\ Len(accessRows') <= MaxAccessRows
        /\ Len(accessRows) <= Len(accessRows')
        /\ \A x : /\ OneRowPerKey(accessRows, x)
                  /\ RowsFor(m, w.team) = {} \/ <<m, w.team>> \in x
                  => OneRowPerKey(accessRows', x)
        /\ \A h, o : (m # h \/ w.team # o) /\ RowsFor(h, o) = {}
              => RowsWithKey(accessRows', h, o) = {}
    <3>1. row \in AccessRow /\ <<row.holder, row.object>> = <<m, w.team>>
      BY <1>2
    <3> QED  BY <1>2, <1>5, <3>1, OneMoreRow
  <2>2. ASSUME accessCalm
        PROVE  OneRowPerKey(accessRows', unseen') /\ WriteFits(v, accessRows', unseen')
    <3>1. OneRowPerKey(accessRows', unseen')
      BY <1>3, <2>1, <2>2
    <3>2. \A q \in v.missing :
             RowsWithKey(accessRows', q, v.team) = {} \/ <<q, v.team>> \in unseen'
      BY <1>3, <2>1, <2>2
    <3> QED  BY <3>1, <3>2 DEF WriteFits
  <2> QED  BY <1>1, <1>4, <2>1, <2>2, WritingAccessKeeps
<1>6. CASE UNCHANGED accessRows
  <2>1. accessCalm => WriteFits(v, accessRows, unseen')
    BY <1>3, RowsForIs DEF WriteFits
  <2> QED  BY <1>1, <1>4, <1>6, <2>1, SameRowsKeeps
<1> QED  BY <1>5, <1>6

LEMMA SyncKeeps ==
    ASSUME AccessInv, NEW r \in AccessRequests, SyncGroupMembers(r)
    PROVE  AccessInv'
<1> DEFINE w == accessCalls[r]
<1>1. /\ w.op = "sync" /\ w # AccessIdle /\ w \in AccessWrites
      /\ UNCHANGED <<orgMembers, teams, lastTeam, accessCalm>>
  BY AccessFacts DEF SyncGroupMembers, AccessIdle
<1>2. /\ w = [op |-> "sync", team |-> w.team, missing |-> w.missing,
              surplus |-> w.surplus]
      /\ w.team \in 1..MaxTeams /\ w.missing \in SUBSET OrgMembers
      /\ w.surplus \in SUBSET (1..MaxAccessRows)
  BY <1>1, WriteParts
<1>3. ASSUME NEW m \in w.missing,
             \/ /\ Len(accessRows) < MaxAccessRows
                /\ accessRows' = Append(accessRows, [holder |-> m, object |-> w.team,
                                                     manager |-> FALSE])
             \/ UNCHANGED accessRows
      PROVE  /\ /\ accessCalls' = [accessCalls EXCEPT ![r].missing = @ \ {m}]
                /\ UNCHANGED unseen
                => AccessInv'
             /\ /\ unseen' = unseen \cup {<<m, w.team>>}
                /\ UNCHANGED accessCalls
                => AccessInv'
  <2>1. ASSUME accessCalls' = [accessCalls EXCEPT ![r].missing = @ \ {m}],
               UNCHANGED unseen
        PROVE  AccessInv'
    <3> DEFINE v == [op |-> "sync", team |-> w.team, missing |-> w.missing \ {m},
                     surplus |-> w.surplus]
    <3>1. v \in AccessWrites /\ v.op = "sync" /\ v.missing = w.missing \ {m}
          /\ v.team = w.team
      <4>1. w.missing \ {m} \in SUBSET OrgMembers
        BY <1>2
      <4> QED  BY <1>2, <4>1, WritesTyped
    <3>2. [w EXCEPT !.missing = @ \ {m}] = v
      BY <1>2
    <3>3. accessCalls' = [accessCalls EXCEPT ![r] = v]
      BY <2>1, <3>2
    <3>4. unseen \subseteq unseen' /\ unseen' \subseteq AccessKeys
      BY <2>1, AccessFacts
    <3> HIDE DEF v
    <3>5. v.missing \subseteq w.missing /\ m \notin v.missing
      BY <3>1
    <3> HIDE DEF w
    <3> QED  BY <1>1, <1>3, <3>1, <3>3, <3>4, <3>5, SyncInsertKeeps DEF w
  <2>2. ASSUME unseen' = unseen \cup {<<m, w.team>>}, UNCHANGED accessCalls
        PROVE  AccessInv'
    <3>1. <<m, w.team>> \in AccessKeys
      BY <1>2 DEF AccessKeys
    <3>2. /\ unseen \subseteq unseen' /\ unseen' \subseteq AccessKeys
          /\ <<m, w.team>> \in unseen'
      BY <2>2, <3>1, AccessFacts
    <3>3. accessCalls' = [accessCalls EXCEPT ![r] = w]
      BY <2>2, AccessFacts
    <3> QED  BY <1>1, <1>3, <3>2, <3>3, SyncInsertKeeps
  <2> QED  BY <2>1, <2>2
<1>4. CASE /\ accessRows' = [id \in DOMAIN accessRows |->
                               IF id \in w.surplus THEN Gone ELSE accessRows[id]]
           /\ EndAccessCall(r)
           /\ UNCHANGED unseen
  BY <1>1, <1>4, DroppingKeeps
<1> QED  BY <1>3, <1>4 DEF SyncGroupMembers

LEMMA FailAccessKeeps ==
    ASSUME AccessInv, NEW r \in AccessRequests, FailAccessWrite(r)
    PROVE  AccessInv'
<1>1. /\ accessCalls[r] # AccessIdle
      /\ accessCalls' = [accessCalls EXCEPT ![r] = AccessIdle]
      /\ UNCHANGED <<orgMembers, teams, lastTeam, accessRows, accessCalm, unseen>>
  BY DEF FailAccessWrite, EndAccessCall
<1>2. AccessIdle \in AccessWrites /\ AccessIdle.op = "none"
      /\ WriteFits(AccessIdle, accessRows, unseen)
  BY WritesTyped, IdleWriteFits
<1>3. teams' \subseteq 1..lastTeam /\ unseen' = unseen /\ unseen \subseteq AccessKeys
  BY <1>1, AccessFacts
<1> QED  BY <1>1, <1>2, <1>3, SameRowsKeeps

LEMMA AccessStart == AccessInit => AccessInv
<1> SUFFICES ASSUME AccessInit PROVE AccessInv
  OBVIOUS
<1>1. PICK c \in Collections :
         accessRows = <<[holder |-> DefaultTeam, object |-> c, rights |-> {"read"}]>>
  BY DEF AccessInit
<1> DEFINE row == [holder |-> DefaultTeam, object |-> c, rights |-> {"read"}]
<1>2. /\ orgMembers = OrgMembers /\ teams = {1} /\ lastTeam = 1 /\ 1 \in 1..MaxTeams
      /\ accessCalls = [r \in AccessRequests |-> AccessIdle] /\ accessCalm = TRUE
      /\ unseen = {}
  BY AccessAssumption DEF AccessInit, DefaultTeam
<1>3. row \in AccessRow
  BY <1>2, GrantIsRow DEF DefaultTeam
<1> HIDE DEF row
<1>4. /\ accessRows \in Seq(StoredRow) /\ Len(accessRows) = 1
      /\ DOMAIN accessRows = 1..1
  BY <1>1, <1>3 DEF StoredRow, row
<1>5. \A r \in AccessRequests : accessCalls[r] = AccessIdle
  BY <1>2
<1>6. AccessIdle.op = "none" /\ AccessIdle \in AccessWrites
  BY WritesTyped, IdleWriteFits
<1>7. AccessTyped
  <2>1. Len(accessRows) <= MaxAccessRows
    BY <1>4, AccessAssumption
  <2>2. \A id \in DOMAIN accessRows : accessRows[id] \in AccessRow \cup {Gone}
    BY <1>4 DEF StoredRow
  <2> QED  BY <1>2, <1>4, <1>5, <1>6, <2>1, <2>2
           DEF AccessTyped, AccessTypeOK, TeamKnown
<1>8. OneRowPerKey(accessRows, unseen)
  BY <1>4 DEF OneRowPerKey, LiveGrants
<1> QED  BY <1>5, <1>6, <1>7, <1>8, IdleWriteFits DEF AccessInv, AccessInOrder

LEMMA AccessHolds == AccessSpec => []AccessInv
<1>1. AccessInit => AccessInv
  BY AccessStart
<1>2. AccessInv /\ [AccessNext]_accessVars => AccessInv'
  <2>1. ASSUME AccessInv, UNCHANGED accessVars PROVE AccessInv'
    BY <2>1 DEF AccessInv, AccessTyped, AccessTypeOK, AccessInOrder, accessVars
  <2>2. ASSUME AccessInv, NEW r \in AccessRequests, AccessWrite(r)
        PROVE  AccessInv'
    BY <2>2, InsertAccessKeeps, SaveAccessKeeps, DropGrantKeeps, SaveTeamKeeps,
       SyncKeeps, FailAccessKeeps DEF AccessWrite
  <2>3. ASSUME AccessInv, \E m \in OrgMembers : CreateTeam(m)
        PROVE  AccessInv'
    BY <2>3, TeamMadeKeeps DEF CreateTeam
  <2>4. ASSUME AccessInv, CreateGroup
        PROVE  AccessInv'
    BY <2>4, TeamMadeKeeps DEF CreateGroup
  <2> QED  BY <2>1, <2>2, <2>3, <2>4, GrantRequestKeeps, RevokeRequestKeeps,
              TeamRequestKeeps, TeamMemberRequestKeeps, GroupRequestKeeps,
              RemoveOrgMemberKeeps DEF AccessNext
<1> QED  BY <1>1, <1>2, PTL DEF AccessSpec

(* While requests come one by one, a member or a team has one row at most  *)
(* for a collection, and a member one for a team, for any number of        *)
(* members, teams and collections and of requests that fail; so a lookup   *)
(* that takes the first row takes the only one, and removing it leaves     *)
(* nothing (GrantUserAccess, AddMember).  A lookup that fails and a member *)
(* the directory names twice make an exception of their own key only.      *)
THEOREM GrantsAreSingle == AccessSpec => []OneGrantEach
<1>1. AccessInv => OneGrantEach
  BY RowsForIs DEF AccessInv, AccessInOrder, OneGrantEach, OneRowPerKey
<1> QED  BY <1>1, AccessHolds, PTL

-----------------------------------------------------------------------------
(* The types of the components that VaultTypesOK puts together.            *)
LEMMA VaultKeepsTypes == OrgItemsSpec => []OrgItemsTypeOK
<1>1. ASSUME VaultInv
      PROVE  OrgItemsTypeOK
  <2>1. VaultTyped
    BY <1>1 DEF VaultInv
  <2>2. ASSUME NEW t \in Tables, NEW id \in DOMAIN rows[t]
        PROVE  rows[t][id] \in VaultRow(t)
    <3> DEFINE R == VaultRow(t)
    <3>1. rows[t] \in Seq(R)
      BY <2>1 DEF VaultTyped
    <3> HIDE DEF R
    <3>2. rows[t][id] \in R
      BY <3>1, <2>2
    <3> QED  BY <3>2 DEF R
  <2> QED  BY <2>1, <2>2 DEF VaultTyped, OrgItemsTypeOK
<1> QED  BY <1>1, VaultInvariant, PTL

LEMMA AccessKeepsTypes == AccessSpec => []AccessTypeOK
<1>1. AccessInv => AccessTypeOK
  BY DEF AccessInv, AccessTyped
<1> QED  BY <1>1, AccessHolds, PTL

LEMMA SendsKeepTypes == SendsSpec => []SendsTypeOK
<1>1. SendsInv => SendsTypeOK
  BY DEF SendsInv
<1> QED  BY <1>1, SendsInvariant, PTL

LEMMA PoliciesKeepTypes == PoliciesSpec => []PoliciesTypeOK
<1>1. ASSUME PoliciesInv, FirewallInv
      PROVE  PoliciesTypeOK
  <2> DEFINE R == Rule
  <2>1. rules \in Seq(R)
    BY <1>1 DEF FirewallInv
  <2> HIDE DEF R
  <2>2. \A i \in DOMAIN rules : rules[i] \in R
    BY <2>1
  <2> QED  BY <1>1, <2>2 DEF PoliciesInv, PolicyRowsTyped, FirewallInv, PoliciesTypeOK, R
<1>2. PoliciesInv => PolicyRowsTyped
  BY DEF PoliciesInv
<1> QED  BY <1>1, <1>2, PoliciesInitInv, PoliciesStep, FirewallInitInv, FirewallStep, PTL
            DEF PoliciesSpec

LEMMA LoginsKeepTypes == FailedLoginsSpec => []FailedLoginsTypeOK
<1> QED  BY FailuresBounded, PTL

LEMMA RateKeepsTypes == RateSpec => []RateTypeOK
<1>1. RateInv => RateTypeOK
  BY DEF RateInv
<1> QED  BY <1>1, RateInitInv, RateStep, PTL DEF RateSpec

LEMMA CachesKeepTypes == CachesSpec => []CachesTypeOK
<1> QED  BY CachesAreRight, PTL

LEMMA MonitorKeepsTypes == MonitorSpec => []MonitorTypeOK
<1>1. MonitorInv => MonitorTypeOK
  BY DEF MonitorInv, MonitorTyped
<1> QED  BY <1>1, MonitorHolds, PTL

LEMMA MailKeepsTypes == MailSpec => []MailTypeOK
<1>1. MailInv => MailTypeOK
  BY MailIsRight
<1> QED  BY <1>1, MailInitInv, MailStep, PTL DEF MailSpec

LEMMA ItemsKeepTypes == ItemsSpec => []ItemsTypeOK
<1>1. ASSUME ItemsInv
      PROVE  ItemsTypeOK
  <2> DEFINE R == OwnItem
  <2>1. ownItems \in Seq(R) /\ asked \in Seq(R) /\ Len(asked) = Len(ownItems)
    BY <1>1 DEF ItemsInv, ItemsTyped
  <2> HIDE DEF R
  <2>2. /\ DOMAIN asked = DOMAIN ownItems
        /\ \A id \in DOMAIN ownItems : {ownItems[id], asked[id]} \subseteq R
    BY <2>1
  <2> QED  BY <1>1, <2>2 DEF ItemsInv, ItemsTyped, ItemsTypeOK, R
<1> QED  BY <1>1, ItemsHold, PTL

LEMMA TelemetryKeepsTypes == TelemetrySpec => []TelemetryTypeOK
<1>1. TelemetryInv => TelemetryTypeOK
  BY DEF TelemetryInv
<1> QED  BY <1>1, TelemetryHolds, PTL

-----------------------------------------------------------------------------
(* The components side by side: whichever moves, each of them takes a step *)
(* of its own or none.                                                     *)
LEMMA EachKeepsToItsOwn ==
    ASSUME [MCNext]_mcVars
    PROVE  /\ [OrgItemsNext]_vaultVars /\ [AccessNext]_accessVars /\ [SendsNext]_sendVars
           /\ [PoliciesNext]_policyVars /\ [FailedLoginsNext]_loginVars /\ [RateNext]_rateVars
           /\ [CachesNext]_cacheVars /\ [MonitorNext]_monitorVars /\ [MailNext]_mailVars
           /\ [ItemsNext]_ownVars /\ [TelemetryNext]_telemetryVars
<1>1. CASE UNCHANGED mcVars
  BY <1>1 DEF mcVars, guardVars, reportVars
<1>2. CASE MCItems
  BY <1>2 DEF MCItems, guardVars, reportVars
<1>3. CASE MCAccess
  BY <1>3 DEF MCAccess, guardVars, reportVars
<1>4. CASE MCSends
  BY <1>4 DEF MCSends, guardVars, reportVars
<1>5. CASE MCPolicies
  BY <1>5 DEF MCPolicies, guardVars, reportVars
<1>6. CASE MCLogins
  BY <1>6 DEF MCLogins, reportVars
<1>7. CASE MCRate
  BY <1>7 DEF MCRate, reportVars
<1>8. CASE MCCaches
  BY <1>8 DEF MCCaches, guardVars, reportVars
<1>9. CASE MCMonitor
  BY <1>9 DEF MCMonitor, guardVars, reportVars
<1>10. CASE MCMail
  BY <1>10 DEF MCMail, guardVars
<1>11. CASE MCOwnItems
  BY <1>11 DEF MCOwnItems, guardVars
<1>12. CASE MCTelemetry
  BY <1>12 DEF MCTelemetry, guardVars
<1> QED
  BY <1>1, <1>2, <1>3, <1>4, <1>5, <1>6, <1>7, <1>8, <1>9, <1>10, <1>11, <1>12 DEF MCNext

(* Side by side each component behaves as its own specification says: what *)
(* is proved of one alone holds of it next to the others.                  *)
THEOREM EachFollowsItsSpec ==
    MCSpec => /\ OrgItemsSpec /\ AccessSpec /\ SendsSpec /\ PoliciesSpec /\ FailedLoginsSpec
              /\ RateSpec /\ CachesSpec /\ MonitorSpec /\ MailSpec /\ ItemsSpec /\ TelemetrySpec
<1>1. MCInit => /\ OrgItemsInit /\ AccessInit /\ SendsInit /\ PoliciesInit /\ FailedLoginsInit
                /\ RateInit /\ CachesInit /\ MonitorInit /\ MailInit /\ ItemsInit /\ TelemetryInit
  BY DEF MCInit
<1>2. [MCNext]_mcVars =>
           /\ [OrgItemsNext]_vaultVars /\ [AccessNext]_accessVars /\ [SendsNext]_sendVars
           /\ [PoliciesNext]_policyVars /\ [FailedLoginsNext]_loginVars /\ [RateNext]_rateVars
           /\ [CachesNext]_cacheVars /\ [MonitorNext]_monitorVars /\ [MailNext]_mailVars
           /\ [ItemsNext]_ownVars /\ [TelemetryNext]_telemetryVars
  BY EachKeepsToItsOwn
<1> QED
  BY <1>1, <1>2, PTL
     DEF MCSpec, OrgItemsSpec, AccessSpec, SendsSpec, PoliciesSpec, FailedLoginsSpec, RateSpec,
         CachesSpec, MonitorSpec, MailSpec, ItemsSpec, TelemetrySpec

(* Every table, frame and history of the vault's components keeps its      *)
(* type, whatever overlaps and whatever is written back.                   *)
THEOREM VaultTypesCorrect == MCSpec => []VaultTypesOK
<1>1. /\ OrgItemsTypeOK /\ AccessTypeOK /\ SendsTypeOK /\ PoliciesTypeOK /\ FailedLoginsTypeOK
      /\ RateTypeOK /\ CachesTypeOK /\ MonitorTypeOK /\ MailTypeOK /\ ItemsTypeOK
      /\ TelemetryTypeOK
      => VaultTypesOK
  BY DEF VaultTypesOK
<1> QED
  BY <1>1, EachFollowsItsSpec, VaultKeepsTypes, AccessKeepsTypes, SendsKeepTypes,
     PoliciesKeepTypes, LoginsKeepTypes, RateKeepsTypes, CachesKeepTypes, MonitorKeepsTypes,
     MailKeepsTypes, ItemsKeepTypes, TelemetryKeepsTypes, PTL

(* While requests come one by one there is one row per grant, membership   *)
(* of a team, monitored address, recorded breach and reported event; and a *)
(* mail job delivers once to each recipient and passes nobody over         *)
(* (CollectionAccess, BreachMonitor, Telemetry, MailJobs).                 *)
THEOREM EverythingOnce == MCSpec => []OnceEach
<1>1. OneGrantEach /\ OneRecordEach /\ EventStoredOnce /\ MailedOnce /\ NobodySkipped => OnceEach
  BY DEF OnceEach
<1> QED
  BY <1>1, EachFollowsItsSpec, GrantsAreSingle, BreachesAreSingle, EventsAreSingle,
     MailsAreSingle, EveryoneIsMailed, PTL

(* While requests come one by one, nothing that was deleted or removed -   *)
(* an item, a send, a monitored address - comes back with a later save, an *)
(* item is what its changes made of it, and the model's answers are kept:  *)
(* no save of a row that was read earlier undoes a write in between        *)
(* (OrgItems, Sends, BreachMonitor, Items, Telemetry).                     *)
THEOREM LaterSavesUndoNothing == MCSpec => []WritesStay
<1>1. /\ VaultStaysDeleted /\ SendStaysDeleted /\ EmailStaysRemoved /\ ItemsAsAsked
      /\ AnswersAreKept
      => WritesStay
  BY DEF WritesStay
<1> QED
  BY <1>1, EachFollowsItsSpec, DeletedRowsStay, DeletedSendStays, RemovedEmailsStay,
     ItemsAreAsAsked, AnswersStay, PTL

(* However requests overlap with each other and with the cleanups, the     *)
(* guards of sign-in let through no more than they should; the firewall    *)
(* answers as its rules read; and the caches hold what they stand for      *)
(* (FailedLogins, RateLimiter, Policies, Caches).                          *)
THEOREM GuardsAlwaysHold == MCSpec => []GuardsHold
<1>1. FailuresAreBounded /\ FailuresLeaveRoom /\ AdmittedIsBounded /\ FirewallAgrees /\ CachesHold
      => GuardsHold
  BY DEF GuardsHold
<1> QED
  BY <1>1, EachFollowsItsSpec, FailuresBounded, AdmissionBounded, FirewallAnswers,
     CachesAreRight, PTL
=============================================================================

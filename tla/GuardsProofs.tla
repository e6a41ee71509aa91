---------------------------- MODULE GuardsProofs ----------------------------
(***************************************************************************)
(* The guards and caches in memory, the organization's policies, its       *)
(* firewall, telemetry, the breach monitor and mail jobs, for any number   *)
(* of concurrent requests and any configuration.  Whatever overlaps: the   *)
(* count of failed sign-ins stays within its bound when a block outlasts   *)
(* its window, a client is let through no more often than the rate allows, *)
(* the firewall answers as its rules read, an icon in memory can be        *)
(* evicted, and a mail job counts, mails and covers its recipients.        *)
(* While requests come one by one: what an enabled policy requires is      *)
(* enabled, an event, an address and a breach are stored once, neither a   *)
(* removed address nor the model's answers are written over, and the icon  *)
(* served is the one last uploaded.                                        *)
(***************************************************************************)
EXTENDS FailedLogins, RateLimiter, Policies, Telemetry, BreachMonitor, Caches, MailJobs,
        FiniteSetTheorems, SequenceTheorems, WellFoundedInduction, TLAPS

-----------------------------------------------------------------------------
(* Places in lists, and lists without or with one element more. *)

(* Every set of places has a first one. *)
LEMMA MinIsFirst ==
    ASSUME NEW places, places \in SUBSET Nat, places # {}
    PROVE  Min(places) \in places /\ \A j \in places : Min(places) <= j
<1>1. PICK x \in places : \A y \in places : ~ (<<y, x>> \in OpToRel(<, Nat))
  BY NatLessThanWellFounded, WFMin, Zenon
<1>2. ASSUME NEW y \in places PROVE x <= y
  <2>1. ~ (y < x)
    BY <1>1 DEF OpToRel
  <2> QED  BY <2>1
<1> QED  BY <1>2 DEF Min

(* Every nonempty set of places of a finite list has a last one. *)
LEMMA MaxIsLast ==
    ASSUME NEW n \in Nat, NEW places \in SUBSET (1..n), places # {}
    PROVE  Max(places) \in places /\ \A j \in places : j <= Max(places)
<1> DEFINE below == {k \in Nat : n - k \in places}
<1>1. below \in SUBSET Nat /\ below # {}
  <2>1. PICK i \in places : TRUE
    OBVIOUS
  <2>2. n - i \in Nat /\ n - (n - i) = i
    BY <2>1
  <2> QED  BY <2>1, <2>2
<1>2. PICK x \in below : \A y \in below : ~ (<<y, x>> \in OpToRel(<, Nat))
  BY <1>1, NatLessThanWellFounded, WFMin, Zenon
<1>3. x \in Nat /\ n - x \in places /\ \A y \in below : ~ (y < x)
  BY <1>1, <1>2 DEF OpToRel
<1>4. ASSUME NEW other \in places PROVE other <= n - x
  <2>1. n - other \in Nat /\ n - (n - other) = other /\ other \in Nat
    OBVIOUS
  <2>2. n - other \in below
    BY <2>1
  <2>3. ~ (n - other < x)
    BY <1>3, <2>2
  <2> QED  BY <1>3, <2>1, <2>3
<1> QED  BY <1>3, <1>4 DEF Max

(* What is left of a list without the first mention of something. *)
LEMMA RemoveFirstIs ==
    ASSUME NEW S, NEW s \in Seq(S), NEW e
    PROVE  /\ RemoveFirst(s, e) \in Seq(S)
           /\ Len(RemoveFirst(s, e)) <= Len(s)
           /\ ToSet(s) \ {e} \subseteq ToSet(RemoveFirst(s, e))
<1>1. CASE ~ \E i \in 1..Len(s) : s[i] = e
  BY <1>1 DEF RemoveFirst
<1>2. CASE \E i \in 1..Len(s) : s[i] = e
  <2> DEFINE I == {i \in 1..Len(s) : s[i] = e}
             m == CHOOSE x \in I : \A y \in I : x =< y
  <2>1. RemoveFirst(s, e) = SubSeq(s, 1, m - 1) \o SubSeq(s, m + 1, Len(s))
    BY <1>2 DEF RemoveFirst, RemoveAt, SelectInSeq, Min
  <2>2. I \in SUBSET Nat /\ I # {}
    BY <1>2
  <2>3. Min(I) \in I
    BY <2>2, MinIsFirst
  <2>4. m \in 1..Len(s) /\ s[m] = e
    BY <2>3 DEF Min
  <2> HIDE DEF m, I
  <2> DEFINE a == SubSeq(s, 1, m - 1)
             b == SubSeq(s, m + 1, Len(s))
  <2>5. /\ a \in Seq(S) /\ Len(a) = m - 1 /\ \A i \in 1..(m - 1) : a[i] = s[i]
        /\ b \in Seq(S) /\ Len(b) = Len(s) - m
        /\ \A i \in 1..(Len(s) - m) : b[i] = s[m + i]
    BY <2>4
  <2> HIDE DEF a, b
  <2> DEFINE c == a \o b
  <2>6. /\ c \in Seq(S) /\ Len(c) = Len(s) - 1
        /\ \A i \in 1..(m - 1) : c[i] = s[i]
        /\ \A i \in m..(Len(s) - 1) : c[i] = s[i + 1]
    <3>1. /\ c \in Seq(S) /\ Len(c) = Len(a) + Len(b)
          /\ \A i \in 1 .. Len(a) + Len(b) :
                c[i] = IF i <= Len(a) THEN a[i] ELSE b[i - Len(a)]
      BY <2>5, ConcatProperties
    <3>2. Len(c) = Len(s) - 1 /\ \A i \in 1..(m - 1) : c[i] = s[i]
      BY <3>1, <2>4, <2>5
    <3> HIDE DEF c
    <3>3. ASSUME NEW i \in m..(Len(s) - 1) PROVE c[i] = s[i + 1]
      <4>0. Len(a) = m - 1 /\ Len(b) = Len(s) - m /\ m \in 1..Len(s) /\ Len(s) \in Nat
        BY <2>4, <2>5
      <4>1. i - (m - 1) \in 1..(Len(s) - m) /\ i \in 1 .. Len(a) + Len(b) /\ ~ (i <= Len(a))
        BY <4>0
      <4>2. c[i] = b[i - (m - 1)]
        BY <4>1, <3>1, <2>5
      <4>3. m + (i - (m - 1)) = i + 1
        BY <4>0
      <4>4. b[i - (m - 1)] = s[m + (i - (m - 1))]
        BY <4>1, <2>4, <2>5
      <4> QED  BY <4>2, <4>3, <4>4
    <3> QED  BY <3>1, <3>2, <3>3
  <2>7. RemoveFirst(s, e) = c
    BY <2>1 DEF a, b
  <2> HIDE DEF c
  <2>8. ASSUME NEW x \in ToSet(s), x # e PROVE x \in ToSet(c)
    <3>1. PICK i \in 1..Len(s) : s[i] = x
      BY <2>8 DEF ToSet
    <3>2. i # m
      BY <2>4, <2>8, <3>1
    <3>3. CASE i < m
      <4>1. i \in 1..(m - 1) /\ i \in 1..(Len(s) - 1)
        BY <3>1, <3>3, <2>4
      <4>2. c[i] = x /\ i \in DOMAIN c
        BY <4>1, <3>1, <2>6
      <4> QED  BY <4>2 DEF ToSet
    <3>4. CASE i > m
      <4>1. i - 1 \in m..(Len(s) - 1) /\ i - 1 \in 1..(Len(s) - 1) /\ (i - 1) + 1 = i
        BY <3>1, <3>4, <2>4
      <4>2. c[i - 1] = x /\ i - 1 \in DOMAIN c
        BY <4>1, <3>1, <2>6
      <4> QED  BY <4>2 DEF ToSet
    <3> QED  BY <3>1, <3>2, <3>3, <3>4, <2>4
  <2>9. Len(c) <= Len(s)
    BY <2>6
  <2> QED  BY <2>6, <2>7, <2>8, <2>9
<1> QED  BY <1>1, <1>2

LEMMA AppendIs ==
    ASSUME NEW S, NEW s \in Seq(S), NEW e \in S
    PROVE  /\ Append(s, e) \in Seq(S) /\ Len(Append(s, e)) = Len(s) + 1
           /\ ToSet(Append(s, e)) = ToSet(s) \cup {e}
<1>1. /\ Append(s, e) \in Seq(S) /\ Len(Append(s, e)) = Len(s) + 1
      /\ DOMAIN s = 1..Len(s) /\ DOMAIN Append(s, e) = 1..(Len(s) + 1) /\ Len(s) \in Nat
      /\ Append(s, e)[Len(s) + 1] = e /\ \A i \in 1..Len(s) : Append(s, e)[i] = s[i]
  OBVIOUS
<1>2. ToSet(s) \cup {e} \subseteq ToSet(Append(s, e))
  BY <1>1 DEF ToSet
<1>3. ToSet(Append(s, e)) \subseteq ToSet(s) \cup {e}
  <2>1. \A i \in 1..(Len(s) + 1) : i \in 1..Len(s) \/ i = Len(s) + 1
    BY <1>1
  <2> QED  BY <1>1, <2>1 DEF ToSet
<1> QED  BY <1>1, <1>2, <1>3

LEMMA TailIs ==
    ASSUME NEW S, NEW s \in Seq(S), s # <<>>
    PROVE  /\ Tail(s) \in Seq(S) /\ Len(Tail(s)) = Len(s) - 1 /\ Head(s) \in S
           /\ ToSet(s) = ToSet(Tail(s)) \cup {Head(s)}
<1>1. /\ Tail(s) \in Seq(S) /\ Len(Tail(s)) = Len(s) - 1 /\ Head(s) \in S
      /\ DOMAIN s = 1..Len(s) /\ DOMAIN Tail(s) = 1..(Len(s) - 1)
      /\ Len(s) \in Nat /\ Len(s) > 0
      /\ Head(s) = s[1] /\ \A i \in 1..(Len(s) - 1) : Tail(s)[i] = s[i + 1]
  OBVIOUS
<1>2. ASSUME NEW x \in ToSet(s) PROVE x \in ToSet(Tail(s)) \cup {Head(s)}
  <2>1. PICK i \in 1..Len(s) : s[i] = x
    BY <1>1 DEF ToSet
  <2>2. CASE i = 1
    BY <2>1, <2>2, <1>1
  <2>3. CASE i # 1
    <3>1. i - 1 \in 1..(Len(s) - 1) /\ (i - 1) + 1 = i
      BY <2>1, <2>3, <1>1
    <3>2. i - 1 \in DOMAIN Tail(s) /\ Tail(s)[i - 1] = x
      BY <3>1, <2>1, <1>1
    <3> QED  BY <3>2 DEF ToSet
  <2> QED  BY <2>2, <2>3
<1>3. ASSUME NEW x \in ToSet(Tail(s)) \cup {Head(s)} PROVE x \in ToSet(s)
  <2>1. CASE x = Head(s)
    <3>1. 1 \in DOMAIN s /\ s[1] = x
      BY <2>1, <1>1
    <3> QED  BY <3>1 DEF ToSet
  <2>2. CASE x # Head(s)
    <3>1. PICK i \in 1..(Len(s) - 1) : Tail(s)[i] = x
      BY <2>2, <1>1, <1>3 DEF ToSet
    <3>2. i + 1 \in DOMAIN s /\ s[i + 1] = x
      BY <3>1, <1>1
    <3> QED  BY <3>2 DEF ToSet
  <2> QED  BY <2>1, <2>2
<1> QED  BY <1>1, <1>2, <1>3

-----------------------------------------------------------------------------
(* FailedLogins. *)

(* What a step preserves: the types, the room the sign-ins under way need, *)
(* and the bound itself, which an entry keeps after its window has passed. *)
LoginsInv ==
    /\ FailedLoginsTypeOK
    /\ FailuresLeaveRoom
    /\ FailuresAreBounded

(* Sign-ins under way are no more than there are requests. *)
LEMMA AttemptingIsFinite ==
    ASSUME FailedLoginsTypeOK
    PROVE  /\ IsFiniteSet(attempting)
           /\ Cardinality(attempting) \in Nat
           /\ Cardinality(LoginRequests) \in Nat
           /\ Cardinality(attempting) <= Cardinality(LoginRequests)
  BY FailedLoginsAssumption, FS_Subset, FS_CardinalityType DEF FailedLoginsTypeOK

(* At first nobody has failed. *)
LEMMA LoginsInit ==
    ASSUME FailedLoginsInit
    PROVE  LoginsInv
<1> USE FailedLoginsAssumption DEF FailedLoginsInit
<1>1. FailedLoginsTypeOK
  BY DEF FailedLoginsTypeOK, NoEntry
<1>2. FailuresLeaveRoom
  BY DEF FailuresLeaveRoom
<1>3. Cardinality(LoginRequests) \in Nat
  BY FS_CardinalityType
<1>4. FailuresAreBounded
  BY <1>3 DEF FailuresAreBounded, NoEntry
<1> QED BY <1>1, <1>2, <1>4 DEF LoginsInv

(* A sign-in that begins while the entry is in force found the address not *)
(* blocked: then nothing is near the limit, or the window is over.  One    *)
(* that came through a block is counted apart.                             *)
LEMMA BeginPreserves ==
    ASSUME LoginsInv, NEW r \in LoginRequests, BeginLogin(r)
    PROVE  LoginsInv'
<1> DEFINE blocked == /\ entry # NoEntry
                      /\ entry.blockedAt # NotBlocked
                      /\ clock - entry.blockedAt <= BlockFor
<1> USE FailedLoginsAssumption DEF LoginsInv
<1>b. /\ r \notin attempting /\ attempting' = attempting \cup {r}
      /\ entry' = entry /\ clock' = clock
      /\ unread' \in {unread, unread + 1} /\ unread' <= MaxUnread
      /\ blocked => unread' = unread + 1
  BY DEF BeginLogin, IsBlocked
<1>u. unread \in Nat /\ unread' \in Nat /\ unread' \in 0..MaxUnread /\ unread <= unread'
  BY <1>b DEF FailedLoginsTypeOK
<1>1. FailedLoginsTypeOK'
  BY <1>b, <1>u DEF FailedLoginsTypeOK
<1>2. Cardinality(attempting') = Cardinality(attempting) + 1
  BY <1>b, AttemptingIsFinite, FS_AddElement
<1>c. Cardinality(attempting) \in Nat /\ Cardinality(LoginRequests) \in Nat
  BY AttemptingIsFinite
<1>3. FailuresAreBounded'
  <2> SUFFICES ASSUME BlockFor >= Window PROVE FailuresAreBounded'
    BY DEF FailuresAreBounded
  <2>1. entry.attempts <= MaxAttempts + Cardinality(LoginRequests) - 1 + unread
    BY DEF FailuresAreBounded
  <2>2. entry.attempts \in Nat
    BY DEF FailedLoginsTypeOK, Entry, NoEntry
  <2> QED BY <2>1, <2>2, <1>b, <1>u, <1>c DEF FailuresAreBounded
<1>4. FailuresLeaveRoom'
  <2> SUFFICES ASSUME entry # NoEntry
               PROVE  FailuresLeaveRoom'
    BY <1>b DEF FailuresLeaveRoom
  <2>1. entry \in Entry
    BY DEF FailedLoginsTypeOK
  <2>2. CASE entry.blockedAt = NotBlocked
    BY <2>2, <2>1, <1>b DEF FailuresLeaveRoom
  <2>3. CASE entry.blockedAt # NotBlocked
    <3>1. /\ clock \in Nat /\ Window \in Nat /\ BlockFor \in Nat
          /\ entry.firstFail \in Nat /\ entry.blockedAt \in Nat
      BY <2>1, <2>3 DEF Entry, FailedLoginsTypeOK
    <3>2. /\ entry.firstFail <= entry.blockedAt /\ entry.blockedAt <= clock
          /\ entry.firstFail <= clock
      BY <2>3 DEF FailuresLeaveRoom
    <3>5. entry' = entry /\ clock' = clock
      BY <1>b
    <3>3. CASE ~ (clock - entry.blockedAt <= BlockFor)
      <4>1. BlockFor >= Window => ~ (clock - entry.firstFail <= Window)
        BY <3>1, <3>2, <3>3
      <4> QED BY <4>1, <2>3, <3>2, <3>5 DEF FailuresLeaveRoom
    <3>4. CASE clock - entry.blockedAt <= BlockFor
      <4>1. unread' = unread + 1
        BY <3>4, <2>3, <1>b
      <4>2. entry.attempts \in Nat
        BY <2>1 DEF Entry
      <4> QED BY <4>1, <4>2, <2>3, <3>2, <3>5, <1>2, <1>c, <1>u DEF FailuresLeaveRoom
    <3> QED BY <3>3, <3>4
  <2> QED BY <2>2, <2>3
<1> QED BY <1>1, <1>3, <1>4

(* A failure takes the room its own sign-in had. *)
LEMMA CountingPreserves ==
    ASSUME LoginsInv, NEW r \in LoginRequests, FailLogin(r), RecordFailedAttempt
    PROVE  LoginsInv'
<1> DEFINE n == CountedIn.attempts + 1
           room == MaxAttempts + Cardinality(LoginRequests) + unread
<1> USE FailedLoginsAssumption DEF FailLogin
<1>u. unread \in Nat /\ unread' = unread
  BY DEF LoginsInv, FailedLoginsTypeOK
<1>1. /\ Cardinality(attempting) \in Nat /\ Cardinality(LoginRequests) \in Nat
      /\ Cardinality(attempting) <= Cardinality(LoginRequests)
      /\ Cardinality(attempting') = Cardinality(attempting) - 1
      /\ Cardinality(attempting') \in Nat
  <2>1. /\ IsFiniteSet(attempting')
        /\ Cardinality(attempting') = Cardinality(attempting) - 1
    BY AttemptingIsFinite, FS_RemoveElement DEF LoginsInv
  <2> QED BY <2>1, AttemptingIsFinite, FS_CardinalityType DEF LoginsInv
<1>2. /\ CountedIn.attempts \in Nat /\ CountedIn.firstFail \in Nat
      /\ CountedIn.blockedAt \in Nat \cup {NotBlocked}
      /\ clock \in Nat
      /\ CountedIn.firstFail <= clock
      /\ clock - CountedIn.firstFail <= Window
      /\ CountedIn.blockedAt = NotBlocked => CountedIn.attempts < MaxAttempts
      /\ CountedIn.blockedAt # NotBlocked =>
            /\ CountedIn.firstFail <= CountedIn.blockedAt
            /\ CountedIn.blockedAt <= clock
            /\ BlockFor >= Window => CountedIn.attempts + Cardinality(attempting) < room
  <2> USE DEF LoginsInv, FailedLoginsTypeOK, FailuresLeaveRoom, CountedIn, Entry, NotBlocked
  <2>1. CASE entry = NoEntry \/ clock - entry.firstFail > Window
    BY <2>1
  <2>2. CASE ~(entry = NoEntry \/ clock - entry.firstFail > Window)
    BY <2>2
  <2> QED BY <2>1, <2>2
<1>3. /\ entry'.attempts = n /\ entry'.firstFail = CountedIn.firstFail
      /\ entry'.blockedAt = IF Blocks(n) /\ CountedIn.blockedAt = NotBlocked
                            THEN clock ELSE CountedIn.blockedAt
  BY DEF RecordFailedAttempt
<1>4. FailedLoginsTypeOK'
  BY <1>2, <1>u DEF LoginsInv, FailedLoginsTypeOK, RecordFailedAttempt, Entry, NotBlocked
<1>5. FailuresLeaveRoom'
  <2>1. CASE CountedIn.blockedAt = NotBlocked
    BY <2>1, <1>u, <1>1, <1>2, <1>3 DEF FailuresLeaveRoom, Blocks, NotBlocked
  <2>2. CASE CountedIn.blockedAt # NotBlocked
    BY <2>2, <1>u, <1>1, <1>2, <1>3 DEF FailuresLeaveRoom, Blocks, NotBlocked
  <2> QED BY <2>1, <2>2
<1>6. FailuresAreBounded'
  <2>1. Cardinality(LoginRequests) >= 1 /\ Cardinality(attempting) >= 1
    BY <1>1
  <2> QED BY <2>1, <1>u, <1>1, <1>2, <1>3 DEF FailuresAreBounded
<1> QED BY <1>4, <1>5, <1>6 DEF LoginsInv

(* One that is not counted only leaves. *)
LEMMA FailPreserves ==
    ASSUME LoginsInv, NEW r \in LoginRequests, FailLogin(r)
    PROVE  LoginsInv'
<1>1. CASE RecordFailedAttempt
  BY <1>1, CountingPreserves
<1>2. CASE UNCHANGED entry
  <2> USE FailedLoginsAssumption DEF FailLogin, LoginsInv
  <2>1. FailedLoginsTypeOK'
    BY <1>2 DEF FailedLoginsTypeOK
  <2>2. /\ Cardinality(attempting) \in Nat /\ Cardinality(LoginRequests) \in Nat
        /\ Cardinality(attempting') \in Nat
        /\ Cardinality(attempting') <= Cardinality(attempting)
    <3>1. IsFiniteSet(attempting) /\ attempting' \subseteq attempting
      BY AttemptingIsFinite
    <3> QED BY <3>1, AttemptingIsFinite, FS_Subset, FS_CardinalityType
  <2>3. unread \in Nat /\ unread' = unread /\ entry' = entry /\ clock' = clock
    BY <1>2 DEF FailedLoginsTypeOK
  <2>4. FailuresAreBounded'
    BY <2>3 DEF FailuresAreBounded
  <2>5. FailuresLeaveRoom'
    <3> SUFFICES ASSUME entry # NoEntry PROVE FailuresLeaveRoom'
      BY <2>3 DEF FailuresLeaveRoom
    <3>1. entry.attempts \in Nat
      BY DEF FailedLoginsTypeOK, Entry
    <3> QED BY <3>1, <2>2, <2>3 DEF FailuresLeaveRoom
  <2> QED BY <2>1, <2>4, <2>5
<1> QED BY <1>1, <1>2 DEF FailLogin

(* An entry that is dropped, by a success or by the cleanup, bounds        *)
(* nothing.                                                                *)
LEMMA DroppingPreserves ==
    ASSUME LoginsInv, entry' = NoEntry, UNCHANGED <<clock, unread>>,
           attempting' \subseteq attempting
    PROVE  LoginsInv'
<1> USE FailedLoginsAssumption
<1>1. FailedLoginsTypeOK'
  BY DEF LoginsInv, FailedLoginsTypeOK
<1>2. FailuresLeaveRoom'
  BY DEF FailuresLeaveRoom
<1>3. FailuresAreBounded'
  <2>1. unread' \in Nat
    BY DEF LoginsInv, FailedLoginsTypeOK
  <2> QED BY <2>1, FS_CardinalityType DEF FailuresAreBounded, NoEntry
<1> QED BY <1>1, <1>2, <1>3 DEF LoginsInv

(* Time only lets a window pass. *)
LEMMA TimePreserves ==
    ASSUME LoginsInv, TimePasses
    PROVE  LoginsInv'
<1> USE FailedLoginsAssumption DEF TimePasses, LoginsInv
<1>1. FailedLoginsTypeOK'
  BY DEF FailedLoginsTypeOK
<1>2. FailuresLeaveRoom'
  BY DEF FailuresLeaveRoom, FailedLoginsTypeOK, Entry
<1>3. FailuresAreBounded'
  BY DEF FailuresAreBounded
<1> QED BY <1>1, <1>2, <1>3

(* The entry is well formed, and under a policy whose block lasts at least *)
(* as long as its window the failures counted in it never pass the limit   *)
(* by more than the sign-ins that overlapped and those that came through a *)
(* block because the policy was off or unreadable (IsBlocked,              *)
(* RecordFailedAttempt).                                                   *)
THEOREM FailuresBounded ==
    FailedLoginsSpec => [](FailedLoginsTypeOK /\ FailuresLeaveRoom /\ FailuresAreBounded)
<1>1. FailedLoginsInit => LoginsInv
  BY LoginsInit
<1>2. LoginsInv /\ [FailedLoginsNext]_loginVars => LoginsInv'
  <2> SUFFICES ASSUME LoginsInv, [FailedLoginsNext]_loginVars
               PROVE  LoginsInv'
    OBVIOUS
  <2>1. ASSUME NEW r \in LoginRequests, BeginLogin(r) PROVE LoginsInv'
    BY <2>1, BeginPreserves
  <2>2. ASSUME NEW r \in LoginRequests, FailLogin(r) PROVE LoginsInv'
    BY <2>2, FailPreserves
  <2>3. ASSUME NEW r \in LoginRequests, RecordSuccess(r) PROVE LoginsInv'
    BY <2>3, DroppingPreserves DEF RecordSuccess
  <2>4. CASE ForgetOldEntry
    BY <2>4, DroppingPreserves DEF ForgetOldEntry
  <2>5. CASE TimePasses
    BY <2>5, TimePreserves
  <2>6. CASE UNCHANGED loginVars
    BY <2>6 DEF loginVars, LoginsInv, FailedLoginsTypeOK, FailuresLeaveRoom, FailuresAreBounded
  <2> QED BY <2>1, <2>2, <2>3, <2>4, <2>5, <2>6 DEF FailedLoginsNext
<1>3. LoginsInv => FailedLoginsTypeOK /\ FailuresLeaveRoom /\ FailuresAreBounded
  BY DEF LoginsInv
<1> QED BY <1>1, <1>2, <1>3, PTL DEF FailedLoginsSpec

-----------------------------------------------------------------------------
(* RateLimiter. *)

(* Division of the clock by the time a token takes. *)
LEMMA DivFacts ==
    ASSUME NEW n \in Nat, NEW d \in Nat \ {0}
    PROVE  n \div d \in Nat /\ d * (n \div d) <= n /\ n < d * (n \div d) + d
<1>1. n \div d \in Int /\ n % d \in 0..(d - 1) /\ n = d * (n \div d) + (n % d)
  OBVIOUS
<1>2. d * (n \div d) > -d
  BY <1>1
<1>3. n \div d >= 0
  BY <1>1, <1>2
<1> QED BY <1>1, <1>3

LEMMA ProductsOrdered ==
    ASSUME NEW d \in Nat \ {0}, NEW x \in Nat, NEW y \in Nat, d * x < d * y + d
    PROVE  x <= y
<1> SUFFICES ASSUME y + 1 <= x PROVE FALSE
  OBVIOUS
<1>1. PICK k \in Nat : x = y + 1 + k
  <2>1. x - (y + 1) \in Nat /\ x = y + 1 + (x - (y + 1))
    OBVIOUS
  <2> QED BY <2>1
<1>2. d * x = d * y + d + d * k
  BY <1>1
<1>3. d * k >= 0
  OBVIOUS
<1> QED BY <1>2, <1>3

LEMMA DivAdds ==
    ASSUME NEW a \in Nat, NEW b \in Nat, NEW d \in Nat \ {0}
    PROVE  a \div d + b \div d <= (a + b) \div d
<1> DEFINE x == a \div d
           y == b \div d
           z == (a + b) \div d
<1>1. x \in Nat /\ d * x <= a
  BY DivFacts
<1>2. y \in Nat /\ d * y <= b
  BY DivFacts
<1>3. z \in Nat /\ a + b < d * z + d
  BY DivFacts
<1> HIDE DEF x, y, z
<1>4. d * (x + y) = d * x + d * y
  BY <1>1, <1>2
<1>5. d * x \in Nat /\ d * y \in Nat /\ d * z \in Nat
  BY <1>1, <1>2, <1>3
<1>6. d * (x + y) < d * z + d
  BY <1>1, <1>2, <1>3, <1>4, <1>5
<1>7. x + y <= z
  BY <1>1, <1>2, <1>3, <1>6, ProductsOrdered
<1> QED BY <1>7 DEF x, y, z

LEMMA DivGrows ==
    ASSUME NEW a \in Nat, NEW b \in Nat, a <= b, NEW d \in Nat \ {0}
    PROVE  a \div d + (b - a) \div d <= b \div d /\ a \div d <= b \div d
<1>1. b - a \in Nat /\ a + (b - a) = b
  OBVIOUS
<1>2. a \div d + (b - a) \div d <= (a + (b - a)) \div d
  BY <1>1, DivAdds
<1>3. a \div d \in Nat /\ (b - a) \div d \in Nat /\ b \div d \in Nat
  BY <1>1, DivFacts
<1> QED BY <1>1, <1>2, <1>3

LEMMA DivReaches ==
    ASSUME NEW n \in Nat, NEW k \in Nat, NEW d \in Nat \ {0}, d * k <= n
    PROVE  k <= n \div d
<1> DEFINE q == n \div d
<1>1. q \in Nat /\ n < d * q + d
  BY DivFacts
<1> HIDE DEF q
<1>2. d * k \in Nat /\ d * q \in Nat
  BY <1>1
<1>3. d * k < d * q + d
  BY <1>1, <1>2
<1>4. k <= q
  BY <1>1, <1>3, ProductsOrdered
<1> QED BY <1>4 DEF q

(* The requests that hold a visitor that was dropped from the map. *)
Stale == {q \in RateRequests : holding[q] \notin {0, visitor}}

(* Tokens in the bucket of the map, and what may ever have been put there. *)
InBucket == IF visitor = 0 THEN 0 ELSE visitors[visitor].tokens

PutInBucket ==
    IF visitor = 0 THEN now \div Rate ELSE Burst + visitors[visitor].lastSeen \div Rate

(* What was let through, could be let through at once, and may be let      *)
(* through by dropped visitors, stays within what was ever put in.         *)
RateInv ==
    /\ RateTypeOK
    /\ \A v \in 1..Len(visitors) : visitors[v].lastSeen <= now
    /\ admitted + InBucket + Cardinality(Stale) <= PutInBucket + strays

LEMMA StaleIsFinite ==
    IsFiniteSet(Stale) /\ Cardinality(Stale) \in Nat
  BY RateAssumption, FS_Subset, FS_CardinalityType DEF Stale

LEMMA RateInitInv == RateInit => RateInv
<1> SUFFICES ASSUME RateInit PROVE RateInv
  OBVIOUS
<1> USE DEF RateInit
<1>1. RateTypeOK
  BY RateAssumption DEF RateTypeOK
<1>2. Stale = {}
  BY DEF Stale
<1>3. Cardinality(Stale) = 0
  BY <1>2, FS_EmptySet
<1>4. now \div Rate \in Nat
  BY DivFacts, RateAssumption
<1> QED BY <1>1, <1>3, <1>4 DEF RateInv, InBucket, PutInBucket

(* A new visitor has a full bucket, which the time before has earned. *)
LEMMA FindKeeps ==
    ASSUME RateInv, NEW q \in RateRequests, FindVisitor(q)
    PROVE  RateInv'
<1> USE RateAssumption
<1>1. /\ now \in Nat /\ admitted \in Nat /\ strays \in Nat
      /\ visitors \in Seq([lastSeen: Nat, tokens: 0..Burst])
      /\ visitor \in 0..Len(visitors) /\ Len(visitors) \in Nat
      /\ holding \in [RateRequests -> 0..Len(visitors)]
  BY DEF RateInv, RateTypeOK
<1>2. UNCHANGED <<now, admitted, strays>> /\ holding' = [holding EXCEPT ![q] = visitor']
  BY DEF FindVisitor
<1>3. CASE visitor = 0
  <2> DEFINE new == [lastSeen |-> now, tokens |-> Burst]
  <2>1. visitors' = Append(visitors, new) /\ visitor' = Len(visitors')
    BY <1>3 DEF FindVisitor
  <2>2. new \in [lastSeen: Nat, tokens: 0..Burst]
    BY <1>1
  <2> HIDE DEF new
  <2>3. /\ visitors' \in Seq([lastSeen: Nat, tokens: 0..Burst])
        /\ Len(visitors') = Len(visitors) + 1 /\ visitor' = Len(visitors) + 1
        /\ visitors'[Len(visitors) + 1] = new
        /\ \A v \in 1..Len(visitors) : visitors'[v] = visitors[v]
    <3> DEFINE V == [lastSeen: Nat, tokens: 0..Burst]
    <3>1. visitors \in Seq(V) /\ new \in V
      BY <1>1, <2>2
    <3> HIDE DEF V
    <3>2. /\ visitors' \in Seq(V) /\ Len(visitors') = Len(visitors) + 1
          /\ visitors'[Len(visitors) + 1] = new
          /\ \A v \in 1..Len(visitors) : visitors'[v] = visitors[v]
      BY <2>1, <3>1
    <3> QED BY <2>1, <3>2 DEF V
  <2>4. RateTypeOK'
    BY <1>1, <1>2, <2>3 DEF RateInv, RateTypeOK
  <2>5. \A v \in 1..Len(visitors') : visitors'[v].lastSeen <= now'
    <3> TAKE v \in 1..Len(visitors')
    <3>1. CASE v = Len(visitors) + 1
      BY <1>1, <1>2, <2>3, <3>1 DEF new
    <3>2. CASE v # Len(visitors) + 1
      <4>1. Len(visitors) \in Nat /\ Len(visitors') = Len(visitors) + 1
        BY <1>1, <2>3
      <4>2. v \in 1..Len(visitors)
        BY <3>2, <4>1
      <4> QED BY <1>2, <2>3, <4>2 DEF RateInv
    <3> QED BY <3>1, <3>2
  <2>6. Stale' \subseteq Stale
    BY <1>1, <1>2, <1>3, <2>3 DEF Stale
  <2>7. Cardinality(Stale') \in Nat /\ Cardinality(Stale') <= Cardinality(Stale)
    BY <2>6, StaleIsFinite, FS_Subset, FS_CardinalityType
  <2>8. now \div Rate \in Nat /\ Cardinality(Stale) \in Nat
    BY <1>1, DivFacts, StaleIsFinite
  <2>9. admitted + Cardinality(Stale) <= now \div Rate + strays
    BY <1>1, <1>3, <2>8 DEF RateInv, InBucket, PutInBucket
  <2>10. InBucket' = Burst /\ PutInBucket' = Burst + now \div Rate
    <3>1. visitors'[visitor'] = new /\ visitor' # 0
      BY <1>1, <2>3
    <3> QED BY <1>2, <3>1 DEF InBucket, PutInBucket, new
  <2>11. (admitted + InBucket + Cardinality(Stale) <= PutInBucket + strays)'
    <3> DEFINE e == now \div Rate
               c == Cardinality(Stale)
               n == Cardinality(Stale')
    <3>1. /\ e \in Nat /\ c \in Nat /\ n \in Nat /\ Burst \in Nat
          /\ n <= c /\ admitted + c <= e + strays
      BY <2>7, <2>8, <2>9
    <3>2. admitted' + InBucket' + n = admitted + Burst + n /\ PutInBucket' = Burst + e
      BY <1>2, <2>10
    <3> HIDE DEF e, c, n
    <3>3. admitted + Burst + n <= Burst + e + strays
      BY <1>1, <3>1
    <3>4. admitted' + InBucket' + n <= PutInBucket' + strays'
      BY <1>2, <3>2, <3>3
    <3> QED BY <3>4 DEF n
  <2> QED BY <2>4, <2>5, <2>11 DEF RateInv
<1>4. CASE visitor # 0
  <2>1. UNCHANGED <<visitors, visitor>>
    BY <1>4 DEF FindVisitor
  <2>2. RateTypeOK'
    BY <1>1, <1>2, <2>1 DEF RateInv, RateTypeOK
  <2>3. Stale' \subseteq Stale
    BY <1>1, <1>2, <2>1 DEF Stale
  <2>4. Cardinality(Stale') \in Nat /\ Cardinality(Stale') <= Cardinality(Stale)
    BY <2>3, StaleIsFinite, FS_Subset, FS_CardinalityType
  <2>5. InBucket' = InBucket /\ PutInBucket' = PutInBucket
    BY <1>2, <2>1 DEF InBucket, PutInBucket
  <2>6. InBucket \in Nat /\ PutInBucket \in Nat /\ Cardinality(Stale) \in Nat
    <3> DEFINE V == [lastSeen: Nat, tokens: 0..Burst]
    <3>1. visitors[visitor] \in V
      <4>1. visitors \in Seq(V) /\ visitor \in 1..Len(visitors)
        BY <1>1, <1>4
      <4> HIDE DEF V
      <4> QED BY <4>1
    <3>2. visitors[visitor].lastSeen \div Rate \in Nat
      BY <3>1, DivFacts
    <3> QED BY <1>4, <3>1, <3>2, StaleIsFinite DEF InBucket, PutInBucket
  <2> QED BY <1>1, <1>2, <2>1, <2>2, <2>4, <2>5, <2>6 DEF RateInv
<1> QED BY <1>3, <1>4

(* A bucket that is refilled gets no more than the time has earned. *)
LEMMA RefillFacts ==
    ASSUME now \in Nat, NEW v \in [lastSeen: Nat, tokens: 0..Burst], v.lastSeen <= now
    PROVE  /\ Refill(v) \in [lastSeen: Nat, tokens: 0..Burst]
           /\ Refill(v).lastSeen <= now
           /\ Refill(v).tokens + v.lastSeen \div Rate
                  <= v.tokens + Refill(v).lastSeen \div Rate
<1> USE RateAssumption
<1> DEFINE earned == (now - v.lastSeen) \div Rate
<1>1. /\ earned \in Nat /\ v.lastSeen \div Rate \in Nat /\ now \div Rate \in Nat
      /\ v.lastSeen \div Rate + earned <= now \div Rate
  <2>1. now - v.lastSeen \in Nat
    OBVIOUS
  <2> QED BY <2>1, DivFacts, DivGrows
<1>2. Refill(v) = IF earned = 0 THEN v
                  ELSE [lastSeen |-> now,
                        tokens |-> IF v.tokens + earned > Burst THEN Burst
                                   ELSE v.tokens + earned]
  BY DEF Refill
<1> HIDE DEF earned
<1>3. CASE earned = 0
  BY <1>1, <1>2, <1>3
<1>4. CASE earned # 0
  <2>1. Refill(v).lastSeen = now
    BY <1>2, <1>4
  <2>2. Refill(v).tokens = IF v.tokens + earned > Burst THEN Burst ELSE v.tokens + earned
    BY <1>2, <1>4
  <2>3. Refill(v) \in [lastSeen: Nat, tokens: 0..Burst]
    BY <1>1, <1>2, <1>4
  <2> QED BY <1>1, <2>1, <2>2, <2>3
<1> QED BY <1>3, <1>4

(* A request takes a token from the bucket of the map, or, when its        *)
(* visitor was dropped, what was counted for it then.                      *)
LEMMA TakeKeeps ==
    ASSUME RateInv, NEW q \in RateRequests, TakeToken(q)
    PROVE  RateInv'
<1> USE RateAssumption
<1> DEFINE h == holding[q]
           old == visitors[h]
           v == Refill(old)
           left == IF v.tokens > 0 THEN [v EXCEPT !.tokens = @ - 1] ELSE v
           took == IF v.tokens > 0 THEN 1 ELSE 0
           V == [lastSeen: Nat, tokens: 0..Burst]
<1>1. /\ now \in Nat /\ admitted \in Nat /\ strays \in Nat
      /\ visitors \in Seq(V)
      /\ visitor \in 0..Len(visitors) /\ Len(visitors) \in Nat
      /\ holding \in [RateRequests -> 0..Len(visitors)]
  BY DEF RateInv, RateTypeOK
<1>2. /\ h \in 1..Len(visitors) /\ old \in V /\ old.lastSeen <= now
  <2>1. h \in 1..Len(visitors)
    BY <1>1 DEF TakeToken
  <2> HIDE DEF V
  <2> QED BY <1>1, <2>1 DEF RateInv
<1>3. /\ v \in V /\ v.lastSeen <= now
      /\ v.tokens + old.lastSeen \div Rate <= old.tokens + v.lastSeen \div Rate
  BY <1>1, <1>2, RefillFacts
<1>4. /\ visitors' = [visitors EXCEPT ![h] = left]
      /\ admitted' = admitted + took
      /\ holding' = [holding EXCEPT ![q] = 0]
      /\ UNCHANGED <<visitor, now, strays>>
  <2>1. /\ IF v.tokens > 0
           THEN /\ visitors' = [visitors EXCEPT ![h] = [v EXCEPT !.tokens = @ - 1]]
                /\ admitted' = admitted + 1
           ELSE /\ visitors' = [visitors EXCEPT ![h] = v]
                /\ UNCHANGED admitted
        /\ holding' = [holding EXCEPT ![q] = 0]
        /\ UNCHANGED <<visitor, now, strays>>
    BY Zenon DEF TakeToken
  <2> HIDE DEF v, h
  <2>2. CASE v.tokens > 0
    BY <2>1, <2>2
  <2>3. CASE ~(v.tokens > 0)
    <3>1. admitted' = admitted + 0
      BY <1>1, <2>1, <2>3
    <3> QED BY <2>1, <2>3, <3>1
  <2> QED BY <2>2, <2>3
<1> HIDE DEF v
<1>5. /\ left \in V /\ left.lastSeen = v.lastSeen /\ left.tokens + took = v.tokens
      /\ took \in {0, 1}
  <2>1. CASE v.tokens > 0
    BY <1>3, <2>1
  <2>2. CASE ~(v.tokens > 0)
    BY <1>3, <2>2
  <2> QED BY <2>1, <2>2
<1> HIDE DEF left, took, V
<1>6. /\ visitors' \in Seq(V) /\ Len(visitors') = Len(visitors)
      /\ visitors'[h] = left
      /\ \A w \in 1..Len(visitors) : w # h => visitors'[w] = visitors[w]
  BY <1>1, <1>2, <1>4, <1>5
<1>7. RateTypeOK'
  <2>1. admitted' \in Nat /\ now \in 0..EndTime
    BY <1>1, <1>4, <1>5 DEF RateInv, RateTypeOK
  <2>2. holding' \in [RateRequests -> 0..Len(visitors')]
    BY <1>1, <1>4, <1>6
  <2> QED BY <1>1, <1>4, <1>6, <2>1, <2>2 DEF RateTypeOK, V
<1>8. \A w \in 1..Len(visitors') : visitors'[w].lastSeen <= now'
  BY <1>3, <1>4, <1>5, <1>6 DEF RateInv
<1>9. (admitted + InBucket + Cardinality(Stale) <= PutInBucket + strays)'
  <2> DEFINE c == Cardinality(Stale)
  <2>1. c \in Nat /\ IsFiniteSet(Stale)
    BY StaleIsFinite
  <2>2. holding'[q] = 0 /\ \A p \in RateRequests \ {q} : holding'[p] = holding[p]
    BY <1>1, <1>4
  <2>3. admitted + InBucket + c <= PutInBucket + strays
    BY DEF RateInv
  <2>4. CASE h = visitor
    <3>1. Stale' = Stale
      BY <1>4, <2>2, <2>4 DEF Stale
    <3>2. c' = c
      BY <3>1
    <3>3. /\ InBucket = old.tokens /\ PutInBucket = Burst + old.lastSeen \div Rate
          /\ InBucket' = left.tokens /\ PutInBucket' = Burst + v.lastSeen \div Rate
      BY <1>2, <1>4, <1>5, <1>6, <2>4 DEF InBucket, PutInBucket
    <3> DEFINE d == old.lastSeen \div Rate
               e == v.lastSeen \div Rate
    <3>4. d \in Nat /\ e \in Nat /\ v.tokens + d <= old.tokens + e
      BY <1>2, <1>3, DivFacts DEF V
    <3>5. v.tokens \in Nat /\ old.tokens \in Nat /\ left.tokens \in Nat
      BY <1>2, <1>3, <1>5 DEF V
    <3>6. /\ InBucket = old.tokens /\ PutInBucket = Burst + d
          /\ InBucket' = left.tokens /\ PutInBucket' = Burst + e
      BY <3>3
    <3> HIDE DEF d, e
    <3>7. admitted + old.tokens + c <= Burst + d + strays
      BY <2>3, <3>6
    <3> DEFINE full == v.tokens
               had == old.tokens
               rest == left.tokens
    <3>8. /\ c \in Nat /\ d \in Nat /\ e \in Nat /\ took \in {0, 1}
          /\ full \in Nat /\ had \in Nat /\ rest \in Nat
          /\ rest + took = full /\ full + d <= had + e
          /\ admitted + had + c <= Burst + d + strays
      BY <1>5, <2>1, <3>4, <3>5, <3>7
    <3> HIDE DEF c, full, had, rest
    <3>10. admitted + took + rest + c <= Burst + e + strays
      BY <1>1, <3>8
    <3>11. admitted' + InBucket' + c <= PutInBucket' + strays'
      <4>1. /\ admitted' = admitted + took /\ strays' = strays
            /\ InBucket' = rest /\ PutInBucket' = Burst + e
        BY <1>4, <3>6 DEF rest
      <4>2. admitted + took + rest + c <= (Burst + e) + strays
        BY <3>10
      <4> QED BY <4>1, <4>2
    <3> QED BY <3>2, <3>11 DEF c
  <2>5. CASE h # visitor
    <3>1. Stale' = Stale \ {q} /\ q \in Stale
      BY <1>2, <1>4, <2>2, <2>5 DEF Stale
    <3>2. Cardinality(Stale') = c - 1
      BY <2>1, <3>1, FS_RemoveElement
    <3>3. InBucket' = InBucket /\ PutInBucket' = PutInBucket
      BY <1>1, <1>4, <1>6, <2>5 DEF InBucket, PutInBucket
    <3>4. InBucket \in Int /\ PutInBucket \in Int
      <4>1. CASE visitor = 0
        BY <1>1, <4>1, DivFacts DEF InBucket, PutInBucket
      <4>2. CASE visitor # 0
        <5>1. visitors[visitor] \in V
          BY <1>1, <4>2
        <5>2. visitors[visitor].lastSeen \div Rate \in Nat
          BY <5>1, DivFacts DEF V
        <5> QED BY <4>2, <5>1, <5>2 DEF InBucket, PutInBucket, V
      <4> QED BY <4>1, <4>2
    <3> HIDE DEF c
    <3>5. admitted' + InBucket' + (c - 1) <= PutInBucket' + strays'
      BY <1>1, <1>4, <1>5, <2>1, <2>3, <3>3, <3>4
    <3> QED BY <3>2, <3>5
  <2> QED BY <2>4, <2>5
<1> QED BY <1>7, <1>8, <1>9 DEF RateInv

(* An idle visitor is dropped: its bucket is full again, and the tokens of *)
(* the requests that still hold it are counted from now on.                *)
LEMMA CleanupKeeps ==
    ASSUME RateInv, CleanupVisitors
    PROVE  RateInv'
<1> USE RateAssumption
<1> DEFINE V == [lastSeen: Nat, tokens: 0..Burst]
           old == visitors[visitor]
           held == {q \in RateRequests : holding[q] = visitor}
<1>1. /\ now \in Nat /\ admitted \in Nat /\ strays \in Nat
      /\ visitors \in Seq(V) /\ visitor \in 1..Len(visitors)
      /\ holding \in [RateRequests -> 0..Len(visitors)]
  <2>1. visitors \in Seq(V)
    BY DEF RateInv, RateTypeOK
  <2> HIDE DEF V
  <2>2. visitor \in 0..Len(visitors) /\ visitor # 0 /\ Len(visitors) \in Nat
    BY <2>1 DEF RateInv, RateTypeOK, CleanupVisitors
  <2> QED BY <2>1, <2>2 DEF RateInv, RateTypeOK
<1>2. old \in V /\ old.lastSeen <= now
  <2> HIDE DEF V
  <2> QED BY <1>1 DEF RateInv
<1>3. /\ visitor' = 0 /\ strays' = strays + Cardinality(held)
      /\ UNCHANGED <<visitors, holding, now, admitted>>
      /\ now - old.lastSeen > IdleFor
  BY DEF CleanupVisitors
<1>4. IsFiniteSet(held) /\ Cardinality(held) \in Nat
  BY FS_Subset, FS_CardinalityType
<1>5. Stale' = Stale \cup held /\ Stale \cap held = {}
  <2>1. visitor # 0 /\ visitor' = 0 /\ holding' = holding
    BY <1>3 DEF CleanupVisitors
  <2> QED BY <2>1 DEF Stale
<1> HIDE DEF held
<1>6. Cardinality(Stale') = Cardinality(Stale) + Cardinality(held)
  <2> DEFINE c == Cardinality(Stale)
             k == Cardinality(held)
  <2>1. Cardinality(Stale \cap held) = 0
    BY <1>5, FS_EmptySet
  <2>2. IsFiniteSet(Stale) /\ c \in Nat /\ IsFiniteSet(held) /\ k \in Nat
    BY <1>4, StaleIsFinite
  <2>3. Cardinality(Stale \cup held) = c + k - Cardinality(Stale \cap held)
    BY <2>2, FS_Union, Zenon
  <2>4. Cardinality(Stale') = c + k - 0
    BY <1>5, <2>1, <2>3, Zenon
  <2> HIDE DEF c, k
  <2>5. Cardinality(Stale') = c + k
    BY <2>2, <2>4
  <2> QED BY <2>5 DEF c, k
<1>7. RateTypeOK'
  <2> DEFINE k == Cardinality(held)
  <2>1. k \in Nat /\ strays' = strays + k
    BY <1>3, <1>4
  <2> HIDE DEF k
  <2>2. strays' \in Nat /\ admitted' \in Nat
    BY <1>1, <1>3, <2>1
  <2>3. /\ visitors \in Seq(V) /\ Len(visitors) \in Nat
        /\ holding \in [RateRequests -> 0..Len(visitors)] /\ now \in 0..EndTime
    BY DEF RateInv, RateTypeOK
  <2>4. visitor' \in 0..Len(visitors')
    BY <1>3, <2>3
  <2> HIDE DEF V
  <2>5. visitors' \in Seq(V) /\ holding' \in [RateRequests -> 0..Len(visitors')] /\ now' \in 0..EndTime
    BY <1>3, <2>3
  <2> QED BY <2>2, <2>4, <2>5 DEF RateTypeOK, V
<1>8. Burst + old.lastSeen \div Rate <= now \div Rate
  <2>1. now - old.lastSeen \in Nat /\ Rate * Burst <= now - old.lastSeen
    <3> DEFINE idle == now - old.lastSeen
               need == Rate * Burst
    <3>1. need \in Nat /\ need <= IdleFor /\ IdleFor \in Nat
      OBVIOUS
    <3>2. idle \in Nat
      <4> DEFINE seen == old.lastSeen
      <4>1. seen \in Nat /\ seen <= now /\ now \in Nat
        BY <1>1, <1>2
      <4> HIDE DEF seen
      <4>2. now - seen \in Nat
        BY <4>1
      <4> QED BY <4>2 DEF seen
    <3>3. idle > IdleFor
      BY <1>3
    <3> HIDE DEF idle, need
    <3>4. idle \in Nat /\ need <= idle
      BY <3>1, <3>2, <3>3
    <3> QED BY <3>4 DEF idle, need
  <2>2. Burst <= (now - old.lastSeen) \div Rate
    BY <2>1, DivReaches
  <2>3. old.lastSeen \div Rate + (now - old.lastSeen) \div Rate <= now \div Rate
    BY <1>1, <1>2, DivGrows
  <2>4. /\ old.lastSeen \div Rate \in Nat /\ now \div Rate \in Nat
        /\ (now - old.lastSeen) \div Rate \in Nat
    BY <1>1, <1>2, <2>1, DivFacts
  <2> DEFINE a == old.lastSeen \div Rate
             b == (now - old.lastSeen) \div Rate
             e == now \div Rate
  <2>5. a \in Nat /\ b \in Nat /\ e \in Nat /\ Burst <= b /\ a + b <= e
    BY <2>2, <2>3, <2>4
  <2> HIDE DEF a, b, e
  <2>6. Burst + a <= e
    BY <2>5
  <2> QED BY <2>6 DEF a, e
<1>9. (admitted + InBucket + Cardinality(Stale) <= PutInBucket + strays)'
  <2> DEFINE a == old.lastSeen \div Rate
             e == now \div Rate
             c == Cardinality(Stale)
             k == Cardinality(held)
  <2>1. a \in Nat /\ e \in Nat /\ c \in Nat /\ k \in Nat /\ Burst + a <= e
    BY <1>1, <1>2, <1>4, <1>8, StaleIsFinite, DivFacts
  <2>2. admitted + old.tokens + c <= Burst + a + strays /\ old.tokens \in Nat
    BY <1>1, <1>2 DEF RateInv, InBucket, PutInBucket
  <2>3. /\ InBucket' = 0 /\ PutInBucket' = e
        /\ Cardinality(Stale') = c + k /\ strays' = strays + k /\ admitted' = admitted
    BY <1>3, <1>6 DEF InBucket, PutInBucket
  <2> DEFINE had == old.tokens
  <2> HIDE DEF a, e, c, k, had
  <2>4. admitted + 0 + (c + k) <= e + (strays + k)
    <3>1. admitted + had + c <= Burst + a + strays /\ had \in Nat
      BY <2>2 DEF had
    <3>2. admitted \in Nat /\ strays \in Nat /\ Burst \in Nat
      BY <1>1
    <3> QED BY <2>1, <3>1, <3>2
  <2> QED BY <2>3, <2>4
<1> QED BY <1>1, <1>3, <1>7, <1>9 DEF RateInv

LEMMA RateStep ==
    ASSUME RateInv, [RateNext]_rateVars
    PROVE  RateInv'
<1>1. CASE UNCHANGED rateVars
  BY <1>1 DEF rateVars, RateInv, RateTypeOK, InBucket, PutInBucket, Stale
<1>2. CASE RateTimePasses
  <2>1. /\ now' = now + 1 /\ now \in Nat /\ now' \in 0..EndTime
        /\ UNCHANGED <<visitors, visitor, holding, admitted, strays>>
    BY <1>2, RateAssumption DEF RateTimePasses, RateInv, RateTypeOK
  <2>2. RateTypeOK' /\ \A v \in 1..Len(visitors') : visitors'[v].lastSeen <= now'
    <3>1. RateTypeOK'
      BY <2>1 DEF RateInv, RateTypeOK
    <3>2. \A v \in 1..Len(visitors) : visitors[v].lastSeen \in Nat /\ visitors[v].lastSeen <= now
      <4> DEFINE V == [lastSeen: Nat, tokens: 0..Burst]
      <4> TAKE v \in 1..Len(visitors)
      <4>1. visitors \in Seq(V)
        BY DEF RateInv, RateTypeOK
      <4>2. visitors[v] \in V
        <5> HIDE DEF V
        <5> QED BY <4>1
      <4> QED BY <4>2 DEF RateInv
    <3> QED BY <2>1, <3>1, <3>2
  <2>3. Stale' = Stale /\ InBucket' = InBucket
    BY <2>1 DEF Stale, InBucket
  <2>4. CASE visitor = 0
    <3> DEFINE e == now \div Rate
               n == now' \div Rate
               c == Cardinality(Stale)
    <3>1. e \in Nat /\ n \in Nat /\ e <= n /\ c \in Nat
      BY <2>1, DivFacts, DivGrows, RateAssumption, StaleIsFinite
    <3>2. PutInBucket = e /\ PutInBucket' = n /\ InBucket = 0
      BY <2>1, <2>4 DEF PutInBucket, InBucket
    <3>3. admitted \in Nat /\ strays \in Nat /\ admitted + 0 + c <= e + strays
      BY <3>2 DEF RateInv, RateTypeOK
    <3> HIDE DEF e, n, c
    <3>4. admitted + 0 + c <= n + strays
      BY <3>1, <3>3
    <3>5. admitted' + InBucket' + c <= PutInBucket' + strays'
      BY <2>1, <2>3, <3>2, <3>4
    <3> QED BY <2>2, <2>3, <3>5 DEF RateInv, c
  <2>5. CASE visitor # 0
    <3>1. PutInBucket' = PutInBucket
      BY <2>1, <2>5 DEF PutInBucket
    <3> QED BY <2>1, <2>2, <2>3, <3>1 DEF RateInv
  <2> QED BY <2>4, <2>5
<1> QED BY <1>1, <1>2, FindKeeps, TakeKeeps, CleanupKeeps DEF RateNext

LEMMA RateBounded ==
    ASSUME RateInv
    PROVE  AdmittedIsBounded
<1> USE RateAssumption
<1> DEFINE e == now \div Rate
           c == Cardinality(Stale)
<1>1. /\ now \in Nat /\ admitted \in Nat /\ strays \in Nat /\ c \in Nat /\ e \in Nat
      /\ admitted + InBucket + c <= PutInBucket + strays
  BY StaleIsFinite, DivFacts DEF RateInv, RateTypeOK
<1>2. CASE visitor = 0
  <2>1. InBucket = 0 /\ PutInBucket = e
    BY <1>2 DEF InBucket, PutInBucket
  <2> HIDE DEF e, c
  <2>2. admitted <= Burst + e + strays
    BY <1>1, <2>1
  <2> QED BY <2>2 DEF AdmittedIsBounded, e
<1>3. CASE visitor # 0
  <2> DEFINE V == [lastSeen: Nat, tokens: 0..Burst]
             d == visitors[visitor].lastSeen \div Rate
  <2>1. visitors \in Seq(V) /\ visitor \in 1..Len(visitors)
    BY <1>3 DEF RateInv, RateTypeOK
  <2>2. visitors[visitor] \in V /\ visitors[visitor].lastSeen <= now
    <3> HIDE DEF V
    <3> QED BY <2>1 DEF RateInv
  <2>3. d \in Nat /\ d <= e
    BY <1>1, <2>2, DivFacts, DivGrows
  <2>4. InBucket \in Nat /\ PutInBucket = Burst + d
    BY <1>3, <2>2 DEF InBucket, PutInBucket
  <2> HIDE DEF d, e, c
  <2>5. admitted <= Burst + e + strays
    BY <1>1, <2>3, <2>4
  <2> QED BY <2>5 DEF AdmittedIsBounded, e
<1> QED BY <1>2, <1>3

(* For any rate, burst and idle time that fills a bucket, and any requests *)
(* that overlap with each other and with the cleanup: of one address no    *)
(* more is let through than a full bucket, what the time has earned, and   *)
(* one for each request whose visitor was dropped (ratelimit.go).          *)
THEOREM AdmissionBounded == RateSpec => []AdmittedIsBounded
<1> QED BY RateInitInv, RateStep, RateBounded, PTL DEF RateSpec

-----------------------------------------------------------------------------
(* Policies. *)

PolicyRowsTyped ==
    /\ policies \in [PolicyTypes -> Policy \cup {NoPolicy}]
    /\ policyCalls \in [PolicyRequests -> PolicyCall]
    /\ policyCalm \in BOOLEAN

(* What the policy requires is enabled; nothing enabled requires it. *)
Supported(t) == \A d \in Dependencies[t] : policies[d].enabled

Unneeded(t) == \A d \in PolicyTypes : policies[d].enabled => t \notin Dependencies[d]

(* What an update found out when it asked still holds when it writes.      *)
CallHolds(call) ==
    /\ call.op = "load" =>
          /\ call.wish = "enable" => Supported(call.type)
          /\ call.wish = "disable" => Unneeded(call.type)
    /\ call.op = "save" =>
          IF call.row.enabled THEN Supported(call.type) ELSE Unneeded(call.type)

Closed == \A t \in PolicyTypes : policies[t].enabled => Supported(t)

OneCall ==
    \A r, q \in PolicyRequests :
        policyCalls[r] # PolicyIdle /\ policyCalls[q] # PolicyIdle => r = q

PoliciesInv ==
    /\ PolicyRowsTyped
    /\ policyCalm => Closed /\ OneCall /\ \A r \in PolicyRequests : CallHolds(policyCalls[r])

-----------------------------------------------------------------------------
(* The operation tells the kinds of calls apart. *)
LEMMA CallKinds ==
    ASSUME NEW call \in PolicyCall
    PROVE  /\ call.op = "load" => /\ call.type \in PolicyTypes /\ call.wish \in Wishes
                                  /\ call # PolicyIdle
           /\ call.op = "save" => /\ call.type \in PolicyTypes /\ call.row \in Policy
                                  /\ call # PolicyIdle
           /\ call # PolicyIdle => call.op # "none"
<1> DEFINE Rows == Policy
<1>1. call \in {PolicyIdle} \cup [op: {"load"}, type: PolicyTypes, wish: Wishes]
                            \cup [op: {"save"}, type: PolicyTypes, row: Rows]
  BY DEF PolicyCall
<1> HIDE DEF Rows
<1>2. /\ call.op = "load" => /\ call.type \in PolicyTypes /\ call.wish \in Wishes
                             /\ call # PolicyIdle
      /\ call.op = "save" => /\ call.type \in PolicyTypes /\ call.row \in Rows
                             /\ call # PolicyIdle
      /\ call # PolicyIdle => call.op # "none"
  BY <1>1 DEF PolicyIdle
<1> QED BY <1>2 DEF Rows

(* A step of the only request there is: the others have nothing to hold.   *)
LEMMA OnlyCall ==
    ASSUME PoliciesInv, NEW r \in PolicyRequests, NEW call \in PolicyCall,
           policyCalls' = [policyCalls EXCEPT ![r] = call],
           policies' \in [PolicyTypes -> Policy \cup {NoPolicy}],
           policyCalm' \in BOOLEAN,
           policyCalm' => /\ policyCalm
                          /\ \A q \in PolicyRequests \ {r} : policyCalls[q] = PolicyIdle,
           policyCalm' => Closed',
           policyCalm' => CallHolds(call)'
    PROVE  PoliciesInv'
<1>1. PolicyRowsTyped'
  BY DEF PoliciesInv, PolicyRowsTyped
<1>2. /\ policyCalls'[r] = call
      /\ \A q \in PolicyRequests \ {r} : policyCalls'[q] = policyCalls[q]
  BY DEF PoliciesInv, PolicyRowsTyped
<1>3. ASSUME policyCalm'
      PROVE  OneCall' /\ \A q \in PolicyRequests : CallHolds(policyCalls[q])'
  <2>1. \A q \in PolicyRequests \ {r} : policyCalls'[q] = PolicyIdle
    BY <1>2, <1>3
  <2>2. OneCall'
    BY <2>1 DEF OneCall
  <2>3. ASSUME NEW q \in PolicyRequests
        PROVE  CallHolds(policyCalls[q])'
    <3>1. CASE q = r
      BY <1>2, <1>3, <3>1 DEF CallHolds, Supported, Unneeded
    <3>2. CASE q # r
      BY <2>1, <3>2 DEF CallHolds, PolicyIdle
    <3> QED BY <3>1, <3>2
  <2> QED BY <2>2, <2>3
<1> QED BY <1>1, <1>3 DEF PoliciesInv

LEMMA AloneWhileCalm ==
    ASSUME PoliciesInv, policyCalm, NEW r \in PolicyRequests, policyCalls[r] # PolicyIdle
    PROVE  /\ \A q \in PolicyRequests \ {r} : policyCalls[q] = PolicyIdle
           /\ CallHolds(policyCalls[r]) /\ Closed
BY DEF PoliciesInv, OneCall

-----------------------------------------------------------------------------
LEMMA CheckKeeps ==
    ASSUME PoliciesInv, NEW r \in PolicyRequests, NEW t \in PolicyTypes,
           NEW wish \in Wishes, CheckPolicy(r, t, wish)
    PROVE  PoliciesInv'
<1> DEFINE call == [op |-> "load", type |-> t, wish |-> wish]
<1>1. call \in PolicyCall /\ call.op = "load" /\ call.type = t /\ call.wish = wish
  BY DEF PolicyCall
<1>2. /\ policyCalls' = [policyCalls EXCEPT ![r] = call]
      /\ policyCalm' = (policyCalm /\ \A q \in PolicyRequests : policyCalls[q] = PolicyIdle)
      /\ UNCHANGED policies
  BY DEF CheckPolicy
<1>3. wish = "enable" => Supported(t)
  BY DEF CheckPolicy, Supported, IsPolicyEnabled
<1>4. wish = "disable" => Unneeded(t)
  BY DEF CheckPolicy, Unneeded, FindDependents, IsPolicyEnabled
<1> HIDE DEF call
<1>5. CallHolds(call)'
  BY <1>1, <1>2, <1>3, <1>4 DEF CallHolds, Supported, Unneeded
<1>6. policyCalm' => Closed'
  BY <1>2 DEF PoliciesInv, Closed, Supported
<1>7. policies' \in [PolicyTypes -> Policy \cup {NoPolicy}] /\ policyCalm' \in BOOLEAN
  BY <1>2 DEF PoliciesInv, PolicyRowsTyped
<1> QED BY <1>1, <1>2, <1>5, <1>6, <1>7, OnlyCall

LEMMA LoadKeeps ==
    ASSUME PoliciesInv, NEW r \in PolicyRequests, LoadPolicy(r)
    PROVE  PoliciesInv'
<1>1. policyCalls[r] \in PolicyCall /\ policyCalls[r].op = "load"
  BY DEF PoliciesInv, PolicyRowsTyped, LoadPolicy
<1>2. PICK t \in PolicyTypes, wish \in Wishes, old \in Policy \cup {NoPolicy} :
         /\ t = policyCalls[r].type /\ wish = policyCalls[r].wish
         /\ old = policies[t] /\ policyCalls[r] # PolicyIdle
  BY <1>1, CallKinds DEF PoliciesInv, PolicyRowsTyped
<1> DEFINE row == [old EXCEPT !.absent = FALSE]
<1>3. old \in [enabled: BOOLEAN, dated: BOOLEAN, absent: BOOLEAN]
  <2>1. old \in Policy \/ old = NoPolicy
    OBVIOUS
  <2>2. CASE old \in Policy
    BY <2>2 DEF Policy
  <2>3. CASE old = NoPolicy
    BY <2>3 DEF NoPolicy
  <2> QED BY <2>1, <2>2, <2>3
<1>4. row \in Policy /\ row.enabled = old.enabled
  <2>1. row \in Policy
    BY <1>3 DEF Policy
  <2>2. row.enabled = old.enabled
    BY <1>3
  <2> QED BY <2>1, <2>2
<1>5. PICK kept \in BOOLEAN :
         policyCalls' = [policyCalls EXCEPT ![r] =
            [op |-> "save", type |-> t,
             row |-> [row EXCEPT
                !.enabled = IF wish = "data" THEN row.enabled ELSE wish = "enable",
                !.dated = \/ kept /\ row.dated
                          \/ wish = "enable" /\ t = TwoFactorType]]]
  BY <1>2, <1>3 DEF LoadPolicy
<1> DEFINE on == IF wish = "data" THEN row.enabled ELSE wish = "enable"
           dated == \/ kept /\ row.dated
                    \/ wish = "enable" /\ t = TwoFactorType
           one == [row EXCEPT !.enabled = on]
           new == [one EXCEPT !.dated = dated]
           call == [op |-> "save", type |-> t, row |-> new]
<1>6. on \in BOOLEAN /\ dated \in BOOLEAN
  BY <1>4 DEF Policy
<1>7. policyCalls' = [policyCalls EXCEPT ![r] = call]
  BY <1>5
<1>8. /\ policies' = [policies EXCEPT ![t] = row]
      /\ UNCHANGED policyCalm
  BY <1>2 DEF LoadPolicy
<1>9. /\ wish = "data" => on = old.enabled
      /\ wish = "enable" => on
      /\ wish = "disable" => ~on
  BY <1>4, <1>2 DEF Wishes
<1> HIDE DEF on, dated, row
<1>10. one \in Policy /\ one.enabled = on
  BY <1>4, <1>6 DEF Policy
<1> HIDE DEF one
<1>11. new \in Policy /\ new.enabled = on
  BY <1>6, <1>10 DEF Policy
<1> HIDE DEF new
<1>12. call \in PolicyCall /\ call.op = "save" /\ call.type = t /\ call.row = new
  BY <1>2, <1>11 DEF PolicyCall
<1> HIDE DEF call
<1>13. policies' \in [PolicyTypes -> Policy \cup {NoPolicy}]
  BY <1>2, <1>4, <1>8 DEF PoliciesInv, PolicyRowsTyped
<1>14. \A d \in PolicyTypes : policies'[d].enabled = policies[d].enabled
  BY <1>2, <1>4, <1>8 DEF PoliciesInv, PolicyRowsTyped
<1>15. ASSUME policyCalm'
       PROVE  /\ policyCalm /\ Closed' /\ CallHolds(call)'
              /\ \A q \in PolicyRequests \ {r} : policyCalls[q] = PolicyIdle
  <2>1. policyCalm /\ Closed /\ CallHolds(policyCalls[r])
    BY <1>2, <1>8, <1>15, AloneWhileCalm
  <2>2. \A d \in PolicyTypes : Dependencies[d] \subseteq PolicyTypes
    BY PoliciesAssumption
  <2>3. Closed'
    BY <1>14, <2>1, <2>2 DEF Closed, Supported
  <2>4. /\ wish = "enable" => Supported(t)
        /\ wish = "disable" => Unneeded(t)
    BY <1>1, <1>2, <2>1 DEF CallHolds
  <2>5. wish = "data" => IF old.enabled THEN Supported(t) ELSE Unneeded(t)
    BY <1>2, <2>1 DEF Closed, Supported, Unneeded
  <2>6. IF on THEN Supported(t) ELSE Unneeded(t)
    BY <1>2, <1>9, <2>4, <2>5 DEF Wishes
  <2>7. IF on THEN Supported(t)' ELSE Unneeded(t)'
    BY <1>2, <1>14, <2>2, <2>6 DEF Supported, Unneeded
  <2>8. CallHolds(call)'
    BY <1>11, <1>12, <2>7 DEF CallHolds
  <2> QED BY <1>2, <2>1, <2>3, <2>8, AloneWhileCalm
<1>16. policyCalm' \in BOOLEAN
  BY <1>8 DEF PoliciesInv, PolicyRowsTyped
<1> QED BY <1>7, <1>12, <1>13, <1>15, <1>16, OnlyCall

LEMMA SaveKeeps ==
    ASSUME PoliciesInv, NEW r \in PolicyRequests, SavePolicy(r)
    PROVE  PoliciesInv'
<1> DEFINE t == policyCalls[r].type
           row == policyCalls[r].row
<1>1. policyCalls[r] \in PolicyCall /\ policyCalls[r].op = "save"
  BY DEF PoliciesInv, PolicyRowsTyped, SavePolicy
<1>2. t \in PolicyTypes /\ row \in Policy /\ policyCalls[r] # PolicyIdle
  BY <1>1, CallKinds
<1>3. /\ policies' = [policies EXCEPT ![t] = row]
      /\ policyCalls' = [policyCalls EXCEPT ![r] = PolicyIdle]
      /\ UNCHANGED policyCalm
  BY DEF SavePolicy
<1>4. PolicyIdle \in PolicyCall /\ CallHolds(PolicyIdle)'
  BY DEF PolicyCall, CallHolds, PolicyIdle
<1>5. ASSUME policyCalm'
      PROVE  /\ policyCalm /\ Closed'
             /\ \A q \in PolicyRequests \ {r} : policyCalls[q] = PolicyIdle
  <2>1. policyCalm /\ Closed /\ CallHolds(policyCalls[r])
    BY <1>2, <1>3, <1>5, AloneWhileCalm
  <2>2. IF row.enabled THEN Supported(t) ELSE Unneeded(t)
    BY <1>1, <2>1 DEF CallHolds
  <2>3. \A d \in PolicyTypes : Dependencies[d] \subseteq PolicyTypes
    BY PoliciesAssumption
  <2> HIDE DEF t, row
  <2>4. /\ policies'[t] = row
        /\ \A d \in PolicyTypes \ {t} : policies'[d] = policies[d]
    BY <1>2, <1>3 DEF PoliciesInv, PolicyRowsTyped
  <2>5. ASSUME NEW s \in PolicyTypes, policies'[s].enabled, NEW d \in Dependencies[s]
        PROVE  policies'[d].enabled
    <3>1. d \in PolicyTypes
      BY <2>3
    <3>2. CASE row.enabled
      <4>1. policies[d].enabled
        BY <2>1, <2>2, <2>4, <2>5, <3>2 DEF Closed, Supported
      <4> QED BY <2>4, <3>1, <3>2, <4>1
    <3>3. CASE ~row.enabled
      <4>1. s # t /\ policies[s].enabled
        BY <2>4, <2>5, <3>3
      <4>2. d # t
        BY <2>2, <3>3, <4>1 DEF Unneeded
      <4>3. policies[d].enabled
        BY <2>1, <4>1 DEF Closed, Supported
      <4> QED BY <2>4, <3>1, <4>2, <4>3
    <3> QED BY <3>2, <3>3
  <2> QED BY <1>2, <2>1, <2>5, AloneWhileCalm DEF Closed, Supported
<1>6. policies' \in [PolicyTypes -> Policy \cup {NoPolicy}] /\ policyCalm' \in BOOLEAN
  BY <1>2, <1>3 DEF PoliciesInv, PolicyRowsTyped
<1> QED BY <1>3, <1>4, <1>5, <1>6, OnlyCall

LEMMA FailKeeps ==
    ASSUME PoliciesInv, NEW r \in PolicyRequests, FailPolicy(r)
    PROVE  PoliciesInv'
<1>1. /\ policyCalls' = [policyCalls EXCEPT ![r] = PolicyIdle]
      /\ policyCalls[r] # PolicyIdle
      /\ UNCHANGED <<policies, policyCalm>>
  BY DEF FailPolicy
<1>2. PolicyIdle \in PolicyCall /\ CallHolds(PolicyIdle)'
  BY DEF PolicyCall, CallHolds, PolicyIdle
<1>3. policyCalm' => /\ policyCalm /\ Closed'
                     /\ \A q \in PolicyRequests \ {r} : policyCalls[q] = PolicyIdle
  BY <1>1, AloneWhileCalm DEF Closed, Supported
<1>4. policies' \in [PolicyTypes -> Policy \cup {NoPolicy}] /\ policyCalm' \in BOOLEAN
  BY <1>1 DEF PoliciesInv, PolicyRowsTyped
<1> QED BY <1>1, <1>2, <1>3, <1>4, OnlyCall

LEMMA PoliciesStep ==
    ASSUME PoliciesInv, [PoliciesNext]_policyVars
    PROVE  PoliciesInv'
<1>1. ASSUME UNCHANGED <<policies, policyCalls, policyCalm>>
      PROVE  PoliciesInv'
  BY <1>1 DEF PoliciesInv, PolicyRowsTyped, Closed, OneCall, CallHolds, Supported, Unneeded
<1>2. CASE UNCHANGED policyVars
  BY <1>1, <1>2 DEF policyVars
<1>3. ASSUME \/ \E p \in Plans : ChangePlan(p)
             \/ \E rule \in Rule : AddRule(rule)
             \/ \E address \in Addresses \cup {Unparsed} : FilterRequest(address)
      PROVE  PoliciesInv'
  BY <1>1, <1>3 DEF ChangePlan, AddRule, FilterRequest
<1> QED BY <1>2, <1>3, CheckKeeps, LoadKeeps, SaveKeeps, FailKeeps DEF PoliciesNext

LEMMA PoliciesInitInv == PoliciesInit => PoliciesInv
<1> SUFFICES ASSUME PoliciesInit PROVE PoliciesInv
  OBVIOUS
<1>1. PolicyRowsTyped
  BY DEF PoliciesInit, PolicyRowsTyped, PolicyCall
<1>2. Closed /\ OneCall /\ \A r \in PolicyRequests : CallHolds(policyCalls[r])
  BY DEF PoliciesInit, Closed, OneCall, CallHolds, NoPolicy, PolicyIdle
<1> QED BY <1>1, <1>2 DEF PoliciesInv

(* While updates come one by one, what an enabled policy requires is       *)
(* enabled, whatever the catalogue and whichever updates fail half way     *)
(* (organization_policy_service.go:140, :156).                             *)
THEOREM DependenciesEnabled == PoliciesSpec => []EnabledHasDependencies
<1>1. PoliciesInv => EnabledHasDependencies
  BY DEF PoliciesInv, EnabledHasDependencies, Closed, Supported, IsPolicyEnabled
<1> QED BY <1>1, PoliciesInitInv, PoliciesStep, PTL DEF PoliciesSpec

-----------------------------------------------------------------------------
(* The firewall.  The fold over its rules has one value: what the first    *)
(* rule says that decides.                                                 *)

(* The rules that decide about an address. *)
Hits(data, address) ==
    {i \in ParseFirewallRules(data) : Matches(data[i], address) /\ data[i].action \in Decisive}

After(data, address, verdict, i) ==
    IF verdict = "none" /\ i \in Hits(data, address) THEN data[i].action ELSE verdict

(* What the fold over the rules is a value of. *)
Folding(data, address, f) ==
    f = [t \in SUBSET DOMAIN data |->
           IF t = {} THEN "none" ELSE After(data, address, f[t \ {Max(t)}], Max(t))]

FirstSays(data, hits) == IF hits = {} THEN "none" ELSE data[Min(hits)].action

LEMMA VerdictIsFold ==
    ASSUME NEW data, NEW n \in Nat, DOMAIN data = 1..n, NEW address
    PROVE  Verdict(data, address) = (CHOOSE f : Folding(data, address, f))[DOMAIN data]
<1> DEFINE Op(v, i) == IF /\ v = "none" /\ i \in ParseFirewallRules(data)
                          /\ Matches(data[i], address) /\ data[i].action \in Decisive
                       THEN data[i].action ELSE v
           s == [i \in DOMAIN data |-> i]
<1>1. Verdict(data, address) = FoldLeftDomain(Op, "none", data)
  BY DEF Verdict
<1>2. FoldLeftDomain(Op, "none", data) = FoldLeft(Op, "none", s)
  BY DEF FoldLeftDomain
<1>3. FoldLeft(Op, "none", s) =
        (CHOOSE f : f = [t \in SUBSET DOMAIN s |->
            IF t = {} THEN "none" ELSE Op(f[t \ {Max(t)}], s[Max(t)])])[DOMAIN s]
  BY DEF FoldLeft, MapThenFoldSet
<1>4. \A v, i : Op(v, i) = After(data, address, v, i)
  BY DEF After, Hits
<1>5. DOMAIN s = DOMAIN data /\ \A i \in DOMAIN data : s[i] = i
  OBVIOUS
<1>6. \A t \in SUBSET DOMAIN data : t # {} => s[Max(t)] = Max(t)
  BY MaxIsLast, <1>5
<1> HIDE DEF s, Op
<1>7. ASSUME NEW f
      PROVE  [t \in SUBSET DOMAIN s |-> IF t = {} THEN "none" ELSE Op(f[t \ {Max(t)}], s[Max(t)])]
             = [t \in SUBSET DOMAIN data |->
                  IF t = {} THEN "none" ELSE After(data, address, f[t \ {Max(t)}], Max(t))]
  <2>1. ASSUME NEW t \in SUBSET DOMAIN data
        PROVE  (IF t = {} THEN "none" ELSE Op(f[t \ {Max(t)}], s[Max(t)]))
               = (IF t = {} THEN "none" ELSE After(data, address, f[t \ {Max(t)}], Max(t)))
    BY <1>4, <1>6
  <2> QED  BY <2>1, <1>5
<1>8. (CHOOSE f : f = [t \in SUBSET DOMAIN s |->
            IF t = {} THEN "none" ELSE Op(f[t \ {Max(t)}], s[Max(t)])])
      = (CHOOSE f : Folding(data, address, f))
  BY <1>7 DEF Folding
<1> QED  BY <1>1, <1>2, <1>3, <1>5, <1>8

(* The first of the rules that decide, in a set without its last place. *)
LEMMA FoldStep ==
    ASSUME NEW data, NEW n \in Nat, DOMAIN data = 1..n, NEW address,
           NEW t \in SUBSET DOMAIN data, t # {}
    PROVE  FirstSays(data, t \cap Hits(data, address)) =
           After(data, address, FirstSays(data, (t \ {Max(t)}) \cap Hits(data, address)), Max(t))
<1> DEFINE H == Hits(data, address)
           m == Max(t)
           rest == (t \ {m}) \cap H
<1>1. m \in t /\ \A j \in t : j <= m
  BY MaxIsLast
<1>2. t \in SUBSET Nat
  OBVIOUS
<1>3. \A i \in H : data[i].action # "none"
  BY DEF Hits, Decisive
<1> HIDE DEF H, m
<1>4. CASE rest = {} /\ m \in H
  <2>1. t \cap H = {m}
    BY <1>1, <1>4
  <2>2. Min({m}) = m
    <3>1. {m} \in SUBSET Nat /\ {m} # {}
      BY <1>1, <1>2
    <3>2. Min({m}) \in {m}
      BY <3>1, MinIsFirst
    <3> QED  BY <3>2
  <2> QED  BY <2>1, <2>2, <1>4 DEF FirstSays, After, H, m
<1>5. CASE rest = {} /\ m \notin H
  <2>1. t \cap H = {}
    BY <1>1, <1>5
  <2> QED  BY <2>1, <1>5 DEF FirstSays, After, H, m
<1>6. CASE rest # {}
  <2>1. Min(rest) \in rest /\ \A j \in rest : Min(rest) <= j
    BY <1>2, <1>6, MinIsFirst
  <2>2. t \cap H # {} /\ t \cap H \in SUBSET Nat
    BY <1>2, <1>6
  <2>3. Min(t \cap H) \in t \cap H /\ \A j \in t \cap H : Min(t \cap H) <= j
    BY <2>2, MinIsFirst
  <2>4. Min(rest) = Min(t \cap H)
    <3>1. Min(rest) \in t \cap H /\ Min(rest) \in Nat /\ Min(t \cap H) \in Nat
      BY <2>1, <2>3, <1>2
    <3>2. Min(t \cap H) <= Min(rest)
      BY <2>3, <3>1
    <3>3. Min(rest) <= Min(t \cap H)
      <4>1. CASE Min(t \cap H) = m
        BY <4>1, <1>1, <2>1
      <4>2. CASE Min(t \cap H) # m
        BY <4>2, <2>3, <2>1
      <4> QED  BY <4>1, <4>2
    <3> QED  BY <3>1, <3>2, <3>3
  <2>5. data[Min(rest)].action # "none"
    BY <2>1, <1>3
  <2> QED  BY <2>2, <2>4, <2>5, <1>6 DEF FirstSays, After, H, m
<1> QED  BY <1>4, <1>5, <1>6

LEMMA FoldingExists ==
    ASSUME NEW data, NEW n \in Nat, DOMAIN data = 1..n, NEW address
    PROVE  \E f : Folding(data, address, f)
<1> DEFINE g == [t \in SUBSET DOMAIN data |-> FirstSays(data, t \cap Hits(data, address))]
<1>1. ASSUME NEW t \in SUBSET DOMAIN data
      PROVE  g[t] = IF t = {} THEN "none" ELSE After(data, address, g[t \ {Max(t)}], Max(t))
  <2>1. CASE t = {}
    BY <2>1 DEF FirstSays
  <2>2. CASE t # {}
    <3>1. t \ {Max(t)} \in SUBSET DOMAIN data
      OBVIOUS
    <3>2. g[t \ {Max(t)}] = FirstSays(data, (t \ {Max(t)}) \cap Hits(data, address))
      BY <3>1
    <3> QED  BY <2>2, <3>2, FoldStep
  <2> QED  BY <2>1, <2>2
<1>2. DOMAIN g = SUBSET DOMAIN data /\ g = [t \in SUBSET DOMAIN data |-> g[t]]
  OBVIOUS
<1> HIDE DEF g
<1>3. g = [t \in SUBSET DOMAIN data |->
             IF t = {} THEN "none" ELSE After(data, address, g[t \ {Max(t)}], Max(t))]
  BY <1>1, <1>2
<1> QED  BY <1>3 DEF Folding

(* The fold finds the first rule that decides. *)
LEMMA VerdictIsFirst ==
    ASSUME NEW data, NEW n \in Nat, DOMAIN data = 1..n, NEW address
    PROVE  Verdict(data, address) = FirstSays(data, Hits(data, address))
<1> DEFINE f == CHOOSE f : Folding(data, address, f)
           Says(t) == FirstSays(data, t \cap Hits(data, address))
           wrong == {k \in Nat : \E t \in SUBSET DOMAIN data :
                                    t \subseteq 1..k /\ f[t] # Says(t)}
<1>1. Folding(data, address, f)
  BY FoldingExists
<1> HIDE DEF f
<1>2. \A t \in SUBSET DOMAIN data :
         f[t] = IF t = {} THEN "none" ELSE After(data, address, f[t \ {Max(t)}], Max(t))
  BY <1>1 DEF Folding
<1>3. wrong = {}
  <2> SUFFICES ASSUME wrong # {} PROVE FALSE
    OBVIOUS
  <2>1. PICK x \in wrong : \A y \in wrong : ~ (<<y, x>> \in OpToRel(<, Nat))
    BY NatLessThanWellFounded, WFMin, Zenon
  <2>2. x \in Nat /\ \A y \in wrong : ~ (y < x)
    BY <2>1 DEF OpToRel
  <2>3. PICK t \in SUBSET DOMAIN data : t \subseteq 1..x /\ f[t] # Says(t)
    BY <2>1
  <2>4. t # {}
    <3>1. Says({}) = "none"
      BY DEF FirstSays
    <3> QED  BY <2>3, <3>1, <1>2
  <2>5. Max(t) \in t /\ \A j \in t : j <= Max(t)
    BY MaxIsLast, <2>4
  <2>6. t \ {Max(t)} \subseteq 1..(x - 1) /\ x - 1 \in Nat /\ x - 1 < x
    BY <2>2, <2>3, <2>5
  <2>7. t \ {Max(t)} \in SUBSET DOMAIN data
    OBVIOUS
  <2>8. f[t \ {Max(t)}] = Says(t \ {Max(t)})
    BY <2>2, <2>6, <2>7
  <2>9. Says(t) = After(data, address, Says(t \ {Max(t)}), Max(t))
    BY <2>4, FoldStep
  <2> QED  BY <1>2, <2>3, <2>4, <2>8, <2>9
<1>4. DOMAIN data \in SUBSET DOMAIN data /\ DOMAIN data \subseteq 1..n
  OBVIOUS
<1>5. f[DOMAIN data] = Says(DOMAIN data)
  BY <1>3, <1>4
<1>6. DOMAIN data \cap Hits(data, address) = Hits(data, address)
  BY DEF Hits, ParseFirewallRules
<1>7. Verdict(data, address) = f[DOMAIN data]
  BY VerdictIsFold DEF f
<1> QED  BY <1>5, <1>6, <1>7
(* The firewall's last answer is of the rules there are, if it saw any. *)
FirewallInv ==
    /\ plan \in Plans
    /\ rules \in Seq(Rule) /\ Len(rules) <= MaxRules
    /\ {lastCheck.allowed, lastCheck.ruled} \subseteq BOOLEAN
    /\ lastCheck # NotChecked =>
          lastCheck.allowed = CheckAccess(GetPolicyData(lastCheck.ruled), lastCheck.address)

LEMMA FirewallInitInv == PoliciesInit => FirewallInv
BY PoliciesAssumption DEF PoliciesInit, FirewallInv, NotChecked

LEMMA FirewallStep ==
    PolicyRowsTyped /\ FirewallInv /\ [PoliciesNext]_policyVars => FirewallInv'
<1> SUFFICES ASSUME PolicyRowsTyped, FirewallInv, [PoliciesNext]_policyVars PROVE FirewallInv'
  OBVIOUS
<1>1. CASE UNCHANGED <<plan, rules, lastCheck>>
  BY <1>1 DEF FirewallInv, GetPolicyData
<1>2. ASSUME NEW p \in Plans, ChangePlan(p) PROVE FirewallInv'
  BY <1>2 DEF FirewallInv, ChangePlan, FirewallUnchanged, GetPolicyData
<1>3. ASSUME NEW rule \in Rule, AddRule(rule) PROVE FirewallInv'
  <2> DEFINE R == Rule
  <2>1. rules \in Seq(R) /\ rule \in R /\ Len(rules) < MaxRules /\ plan \in Plans
    BY <1>3 DEF AddRule, FirewallInv
  <2> HIDE DEF R
  <2>2. Append(rules, rule) \in Seq(R) /\ Len(Append(rules, rule)) <= MaxRules
    BY <2>1, PoliciesAssumption
  <2>3. rules' = Append(rules, rule) /\ lastCheck' = NotChecked /\ plan' = plan
    BY <1>3 DEF AddRule
  <2> QED  BY <2>1, <2>2, <2>3 DEF FirewallInv, NotChecked, R
<1>4. ASSUME NEW address \in Addresses \cup {Unparsed}, FilterRequest(address)
      PROVE  FirewallInv'
  <2>1. PICK ruled \in BOOLEAN :
           lastCheck' = [allowed |-> CheckAccess(GetPolicyData(ruled), address),
                         address |-> address, ruled |-> ruled]
    <3>1. /\ rules' = rules /\ plan' = plan
          /\ \E ruled \in {FALSE, IsPolicyEnabled(FirewallType)} :
                lastCheck' = [allowed |-> CheckAccess(GetPolicyData(ruled), address),
                              address |-> address, ruled |-> ruled]
      BY <1>4 DEF FilterRequest
    <3>2. IsPolicyEnabled(FirewallType) \in BOOLEAN
      <4>1. policies[FirewallType] \in Policy \cup {NoPolicy}
        BY PoliciesAssumption DEF PolicyRowsTyped
      <4>2. policies[FirewallType].enabled \in BOOLEAN
        <5>1. CASE policies[FirewallType] \in Policy
          BY <5>1 DEF Policy
        <5>2. CASE policies[FirewallType] = NoPolicy
          BY <5>2 DEF NoPolicy
        <5> QED  BY <4>1, <5>1, <5>2
      <4> QED  BY <4>2 DEF IsPolicyEnabled
    <3> QED  BY <3>1, <3>2
  <2>2. /\ lastCheck'.allowed = CheckAccess(GetPolicyData(ruled), address)
        /\ lastCheck'.address = address /\ lastCheck'.ruled = ruled
        /\ rules' = rules /\ plan' = plan
    BY <2>1, <1>4 DEF FilterRequest
  <2>3. CheckAccess(GetPolicyData(ruled), address) \in BOOLEAN
    BY DEF CheckAccess
  <2>4. GetPolicyData(ruled)' = GetPolicyData(ruled)
    BY <2>2 DEF GetPolicyData
  <2>5. (CheckAccess(GetPolicyData(lastCheck.ruled), lastCheck.address))'
           = CheckAccess(GetPolicyData(ruled), address)
    BY <2>2, <2>4
  <2> QED  BY <2>2, <2>3, <2>5 DEF FirewallInv
<1> QED  BY <1>1, <1>2, <1>3, <1>4 DEF PoliciesNext, policyVars, CheckPolicy, LoadPolicy,
     SavePolicy, FailPolicy, FirewallUnchanged

LEMMA FirewallIsRight == FirewallInv => FirewallAgrees
<1> SUFFICES ASSUME FirewallInv, lastCheck # NotChecked PROVE FirewallAgrees
  BY DEF FirewallAgrees
<1> DEFINE a == lastCheck.address
           n == Len(rules)
           said == {i \in DOMAIN rules : rules[i].kind # "" /\ rules[i].action # ""}
           hits == {i \in said : /\ rules[i].kind # "country"
                                 /\ a \in rules[i].covers
                                 /\ rules[i].action # "other"}
<1>1. /\ n \in Nat /\ DOMAIN rules = 1..n
      /\ \A i \in DOMAIN rules : rules[i] \in Rule
  BY DEF FirewallInv
<1>2. said = ParseFirewallRules(rules)
  BY DEF ParseFirewallRules
<1>3. hits = Hits(rules, a)
  BY <1>1, <1>2 DEF Hits, Matches, Decisive, Rule
<1>4. Verdict(rules, a) = FirstSays(rules, hits)
  BY <1>1, <1>3, VerdictIsFirst
<1>5. \A i \in hits : rules[i].action \in {"allow", "deny", "report"}
  BY <1>3 DEF Hits, Decisive
<1>6. hits \in SUBSET Nat
  <2>1. hits \subseteq 1..n
    BY <1>1
  <2>2. 1..n \subseteq Nat
    BY <1>1
  <2> HIDE DEF hits, n
  <2> QED  BY <2>1, <2>2
<1>7. lastCheck.allowed <=>
        \/ ~lastCheck.ruled \/ said = {}
        \/ /\ a # Unparsed
           /\ \/ Verdict(rules, a) \in {"allow", "report"}
              \/ /\ Verdict(rules, a) = "none"
                 /\ \A i \in said : rules[i].action # "allow"
  <2>1. CASE ~lastCheck.ruled
    <3>1. ParseFirewallRules(GetPolicyData(lastCheck.ruled)) = {}
      BY <2>1 DEF ParseFirewallRules, GetPolicyData
    <3> QED  BY <2>1, <3>1 DEF FirewallInv, CheckAccess
  <2>2. CASE lastCheck.ruled
    <3>1. GetPolicyData(lastCheck.ruled) = rules
      BY <2>2 DEF GetPolicyData
    <3>2. lastCheck.allowed = CheckAccess(rules, a) /\ lastCheck.ruled
      BY <3>1, <2>2 DEF FirewallInv
    <3> QED  BY <1>2, <3>2 DEF CheckAccess
  <2> QED  BY <2>1, <2>2
<1> HIDE DEF a, n, said, hits
<1>8. Verdict(rules, a) \in {"allow", "report"} <=>
        \E i \in hits : (\A j \in hits : i <= j) /\ rules[i].action # "deny"
  <2>1. CASE hits = {}
    BY <2>1, <1>4 DEF FirstSays
  <2>2. CASE hits # {}
    <3>1. Min(hits) \in hits /\ \A j \in hits : Min(hits) <= j
      BY <2>2, <1>6, MinIsFirst
    <3>2. ASSUME NEW i \in hits, \A j \in hits : i <= j PROVE i = Min(hits)
      <4>1. i <= Min(hits) /\ Min(hits) <= i /\ i \in Nat /\ Min(hits) \in Nat
        BY <3>1, <3>2, <1>6
      <4> QED  BY <4>1
    <3>3. Verdict(rules, a) = rules[Min(hits)].action
      BY <2>2, <1>4 DEF FirstSays
    <3> QED  BY <3>1, <3>2, <3>3, <1>5
  <2> QED  BY <2>1, <2>2
<1>9. Verdict(rules, a) = "none" <=> hits = {}
  <2>1. CASE hits = {}
    BY <2>1, <1>4 DEF FirstSays
  <2>2. CASE hits # {}
    <3>1. Min(hits) \in hits
      BY <2>2, <1>6, MinIsFirst
    <3> QED  BY <2>2, <3>1, <1>4, <1>5 DEF FirstSays
  <2> QED  BY <2>1, <2>2
<1>10. lastCheck.allowed <=>
        \/ ~lastCheck.ruled \/ said = {}
        \/ /\ a # Unparsed
           /\ \/ \E i \in hits : (\A j \in hits : i <= j) /\ rules[i].action # "deny"
              \/ hits = {} /\ \A i \in said : rules[i].action # "allow"
  BY <1>7, <1>8, <1>9
<1> QED  BY <1>10 DEF FirewallAgrees, a, said, hits

(* The firewall answers as its rules read, however many there are: the     *)
(* first that covers the address and has a known action decides, and       *)
(* without one a list that allows somebody refuses everybody else          *)
(* (policy_firewall.go:72); with its policy off or unreadable it lets      *)
(* everybody in (policy_firewall.go:51).                                   *)
THEOREM FirewallAnswers == PoliciesSpec => []FirewallAgrees
<1>1. PoliciesInv => PolicyRowsTyped
  BY DEF PoliciesInv
<1> QED BY <1>1, PoliciesInitInv, PoliciesStep, FirewallInitInv, FirewallStep, FirewallIsRight,
           PTL DEF PoliciesSpec

-----------------------------------------------------------------------------
(* Telemetry.  While requests come one by one, the keys about to be stored *)
(* are not there within the window, and a verdict about to be saved is of  *)
(* the group it answers.                                                   *)

CallStands(w, rows) ==
    /\ w.op = "insert" => \A k \in w.keys : rows[k].fresh = 0
    /\ w.op = "upsert" =>
          /\ ~w.refused
          /\ w.results \subseteq w.keys

TelemetryInOrder ==
    /\ answered \subseteq verdicts
    /\ \A k \in Keys : events[k].fresh <= 1
    /\ \A r \in TelemetryRequests :
          /\ CallStands(telemetryCalls[r], events)
          /\ telemetryCalls[r] # TelemetryIdle =>
                \A q \in TelemetryRequests : telemetryCalls[q] # TelemetryIdle => q = r

TelemetryInv == TelemetryTypeOK /\ (telemetryCalm => TelemetryInOrder)

EventRows == [fresh: Nat, old: Nat]

LEMMA IdleStands ==
    ASSUME NEW rows
    PROVE  /\ CallStands(TelemetryIdle, rows) /\ TelemetryIdle \in TelemetryCall
           /\ TelemetryIdle.op = "none"
BY DEF CallStands, TelemetryIdle, TelemetryCall

LEMMA TelemetryCalls ==
    /\ \A keys \in SUBSET Keys, op \in {"insert", "ask"} :
          /\ [op |-> op, keys |-> keys] \in TelemetryCall
          /\ [op |-> op, keys |-> keys].op = op
          /\ [op |-> op, keys |-> keys].keys = keys
    /\ \A keys, results \in SUBSET Keys, refused \in BOOLEAN :
          [op |-> "upsert", results |-> results, keys |-> keys, refused |-> refused]
              \in TelemetryCall
    /\ \A w \in TelemetryCall :
          /\ w.op \in {"insert", "ask", "upsert"} => w.keys \in SUBSET Keys
          /\ w.op = "upsert" => w.results \in SUBSET Keys
BY DEF TelemetryCall, TelemetryIdle

(* A request goes on: in turn, or as the first one. *)
LEMMA ProceedKeeps ==
    ASSUME TelemetryInv, NEW r \in TelemetryRequests, NEW w \in TelemetryCall,
           Proceed(r, w), TelemetryTypeOK',
           telemetryCalm' =>
              /\ telemetryCalm
              /\ NobodyReports \/ telemetryCalls[r] # TelemetryIdle
              /\ answered' \subseteq verdicts'
              /\ \A k \in Keys : events'[k].fresh <= 1
              /\ CallStands(w, events')
    PROVE  TelemetryInv'
<1>1. /\ telemetryCalls' = [telemetryCalls EXCEPT ![r] = w]
      /\ telemetryCalls \in [TelemetryRequests -> TelemetryCall]
  BY DEF Proceed, TelemetryInv, TelemetryTypeOK
<1>2. /\ telemetryCalls'[r] = w
      /\ \A q \in TelemetryRequests : q # r => telemetryCalls'[q] = telemetryCalls[q]
  BY <1>1
<1>3. ASSUME telemetryCalm'
      PROVE  TelemetryInOrder'
  <2>1. \A q \in TelemetryRequests : q # r => telemetryCalls'[q] = TelemetryIdle
    BY <1>2, <1>3 DEF TelemetryInv, TelemetryInOrder, NobodyReports
  <2>2. \A q \in TelemetryRequests : CallStands(telemetryCalls'[q], events')
    BY <1>2, <1>3, <2>1, IdleStands
  <2> QED  BY <1>3, <2>1, <2>2 DEF TelemetryInOrder
<1> QED  BY <1>3 DEF TelemetryInv

LEMMA CallsTyped ==
    ASSUME TelemetryInv, NEW r \in TelemetryRequests, NEW w \in TelemetryCall,
           Proceed(r, w)
    PROVE  telemetryCalls' \in [TelemetryRequests -> TelemetryCall]
BY DEF Proceed, TelemetryInv, TelemetryTypeOK

LEMMA IngestKeeps ==
    ASSUME TelemetryInv, NEW r \in TelemetryRequests,
           NEW batch \in BoundedSeq(Report, 2), IngestBatch(r, batch)
    PROVE  TelemetryInv'
<1>1. PICK existing \in {ListExistingKeys, {}} :
         /\ Proceed(r, [op |-> "insert", keys |-> KeptKeys(batch) \ existing])
         /\ telemetryCalm' = (telemetryCalm /\ NobodyReports
                              /\ existing = ListExistingKeys)
  BY DEF IngestBatch
<1> DEFINE keys == KeptKeys(batch) \ existing
           w == [op |-> "insert", keys |-> keys]
<1>2. UNCHANGED <<events, verdicts, answered>>
  BY DEF IngestBatch
<1>3. keys \in SUBSET Keys
  <2>1. PICK n \in 0..2 : batch \in [1..n -> Report]
    BY DEF BoundedSeq, SeqOf
  <2>2. \A i \in 1..n : batch[i].key \in Keys
    BY <2>1 DEF Report
  <2> QED  BY <2>1, <2>2 DEF KeptKeys, NormalizeCompatPayload, ToSet
<1>4. existing = ListExistingKeys => \A k \in keys : events[k].fresh = 0
  BY <1>3 DEF ListExistingKeys, TelemetryInv, TelemetryTypeOK
<1>5. Proceed(r, w)
  BY <1>1
<1> HIDE DEF keys
<1>6. w \in TelemetryCall /\ w.op = "insert" /\ w.keys = keys
  BY <1>3, TelemetryCalls
<1> HIDE DEF w
<1>7. TelemetryTypeOK'
  <2>1. telemetryCalm' \in BOOLEAN
    BY <1>1
  <2> QED  BY <1>2, <1>5, <1>6, <2>1, CallsTyped DEF TelemetryInv, TelemetryTypeOK
<1>8. ASSUME telemetryCalm'
      PROVE  /\ telemetryCalm /\ NobodyReports /\ TelemetryInOrder
             /\ CallStands(w, events)
  BY <1>1, <1>4, <1>6, <1>8 DEF TelemetryInv, CallStands
<1> QED  BY <1>2, <1>5, <1>6, <1>7, <1>8, ProceedKeeps DEF TelemetryInOrder

LEMMA CreateEventsKeeps ==
    ASSUME TelemetryInv, NEW r \in TelemetryRequests, CreateEvents(r)
    PROVE  TelemetryInv'
<1> DEFINE w == telemetryCalls[r]
<1>1. /\ w.op = "insert" /\ Proceed(r, TelemetryIdle)
      /\ events' = [k \in Keys |-> IF k \in w.keys THEN [events[k] EXCEPT !.fresh = @ + 1]
                                   ELSE events[k]]
      /\ UNCHANGED <<verdicts, answered, telemetryCalm>>
  BY DEF CreateEvents
<1>2. \A k \in Keys : /\ events[k] \in EventRows
                      /\ [events[k] EXCEPT !.fresh = @ + 1] \in EventRows
                      /\ [events[k] EXCEPT !.fresh = @ + 1].fresh = events[k].fresh + 1
  BY DEF TelemetryInv, TelemetryTypeOK, EventRows
<1>3. events' \in [Keys -> EventRows]
  BY <1>1, <1>2
<1>4. TelemetryTypeOK'
  BY <1>1, <1>3, IdleStands, CallsTyped DEF TelemetryInv, TelemetryTypeOK, EventRows
<1>5. ASSUME telemetryCalm'
      PROVE  TelemetryInOrder /\ \A k \in Keys : events'[k].fresh <= 1
  <2>1. TelemetryInOrder /\ \A k \in w.keys : events[k].fresh = 0
    BY <1>1, <1>5 DEF TelemetryInv, TelemetryInOrder, CallStands
  <2> QED  BY <1>1, <1>2, <2>1 DEF TelemetryInOrder
<1>6. w # TelemetryIdle
  BY <1>1, IdleStands
<1> QED  BY <1>1, <1>4, <1>5, <1>6, IdleStands, ProceedKeeps DEF TelemetryInOrder

(* The window passes, or old events are deleted. *)
LEMMA OlderKeeps ==
    ASSUME TelemetryInv, events' \in [Keys -> EventRows],
           \A k \in Keys : events'[k].fresh \in {0, events[k].fresh},
           UNCHANGED <<verdicts, telemetryCalls, answered, telemetryCalm>>
    PROVE  TelemetryInv'
<1>1. TelemetryTypeOK'
  BY DEF TelemetryInv, TelemetryTypeOK, EventRows
<1>2. ASSUME telemetryCalm
      PROVE  TelemetryInOrder'
  <2>1. TelemetryInOrder
    BY <1>2 DEF TelemetryInv
  <2>2. \A k \in Keys : events'[k].fresh <= 1
    BY <2>1 DEF TelemetryInOrder, TelemetryInv, TelemetryTypeOK
  <2>3. \A r \in TelemetryRequests : CallStands(telemetryCalls[r], events')
    <3>1. \A r \in TelemetryRequests :
             telemetryCalls[r].op = "insert" => telemetryCalls[r].keys \in SUBSET Keys
      BY TelemetryCalls DEF TelemetryInv, TelemetryTypeOK
    <3> QED  BY <2>1, <3>1 DEF TelemetryInOrder, CallStands
  <2> QED  BY <2>1, <2>2, <2>3 DEF TelemetryInOrder
<1> QED  BY <1>1, <1>2 DEF TelemetryInv

LEMMA OlderEventsKeep ==
    ASSUME TelemetryInv, WindowPasses \/ DeleteOldEvents
    PROVE  TelemetryInv'
<1>1. \A k \in Keys :
         /\ events[k] \in EventRows
         /\ [fresh |-> 0, old |-> events[k].fresh + events[k].old] \in EventRows
         /\ [events[k] EXCEPT !.old = 0] \in EventRows
         /\ [events[k] EXCEPT !.old = 0].fresh = events[k].fresh
  BY DEF TelemetryInv, TelemetryTypeOK, EventRows
<1>2. CASE WindowPasses
  <2>1. /\ events' = [k \in Keys |-> [fresh |-> 0, old |-> events[k].fresh + events[k].old]]
        /\ UNCHANGED <<verdicts, telemetryCalls, answered, telemetryCalm>>
    BY <1>2 DEF WindowPasses
  <2> QED  BY <1>1, <2>1, OlderKeeps
<1>3. CASE DeleteOldEvents
  <2>1. /\ events' = [k \in Keys |-> [events[k] EXCEPT !.old = 0]]
        /\ UNCHANGED <<verdicts, telemetryCalls, answered, telemetryCalm>>
    BY <1>3 DEF DeleteOldEvents
  <2>2. /\ events' \in [Keys -> EventRows]
        /\ \A k \in Keys : events'[k].fresh = events[k].fresh
    BY <1>1, <2>1
  <2> QED  BY <2>1, <2>2, OlderKeeps
<1> QED  BY <1>2, <1>3

LEMMA AnalyzeKeeps ==
    ASSUME TelemetryInv, NEW r \in TelemetryRequests, AnalyzeEvents(r)
    PROVE  TelemetryInv'
<1>1. PICK groups \in SUBSET ListSummary, known \in {verdicts, {}} :
         /\ Proceed(r, [op |-> "ask", keys |-> groups \ known])
         /\ telemetryCalm' = (telemetryCalm /\ NobodyReports)
  BY DEF AnalyzeEvents
<1> DEFINE w == [op |-> "ask", keys |-> groups \ known]
<1>2. groups \ known \in SUBSET Keys
  BY DEF ListSummary
<1>3. Proceed(r, w) /\ UNCHANGED <<events, verdicts, answered>>
  BY <1>1 DEF AnalyzeEvents
<1>4. w \in TelemetryCall /\ w.op = "ask"
  BY <1>2, TelemetryCalls
<1> HIDE DEF w
<1>5. CallStands(w, events) /\ telemetryCalm' \in BOOLEAN
  BY <1>1, <1>4 DEF CallStands
<1>6. TelemetryTypeOK'
  BY <1>3, <1>4, <1>5, CallsTyped DEF TelemetryInv, TelemetryTypeOK
<1>7. telemetryCalm' => telemetryCalm /\ NobodyReports /\ TelemetryInOrder
  BY <1>1 DEF TelemetryInv
<1> QED  BY <1>3, <1>4, <1>5, <1>6, <1>7, ProceedKeeps DEF TelemetryInOrder

(* An answer is taken to be about the group it is about, when no other one *)
(* shares its place.                                                       *)
LEMMA CallModelKeeps ==
    ASSUME TelemetryInv, NEW r \in TelemetryRequests, CallModel(r)
    PROVE  TelemetryInv'
<1> DEFINE asked == telemetryCalls[r].keys
           twins == \E a, b \in asked : SamePlace(a, b)
<1>1. PICK named \in SUBSET asked, echoed \in SUBSET asked,
           invented \in SUBSET Places, last \in [Places -> Kinds], twice \in BOOLEAN :
         /\ \A p \in {k[1] : k \in asked} : <<p, last[p]>> \in asked
         /\ Proceed(r, Results(asked, last, named, echoed, invented, twice))
         /\ telemetryCalm' = (telemetryCalm /\ ~twice /\ ~twins)
  BY DEF CallModel
<1> DEFINE places == {k[1] : k \in named} \cup invented
           keys == {<<p, KindOf(asked, p, last)>> : p \in places}
           refused == \/ twice
                      \/ \E a, b \in named : SamePlace(a, b)
                      \/ \E a, b \in echoed : SamePlace(a, b)
           w == [op |-> "upsert", results |-> named, keys |-> keys, refused |-> refused]
<1>2. /\ telemetryCalls[r].op = "ask" /\ telemetryCalls[r] # TelemetryIdle
      /\ UNCHANGED <<events, verdicts, answered>>
  BY IdleStands DEF CallModel
<1>3. asked \in SUBSET Keys
  BY <1>2, TelemetryCalls DEF TelemetryInv, TelemetryTypeOK
<1>4. \A p \in places : p \in Places /\ KindOf(asked, p, last) \in Kinds
  BY <1>3, TelemetryAssumption DEF KindOf, Keys
<1>5. keys \in SUBSET Keys
  BY <1>4 DEF Keys
<1>6. ASSUME ~twins, ~twice
      PROVE  named \subseteq keys /\ ~refused
  <2>1. ASSUME NEW k \in named
        PROVE  k \in keys
    <3>1. k \in asked /\ k[1] \in Places /\ k[1] \in places
      BY <1>3 DEF Keys
    <3>2. <<k[1], last[k[1]]>> \in asked
      BY <1>1, <3>1
    <3>3. k = <<k[1], last[k[1]]>>
      BY <1>6, <3>1, <3>2 DEF SamePlace
    <3>4. KindOf(asked, k[1], last) = last[k[1]]
      BY <3>1 DEF KindOf
    <3> QED  BY <3>1, <3>3, <3>4
  <2>2. ~refused
    BY <1>6
  <2> QED  BY <2>1, <2>2
<1>7. Proceed(r, w) /\ telemetryCalm' = (telemetryCalm /\ ~twice /\ ~twins)
  BY <1>1 DEF Results
<1>r. refused \in BOOLEAN /\ named \in SUBSET Keys
  BY <1>3
<1> HIDE DEF keys, twins, refused
<1>8. /\ w \in TelemetryCall /\ w.op = "upsert" /\ w.results = named /\ w.keys = keys
      /\ w.refused = refused
  BY <1>r, <1>5, TelemetryCalls
<1> HIDE DEF w
<1>9. TelemetryTypeOK'
  <2>1. telemetryCalm' \in BOOLEAN
    BY <1>7 DEF TelemetryInv, TelemetryTypeOK, twins
  <2> QED  BY <1>2, <1>7, <1>8, <2>1, CallsTyped DEF TelemetryInv, TelemetryTypeOK
<1>10. telemetryCalm' => telemetryCalm /\ TelemetryInOrder /\ CallStands(w, events)
  BY <1>6, <1>7, <1>8 DEF TelemetryInv, CallStands
<1> QED  BY <1>2, <1>7, <1>8, <1>9, <1>10, ProceedKeeps DEF TelemetryInOrder

LEMMA UpsertKeeps ==
    ASSUME TelemetryInv, NEW r \in TelemetryRequests, UpsertVerdicts(r)
    PROVE  TelemetryInv'
<1> DEFINE w == telemetryCalls[r]
<1>1. /\ w.op = "upsert" /\ w # TelemetryIdle /\ Proceed(r, TelemetryIdle)
      /\ verdicts' = IF w.refused THEN verdicts ELSE verdicts \cup w.keys
      /\ answered' = answered \cup w.results
      /\ UNCHANGED <<events, telemetryCalm>>
  BY IdleStands DEF UpsertVerdicts
<1>2. w.keys \in SUBSET Keys /\ w.results \in SUBSET Keys
  BY <1>1, TelemetryCalls DEF TelemetryInv, TelemetryTypeOK
<1>3. TelemetryTypeOK'
  BY <1>1, <1>2, IdleStands, CallsTyped DEF TelemetryInv, TelemetryTypeOK
<1>4. telemetryCalm => TelemetryInOrder /\ CallStands(w, events)
  BY DEF TelemetryInv, TelemetryInOrder
<1>5. telemetryCalm => ~w.refused /\ w.results \subseteq w.keys
  BY <1>1, <1>4 DEF CallStands
<1>6. telemetryCalm => answered' \subseteq verdicts'
  BY <1>1, <1>4, <1>5 DEF TelemetryInOrder
<1> QED  BY <1>1, <1>3, <1>4, <1>6, IdleStands, ProceedKeeps DEF TelemetryInOrder

LEMMA ResetVerdictsKeeps ==
    ASSUME TelemetryInv, ResetVerdicts
    PROVE  TelemetryInv'
<1>1. /\ verdicts' = {} /\ answered' = {} /\ UNCHANGED <<events, telemetryCalls>>
      /\ telemetryCalm' = (telemetryCalm /\ NobodyReports)
  BY DEF ResetVerdicts
<1>2. telemetryCalm' \in BOOLEAN
  BY <1>1
<1> QED  BY <1>1, <1>2 DEF TelemetryInv, TelemetryTypeOK, TelemetryInOrder

LEMMA FailTelemetryKeeps ==
    ASSUME TelemetryInv, NEW r \in TelemetryRequests, FailTelemetry(r)
    PROVE  TelemetryInv'
<1>1. /\ telemetryCalls[r] # TelemetryIdle /\ Proceed(r, TelemetryIdle)
      /\ UNCHANGED <<events, verdicts, answered, telemetryCalm>>
  BY DEF FailTelemetry
<1>2. TelemetryTypeOK'
  BY <1>1, IdleStands, CallsTyped DEF TelemetryInv, TelemetryTypeOK
<1>3. telemetryCalm => TelemetryInOrder
  BY DEF TelemetryInv
<1> QED  BY <1>1, <1>2, <1>3, IdleStands, ProceedKeeps DEF TelemetryInOrder

LEMMA TelemetryHolds == TelemetrySpec => []TelemetryInv
<1>1. TelemetryInit => TelemetryInv
  BY IdleStands DEF TelemetryInit, TelemetryInv, TelemetryTypeOK, TelemetryInOrder
<1>2. TelemetryInv /\ [TelemetryNext]_telemetryVars => TelemetryInv'
  <2>1. ASSUME TelemetryInv, UNCHANGED telemetryVars PROVE TelemetryInv'
    BY <2>1 DEF TelemetryInv, TelemetryTypeOK, TelemetryInOrder, telemetryVars
  <2> QED  BY <2>1, IngestKeeps, CreateEventsKeeps, OlderEventsKeep, AnalyzeKeeps,
              CallModelKeeps, UpsertKeeps, ResetVerdictsKeeps, FailTelemetryKeeps
           DEF TelemetryNext
<1> QED  BY <1>1, <1>2, PTL DEF TelemetrySpec

(* For any places and kinds and batches of events: while requests come one *)
(* by one an event is stored once in the window (IngestBatch).             *)
THEOREM EventsAreSingle == TelemetrySpec => []EventStoredOnce
<1>1. TelemetryInv => EventStoredOnce
  BY DEF TelemetryInv, TelemetryInOrder, EventStoredOnce
<1> QED  BY <1>1, TelemetryHolds, PTL

(* While requests come one by one, no two groups put to the model share a  *)
(* place and it answers once on each: what it answered on a group by the   *)
(* place the group has is kept until the verdicts are reset, also when it  *)
(* answers on places it was not asked about, or on other groups with the   *)
(* prompt's word for a missing code (AnalyzeEvents, UpsertBatch).          *)
THEOREM AnswersStay == TelemetrySpec => []AnswersAreKept
<1>1. TelemetryInv => AnswersAreKept
  BY DEF TelemetryInv, TelemetryInOrder, AnswersAreKept
<1> QED  BY <1>1, TelemetryHolds, PTL

-----------------------------------------------------------------------------
(* The breach monitor.  While requests come one by one, the address about  *)
(* to be added is not there, the rows a check has listed are, and the      *)
(* breach it is about to record is not recorded.                           *)

IsLive(emails, i) == i \in 1..Len(emails) /\ emails[i].live

EmailsSound(emails, removed) ==
    /\ \A i, j : IsLive(emails, i) /\ IsLive(emails, j)
                 /\ emails[i].address = emails[j].address => i = j
    /\ \A i \in removed : ~emails[i].live

RecordsSound(records) ==
    \A i, j \in 1..Len(records) :
        records[i].email = records[j].email /\ records[i].breach = records[j].breach
        => i = j

(* What a request names exists. *)
CallNames(w, emails, records) ==
    /\ w.op \in {"ask", "record"} => w.todo # {} /\ w.todo \subseteq 1..Len(emails)
    /\ w.op = "record" /\ w.new => w.left # {}
    /\ w.op = "remove" => w.id \in 1..Len(emails)
    /\ w.op = "dismiss" => w.id \in 1..Len(records)

CallStill(w, emails, records) ==
    /\ w.op = "add" => \A i : IsLive(emails, i) => emails[i].address # w.address
    /\ w.op \in {"ask", "record"} => \A i \in w.todo : emails[i].live
    /\ w.op = "record" /\ w.new =>
          \A i \in 1..Len(records) :
             ~(records[i].email = Newest(w.todo) /\ records[i].breach = NextBreach(w))

MonitorTyped ==
    /\ MonitorTypeOK
    /\ \A a \in Emails : IsFiniteSet(exposed[a])
    /\ \A r \in MonitorRequests : CallNames(monitorCalls[r], monitored, breachRecords)

MonitorInOrder ==
    /\ EmailsSound(monitored, removedEmails)
    /\ RecordsSound(breachRecords)
    /\ \A r \in MonitorRequests :
          /\ CallStill(monitorCalls[r], monitored, breachRecords)
          /\ monitorCalls[r] # MonitorIdle =>
                \A q \in MonitorRequests : monitorCalls[q] # MonitorIdle => q = r

MonitorInv == MonitorTyped /\ (monitorCalm => MonitorInOrder)

LEMMA NewestIsOne ==
    ASSUME NEW n \in Nat, NEW ids \in SUBSET (1..n), ids # {}
    PROVE  Newest(ids) \in ids
<1>1. Max(ids) \in ids /\ \A j \in ids : j <= Max(ids)
  BY MaxIsLast
<1> QED  BY <1>1 DEF Newest

LEMMA MonitorFacts ==
    ASSUME MonitorInv
    PROVE  /\ monitored \in Seq(MonitoredEmail) /\ Len(monitored) \in Nat
           /\ breachRecords \in Seq(BreachRecord) /\ Len(breachRecords) \in Nat
           /\ monitorCalls \in [MonitorRequests -> MonitorCall]
           /\ exposed \in [Emails -> SUBSET Breaches]
           /\ removedEmails \subseteq 1..Len(monitored) /\ monitorCalm \in BOOLEAN
           /\ \A r \in MonitorRequests :
                 CallNames(monitorCalls[r], monitored, breachRecords)
BY DEF MonitorInv, MonitorTyped, MonitorTypeOK

LEMMA LiveIs == \A i : i \in LiveEmails <=> IsLive(monitored, i)
BY DEF LiveEmails, IsLive

LEMMA IdleMonitor ==
    ASSUME NEW emails, NEW records
    PROVE  /\ MonitorIdle \in MonitorCall /\ MonitorIdle.op = "none"
           /\ CallNames(MonitorIdle, emails, records)
           /\ CallStill(MonitorIdle, emails, records)
BY DEF MonitorIdle, MonitorCall, CallNames, CallStill

LEMMA AskNames ==
    ASSUME NEW emails, NEW records, NEW n \in Nat, n = Len(emails),
           NEW todo \in SUBSET (1..n)
    PROVE  /\ Ask(todo) \in MonitorCall /\ CallNames(Ask(todo), emails, records)
           /\ (\A i \in todo : emails[i].live) => CallStill(Ask(todo), emails, records)
<1>1. CASE todo = {}
  BY <1>1, IdleMonitor DEF Ask
<1>2. CASE todo # {}
  <2> DEFINE w == [op |-> "ask", todo |-> todo]
  <2>1. w \in MonitorCall /\ w.op = "ask" /\ w.todo = todo
    BY DEF MonitorCall
  <2>2. Ask(todo) = w
    BY <1>2 DEF Ask
  <2> HIDE DEF w
  <2> QED  BY <1>2, <2>1, <2>2 DEF CallNames, CallStill
<1> QED  BY <1>1, <1>2

LEMMA MonitorCalls ==
    /\ \A a \in Emails : /\ [op |-> "add", address |-> a] \in MonitorCall
                         /\ [op |-> "add", address |-> a].op = "add"
    /\ \A id \in Nat, op \in {"remove", "dismiss"} :
          /\ [op |-> op, id |-> id] \in MonitorCall
          /\ [op |-> op, id |-> id].op = op /\ [op |-> op, id |-> id].id = id
    /\ \A w \in MonitorCall :
          /\ w.op = "add" => w.address \in Emails
          /\ w.op \in {"remove", "dismiss"} => w.id \in Nat
          /\ w.op \in {"ask", "record"} => w.todo \in SUBSET Nat
          /\ w.op = "record" => /\ w.left \in SUBSET Breaches /\ w.found \in Nat
                                /\ w.new \in BOOLEAN
BY DEF MonitorCall, MonitorIdle

RecordCall(todo, left, found, new) ==
    [op |-> "record", todo |-> todo, left |-> left, found |-> found, new |-> new]

LEMMA RecordCalls ==
    ASSUME NEW todo \in SUBSET Nat, NEW left \in SUBSET Breaches, NEW found \in Nat,
           NEW new \in BOOLEAN
    PROVE  LET v == RecordCall(todo, left, found, new)
           IN  /\ v \in MonitorCall /\ v.op = "record" /\ v.todo = todo
               /\ v.left = left /\ v.new = new
BY DEF RecordCall, MonitorCall

LEMMA RecordChanged ==
    ASSUME NEW w \in MonitorCall, w.op = "record"
    PROVE  /\ \A left : [w EXCEPT !.left = left] = RecordCall(w.todo, left, w.found, w.new)
           /\ \A new : [w EXCEPT !.new = new] = RecordCall(w.todo, w.left, w.found, new)
           /\ \A left, new : [w EXCEPT !.left = left, !.new = new]
                             = RecordCall(w.todo, left, w.found, new)
<1>1. w \in [op: {"record"}, todo: SUBSET Nat, left: SUBSET Breaches, found: Nat,
            new: BOOLEAN]
  BY DEF MonitorCall, MonitorIdle
<1>2. w = [op |-> "record", todo |-> w.todo, left |-> w.left, found |-> w.found,
           new |-> w.new]
  BY <1>1
<1>3. PICK todo, l, found, n : w = [op |-> "record", todo |-> todo, left |-> l,
                                    found |-> found, new |-> n]
  BY <1>2
<1>4. /\ w.todo = todo /\ w.left = l /\ w.found = found /\ w.new = n
  BY <1>3
<1>5. ASSUME NEW x
      PROVE  [w EXCEPT !.left = x] = RecordCall(todo, x, found, n)
  BY <1>3 DEF RecordCall
<1>6. ASSUME NEW x
      PROVE  [w EXCEPT !.new = x] = RecordCall(todo, l, found, x)
  BY <1>3 DEF RecordCall
<1>7. ASSUME NEW x, NEW y
      PROVE  [w EXCEPT !.left = x, !.new = y] = RecordCall(todo, x, found, y)
  <2>1. [w EXCEPT !.left = x, !.new = y] = [[w EXCEPT !.left = x] EXCEPT !.new = y]
    OBVIOUS
  <2>2. [RecordCall(todo, x, found, n) EXCEPT !.new = y] = RecordCall(todo, x, found, y)
    BY DEF RecordCall
  <2> QED  BY <1>5, <2>1, <2>2
<1>8. \A left : [w EXCEPT !.left = left] = RecordCall(w.todo, left, w.found, w.new)
  BY <1>4, <1>5
<1>9. \A new : [w EXCEPT !.new = new] = RecordCall(w.todo, w.left, w.found, new)
  BY <1>4, <1>6
<1>10. \A left, new : [w EXCEPT !.left = left, !.new = new]
                      = RecordCall(w.todo, left, w.found, new)
  BY <1>4, <1>7
<1> QED  BY <1>8, <1>9, <1>10

(* One step of a request: its first, or the next of the only one. *)
LEMMA MonitorMoves ==
    ASSUME MonitorInv, NEW r \in MonitorRequests, NEW w \in MonitorCall,
           monitorCalls' = [monitorCalls EXCEPT ![r] = w], UNCHANGED exposed,
           monitored' \in Seq(MonitoredEmail), Len(monitored) <= Len(monitored'),
           breachRecords' \in Seq(BreachRecord),
           Len(breachRecords) <= Len(breachRecords'),
           removedEmails' \subseteq 1..Len(monitored'),
           CallNames(w, monitored', breachRecords'), monitorCalm' \in BOOLEAN,
           monitorCalm' =>
              /\ monitorCalm
              /\ \/ monitorCalls[r] # MonitorIdle
                 \/ \A q \in MonitorRequests : monitorCalls[q] = MonitorIdle
              /\ EmailsSound(monitored', removedEmails')
              /\ RecordsSound(breachRecords')
              /\ CallStill(w, monitored', breachRecords')
    PROVE  MonitorInv'
<1>1. /\ monitorCalls'[r] = w
      /\ \A q \in MonitorRequests : q # r => monitorCalls'[q] = monitorCalls[q]
      /\ monitorCalls' \in [MonitorRequests -> MonitorCall]
  BY MonitorFacts
<1>2. Len(monitored') \in Nat /\ Len(breachRecords') \in Nat
  OBVIOUS
<1>3. 1..Len(monitored) \subseteq 1..Len(monitored')
      /\ 1..Len(breachRecords) \subseteq 1..Len(breachRecords')
  BY <1>2, MonitorFacts
<1>4. \A q \in MonitorRequests : CallNames(monitorCalls'[q], monitored', breachRecords')
  BY <1>1, <1>3, MonitorFacts DEF CallNames
<1>5. MonitorTyped'
  BY <1>1, <1>4 DEF MonitorInv, MonitorTyped, MonitorTypeOK
<1>6. ASSUME monitorCalm'
      PROVE  MonitorInOrder'
  <2>1. \A q \in MonitorRequests : q # r => monitorCalls'[q] = MonitorIdle
    BY <1>1, <1>6 DEF MonitorInv, MonitorInOrder
  <2>2. \A q \in MonitorRequests :
           CallStill(monitorCalls'[q], monitored', breachRecords')
    BY <1>1, <1>6, <2>1, IdleMonitor
  <2> QED  BY <1>6, <2>1, <2>2 DEF MonitorInOrder
<1> QED  BY <1>5, <1>6 DEF MonitorInv

(* A request arrives. *)
LEMMA ArrivingMonitorKeeps ==
    ASSUME MonitorInv, NEW r \in MonitorRequests, NEW w \in MonitorCall,
           WillMonitor(r, w), UNCHANGED <<monitored, breachRecords, exposed, removedEmails>>,
           CallNames(w, monitored, breachRecords),
           monitorCalm => CallStill(w, monitored, breachRecords)
    PROVE  MonitorInv'
<1>1. /\ monitorCalls' = [monitorCalls EXCEPT ![r] = w]
      /\ monitorCalm' = (monitorCalm
                         /\ \A q \in MonitorRequests : monitorCalls[q] = MonitorIdle)
  BY DEF WillMonitor
<1>2. /\ monitored' \in Seq(MonitoredEmail) /\ Len(monitored) <= Len(monitored')
      /\ breachRecords' \in Seq(BreachRecord)
      /\ Len(breachRecords) <= Len(breachRecords')
      /\ removedEmails' \subseteq 1..Len(monitored')
      /\ CallNames(w, monitored', breachRecords') /\ monitorCalm' \in BOOLEAN
  BY <1>1, MonitorFacts
<1>3. ASSUME monitorCalm'
      PROVE  /\ monitorCalm /\ \A q \in MonitorRequests : monitorCalls[q] = MonitorIdle
             /\ EmailsSound(monitored', removedEmails') /\ RecordsSound(breachRecords')
             /\ CallStill(w, monitored', breachRecords')
  BY <1>1, <1>3 DEF MonitorInv, MonitorInOrder
<1> QED  BY <1>1, <1>2, <1>3, MonitorMoves

LEMMA MonitorRequestKeeps ==
    ASSUME MonitorInv, NEW r \in MonitorRequests, MonitorRequest(r)
    PROVE  MonitorInv'
<1>1. ASSUME NEW a \in Emails, AddEmail(r, a)
      PROVE  MonitorInv'
  <2> DEFINE w == [op |-> "add", address |-> a]
  <2>1. w \in MonitorCall /\ w.op = "add" /\ w.address = a
    BY MonitorCalls
  <2>2. WillMonitor(r, w) /\ UNCHANGED <<monitored, breachRecords, exposed, removedEmails>>
    BY <1>1 DEF AddEmail
  <2> HIDE DEF w
  <2>3. CallNames(w, monitored, breachRecords) /\ CallStill(w, monitored, breachRecords)
    BY <1>1, <2>1, LiveIs DEF CallNames, CallStill, AddEmail
  <2> QED  BY <2>1, <2>2, <2>3, ArrivingMonitorKeeps
<1>2. ASSUME NEW id \in Nat, NEW op \in {"remove", "dismiss"},
             op = "remove" => id \in 1..Len(monitored),
             op = "dismiss" => id \in 1..Len(breachRecords),
             WillMonitor(r, [op |-> op, id |-> id]),
             UNCHANGED <<monitored, breachRecords, exposed, removedEmails>>
      PROVE  MonitorInv'
  <2> DEFINE w == [op |-> op, id |-> id]
  <2>1. w \in MonitorCall /\ w.op = op /\ w.id = id
    BY MonitorCalls
  <2>2. WillMonitor(r, w)
    BY <1>2
  <2> HIDE DEF w
  <2>3. CallNames(w, monitored, breachRecords) /\ CallStill(w, monitored, breachRecords)
    BY <1>2, <2>1 DEF CallNames, CallStill
  <2> QED  BY <1>2, <2>1, <2>2, <2>3, ArrivingMonitorKeeps
<1>3. ASSUME NEW id \in 1..Len(monitored), RemoveEmail(r, id)
      PROVE  MonitorInv'
  <2>1. id \in Nat
    BY MonitorFacts
  <2> QED  BY <1>2, <1>3, <2>1 DEF RemoveEmail
<1>4. ASSUME NEW id \in 1..Len(breachRecords), DismissBreach(r, id)
      PROVE  MonitorInv'
  <2>1. id \in Nat
    BY MonitorFacts
  <2> QED  BY <1>2, <1>4, <2>1 DEF DismissBreach
<1>5. ASSUME CheckEmails(r)
      PROVE  MonitorInv'
  <2>1. LiveEmails \in SUBSET (1..Len(monitored)) /\ \A i \in LiveEmails : monitored[i].live
    BY DEF LiveEmails
  <2>2. /\ Ask(LiveEmails) \in MonitorCall
        /\ CallNames(Ask(LiveEmails), monitored, breachRecords)
        /\ CallStill(Ask(LiveEmails), monitored, breachRecords)
    BY <2>1, AskNames, MonitorFacts
  <2> QED  BY <1>5, <2>2, ArrivingMonitorKeeps DEF CheckEmails
<1> QED  BY <1>1, <1>3, <1>4, <1>5 DEF MonitorRequest

(* A row is appended. *)
LEMMA AppendedRow ==
    ASSUME NEW T, NEW s \in Seq(T), NEW e \in T
    PROVE  /\ Append(s, e) \in Seq(T) /\ Len(Append(s, e)) = Len(s) + 1
           /\ Len(s) \in Nat /\ Append(s, e)[Len(s) + 1] = e
           /\ \A i \in 1..Len(s) : Append(s, e)[i] = s[i]
           /\ 1..(Len(s) + 1) = 1..Len(s) \cup {Len(s) + 1}
BY AppendProperties

LEMMA CreateEmailKeeps ==
    ASSUME MonitorInv, NEW r \in MonitorRequests, CreateEmail(r)
    PROVE  MonitorInv'
<1> DEFINE n == Len(monitored)
           email == [live |-> TRUE, address |-> monitorCalls[r].address, count |-> 0]
           w == Ask({n + 1})
<1>1. /\ monitorCalls[r].op = "add" /\ monitored' = Append(monitored, email)
      /\ monitorCalls' = [monitorCalls EXCEPT ![r] = w]
      /\ UNCHANGED <<breachRecords, exposed, removedEmails, monitorCalm>>
  BY DEF CreateEmail, ThenMonitor
<1>2. email \in MonitoredEmail /\ email.live /\ email.address = monitorCalls[r].address
  BY <1>1, MonitorFacts, MonitorCalls DEF MonitoredEmail
<1> HIDE DEF email
<1>3. /\ monitored' \in Seq(MonitoredEmail) /\ Len(monitored') = n + 1 /\ n \in Nat
      /\ monitored'[n + 1] = email /\ \A i \in 1..n : monitored'[i] = monitored[i]
      /\ 1..(n + 1) = 1..n \cup {n + 1}
  BY <1>1, <1>2, MonitorFacts, AppendedRow
<1>4. n + 1 \in Nat /\ {n + 1} \in SUBSET (1..(n + 1)) /\ n <= n + 1
  BY <1>3
<1>5. /\ w \in MonitorCall /\ CallNames(w, monitored', breachRecords')
      /\ CallStill(w, monitored', breachRecords')
  <2>1. \A i \in {n + 1} : monitored'[i].live
    BY <1>2, <1>3
  <2> HIDE DEF n
  <2> QED  BY <1>3, <1>4, <2>1, AskNames
<1>6. removedEmails \subseteq 1..n /\ monitorCalls[r] # MonitorIdle
  BY <1>1, MonitorFacts, IdleMonitor
<1>7. ASSUME monitorCalm
      PROVE  EmailsSound(monitored', removedEmails) /\ RecordsSound(breachRecords)
  <2>1. /\ EmailsSound(monitored, removedEmails) /\ RecordsSound(breachRecords)
        /\ \A i : IsLive(monitored, i) => monitored[i].address # email.address
    BY <1>1, <1>2, <1>7 DEF MonitorInv, MonitorInOrder, CallStill
  <2>2. \A i : IsLive(monitored', i) =>
           \/ i = n + 1
           \/ i # n + 1 /\ IsLive(monitored, i)
              /\ monitored'[i].address = monitored[i].address
    BY <1>3 DEF IsLive
  <2>3. \A i, j : IsLive(monitored', i) /\ IsLive(monitored', j)
                  /\ monitored'[i].address = monitored'[j].address => i = j
    BY <1>3, <2>1, <2>2 DEF EmailsSound
  <2>4. \A i \in removedEmails : ~monitored'[i].live
    BY <1>3, <1>6, <2>1 DEF EmailsSound
  <2> QED  BY <2>1, <2>3, <2>4 DEF EmailsSound
<1>8. removedEmails' \subseteq 1..Len(monitored')
  BY <1>1, <1>3, <1>6
<1>9. /\ Len(monitored) <= Len(monitored') /\ breachRecords' \in Seq(BreachRecord)
      /\ Len(breachRecords) <= Len(breachRecords') /\ monitorCalm' \in BOOLEAN
      /\ UNCHANGED exposed
  BY <1>1, <1>3, <1>4, MonitorFacts
<1>10. ASSUME monitorCalm'
       PROVE  /\ monitorCalm /\ EmailsSound(monitored', removedEmails')
              /\ RecordsSound(breachRecords')
  BY <1>1, <1>7, <1>10
<1>11. monitorCalls' = [monitorCalls EXCEPT ![r] = w]
  BY <1>1
<1> HIDE DEF w
<1> QED  BY <1>3, <1>5, <1>6, <1>8, <1>9, <1>10, <1>11, MonitorMoves

(* The request of a check goes on with w, all tables as they are. *)
LEMMA CheckGoesOn ==
    ASSUME MonitorInv, NEW r \in MonitorRequests, NEW w \in MonitorCall,
           monitorCalls[r] # MonitorIdle,
           monitorCalls' = [monitorCalls EXCEPT ![r] = w],
           UNCHANGED <<monitored, breachRecords, exposed, removedEmails, monitorCalm>>,
           CallNames(w, monitored, breachRecords),
           monitorCalm => CallStill(w, monitored, breachRecords)
    PROVE  MonitorInv'
<1>1. /\ monitored' \in Seq(MonitoredEmail) /\ Len(monitored) <= Len(monitored')
      /\ breachRecords' \in Seq(BreachRecord)
      /\ Len(breachRecords) <= Len(breachRecords')
      /\ removedEmails' \subseteq 1..Len(monitored')
      /\ CallNames(w, monitored', breachRecords') /\ monitorCalm' \in BOOLEAN
  BY MonitorFacts
<1>2. ASSUME monitorCalm'
      PROVE  /\ monitorCalm /\ EmailsSound(monitored', removedEmails')
             /\ RecordsSound(breachRecords') /\ CallStill(w, monitored', breachRecords')
  BY <1>2 DEF MonitorInv, MonitorInOrder
<1> QED  BY <1>1, <1>2, MonitorMoves

(* What is left of a check when its newest row is done. *)
LEMMA RestOfCheck ==
    ASSUME MonitorInv, NEW r \in MonitorRequests,
           monitorCalls[r].op \in {"ask", "record"}
    PROVE  LET todo == monitorCalls[r].todo
           IN  /\ todo \in SUBSET (1..Len(monitored)) /\ todo \in SUBSET Nat
               /\ Newest(todo) \in todo
               /\ Rest(todo) \in SUBSET (1..Len(monitored))
               /\ Rest(todo) \subseteq todo
               /\ monitorCalls[r] # MonitorIdle
<1> DEFINE todo == monitorCalls[r].todo
<1>1. todo \in SUBSET (1..Len(monitored)) /\ todo # {} /\ todo \in SUBSET Nat
  BY MonitorFacts DEF CallNames
<1>2. Newest(todo) \in todo
  <2> HIDE DEF todo
  <2> QED  BY <1>1, MonitorFacts, NewestIsOne
<1> QED  BY <1>1, <1>2, IdleMonitor DEF Rest

LEMMA StillListed ==
    ASSUME MonitorInv, monitorCalm, NEW r \in MonitorRequests,
           monitorCalls[r].op \in {"ask", "record"}
    PROVE  /\ CallStill(monitorCalls[r], monitored, breachRecords)
           /\ \A i \in monitorCalls[r].todo : monitored[i].live
           /\ EmailsSound(monitored, removedEmails) /\ RecordsSound(breachRecords)
BY DEF MonitorInv, MonitorInOrder, CallStill

LEMMA CheckBreachedKeeps ==
    ASSUME MonitorInv, NEW r \in MonitorRequests, CheckBreachedAccount(r)
    PROVE  MonitorInv'
<1> DEFINE todo == monitorCalls[r].todo
           reported == exposed[monitored[Newest(todo)].address]
           found == Cardinality(reported)
           w == RecordCall(todo, reported, found, FALSE)
<1>1. /\ monitorCalls[r].op = "ask"
      /\ UNCHANGED <<monitored, breachRecords, exposed, removedEmails, monitorCalm>>
      /\ \/ monitorCalls' = [monitorCalls EXCEPT ![r] = w]
         \/ monitorCalls' = [monitorCalls EXCEPT ![r] = Ask(Rest(todo))]
  BY DEF CheckBreachedAccount, ThenMonitor, RecordCall
<1>2. /\ todo \in SUBSET (1..Len(monitored)) /\ todo \in SUBSET Nat
      /\ Newest(todo) \in todo /\ Rest(todo) \in SUBSET (1..Len(monitored))
      /\ Rest(todo) \subseteq todo /\ monitorCalls[r] # MonitorIdle
  BY <1>1, RestOfCheck
<1>3. reported \in SUBSET Breaches /\ found \in Nat
  <2>1. monitored[Newest(todo)] \in MonitoredEmail
    BY <1>2, MonitorFacts
  <2>2. monitored[Newest(todo)].address \in Emails
    BY <2>1 DEF MonitoredEmail
  <2>3. reported \in SUBSET Breaches /\ IsFiniteSet(reported)
    BY <2>2, MonitorFacts DEF MonitorInv, MonitorTyped
  <2> HIDE DEF reported
  <2> QED  BY <2>3, FS_CardinalityType
<1>4. monitorCalm => \A i \in todo : monitored[i].live
  BY <1>1, StillListed
<1>5. CASE monitorCalls' = [monitorCalls EXCEPT ![r] = w]
  <2> HIDE DEF reported, found, todo
  <2>1. /\ w \in MonitorCall /\ w.op = "record" /\ w.todo = todo /\ w.left = reported
        /\ ~w.new
    BY <1>2, <1>3 DEF RecordCall, MonitorCall
  <2> HIDE DEF w
  <2>2. CallNames(w, monitored, breachRecords)
    BY <1>2, <2>1 DEF CallNames
  <2>3. monitorCalm => CallStill(w, monitored, breachRecords)
    BY <1>4, <2>1 DEF CallStill
  <2> QED  BY <1>1, <1>2, <1>5, <2>1, <2>2, <2>3, CheckGoesOn
<1>6. CASE monitorCalls' = [monitorCalls EXCEPT ![r] = Ask(Rest(todo))]
  <2>1. /\ Ask(Rest(todo)) \in MonitorCall
        /\ CallNames(Ask(Rest(todo)), monitored, breachRecords)
        /\ monitorCalm => CallStill(Ask(Rest(todo)), monitored, breachRecords)
    BY <1>2, <1>4, AskNames, MonitorFacts
  <2> QED  BY <1>1, <1>2, <1>6, <2>1, CheckGoesOn
<1> QED  BY <1>1, <1>5, <1>6

(* The next breach depends on what is left only. *)
LEMMA NextBreachIs ==
    ASSUME NEW v, NEW w, v.left = w.left
    PROVE  /\ NextBreach(v) = NextBreach(w)
           /\ w.left # {} => NextBreach(w) \in w.left
BY DEF NextBreach

LEMMA BreachExistsKeeps ==
    ASSUME MonitorInv, NEW r \in MonitorRequests, BreachExistsForEmail(r)
    PROVE  MonitorInv'
<1> DEFINE c == monitorCalls[r]
           b == NextBreach(c)
           fewer == RecordCall(c.todo, c.left \ {b}, c.found, c.new)
           creating == RecordCall(c.todo, c.left, c.found, TRUE)
<1>1. /\ c.op = "record" /\ ~c.new /\ c.left # {}
      /\ UNCHANGED <<monitored, breachRecords, exposed, removedEmails, monitorCalm>>
      /\ \/ monitorCalls' = [monitorCalls EXCEPT ![r] = [c EXCEPT !.left = @ \ {b}]]
         \/ /\ \A x \in RecordsOf(Newest(c.todo)) : x.breach # b
            /\ monitorCalls' = [monitorCalls EXCEPT ![r] = [c EXCEPT !.new = TRUE]]
  BY DEF BreachExistsForEmail, ThenMonitor
<1>2. /\ c \in MonitorCall /\ c.todo \in SUBSET Nat /\ c.left \in SUBSET Breaches
      /\ c.found \in Nat /\ c.new \in BOOLEAN
  BY <1>1, MonitorFacts, MonitorCalls
<1>3. c.todo \in SUBSET (1..Len(monitored)) /\ c.todo # {} /\ c # MonitorIdle
  BY <1>1, RestOfCheck
<1>4. /\ [c EXCEPT !.left = @ \ {b}] = fewer
      /\ [c EXCEPT !.new = TRUE] = creating
  BY <1>1, <1>2, RecordChanged
<1>5. monitorCalm => \A i \in c.todo : monitored[i].live
  BY <1>1, StillListed
<1>6. CASE monitorCalls' = [monitorCalls EXCEPT ![r] = fewer]
  <2>1. /\ fewer \in MonitorCall /\ fewer.op = "record" /\ fewer.todo = c.todo
        /\ fewer.new = c.new
    BY <1>2, RecordCalls
  <2> HIDE DEF fewer
  <2>2. CallNames(fewer, monitored, breachRecords)
    BY <1>1, <1>3, <2>1 DEF CallNames
  <2>3. monitorCalm => CallStill(fewer, monitored, breachRecords)
    BY <1>1, <1>5, <2>1 DEF CallStill
  <2> HIDE DEF c
  <2> QED  BY <1>1, <1>3, <1>6, <2>1, <2>2, <2>3, CheckGoesOn DEF c
<1>7. CASE /\ \A x \in RecordsOf(Newest(c.todo)) : x.breach # b
           /\ monitorCalls' = [monitorCalls EXCEPT ![r] = creating]
  <2>1. /\ creating \in MonitorCall /\ creating.op = "record"
        /\ creating.todo = c.todo /\ creating.left = c.left
    BY <1>2 DEF RecordCall, MonitorCall
  <2> HIDE DEF creating
  <2>2. CallNames(creating, monitored, breachRecords)
    BY <1>1, <1>3, <2>1 DEF CallNames
  <2>3. \A i \in 1..Len(breachRecords) :
           ~(breachRecords[i].email = Newest(c.todo) /\ breachRecords[i].breach = b)
    <3>1. \A i \in 1..Len(breachRecords) : breachRecords[i] \in ToSet(breachRecords)
      BY MonitorFacts DEF ToSet
    <3> QED  BY <1>7, <3>1 DEF RecordsOf
  <2>4. NextBreach(creating) = b
    BY <2>1, NextBreachIs
  <2>5. monitorCalm => CallStill(creating, monitored, breachRecords)
    BY <1>5, <2>1, <2>3, <2>4 DEF CallStill
  <2> QED  BY <1>1, <1>3, <1>7, <2>1, <2>2, <2>5, CheckGoesOn
<1> QED  BY <1>1, <1>4, <1>6, <1>7

LEMMA CreateBreachKeeps ==
    ASSUME MonitorInv, NEW r \in MonitorRequests, CreateBreachRecord(r)
    PROVE  MonitorInv'
<1> DEFINE c == monitorCalls[r]
           b == NextBreach(c)
           w == RecordCall(c.todo, c.left \ {b}, c.found, FALSE)
           row == [email |-> Newest(c.todo), breach |-> b, dismissed |-> FALSE]
           n == Len(breachRecords)
<1>1. /\ c.op = "record" /\ c.new
      /\ UNCHANGED <<monitored, exposed, removedEmails, monitorCalm>>
      /\ \/ breachRecords' = Append(breachRecords, row)
         \/ UNCHANGED breachRecords
      /\ monitorCalls' = [monitorCalls EXCEPT ![r] =
                            [c EXCEPT !.left = @ \ {b}, !.new = FALSE]]
  BY DEF CreateBreachRecord, ThenMonitor
<1>2. /\ c \in MonitorCall /\ c.todo \in SUBSET Nat /\ c.left \in SUBSET Breaches
      /\ c.found \in Nat /\ c.left # {}
  BY <1>1, MonitorFacts, MonitorCalls DEF CallNames
<1>3. /\ c.todo \in SUBSET (1..Len(monitored)) /\ c.todo # {} /\ c # MonitorIdle
      /\ Newest(c.todo) \in Nat
  BY <1>1, RestOfCheck
<1>4. row \in BreachRecord /\ row.email = Newest(c.todo) /\ row.breach = b
  BY <1>2, <1>3, NextBreachIs DEF BreachRecord
<1>5. monitorCalls' = [monitorCalls EXCEPT ![r] = w]
  <2> DEFINE fewer == [c EXCEPT !.left = @ \ {b}]
  <2>1. fewer = RecordCall(c.todo, c.left \ {b}, c.found, c.new)
    BY <1>1, <1>2, RecordChanged
  <2>2. [c EXCEPT !.left = @ \ {b}, !.new = FALSE] = [fewer EXCEPT !.new = FALSE]
    OBVIOUS
  <2>3. [fewer EXCEPT !.new = FALSE] = w
    <3> HIDE DEF fewer
    <3>1. \A new : [fewer EXCEPT !.new = new]
                   = RecordCall(c.todo, c.left \ {b}, c.found, new)
      <4> HIDE DEF c, b
      <4> QED  BY <2>1 DEF RecordCall
    <3> QED  BY <3>1, Zenon
  <2> QED  BY <1>1, <2>2, <2>3
<1>6. /\ w \in MonitorCall /\ w.op = "record" /\ w.todo = c.todo /\ ~w.new
  BY <1>2 DEF RecordCall, MonitorCall
<1> HIDE DEF w, row
<1>7. monitorCalm => /\ \A i \in c.todo : monitored[i].live
                     /\ \A i \in 1..n : ~(breachRecords[i].email = row.email
                                          /\ breachRecords[i].breach = row.breach)
                     /\ EmailsSound(monitored, removedEmails)
                     /\ RecordsSound(breachRecords)
  BY <1>1, <1>4, StillListed DEF CallStill
<1>8. \A records : CallNames(w, monitored, records)
  BY <1>3, <1>6 DEF CallNames
<1>9. \A records : monitorCalm => CallStill(w, monitored, records)
  BY <1>6, <1>7 DEF CallStill
<1>10. CASE breachRecords' = Append(breachRecords, row)
  <2>1. /\ breachRecords' \in Seq(BreachRecord) /\ Len(breachRecords') = n + 1
        /\ n \in Nat /\ breachRecords'[n + 1] = row
        /\ \A i \in 1..n : breachRecords'[i] = breachRecords[i]
        /\ 1..(n + 1) = 1..n \cup {n + 1}
    BY <1>4, <1>10, MonitorFacts, AppendedRow
  <2>2. monitorCalm => RecordsSound(breachRecords')
    <3>1. ASSUME monitorCalm, NEW i \in 1..(n + 1), NEW j \in 1..(n + 1),
                 breachRecords'[i].email = breachRecords'[j].email,
                 breachRecords'[i].breach = breachRecords'[j].breach
          PROVE  i = j
      <4>1. CASE i \in 1..n /\ j \in 1..n
        BY <1>7, <2>1, <3>1, <4>1 DEF RecordsSound
      <4>2. CASE i = n + 1 /\ j \in 1..n
        BY <1>7, <2>1, <3>1, <4>2
      <4>3. CASE i \in 1..n /\ j = n + 1
        BY <1>7, <2>1, <3>1, <4>3
      <4> QED  BY <2>1, <4>1, <4>2, <4>3
    <3> QED  BY <2>1, <3>1 DEF RecordsSound
  <2>3. /\ monitored' \in Seq(MonitoredEmail) /\ Len(monitored) <= Len(monitored')
        /\ removedEmails' \subseteq 1..Len(monitored') /\ monitorCalm' \in BOOLEAN
        /\ n <= Len(breachRecords') /\ UNCHANGED exposed
    BY <1>1, <2>1, MonitorFacts
  <2>4. CallNames(w, monitored', breachRecords')
    BY <1>1, <1>8
  <2>5. ASSUME monitorCalm'
        PROVE  /\ monitorCalm /\ EmailsSound(monitored', removedEmails')
               /\ RecordsSound(breachRecords') /\ CallStill(w, monitored', breachRecords')
    BY <1>1, <1>7, <1>9, <2>2, <2>5
  <2> QED  BY <1>3, <1>5, <1>6, <2>1, <2>3, <2>4, <2>5, MonitorMoves
<1>11. CASE UNCHANGED breachRecords
  BY <1>1, <1>3, <1>5, <1>6, <1>8, <1>9, <1>11, CheckGoesOn
<1> QED  BY <1>1, <1>10, <1>11

(* The statements that change one row of an address. *)
LEMMA EmailSaved ==
    ASSUME MonitorInv, NEW id \in 1..Len(monitored), NEW e \in MonitoredEmail,
           e.address = monitored[id].address
    PROVE  LET emails == [monitored EXCEPT ![id] = e]
           IN  /\ emails \in Seq(MonitoredEmail) /\ Len(emails) = Len(monitored)
               /\ EmailsSound(monitored, removedEmails) /\ monitored[id].live /\ e.live
                     => EmailsSound(emails, removedEmails)
               /\ EmailsSound(monitored, removedEmails) /\ ~e.live
                     => EmailsSound(emails, removedEmails \cup {id})
               /\ \A i \in 1..Len(monitored) : i # id => emails[i] = monitored[i]
               /\ emails[id] = e
<1> DEFINE emails == [monitored EXCEPT ![id] = e]
<1>1. /\ emails \in Seq(MonitoredEmail) /\ Len(emails) = Len(monitored)
      /\ emails[id] = e /\ Len(monitored) \in Nat
      /\ \A i \in 1..Len(monitored) : i # id => emails[i] = monitored[i]
  BY MonitorFacts
<1> HIDE DEF emails
<1>2. ASSUME EmailsSound(monitored, removedEmails), e.live => monitored[id].live
      PROVE  \A i, j : IsLive(emails, i) /\ IsLive(emails, j)
                       /\ emails[i].address = emails[j].address => i = j
  <2>1. \A i : IsLive(emails, i) =>
           IsLive(monitored, i) /\ emails[i].address = monitored[i].address
    <3>1. ASSUME NEW i, IsLive(emails, i)
          PROVE  IsLive(monitored, i) /\ emails[i].address = monitored[i].address
      <4>1. CASE i = id
        BY <1>1, <1>2, <3>1, <4>1 DEF IsLive
      <4>2. CASE i # id
        BY <1>1, <3>1, <4>2 DEF IsLive
      <4> QED  BY <4>1, <4>2
    <3> QED  BY <3>1
  <2> QED  BY <1>2, <2>1 DEF EmailsSound
<1>3. ASSUME EmailsSound(monitored, removedEmails), e.live, monitored[id].live
      PROVE  EmailsSound(emails, removedEmails)
  <2>1. \A i \in removedEmails : ~emails[i].live
    BY <1>1, <1>3, MonitorFacts DEF EmailsSound
  <2> QED  BY <1>2, <1>3, <2>1 DEF EmailsSound
<1>4. ASSUME EmailsSound(monitored, removedEmails), ~e.live
      PROVE  EmailsSound(emails, removedEmails \cup {id})
  <2>1. \A i \in removedEmails \cup {id} : ~emails[i].live
    <3>1. ASSUME NEW i \in removedEmails, i # id PROVE ~emails[i].live
      BY <1>1, <1>4, <3>1, MonitorFacts DEF EmailsSound
    <3> QED  BY <1>1, <1>4, <3>1
  <2> QED  BY <1>2, <1>4, <2>1 DEF EmailsSound
<1> QED  BY <1>1, <1>3, <1>4 DEF emails

LEMMA EmailChanged ==
    ASSUME NEW e \in MonitoredEmail, NEW found \in Nat
    PROVE  /\ [e EXCEPT !.live = TRUE, !.count = found] \in MonitoredEmail
           /\ [e EXCEPT !.live = TRUE, !.count = found].address = e.address
           /\ [e EXCEPT !.live = TRUE, !.count = found].live
           /\ [e EXCEPT !.live = FALSE] \in MonitoredEmail
           /\ [e EXCEPT !.live = FALSE].address = e.address
           /\ ~[e EXCEPT !.live = FALSE].live
BY DEF MonitoredEmail

LEMMA UpdateEmailKeeps ==
    ASSUME MonitorInv, NEW r \in MonitorRequests, UpdateEmail(r)
    PROVE  MonitorInv'
<1> DEFINE c == monitorCalls[r]
           id == Newest(c.todo)
           e == [monitored[id] EXCEPT !.live = TRUE, !.count = c.found]
           w == Ask(Rest(c.todo))
<1>1. /\ c.op = "record" /\ UNCHANGED <<breachRecords, exposed, removedEmails, monitorCalm>>
      /\ \/ monitored' = [monitored EXCEPT ![id].live = TRUE, ![id].count = c.found]
         \/ UNCHANGED monitored
      /\ monitorCalls' = [monitorCalls EXCEPT ![r] = w]
  BY DEF UpdateEmail, ThenMonitor
<1>2. /\ id \in c.todo /\ id \in 1..Len(monitored) /\ c # MonitorIdle
      /\ Rest(c.todo) \in SUBSET (1..Len(monitored)) /\ Rest(c.todo) \subseteq c.todo
  BY <1>1, RestOfCheck
<1>3. monitored[id] \in MonitoredEmail /\ c.found \in Nat
  BY <1>1, <1>2, MonitorFacts, MonitorCalls
<1>4. e \in MonitoredEmail /\ e.address = monitored[id].address /\ e.live
  BY <1>3, EmailChanged
<1>5. monitorCalm => /\ \A i \in c.todo : monitored[i].live
                     /\ EmailsSound(monitored, removedEmails)
                     /\ RecordsSound(breachRecords)
  BY <1>1, StillListed
<1>6. ASSUME NEW emails, Len(emails) = Len(monitored)
      PROVE  /\ w \in MonitorCall /\ CallNames(w, emails, breachRecords)
             /\ (\A i \in Rest(c.todo) : emails[i].live)
                   => CallStill(w, emails, breachRecords)
  BY <1>2, <1>6, AskNames, MonitorFacts
<1>7. CASE monitored' = [monitored EXCEPT ![id].live = TRUE, ![id].count = c.found]
  <2>1. monitored' = [monitored EXCEPT ![id] = e]
    BY <1>2, <1>7, MonitorFacts
  <2> HIDE DEF e, w, id
  <2>2. /\ monitored' \in Seq(MonitoredEmail) /\ Len(monitored') = Len(monitored)
        /\ EmailsSound(monitored, removedEmails) /\ monitored[id].live
              => EmailsSound(monitored', removedEmails)
        /\ \A i \in 1..Len(monitored) : i # id => monitored'[i] = monitored[i]
        /\ monitored'[id] = e
    <3> DEFINE emails == [monitored EXCEPT ![id] = e]
    <3>1. /\ emails \in Seq(MonitoredEmail) /\ Len(emails) = Len(monitored)
          /\ EmailsSound(monitored, removedEmails) /\ monitored[id].live
                => EmailsSound(emails, removedEmails)
          /\ \A i \in 1..Len(monitored) : i # id => emails[i] = monitored[i]
          /\ emails[id] = e
      <4>1. /\ id \in 1..Len(monitored) /\ e \in MonitoredEmail
            /\ e.address = monitored[id].address /\ e.live
        BY <1>2, <1>4
      <4>2. /\ emails \in Seq(MonitoredEmail) /\ Len(emails) = Len(monitored)
            /\ EmailsSound(monitored, removedEmails) /\ monitored[id].live /\ e.live
                  => EmailsSound(emails, removedEmails)
            /\ EmailsSound(monitored, removedEmails) /\ ~e.live
                  => EmailsSound(emails, removedEmails \cup {id})
            /\ \A i \in 1..Len(monitored) : i # id => emails[i] = monitored[i]
            /\ emails[id] = e
        BY <4>1, EmailSaved, Zenon
      <4> HIDE DEF emails
      <4> QED  BY <4>1, <4>2
    <3> HIDE DEF emails
    <3> QED  BY <2>1, <3>1 DEF emails
  <2>3. /\ w \in MonitorCall /\ CallNames(w, monitored', breachRecords')
        /\ (\A i \in Rest(c.todo) : monitored'[i].live)
              => CallStill(w, monitored', breachRecords')
    BY <1>1, <1>6, <2>2
  <2>4. ASSUME monitorCalm
        PROVE  \A i \in Rest(c.todo) : monitored'[i].live
    BY <1>2, <1>4, <1>5, <2>2, <2>4
  <2>5. ASSUME monitorCalm'
        PROVE  /\ monitorCalm /\ EmailsSound(monitored', removedEmails')
               /\ RecordsSound(breachRecords') /\ CallStill(w, monitored', breachRecords')
    BY <1>1, <1>2, <1>5, <2>2, <2>3, <2>4, <2>5
  <2>6. /\ Len(monitored) <= Len(monitored') /\ breachRecords' \in Seq(BreachRecord)
        /\ Len(breachRecords) <= Len(breachRecords') /\ monitorCalm' \in BOOLEAN
        /\ removedEmails' \subseteq 1..Len(monitored') /\ UNCHANGED exposed
    BY <1>1, <2>2, MonitorFacts
  <2> QED  BY <1>1, <1>2, <2>2, <2>3, <2>5, <2>6, MonitorMoves
<1>8. CASE UNCHANGED monitored
  <2>1. /\ w \in MonitorCall /\ CallNames(w, monitored, breachRecords)
        /\ monitorCalm => CallStill(w, monitored, breachRecords)
    BY <1>2, <1>5, <1>6
  <2> HIDE DEF w, id, e
  <2> QED  BY <1>1, <1>2, <1>8, <2>1, CheckGoesOn
<1> QED  BY <1>1, <1>7, <1>8

LEMMA DeleteEmailKeeps ==
    ASSUME MonitorInv, NEW r \in MonitorRequests, DeleteEmail(r)
    PROVE  MonitorInv'
<1> DEFINE id == monitorCalls[r].id
           e == [monitored[id] EXCEPT !.live = FALSE]
<1>1. /\ monitorCalls[r].op = "remove"
      /\ monitorCalls' = [monitorCalls EXCEPT ![r] = MonitorIdle]
      /\ UNCHANGED <<breachRecords, exposed, monitorCalm>>
      /\ \/ /\ monitored' = [monitored EXCEPT ![id].live = FALSE]
            /\ removedEmails' = removedEmails \cup {id}
         \/ UNCHANGED <<monitored, removedEmails>>
  BY DEF DeleteEmail, ThenMonitor
<1>2. id \in 1..Len(monitored) /\ monitorCalls[r] # MonitorIdle
  BY <1>1, MonitorFacts, IdleMonitor DEF CallNames
<1>3. monitored[id] \in MonitoredEmail
  BY <1>2, MonitorFacts
<1>4. e \in MonitoredEmail /\ e.address = monitored[id].address /\ ~e.live
  BY <1>3, EmailChanged
<1>5. CASE /\ monitored' = [monitored EXCEPT ![id].live = FALSE]
           /\ removedEmails' = removedEmails \cup {id}
  <2>1. monitored' = [monitored EXCEPT ![id] = e]
    BY <1>2, <1>5, MonitorFacts
  <2> HIDE DEF e, id
  <2>2. /\ monitored' \in Seq(MonitoredEmail) /\ Len(monitored') = Len(monitored)
        /\ EmailsSound(monitored, removedEmails) => EmailsSound(monitored', removedEmails')
    <3> DEFINE emails == [monitored EXCEPT ![id] = e]
    <3>1. /\ emails \in Seq(MonitoredEmail) /\ Len(emails) = Len(monitored)
          /\ EmailsSound(monitored, removedEmails)
                => EmailsSound(emails, removedEmails \cup {id})
      BY <1>2, <1>4, EmailSaved
    <3> HIDE DEF emails
    <3> QED  BY <1>5, <2>1, <3>1 DEF emails
  <2>3. removedEmails' \subseteq 1..Len(monitored')
    BY <1>2, <1>5, <2>2, MonitorFacts
  <2>4. /\ Len(monitored) <= Len(monitored') /\ breachRecords' \in Seq(BreachRecord)
        /\ Len(breachRecords) <= Len(breachRecords') /\ monitorCalm' \in BOOLEAN
        /\ UNCHANGED exposed
    BY <1>1, <2>2, MonitorFacts
  <2>5. ASSUME monitorCalm'
        PROVE  /\ monitorCalm /\ EmailsSound(monitored', removedEmails')
               /\ RecordsSound(breachRecords')
    BY <1>1, <2>2, <2>5 DEF MonitorInv, MonitorInOrder
  <2> QED  BY <1>1, <1>2, <2>2, <2>3, <2>4, <2>5, IdleMonitor, MonitorMoves
<1>6. CASE UNCHANGED <<monitored, removedEmails>>
  BY <1>1, <1>2, <1>6, IdleMonitor, CheckGoesOn
<1> QED  BY <1>1, <1>5, <1>6

LEMMA DismissedKeeps ==
    ASSUME MonitorInv, NEW r \in MonitorRequests, UpdateBreachRecord(r)
    PROVE  MonitorInv'
<1> DEFINE id == monitorCalls[r].id
           row == [breachRecords[id] EXCEPT !.dismissed = TRUE]
           n == Len(breachRecords)
<1>1. /\ monitorCalls[r].op = "dismiss"
      /\ monitorCalls' = [monitorCalls EXCEPT ![r] = MonitorIdle]
      /\ UNCHANGED <<monitored, exposed, removedEmails, monitorCalm>>
      /\ breachRecords' = [breachRecords EXCEPT ![id].dismissed = TRUE]
  BY DEF UpdateBreachRecord, ThenMonitor
<1>2. id \in 1..n /\ monitorCalls[r] # MonitorIdle
  BY <1>1, MonitorFacts, IdleMonitor DEF CallNames
<1>3. breachRecords' = [breachRecords EXCEPT ![id] = row]
  BY <1>1
<1>4. breachRecords[id] \in BreachRecord
  BY <1>2, MonitorFacts
<1>5. /\ row \in BreachRecord /\ row.email = breachRecords[id].email
      /\ row.breach = breachRecords[id].breach
  BY <1>4 DEF BreachRecord
<1> HIDE DEF row, id
<1>6. /\ breachRecords' \in Seq(BreachRecord) /\ Len(breachRecords') = n
      /\ \A i \in 1..n : /\ breachRecords'[i].email = breachRecords[i].email
                         /\ breachRecords'[i].breach = breachRecords[i].breach
  BY <1>2, <1>3, <1>5, MonitorFacts
<1>7. ASSUME monitorCalm'
      PROVE  /\ monitorCalm /\ EmailsSound(monitored', removedEmails')
             /\ RecordsSound(breachRecords')
  BY <1>1, <1>6, <1>7 DEF MonitorInv, MonitorInOrder, RecordsSound
<1>8. /\ Len(monitored) <= Len(monitored') /\ monitored' \in Seq(MonitoredEmail)
      /\ n <= Len(breachRecords') /\ monitorCalm' \in BOOLEAN
      /\ removedEmails' \subseteq 1..Len(monitored') /\ UNCHANGED exposed
  BY <1>1, <1>6, MonitorFacts
<1> QED  BY <1>1, <1>2, <1>6, <1>7, <1>8, IdleMonitor, MonitorMoves

LEMMA BreachKeeps ==
    ASSUME MonitorInv, NEW a \in Emails, NEW b \in Breaches, Breach(a, b)
    PROVE  MonitorInv'
<1>1. /\ exposed' = [exposed EXCEPT ![a] = @ \cup {b}]
      /\ UNCHANGED <<monitored, breachRecords, monitorCalls, removedEmails, monitorCalm>>
      /\ exposed \in [Emails -> SUBSET Breaches]
  BY MonitorFacts DEF Breach
<1>2. \A x \in Emails : IsFiniteSet(exposed'[x])
  <2>1. \A x \in Emails : IsFiniteSet(exposed[x])
    BY DEF MonitorInv, MonitorTyped
  <2>2. IsFiniteSet(exposed[a] \cup {b})
    BY <2>1, FS_AddElement
  <2> QED  BY <1>1, <2>1, <2>2
<1>3. exposed' \in [Emails -> SUBSET Breaches]
  BY <1>1
<1>4. MonitorTyped'
  BY <1>1, <1>2, <1>3 DEF MonitorInv, MonitorTyped, MonitorTypeOK
<1> QED  BY <1>1, <1>4 DEF MonitorInv, MonitorInOrder

LEMMA MonitorHolds == MonitorSpec => []MonitorInv
<1>1. MonitorInit => MonitorInv
  <2> SUFFICES ASSUME MonitorInit PROVE MonitorInv
    OBVIOUS
  <2>1. /\ monitored = <<>> /\ breachRecords = <<>> /\ removedEmails = {}
        /\ exposed = [a \in Emails |-> {}] /\ monitorCalm = TRUE
        /\ monitorCalls = [r \in MonitorRequests |-> MonitorIdle]
    BY DEF MonitorInit
  <2>2. \A r \in MonitorRequests : monitorCalls[r] = MonitorIdle
    BY <2>1
  <2>3. MonitorTyped
    <3>1. \A a \in Emails : IsFiniteSet(exposed[a])
      BY <2>1, FS_EmptySet
    <3>2. monitorCalls \in [MonitorRequests -> MonitorCall]
      BY <2>1, IdleMonitor
    <3> QED  BY <2>1, <2>2, <3>1, <3>2, IdleMonitor DEF MonitorTyped, MonitorTypeOK
  <2>4. EmailsSound(monitored, removedEmails) /\ RecordsSound(breachRecords)
    BY <2>1 DEF EmailsSound, RecordsSound, IsLive
  <2> QED  BY <2>2, <2>3, <2>4, IdleMonitor DEF MonitorInv, MonitorInOrder
<1>2. MonitorInv /\ [MonitorNext]_monitorVars => MonitorInv'
  <2>1. ASSUME MonitorInv, UNCHANGED monitorVars PROVE MonitorInv'
    BY <2>1 DEF MonitorInv, MonitorTyped, MonitorTypeOK, MonitorInOrder, monitorVars
  <2>2. ASSUME MonitorInv, NEW r \in MonitorRequests, CheckSingleEmail(r)
        PROVE  MonitorInv'
    BY <2>2, CheckBreachedKeeps, BreachExistsKeeps, CreateBreachKeeps, UpdateEmailKeeps
       DEF CheckSingleEmail
  <2> QED  BY <2>1, <2>2, MonitorRequestKeeps, CreateEmailKeeps, DeleteEmailKeeps,
              DismissedKeeps, BreachKeeps DEF MonitorNext
<1> QED  BY <1>1, <1>2, PTL DEF MonitorSpec

(* For any addresses and breaches, and checks in which any statement may   *)
(* fail: while requests and the worker come one by one, an address is      *)
(* monitored once and a breach of it is recorded once (AddEmail,           *)
(* CheckSingleEmail).                                                      *)
THEOREM BreachesAreSingle == MonitorSpec => []OneRecordEach
<1>1. MonitorInv => OneRecordEach
  BY LiveIs DEF MonitorInv, MonitorInOrder, EmailsSound, RecordsSound, OneRecordEach
<1> QED  BY <1>1, MonitorHolds, PTL

(* While requests and the worker come one by one, an address that was      *)
(* removed does not come back: the rows a check saves were not removed     *)
(* since it listed them (UpdateEmail).                                     *)
THEOREM RemovedEmailsStay == MonitorSpec => []EmailStaysRemoved
<1>1. MonitorInv => EmailStaysRemoved
  BY DEF MonitorInv, MonitorInOrder, EmailsSound, EmailStaysRemoved
<1> QED  BY <1>1, MonitorHolds, PTL
-----------------------------------------------------------------------------
(* Caches.  While requests come one by one, the files and the memory are   *)
(* those of the icon a domain should have, but for what the request is     *)
(* about to do.                                                            *)

(* An icon in memory is the one asked for, or none of the custom ones.     *)
IconFits(icon, wanted) ==
    IF wanted = Missing THEN icon \in {Upstream, Missing} ELSE icon = wanted

Serves(shown, wanted) == shown.fresh => IconFits(shown.icon, wanted)

(* The files of a domain are those of the custom icon it should have.      *)
FilesFit(files, wanted) ==
    /\ \A e \in ToSet(Extensions) : files[e] \in {Missing, wanted}
    /\ wanted # Missing => \E e \in ToSet(Extensions) : files[e] = wanted

(* What holds of the tables while the only request is about to do call:    *)
(* between the write and the clearing of the cache one domain is off.      *)
IconsFit(memory, files, wanted, call) ==
    /\ \A d \in Domains :
          IF call.op = "write" /\ call.domain = d
          THEN \A e \in ToSet(Extensions) : files[d][e] = Missing
          ELSE FilesFit(files[d], wanted[d])
    /\ \A d \in Domains :
          (call.op = "clear" /\ call.domain = d) \/ Serves(memory[d], wanted[d])
    /\ call.op = "fetch" => wanted[call.domain] = Missing
    /\ call.op = "cache" => IconFits(call.icon, wanted[call.domain])

(* While requests come one by one. *)
IconsInOrder(memory, files, wanted, calls) ==
    /\ \A r \in IconRequests : calls[r] # IconIdle =>
          /\ IconsFit(memory, files, wanted, calls[r])
          /\ \A q \in IconRequests : calls[q] # IconIdle => q = r
    /\ (\A r \in IconRequests : calls[r] = IconIdle)
          => IconsFit(memory, files, wanted, IconIdle)

IconsListed(memory, list) == \A d \in Domains : memory[d] # NotCached => d \in ToSet(list)

CachesInv ==
    /\ CachesTypeOK
    /\ IconsListed(cached, order)
    /\ Len(ranges) <= MaxRanges
    /\ iconCalm => IconsInOrder(cached, custom, uploaded, iconCalls)

CachedIcon == [icon: Icons \cup {Upstream, Missing}, fresh: BOOLEAN] \cup {NotCached}

LEMMA CachesFacts ==
    ASSUME CachesInv
    PROVE  /\ cached \in [Domains -> CachedIcon]
           /\ order \in Seq(Domains) /\ Len(order) \in Nat
           /\ custom \in [Domains -> Files]
           /\ onDisk \in [Domains -> {"no", "fresh", "old"}]
           /\ iconCalls \in [IconRequests -> IconCall]
           /\ uploaded \in [Domains -> Icons \cup {Missing}]
           /\ iconCalm \in BOOLEAN
           /\ ranges \in Seq(HashPrefixes) /\ Len(ranges) \in Nat
           /\ fetching \subseteq HashPrefixes
           /\ \A r \in IconRequests : iconCalls[r] \in IconCall
BY DEF CachesInv, CachesTypeOK, CachedIcon

LEMMA CachesInitInv == CachesInit => CachesInv
<1> SUFFICES ASSUME CachesInit PROVE CachesInv
  OBVIOUS
<1>1. NoFiles \in Files /\ IconIdle \in IconCall /\ IconIdle.op = "none"
  BY DEF NoFiles, Files, IconIdle, IconCall
<1>2. CachesTypeOK
  <2> DEFINE D == Domains
             P == HashPrefixes
  <2>1. <<>> \in Seq(D) /\ <<>> \in Seq(P)
    OBVIOUS
  <2> HIDE DEF D, P
  <2>2. order \in Seq(D) /\ ranges \in Seq(P)
    BY <2>1 DEF CachesInit
  <2> QED  BY <1>1, <2>2 DEF CachesInit, CachesTypeOK, D, P
<1>3. \A d \in Domains : cached[d] = NotCached /\ custom[d] = NoFiles /\ uploaded[d] = Missing
  BY DEF CachesInit
<1>4. \A d \in Domains : FilesFit(custom[d], uploaded[d]) /\ Serves(cached[d], uploaded[d])
  BY <1>3 DEF FilesFit, Serves, NoFiles, NotCached
<1>5. IconsFit(cached, custom, uploaded, IconIdle)
  BY <1>1, <1>4 DEF IconsFit
<1>6. \A r \in IconRequests : iconCalls[r] = IconIdle
  BY DEF CachesInit
<1>7. Len(ranges) <= MaxRanges
  BY CachesAssumption DEF CachesInit
<1> QED  BY <1>2, <1>3, <1>5, <1>6, <1>7 DEF CachesInv, IconsInOrder, IconsListed

(* The only request goes on. *)
LEMMA OnlyCallGoesOn ==
    ASSUME NEW memory, NEW files, NEW wanted, NEW calls \in [IconRequests -> IconCall],
           NEW r \in IconRequests, NEW call,
           \A q \in IconRequests : calls[q] # IconIdle => q = r,
           IconsFit(memory, files, wanted, call)
    PROVE  IconsInOrder(memory, files, wanted, [calls EXCEPT ![r] = call])
<1> DEFINE next == [calls EXCEPT ![r] = call]
<1>1. next[r] = call /\ \A q \in IconRequests : q # r => next[q] = IconIdle
  OBVIOUS
<1> HIDE DEF next
<1>2. IconsInOrder(memory, files, wanted, next)
  BY <1>1 DEF IconsInOrder
<1> QED  BY <1>2 DEF next

(* The file of the first extension is the icon the domain should have.     *)
LEMMA LoadedFits ==
    ASSUME NEW d \in Domains, FilesFit(custom[d], uploaded[d])
    PROVE  LoadCustomIcon(d) = uploaded[d]
<1> DEFINE there == {i \in DOMAIN Extensions : custom[d][Extensions[i]] # Missing}
<1>0. \A i \in DOMAIN Extensions : Extensions[i] \in ToSet(Extensions)
  BY DEF ToSet
<1>1. CASE there = {}
  <2>1. \A e \in ToSet(Extensions) : custom[d][e] = Missing
    BY <1>1 DEF ToSet
  <2> QED  BY <1>1, <2>1 DEF LoadCustomIcon, FilesFit
<1>2. CASE there # {}
  <2>1. there \in SUBSET Nat
    BY CachesAssumption
  <2>2. Min(there) \in there
    BY <1>2, <2>1, MinIsFirst
  <2>3. custom[d][Extensions[Min(there)]] = uploaded[d]
    BY <2>2, <1>0 DEF FilesFit
  <2> QED  BY <1>2, <2>3 DEF LoadCustomIcon
<1> QED  BY <1>1, <1>2

(* A request begins: none was there, if the history is still calm.         *)
LEMMA IconsWhenIdle ==
    ASSUME CachesInv, NEW r \in IconRequests, NEW call, WillHandle(r, call), iconCalm'
    PROVE  /\ IconsFit(cached, custom, uploaded, IconIdle)
           /\ \A d \in Domains : /\ FilesFit(custom[d], uploaded[d])
                                 /\ Serves(cached[d], uploaded[d])
           /\ \A q \in IconRequests : iconCalls[q] # IconIdle => q = r
           /\ iconCalls' = [iconCalls EXCEPT ![r] = call]
<1>1. iconCalm /\ \A q \in IconRequests : iconCalls[q] = IconIdle
  BY DEF WillHandle
<1>2. IconsFit(cached, custom, uploaded, IconIdle)
  BY <1>1 DEF CachesInv, IconsInOrder
<1>3. IconIdle.op = "none"
  BY DEF IconIdle
<1> QED  BY <1>1, <1>2, <1>3 DEF WillHandle, IconsFit

(* A request goes on: it is the only one, if the history is calm.          *)
LEMMA IconsWhenBusy ==
    ASSUME CachesInv, NEW r \in IconRequests, iconCalls[r] # IconIdle, iconCalm
    PROVE  /\ IconsFit(cached, custom, uploaded, iconCalls[r])
           /\ \A q \in IconRequests : iconCalls[q] # IconIdle => q = r
BY DEF CachesInv, IconsInOrder

LEMMA IconCallKinds ==
    ASSUME NEW call \in IconCall
    PROVE  /\ call.op \in {"none", "fetch", "clear", "cache", "write"}
           /\ call.op = "none" => call = IconIdle
           /\ call.op # "none" => call # IconIdle /\ call.domain \in Domains
           /\ call.op = "cache" => call.icon \in Icons \cup {Upstream, Missing}
           /\ call.op = "write" => call.icon \in Icons /\ call.ext \in ToSet(Extensions)
BY DEF IconCall, IconIdle

LEMMA NewIconCalls ==
    ASSUME NEW d \in Domains
    PROVE  /\ [op |-> "fetch", domain |-> d] \in IconCall
           /\ [op |-> "clear", domain |-> d] \in IconCall
           /\ \A icon \in Icons \cup {Upstream, Missing} :
                 [op |-> "cache", domain |-> d, icon |-> icon] \in IconCall
           /\ \A icon \in Icons, e \in ToSet(Extensions) :
                 [op |-> "write", domain |-> d, icon |-> icon, ext |-> e] \in IconCall
           /\ IconIdle \in IconCall
BY DEF IconCall

LEMMA GetIconKeeps ==
    ASSUME CachesInv, NEW r \in IconRequests, NEW d \in Domains, GetIcon(r, d)
    PROVE  CachesInv'
<1> DEFINE found == IF LoadCustomIcon(d) # Missing THEN LoadCustomIcon(d)
                    ELSE IF LoadFromDisk(d) THEN Upstream ELSE Missing
           call == IF found # Missing THEN [op |-> "cache", domain |-> d, icon |-> found]
                   ELSE [op |-> "fetch", domain |-> d]
<1>1. /\ WillHandle(r, call)
      /\ UNCHANGED <<cached, order, custom, uploaded>>
      /\ onDisk' = onDisk \/ onDisk' = [onDisk EXCEPT ![d] = "no"]
  BY DEF GetIcon
<1>2. LoadCustomIcon(d) \in Icons \cup {Missing}
  <2> DEFINE there == {i \in DOMAIN Extensions : custom[d][Extensions[i]] # Missing}
  <2>1. CASE there = {}
    BY <2>1 DEF LoadCustomIcon
  <2>2. CASE there # {}
    <3>1. there \in SUBSET Nat
      BY CachesAssumption
    <3>2. Min(there) \in there
      BY <2>2, <3>1, MinIsFirst
    <3>3. Extensions[Min(there)] \in ToSet(Extensions)
      BY <3>2 DEF ToSet
    <3>4. custom[d] \in Files
      BY CachesFacts
    <3> QED  BY <2>2, <3>3, <3>4 DEF LoadCustomIcon, Files
  <2> QED  BY <2>1, <2>2
<1>3. found \in Icons \cup {Upstream, Missing}
  BY <1>2
<1>4. call \in IconCall
  BY <1>3, NewIconCalls
<1>5. iconCalm' => IconFits(found, uploaded[d]) /\ (found = Missing => uploaded[d] = Missing)
  <2> SUFFICES ASSUME iconCalm'
               PROVE  IconFits(found, uploaded[d]) /\ (found = Missing => uploaded[d] = Missing)
    OBVIOUS
  <2> HIDE DEF call, found
  <2>1. FilesFit(custom[d], uploaded[d])
    BY <1>1, IconsWhenIdle
  <2>2. LoadCustomIcon(d) = uploaded[d]
    BY <2>1, LoadedFits
  <2> QED  BY <2>2 DEF IconFits, found
<1>6. /\ call.op \in {"cache", "fetch"} /\ call.domain = d
      /\ call.op = "cache" => call.icon = found
      /\ call.op = "fetch" => found = Missing
  OBVIOUS
<1> HIDE DEF call, found
<1>7. iconCalm' => IconsFit(cached, custom, uploaded, call)
  BY <1>1, <1>5, <1>6, IconsWhenIdle DEF IconsFit
<1>8. iconCalm' => IconsInOrder(cached', custom', uploaded', iconCalls')
  <2> SUFFICES ASSUME iconCalm' PROVE IconsInOrder(cached', custom', uploaded', iconCalls')
    OBVIOUS
  <2>1. IconsInOrder(cached, custom, uploaded, [iconCalls EXCEPT ![r] = call])
    BY <1>1, <1>7, IconsWhenIdle, OnlyCallGoesOn, CachesFacts
  <2>2. iconCalls' = [iconCalls EXCEPT ![r] = call]
    BY <1>1 DEF WillHandle
  <2> QED  BY <2>1, <2>2, <1>1
<1>9. /\ iconCalls' \in [IconRequests -> IconCall] /\ iconCalm' \in BOOLEAN
      /\ onDisk' \in [Domains -> {"no", "fresh", "old"}]
      /\ UNCHANGED <<ranges, fetching>>
  BY <1>1, <1>4, CachesFacts DEF WillHandle
<1> QED  BY <1>1, <1>8, <1>9 DEF CachesInv, CachesTypeOK, IconsListed

LEMMA FetchIconKeeps ==
    ASSUME CachesInv, NEW r \in IconRequests, FetchIcon(r)
    PROVE  CachesInv'
<1> DEFINE d == iconCalls[r].domain
<1>1. iconCalls[r].op = "fetch" /\ d \in Domains /\ iconCalls[r] # IconIdle
  BY CachesFacts, IconCallKinds DEF FetchIcon
<1>2. PICK icon \in {Upstream, Missing} :
         iconCalls' = [iconCalls EXCEPT ![r] = [op |-> "cache", domain |-> d, icon |-> icon]]
  BY DEF FetchIcon, GoOn
<1>3. /\ UNCHANGED <<cached, order, custom, uploaded, iconCalm, ranges, fetching>>
      /\ onDisk' \in {onDisk, [onDisk EXCEPT ![d] = "fresh"]}
  BY DEF FetchIcon, GoOn
<1> DEFINE call == [op |-> "cache", domain |-> d, icon |-> icon]
<1>4. call \in IconCall /\ call.op = "cache" /\ call.domain = d /\ call.icon = icon
  BY <1>1, NewIconCalls
<1>5. iconCalm => IconsInOrder(cached, custom, uploaded, [iconCalls EXCEPT ![r] = call])
  <2> SUFFICES ASSUME iconCalm
               PROVE  IconsInOrder(cached, custom, uploaded, [iconCalls EXCEPT ![r] = call])
    OBVIOUS
  <2>1. /\ IconsFit(cached, custom, uploaded, iconCalls[r])
        /\ \A q \in IconRequests : iconCalls[q] # IconIdle => q = r
    BY <1>1, IconsWhenBusy
  <2> HIDE DEF call
  <2>2. IconsFit(cached, custom, uploaded, call)
    BY <1>1, <1>4, <2>1 DEF IconsFit, IconFits
  <2> QED  BY <2>1, <2>2, OnlyCallGoesOn, CachesFacts
<1> HIDE DEF call
<1>6. iconCalls' = [iconCalls EXCEPT ![r] = call]
  BY <1>2 DEF call
<1>7. iconCalls' \in [IconRequests -> IconCall] /\ onDisk' \in [Domains -> {"no", "fresh", "old"}]
  BY <1>1, <1>3, <1>4, <1>6, CachesFacts
<1> QED  BY <1>3, <1>5, <1>6, <1>7 DEF CachesInv, CachesTypeOK, IconsListed

LEMMA CacheIconKeeps ==
    ASSUME CachesInv, NEW r \in IconRequests, CacheIcon(r)
    PROVE  CachesInv'
<1> DEFINE d == iconCalls[r].domain
           icon == iconCalls[r].icon
           D == Domains
<1>1. /\ iconCalls[r].op = "cache" /\ d \in Domains /\ iconCalls[r] # IconIdle
      /\ icon \in Icons \cup {Upstream, Missing}
  BY CachesFacts, IconCallKinds DEF CacheIcon
<1>2. PICK evicts \in BOOLEAN :
        /\ evicts => order # <<>>
        /\ cached' = [IF evicts THEN [cached EXCEPT ![Head(order)] = NotCached] ELSE cached
                      EXCEPT ![d] = InMemory(icon)]
        /\ order' = Append(IF evicts THEN Tail(order) ELSE order, d)
  <2> DEFINE e == Cardinality({x \in Domains : cached[x] # NotCached}) >= CacheLimit
                  /\ order # <<>>
  <2>1. e \in BOOLEAN
    OBVIOUS
  <2>2. /\ cached' = [IF e THEN [cached EXCEPT ![Head(order)] = NotCached] ELSE cached
                      EXCEPT ![d] = InMemory(icon)]
        /\ order' = Append(IF e THEN Tail(order) ELSE order, d)
    BY DEF CacheIcon
  <2> QED  BY <2>1, <2>2
<1>3. /\ UNCHANGED <<custom, onDisk, uploaded, iconCalm, ranges, fetching>>
      /\ iconCalls' = [iconCalls EXCEPT ![r] = IconIdle]
  BY DEF CacheIcon, GoOn
<1>4. cached \in [Domains -> CachedIcon] /\ InMemory(icon) \in CachedIcon /\ NotCached \in CachedIcon
  BY <1>1, CachesFacts DEF CachedIcon, InMemory
<1>5. /\ cached' \in [Domains -> CachedIcon]
      /\ cached'[d] = InMemory(icon)
      /\ \A x \in Domains : x # d =>
            /\ cached'[x] = cached[x] \/ cached'[x] = NotCached
            /\ evicts /\ x = Head(order) => cached'[x] = NotCached
  <2>1. CASE evicts
    BY <2>1, <1>1, <1>2, <1>4
  <2>2. CASE ~evicts
    BY <2>2, <1>1, <1>2, <1>4
  <2> QED  BY <2>1, <2>2
<1>6. order \in Seq(D)
  BY CachesFacts
<1>7. order' \in Seq(D) /\ IconsListed(cached', order')
  <2> HIDE DEF d, icon, D
  <2>1. CASE evicts
    <3> DEFINE tail == Tail(order)
    <3>1. tail \in Seq(D) /\ ToSet(order) = ToSet(tail) \cup {Head(order)}
      BY <2>1, <1>2, <1>6, TailIs
    <3>2. order' = Append(tail, d) /\ d \in D
      BY <2>1, <1>1, <1>2 DEF D
    <3> HIDE DEF tail
    <3>3. order' \in Seq(D) /\ ToSet(order') = ToSet(tail) \cup {d}
      BY <3>1, <3>2, AppendIs
    <3>4. ASSUME NEW x \in Domains, cached'[x] # NotCached PROVE x \in ToSet(order')
      <4>1. CASE x = d
        BY <4>1, <3>3
      <4>2. CASE x # d
        <5>1. cached[x] # NotCached /\ x # Head(order)
          BY <4>2, <3>4, <2>1, <1>5
        <5>2. x \in ToSet(order)
          BY <5>1 DEF CachesInv, IconsListed
        <5> QED  BY <5>1, <5>2, <3>1, <3>3
      <4> QED  BY <4>1, <4>2
    <3> QED  BY <3>3, <3>4 DEF IconsListed
  <2>2. CASE ~evicts
    <3>2. order' = Append(order, d) /\ d \in D
      BY <2>2, <1>1, <1>2 DEF D
    <3>3. order' \in Seq(D) /\ ToSet(order') = ToSet(order) \cup {d}
      BY <1>6, <3>2, AppendIs
    <3>4. ASSUME NEW x \in Domains, cached'[x] # NotCached PROVE x \in ToSet(order')
      <4>1. CASE x = d
        BY <4>1, <3>3
      <4>2. CASE x # d
        BY <4>2, <3>3, <3>4, <1>5 DEF CachesInv, IconsListed
      <4> QED  BY <4>1, <4>2
    <3> QED  BY <3>3, <3>4 DEF IconsListed
  <2> QED  BY <2>1, <2>2
<1>8. iconCalm => IconsInOrder(cached', custom, uploaded, [iconCalls EXCEPT ![r] = IconIdle])
  <2> SUFFICES ASSUME iconCalm
               PROVE  IconsInOrder(cached', custom, uploaded, [iconCalls EXCEPT ![r] = IconIdle])
    OBVIOUS
  <2>1. /\ IconsFit(cached, custom, uploaded, iconCalls[r])
        /\ \A q \in IconRequests : iconCalls[q] # IconIdle => q = r
    BY <1>1, IconsWhenBusy
  <2>2. \A x \in Domains : Serves(cached[x], uploaded[x]) /\ FilesFit(custom[x], uploaded[x])
    BY <1>1, <2>1 DEF IconsFit
  <2>3. IconFits(icon, uploaded[d])
    BY <1>1, <2>1 DEF IconsFit
  <2>4. Serves(NotCached, uploaded[d]) /\ \A x \in Domains : Serves(NotCached, uploaded[x])
    BY DEF Serves, NotCached
  <2>5. Serves(InMemory(icon), uploaded[d])
    BY <2>3 DEF Serves, InMemory
  <2>6. \A x \in Domains : Serves(cached'[x], uploaded[x])
    BY <1>5, <2>2, <2>4, <2>5
  <2>7. IconsFit(cached', custom, uploaded, IconIdle)
    BY <2>2, <2>6 DEF IconsFit, IconIdle
  <2> QED  BY <2>1, <2>7, OnlyCallGoesOn, CachesFacts
<1>9. iconCalls' \in [IconRequests -> IconCall]
  BY <1>3, CachesFacts, NewIconCalls DEF IconCall
<1> QED  BY <1>3, <1>5, <1>7, <1>8, <1>9 DEF CachesInv, CachesTypeOK, CachedIcon

(* The files of a domain go. *)
LEMMA NoFilesFit ==
    ASSUME NEW files \in [Domains -> Files], NEW d \in Domains
    PROVE  LET next == [files EXCEPT ![d] = NoFiles]
           IN  /\ next \in [Domains -> Files]
               /\ \A e \in ToSet(Extensions) : next[d][e] = Missing
               /\ \A x \in Domains : x # d => next[x] = files[x]
<1>1. NoFiles \in Files /\ \A e \in ToSet(Extensions) : NoFiles[e] = Missing
  BY DEF NoFiles, Files
<1> QED  BY <1>1

LEMMA UploadKeeps ==
    ASSUME CachesInv, NEW r \in IconRequests, NEW d \in Domains, NEW icon \in Icons,
           NEW e \in ToSet(Extensions), UploadCustomIcon(r, d, icon, e)
    PROVE  CachesInv'
<1> DEFINE call == [op |-> "write", domain |-> d, icon |-> icon, ext |-> e]
<1>1. /\ custom' = [custom EXCEPT ![d] = NoFiles]
      /\ WillHandle(r, call)
      /\ UNCHANGED <<cached, order, onDisk, uploaded>>
  BY DEF UploadCustomIcon, RemoveExistingCustomIcons
<1>2. call \in IconCall /\ call.op = "write" /\ call.domain = d
  BY NewIconCalls
<1> HIDE DEF call
<1>3. /\ custom' \in [Domains -> Files]
      /\ \A x \in ToSet(Extensions) : custom'[d][x] = Missing
      /\ \A x \in Domains : x # d => custom'[x] = custom[x]
  BY <1>1, NoFilesFit, CachesFacts
<1>4. iconCalm' => IconsInOrder(cached', custom', uploaded', iconCalls')
  <2> SUFFICES ASSUME iconCalm' PROVE IconsInOrder(cached', custom', uploaded', iconCalls')
    OBVIOUS
  <2>1. IconsFit(cached, custom', uploaded, call)
    BY <1>1, <1>2, <1>3, IconsWhenIdle DEF IconsFit
  <2>2. IconsInOrder(cached, custom', uploaded, [iconCalls EXCEPT ![r] = call])
    BY <1>1, <2>1, IconsWhenIdle, OnlyCallGoesOn, CachesFacts
  <2>3. iconCalls' = [iconCalls EXCEPT ![r] = call]
    BY <1>1 DEF WillHandle
  <2> QED  BY <2>2, <2>3, <1>1
<1>5. /\ iconCalls' \in [IconRequests -> IconCall] /\ iconCalm' \in BOOLEAN
      /\ UNCHANGED <<ranges, fetching>>
  BY <1>1, <1>2, CachesFacts DEF WillHandle
<1> QED  BY <1>1, <1>3, <1>4, <1>5 DEF CachesInv, CachesTypeOK, IconsListed

LEMMA WriteKeeps ==
    ASSUME CachesInv, NEW r \in IconRequests, WriteCustomIcon(r)
    PROVE  CachesInv'
<1> DEFINE call == iconCalls[r]
           d == iconCalls[r].domain
           icon == iconCalls[r].icon
           ext == iconCalls[r].ext
           next == [op |-> "clear", domain |-> d]
<1>1. /\ call.op = "write" /\ d \in Domains /\ call # IconIdle
      /\ icon \in Icons /\ ext \in ToSet(Extensions)
  BY CachesFacts, IconCallKinds DEF WriteCustomIcon
<1>2. /\ custom' = [custom EXCEPT ![d][ext] = icon]
      /\ uploaded' = [uploaded EXCEPT ![d] = icon]
      /\ iconCalls' = [iconCalls EXCEPT ![r] = next]
      /\ UNCHANGED <<cached, order, onDisk, iconCalm, ranges, fetching>>
  BY DEF WriteCustomIcon, GoOn
<1>3. next \in IconCall /\ next.op = "clear" /\ next.domain = d
  BY <1>1, NewIconCalls
<1>4. custom \in [Domains -> Files] /\ uploaded \in [Domains -> Icons \cup {Missing}]
  BY CachesFacts
<1> HIDE DEF next
<1>5. /\ custom'[d] = [custom[d] EXCEPT ![ext] = icon] /\ uploaded'[d] = icon
      /\ \A x \in Domains : x # d => custom'[x] = custom[x] /\ uploaded'[x] = uploaded[x]
      /\ uploaded' \in [Domains -> Icons \cup {Missing}]
  BY <1>1, <1>2, <1>4
<1>6. custom'[d] \in Files /\ \A e \in ToSet(Extensions) :
                                 custom'[d][e] = IF e = ext THEN icon ELSE custom[d][e]
  BY <1>1, <1>4, <1>5 DEF Files
<1>7. custom' \in [Domains -> Files]
  BY <1>1, <1>2, <1>4, <1>5, <1>6
<1>8. iconCalm => IconsInOrder(cached, custom', uploaded', [iconCalls EXCEPT ![r] = next])
  <2> SUFFICES ASSUME iconCalm
               PROVE  IconsInOrder(cached, custom', uploaded', [iconCalls EXCEPT ![r] = next])
    OBVIOUS
  <2>1. /\ IconsFit(cached, custom, uploaded, call)
        /\ \A q \in IconRequests : iconCalls[q] # IconIdle => q = r
    BY <1>1, IconsWhenBusy
  <2> HIDE DEF call, d, icon, ext
  <2>2. FilesFit(custom'[d], uploaded'[d])
    <3>1. \A e \in ToSet(Extensions) : custom[d][e] = Missing
      BY <1>1, <2>1 DEF IconsFit, d, call
    <3> QED  BY <3>1, <1>1, <1>5, <1>6 DEF FilesFit
  <2>3. \A x \in Domains : x # d => FilesFit(custom'[x], uploaded'[x]) /\ Serves(cached[x], uploaded'[x])
    BY <1>1, <1>5, <2>1 DEF IconsFit, d, call
  <2>4. IconsFit(cached, custom', uploaded', next)
    BY <1>3, <2>2, <2>3 DEF IconsFit
  <2> QED  BY <2>1, <2>4, <1>3, OnlyCallGoesOn, CachesFacts
<1>9. iconCalls' \in [IconRequests -> IconCall]
  BY <1>2, <1>3, CachesFacts
<1> QED  BY <1>2, <1>5, <1>7, <1>8, <1>9 DEF CachesInv, CachesTypeOK, IconsListed

LEMMA FailIconKeeps ==
    ASSUME CachesInv, NEW r \in IconRequests, FailWriteCustomIcon(r)
    PROVE  CachesInv'
<1>1. iconCalls' \in [IconRequests -> IconCall]
  BY CachesFacts DEF FailWriteCustomIcon, GoOn, IconCall
<1> QED  BY <1>1 DEF FailWriteCustomIcon, GoOn, CachesInv, CachesTypeOK, IconsListed

LEMMA DeleteKeeps ==
    ASSUME CachesInv, NEW r \in IconRequests, NEW d \in Domains, DeleteCustomIcon(r, d)
    PROVE  CachesInv'
<1> DEFINE call == [op |-> "clear", domain |-> d]
<1>1. /\ custom' = [custom EXCEPT ![d] = NoFiles]
      /\ uploaded' = [uploaded EXCEPT ![d] = Missing]
      /\ WillHandle(r, call)
      /\ UNCHANGED <<cached, order, onDisk>>
  BY DEF DeleteCustomIcon, RemoveExistingCustomIcons
<1>2. call \in IconCall /\ call.op = "clear" /\ call.domain = d
  BY NewIconCalls
<1> HIDE DEF call
<1>3. /\ custom' \in [Domains -> Files]
      /\ \A x \in ToSet(Extensions) : custom'[d][x] = Missing
      /\ \A x \in Domains : x # d => custom'[x] = custom[x]
  BY <1>1, NoFilesFit, CachesFacts
<1>4. /\ uploaded' \in [Domains -> Icons \cup {Missing}] /\ uploaded'[d] = Missing
      /\ \A x \in Domains : x # d => uploaded'[x] = uploaded[x]
  BY <1>1, CachesFacts
<1>5. iconCalm' => IconsInOrder(cached', custom', uploaded', iconCalls')
  <2> SUFFICES ASSUME iconCalm' PROVE IconsInOrder(cached', custom', uploaded', iconCalls')
    OBVIOUS
  <2>1. FilesFit(custom'[d], uploaded'[d])
    BY <1>3, <1>4 DEF FilesFit
  <2>2. \A x \in Domains : FilesFit(custom[x], uploaded[x]) /\ Serves(cached[x], uploaded[x])
    BY <1>1, IconsWhenIdle
  <2>3. IconsFit(cached, custom', uploaded', call)
    BY <1>2, <1>3, <1>4, <2>1, <2>2 DEF IconsFit
  <2>4. IconsInOrder(cached, custom', uploaded', [iconCalls EXCEPT ![r] = call])
    BY <1>1, <2>3, IconsWhenIdle, OnlyCallGoesOn, CachesFacts
  <2>5. iconCalls' = [iconCalls EXCEPT ![r] = call]
    BY <1>1 DEF WillHandle
  <2> QED  BY <2>4, <2>5, <1>1
<1>6. /\ iconCalls' \in [IconRequests -> IconCall] /\ iconCalm' \in BOOLEAN
      /\ UNCHANGED <<ranges, fetching>>
  BY <1>1, <1>2, CachesFacts DEF WillHandle
<1> QED  BY <1>1, <1>3, <1>4, <1>5, <1>6 DEF CachesInv, CachesTypeOK, IconsListed

LEMMA InvalidateKeeps ==
    ASSUME CachesInv, NEW r \in IconRequests, InvalidateCache(r)
    PROVE  CachesInv'
<1> DEFINE d == iconCalls[r].domain
           D == Domains
<1>1. iconCalls[r].op = "clear" /\ d \in Domains /\ iconCalls[r] # IconIdle
  BY CachesFacts, IconCallKinds DEF InvalidateCache
<1>2. /\ cached' = [cached EXCEPT ![d] = NotCached]
      /\ order' = RemoveFirst(order, d)
      /\ iconCalls' = [iconCalls EXCEPT ![r] = IconIdle]
      /\ UNCHANGED <<custom, onDisk, uploaded, iconCalm, ranges, fetching>>
  BY DEF InvalidateCache, GoOn
<1>3. /\ cached' \in [Domains -> CachedIcon] /\ cached'[d] = NotCached
      /\ \A x \in Domains : x # d => cached'[x] = cached[x]
  <2>1. NotCached \in CachedIcon
    BY DEF CachedIcon
  <2> QED  BY <1>1, <1>2, <2>1, CachesFacts
<1>4. order \in Seq(D)
  BY CachesFacts
<1>5. order' \in Seq(D) /\ IconsListed(cached', order')
  <2> HIDE DEF d, D
  <2>1. order' \in Seq(D) /\ ToSet(order) \ {d} \subseteq ToSet(order')
    BY <1>2, <1>4, RemoveFirstIs
  <2>2. \A x \in Domains : cached'[x] # NotCached => x # d /\ x \in ToSet(order)
    BY <1>3 DEF CachesInv, IconsListed
  <2> QED  BY <2>1, <2>2 DEF IconsListed
<1>6. iconCalm => IconsInOrder(cached', custom, uploaded, [iconCalls EXCEPT ![r] = IconIdle])
  <2> SUFFICES ASSUME iconCalm
               PROVE  IconsInOrder(cached', custom, uploaded, [iconCalls EXCEPT ![r] = IconIdle])
    OBVIOUS
  <2>1. /\ IconsFit(cached, custom, uploaded, iconCalls[r])
        /\ \A q \in IconRequests : iconCalls[q] # IconIdle => q = r
    BY <1>1, IconsWhenBusy
  <2>2. Serves(NotCached, uploaded[d])
    BY DEF Serves, NotCached
  <2>3. \A x \in Domains : Serves(cached'[x], uploaded[x]) /\ FilesFit(custom[x], uploaded[x])
    BY <1>1, <1>3, <2>1, <2>2 DEF IconsFit
  <2>4. IconsFit(cached', custom, uploaded, IconIdle)
    BY <2>3 DEF IconsFit, IconIdle
  <2> QED  BY <2>1, <2>4, OnlyCallGoesOn, CachesFacts
<1>7. iconCalls' \in [IconRequests -> IconCall]
  BY <1>2, CachesFacts DEF IconCall
<1> QED  BY <1>2, <1>3, <1>5, <1>6, <1>7 DEF CachesInv, CachesTypeOK, CachedIcon

LEMMA ExpiresKeeps ==
    ASSUME CachesInv, NEW d \in Domains, IconExpires(d)
    PROVE  CachesInv'
<1>1. /\ cached[d].fresh /\ cached' = [cached EXCEPT ![d].fresh = FALSE]
      /\ UNCHANGED <<order, custom, onDisk, iconCalls, uploaded, iconCalm, ranges, fetching>>
  BY DEF IconExpires
<1> DEFINE E == [icon: Icons \cup {Upstream, Missing}, fresh: BOOLEAN]
           old == [cached[d] EXCEPT !.fresh = FALSE]
<1>2. cached[d] # NotCached /\ cached[d] \in CachedIcon /\ cached \in [Domains -> CachedIcon]
  BY <1>1, CachesFacts DEF NotCached
<1>3. cached[d] \in E
  BY <1>2 DEF CachedIcon
<1>4. old \in E /\ old.fresh = FALSE
  BY <1>3
<1>5. cached' = [cached EXCEPT ![d] = old] /\ old \in CachedIcon
  BY <1>1, <1>4 DEF CachedIcon
<1> HIDE DEF old, E
<1>6. /\ cached' \in [Domains -> CachedIcon] /\ cached'[d] = old
      /\ \A x \in Domains : x # d => cached'[x] = cached[x]
  BY <1>2, <1>5
<1>7. IconsListed(cached', order)
  BY <1>2, <1>6 DEF CachesInv, IconsListed
<1>8. \A wanted : \A x \in Domains : Serves(cached[x], wanted) => Serves(cached'[x], wanted)
  BY <1>4, <1>6 DEF Serves
<1>9. \A call : IconsFit(cached, custom, uploaded, call) => IconsFit(cached', custom, uploaded, call)
  BY <1>8 DEF IconsFit
<1>10. iconCalm => IconsInOrder(cached', custom, uploaded, iconCalls)
  BY <1>9 DEF CachesInv, IconsInOrder
<1> QED  BY <1>1, <1>6, <1>7, <1>10 DEF CachesInv, CachesTypeOK, CachedIcon

LEMMA RangesKeep ==
    ASSUME CachesInv, NEW p \in HashPrefixes, RangeStep(p)
    PROVE  CachesInv'
<1> DEFINE P == HashPrefixes
<1>1. UNCHANGED iconVars /\ fetching' \subseteq HashPrefixes
  BY CachesFacts DEF RangeStep, FetchRange, StoreRange, FetchRangeFails
<1>2. ranges \in Seq(P) /\ Len(ranges) \in Nat /\ Len(ranges) <= MaxRanges
      /\ MaxRanges \in Nat \ {0} /\ p \in P
  BY CachesFacts, CachesAssumption DEF CachesInv
<1> HIDE DEF P
<1>3. ranges' \in Seq(P) /\ Len(ranges') <= MaxRanges
  <2>1. CASE ranges' = ranges
    BY <2>1, <1>2
  <2>2. CASE StoreRange(p)
    <3> DEFINE kept == IF Len(ranges) >= MaxRanges THEN Tail(ranges) ELSE ranges
    <3>1. ranges' = Append(RemoveFirst(kept, p), p)
      BY <2>2 DEF StoreRange
    <3>2. kept \in Seq(P) /\ Len(kept) < MaxRanges
      <4>1. CASE Len(ranges) >= MaxRanges
        <5>1. ranges # <<>>
          BY <1>2, <4>1
        <5>2. Tail(ranges) \in Seq(P) /\ Len(Tail(ranges)) = Len(ranges) - 1
          BY <1>2, <5>1, TailIs
        <5> QED  BY <4>1, <5>2, <1>2
      <4>2. CASE ~ (Len(ranges) >= MaxRanges)
        BY <4>2, <1>2
      <4> QED  BY <4>1, <4>2
    <3> HIDE DEF kept
    <3>3. RemoveFirst(kept, p) \in Seq(P) /\ Len(RemoveFirst(kept, p)) <= Len(kept)
      BY <3>2, RemoveFirstIs
    <3>4. ranges' \in Seq(P) /\ Len(ranges') = Len(RemoveFirst(kept, p)) + 1
      BY <1>2, <3>1, <3>3, AppendIs
    <3>5. Len(kept) \in Nat /\ Len(RemoveFirst(kept, p)) \in Nat
      BY <3>2, <3>3
    <3> QED  BY <1>2, <3>2, <3>3, <3>4, <3>5
  <2> QED  BY <2>1, <2>2 DEF RangeStep, FetchRange, FetchRangeFails
<1> QED  BY <1>1, <1>3 DEF CachesInv, CachesTypeOK, iconVars, P

LEMMA CachesStep == CachesInv /\ [CachesNext]_cacheVars => CachesInv'
<1> SUFFICES ASSUME CachesInv, [CachesNext]_cacheVars PROVE CachesInv'
  OBVIOUS
<1>1. CASE UNCHANGED cacheVars
  BY <1>1 DEF cacheVars, CachesInv, CachesTypeOK
<1>2. ASSUME NEW r \in IconRequests, IconStep(r) PROVE CachesInv'
  BY <1>2, GetIconKeeps, DeleteKeeps, UploadKeeps, FetchIconKeeps, CacheIconKeeps,
     WriteKeeps, FailIconKeeps, InvalidateKeeps DEF IconStep
<1>3. ASSUME NEW d \in Domains, DiskIconAges(d) PROVE CachesInv'
  <2>1. onDisk' \in [Domains -> {"no", "fresh", "old"}]
    BY <1>3, CachesFacts DEF DiskIconAges
  <2> QED  BY <1>3, <2>1 DEF DiskIconAges, CachesInv, CachesTypeOK
<1> QED  BY <1>1, <1>2, <1>3, ExpiresKeeps, RangesKeep DEF CachesNext

LEMMA CachesServe == CachesInv => CachesTypeOK /\ CachesHold
<1> SUFFICES ASSUME CachesInv PROVE CachesHold
  BY DEF CachesInv
<1>1. ASSUME iconCalm, \A r \in IconRequests : iconCalls[r].op \notin {"write", "clear"},
             NEW d \in Domains
      PROVE  Serves(cached[d], uploaded[d])
  <2>1. CASE \A r \in IconRequests : iconCalls[r] = IconIdle
    BY <1>1, <2>1 DEF CachesInv, IconsInOrder, IconsFit, IconIdle
  <2>2. ASSUME NEW r \in IconRequests, iconCalls[r] # IconIdle
        PROVE  Serves(cached[d], uploaded[d])
    BY <1>1, <2>2 DEF CachesInv, IconsInOrder, IconsFit
  <2> QED  BY <2>1, <2>2
<1> QED  BY <1>1 DEF CachesHold, CachesInv, IconsListed, Serves, IconFits

(* What the caches in memory hold: while requests come one by one the icon *)
(* served is the custom icon last uploaded, or none of them when there is  *)
(* none; every icon in memory can be evicted, however requests overlap;    *)
(* and the ranges of passwords keep to their limit (icons.go:97,           *)
(* hibp/passwords.go:148).                                                 *)
THEOREM CachesAreRight == CachesSpec => [](CachesTypeOK /\ CachesHold)
<1> QED BY CachesInitInv, CachesStep, CachesServe, PTL DEF CachesSpec

-----------------------------------------------------------------------------
(* Mail jobs. *)

(* A list that names nobody twice. *)
Distinct(s) == \A i, j \in DOMAIN s : s[i] = s[j] => i = j

DistinctLists == {s \in Seq(MailUsers) : Distinct(s)}

AddOne(list, u) == IF u \in Unmailable \cup ToSet(list) THEN list ELSE Append(list, u)

LEMMA AppendDistinct ==
    ASSUME NEW S, NEW s \in Seq(S), NEW u \in S, u \notin ToSet(s), Distinct(s)
    PROVE  Distinct(Append(s, u))
<1>1. /\ DOMAIN s = 1..Len(s) /\ DOMAIN Append(s, u) = 1..(Len(s) + 1) /\ Len(s) \in Nat
      /\ Append(s, u)[Len(s) + 1] = u /\ \A i \in 1..Len(s) : Append(s, u)[i] = s[i]
  OBVIOUS
<1>2. \A i \in 1..Len(s) : s[i] # u
  BY <1>1 DEF ToSet
<1>3. \A i \in 1..(Len(s) + 1) : i \in 1..Len(s) \/ i = Len(s) + 1
  BY <1>1
<1>4. ASSUME NEW i \in 1..(Len(s) + 1), NEW j \in 1..(Len(s) + 1),
             Append(s, u)[i] = Append(s, u)[j]
      PROVE  i = j
  BY <1>1, <1>2, <1>3, <1>4 DEF Distinct
<1> QED  BY <1>1, <1>4 DEF Distinct

LEMMA AddOneKeeps ==
    ASSUME NEW list \in DistinctLists, NEW u \in MailUsers
    PROVE  AddOne(list, u) \in DistinctLists
<1> DEFINE U == MailUsers
<1>1. CASE u \in Unmailable \cup ToSet(list)
  BY <1>1 DEF AddOne
<1>2. CASE u \notin Unmailable \cup ToSet(list)
  <2>1. list \in Seq(U) /\ u \in U /\ Distinct(list) /\ u \notin ToSet(list)
    BY <1>2 DEF DistinctLists
  <2> HIDE DEF U
  <2>2. Append(list, u) \in Seq(U) /\ Distinct(Append(list, u))
    BY <2>1, AppendIs, AppendDistinct
  <2>3. AddOne(list, u) = Append(list, u)
    BY <1>2 DEF AddOne
  <2> QED  BY <2>2, <2>3 DEF DistinctLists, U
<1> QED  BY <1>1, <1>2

(* What the fold over the addresses is a value of, on the first n of them. *)
Collecting(given, n, f) ==
    f = [t \in SUBSET (1..n) |->
           IF t = {} THEN <<>> ELSE AddOne(f[t \ {Max(t)}], given[Max(t)])]

LEMMA NormalizeIsFold ==
    ASSUME NEW given, NEW n \in Nat, DOMAIN given = 1..n
    PROVE  NormalizeEmails(given) = (CHOOSE f : Collecting(given, n, f))[1..n]
<1> DEFINE Add(list, u) == IF u \in Unmailable \cup ToSet(list) THEN list ELSE Append(list, u)
<1>1. NormalizeEmails(given) = FoldLeft(Add, <<>>, given)
  BY DEF NormalizeEmails
<1>2. FoldLeft(Add, <<>>, given) =
        (CHOOSE f : f = [t \in SUBSET DOMAIN given |->
            IF t = {} THEN <<>> ELSE Add(f[t \ {Max(t)}], given[Max(t)])])[DOMAIN given]
  BY DEF FoldLeft, MapThenFoldSet
<1>3. \A list, u : Add(list, u) = AddOne(list, u)
  BY DEF AddOne
<1> HIDE DEF Add
<1>4. (CHOOSE f : f = [t \in SUBSET DOMAIN given |->
            IF t = {} THEN <<>> ELSE Add(f[t \ {Max(t)}], given[Max(t)])])
      = (CHOOSE f : Collecting(given, n, f))
  BY <1>3 DEF Collecting
<1> QED  BY <1>1, <1>2, <1>4

(* There is such a value, however long the list. *)
LEMMA CollectingExists ==
    ASSUME NEW given, NEW n \in Nat
    PROVE  \E f : Collecting(given, n, f)
<1> DEFINE wrong == {k \in Nat : ~ \E f : Collecting(given, k, f)}
<1> SUFFICES ASSUME wrong # {} PROVE FALSE
  OBVIOUS
<1>1. PICK x \in wrong : \A y \in wrong : ~ (<<y, x>> \in OpToRel(<, Nat))
  BY NatLessThanWellFounded, WFMin, Zenon
<1>2. x \in Nat /\ \A y \in wrong : ~ (y < x)
  BY <1>1 DEF OpToRel
<1>3. CASE x = 0
  <2> DEFINE g == [t \in SUBSET (1..0) |-> <<>>]
  <2>1. \A t \in SUBSET (1..0) : t = {}
    OBVIOUS
  <2>2. g = [t \in SUBSET (1..0) |->
               IF t = {} THEN <<>> ELSE AddOne(g[t \ {Max(t)}], given[Max(t)])]
    BY <2>1
  <2>3. \E f : Collecting(given, x, f)
    BY <2>2, <1>3 DEF Collecting
  <2> QED  BY <2>3, <1>1
<1>4. CASE x # 0
  <2>1. x - 1 \in Nat /\ x - 1 < x
    BY <1>2, <1>4
  <2>2. PICK f : Collecting(given, x - 1, f)
    BY <1>2, <2>1
  <2>3. \A t \in SUBSET (1..(x - 1)) :
           f[t] = IF t = {} THEN <<>> ELSE AddOne(f[t \ {Max(t)}], given[Max(t)])
    BY <2>2 DEF Collecting
  <2> DEFINE g == [t \in SUBSET (1..x) |->
                     IF x \in t THEN AddOne(f[t \ {x}], given[x]) ELSE f[t]]
  <2>4. ASSUME NEW t \in SUBSET (1..x)
        PROVE  g[t] = IF t = {} THEN <<>> ELSE AddOne(g[t \ {Max(t)}], given[Max(t)])
    <3>1. CASE x \in t
      <4>1. Max(t) \in t /\ \A j \in t : j <= Max(t)
        BY <1>2, <3>1, MaxIsLast
      <4>2. Max(t) = x
        <5>1. Max(t) \in 1..x /\ x <= Max(t)
          BY <4>1, <3>1
        <5> QED  BY <5>1, <1>2
      <4>3. t \ {x} \in SUBSET (1..x) /\ x \notin t \ {x}
        OBVIOUS
      <4> QED  BY <3>1, <4>2, <4>3
    <3>2. CASE x \notin t /\ t # {}
      <4>1. t \in SUBSET (1..(x - 1))
        <5>1. \A i \in 1..x : i # x => i \in 1..(x - 1)
          BY <1>2
        <5> QED  BY <5>1, <3>2
      <4>2. t \ {Max(t)} \in SUBSET (1..x) /\ x \notin t \ {Max(t)}
        BY <3>2
      <4> QED  BY <3>2, <4>1, <4>2, <2>3
    <3>3. CASE t = {}
      <4>1. {} \in SUBSET (1..(x - 1))
        OBVIOUS
      <4> QED  BY <3>3, <4>1, <2>3
    <3> QED  BY <3>1, <3>2, <3>3
  <2>5. g = [t \in SUBSET (1..x) |-> g[t]]
    OBVIOUS
  <2> HIDE DEF g
  <2>6. Collecting(given, x, g)
    BY <2>4, <2>5 DEF Collecting
  <2> QED  BY <2>6, <1>1
<1> QED  BY <1>3, <1>4

(* Normalizing leaves each user once. *)
LEMMA NormalizedIsDistinct ==
    ASSUME NEW given \in Seq(MailUsers)
    PROVE  NormalizeEmails(given) \in DistinctLists
<1> DEFINE n == Len(given)
           U == MailUsers
           f == CHOOSE f : Collecting(given, n, f)
           wrong == {k \in Nat : \E t \in SUBSET (1..n) :
                                    t \subseteq 1..k /\ f[t] \notin DistinctLists}
<1>1. n \in Nat /\ DOMAIN given = 1..n /\ \A i \in 1..n : given[i] \in U
  <2> HIDE DEF U
  <2>1. given \in Seq(U)
    BY DEF U
  <2> QED  BY <2>1
<1> HIDE DEF n
<1>2. Collecting(given, n, f)
  BY <1>1, CollectingExists
<1> HIDE DEF f
<1>3. \A t \in SUBSET (1..n) :
         f[t] = IF t = {} THEN <<>> ELSE AddOne(f[t \ {Max(t)}], given[Max(t)])
  BY <1>2 DEF Collecting
<1>4. <<>> \in DistinctLists
  BY DEF DistinctLists, Distinct
<1>5. wrong = {}
  <2> SUFFICES ASSUME wrong # {} PROVE FALSE
    OBVIOUS
  <2>1. PICK x \in wrong : \A y \in wrong : ~ (<<y, x>> \in OpToRel(<, Nat))
    BY NatLessThanWellFounded, WFMin, Zenon
  <2>2. x \in Nat /\ \A y \in wrong : ~ (y < x)
    BY <2>1 DEF OpToRel
  <2>3. PICK t \in SUBSET (1..n) : t \subseteq 1..x /\ f[t] \notin DistinctLists
    BY <2>1
  <2>4. t # {}
    BY <2>3, <1>3, <1>4
  <2>5. Max(t) \in t /\ \A j \in t : j <= Max(t)
    BY <1>1, <2>4, MaxIsLast
  <2>6. t \ {Max(t)} \subseteq 1..(x - 1) /\ x - 1 \in Nat /\ x - 1 < x
    <3>1. Max(t) \in 1..x
      BY <2>3, <2>5
    <3>2. ASSUME NEW j \in t \ {Max(t)} PROVE j \in 1..(x - 1)
      <4>1. j \in 1..x /\ j <= Max(t) /\ j # Max(t)
        BY <2>3, <2>5
      <4> QED  BY <4>1, <3>1, <2>2
    <3>3. t \ {Max(t)} \subseteq 1..(x - 1)
      BY <3>2
    <3>4. x - 1 \in Nat /\ x - 1 < x
      BY <3>1, <2>2
    <3> QED  BY <3>3, <3>4
  <2>7. t \ {Max(t)} \in SUBSET (1..n)
    OBVIOUS
  <2>8. f[t \ {Max(t)}] \in DistinctLists
    BY <2>2, <2>6, <2>7
  <2>9. given[Max(t)] \in MailUsers
    BY <1>1, <2>5
  <2>10. AddOne(f[t \ {Max(t)}], given[Max(t)]) \in DistinctLists
    BY <2>8, <2>9, AddOneKeeps
  <2> QED  BY <1>3, <2>3, <2>4, <2>10
<1>6. f[1..n] \in DistinctLists
  BY <1>1, <1>5
<1>7. NormalizeEmails(given) = f[1..n]
  BY <1>1, NormalizeIsFold DEF f
<1> QED  BY <1>6, <1>7

LEMMA MailUsersFinite == IsFiniteSet(MailUsers)
<1>1. 1 \in Int /\ LastUser \in Int
  BY MailAssumption
<1>2. IsFiniteSet(1..LastUser)
  BY <1>1, FS_Interval
<1> QED  BY <1>2 DEF MailUsers

PlaceIn(among, u) == Cardinality({v \in among : v <= u})

LEMMA PlaceIs ==
    ASSUME NEW among \in SUBSET MailUsers, NEW u \in MailUsers
    PROVE  /\ IsFiniteSet(among) /\ PlaceIn(among, u) \in Nat
           /\ u \in among => PlaceIn(among, u) >= 1
           /\ \A more \in SUBSET MailUsers :
                 among \subseteq more => PlaceIn(among, u) <= PlaceIn(more, u)
<1>1. ASSUME NEW set \in SUBSET MailUsers PROVE IsFiniteSet(set) /\ Cardinality(set) \in Nat
  <2>1. IsFiniteSet(MailUsers)
    BY MailUsersFinite
  <2>2. IsFiniteSet(set)
    BY <2>1, FS_Subset
  <2> QED  BY <2>2, FS_CardinalityType
<1> DEFINE behind(set) == {v \in set : v <= u}
<1>2. behind(among) \in SUBSET MailUsers
  OBVIOUS
<1>3. u \in among => PlaceIn(among, u) >= 1
  <2> SUFFICES ASSUME u \in among PROVE Cardinality(behind(among)) >= 1
    BY DEF PlaceIn
  <2>1. u \in behind(among)
    BY MailAssumption DEF MailUsers
  <2>2. {u} \in SUBSET behind(among)
    BY <2>1
  <2>3. Cardinality({u}) = 1 /\ Cardinality({u}) <= Cardinality(behind(among))
    BY <1>1, <1>2, <2>2, FS_Subset, FS_Singleton
  <2> HIDE DEF behind
  <2>4. Cardinality(behind(among)) \in Nat
    BY <1>1, <1>2
  <2> QED  BY <2>3, <2>4
<1>4. ASSUME NEW more \in SUBSET MailUsers, among \subseteq more
      PROVE  PlaceIn(among, u) <= PlaceIn(more, u)
  <2>1. behind(among) \in SUBSET behind(more) /\ behind(more) \in SUBSET MailUsers
    BY <1>4
  <2>2. Cardinality(behind(among)) <= Cardinality(behind(more))
    BY <1>1, <2>1, FS_Subset
  <2> QED  BY <2>2 DEF PlaceIn
<1> QED  BY <1>1, <1>2, <1>3, <1>4 DEF PlaceIn

(* Whoever is behind the offset has somebody right behind it before him:   *)
(* a page is empty only when nobody is left.                               *)
LEMMA PagesAreFilled ==
    ASSUME NEW among \in SUBSET MailUsers, NEW offset \in Nat,
           NEW u \in among, PlaceIn(among, u) > offset
    PROVE  \E v \in among : PlaceIn(among, v) = offset + 1
<1> DEFINE left == {v \in among : PlaceIn(among, v) > offset}
           first == Min(left)
           before == {v \in among : v < first}
<1>0. \A v \in among : v \in Nat
  BY MailAssumption DEF MailUsers
<1>1. among \in SUBSET Nat /\ left # {} /\ left \in SUBSET Nat
  BY <1>0
<1>2. first \in left /\ \A v \in left : first <= v
  BY <1>1, MinIsFirst
<1> HIDE DEF first
<1>3. first \in among /\ first \in MailUsers /\ first \in Nat /\ PlaceIn(among, first) > offset
  BY <1>1, <1>2
<1>4. {v \in among : v <= first} = before \cup {first} /\ first \notin before
  <2>1. \A v \in among : v <= first <=> v < first \/ v = first
    BY <1>0, <1>3
  <2>2. ~ (first < first) /\ first <= first
    BY <1>3
  <2> QED  BY <2>1, <2>2, <1>3
<1>5. IsFiniteSet(before)
  <2>1. before \in SUBSET MailUsers
    OBVIOUS
  <2>2. IsFiniteSet(MailUsers)
    BY MailUsersFinite
  <2> QED  BY <2>1, <2>2, FS_Subset
<1>6. PlaceIn(among, first) = Cardinality(before) + 1 /\ Cardinality(before) \in Nat
  BY <1>4, <1>5, FS_AddElement, FS_CardinalityType DEF PlaceIn
<1>7. Cardinality(before) <= offset
  <2>1. CASE before = {}
    BY <2>1, FS_EmptySet
  <2>2. CASE before # {}
    <3>1. before \in SUBSET (1..LastUser) /\ LastUser \in Nat
      BY MailAssumption DEF MailUsers
    <3>2. PICK w \in before : \A v \in before : v <= w
      BY <2>2, <3>1, MaxIsLast
    <3>3. w \in among /\ w < first /\ w \in Nat
      BY <3>2, <1>1
    <3>4. w \notin left
      BY <1>2, <1>3, <3>3
    <3>5. before = {v \in among : v <= w}
      <4>1. ASSUME NEW v \in among, v <= w PROVE v < first
        BY <1>0, <1>3, <3>3, <4>1
      <4> QED  BY <3>2, <4>1
    <3>6. PlaceIn(among, w) = Cardinality(before)
      BY <3>5 DEF PlaceIn
    <3>7. ~ (PlaceIn(among, w) > offset)
      BY <3>3, <3>4
    <3> QED  BY <3>6, <3>7, <1>6
  <2> QED  BY <2>1, <2>2
<1>8. PlaceIn(among, first) = offset + 1
  BY <1>3, <1>6, <1>7
<1> QED  BY <1>3, <1>8

ReachedBy(count) == {u \in MailUsers : count[u] > 0}

JobShape(job) ==
    /\ job.step \in {"start", "list", "end", "over"} => job.page = {}
    /\ job.step = "collect" => job.page # {}
    /\ job.step \in {"end", "over"} => ~job.listing
    /\ job.step = "start" => job.state = "queued"
    /\ job.state = "finished" => job.step = "over"

(* Nobody is queued twice, nor again after he was tried.                   *)
JobCounts(job) ==
    /\ job.total = job.sent + Len(job.failures) + Len(job.queue)
    /\ Distinct(job.queue)
    /\ ToSet(job.queue) \cup ToSet(job.failures) \subseteq job.seen
    /\ ToSet(job.queue) \cap ToSet(job.failures) = {}

JobDelivers(job, count) ==
    /\ \A u \in MailUsers : count[u] <= 1
    /\ Cardinality(ReachedBy(count)) = job.sent
    /\ ReachedBy(count) \subseteq job.seen
    /\ ReachedBy(count) \cap (ToSet(job.queue) \cup ToSet(job.failures)) = {}

(* Who is still to be looked at is on the page or behind the offset.       *)
JobCovers(job, among, all) ==
    job.all /\ job.state # "failed" =>
        /\ all \subseteq among
        /\ \A u \in all \ Unmailable :
              \/ u \in job.seen \cup job.page
              \/ job.listing /\ PlaceIn(among, u) > job.offset

MailInv ==
    /\ MailTypeOK
    /\ mailJob # NoMailJob =>
          /\ JobShape(mailJob) /\ JobCounts(mailJob)
          /\ faithful => JobDelivers(mailJob, mailed)
          /\ ~shrunk => JobCovers(mailJob, matching, audience)

LEMMA MailFacts ==
    ASSUME MailInv
    PROVE  /\ matching \in SUBSET MailUsers /\ audience \in SUBSET MailUsers
           /\ mailed \in [MailUsers -> Nat] /\ faithful \in BOOLEAN /\ shrunk \in BOOLEAN
           /\ moves \in 0..MaxMoves
           /\ mailJob # NoMailJob =>
                 /\ mailJob \in MailJob
                 /\ JobShape(mailJob) /\ JobCounts(mailJob)
                 /\ faithful => JobDelivers(mailJob, mailed)
                 /\ ~shrunk => JobCovers(mailJob, matching, audience)
BY DEF MailInv, MailTypeOK

LEMMA JobFields ==
    ASSUME NEW job \in MailJob
    PROVE  /\ job.state \in {"queued", "running", "finished", "failed"}
           /\ job.total \in Nat /\ job.sent \in Nat /\ job.failures \in Seq(MailUsers)
           /\ job.step \in {"start", "list", "collect", "send", "end", "over"}
           /\ job.all \in BOOLEAN /\ job.listing \in BOOLEAN /\ job.offset \in Nat
           /\ job.page \in SUBSET MailUsers /\ job.seen \in SUBSET MailUsers
           /\ job.queue \in Seq(MailUsers) /\ job.attempt \in 1..MaxTries
BY DEF MailJob

LEMMA MailInitInv == MailInit => MailInv
<1> SUFFICES ASSUME MailInit PROVE MailInv
  OBVIOUS
<1>1. moves \in 0..MaxMoves
  BY MailAssumption DEF MailInit
<1> QED  BY <1>1 DEF MailInit, MailInv, MailTypeOK

LEMMA PlaceInMatching == \A u : Place(u) = PlaceIn(matching, u)
BY DEF Place, PlaceIn

LEMMA CreateJobKeeps ==
    ASSUME MailInv, NEW all \in BOOLEAN, NEW recipients \in DistinctLists,
           CreateMailJob(all, recipients)
    PROVE  MailInv'
<1> DEFINE job == NewMailJob(all, recipients)
           U == MailUsers
<1>1. /\ mailJob' = job /\ mailed' = [u \in MailUsers |-> 0] /\ audience' = matching
      /\ UNCHANGED <<matching, moves>> /\ faithful' = TRUE /\ shrunk' = FALSE
  BY DEF CreateMailJob
<1>2. recipients \in Seq(U) /\ Distinct(recipients)
  BY DEF DistinctLists
<1> HIDE DEF U
<1>3. Len(recipients) \in Nat /\ ToSet(recipients) \in SUBSET U /\ <<>> \in Seq(U)
      /\ Len(<<>>) = 0
  BY <1>2 DEF ToSet
<1>4. /\ job.state = "queued" /\ job.total = Len(recipients) /\ job.sent = 0
      /\ job.failures = <<>> /\ job.step = "start" /\ job.all = all /\ job.listing = all
      /\ job.offset = 0 /\ job.page = {} /\ job.seen = ToSet(recipients)
      /\ job.queue = recipients
  BY DEF NewMailJob
<1>5. job \in MailJob
  BY <1>2, <1>3, MailAssumption DEF NewMailJob, MailJob, U
<1> HIDE DEF job
<1>6. ToSet(<<>>) = {}
  BY DEF ToSet
<1>7. JobShape(job)
  BY <1>4 DEF JobShape
<1>8. JobCounts(job)
  BY <1>2, <1>3, <1>4, <1>6 DEF JobCounts
<1>9. JobDelivers(job, mailed')
  <2>1. ReachedBy(mailed') = {} /\ \A u \in MailUsers : mailed'[u] <= 1
    BY <1>1 DEF ReachedBy
  <2> QED  BY <2>1, <1>4, FS_EmptySet DEF JobDelivers
<1>10. JobCovers(job, matching, matching)
  <2>1. ASSUME NEW u \in matching PROVE PlaceIn(matching, u) > 0
    <3>1. PlaceIn(matching, u) \in Nat /\ PlaceIn(matching, u) >= 1
      BY PlaceIs, MailFacts
    <3> QED  BY <3>1
  <2> QED  BY <2>1, <1>4 DEF JobCovers
<1>11. mailed' \in [MailUsers -> Nat]
  BY <1>1
<1> QED  BY <1>1, <1>5, <1>7, <1>8, <1>9, <1>10, <1>11, MailFacts DEF MailInv, MailTypeOK

(* A step of the goroutine that only moves the job on.                     *)
LEMMA OnlyJobMoves ==
    ASSUME MailInv, MailUnchanged, mailJob' \in MailJob, JobShape(mailJob'), JobCounts(mailJob'),
           faithful => JobDelivers(mailJob', mailed),
           ~shrunk => JobCovers(mailJob', matching, audience)
    PROVE  MailInv'
BY MailFacts DEF MailInv, MailTypeOK, MailUnchanged

(* What a step leaves alone keeps what depends on it.                      *)
LEMMA SameQueue ==
    ASSUME NEW job, NEW next, JobCounts(job), next.total = job.total, next.sent = job.sent,
           next.failures = job.failures, next.queue = job.queue, next.seen = job.seen
    PROVE  JobCounts(next) /\ \A count : JobDelivers(job, count) => JobDelivers(next, count)
BY DEF JobCounts, JobDelivers

LEMMA StartKeeps ==
    ASSUME MailInv, StartMailJob
    PROVE  MailInv'
<1> DEFINE job == mailJob
           step == IF job.all THEN "list" ELSE "send"
           next == [[job EXCEPT !.state = "running"] EXCEPT !.step = step]
<1>1. /\ mailJob' = next /\ MailUnchanged /\ job.step = "start" /\ job # NoMailJob
  BY DEF StartMailJob, Continue
<1>2. job \in MailJob
  BY <1>1, MailFacts
<1>3. /\ next \in MailJob /\ next.state = "running" /\ next.step = step
      /\ next.total = job.total /\ next.sent = job.sent /\ next.failures = job.failures
      /\ next.queue = job.queue /\ next.seen = job.seen /\ next.page = job.page
      /\ next.all = job.all /\ next.listing = job.listing /\ next.offset = job.offset
  BY <1>2 DEF MailJob
<1> HIDE DEF next
<1>4. JobShape(next)
  BY <1>1, <1>3, MailFacts DEF JobShape
<1>5. JobCounts(next) /\ \A count : JobDelivers(job, count) => JobDelivers(next, count)
  BY <1>1, <1>3, MailFacts, SameQueue
<1>6. \A all : JobCovers(job, matching, all) => JobCovers(next, matching, all)
  BY <1>1, <1>3, MailFacts DEF JobCovers, JobShape
<1> QED  BY <1>1, <1>3, <1>4, <1>5, <1>6, OnlyJobMoves, MailFacts

LEMMA ListKeeps ==
    ASSUME MailInv, ListUsers
    PROVE  MailInv'
<1> DEFINE job == mailJob
<1>1. MailUnchanged /\ job.step = "list" /\ job # NoMailJob
  BY DEF ListUsers
<1>2. job \in MailJob
  BY <1>1, MailFacts
<1>3. job.page = {} /\ JobShape(job) /\ JobCounts(job)
  BY <1>1, MailFacts DEF JobShape
<1>4. ASSUME mailJob' = [[job EXCEPT !.state = "failed", !.listing = FALSE] EXCEPT !.step = "send"]
      PROVE  MailInv'
  <2> DEFINE next == [[job EXCEPT !.state = "failed", !.listing = FALSE] EXCEPT !.step = "send"]
  <2>1. /\ next \in MailJob /\ next.state = "failed" /\ next.step = "send"
        /\ next.total = job.total /\ next.sent = job.sent /\ next.failures = job.failures
        /\ next.queue = job.queue /\ next.seen = job.seen
    BY <1>2 DEF MailJob
  <2> HIDE DEF next
  <2>2. JobShape(next) /\ \A all : JobCovers(next, matching, all)
    BY <2>1 DEF JobShape, JobCovers
  <2>3. JobCounts(next) /\ \A count : JobDelivers(job, count) => JobDelivers(next, count)
    BY <1>3, <2>1, SameQueue
  <2>4. mailJob' = next
    BY <1>4 DEF next
  <2> QED  BY <1>1, <2>1, <2>2, <2>3, <2>4, OnlyJobMoves, MailFacts
<1>5. ASSUME LET page == PageAt(job.offset)
             IN  mailJob' = [[job EXCEPT !.page = page, !.offset = @ + PageSize,
                                         !.listing = page # {}]
                             EXCEPT !.step = IF page = {} THEN "send" ELSE "collect"]
      PROVE  MailInv'
  <2> DEFINE page == PageAt(job.offset)
             step == IF page = {} THEN "send" ELSE "collect"
             next == [[job EXCEPT !.page = page, !.offset = @ + PageSize,
                                  !.listing = page # {}] EXCEPT !.step = step]
  <2>1. page \in SUBSET MailUsers /\ PageSize \in Nat \ {0} /\ job.offset \in Nat
    BY <1>1, <1>2, MailFacts, MailAssumption, JobFields DEF PageAt
  <2>2. mailJob' = next
    BY <1>5
  <2>3. /\ step \in {"send", "collect"} /\ (step = "collect" <=> page # {})
        /\ (page # {}) \in BOOLEAN /\ job.offset + PageSize \in Nat
    BY <2>1
  <2>4. \A u \in matching : u \in page <=> PlaceIn(matching, u) \in job.offset + 1 .. job.offset + PageSize
    BY PlaceInMatching DEF PageAt
  <2> HIDE DEF page, step
  <2>5. /\ next \in MailJob /\ next.step = step
        /\ next.state = job.state /\ next.all = job.all
        /\ next.total = job.total /\ next.sent = job.sent /\ next.failures = job.failures
        /\ next.queue = job.queue /\ next.seen = job.seen /\ next.page = page
        /\ next.offset = job.offset + PageSize /\ next.listing = (page # {})
    BY <1>2, <2>1, <2>3 DEF MailJob
  <2> HIDE DEF next
  <2>6. JobShape(next)
    BY <1>1, <1>3, <2>3, <2>5 DEF JobShape
  <2>7. JobCounts(next) /\ \A count : JobDelivers(job, count) => JobDelivers(next, count)
    BY <1>3, <2>5, SameQueue
  <2>8. ASSUME JobCovers(job, matching, audience)
        PROVE  JobCovers(next, matching, audience)
    <3> SUFFICES ASSUME job.all, job.state # "failed", NEW u \in audience \ Unmailable
                 PROVE  /\ audience \subseteq matching
                        /\ \/ u \in next.seen \cup next.page
                           \/ next.listing /\ PlaceIn(matching, u) > next.offset
      BY <2>5, <2>8 DEF JobCovers
    <3>1. audience \subseteq matching /\ u \in matching
      BY <2>8 DEF JobCovers
    <3>2. u \in job.seen \/ PlaceIn(matching, u) > job.offset
      BY <1>3, <2>8 DEF JobCovers
    <3>3. CASE PlaceIn(matching, u) > job.offset
      <4>1. PlaceIn(matching, u) \in Nat
        BY <3>1, PlaceIs, MailFacts
      <4>2. page # {}
        <5>1. PICK v \in matching : PlaceIn(matching, v) = job.offset + 1
          BY <3>1, <3>3, <2>1, PagesAreFilled, MailFacts
        <5>2. job.offset + 1 \in job.offset + 1 .. job.offset + PageSize
          BY <2>1
        <5> QED  BY <5>1, <5>2, <2>4
      <4>3. u \in page \/ PlaceIn(matching, u) > job.offset + PageSize
        <5>1. \/ PlaceIn(matching, u) \in job.offset + 1 .. job.offset + PageSize
              \/ PlaceIn(matching, u) > job.offset + PageSize
          BY <2>1, <3>3, <4>1
        <5> QED  BY <5>1, <2>4, <3>1
      <4> QED  BY <3>1, <4>2, <4>3, <2>5
    <3> QED  BY <3>1, <3>2, <3>3, <2>5
  <2> QED  BY <1>1, <2>2, <2>5, <2>6, <2>7, <2>8, OnlyJobMoves, MailFacts
<1> QED  BY <1>4, <1>5 DEF ListUsers, Continue

LEMMA CollectKeeps ==
    ASSUME MailInv, CollectUser
    PROVE  MailInv'
<1> DEFINE job == mailJob
           U == MailUsers
           u == Min(job.page)
           rest == job.page \ {u}
           new == IF u \in Unmailable \cup job.seen THEN <<>> ELSE <<u>>
           queue == job.queue \o new
           step == IF Len(queue) >= BatchSize THEN "send"
                   ELSE IF rest = {} THEN "list" ELSE "collect"
           next == [[job EXCEPT !.page = rest, !.queue = queue, !.seen = @ \cup ToSet(new),
                                !.total = @ + Len(new)] EXCEPT !.step = step]
<1>1. MailUnchanged /\ job.step = "collect" /\ job # NoMailJob /\ mailJob' = next
  BY DEF CollectUser, Continue
<1>2. job \in MailJob /\ JobShape(job) /\ JobCounts(job)
  BY <1>1, MailFacts
<1>3. u \in job.page /\ u \in U /\ rest \in SUBSET U
  <2>1. job.page # {} /\ job.page \in SUBSET U
    BY <1>1, <1>2, JobFields DEF JobShape
  <2>2. job.page \in SUBSET Nat
    BY <2>1, MailAssumption DEF MailUsers
  <2>3. Min(job.page) \in job.page
    BY <2>1, <2>2, MinIsFirst
  <2> QED  BY <2>1, <2>3
<1>4. /\ job.queue \in Seq(U) /\ Len(job.queue) \in Nat /\ job.total \in Nat /\ job.sent \in Nat
      /\ job.seen \in SUBSET U /\ Len(job.failures) \in Nat
  BY <1>2, JobFields
<1> HIDE DEF u, U
<1>5. /\ new \in Seq(U) /\ Len(new) \in Nat /\ ToSet(new) \in SUBSET U
      /\ queue \in Seq(U) /\ Len(queue) = Len(job.queue) + Len(new)
      /\ ToSet(queue) = ToSet(job.queue) \cup ToSet(new) /\ Distinct(queue)
      /\ ToSet(new) \cap job.seen = {}
      /\ u \notin Unmailable => u \in job.seen \cup ToSet(new)
  <2>1. CASE u \in Unmailable \cup job.seen
    <3>1. new = <<>> /\ <<>> \in Seq(U) /\ Len(<<>>) = 0 /\ ToSet(<<>>) = {}
      BY <2>1 DEF ToSet
    <3>2. queue = job.queue
      <4>1. job.queue \o <<>> = job.queue
        BY <1>4, ConcatEmptySeq
      <4> QED  BY <3>1, <4>1
    <3> HIDE DEF new, queue
    <3> QED  BY <2>1, <3>1, <3>2, <1>2, <1>4 DEF JobCounts
  <2>2. CASE u \notin Unmailable \cup job.seen
    <3>1. new = <<u>> /\ <<u>> \in Seq(U) /\ Len(<<u>>) = 1 /\ ToSet(<<u>>) = {u}
      BY <2>2, <1>3 DEF ToSet
    <3>2. queue = Append(job.queue, u)
      <4>1. job.queue \o <<u>> = Append(job.queue, u)
        BY <1>3, <1>4
      <4> QED  BY <3>1, <4>1
    <3>3. u \notin ToSet(job.queue)
      BY <2>2, <1>2 DEF JobCounts
    <3> HIDE DEF new, queue
    <3>4. /\ Append(job.queue, u) \in Seq(U) /\ Len(Append(job.queue, u)) = Len(job.queue) + 1
          /\ ToSet(Append(job.queue, u)) = ToSet(job.queue) \cup {u}
      BY <1>3, <1>4, AppendIs
    <3>5. Distinct(Append(job.queue, u))
      BY <1>2, <1>3, <1>4, <3>3, AppendDistinct DEF JobCounts
    <3> QED  BY <2>2, <3>1, <3>2, <3>4, <3>5, <1>3
  <2> QED  BY <2>1, <2>2
<1>6. step \in {"send", "list", "collect"} /\ (step = "list" => rest = {}) /\ (step = "collect" => rest # {})
  OBVIOUS
<1> HIDE DEF new, queue, step, rest
<1>7. /\ next \in MailJob /\ next.step = step
      /\ next.state = job.state /\ next.all = job.all
      /\ next.total = job.total + Len(new) /\ next.sent = job.sent /\ next.failures = job.failures
      /\ next.queue = queue /\ next.seen = job.seen \cup ToSet(new) /\ next.page = rest
      /\ next.offset = job.offset /\ next.listing = job.listing
  <2>1. /\ queue \in Seq(MailUsers) /\ ToSet(new) \subseteq MailUsers /\ rest \subseteq MailUsers
        /\ job.total + Len(new) \in Nat
    BY <1>3, <1>4, <1>5 DEF U
  <2> QED  BY <1>2, <1>6, <2>1 DEF MailJob
<1> HIDE DEF next
<1>8. JobShape(next)
  BY <1>1, <1>2, <1>6, <1>7 DEF JobShape
<1>9. JobCounts(next)
  <2>1. next.total = next.sent + Len(next.failures) + Len(next.queue)
    <3>1. job.total = job.sent + Len(job.failures) + Len(job.queue)
      BY <1>2 DEF JobCounts
    <3>2. Len(next.queue) = Len(job.queue) + Len(new) /\ Len(new) \in Nat
      BY <1>5, <1>7
    <3>3. next.total = job.total + Len(new) /\ next.sent = job.sent /\ next.failures = job.failures
      BY <1>7
    <3> QED  BY <3>1, <3>2, <3>3, <1>4
  <2> QED  BY <1>2, <1>5, <1>7, <2>1 DEF JobCounts
<1>10. \A count : JobDelivers(job, count) => JobDelivers(next, count)
  BY <1>5, <1>7 DEF JobDelivers
<1>11. ASSUME JobCovers(job, matching, audience)
       PROVE  JobCovers(next, matching, audience)
  <2>1. \A x \in audience \ Unmailable :
           x \in job.seen \cup job.page => x \in next.seen \cup next.page
    BY <1>5, <1>7 DEF rest
  <2> QED  BY <1>7, <1>11, <2>1 DEF JobCovers
<1> QED  BY <1>1, <1>7, <1>8, <1>9, <1>10, <1>11, OnlyJobMoves, MailFacts

(* The head of a queue is not in the rest of it. *)
LEMMA HeadIsOut ==
    ASSUME NEW S, NEW s \in Seq(S), s # <<>>, Distinct(s)
    PROVE  /\ Head(s) \in S /\ Head(s) \in ToSet(s) /\ Head(s) \notin ToSet(Tail(s))
           /\ Tail(s) \in Seq(S) /\ Len(s) = Len(Tail(s)) + 1 /\ Distinct(Tail(s))
           /\ ToSet(Tail(s)) \subseteq ToSet(s)
<1>1. /\ Tail(s) \in Seq(S) /\ Len(Tail(s)) = Len(s) - 1 /\ Head(s) \in S
      /\ DOMAIN s = 1..Len(s) /\ DOMAIN Tail(s) = 1..(Len(s) - 1)
      /\ Len(s) \in Nat /\ Len(s) > 0
      /\ Head(s) = s[1] /\ \A i \in 1..(Len(s) - 1) : Tail(s)[i] = s[i + 1]
  OBVIOUS
<1>2. ToSet(s) = ToSet(Tail(s)) \cup {Head(s)}
  BY TailIs
<1>3. \A i \in 1..(Len(s) - 1) : i + 1 \in 1..Len(s) /\ i + 1 # 1 /\ 1 \in 1..Len(s)
  BY <1>1
<1>4. \A i \in 1..(Len(s) - 1) : Tail(s)[i] # Head(s)
  BY <1>1, <1>3 DEF Distinct
<1>5. Head(s) \notin ToSet(Tail(s))
  BY <1>1, <1>4 DEF ToSet
<1>6. ASSUME NEW i \in 1..(Len(s) - 1), NEW j \in 1..(Len(s) - 1), Tail(s)[i] = Tail(s)[j]
      PROVE  i = j
  <2>1. i + 1 \in DOMAIN s /\ j + 1 \in DOMAIN s /\ s[i + 1] = s[j + 1]
    BY <1>1, <1>3, <1>6
  <2>2. i + 1 = j + 1
    BY <2>1 DEF Distinct
  <2> QED  BY <2>2
<1>7. Distinct(Tail(s))
  BY <1>1, <1>6 DEF Distinct
<1> QED  BY <1>1, <1>2, <1>5, <1>7

LEMMA HandledIs ==
    ASSUME NEW job \in MailJob, job.queue # <<>>, JobCounts(job), NEW next,
           next \in {[Handled(job) EXCEPT !.sent = @ + 1],
                     [Handled(job) EXCEPT !.failures = Append(@, Head(job.queue))]}
    PROVE  /\ next \in MailJob
           /\ next.state = job.state /\ next.total = job.total /\ next.step = job.step
           /\ next.all = job.all /\ next.listing = job.listing /\ next.offset = job.offset
           /\ next.page = job.page /\ next.seen = job.seen /\ next.queue = Tail(job.queue)
           /\ next = [Handled(job) EXCEPT !.sent = @ + 1]
                 => next.sent = job.sent + 1 /\ next.failures = job.failures
           /\ next = [Handled(job) EXCEPT !.failures = Append(@, Head(job.queue))]
                 => next.sent = job.sent /\ next.failures = Append(job.failures, Head(job.queue))
<1> DEFINE U == MailUsers
<1>1. /\ job.queue \in Seq(U) /\ job.failures \in Seq(U) /\ job.sent \in Nat
      /\ job.queue # <<>> /\ Distinct(job.queue)
  BY JobFields DEF JobCounts
<1> HIDE DEF U
<1>2. Head(job.queue) \in U /\ Tail(job.queue) \in Seq(U)
  BY <1>1, HeadIsOut
<1>3. Append(job.failures, Head(job.queue)) \in Seq(U)
  BY <1>1, <1>2, AppendIs
<1>4. 1 \in 1..MaxTries
  BY MailAssumption
<1> DEFINE tail == Tail(job.queue)
           longer == Append(job.failures, Head(job.queue))
<1>5. tail \in Seq(MailUsers) /\ longer \in Seq(MailUsers) /\ job.sent + 1 \in Nat
  BY <1>1, <1>2, <1>3 DEF U
<1>6. Handled(job) = [job EXCEPT !.queue = tail, !.attempt = 1]
  BY DEF Handled
<1> HIDE DEF tail
<1> DEFINE h == [job EXCEPT !.queue = tail, !.attempt = 1]
<1>7. /\ h \in MailJob
      /\ h.state = job.state /\ h.total = job.total /\ h.step = job.step
      /\ h.all = job.all /\ h.listing = job.listing /\ h.offset = job.offset
      /\ h.page = job.page /\ h.seen = job.seen /\ h.queue = tail
      /\ h.sent = job.sent /\ h.failures = job.failures
  BY <1>4, <1>5 DEF MailJob
<1> HIDE DEF h
<1>8. Append(h.failures, Head(job.queue)) = longer
  BY <1>7
<1> DEFINE a == [h EXCEPT !.sent = @ + 1]
           b == [h EXCEPT !.failures = longer]
<1> HIDE DEF longer
<1>9. /\ a \in MailJob
      /\ a.state = h.state /\ a.total = h.total /\ a.step = h.step
      /\ a.all = h.all /\ a.listing = h.listing /\ a.offset = h.offset
      /\ a.page = h.page /\ a.seen = h.seen /\ a.queue = h.queue
      /\ a.sent = h.sent + 1 /\ a.failures = h.failures
  BY <1>5, <1>7 DEF MailJob
<1>10. /\ b \in MailJob
       /\ b.state = h.state /\ b.total = h.total /\ b.step = h.step
       /\ b.all = h.all /\ b.listing = h.listing /\ b.offset = h.offset
       /\ b.page = h.page /\ b.seen = h.seen /\ b.queue = h.queue
       /\ b.sent = h.sent /\ b.failures = longer
  BY <1>5, <1>7 DEF MailJob
<1>11. /\ Handled(job) = h /\ [Handled(job) EXCEPT !.sent = @ + 1] = a
       /\ [Handled(job) EXCEPT !.failures = Append(@, Head(job.queue))] = b
  BY <1>6, <1>8 DEF h
<1> HIDE DEF a, b
<1> QED  BY <1>7, <1>9, <1>10, <1>11 DEF tail, longer

LEMMA SamePlan ==
    ASSUME NEW job, NEW next, next.state = job.state, next.step = job.step, next.all = job.all,
           next.listing = job.listing, next.offset = job.offset, next.page = job.page,
           next.seen = job.seen
    PROVE  /\ JobShape(job) => JobShape(next)
           /\ \A among, all : JobCovers(job, among, all) => JobCovers(next, among, all)
BY DEF JobShape, JobCovers

(* The totals and the lists after the head of the queue was handled.       *)
LEMMA HandledCounts ==
    ASSUME NEW job \in MailJob, job.queue # <<>>, JobCounts(job), NEW next \in MailJob,
           next.total = job.total, next.seen = job.seen, next.queue = Tail(job.queue),
           \/ next.sent = job.sent + 1 /\ next.failures = job.failures
           \/ next.sent = job.sent /\ next.failures = Append(job.failures, Head(job.queue))
    PROVE  JobCounts(next)
<1> DEFINE U == MailUsers
           tail == Tail(job.queue)
           to == Head(job.queue)
           longer == Append(job.failures, to)
<1>1. /\ job.queue \in Seq(U) /\ job.failures \in Seq(U) /\ Distinct(job.queue)
      /\ job.sent \in Nat /\ job.total = job.sent + Len(job.failures) + Len(job.queue)
      /\ ToSet(job.queue) \cup ToSet(job.failures) \subseteq job.seen
      /\ ToSet(job.queue) \cap ToSet(job.failures) = {}
  BY JobFields DEF JobCounts
<1> HIDE DEF U
<1>2. /\ to \in U /\ to \in ToSet(job.queue) /\ to \notin ToSet(tail)
      /\ tail \in Seq(U) /\ Len(job.queue) = Len(tail) + 1 /\ Distinct(tail)
      /\ ToSet(tail) \subseteq ToSet(job.queue)
  BY <1>1, HeadIsOut
<1>3. Len(longer) = Len(job.failures) + 1 /\ ToSet(longer) = ToSet(job.failures) \cup {to}
  BY <1>1, <1>2, AppendIs
<1>4. Len(tail) \in Nat /\ Len(job.failures) \in Nat
  BY <1>1, <1>2
<1>5. next.queue = tail /\ (next.failures = job.failures \/ next.failures = longer)
  OBVIOUS
<1>6. \/ next.sent = job.sent + 1 /\ next.failures = job.failures
      \/ next.sent = job.sent /\ next.failures = longer
  OBVIOUS
<1> HIDE DEF tail, to, longer
<1>7. next.total = next.sent + Len(next.failures) + Len(next.queue)
  <2> DEFINE sent == job.sent
             failed == Len(job.failures)
             queued == Len(tail)
  <2>0. /\ sent \in Nat /\ failed \in Nat /\ queued \in Nat
        /\ next.total = sent + failed + (queued + 1)
        /\ Len(next.queue) = queued
    BY <1>1, <1>2, <1>4, <1>5
  <2>1. CASE next.sent = job.sent + 1 /\ next.failures = job.failures
    <3>1. next.sent = sent + 1 /\ Len(next.failures) = failed
      BY <2>1
    <3> HIDE DEF sent, failed, queued
    <3>2. sent + failed + (queued + 1) = (sent + 1) + failed + queued
      BY <2>0
    <3> QED  BY <2>0, <3>1, <3>2
  <2>2. CASE next.sent = job.sent /\ next.failures = longer
    <3>1. next.sent = sent /\ Len(next.failures) = failed + 1
      BY <2>2, <1>3
    <3> HIDE DEF sent, failed, queued
    <3>2. sent + failed + (queued + 1) = sent + (failed + 1) + queued
      BY <2>0
    <3> QED  BY <2>0, <3>1, <3>2
  <2> QED  BY <2>1, <2>2, <1>6
<1> QED  BY <1>1, <1>2, <1>3, <1>5, <1>7 DEF JobCounts

LEMMA SendKeeps ==
    ASSUME MailInv, SendWithRetry
    PROVE  MailInv'
<1> DEFINE job == mailJob
           to == Head(job.queue)
<1>1. /\ job # NoMailJob /\ job.step = "send" /\ job.queue # <<>>
      /\ UNCHANGED <<matching, audience, shrunk, moves>>
  BY DEF SendWithRetry
<1>2. /\ job \in MailJob /\ JobShape(job) /\ JobCounts(job)
      /\ faithful => JobDelivers(job, mailed)
      /\ ~shrunk => JobCovers(job, matching, audience)
      /\ mailed \in [MailUsers -> Nat] /\ faithful \in BOOLEAN
  BY <1>1, MailFacts
<1>3. PICK answer \in {"sent", "rate", "error"}, delivered \in BOOLEAN :
        /\ answer = "sent" => delivered
        /\ mailJob' =
             IF answer = "sent" THEN [Handled(job) EXCEPT !.sent = @ + 1]
             ELSE IF answer = "rate" /\ job.attempt < MaxTries
             THEN [job EXCEPT !.attempt = @ + 1]
             ELSE [Handled(job) EXCEPT !.failures = Append(@, to)]
        /\ mailed' = IF delivered THEN [mailed EXCEPT ![to] = @ + 1] ELSE mailed
        /\ faithful' = (faithful /\ (delivered => answer = "sent"))
  BY DEF SendWithRetry
<1> DEFINE next == mailJob'
<1>4. /\ to \in MailUsers /\ to \in ToSet(job.queue) /\ to \notin ToSet(Tail(job.queue))
      /\ ToSet(Tail(job.queue)) \subseteq ToSet(job.queue)
  <2> DEFINE U == MailUsers
  <2>1. job.queue \in Seq(U) /\ Distinct(job.queue)
    BY <1>2, JobFields DEF JobCounts
  <2> HIDE DEF U
  <2>2. /\ to \in U /\ to \in ToSet(job.queue) /\ to \notin ToSet(Tail(job.queue))
        /\ ToSet(Tail(job.queue)) \subseteq ToSet(job.queue)
    BY <1>1, <2>1, HeadIsOut
  <2> QED  BY <2>2 DEF U
<1>5. mailed' \in [MailUsers -> Nat] /\ faithful' \in BOOLEAN
  BY <1>2, <1>3, <1>4
<1>6. SUFFICES /\ next \in MailJob /\ JobShape(next) /\ JobCounts(next)
               /\ faithful' => JobDelivers(next, mailed')
               /\ ~shrunk => JobCovers(next, matching, audience)
  BY <1>1, <1>5, MailFacts DEF MailInv, MailTypeOK
<1>7. CASE answer = "rate" /\ job.attempt < MaxTries
  <2> DEFINE again == [job EXCEPT !.attempt = @ + 1]
  <2>1. again \in MailJob
    <3>1. job.attempt + 1 \in 1..MaxTries
      BY <1>2, <1>7, JobFields, MailAssumption
    <3> QED  BY <1>2, <3>1 DEF MailJob
  <2>2. /\ again.state = job.state /\ again.step = job.step /\ again.all = job.all
        /\ again.listing = job.listing /\ again.offset = job.offset /\ again.page = job.page
        /\ again.seen = job.seen /\ again.total = job.total /\ again.sent = job.sent
        /\ again.failures = job.failures /\ again.queue = job.queue
    BY <1>2 DEF MailJob
  <2>3. next = again
    BY <1>3, <1>7
  <2> HIDE DEF again
  <2>4. JobCounts(again) /\ \A count : JobDelivers(job, count) => JobDelivers(again, count)
    BY <1>2, <2>2, SameQueue
  <2>5. JobShape(again) /\ \A among, all : JobCovers(job, among, all) => JobCovers(again, among, all)
    BY <1>2, <2>2, SamePlan
  <2>6. faithful' => faithful /\ mailed' = mailed
    BY <1>3, <1>7
  <2> QED  BY <1>2, <2>1, <2>3, <2>4, <2>5, <2>6
<1>8. CASE ~ (answer = "rate" /\ job.attempt < MaxTries)
  <2>1. next \in {[Handled(job) EXCEPT !.sent = @ + 1],
                  [Handled(job) EXCEPT !.failures = Append(@, Head(job.queue))]}
    BY <1>3, <1>8
  <2>2. /\ next \in MailJob
        /\ next.state = job.state /\ next.total = job.total /\ next.step = job.step
        /\ next.all = job.all /\ next.listing = job.listing /\ next.offset = job.offset
        /\ next.page = job.page /\ next.seen = job.seen /\ next.queue = Tail(job.queue)
        /\ answer = "sent" => next.sent = job.sent + 1 /\ next.failures = job.failures
        /\ answer # "sent" =>
              next.sent = job.sent /\ next.failures = Append(job.failures, Head(job.queue))
    BY <1>1, <1>2, <1>3, <1>8, <2>1, HandledIs
  <2>3. JobCounts(next)
    BY <1>1, <1>2, <2>2, HandledCounts
  <2>4. JobShape(next) /\ (~shrunk => JobCovers(next, matching, audience))
    BY <1>2, <2>2, SamePlan
  <2>5. ASSUME faithful' PROVE JobDelivers(next, mailed')
    <3>1. faithful /\ (delivered <=> answer = "sent")
      BY <1>2, <1>3, <2>5
    <3>2. JobDelivers(job, mailed)
      BY <1>2, <3>1
    <3>3. to \notin ReachedBy(mailed) /\ mailed[to] = 0
      <4>1. to \notin ReachedBy(mailed)
        BY <1>4, <3>2 DEF JobDelivers
      <4> QED  BY <4>1, <1>2, <1>4 DEF ReachedBy
    <3>4. to \in job.seen
      BY <1>2, <1>4 DEF JobCounts
    <3>5. CASE answer = "sent"
      <4>1. mailed' = [mailed EXCEPT ![to] = @ + 1]
        BY <1>3, <3>1, <3>5
      <4>2. /\ mailed'[to] = 1
            /\ \A u \in MailUsers : u # to => mailed'[u] = mailed[u]
        BY <4>1, <1>2, <1>4, <3>3
      <4>3. ReachedBy(mailed') = ReachedBy(mailed) \cup {to}
        BY <4>2, <1>4 DEF ReachedBy
      <4>4. Cardinality(ReachedBy(mailed')) = Cardinality(ReachedBy(mailed)) + 1
        <5>0. IsFiniteSet(MailUsers)
          BY MailUsersFinite
        <5>1. IsFiniteSet(MailUsers) /\ ReachedBy(mailed) \in SUBSET MailUsers
          BY <5>0 DEF ReachedBy
        <5>2. IsFiniteSet(ReachedBy(mailed))
          BY <5>1, FS_Subset
        <5> QED  BY <4>3, <5>2, <3>3, FS_AddElement
      <4>5. Cardinality(ReachedBy(mailed')) = next.sent
        BY <4>4, <3>2, <2>2, <3>5 DEF JobDelivers
      <4>6. ReachedBy(mailed') \subseteq next.seen
        BY <4>3, <3>2, <3>4, <2>2 DEF JobDelivers
      <4>7. ReachedBy(mailed') \cap (ToSet(next.queue) \cup ToSet(next.failures)) = {}
        <5>1. to \notin ToSet(job.failures)
          BY <1>2, <1>4 DEF JobCounts
        <5>2. next.queue = Tail(job.queue) /\ next.failures = job.failures
          BY <2>2, <3>5
        <5>3. ReachedBy(mailed) \cap (ToSet(job.queue) \cup ToSet(job.failures)) = {}
          BY <3>2 DEF JobDelivers
        <5> QED  BY <5>1, <5>2, <5>3, <4>3, <1>4
      <4>8. \A u \in MailUsers : mailed'[u] <= 1
        BY <4>2, <3>2 DEF JobDelivers
      <4> QED  BY <4>5, <4>6, <4>7, <4>8 DEF JobDelivers
    <3>6. CASE answer # "sent"
      <4>1. mailed' = mailed
        BY <1>3, <3>1, <3>6
      <4>2. ToSet(Append(job.failures, to)) = ToSet(job.failures) \cup {to}
        <5> DEFINE U == MailUsers
        <5>1. job.failures \in Seq(U) /\ to \in U
          BY <1>2, <1>4, JobFields
        <5> HIDE DEF U, to
        <5> QED  BY <5>1, AppendIs
      <4>3. next.queue = Tail(job.queue) /\ next.failures = Append(job.failures, to)
        BY <2>2, <3>6
      <4>4. ReachedBy(mailed) \cap (ToSet(next.queue) \cup ToSet(next.failures)) = {}
        BY <1>4, <3>2, <3>3, <4>2, <4>3 DEF JobDelivers
      <4>5. next.sent = job.sent /\ next.seen = job.seen
        BY <2>2, <3>6
      <4> QED  BY <3>2, <4>1, <4>4, <4>5 DEF JobDelivers
    <3> QED  BY <3>5, <3>6
  <2> QED  BY <2>2, <2>3, <2>4, <2>5
<1> QED  BY <1>7, <1>8

LEMMA BatchKeeps ==
    ASSUME MailInv, BatchSent
    PROVE  MailInv'
<1> DEFINE job == mailJob
           step == IF job.page # {} THEN "collect" ELSE IF job.listing THEN "list" ELSE "end"
           next == [job EXCEPT !.step = step]
<1>1. mailJob' = next /\ MailUnchanged /\ job.step = "send" /\ job # NoMailJob
  BY DEF BatchSent, Continue
<1>2. job \in MailJob /\ JobShape(job) /\ JobCounts(job)
  BY <1>1, MailFacts
<1>3. /\ step \in {"collect", "list", "end"} /\ (step = "collect" <=> job.page # {})
      /\ step = "end" => ~job.listing
  OBVIOUS
<1> HIDE DEF step
<1>4. /\ next \in MailJob /\ next.state = job.state /\ next.step = step
      /\ next.total = job.total /\ next.sent = job.sent /\ next.failures = job.failures
      /\ next.queue = job.queue /\ next.seen = job.seen /\ next.page = job.page
      /\ next.all = job.all /\ next.listing = job.listing /\ next.offset = job.offset
  BY <1>2, <1>3 DEF MailJob
<1> HIDE DEF next
<1>5. JobShape(next)
  BY <1>1, <1>2, <1>3, <1>4 DEF JobShape
<1>6. JobCounts(next) /\ \A count : JobDelivers(job, count) => JobDelivers(next, count)
  BY <1>2, <1>4, SameQueue
<1>7. \A all : JobCovers(job, matching, all) => JobCovers(next, matching, all)
  BY <1>4 DEF JobCovers
<1> QED  BY <1>1, <1>4, <1>5, <1>6, <1>7, OnlyJobMoves, MailFacts

LEMMA EndKeeps ==
    ASSUME MailInv, EndMailJob
    PROVE  MailInv'
<1> DEFINE job == mailJob
           state == IF job.state = "failed" \/ (job.failures # <<>> /\ job.sent = 0)
                    THEN "failed" ELSE "finished"
           next == [[job EXCEPT !.state = state] EXCEPT !.step = "over"]
<1>1. mailJob' = next /\ MailUnchanged /\ job.step = "end" /\ job # NoMailJob
  BY DEF EndMailJob, Continue
<1>2. job \in MailJob /\ JobShape(job) /\ JobCounts(job)
  BY <1>1, MailFacts
<1>3. state \in {"failed", "finished"} /\ (state # "failed" => job.state # "failed")
  OBVIOUS
<1> HIDE DEF state
<1>4. /\ next \in MailJob /\ next.state = state /\ next.step = "over"
      /\ next.total = job.total /\ next.sent = job.sent /\ next.failures = job.failures
      /\ next.queue = job.queue /\ next.seen = job.seen /\ next.page = job.page
      /\ next.all = job.all /\ next.listing = job.listing /\ next.offset = job.offset
  BY <1>2, <1>3 DEF MailJob
<1> HIDE DEF next
<1>5. JobShape(next)
  BY <1>1, <1>2, <1>3, <1>4 DEF JobShape
<1>6. JobCounts(next) /\ \A count : JobDelivers(job, count) => JobDelivers(next, count)
  BY <1>2, <1>4, SameQueue
<1>7. \A all : JobCovers(job, matching, all) => JobCovers(next, matching, all)
  BY <1>3, <1>4 DEF JobCovers
<1> QED  BY <1>1, <1>4, <1>5, <1>6, <1>7, OnlyJobMoves, MailFacts

LEMMA ComesKeeps ==
    ASSUME MailInv, NEW u \in MailUsers, UserComes(u) \/ UserGoes(u)
    PROVE  MailInv'
<1>1. /\ UNCHANGED <<mailJob, mailed, faithful, audience>>
      /\ moves < MaxMoves /\ moves' = moves + 1
      /\ \/ matching' = matching \cup {u} /\ shrunk' = shrunk
         \/ matching' = matching \ {u} /\ shrunk' = TRUE
  BY DEF UserComes, UserGoes
<1>2. matching' \in SUBSET MailUsers /\ shrunk' \in BOOLEAN /\ moves' \in 0..MaxMoves
  <2>1. moves \in 0..MaxMoves /\ MaxMoves \in Nat
    BY MailFacts, MailAssumption
  <2>2. moves' \in 0..MaxMoves
    BY <1>1, <2>1
  <2> QED  BY <1>1, <2>2, MailFacts
<1>3. ASSUME mailJob # NoMailJob, ~shrunk', JobCovers(mailJob, matching, audience)
      PROVE  JobCovers(mailJob, matching', audience)
  <2>1. matching \subseteq matching' /\ ~shrunk
    BY <1>1, <1>3
  <2>2. ASSUME audience \subseteq matching, NEW x \in audience, PlaceIn(matching, x) > mailJob.offset
        PROVE  PlaceIn(matching', x) > mailJob.offset
    <3>1. x \in MailUsers /\ matching \in SUBSET MailUsers
      BY MailFacts
    <3>2. PlaceIn(matching, x) <= PlaceIn(matching', x) /\ PlaceIn(matching, x) \in Nat
      BY <1>2, <2>1, <3>1, PlaceIs
    <3>3. PlaceIn(matching', x) \in Nat /\ mailJob.offset \in Nat
      BY <1>2, <1>3, <3>1, PlaceIs, MailFacts, JobFields
    <3> QED  BY <2>2, <3>2, <3>3
  <2> QED  BY <1>3, <2>1, <2>2 DEF JobCovers
<1>4. ~shrunk' => ~shrunk
  BY <1>1
<1> QED  BY <1>1, <1>2, <1>3, <1>4, MailFacts DEF MailInv, MailTypeOK

LEMMA MailStep == MailInv /\ [MailNext]_mailVars => MailInv'
<1> SUFFICES ASSUME MailInv, [MailNext]_mailVars PROVE MailInv'
  OBVIOUS
<1>1. CASE UNCHANGED mailVars
  BY <1>1, MailFacts DEF mailVars, MailInv, MailTypeOK
<1>2. ASSUME NEW given \in BoundedSeq(MailUsers, 2), CreateLegacyJob(given) \/ CreateJobForUsers(given)
      PROVE  MailInv'
  <2>1. given \in Seq(MailUsers)
    <3> DEFINE U == MailUsers
    <3>1. given \in UNION {[1..m -> U] : m \in 0..2}
      BY DEF BoundedSeq, SeqOf
    <3> HIDE DEF U
    <3>2. PICK m \in 0..2 : given \in [1..m -> U]
      BY <3>1
    <3> QED  BY <3>2 DEF U
  <2>2. NormalizeEmails(given) \in DistinctLists
    BY <2>1, NormalizedIsDistinct
  <2>3. CreateMailJob(FALSE, NormalizeEmails(given))
    BY <1>2 DEF CreateLegacyJob, CreateJobForUsers
  <2> QED  BY <2>2, <2>3, CreateJobKeeps
<1>3. CASE CreateJobForAll
  <2>1. <<>> \in DistinctLists
    BY DEF DistinctLists, Distinct
  <2> QED  BY <2>1, <1>3, CreateJobKeeps DEF CreateJobForAll
<1>4. CASE MailWork
  BY <1>4, StartKeeps, ListKeeps, CollectKeeps, SendKeeps, BatchKeeps, EndKeeps DEF MailWork
<1>5. CASE RestartMail
  BY <1>5, MailFacts DEF RestartMail, MailUnchanged, MailInv, MailTypeOK
<1> QED  BY <1>1, <1>2, <1>3, <1>4, <1>5, ComesKeeps DEF MailNext

LEMMA MailIsRight == MailInv => MailTypeOK /\ MailedOnce /\ NobodySkipped
<1> SUFFICES ASSUME MailInv PROVE MailedOnce /\ NobodySkipped
  BY DEF MailInv
<1>1. Reached = ReachedBy(mailed)
  BY DEF Reached, ReachedBy
<1>2. MailedOnce
  BY <1>1, MailFacts DEF MailedOnce, JobCounts, JobDelivers
<1>3. NobodySkipped
  <2> SUFFICES ASSUME mailJob # NoMailJob, mailJob.all, mailJob.state = "finished", ~shrunk
               PROVE  audience \ Unmailable \subseteq mailJob.seen
    BY DEF NobodySkipped
  <2>1. JobShape(mailJob) /\ JobCovers(mailJob, matching, audience)
    BY MailFacts
  <2>2. mailJob.page = {} /\ ~mailJob.listing
    BY <2>1 DEF JobShape
  <2> QED  BY <2>1, <2>2 DEF JobCovers
<1> QED  BY <1>2, <1>3

(* A mail job, for any number of users, pages and batches: the job's       *)
(* report adds up, and when no delivery was mistaken for a failure it      *)
(* reached those it reports as sent, each once, however the users who      *)
(* match shift between its pages (admin_bulk_email.go:539).                *)
THEOREM MailsAreSingle == MailSpec => []MailedOnce
<1> QED BY MailInitInv, MailStep, MailIsRight, PTL DEF MailSpec

(* A finished job to all looked at everyone who matched when it began,     *)
(* unless somebody stopped to match (admin_bulk_email.go:515).             *)
THEOREM EveryoneIsMailed == MailSpec => []NobodySkipped
<1> QED BY MailInitInv, MailStep, MailIsRight, PTL DEF MailSpec
=============================================================================

--------------------------- MODULE AccountsProofs ---------------------------
(***************************************************************************)
(* For any number of accounts and overlapping requests, with user rows     *)
(* saved stale and inserted again after they were deleted: an account      *)
(* counts as verified only when its user showed a code, or came from an    *)
(* administrator, and every id in a row is one that was given out.  While  *)
(* requests come one by one, an account has all of its parts and leaves    *)
(* none.  The last theorem puts the types of accounts, sessions, grants    *)
(* and logins together.                                                    *)
(***************************************************************************)
EXTENDS MCAccounts, SessionsProofs, AccessProofs

Ids == {0} \cup UserIds

(* What the argument needs of the types. *)
AccountRowsTyped ==
    /\ DOMAIN users \subseteq Ids /\ users \in [DOMAIN users -> Account]
    /\ codes \subseteq VerificationCode
    /\ deletions \subseteq [user: Ids, token: 1..MaxCodes, expired: BOOLEAN]
    /\ issued \in [user: 0..MaxAccounts, vault: 0..MaxAccounts,
                   code: 0..MaxCodes, token: 0..MaxCodes]

JobsTyped == jobs \in [AccountRequests -> Job \cup {NoJob}]

(* The request still has a user row to save. *)
Saves(job) == \E i \in 1..Len(job.todo) : job.todo[i] = "saveUser"

(* The row it saves is verified only when its user has shown a code.       *)
JobProved(job) == Saves(job) /\ job.row.verified => job.user \in proved

VerifiedInv ==
    /\ AccountRowsTyped
    /\ JobsTyped
    /\ VerifiedWasProved
    /\ \A r \in AccountRequests : JobProved(jobs[r])

(* What was shown stays shown. *)
ProofsStay == proved \subseteq proved'

-----------------------------------------------------------------------------
(* Jobs. *)

LEMMA IdleSavesNothing == ~Saves(NoJob) /\ NoJob \notin Job
BY DEF Saves, NoJob, Job

(* What is left to do after a statement was to be done before it. *)
LEMMA TailSaves ==
    ASSUME NEW todo \in Seq(Statements), Len(todo) > 1
    PROVE  /\ Tail(todo) \in Seq(Statements)
           /\ \A i \in 1..Len(Tail(todo)) : \E j \in 1..Len(todo) : Tail(todo)[i] = todo[j]
<1>1. Tail(todo) \in Seq(Statements) /\ Len(Tail(todo)) = Len(todo) - 1
  OBVIOUS
<1>2. ASSUME NEW i \in 1..Len(Tail(todo))
      PROVE  i + 1 \in 1..Len(todo) /\ Tail(todo)[i] = todo[i + 1]
  BY <1>1
<1> QED BY <1>1, <1>2

(* Steps that save no row, one list after the other, save no row. *)
LEMMA JoinedSaves ==
    ASSUME NEW s \in Seq(Statements), NEW t \in Seq(Statements),
           \A i \in 1..Len(s) : s[i] # "saveUser",
           \A i \in 1..Len(t) : t[i] # "saveUser"
    PROVE  s \o t \in Seq(Statements) /\ \A i \in 1..Len(s \o t) : (s \o t)[i] # "saveUser"
<1>1. s \o t \in Seq(Statements) /\ Len(s \o t) = Len(s) + Len(t)
  OBVIOUS
<1>2. ASSUME NEW i \in 1..Len(s \o t)
      PROVE  (s \o t)[i] # "saveUser"
  <2>1. CASE i <= Len(s)
    BY <1>1, <2>1
  <2>2. CASE i > Len(s)
    BY <1>1, <2>2
  <2> QED BY <1>1, <2>1, <2>2
<1> QED BY <1>1, <1>2

(* The steps of a creation are typed and save no row. *)
LEMMA CreatingSaves ==
    ASSUME NEW after \in {<<>>, <<"dropCodes", "insertCode">>},
           NEW todo, todo = <<"insertVault", "createSchema", "insertUser",
                              "insertOwner", "attachVault">> \o after
    PROVE  todo \in Seq(Statements) /\ \A i \in 1..Len(todo) : todo[i] # "saveUser"
<1> DEFINE first == <<"insertVault", "createSchema", "insertUser",
                      "insertOwner", "attachVault">>
<1>1. first \in Seq(Statements) /\ \A i \in 1..Len(first) : first[i] # "saveUser"
  BY DEF Statements
<1>2. after \in Seq(Statements) /\ \A i \in 1..Len(after) : after[i] # "saveUser"
  <2>1. CASE after = <<>>
    BY <2>1
  <2>2. CASE after = <<"dropCodes", "insertCode">>
    BY <2>2 DEF Statements
  <2> QED BY <2>1, <2>2
<1>3. todo = first \o after
  OBVIOUS
<1> HIDE DEF first
<1> QED BY <1>1, <1>2, <1>3, JoinedSaves

(* The steps of the other requests are typed. *)
LEMMA TodosTyped ==
    /\ <<"dropCodes", "insertCode">> \in Seq(Statements)
    /\ <<"saveUser", "dropCodes">> \in Seq(Statements)
    /\ <<"dropCodes">> \in Seq(Statements)
    /\ <<"saveUser">> \in Seq(Statements)
    /\ <<"retire">> \in Seq(Statements)
    /\ <<"dropTokens", "insertToken">> \in Seq(Statements)
    /\ DeleteSteps \in Seq(Statements)
    /\ <<"spendToken", "dropTokens">> \o DeleteSteps \in Seq(Statements)
<1>1. /\ <<"dropCodes", "insertCode">> \in Seq(Statements)
      /\ <<"saveUser", "dropCodes">> \in Seq(Statements)
  BY DEF Statements
<1>2. /\ <<"dropCodes">> \in Seq(Statements)
      /\ <<"saveUser">> \in Seq(Statements)
      /\ <<"retire">> \in Seq(Statements)
  BY DEF Statements
<1>3. <<"dropTokens", "insertToken">> \in Seq(Statements)
  BY DEF Statements
<1>4. DeleteSteps \in Seq(Statements)
  BY DEF Statements, DeleteSteps
<1>5. <<"spendToken", "dropTokens">> \in Seq(Statements)
  BY DEF Statements
<1>6. \A s, t \in Seq(Statements) : s \o t \in Seq(Statements)
  OBVIOUS
<1> QED BY <1>1, <1>2, <1>3, <1>4, <1>5, <1>6

(* A step that writes one job: it need only look at that job. *)
LEMMA JobStep ==
    ASSUME VerifiedInv, ProofsStay, NEW r \in AccountRequests,
           NEW job \in Job \cup {NoJob}, jobs' = [jobs EXCEPT ![r] = job],
           Saves(job) /\ job.row.verified => job.user \in proved'
    PROVE  JobsTyped' /\ \A q \in AccountRequests : JobProved(jobs[q])'
<1>1. JobsTyped'
  BY DEF VerifiedInv, JobsTyped
<1>2. ASSUME NEW q \in AccountRequests
      PROVE  JobProved(jobs[q])'
  <2>1. CASE q = r
    <3>1. jobs'[q] = job
      BY <2>1 DEF VerifiedInv, JobsTyped
    <3> QED BY <3>1 DEF JobProved, Saves
  <2>2. CASE q # r
    <3>1. jobs'[q] = jobs[q]
      BY <2>2 DEF VerifiedInv, JobsTyped
    <3> QED BY <3>1 DEF JobProved, Saves, VerifiedInv, ProofsStay
  <2> QED BY <2>1, <2>2
<1> QED BY <1>1, <1>2

(* Going on with a job that keeps its row verified or not, and its user    *)
(* proved.                                                                 *)
LEMMA AdvanceProves ==
    ASSUME VerifiedInv, ProofsStay, NEW r \in AccountRequests, NEW job \in Job,
           Advance(r, job),
           Saves(job) /\ job.row.verified => job.user \in proved'
    PROVE  JobsTyped' /\ \A q \in AccountRequests : JobProved(jobs[q])'
<1>1. CASE Len(job.todo) <= 1
  <2>1. jobs' = [jobs EXCEPT ![r] = NoJob]
    BY <1>1 DEF Advance
  <2> QED BY <2>1, JobStep, IdleSavesNothing
<1>2. CASE ~(Len(job.todo) <= 1)
  <2> DEFINE next == [job EXCEPT !.todo = Tail(job.todo)]
             todo == job.todo
  <2>1. todo \in Seq(Statements)
    BY DEF Job
  <2>2. Len(todo) > 1
    BY <1>2, <2>1
  <2>3. Tail(todo) \in Seq(Statements)
    BY <2>1, <2>2, TailSaves
  <2>4. jobs' = [jobs EXCEPT ![r] = next]
    BY <1>2 DEF Advance
  <2>5. /\ next \in Job /\ next.todo = Tail(todo)
        /\ next.row = job.row /\ next.user = job.user
    <3> DEFINE Rows == Account
               Todos == Seq(Statements)
    <3>1. job \in [todo: Todos, user: {0} \cup UserIds, vault: {0} \cup VaultIds,
                   email: Emails, row: Rows, token: 0..MaxCodes]
      BY DEF Job
    <3>2. Tail(todo) \in Todos
      BY <2>3
    <3> HIDE DEF Rows, Todos
    <3>3. next \in [todo: Todos, user: {0} \cup UserIds, vault: {0} \cup VaultIds,
                    email: Emails, row: Rows, token: 0..MaxCodes]
      BY <3>1, <3>2
    <3>4. next.todo = Tail(todo)
      BY <3>1
    <3>5. next.row = job.row
      BY <3>1
    <3>6. next.user = job.user
      BY <3>1
    <3> QED BY <3>3, <3>4, <3>5, <3>6 DEF Rows, Todos, Job
  <2> HIDE DEF next
  <2>6. Saves(next) => Saves(job)
    BY <2>1, <2>2, <2>5, TailSaves DEF Saves
  <2> QED BY <2>4, <2>5, <2>6, JobStep
<1> QED BY <1>1, <1>2

-----------------------------------------------------------------------------
(* The first statements of requests. *)

(* A request changes no table; it may add a user to those who proved.      *)
LEMMA BeginProves ==
    ASSUME VerifiedInv, ProofsStay, NEW r \in AccountRequests, NEW job \in Job,
           Begin(r, job), UNCHANGED <<users, codes, deletions, issued>>,
           Saves(job) /\ job.row.verified => job.user \in proved'
    PROVE  VerifiedInv'
<1>1. JobsTyped' /\ \A q \in AccountRequests : JobProved(jobs[q])'
  BY JobStep DEF Begin
<1>2. AccountRowsTyped' /\ VerifiedWasProved'
  BY DEF VerifiedInv, AccountRowsTyped, VerifiedWasProved, ProofsStay
<1> QED BY <1>1, <1>2 DEF VerifiedInv

LEMMA JobForTyped ==
    ASSUME AccountsAssumption, NEW u \in Ids, NEW todo \in Seq(Statements),
           NEW row \in Account, NEW token \in 0..MaxCodes
    PROVE  /\ JobFor(u, todo, row, token) \in Job
           /\ JobFor(u, todo, row, token).todo = todo
           /\ JobFor(u, todo, row, token).row = row
           /\ JobFor(u, todo, row, token).user = u
<1>1. Lower[row.email] \in Emails /\ row.vault \in VaultIds
  BY DEF AccountsAssumption, Account
<1>2. JobFor(u, todo, row, token) \in Job
  BY <1>1 DEF JobFor, Job, Ids
<1> QED BY <1>2 DEF JobFor

(* The account an address names. *)
LEMMA NamedIsUser ==
    ASSUME VerifiedInv, NEW e, Named(e) # {}
    PROVE  GetByEmail(e) \in DOMAIN users
<1>1. Named(e) \subseteq DOMAIN users /\ DOMAIN users \subseteq Nat
  BY AccountsAssumption DEF Named, VerifiedInv, AccountRowsTyped, Ids, UserIds
<1>2. PICK u \in Named(e) : \A w \in Named(e) : ~ (<<w, u>> \in OpToRel(<, Nat))
  <2> DEFINE S == Named(e)
  <2>1. S \subseteq Nat /\ S # {}
    BY <1>1
  <2> HIDE DEF S
  <2>2. \E u \in S : \A w \in S : ~ (<<w, u>> \in OpToRel(<, Nat))
    BY <2>1, NatLessThanWellFounded, WFMin, Zenon
  <2> QED BY <2>2 DEF S
<1>3. ASSUME NEW w \in Named(e)
      PROVE  u <= w
  <2>1. w \in Nat /\ u \in Nat
    BY <1>1
  <2>2. ~ (w < u)
    BY <1>2, <2>1 DEF OpToRel
  <2> QED BY <2>1, <2>2
<1>4. \E m \in Named(e) : \A w \in Named(e) : m <= w
  BY <1>3
<1>5. GetByEmail(e) \in Named(e)
  BY <1>4, Zenon DEF GetByEmail
<1> QED BY <1>1, <1>5

LEMMA CreatingProves ==
    ASSUME VerifiedInv, AccountsAssumption,
           NEW r \in AccountRequests, NEW e \in Emails,
           SignUp(r, e) \/ CreateByAdmin(r, e)
    PROVE  VerifiedInv'
<1>1. ASSUME NEW a \in Emails, NEW verified \in BOOLEAN,
             NEW after \in {<<>>, <<"dropCodes", "insertCode">>},
             Begin(r, Creating(a, verified, after)),
             UNCHANGED <<users, codes, deletions, issued, proved>>
      PROVE  VerifiedInv'
  <2> DEFINE todo == <<"insertVault", "createSchema", "insertUser",
                       "insertOwner", "attachVault">> \o after
             job == Creating(a, verified, after)
             row == NewAccount(a, verified)
  <2>1. todo \in Seq(Statements) /\ \A i \in 1..Len(todo) : todo[i] # "saveUser"
    BY CreatingSaves
  <2>2. row \in Account
    BY DEF NewAccount, Account, VaultIds, AccountsAssumption
  <2>3. /\ job = [todo |-> todo, user |-> 0, vault |-> 0, email |-> a,
                  row |-> row, token |-> 0]
        /\ 0 \in 0..MaxCodes
    BY DEF Creating, AccountsAssumption
  <2> HIDE DEF todo, row, job
  <2>4. job \in Job /\ job.todo = todo
    BY <2>1, <2>2, <2>3 DEF Job
  <2>5. ~Saves(job)
    BY <2>1, <2>4 DEF Saves
  <2> QED BY <1>1, <2>4, <2>5, BeginProves DEF job, ProofsStay
<1>2. Lower[e] \in Emails
  BY DEF AccountsAssumption
<1> QED BY <1>1, <1>2 DEF SignUp, CreateByAdmin, Tables, Tokens, Histories

(* The other requests take the row of a user, or change it. *)
LEMMA AskProves ==
    ASSUME VerifiedInv, AccountsAssumption, NEW r \in AccountRequests, Ask(r)
    PROVE  VerifiedInv'
<1>1. ASSUME NEW u \in DOMAIN users, NEW todo \in Seq(Statements),
             NEW row \in Account, NEW token \in 0..MaxCodes,
             Begin(r, JobFor(u, todo, row, token)),
             row.verified => u \in proved', ProofsStay,
             UNCHANGED <<users, codes, deletions, issued>>
      PROVE  VerifiedInv'
  <2> DEFINE job == JobFor(u, todo, row, token)
  <2>1. u \in Ids
    BY DEF VerifiedInv, AccountRowsTyped
  <2>2. job \in Job /\ job.row = row /\ job.user = u
    BY <2>1, JobForTyped
  <2> HIDE DEF job
  <2> QED BY <1>1, <2>2, BeginProves DEF job
<1>2. ASSUME NEW u \in DOMAIN users
      PROVE  users[u] \in Account /\ (users[u].verified => u \in proved)
  BY DEF VerifiedInv, AccountRowsTyped, VerifiedWasProved
<1>3. 0 \in 0..MaxCodes
  BY DEF AccountsAssumption
<1>4. ASSUME NEW e \in Emails, ResendCode(r, e) \/ RequestRecoveryDelete(r, e)
      PROVE  VerifiedInv'
  <2> DEFINE u == GetByEmail(e)
  <2>1. u \in DOMAIN users
    BY <1>4, NamedIsUser DEF ResendCode, RequestRecoveryDelete
  <2>2. PICK todo \in Seq(Statements) : Begin(r, JobFor(u, todo, users[u], 0))
    BY <1>4, TodosTyped DEF ResendCode, RequestRecoveryDelete
  <2>3. UNCHANGED <<users, codes, deletions, issued, proved>>
    BY <1>4 DEF ResendCode, RequestRecoveryDelete, Tables, Tokens, Histories
  <2> HIDE DEF u
  <2> QED BY <1>1, <1>2, <1>3, <2>1, <2>2, <2>3 DEF ProofsStay
<1>5. ASSUME NEW u \in DOMAIN users, NEW row \in Account, SavingRow(r, u, row),
             row.verified = users[u].verified
      PROVE  VerifiedInv'
  <2>1. UNCHANGED <<users, codes, deletions, issued, proved>>
    BY <1>5 DEF SavingRow, Tables, Tokens, Histories
  <2> QED BY <1>1, <1>2, <1>3, <1>5, <2>1, TodosTyped DEF SavingRow, ProofsStay
<1>6. ASSUME NEW u \in DOMAIN users, NEW e \in Emails, UpdateUser(r, u, e)
      PROVE  VerifiedInv'
  <2> DEFINE row == [users[u] EXCEPT !.email = e]
  <2>1. row \in Account /\ row.verified = users[u].verified
    BY <1>2 DEF Account
  <2>2. SavingRow(r, u, row)
    BY <1>6 DEF UpdateUser
  <2> HIDE DEF row
  <2> QED BY <1>5, <2>1, <2>2
<1>7. ASSUME NEW u \in DOMAIN users, StoreRSAKeys(r, u)
      PROVE  VerifiedInv'
  <2> DEFINE row == [users[u] EXCEPT !.keys = TRUE]
  <2>1. row \in Account /\ row.verified = users[u].verified
    BY <1>2 DEF Account
  <2>2. SavingRow(r, u, row)
    BY <1>7 DEF StoreRSAKeys
  <2> HIDE DEF row
  <2> QED BY <1>5, <2>1, <2>2
<1>8. ASSUME NEW u \in DOMAIN users, DeleteUser(r, u)
      PROVE  VerifiedInv'
  <2>1. UNCHANGED <<users, codes, deletions, issued, proved>>
    BY <1>8 DEF DeleteUser, Tables, Tokens
  <2> QED BY <1>1, <1>2, <1>3, <1>8, <2>1, TodosTyped DEF DeleteUser, ProofsStay
<1>9. ASSUME NEW d \in deletions, ConfirmRecoveryDelete(r, d)
      PROVE  VerifiedInv'
  <2>1. UNCHANGED <<users, codes, deletions, issued, proved>>
    BY <1>9 DEF ConfirmRecoveryDelete, Tables, Tokens
  <2>2. d.user \in DOMAIN users /\ d.token \in 0..MaxCodes
    BY <1>9 DEF ConfirmRecoveryDelete, VerifiedInv, AccountRowsTyped, AccountsAssumption
  <2>3. Begin(r, JobFor(d.user, <<"spendToken", "dropTokens">> \o DeleteSteps,
                        users[d.user], d.token))
    BY <1>9 DEF ConfirmRecoveryDelete
  <2> QED BY <1>1, <1>2, <2>1, <2>2, <2>3, TodosTyped DEF ProofsStay
<1>10. ASSUME NEW c \in codes, VerifyCode(r, c)
       PROVE  VerifiedInv'
  <2>1. UNCHANGED <<users, codes, deletions, issued>> /\ ProofsStay
    BY <1>10 DEF VerifyCode, Tables, Tokens, ProofsStay
  <2>2. c.email \in Emails /\ c.code \in 0..MaxCodes
    BY DEF VerifiedInv, AccountRowsTyped, VerificationCode, AccountsAssumption
  <2>3. CASE c.expired
    <3> DEFINE row == NewAccount(c.email, FALSE)
               old == JobFor(0, <<"dropCodes">>, row, 0)
               job == [old EXCEPT !.vault = 0]
    <3>1. Begin(r, job)
      BY <1>10, <2>3 DEF VerifyCode
    <3>2. row \in Account /\ ~row.verified /\ 0 \in Ids
      BY <2>2 DEF NewAccount, Account, VaultIds, AccountsAssumption, Ids
    <3> HIDE DEF row
    <3>3. old \in Job /\ old.row = row
      <4>1. <<"dropCodes">> \in Seq(Statements)
        BY TodosTyped
      <4> DEFINE todo == <<"dropCodes">>
      <4> HIDE DEF todo
      <4>2. todo \in Seq(Statements)
        BY <4>1 DEF todo
      <4>3. JobFor(0, todo, row, 0) \in Job /\ JobFor(0, todo, row, 0).row = row
        BY <1>3, <3>2, <4>2, JobForTyped
      <4> QED BY <4>3 DEF todo
    <3> HIDE DEF old
    <3>4. job \in Job /\ job.row = old.row
      <4> DEFINE Rows == Account
                 Todos == Seq(Statements)
      <4>1. old \in [todo: Todos, user: {0} \cup UserIds, vault: {0} \cup VaultIds,
                     email: Emails, row: Rows, token: 0..MaxCodes]
        BY <3>3 DEF Job
      <4> HIDE DEF Rows, Todos
      <4>2. job \in [todo: Todos, user: {0} \cup UserIds, vault: {0} \cup VaultIds,
                     email: Emails, row: Rows, token: 0..MaxCodes]
        BY <4>1
      <4>3. job.row = old.row
        BY <4>1
      <4> QED BY <4>2, <4>3 DEF Rows, Todos, Job
    <3> HIDE DEF job
    <3>5. ~job.row.verified
      BY <3>2, <3>3, <3>4
    <3> QED BY <2>1, <3>1, <3>4, <3>5, BeginProves
  <2>4. CASE ~c.expired
    <3> DEFINE u == GetByEmail(c.email)
               row == [users[u] EXCEPT !.verified = TRUE]
    <3>1. u \in DOMAIN users
      BY <1>10, <2>4, NamedIsUser DEF VerifyCode
    <3>2. CASE users[u].verified
      <4>1. Begin(r, JobFor(u, <<"dropCodes">>, users[u], 0)) /\ UNCHANGED proved
        BY <1>10, <2>4, <3>2 DEF VerifyCode
      <4> HIDE DEF u
      <4> QED BY <1>1, <1>2, <1>3, <2>1, <3>1, <4>1, TodosTyped
    <3>3. CASE ~users[u].verified
      <4>1. /\ Begin(r, JobFor(u, <<"saveUser", "dropCodes">>, row, c.code))
            /\ proved' = proved \cup {u}
        BY <1>10, <2>4, <3>3 DEF VerifyCode
      <4>2. row \in Account
        BY <1>2, <3>1 DEF Account
      <4>3. u \in proved'
        BY <4>1
      <4> HIDE DEF u, row
      <4> QED BY <1>1, <2>1, <2>2, <3>1, <4>1, <4>2, <4>3, TodosTyped
    <3> QED BY <3>2, <3>3
  <2> QED BY <2>3, <2>4
<1>11. ASSUME NEW e \in Emails, SignUp(r, e) \/ CreateByAdmin(r, e)
       PROVE  VerifiedInv'
  BY <1>11, CreatingProves
<1> QED BY <1>4, <1>6, <1>7, <1>8, <1>9, <1>10, <1>11 DEF Ask

-----------------------------------------------------------------------------
(* The statements that follow. *)

(* A statement that leaves the users' rows alone. *)
LEMMA DoneProves ==
    ASSUME VerifiedInv, NEW r \in AccountRequests, jobs[r].todo # <<>>,
           NEW job \in Job, Saves(job) => Saves(jobs[r]),
           job.row.verified = jobs[r].row.verified, job.user = jobs[r].user,
           Advance(r, job), UNCHANGED <<users, proved>>, AccountRowsTyped'
    PROVE  VerifiedInv'
<1>1. ProofsStay
  BY DEF ProofsStay
<1>2. JobProved(jobs[r])
  BY DEF VerifiedInv
<1>3. Saves(job) /\ job.row.verified => job.user \in proved'
  BY <1>2 DEF JobProved
<1>4. JobsTyped' /\ \A q \in AccountRequests : JobProved(jobs[q])'
  BY <1>1, <1>3, AdvanceProves
<1>5. VerifiedWasProved'
  BY DEF VerifiedInv, VerifiedWasProved
<1> QED BY <1>4, <1>5 DEF VerifiedInv

LEMMA AtIsJob ==
    ASSUME VerifiedInv, NEW r \in AccountRequests, NEW statement, At(r, statement)
    PROVE  jobs[r] \in Job /\ jobs[r].todo # <<>> /\ Head(jobs[r].todo) = statement
BY DEF VerifiedInv, JobsTyped, At, NoJob

(* The job of a creation that has its vault, or its user. *)
WithVault(j, v, row) == [[j EXCEPT !.vault = v] EXCEPT !.row = row]

WithUser(j, u) == [j EXCEPT !.user = u]

LEMMA JobOfVault ==
    ASSUME NEW j \in Job, NEW v \in VaultIds, NEW row \in Account
    PROVE  LET job == WithVault(j, v, row)
           IN  /\ job \in Job /\ job.todo = j.todo /\ job.user = j.user
               /\ job.email = j.email /\ job.row = row /\ job.vault = v
<1> DEFINE Rows == Account
           Todos == Seq(Statements)
           Jobs == [todo: Todos, user: {0} \cup UserIds, vault: {0} \cup VaultIds,
                    email: Emails, row: Rows, token: 0..MaxCodes]
           one == [j EXCEPT !.vault = v]
           job == [one EXCEPT !.row = row]
<1>1. j \in Jobs /\ row \in Rows
  BY DEF Job
<1> HIDE DEF Rows, Todos
<1>2. /\ one \in Jobs /\ one.todo = j.todo /\ one.user = j.user
      /\ one.email = j.email /\ one.vault = v
  BY <1>1
<1> HIDE DEF one
<1>3. job \in Jobs
  BY <1>1, <1>2
<1>4. job.todo = j.todo /\ job.user = j.user /\ job.email = j.email
  BY <1>2
<1>5. job.row = row /\ job.vault = v
  BY <1>2
<1>6. job = WithVault(j, v, row)
  BY DEF one, WithVault
<1> QED BY <1>3, <1>4, <1>5, <1>6 DEF Jobs, Rows, Todos, Job

LEMMA JobOfUser ==
    ASSUME NEW j \in Job, NEW u \in UserIds
    PROVE  LET job == WithUser(j, u)
           IN  /\ job \in Job /\ job.todo = j.todo /\ job.user = u
               /\ job.email = j.email /\ job.row = j.row /\ job.vault = j.vault
<1> DEFINE Rows == Account
           Todos == Seq(Statements)
           Jobs == [todo: Todos, user: {0} \cup UserIds, vault: {0} \cup VaultIds,
                    email: Emails, row: Rows, token: 0..MaxCodes]
           job == WithUser(j, u)
<1> USE DEF WithUser
<1>1. j \in Jobs
  BY DEF Job
<1> HIDE DEF Rows, Todos
<1>2. job \in Jobs
  BY <1>1
<1>3. job.todo = j.todo /\ job.row = j.row /\ job.email = j.email
  BY <1>1
<1>4. job.user = u /\ job.vault = j.vault
  BY <1>1
<1> QED BY <1>2, <1>3, <1>4 DEF Jobs, Rows, Todos, Job

LEMMA CreateProves ==
    ASSUME VerifiedInv, AccountsAssumption, NEW r \in AccountRequests, Create(r)
    PROVE  VerifiedInv'
<1> DEFINE j == jobs[r]
<1>1. CASE InsertVault(r)
  <2> DEFINE v == issued.vault + 1
             one == [j EXCEPT !.vault = v]
             row == [j.row EXCEPT !.vault = v]
             job == [one EXCEPT !.row = row]
  <2>1. j \in Job /\ j.todo # <<>>
    BY <1>1, AtIsJob DEF InsertVault
  <2>2. v \in VaultIds /\ v \in 0..MaxAccounts
    BY <1>1 DEF InsertVault, VerifiedInv, AccountRowsTyped, VaultIds, AccountsAssumption
  <2>3. Advance(r, job)
    BY <1>1, <2>1 DEF InsertVault, Job
  <2>4. row \in Account /\ row.verified = j.row.verified
    BY <2>1, <2>2 DEF Job, Account
  <2>5. UNCHANGED <<users, proved, codes, deletions>> /\ issued' = [issued EXCEPT !.vault = v]
    BY <1>1 DEF InsertVault, Tokens, Histories
  <2>6. AccountRowsTyped'
    BY <2>2, <2>5 DEF VerifiedInv, AccountRowsTyped
  <2> HIDE DEF v, row
  <2>7. job \in Job /\ job.todo = j.todo /\ job.row = row /\ job.user = j.user
    <3>1. job = WithVault(j, v, row)
      BY DEF WithVault
    <3> HIDE DEF j, one, job
    <3> QED BY <2>1, <2>2, <2>4, <3>1, JobOfVault
  <2> HIDE DEF job
  <2>8. Saves(job) => Saves(jobs[r])
    BY <2>7 DEF Saves
  <2> QED BY <2>1, <2>3, <2>4, <2>5, <2>6, <2>7, <2>8, DoneProves
<1>2. CASE InsertUser(r)
  <2> DEFINE u == issued.user + 1
             row == j.row
             job == [j EXCEPT !.user = u]
  <2>1. j \in Job
    BY <1>2, AtIsJob DEF InsertUser
  <2>2. u \in UserIds /\ u \in Ids /\ u \in 0..MaxAccounts
    BY <1>2 DEF InsertUser, VerifiedInv, AccountRowsTyped, UserIds, Ids, AccountsAssumption
  <2>3. /\ Advance(r, job)
        /\ Put(u, row)
        /\ issued' = [issued EXCEPT !.user = u]
        /\ proved' = IF row.verified THEN proved \cup {u} ELSE proved
        /\ UNCHANGED <<codes, deletions>>
    BY <1>2 DEF InsertUser, Tokens
  <2>4. row \in Account
    BY <2>1 DEF Job
  <2>5. ProofsStay /\ (row.verified => u \in proved')
    BY <2>3 DEF ProofsStay
  <2>6. job \in Job /\ job.row = row /\ job.user = u
    <3>1. job = WithUser(j, u)
      BY DEF WithUser
    <3> HIDE DEF j, u, job
    <3> QED BY <2>1, <2>2, <3>1, JobOfUser
  <2> HIDE DEF job, row, u, j
  <2>7. JobsTyped' /\ \A q \in AccountRequests : JobProved(jobs[q])'
    BY <2>3, <2>5, <2>6, AdvanceProves
  <2>8. /\ DOMAIN users' \subseteq Ids /\ users' \in [DOMAIN users' -> Account]
        /\ VerifiedWasProved'
    BY <2>2, <2>3, <2>4, <2>5
       DEF VerifiedInv, AccountRowsTyped, VerifiedWasProved, Put, ProofsStay
  <2>9. AccountRowsTyped'
    BY <2>2, <2>3, <2>8 DEF VerifiedInv, AccountRowsTyped
  <2> QED BY <2>7, <2>8, <2>9 DEF VerifiedInv
<1>3. CASE CreateSchema(r) \/ InsertOwner(r) \/ AttachVault(r) \/ Retire(r)
  <2>1. j \in Job /\ j.todo # <<>>
    BY <1>3, AtIsJob DEF CreateSchema, InsertOwner, AttachVault, Retire
  <2>2. Advance(r, j)
    BY <1>3 DEF CreateSchema, InsertOwner, AttachVault, Retire, Done, Ignored
  <2>3. UNCHANGED <<users, proved, codes, deletions, issued>>
    BY <1>3 DEF CreateSchema, InsertOwner, AttachVault, Retire, Tokens, Histories
  <2>4. AccountRowsTyped'
    BY <2>3 DEF VerifiedInv, AccountRowsTyped
  <2> QED BY <2>1, <2>2, <2>3, <2>4, DoneProves
<1>4. CASE GiveUp(r)
  <2> DEFINE job == [j EXCEPT !.todo = <<"retire">>]
  <2>1. j \in Job
    BY <1>4, AtIsJob DEF GiveUp
  <2>2. jobs' = [jobs EXCEPT ![r] = job]
    BY <1>4 DEF GiveUp
  <2>3. UNCHANGED <<users, proved, codes, deletions, issued>>
    BY <1>4 DEF GiveUp, Tables, Tokens, Histories
  <2>4. job \in Job /\ job.todo = <<"retire">>
    BY <2>1, TodosTyped DEF Job
  <2> HIDE DEF job
  <2>5. ~Saves(job)
    BY <2>4 DEF Saves
  <2>6. JobsTyped' /\ \A q \in AccountRequests : JobProved(jobs[q])'
    BY <2>2, <2>3, <2>4, <2>5, JobStep DEF ProofsStay
  <2>7. AccountRowsTyped' /\ VerifiedWasProved'
    BY <2>3 DEF VerifiedInv, AccountRowsTyped, VerifiedWasProved
  <2> QED BY <2>6, <2>7 DEF VerifiedInv
<1> QED BY <1>1, <1>2, <1>3, <1>4 DEF Create

LEMMA ChangeProves ==
    ASSUME VerifiedInv, AccountsAssumption, NEW r \in AccountRequests, Change(r)
    PROVE  VerifiedInv'
<1> DEFINE j == jobs[r]
<1>1. CASE DropCodes(r) \/ InsertCode(r)
  <2>1. j \in Job /\ j.todo # <<>>
    BY <1>1, AtIsJob DEF DropCodes, InsertCode
  <2>2. Advance(r, j)
    BY <1>1 DEF DropCodes, InsertCode, Done, Ignored
  <2>3. UNCHANGED <<users, proved, deletions>>
    BY <1>1 DEF DropCodes, InsertCode, Tables, Histories
  <2>4. CASE DropCodes(r)
    <3>1. AccountRowsTyped'
      BY <2>3, <2>4 DEF VerifiedInv, AccountRowsTyped, DropCodes
    <3> QED BY <2>1, <2>2, <2>3, <3>1, DoneProves
  <2>5. CASE InsertCode(r)
    <3> DEFINE c == [email |-> j.email, code |-> issued.code + 1, expired |-> FALSE]
    <3>1. j.email \in Emails
      BY <2>1 DEF Job
    <3>2. issued.code + 1 \in 1..MaxCodes
      BY <2>5, AccountsAssumption DEF InsertCode, VerifiedInv, AccountRowsTyped
    <3>3. c \in VerificationCode
      BY <3>1, <3>2 DEF VerificationCode
    <3>4. /\ codes' = codes \cup {c}
          /\ issued' = [issued EXCEPT !.code = issued.code + 1]
      BY <2>5 DEF InsertCode
    <3> HIDE DEF c, j
    <3>5. AccountRowsTyped'
      BY <2>3, <3>2, <3>3, <3>4, AccountsAssumption DEF VerifiedInv, AccountRowsTyped
    <3> QED BY <2>1, <2>2, <2>3, <3>5, DoneProves DEF j
  <2> QED BY <1>1, <2>4, <2>5
<1>2. CASE SaveUserRow(r)
  <2>1. j \in Job /\ j.todo # <<>> /\ Head(j.todo) = "saveUser"
    BY <1>2, AtIsJob DEF SaveUserRow
  <2>2. Saves(j)
    <3>1. j.todo \in Seq(Statements)
      BY <2>1 DEF Job
    <3>2. 1 \in 1..Len(j.todo) /\ j.todo[1] = "saveUser"
      BY <2>1, <3>1
    <3> QED BY <3>2 DEF Saves
  <2>3. /\ Put(j.user, j.row) /\ Advance(r, j)
        /\ UNCHANGED <<codes, deletions, issued, proved>>
    BY <1>2 DEF SaveUserRow, Done, Tokens, Histories
  <2>4. j.row \in Account /\ j.user \in Ids /\ (j.row.verified => j.user \in proved)
    BY <2>1, <2>2 DEF Job, Ids, VerifiedInv, JobProved
  <2>5. ProofsStay
    BY <2>3 DEF ProofsStay
  <2> HIDE DEF j
  <2>6. JobsTyped' /\ \A q \in AccountRequests : JobProved(jobs[q])'
    BY <2>1, <2>3, <2>4, <2>5, AdvanceProves
  <2>7. AccountRowsTyped' /\ VerifiedWasProved'
    BY <2>3, <2>4 DEF VerifiedInv, AccountRowsTyped, VerifiedWasProved, Put
  <2> QED BY <2>6, <2>7 DEF VerifiedInv
<1>3. CASE FailJob(r)
  <2>1. /\ jobs' = [jobs EXCEPT ![r] = NoJob]
        /\ UNCHANGED <<users, proved, codes, deletions, issued>>
    BY <1>3 DEF FailJob, Stop, Tables, Tokens, Histories
  <2>2. JobsTyped' /\ \A q \in AccountRequests : JobProved(jobs[q])'
    BY <2>1, JobStep, IdleSavesNothing DEF ProofsStay
  <2>3. AccountRowsTyped' /\ VerifiedWasProved'
    BY <2>1 DEF VerifiedInv, AccountRowsTyped, VerifiedWasProved
  <2> QED BY <2>2, <2>3 DEF VerifiedInv
<1> QED BY <1>1, <1>2, <1>3 DEF Change

LEMMA CloseProves ==
    ASSUME VerifiedInv, AccountsAssumption, NEW r \in AccountRequests, Close(r)
    PROVE  VerifiedInv'
<1> DEFINE j == jobs[r]
<1>1. j \in Job /\ j.todo # <<>>
  BY AtIsJob DEF Close, SpendToken, DropTokens, InsertToken, DropOwner,
     RetireVault, DropSchema, DeleteUserRow
<1>2. Advance(r, j)
  BY DEF Close, SpendToken, DropTokens, InsertToken, DropOwner, RetireVault,
     DropSchema, DeleteUserRow, Done, Ignored
<1>3. CASE SpendToken(r) \/ DropTokens(r) \/ InsertToken(r)
  <2>1. UNCHANGED <<users, proved, codes>>
    BY <1>3 DEF SpendToken, DropTokens, InsertToken, Tables, Histories
  <2>2. CASE SpendToken(r) \/ DropTokens(r)
    <3>1. deletions' \subseteq deletions /\ UNCHANGED issued
      BY <2>2 DEF SpendToken, DropTokens
    <3>2. AccountRowsTyped'
      BY <2>1, <3>1 DEF VerifiedInv, AccountRowsTyped
    <3> QED BY <1>1, <1>2, <2>1, <3>2, DoneProves
  <2>3. CASE InsertToken(r)
    <3> DEFINE d == [user |-> j.user, token |-> issued.token + 1, expired |-> FALSE]
    <3>1. j.user \in Ids
      BY <1>1 DEF Job, Ids
    <3>2. issued.token + 1 \in 1..MaxCodes
      BY <2>3, AccountsAssumption DEF InsertToken, VerifiedInv, AccountRowsTyped
    <3>3. d \in [user: Ids, token: 1..MaxCodes, expired: BOOLEAN]
      BY <3>1, <3>2
    <3>4. /\ deletions' = deletions \cup {d}
          /\ issued' = [issued EXCEPT !.token = issued.token + 1]
      BY <2>3 DEF InsertToken
    <3> HIDE DEF d, j
    <3>5. AccountRowsTyped'
      BY <2>1, <3>2, <3>3, <3>4, AccountsAssumption DEF VerifiedInv, AccountRowsTyped
    <3> QED BY <1>1, <1>2, <2>1, <3>5, DoneProves DEF j
  <2> QED BY <1>3, <2>2, <2>3
<1>4. CASE DropOwner(r) \/ RetireVault(r) \/ DropSchema(r)
  <2>1. UNCHANGED <<users, proved, codes, deletions, issued>>
    BY <1>4 DEF DropOwner, RetireVault, DropSchema, Tokens, Histories
  <2>2. AccountRowsTyped'
    BY <2>1 DEF VerifiedInv, AccountRowsTyped
  <2> QED BY <1>1, <1>2, <2>1, <2>2, DoneProves
<1>5. CASE DeleteUserRow(r)
  <2>1. UNCHANGED <<proved, codes, deletions, issued>>
    BY <1>5 DEF DeleteUserRow, Tokens, Histories
  <2>2. ProofsStay /\ JobProved(j)
    BY <2>1 DEF ProofsStay, VerifiedInv
  <2>3. users' = [u \in DOMAIN users \ {j.user} |-> users[u]]
    BY <1>5 DEF DeleteUserRow
  <2> HIDE DEF j
  <2>4. JobsTyped' /\ \A q \in AccountRequests : JobProved(jobs[q])'
    BY <1>1, <1>2, <2>1, <2>2, AdvanceProves DEF JobProved
  <2>5. AccountRowsTyped' /\ VerifiedWasProved'
    BY <2>1, <2>3 DEF VerifiedInv, AccountRowsTyped, VerifiedWasProved
  <2> QED BY <2>4, <2>5 DEF VerifiedInv
<1> QED BY <1>3, <1>4, <1>5 DEF Close

LEMMA ClockProves ==
    ASSUME VerifiedInv, Clock
    PROVE  VerifiedInv'
<1>1. UNCHANGED <<users, proved, jobs, issued>>
  BY DEF Clock, CodeExpires, TokenExpires, DropToken, Tables, Histories
<1>2. codes' \subseteq VerificationCode
  <2>1. ASSUME NEW c \in codes, CodeExpires(c)
        PROVE  codes' \subseteq VerificationCode
    <3>1. [c EXCEPT !.expired = TRUE] \in VerificationCode
      BY DEF VerifiedInv, AccountRowsTyped, VerificationCode
    <3> QED BY <2>1, <3>1 DEF CodeExpires, VerifiedInv, AccountRowsTyped
  <2>2. UNCHANGED codes => codes' \subseteq VerificationCode
    BY DEF VerifiedInv, AccountRowsTyped
  <2> QED BY <2>1, <2>2 DEF Clock, TokenExpires, DropToken
<1>3. deletions' \subseteq [user: Ids, token: 1..MaxCodes, expired: BOOLEAN]
  <2>1. ASSUME NEW d \in deletions, TokenExpires(d) \/ DropToken(d)
        PROVE  deletions' \subseteq [user: Ids, token: 1..MaxCodes, expired: BOOLEAN]
    <3>1. [d EXCEPT !.expired = TRUE] \in [user: Ids, token: 1..MaxCodes, expired: BOOLEAN]
      BY DEF VerifiedInv, AccountRowsTyped
    <3> QED BY <2>1, <3>1 DEF TokenExpires, DropToken, VerifiedInv, AccountRowsTyped
  <2>2. UNCHANGED deletions
           => deletions' \subseteq [user: Ids, token: 1..MaxCodes, expired: BOOLEAN]
    BY DEF VerifiedInv, AccountRowsTyped
  <2> QED BY <2>1, <2>2 DEF Clock, CodeExpires
<1>4. AccountRowsTyped'
  BY <1>1, <1>2, <1>3 DEF VerifiedInv, AccountRowsTyped
<1> QED BY <1>1, <1>4 DEF VerifiedInv, JobsTyped, VerifiedWasProved, JobProved, Saves

-----------------------------------------------------------------------------
LEMMA AccountsStep ==
    ASSUME VerifiedInv, [AccountsNext]_accountVars
    PROVE  VerifiedInv'
<1>1. CASE UNCHANGED accountVars
  BY <1>1 DEF accountVars, VerifiedInv, AccountRowsTyped, JobsTyped, VerifiedWasProved,
     JobProved, Saves
<1> QED BY <1>1, AccountsAssumption, AskProves, CreateProves, ChangeProves,
           CloseProves, ClockProves DEF AccountsNext

LEMMA AccountsInitInv == AccountsInit => VerifiedInv
<1> SUFFICES ASSUME AccountsInit PROVE VerifiedInv
  OBVIOUS
<1>1. AccountRowsTyped /\ VerifiedWasProved
  BY AccountsAssumption DEF AccountsInit, AccountRowsTyped, VerifiedWasProved
<1>2. JobsTyped /\ \A r \in AccountRequests : JobProved(jobs[r])
  BY IdleSavesNothing DEF AccountsInit, JobsTyped, JobProved
<1> QED BY <1>1, <1>2 DEF VerifiedInv

(* Whatever stale rows are saved and whichever deleted rows come back: an  *)
(* account is verified only when its user showed a code sent to the        *)
(* address, or an administrator made it.                                   *)
THEOREM VerifiedByProof == AccountsSpec => []VerifiedWasProved
<1>1. VerifiedInv => VerifiedWasProved
  BY DEF VerifiedInv
<1> QED BY <1>1, AccountsInitInv, AccountsStep, PTL DEF AccountsSpec

-----------------------------------------------------------------------------
(* Requests one by one. *)

DeleteStatements == {"dropOwner", "retireVault", "dropSchema", "deleteUser"}

(* The request still has an account to delete. *)
Closes(todo) == \E i \in 1..Len(todo) : todo[i] \in DeleteStatements

(* b may be the statement after a: a save, a retirement of a vault and a   *)
(* first insert stand first, and the deletion of a row last.               *)
MayFollow(a, b) ==
    /\ b \notin {"insertVault", "saveUser", "retire"}
    /\ b = "createSchema" => a = "insertVault"
    /\ b = "insertUser" => a = "createSchema"
    /\ b = "insertOwner" => a = "insertUser"
    /\ b = "attachVault" => a = "insertOwner"
    /\ b = "insertCode" => a = "dropCodes"
    /\ b = "dropSchema" => a = "retireVault"
    /\ b = "deleteUser" => a = "dropSchema"
    /\ a # "deleteUser"

Follows(todo) == \A i \in 1..(Len(todo) - 1) : MayFollow(todo[i], todo[i + 1])

(* What the statements done before have left behind for the next one.      *)
Ready(next, job) ==
    /\ next = "insertCode" => \A c \in codes : c.email # job.email
    /\ next \in {"createSchema", "insertUser", "retire"} =>
          /\ job.vault \in DOMAIN vaults
          /\ \A u \in DOMAIN users : users[u].vault # job.vault
    /\ next \in {"createSchema", "insertUser"} => job.row.vault = job.vault
    /\ next = "insertUser" => job.row.schema \in schemas
    /\ next \in {"insertOwner", "attachVault"} =>
          /\ job.user \in DOMAIN users
          /\ users[job.user].vault = job.vault
          /\ users[job.user].schema \in schemas
    /\ next = "attachVault" => <<job.vault, job.user>> \in owners
    /\ next = "saveUser" =>
          /\ job.user \in DOMAIN users
          /\ users[job.user].vault = job.row.vault
          /\ users[job.user].schema = job.row.schema
    /\ next \in {"dropSchema", "deleteUser"} =>
          \A v \in DOMAIN vaults : vaults[v].live => vaults[v].owner # job.user

(* The account a request deletes is there, and the vault and the schema it *)
(* takes away are that account's.                                          *)
ClosesOwn(job) ==
    /\ job.user \in DOMAIN users \cap closing
    /\ users[job.user].vault = job.vault
    /\ users[job.user].schema = job.row.schema

JobFits(job) ==
    /\ Ready(Head(job.todo), job)
    /\ Closes(job.todo) => ClosesOwn(job)
    /\ Head(job.todo) \in {"insertVault", "createSchema", "insertUser"} => ~Closes(job.todo)

OneJob ==
    \A r, q \in AccountRequests : jobs[r] # NoJob /\ jobs[q] # NoJob => r = q

(* The tables as requests one by one leave them, whichever of them fail:   *)
(* users share neither vault nor schema, and a live vault that has an      *)
(* owner is that owner's.                                                  *)
RowsInOrder ==
    /\ DOMAIN vaults = 1..issued.vault
    /\ \A v \in DOMAIN vaults : vaults[v] \in [live: BOOLEAN, owner: Ids]
    /\ DOMAIN users \cup opened \subseteq 1..issued.user
    /\ \A u \in DOMAIN users : users[u].vault \in DOMAIN vaults
    /\ \A u, w \in DOMAIN users :
          u # w => users[u].vault # users[w].vault /\ users[u].schema # users[w].schema

LiveAreOwned ==
    \A v \in DOMAIN vaults : vaults[v].live /\ vaults[v].owner # 0 =>
        vaults[v].owner \in DOMAIN users /\ users[vaults[v].owner].vault = v

OpenedAreWhole ==
    \A u \in (opened \ closing) \cap DOMAIN users :
        /\ vaults[users[u].vault] = [live |-> TRUE, owner |-> u]
        /\ <<users[u].vault, u>> \in owners
        /\ users[u].schema \in schemas

OneCodeEach == \A c, d \in codes : c.email = d.email => c = d

JobsFit ==
    \A r \in AccountRequests :
        jobs[r] # NoJob => Follows(jobs[r].todo) /\ JobFits(jobs[r])

TablesInOrder == RowsInOrder /\ LiveAreOwned /\ OpenedAreWhole /\ OneCodeEach

OrderInv ==
    /\ orderly \in BOOLEAN
    /\ orderly => OneJob /\ TablesInOrder /\ JobsFit

-----------------------------------------------------------------------------
(* A step of the only request there is. *)
LEMMA OrderlyStep ==
    ASSUME VerifiedInv, OrderInv, NEW r \in AccountRequests, orderly' \in BOOLEAN,
           \A q \in AccountRequests \ {r} : jobs'[q] = jobs[q],
           orderly' => /\ \A q \in AccountRequests \ {r} : jobs[q] = NoJob
                       /\ TablesInOrder'
                       /\ jobs'[r] # NoJob => Follows(jobs'[r].todo) /\ JobFits(jobs[r])'
    PROVE  OrderInv'
<1>1. ASSUME orderly'
      PROVE  OneJob' /\ JobsFit'
  <2>1. \A q \in AccountRequests \ {r} : jobs'[q] = NoJob
    BY <1>1
  <2>2. OneJob'
    BY <2>1 DEF OneJob
  <2>3. ASSUME NEW q \in AccountRequests, jobs'[q] # NoJob
        PROVE  Follows(jobs'[q].todo) /\ JobFits(jobs[q])'
    <3>1. q = r
      BY <2>1, <2>3
    <3> QED BY <1>1, <2>3, <3>1
  <2> QED BY <2>2, <2>3 DEF JobsFit, Follows
<1> QED BY <1>1 DEF OrderInv

LEMMA AccountAlone ==
    ASSUME OrderInv, orderly, NEW r \in AccountRequests, jobs[r] # NoJob
    PROVE  /\ \A q \in AccountRequests \ {r} : jobs[q] = NoJob
           /\ TablesInOrder /\ Follows(jobs[r].todo) /\ JobFits(jobs[r])
BY DEF OrderInv, OneJob, JobsFit

(* The rest of a list of statements. *)
LEMMA RestOfTodo ==
    ASSUME NEW todo \in Seq(Statements), Len(todo) > 1
    PROVE  /\ Follows(todo) => Follows(Tail(todo)) /\ MayFollow(Head(todo), Head(Tail(todo)))
           /\ Closes(Tail(todo)) => Closes(todo)
<1> DEFINE rest == Tail(todo)
<1>1. Len(rest) = Len(todo) - 1 /\ Len(todo) \in Nat
  OBVIOUS
<1>2. \A i \in 1..Len(rest) : rest[i] = todo[i + 1]
  BY <1>1
<1>3. Head(todo) = todo[1]
  OBVIOUS
<1>4. Head(rest) = rest[1]
  BY <1>1
<1> HIDE DEF rest
<1>5. Head(rest) = todo[2]
  <2>1. 1 \in 1..Len(rest)
    BY <1>1
  <2> QED BY <1>2, <1>4, <2>1
<1>6. ASSUME Follows(todo)
      PROVE  Follows(rest) /\ MayFollow(Head(todo), Head(rest))
  <2>1. ASSUME NEW i \in 1..(Len(rest) - 1)
        PROVE  MayFollow(rest[i], rest[i + 1])
    <3>1. /\ i \in 1..Len(rest) /\ i + 1 \in 1..Len(rest)
          /\ i + 1 \in 1..(Len(todo) - 1)
      BY <1>1
    <3>2. rest[i] = todo[i + 1] /\ rest[i + 1] = todo[(i + 1) + 1]
      BY <1>2, <3>1
    <3>3. MayFollow(todo[i + 1], todo[(i + 1) + 1])
      BY <1>6, <3>1 DEF Follows
    <3> QED BY <3>2, <3>3
  <2>2. MayFollow(todo[1], todo[2])
    <3>1. 1 \in 1..(Len(todo) - 1) /\ 1 + 1 = 2
      BY <1>1
    <3> QED BY <1>6, <3>1 DEF Follows
  <2> QED BY <1>3, <1>5, <2>1, <2>2 DEF Follows
<1>7. ASSUME NEW i \in 1..Len(rest), rest[i] \in DeleteStatements
      PROVE  Closes(todo)
  <2>1. i + 1 \in 1..Len(todo)
    BY <1>1
  <2> QED BY <1>2, <1>7, <2>1 DEF Closes
<1> QED BY <1>6, <1>7 DEF rest, Closes

(* What is left of a job when its first statement is done. *)
LEMMA Onward ==
    ASSUME VerifiedInv, NEW r \in AccountRequests, NEW job \in Job, Advance(r, job)
    PROVE  /\ \A q \in AccountRequests \ {r} : jobs'[q] = jobs[q]
           /\ jobs'[r] # NoJob =>
                 /\ Follows(job.todo) => /\ Follows(jobs'[r].todo)
                                         /\ MayFollow(Head(job.todo), Head(jobs'[r].todo))
                 /\ Closes(jobs'[r].todo) => Closes(job.todo)
                 /\ jobs'[r].user = job.user /\ jobs'[r].vault = job.vault
                 /\ jobs'[r].email = job.email /\ jobs'[r].row = job.row
<1> DEFINE todo == job.todo
           next == [job EXCEPT !.todo = Tail(todo)]
<1>1. jobs \in [AccountRequests -> Job \cup {NoJob}]
  BY DEF VerifiedInv, JobsTyped
<1>2. jobs' = [jobs EXCEPT ![r] = IF Len(todo) <= 1 THEN NoJob ELSE next]
  BY DEF Advance
<1>3. /\ \A q \in AccountRequests \ {r} : jobs'[q] = jobs[q]
      /\ jobs'[r] = IF Len(todo) <= 1 THEN NoJob ELSE next
  BY <1>1, <1>2
<1>4. todo \in Seq(Statements)
  BY DEF Job
<1>5. /\ next.todo = Tail(todo) /\ next.user = job.user /\ next.vault = job.vault
      /\ next.email = job.email /\ next.row = job.row
  BY DEF Job
<1> HIDE DEF todo, next
<1>6. ASSUME jobs'[r] # NoJob
      PROVE  jobs'[r] = next /\ Len(todo) > 1
  <2>1. Len(todo) \in Nat
    BY <1>4
  <2> QED BY <1>3, <1>6, <2>1
<1>7. Len(todo) > 1 =>
         /\ Follows(todo) => Follows(Tail(todo)) /\ MayFollow(Head(todo), Head(Tail(todo)))
         /\ Closes(Tail(todo)) => Closes(todo)
  BY <1>4, RestOfTodo
<1>8. jobs'[r] # NoJob =>
         /\ Follows(todo) => /\ Follows(jobs'[r].todo)
                             /\ MayFollow(Head(todo), Head(jobs'[r].todo))
         /\ Closes(jobs'[r].todo) => Closes(todo)
  BY <1>5, <1>6, <1>7
<1>9. jobs'[r] # NoJob =>
         /\ jobs'[r].user = job.user /\ jobs'[r].vault = job.vault
         /\ jobs'[r].email = job.email /\ jobs'[r].row = job.row
  BY <1>5, <1>6
<1> QED BY <1>3, <1>8, <1>9 DEF todo

(* A statement is done: the tables stay in order, and the next is ready.   *)
LEMMA WorkFits ==
    ASSUME VerifiedInv, OrderInv, NEW r \in AccountRequests, jobs[r] # NoJob,
           NEW job \in Job, job.todo = jobs[r].todo, Advance(r, job),
           orderly' \in BOOLEAN, orderly' => orderly,
           orderly' => /\ TablesInOrder'
                       /\ \A next : MayFollow(Head(job.todo), next) => Ready(next, job)'
                       /\ Closes(job.todo) /\ Head(job.todo) # "deleteUser"
                             => ClosesOwn(job)'
    PROVE  OrderInv'
<1>1. \A q \in AccountRequests \ {r} : jobs'[q] = jobs[q]
  BY Onward
<1>2. ASSUME orderly', jobs'[r] # NoJob
      PROVE  Follows(jobs'[r].todo) /\ JobFits(jobs[r])'
  <2> PICK k : k = jobs'[r]
    OBVIOUS
  <2>1. Follows(job.todo) /\ JobFits(jobs[r])
    BY <1>2, AccountAlone
  <2>2. /\ Follows(k.todo) /\ MayFollow(Head(job.todo), Head(k.todo))
        /\ Closes(k.todo) => Closes(job.todo)
        /\ k.user = job.user /\ k.vault = job.vault
        /\ k.email = job.email /\ k.row = job.row
    BY <1>2, <2>1, Onward
  <2>3. Ready(Head(k.todo), job)'
    BY <1>2, <2>2
  <2>4. Ready(Head(k.todo), k)'
    BY <2>2, <2>3 DEF Ready
  <2>5. Closes(k.todo) => ClosesOwn(k)'
    <3>1. Head(job.todo) # "deleteUser"
      BY <2>2 DEF MayFollow
    <3>2. Closes(k.todo) => ClosesOwn(job)'
      BY <1>2, <2>2, <3>1
    <3> QED BY <2>2, <3>2 DEF ClosesOwn
  <2>6. Head(k.todo) \in {"insertVault", "createSchema", "insertUser"} => ~Closes(k.todo)
    <3>1. Head(k.todo) \in {"insertVault", "createSchema", "insertUser"}
             => Head(job.todo) \in {"insertVault", "createSchema"}
      BY <2>2 DEF MayFollow
    <3> QED BY <2>1, <2>2, <3>1 DEF JobFits
  <2>7. JobFits(k)'
    BY <2>4, <2>5, <2>6 DEF JobFits
  <2> QED BY <2>2, <2>7 DEF JobFits, Ready, ClosesOwn
<1>3. orderly' => \A q \in AccountRequests \ {r} : jobs[q] = NoJob
  BY AccountAlone
<1> QED BY <1>1, <1>2, <1>3, OrderlyStep

(* Only seven statements prepare the one after them. *)
LEMMA NothingToReady ==
    ASSUME NEW a, NEW b, NEW job, MayFollow(a, b),
           a \notin {"dropCodes", "insertVault", "createSchema", "insertUser",
                     "insertOwner", "retireVault", "dropSchema"}
    PROVE  Ready(b, job)'
BY DEF MayFollow, Ready

(* What adds rows and leaves the users their vaults and schemas keeps the  *)
(* tables in order.                                                        *)
LEMMA TablesStay ==
    ASSUME DOMAIN users' = DOMAIN users,
           \A u \in DOMAIN users : /\ users'[u].vault = users[u].vault
                                   /\ users'[u].schema = users[u].schema,
           UNCHANGED <<vaults, opened>>, owners \subseteq owners',
           schemas \subseteq schemas', closing \subseteq closing',
           issued'.user = issued.user, issued'.vault = issued.vault
    PROVE  /\ RowsInOrder => RowsInOrder'
           /\ RowsInOrder /\ LiveAreOwned => LiveAreOwned'
           /\ OpenedAreWhole => OpenedAreWhole'
           /\ \A job : ClosesOwn(job) => ClosesOwn(job)'
<1>1. RowsInOrder => RowsInOrder'
  BY DEF RowsInOrder
<1>2. RowsInOrder /\ LiveAreOwned => LiveAreOwned'
  BY DEF RowsInOrder, LiveAreOwned
<1>3. OpenedAreWhole => OpenedAreWhole'
  BY DEF OpenedAreWhole
<1>4. \A job : ClosesOwn(job) => ClosesOwn(job)'
  BY DEF ClosesOwn
<1> QED BY <1>1, <1>2, <1>3, <1>4

-----------------------------------------------------------------------------
(* The first statement of a request. *)
LEMMA BeginFits ==
    ASSUME VerifiedInv, OrderInv, NEW r \in AccountRequests, NEW job,
           Begin(r, job), UNCHANGED <<Tables, Tokens, issued, opened>>,
           closing \subseteq closing', Follows(job.todo),
           orderly' => JobFits(job)'
    PROVE  OrderInv'
<1>1. /\ \A q \in AccountRequests \ {r} : jobs'[q] = jobs[q]
      /\ jobs'[r] = job
  BY DEF Begin, VerifiedInv, JobsTyped
<1>2. orderly' \in BOOLEAN
  BY DEF Begin, OrderInv
<1>3. ASSUME orderly'
      PROVE  TablesInOrder' /\ \A q \in AccountRequests \ {r} : jobs[q] = NoJob
  <2>1. orderly /\ \A q \in AccountRequests \ {r} : jobs[q] = NoJob
    BY <1>3 DEF Begin
  <2>2. TablesInOrder
    BY <2>1 DEF OrderInv
  <2>3. RowsInOrder' /\ LiveAreOwned' /\ OpenedAreWhole'
    BY <2>2, TablesStay DEF TablesInOrder, Tables
  <2>4. OneCodeEach'
    BY <2>2 DEF TablesInOrder, OneCodeEach, Tokens
  <2> QED BY <2>1, <2>3, <2>4 DEF TablesInOrder
<1>4. orderly' => JobFits(jobs[r])'
  BY <1>1 DEF JobFits, Ready, ClosesOwn
<1> QED BY <1>1, <1>2, <1>3, <1>4, OrderlyStep

(* The lists of statements that requests begin with. *)
LEMMA TodosFollow ==
    /\ \A todo \in {<<"dropCodes", "insertCode">>, <<"dropCodes">>,
                    <<"dropTokens", "insertToken">>} :
          Follows(todo) /\ Head(todo) \in {"dropCodes", "dropTokens"} /\ ~Closes(todo)
    /\ \A todo \in {<<"saveUser", "dropCodes">>, <<"saveUser">>} :
          Follows(todo) /\ Head(todo) = "saveUser" /\ ~Closes(todo)
    /\ Follows(<<"retire">>) /\ Head(<<"retire">>) = "retire" /\ ~Closes(<<"retire">>)
<1>1. ASSUME NEW a, NEW b, MayFollow(a, b), {a, b} \cap DeleteStatements = {}
      PROVE  Follows(<<a, b>>) /\ Head(<<a, b>>) = a /\ ~Closes(<<a, b>>)
  <2>1. Len(<<a, b>>) = 2 /\ <<a, b>>[1] = a /\ <<a, b>>[2] = b
    OBVIOUS
  <2>2. Head(<<a, b>>) = a
    OBVIOUS
  <2> DEFINE t == <<a, b>>
  <2> HIDE DEF t
  <2>3. Len(t) = 2 /\ t[1] = a /\ t[2] = b /\ Head(t) = a
    BY <2>1, <2>2 DEF t
  <2>4. Follows(t)
    <3>1. ASSUME NEW i \in 1..(Len(t) - 1)
          PROVE  MayFollow(t[i], t[i + 1])
      <4>1. i = 1 /\ i + 1 = 2
        BY <2>3
      <4> QED BY <1>1, <2>3, <4>1
    <3> QED BY <3>1 DEF Follows
  <2>5. ~Closes(t)
    <3>1. ASSUME NEW i \in 1..Len(t)
          PROVE  t[i] \notin DeleteStatements
      <4>1. i = 1 \/ i = 2
        BY <2>3
      <4> QED BY <1>1, <2>3, <4>1
    <3> QED BY <3>1 DEF Closes
  <2> QED BY <2>3, <2>4, <2>5 DEF t
<1>2. ASSUME NEW a, a \notin DeleteStatements
      PROVE  Follows(<<a>>) /\ Head(<<a>>) = a /\ ~Closes(<<a>>)
  <2>1. Len(<<a>>) = 1 /\ <<a>>[1] = a /\ Head(<<a>>) = a
    OBVIOUS
  <2> DEFINE t == <<a>>
  <2> HIDE DEF t
  <2>2. Len(t) = 1 /\ t[1] = a /\ Head(t) = a
    BY <2>1 DEF t
  <2>3. 1..(Len(t) - 1) = {} /\ \A i \in 1..Len(t) : i = 1
    BY <2>2
  <2>4. Follows(t) /\ ~Closes(t)
    BY <1>2, <2>2, <2>3 DEF Follows, Closes
  <2> QED BY <2>2, <2>4 DEF t
<1>3. /\ MayFollow("dropCodes", "insertCode")
      /\ MayFollow("dropTokens", "insertToken")
      /\ MayFollow("saveUser", "dropCodes")
      /\ {"dropCodes", "insertCode"} \cap DeleteStatements = {}
      /\ {"dropTokens", "insertToken"} \cap DeleteStatements = {}
      /\ {"saveUser", "dropCodes"} \cap DeleteStatements = {}
      /\ "retire" \notin DeleteStatements
  BY DEF MayFollow, DeleteStatements
<1>4. \A todo \in {<<"dropCodes", "insertCode">>, <<"dropCodes">>,
                    <<"dropTokens", "insertToken">>} :
          Follows(todo) /\ Head(todo) \in {"dropCodes", "dropTokens"} /\ ~Closes(todo)
  BY <1>1, <1>2, <1>3
<1>5. \A todo \in {<<"saveUser", "dropCodes">>, <<"saveUser">>} :
          Follows(todo) /\ Head(todo) = "saveUser" /\ ~Closes(todo)
  BY <1>1, <1>2, <1>3
<1> QED BY <1>2, <1>3, <1>4, <1>5

(* One list of statements after the other. *)
LEMMA JoinedFollows ==
    ASSUME NEW s \in Seq(Statements), NEW t \in Seq(Statements),
           Follows(s), Follows(t), s # <<>>,
           t # <<>> => MayFollow(s[Len(s)], t[1])
    PROVE  /\ Follows(s \o t) /\ Head(s \o t) = Head(s)
           /\ ~Closes(s) /\ ~Closes(t) => ~Closes(s \o t)
<1> DEFINE st == s \o t
<1>1. Len(st) = Len(s) + Len(t) /\ Len(s) \in Nat /\ Len(t) \in Nat /\ Len(s) > 0
  OBVIOUS
<1>2. \A i \in 1..Len(st) : st[i] = IF i <= Len(s) THEN s[i] ELSE t[i - Len(s)]
  OBVIOUS
<1>3. Head(st) = st[1] /\ Head(s) = s[1]
  OBVIOUS
<1>4. t # <<>> <=> Len(t) > 0
  OBVIOUS
<1> HIDE DEF st
<1>5. Head(st) = Head(s)
  <2>1. 1 \in 1..Len(st) /\ 1 <= Len(s)
    BY <1>1
  <2> QED BY <1>2, <1>3, <2>1
<1>6. ASSUME NEW i \in 1..(Len(st) - 1)
      PROVE  MayFollow(st[i], st[i + 1])
  <2>0. i \in 1..Len(st) /\ i + 1 \in 1..Len(st)
    BY <1>1
  <2>1. CASE i < Len(s)
    <3>1. i \in 1..(Len(s) - 1) /\ i <= Len(s) /\ i + 1 <= Len(s)
      BY <1>1, <2>1
    <3>2. st[i] = s[i] /\ st[i + 1] = s[i + 1]
      BY <1>2, <2>0, <3>1
    <3> QED BY <3>1, <3>2 DEF Follows
  <2>2. CASE i = Len(s)
    <3>1. i <= Len(s) /\ ~(i + 1 <= Len(s)) /\ (i + 1) - Len(s) = 1 /\ Len(t) > 0
      BY <1>1, <2>2
    <3>2. st[i] = s[Len(s)] /\ st[i + 1] = t[1]
      BY <1>2, <2>0, <2>2, <3>1
    <3> QED BY <1>4, <3>1, <3>2
  <2>3. CASE i > Len(s)
    <3> PICK k : k = i - Len(s)
      OBVIOUS
    <3>1. /\ k \in 1..(Len(t) - 1) /\ ~(i <= Len(s)) /\ ~(i + 1 <= Len(s))
          /\ (i + 1) - Len(s) = k + 1
      BY <1>1, <2>3
    <3>2. st[i] = t[k] /\ st[i + 1] = t[k + 1]
      BY <1>2, <2>0, <3>1
    <3> QED BY <3>1, <3>2 DEF Follows
  <2> QED BY <1>1, <2>1, <2>2, <2>3
<1>7. ASSUME ~Closes(s), ~Closes(t), NEW i \in 1..Len(st)
      PROVE  st[i] \notin DeleteStatements
  <2>1. CASE i <= Len(s)
    <3>1. i \in 1..Len(s) /\ st[i] = s[i]
      BY <1>1, <1>2, <2>1
    <3> QED BY <1>7, <3>1 DEF Closes
  <2>2. CASE ~(i <= Len(s))
    <3>1. i - Len(s) \in 1..Len(t) /\ st[i] = t[i - Len(s)]
      BY <1>1, <1>2, <2>2
    <3> QED BY <1>7, <3>1 DEF Closes
  <2> QED BY <2>1, <2>2
<1> QED BY <1>5, <1>6, <1>7 DEF Follows, Closes, st

(* The steps of a creation. *)
LEMMA CreatingFollows ==
    ASSUME NEW after \in {<<>>, <<"dropCodes", "insertCode">>},
           NEW todo, todo = <<"insertVault", "createSchema", "insertUser",
                              "insertOwner", "attachVault">> \o after
    PROVE  Follows(todo) /\ Head(todo) = "insertVault" /\ ~Closes(todo)
<1> DEFINE first == <<"insertVault", "createSchema", "insertUser",
                      "insertOwner", "attachVault">>
<1>1. /\ first \in Seq(Statements) /\ Len(first) = 5 /\ Head(first) = "insertVault"
      /\ first[1] = "insertVault" /\ first[2] = "createSchema"
      /\ first[3] = "insertUser" /\ first[4] = "insertOwner"
      /\ first[5] = "attachVault" /\ first # <<>>
  BY DEF Statements
<1>2. todo = first \o after
  OBVIOUS
<1> HIDE DEF first
<1>3. /\ MayFollow("insertVault", "createSchema")
      /\ MayFollow("createSchema", "insertUser")
      /\ MayFollow("insertUser", "insertOwner")
      /\ MayFollow("insertOwner", "attachVault")
      /\ MayFollow("attachVault", "dropCodes")
  BY DEF MayFollow
<1>4. Follows(first)
  <2>1. ASSUME NEW i \in 1..(Len(first) - 1)
        PROVE  MayFollow(first[i], first[i + 1])
    <3>1. \/ i = 1 /\ i + 1 = 2
          \/ i = 2 /\ i + 1 = 3
          \/ i = 3 /\ i + 1 = 4
          \/ i = 4 /\ i + 1 = 5
      BY <1>1
    <3> QED BY <1>1, <1>3, <3>1
  <2> QED BY <2>1 DEF Follows
<1>5. ~Closes(first)
  <2>1. ASSUME NEW i \in 1..Len(first)
        PROVE  first[i] \notin DeleteStatements
    <3>1. i = 1 \/ i = 2 \/ i = 3 \/ i = 4 \/ i = 5
      BY <1>1
    <3> QED BY <1>1, <3>1 DEF DeleteStatements
  <2> QED BY <2>1 DEF Closes
<1>6. /\ after \in Seq(Statements) /\ Follows(after) /\ ~Closes(after)
      /\ after # <<>> => after[1] = "dropCodes"
  <2>1. CASE after = <<>>
    <3>1. after \in Seq(Statements) /\ Len(after) = 0
      BY <2>1
    <3>2. 1..(Len(after) - 1) = {} /\ 1..Len(after) = {}
      BY <3>1
    <3> QED BY <2>1, <3>1, <3>2 DEF Follows, Closes
  <2>2. CASE after = <<"dropCodes", "insertCode">>
    <3>1. after \in Seq(Statements) /\ after[1] = "dropCodes"
      BY <2>2 DEF Statements
    <3> QED BY <2>2, <3>1, TodosFollow
  <2> QED BY <2>1, <2>2
<1> QED BY <1>1, <1>2, <1>3, <1>4, <1>5, <1>6, JoinedFollows

(* The steps of a deletion. *)
LEMMA DeleteFollows ==
    /\ Follows(DeleteSteps) /\ Head(DeleteSteps) = "dropOwner"
    /\ LET todo == <<"spendToken", "dropTokens">> \o DeleteSteps
       IN  Follows(todo) /\ Head(todo) = "spendToken"
<1>1. /\ DeleteSteps \in Seq(Statements) /\ Len(DeleteSteps) = 4
      /\ Head(DeleteSteps) = "dropOwner" /\ DeleteSteps[1] = "dropOwner"
      /\ DeleteSteps[2] = "retireVault" /\ DeleteSteps[3] = "dropSchema"
      /\ DeleteSteps[4] = "deleteUser"
  BY DEF DeleteSteps, Statements
<1>2. /\ MayFollow("dropOwner", "retireVault") /\ MayFollow("retireVault", "dropSchema")
      /\ MayFollow("dropSchema", "deleteUser") /\ MayFollow("dropTokens", "dropOwner")
      /\ MayFollow("spendToken", "dropTokens")
  BY DEF MayFollow
<1>3. Follows(DeleteSteps)
  <2>1. ASSUME NEW i \in 1..(Len(DeleteSteps) - 1)
        PROVE  MayFollow(DeleteSteps[i], DeleteSteps[i + 1])
    <3>1. \/ i = 1 /\ i + 1 = 2
          \/ i = 2 /\ i + 1 = 3
          \/ i = 3 /\ i + 1 = 4
      BY <1>1
    <3> QED BY <1>1, <1>2, <3>1
  <2> QED BY <2>1 DEF Follows
<1> DEFINE first == <<"spendToken", "dropTokens">>
<1>4. /\ first \in Seq(Statements) /\ Len(first) = 2 /\ Head(first) = "spendToken"
      /\ first[1] = "spendToken" /\ first[2] = "dropTokens" /\ first # <<>>
  BY DEF Statements
<1> HIDE DEF first
<1>5. Follows(first)
  <2>1. ASSUME NEW i \in 1..(Len(first) - 1)
        PROVE  MayFollow(first[i], first[i + 1])
    <3>1. i = 1 /\ i + 1 = 2
      BY <1>4
    <3> QED BY <1>2, <1>4, <3>1
  <2> QED BY <2>1 DEF Follows
<1>6. Follows(first \o DeleteSteps) /\ Head(first \o DeleteSteps) = "spendToken"
  BY <1>1, <1>2, <1>3, <1>4, <1>5, JoinedFollows
<1> QED BY <1>1, <1>3, <1>6 DEF first

(* A request that touches no rows, or saves the row of a user with its     *)
(* vault and schema, or deletes a user.                                    *)
LEMMA PlainFits ==
    ASSUME NEW job, Head(job.todo) \in {"insertVault", "dropCodes", "dropTokens"},
           ~Closes(job.todo)
    PROVE  JobFits(job)'
BY DEF JobFits, Ready

LEMMA RowJobFits ==
    ASSUME NEW u \in DOMAIN users, NEW todo, NEW row, NEW token, UNCHANGED users,
           row.vault = users[u].vault, row.schema = users[u].schema,
           \/ Head(todo) \in {"dropCodes", "dropTokens", "saveUser"} /\ ~Closes(todo)
           \/ Head(todo) \in {"dropOwner", "spendToken"} /\ u \in closing'
    PROVE  JobFits(JobFor(u, todo, row, token))'
<1> PICK job : job = JobFor(u, todo, row, token)
  OBVIOUS
<1>1. /\ job.todo = todo /\ job.user = u /\ job.vault = row.vault /\ job.row = row
  BY DEF JobFor
<1>2. Ready(Head(todo), job)'
  BY <1>1 DEF Ready
<1>3. Closes(todo) => ClosesOwn(job)'
  BY <1>1 DEF ClosesOwn
<1>4. Head(todo) \notin {"insertVault", "createSchema", "insertUser"}
  OBVIOUS
<1>5. JobFits(job)'
  BY <1>1, <1>2, <1>3, <1>4 DEF JobFits
<1> QED BY <1>5 DEF JobFits, Ready, ClosesOwn

LEMMA PlainBegins ==
    ASSUME VerifiedInv, OrderInv, NEW r \in AccountRequests, NEW job, Begin(r, job),
           UNCHANGED <<Tables, Tokens, issued, opened>>, closing \subseteq closing',
           Head(job.todo) \in {"insertVault", "dropCodes", "dropTokens"},
           ~Closes(job.todo), Follows(job.todo)
    PROVE  OrderInv'
<1>1. JobFits(job)'
  BY PlainFits
<1> QED BY <1>1, BeginFits

(* A request about a user: it finds the tables in order. *)
LEMMA RowBegins ==
    ASSUME VerifiedInv, OrderInv, NEW r \in AccountRequests,
           NEW u \in DOMAIN users, NEW todo, NEW row, NEW token,
           Begin(r, JobFor(u, todo, row, token)),
           UNCHANGED <<Tables, Tokens, issued, opened>>, closing \subseteq closing',
           row.vault = users[u].vault, row.schema = users[u].schema, Follows(todo),
           \/ Head(todo) \in {"dropCodes", "dropTokens", "saveUser"} /\ ~Closes(todo)
           \/ Head(todo) \in {"dropOwner", "spendToken"} /\ u \in closing'
    PROVE  OrderInv'
<1> PICK job : job = JobFor(u, todo, row, token)
  OBVIOUS
<1>1. JobFits(JobFor(u, todo, row, token))'
  BY RowJobFits DEF Tables
<1>2. JobFits(job)'
  BY <1>1 DEF JobFits, Ready, ClosesOwn
<1>3. job.todo = todo /\ Begin(r, job)
  BY DEF JobFor
<1> QED BY <1>2, <1>3, BeginFits

LEMMA AskFits ==
    ASSUME VerifiedInv, OrderInv, AccountsAssumption,
           NEW r \in AccountRequests, Ask(r)
    PROVE  OrderInv'
<1>1. UNCHANGED <<Tables, Tokens, issued, opened>> /\ closing \subseteq closing'
  BY DEF Ask, SignUp, CreateByAdmin, ResendCode, RequestRecoveryDelete, UpdateUser,
     StoreRSAKeys, SavingRow, DeleteUser, VerifyCode, ConfirmRecoveryDelete, Histories
<1>2. ASSUME NEW u \in DOMAIN users
      PROVE  users[u] \in Account
  BY DEF VerifiedInv, AccountRowsTyped
<1>3. ASSUME NEW a, NEW verified, NEW after \in {<<>>, <<"dropCodes", "insertCode">>},
             Begin(r, Creating(a, verified, after))
      PROVE  OrderInv'
  <2> DEFINE todo == <<"insertVault", "createSchema", "insertUser",
                       "insertOwner", "attachVault">> \o after
  <2>1. Follows(todo) /\ Head(todo) = "insertVault" /\ ~Closes(todo)
    BY CreatingFollows
  <2> PICK job : job = Creating(a, verified, after)
    OBVIOUS
  <2>2. job.todo = todo
    BY DEF Creating
  <2> HIDE DEF todo
  <2>3. JobFits(job)'
    BY <2>1, <2>2, PlainFits
  <2> QED BY <1>1, <1>3, <2>1, <2>2, <2>3, BeginFits
<1>4. ASSUME NEW e \in Emails, SignUp(r, e) \/ CreateByAdmin(r, e)
      PROVE  OrderInv'
  BY <1>3, <1>4 DEF SignUp, CreateByAdmin
<1>5. ASSUME NEW e \in Emails, ResendCode(r, e) \/ RequestRecoveryDelete(r, e)
      PROVE  OrderInv'
  <2> PICK u : u = GetByEmail(e)
    OBVIOUS
  <2>1. u \in DOMAIN users
    BY <1>5, NamedIsUser DEF ResendCode, RequestRecoveryDelete
  <2>2. PICK todo \in {<<"dropCodes", "insertCode">>, <<"dropTokens", "insertToken">>} :
           Begin(r, JobFor(u, todo, users[u], 0))
    BY <1>5 DEF ResendCode, RequestRecoveryDelete
  <2>3. Follows(todo) /\ Head(todo) \in {"dropCodes", "dropTokens"} /\ ~Closes(todo)
    BY TodosFollow
  <2> QED BY <1>1, <2>1, <2>2, <2>3, RowBegins
<1>6. ASSUME NEW u \in DOMAIN users, NEW row, SavingRow(r, u, row),
             row.vault = users[u].vault, row.schema = users[u].schema
      PROVE  OrderInv'
  <2>1. /\ Follows(<<"saveUser">>) /\ Head(<<"saveUser">>) = "saveUser"
        /\ ~Closes(<<"saveUser">>)
    BY TodosFollow
  <2> PICK todo : todo = <<"saveUser">>
    OBVIOUS
  <2>2. Begin(r, JobFor(u, todo, row, 0))
    BY <1>6 DEF SavingRow
  <2> QED BY <1>1, <1>6, <2>1, <2>2, RowBegins
<1>7. ASSUME NEW u \in DOMAIN users, NEW e \in Emails, UpdateUser(r, u, e)
      PROVE  OrderInv'
  <2> PICK row : row = [users[u] EXCEPT !.email = e]
    OBVIOUS
  <2>1. row.vault = users[u].vault /\ row.schema = users[u].schema
    BY <1>2 DEF Account
  <2> QED BY <1>6, <1>7, <2>1 DEF UpdateUser
<1>8. ASSUME NEW u \in DOMAIN users, StoreRSAKeys(r, u)
      PROVE  OrderInv'
  <2> PICK row : row = [users[u] EXCEPT !.keys = TRUE]
    OBVIOUS
  <2>1. row.vault = users[u].vault /\ row.schema = users[u].schema
    BY <1>2 DEF Account
  <2> QED BY <1>6, <1>8, <2>1 DEF StoreRSAKeys
<1>9. ASSUME NEW u \in DOMAIN users, DeleteUser(r, u)
      PROVE  OrderInv'
  <2>1. Begin(r, JobFor(u, DeleteSteps, users[u], 0)) /\ u \in closing'
    BY <1>9 DEF DeleteUser
  <2> QED BY <1>1, <2>1, DeleteFollows, RowBegins
<1>10. ASSUME NEW d \in deletions, ConfirmRecoveryDelete(r, d)
       PROVE  OrderInv'
  <2> PICK todo : todo = <<"spendToken", "dropTokens">> \o DeleteSteps
    OBVIOUS
  <2> PICK u : u = d.user
    OBVIOUS
  <2>1. /\ u \in DOMAIN users /\ u \in closing'
        /\ Begin(r, JobFor(u, todo, users[u], d.token))
    BY <1>10 DEF ConfirmRecoveryDelete
  <2>2. Follows(todo) /\ Head(todo) = "spendToken"
    BY DeleteFollows
  <2> QED BY <1>1, <2>1, <2>2, RowBegins
<1>11. ASSUME NEW c \in codes, VerifyCode(r, c)
       PROVE  OrderInv'
  <2> PICK drop : drop = <<"dropCodes">>
    OBVIOUS
  <2>1. Follows(drop) /\ Head(drop) \in {"dropCodes", "dropTokens"} /\ ~Closes(drop)
    BY TodosFollow
  <2>2. CASE c.expired
    <3> PICK old : old = JobFor(0, drop, NewAccount(c.email, FALSE), 0)
      OBVIOUS
    <3> PICK job : job = [old EXCEPT !.vault = 0]
      OBVIOUS
    <3>1. Begin(r, job)
      BY <1>11, <2>2 DEF VerifyCode
    <3>2. job.todo = drop
      <4>1. old.todo = drop /\ "todo" \in DOMAIN old
        BY DEF JobFor
      <4> QED BY <4>1
    <3>3. /\ Head(job.todo) \in {"insertVault", "dropCodes", "dropTokens"}
          /\ ~Closes(job.todo) /\ Follows(job.todo)
      BY <2>1, <3>2
    <3> QED BY <1>1, <3>1, <3>3, PlainBegins, Zenon
  <2>3. CASE ~c.expired
    <3> PICK u : u = GetByEmail(c.email)
      OBVIOUS
    <3>1. u \in DOMAIN users
      BY <1>11, <2>3, NamedIsUser DEF VerifyCode
    <3>2. CASE users[u].verified
      <4>1. Begin(r, JobFor(u, drop, users[u], 0))
        BY <1>11, <2>3, <3>2 DEF VerifyCode
      <4> QED BY <1>1, <2>1, <3>1, <4>1, RowBegins
    <3>3. CASE ~users[u].verified
      <4> PICK row : row = [users[u] EXCEPT !.verified = TRUE]
        OBVIOUS
      <4> PICK todo : todo = <<"saveUser", "dropCodes">>
        OBVIOUS
      <4>1. Begin(r, JobFor(u, todo, row, c.code))
        BY <1>11, <2>3, <3>3 DEF VerifyCode
      <4>2. row.vault = users[u].vault /\ row.schema = users[u].schema
        BY <1>2, <3>1 DEF Account
      <4>3. Follows(todo) /\ Head(todo) = "saveUser" /\ ~Closes(todo)
        BY TodosFollow
      <4> QED BY <1>1, <3>1, <4>1, <4>2, <4>3, RowBegins
    <3> QED BY <3>2, <3>3
  <2> QED BY <2>2, <2>3
<1> QED BY <1>4, <1>5, <1>7, <1>8, <1>9, <1>10, <1>11 DEF Ask

-----------------------------------------------------------------------------
(* The statements that follow, one by one. *)

(* What the request at a statement finds. *)
LEMMA Working ==
    ASSUME VerifiedInv, OrderInv, NEW r \in AccountRequests, NEW s, At(r, s)
    PROVE  /\ jobs[r] \in Job /\ jobs[r] # NoJob /\ Head(jobs[r].todo) = s
           /\ s \in DeleteStatements => Closes(jobs[r].todo)
           /\ orderly => /\ TablesInOrder /\ Ready(s, jobs[r])
                         /\ Closes(jobs[r].todo) => ClosesOwn(jobs[r])
                         /\ s \in {"insertVault", "createSchema", "insertUser"}
                               => ~Closes(jobs[r].todo)
<1>1. jobs[r] \in Job /\ jobs[r].todo # <<>> /\ Head(jobs[r].todo) = s
  BY AtIsJob
<1>2. jobs[r] # NoJob
  BY <1>1 DEF NoJob
<1>3. s \in DeleteStatements => Closes(jobs[r].todo)
  <2> PICK todo : todo = jobs[r].todo
    OBVIOUS
  <2>1. todo \in Seq(Statements) /\ todo # <<>>
    BY <1>1 DEF Job
  <2>2. 1 \in 1..Len(todo) /\ Head(todo) = todo[1]
    BY <2>1
  <2> QED BY <1>1, <2>2 DEF Closes
<1> QED BY <1>1, <1>2, <1>3, AccountAlone DEF JobFits

(* A statement may be the end of orderly requests, never their beginning.  *)
LEMMA OrderlyOrNot ==
    ASSUME OrderInv, (UNCHANGED orderly) \/ orderly' = FALSE
    PROVE  orderly' \in BOOLEAN /\ (orderly' => orderly)
<1>1. CASE UNCHANGED orderly
  BY <1>1 DEF OrderInv
<1>2. CASE orderly' = FALSE
  BY <1>2
<1> QED BY <1>1, <1>2

LEMMA InsertVaultFits ==
    ASSUME VerifiedInv, OrderInv, NEW r \in AccountRequests, InsertVault(r)
    PROVE  OrderInv'
<1> PICK j : j = jobs[r]
  OBVIOUS
<1> PICK v : v = issued.vault + 1
  OBVIOUS
<1> PICK row : row = [j.row EXCEPT !.vault = v]
  OBVIOUS
<1> PICK job : job = WithVault(j, v, row)
  OBVIOUS
<1>1. /\ j \in Job /\ j # NoJob /\ Head(j.todo) = "insertVault"
      /\ orderly => TablesInOrder /\ ~Closes(j.todo)
  BY Working DEF InsertVault
<1>2. v \in VaultIds /\ row \in Account /\ row.vault = v
  <2>1. v \in VaultIds
    BY AccountsAssumption DEF InsertVault, VerifiedInv, AccountRowsTyped, VaultIds
  <2>2. j.row \in Account
    BY <1>1 DEF Job
  <2> QED BY <2>1, <2>2 DEF Account
<1>3. /\ job \in Job /\ job.todo = j.todo /\ job.row = row /\ job.vault = v
  BY <1>1, <1>2, JobOfVault
<1>4. Advance(r, job)
  BY <1>1 DEF InsertVault, WithVault, Job
<1>5. /\ vaults' = [w \in DOMAIN vaults \cup {v} |->
                      IF w = v THEN [live |-> TRUE, owner |-> 0] ELSE vaults[w]]
      /\ issued' = [issued EXCEPT !.vault = v]
      /\ UNCHANGED <<users, owners, schemas, codes, deletions, opened, closing, orderly>>
  BY DEF InsertVault, Tokens, Histories
<1>6. ASSUME orderly'
      PROVE  /\ TablesInOrder'
             /\ \A next : MayFollow("insertVault", next) => Ready(next, job)'
  <2>1. TablesInOrder /\ issued.vault \in Nat /\ issued.user \in Nat
    BY <1>1, <1>5, <1>6, AccountsAssumption DEF VerifiedInv, AccountRowsTyped
  <2>2. /\ issued'.vault = v /\ issued'.user = issued.user
        /\ DOMAIN vaults' = DOMAIN vaults \cup {v}
        /\ vaults'[v] = [live |-> TRUE, owner |-> 0]
        /\ v \notin DOMAIN vaults
        /\ DOMAIN vaults' = 1..v
        /\ \A w \in DOMAIN vaults : vaults'[w] = vaults[w]
    BY <1>5, <2>1 DEF TablesInOrder, RowsInOrder, VerifiedInv, AccountRowsTyped
  <2>3. RowsInOrder'
    BY <1>5, <2>1, <2>2 DEF TablesInOrder, RowsInOrder, Ids
  <2>4. LiveAreOwned'
    BY <1>5, <2>1, <2>2 DEF TablesInOrder, LiveAreOwned
  <2>5. OpenedAreWhole'
    BY <1>5, <2>1, <2>2 DEF TablesInOrder, RowsInOrder, OpenedAreWhole
  <2>6. OneCodeEach'
    BY <1>5, <2>1 DEF TablesInOrder, OneCodeEach
  <2>7. ASSUME NEW next, MayFollow("insertVault", next)
        PROVE  Ready(next, job)'
    <3>1. v \in DOMAIN vaults' /\ \A u \in DOMAIN users' : users'[u].vault # v
      BY <1>5, <2>1, <2>2 DEF TablesInOrder, RowsInOrder
    <3> QED BY <1>2, <1>3, <2>7, <3>1 DEF MayFollow, Ready
  <2> QED BY <2>3, <2>4, <2>5, <2>6, <2>7 DEF TablesInOrder
<1> QED BY <1>1, <1>3, <1>4, <1>5, <1>6, WorkFits DEF OrderInv

(* A statement whose job goes on as it is. *)
LEMMA DoneFits ==
    ASSUME VerifiedInv, OrderInv, NEW r \in AccountRequests, NEW s, At(r, s), Done(r),
           orderly' \in BOOLEAN, orderly' => orderly,
           NEW j, j = jobs[r],
           orderly' => /\ TablesInOrder'
                       /\ \A next : MayFollow(s, next) => Ready(next, j)'
                       /\ Closes(j.todo) /\ s # "deleteUser" => ClosesOwn(j)'
    PROVE  OrderInv'
<1>1. j \in Job /\ jobs[r] # NoJob /\ Head(j.todo) = s /\ Advance(r, j)
  BY Working DEF Done
<1> QED BY <1>1, WorkFits

(* A statement that leaves the tables alone, or adds to them. *)
LEMMA StayFits ==
    ASSUME VerifiedInv, OrderInv, NEW r \in AccountRequests, NEW s, At(r, s), Done(r),
           orderly' \in BOOLEAN, orderly' => orderly, NEW j, j = jobs[r],
           UNCHANGED <<users, vaults, opened, closing>>, owners \subseteq owners',
           schemas \subseteq schemas',
           issued'.user = issued.user, issued'.vault = issued.vault,
           orderly' => /\ OneCodeEach'
                       /\ \A next : MayFollow(s, next) => Ready(next, j)'
    PROVE  OrderInv'
<1>1. ASSUME orderly'
      PROVE  TablesInOrder' /\ (Closes(j.todo) => ClosesOwn(j)')
  <2>1. TablesInOrder /\ (Closes(j.todo) => ClosesOwn(j))
    BY <1>1, Working
  <2> QED BY <1>1, <2>1, TablesStay DEF TablesInOrder
<1> QED BY <1>1, DoneFits

LEMMA CreateSchemaFits ==
    ASSUME VerifiedInv, OrderInv, NEW r \in AccountRequests, CreateSchema(r)
    PROVE  OrderInv'
<1> PICK j : j = jobs[r]
  OBVIOUS
<1>1. /\ At(r, "createSchema") /\ Done(r) /\ schemas' = schemas \cup {j.row.schema}
      /\ UNCHANGED <<users, vaults, owners, codes, issued, opened, closing, orderly>>
  BY DEF CreateSchema, Tokens, Histories
<1>2. ASSUME orderly'
      PROVE  /\ OneCodeEach'
             /\ \A next : MayFollow("createSchema", next) => Ready(next, j)'
  <2>1. TablesInOrder /\ Ready("createSchema", j)
    BY <1>1, <1>2, Working
  <2>2. OneCodeEach'
    BY <1>1, <2>1 DEF TablesInOrder, OneCodeEach
  <2>3. ASSUME NEW next, MayFollow("createSchema", next)
        PROVE  Ready(next, j)'
    BY <1>1, <2>1, <2>3 DEF MayFollow, Ready
  <2> QED BY <2>2, <2>3
<1>3. orderly' \in BOOLEAN
  BY <1>1 DEF OrderInv
<1> QED BY <1>1, <1>2, <1>3, StayFits

LEMMA InsertUserFits ==
    ASSUME VerifiedInv, OrderInv, NEW r \in AccountRequests, InsertUser(r)
    PROVE  OrderInv'
<1> PICK j : j = jobs[r]
  OBVIOUS
<1> PICK u : u = issued.user + 1
  OBVIOUS
<1> PICK job : job = WithUser(j, u)
  OBVIOUS
<1>1. /\ j \in Job /\ j # NoJob /\ Head(j.todo) = "insertUser"
      /\ orderly => TablesInOrder /\ Ready("insertUser", j) /\ ~Closes(j.todo)
  BY Working DEF InsertUser
<1>2. u \in UserIds
  BY AccountsAssumption DEF InsertUser, VerifiedInv, AccountRowsTyped, UserIds
<1>3. /\ job \in Job /\ job.todo = j.todo /\ job.row = j.row /\ job.vault = j.vault
      /\ job.user = u
  BY <1>1, <1>2, JobOfUser
<1>4. Advance(r, job)
  BY DEF InsertUser, WithUser
<1>5. /\ users' = [w \in DOMAIN users \cup {u} |-> IF w = u THEN j.row ELSE users[w]]
      /\ issued' = [issued EXCEPT !.user = u]
      /\ Unique(0, j.row)
      /\ UNCHANGED <<vaults, owners, schemas, codes, deletions, opened, closing, orderly>>
  BY DEF InsertUser, Put, Tokens
<1>6. ASSUME orderly'
      PROVE  /\ TablesInOrder'
             /\ \A next : MayFollow("insertUser", next) => Ready(next, job)'
  <2>1. TablesInOrder /\ issued.user \in Nat /\ issued.vault \in Nat
    BY <1>1, <1>5, <1>6, AccountsAssumption DEF VerifiedInv, AccountRowsTyped
  <2>2. /\ j.vault \in DOMAIN vaults /\ j.row.vault = j.vault /\ j.row.schema \in schemas
        /\ \A w \in DOMAIN users : users[w].vault # j.vault
    BY <1>1, <1>5, <1>6 DEF Ready
  <2>3. /\ u \notin DOMAIN users /\ u \notin opened /\ 0 \notin DOMAIN users
        /\ issued'.user = u /\ issued'.vault = issued.vault
        /\ DOMAIN users' = DOMAIN users \cup {u} /\ users'[u] = j.row
        /\ \A w \in DOMAIN users : users'[w] = users[w] /\ w # u
        /\ DOMAIN users' \cup opened' \subseteq 1..u
    BY <1>5, <2>1 DEF TablesInOrder, RowsInOrder, VerifiedInv, AccountRowsTyped
  <2>4. \A w \in DOMAIN users : users[w].schema # j.row.schema
    BY <1>5, <2>3 DEF Unique
  <2>5. RowsInOrder'
    <3>1. \A w \in DOMAIN users' : users'[w].vault \in DOMAIN vaults'
      BY <1>5, <2>1, <2>2, <2>3 DEF TablesInOrder, RowsInOrder
    <3>2. ASSUME NEW w \in DOMAIN users', NEW x \in DOMAIN users', w # x
          PROVE  users'[w].vault # users'[x].vault /\ users'[w].schema # users'[x].schema
      BY <2>1, <2>2, <2>3, <2>4, <3>2 DEF TablesInOrder, RowsInOrder
    <3> QED BY <1>5, <2>1, <2>3, <3>1, <3>2 DEF TablesInOrder, RowsInOrder
  <2>6. LiveAreOwned'
    BY <1>5, <2>1, <2>3 DEF TablesInOrder, LiveAreOwned
  <2>7. OpenedAreWhole'
    BY <1>5, <2>1, <2>3 DEF TablesInOrder, OpenedAreWhole
  <2>8. OneCodeEach'
    BY <1>5, <2>1 DEF TablesInOrder, OneCodeEach
  <2>9. ASSUME NEW next, MayFollow("insertUser", next)
        PROVE  Ready(next, job)'
    BY <1>3, <1>5, <2>2, <2>3, <2>9 DEF MayFollow, Ready
  <2> QED BY <2>5, <2>6, <2>7, <2>8, <2>9 DEF TablesInOrder
<1> QED BY <1>1, <1>3, <1>4, <1>5, <1>6, WorkFits DEF OrderInv

LEMMA InsertOwnerFits ==
    ASSUME VerifiedInv, OrderInv, NEW r \in AccountRequests, InsertOwner(r)
    PROVE  OrderInv'
<1> PICK j : j = jobs[r]
  OBVIOUS
<1>1. /\ At(r, "insertOwner") /\ Done(r)
      /\ owners' = owners \cup {<<j.vault, j.user>>}
      /\ UNCHANGED <<users, vaults, schemas, codes, issued, opened, closing, orderly>>
  BY DEF InsertOwner, Tokens, Histories
<1>2. ASSUME orderly'
      PROVE  /\ OneCodeEach'
             /\ \A next : MayFollow("insertOwner", next) => Ready(next, j)'
  <2>1. TablesInOrder /\ Ready("insertOwner", j)
    BY <1>1, <1>2, Working
  <2>2. OneCodeEach'
    BY <1>1, <2>1 DEF TablesInOrder, OneCodeEach
  <2>3. ASSUME NEW next, MayFollow("insertOwner", next)
        PROVE  Ready(next, j)'
    BY <1>1, <2>1, <2>3 DEF MayFollow, Ready
  <2> QED BY <2>2, <2>3
<1>3. orderly' \in BOOLEAN
  BY <1>1 DEF OrderInv
<1> QED BY <1>1, <1>2, <1>3, StayFits

LEMMA AttachVaultFits ==
    ASSUME VerifiedInv, OrderInv, NEW r \in AccountRequests, AttachVault(r)
    PROVE  OrderInv'
<1> PICK j : j = jobs[r]
  OBVIOUS
<1>1. /\ At(r, "attachVault") /\ Done(r)
      /\ vaults' = [vaults EXCEPT ![j.vault] = [live |-> TRUE, owner |-> j.user]]
      /\ opened' = opened \cup {j.user}
      /\ UNCHANGED <<users, owners, schemas, codes, issued, closing, orderly>>
  BY DEF AttachVault, Tokens
<1>2. ASSUME orderly'
      PROVE  /\ TablesInOrder'
             /\ \A next : MayFollow("attachVault", next) => Ready(next, j)'
             /\ Closes(j.todo) => ClosesOwn(j)'
  <2>1. TablesInOrder /\ Ready("attachVault", j) /\ (Closes(j.todo) => ClosesOwn(j))
    BY <1>1, <1>2, Working
  <2>2. /\ j.user \in DOMAIN users /\ j.user \in Ids /\ users[j.user].vault = j.vault
        /\ users[j.user].schema \in schemas /\ <<j.vault, j.user>> \in owners
        /\ j.vault \in DOMAIN vaults
    BY <2>1 DEF Ready, TablesInOrder, RowsInOrder, VerifiedInv, AccountRowsTyped
  <2>3. /\ DOMAIN vaults' = DOMAIN vaults
        /\ vaults'[j.vault] = [live |-> TRUE, owner |-> j.user]
        /\ \A v \in DOMAIN vaults : v # j.vault => vaults'[v] = vaults[v]
    BY <1>1, <2>2
  <2>4. RowsInOrder'
    <3>1. ASSUME NEW v \in DOMAIN vaults'
          PROVE  vaults'[v] \in [live: BOOLEAN, owner: Ids]
      <4>1. [live |-> TRUE, owner |-> j.user] \in [live: BOOLEAN, owner: Ids]
        BY <2>2
      <4>2. v # j.vault => vaults[v] \in [live: BOOLEAN, owner: Ids]
        BY <2>1, <2>3 DEF TablesInOrder, RowsInOrder
      <4> QED BY <2>3, <4>1, <4>2
    <3> QED BY <1>1, <2>1, <2>2, <2>3, <3>1 DEF TablesInOrder, RowsInOrder
  <2>5. LiveAreOwned'
    BY <1>1, <2>1, <2>2, <2>3 DEF TablesInOrder, LiveAreOwned
  <2>6. OpenedAreWhole'
    <3>1. ASSUME NEW u \in (opened \ closing) \cap DOMAIN users, u # j.user
          PROVE  vaults'[users[u].vault] = vaults[users[u].vault]
      <4>1. users[u].vault \in DOMAIN vaults /\ users[u].vault # j.vault
        BY <2>1, <2>2, <3>1 DEF TablesInOrder, RowsInOrder
      <4> QED BY <2>3, <4>1
    <3>2. ASSUME NEW u \in (opened' \ closing') \cap DOMAIN users'
          PROVE  /\ vaults'[users'[u].vault] = [live |-> TRUE, owner |-> u]
                 /\ <<users'[u].vault, u>> \in owners' /\ users'[u].schema \in schemas'
      <4>1. CASE u = j.user
        BY <1>1, <2>2, <2>3, <4>1
      <4>2. CASE u # j.user
        <5>1. u \in (opened \ closing) \cap DOMAIN users
          BY <1>1, <4>2
        <5> QED BY <1>1, <2>1, <3>1, <4>2, <5>1 DEF TablesInOrder, OpenedAreWhole
      <4> QED BY <4>1, <4>2
    <3> QED BY <3>2 DEF OpenedAreWhole
  <2>7. OneCodeEach'
    BY <1>1, <2>1 DEF TablesInOrder, OneCodeEach
  <2>8. Closes(j.todo) => ClosesOwn(j)'
    BY <1>1, <2>1 DEF ClosesOwn
  <2> QED BY <2>4, <2>5, <2>6, <2>7, <2>8, NothingToReady DEF TablesInOrder
<1>3. orderly' \in BOOLEAN
  BY <1>1 DEF OrderInv
<1> QED BY <1>1, <1>2, <1>3, DoneFits

LEMMA GiveUpFits ==
    ASSUME VerifiedInv, OrderInv, NEW r \in AccountRequests, GiveUp(r)
    PROVE  OrderInv'
<1> PICK j : j = jobs[r]
  OBVIOUS
<1> PICK todo : todo = <<"retire">>
  OBVIOUS
<1> PICK k : k = [j EXCEPT !.todo = todo]
  OBVIOUS
<1> PICK s \in {"createSchema", "insertUser"} : At(r, s)
  BY DEF GiveUp
<1>1. /\ jobs' = [jobs EXCEPT ![r] = k]
      /\ UNCHANGED <<Tables, codes, issued, opened, closing, orderly>>
  BY DEF GiveUp, Tokens, Histories
<1>2. /\ \A q \in AccountRequests \ {r} : jobs'[q] = jobs[q]
      /\ jobs'[r] = k
  BY <1>1 DEF VerifiedInv, JobsTyped
<1>3. j \in Job /\ j # NoJob
  BY Working
<1>4. k.todo = todo /\ k.vault = j.vault
  BY <1>3 DEF Job
<1>5. Follows(todo) /\ Head(todo) = "retire" /\ ~Closes(todo)
  BY TodosFollow
<1>6. ASSUME orderly'
      PROVE  /\ \A q \in AccountRequests \ {r} : jobs[q] = NoJob
             /\ TablesInOrder' /\ Follows(k.todo) /\ JobFits(k)'
  <2>1. TablesInOrder /\ Ready(s, j)
    BY <1>1, <1>6, Working
  <2>2. \A q \in AccountRequests \ {r} : jobs[q] = NoJob
    BY <1>1, <1>3, <1>6, AccountAlone
  <2>3. TablesInOrder'
    <3>1. RowsInOrder' /\ LiveAreOwned' /\ OpenedAreWhole'
      BY <1>1, <2>1, TablesStay DEF TablesInOrder, Tables
    <3>2. OneCodeEach'
      BY <1>1, <2>1 DEF TablesInOrder, OneCodeEach
    <3> QED BY <3>1, <3>2 DEF TablesInOrder
  <2>4. Ready("retire", k)'
    BY <1>1, <1>4, <2>1 DEF Ready, Tables
  <2> QED BY <1>4, <1>5, <2>2, <2>3, <2>4 DEF JobFits
<1>7. orderly' \in BOOLEAN
  BY <1>1 DEF OrderInv
<1>8. JobFits(k)' => JobFits(jobs[r])'
  BY <1>2 DEF JobFits, Ready, ClosesOwn
<1> QED BY <1>2, <1>6, <1>7, <1>8, OrderlyStep

LEMMA RetireFits ==
    ASSUME VerifiedInv, OrderInv, NEW r \in AccountRequests, Retire(r)
    PROVE  OrderInv'
<1> PICK j : j = jobs[r]
  OBVIOUS
<1>1. /\ At(r, "retire") /\ Done(r)
      /\ \/ vaults' = [vaults EXCEPT ![j.vault].live = FALSE] /\ UNCHANGED orderly
         \/ orderly' = FALSE
      /\ UNCHANGED <<users, owners, schemas, codes, issued, opened, closing>>
  BY DEF Retire, Tokens, Histories, Ignored
<1>2. orderly' \in BOOLEAN /\ (orderly' => orderly)
  BY <1>1, OrderlyOrNot
<1>3. ASSUME orderly'
      PROVE  /\ TablesInOrder'
             /\ \A next : MayFollow("retire", next) => Ready(next, j)'
             /\ Closes(j.todo) => ClosesOwn(j)'
  <2>1. TablesInOrder /\ Ready("retire", j) /\ (Closes(j.todo) => ClosesOwn(j))
    BY <1>1, <1>2, <1>3, Working
  <2>2. j.vault \in DOMAIN vaults /\ \A u \in DOMAIN users : users[u].vault # j.vault
    BY <2>1 DEF Ready
  <2>3. /\ DOMAIN vaults' = DOMAIN vaults
        /\ vaults'[j.vault] = [vaults[j.vault] EXCEPT !.live = FALSE]
        /\ \A v \in DOMAIN vaults : v # j.vault => vaults'[v] = vaults[v]
    BY <1>1, <1>3, <2>2
  <2>4. vaults'[j.vault] \in [live: BOOLEAN, owner: Ids] /\ ~vaults'[j.vault].live
    BY <2>1, <2>2, <2>3 DEF TablesInOrder, RowsInOrder
  <2>5. RowsInOrder'
    BY <1>1, <2>1, <2>3, <2>4 DEF TablesInOrder, RowsInOrder
  <2>6. LiveAreOwned'
    BY <1>1, <2>1, <2>3, <2>4 DEF TablesInOrder, LiveAreOwned
  <2>7. OpenedAreWhole'
    BY <1>1, <2>1, <2>2, <2>3 DEF TablesInOrder, RowsInOrder, OpenedAreWhole
  <2>8. OneCodeEach'
    BY <1>1, <2>1 DEF TablesInOrder, OneCodeEach
  <2>9. Closes(j.todo) => ClosesOwn(j)'
    BY <1>1, <2>1 DEF ClosesOwn
  <2> QED BY <2>5, <2>6, <2>7, <2>8, <2>9, NothingToReady DEF TablesInOrder
<1> QED BY <1>1, <1>2, <1>3, DoneFits

LEMMA CodesFit ==
    ASSUME VerifiedInv, OrderInv, NEW r \in AccountRequests, DropCodes(r) \/ InsertCode(r)
    PROVE  OrderInv'
<1> PICK j : j = jobs[r]
  OBVIOUS
<1>1. CASE DropCodes(r)
  <2>1. /\ At(r, "dropCodes") /\ Done(r)
        /\ \/ codes' = {c \in codes : c.email # j.email} /\ UNCHANGED orderly
           \/ orderly' = FALSE
        /\ UNCHANGED <<users, vaults, owners, schemas, issued, opened, closing>>
    BY <1>1 DEF DropCodes, Ignored, Tables, Histories
  <2>2. orderly' \in BOOLEAN /\ (orderly' => orderly)
    BY <2>1, OrderlyOrNot
  <2>3. ASSUME orderly'
        PROVE  /\ OneCodeEach'
               /\ \A next : MayFollow("dropCodes", next) => Ready(next, j)'
    <3>1. TablesInOrder /\ codes' = {c \in codes : c.email # j.email}
      BY <2>1, <2>2, <2>3, Working
    <3>2. OneCodeEach'
      BY <3>1 DEF TablesInOrder, OneCodeEach
    <3>3. ASSUME NEW next, MayFollow("dropCodes", next)
          PROVE  Ready(next, j)'
      BY <3>1, <3>3 DEF MayFollow, Ready
    <3> QED BY <3>2, <3>3
  <2> QED BY <2>1, <2>2, <2>3, StayFits
<1>2. CASE InsertCode(r)
  <2> PICK n : n = issued.code + 1
    OBVIOUS
  <2>1. /\ At(r, "insertCode") /\ Done(r)
        /\ codes' = codes \cup {[email |-> j.email, code |-> n, expired |-> FALSE]}
        /\ issued' = [issued EXCEPT !.code = n]
        /\ UNCHANGED <<users, vaults, owners, schemas, opened, closing, orderly>>
    BY <1>2 DEF InsertCode, Tables, Histories
  <2>2. issued'.user = issued.user /\ issued'.vault = issued.vault
    BY <2>1 DEF VerifiedInv, AccountRowsTyped
  <2>3. ASSUME orderly'
        PROVE  /\ OneCodeEach'
               /\ \A next : MayFollow("insertCode", next) => Ready(next, j)'
    <3>1. TablesInOrder /\ \A c \in codes : c.email # j.email
      BY <2>1, <2>3, Working DEF Ready
    <3> PICK d : d = [email |-> j.email, code |-> n, expired |-> FALSE]
      OBVIOUS
    <3>2. d.email = j.email /\ codes' = codes \cup {d}
      BY <2>1
    <3>3. OneCodeEach
      BY <3>1 DEF TablesInOrder
    <3>4. ASSUME NEW c \in codes', NEW e \in codes', c.email = e.email
          PROVE  c = e
      <4>1. (c \in codes \/ c = d) /\ (e \in codes \/ e = d)
        BY <3>2
      <4>2. CASE c \in codes /\ e \in codes
        BY <3>3, <3>4, <4>2 DEF OneCodeEach
      <4>3. CASE c = d \/ e = d
        BY <3>1, <3>2, <3>4, <4>1, <4>3
      <4> QED BY <4>1, <4>2, <4>3
    <3> QED BY <3>4, NothingToReady DEF OneCodeEach
  <2>4. orderly' \in BOOLEAN
    BY <2>1 DEF OrderInv
  <2> QED BY <2>1, <2>2, <2>3, <2>4, StayFits
<1> QED BY <1>1, <1>2

LEMMA SaveUserFits ==
    ASSUME VerifiedInv, OrderInv, NEW r \in AccountRequests, SaveUserRow(r)
    PROVE  OrderInv'
<1> PICK j : j = jobs[r]
  OBVIOUS
<1>1. /\ At(r, "saveUser") /\ Done(r)
      /\ users' = [w \in DOMAIN users \cup {j.user} |->
                      IF w = j.user THEN j.row ELSE users[w]]
      /\ UNCHANGED <<vaults, owners, schemas, codes, issued, opened, closing, orderly>>
  BY DEF SaveUserRow, Put, Tokens, Histories
<1>2. ASSUME orderly'
      PROVE  /\ TablesInOrder'
             /\ \A next : MayFollow("saveUser", next) => Ready(next, j)'
             /\ Closes(j.todo) => ClosesOwn(j)'
  <2>1. TablesInOrder /\ Ready("saveUser", j) /\ (Closes(j.todo) => ClosesOwn(j))
    BY <1>1, <1>2, Working
  <2>2. /\ j.user \in DOMAIN users /\ users[j.user].vault = j.row.vault
        /\ users[j.user].schema = j.row.schema
    BY <2>1 DEF Ready
  <2>3. /\ DOMAIN users' = DOMAIN users
        /\ \A u \in DOMAIN users : /\ users'[u].vault = users[u].vault
                                   /\ users'[u].schema = users[u].schema
    BY <1>1, <2>2
  <2>4. /\ RowsInOrder' /\ LiveAreOwned' /\ OpenedAreWhole'
        /\ ClosesOwn(j) => ClosesOwn(j)'
    BY <1>1, <2>1, <2>3, TablesStay DEF TablesInOrder
  <2>5. OneCodeEach'
    BY <1>1, <2>1 DEF TablesInOrder, OneCodeEach
  <2> QED BY <2>1, <2>4, <2>5, NothingToReady DEF TablesInOrder
<1>3. orderly' \in BOOLEAN
  BY <1>1 DEF OrderInv
<1> QED BY <1>1, <1>2, <1>3, DoneFits

LEMMA FailFits ==
    ASSUME VerifiedInv, OrderInv, NEW r \in AccountRequests, FailJob(r)
    PROVE  OrderInv'
<1>1. /\ jobs[r] # NoJob /\ jobs' = [jobs EXCEPT ![r] = NoJob]
      /\ UNCHANGED <<Tables, codes, issued, opened, closing, orderly>>
  BY DEF FailJob, Stop, Tokens, Histories
<1>2. /\ \A q \in AccountRequests \ {r} : jobs'[q] = jobs[q]
      /\ jobs'[r] = NoJob
  BY <1>1 DEF VerifiedInv, JobsTyped
<1>3. ASSUME orderly'
      PROVE  TablesInOrder' /\ \A q \in AccountRequests \ {r} : jobs[q] = NoJob
  <2>1. TablesInOrder /\ \A q \in AccountRequests \ {r} : jobs[q] = NoJob
    BY <1>1, <1>3, AccountAlone
  <2>2. RowsInOrder' /\ LiveAreOwned' /\ OpenedAreWhole'
    BY <1>1, <2>1, TablesStay DEF TablesInOrder, Tables
  <2>3. OneCodeEach'
    BY <1>1, <2>1 DEF TablesInOrder, OneCodeEach
  <2> QED BY <2>1, <2>2, <2>3 DEF TablesInOrder
<1>4. orderly' \in BOOLEAN
  BY <1>1 DEF OrderInv
<1> QED BY <1>2, <1>3, <1>4, OrderlyStep

LEMMA TokensFit ==
    ASSUME VerifiedInv, OrderInv, NEW r \in AccountRequests,
           SpendToken(r) \/ DropTokens(r) \/ InsertToken(r)
    PROVE  OrderInv'
<1> PICK j : j = jobs[r]
  OBVIOUS
<1> PICK s \in {"spendToken", "dropTokens", "insertToken"} : At(r, s)
  BY DEF SpendToken, DropTokens, InsertToken
<1>1. /\ Done(r)
      /\ UNCHANGED <<users, vaults, owners, schemas, codes, opened, closing, orderly>>
  BY DEF SpendToken, DropTokens, InsertToken, Tables, Histories
<1>2. issued'.user = issued.user /\ issued'.vault = issued.vault
  BY DEF SpendToken, DropTokens, InsertToken, VerifiedInv, AccountRowsTyped
<1>3. ASSUME orderly'
      PROVE  OneCodeEach' /\ \A next : MayFollow(s, next) => Ready(next, j)'
  <2>1. TablesInOrder
    BY <1>1, <1>3, Working
  <2>2. OneCodeEach'
    BY <1>1, <2>1 DEF TablesInOrder, OneCodeEach
  <2> QED BY <2>2, NothingToReady
<1>4. orderly' \in BOOLEAN
  BY <1>1 DEF OrderInv
<1> QED BY <1>1, <1>2, <1>3, <1>4, StayFits

LEMMA DropOwnerFits ==
    ASSUME VerifiedInv, OrderInv, NEW r \in AccountRequests, DropOwner(r)
    PROVE  OrderInv'
<1> PICK j : j = jobs[r]
  OBVIOUS
<1>1. /\ At(r, "dropOwner") /\ Done(r) /\ owners' = {o \in owners : o[2] # j.user}
      /\ UNCHANGED <<users, vaults, schemas, codes, issued, opened, closing, orderly>>
  BY DEF DropOwner, Tokens, Histories
<1>2. ASSUME orderly'
      PROVE  /\ TablesInOrder'
             /\ \A next : MayFollow("dropOwner", next) => Ready(next, j)'
             /\ ClosesOwn(j)'
  <2>1. TablesInOrder /\ ClosesOwn(j)
    BY <1>1, <1>2, Working DEF DeleteStatements
  <2>2. RowsInOrder' /\ LiveAreOwned' /\ OneCodeEach'
    BY <1>1, <2>1 DEF TablesInOrder, RowsInOrder, LiveAreOwned, OneCodeEach
  <2>3. OpenedAreWhole'
    <3>1. \A u \in (opened \ closing) \cap DOMAIN users : u # j.user
      BY <2>1 DEF ClosesOwn
    <3> QED BY <1>1, <2>1, <3>1 DEF TablesInOrder, OpenedAreWhole
  <2>4. ClosesOwn(j)'
    BY <1>1, <2>1 DEF ClosesOwn
  <2> QED BY <2>2, <2>3, <2>4, NothingToReady DEF TablesInOrder
<1>3. orderly' \in BOOLEAN
  BY <1>1 DEF OrderInv
<1> QED BY <1>1, <1>2, <1>3, DoneFits

LEMMA RetireVaultFits ==
    ASSUME VerifiedInv, OrderInv, NEW r \in AccountRequests, RetireVault(r)
    PROVE  OrderInv'
<1> PICK j : j = jobs[r]
  OBVIOUS
<1>1. /\ At(r, "retireVault") /\ Done(r)
      /\ vaults' = [vaults EXCEPT ![j.vault] = [live |-> FALSE, owner |-> 0]]
      /\ UNCHANGED <<users, owners, schemas, codes, issued, opened, closing, orderly>>
  BY DEF RetireVault, Tokens, Histories
<1>2. ASSUME orderly'
      PROVE  /\ TablesInOrder'
             /\ \A next : MayFollow("retireVault", next) => Ready(next, j)'
             /\ ClosesOwn(j)'
  <2>1. TablesInOrder /\ ClosesOwn(j)
    BY <1>1, <1>2, Working DEF DeleteStatements
  <2>2. /\ j.user \in DOMAIN users /\ j.user \in closing /\ j.user # 0
        /\ users[j.user].vault = j.vault /\ j.vault \in DOMAIN vaults
    <3>1. j.user \in DOMAIN users /\ j.user \in closing /\ users[j.user].vault = j.vault
      BY <2>1 DEF ClosesOwn
    <3>2. issued.user \in Nat /\ j.user \in 1..issued.user
      BY <2>1, <3>1, AccountsAssumption DEF TablesInOrder, RowsInOrder, VerifiedInv, AccountRowsTyped
    <3> QED BY <2>1, <3>1, <3>2 DEF TablesInOrder, RowsInOrder
  <2>3. /\ DOMAIN vaults' = DOMAIN vaults
        /\ vaults'[j.vault] = [live |-> FALSE, owner |-> 0]
        /\ \A v \in DOMAIN vaults : v # j.vault => vaults'[v] = vaults[v]
    BY <1>1, <2>2
  <2>4. RowsInOrder'
    <3>1. ASSUME NEW v \in DOMAIN vaults'
          PROVE  vaults'[v] \in [live: BOOLEAN, owner: Ids]
      <4>1. [live |-> FALSE, owner |-> 0] \in [live: BOOLEAN, owner: Ids]
        BY DEF Ids
      <4>2. v # j.vault => vaults[v] \in [live: BOOLEAN, owner: Ids]
        BY <2>1, <2>3 DEF TablesInOrder, RowsInOrder
      <4> QED BY <2>3, <4>1, <4>2
    <3> QED BY <1>1, <2>1, <2>3, <3>1 DEF TablesInOrder, RowsInOrder
  <2>5. LiveAreOwned'
    BY <1>1, <2>1, <2>3 DEF TablesInOrder, LiveAreOwned
  <2>6. OpenedAreWhole'
    <3>1. ASSUME NEW u \in (opened \ closing) \cap DOMAIN users
          PROVE  vaults'[users[u].vault] = vaults[users[u].vault]
      <4>1. users[u].vault \in DOMAIN vaults /\ users[u].vault # j.vault
        BY <2>1, <2>2 DEF TablesInOrder, RowsInOrder
      <4> QED BY <2>3, <4>1
    <3> QED BY <1>1, <2>1, <3>1 DEF TablesInOrder, OpenedAreWhole
  <2>7. OneCodeEach' /\ ClosesOwn(j)'
    BY <1>1, <2>1 DEF TablesInOrder, OneCodeEach, ClosesOwn
  <2>8. ASSUME NEW v \in DOMAIN vaults', vaults'[v].live
        PROVE  vaults'[v].owner # j.user
    <3>1. v # j.vault /\ v \in DOMAIN vaults /\ vaults'[v] = vaults[v]
      BY <2>3, <2>8
    <3> QED BY <2>1, <2>2, <2>8, <3>1 DEF TablesInOrder, LiveAreOwned
  <2>9. ASSUME NEW next, MayFollow("retireVault", next)
        PROVE  Ready(next, j)'
    BY <2>8, <2>9 DEF MayFollow, Ready
  <2> QED BY <2>4, <2>5, <2>6, <2>7, <2>9 DEF TablesInOrder
<1>3. orderly' \in BOOLEAN
  BY <1>1 DEF OrderInv
<1> QED BY <1>1, <1>2, <1>3, DoneFits

LEMMA DropSchemaFits ==
    ASSUME VerifiedInv, OrderInv, NEW r \in AccountRequests, DropSchema(r)
    PROVE  OrderInv'
<1> PICK j : j = jobs[r]
  OBVIOUS
<1>1. /\ At(r, "dropSchema") /\ Done(r)
      /\ \/ schemas' = schemas \ {j.row.schema} /\ UNCHANGED orderly
         \/ orderly' = FALSE
      /\ UNCHANGED <<users, vaults, owners, codes, issued, opened, closing>>
  BY DEF DropSchema, Tokens, Histories, Ignored
<1>2. orderly' \in BOOLEAN /\ (orderly' => orderly)
  BY <1>1, OrderlyOrNot
<1>3. ASSUME orderly'
      PROVE  /\ TablesInOrder'
             /\ \A next : MayFollow("dropSchema", next) => Ready(next, j)'
             /\ ClosesOwn(j)'
  <2>1. TablesInOrder /\ ClosesOwn(j) /\ Ready("dropSchema", j)
    BY <1>1, <1>2, <1>3, Working DEF DeleteStatements
  <2>2. RowsInOrder' /\ LiveAreOwned' /\ OneCodeEach'
    BY <1>1, <2>1 DEF TablesInOrder, RowsInOrder, LiveAreOwned, OneCodeEach
  <2>3. OpenedAreWhole'
    <3>1. schemas' = schemas \ {j.row.schema}
      BY <1>1, <1>3
    <3>2. \A u \in (opened \ closing) \cap DOMAIN users : users[u].schema # j.row.schema
      BY <2>1 DEF ClosesOwn, TablesInOrder, RowsInOrder
    <3> QED BY <1>1, <2>1, <3>1, <3>2 DEF TablesInOrder, OpenedAreWhole
  <2>4. ClosesOwn(j)'
    BY <1>1, <2>1 DEF ClosesOwn
  <2>5. ASSUME NEW next, MayFollow("dropSchema", next)
        PROVE  Ready(next, j)'
    BY <1>1, <2>1, <2>5 DEF MayFollow, Ready
  <2> QED BY <2>2, <2>3, <2>4, <2>5 DEF TablesInOrder
<1> QED BY <1>1, <1>2, <1>3, DoneFits

LEMMA DeleteRowFits ==
    ASSUME VerifiedInv, OrderInv, NEW r \in AccountRequests, DeleteUserRow(r)
    PROVE  OrderInv'
<1> PICK j : j = jobs[r]
  OBVIOUS
<1>1. /\ At(r, "deleteUser") /\ Done(r)
      /\ users' = [u \in DOMAIN users \ {j.user} |-> users[u]]
      /\ UNCHANGED <<vaults, owners, schemas, codes, issued, opened, closing, orderly>>
  BY DEF DeleteUserRow, Tokens, Histories
<1>2. ASSUME orderly'
      PROVE  /\ TablesInOrder'
             /\ \A next : MayFollow("deleteUser", next) => Ready(next, j)'
  <2>1. TablesInOrder /\ Ready("deleteUser", j)
    BY <1>1, <1>2, Working
  <2>2. /\ DOMAIN users' = DOMAIN users \ {j.user}
        /\ \A u \in DOMAIN users' : u \in DOMAIN users /\ users'[u] = users[u]
    BY <1>1
  <2>3. RowsInOrder'
    BY <1>1, <2>1, <2>2 DEF TablesInOrder, RowsInOrder
  <2>4. LiveAreOwned'
    BY <1>1, <2>1, <2>2 DEF TablesInOrder, LiveAreOwned, Ready
  <2>5. OpenedAreWhole'
    BY <1>1, <2>1, <2>2 DEF TablesInOrder, OpenedAreWhole
  <2>6. OneCodeEach'
    BY <1>1, <2>1 DEF TablesInOrder, OneCodeEach
  <2> QED BY <2>3, <2>4, <2>5, <2>6 DEF TablesInOrder, MayFollow
<1>3. orderly' \in BOOLEAN
  BY <1>1 DEF OrderInv
<1> QED BY <1>1, <1>2, <1>3, DoneFits

(* Codes and tokens expire while the request, if there is one, waits.      *)
LEMMA ClockFits ==
    ASSUME VerifiedInv, OrderInv, Clock
    PROVE  OrderInv'
<1>1. UNCHANGED <<Tables, jobs, issued, opened, closing, orderly>>
  BY DEF Clock, CodeExpires, TokenExpires, DropToken, Histories
<1>2. ASSUME NEW c \in codes, CodeExpires(c), OneCodeEach, codes \subseteq VerificationCode
      PROVE  OneCodeEach' /\ \A d \in codes' : \E e \in codes : e.email = d.email
  <2> PICK late : late = [c EXCEPT !.expired = TRUE]
    OBVIOUS
  <2>1. late.email = c.email
    BY <1>2 DEF VerificationCode
  <2>2. codes' = (codes \ {c}) \cup {late}
    BY <1>2 DEF CodeExpires
  <2>3. ASSUME NEW d \in codes', NEW e \in codes', d.email = e.email
        PROVE  d = e
    <3>1. CASE d = late /\ e = late
      BY <3>1
    <3>2. CASE d \in codes \ {c} /\ e \in codes \ {c}
      BY <1>2, <2>3, <3>2 DEF OneCodeEach
    <3>3. CASE d = late /\ e \in codes \ {c}
      BY <1>2, <2>1, <2>3, <3>3 DEF OneCodeEach
    <3>4. CASE e = late /\ d \in codes \ {c}
      BY <1>2, <2>1, <2>3, <3>4 DEF OneCodeEach
    <3>5. (d = late \/ d \in codes \ {c}) /\ (e = late \/ e \in codes \ {c})
      BY <2>2
    <3> QED BY <3>1, <3>2, <3>3, <3>4, <3>5
  <2> QED BY <2>1, <2>2, <2>3 DEF OneCodeEach
<1>3. ASSUME OneCodeEach
      PROVE  OneCodeEach' /\ \A d \in codes' : \E e \in codes : e.email = d.email
  <2>1. CASE UNCHANGED codes
    BY <1>3, <2>1 DEF OneCodeEach
  <2>2. CASE \E c \in codes : CodeExpires(c)
    BY <1>2, <1>3, <2>2 DEF VerifiedInv, AccountRowsTyped
  <2> QED BY <2>1, <2>2 DEF Clock, TokenExpires, DropToken
<1>4. ASSUME orderly'
      PROVE  OneJob' /\ TablesInOrder' /\ JobsFit'
  <2>1. OneJob /\ TablesInOrder /\ JobsFit
    BY <1>1, <1>4 DEF OrderInv
  <2>2. RowsInOrder' /\ LiveAreOwned' /\ OpenedAreWhole'
    BY <1>1, <2>1, TablesStay DEF TablesInOrder, Tables
  <2>3. OneCodeEach' /\ \A d \in codes' : \E e \in codes : e.email = d.email
    BY <1>3, <2>1 DEF TablesInOrder
  <2>4. ASSUME NEW r \in AccountRequests, jobs'[r] # NoJob
        PROVE  Follows(jobs'[r].todo) /\ JobFits(jobs[r])'
    <3> PICK j : j = jobs[r]
      OBVIOUS
    <3>1. Follows(j.todo) /\ JobFits(j) /\ jobs'[r] = j
      BY <1>1, <2>1, <2>4 DEF JobsFit
    <3>2. \A email : (\A c \in codes : c.email # email) => \A c \in codes' : c.email # email
      BY <2>3
    <3>3. Ready(Head(j.todo), j)'
      BY <1>1, <3>1, <3>2 DEF JobFits, Ready, Tables
    <3>4. ClosesOwn(j) => ClosesOwn(j)'
      BY <1>1 DEF ClosesOwn, Tables
    <3>5. JobFits(j)'
      BY <3>1, <3>3, <3>4 DEF JobFits
    <3> QED BY <3>1, <3>5 DEF JobFits, Ready, ClosesOwn
  <2>5. OneJob'
    BY <1>1, <2>1 DEF OneJob
  <2> QED BY <2>2, <2>3, <2>4, <2>5 DEF TablesInOrder, JobsFit, Follows
<1> QED BY <1>1, <1>4 DEF OrderInv

-----------------------------------------------------------------------------
LEMMA OrderStep ==
    ASSUME VerifiedInv, OrderInv, [AccountsNext]_accountVars
    PROVE  OrderInv'
<1>1. CASE UNCHANGED accountVars
  BY <1>1 DEF accountVars, OrderInv, OneJob, TablesInOrder, RowsInOrder, LiveAreOwned,
     OpenedAreWhole, OneCodeEach, JobsFit, Follows, JobFits, Ready, ClosesOwn
<1>2. ASSUME NEW r \in AccountRequests, Create(r) \/ Change(r) \/ Close(r)
      PROVE  OrderInv'
  BY <1>2, InsertVaultFits, CreateSchemaFits, InsertUserFits, InsertOwnerFits,
     AttachVaultFits, GiveUpFits, RetireFits, CodesFit, SaveUserFits, FailFits,
     TokensFit, DropOwnerFits, RetireVaultFits, DropSchemaFits, DeleteRowFits
     DEF Create, Change, Close
<1> QED BY <1>1, <1>2, AccountsAssumption, AskFits, ClockFits DEF AccountsNext

LEMMA OrderInit == AccountsInit => OrderInv
<1> SUFFICES ASSUME AccountsInit PROVE OrderInv
  OBVIOUS
<1>1. \A r \in AccountRequests : jobs[r] = NoJob
  BY DEF AccountsInit
<1>2. RowsInOrder
  BY DEF AccountsInit, RowsInOrder
<1>3. LiveAreOwned /\ OpenedAreWhole /\ OneCodeEach
  BY DEF AccountsInit, LiveAreOwned, OpenedAreWhole, OneCodeEach
<1>4. orderly = TRUE
  BY DEF AccountsInit
<1> QED BY <1>1, <1>2, <1>3, <1>4 DEF OrderInv, OneJob, JobsFit, TablesInOrder

LEMMA AccountsInvariant == AccountsSpec => [](VerifiedInv /\ OrderInv)
BY AccountsInitInv, AccountsStep, OrderInit, OrderStep, PTL DEF AccountsSpec

(* While requests come one by one, whichever of them fail on the way: of   *)
(* the codes sent to an address only the last counts (the rows deleted in  *)
(* gormrepo/verification.go:25 before the new one).                        *)
THEOREM CodesCountOnce == AccountsSpec => []OneCodeCounts
<1>1. OrderInv => OneCodeCounts
  BY DEF OrderInv, TablesInOrder, OneCodeEach, OneCodeCounts
<1> QED BY <1>1, AccountsInvariant, PTL

(* A user whose creation went through keeps the vault, the ownership and   *)
(* the schema it gave him until his deletion begins, whatever other        *)
(* creations and deletions leave half done (auth.go:165, user.go:316).     *)
THEOREM VaultsStayWhole == AccountsSpec => []OpenedHasVault
<1>1. OrderInv => OpenedHasVault
  BY DEF OrderInv, TablesInOrder, OpenedAreWhole, OpenedHasVault
<1> QED BY <1>1, AccountsInvariant, PTL

(* However far a deletion gets before it fails, no vault stays alive under *)
(* an owner who is gone (user.go:351).                                     *)
THEOREM NoVaultOutlivesOwner == AccountsSpec => []DeletedVaultIsRetired
<1>1. OrderInv => DeletedVaultIsRetired
  BY DEF OrderInv, TablesInOrder, LiveAreOwned, DeletedVaultIsRetired
<1> QED BY <1>1, AccountsInvariant, PTL

-----------------------------------------------------------------------------
(* Types.  A row is saved, and a token issued, for a user there was, and   *)
(* the owner's row is inserted once there is a vault.                      *)

Needs(job, s) == \E i \in 1..Len(job.todo) : job.todo[i] = s

IdsFit(job) ==
    /\ Needs(job, "saveUser") \/ Needs(job, "insertToken") => job.user \in UserIds
    /\ Needs(job, "insertOwner") => \/ job.vault \in VaultIds
                                    \/ Head(job.todo) = "insertVault"

IdsTyped ==
    /\ DOMAIN users \subseteq UserIds
    /\ DOMAIN vaults \subseteq VaultIds /\ vaults \in [DOMAIN vaults -> Vault]
    /\ owners \subseteq VaultIds \X UserIds
    /\ schemas \subseteq Emails
    /\ deletions \subseteq DeletionToken

IdsInv == IdsTyped /\ \A r \in AccountRequests : IdsFit(jobs[r])

LEMMA IdleFits == IdsFit(NoJob)
<1>1. \A s : ~Needs(NoJob, s)
  BY DEF NoJob, Needs
<1> QED BY <1>1 DEF IdsFit

LEMMA IdsJobStep ==
    ASSUME VerifiedInv, IdsInv, NEW r \in AccountRequests, NEW job,
           jobs' = [jobs EXCEPT ![r] = job], IdsFit(job), IdsTyped'
    PROVE  IdsInv'
<1>1. \A q \in AccountRequests : jobs'[q] = IF q = r THEN job ELSE jobs[q]
  BY DEF VerifiedInv, JobsTyped
<1>2. \A q \in AccountRequests : IdsFit(jobs'[q])
  BY <1>1 DEF IdsInv
<1> QED BY <1>2 DEF IdsInv, IdsFit, Needs

LEMMA AdvanceFits ==
    ASSUME VerifiedInv, IdsInv, NEW r \in AccountRequests, NEW job \in Job,
           Advance(r, job), IdsTyped',
           Needs(job, "saveUser") \/ Needs(job, "insertToken") => job.user \in UserIds,
           Needs(job, "insertOwner") => job.vault \in VaultIds
    PROVE  IdsInv'
<1> DEFINE todo == job.todo
           next == [job EXCEPT !.todo = Tail(todo)]
<1>1. jobs' = [jobs EXCEPT ![r] = IF Len(todo) <= 1 THEN NoJob ELSE next]
  BY DEF Advance
<1>2. todo \in Seq(Statements)
  BY DEF Job
<1>3. next.todo = Tail(todo) /\ next.user = job.user /\ next.vault = job.vault
  BY DEF Job
<1> HIDE DEF next
<1>4. CASE Len(todo) <= 1
  BY <1>1, <1>4, IdleFits, IdsJobStep
<1>5. CASE ~(Len(todo) <= 1)
  <2>1. Len(todo) > 1
    BY <1>2, <1>5
  <2> HIDE DEF todo
  <2>2. \A s : Needs(next, s) => Needs(job, s)
    BY <1>2, <1>3, <2>1, TailSaves DEF Needs, todo
  <2>3. IdsFit(next)
    BY <1>3, <2>2 DEF IdsFit
  <2> QED BY <1>1, <1>5, <2>3, IdsJobStep
<1> QED BY <1>4, <1>5

(* A statement that is no creation of a vault keeps what the job needs.    *)
LEMMA DoneFitsIds ==
    ASSUME VerifiedInv, IdsInv, NEW r \in AccountRequests, NEW s, At(r, s),
           s # "insertVault", Advance(r, jobs[r]), IdsTyped'
    PROVE  IdsInv'
<1>1. jobs[r] \in Job /\ Head(jobs[r].todo) = s
  BY AtIsJob
<1>2. IdsFit(jobs[r])
  BY DEF IdsInv
<1> QED BY <1>1, <1>2, AdvanceFits DEF IdsFit

(* What the statement at hand needs is there. *)
LEMMA AtNeeds ==
    ASSUME VerifiedInv, NEW r \in AccountRequests, NEW s, At(r, s)
    PROVE  Needs(jobs[r], s)
<1> PICK todo : todo = jobs[r].todo
  OBVIOUS
<1>1. todo \in Seq(Statements) /\ todo # <<>> /\ Head(todo) = s
  BY AtIsJob DEF Job
<1>2. 1 \in 1..Len(todo) /\ todo[1] = s
  BY <1>1
<1> QED BY <1>2 DEF Needs

LEMMA CreationNeeds ==
    ASSUME NEW after \in {<<>>, <<"dropCodes", "insertCode">>}, NEW job,
           job.todo = <<"insertVault", "createSchema", "insertUser",
                        "insertOwner", "attachVault">> \o after
    PROVE  ~Needs(job, "saveUser") /\ ~Needs(job, "insertToken")
<1> DEFINE first == <<"insertVault", "createSchema", "insertUser",
                      "insertOwner", "attachVault">>
           todo == first \o after
           Other == Statements \ {"saveUser", "insertToken"}
<1>1. first \in Seq(Other)
  BY DEF Statements
<1>2. after \in Seq(Other)
  <2>1. CASE after = <<>>
    BY <2>1
  <2>2. CASE after = <<"dropCodes", "insertCode">>
    BY <2>2 DEF Statements
  <2> QED BY <2>1, <2>2
<1>3. job.todo = todo
  OBVIOUS
<1> HIDE DEF first, Other
<1>4. todo \in Seq(Other)
  BY <1>1, <1>2
<1> HIDE DEF todo
<1>5. \A i \in 1..Len(todo) : todo[i] \in Other
  BY <1>4
<1> QED BY <1>3, <1>5 DEF Needs, Other

LEMMA AskFitsIds ==
    ASSUME VerifiedInv, IdsInv, AccountsAssumption, NEW r \in AccountRequests, Ask(r)
    PROVE  IdsInv'
<1>1. UNCHANGED <<users, vaults, owners, schemas, deletions>>
  BY DEF Ask, SignUp, CreateByAdmin, ResendCode, RequestRecoveryDelete, UpdateUser,
     StoreRSAKeys, SavingRow, DeleteUser, VerifyCode, ConfirmRecoveryDelete, Tables, Tokens
<1>2. IdsTyped'
  BY <1>1 DEF IdsInv, IdsTyped
<1>3. ASSUME NEW u \in DOMAIN users
      PROVE  users[u] \in Account /\ users[u].vault \in VaultIds /\ u \in UserIds
  BY DEF VerifiedInv, AccountRowsTyped, Account, IdsInv, IdsTyped
<1>4. ASSUME NEW u \in DOMAIN users, NEW todo, NEW row, NEW token,
             Begin(r, JobFor(u, todo, row, token)), row.vault \in VaultIds
      PROVE  IdsInv'
  <2> PICK job : job = JobFor(u, todo, row, token)
    OBVIOUS
  <2>1. job.user \in UserIds /\ job.vault \in VaultIds
    BY <1>3, <1>4 DEF JobFor
  <2>2. jobs' = [jobs EXCEPT ![r] = job]
    BY <1>4 DEF Begin
  <2> QED BY <1>2, <2>1, <2>2, IdsJobStep DEF IdsFit
<1>5. ASSUME NEW a, NEW verified, NEW after \in {<<>>, <<"dropCodes", "insertCode">>},
             Begin(r, Creating(a, verified, after))
      PROVE  IdsInv'
  <2> PICK job : job = Creating(a, verified, after)
    OBVIOUS
  <2> DEFINE todo == <<"insertVault", "createSchema", "insertUser",
                       "insertOwner", "attachVault">> \o after
  <2>1. job.todo = todo
    BY DEF Creating
  <2>2. Head(todo) = "insertVault"
    BY CreatingFollows
  <2>3. ~Needs(job, "saveUser") /\ ~Needs(job, "insertToken")
    BY <2>1, CreationNeeds
  <2> HIDE DEF todo
  <2>4. IdsFit(job)
    BY <2>1, <2>2, <2>3 DEF IdsFit
  <2>5. jobs' = [jobs EXCEPT ![r] = job]
    BY <1>5 DEF Begin
  <2> QED BY <1>2, <2>4, <2>5, IdsJobStep
<1>6. ASSUME NEW e \in Emails, SignUp(r, e) \/ CreateByAdmin(r, e)
       PROVE  IdsInv'
  BY <1>5, <1>6 DEF SignUp, CreateByAdmin
<1>7. ASSUME NEW e \in Emails, ResendCode(r, e) \/ RequestRecoveryDelete(r, e)
      PROVE  IdsInv'
  <2> PICK u : u = GetByEmail(e)
    OBVIOUS
  <2>1. u \in DOMAIN users
    BY <1>7, NamedIsUser DEF ResendCode, RequestRecoveryDelete
  <2>2. PICK todo : Begin(r, JobFor(u, todo, users[u], 0))
    BY <1>7 DEF ResendCode, RequestRecoveryDelete
  <2> QED BY <1>3, <1>4, <2>1, <2>2
<1>8. ASSUME NEW u \in DOMAIN users, NEW row, SavingRow(r, u, row),
             row.vault = users[u].vault
      PROVE  IdsInv'
  BY <1>3, <1>4, <1>8 DEF SavingRow
<1>9. ASSUME NEW u \in DOMAIN users, NEW e \in Emails, UpdateUser(r, u, e)
      PROVE  IdsInv'
  <2> PICK row : row = [users[u] EXCEPT !.email = e]
    OBVIOUS
  <2>1. row.vault = users[u].vault
    BY <1>3 DEF Account
  <2> QED BY <1>8, <1>9, <2>1 DEF UpdateUser
<1>10. ASSUME NEW u \in DOMAIN users, StoreRSAKeys(r, u)
      PROVE  IdsInv'
  <2> PICK row : row = [users[u] EXCEPT !.keys = TRUE]
    OBVIOUS
  <2>1. row.vault = users[u].vault
    BY <1>3 DEF Account
  <2> QED BY <1>8, <1>10, <2>1 DEF StoreRSAKeys
<1>11. ASSUME NEW u \in DOMAIN users, DeleteUser(r, u)
       PROVE  IdsInv'
  BY <1>3, <1>4, <1>11 DEF DeleteUser
<1>12. ASSUME NEW d \in deletions, ConfirmRecoveryDelete(r, d)
       PROVE  IdsInv'
  <2>1. PICK u, todo : u \in DOMAIN users /\ Begin(r, JobFor(u, todo, users[u], d.token))
    BY <1>12 DEF ConfirmRecoveryDelete
  <2> QED BY <1>3, <1>4, <2>1
<1>13. ASSUME NEW c \in codes, VerifyCode(r, c)
       PROVE  IdsInv'
  <2> PICK drop : drop = <<"dropCodes">>
    OBVIOUS
  <2>1. CASE c.expired
    <3> PICK old : old = JobFor(0, drop, NewAccount(c.email, FALSE), 0)
      OBVIOUS
    <3> PICK job : job = [old EXCEPT !.vault = 0]
      OBVIOUS
    <3>1. jobs' = [jobs EXCEPT ![r] = job]
      BY <1>13, <2>1 DEF VerifyCode, Begin
    <3>2. job.todo = drop
      <4>1. old.todo = drop /\ "todo" \in DOMAIN old
        BY DEF JobFor
      <4> QED BY <4>1
    <3>3. \A s : Needs(job, s) => s = "dropCodes"
      <4>1. \A i \in 1..Len(drop) : drop[i] = "dropCodes"
        OBVIOUS
      <4> QED BY <3>2, <4>1 DEF Needs
    <3>4. IdsFit(job)
      BY <3>3 DEF IdsFit
    <3> QED BY <1>2, <3>1, <3>4, IdsJobStep
  <2>2. CASE ~c.expired
    <3> PICK u : u = GetByEmail(c.email)
      OBVIOUS
    <3>1. u \in DOMAIN users
      BY <1>13, <2>2, NamedIsUser DEF VerifyCode
    <3>2. CASE users[u].verified
      <4>1. Begin(r, JobFor(u, drop, users[u], 0))
        BY <1>13, <2>2, <3>2 DEF VerifyCode
      <4> QED BY <1>3, <1>4, <3>1, <4>1
    <3>3. CASE ~users[u].verified
      <4> PICK row : row = [users[u] EXCEPT !.verified = TRUE]
        OBVIOUS
      <4> PICK todo : todo = <<"saveUser", "dropCodes">>
        OBVIOUS
      <4>1. Begin(r, JobFor(u, todo, row, c.code))
        BY <1>13, <2>2, <3>3 DEF VerifyCode
      <4>2. row.vault = users[u].vault
        BY <1>3, <3>1 DEF Account
      <4> QED BY <1>3, <1>4, <3>1, <4>1, <4>2
    <3> QED BY <3>2, <3>3
  <2> QED BY <2>1, <2>2
<1> QED BY <1>7, <1>9, <1>10, <1>11, <1>12, <1>13, <1>6 DEF Ask

LEMMA InsertVaultTyped ==
    ASSUME VerifiedInv, IdsInv, AccountsAssumption, NEW r \in AccountRequests,
           InsertVault(r)
    PROVE  IdsInv'
<1> DEFINE j == jobs[r]
           v == issued.vault + 1
           row == [j.row EXCEPT !.vault = v]
           job == [[j EXCEPT !.vault = v] EXCEPT !.row = row]
<1>1. j \in Job /\ IdsFit(j)
  BY AtIsJob DEF InsertVault, IdsInv
<1>2. v \in VaultIds
  BY DEF InsertVault, VerifiedInv, AccountRowsTyped, VaultIds
<1>3. Advance(r, job)
  BY <1>1 DEF InsertVault, Job
<1>4. row \in Account
  BY <1>1, <1>2 DEF Job, Account
<1>5. /\ vaults' = [w \in DOMAIN vaults \cup {v} |->
                     IF w = v THEN [live |-> TRUE, owner |-> 0] ELSE vaults[w]]
      /\ UNCHANGED <<users, owners, schemas, deletions>>
  BY DEF InsertVault, Tokens
<1> HIDE DEF v, row
<1>6. job \in Job /\ job.todo = j.todo /\ job.user = j.user /\ job.vault = v
  <2>1. job = WithVault(j, v, row)
    BY DEF WithVault
  <2> HIDE DEF j, job
  <2> QED BY <1>1, <1>2, <1>4, <2>1, JobOfVault
<1> HIDE DEF job
<1>7. IdsTyped'
  <2>1. [live |-> TRUE, owner |-> 0] \in Vault
    BY DEF Vault
  <2> QED BY <1>2, <1>5, <2>1 DEF IdsInv, IdsTyped
<1>8. \A s : Needs(job, s) <=> Needs(j, s)
  BY <1>6 DEF Needs
<1> QED BY <1>1, <1>2, <1>3, <1>6, <1>7, <1>8, AdvanceFits DEF IdsFit

LEMMA InsertUserTyped ==
    ASSUME VerifiedInv, IdsInv, AccountsAssumption, NEW r \in AccountRequests,
           InsertUser(r)
    PROVE  IdsInv'
<1> DEFINE j == jobs[r]
           u == issued.user + 1
           job == [j EXCEPT !.user = u]
<1>1. j \in Job /\ IdsFit(j) /\ Head(j.todo) = "insertUser"
  BY AtIsJob DEF InsertUser, IdsInv
<1>2. u \in UserIds
  BY DEF InsertUser, VerifiedInv, AccountRowsTyped, UserIds
<1>3. Advance(r, job) /\ Put(u, j.row) /\ UNCHANGED <<vaults, owners, schemas, deletions>>
  BY DEF InsertUser, Tokens
<1>4. job \in Job /\ job.todo = j.todo /\ job.user = u /\ job.vault = j.vault
  <2>1. job = WithUser(j, u)
    BY DEF WithUser
  <2> HIDE DEF j, u, job
  <2> QED BY <1>1, <1>2, <2>1, JobOfUser
<1>5. IdsTyped'
  BY <1>2, <1>3 DEF IdsInv, IdsTyped, Put
<1> HIDE DEF job, u
<1>6. \A s : Needs(job, s) <=> Needs(j, s)
  BY <1>4 DEF Needs
<1> QED BY <1>1, <1>2, <1>3, <1>4, <1>5, <1>6, AdvanceFits DEF IdsFit

LEMMA WorkTyped ==
    ASSUME VerifiedInv, IdsInv, AccountsAssumption, NEW r \in AccountRequests,
           Create(r) \/ Change(r) \/ Close(r)
    PROVE  IdsInv'
<1> DEFINE j == jobs[r]
<1>1. ASSUME NEW s, At(r, s)
      PROVE  /\ j.user \in {0} \cup UserIds /\ j.vault \in {0} \cup VaultIds
             /\ j.row.schema \in Emails
             /\ s \in {"saveUser", "insertToken"} => j.user \in UserIds
             /\ s = "insertOwner" => j.vault \in VaultIds
  <2>1. j \in Job /\ Needs(j, s) /\ Head(j.todo) = s /\ IdsFit(j)
    BY <1>1, AtIsJob, AtNeeds DEF IdsInv
  <2> HIDE DEF j
  <2>2. j.row \in Account /\ j.user \in {0} \cup UserIds /\ j.vault \in {0} \cup VaultIds
    BY <2>1 DEF Job
  <2> QED BY <2>1, <2>2 DEF IdsFit, Account
<1>2. ASSUME NEW s, At(r, s), s # "insertVault", Done(r), IdsTyped'
      PROVE  IdsInv'
  BY <1>2, DoneFitsIds DEF Done
<1>3. CASE CreateSchema(r)
  <2>1. IdsTyped'
    BY <1>1, <1>3 DEF CreateSchema, IdsInv, IdsTyped, Tokens
  <2> QED BY <1>2, <1>3, <2>1 DEF CreateSchema
<1>4. CASE InsertOwner(r)
  <2>1. <<j.vault, j.user>> \in VaultIds \X UserIds
    BY <1>1, <1>4 DEF InsertOwner, IdsInv, IdsTyped
  <2>2. IdsTyped'
    BY <1>4, <2>1 DEF InsertOwner, IdsInv, IdsTyped, Tokens
  <2> QED BY <1>2, <1>4, <2>2 DEF InsertOwner
<1>5. ASSUME NEW row \in Vault, NEW v, vaults' = [vaults EXCEPT ![v] = row],
             UNCHANGED <<users, owners, schemas, deletions>>
      PROVE  IdsTyped'
  BY <1>5 DEF IdsInv, IdsTyped
<1>6. CASE AttachVault(r)
  <2>1. [live |-> TRUE, owner |-> j.user] \in Vault
    BY <1>1, <1>6 DEF AttachVault, Vault
  <2>2. /\ vaults' = [vaults EXCEPT ![j.vault] = [live |-> TRUE, owner |-> j.user]]
        /\ UNCHANGED <<users, owners, schemas, deletions>>
    BY <1>6 DEF AttachVault, Tokens
  <2>3. IdsTyped'
    BY <1>5, <2>1, <2>2
  <2> QED BY <1>2, <1>6, <2>3 DEF AttachVault
<1>7. CASE GiveUp(r)
  <2> PICK job : job = [j EXCEPT !.todo = <<"retire">>]
    OBVIOUS
  <2>1. jobs' = [jobs EXCEPT ![r] = job]
    BY <1>7 DEF GiveUp
  <2>2. j \in Job
    BY <1>7, AtIsJob DEF GiveUp
  <2>3. job.todo = <<"retire">>
    BY <2>2 DEF Job
  <2>4. \A s : Needs(job, s) => s = "retire"
    BY <2>3 DEF Needs
  <2>5. IdsFit(job)
    BY <2>4 DEF IdsFit
  <2>6. IdsTyped'
    BY <1>7 DEF GiveUp, Tables, Tokens, IdsInv, IdsTyped
  <2> QED BY <2>1, <2>5, <2>6, IdsJobStep
<1>8. CASE Retire(r)
  <2>1. Done(r) /\ UNCHANGED <<users, owners, schemas, deletions>>
    BY <1>8 DEF Retire, Ignored, Tokens
  <2>2. CASE UNCHANGED vaults
    <3>1. IdsTyped'
      BY <2>1, <2>2 DEF IdsInv, IdsTyped
    <3> QED BY <1>2, <1>8, <2>1, <3>1 DEF Retire
  <2>3. CASE vaults' = [vaults EXCEPT ![j.vault].live = FALSE]
    <3>1. \A v \in DOMAIN vaults : [vaults[v] EXCEPT !.live = FALSE] \in Vault
      BY DEF IdsInv, IdsTyped, Vault
    <3>2. vaults' \in [DOMAIN vaults -> Vault] /\ DOMAIN vaults' = DOMAIN vaults
      BY <2>3, <3>1 DEF IdsInv, IdsTyped
    <3>3. IdsTyped'
      BY <2>1, <3>2 DEF IdsInv, IdsTyped
    <3> QED BY <1>2, <1>8, <2>1, <3>3 DEF Retire
  <2> QED BY <1>8, <2>2, <2>3 DEF Retire
<1>9. CASE DropCodes(r) \/ InsertCode(r)
  <2>1. IdsTyped'
    BY <1>9 DEF DropCodes, InsertCode, Tables, IdsInv, IdsTyped
  <2>2. Done(r)
    BY <1>9 DEF DropCodes, InsertCode, Ignored
  <2> QED BY <1>2, <1>9, <2>1, <2>2 DEF DropCodes, InsertCode
<1>10. CASE SaveUserRow(r)
  <2>1. IdsTyped'
    BY <1>1, <1>10 DEF SaveUserRow, Put, Tokens, IdsInv, IdsTyped
  <2> QED BY <1>2, <1>10, <2>1 DEF SaveUserRow
<1>11. CASE FailJob(r)
  <2>1. IdsTyped'
    BY <1>11 DEF FailJob, Tables, Tokens, IdsInv, IdsTyped
  <2> QED BY <1>11, <2>1, IdleFits, IdsJobStep DEF FailJob, Stop
<1>12. CASE SpendToken(r) \/ DropTokens(r) \/ InsertToken(r)
  <2>1. deletions' \subseteq DeletionToken
    <3>1. CASE InsertToken(r)
      <4>1. issued.token + 1 \in 1..MaxCodes
        BY <3>1 DEF InsertToken, VerifiedInv, AccountRowsTyped, AccountsAssumption
      <4>2. j.user \in UserIds
        BY <1>1, <3>1 DEF InsertToken
      <4>3. [user |-> j.user, token |-> issued.token + 1, expired |-> FALSE] \in DeletionToken
        BY <4>1, <4>2 DEF DeletionToken
      <4>4. deletions' = deletions \cup {[user |-> j.user, token |-> issued.token + 1,
                                          expired |-> FALSE]}
        BY <3>1 DEF InsertToken
      <4> QED BY <4>3, <4>4 DEF IdsInv, IdsTyped
    <3>2. CASE SpendToken(r) \/ DropTokens(r)
      BY <3>2 DEF SpendToken, DropTokens, IdsInv, IdsTyped
    <3> QED BY <1>12, <3>1, <3>2
  <2>2. IdsTyped'
    BY <1>12, <2>1 DEF SpendToken, DropTokens, InsertToken, Tables, IdsInv, IdsTyped
  <2> QED BY <1>2, <1>12, <2>2 DEF SpendToken, DropTokens, InsertToken
<1>13. CASE DropOwner(r)
  <2>1. IdsTyped'
    BY <1>13 DEF DropOwner, Tokens, IdsInv, IdsTyped
  <2> QED BY <1>2, <1>13, <2>1 DEF DropOwner
<1>14. CASE RetireVault(r)
  <2>1. [live |-> FALSE, owner |-> 0] \in Vault
    BY DEF Vault
  <2>2. IdsTyped'
    BY <1>5, <1>14, <2>1 DEF RetireVault, Tokens
  <2> QED BY <1>2, <1>14, <2>2 DEF RetireVault
<1>15. CASE DropSchema(r)
  <2>1. Done(r)
    BY <1>15 DEF DropSchema, Ignored
  <2>2. IdsTyped'
    BY <1>15 DEF DropSchema, Tokens, IdsInv, IdsTyped
  <2> QED BY <1>2, <1>15, <2>1, <2>2 DEF DropSchema
<1>16. CASE DeleteUserRow(r)
  <2>1. IdsTyped'
    BY <1>16 DEF DeleteUserRow, Tokens, IdsInv, IdsTyped
  <2> QED BY <1>2, <1>16, <2>1 DEF DeleteUserRow
<1> QED BY <1>3, <1>4, <1>6, <1>7, <1>8, <1>9, <1>10, <1>11, <1>12, <1>13, <1>14, <1>15, <1>16,
           InsertVaultTyped, InsertUserTyped DEF Create, Change, Close

LEMMA ClockTyped ==
    ASSUME IdsInv, Clock
    PROVE  IdsInv'
<1>1. UNCHANGED <<users, vaults, owners, schemas, jobs>>
  BY DEF Clock, CodeExpires, TokenExpires, DropToken, Tables
<1>2. deletions' \subseteq DeletionToken
  <2>1. \A d \in deletions : [d EXCEPT !.expired = TRUE] \in DeletionToken
    BY DEF IdsInv, IdsTyped, DeletionToken
  <2> QED BY <2>1 DEF Clock, CodeExpires, TokenExpires, DropToken, IdsInv, IdsTyped
<1> QED BY <1>1, <1>2 DEF IdsInv, IdsTyped, IdsFit, Needs

LEMMA TypesHold == AccountsSpec => []AccountsTypeOK
<1>1. AccountsInit => IdsInv
  BY IdleFits DEF AccountsInit, IdsInv, IdsTyped
<1>2. VerifiedInv /\ IdsInv /\ [AccountsNext]_accountVars => IdsInv'
  <2>1. IdsInv /\ UNCHANGED accountVars => IdsInv'
    BY DEF IdsInv, IdsTyped, IdsFit, Needs, accountVars
  <2> QED BY <2>1, AccountsAssumption, AskFitsIds, WorkTyped, ClockTyped DEF AccountsNext
<1>3. VerifiedInv /\ OrderInv /\ IdsInv => AccountsTypeOK
  BY DEF VerifiedInv, AccountRowsTyped, JobsTyped, OrderInv, IdsInv, IdsTyped, AccountsTypeOK
<1> QED BY <1>1, <1>2, <1>3, AccountsInvariant, PTL DEF AccountsSpec

-----------------------------------------------------------------------------
(* The accounts run checks the components side by side: what it does to    *)
(* the variables of one is a step of that one, or leaves it alone.         *)
LEMMA EachComponentSteps ==
    ASSUME [MCNext]_mcVars
    PROVE  /\ [SessionsNext]_sessionVars /\ [AccountsNext]_accountVars
           /\ [GrantNext]_grantVars /\ [SsoNext]_ssoVars
<1>1. CASE UNCHANGED mcVars
  BY <1>1 DEF mcVars
<1>2. CASE MCSessions
  BY <1>2 DEF MCSessions
<1>3. CASE MCAccountsStep
  BY <1>3 DEF MCAccountsStep
<1>4. CASE MCGrant
  BY <1>4 DEF MCGrant
<1>5. CASE MCSso
  BY <1>5 DEF MCSso
<1> QED BY <1>1, <1>2, <1>3, <1>4, <1>5 DEF MCNext

(* For any number of users, devices and overlapping requests: whatever     *)
(* stale row is written back, every user, session, code, grant, connection *)
(* and frame of a request keeps its type, and every id it holds is one     *)
(* that was given out (Sessions, Accounts, EmergencyAccess, SsoLogin).     *)
THEOREM TypesCorrect == MCSpec => []TypesOK
<1>1. MCInit => SessionsInit /\ AccountsInit /\ GrantInit /\ SsoInit
  BY DEF MCInit
<1>2. SessionsTypeOK /\ AccountsTypeOK /\ GrantTypeOK /\ SsoTypeOK => TypesOK
  BY DEF TypesOK
<1>3. [MCNext]_mcVars => /\ [SessionsNext]_sessionVars /\ [AccountsNext]_accountVars
                         /\ [GrantNext]_grantVars /\ [SsoNext]_ssoVars
  BY EachComponentSteps
<1> QED
  BY <1>1, <1>2, <1>3, SecondFactorConfirmed, TypesHold, GrantTyped, SsoTyped, PTL
     DEF MCSpec, SessionsSpec, AccountsSpec, GrantSpec, SsoSpec
=============================================================================

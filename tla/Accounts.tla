------------------------------ MODULE Accounts ------------------------------
(***************************************************************************)
(* The life of user accounts: sign-up with its personal vault, accounts    *)
(* made by an administrator, verification of the address by a code,        *)
(* changes of the user row, and deletion, also by a token sent to the      *)
(* address (service/auth.go, user.go, verification.go).                    *)
(*                                                                         *)
(* A request is the list of the statements it still has to do; each is a   *)
(* step, and each may fail.  What deleting an account does to shared       *)
(* organizations is Membership, what it does to tokens is Sessions.        *)
(***************************************************************************)
EXTENDS Integers, Sequences

CONSTANTS
    AccountRequests,  \* concurrent requests
    Emails,           \* addresses as they are typed
    Lower,            \* address |-> the address in lower case
    MaxAccounts,      \* bound: user rows and vaults ever inserted
    MaxCodes          \* bound: codes, and deletion tokens, ever issued

ASSUME AccountsAssumption ==
    /\ Lower \in [Emails -> Emails]
    /\ \A e \in Emails : Lower[Lower[e]] = Lower[e]
    /\ MaxAccounts \in Nat \ {0}
    /\ MaxCodes \in Nat

VARIABLES
    users,      \* id |-> user row
    vaults,     \* id |-> personal organization
    owners,     \* <<vault, user>>: the owner's rows of organization_users
    schemas,    \* database schemas that exist, named by the address
    codes,      \* verification codes
    deletions,  \* account deletion tokens
    jobs,       \* request |-> frame
    issued,     \* the newest code and the newest deletion token
    opened,     \* history: users whose creation went through
    closing,    \* history: users whose deletion has begun
    proved,     \* history: users who showed a code, or came from an administrator
    orderly     \* history: no requests overlapped, no failed statement ignored

accountVars == <<users, vaults, owners, schemas, codes, deletions, jobs,
                 issued, opened, closing, proved, orderly>>

UserIds == 1..MaxAccounts
VaultIds == 1..MaxAccounts

(* schema is the address it was derived from; keys is the RSA key pair.    *)
Account == [email: Emails, schema: Emails, verified: BOOLEAN, keys: BOOLEAN,
            vault: VaultIds]

(* live is is_active with status active; owner 0 is no owner attached.     *)
Vault == [live: BOOLEAN, owner: {0} \cup UserIds]

VerificationCode == [email: Emails, code: 1..MaxCodes, expired: BOOLEAN]

DeletionToken == [user: UserIds, token: 1..MaxCodes, expired: BOOLEAN]

Statements == {"insertVault", "createSchema", "insertUser", "insertOwner",
               "attachVault", "retire", "dropCodes", "insertCode", "saveUser",
               "spendToken", "dropTokens", "insertToken", "dropOwner",
               "retireVault", "dropSchema", "deleteUser"}

(* The variables of a request; row is the user row to insert or save.      *)
Job == [todo: Seq(Statements), user: {0} \cup UserIds, vault: {0} \cup VaultIds,
        email: Emails, row: Account, token: 0..MaxCodes]

NoJob == [todo |-> <<>>]

AccountsTypeOK ==
    /\ DOMAIN users \subseteq UserIds /\ users \in [DOMAIN users -> Account]
    /\ DOMAIN vaults \subseteq VaultIds /\ vaults \in [DOMAIN vaults -> Vault]
    /\ owners \subseteq VaultIds \X UserIds
    /\ schemas \subseteq Emails
    /\ codes \subseteq VerificationCode
    /\ deletions \subseteq DeletionToken
    /\ jobs \in [AccountRequests -> Job \cup {NoJob}]
    /\ issued \in [user: 0..MaxAccounts, vault: 0..MaxAccounts,
                   code: 0..MaxCodes, token: 0..MaxCodes]
    /\ orderly \in BOOLEAN

AccountsInit ==
    /\ users = [u \in {} |-> NoJob] /\ vaults = [v \in {} |-> NoJob]
    /\ owners = {} /\ schemas = {} /\ codes = {} /\ deletions = {}
    /\ jobs = [r \in AccountRequests |-> NoJob]
    /\ issued = [user |-> 0, vault |-> 0, code |-> 0, token |-> 0]
    /\ opened = {} /\ closing = {} /\ proved = {}
    /\ orderly = TRUE

-----------------------------------------------------------------------------
(* Frames. *)

Begin(r, job) ==
    /\ jobs[r] = NoJob
    /\ jobs' = [jobs EXCEPT ![r] = job]
    /\ orderly' = (orderly /\ \A q \in AccountRequests : jobs[q] = NoJob)

At(r, statement) == jobs[r].todo # <<>> /\ Head(jobs[r].todo) = statement

(* Goes on with job, whose first statement is done. *)
Advance(r, job) ==
    jobs' = [jobs EXCEPT ![r] = IF Len(job.todo) <= 1 THEN NoJob
                                ELSE [job EXCEPT !.todo = Tail(@)]]

Done(r) == Advance(r, jobs[r])

Stop(r) == jobs' = [jobs EXCEPT ![r] = NoJob]

(* A statement whose error the code ignores. *)
Ignored(r) == Done(r) /\ orderly' = FALSE

Tables == <<users, vaults, owners, schemas>>
Tokens == <<codes, deletions>>
Histories == <<opened, closing, proved>>

-----------------------------------------------------------------------------
(* Creating an account. *)

(* GetByEmail compares in lower case and takes the lowest id. *)
Named(e) == {u \in DOMAIN users : Lower[users[u].email] = Lower[e]}

GetByEmail(e) == CHOOSE u \in Named(e) : \A w \in Named(e) : u <= w

NewAccount(e, verified) ==
    [email |-> e, schema |-> e, verified |-> verified, keys |-> FALSE, vault |-> 1]

Creating(e, verified, after) ==
    [todo |-> <<"insertVault", "createSchema", "insertUser", "insertOwner",
                "attachVault">> \o after,
     user |-> 0, vault |-> 0, email |-> e, row |-> NewAccount(e, verified),
     token |-> 0]

(* An address that has an account is refused, unless the lookup fails:     *)
(* then the request goes on, and the unique indexes decide.  A sign-up's   *)
(* Validate has put the address in lower case.                             *)
SignUp(r, e) ==
    /\ Begin(r, Creating(Lower[e], FALSE, <<"dropCodes", "insertCode">>))
    /\ UNCHANGED <<Tables, Tokens, issued, Histories>>

CreateByAdmin(r, e) ==
    /\ Begin(r, Creating(e, TRUE, <<>>))
    /\ UNCHANGED <<Tables, Tokens, issued, Histories>>

InsertVault(r) ==
    LET v == issued.vault + 1
    IN  /\ At(r, "insertVault")
        /\ v <= MaxAccounts
        /\ issued' = [issued EXCEPT !.vault = v]
        /\ vaults' = [w \in DOMAIN vaults \cup {v} |->
                        IF w = v THEN [live |-> TRUE, owner |-> 0] ELSE vaults[w]]
        /\ Advance(r, [jobs[r] EXCEPT !.vault = v, !.row.vault = v])
        /\ UNCHANGED <<users, owners, schemas, Tokens, Histories, orderly>>

(* From here on an error retires the vault before the request ends. *)
GiveUp(r) ==
    /\ At(r, "createSchema") \/ At(r, "insertUser")
    /\ jobs' = [jobs EXCEPT ![r].todo = <<"retire">>]
    /\ UNCHANGED <<Tables, Tokens, issued, Histories, orderly>>

Retire(r) ==
    /\ At(r, "retire")
    /\ \/ vaults' = [vaults EXCEPT ![jobs[r].vault].live = FALSE] /\ Done(r)
          /\ UNCHANGED orderly
       \/ Ignored(r) /\ UNCHANGED vaults
    /\ UNCHANGED <<users, owners, schemas, Tokens, issued, Histories>>

CreateSchema(r) ==
    /\ At(r, "createSchema")
    /\ schemas' = schemas \cup {jobs[r].row.schema}
    /\ Done(r)
    /\ UNCHANGED <<users, vaults, owners, Tokens, issued, Histories, orderly>>

(* Mutant: no unique index on the schema. *)
UniqueEmail(u, row) == \A w \in DOMAIN users \ {u} : users[w].email # row.email

(* The unique indices of the table, with u the row's own id. *)
Unique(u, row) ==
    \A w \in DOMAIN users \ {u} :
        users[w].email # row.email /\ users[w].schema # row.schema

Put(u, row) ==
    users' = [w \in DOMAIN users \cup {u} |-> IF w = u THEN row ELSE users[w]]

InsertUser(r) ==
    LET u == issued.user + 1
    IN  /\ At(r, "insertUser")
        /\ u <= MaxAccounts
        /\ Unique(0, jobs[r].row)
        /\ Put(u, jobs[r].row)
        /\ issued' = [issued EXCEPT !.user = u]
        /\ proved' = IF jobs[r].row.verified THEN proved \cup {u} ELSE proved
        /\ Advance(r, [jobs[r] EXCEPT !.user = u])
        /\ UNCHANGED <<vaults, owners, schemas, Tokens, opened, closing, orderly>>

(* The foreign key refuses a user who is gone. *)
InsertOwner(r) ==
    /\ At(r, "insertOwner")
    /\ jobs[r].user \in DOMAIN users
    /\ owners' = owners \cup {<<jobs[r].vault, jobs[r].user>>}
    /\ Done(r)
    /\ UNCHANGED <<users, vaults, schemas, Tokens, issued, Histories, orderly>>

(* The organization is saved whole, as it was created. *)
AttachVault(r) ==
    /\ At(r, "attachVault")
    /\ vaults' = [vaults EXCEPT ![jobs[r].vault] =
                    [live |-> TRUE, owner |-> jobs[r].user]]
    /\ opened' = opened \cup {jobs[r].user}
    /\ Done(r)
    /\ UNCHANGED <<users, owners, schemas, Tokens, issued, closing, proved, orderly>>

-----------------------------------------------------------------------------
(* Verification codes. *)

(* Mutant: the codes sent before stay valid. *)
DropNoCodes(r) ==
    /\ At(r, "dropCodes")
    /\ Done(r)
    /\ UNCHANGED <<Tables, Tokens, issued, Histories, orderly>>

DropCodes(r) ==
    /\ At(r, "dropCodes")
    /\ \/ codes' = {c \in codes : c.email # jobs[r].email} /\ Done(r)
          /\ UNCHANGED orderly
       \/ Ignored(r) /\ UNCHANGED codes
    /\ UNCHANGED <<Tables, deletions, issued, Histories>>

InsertCode(r) ==
    /\ At(r, "insertCode")
    /\ issued.code < MaxCodes
    /\ issued' = [issued EXCEPT !.code = @ + 1]
    /\ codes' = codes \cup {[email |-> jobs[r].email, code |-> issued.code + 1,
                             expired |-> FALSE]}
    /\ Done(r)
    /\ UNCHANGED <<Tables, deletions, Histories, orderly>>

JobFor(u, todo, row, token) ==
    [todo |-> todo, user |-> u, vault |-> row.vault, email |-> Lower[row.email],
     row |-> row, token |-> token]

ResendCode(r, e) ==
    /\ Named(e) # {}
    /\ LET u == GetByEmail(e)
       IN  /\ ~users[u].verified
           /\ Begin(r, JobFor(u, <<"dropCodes", "insertCode">>, users[u], 0))
    /\ UNCHANGED <<Tables, Tokens, issued, Histories>>

(* Mutant: the date of the code is not looked at. *)
VerifyCodeLate(r, c) ==
    /\ Named(c.email) # {}
    /\ LET u == GetByEmail(c.email)
       IN  /\ ~users[u].verified
           /\ Begin(r, JobFor(u, <<"saveUser", "dropCodes">>,
                              [users[u] EXCEPT !.verified = TRUE], c.code))
           /\ proved' = IF c.expired THEN proved ELSE proved \cup {u}
    /\ UNCHANGED <<Tables, Tokens, issued, opened, closing>>

(* A code that has expired, or has nothing to verify, is dropped. *)
VerifyCode(r, c) ==
    /\ \/ /\ c.expired
          /\ Begin(r, [JobFor(0, <<"dropCodes">>, NewAccount(c.email, FALSE), 0)
                        EXCEPT !.vault = 0])
          /\ UNCHANGED proved
       \/ /\ ~c.expired /\ Named(c.email) # {}
          /\ LET u == GetByEmail(c.email)
             IN  IF users[u].verified
                 THEN /\ Begin(r, JobFor(u, <<"dropCodes">>, users[u], 0))
                      /\ UNCHANGED proved
                 ELSE /\ Begin(r, JobFor(u, <<"saveUser", "dropCodes">>,
                                    [users[u] EXCEPT !.verified = TRUE], c.code))
                      /\ proved' = proved \cup {u}
    /\ UNCHANGED <<Tables, Tokens, issued, opened, closing>>

-----------------------------------------------------------------------------
(* Changes of the user row. *)

(* gorm writes all columns, and inserts the row again when it is gone. *)
SaveUserRow(r) ==
    /\ At(r, "saveUser")
    /\ Unique(jobs[r].user, jobs[r].row)
    /\ Put(jobs[r].user, jobs[r].row)
    /\ Done(r)
    /\ UNCHANGED <<vaults, owners, schemas, Tokens, issued, Histories, orderly>>

SavingRow(r, u, row) ==
    /\ Begin(r, JobFor(u, <<"saveUser">>, row, 0))
    /\ UNCHANGED <<Tables, Tokens, issued, Histories>>

(* An administrator may edit any account, a user who is signed in his own; *)
(* the address is taken as typed.                                          *)
UpdateUser(r, u, e) == SavingRow(r, u, [users[u] EXCEPT !.email = e])

StoreRSAKeys(r, u) ==
    /\ users[u].verified
    /\ ~users[u].keys
    /\ SavingRow(r, u, [users[u] EXCEPT !.keys = TRUE])

-----------------------------------------------------------------------------
(* Deleting an account. *)

(* Mutant: the personal vault is forgotten. *)
DeleteKeepsVault == <<"dropOwner", "dropSchema", "deleteUser">>

DeleteSteps == <<"dropOwner", "retireVault", "dropSchema", "deleteUser">>

DeleteUser(r, u) ==
    /\ Begin(r, JobFor(u, DeleteSteps, users[u], 0))
    /\ closing' = closing \cup {u}
    /\ UNCHANGED <<Tables, Tokens, issued, opened, proved>>

RequestRecoveryDelete(r, e) ==
    /\ Named(e) # {}
    /\ LET u == GetByEmail(e)
       IN  Begin(r, JobFor(u, <<"dropTokens", "insertToken">>, users[u], 0))
    /\ UNCHANGED <<Tables, Tokens, issued, Histories>>

ConfirmRecoveryDelete(r, d) ==
    /\ ~d.expired
    /\ d.user \in DOMAIN users
    /\ Begin(r, JobFor(d.user, <<"spendToken", "dropTokens">> \o DeleteSteps,
                       users[d.user], d.token))
    /\ closing' = closing \cup {d.user}
    /\ UNCHANGED <<Tables, Tokens, issued, opened, proved>>

(* A token that has expired, or whose user is gone, is deleted when shown. *)
DropToken(d) ==
    /\ d.expired \/ d.user \notin DOMAIN users
    /\ deletions' = deletions \ {d}
    /\ UNCHANGED <<Tables, codes, jobs, issued, Histories, orderly>>

SpendToken(r) ==
    /\ At(r, "spendToken")
    /\ deletions' = {d \in deletions : d.token # jobs[r].token}
    /\ Done(r)
    /\ UNCHANGED <<Tables, codes, issued, Histories, orderly>>

DropTokens(r) ==
    /\ At(r, "dropTokens")
    /\ deletions' = {d \in deletions : d.user # jobs[r].user}
    /\ Done(r)
    /\ UNCHANGED <<Tables, codes, issued, Histories, orderly>>

InsertToken(r) ==
    /\ At(r, "insertToken")
    /\ issued.token < MaxCodes
    /\ issued' = [issued EXCEPT !.token = @ + 1]
    /\ deletions' = deletions \cup {[user |-> jobs[r].user,
                        token |-> issued.token + 1, expired |-> FALSE]}
    /\ Done(r)
    /\ UNCHANGED <<Tables, codes, Histories, orderly>>

DropOwner(r) ==
    /\ At(r, "dropOwner")
    /\ owners' = {o \in owners : o[2] # jobs[r].user}
    /\ Done(r)
    /\ UNCHANGED <<users, vaults, schemas, Tokens, issued, Histories, orderly>>

RetireVault(r) ==
    /\ At(r, "retireVault")
    /\ vaults' = [vaults EXCEPT ![jobs[r].vault] = [live |-> FALSE, owner |-> 0]]
    /\ Done(r)
    /\ UNCHANGED <<users, owners, schemas, Tokens, issued, Histories, orderly>>

(* That dropping fails is only logged. *)
DropSchema(r) ==
    /\ At(r, "dropSchema")
    /\ \/ schemas' = schemas \ {jobs[r].row.schema} /\ Done(r) /\ UNCHANGED orderly
       \/ Ignored(r) /\ UNCHANGED schemas
    /\ UNCHANGED <<users, vaults, owners, Tokens, issued, Histories>>

(* The foreign key of organization_users refuses while a row is left. *)
DeleteUserRow(r) ==
    /\ At(r, "deleteUser")
    /\ \A o \in owners : o[2] # jobs[r].user
    /\ users' = [u \in DOMAIN users \ {jobs[r].user} |-> users[u]]
    /\ Done(r)
    /\ UNCHANGED <<vaults, owners, schemas, Tokens, issued, Histories, orderly>>

-----------------------------------------------------------------------------
(* An error or a crash ends a request at any statement. *)
FailJob(r) ==
    /\ jobs[r] # NoJob
    /\ Stop(r)
    /\ UNCHANGED <<Tables, Tokens, issued, Histories, orderly>>

CodeExpires(c) ==
    /\ ~c.expired
    /\ codes' = (codes \ {c}) \cup {[c EXCEPT !.expired = TRUE]}
    /\ UNCHANGED <<Tables, deletions, jobs, issued, Histories, orderly>>

TokenExpires(d) ==
    /\ ~d.expired
    /\ deletions' = (deletions \ {d}) \cup {[d EXCEPT !.expired = TRUE]}
    /\ UNCHANGED <<Tables, codes, jobs, issued, Histories, orderly>>

Ask(r) ==
    \/ \E e \in Emails :
          \/ SignUp(r, e)
          \/ CreateByAdmin(r, e)
          \/ ResendCode(r, e)
          \/ RequestRecoveryDelete(r, e)
          \/ \E u \in DOMAIN users : UpdateUser(r, u, e)
    \/ \E u \in DOMAIN users : StoreRSAKeys(r, u) \/ DeleteUser(r, u)
    \/ \E c \in codes : VerifyCode(r, c)
    \/ \E d \in deletions : ConfirmRecoveryDelete(r, d)

Create(r) ==
    \/ InsertVault(r)
    \/ CreateSchema(r)
    \/ InsertUser(r)
    \/ InsertOwner(r)
    \/ AttachVault(r)
    \/ GiveUp(r)
    \/ Retire(r)

Change(r) ==
    \/ DropCodes(r)
    \/ InsertCode(r)
    \/ SaveUserRow(r)
    \/ FailJob(r)

Close(r) ==
    \/ SpendToken(r)
    \/ DropTokens(r)
    \/ InsertToken(r)
    \/ DropOwner(r)
    \/ RetireVault(r)
    \/ DropSchema(r)
    \/ DeleteUserRow(r)

Clock ==
    \/ \E c \in codes : CodeExpires(c)
    \/ \E d \in deletions : TokenExpires(d) \/ DropToken(d)

AccountsNext ==
    \/ \E r \in AccountRequests : Ask(r) \/ Create(r) \/ Change(r) \/ Close(r)
    \/ Clock

AccountsSpec == AccountsInit /\ [][AccountsNext]_accountVars

-----------------------------------------------------------------------------
(* Properties. *)

(* Nobody counts as verified who has shown no code sent to the address and *)
(* was not made by an administrator, however stale rows are written back.  *)
VerifiedWasProved == \A u \in DOMAIN users : users[u].verified => u \in proved

(* A user whose creation went through has a schema and a live personal     *)
(* vault that names him its owner and lists him, until a deletion begins,  *)
(* also after other creations and deletions fail half way (as long as      *)
(* requests do not overlap).                                               *)
OpenedHasVault ==
    orderly => \A u \in (opened \ closing) \cap DOMAIN users :
        /\ vaults[users[u].vault] = [live |-> TRUE, owner |-> u]
        /\ <<users[u].vault, u>> \in owners
        /\ users[u].schema \in schemas

(* No vault stays alive under an owner whose account is gone (as long as   *)
(* requests do not overlap).                                               *)
DeletedVaultIsRetired ==
    orderly => \A v \in DOMAIN vaults :
        vaults[v].live /\ vaults[v].owner # 0 => vaults[v].owner \in DOMAIN users

(* Sending a code makes those sent to the address before worthless (as     *)
(* long as requests do not overlap and no deletion of codes fails).        *)
OneCodeCounts ==
    orderly => \A c, d \in codes : c.email = d.email => c = d
=============================================================================

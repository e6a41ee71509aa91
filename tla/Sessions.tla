------------------------------ MODULE Sessions ------------------------------
(***************************************************************************)
(* The sessions of one verified user: sign-in by password, second factor   *)
(* or single sign-on, the rotation of tokens, and the changes of the       *)
(* account that end or guard sessions (service/auth.go, two_factor.go).    *)
(*                                                                         *)
(* Every statement on the tables is a step of its own.  The user row is    *)
(* saved whole, so a save takes back what was saved since its request read *)
(* the row.  A refusal before the first write is no action.  Tokens expire *)
(* at any moment; the clock is left out.                                   *)
(***************************************************************************)
EXTENDS Integers, FiniteSets

CONSTANTS
    SessionRequests,  \* concurrent requests
    Devices,          \* device ids clients send: the session is the device's
    Anonymous,        \* ids the server draws for sign-ins without a device
    RecoveryCodes,    \* recovery codes of one set-up
    Passwords,
    FreePlan,         \* free plan, and no paid organization
    MaxTokens,        \* bound: token rows ever inserted
    MaxSecrets        \* bound: set-ups of the second factor

ASSUME SessionsAssumption ==
    /\ FreePlan \in BOOLEAN
    /\ MaxTokens \in Nat
    /\ MaxSecrets \in Nat
    /\ Passwords # {}
    /\ Devices \cup Anonymous # {}

VARIABLES
    user,       \* the user row
    lastSecret, \* the newest secret generated
    tokens,     \* id |-> token row
    lastToken,  \* the highest id given to a token
    tickets,    \* second-factor tokens issued and not expired
    calls,      \* request |-> frame
    confirmed,  \* history: secrets the user has proved to hold
    used,       \* history: recovery codes accepted, with their secret
    spent,      \* history: tokens exchanged for new ones
    calm        \* history: no requests overlapped, no failed deletion ignored

sessionVars == <<user, lastSecret, tokens, lastToken, tickets, calls,
                 confirmed, used, spent, calm>>

SessionIds == Devices \cup Anonymous

(* two_factor_secret 0 is NULL. *)
UserRow == [password: Passwords, secret: 0..MaxSecrets, enabled: BOOLEAN,
            codes: SUBSET RecoveryCodes]

TokenRow == [session: SessionIds, kind: {"access", "refresh"}, expired: BOOLEAN]

Ticket == [session: SessionIds, logout: BOOLEAN]

(* "unlimited" is "access" without the limit: the plan could not be read.  *)
SessionPCs == {"idle", "consume", "replace", "limit", "revoke", "access",
               "unlimited", "refresh", "save", "forget", "signout"}

(* token is the one presented for rotation or 0, row the user row to save, *)
(* codes the recovery code this consumes.                                  *)
CallFrame == [pc: SessionPCs, then: SessionPCs, session: SessionIds,
              logout: BOOLEAN, token: 0..MaxTokens, row: UserRow,
              codes: SUBSET RecoveryCodes]

NoCall == [pc |-> "idle"]

SessionsTypeOK ==
    /\ user \in UserRow
    /\ lastSecret \in 0..MaxSecrets
    /\ DOMAIN tokens \subseteq 1..lastToken
    /\ tokens \in [DOMAIN tokens -> TokenRow]
    /\ lastToken \in 0..MaxTokens
    /\ tickets \subseteq Ticket
    /\ calls \in [SessionRequests -> CallFrame \cup {NoCall}]
    /\ confirmed \subseteq 1..MaxSecrets
    /\ spent \subseteq 1..MaxTokens
    /\ calm \in BOOLEAN

SessionsInit ==
    /\ \E p \in Passwords :
          user = [password |-> p, secret |-> 0, enabled |-> FALSE, codes |-> {}]
    /\ lastSecret = 0
    /\ tokens = [i \in {} |-> NoCall]
    /\ lastToken = 0
    /\ tickets = {}
    /\ calls = [r \in SessionRequests |-> NoCall]
    /\ confirmed = {} /\ used = {} /\ spent = {}
    /\ calm = TRUE

-----------------------------------------------------------------------------
(* Frames. *)

GoOn(r, frame) == calls' = [calls EXCEPT ![r] = frame]

Step(r, pc) == GoOn(r, [calls[r] EXCEPT !.pc = pc])

Request(r, frame) ==
    /\ calls[r] = NoCall
    /\ GoOn(r, frame)
    /\ calm' = (calm /\ \A q \in SessionRequests : calls[q] = NoCall)
    /\ UNCHANGED <<user, tokens, lastToken, spent>>

(* A frame that will open a session, and one that will save the user row.  *)
Opening(pc, session, logout, token) ==
    [pc |-> pc, then |-> "idle", session |-> session, logout |-> logout,
     token |-> token, row |-> user, codes |-> {}]

Saving(row, then) ==
    [pc |-> "save", then |-> then, session |-> CHOOSE s \in SessionIds : TRUE,
     logout |-> FALSE, token |-> 0, row |-> row, codes |-> {}]

(* A recovery code is taken from the row, and the row saved, before        *)
(* anything else.                                                          *)
Consuming(frame, c) ==
    [frame EXCEPT !.then = frame.pc, !.pc = "consume",
                  !.row = [user EXCEPT !.codes = @ \ {c}], !.codes = {c}]

Secrets == <<lastSecret, tickets, confirmed, used>>

-----------------------------------------------------------------------------
(* Signing in. *)

(* A device's session is replaced; without a device the session is new.    *)
OpenAt(session) == IF session \in Devices THEN "replace" ELSE "limit"

Sid == Devices \cup {s \in Anonymous :
                        /\ \A i \in DOMAIN tokens : tokens[i].session # s
                        /\ \A r \in SessionRequests :
                              calls[r] # NoCall => calls[r].session # s}

SignIn(r, session, logout) ==
    /\ ~(user.enabled /\ user.secret # 0)
    /\ session \in Sid
    /\ Request(r, Opening(OpenAt(session), session, logout, 0))
    /\ UNCHANGED Secrets

(* With the second factor on, a sign-in gives a ticket and no session.     *)
SignInTwoFactor(session, logout) ==
    /\ user.enabled /\ user.secret # 0
    /\ session \in Sid
    /\ tickets' = tickets \cup {[session |-> session, logout |-> logout]}
    /\ UNCHANGED <<user, lastSecret, tokens, lastToken, calls, confirmed,
                   used, spent, calm>>

(* Single sign-on asks for no second factor and never logs others out.     *)
IssueTokenForUser(r, session) ==
    /\ session \in Sid
    /\ Request(r, Opening(OpenAt(session), session, FALSE, 0))
    /\ UNCHANGED Secrets

(* A ticket opens its session with a code of the authenticator or with a   *)
(* recovery code, and stays valid until it expires.                        *)
VerifyTwoFactorSignIn(r, t) ==
    LET opening == Opening(OpenAt(t.session), t.session, t.logout, 0)
    IN  /\ user.enabled /\ user.secret # 0
        /\ \/ Request(r, opening)
           \/ \E c \in user.codes : Request(r, Consuming(opening, c))
        /\ UNCHANGED Secrets

TurnedOff(row) == [row EXCEPT !.enabled = FALSE, !.secret = 0, !.codes = {}]

CodesOf(frame) == {<<frame.row.secret, c>> : c \in frame.codes}

(* Mutant: the row without the code is not saved. *)
ConsumeUnsaved(r) ==
    /\ calls[r].pc = "consume"
    /\ used' = used \cup CodesOf(calls[r])
    /\ GoOn(r, [calls[r] EXCEPT !.pc = calls[r].then, !.then = "idle"])
    /\ UNCHANGED <<user, lastSecret, tokens, lastToken, tickets, confirmed,
                   spent, calm>>

(* tryRecoveryCode saves the row; turning the factor off saves it again.   *)
Consume(r) ==
    /\ calls[r].pc = "consume"
    /\ user' = calls[r].row
    /\ used' = used \cup CodesOf(calls[r])
    /\ GoOn(r, [calls[r] EXCEPT !.pc = calls[r].then, !.then = "idle",
                    !.row = IF calls[r].then = "save" THEN TurnedOff(@) ELSE @])
    /\ UNCHANGED <<lastSecret, tokens, lastToken, tickets, confirmed, spent, calm>>

-----------------------------------------------------------------------------
(* Token rows. *)

(* Mutant: only the access tokens of the session. *)
AccessOfSession(s) ==
    {i \in DOMAIN tokens : tokens[i].session = s /\ tokens[i].kind = "access"}

OfSession(s) == {i \in DOMAIN tokens : tokens[i].session = s}

DeleteTokens(ids) ==
    /\ tokens' = [i \in DOMAIN tokens \ ids |-> tokens[i]]
    /\ UNCHANGED lastToken

CreateToken(session, kind) ==
    /\ lastToken < MaxTokens
    /\ lastToken' = lastToken + 1
    /\ tokens' = [i \in DOMAIN tokens \cup {lastToken + 1} |->
                    IF i \in DOMAIN tokens THEN tokens[i]
                    ELSE [session |-> session, kind |-> kind, expired |-> FALSE]]

(* Sign-in and rotation first delete the session's tokens; the result of   *)
(* that statement is ignored.                                              *)
Replace(r) ==
    /\ calls[r].pc = "replace"
    /\ \/ DeleteTokens(OfSession(calls[r].session)) /\ UNCHANGED calm
       \/ calm' = FALSE /\ UNCHANGED <<tokens, lastToken>>
    /\ spent' = spent \cup ({calls[r].token} \ {0})
    /\ Step(r, IF calls[r].token = 0 THEN "limit" ELSE "access")
    /\ UNCHANGED <<user, lastSecret, tickets, confirmed, used>>

CountActiveSessionsByUserID ==
    Cardinality({tokens[i].session : i \in
        {j \in DOMAIN tokens : tokens[j].kind = "access" /\ ~tokens[j].expired}})

(* Mutant: one session more than the plan allows. *)
LimitReachedLate == CountActiveSessionsByUserID > 1

LimitReached == CountActiveSessionsByUserID >= 1

(* A subscription that cannot be read lifts the limit when it is the       *)
(* user's own, and imposes it when it is that of a paid organization.      *)
EnforceDeviceLimit(r) ==
    /\ calls[r].pc = "limit"
    /\ \/ (~FreePlan \/ ~LimitReached) /\ Step(r, "access")
       \/ FreePlan /\ Step(r, "unlimited")
       \/ LimitReached /\ calls[r].logout /\ Step(r, "revoke")
       \/ LimitReached /\ ~calls[r].logout /\ GoOn(r, NoCall)
    /\ UNCHANGED <<user, tokens, lastToken, spent, calm>>
    /\ UNCHANGED Secrets

LogoutOthers(r) ==
    /\ calls[r].pc = "revoke"
    /\ DeleteTokens(DOMAIN tokens)
    /\ Step(r, "access")
    /\ UNCHANGED <<user, spent, calm>>
    /\ UNCHANGED Secrets

StoreAccess(r) ==
    /\ calls[r].pc \in {"access", "unlimited"}
    /\ CreateToken(calls[r].session, "access")
    /\ Step(r, "refresh")
    /\ UNCHANGED <<user, spent, calm>>
    /\ UNCHANGED Secrets

StoreRefresh(r) ==
    /\ calls[r].pc = "refresh"
    /\ CreateToken(calls[r].session, "refresh")
    /\ GoOn(r, NoCall)
    /\ UNCHANGED <<user, spent, calm>>
    /\ UNCHANGED Secrets

(* RefreshToken takes a token of either kind. *)
RefreshToken(r, i) ==
    /\ ~tokens[i].expired
    /\ Request(r, Opening("replace", tokens[i].session, FALSE, i))
    /\ UNCHANGED Secrets

SignOut(r, i) ==
    /\ Request(r, Opening("signout", tokens[i].session, FALSE, 0))
    /\ UNCHANGED Secrets

SignOutSession(r) ==
    /\ calls[r].pc = "signout"
    /\ DeleteTokens(OfSession(calls[r].session))
    /\ GoOn(r, NoCall)
    /\ UNCHANGED <<user, spent, calm>>
    /\ UNCHANGED Secrets

(* Time: a token, or a ticket, expires.  A token that is found expired is  *)
(* deleted by ValidateToken, all of them by the cleanup worker.            *)
ExpireToken(i) ==
    /\ ~tokens[i].expired
    /\ tokens' = [tokens EXCEPT ![i].expired = TRUE]
    /\ UNCHANGED <<user, lastToken, calls, spent, calm>>
    /\ UNCHANGED Secrets

ExpireTicket(t) ==
    /\ tickets' = tickets \ {t}
    /\ UNCHANGED <<user, lastSecret, tokens, lastToken, calls, confirmed,
                   used, spent, calm>>

Expired == {i \in DOMAIN tokens : tokens[i].expired}

ValidateToken(i) ==
    /\ i \in Expired
    /\ DeleteTokens({i})
    /\ UNCHANGED <<user, calls, spent, calm>>
    /\ UNCHANGED Secrets

CleanupTokens ==
    /\ Expired # {}
    /\ DeleteTokens(Expired)
    /\ UNCHANGED <<user, calls, spent, calm>>
    /\ UNCHANGED Secrets

-----------------------------------------------------------------------------
(* Changing the account. *)

(* Every device is signed out; that this fails is only logged. *)
ChangeMasterPassword(r, password) ==
    /\ Request(r, Saving([user EXCEPT !.password = password], "forget"))
    /\ UNCHANGED Secrets

SaveUser(r) ==
    /\ calls[r].pc = "save"
    /\ user' = calls[r].row
    /\ IF calls[r].then = "idle" THEN GoOn(r, NoCall) ELSE Step(r, calls[r].then)
    /\ UNCHANGED <<tokens, lastToken, spent, calm>>
    /\ UNCHANGED Secrets

SignOutEverywhere(r) ==
    /\ calls[r].pc = "forget"
    /\ DeleteTokens(DOMAIN tokens)
    /\ GoOn(r, NoCall)
    /\ UNCHANGED <<user, spent, calm>>
    /\ UNCHANGED Secrets

(* Mutant: a new set-up replaces the secret of a factor in force. *)
SetupAgain(r) ==
    /\ lastSecret < MaxSecrets
    /\ lastSecret' = lastSecret + 1
    /\ Request(r, Saving([user EXCEPT !.secret = lastSecret + 1,
                                      !.codes = RecoveryCodes], "idle"))
    /\ UNCHANGED <<tickets, confirmed, used>>

SetupTwoFactor(r) ==
    /\ ~user.enabled
    /\ lastSecret < MaxSecrets
    /\ lastSecret' = lastSecret + 1
    /\ Request(r, Saving([user EXCEPT !.secret = lastSecret + 1,
                                      !.codes = RecoveryCodes], "idle"))
    /\ UNCHANGED <<tickets, confirmed, used>>

(* A code of the authenticator proves that the user holds the secret.      *)
ConfirmTwoFactor(r) ==
    /\ ~user.enabled
    /\ user.secret # 0
    /\ confirmed' = confirmed \cup {user.secret}
    /\ Request(r, Saving([user EXCEPT !.enabled = TRUE], "idle"))
    /\ UNCHANGED <<lastSecret, tickets, used>>

(* By a code of the authenticator, or by a recovery code. *)
DisableTwoFactor(r) ==
    LET saving == Saving(TurnedOff(user), "idle")
    IN  /\ user.enabled
        /\ \/ Request(r, saving)
           \/ \E c \in user.codes : Request(r, Consuming(saving, c))
        /\ UNCHANGED Secrets

-----------------------------------------------------------------------------
(* An error or a crash ends a request. *)
FailCall(r) ==
    /\ calls[r] # NoCall
    /\ GoOn(r, NoCall)
    /\ UNCHANGED <<user, tokens, lastToken, spent, calm>>
    /\ UNCHANGED Secrets

OpenSession(r) ==
    \/ \E s \in SessionIds :
          \/ \E logout \in BOOLEAN : SignIn(r, s, logout)
          \/ IssueTokenForUser(r, s)
    \/ \E t \in tickets : VerifyTwoFactorSignIn(r, t)
    \/ \E i \in DOMAIN tokens : RefreshToken(r, i) \/ SignOut(r, i)

ChangeAccount(r) ==
    \/ \E p \in Passwords : ChangeMasterPassword(r, p)
    \/ SetupTwoFactor(r)
    \/ ConfirmTwoFactor(r)
    \/ DisableTwoFactor(r)

Statement(r) ==
    \/ Consume(r)
    \/ Replace(r)
    \/ EnforceDeviceLimit(r)
    \/ LogoutOthers(r)
    \/ StoreAccess(r)
    \/ StoreRefresh(r)
    \/ SignOutSession(r)
    \/ SaveUser(r)
    \/ SignOutEverywhere(r)
    \/ FailCall(r)

TimePasses ==
    \/ \E i \in DOMAIN tokens : ExpireToken(i) \/ ValidateToken(i)
    \/ \E t \in tickets : ExpireTicket(t)

SessionsNext ==
    \/ \E r \in SessionRequests : OpenSession(r)
    \/ \E r \in SessionRequests : ChangeAccount(r)
    \/ \E r \in SessionRequests : Statement(r)
    \/ \E s \in SessionIds, logout \in BOOLEAN : SignInTwoFactor(s, logout)
    \/ TimePasses
    \/ CleanupTokens

SessionsSpec == SessionsInit /\ [][SessionsNext]_sessionVars

-----------------------------------------------------------------------------
(* Properties. *)

(* A second factor in force is one whose secret the user has proved to     *)
(* hold, however saves of whole rows interleave: nobody is locked out by a *)
(* set-up that was never confirmed.                                        *)
EnabledIsConfirmed == user.enabled => user.secret \in confirmed

(* On the free plan a sign-in that succeeds leaves no other device with a  *)
(* live session, also after sign-ins whose plan could not be read, and     *)
(* unless its own could not (as long as requests do not overlap).          *)
DeviceLimitHolds ==
    [][\A r \in SessionRequests :
          StoreAccess(r) /\ calm /\ FreePlan /\ calls[r].token = 0
          /\ calls[r].pc = "access"
              => \A i \in DOMAIN tokens :
                    tokens[i].expired \/ tokens[i].kind = "refresh"]_sessionVars

(* A token is exchanged for new ones once, also when the exchange fails    *)
(* half way (as long as requests do not overlap).                          *)
TokensServeOnce ==
    [][\A r \in SessionRequests :
          Replace(r) /\ calm' => calls[r].token \notin spent]_sessionVars

(* A recovery code is accepted once (as long as requests do not overlap).  *)
CodesServeOnce ==
    [][\A r \in SessionRequests :
          Consume(r) /\ calm => CodesOf(calls[r]) \cap used = {}]_sessionVars
=============================================================================

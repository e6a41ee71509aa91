--------------------------- MODULE SessionsProofs ---------------------------
(***************************************************************************)
(* For any number of requests, devices and recovery codes: the session     *)
(* tables are well typed, and a second factor in force is one the user has *)
(* proved to hold, although every change saves the whole user row.  While  *)
(* requests do not overlap, tokens and recovery codes serve once and the   *)
(* device limit of the free plan holds.                                    *)
(***************************************************************************)
EXTENDS Sessions, FiniteSetTheorems, TLAPS

(* A row under way to be saved is as good as the one in the table. *)
Confirmed(row) == row.enabled => row.secret \in confirmed

FramesConfirmed ==
    \A r \in SessionRequests : calls[r] # NoCall => Confirmed(calls[r].row)

SessionsInv == SessionsTypeOK /\ EnabledIsConfirmed /\ FramesConfirmed

TokensTyped ==
    /\ DOMAIN tokens \subseteq 1..lastToken
    /\ tokens \in [DOMAIN tokens -> TokenRow]
    /\ lastToken \in 0..MaxTokens

-----------------------------------------------------------------------------
(* The frames requests start with. *)
LEMMA OpeningTyped ==
    ASSUME user \in UserRow, NEW pc \in SessionPCs, NEW s \in SessionIds,
           NEW logout \in BOOLEAN, NEW token \in 0..MaxTokens
    PROVE  /\ Opening(pc, s, logout, token) \in CallFrame
           /\ Opening(pc, s, logout, token).row = user
  BY DEF Opening, CallFrame, SessionPCs

LEMMA SavingTyped ==
    ASSUME NEW row \in UserRow, NEW then \in SessionPCs
    PROVE  /\ Saving(row, then) \in CallFrame
           /\ Saving(row, then).row = row
<1>1. (CHOOSE s \in SessionIds : TRUE) \in SessionIds
  BY SessionsAssumption DEF SessionIds
<1> QED BY <1>1, SessionsAssumption DEF Saving, CallFrame, SessionPCs

LEMMA ConsumingTyped ==
    ASSUME user \in UserRow, NEW frame \in CallFrame, NEW c \in user.codes
    PROVE  /\ Consuming(frame, c) \in CallFrame
           /\ Consuming(frame, c).row.enabled = user.enabled
           /\ Consuming(frame, c).row.secret = user.secret
<1>1. [user EXCEPT !.codes = @ \ {c}] \in UserRow
  BY DEF UserRow
<1>2. {c} \subseteq RecoveryCodes
  BY DEF UserRow
<1> QED BY <1>1, <1>2 DEF Consuming, CallFrame, SessionPCs, UserRow

LEMMA TurnedOffTyped ==
    ASSUME NEW row \in UserRow
    PROVE  /\ TurnedOff(row) \in UserRow
           /\ ~TurnedOff(row).enabled
<1>1. 0 \in 0..MaxSecrets /\ {} \subseteq RecoveryCodes
  BY SessionsAssumption
<1> DEFINE off == [row EXCEPT !.enabled = FALSE]
           open == [off EXCEPT !.secret = 0]
           bare == [open EXCEPT !.codes = {}]
<1>2. off \in UserRow /\ ~off.enabled
  BY DEF UserRow
<1> HIDE DEF off
<1>3. open \in UserRow /\ open.enabled = off.enabled
  BY <1>1, <1>2 DEF UserRow
<1> HIDE DEF open
<1>4. bare \in UserRow /\ bare.enabled = open.enabled
  BY <1>1, <1>3 DEF UserRow
<1> QED BY <1>2, <1>3, <1>4 DEF TurnedOff, off, open

(* A frame at work is no NoCall. *)
LEMMA AtWork ==
    ASSUME SessionsTypeOK, NEW r \in SessionRequests, calls[r].pc # "idle"
    PROVE  calls[r] # NoCall /\ calls[r] \in CallFrame
  BY DEF SessionsTypeOK, NoCall

-----------------------------------------------------------------------------
(* A request that begins writes nothing but its frame; setting up and      *)
(* confirming the factor count a secret too.                               *)
LEMMA RequestPreserves ==
    ASSUME SessionsInv, NEW r \in SessionRequests, NEW frame \in CallFrame,
           Request(r, frame),
           lastSecret' \in 0..MaxSecrets, UNCHANGED tickets,
           confirmed \subseteq confirmed', confirmed' \subseteq 1..MaxSecrets,
           frame.row.enabled => frame.row.secret \in confirmed'
    PROVE  SessionsInv'
<1> USE DEF SessionsInv, Request, GoOn
<1>1. SessionsTypeOK'
  BY DEF SessionsTypeOK
<1>2. EnabledIsConfirmed'
  BY DEF EnabledIsConfirmed
<1>3. FramesConfirmed'
  <2> SUFFICES ASSUME NEW q \in SessionRequests, calls'[q] # NoCall
               PROVE  calls'[q].row.enabled => calls'[q].row.secret \in confirmed'
    BY DEF FramesConfirmed, Confirmed
  <2>1. CASE q = r
    BY <2>1 DEF SessionsTypeOK
  <2>2. CASE q # r
    BY <2>2 DEF SessionsTypeOK, FramesConfirmed, Confirmed
  <2> QED BY <2>1, <2>2
<1> QED BY <1>1, <1>2, <1>3

(* A statement of a request, with what it leaves in the user row and the   *)
(* tables of tokens.                                                       *)
LEMMA StatementPreserves ==
    ASSUME SessionsInv, NEW r \in SessionRequests, NEW frame \in CallFrame \cup {NoCall},
           GoOn(r, frame), UNCHANGED <<lastSecret, tickets, confirmed>>,
           frame # NoCall => Confirmed(frame.row),
           user' \in UserRow, Confirmed(user'),
           TokensTyped', spent' \subseteq 1..MaxTokens, calm' \in BOOLEAN
    PROVE  SessionsInv'
<1> USE DEF SessionsInv, GoOn
<1>1. SessionsTypeOK'
  BY DEF SessionsTypeOK, TokensTyped
<1>2. EnabledIsConfirmed'
  BY DEF EnabledIsConfirmed, Confirmed
<1>3. FramesConfirmed'
  <2> SUFFICES ASSUME NEW q \in SessionRequests, calls'[q] # NoCall
               PROVE  Confirmed(calls'[q].row)
    BY DEF FramesConfirmed, Confirmed
  <2>1. CASE q = r
    BY <2>1 DEF SessionsTypeOK
  <2>2. CASE q # r
    BY <2>2 DEF SessionsTypeOK, FramesConfirmed
  <2> QED BY <2>1, <2>2
<1> QED BY <1>1, <1>2, <1>3

(* A step of time, or of nobody's, that changes the tokens or the tickets. *)
LEMMA TablesPreserve ==
    ASSUME SessionsInv, UNCHANGED <<user, lastSecret, calls, confirmed, spent, calm>>,
           TokensTyped', tickets' \subseteq Ticket
    PROVE  SessionsInv'
  BY DEF SessionsInv, SessionsTypeOK, TokensTyped, EnabledIsConfirmed,
         FramesConfirmed, Confirmed

LEMMA DeleteTyped ==
    ASSUME TokensTyped, NEW ids, DeleteTokens(ids)
    PROVE  TokensTyped'
  BY DEF TokensTyped, DeleteTokens

LEMMA CreateTyped ==
    ASSUME TokensTyped, NEW s \in SessionIds, NEW kind \in {"access", "refresh"},
           CreateToken(s, kind)
    PROVE  TokensTyped'
<1> USE SessionsAssumption DEF TokensTyped, CreateToken
<1>1. /\ lastToken' \in 0..MaxTokens
      /\ DOMAIN tokens' \subseteq 1..lastToken'
  OBVIOUS
<1>2. ASSUME NEW i \in DOMAIN tokens' PROVE tokens'[i] \in TokenRow
  BY <1>2 DEF TokenRow
<1>3. tokens' = [i \in DOMAIN tokens' |-> tokens'[i]]
  OBVIOUS
<1> QED BY <1>1, <1>2, <1>3

LEMMA InvFacts ==
    ASSUME SessionsInv
    PROVE  /\ TokensTyped
           /\ user \in UserRow
           /\ Confirmed(user)
           /\ lastSecret \in 0..MaxSecrets
           /\ confirmed \subseteq 1..MaxSecrets
           /\ tickets \subseteq Ticket
           /\ spent \subseteq 1..MaxTokens
           /\ calm \in BOOLEAN
  BY DEF SessionsInv, SessionsTypeOK, TokensTyped, EnabledIsConfirmed, Confirmed

LEMMA SidTyped == Sid \subseteq SessionIds
  BY DEF Sid, SessionIds

-----------------------------------------------------------------------------
LEMMA OpenSessionPreserves ==
    ASSUME SessionsInv, NEW r \in SessionRequests, OpenSession(r)
    PROVE  SessionsInv'
<1> USE InvFacts, SidTyped, SessionsAssumption DEF Secrets
<1>1. \A s : OpenAt(s) \in SessionPCs
  BY DEF OpenAt, SessionPCs
<1>2. ASSUME NEW s \in SessionIds, NEW logout \in BOOLEAN, SignIn(r, s, logout)
      PROVE  SessionsInv'
  <2>1. Request(r, Opening(OpenAt(s), s, logout, 0))
    BY <1>2 DEF SignIn
  <2> QED BY <1>1, <1>2, <2>1, OpeningTyped, RequestPreserves DEF SignIn, Confirmed
<1>3. ASSUME NEW s \in SessionIds, IssueTokenForUser(r, s)
      PROVE  SessionsInv'
  <2>1. /\ Request(r, Opening(OpenAt(s), s, FALSE, 0))
        /\ UNCHANGED <<lastSecret, tickets, confirmed>>
    BY <1>3 DEF IssueTokenForUser
  <2>2. /\ Opening(OpenAt(s), s, FALSE, 0) \in CallFrame
        /\ Opening(OpenAt(s), s, FALSE, 0).row = user
    <3>1. 0 \in 0..MaxTokens
      OBVIOUS
    <3>2. OpenAt(s) \in SessionPCs /\ user \in UserRow /\ FALSE \in BOOLEAN
      BY <1>1
    <3> QED BY <3>1, <3>2, OpeningTyped, Zenon
  <2> QED BY <2>1, <2>2, RequestPreserves DEF Confirmed
<1>4. ASSUME NEW t \in tickets, VerifyTwoFactorSignIn(r, t)
      PROVE  SessionsInv'
  <2> DEFINE opening == Opening(OpenAt(t.session), t.session, t.logout, 0)
  <2>1. opening \in CallFrame /\ opening.row = user
    BY <1>1, OpeningTyped DEF Ticket
  <2>2. UNCHANGED <<lastSecret, tickets, confirmed>>
    BY <1>4 DEF VerifyTwoFactorSignIn
  <2> HIDE DEF opening
  <2>3. CASE Request(r, opening)
    BY <2>1, <2>2, <2>3, RequestPreserves DEF Confirmed
  <2>4. ASSUME NEW c \in user.codes, Request(r, Consuming(opening, c))
        PROVE  SessionsInv'
    BY <2>1, <2>2, <2>4, ConsumingTyped, RequestPreserves DEF Confirmed
  <2> QED BY <1>4, <2>3, <2>4 DEF VerifyTwoFactorSignIn, opening
<1>5. ASSUME NEW i \in DOMAIN tokens, NEW pc \in SessionPCs, NEW token \in {0, i},
             Request(r, Opening(pc, tokens[i].session, FALSE, token)),
             UNCHANGED Secrets
      PROVE  SessionsInv'
  <2>1. tokens[i].session \in SessionIds /\ token \in 0..MaxTokens
    BY DEF TokensTyped, TokenRow
  <2> QED BY <1>5, <2>1, OpeningTyped, RequestPreserves DEF Confirmed
<1>6. ASSUME NEW i \in DOMAIN tokens, RefreshToken(r, i) \/ SignOut(r, i)
      PROVE  SessionsInv'
  BY <1>5, <1>6 DEF RefreshToken, SignOut, SessionPCs
<1> QED BY <1>2, <1>3, <1>4, <1>6 DEF OpenSession

LEMMA ChangeAccountPreserves ==
    ASSUME SessionsInv, NEW r \in SessionRequests, ChangeAccount(r)
    PROVE  SessionsInv'
<1> USE InvFacts, SessionsAssumption DEF Secrets
<1>1. "idle" \in SessionPCs /\ "forget" \in SessionPCs
  BY DEF SessionPCs
<1>2. ASSUME NEW p \in Passwords, ChangeMasterPassword(r, p)
      PROVE  SessionsInv'
  <2> DEFINE row == [user EXCEPT !.password = p]
  <2>1. row \in UserRow /\ Confirmed(row)
    BY DEF UserRow, Confirmed
  <2> HIDE DEF row
  <2> QED BY <1>1, <1>2, <2>1, SavingTyped, RequestPreserves
          DEF ChangeMasterPassword, Confirmed, row
<1>3. CASE SetupTwoFactor(r)
  <2> DEFINE row == [user EXCEPT !.secret = lastSecret + 1, !.codes = RecoveryCodes]
  <2>1. row \in UserRow /\ ~row.enabled
    <3>1. lastSecret + 1 \in 0..MaxSecrets /\ ~user.enabled
      BY <1>3 DEF SetupTwoFactor
    <3> DEFINE renewed == [user EXCEPT !.secret = lastSecret + 1]
    <3>2. renewed \in UserRow /\ renewed.enabled = user.enabled
      BY <3>1 DEF UserRow
    <3> HIDE DEF renewed
    <3>3. /\ [renewed EXCEPT !.codes = RecoveryCodes] \in UserRow
          /\ [renewed EXCEPT !.codes = RecoveryCodes].enabled = renewed.enabled
      BY <3>2 DEF UserRow
    <3> QED BY <3>1, <3>2, <3>3 DEF renewed
  <2>2. lastSecret' \in 0..MaxSecrets
    BY <1>3 DEF SetupTwoFactor
  <2> HIDE DEF row
  <2> QED BY <1>1, <1>3, <2>1, <2>2, SavingTyped, RequestPreserves DEF SetupTwoFactor, row
<1>4. CASE ConfirmTwoFactor(r)
  <2> DEFINE row == [user EXCEPT !.enabled = TRUE]
  <2>1. row \in UserRow /\ row.secret = user.secret
    BY DEF UserRow
  <2>2. user.secret \in 1..MaxSecrets
    BY <1>4 DEF UserRow, ConfirmTwoFactor
  <2> HIDE DEF row
  <2> QED BY <1>1, <1>4, <2>1, <2>2, SavingTyped, RequestPreserves DEF ConfirmTwoFactor, row
<1>5. CASE DisableTwoFactor(r)
  <2> DEFINE saving == Saving(TurnedOff(user), "idle")
  <2>1. saving \in CallFrame /\ ~saving.row.enabled
    BY <1>1, TurnedOffTyped, SavingTyped
  <2>2. UNCHANGED <<lastSecret, tickets, confirmed>>
    BY <1>5 DEF DisableTwoFactor
  <2> HIDE DEF saving
  <2>3. CASE Request(r, saving)
    BY <2>1, <2>2, <2>3, RequestPreserves
  <2>4. ASSUME NEW c \in user.codes, Request(r, Consuming(saving, c))
        PROVE  SessionsInv'
    BY <2>1, <2>2, <2>4, ConsumingTyped, RequestPreserves DEF Confirmed
  <2> QED BY <1>5, <2>3, <2>4 DEF DisableTwoFactor, saving
<1> QED BY <1>2, <1>3, <1>4, <1>5 DEF ChangeAccount

-----------------------------------------------------------------------------
(* The next statement of a request keeps its frame, or ends it. *)
LEMMA StepTyped ==
    ASSUME SessionsInv, NEW r \in SessionRequests, calls[r].pc # "idle",
           NEW pc \in SessionPCs
    PROVE  /\ [calls[r] EXCEPT !.pc = pc] \in CallFrame
           /\ Confirmed([calls[r] EXCEPT !.pc = pc].row)
<1>1. calls[r] # NoCall /\ calls[r] \in CallFrame
  BY AtWork DEF SessionsInv
<1>2. Confirmed(calls[r].row)
  BY <1>1 DEF SessionsInv, FramesConfirmed
<1> QED BY <1>1, <1>2 DEF CallFrame

LEMMA ConsumePreserves ==
    ASSUME SessionsInv, NEW r \in SessionRequests, Consume(r)
    PROVE  SessionsInv'
<1> DEFINE row == IF calls[r].then = "save" THEN TurnedOff(calls[r].row) ELSE calls[r].row
           frame == [calls[r] EXCEPT !.pc = calls[r].then, !.then = "idle", !.row = row]
<1>1. calls[r] # NoCall /\ calls[r] \in CallFrame
  BY AtWork DEF SessionsInv, Consume
<1>2. calls[r].row \in UserRow /\ Confirmed(calls[r].row)
  BY <1>1 DEF SessionsInv, FramesConfirmed, CallFrame
<1>3. row \in UserRow /\ Confirmed(row)
  BY <1>2, TurnedOffTyped DEF Confirmed
<1>4. GoOn(r, frame)
  BY DEF Consume
<1> HIDE DEF row
<1>5. frame \in CallFrame /\ Confirmed(frame.row)
  BY <1>1, <1>3 DEF CallFrame, SessionPCs
<1>6. /\ UNCHANGED <<lastSecret, tickets, confirmed, tokens, lastToken, spent, calm>>
      /\ user' = calls[r].row
  BY DEF Consume
<1>7. TokensTyped'
  BY <1>6, InvFacts DEF TokensTyped
<1> HIDE DEF frame
<1> QED BY <1>2, <1>4, <1>5, <1>6, <1>7, InvFacts, StatementPreserves

LEMMA OtherStatementsPreserve ==
    ASSUME SessionsInv, NEW r \in SessionRequests, Statement(r), ~Consume(r)
    PROVE  SessionsInv'
<1> USE InvFacts, SessionsAssumption DEF Secrets, Step
<1>1. ASSUME NEW pc \in SessionPCs, calls[r].pc # "idle", Step(r, pc),
             UNCHANGED <<user, lastSecret, tickets, confirmed>>,
             TokensTyped', spent' \subseteq 1..MaxTokens, calm' \in BOOLEAN
      PROVE  SessionsInv'
  BY <1>1, StepTyped, StatementPreserves
<1>2. ASSUME GoOn(r, NoCall), UNCHANGED <<user, lastSecret, tickets, confirmed, spent, calm>>,
             TokensTyped'
      PROVE  SessionsInv'
  BY <1>2, StatementPreserves
<1>3. /\ "access" \in SessionPCs /\ "limit" \in SessionPCs /\ "revoke" \in SessionPCs
      /\ "refresh" \in SessionPCs /\ "unlimited" \in SessionPCs
  BY DEF SessionPCs
<1>4. UNCHANGED <<tokens, lastToken>> => TokensTyped'
  BY DEF TokensTyped
<1>5. calls[r].pc # "idle" => calls[r] \in CallFrame
  BY AtWork DEF SessionsInv
<1>6. CASE Replace(r)
  <2>1. TokensTyped' /\ calm' \in BOOLEAN
    BY <1>4, <1>6, DeleteTyped DEF Replace
  <2>2. spent' \subseteq 1..MaxTokens
    BY <1>5, <1>6 DEF Replace, CallFrame
  <2>3. calls[r].pc # "idle" /\ UNCHANGED <<user, lastSecret, tickets, confirmed>>
    BY <1>6 DEF Replace
  <2>4. Step(r, "limit") \/ Step(r, "access")
    BY <1>6 DEF Replace
  <2> QED BY <1>1, <1>3, <2>1, <2>2, <2>3, <2>4
<1>7. CASE EnforceDeviceLimit(r)
  BY <1>1, <1>2, <1>3, <1>4, <1>7 DEF EnforceDeviceLimit
<1>8. CASE LogoutOthers(r)
  BY <1>1, <1>3, <1>8, DeleteTyped DEF LogoutOthers
<1>9. CASE StoreAccess(r)
  <2>1. TokensTyped'
    BY <1>5, <1>9, CreateTyped DEF StoreAccess, CallFrame
  <2> QED BY <1>1, <1>3, <1>9, <2>1 DEF StoreAccess
<1>10. CASE StoreRefresh(r)
  <2>1. TokensTyped'
    BY <1>5, <1>10, CreateTyped DEF StoreRefresh, CallFrame
  <2> QED BY <1>2, <1>10, <2>1 DEF StoreRefresh
<1>11. CASE SignOutSession(r)
  BY <1>2, <1>11, DeleteTyped DEF SignOutSession
<1>12. CASE SaveUser(r)
  <2>1. calls[r] # NoCall /\ calls[r] \in CallFrame
    BY <1>12, AtWork DEF SessionsInv, SaveUser
  <2>2. calls[r].row \in UserRow /\ Confirmed(calls[r].row)
    BY <2>1 DEF SessionsInv, FramesConfirmed, CallFrame
  <2>3. /\ calls[r].pc # "idle" /\ user' = calls[r].row
        /\ UNCHANGED <<lastSecret, tickets, confirmed, spent, calm>>
        /\ TokensTyped'
    BY <1>4, <1>12 DEF SaveUser
  <2>4. CASE GoOn(r, NoCall)
    BY <2>2, <2>3, <2>4, StatementPreserves
  <2>5. CASE Step(r, calls[r].then)
    <3>1. calls[r].then \in SessionPCs
      BY <2>1 DEF CallFrame
    <3> QED BY <2>2, <2>3, <2>5, <3>1, StepTyped, StatementPreserves
  <2> QED BY <1>12, <2>4, <2>5 DEF SaveUser
<1>13. CASE SignOutEverywhere(r)
  BY <1>2, <1>13, DeleteTyped DEF SignOutEverywhere
<1>14. CASE FailCall(r)
  BY <1>2, <1>4, <1>14 DEF FailCall
<1> QED BY <1>6, <1>7, <1>8, <1>9, <1>10, <1>11, <1>12, <1>13, <1>14 DEF Statement

-----------------------------------------------------------------------------
LEMMA TimePreserves ==
    ASSUME SessionsInv, TimePasses \/ CleanupTokens
    PROVE  SessionsInv'
<1> USE InvFacts DEF Secrets
<1>1. ASSUME NEW i \in DOMAIN tokens, ExpireToken(i)
      PROVE  SessionsInv'
  <2>1. TokensTyped'
    BY <1>1 DEF ExpireToken, TokensTyped, TokenRow
  <2> QED BY <1>1, <2>1, TablesPreserve DEF ExpireToken
<1>2. ASSUME NEW i \in DOMAIN tokens, ValidateToken(i)
      PROVE  SessionsInv'
  BY <1>2, DeleteTyped, TablesPreserve DEF ValidateToken
<1>3. ASSUME NEW t \in tickets, ExpireTicket(t)
      PROVE  SessionsInv'
  BY <1>3, TablesPreserve DEF ExpireTicket, TokensTyped
<1>4. CASE CleanupTokens
  BY <1>4, DeleteTyped, TablesPreserve DEF CleanupTokens
<1> QED BY <1>1, <1>2, <1>3, <1>4 DEF TimePasses

LEMMA TicketPreserves ==
    ASSUME SessionsInv, NEW s \in SessionIds, NEW logout \in BOOLEAN, SignInTwoFactor(s, logout)
    PROVE  SessionsInv'
<1>1. tickets' \subseteq Ticket
  BY InvFacts DEF SignInTwoFactor, Ticket
<1> QED BY <1>1, InvFacts, TablesPreserve DEF SignInTwoFactor, TokensTyped

LEMMA SessionsInvAlways == SessionsSpec => []SessionsInv
<1>1. SessionsInit => SessionsInv
  <2> SUFFICES ASSUME SessionsInit PROVE SessionsInv
    OBVIOUS
  <2> USE SessionsAssumption DEF SessionsInit
  <2>1. SessionsTypeOK
    <3>1. user \in UserRow
      BY DEF UserRow
    <3>2. /\ DOMAIN tokens = {} /\ tokens \in [DOMAIN tokens -> TokenRow]
          /\ lastToken \in 0..MaxTokens /\ lastSecret \in 0..MaxSecrets
      OBVIOUS
    <3>3. calls \in [SessionRequests -> CallFrame \cup {NoCall}]
      OBVIOUS
    <3> QED BY <3>1, <3>2, <3>3 DEF SessionsTypeOK
  <2>2. EnabledIsConfirmed /\ FramesConfirmed
    BY DEF EnabledIsConfirmed, FramesConfirmed
  <2> QED BY <2>1, <2>2 DEF SessionsInv
<1>2. SessionsInv /\ [SessionsNext]_sessionVars => SessionsInv'
  <2> SUFFICES ASSUME SessionsInv, [SessionsNext]_sessionVars PROVE SessionsInv'
    OBVIOUS
  <2>1. CASE UNCHANGED sessionVars
    BY <2>1 DEF sessionVars, SessionsInv, SessionsTypeOK, EnabledIsConfirmed,
                FramesConfirmed, Confirmed
  <2>2. ASSUME NEW r \in SessionRequests, Statement(r) PROVE SessionsInv'
    BY <2>2, ConsumePreserves, OtherStatementsPreserve
  <2> QED BY <2>1, <2>2, OpenSessionPreserves, ChangeAccountPreserves, TicketPreserves,
             TimePreserves DEF SessionsNext
<1> QED BY <1>1, <1>2, PTL DEF SessionsSpec

(* The tables stay well typed, and a second factor in force is one whose   *)
(* secret the user has proved to hold: no save of a whole row, however     *)
(* old, puts a set-up in force that was never confirmed (two_factor.go).   *)
THEOREM SecondFactorConfirmed == SessionsSpec => [](SessionsTypeOK /\ EnabledIsConfirmed)
<1>1. SessionsInv => SessionsTypeOK /\ EnabledIsConfirmed
  BY DEF SessionsInv
<1> QED BY <1>1, SessionsInvAlways, PTL

-----------------------------------------------------------------------------
(* What holds while no requests overlap (calm).  The three action          *)
(* properties are about a statement that has gone wrong if an earlier one  *)
(* had: the invariant says what the statements before it leave behind.     *)

Busy(r) == calls[r] # NoCall

(* The numbers of secrets are given out once. *)
Issued ==
    /\ used \subseteq (0..lastSecret) \X RecoveryCodes
    /\ user.secret <= lastSecret
    /\ \A r \in SessionRequests :
          Busy(r) => calls[r].row.secret <= lastSecret

(* No recovery code of the row has been accepted. *)
Fresh(row) == \A c \in row.codes : <<row.secret, c>> \notin used

(* The token presented is still to be exchanged, and if it is still stored *)
(* it goes with the session.                                               *)
Presented(token, session) ==
    token # 0 =>
        /\ token \notin spent
        /\ token \in 1..lastToken
        /\ token \in DOMAIN tokens => tokens[token].session = session

NoLiveSession ==
    \A i \in DOMAIN tokens : tokens[i].expired \/ tokens[i].kind = "refresh"

(* What the next statement of a request finds. *)
Finds(f) ==
    /\ Fresh(f.row)
    /\ f.pc = "consume" =>
          /\ f.then \in {"replace", "limit", "save"}
          /\ f.token = 0
          /\ f.codes \cap f.row.codes = {}
          /\ CodesOf(f) \cap used = {}
    /\ f.pc = "replace" => Presented(f.token, f.session)
    /\ f.pc = "save" => f.then \in {"idle", "forget"}
    /\ f.pc = "access" /\ f.token = 0 /\ FreePlan => NoLiveSession

Alone == \A q, r \in SessionRequests : Busy(q) /\ Busy(r) => q = r

InOrder ==
    /\ Alone
    /\ spent \subseteq 1..lastToken
    /\ spent \cap DOMAIN tokens = {}
    /\ Fresh(user)
    /\ \A r \in SessionRequests : Busy(r) => Finds(calls[r])

CalmInv == SessionsInv /\ Issued /\ (calm => InOrder)

-----------------------------------------------------------------------------
(* Steps.  Each kind of step keeps the invariant if what it writes fits.   *)

LEMMA RowsTyped ==
    ASSUME CalmInv
    PROVE  /\ lastSecret \in Nat /\ lastToken \in Nat
           /\ user \in UserRow /\ user.secret \in Nat
           /\ \A r \in SessionRequests :
                 Busy(r) => /\ calls[r] \in CallFrame
                            /\ calls[r].row \in UserRow
                            /\ calls[r].row.secret \in Nat
                            /\ calls[r].token \in Nat
                            /\ calls[r].codes \subseteq RecoveryCodes
  BY SessionsAssumption DEF CalmInv, SessionsInv, SessionsTypeOK, UserRow, CallFrame, Busy

(* A request that begins does so alone, or calm is over. *)
LEMMA BeginKeeps ==
    ASSUME CalmInv, NEW r \in SessionRequests, NEW frame \in CallFrame,
           Request(r, frame), UNCHANGED used,
           lastSecret' \in Nat, lastSecret <= lastSecret',
           frame.row.secret <= lastSecret',
           calm => Finds(frame)
    PROVE  Issued' /\ (calm' => InOrder')
<1> USE DEF Request, GoOn, Busy
<1>1. calls \in [SessionRequests -> CallFrame \cup {NoCall}]
  BY DEF CalmInv, SessionsInv, SessionsTypeOK
<1>2. calls' = [calls EXCEPT ![r] = frame] /\ UNCHANGED <<user, tokens, lastToken, spent>>
  OBVIOUS
<1>3. Issued'
  <2>1. used' \subseteq (0..lastSecret') \X RecoveryCodes
    BY RowsTyped DEF CalmInv, Issued
  <2>2. user'.secret <= lastSecret'
    BY <1>2, RowsTyped DEF CalmInv, Issued
  <2>3. \A q \in SessionRequests : calls'[q] # NoCall => calls'[q].row.secret <= lastSecret'
    BY <1>1, <1>2, RowsTyped DEF CalmInv, Issued
  <2> QED BY <1>2, <2>1, <2>2, <2>3 DEF CalmInv, Issued
<1>4. ASSUME calm' PROVE InOrder'
  <2>1. calm /\ InOrder /\ \A q \in SessionRequests : calls[q] = NoCall
    BY <1>4 DEF CalmInv
  <2>2. \A q \in SessionRequests : calls'[q] # NoCall => q = r /\ calls'[q] = frame
    BY <1>1, <1>2, <2>1
  <2>3. Finds(frame)'
    BY <1>2, <2>1 DEF Finds, Fresh, CodesOf, Presented, NoLiveSession
  <2>4. Alone'
    BY <2>2 DEF Alone
  <2>5. \A q \in SessionRequests : (Busy(q) => Finds(calls[q]))'
    BY <2>2, <2>3 DEF Finds, Fresh, CodesOf
  <2> QED BY <1>2, <2>1, <2>4, <2>5 DEF InOrder, Fresh
<1> QED BY <1>3, <1>4

(* What a statement of request r leaves behind. *)
Leaves(r) ==
    calm' => /\ calm
             /\ (spent \subseteq 1..lastToken)'
             /\ (spent \cap DOMAIN tokens = {})'
             /\ Fresh(user)'
             /\ (Busy(r) => Finds(calls[r]))'

LEMMA StatementKeeps ==
    ASSUME CalmInv, NEW r \in SessionRequests, Busy(r),
           \A q \in SessionRequests \ {r} : calls'[q] = calls[q],
           Issued', Leaves(r)
    PROVE  Issued' /\ (calm' => InOrder')
<1> SUFFICES ASSUME calm' PROVE InOrder'
  OBVIOUS
<1>1. calm /\ InOrder
  BY DEF Leaves, CalmInv
<1>2. \A q \in SessionRequests \ {r} : ~Busy(q) /\ ~Busy(q)'
  BY <1>1 DEF InOrder, Alone, Busy
<1>3. Alone'
  BY <1>2 DEF Alone
<1> QED BY <1>2, <1>3 DEF InOrder, Leaves

(* Time and sign-outs: rows go or expire, the others are as they were. *)
Fewer ==
    /\ DOMAIN tokens' \subseteq DOMAIN tokens
    /\ \A i \in DOMAIN tokens' :
          /\ tokens'[i].session = tokens[i].session
          /\ tokens'[i].kind = tokens[i].kind
          /\ tokens[i].expired => tokens'[i].expired
    /\ UNCHANGED lastToken

LEMMA DeletedAreFewer == ASSUME NEW ids, DeleteTokens(ids) PROVE Fewer
  BY DEF DeleteTokens, Fewer

LEMMA FewerKeep ==
    ASSUME CalmInv, Fewer, UNCHANGED <<user, calls, spent, calm, lastSecret, used>>
    PROVE  Issued' /\ (calm' => InOrder')
<1>1. Issued'
  BY DEF CalmInv, Issued, Fewer, Busy
<1>2. ASSUME calm' PROVE InOrder'
  <2>1. InOrder
    BY <1>2 DEF CalmInv
  <2>2. NoLiveSession => NoLiveSession'
    BY DEF NoLiveSession, Fewer
  <2>3. \A token, session : Presented(token, session) => Presented(token, session)'
    BY DEF Presented, Fewer
  <2>4. \A q \in SessionRequests : (Busy(q) => Finds(calls[q]))'
    <3> TAKE q \in SessionRequests
    <3>1. calls'[q] = calls[q] /\ (Busy(q) => Finds(calls[q]))
      BY <2>1 DEF InOrder
    <3> QED BY <2>2, <2>3, <3>1 DEF Finds, Fresh, CodesOf, Busy
  <2> QED BY <2>1, <2>4 DEF InOrder, Fewer, Fresh, Alone, Busy
<1> QED BY <1>1, <1>2

-----------------------------------------------------------------------------
(* Requests that begin. *)

LEMMA OpeningFinds ==
    ASSUME CalmInv, NEW pc \in {"replace", "limit", "signout"},
           NEW s \in SessionIds, NEW logout \in BOOLEAN, NEW token \in 0..MaxTokens,
           calm => (pc = "replace" => Presented(token, s))
    PROVE  /\ Opening(pc, s, logout, token).row.secret <= lastSecret
           /\ calm => Finds(Opening(pc, s, logout, token))
<1>1. user.secret <= lastSecret /\ (calm => Fresh(user))
  BY DEF CalmInv, Issued, InOrder
<1> QED BY <1>1 DEF Opening, Finds

LEMMA ConsumingFinds ==
    ASSUME CalmInv, NEW frame \in CallFrame, frame.token = 0,
           frame.pc \in {"replace", "limit", "save"}, NEW c \in user.codes
    PROVE  /\ Consuming(frame, c).row.secret <= lastSecret
           /\ calm => Finds(Consuming(frame, c))
<1> DEFINE row == [user EXCEPT !.codes = @ \ {c}]
           f == [frame EXCEPT !.then = frame.pc, !.pc = "consume", !.row = row,
                              !.codes = {c}]
<1>1. row.secret = user.secret /\ row.codes = user.codes \ {c}
  BY RowsTyped DEF UserRow
<1>2. user.secret <= lastSecret /\ (calm => Fresh(user))
  BY DEF CalmInv, Issued, InOrder
<1>3. Consuming(frame, c) = f
  BY DEF Consuming
<1> HIDE DEF row
<1>4. /\ f.pc = "consume" /\ f.then = frame.pc /\ f.row = row /\ f.codes = {c}
      /\ f.token = 0
  BY DEF CallFrame
<1> HIDE DEF f
<1>5. CodesOf(f) = {<<user.secret, c>>}
  BY <1>1, <1>4 DEF CodesOf
<1>6. calm => Fresh(row) /\ CodesOf(f) \cap used = {}
  BY <1>1, <1>2, <1>5 DEF Fresh
<1> QED BY <1>1, <1>2, <1>3, <1>4, <1>6 DEF Finds

LEMMA OpenSessionKeeps ==
    ASSUME CalmInv, NEW r \in SessionRequests, OpenSession(r)
    PROVE  Issued' /\ (calm' => InOrder')
<1> USE SessionsAssumption DEF Secrets
<1>0. SessionsInv /\ lastSecret \in Nat /\ user \in UserRow
  BY RowsTyped DEF CalmInv
<1>1. \A s : OpenAt(s) \in {"replace", "limit"}
  BY DEF OpenAt
<1>2. \A s : Presented(0, s)
  BY DEF Presented
<1>3. {"replace", "limit", "signout", "save"} \subseteq SessionPCs /\ 0 \in 0..MaxTokens
  BY DEF SessionPCs
<1>4. ASSUME NEW s \in SessionIds, NEW logout \in BOOLEAN
      PROVE  LET f == Opening(OpenAt(s), s, logout, 0)
             IN  /\ f \in CallFrame /\ f.row = user /\ f.token = 0
                 /\ f.pc \in {"replace", "limit"}
                 /\ f.row.secret <= lastSecret /\ (calm => Finds(f))
  <2> DEFINE f == Opening(OpenAt(s), s, logout, 0)
  <2>1. f \in CallFrame /\ f.row = user
    <3>1. OpenAt(s) \in SessionPCs
      BY <1>1, <1>3
    <3> QED BY <1>0, <1>3, <3>1, OpeningTyped, Zenon
  <2>2. f.row.secret <= lastSecret /\ (calm => Finds(f))
    BY <1>1, <1>2, <1>3, OpeningFinds
  <2>3. f.token = 0 /\ f.pc \in {"replace", "limit"}
    BY <1>1 DEF Opening
  <2> QED BY <2>1, <2>2, <2>3
<1>5. ASSUME NEW s \in SessionIds, NEW logout \in BOOLEAN,
             Request(r, Opening(OpenAt(s), s, logout, 0)), UNCHANGED Secrets
      PROVE  Issued' /\ (calm' => InOrder')
  BY <1>0, <1>4, <1>5, BeginKeeps
<1>6. ASSUME NEW s \in SessionIds
      PROVE  /\ \A logout \in BOOLEAN :
                   SignIn(r, s, logout) => Issued' /\ (calm' => InOrder')
             /\ IssueTokenForUser(r, s) => Issued' /\ (calm' => InOrder')
  BY <1>5 DEF SignIn, IssueTokenForUser
<1>7. ASSUME NEW t \in tickets, VerifyTwoFactorSignIn(r, t)
      PROVE  Issued' /\ (calm' => InOrder')
  <2> DEFINE opening == Opening(OpenAt(t.session), t.session, t.logout, 0)
  <2>1. t.session \in SessionIds /\ t.logout \in BOOLEAN
    BY <1>0, InvFacts DEF Ticket
  <2>2. /\ opening \in CallFrame /\ opening.row = user /\ opening.token = 0
        /\ opening.pc \in {"replace", "limit", "save"}
    BY <1>4, <2>1
  <2>3. CASE Request(r, opening)
    BY <1>5, <1>7, <2>1, <2>3 DEF VerifyTwoFactorSignIn
  <2> HIDE DEF opening
  <2>4. ASSUME NEW c \in user.codes, Request(r, Consuming(opening, c))
        PROVE  Issued' /\ (calm' => InOrder')
    <3>1. Consuming(opening, c) \in CallFrame
      BY <1>0, <2>2, ConsumingTyped
    <3>2. /\ Consuming(opening, c).row.secret <= lastSecret
          /\ calm => Finds(Consuming(opening, c))
      BY <2>2, ConsumingFinds
    <3>3. UNCHANGED <<used, lastSecret>>
      BY <1>7 DEF VerifyTwoFactorSignIn
    <3> QED BY <1>0, <2>4, <3>1, <3>2, <3>3, BeginKeeps
  <2> QED BY <1>7, <2>3, <2>4 DEF VerifyTwoFactorSignIn, opening
<1>8. ASSUME NEW i \in DOMAIN tokens
      PROVE  /\ tokens[i].session \in SessionIds /\ i \in 0..MaxTokens
             /\ i \in 1..lastToken
             /\ calm => Presented(i, tokens[i].session)
  <2>1. tokens[i].session \in SessionIds /\ i \in 0..MaxTokens /\ i \in 1..lastToken
    BY <1>0, InvFacts DEF TokensTyped, TokenRow
  <2>2. calm => i \notin spent
    BY DEF CalmInv, InOrder
  <2> QED BY <2>1, <2>2 DEF Presented
<1>9. ASSUME NEW i \in DOMAIN tokens, RefreshToken(r, i)
      PROVE  Issued' /\ (calm' => InOrder')
  <2> DEFINE f == Opening("replace", tokens[i].session, FALSE, i)
  <2>1. f \in CallFrame
    BY <1>0, <1>3, <1>8, OpeningTyped
  <2>2. f.row.secret <= lastSecret /\ (calm => Finds(f))
    BY <1>8, OpeningFinds
  <2>3. Request(r, f) /\ UNCHANGED <<used, lastSecret>>
    BY <1>9 DEF RefreshToken
  <2> HIDE DEF f
  <2> QED BY <1>0, <2>1, <2>2, <2>3, BeginKeeps
<1>10. ASSUME NEW i \in DOMAIN tokens, SignOut(r, i)
       PROVE  Issued' /\ (calm' => InOrder')
  <2> DEFINE f == Opening("signout", tokens[i].session, FALSE, 0)
  <2>1. f \in CallFrame
    BY <1>0, <1>3, <1>8, OpeningTyped
  <2>2. f.row.secret <= lastSecret /\ (calm => Finds(f))
    BY <1>3, <1>8, OpeningFinds
  <2>3. Request(r, f) /\ UNCHANGED <<used, lastSecret>>
    BY <1>10 DEF SignOut
  <2> HIDE DEF f
  <2> QED BY <1>0, <2>1, <2>2, <2>3, BeginKeeps
<1> QED BY <1>6, <1>7, <1>9, <1>10 DEF OpenSession

LEMMA SavingFinds ==
    ASSUME NEW row \in UserRow, NEW then \in {"idle", "forget"}, Fresh(row)
    PROVE  Finds(Saving(row, then))
  BY DEF Finds, Saving

LEMMA ChangeAccountKeeps ==
    ASSUME CalmInv, NEW r \in SessionRequests, ChangeAccount(r)
    PROVE  Issued' /\ (calm' => InOrder')
<1> USE SessionsAssumption DEF Secrets
<1>0. /\ SessionsInv /\ lastSecret \in Nat /\ user \in UserRow /\ user.secret \in Nat
      /\ user.secret <= lastSecret /\ (calm => Fresh(user))
      /\ "idle" \in SessionPCs /\ "forget" \in SessionPCs
  BY RowsTyped DEF CalmInv, Issued, InOrder, SessionPCs
<1>1. ASSUME NEW row \in UserRow, NEW then \in {"idle", "forget"},
             Request(r, Saving(row, then)), UNCHANGED used,
             lastSecret' \in Nat, lastSecret <= lastSecret', row.secret <= lastSecret',
             calm => Fresh(row)
      PROVE  Issued' /\ (calm' => InOrder')
  <2>1. Saving(row, then) \in CallFrame /\ Saving(row, then).row = row
    BY <1>0, SavingTyped
  <2> QED BY <1>1, <2>1, SavingFinds, BeginKeeps
<1>2. ASSUME NEW p \in Passwords, ChangeMasterPassword(r, p)
      PROVE  Issued' /\ (calm' => InOrder')
  <2> DEFINE row == [user EXCEPT !.password = p]
  <2>1. row \in UserRow /\ row.secret = user.secret /\ row.codes = user.codes
    BY <1>0 DEF UserRow
  <2>2. /\ Request(r, Saving(row, "forget"))
        /\ UNCHANGED <<lastSecret, used>>
    BY <1>2 DEF ChangeMasterPassword
  <2> HIDE DEF row
  <2> QED BY <1>0, <1>1, <2>1, <2>2 DEF Fresh
<1>3. CASE SetupTwoFactor(r)
  <2> DEFINE row == [user EXCEPT !.secret = lastSecret + 1, !.codes = RecoveryCodes]
  <2>1. row \in UserRow /\ row.secret = lastSecret + 1
    <3>1. lastSecret + 1 \in 0..MaxSecrets
      BY <1>0, <1>3 DEF SetupTwoFactor
    <3> DEFINE renewed == [user EXCEPT !.secret = lastSecret + 1]
    <3>2. renewed \in UserRow /\ renewed.secret = lastSecret + 1
      BY <1>0, <3>1 DEF UserRow
    <3> HIDE DEF renewed
    <3>3. /\ [renewed EXCEPT !.codes = RecoveryCodes] \in UserRow
          /\ [renewed EXCEPT !.codes = RecoveryCodes].secret = renewed.secret
      BY <3>2 DEF UserRow
    <3> QED BY <3>2, <3>3 DEF renewed
  <2>2. /\ Request(r, Saving(row, "idle"))
        /\ UNCHANGED used /\ lastSecret' = lastSecret + 1
    BY <1>3 DEF SetupTwoFactor
  <2> HIDE DEF row
  <2>3. Fresh(row)
    <3>1. \A c : <<row.secret, c>> \notin used
      BY <1>0, <2>1 DEF CalmInv, Issued
    <3> QED BY <3>1 DEF Fresh
  <2> QED BY <1>0, <1>1, <2>1, <2>2, <2>3
<1>4. CASE ConfirmTwoFactor(r)
  <2> DEFINE row == [user EXCEPT !.enabled = TRUE]
  <2>1. row \in UserRow /\ row.secret = user.secret /\ row.codes = user.codes
    BY <1>0 DEF UserRow
  <2>2. /\ Request(r, Saving(row, "idle"))
        /\ UNCHANGED <<lastSecret, used>>
    BY <1>4 DEF ConfirmTwoFactor
  <2> HIDE DEF row
  <2> QED BY <1>0, <1>1, <2>1, <2>2 DEF Fresh
<1>5. CASE DisableTwoFactor(r)
  <2> DEFINE row == TurnedOff(user)
             saving == Saving(row, "idle")
  <2>1. row \in UserRow
    BY <1>0, TurnedOffTyped
  <2>2. row.codes = {} /\ row.secret = 0
    BY <1>0 DEF TurnedOff, UserRow
  <2>3. UNCHANGED <<lastSecret, used>>
    BY <1>5 DEF DisableTwoFactor
  <2> HIDE DEF row
  <2>4. CASE Request(r, saving)
    BY <1>0, <1>1, <2>1, <2>2, <2>3, <2>4 DEF Fresh
  <2>5. ASSUME NEW c \in user.codes, Request(r, Consuming(saving, c))
        PROVE  Issued' /\ (calm' => InOrder')
    <3>1. /\ saving \in CallFrame /\ saving.token = 0
          /\ saving.pc \in {"replace", "limit", "save"}
      BY <1>0, <2>1, SavingTyped DEF Saving
    <3> HIDE DEF saving
    <3>2. Consuming(saving, c) \in CallFrame
      BY <1>0, <3>1, ConsumingTyped
    <3>3. /\ Consuming(saving, c).row.secret <= lastSecret
          /\ calm => Finds(Consuming(saving, c))
      BY <3>1, ConsumingFinds
    <3> QED BY <1>0, <2>3, <2>5, <3>2, <3>3, BeginKeeps
  <2> QED BY <1>5, <2>4, <2>5 DEF DisableTwoFactor, row
<1> QED BY <1>2, <1>3, <1>4, <1>5 DEF ChangeAccount

-----------------------------------------------------------------------------
(* Statements. *)

LEMMA FrameOf ==
    ASSUME CalmInv, NEW r \in SessionRequests, calls[r].pc # "idle"
    PROVE  /\ Busy(r) /\ calls[r] \in CallFrame
           /\ calls[r].row \in UserRow /\ calls[r].row.secret <= lastSecret
           /\ (calm => InOrder /\ Finds(calls[r]))
           /\ calls \in [SessionRequests -> CallFrame \cup {NoCall}]
<1>1. Busy(r) /\ calls[r] \in CallFrame
  BY AtWork DEF CalmInv, SessionsInv, Busy
<1>2. calls \in [SessionRequests -> CallFrame \cup {NoCall}]
  BY DEF CalmInv, SessionsInv, SessionsTypeOK
<1> QED BY <1>1, <1>2 DEF CalmInv, Issued, InOrder, CallFrame

(* The rows of users and the codes accepted, after a statement. *)
LEMMA IssuedStays ==
    ASSUME CalmInv, NEW r \in SessionRequests, Busy(r), NEW g, GoOn(r, g),
           UNCHANGED lastSecret, g # NoCall => g.row.secret <= lastSecret,
           user'.secret <= lastSecret,
           used' \subseteq (0..lastSecret) \X RecoveryCodes
    PROVE  /\ Issued'
           /\ calls'[r] = g
           /\ \A q \in SessionRequests \ {r} : calls'[q] = calls[q]
<1>1. /\ calls'[r] = g
      /\ \A q \in SessionRequests \ {r} : calls'[q] = calls[q]
  BY DEF GoOn, CalmInv, SessionsInv, SessionsTypeOK
<1>2. \A q \in SessionRequests : (Busy(q) => calls[q].row.secret <= lastSecret)'
  BY <1>1 DEF CalmInv, Issued, Busy
<1> QED BY <1>1, <1>2 DEF Issued

(* A statement that does not touch the user row, and is not the last. *)
LEMMA StepKeeps ==
    ASSUME CalmInv, NEW r \in SessionRequests, calls[r].pc # "idle", NEW pc,
           Step(r, pc), UNCHANGED <<lastSecret, used>>,
           user' = user \/ user' = calls[r].row,
           calm' => /\ calm
                    /\ pc \in {"limit", "revoke", "access", "unlimited",
                               "refresh", "forget"}
                    /\ (spent \subseteq 1..lastToken)'
                    /\ (spent \cap DOMAIN tokens = {})'
                    /\ (pc = "access" /\ calls[r].token = 0 /\ FreePlan
                            => NoLiveSession')
    PROVE  Issued' /\ (calm' => InOrder')
<1> DEFINE g == [calls[r] EXCEPT !.pc = pc]
<1>1. /\ Busy(r) /\ calls[r] \in CallFrame
      /\ calls[r].row.secret <= lastSecret /\ user.secret <= lastSecret
      /\ (calm => InOrder /\ Finds(calls[r]))
      /\ used \subseteq (0..lastSecret) \X RecoveryCodes
  BY FrameOf DEF CalmInv, Issued
<1>2. g.pc = pc /\ g.row = calls[r].row /\ g.token = calls[r].token
  BY <1>1 DEF CallFrame
<1>3. GoOn(r, g)
  BY DEF Step
<1> HIDE DEF g
<1>4. /\ Issued' /\ calls'[r] = g
      /\ \A q \in SessionRequests \ {r} : calls'[q] = calls[q]
  BY <1>1, <1>2, <1>3, IssuedStays
<1>5. Leaves(r)
  <2> SUFFICES ASSUME calm' PROVE Leaves(r)
    BY DEF Leaves
  <2>1. Fresh(user)' /\ Fresh(calls[r])' = Fresh(calls[r])'
    BY <1>1 DEF InOrder, Finds, Fresh
  <2>2. (Fresh(calls[r].row))'
    BY <1>1, <1>2, <1>4 DEF Finds, Fresh
  <2>3. Finds(calls[r])'
    BY <1>2, <1>4, <2>2 DEF Finds
  <2> QED BY <2>1, <2>3 DEF Leaves
<1> QED BY <1>1, <1>4, <1>5, StatementKeeps

(* The last statement of a request. *)
LEMMA EndKeeps ==
    ASSUME CalmInv, NEW r \in SessionRequests, Busy(r),
           GoOn(r, NoCall), UNCHANGED <<lastSecret, used>>,
           user' = user \/ user' = calls[r].row,
           calm' => /\ calm
                    /\ (spent \subseteq 1..lastToken)'
                    /\ (spent \cap DOMAIN tokens = {})'
    PROVE  Issued' /\ (calm' => InOrder')
<1>1. /\ calls[r].row.secret <= lastSecret /\ user.secret <= lastSecret
      /\ (calm => InOrder /\ Finds(calls[r]))
      /\ used \subseteq (0..lastSecret) \X RecoveryCodes
  BY DEF CalmInv, Issued, InOrder
<1>2. /\ Issued' /\ calls'[r] = NoCall
      /\ \A q \in SessionRequests \ {r} : calls'[q] = calls[q]
  BY <1>1, IssuedStays
<1>3. Leaves(r)
  BY <1>1, <1>2 DEF Leaves, Busy, InOrder, Finds, Fresh
<1> QED BY <1>2, <1>3, StatementKeeps

LEMMA NewTokenUnspent ==
    ASSUME CalmInv, calm, UNCHANGED spent, NEW s, NEW kind, CreateToken(s, kind)
    PROVE  (spent \subseteq 1..lastToken)' /\ (spent \cap DOMAIN tokens = {})'
<1>1. /\ lastToken \in Nat /\ spent \subseteq 1..lastToken
      /\ spent \cap DOMAIN tokens = {}
  BY RowsTyped DEF CalmInv, InOrder
<1>2. lastToken' = lastToken + 1 /\ DOMAIN tokens' = DOMAIN tokens \cup {lastToken + 1}
  BY DEF CreateToken
<1> QED BY <1>1, <1>2

LEMMA ReplaceKeeps ==
    ASSUME CalmInv, NEW r \in SessionRequests, Replace(r)
    PROVE  Issued' /\ (calm' => InOrder')
<1> DEFINE pc == IF calls[r].token = 0 THEN "limit" ELSE "access"
<1>1. calls[r].pc = "replace" /\ Step(r, pc) /\ UNCHANGED <<lastSecret, used, user>>
  BY DEF Replace
<1>2. ASSUME calm'
      PROVE  /\ calm
             /\ (spent \subseteq 1..lastToken)' /\ (spent \cap DOMAIN tokens = {})'
  <2>1. calm /\ DeleteTokens(OfSession(calls[r].session))
    BY <1>2 DEF Replace
  <2>2. /\ spent' = spent \cup ({calls[r].token} \ {0})
        /\ Presented(calls[r].token, calls[r].session)
        /\ spent \subseteq 1..lastToken /\ spent \cap DOMAIN tokens = {}
    BY <1>1, <2>1, FrameOf DEF Replace, Finds, InOrder
  <2> QED BY <2>1, <2>2 DEF DeleteTokens, OfSession, Presented
<1> QED BY <1>1, <1>2, StepKeeps

(* The count of sessions is one, and none means no live access token. *)
LEMMA SessionsCounted ==
    ASSUME SessionsTypeOK
    PROVE  /\ CountActiveSessionsByUserID \in Nat
           /\ CountActiveSessionsByUserID = 0 => NoLiveSession
<1> DEFINE live == {j \in DOMAIN tokens : tokens[j].kind = "access" /\ ~tokens[j].expired}
           open == {tokens[i].session : i \in live}
           of == [i \in live |-> tokens[i].session]
<1>1. IsFiniteSet(live)
  <2>1. lastToken \in Int /\ 1 \in Int /\ live \in SUBSET (1..lastToken)
    BY SessionsAssumption DEF SessionsTypeOK
  <2> HIDE DEF live
  <2>2. IsFiniteSet(1..lastToken)
    BY <2>1, FS_Interval
  <2> QED BY <2>1, <2>2, FS_Subset
<1>2. of \in Surjection(live, open)
  <2> HIDE DEF live
  <2> QED BY DEF Surjection
<1>3. IsFiniteSet(open)
  <2> HIDE DEF live, open, of
  <2> QED BY <1>1, <1>2, FS_Surjection
<1>4. CountActiveSessionsByUserID = Cardinality(open)
  BY DEF CountActiveSessionsByUserID
<1>5. open = {} => NoLiveSession
  <2> SUFFICES ASSUME open = {} PROVE NoLiveSession
    OBVIOUS
  <2>1. live = {}
    <3> HIDE DEF live
    <3> QED OBVIOUS
  <2> QED BY <2>1 DEF NoLiveSession, SessionsTypeOK, TokenRow
<1> HIDE DEF open
<1> QED BY <1>3, <1>4, <1>5, FS_CardinalityType, FS_EmptySet

LEMMA LimitKeeps ==
    ASSUME CalmInv, NEW r \in SessionRequests, EnforceDeviceLimit(r)
    PROVE  Issued' /\ (calm' => InOrder')
<1>1. /\ calls[r].pc = "limit" /\ UNCHANGED <<user, lastSecret, used, tokens, lastToken, spent, calm>>
      /\ Busy(r) /\ (calm => InOrder)
  BY FrameOf DEF EnforceDeviceLimit, Secrets
<1>2. calm' => (spent \subseteq 1..lastToken)' /\ (spent \cap DOMAIN tokens = {})'
  BY <1>1 DEF InOrder
<1>3. CASE (~FreePlan \/ ~LimitReached) /\ Step(r, "access")
  <2>1. SessionsTypeOK
    BY DEF CalmInv, SessionsInv
  <2>2. FreePlan => CountActiveSessionsByUserID = 0
    BY <1>3, <2>1, SessionsCounted DEF LimitReached
  <2>3. FreePlan => NoLiveSession'
    BY <1>1, <2>1, <2>2, SessionsCounted DEF NoLiveSession
  <2> QED BY <1>1, <1>2, <1>3, <2>3, StepKeeps
<1>4. CASE Step(r, "revoke") \/ Step(r, "unlimited")
  BY <1>1, <1>2, <1>4, StepKeeps
<1>5. CASE GoOn(r, NoCall)
  BY <1>1, <1>2, <1>5, EndKeeps
<1> QED BY <1>3, <1>4, <1>5 DEF EnforceDeviceLimit

LEMMA ConsumeKeeps ==
    ASSUME CalmInv, NEW r \in SessionRequests, Consume(r)
    PROVE  Issued' /\ (calm' => InOrder')
<1> DEFINE f == calls[r]
           row == IF f.then = "save" THEN TurnedOff(f.row) ELSE f.row
           g == [f EXCEPT !.pc = f.then, !.then = "idle", !.row = row]
<1>1. /\ Busy(r) /\ f \in CallFrame /\ f.pc = "consume"
      /\ f.row \in UserRow /\ f.row.secret <= lastSecret
      /\ (calm => InOrder /\ Finds(f))
      /\ used \subseteq (0..lastSecret) \X RecoveryCodes
      /\ lastSecret \in Nat /\ f.row.secret \in Nat /\ f.codes \subseteq RecoveryCodes
  BY FrameOf, RowsTyped DEF Consume, CalmInv, Issued
<1>2. /\ user' = f.row /\ used' = used \cup CodesOf(f) /\ GoOn(r, g)
      /\ UNCHANGED <<lastSecret, tokens, lastToken, spent, calm>>
  BY DEF Consume
<1>3. /\ row.secret <= lastSecret
      /\ row = f.row \/ row.codes = {}
  BY <1>1 DEF TurnedOff, UserRow
<1>4. g.pc = f.then /\ g.then = "idle" /\ g.row = row /\ g.token = f.token
  <2> HIDE DEF row
  <2> QED BY <1>1 DEF CallFrame
<1>5. used' \subseteq (0..lastSecret) \X RecoveryCodes
  BY <1>1, <1>2 DEF CodesOf
<1> HIDE DEF row, g
<1>6. /\ Issued' /\ calls'[r] = g
      /\ \A q \in SessionRequests \ {r} : calls'[q] = calls[q]
  BY <1>1, <1>2, <1>3, <1>4, <1>5, IssuedStays
<1>7. Leaves(r)
  <2> SUFFICES ASSUME calm' PROVE Leaves(r)
    BY DEF Leaves
  <2>1. calm /\ InOrder /\ Finds(f)
    BY <1>1, <1>2
  <2>2. \A c \in f.row.codes : <<f.row.secret, c>> \notin used'
    <3>1. f.codes \cap f.row.codes = {} /\ Fresh(f.row)
      BY <1>1, <2>1 DEF Finds
    <3> QED BY <1>2, <3>1 DEF Fresh, CodesOf
  <2>3. Fresh(user)' /\ Fresh(calls[r].row)'
    BY <1>2, <1>3, <1>4, <1>6, <2>2 DEF Fresh
  <2>4. f.then \in {"replace", "limit", "save"} /\ f.token = 0
    BY <1>1, <2>1 DEF Finds
  <2>5. Finds(calls[r])'
    BY <1>4, <1>6, <2>3, <2>4 DEF Finds, Presented
  <2> QED BY <1>2, <2>1, <2>3, <2>5 DEF Leaves, InOrder
<1> QED BY <1>1, <1>6, <1>7, StatementKeeps

LEMMA OtherStatementsKeep ==
    ASSUME CalmInv, NEW r \in SessionRequests, Statement(r), ~Consume(r)
    PROVE  Issued' /\ (calm' => InOrder')
<1> USE DEF Secrets
<1>1. calm => spent \subseteq 1..lastToken /\ spent \cap DOMAIN tokens = {}
  BY DEF CalmInv, InOrder
<1>2. CASE LogoutOthers(r)
  <2>1. DOMAIN tokens' = {} /\ UNCHANGED <<spent, lastToken, lastSecret, used, user, calm>>
    BY <1>2 DEF LogoutOthers, DeleteTokens
  <2>2. NoLiveSession'
    BY <2>1 DEF NoLiveSession
  <2> QED BY <1>1, <1>2, <2>1, <2>2, StepKeeps DEF LogoutOthers
<1>3. CASE StoreAccess(r)
  <2>1. calm' => (spent \subseteq 1..lastToken)' /\ (spent \cap DOMAIN tokens = {})'
    BY <1>3, NewTokenUnspent DEF StoreAccess
  <2> QED BY <1>3, <2>1, StepKeeps DEF StoreAccess
<1>4. CASE StoreRefresh(r)
  <2>1. calm' => (spent \subseteq 1..lastToken)' /\ (spent \cap DOMAIN tokens = {})'
    BY <1>4, NewTokenUnspent DEF StoreRefresh
  <2> QED BY <1>4, <2>1, FrameOf, EndKeeps DEF StoreRefresh
<1>5. ASSUME NEW ids, DeleteTokens(ids), UNCHANGED <<spent, calm>>
      PROVE  calm' => (spent \subseteq 1..lastToken)' /\ (spent \cap DOMAIN tokens = {})'
  BY <1>1, <1>5 DEF DeleteTokens
<1>6. CASE SignOutSession(r)
  BY <1>5, <1>6, FrameOf, EndKeeps DEF SignOutSession
<1>7. CASE SignOutEverywhere(r)
  BY <1>5, <1>7, FrameOf, EndKeeps DEF SignOutEverywhere
<1>8. CASE SaveUser(r)
  <2>1. calm => calls[r].then \in {"idle", "forget"}
    BY <1>8, FrameOf DEF SaveUser, Finds
  <2>2. CASE GoOn(r, NoCall)
    BY <1>1, <1>8, <2>2, FrameOf, EndKeeps DEF SaveUser
  <2>3. CASE Step(r, calls[r].then) /\ calls[r].then # "idle"
    BY <1>1, <1>8, <2>1, <2>3, StepKeeps DEF SaveUser
  <2> QED BY <1>8, <2>2, <2>3 DEF SaveUser
<1>9. CASE FailCall(r)
  BY <1>1, <1>9, EndKeeps DEF FailCall, Busy
<1> QED BY <1>2, <1>3, <1>4, <1>6, <1>7, <1>8, <1>9, ReplaceKeeps, LimitKeeps
        DEF Statement

-----------------------------------------------------------------------------
LEMMA TimeKeeps ==
    ASSUME CalmInv, TimePasses \/ CleanupTokens
           \/ \E s \in SessionIds, logout \in BOOLEAN : SignInTwoFactor(s, logout)
    PROVE  Issued' /\ (calm' => InOrder')
<1> USE DEF Secrets
<1>1. UNCHANGED <<user, calls, spent, calm, lastSecret, used>>
  BY DEF TimePasses, CleanupTokens, SignInTwoFactor, ExpireToken, ValidateToken, ExpireTicket
<1>2. UNCHANGED <<tokens, lastToken>> => Fewer
  BY DEF Fewer
<1>3. ASSUME NEW i \in DOMAIN tokens, ExpireToken(i) PROVE Fewer
  BY <1>3 DEF ExpireToken, Fewer, CalmInv, SessionsInv, SessionsTypeOK, TokenRow
<1>4. ASSUME NEW i \in DOMAIN tokens, ValidateToken(i) PROVE Fewer
  BY <1>4, DeletedAreFewer DEF ValidateToken
<1>5. CleanupTokens => Fewer
  BY DeletedAreFewer DEF CleanupTokens
<1>6. Fewer
  BY <1>2, <1>3, <1>4, <1>5 DEF TimePasses, SignInTwoFactor, ExpireTicket
<1> QED BY <1>1, <1>6, FewerKeep

LEMMA CalmInvAlways == SessionsSpec => []CalmInv
<1>1. SessionsInit /\ SessionsInv => CalmInv
  BY SessionsAssumption
     DEF SessionsInit, CalmInv, Issued, InOrder, Alone, Busy, Fresh
<1>2. CalmInv /\ [SessionsNext]_sessionVars /\ SessionsInv' => CalmInv'
  <2> SUFFICES ASSUME CalmInv, [SessionsNext]_sessionVars
               PROVE  Issued' /\ (calm' => InOrder')
    BY DEF CalmInv
  <2>1. CASE UNCHANGED sessionVars
    <3>1. Fewer /\ UNCHANGED <<user, calls, spent, calm, lastSecret, used>>
      BY <2>1 DEF sessionVars, Fewer
    <3> QED BY <3>1, FewerKeep
  <2>2. ASSUME NEW r \in SessionRequests, Statement(r)
        PROVE  Issued' /\ (calm' => InOrder')
    BY <2>2, ConsumeKeeps, OtherStatementsKeep
  <2> QED BY <2>1, <2>2, OpenSessionKeeps, ChangeAccountKeeps, TimeKeeps DEF SessionsNext
<1> QED BY <1>1, <1>2, SessionsInvAlways, PTL DEF SessionsSpec

(* While requests do not overlap, a token that was exchanged for new ones  *)
(* is never exchanged again, also when the request that did it failed half *)
(* way: RefreshToken deletes before it stores.                             *)
THEOREM TokensExchangedOnce == SessionsSpec => TokensServeOnce
<1>1. CalmInv => [\A r \in SessionRequests :
                     Replace(r) /\ calm' => calls[r].token \notin spent]_sessionVars
  <2> SUFFICES ASSUME CalmInv, NEW r \in SessionRequests, Replace(r), calm'
               PROVE  calls[r].token \notin spent
    OBVIOUS
  <2>1. calm /\ calls[r].pc = "replace"
    BY DEF Replace
  <2>2. Presented(calls[r].token, calls[r].session) /\ spent \subseteq 1..lastToken
    BY <2>1, FrameOf DEF Finds, InOrder
  <2> QED BY <2>2 DEF Presented
<1> QED BY <1>1, CalmInvAlways, PTL DEF TokensServeOnce

(* While requests do not overlap, a recovery code that was accepted is     *)
(* never accepted again, also when what it was given for failed: the row   *)
(* is saved without it first (tryRecoveryCode).                            *)
THEOREM RecoveryCodesServeOnce == SessionsSpec => CodesServeOnce
<1>1. CalmInv => [\A r \in SessionRequests :
                     Consume(r) /\ calm => CodesOf(calls[r]) \cap used = {}]_sessionVars
  <2> SUFFICES ASSUME CalmInv, NEW r \in SessionRequests, Consume(r), calm
               PROVE  CodesOf(calls[r]) \cap used = {}
    OBVIOUS
  <2>1. calls[r].pc = "consume" /\ Finds(calls[r])
    BY FrameOf DEF Consume
  <2> QED BY <2>1 DEF Finds
<1> QED BY <1>1, CalmInvAlways, PTL DEF CodesServeOnce

(* While requests do not overlap, a sign-in on the free plan that stores   *)
(* its access token finds no other live one: the limit it asked for still  *)
(* holds, whatever expires in between (enforceDeviceLimit).  Only a        *)
(* sign-in that could not read its plan is exempt, and only itself: the    *)
(* next one is counted again, or ends what the exempt one left.            *)
THEOREM FreePlanHasOneDevice == SessionsSpec => DeviceLimitHolds
<1>1. CalmInv => [\A r \in SessionRequests :
                     StoreAccess(r) /\ calm /\ FreePlan /\ calls[r].token = 0
                     /\ calls[r].pc = "access"
                         => \A i \in DOMAIN tokens :
                               tokens[i].expired \/ tokens[i].kind = "refresh"]_sessionVars
  <2> SUFFICES ASSUME CalmInv, NEW r \in SessionRequests, StoreAccess(r), calm,
                      FreePlan, calls[r].token = 0, calls[r].pc = "access"
               PROVE  NoLiveSession
    BY DEF NoLiveSession
  <2>1. calls[r].pc = "access" /\ Finds(calls[r])
    BY FrameOf DEF StoreAccess
  <2> QED BY <2>1 DEF Finds
<1> QED BY <1>1, CalmInvAlways, PTL DEF DeviceLimitHolds
=============================================================================

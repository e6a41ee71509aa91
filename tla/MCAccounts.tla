----------------------------- MODULE MCAccounts -----------------------------
(* Sessions, accounts, emergency access and single sign-on are independent *)
(* of each other: one run checks them side by side, and focus picks the    *)
(* one that moves.                                                         *)
EXTENDS Sessions, Accounts, EmergencyAccess, SsoLogin, TLC

VARIABLE focus  \* the component that moves

mcVars == <<sessionVars, accountVars, grantVars, ssoVars, focus>>

MCInit ==
    /\ focus \in {"sessions", "accounts", "grant", "sso"}
    /\ SessionsInit
    /\ AccountsInit
    /\ GrantInit
    /\ SsoInit

(* Overlapping requests are bounded more tightly than requests one by one: *)
(* these bounds hold of every state reached.                              *)
MCFewSessions ==
    /\ lastToken = 0 \/ (calm /\ lastSecret <= 1)
    /\ Cardinality(tickets) <= 1

MCFewAccounts ==
    \/ orderly /\ issued.code + issued.token = 0
    \/ orderly /\ issued.vault <= 1 /\ issued.token <= 1
       /\ \A u \in DOMAIN users : users[u].email \in {"a", "A"}
    \/ issued.vault <= 1 /\ issued.code + issued.token <= 1
       /\ \A u \in DOMAIN users : users[u].email = "a"
       /\ \A r \in AccountRequests : jobs[r] # NoJob => jobs[r].row.email = "a"

MCFewConnections ==
    ssoCalm \/ newest.connection <= 1

MCSessions ==
    /\ focus = "sessions"
    /\ SessionsNext
    /\ MCFewSessions'
    /\ UNCHANGED <<accountVars, grantVars, ssoVars, focus>>

MCAccountsStep ==
    /\ focus = "accounts"
    /\ AccountsNext
    /\ MCFewAccounts'
    /\ UNCHANGED <<sessionVars, grantVars, ssoVars, focus>>

MCGrant ==
    /\ focus = "grant"
    /\ GrantNext
    /\ UNCHANGED <<sessionVars, accountVars, ssoVars, focus>>

MCSso ==
    /\ focus = "sso"
    /\ SsoNext
    /\ MCFewConnections'
    /\ UNCHANGED <<sessionVars, accountVars, grantVars, focus>>

MCNext == MCSessions \/ MCAccountsStep \/ MCGrant \/ MCSso

MCSpec == MCInit /\ [][MCNext]_mcVars

(* Addresses in two spellings, and one of another user. *)
MCLower == [e \in {"a", "A", "b"} |-> IF e = "A" THEN "a" ELSE e]

MCSymmetry ==
    Permutations(SessionRequests) \cup Permutations(SsoDomains)

(* Every row, frame and history keeps its type, whatever is written back.  *)
TypesOK ==
    /\ focus = "sessions" => SessionsTypeOK
    /\ focus = "accounts" => AccountsTypeOK
    /\ focus = "grant" => GrantTypeOK
    /\ focus = "sso" => SsoTypeOK
=============================================================================

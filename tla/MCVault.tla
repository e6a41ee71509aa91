------------------------------ MODULE MCVault ------------------------------
(* The organization's vault and who has access to it, sends, policies, the *)
(* guards of sign-in, the caches, the breach monitor, mail jobs, a user's    *)
(* own items and telemetry are independent of each other: one run checks   *)
(* them side by side, and focus picks the one that moves.                  *)
EXTENDS OrgItems, CollectionAccess, Sends, Policies, FailedLogins, RateLimiter,
        Caches, BreachMonitor, MailJobs, Items, Telemetry, TLC

VARIABLE focus  \* the component that moves

guardVars == <<loginVars, rateVars>>

reportVars == <<mailVars, ownVars, telemetryVars>>

mcVars == <<vaultVars, accessVars, sendVars, policyVars, guardVars, cacheVars,
            monitorVars, reportVars, focus>>

MCInit ==
    /\ focus \in {"vault", "access", "send", "policies", "logins", "rate",
                  "caches", "monitor", "mail", "items", "telemetry"}
    /\ OrgItemsInit
    /\ AccessInit
    /\ SendsInit
    /\ PoliciesInit
    /\ FailedLoginsInit
    /\ RateInit
    /\ CachesInit
    /\ MonitorInit
    /\ MailInit
    /\ ItemsInit
    /\ TelemetryInit
    /\ focus = "send" \/ (send.limit = 0 /\ send.expires = Later)
    /\ focus = "policies" \/ plan = 1
    /\ focus = "mail" \/ matching = {}

(* Overlapping requests are bounded more tightly than requests one by one: *)
(* these bounds hold of every state reached.                               *)
MCFewItems ==
    \/ vaultCalm /\ Len(rows["folder"]) + Len(rows["share"]) <= 1
    \/ Len(rows["collection"]) <= 2 /\ rows["share"] = <<>> /\ rows["folder"] = <<>>
       /\ Cardinality(dropped) <= 1

MCFewAccessRows ==
    /\ lastTeam = 1 \/ Len(accessRows) <= 2
    /\ accessCalm \/ (Len(accessRows) <= 2 /\ unseen = {})
    /\ (accessCalm /\ unseen = {}) \/ (lastTeam = 1 /\ orgMembers = OrgMembers)
    /\ Cardinality(unseen) <= 1

MCFewViews ==
    /\ steady \/ (views <= 1 /\ sendCalm)
    /\ sendCalm \/ (today = 0 /\ send # NoSend /\ send.expires = Later)

MCFewPolicies ==
    \/ /\ rules = <<>> /\ lastCheck = NotChecked
       /\ policies[FirewallType] = NoPolicy
       /\ \A r \in PolicyRequests :
             policyCalls[r] # PolicyIdle => policyCalls[r].type # FirewallType
    \/ /\ \A t \in PolicyTypes \ {FirewallType} : policies[t] = NoPolicy
       /\ \A r \in PolicyRequests :
             policyCalls[r] # PolicyIdle => policyCalls[r].type = FirewallType /\ rules = <<>>
       /\ plan = 2

MCFewIcons ==
    /\ iconCalm \/ (order = <<>> /\ ranges = <<>> /\ custom = [d \in Domains |-> NoFiles])
    /\ order = <<>> \/ (ranges = <<>> /\ fetching = {})

MCFewEmails ==
    monitorCalm \/ (Len(monitored) <= 1 /\ breachRecords = <<>>)

MCFewOwnItems ==
    ownCalm \/ Len(ownItems) <= 1

MCFewEvents ==
    /\ verdicts = {} \/ RowCount <= 2
    /\ telemetryCalm \/ (RowCount <= 2 /\ answered = {} /\ verdicts = {})

MCItems ==
    /\ focus = "vault"
    /\ OrgItemsNext
    /\ MCFewItems'
    /\ UNCHANGED <<accessVars, sendVars, policyVars, guardVars, cacheVars, monitorVars, reportVars, focus>>

MCAccess ==
    /\ focus = "access"
    /\ AccessNext
    /\ MCFewAccessRows'
    /\ UNCHANGED <<vaultVars, sendVars, policyVars, guardVars, cacheVars, monitorVars, reportVars, focus>>

MCSends ==
    /\ focus = "send"
    /\ SendsNext
    /\ MCFewViews'
    /\ UNCHANGED <<vaultVars, accessVars, policyVars, guardVars, cacheVars, monitorVars, reportVars, focus>>

MCPolicies ==
    /\ focus = "policies"
    /\ PoliciesNext
    /\ MCFewPolicies'
    /\ UNCHANGED <<vaultVars, accessVars, sendVars, guardVars, cacheVars, monitorVars, reportVars, focus>>

MCLogins ==
    /\ focus = "logins"
    /\ FailedLoginsNext
    /\ UNCHANGED <<vaultVars, accessVars, sendVars, policyVars, rateVars, cacheVars,
                   monitorVars, reportVars, focus>>

MCRate ==
    /\ focus = "rate"
    /\ RateNext
    /\ UNCHANGED <<vaultVars, accessVars, sendVars, policyVars, loginVars, cacheVars,
                   monitorVars, reportVars, focus>>

MCCaches ==
    /\ focus = "caches"
    /\ CachesNext
    /\ MCFewIcons'
    /\ UNCHANGED <<vaultVars, accessVars, sendVars, policyVars, guardVars, monitorVars, reportVars, focus>>

MCMonitor ==
    /\ focus = "monitor"
    /\ MonitorNext
    /\ MCFewEmails'
    /\ UNCHANGED <<vaultVars, accessVars, sendVars, policyVars, guardVars, cacheVars, reportVars, focus>>

MCMail ==
    /\ focus = "mail"
    /\ MailNext
    /\ UNCHANGED <<vaultVars, accessVars, sendVars, policyVars, guardVars, cacheVars,
                   monitorVars, ownVars, telemetryVars, focus>>

MCOwnItems ==
    /\ focus = "items"
    /\ ItemsNext
    /\ MCFewOwnItems'
    /\ UNCHANGED <<vaultVars, accessVars, sendVars, policyVars, guardVars, cacheVars,
                   monitorVars, mailVars, telemetryVars, focus>>

MCTelemetry ==
    /\ focus = "telemetry"
    /\ TelemetryNext
    /\ MCFewEvents'
    /\ UNCHANGED <<vaultVars, accessVars, sendVars, policyVars, guardVars, cacheVars,
                   monitorVars, mailVars, ownVars, focus>>

MCNext ==
    \/ MCItems \/ MCAccess \/ MCSends \/ MCPolicies \/ MCLogins \/ MCRate \/ MCCaches \/ MCMonitor
    \/ MCMail \/ MCOwnItems \/ MCTelemetry

MCSpec == MCInit /\ [][MCNext]_mcVars /\ SendsFairness /\ MailFairness

MCMaxRows == [t \in Tables |-> IF t = "collection" THEN 3 ELSE 1]

(* Two policies that need a larger plan, one of which needs the other, and *)
(* the one the smaller plan has.                                           *)
MCDependencies == [t \in PolicyTypes |-> IF t = "sso" THEN {"single"} ELSE {}]

MCTier == [t \in PolicyTypes |-> IF t = "twofactor" THEN 1 ELSE 2]

MCSampledOut == {<<"q", "b">>}

MCExtensions == <<"png", "gif">>

(* Every row, frame and history keeps its type, whatever is written back.  *)
VaultTypesOK ==
    /\ focus = "vault" => OrgItemsTypeOK
    /\ focus = "access" => AccessTypeOK
    /\ focus = "send" => SendsTypeOK
    /\ focus = "policies" => PoliciesTypeOK
    /\ focus = "logins" => FailedLoginsTypeOK
    /\ focus = "rate" => RateTypeOK
    /\ focus = "caches" => CachesTypeOK
    /\ focus = "monitor" => MonitorTypeOK
    /\ focus = "mail" => MailTypeOK
    /\ focus = "items" => ItemsTypeOK
    /\ focus = "telemetry" => TelemetryTypeOK

(* One row per grant, membership of a team, monitored address, recorded    *)
(* breach and reported event, while requests do not overlap, and one mail  *)
(* per recipient, with nobody passed over (CollectionAccess,               *)
(* BreachMonitor, Telemetry, MailJobs).                                    *)
OnceEach ==
    /\ OneGrantEach
    /\ OneRecordEach
    /\ EventStoredOnce
    /\ MailedOnce
    /\ NobodySkipped

(* What was deleted in the vault, a send its owner deleted and an address  *)
(* no longer monitored do not come back with a later save, an item is what *)
(* its changes made of it and the model's answers are kept, while requests *)
(* do not overlap (OrgItems, Sends, BreachMonitor, Items, Telemetry).      *)
WritesStay ==
    /\ VaultStaysDeleted
    /\ SendStaysDeleted
    /\ EmailStaysRemoved
    /\ ItemsAsAsked
    /\ AnswersAreKept

(* The guards in memory let through no more than they should, the firewall *)
(* decides as its rules read, and the caches hold what they stand for      *)
(* (FailedLogins, RateLimiter, Policies, Caches).                          *)
GuardsHold ==
    /\ FailuresAreBounded
    /\ FailuresLeaveRoom
    /\ AdmittedIsBounded
    /\ FirewallAgrees
    /\ CachesHold

(* Expired sends are deleted and mail jobs end: the cleanup's ticker and a *)
(* job's goroutine run while the server does (Sends, MailJobs).            *)
WorkIsDone == DueIsDeleted /\ MailJobEnds
=============================================================================

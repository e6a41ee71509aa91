------------------------------ MODULE Policies ------------------------------
(***************************************************************************)
(* The policies of one organization, each enabled or not and with data of  *)
(* its own, and the firewall that reads its rules from one of them         *)
(* (service/organization_policy_service.go, service/policy_firewall.go).   *)
(*                                                                         *)
(* An update reads the policies it depends on, or those that depend on it, *)
(* then its own row, and then saves that row: three statements.            *)
(***************************************************************************)
EXTENDS Integers, Sequences, SequencesExt

CONSTANTS
    PolicyRequests,  \* concurrent requests
    PolicyTypes,     \* the catalogue's types
    Dependencies,    \* type |-> the types it requires
    Tier,            \* type |-> the lowest plan it is sold with
    Plans,           \* ranks of the plans, 0 for the free one
    TwoFactorType,   \* the type whose first enabling is dated
    FirewallType,    \* the type whose data are the firewall's rules
    Addresses,       \* addresses of clients
    MaxRules         \* bound on the firewall's rules

ASSUME PoliciesAssumption ==
    /\ Dependencies \in [PolicyTypes -> SUBSET PolicyTypes]
    /\ FirewallType \in PolicyTypes
    /\ Plans \subseteq Nat
    /\ Tier \in [PolicyTypes -> Nat]
    /\ MaxRules \in Nat

VARIABLES
    policies,     \* type |-> row, or NoPolicy
    plan,         \* rank of the organization's plan
    policyCalls,  \* request |-> frame
    policyCalm,   \* history: no updates overlapped
    rules,        \* the firewall's rules, as its policy's data holds them
    lastCheck     \* history: the firewall's last answer

policyVars == <<policies, plan, policyCalls, policyCalm, rules, lastCheck>>

NoPolicy == [enabled |-> FALSE, dated |-> FALSE, absent |-> TRUE]

Policy == [enabled: BOOLEAN, dated: BOOLEAN, absent: {FALSE}]

PolicyIdle == [op |-> "none"]

Wishes == {"enable", "disable", "data"}

PolicyCall ==
    {PolicyIdle} \cup [op: {"load"}, type: PolicyTypes, wish: Wishes]
                 \cup [op: {"save"}, type: PolicyTypes, row: Policy]

(* An entry of the data: which addresses it covers, none when its value    *)
(* does not parse; entries without a kind or an action are dropped.        *)
Rule == [kind: {"ip", "cidr", "country", ""}, covers: SUBSET Addresses,
         action: {"allow", "deny", "report", "other", ""}]

NotChecked == [allowed |-> TRUE, address |-> "none", ruled |-> FALSE]
Unparsed == "unparsed"

PoliciesTypeOK ==
    /\ policies \in [PolicyTypes -> Policy \cup {NoPolicy}]
    /\ plan \in Plans
    /\ policyCalls \in [PolicyRequests -> PolicyCall]
    /\ policyCalm \in BOOLEAN
    /\ Len(rules) <= MaxRules /\ \A i \in DOMAIN rules : rules[i] \in Rule
    /\ {lastCheck.allowed, lastCheck.ruled} \subseteq BOOLEAN

PoliciesInit ==
    /\ policies = [t \in PolicyTypes |-> NoPolicy]
    /\ plan \in Plans
    /\ policyCalls = [r \in PolicyRequests |-> PolicyIdle]
    /\ policyCalm = TRUE
    /\ rules = <<>>
    /\ lastCheck = NotChecked

-----------------------------------------------------------------------------
IsPolicyEnabled(t) == policies[t].enabled

FindDependents(t) == {d \in PolicyTypes : IsPolicyEnabled(d) /\ t \in Dependencies[d]}

TierMeetsMinimum(t) == plan >= Tier[t]

FirewallUnchanged == UNCHANGED <<rules, lastCheck>>

(* Mutant: nobody asks which policies depend on the one disabled. *)
CheckEnablingOnly(r, t, wish) ==
    /\ policyCalls[r] = PolicyIdle
    /\ TierMeetsMinimum(t)
    /\ wish = "enable" => \A d \in Dependencies[t] : IsPolicyEnabled(d)
    /\ policyCalls' = [policyCalls EXCEPT ![r] = [op |-> "load", type |-> t, wish |-> wish]]
    /\ policyCalm' = (policyCalm /\ \A q \in PolicyRequests : policyCalls[q] = PolicyIdle)
    /\ UNCHANGED <<policies, plan>> /\ FirewallUnchanged

(* The plan must reach the policy's tier; what it requires must be enabled *)
(* before it is, and nothing enabled may require it when it is disabled.   *)
CheckPolicy(r, t, wish) ==
    /\ policyCalls[r] = PolicyIdle
    /\ TierMeetsMinimum(t)
    /\ wish = "enable" => \A d \in Dependencies[t] : IsPolicyEnabled(d)
    /\ wish = "disable" => FindDependents(t) = {}
    /\ policyCalls' = [policyCalls EXCEPT ![r] = [op |-> "load", type |-> t, wish |-> wish]]
    /\ policyCalm' = (policyCalm /\ \A q \in PolicyRequests : policyCalls[q] = PolicyIdle)
    /\ UNCHANGED <<policies, plan>> /\ FirewallUnchanged

(* The row is read, or inserted when there is none.  New data replaces the *)
(* old, and enabling the two-factor policy dates it when its data has no   *)
(* date.                                                                   *)
LoadPolicy(r) ==
    /\ policyCalls[r].op = "load"
    /\ LET t == policyCalls[r].type
           wish == policyCalls[r].wish
           row == [policies[t] EXCEPT !.absent = FALSE]
       IN  /\ policies' = [policies EXCEPT ![t] = row]
           /\ \E kept \in BOOLEAN :
                 policyCalls' = [policyCalls EXCEPT ![r] =
                    [op |-> "save", type |-> t,
                     row |-> [row EXCEPT
                        !.enabled = IF wish = "data" THEN @ ELSE wish = "enable",
                        !.dated = \/ kept /\ @
                                  \/ wish = "enable" /\ t = TwoFactorType]]]
    /\ UNCHANGED <<plan, policyCalm>> /\ FirewallUnchanged

SavePolicy(r) ==
    /\ policyCalls[r].op = "save"
    /\ policies' = [policies EXCEPT ![policyCalls[r].type] = policyCalls[r].row]
    /\ policyCalls' = [policyCalls EXCEPT ![r] = PolicyIdle]
    /\ UNCHANGED <<plan, policyCalm>> /\ FirewallUnchanged

FailPolicy(r) ==
    /\ policyCalls[r] # PolicyIdle
    /\ policyCalls' = [policyCalls EXCEPT ![r] = PolicyIdle]
    /\ UNCHANGED <<policies, plan, policyCalm>> /\ FirewallUnchanged

(* Another plan leaves the policies as they are. *)
ChangePlan(p) ==
    /\ plan' = p
    /\ UNCHANGED <<policies, policyCalls, policyCalm>> /\ FirewallUnchanged

-----------------------------------------------------------------------------
(* The places of the entries that are rules. *)
ParseFirewallRules(data) == {i \in DOMAIN data : data[i].kind # "" /\ data[i].action # ""}

Matches(rule, address) == rule.kind \in {"ip", "cidr"} /\ address \in rule.covers

Decisive == {"allow", "deny", "report"}

(* What the first rule says that matches and says what to do. *)
Verdict(data, address) ==
    LET parsed == ParseFirewallRules(data)
        After(verdict, i) == IF /\ verdict = "none" /\ i \in parsed
                                /\ Matches(data[i], address) /\ data[i].action \in Decisive
                             THEN data[i].action ELSE verdict
    IN  FoldLeftDomain(After, "none", data)

(* Mutant: traffic no rule speaks of is let in. *)
AllowUnmatched(data, address) ==
    \/ ParseFirewallRules(data) = {}
    \/ address # Unparsed /\ Verdict(data, address) # "deny"

(* The rules in their order: the verdict decides, and without one an allow *)
(* rule anywhere closes the door.  Without rules everybody may pass.       *)
CheckAccess(data, address) ==
    LET parsed == ParseFirewallRules(data)
        verdict == Verdict(data, address)
    IN  \/ parsed = {}
        \/ /\ address # Unparsed
           /\ \/ verdict \in {"allow", "report"}
              \/ /\ verdict = "none"
                 /\ \A i \in parsed : data[i].action # "allow"

(* A policy that is off has no data, and one that cannot be read counts as *)
(* one without.                                                            *)
GetPolicyData(ruled) == IF ruled THEN rules ELSE <<>>

(* An update's data, entry by entry. *)
AddRule(rule) ==
    /\ Len(rules) < MaxRules
    /\ rules' = Append(rules, rule)
    /\ lastCheck' = NotChecked
    /\ UNCHANGED <<policies, plan, policyCalls, policyCalm>>

FilterRequest(address) ==
    /\ \E ruled \in {FALSE, IsPolicyEnabled(FirewallType)} :
          lastCheck' = [allowed |-> CheckAccess(GetPolicyData(ruled), address),
                        address |-> address,
                        ruled |-> ruled]
    /\ UNCHANGED <<policies, plan, policyCalls, policyCalm, rules>>

PoliciesNext ==
    \/ \E r \in PolicyRequests :
          \/ \E t \in PolicyTypes, wish \in Wishes : CheckPolicy(r, t, wish)
          \/ LoadPolicy(r) \/ SavePolicy(r) \/ FailPolicy(r)
    \/ \E p \in Plans : ChangePlan(p)
    \/ \E rule \in Rule : AddRule(rule)
    \/ \E address \in Addresses \cup {Unparsed} : FilterRequest(address)

PoliciesSpec == PoliciesInit /\ [][PoliciesNext]_policyVars

-----------------------------------------------------------------------------
(* While updates come one by one, what an enabled policy requires is       *)
(* enabled (organization_policy_service.go:140, :156).                     *)
EnabledHasDependencies ==
    policyCalm =>
        \A t \in PolicyTypes : IsPolicyEnabled(t) =>
            \A d \in Dependencies[t] : IsPolicyEnabled(d)

(* The firewall lets an address in when the first rule that covers it and  *)
(* has a known action does not deny it, or when none covers it and none    *)
(* allows anybody (policy_firewall.go:74); and every address when its      *)
(* policy is off or could not be read (policy_firewall.go:51).             *)
FirewallAgrees ==
    LET said == {i \in DOMAIN rules : rules[i].kind # "" /\ rules[i].action # ""}
        hits == {i \in said : /\ rules[i].kind # "country"
                              /\ lastCheck.address \in rules[i].covers
                              /\ rules[i].action # "other"}
    IN  lastCheck # NotChecked =>
            (lastCheck.allowed <=>
                \/ ~lastCheck.ruled \/ said = {}
                \/ /\ lastCheck.address # Unparsed
                   /\ \/ \E i \in hits : /\ \A j \in hits : i <= j
                                         /\ rules[i].action # "deny"
                      \/ /\ hits = {}
                         /\ \A i \in said : rules[i].action # "allow")
=============================================================================

------------------------ MODULE MCSubscriptionService ------------------------
(* Values of the constants of SubscriptionService for TLC. *)
EXTENDS SubscriptionService, TLC

CONSTANTS team

MCPlans == {team}
MCPeriod == [p \in MCPlans |-> 1]
MCTrial == [p \in MCPlans |-> 0]
MCSymmetry == Permutations(Requests)
=============================================================================

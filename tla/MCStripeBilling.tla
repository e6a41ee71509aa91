--------------------------- MODULE MCStripeBilling ---------------------------
(* Values of the constants of StripeBilling for TLC. *)
EXTENDS StripeBilling

CONSTANTS free, team

MCPlans == {team}
MCPeriod == [p \in MCPlans |-> 1]
MCTrial == [p \in MCPlans |-> 0]

(* Two plans, for the runs that change plans. *)
MCTwoPlans == {free, team}
MCTwoPeriods == [p \in MCTwoPlans |-> 1]
MCTwoTrials == [p \in MCTwoPlans |-> 0]
=============================================================================

---------------------------- MODULE MCMembership ----------------------------
(* Values of the constants of Membership for TLC. *)
EXTENDS Membership, TLC

MCSymmetry == Permutations(Requests) \cup Permutations(Users \ {Founder})
=============================================================================

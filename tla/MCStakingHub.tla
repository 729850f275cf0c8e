----------------------------- MODULE MCStakingHub -----------------------------
(* A small instance of StakingHub for TLC. *)
EXTENDS StakingHubProps, TLC

\* Models are interchangeable.
ModelSymmetry == Permutations(Models)
=============================================================================

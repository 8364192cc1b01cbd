-------------------------- MODULE MCAgentRegistry --------------------------
(***************************************************************************)
(* AgentRegistry for TLC.  Calls, names and tokens are interchangeable.    *)
(***************************************************************************)
EXTENDS AgentRegistry, TLC

Symmetry ==
  Permutations(Call) \cup Permutations(Name) \cup Permutations(RegToken)
=============================================================================

---------------------------- MODULE MCResources ----------------------------
(***************************************************************************)
(* ResourceRaces for TLC.  Calls and proxies are interchangeable.      *)
(***************************************************************************)
EXTENDS ResourceRaces, TLC

Symmetry == Permutations(Calls) \cup Permutations(Proxy)
=============================================================================

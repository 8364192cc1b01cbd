----------------------------- MODULE MCUserAuth -----------------------------
(***************************************************************************)
(* UserAuth for TLC.  Calls, usernames and passwords are interchangeable.  *)
(***************************************************************************)
EXTENDS UserAuth, TLC

Symmetry ==
  Permutations(Calls) \cup Permutations(User) \cup Permutations(Password)
=============================================================================

---------------------------- MODULE MCListeners ----------------------------
(***************************************************************************)
(* Listeners for TLC: two entrypoints, either with addresses of their own  *)
(* or with one that e2 may take over from e1.                              *)
(***************************************************************************)
EXTENDS Listeners, TLC

CONSTANTS e1, e2, p1, p2, p3

OwnPorts == (e1 :> {p1, p2}) @@ (e2 :> {p3})
SharedPorts == (e1 :> {p1, p2}) @@ (e2 :> {p2})

\* Reloading and reconciling goroutines are interchangeable.
Symmetry == Permutations(Loader) \cup Permutations(Reconciler)
=============================================================================

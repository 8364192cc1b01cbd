------------------------------- MODULE Values -------------------------------
(***************************************************************************)
(* What the manifests (Manifests, Wire) and the list calls (Paging) share: *)
(* label maps and the largest int32.  A label map is the set of its pairs, *)
(* with one value for a key.                                               *)
(***************************************************************************)
EXTENDS Integers

CONSTANT MaxInt32   \* 2^31 - 1 in the code

ASSUME ValuesAssumption == MaxInt32 \in Nat \ {0}

Label == [key : STRING, value : STRING]
LabelMaps == {m \in SUBSET Label : \A a, b \in m : a.key = b.key => a = b}

\* Reading a key that a map lacks gives "": a required empty value holds where the
\* key is missing.
MatchesLabels(actual, required) ==
  \A r \in required :
    IF \E a \in actual : a.key = r.key THEN r \in actual ELSE r.value = ""
=============================================================================

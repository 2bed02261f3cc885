--------------------------- MODULE MCPropertyChanges ---------------------------
(* TLC instance of PropertyChanges. *)
EXTENDS PropertyChanges, TLC

CONSTANT Starts

MCTxVersion == {setStartVersion(s) : s \in Starts}

MCSymmetry == Permutations(PropertyKey) \cup Permutations(Value)
==============================================================================

----------------------------- MODULE MCNodeLabels -----------------------------
(* TLC instances of NodeLabels. *)
EXTENDS NodeLabels, TLC

CONSTANT Starts

MCTxVersion == {setStartVersion(s) : s \in Starts}

MCSymmetry == Permutations(Thread)
===============================================================================

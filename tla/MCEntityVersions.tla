--------------------------- MODULE MCEntityVersions ---------------------------
(* TLC instances of EntityVersions. *)
EXTENDS EntityVersions, TLC

CONSTANT Starts

MCTxVersion == {setStartVersion(s) : s \in Starts}

\* Every relationship connects all the nodes: one node and a loop, or two.
MCEnds == [r \in Rel |-> Node]

MCSymmetry == Permutations(Thread) \cup Permutations(Node) \cup Permutations(Rel)
==============================================================================

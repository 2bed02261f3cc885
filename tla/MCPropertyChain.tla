--------------------------- MODULE MCPropertyChain ---------------------------
(* TLC instances of PropertyChain, and of the histories read from it.      *)
EXTENDS PropertyCursor, TLC

CONSTANTS Starts, Raw

\* Stamps of transactions begun with beginTx(), and raw versions that
\* beginTx(long) puts in the transaction as they are.
MCTxVersion == {setStartVersion(s) : s \in Starts} \cup Raw

\* Ids, primitives, keys and values are only ever compared for equality.
MCSymmetry ==
  Permutations(PropertyId) \cup Permutations(Primitive)
  \cup Permutations(PropertyKey) \cup Permutations(Value)

==============================================================================

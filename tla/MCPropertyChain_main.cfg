\* Three properties of one node: a record replaced at the head, in the middle
\* and at the end of the main chain, with one spare id.
CONSTANTS
  Limit = 4
  Primitive = {p1}
  PropertyKey = {k1, k2, k3}
  Value = {v1}
  PropertyId = {r1, r2, r3, r4}
  NoRecord = NoRecord
  Starts = {2}
  Raw = {}
  TxVersion <- MCTxVersion
SYMMETRY MCSymmetry
SPECIFICATION Spec
INVARIANTS TypeOK MainChainLinked NoLostProperty OneHostPerKey

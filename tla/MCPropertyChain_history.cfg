\* Two nodes that write the same key with versions in any order, remove it,
\* and are deleted, so that ids are used again while old histories stay.
CONSTANTS
  Limit = 4
  Primitive = {p1, p2}
  PropertyKey = {k1}
  Value = {v1, v2}
  PropertyId = {r1, r2, r3}
  NoRecord = NoRecord
  Starts = {2}
  Raw = {1}
  TxVersion <- MCTxVersion
SYMMETRY MCSymmetry
SPECIFICATION Spec
INVARIANTS HistoryAdjoins HistoryAcyclic
PROPERTIES HistoryFrozen ImplementsHistory

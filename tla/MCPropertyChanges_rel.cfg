\* A relationship with one key, changed up to three times in a transaction.
CONSTANTS
  Limit = 4
  Node = {}
  Rel = {r1}
  PropertyKey = {k1}
  Value = {v1, v2}
  NoValue = NoValue
  Starts = {1, 2}
  TxVersion <- MCTxVersion
  MaxAsked = 3
  MaxHistory = 2
SYMMETRY MCSymmetry
SPECIFICATION Spec
INVARIANT ReadYourWrites
PROPERTIES CommitEffect

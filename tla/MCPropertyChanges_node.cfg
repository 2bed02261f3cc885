\* A node with one key, changed up to four times in a transaction, each time
\* with another version.
CONSTANTS
  Limit = 4
  Node = {n1}
  Rel = {}
  PropertyKey = {k1}
  Value = {v1, v2}
  NoValue = NoValue
  Starts = {1, 2}
  TxVersion <- MCTxVersion
  MaxAsked = 4
  MaxHistory = 2
SYMMETRY MCSymmetry
SPECIFICATION Spec
INVARIANTS TypeOK ReadYourWrites Committable
PROPERTIES CommitEffect ImplementsHistories

\* One node, created and deleted in version 0, the first of a new database.
CONSTANTS
  Limit = 4
  Thread = {t1, t2}
  Ends <- MCEnds
  NotInUse = NotInUse
  Nothing = Nothing
  TxVersion <- MCTxVersion
  Node = {n1}
  Rel = {r1}
  Starts = {0}
  TxId = {1}
  ScanVersion = {}
SYMMETRY MCSymmetry
SPECIFICATION Spec
INVARIANT ZeroEndIsAlive

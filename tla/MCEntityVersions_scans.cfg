\* A node and a loop, scanned at version 2 while two transactions commit
\* changes of versions 1 and 2.
CONSTANTS
  Limit = 4
  Thread = {t1, t2}
  Ends <- MCEnds
  NotInUse = NotInUse
  Nothing = Nothing
  TxVersion <- MCTxVersion
  Node = {n1}
  Rel = {r1}
  Starts = {1, 2}
  TxId = {1}
  ScanVersion = {2}
SYMMETRY MCSymmetry
SPECIFICATION Spec
INVARIANT ScanRepeatable

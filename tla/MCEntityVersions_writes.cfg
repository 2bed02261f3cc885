\* Two nodes and a relationship between them, written by two transactions
\* whose versions come in either order.
CONSTANTS
  Limit = 4
  Thread = {t1, t2}
  Ends <- MCEnds
  NotInUse = NotInUse
  Nothing = Nothing
  TxVersion <- MCTxVersion
  Node = {n1, n2}
  Rel = {r1}
  Starts = {1, 2}
  TxId = {1}
  ScanVersion = {}
SYMMETRY MCSymmetry
SPECIFICATION Spec
INVARIANTS TypeOK WritesExclusive EndsInUse
PROPERTIES PastKept ImplementsGraph

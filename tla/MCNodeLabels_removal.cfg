\* The same nodes and labels, with one transaction.
CONSTANTS
  Limit = 4
  Thread = {t1}
  Node = {1, 2}
  Label = {2, 3}
  None = None
  Starts = {0, 1}
  TxVersion <- MCTxVersion
  EndVersion = {0, 1}
SYMMETRY MCSymmetry
SPECIFICATION Spec
INVARIANT ChangesUnderLock

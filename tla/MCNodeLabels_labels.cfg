\* Nodes 1 and 2 with labels 2 and 3: the removal of label 2 strays to node 2,
\* that of label 3 finds no node.
CONSTANTS
  Limit = 4
  Thread = {t1, t2}
  Node = {1, 2}
  Label = {2, 3}
  None = None
  Starts = {1}
  TxVersion <- MCTxVersion
  EndVersion = {2}
SYMMETRY MCSymmetry
SPECIFICATION Spec
INVARIANTS TypeOK AddsNotLost
PROPERTY LabelsKept

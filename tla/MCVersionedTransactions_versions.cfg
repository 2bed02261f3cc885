\* Two versions, allocated, given or left over, marked, flushed, and lost or
\* found to be holes by crashes; no terminations.
CONSTANTS
  Limit = 4
  Thread = {t1, t2}
  Kti = {x1, x2}
  None = None
  Direct = Direct
  Termination = {}
  MaxVersion = 2
  MaxIncarnation = 2
SYMMETRY MCSymmetry
SPECIFICATION Spec
INVARIANTS TypeOK MarkedNeverReissued
PROPERTY ImplementsLedger

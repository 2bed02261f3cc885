\* Two threads over two pooled transaction objects, with terminations of
\* both kinds; no versions, so that every stamp is 0.
CONSTANTS
  Limit = 4
  Thread = {t1, t2}
  Kti = {x1, x2}
  None = None
  Direct = Direct
  Termination = {"handle", "direct"}
  MaxVersion = 0
  MaxIncarnation = 2
SYMMETRY MCSymmetry
SPECIFICATION Spec
INVARIANTS OneOwner CloseIsHonest VetoIsFinal HandleTerminatesItsOwn
PROPERTY ImplementsAtomic

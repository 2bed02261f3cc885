\* Two sessions that hand the objects of the pool to each other.  They may both
\* be closed in the end.
CONSTANTS
  Session = {s1, s2}
  Ktx = {k1, k2}
  None = None
  Resetting = s1
  Resets = 2
  MaxResets <- MCMaxResets
CHECK_DEADLOCK FALSE
SPECIFICATION Spec
INVARIANTS TypeOK SessionsConsistent NoLateMarkOfOwn FailedNeverCommits
PROPERTIES InterruptsSettle TerminatedEnds

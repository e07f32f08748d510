SPECIFICATION Spec
CONSTANTS
  Procs = {p1, p2, p3}
  AtOnce = 2
INVARIANTS
  AckedStored
  VerdictStored
  CopiesStaleAtMost
CHECK_DEADLOCK FALSE

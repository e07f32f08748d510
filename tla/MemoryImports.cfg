CONSTANTS
  Threads = {t1, t2}
  Ids = {i1, i2}
  Manifest = {i1}
  MaxCalls = 5
  Kills = 1
SYMMETRY ThreadSymmetry
SPECIFICATION Spec
CHECK_DEADLOCK FALSE
INVARIANTS StoredKept ImportTakesEffect OnlyFailedInsertsLock CountsExactAlone

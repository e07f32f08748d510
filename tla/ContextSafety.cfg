SPECIFICATION Spec
CONSTANTS
  Threads = {t1, t2}
  Kinds <- GuardedKinds
  MaxContent = 2
  Usable = 1
  MinMessages = 2
  MaxMessages = 3
SYMMETRY ThreadSymmetry
INVARIANTS
  ProtectedKept
  BudgetRestored
  StatsExact
PROPERTIES
  SummaryKept

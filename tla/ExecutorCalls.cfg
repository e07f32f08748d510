SPECIFICATION FairSpec
CONSTANTS
  Calls = {c1, c2}
  Callers = 2
INVARIANTS
  PartialNotDone
  FreshEvent
PROPERTIES
  TimedCallReturns
  StopReachesWorker
CHECK_DEADLOCK FALSE

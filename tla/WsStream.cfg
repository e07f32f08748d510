SPECIFICATION FairSpec
CONSTANTS
  Clients = {c1, c2}
  Sessions = {s1}
  Topics = {s1, s2}
  Broadcasts = {b1, b2}
  All = All
  None = None
CHECK_DEADLOCK FALSE
INVARIANTS
  GoneLeavesNothing
  OnlyLossUnregisters
PROPERTIES
  EveryTargetServed
  DeadPeersLeave

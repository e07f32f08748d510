SPECIFICATION FairSpec
CONSTANTS
  Facts = {f1, f2}
  Triples = {f2}
  MaxIds = 7
  PromoteThreshold = 1
  DemoteThreshold = 2
  MaxFaults = 1
INVARIANTS
  NoFactLost
  OneCopy
PROPERTIES
  NoneColdAfter
  CycleEnds

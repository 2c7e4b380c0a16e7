CONSTANTS
  Schedulers = {s1}
  Tasks = {billing, cleanup, warm}
  Clustered = {billing, cleanup}
  Nobody = Nobody
  Last = 1
  Bound <- Stopping
SPECIFICATION FairSpec
INVARIANTS
  ResolvedLeavesNoneUntold
PROPERTIES
  ShutdownResolves
CHECK_DEADLOCK FALSE

CONSTANTS
  d1 = d1
  d2 = d2
  loop = loop
  call = call
  Rows = {1, 2}
  Malformed = {1}
  MaxAttempts = 2
  Batch = 2
  Dispatchers = {d1, d2}
  Passes = {loop, call}
  Of <- Owners
  Looped = {loop}
  Reasons = {"error"}
  Past = Past
  Bound <- Disturbed
  Limit = 2
SPECIFICATION FairSpec
INVARIANTS
  SnapshotIsCurrent
  OnDeadIsEarned
  ShutdownIsQuiet
PROPERTIES
  ImplementsDelivery
  EveryRowSettles

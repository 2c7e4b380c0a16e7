\* Two extensions, the jobs last.
CONSTANTS
  e1 = e1
  e2 = e2
  shared = shared
  a = a
  b = b
  scheduler = scheduler
  worker = worker
  store = store
  left = left
  right = right
  Extensions = 2
  Jobs = 2
  Eager <- EagerOrder
  Handles = {left, right}
  Wires <- Subtrees
  Workers <- OneWorker
  Schedulers <- OneScheduler
  Stores <- OneStore
  Graces = {1, 3}
  MaxDelay = 2
SPECIFICATION FairSpec
INVARIANTS
  CleanedUpOnce
  UsersStopFirst
PROPERTIES
  TornDownInReverse
  NothingStartsOnceStopping
  CallsSettle
CHECK_DEADLOCK FALSE

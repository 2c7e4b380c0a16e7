CONSTANTS
  Schedulers = {s1, s2}
  Tasks = {billing}
  Clustered = {billing}
  Nobody = Nobody
  Last = 2
  Bound <- Disturbed
SPECIFICATION FairSpec
INVARIANTS
  OneRunner
  LoserIsRenewing
  IdleKeepsNoLease
PROPERTIES
  StartsHolding
  NoStartOnceStopped
  LeaseFreedByItsHolder
  LoserIsTold
CHECK_DEADLOCK FALSE

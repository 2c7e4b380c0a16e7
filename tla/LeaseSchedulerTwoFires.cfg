CONSTANTS
  Schedulers = {s1, s2}
  Tasks = {billing}
  Clustered = {billing}
  Nobody = Nobody
  Last = 1
  Bound <- Clear
SPECIFICATION Spec
INVARIANTS
  OncePerInstant
CHECK_DEADLOCK FALSE

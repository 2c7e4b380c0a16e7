\* One call with one retry, up to two savepoints a round, nested or one after
\* the other.
CONSTANTS
  Calls = 1
  MaxRetries = 1
  Saves = 2
  Careful = TRUE
  Bound <- Disturbed
SPECIFICATION Spec
INVARIANTS
  AnswerIsHonest
PROPERTIES
  ImplementsAtomicScopes
CHECK_DEADLOCK FALSE

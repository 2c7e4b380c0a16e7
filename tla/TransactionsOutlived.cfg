\* One call whose callback does not await the savepoint it opens.
CONSTANTS
  Calls = 1
  MaxRetries = 0
  Saves = 1
  Careful = FALSE
  Bound <- Undisturbed
SPECIFICATION Spec
INVARIANTS
  AnswerIsHonest
CHECK_DEADLOCK FALSE

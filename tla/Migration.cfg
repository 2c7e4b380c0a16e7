\* Two processes, three migrations, one edit of a file.
CONSTANTS
  Runners = {r1, r2}
  Versions = {1, 2, 3}
  Transactional = TRUE
  Exclusive = TRUE
  MaxCommands = 4
  MaxEdits = 1
SYMMETRY AnyRunner
SPECIFICATION Spec
INVARIANTS
  LedgerIsSchema
  AppliedInOrder
CHECK_DEADLOCK FALSE

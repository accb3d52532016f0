SPECIFICATION Spec
CONSTANTS
  Limit = 6
  CopyBase = 4
  Targets = {0, 3}
  Files = {10}
  MaxNest = 3
  MaxRedirs = 3
INVARIANTS TypeOK CopiesIntact RestoredExactly OthersKept
CHECK_DEADLOCK FALSE

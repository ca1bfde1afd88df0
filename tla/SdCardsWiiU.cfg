CONSTANTS
  MaxNesting = 1
  Emmc = TRUE
SPECIFICATION Spec
INVARIANT AllCleanedUp
CHECK_DEADLOCK FALSE

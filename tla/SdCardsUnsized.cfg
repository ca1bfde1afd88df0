CONSTANTS
  MaxNesting = 1
  Emmc = FALSE
SPECIFICATION Spec
INVARIANT NoneMissing
CHECK_DEADLOCK FALSE

CONSTANTS
  MaxNesting = 1
  Emmc = FALSE
SPECIFICATION Spec
INVARIANT StillWorks
CHECK_DEADLOCK FALSE

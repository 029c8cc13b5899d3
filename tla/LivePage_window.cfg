SPECIFICATION Spec
CONSTANTS
  None = None
  MaxWrites = 1
  MaxSent = 1
INVARIANT
  WindowCloses
CHECK_DEADLOCK FALSE

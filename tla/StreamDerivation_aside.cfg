CONSTANTS
  Order <- MCOrder
  Span <- MCSpan
  None = None
  Traces <- MCAside
  MaxBehind = 1
  MaxRedone = 0

SPECIFICATION Spec
INVARIANTS OwnersSettle
CHECK_DEADLOCK FALSE

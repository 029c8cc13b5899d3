CONSTANTS
  Order <- MCOrder
  Span <- MCSpan
  None = None
  Traces <- MCTraces
  MaxBehind = 2
  MaxRedone = 1

SPECIFICATION Spec
INVARIANTS
  OwnersSettle
  WholeGraph
  LegsOfOwnSpans
CHECK_DEADLOCK FALSE

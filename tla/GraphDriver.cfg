CONSTANTS
  Order <- MCOrder
  Span <- MCSpan
  None = None
  InputBase <- InBand
  OutputBase = 40
  Traces <- MCTraces
  Lucks <- MCLucks
  MaxBehind = 2
  MaxRedone = 1

SPECIFICATION Spec
INVARIANTS
  CallsKept
  AnswersFirst
  ReplaysAreOne
  LegsOfOneCall
  Nested
  AgentsServe
CHECK_DEADLOCK FALSE

CONSTANTS
  Order <- MCOrder
  Span <- MCSpan
  None = None
  InputBase <- InBand
  OutputBase = 40
  Traces <- MCBareCall
  Lucks <- MCLucks
  MaxBehind = 2
  MaxRedone = 1

SPECIFICATION Spec
INVARIANTS NeverStuck
CHECK_DEADLOCK FALSE

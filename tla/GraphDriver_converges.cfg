CONSTANTS
  Order <- MCOrder
  Span <- MCSpan
  None = None
  InputBase <- InBand
  OutputBase = 40
  Traces <- MCReplay
  Lucks <- MCLucks
  MaxBehind = 2
  MaxRedone = 1

SPECIFICATION Spec
INVARIANT
  Converges
CHECK_DEADLOCK FALSE

SPECIFICATION SpecOrder
CONSTANTS
  a = a
  b = b
  c = c
  Interaction = {a, b, c}
  None = None
  LastTime = 2
  Tolerance = 1
  Parents <- MCParents
  Number <- MCNumber
INVARIANTS
  OneBreakPerCycle
  ChildAnswersFirst
PROPERTY
  LateLeafMovesNone
CHECK_DEADLOCK FALSE

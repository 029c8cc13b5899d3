SPECIFICATION SpecWalk
CONSTANTS
  s = s
  x = x
  y = y
  z = z
  i = i
  j = j
  k = k
  l = l
  Entity = {s, x, y, z}
  Interaction = {i, j, k, l}
  None = None
  Rows <- MCRows
  Seeds = {s}
  Traces <- MCTraces
  Limits <- MCLimits
INVARIANTS
  AnswersTheRule
  RouteHolds
  FrontierIsOnward
  SettledIsFinal
CHECK_DEADLOCK FALSE

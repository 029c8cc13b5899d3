SPECIFICATION Spec
CONSTANTS
  Interaction = {i1, i2}
  Payload = {p, q}
  None = None
  Absent = Absent
  Ordinal <- FromEdges
  BatchSize = 2
  MaxWrites = 2
  MaxCrashes = 0
INVARIANT
  NoneSkipped
CHECK_DEADLOCK FALSE

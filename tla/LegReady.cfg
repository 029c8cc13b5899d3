SPECIFICATION FairSpec
CONSTANTS
  Interaction = {i1, i2}
  Payload = {p, q}
  None = None
  Absent = Absent
  Ordinal <- FromSequence
  BatchSize = 2
  MaxWrites = 3
  MaxCrashes = 1
INVARIANTS
  InSeqOrder
  VerdictFirst
  NoneSkipped
PROPERTY
  EventuallyDelivered
CHECK_DEADLOCK FALSE

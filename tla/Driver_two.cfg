SPECIFICATION FairSpec
CONSTANTS
  Writers = 2
  BatchSize = 2
  MaxItems = 4
  MaxFaults = 2
INVARIANTS
  NoneLost
PROPERTY
  EventuallyProcessed
CHECK_DEADLOCK FALSE

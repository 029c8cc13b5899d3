SPECIFICATION FairSpec
CONSTANTS
  None = None
  MaxWrites = 1
  MaxSent = 1
INVARIANTS
  WakeHeard
  PictureCoversToken
PROPERTY
  EventuallyShown
CHECK_DEADLOCK FALSE

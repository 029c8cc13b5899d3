SPECIFICATION Spec
CONSTANTS
  t1 = t1  t2 = t2  in = in  call = call  echo = echo  echo2 = echo2
  resp = resp  next = next  far = far
  bot = bot  kit = kit  spare = spare  hp = hp  api = api  user = user
  None = None  Absent = Absent
  Span <- TwoTraceSpan
  Facts <- MCFacts
  Provisional <- MCProvisional
  BatchSize = 2
  MaxCrashes = 1
INVARIANTS
  DeliveredAtMostOnce
  Converged
  EndpointsExist
  ParentsLive
CHECK_DEADLOCK FALSE

SPECIFICATION Spec
CONSTANTS
  t1 = t1  t2 = t2  i1 = i1  i2 = i2  i3 = i3
  user = user  bot = bot  peer = peer  p = p  q = q
  Absent = Absent
  Trace <- MCTrace
  Interaction <- MCInteraction
  Entity <- MCEntity
  Payload <- MCPayload
  TraceOf <- MCTraceOf
  Algorithm = "graph"
  Plans <- TiedGraphPlans
  LateEntity = {bot}
  Provisional = {}
  BatchSize = 1
  MaxTx = 3
  MaxCrashes = 0
INVARIANTS
  NoLostCorrection

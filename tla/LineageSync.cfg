SPECIFICATION FairSpec
CONSTANTS
  t1 = t1  t2 = t2  i1 = i1  i2 = i2  i3 = i3
  user = user  bot = bot  peer = peer  p = p  q = q
  Absent = Absent
  Trace <- MCTrace
  Interaction <- MCInteraction
  Entity <- MCEntity
  Payload <- MCPayload
  TraceOf <- MCTraceOf
  Algorithm = "sidecar"
  Plans <- FewSidecarPlans
  LateEntity = {bot}
  Provisional = {peer}
  BatchSize = 2
  MaxTx = 3
  MaxCrashes = 1
INVARIANTS
  NoOrphanLineage
  NoLostCorrection
  SweepQuiet
PROPERTIES
  CursorMonotone
  Converges

SPECIFICATION FairSpec
CONSTANTS
  th1 = th1  th2 = th2  s1 = s1  s2 = s2  bad = bad  probe = probe
  b1 = b1  b2 = b2  b3 = b3
  Absent = Absent
  Span = {s1, s2, bad, probe}
  Thread = {th1, th2}
  Batch = {b1, b2}
  Versions <- MCVersions
  Blocked = {probe}
  Malformed = {bad}
  Unstorable = {}
  MaxSends = 2
  MaxFaults = 1
INVARIANT
  AckMeansKept
PROPERTIES
  StorePromise
  Answered
CHECK_DEADLOCK FALSE

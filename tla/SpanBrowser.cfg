SPECIFICATION SpecBrowser
CONSTANTS
  NoParent = NoParent
  Absent = Absent
  Span <- MCSpan
  Trace = {"t1", "t2", "t3", "t4"}
  TraceOf <- MCTraceOf
  ParentOf <- MCParentOf
  StartedAt <- MCStartedAt
  Exchange <- MCExchange
  ConnectRequests = {4}
  Errors = {3, 7}
  TimeFrom = 2
  TimeTo = 5
  PageSize = 1
  Tables <- MCTables
  MaxSeq = 5
  MaxWritten = 2
  MaxAsked = 3
  MaxReveals = 1
  MaxFails = 1
INVARIANTS
  StableListedOnce
  NoChildLost
PROPERTY
  RevealShows
CHECK_DEADLOCK FALSE

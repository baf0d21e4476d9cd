\* One connection, two forced disconnects of its session, every fault.
CONSTANTS
  c1 = c1
  c2 = c2
  s1 = s1
  r1 = r1
  r2 = r2
  None = None
  Conn = {c1}
  SessionId = {s1}
  Request = {r1, r2}
  Sid <- SidOne
  Target <- TargetTwice
  Faults = {"connect", "disconnect", "early"}
SPECIFICATION FairSpec
\* The end: every connection is closed and every request is served.
CHECK_DEADLOCK FALSE
INVARIANT NoTaskAfterClose
PROPERTIES DisconnectReturns OnCloseReturns ClosedStopsTask

\* Two connections of one HTTP session, one forced disconnect, callbacks
\* that fail.
CONSTANTS
  c1 = c1
  c2 = c2
  s1 = s1
  r1 = r1
  r2 = r2
  None = None
  Conn = {c1, c2}
  SessionId = {s1}
  Request = {r1}
  Sid <- SidSame
  Target <- TargetOne
  Faults = {"connect", "disconnect"}
SPECIFICATION Spec
\* The end: every connection is closed and every request is served.
CHECK_DEADLOCK FALSE
INVARIANTS
  TypeOK
  LiveIsRegistered
  NoZombieEntry
  DisconnectExcludesAdd

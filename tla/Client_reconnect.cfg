CONSTANTS
  MaxSockets = 2
  MaxRequests = 1
  MaxEmits = 1
  MaxStrays = 1
  MaxAttempts = 1
  Refuses = TRUE
SPECIFICATION FairSpec
CHECK_DEADLOCK FALSE
INVARIANTS
  TypeOK
  ReconnectionIsDriven
  ConnectingEnds
PROPERTY ReconnectionEnds

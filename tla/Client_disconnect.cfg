CONSTANTS
  MaxSockets = 2
  MaxRequests = 1
  MaxEmits = 0
  MaxStrays = 1
  MaxAttempts = 1
  Refuses = FALSE
SPECIFICATION Spec
CHECK_DEADLOCK FALSE
INVARIANT DisconnectIsFinal

CONSTANTS
  MaxSockets = 3
  MaxRequests = 1
  MaxEmits = 2
  MaxStrays = 0
  MaxAttempts = 0
  Refuses = FALSE
SPECIFICATION Spec
CHECK_DEADLOCK FALSE
INVARIANTS
  SentInOrder

\* Does every message of the client reset the clock?
CONSTANTS
  Duration = 1
  SendFails = {"IOException"}
  Malformed = TRUE
SPECIFICATION Spec
\* A cancelled task and a closed session are the end.
CHECK_DEADLOCK FALSE
PROPERTY EveryMessageResets

\* Sends fail in every way, and the data of a frame may be malformed.
CONSTANTS
  Duration = 10
  SendFails = {"IOException", "RuntimeException"}
  Malformed = TRUE
SPECIFICATION Spec
\* A cancelled task and a closed session are the end.
CHECK_DEADLOCK FALSE
INVARIANTS TypeOK AtMostOneTimeout OpenIsWatched
PROPERTIES
  DeadMeansQuiet
  ProbedBeforeTimeout
  SilentClientEndsTask
  ImplementsWatchdog

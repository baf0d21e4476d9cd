CONSTANTS
  Kinds = {"xhr", "xdr", "jsonp", "htmlfile"}
  MaxTransports = 2
  MaxRequests = 1
  MaxEmits = 2
  MaxBeats = 1
SPECIFICATION FairSpec
CHECK_DEADLOCK FALSE
INVARIANTS
  InOrder
  NoDuplicates
  PolledOrTimed
  ClosedIsQuiet
PROPERTY BufferDrains

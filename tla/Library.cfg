CONSTANTS
  Event = {connect, message}
  Function = {f, g}
  MaxOnce = 2
  MaxList = 2
  MaxDepth = 2
  MaxText = 3
  MaxShort = 1
  MaxPackets = 2
SPECIFICATION LibrarySpec
SYMMETRY Symmetry
CHECK_DEADLOCK FALSE
INVARIANTS
  TypeOK
  RoundTrip
  ServerUnderstands
  ClientUnderstands
PROPERTY ImplementsEventBus

CONSTANTS
  Name = {root, chat}
  Root = root
  MaxMessages = 2
  MaxConnections = 2
  MaxWire = 3
  Worlds <- MCWorlds
SPECIFICATION Spec
\* The end: the bounds are used up and the socket is disconnected.
CHECK_DEADLOCK FALSE
INVARIANTS
  TypeOK
  AckOfItsMessage
  CalledOnce
  CallbackWaits
  JsonAsAsked
  JoinedFirst

SPECIFICATION NetworkSpec
CONSTANTS
  Ports = {p1, p2}
  Sockets = {s1, s2}
  NoSocket = NoSocket
  Interfaces = {any, lan}
  Numbers = {1, 2}
  MaxLatency = 1
  MaxPackets = 3
  MaxSends = 2
  MaxInits = 2
  MaxEvents = 4
  None = None
  Handles <- MCHandles
  MaxTcpInits = 3
  MaxStream = 2
  Nets = {home, office}
  Loopback = loopback
  MaxInterfaces = 2
  MaxAdapters = 3
  MaxOpens = 2
INVARIANTS
  ReceivedInOrder
  NothingVanishes
  SentInOrder
  TcpLeakIsExact
  LANIsWhatIsListed
  RelayIsGranted
PROPERTIES
  CallsReturn
CHECK_DEADLOCK FALSE

SPECIFICATION StreamsSpec
CONSTANTS
  ClientWrites = 2
  ServerWrites = 0
  SendBuffer = 1
  ReceiveWindow = 2
  Capacity = 1
  ClientData = 2
  ServerData = 1
  MaxQueued = 1
INVARIANTS
  NoSegmentLost
  
PROPERTIES
  NothingHangs
CHECK_DEADLOCK FALSE

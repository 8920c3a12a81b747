SPECIFICATION ServerSpec
CONSTANTS
  Threads = 2
  ChunkCounts = {0, 2}
  MaxRequests = 2
  Sessions = {1, 2, 3}
  PartCounts = {2, 3}
  MaxPeers = 2
  MaxIncoming = 2
INVARIANTS
  ServerTypeOK
  BroadcastOnce
  TypeOfItsMessage
PROPERTIES
  ImplementsPublishing
  EveryPeerAccepted
  EveryRequestPublished
CHECK_DEADLOCK FALSE

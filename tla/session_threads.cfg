SPECIFICATION SessionSpec
CONSTANTS
  ChunkSize = 2
  Payloads = {0, 3}
  Junk = {5}
  U64 = 5
  Memory = 4
  MaxMessages = 3
  Threads = 2
  Requests = {"whole", "noKey"}
  PeerOpcodes = {0, 1, 8, 10}
  Unmasked = {FALSE}
  ControlSizes = {0}
  CloseCodes = {1000}
  MaxWrites = 1
INVARIANTS
  EveryMessageOnce
  FewAhead
PROPERTIES
  DataPathIsGather
  ImplementsLifecycle
  PostedIsDelivered
CHECK_DEADLOCK FALSE

SPECIFICATION SessionSpec
CONSTANTS
  ChunkSize = 2
  Payloads = {0, 3}
  Junk = {5}
  U64 = 16
  Memory = 4
  MaxMessages = 2
  Threads = 1
  Requests = {"whole", "noKey", "noEnd"}
  PeerOpcodes = {0, 1, 2, 3, 8, 9, 10}
  Unmasked = {FALSE}
  ControlSizes = {0, 5, 126}
  CloseCodes = {1000, 1005}
  MaxWrites = 1
INVARIANT EveryMessageKeepsType
CHECK_DEADLOCK FALSE

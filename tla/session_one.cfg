SPECIFICATION SessionSpec
CONSTANTS
  ChunkSize = 2
  Payloads = {0, 3}
  Junk = {5}
  U64 = 5
  Memory = 4
  MaxMessages = 2
  Threads = 1
  Requests = {"whole", "noKey", "noEnd"}
  PeerOpcodes = {0, 1, 2, 3, 8, 9, 10}
  Unmasked = {FALSE}
  ControlSizes = {0, 1, 2, 5, 126}
  CloseCodes = {1000, 1005, 2999, 4999, 5000}
  MaxWrites = 1
INVARIANTS
  SessionTypeOK
  OneLoop
  WholeKeepsType
  ReadsWhatIsDue
CHECK_DEADLOCK FALSE

SPECIFICATION GatherSafety
CONSTANTS
  ChunkSize = 3
  Payloads = {0, 1, 2, 3, 4, 7, 15}
  U64 = 16
  Junk = {0, 5}
  Memory = 12
  MaxMessages = 2
INVARIANTS
  GatherTypeOK
  ReadsStayInLastChunk
  ReadsStayInFrame
  MaskFollowsFrame
  NeverGrowsClosed
PROPERTIES
  ImplementsReassembly
  FrameAdvances
CHECK_DEADLOCK FALSE

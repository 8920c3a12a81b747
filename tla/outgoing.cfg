SPECIFICATION OutgoingSpec
CONSTANTS
  Parts = 2
  MaxWrites = 2
INVARIANTS
  OutgoingTypeOK
  LoopWritesInTurn
  BuffersUntouched
PROPERTIES
  CloseEnds
CHECK_DEADLOCK FALSE

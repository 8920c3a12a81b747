SPECIFICATION Spec
CONSTANTS
  ReadSizes = {1, 2, 3, 4, 5, 7}
  MaxBytes = 260
  Accumulators = 65536
  SizeT = 65536
  Pad = 64
INVARIANTS
  HeaderReadsBack
  FillsTheReserve
  EachByteItsMask
  CharactersAreGroups
  AbortsOnlyForNothing
  DecodesBack
  AnswerIsPadded
CHECK_DEADLOCK FALSE

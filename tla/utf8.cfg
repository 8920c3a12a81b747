SPECIFICATION Utf8Spec
CONSTANT Bytes = {0, 127, 128, 143, 144, 159, 160, 176, 191, 192, 193, 194, 223, 224, 225, 236, 237, 238, 239, 240, 241, 243, 244, 245, 247, 248, 255}
INVARIANTS
  Utf8TypeOK
  ValidWhileExtendable
  CompleteAtCharacters
CHECK_DEADLOCK FALSE

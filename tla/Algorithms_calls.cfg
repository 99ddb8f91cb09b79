CONSTANTS
  NPairs = 4
  Bytes = {0, 77, 170, 255}
  NBytes = 4
  Words = {"a"}
  NBuckets = 2
  NRequests = 3
  Half = 32
SPECIFICATION Spec
INVARIANTS LengthOrShape WritesOwnCells RemainderOfQuotient ModuloIfProductFits Decodes OneSymbolPerName
CHECK_DEADLOCK FALSE

CONSTANTS
  BLOCK_SIZE = 4
  STRBUFFSIZE = 4
  Unset = {7}
  Data <- MCData
  Later <- MCLater
  MaxData = 2
  MaxDepth = 12
  Texts <- MCTexts
SPECIFICATION Spec
INVARIANTS TypeOK  CutIsNoticed NestingCounts
CHECK_DEADLOCK FALSE

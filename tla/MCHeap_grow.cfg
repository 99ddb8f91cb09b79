CONSTANTS
  SegSize = 1
  SegBase = {1, 3, 5}
  NSegment = 3
  FirstSegs = {5}
  MinYield = 2
  Regs = {r1}
  MaxVec = 1
  MaxLocal = 2
  Edited = {}
SPECIFICATION FairSpec
INVARIANTS FreeListExact HeapInv
PROPERTIES GivesUpLast EveryRequestAnswered

CONSTANTS
  SegSize = 3
  SegBase = {1}
  NSegment = 1
  FirstSegs = {1}
  MinYield = 1
  Regs = {r1}
  MaxVec = 1
  MaxLocal = 2
  Edited = {"car", "cdr"}
SPECIFICATION Spec
CONSTRAINT Bound
INVARIANTS TypeOK  RecentKeepsLocal VectorsIntact
PROPERTY ImplementsStore

CONSTANTS
  SegSize = 4
  SegBase = {1}
  NRoots = 2
  Layouts <- PairsAndVectors
SPECIFICATION FairSpec
INVARIANTS Recoverable EachVectorOnce
PROPERTIES ImplementsGc Terminates
CHECK_DEADLOCK FALSE

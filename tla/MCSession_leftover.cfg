CONSTANTS
  MAXFIL = 2
  MaxForms = 1
  MaxDump = 4
  MaxEvals = 2
SPECIFICATION Spec
INVARIANT ReturnsHere
CONSTRAINT Bound

CONSTANTS
  MAXFIL = 3
  MaxForms = 2
  MaxDump = 5
  MaxEvals = 3
SPECIFICATION Spec
INVARIANTS TypeOK  HandlersMatch CleanFinish LoadReadsAll LoadsMatch
CONSTRAINT BoundSound

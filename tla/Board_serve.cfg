CONSTANTS
  Client = {c1, c2}
  Main = Main
  BUFFER_SIZE = 1
  MaxBytes = 2
  max_rows = 1
  PointerSize = 1
  PageSize = 2
  MaxOpen = 1
SPECIFICATION FairSpec
INVARIANTS TypeOK RepliesOwn PageShowsTable 
PROPERTIES Answered 
CHECK_DEADLOCK FALSE

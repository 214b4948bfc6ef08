CONSTANTS
  Flows = {f1, f2}
  Fields = {"packets", "bytes"}
  NoFlow = NoFlow
  MaxEntries = 2
  Lru = TRUE
  Increments <- UnitSteps
  MaxCount = 1
  MaxInserts = 3
  MaxRestarts = 1
SPECIFICATION FairSpec
INVARIANTS
  TypeOK
  NoOverreport
PROPERTIES
  RowWithinInterval
  IntactDelta
  CatchesUp
CHECK_DEADLOCK FALSE

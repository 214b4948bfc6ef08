CONSTANTS
  Flows = {f1, f2, f3}
  Fields = {"packets"}
  NoFlow = NoFlow
  MaxEntries = 2
  Lru = TRUE
  Increments <- UnitSteps
  MaxCount = 1
  MaxInserts = 3
  MaxRestarts = 0
SPECIFICATION Spec
INVARIANTS
  DeltasOnly
CHECK_DEADLOCK FALSE

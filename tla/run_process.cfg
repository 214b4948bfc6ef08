SPECIFICATION FairSpec
CONSTANTS
  Options <- AllOptions
  MaxSignals = 2
  MaxFaults = 2
  MaxTaken = 3
CHECK_DEADLOCK FALSE
INVARIANTS
  TypeOK
  SuccessIsClean
  FailureCleansUpToo
  EarlierRowsAreDurable
  StoredOnce
PROPERTIES
  StopEndsRun

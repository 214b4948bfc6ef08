CONSTANTS
  Setups <- RootReceive
  MaxFaults = 0
  MaxStops = 1
SPECIFICATION FairSpec
PROPERTIES
  StopEndsLoader
CHECK_DEADLOCK FALSE

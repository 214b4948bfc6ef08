CONSTANTS
  Setups <- AllSetups
  MaxFaults = 2
  MaxStops = 2
SPECIFICATION FairSpec
INVARIANTS
  TypeOK
  NoSilentOrphan
PROPERTIES
  DeathIsNoticed
  DetachEnds
  UnreadLoaderEnds
CHECK_DEADLOCK FALSE

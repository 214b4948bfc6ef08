CONSTANTS
  Sockets = {s1}
  Pids = {p1, p2}
  Cgroups = {"u", "x"}
  Service <- Services
  NumCpus = 2
  Capacity = 1
  Target <- Targets
  Started <- Apart
  Endpoints = {"stream1", "stream2"}
  UdpEnds <- TwoEnds
  MaxOps = 3
  MaxEvents = 2
  MaxPolls = 3
SYMMETRY Alike
SPECIFICATION Spec
INVARIANTS
  TypeOK
  ReceivedOnce
  ReadsAreCounted
  UnitIsOfThisCheckpoint
  UnitIsTheCgroups
  MatchedByItsStream
CHECK_DEADLOCK FALSE

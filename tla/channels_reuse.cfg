CONSTANTS
  Sockets = {s1}
  Pids = {p1, p2}
  Cgroups = {"u", "v", "x"}
  Service <- Services
  NumCpus = 1
  Capacity = 2
  Target <- Targets
  Started <- Apart
  Endpoints = {"stream1", "stream2"}
  UdpEnds <- TwoEnds
  MaxOps = 3
  MaxEvents = 3
  MaxPolls = 2
SPECIFICATION Spec
INVARIANTS
  AttributedByCgroup
CHECK_DEADLOCK FALSE

CONSTANTS
  Sockets = {"s1", "s2", "s3"}
  Pids = {"p1", "p2"}
  Cpus = {c1, c2}
  Addresses = {a1, a2}
  Local <- Bound
  NsOf <- HostAndContainer
  Flows <- OneFlow
  ProcessNames = {"rec", "sh"}
  Running <- BothRec
  OpenedBy <- RecsSocket
  Filters = {"rec"}
  MaxCookies = 1
  MaxEntries = 2
  Ttl = 1
  MaxClock = 2
  MaxPackets = 3
  MaxEvents = 2
  MaxMoves = 4
  MaxPolls = 3
SYMMETRY Alike
SPECIFICATION Spec
INVARIANTS
  TypeOK
  OneCookiePerSocket
  NamesAHolder
  NoHolderMissed
  PerProcessOnce
CHECK_DEADLOCK FALSE

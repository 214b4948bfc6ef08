------------------------- MODULE MCDeliveredAttribution -------------------------
(* An instance of DeliveredAttribution: a socket on the group, one on the wildcard and  *)
(* one on the wildcard of IPv6, a process of the host and one of a container.           *)
EXTENDS DeliveredAttribution, TLC

Group == [ip |-> "239.0.0.1", port |-> 5004]
Bound == [s1 |-> Group, s2 |-> [ip |-> Wildcard, port |-> 5004],
          s3 |-> [ip |-> DualStack, port |-> 5004]]
HostAndContainer == [p1 |-> "host", p2 |-> "container"]
BothRec == [p1 |-> "rec", p2 |-> "rec"]
RecsSocket == [s1 |-> "p1", s2 |-> "none", s3 |-> "none"]
OneFlow == {Group}
Alike == Permutations(Cpus) \cup Permutations(Addresses)
=================================================================================

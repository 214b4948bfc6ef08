----------------------------- MODULE MCChannelFlows -----------------------------
(* An instance of ChannelFlows: cgroups of two units and one outside any service, a     *)
(* stream of each unit, and two processes.                                              *)
EXTENDS ChannelFlows, TLC

Services == [u |-> "u.service", v |-> "v.service", x |-> ""]
Targets == ("u.service" :> "stream1") @@ ("v.service" :> "stream2")

\* Bound to a group; bound to the wildcard and connected.
TwoEnds == {<<"stream1", None>>, <<Wildcard, "stream2">>}

\* One process in each of two cgroups.
Apart == {f \in [Pids -> Cgroups] : IsInjective(f)}

Alike == Permutations(Pids)
=================================================================================

------------------------------ MODULE TrafficMeter ------------------------------
(* What the analyzer promises its reader, whatever happens inside: traffic is    *)
(* counted, rows are written, and the rows of a flow never add up to more than   *)
(* the traffic that was counted for it.  Rows may lag, and traffic may never be  *)
(* reported; nothing is reported twice and no row is taken back.                 *)
(*                                                                               *)
(* CheckpointCollector implements this specification when its map does not       *)
(* evict (the UDP ingress and delivered maps of the BPF programs).               *)
EXTENDS Naturals

CONSTANTS Flows,    \* flow identities: UdpMapKey.identity(), TcpFlowKey.identity()
          Fields    \* counter fields: packets and bytes, tx_bytes, rx_calls, ...

VARIABLES counted,  \* counted[f][x]: everything the kernel side counted
          reported  \* reported[f][x]: the sum of field x over all rows of f

meterVars == <<counted, reported>>

Counters == [Fields -> Nat]
Zero == [x \in Fields |-> 0]

\* a <= b in every field.
AtMost(a, b) == \A x \in Fields : a[x] <= b[x]

Init ==
  /\ counted  = [f \in Flows |-> Zero]
  /\ reported = [f \in Flows |-> Zero]

\* Traffic of some flows is counted.
Count ==
  /\ counted' \in [Flows -> Counters]
  /\ \A f \in Flows : AtMost(counted[f], counted'[f])
  /\ UNCHANGED reported

\* A checkpoint writes rows: each flow's sum grows, and stays within its traffic.
Report ==
  /\ reported' \in [Flows -> Counters]
  /\ \A f \in Flows : AtMost(reported[f], reported'[f]) /\ AtMost(reported'[f], counted[f])
  /\ UNCHANGED counted

Next == Count \/ Report

Spec == Init /\ [][Next]_meterVars
=================================================================================

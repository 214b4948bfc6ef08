---------------------------- MODULE MCIngressProgram ----------------------------
(* Frames for small instances of IngressProgram.                                 *)
EXTENDS IngressProgram, TLC

CONSTANTS f1, f2, f3

\* An ordinary datagram whose headers the driver left out of the linear part.
Datagram(f) ==
  [len |-> 100, linear |-> 0, isIp |-> TRUE, isUdp |-> TRUE, ihl |-> 5, udpLen |-> 66,
   fragment |-> FALSE, flow |-> f]

\* The longest IPv4 header in the shortest frame that can be pulled.
WithOptions(f) == [Datagram(f) EXCEPT !.len = 82, !.ihl = 15, !.udpLen = 8]

\* A length field that is shorter than the header it belongs to.
BadLength(f) == [Datagram(f) EXCEPT !.udpLen = 3, !.linear = 100]

\* A DNS query for a short name: 29 bytes of payload.
Query(f) == [Datagram(f) EXCEPT !.len = 71, !.linear = 71, !.udpLen = 37]

\* A later fragment, and the short last fragment of a datagram.
Fragment(f)  == [Datagram(f) EXCEPT !.fragment = TRUE]
LastFragment(f) == [Fragment(f) EXCEPT !.len = 60, !.linear = 60]

Segment(f)   == [Datagram(f) EXCEPT !.isUdp = FALSE]
Arp(f)       == [Datagram(f) EXCEPT !.len = 42, !.linear = 42, !.isIp = FALSE]
NotIp(f)     == [Datagram(f) EXCEPT !.isIp = FALSE]
BadHeader(f) == [Datagram(f) EXCEPT !.ihl = 4]

\* Two flows, and one that only a fragment's payload seems to have.
MixedFrames ==
  {Datagram(f1), WithOptions(f2), BadLength(f1), Query(f1), Fragment(f3), LastFragment(f3),
   Segment(f1), Arp(f1), NotIp(f1), BadHeader(f1)}
=================================================================================

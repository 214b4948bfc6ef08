---------------------------- MODULE MCIngressPipeline ----------------------------
(* Frames for small instances of IngressPipeline.                                  *)
EXTENDS IngressPipeline, TLC

CONSTANTS f1, f2

\* Datagrams with the longest IPv4 header and one byte of payload.
OneByte(f) ==
  [len |-> 83, linear |-> 14, isIp |-> TRUE, isUdp |-> TRUE, ihl |-> 15, udpLen |-> 9,
   fragment |-> FALSE, flow |-> f]

TwoFlows == {OneByte(f1), OneByte(f2)}

CpuSymmetry == Permutations(Cpus)
=================================================================================

------------------------- MODULE MCCheckpointCollector -------------------------
(* Small instances of CheckpointCollector for TLC.                              *)
EXTENDS CheckpointCollector

\* The program adds to one field at a time: packets by one, bytes by the payload
\* (which may be empty: a UDP datagram of 8 bytes counts a packet and no byte).
UnitSteps == {[x \in Fields |-> IF x = y THEN 1 ELSE 0] : y \in Fields}
================================================================================

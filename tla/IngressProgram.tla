----------------------------- MODULE IngressProgram -----------------------------
(* The tc classifier udp_ingress, running on several CPUs at once: it checks an    *)
(* incoming frame, finds or creates the frame's entry in the PERCPU_HASH map       *)
(* udp_ingress_counters and adds to the slot of its own CPU.  Frames it does not   *)
(* count are tallied by reason in the PERCPU_ARRAY udp_ingress_drops.              *)
(*                                                                                 *)
(* The map operations of one run of the program interleave with those of the       *)
(* other CPUs; on its own CPU a run is never interrupted by another (softirq).     *)
EXTENDS Naturals, FiniteSets, Functions

CONSTANTS Cpus,
          Flows,      \* 5-tuple and interface: struct udp_key, its padding zeroed
          Frames,     \* the frames that may arrive
          MaxEntries, \* max_entries of udp_ingress_counters
          MaxFrames   \* bound: frames explored on each CPU

\* sizeof(struct ethhdr), sizeof(struct iphdr), sizeof(struct udphdr).
ETH == 14
IP  == 20
UDP == 8

\* UDP_HEADERS_BYTES: Ethernet, the longest IPv4 header and UDP.
UDP_HEADERS_BYTES == ETH + 60 + UDP

\* A frame: its length and how much of it the driver left in the linear part of the
\* buffer, whether it is IPv4 and UDP, its ihl and udp->len fields, whether it is a
\* later fragment (its "UDP header" is then payload), and the key read from it.
FrameOK(fr) ==
  /\ fr.len \in Nat /\ fr.linear \in 0 .. fr.len
  /\ fr.isIp \in BOOLEAN /\ fr.isUdp \in BOOLEAN /\ fr.fragment \in BOOLEAN
  /\ fr.ihl \in 0 .. 15 /\ fr.udpLen \in Nat
  /\ fr.flow \in Flows

ASSUME ProgramAssumption ==
  /\ MaxEntries \in Nat
  /\ IsFiniteSet(Flows)
  /\ Frames # {}
  /\ \A fr \in Frames : FrameOK(fr)

Reasons == {"PULL_FAIL", "ETH_BOUNDS", "NOT_IP", "IP_BOUNDS", "NOT_UDP", "IHL_SHORT",
            "UDP_BOUNDS", "MAP_FULL"}

Kinds == {"datagram", "short", "fragment", "other"}

VARIABLES
  pc,       \* pc[c]: where CPU c's run of the program is
  frame,    \* frame[c]: the frame it handles
  entries,  \* keys of udp_ingress_counters
  slot,     \* slot[f][c]: CPU c's struct udp_counters in the entry of f
  drops,    \* drops[c][r]: udp_ingress_drops
  arrived   \* ghost, arrived[c][k]: frames of kind k that reached CPU c

programVars == <<pc, frame, entries, slot, drops, arrived>>

---------------------------------------------------------------------------------
(* The checks, in the code's order.                                               *)

\* Mutant: an off-by-one in the length the pull accepts.
PullFails_Longer(fr) == fr.len <= UDP_HEADERS_BYTES

\* bpf_skb_pull_data refuses to pull more bytes than the frame has.
PullFails(fr) == fr.len < UDP_HEADERS_BYTES

\* Mutant: the pointers are those from before the pull.
Linear_NotReread(fr) == fr.linear

\* The linear part, data .. data_end, after a pull that succeeded.
Linear(fr) == IF fr.linear > UDP_HEADERS_BYTES THEN fr.linear ELSE UDP_HEADERS_BYTES

Checks(fr) ==
  << <<"PULL_FAIL",  PullFails(fr)>>,
     <<"ETH_BOUNDS", ETH > Linear(fr)>>,
     <<"NOT_IP",     ~fr.isIp>>,
     <<"IP_BOUNDS",  ETH + IP > Linear(fr)>>,
     <<"NOT_UDP",    ~fr.isUdp>>,
     <<"IHL_SHORT",  fr.ihl * 4 < IP>>,
     <<"UDP_BOUNDS", ETH + fr.ihl * 4 + UDP > Linear(fr)>> >>

\* Check i is the first that fails.
StoppedBy(fr, i) == Checks(fr)[i][2] /\ \A j \in 1 .. i - 1 : ~Checks(fr)[j][2]

Passes(fr) == \A i \in 1 .. 7 : ~Checks(fr)[i][2]

\* Mutant: the length field is trusted.
Payload_Unchecked(fr) == fr.udpLen - UDP

\* payload_bytes: a length field below 8 counts no bytes.
Payload(fr) == IF fr.udpLen >= UDP THEN fr.udpLen - UDP ELSE 0

\* What really arrived: a UDP datagram (or its first fragment) of ordinary length, a
\* later fragment of such a length, either in a frame that is shorter than the prefix
\* the program pulls, something else.
Kind(fr) ==
  IF ~(fr.isIp /\ fr.isUdp /\ fr.ihl >= 5) THEN "other"
  ELSE IF fr.len < UDP_HEADERS_BYTES THEN "short"
  ELSE IF fr.fragment THEN "fragment" ELSE "datagram"

---------------------------------------------------------------------------------
(* One run of the program on CPU c.                                               *)

Goto(c, place) == pc' = [pc EXCEPT ![c] = place]

\* Mutant: a bare "return BPF_OK".
Drop_Silent(c, reason) == UNCHANGED drops

\* drop(): tally the reason on this CPU and let the frame pass.
Drop(c, reason) == drops' = [drops EXCEPT ![c][reason] = @ + 1]

\* A frame arrives; a check drops it or its key is looked up.
Arrive(c, fr) ==
  /\ pc[c] = "idle"
  /\ SumFunction(arrived[c]) < MaxFrames
  /\ frame' = [frame EXCEPT ![c] = fr]
  /\ arrived' = [arrived EXCEPT ![c][Kind(fr)] = @ + 1]
  /\ \/ Passes(fr) /\ Goto(c, "lookup") /\ UNCHANGED drops
     \/ \E i \in 1 .. 7 : StoppedBy(fr, i) /\ Drop(c, Checks(fr)[i][1]) /\ UNCHANGED pc
  /\ UNCHANGED <<entries, slot>>

\* bpf_map_lookup_elem, the first time.
Find(c) ==
  /\ pc[c] = "lookup"
  /\ Goto(c, IF frame[c].flow \in entries THEN "packets" ELSE "insert")
  /\ UNCHANGED <<frame, entries, slot, drops, arrived>>

\* Mutant: a failed update is taken for a full map, without a second lookup.
InsertZero_GiveUp(c) ==
  /\ pc[c] = "insert"
  /\ \/ /\ frame[c].flow \in entries \/ Cardinality(entries) >= MaxEntries
        /\ UNCHANGED entries /\ Goto(c, "idle") /\ Drop(c, "MAP_FULL")
     \/ /\ frame[c].flow \notin entries /\ Cardinality(entries) < MaxEntries
        /\ entries' = entries \cup {frame[c].flow}
        /\ Goto(c, "relookup") /\ UNCHANGED drops
  /\ UNCHANGED <<frame, slot, arrived>>

\* bpf_map_update_elem(..., BPF_NOEXIST): it fails when another CPU has inserted the
\* key in the meantime or when the map is full; the code ignores the result.
InsertZero(c) ==
  /\ pc[c] = "insert"
  /\ \/ /\ frame[c].flow \in entries \/ Cardinality(entries) >= MaxEntries
        /\ UNCHANGED entries
     \/ /\ frame[c].flow \notin entries /\ Cardinality(entries) < MaxEntries
        /\ entries' = entries \cup {frame[c].flow}
  /\ Goto(c, "relookup")
  /\ UNCHANGED <<frame, slot, drops, arrived>>

\* The second lookup decides: count, or drop as MAP_FULL.
FindAgain(c) ==
  /\ pc[c] = "relookup"
  /\ \/ frame[c].flow \in entries /\ Goto(c, "packets") /\ UNCHANGED drops
     \/ frame[c].flow \notin entries /\ Goto(c, "idle") /\ Drop(c, "MAP_FULL")
  /\ UNCHANGED <<frame, entries, slot, arrived>>

\* counters->packets += 1
AddPacket(c) ==
  /\ pc[c] = "packets"
  /\ slot' = [slot EXCEPT ![frame[c].flow][c].packets = @ + 1]
  /\ Goto(c, "bytes")
  /\ UNCHANGED <<frame, entries, drops, arrived>>

\* counters->bytes += payload_bytes
AddBytes(c) ==
  /\ pc[c] = "bytes"
  /\ slot' = [slot EXCEPT ![frame[c].flow][c].bytes = @ + Payload(frame[c])]
  /\ Goto(c, "idle")
  /\ UNCHANGED <<frame, entries, drops, arrived>>

ProgramInit ==
  /\ pc = [c \in Cpus |-> "idle"]
  /\ frame \in [Cpus -> {CHOOSE fr \in Frames : TRUE}]
  /\ entries = {}
  /\ slot = [f \in Flows |-> [c \in Cpus |-> [packets |-> 0, bytes |-> 0]]]
  /\ drops = [c \in Cpus |-> [r \in Reasons |-> 0]]
  /\ arrived = [c \in Cpus |-> [k \in Kinds |-> 0]]

Step(c) == Find(c) \/ InsertZero(c) \/ FindAgain(c) \/ AddPacket(c) \/ AddBytes(c)

ProgramNext == \E c \in Cpus : Step(c) \/ \E fr \in Frames : Arrive(c, fr)

ProgramSpec == ProgramInit /\ [][ProgramNext]_programVars

---------------------------------------------------------------------------------
(* Properties.                                                                    *)

\* Packets counted in CPU c's slots.
Packets(c) == SumFunction([f \in Flows |-> slot[f][c].packets])

\* Type correctness of the program's state.
ProgramTypeOK ==
  /\ pc \in [Cpus -> {"idle", "lookup", "insert", "relookup", "packets", "bytes"}]
  /\ frame \in [Cpus -> Frames]
  /\ entries \subseteq Flows
  /\ slot \in [Flows -> [Cpus -> [packets : Nat, bytes : Nat]]]
  /\ drops \in [Cpus -> [Reasons -> Nat]]
  /\ arrived \in [Cpus -> [Kinds -> Nat]]

\* No frame gets lost without a trace (udp_ingress.bpf.c:37-41): what reached a CPU
\* is counted, dropped for a reason, or on its way.
Conservation ==
  \A c \in Cpus :
    SumFunction(arrived[c]) =
      Packets(c) + SumFunction(drops[c])
        + IF pc[c] \in {"lookup", "insert", "relookup", "packets"} THEN 1 ELSE 0

\* Nor is it counted for the wrong thing: the UDP datagrams and later fragments in
\* frames of at least 82 bytes, and nothing else, are in a packet counter or were
\* refused by a full map.
CountedExactly ==
  \A c \in Cpus :
    pc[c] = "idle" =>
      Packets(c) + drops[c]["MAP_FULL"] = arrived[c]["datagram"] + arrived[c]["fragment"]

\* After a successful pull the header bounds checks cannot fail, wherever the driver
\* left the headers and however long the IPv4 header is (udp_ingress.bpf.c:147-165).
HeadersAreLinear ==
  \A c \in Cpus : \A r \in {"ETH_BOUNDS", "IP_BOUNDS", "UDP_BOUNDS"} : drops[c][r] = 0

\* The map never exceeds its capacity, and a run that misses its key the second time
\* has found the map full: losing the race for the insertion drops nothing, and
\* DROP_MAP_FULL means what its name says (udp_ingress.bpf.c:50).
FullIsFull ==
  /\ Cardinality(entries) <= MaxEntries
  /\ \A c \in Cpus :
       /\ pc[c] = "relookup" /\ frame[c].flow \notin entries =>
            Cardinality(entries) = MaxEntries
       /\ drops[c]["MAP_FULL"] > 0 => Cardinality(entries) = MaxEntries

=================================================================================

------------------------- MODULE IngressPipelineProofs -------------------------
(* Proofs about IngressProgram, for every set of CPUs, frames and flows and every   *)
(* capacity of the map; and about IngressPipeline, which runs it: the pipeline      *)
(* implements CheckpointCollector, and what is proved of the collector therefore    *)
(* holds of rows that come from a torn dump of a per-CPU map.                       *)
EXTENDS IngressPipeline, SumFacts

---------------------------------------------------------------------------------
(* The program.                                                                    *)

\* A frame that some run handles is one that may arrive.
LEMMA FrameFacts ==
  ASSUME NEW fr \in Frames
  PROVE  /\ fr.flow \in Flows /\ Payload(fr) \in Nat /\ Kind(fr) \in Kinds
         /\ \A i \in 1 .. 7 : Checks(fr)[i][1] \in Reasons
<1>1. FrameOK(fr)
  BY ProgramAssumption
<1>2. fr.flow \in Flows /\ Payload(fr) \in Nat
  BY <1>1 DEF FrameOK, Payload, UDP
<1>3. Kind(fr) \in Kinds
  BY DEF Kind, Kinds
<1>4. \A i \in 1 .. 7 : Checks(fr)[i][1] \in Reasons
  BY DEF Checks, Reasons
<1> QED
  BY <1>2, <1>3, <1>4

\* Tallying a drop reason keeps the tallies numbers.
LEMMA DropType ==
  ASSUME drops \in [Cpus -> [Reasons -> Nat]], NEW c \in Cpus, NEW r \in Reasons, Drop(c, r)
  PROVE  drops' \in [Cpus -> [Reasons -> Nat]]
<1>1. drops' = [drops EXCEPT ![c][r] = @ + 1]
  BY DEF Drop
<1> QED
  BY <1>1

\* Adding to one field of a slot keeps the slots records of numbers.
LEMMA SlotType ==
  ASSUME slot \in [Flows -> [Cpus -> [packets : Nat, bytes : Nat]]],
         NEW f \in Flows, NEW c \in Cpus, NEW n \in Nat
  PROVE  /\ [slot EXCEPT ![f][c].packets = @ + n]
              \in [Flows -> [Cpus -> [packets : Nat, bytes : Nat]]]
         /\ [slot EXCEPT ![f][c].bytes = @ + n]
              \in [Flows -> [Cpus -> [packets : Nat, bytes : Nat]]]
<1> DEFINE Slots == [packets : Nat, bytes : Nat]
           s == slot[f][c]
<1>1. s \in Slots /\ s.packets \in Nat /\ s.bytes \in Nat
  OBVIOUS
<1>2. [s EXCEPT !.packets = @ + n] \in Slots /\ [s EXCEPT !.bytes = @ + n] \in Slots
  BY <1>1
<1>3. \A t \in Slots : [slot EXCEPT ![f] = [slot[f] EXCEPT ![c] = t]] \in [Flows -> [Cpus -> Slots]]
  OBVIOUS
<1>4. /\ [slot EXCEPT ![f][c].packets = @ + n]
           = [slot EXCEPT ![f] = [slot[f] EXCEPT ![c] = [s EXCEPT !.packets = @ + n]]]
      /\ [slot EXCEPT ![f][c].bytes = @ + n]
           = [slot EXCEPT ![f] = [slot[f] EXCEPT ![c] = [s EXCEPT !.bytes = @ + n]]]
  OBVIOUS
<1> QED
  BY <1>2, <1>3, <1>4

\* Type correctness of the program's state.
THEOREM ProgramTypeCorrect == ProgramSpec => []ProgramTypeOK
<1>1. ProgramInit => ProgramTypeOK
  <2> SUFFICES ASSUME ProgramInit PROVE ProgramTypeOK
    OBVIOUS
  <2>1. (CHOOSE fr \in Frames : TRUE) \in Frames
    BY ProgramAssumption
  <2> QED
    BY <2>1 DEF ProgramInit, ProgramTypeOK
<1>2. ProgramTypeOK /\ [ProgramNext]_programVars => ProgramTypeOK'
  <2> SUFFICES ASSUME ProgramTypeOK, [ProgramNext]_programVars PROVE ProgramTypeOK'
    OBVIOUS
  <2> USE DEF ProgramTypeOK, Goto
  <2>1. ASSUME NEW c \in Cpus, NEW fr \in Frames, Arrive(c, fr) PROVE ProgramTypeOK'
    <3>1. arrived' \in [Cpus -> [Kinds -> Nat]] /\ frame' \in [Cpus -> Frames]
      <4>1. Kind(fr) \in Kinds
        BY FrameFacts
      <4>2. arrived' = [arrived EXCEPT ![c][Kind(fr)] = @ + 1]
        BY <2>1 DEF Arrive
      <4>3. frame' = [frame EXCEPT ![c] = fr]
        BY <2>1 DEF Arrive
      <4> QED
        BY <4>1, <4>2, <4>3
    <3>2. /\ drops' \in [Cpus -> [Reasons -> Nat]]
          /\ pc' \in [Cpus -> {"idle", "lookup", "insert", "relookup", "packets", "bytes"}]
      <4>1. CASE Passes(fr) /\ Goto(c, "lookup") /\ UNCHANGED drops
        BY <4>1
      <4>2. ASSUME NEW i \in 1 .. 7, Drop(c, Checks(fr)[i][1]), UNCHANGED pc
            PROVE  drops' \in [Cpus -> [Reasons -> Nat]] /\ pc' = pc
        BY <4>2, FrameFacts, DropType
      <4> QED
        BY <2>1, <4>1, <4>2 DEF Arrive
    <3> QED
      BY <2>1, <3>1, <3>2 DEF Arrive
  <2>2. ASSUME NEW c \in Cpus, Find(c) PROVE ProgramTypeOK'
    BY <2>2 DEF Find
  <2>3. ASSUME NEW c \in Cpus, InsertZero(c) PROVE ProgramTypeOK'
    <3>1. frame[c].flow \in Flows
      BY FrameFacts
    <3> QED
      BY <2>3, <3>1 DEF InsertZero
  <2>4. ASSUME NEW c \in Cpus, FindAgain(c) PROVE ProgramTypeOK'
    <3>1. "MAP_FULL" \in Reasons
      BY DEF Reasons
    <3>2. drops' \in [Cpus -> [Reasons -> Nat]]
      BY <2>4, <3>1, DropType DEF FindAgain
    <3> QED
      BY <2>4, <3>2 DEF FindAgain
  <2>5. ASSUME NEW c \in Cpus, AddPacket(c) PROVE ProgramTypeOK'
    <3>1. frame[c].flow \in Flows /\ Payload(frame[c]) \in Nat
      BY FrameFacts
    <3>2. slot' \in [Flows -> [Cpus -> [packets : Nat, bytes : Nat]]]
      BY <2>5, <3>1, SlotType DEF AddPacket
    <3> QED
      BY <2>5, <3>2 DEF AddPacket
  <2>6. ASSUME NEW c \in Cpus, AddBytes(c) PROVE ProgramTypeOK'
    <3>1. frame[c].flow \in Flows /\ Payload(frame[c]) \in Nat
      BY FrameFacts
    <3>2. slot' \in [Flows -> [Cpus -> [packets : Nat, bytes : Nat]]]
      BY <2>6, <3>1, SlotType DEF AddBytes
    <3> QED
      BY <2>6, <3>2 DEF AddBytes
  <2>7. CASE UNCHANGED programVars
    BY <2>7 DEF programVars
  <2> QED
    BY <2>1, <2>2, <2>3, <2>4, <2>5, <2>6, <2>7 DEF ProgramNext, Step
<1> QED
  BY <1>1, <1>2, PTL DEF ProgramSpec

\* After the pull no header bounds check can be the first to fail: the prefix holds
\* the longest IPv4 header the 4-bit ihl field can announce, and a UDP header.
LEMMA BoundsChecksPass ==
  ASSUME NEW fr \in Frames, NEW i \in 1 .. 7, StoppedBy(fr, i)
  PROVE  Checks(fr)[i][1] \notin {"ETH_BOUNDS", "IP_BOUNDS", "UDP_BOUNDS"}
<1>1. fr.ihl \in 0 .. 15 /\ fr.linear \in Nat
  BY ProgramAssumption DEF FrameOK
<1>2. Linear(fr) \in Nat /\ Linear(fr) >= 82
  BY <1>1 DEF Linear, UDP_HEADERS_BYTES, ETH, UDP
<1>3. ETH <= Linear(fr) /\ ETH + IP <= Linear(fr) /\ ETH + fr.ihl * 4 + UDP <= Linear(fr)
  BY <1>1, <1>2 DEF ETH, IP, UDP
<1>4. ~Checks(fr)[2][2] /\ ~Checks(fr)[4][2] /\ ~Checks(fr)[7][2]
  <2>1. ~(ETH > Linear(fr)) /\ ~(ETH + IP > Linear(fr)) /\ ~(ETH + fr.ihl * 4 + UDP > Linear(fr))
    BY <1>1, <1>2, <1>3 DEF ETH, IP, UDP
  <2> QED
    BY <2>1 DEF Checks
<1>5. i \in {1, 3, 5, 6}
  BY <1>4 DEF StoppedBy
<1> QED
  BY <1>5 DEF Checks

\* The drop counters of the header bounds checks stay zero, for every frame.
THEOREM HeadersStayLinear == ProgramSpec => []HeadersAreLinear
<1>1. ProgramInit => HeadersAreLinear
  BY DEF ProgramInit, HeadersAreLinear, Reasons
<1>2. ProgramTypeOK /\ HeadersAreLinear /\ [ProgramNext]_programVars => HeadersAreLinear'
  <2> SUFFICES ASSUME ProgramTypeOK, HeadersAreLinear, [ProgramNext]_programVars,
                      NEW d \in Cpus, NEW r \in {"ETH_BOUNDS", "IP_BOUNDS", "UDP_BOUNDS"}
               PROVE  drops'[d][r] = drops[d][r]
    BY DEF HeadersAreLinear
  <2>1. ASSUME NEW c \in Cpus, NEW fr \in Frames, Arrive(c, fr)
        PROVE  drops'[d][r] = drops[d][r]
    <3>1. ASSUME NEW i \in 1 .. 7, StoppedBy(fr, i), Drop(c, Checks(fr)[i][1])
          PROVE  drops'[d][r] = drops[d][r]
      <4>1. Checks(fr)[i][1] # r
        BY <3>1, BoundsChecksPass
      <4>2. drops' = [drops EXCEPT ![c][Checks(fr)[i][1]] = @ + 1]
        BY <3>1 DEF Drop
      <4> QED
        BY <4>1, <4>2 DEF ProgramTypeOK, Reasons
    <3> QED
      BY <2>1, <3>1 DEF Arrive
  <2>2. ASSUME NEW c \in Cpus, FindAgain(c) PROVE drops'[d][r] = drops[d][r]
    <3>1. ASSUME Drop(c, "MAP_FULL") PROVE drops'[d][r] = drops[d][r]
      <4>1. r # "MAP_FULL" /\ drops' = [drops EXCEPT ![c]["MAP_FULL"] = @ + 1]
        BY <3>1 DEF Drop
      <4> QED
        BY <4>1 DEF ProgramTypeOK
    <3> QED
      BY <2>2, <3>1 DEF FindAgain
  <2>3. ASSUME UNCHANGED drops PROVE drops'[d][r] = drops[d][r]
    BY <2>3
  <2> QED
    BY <2>1, <2>2, <2>3
       DEF ProgramNext, Step, Find, InsertZero, AddPacket, AddBytes, programVars
<1> QED
  BY <1>1, <1>2, ProgramTypeCorrect, PTL DEF ProgramSpec

\* The map stays within its capacity, and only a full map makes the program drop a
\* frame as MAP_FULL, however the CPUs race for the last entry.
THEOREM FullMeansFull == ProgramSpec => []FullIsFull
<1>1. ProgramInit => FullIsFull
  BY FS_EmptySet, ProgramAssumption DEF ProgramInit, FullIsFull, Reasons
<1>2. ProgramTypeOK /\ FullIsFull /\ [ProgramNext]_programVars => FullIsFull'
  <2> SUFFICES ASSUME ProgramTypeOK, FullIsFull, [ProgramNext]_programVars
               PROVE  FullIsFull'
    OBVIOUS
  <2> USE DEF ProgramTypeOK, FullIsFull, Goto
  <2>0. IsFiniteSet(entries) /\ Cardinality(entries) \in Nat
    BY ProgramAssumption, FS_Subset, FS_CardinalityType
  <2>1. ASSUME NEW c \in Cpus, NEW fr \in Frames, Arrive(c, fr) PROVE FullIsFull'
    <3>1. \A i \in 1 .. 7 : Checks(fr)[i][1] # "MAP_FULL"
      BY DEF Checks
    <3>2. \A d \in Cpus : drops'[d]["MAP_FULL"] = drops[d]["MAP_FULL"]
      BY <2>1, <3>1 DEF Arrive, Drop, Reasons
    <3>3. \A d \in Cpus :
            pc'[d] = "relookup" => pc[d] = "relookup" /\ frame'[d] = frame[d]
      BY <2>1 DEF Arrive
    <3> QED
      BY <2>1, <3>2, <3>3 DEF Arrive
  <2>2. ASSUME NEW c \in Cpus, Find(c) PROVE FullIsFull'
    BY <2>2 DEF Find
  <2>3. ASSUME NEW c \in Cpus, InsertZero(c) PROVE FullIsFull'
    <3>1. CASE UNCHANGED entries
      <4>1. frame[c].flow \notin entries => Cardinality(entries) = MaxEntries
        <5>1. frame[c].flow \notin entries => Cardinality(entries) >= MaxEntries
          BY <2>3, <3>1 DEF InsertZero
        <5>2. \A m, n \in Nat : m <= n /\ m >= n => m = n
          OBVIOUS
        <5>3. Cardinality(entries) \in Nat /\ MaxEntries \in Nat
          BY <2>0, ProgramAssumption
        <5>4. Cardinality(entries) <= MaxEntries
          OBVIOUS
        <5> QED
          BY <5>1, <5>2, <5>3, <5>4
      <4> QED
        BY <2>3, <3>1, <4>1 DEF InsertZero
    <3>2. CASE entries' # entries
      <4>1. /\ entries' = entries \cup {frame[c].flow} /\ frame[c].flow \notin entries
            /\ Cardinality(entries) < MaxEntries
        BY <2>3, <3>2 DEF InsertZero
      <4>2. Cardinality(entries') = Cardinality(entries) + 1
        BY <2>0, <4>1, FS_AddElement
      <4>3. Cardinality(entries) # MaxEntries
        BY <2>0, <4>1, ProgramAssumption
      <4>4. \A d \in Cpus : ~(drops[d]["MAP_FULL"] > 0)
        BY <4>3
      <4>5. \A d \in Cpus : pc[d] = "relookup" => frame[d].flow \in entries
        BY <4>3
      <4> QED
        BY <2>0, <2>3, <4>1, <4>2, <4>4, <4>5, ProgramAssumption DEF InsertZero
    <3> QED
      BY <3>1, <3>2
  <2>4. ASSUME NEW c \in Cpus, FindAgain(c) PROVE FullIsFull'
    BY <2>4 DEF FindAgain, Drop, Reasons
  <2>5. ASSUME NEW c \in Cpus, AddPacket(c) PROVE FullIsFull'
    BY <2>5 DEF AddPacket
  <2>6. ASSUME NEW c \in Cpus, AddBytes(c) PROVE FullIsFull'
    BY <2>6 DEF AddBytes
  <2>7. CASE UNCHANGED programVars
    BY <2>7 DEF programVars
  <2> QED
    BY <2>1, <2>2, <2>3, <2>4, <2>5, <2>6, <2>7 DEF ProgramNext, Step
<1> QED
  BY <1>1, <1>2, ProgramTypeCorrect, PTL DEF ProgramSpec

---------------------------------------------------------------------------------
(* Accounting: sums over frame kinds, drop reasons and flows.                     *)

\* The kinds, the reasons and the flows are finitely many.
LEMMA FiniteSums ==
  IsFiniteSet(Kinds) /\ IsFiniteSet(Reasons) /\ IsFiniteSet(Flows)
<1>1. \A S, x : IsFiniteSet(S) => IsFiniteSet(S \cup {x})
  BY FS_AddElement
<1>2. Kinds = {} \cup {"datagram"} \cup {"short"} \cup {"fragment"} \cup {"other"}
  BY DEF Kinds
<1>3. Reasons = {} \cup {"PULL_FAIL"} \cup {"ETH_BOUNDS"} \cup {"NOT_IP"} \cup {"IP_BOUNDS"}
                   \cup {"NOT_UDP"} \cup {"IHL_SHORT"} \cup {"UDP_BOUNDS"} \cup {"MAP_FULL"}
  BY DEF Reasons
<1>4. IsFiniteSet({})
  BY FS_EmptySet
<1> HIDE DEF Kinds, Reasons
<1>5. IsFiniteSet(Kinds)
  BY <1>1, <1>2, <1>4
<1>6. IsFiniteSet(Reasons)
  <2>1. IsFiniteSet({} \cup {"PULL_FAIL"} \cup {"ETH_BOUNDS"} \cup {"NOT_IP"} \cup {"IP_BOUNDS"})
    BY <1>1, <1>4
  <2> QED
    BY <1>1, <1>3, <2>1
<1> QED
  BY <1>5, <1>6, ProgramAssumption

\* The sums are numbers.
LEMMA SumsType ==
  ASSUME ProgramTypeOK, NEW c \in Cpus
  PROVE  /\ SumFunction(arrived[c]) \in Nat /\ SumFunction(drops[c]) \in Nat
         /\ Packets(c) \in Nat
<1>1. arrived[c] \in [Kinds -> Nat] /\ drops[c] \in [Reasons -> Nat]
  BY DEF ProgramTypeOK
<1>2. [f \in Flows |-> slot[f][c].packets] \in [Flows -> Nat]
  BY DEF ProgramTypeOK
<1> QED
  BY <1>1, <1>2, FiniteSums, SumOfFunction DEF Packets

\* Whether CPU c's run has accepted a frame that it has not counted yet.
Accepted(c) == IF pc[c] \in {"lookup", "insert", "relookup", "packets"} THEN 1 ELSE 0

\* A drop adds one to the reason's tally and to their sum.
LEMMA DropCounts ==
  ASSUME ProgramTypeOK, NEW c \in Cpus, NEW r \in Reasons, Drop(c, r)
  PROVE  /\ SumFunction(drops'[c]) = SumFunction(drops[c]) + 1
         /\ drops'[c][r] = drops[c][r] + 1
         /\ \A s \in Reasons \ {r} : drops'[c][s] = drops[c][s]
         /\ \A d \in Cpus \ {c} : drops'[d] = drops[d]
<1>1. drops \in [Cpus -> [Reasons -> Nat]] /\ drops' = [drops EXCEPT ![c][r] = @ + 1]
  BY DEF ProgramTypeOK, Drop
<1>2. drops[c] \in [Reasons -> Nat] /\ drops'[c] \in [Reasons -> Nat]
  BY <1>1
<1>3. drops'[c][r] = drops[c][r] + 1 /\ \A s \in Reasons \ {r} : drops'[c][s] = drops[c][s]
  BY <1>1
<1>4. SumFunction(drops'[c]) = SumFunction(drops[c]) + 1
  <2> DEFINE f == drops[c]
             g == drops'[c]
  <2>1. f \in [Reasons -> Nat] /\ g \in [Reasons -> Nat]
    BY <1>2
  <2>2. g[r] = f[r] + 1 /\ \A y \in Reasons \ {r} : g[y] = f[y]
    BY <1>3
  <2> HIDE DEF f, g
  <2>3. SumFunction(g) = SumFunction(f) + 1
    BY <2>1, <2>2, FiniteSums, SumGrows
  <2> QED
    BY <2>3 DEF f, g
<1> QED
  BY <1>1, <1>3, <1>4

\* An arrival adds one to the kind's tally and to their sum.
LEMMA ArrivalCounts ==
  ASSUME ProgramTypeOK, NEW c \in Cpus, NEW k \in Kinds,
         arrived' = [arrived EXCEPT ![c][k] = @ + 1]
  PROVE  /\ SumFunction(arrived'[c]) = SumFunction(arrived[c]) + 1
         /\ arrived'[c][k] = arrived[c][k] + 1
         /\ \A j \in Kinds \ {k} : arrived'[c][j] = arrived[c][j]
         /\ \A d \in Cpus \ {c} : arrived'[d] = arrived[d]
<1>1. arrived \in [Cpus -> [Kinds -> Nat]]
  BY DEF ProgramTypeOK
<1>2. arrived[c] \in [Kinds -> Nat] /\ arrived'[c] \in [Kinds -> Nat]
  BY <1>1
<1>3. arrived'[c][k] = arrived[c][k] + 1 /\ \A j \in Kinds \ {k} : arrived'[c][j] = arrived[c][j]
  BY <1>1
<1>4. SumFunction(arrived'[c]) = SumFunction(arrived[c]) + 1
  <2> DEFINE f == arrived[c]
             g == arrived'[c]
  <2>1. f \in [Kinds -> Nat] /\ g \in [Kinds -> Nat]
    BY <1>2
  <2>2. g[k] = f[k] + 1 /\ \A y \in Kinds \ {k} : g[y] = f[y]
    BY <1>3
  <2> HIDE DEF f, g
  <2>3. SumFunction(g) = SumFunction(f) + 1
    BY <2>1, <2>2, FiniteSums, SumGrows
  <2> QED
    BY <2>3 DEF f, g
<1> QED
  BY <1>1, <1>3, <1>4

\* Counting a frame adds one to the packets of its CPU's slots.
LEMMA PacketCounts ==
  ASSUME ProgramTypeOK, NEW c \in Cpus, AddPacket(c)
  PROVE  Packets(c)' = Packets(c) + 1 /\ \A d \in Cpus \ {c} : Packets(d)' = Packets(d)
<1> DEFINE fl == frame[c].flow
<1>1. fl \in Flows
  BY FrameFacts DEF ProgramTypeOK
<1>2. slot' = [slot EXCEPT ![fl][c].packets = @ + 1]
  BY DEF AddPacket
<1>3. \A f \in Flows : \A d \in Cpus : slot[f][d].packets \in Nat
  BY DEF ProgramTypeOK
<1> HIDE DEF fl
<1>4. \A f \in Flows : \A d \in Cpus :
        slot'[f][d].packets =
          IF f = fl /\ d = c THEN slot[f][d].packets + 1 ELSE slot[f][d].packets
  BY <1>1, <1>2 DEF ProgramTypeOK
<1>5. ASSUME NEW d \in Cpus
      PROVE  SumFunction([f \in Flows |-> slot'[f][d].packets]) =
               SumFunction([f \in Flows |-> slot[f][d].packets]) + IF d = c THEN 1 ELSE 0
  <2> DEFINE p == [f \in Flows |-> slot[f][d].packets]
             q == [f \in Flows |-> slot'[f][d].packets]
  <2>1. CASE d = c
    <3>1. p \in [Flows -> Nat] /\ q \in [Flows -> Nat]
      BY <1>3, <1>4
    <3>2. q[fl] = p[fl] + 1 /\ \A y \in Flows \ {fl} : q[y] = p[y]
      BY <1>1, <1>4, <2>1
    <3> HIDE DEF p, q
    <3>3. SumFunction(q) = SumFunction(p) + 1
      BY <1>1, <3>1, <3>2, FiniteSums, SumGrows
    <3> QED
      BY <2>1, <3>3 DEF p, q
  <2>2. CASE d # c
    <3>1. q = p
      BY <1>4, <2>2
    <3>2. p \in [Flows -> Nat]
      BY <1>3
    <3>3. SumFunction(p) \in Nat
      <4> HIDE DEF p
      <4> QED
        BY <3>2, FiniteSums, SumOfFunction
    <3> QED
      BY <2>2, <3>1, <3>3
  <2> QED
    BY <2>1, <2>2
<1>6. \A d \in Cpus : Packets(d) \in Nat
  BY SumsType
<1>7. \A d \in Cpus : Packets(d)' = Packets(d) + IF d = c THEN 1 ELSE 0
  BY <1>5 DEF Packets
<1> QED
  BY <1>6, <1>7

\* The checks that stop a frame are exactly those that make it no datagram and no
\* fragment of ordinary length, and none of them is a full map.
LEMMA ChecksDecideKind ==
  ASSUME NEW fr \in Frames
  PROVE  /\ Passes(fr) => Kind(fr) \in {"datagram", "fragment"}
         /\ \A i \in 1 .. 7 : StoppedBy(fr, i) =>
              Kind(fr) \notin {"datagram", "fragment"} /\ Checks(fr)[i][1] # "MAP_FULL"
<1>1. fr.ihl \in 0 .. 15 /\ fr.len \in Nat /\ fr.linear \in Nat
  BY ProgramAssumption DEF FrameOK
<1>2. fr.ihl * 4 < IP <=> ~(fr.ihl >= 5)
  BY <1>1 DEF IP
<1>3. Passes(fr) => Kind(fr) \in {"datagram", "fragment"}
  <2> SUFFICES ASSUME Passes(fr) PROVE Kind(fr) \in {"datagram", "fragment"}
    OBVIOUS
  <2>1. ~PullFails(fr) /\ fr.isIp /\ fr.isUdp /\ ~(fr.ihl * 4 < IP)
    <3>1. ~Checks(fr)[1][2] /\ ~Checks(fr)[3][2] /\ ~Checks(fr)[5][2] /\ ~Checks(fr)[6][2]
      BY DEF Passes
    <3> QED
      BY <3>1 DEF Checks
  <2> QED
    BY <1>1, <1>2, <2>1 DEF Kind, PullFails
<1>4. ASSUME NEW i \in 1 .. 7, StoppedBy(fr, i)
      PROVE  Kind(fr) \notin {"datagram", "fragment"}
  <2>1. i \in {1, 3, 5, 6}
    <3>1. Checks(fr)[i][1] \notin {"ETH_BOUNDS", "IP_BOUNDS", "UDP_BOUNDS"}
      BY <1>4, BoundsChecksPass
    <3> QED
      BY <3>1 DEF Checks
  <2>2. Checks(fr)[i][2]
    BY <1>4 DEF StoppedBy
  <2>3. PullFails(fr) \/ ~fr.isIp \/ ~fr.isUdp \/ fr.ihl * 4 < IP
    <3>1. CASE i = 1
      BY <2>2, <3>1 DEF Checks
    <3>2. CASE i = 3
      BY <2>2, <3>2 DEF Checks
    <3>3. CASE i = 5
      BY <2>2, <3>3 DEF Checks
    <3>4. CASE i = 6
      BY <2>2, <3>4 DEF Checks
    <3> QED
      BY <2>1, <3>1, <3>2, <3>3, <3>4
  <2> QED
    BY <1>1, <1>2, <2>3 DEF Kind, PullFails
<1>5. \A i \in 1 .. 7 : Checks(fr)[i][1] # "MAP_FULL"
  BY DEF Checks
<1> QED
  BY <1>3, <1>4, <1>5

\* The accounts of one CPU.
Balance(c) ==
  /\ SumFunction(arrived[c]) = Packets(c) + SumFunction(drops[c]) + Accepted(c)
  /\ Packets(c) + drops[c]["MAP_FULL"] + Accepted(c) =
       arrived[c]["datagram"] + arrived[c]["fragment"]

\* What a step leaves of a CPU's accounts alone keeps them in balance.
LEMMA BalanceFrame ==
  ASSUME NEW d \in Cpus, Balance(d), arrived'[d] = arrived[d], drops'[d] = drops[d],
         Packets(d)' = Packets(d), Accepted(d)' = Accepted(d)
  PROVE  Balance(d)'
BY DEF Balance

\* Every step keeps the accounts of every CPU in balance.
LEMMA BalanceStep ==
  ASSUME ProgramTypeOK, [ProgramNext]_programVars, NEW d \in Cpus, Balance(d)
  PROVE  Balance(d)'
<1>0. /\ SumFunction(arrived[d]) \in Nat /\ SumFunction(drops[d]) \in Nat /\ Packets(d) \in Nat
      /\ Accepted(d) \in Nat /\ drops[d]["MAP_FULL"] \in Nat
      /\ arrived[d]["datagram"] \in Nat /\ arrived[d]["fragment"] \in Nat
  BY SumsType DEF ProgramTypeOK, Accepted, Kinds, Reasons
<1>00. UNCHANGED slot => Packets(d)' = Packets(d)
  BY DEF Packets
<1>1. ASSUME NEW c \in Cpus, NEW fr \in Frames, Arrive(c, fr) PROVE Balance(d)'
  <2>1. /\ pc[c] = "idle" /\ arrived' = [arrived EXCEPT ![c][Kind(fr)] = @ + 1]
        /\ UNCHANGED slot
    BY <1>1 DEF Arrive
  <2>2. Kind(fr) \in Kinds
    BY FrameFacts
  <2>3. CASE d # c
    <3>1. arrived'[d] = arrived[d]
      BY <2>1, <2>2, <2>3, ArrivalCounts
    <3>2. drops'[d] = drops[d] /\ pc'[d] = pc[d]
      BY <1>1, <2>3 DEF Arrive, Goto, Drop, ProgramTypeOK
    <3> QED
      BY <1>00, <2>1, <3>1, <3>2, BalanceFrame DEF Accepted
  <2>4. CASE d = c
    <3>1. /\ SumFunction(arrived'[d]) = SumFunction(arrived[d]) + 1
          /\ arrived'[d][Kind(fr)] = arrived[d][Kind(fr)] + 1
          /\ \A j \in Kinds \ {Kind(fr)} : arrived'[d][j] = arrived[d][j]
      BY <2>1, <2>2, <2>4, ArrivalCounts
    <3>2. Accepted(d) = 0
      BY <2>1, <2>4 DEF Accepted
    <3>3. CASE Passes(fr) /\ Goto(c, "lookup") /\ UNCHANGED drops
      <4>1. Accepted(d)' = 1 /\ UNCHANGED drops
        BY <2>4, <3>3 DEF Accepted, Goto, ProgramTypeOK
      <4>2. Kind(fr) \in {"datagram", "fragment"}
        BY <3>3, ChecksDecideKind
      <4>3. arrived'[d]["datagram"] + arrived'[d]["fragment"] =
              arrived[d]["datagram"] + arrived[d]["fragment"] + 1
        BY <1>0, <3>1, <4>2 DEF Kinds
      <4> QED
        BY <1>0, <1>00, <2>1, <3>1, <3>2, <4>1, <4>3 DEF Balance
    <3>4. ASSUME NEW i \in 1 .. 7, StoppedBy(fr, i), Drop(c, Checks(fr)[i][1]), UNCHANGED pc
          PROVE  Balance(d)'
      <4> DEFINE r == Checks(fr)[i][1]
      <4>1. r \in Reasons /\ r # "MAP_FULL" /\ Kind(fr) \notin {"datagram", "fragment"}
        BY <3>4, FrameFacts, ChecksDecideKind
      <4> HIDE DEF r
      <4>2. /\ SumFunction(drops'[d]) = SumFunction(drops[d]) + 1
            /\ \A s \in Reasons \ {r} : drops'[d][s] = drops[d][s]
        BY <2>4, <3>4, <4>1, DropCounts DEF r
      <4>3. drops'[d]["MAP_FULL"] = drops[d]["MAP_FULL"]
        BY <4>1, <4>2 DEF Reasons
      <4>4. /\ arrived'[d]["datagram"] = arrived[d]["datagram"]
            /\ arrived'[d]["fragment"] = arrived[d]["fragment"]
        BY <3>1, <4>1 DEF Kinds
      <4>5. Accepted(d)' = Accepted(d)
        BY <3>4 DEF Accepted
      <4> QED
        BY <1>0, <1>00, <2>1, <3>1, <4>2, <4>3, <4>4, <4>5 DEF Balance
    <3> QED
      BY <1>1, <3>3, <3>4 DEF Arrive
  <2> QED
    BY <2>3, <2>4
<1>2. ASSUME NEW c \in Cpus, Find(c) PROVE Balance(d)'
  <2>1. Accepted(d)' = Accepted(d)
    BY <1>2 DEF Find, Goto, Accepted, ProgramTypeOK
  <2> QED
    BY <1>2, <1>00, <2>1, BalanceFrame DEF Find
<1>3. ASSUME NEW c \in Cpus, InsertZero(c) PROVE Balance(d)'
  <2>1. Accepted(d)' = Accepted(d)
    BY <1>3 DEF InsertZero, Goto, Accepted, ProgramTypeOK
  <2> QED
    BY <1>3, <1>00, <2>1, BalanceFrame DEF InsertZero
<1>4. ASSUME NEW c \in Cpus, FindAgain(c) PROVE Balance(d)'
  <2>1. CASE Goto(c, "packets") /\ UNCHANGED drops
    <3>1. Accepted(d)' = Accepted(d)
      BY <1>4, <2>1 DEF FindAgain, Goto, Accepted, ProgramTypeOK
    <3> QED
      BY <1>4, <1>00, <2>1, <3>1, BalanceFrame DEF FindAgain
  <2>2. CASE Goto(c, "idle") /\ Drop(c, "MAP_FULL")
    <3>1. "MAP_FULL" \in Reasons
      BY DEF Reasons
    <3>2. CASE d # c
      <4>1. drops'[d] = drops[d]
        BY <2>2, <3>1, <3>2, DropCounts
      <4>2. Accepted(d)' = Accepted(d)
        BY <2>2, <3>2 DEF Goto, Accepted, ProgramTypeOK
      <4> QED
        BY <1>4, <1>00, <4>1, <4>2, BalanceFrame DEF FindAgain
    <3>3. CASE d = c
      <4>1. /\ SumFunction(drops'[d]) = SumFunction(drops[d]) + 1
            /\ drops'[d]["MAP_FULL"] = drops[d]["MAP_FULL"] + 1
        BY <2>2, <3>1, <3>3, DropCounts
      <4>2. Accepted(d) = 1 /\ Accepted(d)' = 0
        BY <1>4, <2>2, <3>3 DEF FindAgain, Goto, Accepted, ProgramTypeOK
      <4>3. Packets(d)' = Packets(d) /\ UNCHANGED arrived
        BY <1>4, <1>00 DEF FindAgain
      <4> QED
        BY <1>0, <4>1, <4>2, <4>3 DEF Balance
    <3> QED
      BY <3>2, <3>3
  <2> QED
    BY <1>4, <2>1, <2>2 DEF FindAgain
<1>5. ASSUME NEW c \in Cpus, AddPacket(c) PROVE Balance(d)'
  <2>1. UNCHANGED <<drops, arrived>>
    BY <1>5 DEF AddPacket
  <2>2. CASE d # c
    <3>1. Accepted(d)' = Accepted(d)
      BY <1>5, <2>2 DEF AddPacket, Goto, Accepted, ProgramTypeOK
    <3>2. Packets(d)' = Packets(d)
      BY <1>5, <2>2, PacketCounts
    <3> QED
      BY <2>1, <3>1, <3>2, BalanceFrame
  <2>3. CASE d = c
    <3>1. Accepted(d) = 1 /\ Accepted(d)' = 0
      BY <1>5, <2>3 DEF AddPacket, Goto, Accepted, ProgramTypeOK
    <3>2. Packets(d)' = Packets(d) + 1
      BY <1>5, <2>3, PacketCounts
    <3> QED
      BY <1>0, <2>1, <3>1, <3>2 DEF Balance
  <2> QED
    BY <2>2, <2>3
<1>6. ASSUME NEW c \in Cpus, AddBytes(c) PROVE Balance(d)'
  <2>1. Accepted(d)' = Accepted(d) /\ UNCHANGED <<drops, arrived>>
    BY <1>6 DEF AddBytes, Goto, Accepted, ProgramTypeOK
  <2>2. \A f \in Flows : slot'[f][d].packets = slot[f][d].packets
    <3>1. frame[c].flow \in Flows
      BY FrameFacts DEF ProgramTypeOK
    <3> QED
      BY <1>6, <3>1 DEF AddBytes, ProgramTypeOK
  <2>3. Packets(d)' = Packets(d)
    BY <2>2 DEF Packets
  <2> QED
    BY <2>1, <2>3, BalanceFrame
<1>7. CASE UNCHANGED programVars
  BY <1>7, <1>00, BalanceFrame DEF programVars, Accepted
<1> QED
  BY <1>1, <1>2, <1>3, <1>4, <1>5, <1>6, <1>7 DEF ProgramNext, Step

\* The accounts of every CPU balance at all times.
LEMMA Balanced == ProgramSpec => [](ProgramTypeOK /\ \A c \in Cpus : Balance(c))
<1>1. ProgramInit => \A c \in Cpus : Balance(c)
  <2> SUFFICES ASSUME ProgramInit, NEW c \in Cpus PROVE Balance(c)
    OBVIOUS
  <2>1. arrived[c] = [k \in Kinds |-> 0] /\ drops[c] = [r \in Reasons |-> 0]
    BY DEF ProgramInit
  <2>2. SumFunction(arrived[c]) = 0 /\ SumFunction(drops[c]) = 0
    BY <2>1, FiniteSums, SumOfFunction
  <2>3. Packets(c) = 0
    <3> DEFINE p == [f \in Flows |-> slot[f][c].packets]
    <3>1. p \in [Flows -> Nat] /\ \A f \in Flows : p[f] = 0
      BY DEF ProgramInit
    <3> HIDE DEF p
    <3>2. SumFunction(p) = 0
      BY <3>1, FiniteSums, SumOfFunction
    <3> QED
      BY <3>2 DEF p, Packets
  <2>4. Accepted(c) = 0
    BY DEF ProgramInit, Accepted
  <2> QED
    BY <2>1, <2>2, <2>3, <2>4 DEF Balance, Kinds, Reasons
<1>2. (\A c \in Cpus : Balance(c)) /\ ProgramTypeOK /\ [ProgramNext]_programVars
        => (\A c \in Cpus : Balance(c))'
  BY BalanceStep
<1> QED
  BY <1>1, <1>2, ProgramTypeCorrect, PTL DEF ProgramSpec

\* No frame gets lost without a trace, on any CPU and in any interleaving.
THEOREM FramesAreConserved == ProgramSpec => []Conservation
<1>1. ProgramTypeOK /\ (\A c \in Cpus : Balance(c)) => Conservation
  BY DEF Balance, Conservation, Accepted
<1> QED
  BY <1>1, Balanced, PTL

\* What the program counts are the datagrams and fragments it should count.
THEOREM FramesAreCountedExactly == ProgramSpec => []CountedExactly
<1>1. ProgramTypeOK /\ (\A c \in Cpus : Balance(c)) => CountedExactly
  <2> SUFFICES ASSUME ProgramTypeOK, NEW c \in Cpus, Balance(c), pc[c] = "idle"
               PROVE  Packets(c) + drops[c]["MAP_FULL"] =
                        arrived[c]["datagram"] + arrived[c]["fragment"]
    BY DEF CountedExactly
  <2>1. Accepted(c) = 0
    BY DEF Accepted
  <2>2. Packets(c) \in Nat /\ drops[c]["MAP_FULL"] \in Nat
    BY SumsType DEF ProgramTypeOK, Reasons
  <2> QED
    BY <2>1, <2>2 DEF Balance
<1> QED
  BY <1>1, Balanced, PTL

---------------------------------------------------------------------------------
(* What the program does to the map the collector reads.                           *)

\* The slots hold a number for every field.
LEMMA SlotFields ==
  ASSUME ProgramTypeOK, NEW f \in Flows, NEW c \in Cpus
  PROVE  /\ \A x \in Fields : slot[f][c][x] \in Nat
         /\ slot[f][c]["packets"] = slot[f][c].packets
         /\ slot[f][c]["bytes"] = slot[f][c].bytes
<1>1. slot[f][c] \in [packets : Nat, bytes : Nat]
  BY DEF ProgramTypeOK
<1> QED
  BY <1>1 DEF Fields

\* So do the sums over the CPUs.
LEMMA CounterType ==
  ASSUME ProgramTypeOK
  PROVE  /\ CounterNow \in [Flows -> [Fields -> Nat]]
         /\ \A f \in Flows : CounterNow[f] = Counter(f) /\ Counter(f) \in [Fields -> Nat]
         /\ \A f \in Flows : \A x \in Fields :
              /\ [c \in Cpus |-> slot[f][c][x]] \in [Cpus -> Nat]
              /\ Counter(f)[x] = SumFunction([c \in Cpus |-> slot[f][c][x]])
<1>1. ASSUME NEW f \in Flows, NEW x \in Fields
      PROVE  /\ [c \in Cpus |-> slot[f][c][x]] \in [Cpus -> Nat]
             /\ SumFunction([c \in Cpus |-> slot[f][c][x]]) \in Nat
  <2> DEFINE p == [c \in Cpus |-> slot[f][c][x]]
  <2>1. p \in [Cpus -> Nat]
    BY SlotFields
  <2> HIDE DEF p
  <2>2. SumFunction(p) \in Nat
    BY <2>1, PipelineAssumption, SumOfFunction
  <2> QED
    BY <2>1, <2>2 DEF p
<1>2. \A f \in Flows : Counter(f) \in [Fields -> Nat]
  BY <1>1 DEF Counter
<1>3. \A f \in Flows : \A x \in Fields :
        Counter(f)[x] = SumFunction([c \in Cpus |-> slot[f][c][x]])
  BY DEF Counter
<1> QED
  BY <1>1, <1>2, <1>3 DEF CounterNow

\* The program adds n to field x of CPU c's slot of f, and to nothing else.
Adds(f, c, x, n) ==
  \A g \in Flows : \A d \in Cpus : \A y \in Fields :
    slot'[g][d][y] = IF g = f /\ d = c /\ y = x THEN slot[g][d][y] + n ELSE slot[g][d][y]

\* The increment that is n in field x.
Increment(x, n) == IF x = "packets" THEN [packets |-> n, bytes |-> 0]
                                    ELSE [packets |-> 0, bytes |-> n]

\* It is a record of numbers with one field that may not be zero.
LEMMA IncrementFields ==
  ASSUME NEW x \in Fields, NEW n \in Nat
  PROVE  /\ Increment(x, n) \in [Fields -> Nat]
         /\ \A y \in Fields : Increment(x, n)[y] = IF y = x THEN n ELSE 0
BY DEF Increment, Fields

\* Adding to one slot adds as much to the sum.
LEMMA AddsToCounter ==
  ASSUME ProgramTypeOK, ProgramTypeOK',
         NEW f \in Flows, NEW c \in Cpus, NEW x \in Fields, NEW n \in Nat, Adds(f, c, x, n)
  PROVE  CounterNow' = [CounterNow EXCEPT ![f] = Collector!Plus(@, Increment(x, n))]
<1>1. \A g \in Flows : \A d \in Cpus : \A y \in Fields :
        slot[g][d][y] \in Nat /\ slot'[g][d][y] \in Nat
  <2>1. \A g \in Flows : \A d \in Cpus : slot'[g][d] \in [packets : Nat, bytes : Nat]
    BY DEF ProgramTypeOK
  <2> QED
    BY <2>1, SlotFields DEF Fields
<1>2. ASSUME NEW g \in Flows, NEW y \in Fields
      PROVE  SumFunction([d \in Cpus |-> slot'[g][d][y]]) =
               SumFunction([d \in Cpus |-> slot[g][d][y]]) + IF g = f /\ y = x THEN n ELSE 0
  <2> DEFINE p == [d \in Cpus |-> slot[g][d][y]]
             q == [d \in Cpus |-> slot'[g][d][y]]
  <2>1. p \in [Cpus -> Nat] /\ q \in [Cpus -> Nat]
    BY <1>1
  <2>2. CASE g = f /\ y = x
    <3>1. q[c] = p[c] + n /\ \A d \in Cpus \ {c} : q[d] = p[d]
      BY <2>2 DEF Adds
    <3> HIDE DEF p, q
    <3>2. SumFunction(q) = SumFunction(p) + n
      BY <2>1, <3>1, PipelineAssumption, SumGrows
    <3> QED
      BY <2>2, <3>2 DEF p, q
  <2>3. CASE ~(g = f /\ y = x)
    <3>1. q = p
      BY <2>3 DEF Adds
    <3>2. SumFunction(p) \in Nat
      <4> HIDE DEF p
      <4> QED
        BY <2>1, PipelineAssumption, SumOfFunction
    <3> QED
      BY <2>3, <3>1, <3>2
  <2> QED
    BY <2>2, <2>3
<1>3. \A g \in Flows : \A y \in Fields :
        Counter(g)'[y] = Counter(g)[y] + IF g = f /\ y = x THEN n ELSE 0
  BY <1>2 DEF Counter
<1>4. \A g \in Flows : Counter(g) \in [Fields -> Nat] /\ Counter(g)' = [y \in Fields |-> Counter(g)'[y]]
  BY CounterType DEF Counter
<1>5. \A g \in Flows : Counter(g)' = IF g = f THEN Collector!Plus(Counter(g), Increment(x, n))
                                            ELSE Counter(g)
  <2> SUFFICES ASSUME NEW g \in Flows
               PROVE  Counter(g)' = IF g = f THEN Collector!Plus(Counter(g), Increment(x, n))
                                             ELSE Counter(g)
    OBVIOUS
  <2>1. \A y \in Fields : Counter(g)[y] \in Nat
    BY <1>4
  <2>2. CASE g = f
    <3>1. \A y \in Fields : Counter(g)'[y] = Counter(g)[y] + Increment(x, n)[y]
      BY <1>3, <2>1, <2>2, IncrementFields
    <3>2. Counter(g)' = [y \in Fields |-> Counter(g)[y] + Increment(x, n)[y]]
      BY <1>4, <3>1
    <3> QED
      BY <2>2, <3>2 DEF Collector!Plus
  <2>3. CASE g # f
    <3>1. \A y \in Fields : Counter(g)'[y] = Counter(g)[y]
      BY <1>3, <2>1, <2>3
    <3>2. Counter(g) = [y \in Fields |-> Counter(g)[y]]
      BY <1>4
    <3> QED
      BY <1>4, <2>3, <3>1, <3>2
  <2> QED
    BY <2>2, <2>3
<1>6. CounterNow = [g \in Flows |-> Counter(g)] /\ CounterNow' = [g \in Flows |-> Counter(g)']
  BY DEF CounterNow
<1> QED
  BY <1>5, <1>6

\* A run that counts has found its key in the map.
OnEntry == \A c \in Cpus : pc[c] \in {"packets", "bytes"} => frame[c].flow \in entries

\* Entries stay, so it is kept.
LEMMA OnEntryStep ==
  ASSUME ProgramTypeOK, OnEntry, [ProgramNext]_programVars
  PROVE  OnEntry'
<1> USE DEF OnEntry, ProgramTypeOK, Goto
<1>1. ASSUME NEW c \in Cpus, NEW fr \in Frames, Arrive(c, fr) PROVE OnEntry'
  <2>1. \A d \in Cpus : pc'[d] \in {"packets", "bytes"} =>
          pc[d] \in {"packets", "bytes"} /\ frame'[d] = frame[d]
    BY <1>1 DEF Arrive
  <2> QED
    BY <1>1, <2>1 DEF Arrive
<1>2. ASSUME NEW c \in Cpus, Find(c) PROVE OnEntry'
  BY <1>2 DEF Find
<1>3. ASSUME NEW c \in Cpus, InsertZero(c) PROVE OnEntry'
  <2>1. entries \subseteq entries'
    BY <1>3 DEF InsertZero
  <2> QED
    BY <1>3, <2>1 DEF InsertZero
<1>4. ASSUME NEW c \in Cpus, FindAgain(c) PROVE OnEntry'
  BY <1>4 DEF FindAgain
<1>5. ASSUME NEW c \in Cpus, AddPacket(c) PROVE OnEntry'
  BY <1>5 DEF AddPacket
<1>6. ASSUME NEW c \in Cpus, AddBytes(c) PROVE OnEntry'
  BY <1>6 DEF AddBytes
<1>7. CASE UNCHANGED programVars
  BY <1>7 DEF programVars
<1> QED
  BY <1>1, <1>2, <1>3, <1>4, <1>5, <1>6, <1>7 DEF ProgramNext, Step

\* The three things a step of the program can mean for the map.
Idle == UNCHANGED <<entries, slot>>

Inserts(f) ==
  /\ f \notin entries /\ Cardinality(entries) < MaxEntries
  /\ entries' = entries \cup {f} /\ UNCHANGED slot

Counts(f, c, x, n) ==
  /\ f \in entries /\ UNCHANGED entries
  /\ Increment(x, n) \in Increments /\ Adds(f, c, x, n)

\* Every step of the program means one of them.
LEMMA ProgramEffect ==
  ASSUME ProgramTypeOK, OnEntry, [ProgramNext]_programVars
  PROVE  \/ Idle
         \/ \E f \in Flows : Inserts(f)
         \/ \E f \in Flows, c \in Cpus, x \in Fields, n \in Nat : Counts(f, c, x, n)
<1>1. ASSUME NEW c \in Cpus, NEW fr \in Frames, Arrive(c, fr) PROVE Idle
  BY <1>1 DEF Arrive, Idle
<1>2. ASSUME NEW c \in Cpus, Find(c) PROVE Idle
  BY <1>2 DEF Find, Idle
<1>3. ASSUME NEW c \in Cpus, InsertZero(c) PROVE Idle \/ \E f \in Flows : Inserts(f)
  <2>1. frame[c].flow \in Flows
    BY FrameFacts DEF ProgramTypeOK
  <2>2. Idle \/ Inserts(frame[c].flow)
    BY <1>3 DEF InsertZero, Idle, Inserts
  <2> QED
    BY <2>1, <2>2
<1>4. ASSUME NEW c \in Cpus, FindAgain(c) PROVE Idle
  BY <1>4 DEF FindAgain, Idle
<1>5. ASSUME NEW c \in Cpus, AddPacket(c) PROVE \E f \in Flows : Counts(f, c, "packets", 1)
  <2> DEFINE f == frame[c].flow
  <2>1. f \in Flows /\ f \in entries
    BY <1>5, FrameFacts DEF ProgramTypeOK, AddPacket, OnEntry
  <2>2. Increment("packets", 1) \in Increments
    BY DEF Increment, Increments
  <2>3. Adds(f, c, "packets", 1)
    <3>1. slot' = [slot EXCEPT ![f][c].packets = @ + 1]
      BY <1>5 DEF AddPacket
    <3> HIDE DEF f
    <3>2. ASSUME NEW g \in Flows, NEW d \in Cpus
          PROVE  slot'[g][d] = IF g = f /\ d = c THEN [slot[g][d] EXCEPT !.packets = @ + 1]
                                                 ELSE slot[g][d]
      BY <2>1, <3>1 DEF ProgramTypeOK
    <3>3. \A g \in Flows : \A d \in Cpus : slot[g][d] \in [packets : Nat, bytes : Nat]
      BY DEF ProgramTypeOK
    <3>4. \A s \in [packets : Nat, bytes : Nat] :
            /\ [s EXCEPT !.packets = @ + 1]["packets"] = s["packets"] + 1
            /\ [s EXCEPT !.packets = @ + 1]["bytes"] = s["bytes"]
      OBVIOUS
    <3> QED
      BY <3>2, <3>3, <3>4 DEF Adds, Fields
  <2>4. UNCHANGED entries
    BY <1>5 DEF AddPacket
  <2> QED
    BY <2>1, <2>2, <2>3, <2>4 DEF Counts
<1>6. ASSUME NEW c \in Cpus, AddBytes(c)
      PROVE  \E f \in Flows, n \in Nat : Counts(f, c, "bytes", n)
  <2> DEFINE f == frame[c].flow
             n == Payload(frame[c])
  <2>1. f \in Flows /\ f \in entries /\ n \in Nat /\ frame[c] \in Frames
    BY <1>6, FrameFacts DEF ProgramTypeOK, AddBytes, OnEntry
  <2>2. Increment("bytes", n) \in Increments
    BY <2>1 DEF Increment, Increments
  <2>3. Adds(f, c, "bytes", n)
    <3>1. slot' = [slot EXCEPT ![f][c].bytes = @ + n]
      BY <1>6 DEF AddBytes
    <3> HIDE DEF f, n
    <3>2. ASSUME NEW g \in Flows, NEW d \in Cpus
          PROVE  slot'[g][d] = IF g = f /\ d = c THEN [slot[g][d] EXCEPT !.bytes = @ + n]
                                                 ELSE slot[g][d]
      BY <2>1, <3>1 DEF ProgramTypeOK
    <3>3. \A g \in Flows : \A d \in Cpus : slot[g][d] \in [packets : Nat, bytes : Nat]
      BY DEF ProgramTypeOK
    <3>4. \A s \in [packets : Nat, bytes : Nat] :
            /\ [s EXCEPT !.bytes = @ + n]["bytes"] = s["bytes"] + n
            /\ [s EXCEPT !.bytes = @ + n]["packets"] = s["packets"]
      BY <2>1
    <3> QED
      BY <3>2, <3>3, <3>4 DEF Adds, Fields
  <2>4. UNCHANGED entries
    BY <1>6 DEF AddBytes
  <2> HIDE DEF f, n
  <2> QED
    BY <2>1, <2>2, <2>3, <2>4 DEF Counts
<1>7. CASE UNCHANGED programVars
  BY <1>7 DEF programVars, Idle
<1>8. "packets" \in Fields /\ "bytes" \in Fields /\ 1 \in Nat
  BY DEF Fields
<1> QED
  BY <1>1, <1>2, <1>3, <1>4, <1>5, <1>6, <1>7, <1>8 DEF ProgramNext, Step

---------------------------------------------------------------------------------
(* What the collector's side keeps.                                                *)

DumpInv ==
  /\ phase \in {"sleep", "next", "lookup"}
  /\ cursor # NoFlow => cursor \in entries
  /\ DOMAIN totals \subseteq behind
  /\ phase = "lookup" => cursor \in behind \ DOMAIN totals /\ cursor # NoFlow
  /\ sums \in [Fields -> Nat] /\ floor \in [Fields -> Nat]
  /\ inserts = Cardinality(entries)

\* The counters of the cursor's entry that are not copied yet, and those that are.
Ahead(x)  == [c \in Cpus |-> IF <<c, x>> \in unread THEN slot[cursor][c][x] ELSE 0]
Copied(x) == [c \in Cpus |-> IF <<c, x>> \in unread THEN 0 ELSE slot[cursor][c][x]]

\* With what is still to be copied the sum reaches the floor; it holds no more than
\* what the copied counters hold by now.
ReadInv ==
  phase = "lookup" => \A x \in Fields : /\ floor[x] <= sums[x] + SumFunction(Ahead(x))
                                        /\ sums[x] <= SumFunction(Copied(x))

\* The empty dictionary and the zero counters.
LEMMA Empties ==
  /\ DOMAIN Collector!EmptyDict = {}
  /\ Collector!Zero \in [Fields -> Nat] /\ \A x \in Fields : Collector!Zero[x] = 0
BY DEF Collector!EmptyDict, Collector!Zero

\* DumpInv is kept by every step.
LEMMA DumpInvStep ==
  ASSUME ProgramTypeOK, OnEntry, DumpInv, [PipelineNext]_pipelineVars
  PROVE  DumpInv'
<1>0. IsFiniteSet(entries)
  BY ProgramAssumption, FS_Subset DEF ProgramTypeOK
<1>1. CASE Kernel
  <2>1. UNCHANGED <<phase, cursor, totals, sums, floor>>
    BY <1>1 DEF Kernel, readVars
  <2>2. behind \subseteq behind' /\ (phase = "lookup" => cursor \in behind')
    BY <1>1 DEF Kernel, DumpInv
  <2>3. entries \subseteq entries' /\ inserts' = Cardinality(entries')
    <3>1. CASE entries' = entries
      BY <1>1, <3>1 DEF Kernel, DumpInv
    <3>2. CASE entries' # entries
      <4>1. PICK f \in Flows : Inserts(f)
        BY <1>1, <3>2, ProgramEffect DEF Kernel, Idle, Counts
      <4>2. Cardinality(entries') = Cardinality(entries) + 1
        BY <1>0, <4>1, FS_AddElement DEF Inserts
      <4> QED
        BY <1>1, <3>2, <4>1, <4>2 DEF Kernel, DumpInv, Inserts
    <3> QED
      BY <3>1, <3>2
  <2> QED
    BY <2>1, <2>2, <2>3 DEF DumpInv
<1>2. CASE BeginDump
  BY <1>2 DEF BeginDump, DumpInv, programVars, readVars
<1>3. ASSUME NEW f \in Flows, NextKey(f) PROVE DumpInv'
  <2>1. floor' \in [Fields -> Nat]
    BY <1>3, CounterType DEF NextKey
  <2>2. f # NoFlow
    BY PipelineAssumption
  <2> QED
    BY <1>3, <2>1, <2>2, Empties DEF NextKey, DumpInv, programVars
<1>4. ASSUME NEW c \in Cpus, NEW x \in Fields, ReadSlot(c, x) PROVE DumpInv'
  <2>1. cursor \in Flows
    BY <1>4 DEF ReadSlot, DumpInv, ProgramTypeOK
  <2>2. sums' \in [Fields -> Nat]
    BY <1>4, <2>1, SlotFields DEF ReadSlot, DumpInv
  <2> QED
    BY <1>4, <2>2 DEF ReadSlot, DumpInv, programVars, historyVars
<1>5. CASE EndLookup
  <2>1. DOMAIN totals' = DOMAIN totals \cup {cursor}
    BY <1>5 DEF EndLookup, Collector!Aggregate
  <2> QED
    BY <1>5, <2>1, Empties DEF EndLookup, DumpInv, programVars
<1>6. CASE Checkpoint
  BY <1>6, Empties DEF Checkpoint, DumpInv, programVars, readVars
<1>7. CASE Restart
  BY <1>7, Empties DEF Restart, DumpInv, programVars
<1>8. CASE UNCHANGED pipelineVars
  BY <1>8 DEF pipelineVars, programVars, pollVars, readVars, historyVars, DumpInv
<1> QED
  BY <1>1, <1>2, <1>3, <1>4, <1>5, <1>6, <1>7, <1>8 DEF PipelineNext

\* Both halves of the cursor's entry are functions to numbers.
LEMMA HalvesType ==
  ASSUME ProgramTypeOK, cursor \in Flows, NEW x \in Fields
  PROVE  /\ Ahead(x) \in [Cpus -> Nat] /\ Copied(x) \in [Cpus -> Nat]
         /\ SumFunction(Ahead(x)) \in Nat /\ SumFunction(Copied(x)) \in Nat
<1>1. Ahead(x) \in [Cpus -> Nat] /\ Copied(x) \in [Cpus -> Nat]
  BY SlotFields DEF Ahead, Copied
<1> QED
  BY <1>1, PipelineAssumption, SumOfFunction

\* A lookup under way stays between its bounds while the CPUs go on counting.
LEMMA ReadInvStep ==
  ASSUME ProgramTypeOK, ProgramTypeOK', OnEntry, DumpInv, ReadInv, [PipelineNext]_pipelineVars
  PROVE  ReadInv'
<1>0. phase = "lookup" => cursor \in Flows
  BY DEF DumpInv, ProgramTypeOK
<1>1. CASE Kernel
  <2> SUFFICES ASSUME phase = "lookup", NEW x \in Fields
               PROVE  /\ floor[x] <= sums[x] + SumFunction(Ahead(x)')
                      /\ sums[x] <= SumFunction(Copied(x)')
    BY <1>1 DEF Kernel, ReadInv, readVars
  <2>1. UNCHANGED <<cursor, unread, sums, floor>> /\ cursor \in Flows
    BY <1>0, <1>1 DEF Kernel, readVars
  <2>2. \A c \in Cpus : slot[cursor][c][x] \in Nat /\ slot[cursor][c][x] <= slot'[cursor][c][x]
    <3>1. CASE UNCHANGED slot
      BY <2>1, <3>1, SlotFields
    <3>2. ASSUME NEW f \in Flows, NEW c \in Cpus, NEW y \in Fields, NEW n \in Nat,
                 Counts(f, c, y, n)
          PROVE  \A d \in Cpus : slot[cursor][d][x] \in Nat
                                   /\ slot[cursor][d][x] <= slot'[cursor][d][x]
      BY <2>1, <3>2, SlotFields DEF Counts, Adds
    <3> QED
      BY <1>1, <3>1, <3>2, ProgramEffect DEF Kernel, Idle, Inserts
  <2>3. /\ Ahead(x) \in [Cpus -> Nat] /\ Copied(x) \in [Cpus -> Nat]
        /\ Ahead(x)' \in [Cpus -> Nat] /\ Copied(x)' \in [Cpus -> Nat]
    <3>1. \A c \in Cpus : slot'[cursor][c][x] \in Nat
      <4>1. \A c \in Cpus : slot'[cursor][c] \in [packets : Nat, bytes : Nat]
        BY <2>1 DEF ProgramTypeOK
      <4> QED
        BY <4>1 DEF Fields
    <3> QED
      BY <2>1, <3>1, HalvesType DEF Ahead, Copied
  <2>4. \A c \in Cpus : Ahead(x)[c] <= Ahead(x)'[c] /\ Copied(x)[c] <= Copied(x)'[c]
    BY <2>1, <2>2 DEF Ahead, Copied
  <2>5. /\ SumFunction(Ahead(x)) <= SumFunction(Ahead(x)')
        /\ SumFunction(Copied(x)) <= SumFunction(Copied(x)')
        /\ SumFunction(Ahead(x)') \in Nat /\ SumFunction(Copied(x)') \in Nat
    <3> DEFINE a == Ahead(x)'
               b == Copied(x)'
    <3>1. a \in [Cpus -> Nat] /\ b \in [Cpus -> Nat]
      BY <2>3
    <3>2. \A c \in Cpus : Ahead(x)[c] <= a[c] /\ Copied(x)[c] <= b[c]
      BY <2>4
    <3> HIDE DEF a, b
    <3>3. /\ SumFunction(Ahead(x)) <= SumFunction(a) /\ SumFunction(Copied(x)) <= SumFunction(b)
          /\ SumFunction(a) \in Nat /\ SumFunction(b) \in Nat
      BY <2>3, <3>1, <3>2, PipelineAssumption, SumOfFunction
    <3> QED
      BY <3>3 DEF a, b
  <2>6. /\ floor[x] \in Nat /\ sums[x] \in Nat
        /\ SumFunction(Ahead(x)) \in Nat /\ SumFunction(Copied(x)) \in Nat
        /\ floor[x] <= sums[x] + SumFunction(Ahead(x)) /\ sums[x] <= SumFunction(Copied(x))
    BY <2>1, HalvesType DEF DumpInv, ReadInv
  <2> QED
    BY <2>5, <2>6
<1>2. CASE BeginDump
  BY <1>2 DEF BeginDump, ReadInv
<1>3. ASSUME NEW f \in Flows, NextKey(f) PROVE ReadInv'
  <2> SUFFICES ASSUME NEW x \in Fields
               PROVE  /\ floor'[x] <= sums'[x] + SumFunction(Ahead(x)')
                      /\ sums'[x] <= SumFunction(Copied(x)')
    BY DEF ReadInv
  <2>1. /\ cursor' = f /\ unread' = Cpus \X Fields /\ sums' = Collector!Zero
        /\ floor' = Counter(f) /\ UNCHANGED slot
    BY <1>3 DEF NextKey, programVars
  <2>2. Ahead(x)' = [c \in Cpus |-> slot[f][c][x]]
    BY <2>1 DEF Ahead
  <2>3. floor'[x] = SumFunction(Ahead(x)') /\ floor'[x] \in Nat
    BY <2>1, <2>2, CounterType
  <2>4. Copied(x)' = [c \in Cpus |-> 0]
    BY <2>1 DEF Copied
  <2>5. SumFunction(Copied(x)') \in Nat
    <3>1. [c \in Cpus |-> 0] \in [Cpus -> Nat]
      OBVIOUS
    <3> QED
      BY <2>4, <3>1, PipelineAssumption, SumOfFunction
  <2> QED
    BY <2>1, <2>3, <2>5, Empties
<1>4. ASSUME NEW c \in Cpus, NEW x \in Fields, ReadSlot(c, x) PROVE ReadInv'
  <2>1. /\ phase = "lookup" /\ <<c, x>> \in unread /\ unread' = unread \ {<<c, x>>}
        /\ sums' = [sums EXCEPT ![x] = @ + slot[cursor][c][x]]
        /\ UNCHANGED <<slot, cursor, floor>>
    BY <1>4 DEF ReadSlot, programVars, historyVars
  <2>2. cursor \in Flows /\ slot[cursor][c][x] \in Nat
    BY <1>0, <2>1, SlotFields
  <2> SUFFICES ASSUME NEW y \in Fields
               PROVE  /\ floor[y] <= sums'[y] + SumFunction(Ahead(y)')
                      /\ sums'[y] <= SumFunction(Copied(y)')
    BY <2>1 DEF ReadInv
  <2>3. /\ floor[y] \in Nat /\ sums[y] \in Nat
        /\ SumFunction(Ahead(y)) \in Nat /\ SumFunction(Copied(y)) \in Nat
        /\ floor[y] <= sums[y] + SumFunction(Ahead(y)) /\ sums[y] <= SumFunction(Copied(y))
    BY <2>1, <2>2, HalvesType DEF DumpInv, ReadInv
  <2>4. CASE y # x
    <3>1. Ahead(y)' = Ahead(y) /\ Copied(y)' = Copied(y)
      BY <2>1, <2>4 DEF Ahead, Copied
    <3>2. sums'[y] = sums[y]
      BY <2>1, <2>4 DEF DumpInv
    <3> QED
      BY <2>3, <3>1, <3>2
  <2>5. CASE y = x
    <3> DEFINE n == slot[cursor][c][x]
               a == Ahead(x)'
               b == Copied(x)'
    <3>1. Ahead(x) \in [Cpus -> Nat] /\ Copied(x) \in [Cpus -> Nat]
      BY <2>2, HalvesType
    <3>2. /\ a = [d \in Cpus |-> IF d = c THEN 0 ELSE Ahead(x)[d]]
          /\ b = [d \in Cpus |-> IF d = c THEN n ELSE Copied(x)[d]]
      BY <2>1 DEF Ahead, Copied
    <3>3. Ahead(x)[c] = n /\ Copied(x)[c] = 0
      BY <2>1 DEF Ahead, Copied
    <3>4. a \in [Cpus -> Nat] /\ b \in [Cpus -> Nat]
      BY <2>2, <3>1, <3>2
    <3>5. /\ Ahead(x)[c] = a[c] + n /\ b[c] = Copied(x)[c] + n
          /\ \A d \in Cpus \ {c} : Ahead(x)[d] = a[d] /\ b[d] = Copied(x)[d]
      BY <2>2, <3>2, <3>3
    <3>6. sums'[x] = sums[x] + n
      BY <2>1 DEF DumpInv
    <3>7. n \in Nat
      BY <2>2
    <3> HIDE DEF n, a, b
    <3>8. SumFunction(Ahead(x)) = SumFunction(a) + n
      BY <3>1, <3>4, <3>5, <3>7, PipelineAssumption, SumGrows
    <3>9. SumFunction(b) = SumFunction(Copied(x)) + n
      BY <3>1, <3>4, <3>5, <3>7, PipelineAssumption, SumGrows
    <3>10. SumFunction(a) \in Nat /\ SumFunction(b) \in Nat
      BY <3>4, PipelineAssumption, SumOfFunction
    <3>11. floor[x] <= sums'[x] + SumFunction(a) /\ sums'[x] <= SumFunction(b)
      BY <2>3, <2>5, <3>6, <3>7, <3>8, <3>9, <3>10
    <3> QED
      BY <2>5, <3>11 DEF a, b
  <2> QED
    BY <2>4, <2>5
<1>5. CASE EndLookup
  BY <1>5 DEF EndLookup, ReadInv
<1>6. CASE Checkpoint
  BY <1>6 DEF Checkpoint, ReadInv
<1>7. CASE Restart
  BY <1>7 DEF Restart, ReadInv
<1>8. CASE UNCHANGED pipelineVars
  <2>1. UNCHANGED <<phase, floor, sums, unread, slot, cursor>>
    BY <1>8 DEF pipelineVars, programVars, pollVars, readVars, historyVars
  <2>2. \A x \in Fields : Ahead(x)' = Ahead(x) /\ Copied(x)' = Copied(x)
    BY <2>1 DEF Ahead, Copied
  <2> QED
    BY <2>1, <2>2 DEF ReadInv
<1> QED
  BY <1>1, <1>2, <1>3, <1>4, <1>5, <1>6, <1>7, <1>8 DEF PipelineNext

---------------------------------------------------------------------------------
(* The pipeline as one more system the program's theorems are about.               *)

\* What the pipeline does to the program's variables the program does.
LEMMA PipelineRunsProgram == PipelineSpec => ProgramSpec
<1>1. PipelineInit => ProgramInit
  BY DEF PipelineInit
<1>2. [PipelineNext]_pipelineVars => [ProgramNext]_programVars
  BY DEF PipelineNext, Kernel, BeginDump, NextKey, ReadSlot, EndLookup, Checkpoint, Restart,
         pipelineVars
<1> QED
  BY <1>1, <1>2, PTL DEF PipelineSpec, ProgramSpec

PipelineInv == ProgramTypeOK /\ OnEntry /\ DumpInv /\ ReadInv

\* The inductive invariant of the pipeline.
LEMMA PipelineInvariant == PipelineSpec => []PipelineInv
<1>1. PipelineInit => OnEntry /\ DumpInv /\ ReadInv
  <2> SUFFICES ASSUME PipelineInit PROVE OnEntry /\ DumpInv /\ ReadInv
    OBVIOUS
  <2>1. OnEntry
    BY DEF PipelineInit, ProgramInit, OnEntry
  <2>2. Cardinality({}) = 0
    BY FS_EmptySet
  <2>3. DumpInv
    BY <2>2, Empties DEF PipelineInit, ProgramInit, DumpInv
  <2>4. ReadInv
    BY DEF PipelineInit, ReadInv
  <2> QED
    BY <2>1, <2>3, <2>4
<1>2. ProgramTypeOK /\ ProgramTypeOK' /\ (OnEntry /\ DumpInv /\ ReadInv)
        /\ [PipelineNext]_pipelineVars => (OnEntry /\ DumpInv /\ ReadInv)'
  <2> SUFFICES ASSUME ProgramTypeOK, ProgramTypeOK', OnEntry, DumpInv, ReadInv,
                      [PipelineNext]_pipelineVars
               PROVE  (OnEntry /\ DumpInv /\ ReadInv)'
    OBVIOUS
  <2>1. [ProgramNext]_programVars
    BY DEF PipelineNext, Kernel, BeginDump, NextKey, ReadSlot, EndLookup, Checkpoint, Restart,
           pipelineVars
  <2> QED
    BY <2>1, OnEntryStep, DumpInvStep, ReadInvStep
<1>3. PipelineSpec => []ProgramTypeOK
  BY PipelineRunsProgram, ProgramTypeCorrect, PTL
<1> QED
  BY <1>1, <1>2, <1>3, PTL DEF PipelineSpec, PipelineInv

---------------------------------------------------------------------------------
(* The pipeline implements the collector.                                          *)

\* Nothing is counted at the beginning.
LEMMA CollectorStarts == PipelineInit => Collector!Init
<1> SUFFICES ASSUME PipelineInit PROVE Collector!Init
  OBVIOUS
<1>1. CounterNow = [f \in Flows |-> Collector!Zero]
  <2>1. ASSUME NEW f \in Flows, NEW x \in Fields
        PROVE  SumFunction([c \in Cpus |-> slot[f][c][x]]) = 0
    <3> DEFINE p == [c \in Cpus |-> slot[f][c][x]]
    <3>1. \A c \in Cpus : slot[f][c] = [packets |-> 0, bytes |-> 0]
      BY DEF PipelineInit, ProgramInit
    <3>2. p \in [Cpus -> Nat] /\ \A c \in Cpus : p[c] = 0
      BY <3>1 DEF Fields
    <3> HIDE DEF p
    <3>3. SumFunction(p) = 0
      BY <3>2, PipelineAssumption, SumOfFunction
    <3> QED
      BY <3>3 DEF p
  <2> QED
    BY <2>1 DEF CounterNow, Counter, Collector!Zero
<1>2. entries = {}
  BY DEF PipelineInit, ProgramInit
<1> QED
  BY <1>1, <1>2 DEF PipelineInit, Collector!Init

\* The collector's view of the map does not change with the slots unchanged.
LEMMA SameCounters == UNCHANGED slot => UNCHANGED CounterNow
BY DEF CounterNow, Counter

\* The collector's module means the same by the size of a set.
LEMMA SameCardinality == \A S : Collector!Cardinality(S) = Cardinality(S)
BY Zenon DEF Collector!Cardinality, Cardinality

\* A step of the program is a step of the collector's kernel side, or none.
LEMMA KernelImplements ==
  ASSUME PipelineInv, PipelineInv', Kernel
  PROVE  Collector!Next \/ UNCHANGED Collector!vars
<1> USE DEF PipelineInv
<1>1. UNCHANGED <<phase, cursor, totals, previous, reported, readVars, floor, mark, beginMark,
                  restarts>>
  BY DEF Kernel
<1>2. CASE Idle
  <2>1. UNCHANGED <<entries, behind, inserts, CounterNow>>
    BY <1>2, SameCounters DEF Kernel, Idle
  <2>2. UNCHANGED Collector!vars
    BY <1>1, <2>1 DEF Collector!vars, Collector!kernelVars, Collector!dumpVars, Collector!ghostVars
  <2> QED
    BY <2>2
<1>3. ASSUME NEW f \in Flows, Inserts(f) PROVE Collector!Insert(f)
  <2>1. f \notin entries /\ entries' = entries \cup {f} /\ Cardinality(entries) < MaxEntries
    BY <1>3 DEF Inserts
  <2>2. entries' # entries /\ entries' \ entries = {f}
    BY <2>1
  <2>3. /\ inserts' = inserts + 1
        /\ behind' = behind \/ (cursor # NoFlow /\ behind' = behind \cup {f})
    BY <2>2 DEF Kernel
  <2>4. inserts < Cardinality(Flows)
    <3>1. IsFiniteSet(entries) /\ IsFiniteSet(Flows) /\ entries \in SUBSET Flows
      BY ProgramAssumption, FS_Subset DEF ProgramTypeOK
    <3>2. /\ Cardinality(entries) <= Cardinality(Flows)
          /\ Cardinality(Flows) = Cardinality(entries) => Flows = entries
      BY <3>1, FS_Subset
    <3>3. Cardinality(entries) \in Nat /\ Cardinality(Flows) \in Nat
      BY <3>1, FS_CardinalityType
    <3> QED
      BY <2>1, <3>2, <3>3 DEF DumpInv
  <2>5. UNCHANGED CounterNow /\ CounterNow = [g \in Flows |-> CounterNow[g]]
    BY <1>3, SameCounters DEF Inserts, CounterNow
  <2>6. {} \in Collector!Victims
    BY DEF Collector!Victims
  <2>7. /\ Cardinality(entries \ {}) < MaxEntries
        /\ entries' = (entries \ {}) \cup {f}
        /\ CounterNow' = [g \in Flows |-> IF g \in {} THEN Collector!Zero ELSE CounterNow[g]]
        /\ floor' = IF cursor \in {} THEN Collector!Zero ELSE floor
        /\ {} = {} \cup ({} \cap DOMAIN previous) /\ {} = {} \cup ({} \cap DOMAIN totals)
    <3>1. entries \ {} = entries
      OBVIOUS
    <3> QED
      BY <1>1, <2>1, <2>5, <3>1
  <2>8. \E victims \in Collector!Victims :
          /\ Collector!Cardinality(entries \ victims) < MaxEntries
          /\ entries' = (entries \ victims) \cup {f}
          /\ CounterNow' = [g \in Flows |-> IF g \in victims THEN Collector!Zero
                                            ELSE CounterNow[g]]
          /\ floor' = IF cursor \in victims THEN Collector!Zero ELSE floor
          /\ {} = {} \cup (victims \cap DOMAIN previous)
          /\ {} = {} \cup (victims \cap DOMAIN totals)
    BY <2>6, <2>7, SameCardinality, Zenon
  <2>9. UNCHANGED <<phase, cursor, totals, previous, CounterNow, reported, {}, mark, beginMark,
                    restarts>>
    BY <1>1, <2>5
  <2> QED
    BY <2>1, <2>3, <2>4, <2>8, <2>9, Zenon DEF Collector!Insert
<1>4. ASSUME NEW f \in Flows, NEW c \in Cpus, NEW x \in Fields, NEW n \in Nat,
             Counts(f, c, x, n)
      PROVE  Collector!Count(f)
  <2> DEFINE inc == Increment(x, n)
  <2>1. CounterNow' = [CounterNow EXCEPT ![f] = Collector!Plus(@, inc)]
    BY <1>4, AddsToCounter DEF Counts
  <2>2. UNCHANGED <<entries, behind, inserts>>
    BY <1>4 DEF Counts, Kernel
  <2>3. Collector!AtMost(CounterNow'[f], [y \in Fields |-> MaxCount])
    BY DEF Kernel, CounterNow
  <2>4. CounterNow'[f] = Collector!Plus(CounterNow[f], inc)
    BY <2>1, CounterType
  <2>5. inc \in Increments /\ f \in entries
    BY <1>4 DEF Counts
  <2> HIDE DEF inc
  <2> QED
    BY <1>1, <2>1, <2>2, <2>3, <2>4, <2>5 DEF Collector!Count, Collector!dumpVars
<1> QED
  BY <1>2, <1>3, <1>4, ProgramEffect DEF Kernel, Collector!Next, Collector!Kernel

\* The copied sums are a value the collector's lookup may return.
LEMMA EndLookupImplements ==
  ASSUME PipelineInv, EndLookup, \A f \in Flows : \A x \in Fields : Counter(f)[x] <= MaxCount
  PROVE  Collector!Lookup
<1> USE DEF PipelineInv
<1>1. phase = "lookup" /\ unread = {} /\ cursor \in entries /\ cursor \in Flows
  BY DEF EndLookup, DumpInv, ProgramTypeOK
<1>2. \A x \in Fields : floor[x] <= sums[x] /\ sums[x] <= Counter(cursor)[x]
  <2> SUFFICES ASSUME NEW x \in Fields PROVE floor[x] <= sums[x] /\ sums[x] <= Counter(cursor)[x]
    OBVIOUS
  <2>1. floor[x] <= sums[x] + SumFunction(Ahead(x)) /\ sums[x] <= SumFunction(Copied(x))
    BY <1>1 DEF ReadInv
  <2>2. SumFunction(Ahead(x)) = 0
    <3>1. Ahead(x) \in [Cpus -> Nat] /\ \A c \in Cpus : Ahead(x)[c] = 0
      BY <1>1, HalvesType DEF Ahead
    <3> QED
      BY <3>1, PipelineAssumption, SumOfFunction
  <2>3. Copied(x) = [c \in Cpus |-> slot[cursor][c][x]]
    BY <1>1 DEF Copied
  <2>4. SumFunction(Copied(x)) = Counter(cursor)[x]
    BY <1>1, <2>3, CounterType
  <2>5. floor[x] \in Nat /\ sums[x] \in Nat
    BY DEF DumpInv
  <2> QED
    BY <2>1, <2>2, <2>4, <2>5
<1>3. sums \in [Fields -> 0 .. MaxCount]
  <2>1. \A x \in Fields : sums[x] \in Nat /\ Counter(cursor)[x] \in Nat
    BY <1>1, CounterType DEF DumpInv
  <2>2. \A x \in Fields : sums[x] \in 0 .. MaxCount
    BY <1>1, <1>2, <2>1, PipelineAssumption
  <2> QED
    BY <2>2 DEF DumpInv
<1>4. Collector!AtMost(floor, sums) /\ Collector!AtMost(sums, CounterNow[cursor])
  BY <1>1, <1>2 DEF Collector!AtMost, CounterNow
<1>5. {} = {} \cup ({cursor} \cap DOMAIN totals) /\ {} = {} \ {cursor}
  BY <1>1 DEF DumpInv
<1>6. UNCHANGED CounterNow
  BY SameCounters DEF EndLookup, programVars
<1> QED
  BY <1>1, <1>3, <1>4, <1>5, <1>6
     DEF EndLookup, Collector!Lookup, Collector!kernelVars, programVars

\* No counter exceeds the bound of the exploration.
BoundInv == \A f \in Flows : \A x \in Fields : Counter(f)[x] <= MaxCount

\* The guard of Kernel keeps it.
LEMMA BoundInvariant == PipelineSpec => []BoundInv
<1>1. PipelineInit => BoundInv
  <2> SUFFICES ASSUME PipelineInit, NEW f \in Flows, NEW x \in Fields
               PROVE  Counter(f)[x] <= MaxCount
    BY DEF BoundInv
  <2>1. CounterNow = [g \in Flows |-> Collector!Zero]
    BY CollectorStarts DEF Collector!Init
  <2>2. Counter(f) = Collector!Zero
    BY <2>1 DEF CounterNow
  <2> QED
    BY <2>2, Empties, PipelineAssumption
<1>2. BoundInv /\ [PipelineNext]_pipelineVars => BoundInv'
  <2> SUFFICES ASSUME BoundInv, [PipelineNext]_pipelineVars PROVE BoundInv'
    OBVIOUS
  <2>1. CASE Kernel
    <3>1. \A f \in Flows : \A x \in Fields : Counter(f)'[x] <= MaxCount
      BY <2>1 DEF Kernel, Collector!AtMost
    <3> QED
      BY <3>1 DEF BoundInv
  <2>2. CASE UNCHANGED slot
    <3>1. \A f \in Flows : Counter(f)' = Counter(f)
      BY <2>2 DEF Counter
    <3> QED
      BY <3>1 DEF BoundInv
  <2>3. Kernel \/ UNCHANGED slot
    BY DEF PipelineNext, BeginDump, NextKey, ReadSlot, EndLookup, Checkpoint, Restart,
           pipelineVars, programVars
  <2> QED
    BY <2>1, <2>2, <2>3
<1> QED
  BY <1>1, <1>2, PTL DEF PipelineSpec

\* Every step of the pipeline is a step of the collector or leaves its view alone.
LEMMA StepImplements ==
  ASSUME PipelineInv, PipelineInv', BoundInv, [PipelineNext]_pipelineVars
  PROVE  Collector!Next \/ UNCHANGED Collector!vars
<1> USE DEF Collector!vars, Collector!kernelVars, Collector!dumpVars, Collector!ghostVars
<1>1. CASE Kernel
  BY <1>1, KernelImplements
<1>2. CASE BeginDump
  <2>1. UNCHANGED <<entries, CounterNow>> /\ beginMark' = CounterNow
    BY <1>2, SameCounters DEF BeginDump, programVars
  <2>2. Collector!BeginDump
    BY <1>2, <2>1 DEF BeginDump, Collector!BeginDump, readVars
  <2> QED
    BY <2>2 DEF Collector!Next, Collector!Collector
<1>3. ASSUME NEW f \in Flows, NextKey(f) PROVE Collector!Next
  <2>1. UNCHANGED <<entries, CounterNow>> /\ floor' = CounterNow[f]
    BY <1>3, SameCounters DEF NextKey, programVars, CounterNow
  <2>2. ~Collector!CursorLost
    BY DEF Collector!CursorLost, PipelineInv, DumpInv
  <2>3. Collector!NextKey(f)
    BY <1>3, <2>1, <2>2 DEF NextKey, Collector!NextKey
  <2> QED
    BY <2>3 DEF Collector!Next, Collector!Collector
<1>4. ASSUME NEW c \in Cpus, NEW x \in Fields, ReadSlot(c, x) PROVE UNCHANGED Collector!vars
  <2>1. UNCHANGED <<entries, CounterNow>>
    BY <1>4, SameCounters DEF ReadSlot, programVars
  <2> QED
    BY <1>4, <2>1 DEF ReadSlot, historyVars
<1>5. CASE EndLookup
  <2>1. Collector!Lookup
    BY <1>5, EndLookupImplements DEF BoundInv
  <2> QED
    BY <2>1 DEF Collector!Next, Collector!Collector
<1>6. CASE Checkpoint
  <2>1. UNCHANGED <<entries, CounterNow>>
    BY <1>6, SameCounters DEF Checkpoint, programVars
  <2>2. ~Collector!CursorLost
    BY DEF Collector!CursorLost, PipelineInv, DumpInv
  <2>3. Collector!Checkpoint
    BY <1>6, <2>1, <2>2 DEF Checkpoint, Collector!Checkpoint, Collector!Baseline
  <2> QED
    BY <2>3 DEF Collector!Next, Collector!Collector
<1>7. CASE Restart
  <2>1. UNCHANGED <<entries, CounterNow>>
    BY <1>7, SameCounters DEF Restart, programVars
  <2>2. Collector!Restart
    BY <1>7, <2>1 DEF Restart, Collector!Restart
  <2> QED
    BY <2>2 DEF Collector!Next
<1>8. CASE UNCHANGED pipelineVars
  <2>1. UNCHANGED <<entries, CounterNow>>
    BY <1>8, SameCounters DEF pipelineVars, programVars
  <2> QED
    BY <1>8, <2>1 DEF pipelineVars, pollVars, readVars, historyVars
<1> QED
  BY <1>1, <1>2, <1>3, <1>4, <1>5, <1>6, <1>7, <1>8 DEF PipelineNext

\* Summing per-CPU slots copied at different moments is, for the collector, reading one
\* counter at one moment: the pipeline implements it.
THEOREM PipelineImplementsCollector == PipelineSpec => RefinesCollector
<1>1. PipelineInv /\ PipelineInv' /\ BoundInv /\ [PipelineNext]_pipelineVars
        => [Collector!Next]_Collector!vars
  BY StepImplements
<1> QED
  BY <1>1, CollectorStarts, PipelineInvariant, BoundInvariant, PTL
     DEF PipelineSpec, RefinesCollector, Collector!Spec

---------------------------------------------------------------------------------
(* What is proved of the collector, for the pipeline.                              *)

CollectorFacts ==
  INSTANCE CheckpointCollectorProofs WITH
    Lru <- FALSE, MaxInserts <- Cardinality(Flows), MaxRestarts <- 1,
    live <- entries, ctr <- CounterNow, counted <- CounterNow,
    staleBase <- {}, staleRead <- {}, twice <- {}

\* The pipeline's constants are some the collector's theorems are about.
LEMMA CollectorConstants == CollectorFacts!CollectorAssumption
<1>1. \A fr \in Frames : Payload(fr) \in Nat
  BY FrameFacts
<1>2. Increments \subseteq [Fields -> Nat]
  BY <1>1 DEF Increments, Fields
<1> QED
  BY <1>2, PipelineAssumption, ProgramAssumption
     DEF CollectorFacts!CollectorAssumption, CollectorFacts!Counters

\* The two instances are of one specification.
LEMMA SameCollector == Collector!Spec => CollectorFacts!Spec
<1>1. Collector!Init => CollectorFacts!Init
  BY DEF Collector!Init, CollectorFacts!Init, Collector!Zero, CollectorFacts!Zero,
         Collector!EmptyDict, CollectorFacts!EmptyDict
<1>2. [Collector!Next]_Collector!vars => [CollectorFacts!Next]_CollectorFacts!vars
  <2> USE DEF Collector!kernelVars, Collector!dumpVars, Collector!ghostVars,
              CollectorFacts!kernelVars, CollectorFacts!dumpVars, CollectorFacts!ghostVars
  <2>0. /\ Collector!Zero = CollectorFacts!Zero /\ Collector!EmptyDict = CollectorFacts!EmptyDict
        /\ \A a, b : Collector!Plus(a, b) = CollectorFacts!Plus(a, b)
        /\ \A a, b : Collector!AtMost(a, b) <=> CollectorFacts!AtMost(a, b)
        /\ Collector!CursorLost <=> CollectorFacts!CursorLost
        /\ Collector!Victims = CollectorFacts!Victims
        /\ \A S : Collector!Cardinality(S) = CollectorFacts!Cardinality(S)
    BY Zenon
       DEF Collector!Zero, CollectorFacts!Zero, Collector!EmptyDict, CollectorFacts!EmptyDict,
           Collector!Plus, CollectorFacts!Plus, Collector!AtMost, CollectorFacts!AtMost,
           Collector!CursorLost, CollectorFacts!CursorLost,
           Collector!Victims, CollectorFacts!Victims,
           Collector!Cardinality, CollectorFacts!Cardinality
  <2>1. ASSUME NEW f \in Flows, Collector!Insert(f) PROVE CollectorFacts!Insert(f)
    BY <2>0, <2>1, Zenon DEF Collector!Insert, CollectorFacts!Insert
  <2>2. ASSUME NEW f \in Flows, Collector!Count(f) PROVE CollectorFacts!Count(f)
    BY <2>0, <2>2, Zenon DEF Collector!Count, CollectorFacts!Count
  <2>3. Collector!BeginDump => CollectorFacts!BeginDump
    BY Zenon DEF Collector!BeginDump, CollectorFacts!BeginDump
  <2>4. ASSUME NEW f \in Flows, Collector!NextKey(f) PROVE CollectorFacts!NextKey(f)
    BY <2>0, <2>4, Zenon DEF Collector!NextKey, CollectorFacts!NextKey
  <2>5. Collector!Lookup => CollectorFacts!Lookup
    BY <2>0, Zenon
       DEF Collector!Lookup, CollectorFacts!Lookup, Collector!Aggregate, CollectorFacts!Aggregate,
           Collector!Accumulated, CollectorFacts!Accumulated
  <2>6. Collector!LookupFails => CollectorFacts!LookupFails
    BY Zenon DEF Collector!LookupFails, CollectorFacts!LookupFails
  <2>7. Collector!Rewind => CollectorFacts!Rewind
    BY <2>0, Zenon DEF Collector!Rewind, CollectorFacts!Rewind
  <2>8. Collector!Checkpoint => CollectorFacts!Checkpoint
    <3>1. \A new, old, f : Collector!Row(new, old, f) = CollectorFacts!Row(new, old, f)
      BY <2>0, Zenon DEF Collector!Row, CollectorFacts!Row, Collector!Gain, CollectorFacts!Gain
    <3> QED
      BY <2>0, <3>1
         DEF Collector!Checkpoint, CollectorFacts!Checkpoint, Collector!Baseline,
             CollectorFacts!Baseline
  <2>9. Collector!Restart => CollectorFacts!Restart
    BY <2>0 DEF Collector!Restart, CollectorFacts!Restart
  <2>10. UNCHANGED Collector!vars => UNCHANGED CollectorFacts!vars
    BY Zenon DEF Collector!vars, CollectorFacts!vars
  <2> QED
    BY <2>1, <2>2, <2>3, <2>4, <2>5, <2>6, <2>7, <2>8, <2>9, <2>10
       DEF Collector!Next, CollectorFacts!Next, Collector!Kernel, CollectorFacts!Kernel,
           Collector!Collector, CollectorFacts!Collector
<1> QED
  BY <1>1, <1>2, PTL DEF Collector!Spec, CollectorFacts!Spec

\* The meter of either instance is one.
LEMMA SameMeter == CollectorFacts!MeterSpec => Collector!MeterSpec
<1>1. CollectorFacts!Meter!Init => Collector!Meter!Init
  BY DEF CollectorFacts!Meter!Init, Collector!Meter!Init, CollectorFacts!Meter!Zero,
         Collector!Meter!Zero
<1>2. [CollectorFacts!Meter!Next]_CollectorFacts!Meter!meterVars
        => [Collector!Meter!Next]_Collector!Meter!meterVars
  BY DEF CollectorFacts!Meter!Next, Collector!Meter!Next,
         CollectorFacts!Meter!Count, Collector!Meter!Count,
         CollectorFacts!Meter!Report, Collector!Meter!Report,
         CollectorFacts!Meter!AtMost, Collector!Meter!AtMost,
         CollectorFacts!Meter!Counters, Collector!Meter!Counters,
         CollectorFacts!Meter!meterVars, Collector!Meter!meterVars
<1> QED
  BY <1>1, <1>2, PTL
     DEF CollectorFacts!MeterSpec, Collector!MeterSpec, CollectorFacts!Meter!Spec,
         Collector!Meter!Spec

\* The reader's view of the whole pipeline: what is reported was counted, once.
THEOREM PipelineImplementsMeter == PipelineSpec => RefinesMeter
<1>1. ~FALSE => (CollectorFacts!Spec => CollectorFacts!MeterSpec)
  BY CollectorConstants, CollectorFacts!HashImplementsMeter
<1> QED
  BY <1>1, SameCollector, SameMeter, PipelineImplementsCollector, PTL
     DEF RefinesCollector, RefinesMeter

\* Rows are numbers, and none reports more than the slots hold.
LEMMA RowsWithinSlots ==
  PipelineSpec => [](/\ reported \in [Flows -> [Fields -> Nat]]
                     /\ \A f \in Flows : \A x \in Fields : reported[f][x] <= Counter(f)[x])
<1>1. CollectorFacts!Spec => []CollectorFacts!TypeOK
  BY CollectorConstants, CollectorFacts!TypeCorrect
<1>2. CollectorFacts!Spec => []CollectorFacts!NoOverreport
  BY CollectorConstants, CollectorFacts!NeverOverreports
<1>3. CollectorFacts!TypeOK => reported \in [Flows -> [Fields -> Nat]]
  BY DEF CollectorFacts!TypeOK, CollectorFacts!Counters
<1>4. CollectorFacts!NoOverreport =>
        \A f \in Flows : \A x \in Fields : reported[f][x] <= Counter(f)[x]
  BY DEF CollectorFacts!NoOverreport, CollectorFacts!AtMost, CounterNow
<1> QED
  BY <1>1, <1>2, <1>3, <1>4, SameCollector, PipelineImplementsCollector, PTL DEF RefinesCollector

\* End to end, the rows hold no more packets than reached the CPUs.
THEOREM RowsStayWithinArrivals == PipelineSpec => []RowsWithinArrivals
<1>1. ASSUME ProgramTypeOK, \A c \in Cpus : Balance(c),
             reported \in [Flows -> [Fields -> Nat]],
             \A f \in Flows : \A x \in Fields : reported[f][x] <= Counter(f)[x]
      PROVE  RowsWithinArrivals
  <2> DEFINE rows == [f \in Flows |-> reported[f]["packets"]]
             m == [f \in Flows |-> [c \in Cpus |-> slot[f][c]["packets"]]]
             held == [f \in Flows |-> SumFunction([c \in Cpus |-> m[f][c]])]
             onCpu == [c \in Cpus |-> SumFunction([f \in Flows |-> m[f][c]])]
             came == [c \in Cpus |-> arrived[c]["datagram"] + arrived[c]["fragment"]]
  <2>1. m \in [Flows -> [Cpus -> Nat]]
    BY <1>1, SlotFields DEF Fields
  <2>2. \A f \in Flows : held[f] = Counter(f)["packets"]
    <3>1. \A f \in Flows : [c \in Cpus |-> m[f][c]] = [c \in Cpus |-> slot[f][c]["packets"]]
      OBVIOUS
    <3> QED
      BY <1>1, <3>1, CounterType DEF Fields
  <2>3. rows \in [Flows -> Nat] /\ held \in [Flows -> Nat]
        /\ \A f \in Flows : rows[f] <= held[f]
    BY <1>1, <2>2, CounterType DEF Fields
  <2>4. \A c \in Cpus : onCpu[c] = Packets(c)
    <3> SUFFICES ASSUME NEW c \in Cpus PROVE onCpu[c] = Packets(c)
      OBVIOUS
    <3>1. [f \in Flows |-> m[f][c]] = [f \in Flows |-> slot[f][c].packets]
      BY <1>1, SlotFields
    <3> QED
      BY <3>1 DEF Packets
  <2>5. \A c \in Cpus : onCpu[c] \in Nat /\ came[c] \in Nat /\ onCpu[c] <= came[c]
    <3> SUFFICES ASSUME NEW c \in Cpus
                 PROVE  onCpu[c] \in Nat /\ came[c] \in Nat /\ onCpu[c] <= came[c]
      OBVIOUS
    <3>1. /\ Packets(c) \in Nat /\ drops[c]["MAP_FULL"] \in Nat /\ Accepted(c) \in Nat
          /\ arrived[c]["datagram"] \in Nat /\ arrived[c]["fragment"] \in Nat
      BY <1>1, SumsType DEF ProgramTypeOK, Accepted, Kinds, Reasons
    <3>2. Packets(c) + drops[c]["MAP_FULL"] + Accepted(c) =
            arrived[c]["datagram"] + arrived[c]["fragment"]
      BY <1>1 DEF Balance
    <3> QED
      BY <2>4, <3>1, <3>2
  <2>6. onCpu \in [Cpus -> Nat] /\ came \in [Cpus -> Nat]
    BY <2>5
  <2>7. SumFunction(held) = SumFunction(onCpu)
    <3> HIDE DEF m
    <3> QED
      BY <2>1, ProgramAssumption, PipelineAssumption, SumSwap
  <2> HIDE DEF rows, held, onCpu, came
  <2>8. SumFunction(rows) <= SumFunction(held) /\ SumFunction(onCpu) <= SumFunction(came)
    BY <2>3, <2>5, <2>6, ProgramAssumption, PipelineAssumption, SumOfFunction
  <2>9. /\ SumFunction(rows) \in Nat /\ SumFunction(held) \in Nat
        /\ SumFunction(onCpu) \in Nat /\ SumFunction(came) \in Nat
    BY <2>3, <2>6, ProgramAssumption, PipelineAssumption, SumOfFunction
  <2>10. SumFunction(rows) <= SumFunction(came)
    BY <2>7, <2>8, <2>9
  <2> QED
    BY <2>10 DEF RowsWithinArrivals, rows, came
<1> QED
  BY <1>1, PipelineRunsProgram, Balanced, RowsWithinSlots, PTL

================================================================================

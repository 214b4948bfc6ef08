--------------------------- MODULE ChannelFlowsProofs ---------------------------
(* Proofs about ChannelFlows, for every number of sockets, processes, cgroups and CPUs,  *)
(* every catalog and every capacity of the map.                                        *)
EXTENDS ChannelFlows, SumFacts

---------------------------------------------------------------------------------
(* The inductive invariant.                                                           *)

\* A process number without a process has been given up by one; descriptors are held
\* by processes.
WorldOK ==
  /\ cgroupOf \in [Pids -> Cgroups \cup {NoCgroup}]
  /\ exited \subseteq Pids
  /\ \A p \in Pids : cgroupOf[p] = NoCgroup => p \in exited
  /\ holders \in [Sockets -> SUBSET Pids]
  /\ \A s \in Sockets : \A p \in holders[s] : cgroupOf[p] # NoCgroup

\* A TCP socket has its peer from when it is connected, a UDP socket is bound.
SocketsOK ==
  /\ proto \in {"tcp", "udp"}
  /\ state \in [Sockets -> {0, 1, 2}]
  /\ src \in [Sockets -> Endpoints \cup {Wildcard, None}]
  /\ dst \in [Sockets -> Endpoints \cup {None}]
  /\ proto = "tcp" => \A s \in Sockets : state[s] = 0 <=> dst[s] = None
  /\ proto = "udp" => \A s \in Sockets : src[s] # None

CpuSlot == [n : [Fields -> Nat], pid : Pids \cup {0}, state : {0, 2}]

\* The map is within its capacity and every entry has been counted in by a process.
MapOK ==
  /\ DOMAIN flows \subseteq Keys /\ IsFiniteSet(DOMAIN flows)
  /\ Cardinality(DOMAIN flows) <= Capacity
  /\ \A k \in DOMAIN flows :
       flows[k] \in [Cpus -> CpuSlot] /\ \E c \in Cpus : flows[k][c].pid # 0

\* A process that has never exited still is in the cgroup it was counted under.
Belongs(k, pid) == pid \notin exited \cup {0} => cgroupOf[pid] = k.cgroup

Connected(k) == proto = "tcp" => state[k.sock] # 0

FlowsOK ==
  \A k \in DOMAIN flows : Connected(k) /\ \A c \in Cpus : Belongs(k, flows[k][c].pid)

\* A CPU is in a hook of a process that is where its key says; once it has inserted, the
\* key is there, unless an entry of its socket has been lost.
CallOK ==
  /\ call \in [Cpus -> Calls \cup {Idle}]
  /\ \A c \in Cpus : call[c] \in Calls =>
       /\ cgroupOf[call[c].pid] = call[c].key.cgroup /\ Connected(call[c].key)
       /\ call[c].at = "again" /\ call[c].key.sock \notin lost => call[c].key \in DOMAIN flows

DumpOK ==
  /\ phase \in {"sleep", "rows"}
  /\ todo \subseteq DOMAIN dumped /\ DOMAIN dumped \subseteq Keys
  /\ DOMAIN previous \subseteq Keys /\ DOMAIN pid_units \subseteq Pids
  /\ \A k \in DOMAIN dumped :
       dumped[k].pid \in Pids /\ Belongs(k, dumped[k].pid) /\ Connected(k)

\* u is what the collector may say of process number p in this checkpoint.
RightUnit(p, u) ==
  /\ u \in {UnitIn(g) : g \in owners[p]}
  /\ p \notin exited => u = UnitIn(cgroupOf[p])

CacheOK ==
  /\ owners \in [Pids -> SUBSET (Cgroups \cup {NoCgroup})]
  /\ phase = "rows" =>
       /\ \A p \in Pids : cgroupOf[p] \in owners[p]
       /\ \A p \in DOMAIN pid_units : RightUnit(p, pid_units[p])

RowOK ==
  IsRow =>
    /\ phase = "rows" /\ row.key \in Keys /\ row.pid \in Pids /\ row.n # Nothing
    /\ RightUnit(row.pid, row.unit) /\ Belongs(row.key, row.pid) /\ Connected(row.key)
    /\ row.status = MatchStatus(row.unit, Endpoint(row.key.sock))

---------------------------------------------------------------------------------
(* Processes and sockets.                                                             *)

\* The hooks leave the processes and the collector alone.
LEMMA HookFrame ==
  ASSUME NEW s, NEW p, NEW cpu, Hook(s, p, cpu)
  PROVE  UNCHANGED <<proto, cgroupOf, holders, pollVars, lost, owners, exited>>
BY DEF Hook, tcp_v4_connect_exit, tcp_sendmsg_exit, tcp_recvmsg_exit, udp_recvmsg_exit,
       tcp_set_state_entry, socketVars, ghosts

\* A call of a map helper changes the map and what is left of the hook.
LEMMA CallFrame ==
  ASSUME NEW cpu, InsertFlow(cpu) \/ FindAgain(cpu)
  PROVE  /\ UNCHANGED <<proto, cgroupOf, holders, src, dst, state, consumed, looked, exited>>
         /\ UNCHANGED <<pollVars, owners>>
BY DEF InsertFlow, FindAgain, unchangedByCalls, socketVars

\* What is no process's doing: the calls of the helpers, and the collector.
CallStep == \E cpu \in Cpus : InsertFlow(cpu) \/ FindAgain(cpu)
CollectorStep == read_checkpoint \/ (\E key \in Keys : FlowRow(key)) \/ Return
OtherStep == CallStep \/ CollectorStep \/ UNCHANGED vars

\* It leaves the processes and the sockets alone.
LEMMA OtherFrame ==
  ASSUME OtherStep
  PROVE  UNCHANGED <<proto, cgroupOf, holders, src, dst, state, exited, consumed, looked>>
<1>1. CASE CallStep
  BY <1>1, CallFrame DEF CallStep
<1>2. CASE CollectorStep \/ UNCHANGED vars
  BY <1>2 DEF CollectorStep, read_checkpoint, FlowRow, Return, vars, socketVars, ghosts
<1> QED
  BY <1>1, <1>2 DEF OtherStep

\* The collector and the processes leave the map and the hooks alone.
LEMMA MapFrame ==
  ASSUME [Next]_vars, ~CallStep, \A s \in Sockets, p \in Pids, cpu \in Cpus : ~Hook(s, p, cpu)
  PROVE  UNCHANGED <<flows, call, lost, consumed, looked, proto>>
BY DEF Next, CallStep, Share, Exit, Start, read_checkpoint, FlowRow, Return, vars, ghosts

\* Processes come and go with their descriptors.
LEMMA WorldStep == WorldOK /\ [Next]_vars => WorldOK'
<1> SUFFICES ASSUME WorldOK, [Next]_vars PROVE WorldOK'
  OBVIOUS
<1> USE DEF WorldOK
<1>1. ASSUME NEW s \in Sockets, NEW p \in Pids, NEW cpu \in Cpus, Hook(s, p, cpu)
      PROVE  WorldOK'
  BY <1>1, HookFrame
<1>2. ASSUME NEW s \in Sockets, NEW p \in Pids, Share(s, p) PROVE WorldOK'
  BY <1>2 DEF Share, Alive
<1>3. ASSUME NEW p \in Pids, Exit(p) PROVE WorldOK'
  BY <1>3 DEF Exit
<1>4. ASSUME NEW p \in Pids, NEW u \in Cgroups, Start(p, u) PROVE WorldOK'
  <2>1. u # NoCgroup
    BY ChannelAssumption
  <2> QED
    BY <1>4, <2>1 DEF Start, socketVars
<1>5. CASE OtherStep
  BY <1>5, OtherFrame
<1> QED
  BY <1>1, <1>2, <1>3, <1>4, <1>5 DEF Next, OtherStep, CallStep, CollectorStep

\* A TCP socket is connected once and closed once; nothing else happens to an endpoint.
LEMMA SocketsStep == SocketsOK /\ [Next]_vars => SocketsOK'
<1> SUFFICES ASSUME SocketsOK, [Next]_vars PROVE SocketsOK'
  OBVIOUS
<1> USE DEF SocketsOK
<1>1. ASSUME NEW s \in Sockets, NEW p \in Pids, NEW cpu \in Cpus, Hook(s, p, cpu)
      PROVE  SocketsOK'
  <2>1. ASSUME NEW peer \in Endpoints, tcp_v4_connect_exit(s, p, cpu, peer) PROVE SocketsOK'
    <3>1. peer # None
      BY ChannelAssumption
    <3> QED
      BY <2>1, <3>1 DEF tcp_v4_connect_exit
  <2>2. CASE tcp_sendmsg_exit(s, p, cpu)
    BY <2>2 DEF tcp_sendmsg_exit, socketVars
  <2>3. ASSUME NEW flags \in Flags,
               tcp_recvmsg_exit(s, p, cpu, flags) \/ udp_recvmsg_exit(s, p, cpu, flags)
        PROVE  SocketsOK'
    BY <2>3 DEF tcp_recvmsg_exit, udp_recvmsg_exit, socketVars
  <2>4. CASE tcp_set_state_entry(s, p, cpu)
    BY <2>4 DEF tcp_set_state_entry
  <2> QED
    BY <1>1, <2>1, <2>2, <2>3, <2>4 DEF Hook
<1>2. ASSUME NEW s \in Sockets, NEW p \in Pids, Share(s, p) PROVE SocketsOK'
  BY <1>2 DEF Share
<1>3. ASSUME NEW p \in Pids, Exit(p) PROVE SocketsOK'
  BY <1>3 DEF Exit
<1>4. ASSUME NEW p \in Pids, NEW u \in Cgroups, Start(p, u) PROVE SocketsOK'
  BY <1>4 DEF Start, socketVars
<1>5. CASE OtherStep
  BY <1>5, OtherFrame
<1> QED
  BY <1>1, <1>2, <1>3, <1>4, <1>5 DEF Next, OtherStep, CallStep, CollectorStep

\* What a process number and a socket are to a flow outlasts every step.
LEMMA BelongsKept ==
  ASSUME WorldOK, [Next]_vars, NEW k, NEW p \in Pids \cup {0}, Belongs(k, p)
  PROVE  Belongs(k, p)'
<1> USE DEF Belongs
<1>1. ASSUME NEW s \in Sockets, NEW q \in Pids, NEW cpu \in Cpus, Hook(s, q, cpu)
      PROVE  Belongs(k, p)'
  BY <1>1, HookFrame
<1>2. ASSUME NEW s \in Sockets, NEW q \in Pids, Share(s, q) PROVE Belongs(k, p)'
  BY <1>2 DEF Share
<1>3. ASSUME NEW q \in Pids, Exit(q) PROVE Belongs(k, p)'
  BY <1>3 DEF Exit, WorldOK
<1>4. ASSUME NEW q \in Pids, NEW u \in Cgroups, Start(q, u) PROVE Belongs(k, p)'
  BY <1>4 DEF Start, WorldOK
<1>5. CASE OtherStep
  BY <1>5, OtherFrame
<1> QED
  BY <1>1, <1>2, <1>3, <1>4, <1>5 DEF Next, OtherStep, CallStep, CollectorStep

\* A connected socket stays connected, and its endpoint stays what it is.
LEMMA ConnectedKept ==
  ASSUME SocketsOK, [Next]_vars, NEW k \in Keys, Connected(k)
  PROVE  Connected(k)' /\ Endpoint(k.sock)' = Endpoint(k.sock)
<1> USE DEF Connected
<1>0. k.sock \in Sockets
  BY DEF Keys
<1>1. ASSUME UNCHANGED <<proto, src, dst, state>>
      PROVE  Connected(k)' /\ Endpoint(k.sock)' = Endpoint(k.sock)
  BY <1>1 DEF Endpoint, TcpEndpoint, UdpEndpoint
<1>2. ASSUME NEW s \in Sockets, NEW p \in Pids, NEW cpu \in Cpus, Hook(s, p, cpu)
      PROVE  Connected(k)' /\ Endpoint(k.sock)' = Endpoint(k.sock)
  <2>1. ASSUME NEW peer \in Endpoints, tcp_v4_connect_exit(s, p, cpu, peer)
        PROVE  Connected(k)' /\ Endpoint(k.sock)' = Endpoint(k.sock)
    <3>1. /\ proto = "tcp" /\ proto' = proto /\ state[s] = 0
          /\ dst' = [dst EXCEPT ![s] = peer] /\ state' = [state EXCEPT ![s] = 1]
      BY <2>1 DEF tcp_v4_connect_exit
    <3>2. k.sock # s
      BY <3>1
    <3>3. dst'[k.sock] = dst[k.sock] /\ state'[k.sock] = state[k.sock]
      BY <1>0, <3>1, <3>2 DEF SocketsOK
    <3> QED
      BY <3>1, <3>3 DEF Endpoint, TcpEndpoint
  <2>2. CASE tcp_sendmsg_exit(s, p, cpu)
    BY <1>1, <2>2 DEF tcp_sendmsg_exit, socketVars
  <2>3. ASSUME NEW flags \in Flags,
               tcp_recvmsg_exit(s, p, cpu, flags) \/ udp_recvmsg_exit(s, p, cpu, flags)
        PROVE  Connected(k)' /\ Endpoint(k.sock)' = Endpoint(k.sock)
    BY <1>1, <2>3 DEF tcp_recvmsg_exit, udp_recvmsg_exit, socketVars
  <2>4. CASE tcp_set_state_entry(s, p, cpu)
    <3>1. UNCHANGED <<proto, src, dst>> /\ state' = [state EXCEPT ![s] = 2]
      BY <2>4 DEF tcp_set_state_entry
    <3>2. Endpoint(k.sock)' = Endpoint(k.sock)
      BY <3>1 DEF Endpoint, TcpEndpoint, UdpEndpoint
    <3>3. Connected(k)'
      BY <1>0, <3>1 DEF SocketsOK
    <3> QED
      BY <3>2, <3>3
  <2> QED
    BY <1>2, <2>1, <2>2, <2>3, <2>4 DEF Hook
<1>3. ASSUME NEW s \in Sockets, NEW p \in Pids, Share(s, p)
      PROVE  UNCHANGED <<proto, src, dst, state>>
  BY <1>3 DEF Share
<1>4. ASSUME NEW p \in Pids, Exit(p) PROVE UNCHANGED <<proto, src, dst, state>>
  BY <1>4 DEF Exit
<1>5. ASSUME NEW p \in Pids, NEW u \in Cgroups, Start(p, u)
      PROVE  UNCHANGED <<proto, src, dst, state>>
  BY <1>5 DEF Start, socketVars
<1>6. CASE OtherStep
  BY <1>1, <1>6, OtherFrame
<1> QED
  BY <1>1, <1>2, <1>3, <1>4, <1>5, <1>6 DEF Next, OtherStep, CallStep, CollectorStep

---------------------------------------------------------------------------------
(* What a hook does to the map.                                                       *)

\* An entry that one CPU has counted in, by inc.
EntryOf(cpu, p, inc) ==
  [c \in Cpus |-> IF c = cpu THEN Bump(EmptySlot, p, inc) ELSE EmptySlot]

\* The flow key has a slot of this CPU that gains inc, found or inserted.
Gains(key, cpu, p, inc) ==
  \/ key \in DOMAIN flows /\ Add(key, cpu, p, inc)
  \/ /\ key \notin DOMAIN flows
     /\ \E map \in Admit(key) : flows' = With(map, key, EntryOf(cpu, p, inc))

Marks(found, cpu) ==
  flows' = [k \in DOMAIN flows |->
              IF k \in found THEN [flows[k] EXCEPT ![cpu].state = 2] ELSE flows[k]]

\* The key a hook counts under: that of the socket and of the cgroup that runs.
KeyOf(s, p) == [sock |-> s, cgroup |-> cgroupOf[p]]

\* What one hook adds, and what it adds to the bytes received.
LEMMA OneIsCounters ==
  /\ One("rx") \in [Fields -> Nat] /\ One("rx")["rx"] = 1
  /\ One("tx") \in [Fields -> Nat] /\ One("tx")["rx"] = 0
  /\ One("connections") \in [Fields -> Nat] /\ One("connections")["rx"] = 0
BY DEF One, Nothing, Fields

GhostsOK ==
  /\ consumed \in [Sockets -> Nat] /\ looked \in [Sockets -> Nat]
  /\ reported \in [Sockets -> Nat]

\* A hook whose key is found adds to its entry, and otherwise begins to insert one.
Accounts(key, cpu, p, inc) ==
  \/ key \in DOMAIN flows /\ Add(key, cpu, p, inc) /\ UNCHANGED call
  \/ /\ key \notin DOMAIN flows /\ UNCHANGED flows /\ call[cpu].at = "idle"
     /\ call' = [call EXCEPT ![cpu] = [at |-> "insert", key |-> key, pid |-> p, inc |-> inc]]

\* A read takes one unit from its socket; a look at UDP data takes none.
LEMMA ReadTakes ==
  ASSUME GhostsOK, SocketsOK, NEW s \in Sockets, NEW flags \in Flags, Read(s, flags), UNCHANGED proto
  PROVE  /\ consumed' \in [Sockets -> Nat] /\ looked' \in [Sockets -> Nat]
         /\ \A t \in Sockets \ {s} : Taken(t)' = Taken(t)
         /\ Taken(s)' = IF proto = "tcp" \/ flags = "" THEN Taken(s) + 1 ELSE Taken(s)
<1>1. CASE flags = ""
  <2>1. consumed' = [consumed EXCEPT ![s] = @ + 1] /\ looked' = looked
    BY <1>1 DEF Read
  <2>2. Taken(s)' = Taken(s) + 1
    BY <2>1 DEF Taken, GhostsOK
  <2>3. \A t \in Sockets \ {s} : Taken(t)' = Taken(t)
    BY <2>1 DEF Taken, GhostsOK
  <2>4. consumed' \in [Sockets -> Nat] /\ looked' \in [Sockets -> Nat]
    BY <2>1 DEF GhostsOK
  <2> QED
    BY <1>1, <2>2, <2>3, <2>4
<1>2. CASE flags # ""
  <2>1. looked' = [looked EXCEPT ![s] = @ + 1] /\ consumed' = consumed
    BY <1>2 DEF Read
  <2>2. Taken(s)' = IF proto = "tcp" THEN Taken(s) + 1 ELSE Taken(s)
    BY <2>1 DEF Taken, GhostsOK
  <2>3. \A t \in Sockets \ {s} : Taken(t)' = Taken(t)
    BY <2>1 DEF Taken, GhostsOK
  <2>4. consumed' \in [Sockets -> Nat] /\ looked' \in [Sockets -> Nat]
    BY <2>1 DEF GhostsOK
  <2> QED
    BY <1>2, <2>2, <2>3, <2>4
<1> QED
  BY <1>1, <1>2

\* A hook counts what it takes under its process's cgroup, marks an entry, or does
\* nothing.
LEMMA HookEffect ==
  ASSUME WorldOK, SocketsOK, GhostsOK,
         NEW s \in Sockets, NEW p \in Pids, NEW cpu \in Cpus, Hook(s, p, cpu)
  PROVE  /\ cgroupOf[p] # NoCgroup /\ KeyOf(s, p) \in Keys
         /\ consumed' \in [Sockets -> Nat] /\ looked' \in [Sockets -> Nat]
         /\ \A t \in Sockets \ {s} : Taken(t)' = Taken(t)
         /\ \/ UNCHANGED <<flows, call>> /\ Taken(s)' = Taken(s)
            \/ /\ UNCHANGED call /\ Taken(s)' = Taken(s)
               /\ \E found \in SUBSET (DOMAIN flows) : Marks(found, cpu)
            \/ /\ Connected(KeyOf(s, p))'
               /\ \E inc \in [Fields -> Nat] :
                    Accounts(KeyOf(s, p), cpu, p, inc) /\ Taken(s)' = Taken(s) + inc["rx"]
<1>1. cgroupOf[p] # NoCgroup
  BY DEF Hook, WorldOK, tcp_v4_connect_exit, tcp_sendmsg_exit, tcp_recvmsg_exit,
         udp_recvmsg_exit, tcp_set_state_entry, Alive
<1>2. KeyOf(s, p) \in Keys
  BY <1>1 DEF KeyOf, Keys, WorldOK
<1>3. \A t \in Sockets : Taken(t) \in Nat
  BY DEF Taken, GhostsOK
<1> DEFINE Effect ==
         /\ consumed' \in [Sockets -> Nat] /\ looked' \in [Sockets -> Nat]
         /\ \A t \in Sockets \ {s} : Taken(t)' = Taken(t)
         /\ \/ UNCHANGED <<flows, call>> /\ Taken(s)' = Taken(s)
            \/ /\ UNCHANGED call /\ Taken(s)' = Taken(s)
               /\ \E found \in SUBSET (DOMAIN flows) : Marks(found, cpu)
            \/ /\ Connected(KeyOf(s, p))'
               /\ \E inc \in [Fields -> Nat] :
                    Accounts(KeyOf(s, p), cpu, p, inc) /\ Taken(s)' = Taken(s) + inc["rx"]
<1>4. ASSUME NEW inc, Account({KeyOf(s, p)}, cpu, p, inc), Call(cpu)
      PROVE  Accounts(KeyOf(s, p), cpu, p, inc)
  BY <1>4 DEF Account, Accounts, Call
<1>5. KeyOf(s, p).sock = s
  BY DEF KeyOf
<1>6. ASSUME UNCHANGED <<proto, consumed, looked>>
      PROVE  /\ consumed' \in [Sockets -> Nat] /\ looked' \in [Sockets -> Nat]
             /\ \A t \in Sockets : Taken(t)' = Taken(t)
  BY <1>6 DEF Taken, GhostsOK
<1>7. ASSUME NEW peer \in Endpoints, tcp_v4_connect_exit(s, p, cpu, peer)
      PROVE  Effect
  <2>1. /\ Account({KeyOf(s, p)}, cpu, p, One("connections")) /\ Call(cpu)
        /\ state' = [state EXCEPT ![s] = 1]
        /\ UNCHANGED <<cgroupOf, proto, consumed, looked>>
    BY <1>7 DEF tcp_v4_connect_exit, KeyOf, ghosts
  <2>2. Connected(KeyOf(s, p))'
    BY <1>5, <2>1 DEF Connected, SocketsOK, KeyOf
  <2>3. Taken(s)' = Taken(s) + One("connections")["rx"]
    BY <1>3, <1>6, <2>1, OneIsCounters
  <2> QED
    BY <1>4, <1>6, <2>1, <2>2, <2>3, OneIsCounters
<1>8. ASSUME tcp_sendmsg_exit(s, p, cpu) PROVE Effect
  <2>1. /\ Account(fill_tcp_key(s, p), cpu, p, One("tx")) /\ Call(cpu)
        /\ state[s] = 1 /\ proto = "tcp"
        /\ UNCHANGED <<state, cgroupOf, proto, consumed, looked>>
    BY <1>8 DEF tcp_sendmsg_exit, socketVars, ghosts
  <2>2. fill_tcp_key(s, p) = {KeyOf(s, p)}
    BY <2>1 DEF SocketsOK, fill_tcp_key, KeyOf
  <2>3. Connected(KeyOf(s, p))'
    BY <1>5, <2>1 DEF Connected, KeyOf
  <2>4. Taken(s)' = Taken(s) + One("tx")["rx"]
    BY <1>3, <1>6, <2>1, OneIsCounters
  <2> QED
    BY <1>4, <1>6, <2>1, <2>2, <2>3, <2>4, OneIsCounters
<1>9. ASSUME NEW flags \in Flags, tcp_recvmsg_exit(s, p, cpu, flags)
      PROVE  Effect
  <2>1. /\ Account(fill_tcp_key(s, p), cpu, p, One("rx")) /\ Call(cpu) /\ Read(s, flags)
        /\ state[s] # 0 /\ proto = "tcp" /\ UNCHANGED <<state, cgroupOf>> /\ UNCHANGED proto
    BY <1>9 DEF tcp_recvmsg_exit, socketVars
  <2>2. fill_tcp_key(s, p) = {KeyOf(s, p)}
    BY <2>1 DEF SocketsOK, fill_tcp_key, KeyOf
  <2>3. Connected(KeyOf(s, p))'
    BY <1>5, <2>1 DEF Connected, KeyOf
  <2>4. /\ consumed' \in [Sockets -> Nat] /\ looked' \in [Sockets -> Nat]
        /\ \A t \in Sockets \ {s} : Taken(t)' = Taken(t)
        /\ Taken(s)' = Taken(s) + One("rx")["rx"]
    BY <2>1, ReadTakes, OneIsCounters
  <2> QED
    BY <1>4, <2>1, <2>2, <2>3, <2>4, OneIsCounters
<1>10. ASSUME NEW flags \in Flags, udp_recvmsg_exit(s, p, cpu, flags)
       PROVE  Effect
  <2>1. /\ IF flags = "" THEN Account(fill_udp_key(s, p), cpu, p, One("rx"))
                        ELSE UNCHANGED <<flows, call>>
        /\ proto = "udp" /\ src[s] # None /\ Call(cpu) /\ Read(s, flags)
        /\ UNCHANGED <<proto, cgroupOf>> /\ UNCHANGED proto
    BY <1>10 DEF udp_recvmsg_exit
  <2>2. fill_udp_key(s, p) = {KeyOf(s, p)}
    BY <2>1 DEF fill_udp_key, KeyOf
  <2>3. Connected(KeyOf(s, p))'
    BY <2>1 DEF Connected
  <2>4. /\ consumed' \in [Sockets -> Nat] /\ looked' \in [Sockets -> Nat]
        /\ \A t \in Sockets \ {s} : Taken(t)' = Taken(t)
        /\ Taken(s)' = IF flags = "" THEN Taken(s) + One("rx")["rx"] ELSE Taken(s)
    BY <2>1, ReadTakes, OneIsCounters
  <2> QED
    BY <1>4, <2>1, <2>2, <2>3, <2>4, OneIsCounters
<1>11. ASSUME tcp_set_state_entry(s, p, cpu) PROVE Effect
  <2>1. /\ Marks(fill_tcp_key(s, p) \cap DOMAIN flows, cpu)
        /\ UNCHANGED <<proto, consumed, looked>> /\ UNCHANGED call
    BY <1>11 DEF tcp_set_state_entry, Marks, ghosts
  <2> QED
    BY <1>6, <2>1
<1>12. Effect
  <2> HIDE DEF Effect
  <2> QED
    BY <1>7, <1>8, <1>9, <1>10, <1>11 DEF Hook
<1> QED
  BY <1>1, <1>2, <1>12

\* The slots a hook leaves in an entry.
LEMMA BumpType ==
  ASSUME NEW p \in Pids, NEW inc \in [Fields -> Nat], NEW slot \in CpuSlot
  PROVE  /\ Bump(slot, p, inc) \in CpuSlot
         /\ Bump(slot, p, inc).pid = (IF slot.pid = 0 THEN p ELSE slot.pid)
         /\ Bump(slot, p, inc).pid # 0
         /\ Bump(slot, p, inc).n = Plus(slot.n, inc)
<1>1. p # 0
  BY ChannelAssumption
<1>2. Plus(slot.n, inc) \in [Fields -> Nat]
  BY DEF Plus, CpuSlot
<1> QED
  BY <1>1, <1>2 DEF Bump, CpuSlot

\* An empty slot is one.
LEMMA EmptySlotType == EmptySlot \in CpuSlot /\ EmptySlot.pid = 0 /\ EmptySlot.n = Nothing
BY DEF EmptySlot, CpuSlot, Nothing

\* The entry that is inserted has counted nothing yet.
LEMMA NewEntryIsEntry ==
  ASSUME NEW cpu \in Cpus, NEW p \in Pids
  PROVE  NewEntry(cpu, p) = EntryOf(cpu, p, Nothing) /\ Nothing \in [Fields -> Nat]
<1>1. Plus(Nothing, Nothing) = Nothing
  BY DEF Plus, Nothing
<1>2. Bump(EmptySlot, p, Nothing) = [EmptySlot EXCEPT !.pid = p]
  <2>1. EmptySlot.n = Nothing /\ EmptySlot.pid = 0
    BY EmptySlotType
  <2>2. Bump(EmptySlot, p, Nothing) =
          [EmptySlot EXCEPT !.n = Plus(EmptySlot.n, Nothing),
                            !.pid = IF EmptySlot.pid = 0 THEN p ELSE EmptySlot.pid]
    BY DEF Bump
  <2>3. [EmptySlot EXCEPT !.n = EmptySlot.n] = EmptySlot
    BY DEF EmptySlot
  <2> QED
    BY <1>1, <2>1, <2>2, <2>3
<1>3. [EmptySlot EXCEPT !.pid = 0] = EmptySlot
  BY DEF EmptySlot
<1> QED
  BY <1>2, <1>3 DEF NewEntry, EntryOf, Nothing

\* A new entry has been counted in by its process.
LEMMA EntryOfType ==
  ASSUME NEW cpu \in Cpus, NEW p \in Pids, NEW inc \in [Fields -> Nat]
  PROVE  /\ EntryOf(cpu, p, inc) \in [Cpus -> CpuSlot]
         /\ EntryOf(cpu, p, inc)[cpu].pid = p
         /\ \A c \in Cpus : EntryOf(cpu, p, inc)[c].pid \in {0, p}
BY BumpType, EmptySlotType DEF EntryOf

\* What is left of a map that makes room for key.
LEMMA AdmitFacts ==
  ASSUME MapOK, NEW key, NEW map \in Admit(key)
  PROVE  /\ DOMAIN map \subseteq DOMAIN flows /\ IsFiniteSet(DOMAIN map)
         /\ Cardinality(DOMAIN map) < Capacity
         /\ \A k \in DOMAIN map : map[k] = flows[k]
<1>1. IsFiniteSet(DOMAIN flows) /\ Cardinality(DOMAIN flows) <= Capacity
      /\ Cardinality(DOMAIN flows) \in Nat /\ Capacity \in Nat
  BY ChannelAssumption, FS_CardinalityType DEF MapOK
<1>2. CASE Cardinality(DOMAIN flows) < Capacity
  <2>1. map = flows
    BY <1>2 DEF Admit
  <2> QED
    BY <1>1, <1>2, <2>1
<1>3. CASE ~(Cardinality(DOMAIN flows) < Capacity)
  <2>1. PICK rest \in (SUBSET DOMAIN flows) \ {DOMAIN flows} : map = Restrict(flows, rest)
    BY <1>3 DEF Admit
  <2>2. IsFiniteSet(rest) /\ Cardinality(rest) <= Cardinality(DOMAIN flows)
        /\ Cardinality(rest) # Cardinality(DOMAIN flows) /\ Cardinality(rest) \in Nat
    BY <1>1, <2>1, FS_Subset, FS_CardinalityType
  <2>3. Cardinality(rest) < Capacity
    BY <1>1, <2>2
  <2>4. map = [k \in rest |-> flows[k]]
    BY <2>1 DEF Restrict
  <2> QED
    BY <2>1, <2>2, <2>3, <2>4
<1> QED
  BY <1>2, <1>3

\* The map after a gain: one entry more or changed, some perhaps evicted.
LEMMA GainsShape ==
  ASSUME MapOK, NEW key \in Keys, NEW cpu \in Cpus, NEW p \in Pids,
         NEW inc \in [Fields -> Nat], Gains(key, cpu, p, inc)
  PROVE  /\ key \in DOMAIN flows' /\ DOMAIN flows' \subseteq DOMAIN flows \cup {key}
         /\ IsFiniteSet(DOMAIN flows') /\ Cardinality(DOMAIN flows') <= Capacity
         /\ \A k \in DOMAIN flows' \ {key} : flows'[k] = flows[k]
         /\ IF key \in DOMAIN flows
            THEN flows'[key] = [flows[key] EXCEPT ![cpu] = Bump(@, p, inc)]
            ELSE flows'[key] = EntryOf(cpu, p, inc)
<1>1. CASE key \in DOMAIN flows /\ flows' = [flows EXCEPT ![key][cpu] = Bump(@, p, inc)]
  BY <1>1 DEF MapOK
<1>2. CASE /\ key \notin DOMAIN flows
           /\ \E map \in Admit(key) : flows' = With(map, key, EntryOf(cpu, p, inc))
  <2>1. PICK map \in Admit(key) : flows' = With(map, key, EntryOf(cpu, p, inc))
    BY <1>2
  <2>2. /\ DOMAIN map \subseteq DOMAIN flows /\ IsFiniteSet(DOMAIN map)
        /\ Cardinality(DOMAIN map) < Capacity
        /\ \A k \in DOMAIN map : map[k] = flows[k]
    BY AdmitFacts
  <2>3. flows' = [k \in DOMAIN map \cup {key} |->
                    IF k = key THEN EntryOf(cpu, p, inc) ELSE map[k]]
    BY <2>1 DEF With
  <2>4. DOMAIN flows' = DOMAIN map \cup {key}
    BY <2>3
  <2>5. IsFiniteSet(DOMAIN flows') /\ Cardinality(DOMAIN flows') <= Capacity
    <3>1. /\ IsFiniteSet(DOMAIN map \cup {key})
          /\ Cardinality(DOMAIN map \cup {key}) <= Cardinality(DOMAIN map) + 1
      BY <2>2, FS_AddElement, FS_CardinalityType
    <3>2. Cardinality(DOMAIN map) \in Nat /\ Cardinality(DOMAIN map \cup {key}) \in Nat
          /\ Capacity \in Nat
      BY <2>2, <3>1, FS_CardinalityType, ChannelAssumption
    <3> QED
      BY <2>2, <2>4, <3>1, <3>2
  <2> QED
    BY <1>2, <2>2, <2>3, <2>4, <2>5
<1> QED
  BY <1>1, <1>2 DEF Gains, Add

\* The state of a slot is marked, nothing else.
LEMMA MarksShape ==
  ASSUME MapOK, NEW found \in SUBSET (DOMAIN flows), NEW cpu \in Cpus, Marks(found, cpu)
  PROVE  /\ DOMAIN flows' = DOMAIN flows
         /\ \A k \in DOMAIN flows :
              /\ flows'[k] \in [Cpus -> CpuSlot]
              /\ \A c \in Cpus : flows'[k][c].pid = flows[k][c].pid
                                   /\ flows'[k][c].n = flows[k][c].n
<1>1. flows' = [k \in DOMAIN flows |->
                  IF k \in found THEN [flows[k] EXCEPT ![cpu].state = 2] ELSE flows[k]]
  BY DEF Marks
<1>2. \A slot \in CpuSlot : /\ [slot EXCEPT !.state = 2] \in CpuSlot
                            /\ [slot EXCEPT !.state = 2].pid = slot.pid
                            /\ [slot EXCEPT !.state = 2].n = slot.n
  BY DEF CpuSlot
<1>3. ASSUME NEW k \in DOMAIN flows
      PROVE  /\ flows'[k] \in [Cpus -> CpuSlot]
             /\ \A c \in Cpus : flows'[k][c].pid = flows[k][c].pid
                                  /\ flows'[k][c].n = flows[k][c].n
  <2>1. flows[k] \in [Cpus -> CpuSlot]
    BY DEF MapOK
  <2>2. CASE k \in found
    <3>1. flows'[k] = [flows[k] EXCEPT ![cpu] = [flows[k][cpu] EXCEPT !.state = 2]]
      BY <1>1, <2>2
    <3> QED
      BY <1>2, <2>1, <3>1
  <2>3. CASE k \notin found
    BY <1>1, <2>1, <2>3
  <2> QED
    BY <2>2, <2>3
<1> QED
  BY <1>1, <1>3

\* What the calls of the helpers do: an entry is inserted, maybe at the cost of others,
\* or added to; or the map stays, and the hook is over or has yet to look again.
LEMMA CallEffect ==
  ASSUME MapOK, CallOK, NEW cpu \in Cpus, InsertFlow(cpu) \/ FindAgain(cpu)
  PROVE  /\ call[cpu] \in Calls
         /\ LET key == call[cpu].key
                p == call[cpu].pid
                inc == call[cpu].inc
            IN \/ /\ call[cpu].at = "insert" /\ call' = [call EXCEPT ![cpu].at = "again"]
                  /\ \/ /\ UNCHANGED flows
                        /\ key \in DOMAIN flows \/ key.sock \in lost'
                        /\ lost \subseteq lost'
                     \/ /\ key \notin DOMAIN flows /\ Gains(key, cpu, p, Nothing)
                        /\ lost' = lost \cup {k.sock : k \in DOMAIN flows \ DOMAIN flows'}
               \/ /\ call[cpu].at = "again" /\ call' = [call EXCEPT ![cpu] = Idle]
                  /\ UNCHANGED lost
                  /\ \/ key \in DOMAIN flows /\ Gains(key, cpu, p, inc)
                     \/ key \notin DOMAIN flows /\ UNCHANGED flows
<1>1. call[cpu].at # "idle"
  BY DEF InsertFlow, FindAgain
<1>2. call[cpu] \in Calls
  BY <1>1 DEF CallOK, Idle
<1>3. call[cpu].key \in Keys /\ call[cpu].pid \in Pids
  BY <1>2 DEF Calls
<1>4. CASE InsertFlow(cpu)
  <2> DEFINE key == call[cpu].key
             p == call[cpu].pid
  <2>1. call[cpu].at = "insert" /\ call' = [call EXCEPT ![cpu].at = "again"]
    BY <1>4 DEF InsertFlow
  <2>2. CASE UNCHANGED flows
    <3>1. \/ key \in DOMAIN flows /\ lost' = lost
          \/ lost' = lost \cup {key.sock}
          \/ /\ key \notin DOMAIN flows
             /\ \E map \in Admit(key) : flows' = With(map, key, NewEntry(cpu, p))
      BY <1>4 DEF InsertFlow
    <3>2. \A map : key \in DOMAIN With(map, key, NewEntry(cpu, p))
      BY DEF With
    <3>3. lost \subseteq lost' /\ (key \in DOMAIN flows \/ key.sock \in lost')
      BY <2>2, <3>1, <3>2
    <3> QED
      BY <1>2, <2>1, <2>2, <3>3
  <2>3. CASE ~UNCHANGED flows
    <3>1. PICK map \in Admit(key) :
            /\ key \notin DOMAIN flows /\ flows' = With(map, key, NewEntry(cpu, p))
            /\ lost' = lost \cup {k.sock : k \in DOMAIN flows \ DOMAIN map}
      BY <1>4, <2>3 DEF InsertFlow
    <3>2. Gains(key, cpu, p, Nothing)
      BY <1>3, <3>1, NewEntryIsEntry DEF Gains
    <3>3. DOMAIN flows' = DOMAIN map \cup {key}
      BY <3>1 DEF With
    <3>4. DOMAIN flows \ DOMAIN map = DOMAIN flows \ DOMAIN flows'
      BY <3>1, <3>3
    <3> QED
      BY <1>2, <2>1, <3>1, <3>2, <3>4
  <2> QED
    BY <2>2, <2>3
<1>5. CASE FindAgain(cpu)
  <2>1. /\ call[cpu].at = "again" /\ call' = [call EXCEPT ![cpu] = Idle]
        /\ \/ call[cpu].key \in DOMAIN flows
                /\ Add(call[cpu].key, cpu, call[cpu].pid, call[cpu].inc)
           \/ call[cpu].key \notin DOMAIN flows /\ UNCHANGED flows
        /\ UNCHANGED lost
    BY <1>5 DEF FindAgain
  <2> QED
    BY <1>2, <2>1 DEF Gains
<1> QED
  BY <1>4, <1>5

\* Whatever changes the map: a mark, or a gain of a key whose process is where it says.
LEMMA MapChanges ==
  ASSUME WorldOK, SocketsOK, GhostsOK, MapOK, CallOK, [Next]_vars, ~UNCHANGED flows
  PROVE  \/ \E cpu \in Cpus, found \in SUBSET (DOMAIN flows) : Marks(found, cpu)
         \/ \E key \in Keys, cpu \in Cpus, p \in Pids, inc \in [Fields -> Nat] :
              Gains(key, cpu, p, inc) /\ Connected(key)' /\ Belongs(key, p)'
<1>1. ASSUME NEW s \in Sockets, NEW p \in Pids, NEW cpu \in Cpus, Hook(s, p, cpu)
      PROVE  \/ \E found \in SUBSET (DOMAIN flows) : Marks(found, cpu)
             \/ \E key \in Keys, inc \in [Fields -> Nat] :
                  Gains(key, cpu, p, inc) /\ Connected(key)' /\ Belongs(key, p)'
  <2>1. PICK key \in Keys : key = KeyOf(s, p)
    BY <1>1, HookEffect
  <2>2. Belongs(key, p)'
    BY <1>1, <2>1, HookFrame DEF Belongs, KeyOf
  <2>3. ASSUME Connected(KeyOf(s, p))' PROVE Connected(key)'
    BY <1>1, <2>1, <2>3, HookFrame DEF Connected, KeyOf
  <2> QED
    BY <1>1, <2>1, <2>2, <2>3, HookEffect DEF Accounts, Gains
<1>2. ASSUME NEW cpu \in Cpus, InsertFlow(cpu) \/ FindAgain(cpu)
      PROVE  \E key \in Keys, p \in Pids, inc \in [Fields -> Nat] :
               Gains(key, cpu, p, inc) /\ Connected(key)' /\ Belongs(key, p)'
  <2>1. PICK key \in Keys, p \in Pids, inc \in [Fields -> Nat] :
          key = call[cpu].key /\ p = call[cpu].pid /\ inc = call[cpu].inc
    BY <1>2, CallEffect DEF Calls
  <2>2. cgroupOf[p] = key.cgroup /\ Connected(key)
    BY <1>2, <2>1, CallEffect DEF CallOK
  <2>3. Connected(key)' /\ Belongs(key, p)'
    BY <1>2, <2>2, CallFrame DEF Connected, Belongs
  <2>4. Nothing \in [Fields -> Nat]
    BY DEF Nothing
  <2>5. Gains(key, cpu, p, Nothing) \/ Gains(key, cpu, p, inc)
    BY <1>2, <2>1, CallEffect
  <2> QED
    BY <2>3, <2>4, <2>5
<1> QED
  BY <1>1, <1>2, MapFrame DEF CallStep

\* The map keeps its shape.
LEMMA MapStep ==
  ASSUME WorldOK, SocketsOK, GhostsOK, MapOK, CallOK, [Next]_vars
  PROVE  MapOK'
<1>1. CASE UNCHANGED flows
  BY <1>1 DEF MapOK
<1>2. ASSUME NEW key \in Keys, NEW cpu \in Cpus, NEW p \in Pids, NEW inc \in [Fields -> Nat],
             Gains(key, cpu, p, inc)
      PROVE  MapOK'
  <2>1. /\ key \in DOMAIN flows' /\ DOMAIN flows' \subseteq DOMAIN flows \cup {key}
        /\ IsFiniteSet(DOMAIN flows') /\ Cardinality(DOMAIN flows') <= Capacity
        /\ \A k \in DOMAIN flows' \ {key} : flows'[k] = flows[k]
        /\ IF key \in DOMAIN flows
           THEN flows'[key] = [flows[key] EXCEPT ![cpu] = Bump(@, p, inc)]
           ELSE flows'[key] = EntryOf(cpu, p, inc)
    BY <1>2, GainsShape
  <2>2. flows'[key] \in [Cpus -> CpuSlot] /\ \E c \in Cpus : flows'[key][c].pid # 0
    <3>1. CASE key \in DOMAIN flows
      <4>1. flows[key] \in [Cpus -> CpuSlot] /\ flows[key][cpu] \in CpuSlot
        BY <3>1 DEF MapOK
      <4> QED
        BY <2>1, <3>1, <4>1, BumpType
    <3>2. CASE key \notin DOMAIN flows
      <4>1. p # 0
        BY ChannelAssumption
      <4>2. /\ EntryOf(cpu, p, inc) \in [Cpus -> CpuSlot]
            /\ EntryOf(cpu, p, inc)[cpu].pid # 0
        BY <4>1, EntryOfType
      <4> QED
        BY <2>1, <3>2, <4>2
    <3> QED
      BY <3>1, <3>2
  <2>3. ASSUME NEW k \in DOMAIN flows'
        PROVE  flows'[k] \in [Cpus -> CpuSlot] /\ \E c \in Cpus : flows'[k][c].pid # 0
    <3>1. CASE k = key
      BY <2>2, <3>1
    <3>2. CASE k # key
      BY <2>1, <3>2 DEF MapOK
    <3> QED
      BY <3>1, <3>2
  <2> QED
    BY <2>1, <2>3 DEF MapOK
<1>3. ASSUME NEW cpu \in Cpus, NEW found \in SUBSET (DOMAIN flows), Marks(found, cpu) PROVE MapOK'
  BY <1>3, MarksShape DEF MapOK
<1> QED
  BY <1>1, <1>2, <1>3, MapChanges

\* Entries belong to their processes' cgroups, over exits and new processes.
LEMMA FlowsStep ==
  ASSUME WorldOK, SocketsOK, GhostsOK, MapOK, CallOK, FlowsOK, [Next]_vars
  PROVE  FlowsOK'
<1>1. \A k \in Keys : Connected(k) => Connected(k)'
  BY ConnectedKept
<1>2. \A k \in Keys : \A q \in Pids \cup {0} : Belongs(k, q) => Belongs(k, q)'
  BY BelongsKept
<1>3. \A k \in DOMAIN flows : k \in Keys /\ \A c \in Cpus : flows[k][c].pid \in Pids \cup {0}
  BY DEF MapOK, CpuSlot
<1>4. \A k \in DOMAIN flows :
        Connected(k)' /\ \A q \in Pids \cup {0} :
                           (\E c \in Cpus : q = flows[k][c].pid) => Belongs(k, q)'
  BY <1>1, <1>2, <1>3 DEF FlowsOK
<1>5. ASSUME NEW k, NEW c \in Cpus,
             \E q \in Pids \cup {0} : q = flows'[k][c].pid /\ Belongs(k, q)'
      PROVE  Belongs(k, flows[k][c].pid)'
  BY <1>5 DEF Belongs
<1>6. ASSUME \A k \in DOMAIN flows' :
               /\ Connected(k)'
               /\ \A c \in Cpus : \E q \in Pids \cup {0} :
                    q = flows'[k][c].pid /\ Belongs(k, q)'
      PROVE  FlowsOK'
  BY <1>5, <1>6 DEF FlowsOK
<1>7. CASE UNCHANGED flows
  BY <1>3, <1>4, <1>6, <1>7
<1>8. ASSUME NEW key \in Keys, NEW cpu \in Cpus, NEW p \in Pids, NEW inc \in [Fields -> Nat],
             Gains(key, cpu, p, inc), Connected(key)', Belongs(key, p)'
      PROVE  FlowsOK'
  <2>1. /\ DOMAIN flows' \subseteq DOMAIN flows \cup {key}
        /\ \A k \in DOMAIN flows' \ {key} : flows'[k] = flows[k]
        /\ IF key \in DOMAIN flows
           THEN flows'[key] = [flows[key] EXCEPT ![cpu] = Bump(@, p, inc)]
           ELSE flows'[key] = EntryOf(cpu, p, inc)
    BY <1>8, GainsShape
  <2>2. \A c \in Cpus : \E q \in Pids \cup {0} : q = flows'[key][c].pid /\ Belongs(key, q)'
    <3>1. CASE key \in DOMAIN flows
      <4>1. flows[key] \in [Cpus -> CpuSlot]
        BY <3>1 DEF MapOK
      <4>2. flows'[key] = [flows[key] EXCEPT ![cpu] = Bump(flows[key][cpu], p, inc)]
        BY <2>1, <3>1
      <4>3. Bump(flows[key][cpu], p, inc).pid \in {p, flows[key][cpu].pid}
        BY <4>1, BumpType
      <4>4. \A c \in Cpus : flows'[key][c].pid \in {p, flows[key][c].pid}
        BY <4>1, <4>2, <4>3
      <4> QED
        BY <1>3, <1>4, <1>8, <3>1, <4>4
    <3>2. CASE key \notin DOMAIN flows
      <4>1. \A c \in Cpus : flows'[key][c].pid \in {p, 0}
        BY <2>1, <3>2, EntryOfType
      <4>2. Belongs(key, 0)'
        BY DEF Belongs
      <4> QED
        BY <1>8, <4>1, <4>2
    <3> QED
      BY <3>1, <3>2
  <2>3. \A k \in DOMAIN flows' \ {key} : \A c \in Cpus :
          \E q \in Pids \cup {0} : q = flows'[k][c].pid /\ Belongs(k, q)'
    BY <1>3, <1>4, <2>1
  <2> QED
    BY <1>4, <1>6, <1>8, <2>1, <2>2, <2>3
<1>9. ASSUME NEW cpu \in Cpus, NEW found \in SUBSET (DOMAIN flows), Marks(found, cpu) PROVE FlowsOK'
  <2>1. /\ DOMAIN flows' = DOMAIN flows
        /\ \A k \in DOMAIN flows : \A c \in Cpus : flows'[k][c].pid = flows[k][c].pid
    BY <1>9, MarksShape
  <2> QED
    BY <1>3, <1>4, <1>6, <2>1
<1> QED
  BY <1>7, <1>8, <1>9, MapChanges

\* Hooks under way keep their processes, keys and sockets.
LEMMA HooksStep ==
  ASSUME WorldOK, SocketsOK, GhostsOK, MapOK, CallOK, [Next]_vars
  PROVE  CallOK'
<1>1. \A k \in Keys : Connected(k) => Connected(k)'
  BY ConnectedKept
<1> DEFINE Good(c) == /\ cgroupOf[call[c].pid] = call[c].key.cgroup /\ Connected(call[c].key)
                      /\ call[c].at = "again" /\ call[c].key.sock \notin lost =>
                           call[c].key \in DOMAIN flows
<1>2. ASSUME NEW c \in Cpus, call[c] \in Calls
      PROVE  /\ Good(c) /\ call[c].key \in Keys /\ call[c].pid \in Pids
             /\ call[c].key.cgroup \in Cgroups /\ cgroupOf[call[c].pid] # NoCgroup
  BY <1>2, ChannelAssumption DEF CallOK, Calls, Keys
<1>3. ASSUME NEW c \in Cpus, call[c] \in Calls, UNCHANGED cgroupOf, call'[c].key = call[c].key,
             call'[c].pid = call[c].pid
      PROVE  (cgroupOf[call[c].pid] = call[c].key.cgroup /\ Connected(call[c].key))'
  <2>1. PICK k \in Keys : k = call[c].key
    BY <1>2, <1>3
  <2>2. Connected(k)'
    BY <1>1, <1>2, <1>3, <2>1
  <2> QED
    BY <1>2, <1>3, <2>1, <2>2 DEF Connected
<1>4. ASSUME UNCHANGED <<flows, call, lost>>,
             \A c \in Cpus : call[c] \in Calls => UNCHANGED cgroupOf[call[c].pid]
      PROVE  CallOK'
  <2>1. ASSUME NEW c \in Cpus, call[c] \in Calls PROVE Connected(call[c].key)'
    <3>1. PICK k \in Keys : k = call[c].key
      BY <1>2, <2>1
    <3>2. Connected(k)'
      BY <1>1, <1>2, <2>1, <3>1
    <3> QED
      BY <1>4, <3>1, <3>2 DEF Connected
  <2> QED
    BY <1>2, <1>4, <2>1 DEF CallOK
<1>5. CASE UNCHANGED <<cgroupOf, flows, call, lost>>
  BY <1>4, <1>5
<1>6. ASSUME NEW p \in Pids, Exit(p) PROVE CallOK'
  <2>1. /\ cgroupOf' = [cgroupOf EXCEPT ![p] = NoCgroup] /\ UNCHANGED <<flows, call, lost>>
        /\ \A c \in Cpus : call[c].at # "idle" => call[c].pid # p
    BY <1>6 DEF Exit, ghosts
  <2>2. \A c \in Cpus : call[c] \in Calls => call[c].at # "idle"
    BY DEF Calls
  <2> QED
    BY <1>2, <1>4, <2>1, <2>2 DEF WorldOK
<1>7. ASSUME NEW p \in Pids, NEW g \in Cgroups, Start(p, g) PROVE CallOK'
  <2>1. /\ cgroupOf' = [cgroupOf EXCEPT ![p] = g] /\ UNCHANGED <<flows, call, lost>>
        /\ cgroupOf[p] = NoCgroup
    BY <1>7 DEF Start, ghosts
  <2> QED
    BY <1>2, <1>4, <2>1 DEF WorldOK
<1>8. ASSUME NEW s \in Sockets, NEW p \in Pids, NEW cpu \in Cpus, Hook(s, p, cpu) PROVE CallOK'
  <2>1. UNCHANGED <<cgroupOf, lost, proto>>
    BY <1>8, HookFrame
  <2>2. DOMAIN flows \subseteq DOMAIN flows'
    BY <1>8, HookEffect, MarksShape DEF Accounts, Add
  <2>3. CASE UNCHANGED call
    BY <1>2, <1>3, <2>1, <2>2, <2>3 DEF CallOK
  <2>4. ASSUME NEW inc \in [Fields -> Nat], NEW key \in Keys, key = KeyOf(s, p), Connected(key)',
               call' = [call EXCEPT ![cpu] = [at |-> "insert", key |-> key, pid |-> p, inc |-> inc]]
        PROVE  CallOK'
    <3>1. call'[cpu] = [at |-> "insert", key |-> key, pid |-> p, inc |-> inc]
      BY <2>4 DEF CallOK
    <3>2. /\ call'[cpu] \in Calls /\ call'[cpu].key = key /\ call'[cpu].pid = p
          /\ call'[cpu].at = "insert"
      BY <3>1 DEF Calls
    <3>3. cgroupOf'[p] = key.cgroup
      BY <2>1, <2>4 DEF KeyOf
    <3>4. Connected(call[cpu].key)'
      BY <2>4, <3>2 DEF Connected
    <3>5. \A c \in Cpus \ {cpu} : call'[c] = call[c]
      BY <2>4 DEF CallOK
    <3>6. call' \in [Cpus -> Calls \cup {Idle}]
      BY <2>4, <3>1, <3>2 DEF CallOK
    <3>7. ASSUME NEW c \in Cpus, call'[c] \in Calls PROVE Good(c)'
      <4>1. CASE c = cpu
        BY <3>2, <3>3, <3>4, <4>1
      <4>2. CASE c # cpu
        BY <1>2, <1>3, <2>1, <2>2, <3>5, <3>7, <4>2
      <4> QED
        BY <4>1, <4>2
    <3> QED
      BY <3>6, <3>7 DEF CallOK
  <2>5. PICK key \in Keys : key = KeyOf(s, p)
    BY <1>8, HookEffect
  <2>6. Connected(KeyOf(s, p))' => Connected(key)'
    BY <2>1, <2>5 DEF Connected, KeyOf
  <2> QED
    BY <1>8, <2>3, <2>4, <2>5, <2>6, HookEffect DEF Accounts
<1>9. ASSUME NEW cpu \in Cpus, InsertFlow(cpu) \/ FindAgain(cpu) PROVE CallOK'
  <2> DEFINE key == call[cpu].key
             p == call[cpu].pid
             inc == call[cpu].inc
  <2>1. /\ call[cpu] \in Calls /\ call[cpu].key \in Keys /\ p \in Pids
        /\ inc \in [Fields -> Nat]
    BY <1>9, CallEffect DEF Calls
  <2>2. UNCHANGED <<cgroupOf, proto>>
    BY <1>9, CallFrame
  <2>3. \A c \in Cpus \ {cpu} : call'[c] = call[c]
    BY <1>9, CallEffect DEF CallOK
  <2>4. /\ lost \subseteq lost'
        /\ \A k \in DOMAIN flows : k.sock \notin lost' => k \in DOMAIN flows'
    <3>1. \A i \in [Fields -> Nat] : Gains(key, cpu, p, i) /\ key \in DOMAIN flows =>
            DOMAIN flows \subseteq DOMAIN flows'
      BY DEF Gains, Add
    <3> QED
      BY <1>9, <2>1, <3>1, CallEffect
  <2>5. call'[cpu] = Idle \/ call'[cpu] = [call[cpu] EXCEPT !.at = "again"]
    BY <1>9, CallEffect DEF CallOK
  <2>6. /\ [call[cpu] EXCEPT !.at = "again"] \in Calls
        /\ [call[cpu] EXCEPT !.at = "again"].key = key
        /\ [call[cpu] EXCEPT !.at = "again"].pid = p
        /\ [call[cpu] EXCEPT !.at = "again"].at = "again"
    BY <2>1 DEF Calls
  <2>7. call' \in [Cpus -> Calls \cup {Idle}]
    BY <1>9, <2>3, <2>5, <2>6, CallEffect DEF CallOK
  <2>8. Idle \notin Calls
    BY DEF Idle, Calls
  <2>9. call'[cpu] # Idle => key \in DOMAIN flows' \/ key.sock \in lost'
    <3>1. CASE call[cpu].at = "again"
      BY <1>9, <2>1, <3>1, CallEffect DEF CallOK
    <3>2. CASE call[cpu].at = "insert"
      <4>1. \/ UNCHANGED flows /\ (key \in DOMAIN flows \/ key.sock \in lost')
            \/ Gains(key, cpu, p, Nothing)
        BY <1>9, <3>2, CallEffect
      <4>2. Gains(key, cpu, p, Nothing) => key \in DOMAIN flows'
        BY DEF Gains, Add, With
      <4> QED
        BY <4>1, <4>2
    <3> QED
      BY <2>1, <3>1, <3>2 DEF Calls
  <2>10. ASSUME NEW c \in Cpus, call'[c] \in Calls PROVE Good(c)'
    <3>1. CASE c = cpu
      <4>1. call'[cpu].key = key /\ call'[cpu].pid = p /\ call'[cpu] # Idle
        BY <2>5, <2>6, <2>8, <2>10, <3>1
      <4> QED
        BY <1>3, <2>1, <2>2, <2>9, <3>1, <4>1
    <3>2. CASE c # cpu
      BY <1>2, <1>3, <2>2, <2>3, <2>4, <2>10, <3>2
    <3> QED
      BY <3>1, <3>2
  <2> QED
    BY <2>7, <2>10 DEF CallOK
<1> QED
  BY <1>5, <1>6, <1>7, <1>8, <1>9
  DEF Next, Share, read_checkpoint, FlowRow, Return, vars, ghosts

---------------------------------------------------------------------------------
(* The collector.                                                                     *)

\* The CPUs are finitely many.
LEMMA FiniteCpus == IsFiniteSet(Cpus) /\ Cpus \subseteq Nat
<1>1. NumCpus \in Nat
  BY ChannelAssumption
<1>2. IsFiniteSet(1 .. NumCpus)
  BY <1>1, FS_Interval
<1> QED
  BY <1>1, <1>2 DEF Cpus

\* The process of an entry is one of those that have counted in it.
LEMMA ParsedPid ==
  ASSUME NEW slots \in [Cpus -> CpuSlot], \E c \in Cpus : slots[c].pid # 0
  PROVE  /\ parse_flow_value(slots).pid \in Pids
         /\ \E c \in Cpus : parse_flow_value(slots).pid = slots[c].pid
<1> DEFINE cpus == {c \in Cpus : slots[c]["pid"] # 0}
<1>1. cpus # {} /\ cpus \in SUBSET Nat
  BY FiniteCpus
<1>2. PICK m \in cpus : \A y \in cpus : m <= y
  BY <1>1, LeastNatural
<1>3. Min(cpus) \in cpus
  BY <1>2 DEF Min
<1>4. parse_flow_value(slots).pid = slots[Min(cpus)]["pid"]
  BY <1>1 DEF parse_flow_value, FirstOf
<1>5. slots[Min(cpus)].pid \in Pids \cup {0} /\ slots[Min(cpus)].pid # 0
  BY <1>3 DEF CpuSlot
<1> QED
  BY <1>3, <1>4, <1>5

\* A dump holds entries' processes; what it says of them lasts.
LEMMA DumpStep ==
  ASSUME WorldOK, SocketsOK, MapOK, FlowsOK, DumpOK, [Next]_vars
  PROVE  DumpOK'
<1>1. \A k \in Keys : Connected(k) => Connected(k)'
  BY ConnectedKept
<1>2. \A k \in Keys : \A q \in Pids \cup {0} : Belongs(k, q) => Belongs(k, q)'
  BY BelongsKept
<1>3. ASSUME NEW k, NEW q, q = dumped'[k].pid, Belongs(k, q)'
      PROVE  Belongs(k, dumped[k].pid)'
  BY <1>3 DEF Belongs
<1> DEFINE Entry(k) == /\ Connected(k)'
                       /\ \E q \in Pids : q = dumped'[k].pid /\ Belongs(k, q)'
<1>4. ASSUME /\ phase' \in {"sleep", "rows"}
             /\ todo' \subseteq DOMAIN dumped' /\ DOMAIN dumped' \subseteq Keys
             /\ DOMAIN previous' \subseteq Keys /\ DOMAIN pid_units' \subseteq Pids
             /\ \A k \in DOMAIN dumped' : Entry(k)
      PROVE  DumpOK'
  BY <1>3, <1>4 DEF DumpOK
<1>5. \A k \in DOMAIN dumped : UNCHANGED dumped => Entry(k)
  BY <1>1, <1>2 DEF DumpOK
<1> HIDE DEF Entry
<1>6. CASE UNCHANGED pollVars
  BY <1>4, <1>5, <1>6 DEF pollVars, DumpOK
<1>7. CASE read_checkpoint
  <2>1. /\ dumped' = [k \in DOMAIN flows |-> parse_flow_value(flows[k])]
        /\ todo' = DOMAIN flows /\ phase' = "rows" /\ pid_units' = [p \in {} |-> ""]
        /\ previous' = Restrict(previous, DOMAIN previous \cap DOMAIN flows)
    BY <1>7 DEF read_checkpoint
  <2>2. ASSUME NEW k \in DOMAIN flows PROVE Entry(k)
    <3>1. k \in Keys /\ Connected(k)'
      BY <1>1 DEF MapOK, FlowsOK
    <3>2. flows[k] \in [Cpus -> CpuSlot] /\ \E c \in Cpus : flows[k][c].pid # 0
      BY DEF MapOK
    <3>3. /\ parse_flow_value(flows[k]).pid \in Pids
          /\ \E c \in Cpus : parse_flow_value(flows[k]).pid = flows[k][c].pid
      BY <3>2, ParsedPid
    <3>4. PICK q \in Pids : q = parse_flow_value(flows[k]).pid
      BY <3>3
    <3>5. Belongs(k, q)
      BY <3>3, <3>4 DEF FlowsOK
    <3>6. q = dumped'[k].pid
      BY <2>1, <3>4
    <3> QED
      BY <1>2, <3>1, <3>5, <3>6 DEF Entry
  <2>3. DOMAIN previous' \subseteq DOMAIN previous
    BY <2>1 DEF Restrict
  <2> QED
    BY <1>4, <2>1, <2>2, <2>3 DEF DumpOK, MapOK
<1>8. ASSUME NEW key \in Keys, FlowRow(key) PROVE DumpOK'
  <2>1. /\ todo' = todo \ {key} /\ key \in todo /\ UNCHANGED <<phase, dumped>>
        /\ previous' = With(previous, key, dumped[key].n)
        /\ \/ UNCHANGED pid_units
           \/ pid_units' = With(pid_units, dumped[key].pid, UnitForPid(dumped[key].pid))
    BY <1>8 DEF FlowRow
  <2>2. DOMAIN previous' = DOMAIN previous \cup {key}
    BY <2>1 DEF With
  <2>3. DOMAIN pid_units' \subseteq DOMAIN pid_units \cup {dumped[key].pid}
    BY <2>1 DEF With
  <2> QED
    BY <1>4, <1>5, <2>1, <2>2, <2>3 DEF DumpOK
<1>9. CASE Return
  BY <1>4, <1>9 DEF Return, DumpOK
<1> QED
  BY <1>6, <1>7, <1>8, <1>9, HookFrame, CallFrame DEF Next, Share, Exit, Start, vars

\* What is known of a process number's unit stays right while rows are written.
LEMMA RightUnitKept ==
  ASSUME WorldOK, CacheOK, [Next]_vars, phase = "rows", phase' = "rows",
         NEW q \in Pids, NEW u, RightUnit(q, u)
  PROVE  RightUnit(q, u)'
<1> USE DEF RightUnit
<1>1. ASSUME NEW s \in Sockets, NEW p \in Pids, NEW cpu \in Cpus, Hook(s, p, cpu)
      PROVE  RightUnit(q, u)'
  BY <1>1, HookFrame
<1>2. ASSUME NEW s \in Sockets, NEW p \in Pids, Share(s, p) PROVE RightUnit(q, u)'
  BY <1>2 DEF Share
<1>3. ASSUME NEW p \in Pids, Exit(p) PROVE RightUnit(q, u)'
  <2>1. /\ cgroupOf' = [cgroupOf EXCEPT ![p] = NoCgroup] /\ exited' = exited \cup {p}
        /\ owners' = [owners EXCEPT ![p] = @ \cup {NoCgroup}]
    BY <1>3 DEF Exit, Belonging
  <2>2. owners[q] \subseteq owners'[q] /\ (q # p => cgroupOf'[q] = cgroupOf[q])
    BY <2>1 DEF CacheOK, WorldOK
  <2> QED
    BY <2>1, <2>2
<1>4. ASSUME NEW p \in Pids, NEW w \in Cgroups, Start(p, w) PROVE RightUnit(q, u)'
  <2>1. /\ cgroupOf' = [cgroupOf EXCEPT ![p] = w] /\ exited' = exited /\ p \in exited
        /\ owners' = [owners EXCEPT ![p] = @ \cup {w}]
    BY <1>4 DEF Start, Belonging, WorldOK
  <2>2. owners[q] \subseteq owners'[q] /\ (q # p => cgroupOf'[q] = cgroupOf[q])
    BY <2>1 DEF CacheOK, WorldOK
  <2> QED
    BY <2>1, <2>2
<1>5. CASE (\E key \in Keys : FlowRow(key)) \/ UNCHANGED vars
  BY <1>5 DEF FlowRow, vars
<1>6. CASE CallStep
  BY <1>6, CallFrame DEF CallStep
<1>7. ~read_checkpoint /\ ~Return
  BY DEF read_checkpoint, Return
<1> QED
  BY <1>1, <1>2, <1>3, <1>4, <1>5, <1>6, <1>7 DEF Next, CallStep

\* What the collector finds out about a process now is right.
LEMMA LookupIsRight ==
  ASSUME WorldOK, CacheOK, phase = "rows", NEW q \in Pids
  PROVE  RightUnit(q, UnitForPid(q))
<1>1. q # 0
  BY ChannelAssumption
<1>2. CASE q \in DOMAIN pid_units
  BY <1>1, <1>2 DEF CacheOK, UnitForPid
<1>3. CASE q \notin DOMAIN pid_units
  <2>1. UnitForPid(q) = UnitIn(cgroupOf[q])
    BY <1>1, <1>3 DEF UnitForPid, unit_for_pid
  <2>2. cgroupOf[q] \in owners[q]
    BY DEF CacheOK
  <2> QED
    BY <2>1, <2>2 DEF RightUnit
<1> QED
  BY <1>2, <1>3

\* The collector remembers nothing of earlier checkpoints.
LEMMA CacheStep ==
  ASSUME WorldOK, DumpOK, DumpOK', CacheOK, [Next]_vars
  PROVE  CacheOK'
<1> DEFINE OwnersOK == owners \in [Pids -> SUBSET (Cgroups \cup {NoCgroup})]
           Present == \A p \in Pids : cgroupOf[p] \in owners[p]
           Right == \A p \in DOMAIN pid_units : RightUnit(p, pid_units[p])
<1>1. OwnersOK' /\ (phase' = "rows" => Present')
  <2>1. ASSUME NEW s \in Sockets, NEW p \in Pids, NEW cpu \in Cpus, Hook(s, p, cpu)
        PROVE  OwnersOK' /\ (phase' = "rows" => Present')
    BY <2>1, HookFrame DEF CacheOK, pollVars
  <2>2. ASSUME NEW s \in Sockets, NEW p \in Pids, Share(s, p)
        PROVE  OwnersOK' /\ (phase' = "rows" => Present')
    BY <2>2 DEF Share, CacheOK, pollVars
  <2>3. ASSUME NEW p \in Pids, Exit(p) PROVE OwnersOK' /\ (phase' = "rows" => Present')
    BY <2>3 DEF Exit, Belonging, CacheOK, pollVars, WorldOK, DumpOK
  <2>4. ASSUME NEW p \in Pids, NEW w \in Cgroups, Start(p, w)
        PROVE  OwnersOK' /\ (phase' = "rows" => Present')
    BY <2>4 DEF Start, Belonging, CacheOK, pollVars, WorldOK, DumpOK
  <2>5. CASE read_checkpoint
    BY <2>5 DEF read_checkpoint, WorldOK
  <2>6. CASE (\E key \in Keys : FlowRow(key)) \/ UNCHANGED vars
    BY <2>6 DEF FlowRow, vars, CacheOK, pollVars
  <2>7. CASE Return
    BY <2>7 DEF Return
  <2>8. CASE CallStep
    BY <2>8, CallFrame DEF CallStep, CacheOK, pollVars
  <2> QED
    BY <2>1, <2>2, <2>3, <2>4, <2>5, <2>6, <2>7, <2>8 DEF Next, CallStep
<1>2. ASSUME phase' = "rows" PROVE Right'
  <2>1. CASE phase = "rows" /\ UNCHANGED pid_units
    <3>1. \A p \in DOMAIN pid_units : p \in Pids /\ RightUnit(p, pid_units[p])
      BY <2>1 DEF CacheOK, DumpOK
    <3>2. \A p \in Pids : \A u : RightUnit(p, u) => RightUnit(p, u)'
      BY <1>2, <2>1, RightUnitKept
    <3>3. ASSUME NEW p \in DOMAIN pid_units PROVE RightUnit(p, pid_units[p])'
      <4>1. PICK u : u = pid_units[p]
        OBVIOUS
      <4>2. RightUnit(p, u)'
        BY <3>1, <3>2, <4>1
      <4> QED
        BY <2>1, <4>1, <4>2 DEF RightUnit
    <3> QED
      BY <2>1, <3>3
  <2>2. ASSUME NEW key \in Keys, FlowRow(key) PROVE Right'
    <3>1. /\ phase = "rows" /\ key \in todo
          /\ UNCHANGED <<cgroupOf, exited, owners>>
          /\ \/ UNCHANGED pid_units
             \/ pid_units' = With(pid_units, dumped[key].pid, UnitForPid(dumped[key].pid))
      BY <2>2 DEF FlowRow
    <3>2. RightUnit(dumped[key].pid, UnitForPid(dumped[key].pid))
      BY <3>1, LookupIsRight DEF DumpOK
    <3>3. \A p \in DOMAIN pid_units' : RightUnit(p, pid_units'[p])
      BY <3>1, <3>2 DEF With, CacheOK
    <3> QED
      BY <3>1, <3>3 DEF RightUnit
  <2>3. CASE read_checkpoint
    BY <2>3 DEF read_checkpoint
  <2>4. CASE Return
    BY <1>2, <2>4 DEF Return
  <2>5. \/ \E key \in Keys : FlowRow(key)
        \/ read_checkpoint \/ Return \/ UNCHANGED <<phase, pid_units>>
    BY HookFrame, CallFrame DEF Next, Share, Exit, Start, vars, pollVars
  <2> QED
    BY <1>2, <2>1, <2>2, <2>3, <2>4, <2>5
<1> QED
  BY <1>1, <1>2 DEF CacheOK

\* A row says the right thing for as long as it is the last.
LEMMA RowStep ==
  ASSUME WorldOK, SocketsOK, DumpOK, CacheOK, RowOK, [Next]_vars
  PROVE  RowOK'
<1>1. CASE phase = "rows" /\ phase' = "rows" /\ UNCHANGED row
  <2> SUFFICES ASSUME IsRow PROVE RowOK'
    BY <1>1 DEF RowOK, IsRow
  <2>1. PICK k \in Keys, q \in Pids, u \in {row.unit} :
          k = row.key /\ q = row.pid /\ u = row.unit
    BY DEF RowOK
  <2>2. /\ RightUnit(q, u) /\ Belongs(k, q) /\ Connected(k)
        /\ row.n # Nothing /\ row.status = MatchStatus(u, Endpoint(k.sock))
    BY <2>1 DEF RowOK
  <2>3. /\ RightUnit(q, u)' /\ Belongs(k, q)' /\ Connected(k)'
        /\ Endpoint(k.sock)' = Endpoint(k.sock)
    BY <1>1, <2>2, RightUnitKept, BelongsKept, ConnectedKept
  <2>4. k = row'.key /\ q = row'.pid /\ u = row'.unit
    BY <1>1, <2>1
  <2>5. RightUnit(row.pid, row.unit)'
    BY <2>3, <2>4 DEF RightUnit
  <2>6. Belongs(row.key, row.pid)' /\ Connected(row.key)'
    BY <2>3, <2>4 DEF Belongs, Connected
  <2>7. (row.status = MatchStatus(row.unit, Endpoint(row.key.sock)))'
    <3>1. row'.status = MatchStatus(u, Endpoint(k.sock)')
      BY <1>1, <2>2, <2>3
    <3> QED
      BY <2>4, <3>1 DEF Endpoint, TcpEndpoint, UdpEndpoint
  <2> QED
    BY <1>1, <2>1, <2>2, <2>4, <2>5, <2>6, <2>7 DEF RowOK
<1>2. ASSUME NEW key \in Keys, FlowRow(key) PROVE RowOK'
  <2> DEFINE value == dumped[key]
             delta == Delta(value.n, previous[key])
             unit == UnitForPid(value.pid)
  <2>1. /\ phase = "rows" /\ key \in todo
        /\ UNCHANGED <<phase, proto, cgroupOf, src, dst, state, exited, owners>>
    BY <1>2 DEF FlowRow, socketVars
  <2>2. \/ row' = NoRow
        \/ /\ delta # Nothing
           /\ row' = [key |-> key, n |-> delta, unit |-> unit, pid |-> value.pid,
                      state |-> value.state, endpoint |-> Endpoint(key.sock),
                      status |-> MatchStatus(unit, Endpoint(key.sock))]
    BY <1>2 DEF FlowRow
  <2>3. value.pid \in Pids /\ Belongs(key, value.pid) /\ Connected(key)
    BY <2>1 DEF DumpOK
  <2>4. RightUnit(value.pid, unit)
    BY <2>1, <2>3, LookupIsRight
  <2> HIDE DEF value, delta, unit
  <2>5. CASE row' = NoRow
    BY <2>5 DEF RowOK, IsRow
  <2>6. CASE row' # NoRow
    <3>1. /\ row'.key = key /\ row'.n = delta /\ row'.unit = unit /\ row'.pid = value.pid
          /\ row'.status = MatchStatus(unit, Endpoint(key.sock)) /\ delta # Nothing
      BY <2>2, <2>6
    <3>2. RightUnit(row.pid, row.unit)'
      BY <2>1, <2>4, <3>1 DEF RightUnit
    <3>3. Belongs(row.key, row.pid)' /\ Connected(row.key)'
      BY <2>1, <2>3, <3>1 DEF Belongs, Connected
    <3>4. (row.status = MatchStatus(row.unit, Endpoint(row.key.sock)))'
      BY <2>1, <3>1 DEF Endpoint, TcpEndpoint, UdpEndpoint
    <3> QED
      BY <2>1, <2>3, <3>1, <3>2, <3>3, <3>4 DEF RowOK
  <2> QED
    BY <2>5, <2>6
<1>3. CASE read_checkpoint \/ Return
  BY <1>3 DEF read_checkpoint, Return, RowOK, IsRow
<1>4. \/ \E key \in Keys : FlowRow(key)
      \/ read_checkpoint \/ Return \/ UNCHANGED <<phase, row>>
  BY HookFrame, CallFrame DEF Next, Share, Exit, Start, vars, pollVars
<1>5. CASE UNCHANGED <<phase, row>>
  <2>1. CASE row = NoRow
    BY <1>5, <2>1 DEF RowOK, IsRow
  <2>2. CASE row # NoRow
    BY <1>1, <1>5, <2>2 DEF RowOK, IsRow
  <2> QED
    BY <2>1, <2>2
<1> QED
  BY <1>2, <1>3, <1>4, <1>5

---------------------------------------------------------------------------------
(* What is counted.                                                                   *)

\* What the dump of an entry says was received, sent, or connected.
Count(slots, x) == parse_flow_value(slots).n[x]

\* It is a natural number, and nothing for empty slots.
LEMMA CountType ==
  ASSUME NEW slots \in [Cpus -> CpuSlot], NEW x \in Fields
  PROVE  Count(slots, x) \in Nat
<1> DEFINE f == [c \in Cpus |-> slots[c].n[x]]
<1>1. f \in [Cpus -> Nat]
  BY DEF CpuSlot
<1>2. Count(slots, x) = SumFunction(f)
  BY DEF Count, parse_flow_value
<1> HIDE DEF f
<1> QED
  BY <1>1, <1>2, FiniteCpus, SumOfFunction

\* A slot that gains inc makes the entry's counter gain it.
LEMMA CountOfChanged ==
  ASSUME NEW old \in [Cpus -> CpuSlot], NEW new \in [Cpus -> CpuSlot], NEW cpu \in Cpus,
         NEW x \in Fields, NEW n \in Nat, new[cpu].n[x] = old[cpu].n[x] + n,
         \A c \in Cpus \ {cpu} : new[c].n = old[c].n
  PROVE  Count(new, x) = Count(old, x) + n
<1> DEFINE f == [c \in Cpus |-> old[c].n[x]]
           g == [c \in Cpus |-> new[c].n[x]]
<1>1. f \in [Cpus -> Nat] /\ g \in [Cpus -> Nat]
  BY DEF CpuSlot
<1>2. g[cpu] = f[cpu] + n /\ \A c \in Cpus \ {cpu} : g[c] = f[c]
  OBVIOUS
<1>3. Count(old, x) = SumFunction(f) /\ Count(new, x) = SumFunction(g)
  BY DEF Count, parse_flow_value
<1>4. IsFiniteSet(Cpus)
  BY FiniteCpus
<1> HIDE DEF f, g
<1>5. SumFunction(g) = SumFunction(f) + n
  BY <1>1, <1>2, <1>4, SumGrows
<1> QED
  BY <1>3, <1>5

\* An entry without a count.
LEMMA CountOfEmpty ==
  ASSUME NEW x \in Fields
  PROVE  /\ [c \in Cpus |-> EmptySlot] \in [Cpus -> CpuSlot]
         /\ Count([c \in Cpus |-> EmptySlot], x) = 0
<1> DEFINE empty == [c \in Cpus |-> EmptySlot]
           f == [c \in Cpus |-> empty[c].n[x]]
<1>1. empty \in [Cpus -> CpuSlot]
  BY EmptySlotType
<1>2. f \in [Cpus -> Nat] /\ \A c \in Cpus : f[c] = 0
  BY EmptySlotType DEF Nothing
<1>3. Count(empty, x) = SumFunction(f)
  BY DEF Count, parse_flow_value
<1> HIDE DEF f
<1>4. SumFunction(f) = 0
  BY <1>2, FiniteCpus, SumOfFunction
<1> QED
  BY <1>1, <1>3, <1>4

\* What a hook counts is in the dump at once, by whatever CPU and beside evictions.
LEMMA GainCounts ==
  ASSUME MapOK, NEW key \in Keys, NEW cpu \in Cpus, NEW p \in Pids,
         NEW inc \in [Fields -> Nat], Gains(key, cpu, p, inc), NEW x \in Fields
  PROVE  /\ key \in DOMAIN flows'
         /\ Count(flows'[key], x) =
              inc[x] + (IF key \in DOMAIN flows THEN Count(flows[key], x) ELSE 0)
<1>1. /\ key \in DOMAIN flows'
      /\ IF key \in DOMAIN flows
         THEN flows'[key] = [flows[key] EXCEPT ![cpu] = Bump(@, p, inc)]
         ELSE flows'[key] = EntryOf(cpu, p, inc)
  BY GainsShape
<1>2. inc[x] \in Nat
  OBVIOUS
<1>3. CASE key \in DOMAIN flows
  <2>1. flows[key] \in [Cpus -> CpuSlot] /\ flows[key][cpu] \in CpuSlot
    BY <1>3 DEF MapOK
  <2>2. flows'[key] = [flows[key] EXCEPT ![cpu] = Bump(flows[key][cpu], p, inc)]
    BY <1>1, <1>3
  <2>3. Bump(flows[key][cpu], p, inc) \in CpuSlot
        /\ Bump(flows[key][cpu], p, inc).n = Plus(flows[key][cpu].n, inc)
    BY <2>1, BumpType
  <2>4. flows'[key] \in [Cpus -> CpuSlot]
    BY <2>1, <2>2, <2>3
  <2>5. flows'[key][cpu].n[x] = flows[key][cpu].n[x] + inc[x]
    BY <2>1, <2>2, <2>3 DEF Plus
  <2>6. \A c \in Cpus \ {cpu} : flows'[key][c].n = flows[key][c].n
    BY <2>1, <2>2
  <2>7. Count(flows'[key], x) = Count(flows[key], x) + inc[x]
    BY <1>2, <2>1, <2>4, <2>5, <2>6, CountOfChanged
  <2>8. Count(flows[key], x) \in Nat
    BY <2>1, CountType
  <2> QED
    BY <1>1, <1>2, <1>3, <2>7, <2>8
<1>4. CASE key \notin DOMAIN flows
  <2> DEFINE empty == [c \in Cpus |-> EmptySlot]
             new == EntryOf(cpu, p, inc)
  <2>1. new \in [Cpus -> CpuSlot] /\ empty \in [Cpus -> CpuSlot] /\ Count(empty, x) = 0
    BY EntryOfType, CountOfEmpty
  <2>2. new[cpu] = Bump(EmptySlot, p, inc) /\ empty[cpu] = EmptySlot
    BY DEF EntryOf
  <2>3. new[cpu].n[x] = empty[cpu].n[x] + inc[x]
    <3>1. Bump(EmptySlot, p, inc).n = Plus(EmptySlot.n, inc)
      BY BumpType, EmptySlotType
    <3>2. Plus(EmptySlot.n, inc)[x] = EmptySlot.n[x] + inc[x]
      BY DEF Plus
    <3> HIDE DEF new, empty
    <3> QED
      BY <2>2, <3>1, <3>2
  <2>4. \A c \in Cpus \ {cpu} : new[c].n = empty[c].n
    BY DEF EntryOf
  <2> HIDE DEF new, empty
  <2>5. Count(new, x) = 0 + inc[x]
    BY <1>2, <2>1, <2>3, <2>4, CountOfChanged
  <2> QED
    BY <1>1, <1>2, <1>4, <2>5 DEF new
<1> QED
  BY <1>3, <1>4

\* A mark on an entry's state counts nothing.
LEMMA MarksCount ==
  ASSUME MapOK, NEW found \in SUBSET (DOMAIN flows), NEW cpu \in Cpus, Marks(found, cpu),
         NEW k \in DOMAIN flows, NEW x \in Fields
  PROVE  Count(flows'[k], x) = Count(flows[k], x)
<1>1. /\ flows[k] \in [Cpus -> CpuSlot] /\ flows'[k] \in [Cpus -> CpuSlot]
      /\ \A c \in Cpus : flows'[k][c].n = flows[k][c].n
  BY MarksShape DEF MapOK
<1>2. [c \in Cpus |-> flows'[k][c].n[x]] = [c \in Cpus |-> flows[k][c].n[x]]
  BY <1>1
<1> QED
  BY <1>2 DEF Count, parse_flow_value

---------------------------------------------------------------------------------
(* The ledger of what was taken, counted and reported.                                *)

More(new, old) == IF new > old THEN new - old ELSE 0

\* What the rows still to be written will report of a flow.
Late(k) ==
  IF k \in todo \cap DOMAIN previous THEN More(dumped[k].n["rx"], previous[k]["rx"]) ELSE 0

\* What the map holds beyond what the next dump will be compared with.
Fresh(k) ==
  IF k \notin DOMAIN flows THEN 0
  ELSE IF k \in todo THEN More(Count(flows[k], "rx"), dumped[k].n["rx"])
  ELSE IF k \in DOMAIN previous THEN More(Count(flows[k], "rx"), previous[k]["rx"]) ELSE 0

FlowOf(s, u) == [sock |-> s, cgroup |-> u]
Pending(s) == [u \in Cgroups |-> Late(FlowOf(s, u)) + Fresh(FlowOf(s, u))]
Unreported(s) == SumFunction(Pending(s))

CountersOK ==
  /\ phase = "sleep" => todo = {}
  /\ \A k \in DOMAIN dumped : dumped[k].n \in [Fields -> Nat]
  /\ \A k \in DOMAIN previous : previous[k] \in [Fields -> Nat]

\* What the CPUs are about to add for a socket, and what the map holds of it.
InCalls(s) == [c \in Cpus |-> Held(c, s)]
InFlight(s) == SumFunction(InCalls(s))
InMap(s) == [g \in Cgroups |-> Counted(FlowOf(s, g))]
Recorded(s) == SumFunction(InMap(s))

\* Rows hold, and will hold, no more than was taken.
LedgerOK == \A s \in Sockets : reported[s] + Unreported(s) + InFlight(s) <= Taken(s)

\* Nothing is missing from the map but what was lost.
CountedOK == \A s \in Sockets \ lost : Recorded(s) + InFlight(s) = Taken(s)

\* The dump's counters are counters.
LEMMA ParsedCounters ==
  ASSUME NEW slots \in [Cpus -> CpuSlot]
  PROVE  parse_flow_value(slots).n \in [Fields -> Nat]
<1>1. \A x \in Fields : Count(slots, x) \in Nat
  BY CountType
<1> QED
  BY <1>1 DEF Count, parse_flow_value

\* Counters stay counters.
LEMMA CountersStep ==
  ASSUME MapOK, DumpOK, CountersOK, [Next]_vars
  PROVE  CountersOK'
<1>1. CASE read_checkpoint
  <2>1. /\ phase' = "rows"
        /\ dumped' = [k \in DOMAIN flows |-> parse_flow_value(flows[k])]
        /\ previous' = [k \in DOMAIN previous \cap DOMAIN flows |-> previous[k]]
    BY <1>1 DEF read_checkpoint, Restrict
  <2>2. \A k \in DOMAIN flows : parse_flow_value(flows[k]).n \in [Fields -> Nat]
    BY ParsedCounters DEF MapOK
  <2> QED
    BY <2>1, <2>2 DEF CountersOK
<1>2. ASSUME NEW key \in Keys, FlowRow(key) PROVE CountersOK'
  <2>1. /\ phase = "rows" /\ UNCHANGED <<phase, dumped>> /\ key \in DOMAIN dumped
        /\ previous' = [k \in DOMAIN previous \cup {key} |->
                          IF k = key THEN dumped[key].n ELSE previous[k]]
    BY <1>2 DEF FlowRow, With, DumpOK
  <2> QED
    BY <2>1 DEF CountersOK
<1>3. CASE Return
  BY <1>3 DEF Return, CountersOK
<1>4. CASE UNCHANGED <<phase, todo, dumped, previous>>
  BY <1>4 DEF CountersOK
<1> QED
  BY <1>1, <1>2, <1>3, <1>4, HookFrame, CallFrame DEF Next, Share, Exit, Start, vars, pollVars

\* What is pending is a natural number.
LEMMA PendingType ==
  ASSUME MapOK, DumpOK, CountersOK, NEW k
  PROVE  Late(k) \in Nat /\ Fresh(k) \in Nat
<1> USE DEF More
<1>1. "rx" \in Fields
  BY DEF Fields
<1>2. k \in DOMAIN flows => Count(flows[k], "rx") \in Nat
  BY <1>1, CountType DEF MapOK
<1>3. k \in todo => dumped[k].n["rx"] \in Nat
  BY <1>1 DEF DumpOK, CountersOK
<1>4. k \in DOMAIN previous => previous[k]["rx"] \in Nat
  BY <1>1 DEF CountersOK
<1>5. Late(k) \in Nat
  BY <1>3, <1>4 DEF Late
<1>6. Fresh(k) \in Nat
  BY <1>2, <1>3, <1>4 DEF Fresh
<1> QED
  BY <1>5, <1>6

\* So it is after a step.
LEMMA PendingTypeNext ==
  ASSUME NEW CONSTANT k
  PROVE  (MapOK /\ DumpOK /\ CountersOK => Fresh(k) \in Nat)'
<1>1. MapOK /\ DumpOK /\ CountersOK => Fresh(k) \in Nat
  BY PendingType
<1> QED
  BY <1>1, PTL

\* The units are finitely many, and so is the sum over a socket's flows.
LEMMA UnreportedType ==
  ASSUME MapOK, DumpOK, CountersOK, NEW s
  PROVE  IsFiniteSet(Cgroups) /\ Pending(s) \in [Cgroups -> Nat] /\ Unreported(s) \in Nat
<1>1. IsFiniteSet(Cgroups)
  BY ChannelAssumption
<1>2. Pending(s) \in [Cgroups -> Nat]
  BY PendingType DEF Pending
<1> QED
  BY <1>1, <1>2, SumOfFunction DEF Unreported

\* So it is after a step.
LEMMA UnreportedTypeNext ==
  ASSUME NEW CONSTANT s
  PROVE  (MapOK /\ DumpOK /\ CountersOK =>
            /\ Pending(s) \in [Cgroups -> Nat] /\ Unreported(s) = SumFunction(Pending(s))
            /\ Unreported(s) \in Nat)'
<1>1. MapOK /\ DumpOK /\ CountersOK =>
        /\ Pending(s) \in [Cgroups -> Nat] /\ Unreported(s) = SumFunction(Pending(s))
        /\ Unreported(s) \in Nat
  BY UnreportedType DEF Unreported
<1> QED
  BY <1>1, PTL

\* Steps that change a socket's pending amounts for one flow at most, by n.
LEMMA UnreportedGrows ==
  ASSUME MapOK, DumpOK, CountersOK, MapOK', DumpOK', CountersOK',
         NEW s, NEW u \in Cgroups, NEW n \in Nat,
         \A w \in Cgroups : Pending(s)'[w] <= Pending(s)[w] + (IF w = u THEN n ELSE 0)
  PROVE  Unreported(s)' <= Unreported(s) + n
<1> DEFINE f == Pending(s)
           g == Pending(s)'
           h == [w \in Cgroups |-> f[w] + (IF w = u THEN n ELSE 0)]
<1>1. /\ IsFiniteSet(Cgroups) /\ f \in [Cgroups -> Nat]
      /\ Unreported(s) = SumFunction(f) /\ SumFunction(f) \in Nat
  BY UnreportedType DEF Unreported
<1>2. g \in [Cgroups -> Nat] /\ Unreported(s)' = SumFunction(g)
  BY UnreportedTypeNext
<1>3. \A w \in Cgroups : g[w] <= f[w] + (IF w = u THEN n ELSE 0)
  OBVIOUS
<1> HIDE DEF f, g
<1>4. h \in [Cgroups -> Nat] /\ \A w \in Cgroups : g[w] <= h[w]
  BY <1>1, <1>2, <1>3
<1>5. h[u] = f[u] + n /\ \A w \in Cgroups \ {u} : h[w] = f[w]
  BY <1>1
<1> HIDE DEF h
<1>6. SumFunction(h) = SumFunction(f) + n
  BY <1>1, <1>4, <1>5, SumGrows
<1>7. SumFunction(g) <= SumFunction(h)
  BY <1>1, <1>2, <1>4, SumOfFunction
<1> QED
  BY <1>1, <1>2, <1>6, <1>7

\* The same where nothing grows.
LEMMA UnreportedFalls ==
  ASSUME MapOK, DumpOK, CountersOK, MapOK', DumpOK', CountersOK', NEW s,
         \A w \in Cgroups : Pending(s)'[w] <= Pending(s)[w]
  PROVE  Unreported(s)' <= Unreported(s)
<1> DEFINE f == Pending(s)
           g == Pending(s)'
<1>1. /\ IsFiniteSet(Cgroups) /\ f \in [Cgroups -> Nat] /\ Unreported(s) = SumFunction(f)
  BY UnreportedType DEF Unreported
<1>2. g \in [Cgroups -> Nat] /\ Unreported(s)' = SumFunction(g)
  BY UnreportedTypeNext
<1>3. \A w \in Cgroups : g[w] <= f[w]
  OBVIOUS
<1> HIDE DEF f, g
<1> QED
  BY <1>1, <1>2, <1>3, SumOfFunction

\* Evictions lose what was not dumped; a gain adds no more than it takes.
LEMMA GainPends ==
  ASSUME MapOK, DumpOK, CountersOK, DumpOK', UNCHANGED <<todo, dumped, previous>>,
         NEW key \in Keys, NEW cpu \in Cpus, NEW p \in Pids, NEW inc \in [Fields -> Nat],
         Gains(key, cpu, p, inc), NEW k \in Keys
  PROVE  /\ Late(k)' = Late(k)
         /\ Fresh(k)' <= Fresh(k) + (IF k = key THEN inc["rx"] ELSE 0)
<1>0. "rx" \in Fields /\ inc["rx"] \in Nat
  BY DEF Fields
<1>1. Late(k)' = Late(k)
  BY DEF Late
<1>2. Fresh(k) \in Nat
  BY PendingType
<1>3. /\ k \in todo => dumped[k].n["rx"] \in Nat
      /\ k \in DOMAIN previous => previous[k]["rx"] \in Nat
  BY <1>0 DEF DumpOK, CountersOK
<1>4. k \in DOMAIN flows => Count(flows[k], "rx") \in Nat
  BY <1>0, CountType DEF MapOK
<1>5. CASE k = key
  <2>1. /\ key \in DOMAIN flows'
        /\ Count(flows'[key], "rx") =
             inc["rx"] + (IF key \in DOMAIN flows THEN Count(flows[key], "rx") ELSE 0)
    BY <1>0, GainCounts
  <2>2. Fresh(k)' =
          IF k \in todo THEN More(Count(flows'[k], "rx"), dumped[k].n["rx"])
          ELSE IF k \in DOMAIN previous THEN More(Count(flows'[k], "rx"), previous[k]["rx"])
          ELSE 0
    BY <1>5, <2>1 DEF Fresh
  <2> QED
    BY <1>0, <1>1, <1>2, <1>3, <1>4, <1>5, <2>1, <2>2 DEF Fresh, More
<1>6. CASE k # key
  <2>1. k \in DOMAIN flows' => k \in DOMAIN flows /\ flows'[k] = flows[k]
    BY <1>6, GainsShape
  <2>2. Fresh(k)' = IF k \in DOMAIN flows' THEN Fresh(k) ELSE 0
    BY <2>1 DEF Fresh
  <2> QED
    BY <1>1, <1>2, <1>6, <2>2
<1> QED
  BY <1>5, <1>6

\* A dump turns what is fresh into what is late.
LEMMA DumpPends ==
  ASSUME MapOK, DumpOK, CountersOK, read_checkpoint, NEW k \in Keys
  PROVE  Late(k)' + Fresh(k)' <= Late(k) + Fresh(k)
<1>1. /\ phase = "sleep" /\ UNCHANGED flows
      /\ dumped' = [j \in DOMAIN flows |-> parse_flow_value(flows[j])]
      /\ previous' = [j \in DOMAIN previous \cap DOMAIN flows |-> previous[j]]
      /\ todo' = DOMAIN flows
  BY DEF read_checkpoint, Restrict
<1>2. todo = {} /\ Late(k) = 0
  BY <1>1 DEF CountersOK, Late
<1>3. Fresh(k) \in Nat
  BY PendingType
<1>4. CASE k \in DOMAIN flows
  <2>1. Count(flows[k], "rx") \in Nat
    BY <1>4, CountType DEF MapOK, Fields
  <2>2. dumped'[k].n["rx"] = Count(flows[k], "rx")
    BY <1>1, <1>4 DEF Count
  <2>3. Fresh(k)' = 0
    BY <1>1, <1>4, <2>1, <2>2 DEF Fresh, More
  <2>4. Late(k)' = IF k \in DOMAIN previous THEN More(Count(flows[k], "rx"), previous[k]["rx"])
                   ELSE 0
    BY <1>1, <1>4, <2>2 DEF Late
  <2>5. Fresh(k) = IF k \in DOMAIN previous THEN More(Count(flows[k], "rx"), previous[k]["rx"])
                   ELSE 0
    BY <1>2, <1>4 DEF Fresh
  <2> QED
    BY <1>2, <1>3, <2>3, <2>4, <2>5
<1>5. CASE k \notin DOMAIN flows
  <2>1. Fresh(k)' = 0 /\ Late(k)' = 0
    BY <1>1, <1>5 DEF Fresh, Late
  <2> QED
    BY <1>2, <1>3, <2>1
<1> QED
  BY <1>4, <1>5

\* A row reports what was late of its flow.
LEMMA RowPends ==
  ASSUME MapOK, DumpOK, CountersOK, GhostsOK, NEW key \in Keys, FlowRow(key), NEW k \in Keys
  PROVE  /\ Fresh(k)' = Fresh(k)
         /\ Late(k)' = IF k = key THEN 0 ELSE Late(k)
         /\ reported' = [reported EXCEPT ![key.sock] = @ + Late(key)]
<1>1. /\ key \in todo /\ key \in DOMAIN dumped /\ todo' = todo \ {key}
      /\ UNCHANGED <<flows, dumped>>
      /\ previous' = [j \in DOMAIN previous \cup {key} |->
                        IF j = key THEN dumped[key].n ELSE previous[j]]
  BY DEF FlowRow, With, DumpOK
<1>2. Fresh(k)' = Fresh(k)
  BY <1>1 DEF Fresh
<1>3. Late(k)' = IF k = key THEN 0 ELSE Late(k)
  BY <1>1 DEF Late
<1>4. reported' = [reported EXCEPT ![key.sock] = @ + Late(key)]
  <2> DEFINE delta == Delta(dumped[key].n, previous[key])
  <2>1. "rx" \in Fields /\ key.sock \in Sockets
    BY DEF Fields, Keys
  <2>2. delta["rx"] = More(dumped[key].n["rx"], previous[key]["rx"])
    BY <2>1 DEF Delta, More
  <2>3. IF key \notin DOMAIN previous \/ delta = Nothing
        THEN UNCHANGED reported
        ELSE reported' = [reported EXCEPT ![key.sock] = @ + delta["rx"]]
    BY DEF FlowRow
  <2>4. delta = Nothing => delta["rx"] = 0
    BY <2>1 DEF Nothing
  <2> HIDE DEF delta
  <2>5. Late(key) = IF key \in DOMAIN previous THEN delta["rx"] ELSE 0
    BY <1>1, <2>2 DEF Late
  <2>6. CASE key \notin DOMAIN previous \/ delta = Nothing
    <3>1. Late(key) = 0 /\ reported' = reported
      BY <2>3, <2>4, <2>5, <2>6
    <3> QED
      BY <2>1, <3>1 DEF GhostsOK
  <2>7. CASE ~(key \notin DOMAIN previous \/ delta = Nothing)
    BY <2>3, <2>5, <2>7
  <2> QED
    BY <2>6, <2>7
<1> QED
  BY <1>2, <1>3, <1>4

\* Steps without a hook, a call, a dump or a row leave the ledger alone.
LEMMA LedgerFrame ==
  ASSUME [Next]_vars, ~CollectorStep, ~CallStep,
         \A s \in Sockets, p \in Pids, cpu \in Cpus : ~Hook(s, p, cpu)
  PROVE  UNCHANGED <<proto, flows, call, todo, dumped, previous, reported, consumed, looked>>
BY DEF Next, CallStep, CollectorStep, Share, Exit, Start, vars, pollVars, ghosts

\* The ghosts count up.
LEMMA GhostsStep ==
  ASSUME WorldOK, SocketsOK, MapOK, DumpOK, CountersOK, GhostsOK, [Next]_vars
  PROVE  GhostsOK'
<1>1. ASSUME NEW s \in Sockets, NEW p \in Pids, NEW cpu \in Cpus, Hook(s, p, cpu)
      PROVE  GhostsOK'
  <2>1. UNCHANGED reported
    BY <1>1, HookFrame DEF pollVars
  <2>2. consumed' \in [Sockets -> Nat] /\ looked' \in [Sockets -> Nat]
    BY <1>1, HookEffect
  <2> QED
    BY <2>1, <2>2 DEF GhostsOK
<1>2. ASSUME NEW key \in Keys, FlowRow(key) PROVE GhostsOK'
  <2>1. reported' = [reported EXCEPT ![key.sock] = @ + Late(key)] /\ Late(key) \in Nat
    BY <1>2, RowPends, PendingType
  <2>2. UNCHANGED <<consumed, looked>>
    BY <1>2 DEF FlowRow, ghosts
  <2> QED
    BY <2>1, <2>2 DEF GhostsOK, Keys
<1>3. CASE read_checkpoint \/ Return
  BY <1>3 DEF read_checkpoint, Return, GhostsOK, ghosts
<1>4. CASE CallStep
  BY <1>4, CallFrame DEF CallStep, GhostsOK, pollVars
<1> QED
  BY <1>1, <1>2, <1>3, <1>4, LedgerFrame DEF GhostsOK, CollectorStep

\* What the CPUs hold is a natural number.
LEMMA InFlightType ==
  ASSUME CallOK, NEW s
  PROVE  InCalls(s) \in [Cpus -> Nat] /\ InFlight(s) = SumFunction(InCalls(s)) /\ InFlight(s) \in Nat
<1>1. \A c \in Cpus : call[c].at # "idle" => call[c].inc["rx"] \in Nat
  BY DEF CallOK, Calls, Idle, Fields
<1>2. InCalls(s) \in [Cpus -> Nat]
  BY <1>1 DEF InCalls, Held
<1> QED
  BY <1>2, FiniteCpus, SumOfFunction DEF InFlight

\* So it is after a step.
LEMMA InFlightTypeNext ==
  ASSUME NEW CONSTANT s
  PROVE  (CallOK => /\ InCalls(s) \in [Cpus -> Nat] /\ InFlight(s) = SumFunction(InCalls(s))
                    /\ InFlight(s) \in Nat)'
<1>1. CallOK => /\ InCalls(s) \in [Cpus -> Nat] /\ InFlight(s) = SumFunction(InCalls(s))
                /\ InFlight(s) \in Nat
  BY InFlightType
<1> QED
  BY <1>1, PTL

\* What is in flight changes by what one CPU takes up or puts down.
LEMMA InFlightMoves ==
  ASSUME CallOK, CallOK', NEW s, NEW cpu \in Cpus, \A c \in Cpus \ {cpu} : call'[c] = call[c]
  PROVE  /\ InFlight(s) \in Nat /\ InFlight(s)' \in Nat
         /\ Held(cpu, s) \in Nat /\ Held(cpu, s)' \in Nat
         /\ InFlight(s)' = InFlight(s) - Held(cpu, s) + Held(cpu, s)'
<1> DEFINE f == InCalls(s)
           g == InCalls(s)'
<1>1. f \in [Cpus -> Nat] /\ InFlight(s) = SumFunction(f) /\ InFlight(s) \in Nat
  BY InFlightType
<1>2. g \in [Cpus -> Nat] /\ InFlight(s)' = SumFunction(g) /\ InFlight(s)' \in Nat
  BY InFlightTypeNext
<1>3. f[cpu] = Held(cpu, s) /\ g[cpu] = Held(cpu, s)'
  BY DEF InCalls
<1>4. \A c \in Cpus \ {cpu} : g[c] = f[c]
  BY DEF InCalls, Held
<1> HIDE DEF f, g
<1>5. /\ SumFunction(f) = SumFunctionOnSet(f, Cpus)
      /\ SumFunction(g) = SumFunctionOnSet(g, Cpus)
  BY <1>1, <1>2 DEF SumFunction
<1>6. IsFiniteSet(Cpus) /\ \A c \in Cpus : f[c] \in Nat /\ g[c] \in Nat
  BY <1>1, <1>2, FiniteCpus
<1>7. SumFunctionOnSet(g, Cpus) = SumFunctionOnSet(f, Cpus) - f[cpu] + g[cpu]
  <2> HIDE DEF Cpus
  <2> QED
    BY <1>4, <1>6, SumChange
<1> QED
  BY <1>1, <1>2, <1>3, <1>5, <1>6, <1>7

\* What a hook holds back it has taken.
LEMMA AccountsFly ==
  ASSUME CallOK, CallOK', NEW key \in Keys, NEW cpu \in Cpus, NEW p \in Pids,
         NEW inc \in [Fields -> Nat], key \notin DOMAIN flows, Accounts(key, cpu, p, inc), NEW s
  PROVE  InFlight(s)' = InFlight(s) + (IF s = key.sock THEN inc["rx"] ELSE 0)
<1>1. /\ call[cpu].at = "idle"
      /\ call' = [call EXCEPT ![cpu] = [at |-> "insert", key |-> key, pid |-> p, inc |-> inc]]
  BY DEF Accounts
<1>2. /\ call'[cpu] = [at |-> "insert", key |-> key, pid |-> p, inc |-> inc]
      /\ \A c \in Cpus \ {cpu} : call'[c] = call[c]
  BY <1>1 DEF CallOK
<1>3. Held(cpu, s) = 0 /\ Held(cpu, s)' = IF s = key.sock THEN inc["rx"] ELSE 0
  BY <1>1, <1>2 DEF Held
<1>4. /\ InFlight(s) \in Nat /\ Held(cpu, s)' \in Nat
      /\ InFlight(s)' = InFlight(s) - Held(cpu, s) + Held(cpu, s)'
  BY <1>2, InFlightMoves
<1> QED
  BY <1>3, <1>4

\* What a call of a helper leaves in flight.
LEMMA CallsFly ==
  ASSUME MapOK, CallOK, CallOK', NEW cpu \in Cpus, InsertFlow(cpu) \/ FindAgain(cpu), NEW s
  PROVE  /\ call[cpu].at = "insert" => InFlight(s)' = InFlight(s)
         /\ call[cpu].at = "again" =>
              InFlight(s) = InFlight(s)' + (IF s = call[cpu].key.sock THEN call[cpu].inc["rx"] ELSE 0)
<1>1. \A c \in Cpus \ {cpu} : call'[c] = call[c]
  BY CallEffect DEF CallOK
<1>2. /\ InFlight(s) \in Nat /\ InFlight(s)' \in Nat
      /\ Held(cpu, s) \in Nat /\ Held(cpu, s)' \in Nat
      /\ InFlight(s)' = InFlight(s) - Held(cpu, s) + Held(cpu, s)'
  BY <1>1, InFlightMoves
<1>3. CASE call[cpu].at = "insert"
  <2>1. call'[cpu] = [call[cpu] EXCEPT !.at = "again"] /\ call[cpu] \in Calls
    BY <1>3, CallEffect DEF CallOK
  <2>2. /\ call'[cpu].at = "again" /\ call'[cpu].key = call[cpu].key
        /\ call'[cpu].inc = call[cpu].inc
    BY <2>1 DEF Calls
  <2>3. Held(cpu, s)' = Held(cpu, s)
    BY <1>3, <2>2 DEF Held
  <2> QED
    BY <1>2, <1>3, <2>3
<1>4. CASE call[cpu].at = "again"
  <2>1. call'[cpu].at = "idle"
    BY <1>4, CallEffect DEF CallOK, Idle
  <2>2. /\ Held(cpu, s)' = 0
        /\ Held(cpu, s) = IF s = call[cpu].key.sock THEN call[cpu].inc["rx"] ELSE 0
    BY <1>4, <2>1 DEF Held
  <2> QED
    BY <1>2, <1>4, <2>2
<1> QED
  BY <1>3, <1>4

\* Without a hook or a call nothing moves.
LEMMA FlightFrame ==
  ASSUME UNCHANGED call, NEW s
  PROVE  InFlight(s)' = InFlight(s)
BY DEF InFlight, InCalls, Held

\* A gain makes no more pending for its socket than is added, and nothing for others.
LEMMA GainUnreported ==
  ASSUME MapOK, DumpOK, CountersOK, MapOK', DumpOK', CountersOK',
         UNCHANGED <<todo, dumped, previous>>, NEW key \in Keys, NEW cpu \in Cpus, NEW p \in Pids,
         NEW inc \in [Fields -> Nat], Gains(key, cpu, p, inc), NEW s \in Sockets
  PROVE  Unreported(s)' <= Unreported(s) + (IF s = key.sock THEN inc["rx"] ELSE 0)
<1>1. inc["rx"] \in Nat /\ key.cgroup \in Cgroups
  BY DEF Fields, Keys
<1>2. ASSUME NEW w \in Cgroups
      PROVE  Pending(s)'[w] <= Pending(s)[w]
               + (IF s = key.sock /\ w = key.cgroup THEN inc["rx"] ELSE 0)
  <2>1. PICK k \in Keys : k = FlowOf(s, w)
    BY DEF FlowOf, Keys
  <2>2. /\ Late(k)' = Late(k) /\ Late(k) \in Nat /\ Fresh(k) \in Nat /\ Fresh(k)' \in Nat
        /\ Fresh(k)' <= Fresh(k) + (IF k = key THEN inc["rx"] ELSE 0)
    BY GainPends, PendingType, PendingTypeNext
  <2>3. k = key => s = key.sock /\ w = key.cgroup
    BY <2>1 DEF FlowOf
  <2>4. Pending(s)[w] = Late(k) + Fresh(k) /\ Pending(s)'[w] = Late(k)' + Fresh(k)'
    BY <2>1 DEF Pending, Late, Fresh
  <2> QED
    BY <1>1, <2>2, <2>3, <2>4
<1>3. CASE s = key.sock
  <2>1. \A w \in Cgroups :
          Pending(s)'[w] <= Pending(s)[w] + (IF w = key.cgroup THEN inc["rx"] ELSE 0)
    BY <1>2, <1>3
  <2> QED
    BY <1>1, <1>3, <2>1, UnreportedGrows
<1>4. CASE s # key.sock
  <2>1. \A w \in Cgroups : Pending(s)[w] \in Nat /\ Pending(s)'[w] \in Nat
    BY UnreportedType, UnreportedTypeNext
  <2>2. \A w \in Cgroups : Pending(s)'[w] <= Pending(s)[w]
    BY <1>2, <1>4, <2>1
  <2>3. Unreported(s)' <= Unreported(s) /\ Unreported(s) \in Nat /\ Unreported(s)' \in Nat
    BY <2>2, UnreportedFalls, UnreportedType, UnreportedTypeNext
  <2> QED
    BY <1>4, <2>3
<1> QED
  BY <1>3, <1>4

\* No step reports, or makes pending, more than is taken.
LEMMA LedgerStep ==
  ASSUME WorldOK, SocketsOK, MapOK, CallOK, DumpOK, CountersOK, GhostsOK, LedgerOK,
         MapOK', CallOK', DumpOK', CountersOK', [Next]_vars
  PROVE  LedgerOK'
<1>1. ASSUME NEW s \in Sockets
      PROVE  /\ reported[s] \in Nat /\ Unreported(s) \in Nat /\ InFlight(s) \in Nat
             /\ Taken(s) \in Nat /\ reported[s] + Unreported(s) + InFlight(s) <= Taken(s)
             /\ Unreported(s)' \in Nat /\ InFlight(s)' \in Nat
  BY UnreportedType, UnreportedTypeNext, InFlightType, InFlightTypeNext
  DEF GhostsOK, Taken, LedgerOK
<1>2. \A s \in Sockets, u \in Cgroups :
        /\ FlowOf(s, u) \in Keys
        /\ Pending(s)[u] = Late(FlowOf(s, u)) + Fresh(FlowOf(s, u))
        /\ Pending(s)'[u] = Late(FlowOf(s, u))' + Fresh(FlowOf(s, u))'
        /\ Late(FlowOf(s, u)) \in Nat /\ Fresh(FlowOf(s, u)) \in Nat
  BY PendingType DEF FlowOf, Keys, Pending
<1>3. ASSUME NEW s \in Sockets,
             \A u \in Cgroups : LET k == FlowOf(s, u)
                                IN Late(k)' + Fresh(k)' <= Late(k) + Fresh(k)
      PROVE  Unreported(s)' <= Unreported(s)
  <2>1. \A u \in Cgroups : Pending(s)'[u] <= Pending(s)[u]
    BY <1>2, <1>3
  <2> QED
    BY <2>1, UnreportedFalls
<1>4. ASSUME UNCHANGED <<flows, todo, dumped, previous>>, NEW s \in Sockets
      PROVE  Unreported(s)' <= Unreported(s)
  <2>1. \A u \in Cgroups : LET k == FlowOf(s, u) IN Late(k)' = Late(k) /\ Fresh(k)' = Fresh(k)
    BY <1>4 DEF Late, Fresh
  <2> QED
    BY <1>2, <1>3, <2>1
<1>5. ASSUME NEW t \in Sockets, NEW p \in Pids, NEW cpu \in Cpus, Hook(t, p, cpu)
      PROVE  LedgerOK'
  <2>1. UNCHANGED <<todo, dumped, previous, reported>>
    BY <1>5, HookFrame DEF pollVars
  <2>2. \A s \in Sockets \ {t} : Taken(s)' = Taken(s)
    BY <1>5, HookEffect
  <2>3. ASSUME UNCHANGED call, Taken(t)' = Taken(t),
               \A s \in Sockets : Unreported(s)' <= Unreported(s)
        PROVE  LedgerOK'
    <3>1. \A s \in Sockets : InFlight(s)' = InFlight(s) /\ Taken(s)' = Taken(s)
      BY <2>2, <2>3, FlightFrame
    <3> QED
      BY <1>1, <2>1, <2>3, <3>1 DEF LedgerOK
  <2>4. CASE UNCHANGED <<flows, call>> /\ Taken(t)' = Taken(t)
    BY <1>4, <2>1, <2>3, <2>4
  <2>5. ASSUME NEW found \in SUBSET (DOMAIN flows), Marks(found, cpu), UNCHANGED call,
               Taken(t)' = Taken(t)
        PROVE  LedgerOK'
    <3>1. DOMAIN flows' = DOMAIN flows
      BY <2>5, MarksShape
    <3>2. \A k \in DOMAIN flows : Count(flows'[k], "rx") = Count(flows[k], "rx")
      BY <2>5, MarksCount DEF Fields
    <3>3. \A k \in Keys : Late(k)' = Late(k) /\ Fresh(k)' = Fresh(k)
      BY <2>1, <3>1, <3>2 DEF Late, Fresh
    <3> QED
      BY <1>2, <1>3, <2>3, <2>5, <3>3
  <2>6. ASSUME NEW key \in Keys, key.sock = t, NEW inc \in [Fields -> Nat],
               Accounts(key, cpu, p, inc), Taken(t)' = Taken(t) + inc["rx"]
        PROVE  LedgerOK'
    <3>1. inc["rx"] \in Nat
      BY DEF Fields
    <3>2. ASSUME NEW s \in Sockets
          PROVE  Unreported(s)' + InFlight(s)'
                   <= Unreported(s) + InFlight(s) + (IF s = t THEN inc["rx"] ELSE 0)
      <4>1. CASE key \in DOMAIN flows
        <5>1. Gains(key, cpu, p, inc) /\ UNCHANGED call
          BY <2>6, <4>1 DEF Accounts, Gains
        <5>2. Unreported(s)' <= Unreported(s) + (IF s = t THEN inc["rx"] ELSE 0)
          BY <2>1, <2>6, <5>1, GainUnreported
        <5>3. InFlight(s)' = InFlight(s)
          BY <5>1, FlightFrame
        <5> QED
          BY <1>1, <3>1, <5>2, <5>3
      <4>2. CASE key \notin DOMAIN flows
        <5>1. UNCHANGED flows
          BY <2>6, <4>2 DEF Accounts
        <5>2. Unreported(s)' <= Unreported(s)
          BY <1>4, <2>1, <5>1
        <5>3. InFlight(s)' = InFlight(s) + (IF s = t THEN inc["rx"] ELSE 0)
          BY <2>6, <4>2, AccountsFly
        <5> QED
          BY <1>1, <3>1, <5>2, <5>3
      <4> QED
        BY <4>1, <4>2
    <3>3. ASSUME NEW s \in Sockets
          PROVE  reported'[s] + Unreported(s)' + InFlight(s)' <= Taken(s)'
      <4>1. CASE s = t
        BY <1>1, <2>1, <2>6, <3>1, <3>2, <4>1
      <4>2. CASE s # t
        BY <1>1, <2>1, <2>2, <3>2, <4>2
      <4> QED
        BY <4>1, <4>2
    <3> QED
      BY <3>3 DEF LedgerOK
  <2>7. PICK key \in Keys : key = KeyOf(t, p)
    BY <1>5, HookEffect
  <2>8. key.sock = t
    BY <2>7 DEF KeyOf
  <2> QED
    BY <1>5, <2>4, <2>5, <2>6, <2>7, <2>8, HookEffect
<1>6. ASSUME UNCHANGED <<proto, consumed, looked>>, NEW s \in Sockets
      PROVE  Taken(s)' = Taken(s)
  BY <1>6 DEF Taken
<1>7. CASE read_checkpoint
  <2>1. UNCHANGED <<proto, consumed, looked, reported, call>>
    BY <1>7 DEF read_checkpoint, ghosts
  <2>2. \A s \in Sockets : Unreported(s)' <= Unreported(s)
    BY <1>2, <1>3, <1>7, DumpPends
  <2>3. \A s \in Sockets : InFlight(s)' = InFlight(s)
    BY <2>1, FlightFrame
  <2> QED
    BY <1>1, <1>6, <2>1, <2>2, <2>3 DEF LedgerOK
<1>8. ASSUME NEW key \in Keys, FlowRow(key) PROVE LedgerOK'
  <2> DEFINE t == key.sock
             u == key.cgroup
  <2>1. t \in Sockets /\ u \in Cgroups /\ key = FlowOf(t, u)
    BY DEF Keys, FlowOf
  <2>2. /\ \A k \in Keys : Fresh(k)' = Fresh(k) /\ Late(k)' = IF k = key THEN 0 ELSE Late(k)
        /\ reported' = [reported EXCEPT ![t] = @ + Late(key)]
    BY <1>8, RowPends
  <2>3. Late(key) \in Nat /\ UNCHANGED <<proto, consumed, looked>> /\ UNCHANGED call
    BY <1>8, PendingType DEF FlowRow, ghosts
  <2> HIDE DEF t, u
  <2>4. ASSUME NEW s \in Sockets, s # t PROVE Unreported(s)' <= Unreported(s)
    <3>1. \A w \in Cgroups : FlowOf(s, w) # key
      BY <2>1, <2>4 DEF FlowOf
    <3> QED
      BY <1>2, <1>3, <2>2, <3>1
  <2>5. Unreported(t) = Unreported(t)' + Late(key)
    <3> DEFINE f == Pending(t)'
               g == Pending(t)
    <3>1. /\ IsFiniteSet(Cgroups) /\ f \in [Cgroups -> Nat] /\ g \in [Cgroups -> Nat]
          /\ Unreported(t) = SumFunction(g) /\ Unreported(t)' = SumFunction(f)
      BY <2>1, UnreportedType, UnreportedTypeNext DEF Unreported
    <3>2. g[u] = f[u] + Late(key)
      BY <1>2, <2>1, <2>2, <2>3
    <3>3. \A w \in Cgroups \ {u} : FlowOf(t, w) # key
      BY <2>1 DEF FlowOf
    <3>4. \A w \in Cgroups \ {u} : g[w] = f[w]
      BY <1>2, <2>1, <2>2, <3>3
    <3> HIDE DEF f, g
    <3> QED
      BY <2>1, <2>3, <3>1, <3>2, <3>4, SumGrows
  <2>6. ASSUME NEW s \in Sockets PROVE reported'[s] + Unreported(s)' + InFlight(s)' <= Taken(s)'
    <3>0. InFlight(s)' = InFlight(s)
      BY <2>3, FlightFrame
    <3>1. CASE s = t
      <4>1. reported'[t] = reported[t] + Late(key)
        BY <2>1, <2>2 DEF GhostsOK
      <4> QED
        BY <1>1, <1>6, <2>1, <2>3, <2>5, <3>0, <3>1, <4>1
    <3>2. CASE s # t
      <4>1. reported'[s] = reported[s]
        BY <2>2, <3>2 DEF GhostsOK
      <4> QED
        BY <1>1, <1>6, <2>3, <2>4, <3>0, <3>2, <4>1
    <3> QED
      BY <3>1, <3>2
  <2> QED
    BY <2>6 DEF LedgerOK
<1>9. CASE Return
  <2>1. /\ todo = {} /\ UNCHANGED <<flows, todo, previous>>
        /\ UNCHANGED <<proto, consumed, looked, reported, call>>
    BY <1>9 DEF Return, ghosts
  <2>2. \A k \in Keys : Late(k)' = Late(k) /\ Fresh(k)' = Fresh(k)
    BY <2>1 DEF Late, Fresh
  <2>3. \A s \in Sockets : Unreported(s)' <= Unreported(s) /\ InFlight(s)' = InFlight(s)
    BY <1>2, <1>3, <2>1, <2>2, FlightFrame
  <2> QED
    BY <1>1, <1>6, <2>1, <2>3 DEF LedgerOK
<1>10. CASE UNCHANGED <<proto, flows, call, todo, dumped, previous, reported, consumed, looked>>
  <2>1. \A s \in Sockets : InFlight(s)' = InFlight(s)
    BY <1>10, FlightFrame
  <2> QED
    BY <1>1, <1>4, <1>6, <1>10, <2>1 DEF LedgerOK
<1>11. ASSUME NEW cpu \in Cpus, InsertFlow(cpu) \/ FindAgain(cpu) PROVE LedgerOK'
  <2>1. UNCHANGED <<proto, consumed, looked, reported, todo, dumped, previous>>
    BY <1>11, CallFrame DEF pollVars
  <2>2. PICK key \in Keys, p \in Pids, inc \in [Fields -> Nat] :
          key = call[cpu].key /\ p = call[cpu].pid /\ inc = call[cpu].inc
    BY <1>11, CallEffect DEF Calls
  <2>3. inc["rx"] \in Nat /\ Nothing \in [Fields -> Nat] /\ Nothing["rx"] = 0
    BY DEF Fields, Nothing
  <2>4. ASSUME NEW s \in Sockets
        PROVE  Unreported(s)' + InFlight(s)' <= Unreported(s) + InFlight(s)
    <3>1. CASE UNCHANGED flows
      <4>1. Unreported(s)' <= Unreported(s)
        BY <1>4, <2>1, <3>1
      <4>2. InFlight(s)' <= InFlight(s)
        <5>1. call[cpu].at \in {"insert", "again"}
          BY <1>11, CallEffect
        <5> QED
          BY <1>1, <1>11, <2>2, <2>3, <5>1, CallsFly
      <4> QED
        BY <1>1, <4>1, <4>2
    <3>2. CASE call[cpu].at = "insert" /\ Gains(key, cpu, p, Nothing)
      <4>1. Unreported(s)' <= Unreported(s) + (IF s = key.sock THEN Nothing["rx"] ELSE 0)
        BY <2>1, <2>3, <3>2, GainUnreported
      <4>2. InFlight(s)' = InFlight(s)
        BY <1>11, <3>2, CallsFly
      <4> QED
        BY <1>1, <2>3, <4>1, <4>2
    <3>3. CASE call[cpu].at = "again" /\ Gains(key, cpu, p, inc)
      <4>1. Unreported(s)' <= Unreported(s) + (IF s = key.sock THEN inc["rx"] ELSE 0)
        BY <2>1, <3>3, GainUnreported
      <4>2. InFlight(s) = InFlight(s)' + (IF s = key.sock THEN inc["rx"] ELSE 0)
        BY <1>11, <2>2, <3>3, CallsFly
      <4> QED
        BY <1>1, <2>3, <4>1, <4>2
    <3> QED
      BY <1>11, <2>2, <3>1, <3>2, <3>3, CallEffect
  <2> QED
    BY <1>1, <1>6, <2>1, <2>4 DEF LedgerOK
<1> QED
  BY <1>5, <1>7, <1>8, <1>9, <1>10, <1>11, LedgerFrame DEF CallStep, CollectorStep

---------------------------------------------------------------------------------
(* Nothing is missing from the map.                                                   *)

\* What the map holds of a socket is a natural number.
LEMMA RecordedType ==
  ASSUME MapOK, NEW s
  PROVE  /\ IsFiniteSet(Cgroups) /\ InMap(s) \in [Cgroups -> Nat]
         /\ Recorded(s) = SumFunction(InMap(s)) /\ Recorded(s) \in Nat
<1>1. \A k \in DOMAIN flows : Count(flows[k], "rx") \in Nat
  BY CountType DEF MapOK, Fields
<1>2. InMap(s) \in [Cgroups -> Nat]
  BY <1>1 DEF InMap, Counted, Count
<1>3. IsFiniteSet(Cgroups)
  BY ChannelAssumption
<1> QED
  BY <1>2, <1>3, SumOfFunction DEF Recorded

\* So it is after a step.
LEMMA RecordedTypeNext ==
  ASSUME NEW CONSTANT s
  PROVE  (MapOK => /\ InMap(s) \in [Cgroups -> Nat] /\ Recorded(s) = SumFunction(InMap(s))
                   /\ Recorded(s) \in Nat)'
<1>1. MapOK => /\ InMap(s) \in [Cgroups -> Nat] /\ Recorded(s) = SumFunction(InMap(s))
               /\ Recorded(s) \in Nat
  BY RecordedType
<1> QED
  BY <1>1, PTL

\* It stays where no entry changes its count.
LEMMA RecordedStays ==
  ASSUME MapOK, NEW s, \A g \in Cgroups : Counted(FlowOf(s, g))' = Counted(FlowOf(s, g))
  PROVE  Recorded(s)' = Recorded(s)
<1>1. InMap(s)' = InMap(s)
  BY DEF InMap
<1> QED
  BY <1>1 DEF Recorded

\* It grows by what is added, if none of its entries made room.
LEMMA RecordedGrows ==
  ASSUME MapOK, MapOK', NEW key \in Keys, NEW cpu \in Cpus, NEW p \in Pids,
         NEW inc \in [Fields -> Nat], Gains(key, cpu, p, inc), NEW s \in Sockets,
         \A k \in DOMAIN flows : k.sock = s => k \in DOMAIN flows'
  PROVE  Recorded(s)' = Recorded(s) + (IF s = key.sock THEN inc["rx"] ELSE 0)
<1>1. inc["rx"] \in Nat /\ key.cgroup \in Cgroups /\ "rx" \in Fields
  BY DEF Fields, Keys
<1>2. ASSUME NEW g \in Cgroups, FlowOf(s, g) # key
      PROVE  Counted(FlowOf(s, g))' = Counted(FlowOf(s, g))
  <2>1. PICK k : k = FlowOf(s, g)
    OBVIOUS
  <2>2. k.sock = s
    BY <2>1 DEF FlowOf
  <2>3. /\ k \in DOMAIN flows' <=> k \in DOMAIN flows
        /\ k \in DOMAIN flows' => flows'[k] = flows[k]
    BY <1>2, <2>1, <2>2, GainsShape
  <2> QED
    BY <2>1, <2>3 DEF Counted
<1>3. CASE s = key.sock
  <2> DEFINE f == InMap(s)
             g == InMap(s)'
  <2>1. /\ IsFiniteSet(Cgroups) /\ f \in [Cgroups -> Nat] /\ Recorded(s) = SumFunction(f)
    BY RecordedType
  <2>2. g \in [Cgroups -> Nat] /\ Recorded(s)' = SumFunction(g)
    BY RecordedTypeNext
  <2>3. key = FlowOf(s, key.cgroup)
    BY <1>3 DEF FlowOf, Keys
  <2>4. \A w \in Cgroups : FlowOf(s, w) = key => w = key.cgroup
    BY DEF FlowOf
  <2>5. \A w \in Cgroups \ {key.cgroup} : g[w] = f[w]
    BY <1>2, <2>4 DEF InMap
  <2>6. Counted(key)' = Counted(key) + inc["rx"]
    <3>1. /\ key \in DOMAIN flows'
          /\ Count(flows'[key], "rx") =
               inc["rx"] + (IF key \in DOMAIN flows THEN Count(flows[key], "rx") ELSE 0)
      BY <1>1, GainCounts
    <3>2. key \in DOMAIN flows => Count(flows[key], "rx") \in Nat
      BY <1>1, CountType DEF MapOK
    <3>3. /\ Counted(key) = IF key \in DOMAIN flows THEN Count(flows[key], "rx") ELSE 0
          /\ Counted(key)' = Count(flows'[key], "rx")
      BY <3>1 DEF Counted, Count
    <3> QED
      BY <1>1, <3>1, <3>2, <3>3
  <2>7. g[key.cgroup] = f[key.cgroup] + inc["rx"]
    <3>1. f[key.cgroup] = Counted(key) /\ g[key.cgroup] = Counted(key)'
      BY <1>1, <2>3 DEF InMap, Counted
    <3> QED
      BY <2>6, <3>1
  <2> HIDE DEF f, g
  <2> QED
    BY <1>1, <1>3, <2>1, <2>2, <2>5, <2>7, SumGrows
<1>4. CASE s # key.sock
  <2>1. \A g \in Cgroups : FlowOf(s, g) # key
    BY <1>4 DEF FlowOf
  <2>2. Recorded(s)' = Recorded(s) /\ Recorded(s) \in Nat
    BY <1>2, <2>1, RecordedStays, RecordedType
  <2> QED
    BY <1>4, <2>2
<1> QED
  BY <1>3, <1>4

\* What is taken is recorded or in flight, unless it is lost.
LEMMA CountedStep ==
  ASSUME WorldOK, SocketsOK, MapOK, CallOK, GhostsOK, CountedOK, MapOK', CallOK', [Next]_vars
  PROVE  CountedOK'
<1>1. ASSUME NEW s \in Sockets \ lost
      PROVE  /\ Recorded(s) \in Nat /\ InFlight(s) \in Nat /\ Taken(s) \in Nat
             /\ Recorded(s) + InFlight(s) = Taken(s)
  BY RecordedType, InFlightType DEF GhostsOK, Taken, CountedOK
<1>2. ASSUME UNCHANGED flows, NEW s PROVE Recorded(s)' = Recorded(s)
  BY <1>2 DEF Recorded, InMap, Counted
<1>3. ASSUME UNCHANGED <<flows, call, lost, consumed, looked, proto>> PROVE CountedOK'
  <2>1. \A s \in Sockets : Recorded(s)' = Recorded(s) /\ InFlight(s)' = InFlight(s)
    BY <1>2, <1>3, FlightFrame
  <2>2. \A s \in Sockets : Taken(s)' = Taken(s)
    BY <1>3 DEF Taken
  <2> QED
    BY <1>1, <1>3, <2>1, <2>2 DEF CountedOK
<1>4. ASSUME NEW t \in Sockets, NEW p \in Pids, NEW cpu \in Cpus, Hook(t, p, cpu)
      PROVE  CountedOK'
  <2>1. UNCHANGED lost /\ \A s \in Sockets \ {t} : Taken(s)' = Taken(s)
    BY <1>4, HookEffect, HookFrame
  <2>2. ASSUME UNCHANGED call, Taken(t)' = Taken(t),
               \A s \in Sockets : Recorded(s)' = Recorded(s)
        PROVE  CountedOK'
    <3>1. \A s \in Sockets : InFlight(s)' = InFlight(s) /\ Taken(s)' = Taken(s)
      BY <2>1, <2>2, FlightFrame
    <3> QED
      BY <1>1, <2>1, <2>2, <3>1 DEF CountedOK
  <2>3. CASE UNCHANGED <<flows, call>> /\ Taken(t)' = Taken(t)
    BY <1>2, <2>2, <2>3
  <2>4. ASSUME NEW found \in SUBSET (DOMAIN flows), Marks(found, cpu), UNCHANGED call,
               Taken(t)' = Taken(t)
        PROVE  CountedOK'
    <3>1. DOMAIN flows' = DOMAIN flows
      BY <2>4, MarksShape
    <3>2. \A k \in DOMAIN flows : Count(flows'[k], "rx") = Count(flows[k], "rx")
      BY <2>4, MarksCount DEF Fields
    <3>3. \A s, g : Counted(FlowOf(s, g))' = Counted(FlowOf(s, g))
      BY <3>1, <3>2 DEF Counted, Count
    <3> QED
      BY <2>2, <2>4, <3>3, RecordedStays
  <2>5. ASSUME NEW key \in Keys, key.sock = t, NEW inc \in [Fields -> Nat],
               Accounts(key, cpu, p, inc), Taken(t)' = Taken(t) + inc["rx"]
        PROVE  CountedOK'
    <3>1. inc["rx"] \in Nat
      BY DEF Fields
    <3>2. ASSUME NEW s \in Sockets \ lost
          PROVE  Recorded(s)' + InFlight(s)'
                   = Recorded(s) + InFlight(s) + (IF s = t THEN inc["rx"] ELSE 0)
      <4>1. CASE key \in DOMAIN flows
        <5>1. Gains(key, cpu, p, inc) /\ UNCHANGED call /\ DOMAIN flows' = DOMAIN flows
          BY <2>5, <4>1 DEF Accounts, Gains, Add
        <5>2. Recorded(s)' = Recorded(s) + (IF s = t THEN inc["rx"] ELSE 0)
          BY <2>5, <5>1, RecordedGrows
        <5>3. InFlight(s)' = InFlight(s)
          BY <5>1, FlightFrame
        <5> QED
          BY <1>1, <3>1, <5>2, <5>3
      <4>2. CASE key \notin DOMAIN flows
        <5>1. Recorded(s)' = Recorded(s)
          BY <1>2, <2>5, <4>2 DEF Accounts
        <5>2. InFlight(s)' = InFlight(s) + (IF s = t THEN inc["rx"] ELSE 0)
          BY <2>5, <4>2, AccountsFly
        <5> QED
          BY <1>1, <3>1, <5>1, <5>2
      <4> QED
        BY <4>1, <4>2
    <3>3. ASSUME NEW s \in Sockets \ lost PROVE Recorded(s)' + InFlight(s)' = Taken(s)'
      <4>1. CASE s = t
        BY <1>1, <2>5, <3>1, <3>2, <4>1
      <4>2. CASE s # t
        BY <1>1, <2>1, <3>2, <4>2
      <4> QED
        BY <4>1, <4>2
    <3> QED
      BY <2>1, <3>3 DEF CountedOK
  <2>6. PICK key \in Keys : key = KeyOf(t, p)
    BY <1>4, HookEffect
  <2>7. key.sock = t
    BY <2>6 DEF KeyOf
  <2> QED
    BY <1>4, <2>3, <2>4, <2>5, <2>6, <2>7, HookEffect
<1>5. ASSUME NEW cpu \in Cpus, InsertFlow(cpu) \/ FindAgain(cpu) PROVE CountedOK'
  <2>1. \A s \in Sockets : Taken(s)' = Taken(s)
    BY <1>5, CallFrame DEF Taken
  <2>2. PICK key \in Keys, p \in Pids, inc \in [Fields -> Nat] :
          key = call[cpu].key /\ p = call[cpu].pid /\ inc = call[cpu].inc
    BY <1>5, CallEffect DEF Calls
  <2>3. inc["rx"] \in Nat /\ Nothing \in [Fields -> Nat] /\ Nothing["rx"] = 0
    BY DEF Fields, Nothing
  <2>4. lost \subseteq lost'
    BY <1>5, CallEffect
  <2>5. ASSUME NEW s \in Sockets \ lost' PROVE Recorded(s)' + InFlight(s)' = Recorded(s) + InFlight(s)
    <3>0. s \in Sockets \ lost
      BY <2>4
    <3>1. CASE call[cpu].at = "insert" /\ UNCHANGED flows
      BY <1>2, <1>5, <3>1, CallsFly
    <3>2. CASE /\ call[cpu].at = "insert" /\ Gains(key, cpu, p, Nothing)
               /\ lost' = lost \cup {k.sock : k \in DOMAIN flows \ DOMAIN flows'}
      <4>1. \A k \in DOMAIN flows : k.sock = s => k \in DOMAIN flows'
        BY <2>5, <3>2
      <4>2. Recorded(s)' = Recorded(s) + (IF s = key.sock THEN Nothing["rx"] ELSE 0)
        BY <2>3, <3>0, <3>2, <4>1, RecordedGrows
      <4>3. InFlight(s)' = InFlight(s)
        BY <1>5, <3>2, CallsFly
      <4> QED
        BY <1>1, <2>3, <3>0, <4>2, <4>3
    <3>3. CASE call[cpu].at = "again" /\ key \in DOMAIN flows /\ Gains(key, cpu, p, inc)
      <4>1. DOMAIN flows' = DOMAIN flows
        BY <3>3 DEF Gains, Add
      <4>2. Recorded(s)' = Recorded(s) + (IF s = key.sock THEN inc["rx"] ELSE 0)
        BY <3>0, <3>3, <4>1, RecordedGrows
      <4>3. InFlight(s) = InFlight(s)' + (IF s = key.sock THEN inc["rx"] ELSE 0)
        BY <1>5, <2>2, <3>3, CallsFly
      <4>4. InFlight(s)' \in Nat
        BY InFlightTypeNext
      <4> QED
        BY <1>1, <2>3, <3>0, <4>2, <4>3, <4>4
    <3>4. CASE call[cpu].at = "again" /\ key \notin DOMAIN flows /\ UNCHANGED flows
      <4>1. key.sock \in lost
        BY <1>5, <2>2, <3>4, CallEffect DEF CallOK
      <4>2. InFlight(s) = InFlight(s)' + (IF s = key.sock THEN inc["rx"] ELSE 0)
        BY <1>5, <2>2, <3>4, CallsFly
      <4>3. InFlight(s)' \in Nat
        BY InFlightTypeNext
      <4> QED
        BY <1>2, <3>0, <3>4, <4>1, <4>2, <4>3
    <3> QED
      BY <1>5, <2>2, <3>1, <3>2, <3>3, <3>4, CallEffect
  <2>6. ASSUME NEW s \in Sockets \ lost' PROVE Recorded(s)' + InFlight(s)' = Taken(s)'
    <3>1. s \in Sockets \ lost
      BY <2>4
    <3> QED
      BY <1>1, <2>1, <2>5, <3>1
  <2> QED
    BY <2>6 DEF CountedOK
<1> QED
  BY <1>3, <1>4, <1>5, MapFrame DEF CallStep

---------------------------------------------------------------------------------
(* The theorems.                                                                      *)

ChannelInv ==
  /\ WorldOK /\ SocketsOK
  /\ MapOK /\ FlowsOK
  /\ DumpOK /\ CacheOK /\ RowOK
  /\ CallOK /\ CountersOK /\ GhostsOK
  /\ LedgerOK /\ CountedOK

\* The invariant holds of every reachable state.
THEOREM ChannelsInvariant == Spec => []ChannelInv
<1>1. Init => ChannelInv
  <2> SUFFICES ASSUME Init PROVE ChannelInv
    OBVIOUS
  <2>1. WorldOK
    <3>1. cgroupOf \in [Pids -> Cgroups] /\ exited = {}
      BY ChannelAssumption DEF Init
    <3>2. \A p \in Pids : cgroupOf[p] # NoCgroup
      BY <3>1, ChannelAssumption
    <3>3. PICK opener \in [Sockets -> Pids] : holders = [s \in Sockets |-> {opener[s]}]
      BY DEF Init
    <3> QED
      BY <3>1, <3>2, <3>3 DEF WorldOK
  <2>2. SocketsOK
    <3>1. proto \in {"tcp", "udp"} /\ state = [s \in Sockets |-> 0]
      BY DEF Init
    <3>2. CASE proto = "tcp"
      BY <3>1, <3>2 DEF Init, SocketsOK
    <3>3. CASE proto # "tcp"
      <4>1. PICK ends \in [Sockets -> UdpEnds] :
              src = [s \in Sockets |-> ends[s][1]] /\ dst = [s \in Sockets |-> ends[s][2]]
        BY <3>3 DEF Init
      <4>2. UdpEnds \subseteq (Endpoints \cup {Wildcard}) \X (Endpoints \cup {None})
        BY ChannelAssumption
      <4>3. \A s \in Sockets : /\ ends[s][1] \in Endpoints \cup {Wildcard}
                               /\ ends[s][2] \in Endpoints \cup {None}
        BY <4>1, <4>2
      <4>4. None \notin Endpoints /\ None # Wildcard
        BY ChannelAssumption DEF None, Wildcard
      <4> QED
        BY <3>1, <3>3, <4>1, <4>3, <4>4 DEF SocketsOK
    <3> QED
      BY <3>2, <3>3
  <2>3. MapOK
    <3>1. DOMAIN flows = {}
      BY DEF Init
    <3>2. IsFiniteSet({}) /\ Cardinality({}) = 0 /\ Capacity \in Nat
      BY FS_EmptySet, ChannelAssumption
    <3> QED
      BY <3>1, <3>2 DEF MapOK
  <2>4. FlowsOK
    BY DEF Init, FlowsOK
  <2>5. DumpOK
    BY DEF Init, DumpOK
  <2>6. CacheOK
    BY DEF Init, CacheOK
  <2>7. RowOK
    BY DEF Init, RowOK, IsRow
  <2>8. CountersOK
    BY DEF Init, CountersOK
  <2>9. GhostsOK
    BY DEF Init, GhostsOK
  <2>10. CallOK
    BY DEF Init, CallOK, Idle, Calls
  <2>11. \A s \in Sockets : InFlight(s) = 0
    <3> SUFFICES ASSUME NEW s \in Sockets PROVE InFlight(s) = 0
      OBVIOUS
    <3>1. InCalls(s) \in [Cpus -> Nat] /\ InFlight(s) = SumFunction(InCalls(s))
      BY <2>10, InFlightType
    <3>2. \A c \in Cpus : InCalls(s)[c] = 0
      BY DEF InCalls, Held, Init, Idle
    <3> QED
      BY <3>1, <3>2, FiniteCpus, SumOfFunction
  <2>12. LedgerOK
    <3> SUFFICES ASSUME NEW s \in Sockets PROVE reported[s] + Unreported(s) + InFlight(s) <= Taken(s)
      BY DEF LedgerOK
    <3>1. IsFiniteSet(Cgroups) /\ Pending(s) \in [Cgroups -> Nat]
      BY <2>3, <2>5, <2>8, UnreportedType
    <3>2. \A u \in Cgroups : Pending(s)[u] = 0
      BY DEF Pending, Late, Fresh, Init
    <3>3. Unreported(s) = 0
      BY <3>1, <3>2, SumOfFunction DEF Unreported
    <3> QED
      BY <2>11, <3>3 DEF Init, Taken
  <2>13. CountedOK
    <3> SUFFICES ASSUME NEW s \in Sockets PROVE Recorded(s) + InFlight(s) = Taken(s)
      BY DEF CountedOK
    <3>1. /\ IsFiniteSet(Cgroups) /\ InMap(s) \in [Cgroups -> Nat]
          /\ Recorded(s) = SumFunction(InMap(s))
      BY <2>3, RecordedType
    <3>2. \A g \in Cgroups : InMap(s)[g] = 0
      BY DEF InMap, Counted, Init
    <3>3. Recorded(s) = 0
      BY <3>1, <3>2, SumOfFunction
    <3> QED
      BY <2>11, <3>3 DEF Init, Taken
  <2> QED
    BY <2>1, <2>2, <2>3, <2>4, <2>5, <2>6, <2>7, <2>8, <2>9, <2>10, <2>12, <2>13 DEF ChannelInv
<1>2. ChannelInv /\ [Next]_vars => ChannelInv'
  <2> SUFFICES ASSUME ChannelInv, [Next]_vars PROVE ChannelInv'
    OBVIOUS
  <2>1. WorldOK' /\ SocketsOK' /\ MapOK' /\ FlowsOK' /\ CallOK'
    BY WorldStep, SocketsStep, MapStep, FlowsStep, HooksStep DEF ChannelInv
  <2>2. DumpOK' /\ RowOK'
    BY DumpStep, RowStep DEF ChannelInv
  <2>3. CacheOK' /\ CountersOK' /\ GhostsOK'
    BY <2>2, CacheStep, CountersStep, GhostsStep DEF ChannelInv
  <2>4. LedgerOK' /\ CountedOK'
    BY <2>1, <2>2, <2>3, LedgerStep, CountedStep DEF ChannelInv
  <2> QED
    BY <2>1, <2>2, <2>3, <2>4 DEF ChannelInv
<1> QED
  BY <1>1, <1>2, PTL DEF Spec

\* Type correctness of the program's map and of the collector's dictionaries: entries
\* within the map's capacity, process numbers for processes, no row without a change.
THEOREM TypeCorrect == Spec => []TypeOK
<1>1. ChannelInv => TypeOK
  <2> SUFFICES ASSUME ChannelInv PROVE TypeOK
    OBVIOUS
  <2>1. \A k \in DOMAIN flows, c \in Cpus : flows[k][c].pid \in Pids \cup {0}
    BY DEF ChannelInv, MapOK, CpuSlot
  <2>2. ASSUME NEW c \in Cpus, call[c].at # "idle"
        PROVE  call[c].key \in Keys /\ call[c].pid \in Alive
    <3>1. call[c] \in Calls
      BY <2>2 DEF ChannelInv, CallOK, Idle
    <3>2. /\ call[c].key \in Keys /\ call[c].pid \in Pids /\ call[c].key.cgroup \in Cgroups
          /\ cgroupOf[call[c].pid] = call[c].key.cgroup
      BY <3>1 DEF ChannelInv, CallOK, Calls, Keys
    <3> QED
      BY <3>2, ChannelAssumption DEF Alive
  <2> QED
    BY <2>1, <2>2 DEF ChannelInv, WorldOK, SocketsOK, MapOK, DumpOK, RowOK, RightUnit, TypeOK
<1> QED
  BY <1>1, ChannelsInvariant, PTL

\* tcp_channel.py:407-410: a row's unit is the service of a cgroup its process number was
\* in since the checkpoint began, never that of an earlier owner of the number; it is
\* empty only if that cgroup is in no service, or there was no such process.
THEOREM UnitsAreOfTheCheckpoint == Spec => []UnitIsOfThisCheckpoint
<1>1. ChannelInv => UnitIsOfThisCheckpoint
  BY DEF ChannelInv, RowOK, RightUnit, UnitIsOfThisCheckpoint
<1> QED
  BY <1>1, ChannelsInvariant, PTL

\* The program counts under a cgroup, the collector asks /proc about a process: as long
\* as the process has not exited the row's unit is the cgroup's service, or none if the
\* cgroup is in none.
THEOREM UnitsAgree == Spec => []UnitIsTheCgroups
<1>1. ChannelInv => UnitIsTheCgroups
  <2> SUFFICES ASSUME ChannelInv, IsRow, row.pid \notin exited
               PROVE  row.unit = Service[row.key.cgroup]
    BY DEF UnitIsTheCgroups
  <2>1. 0 \notin Pids /\ NoCgroup \notin Cgroups
    BY ChannelAssumption
  <2>2. /\ row.unit = UnitIn(cgroupOf[row.pid]) /\ cgroupOf[row.pid] = row.key.cgroup
        /\ row.key.cgroup \in Cgroups
    BY <2>1 DEF ChannelInv, RowOK, RightUnit, Belongs, Keys
  <2> QED
    BY <2>1, <2>2 DEF UnitIn
<1> QED
  BY <1>1, ChannelsInvariant, PTL

\* tcp_channel.py:480, udp_channel.py:482-485: a row is "matched" exactly if its unit is
\* in the catalog and the socket is tied to the unit's stream.
THEOREM RowsMatchByStream == Spec => []MatchedByItsStream
<1>1. ChannelInv => MatchedByItsStream
  <2>0. IsRow /\ row.unit \notin DOMAIN Target /\ ChannelInv => row.status # "matched"
    BY DEF ChannelInv, RowOK, MatchStatus
  <2> SUFFICES ASSUME ChannelInv, IsRow, row.unit \in DOMAIN Target
               PROVE  LET s == row.key.sock
                          tied == {e \in Endpoints : dst[s] = e \/ (dst[s] = None /\ src[s] = e)}
                      IN row.status = "matched" <=> tied = {Target[row.unit]}
    BY <2>0 DEF MatchedByItsStream
  <2> DEFINE s == row.key.sock
             tied == {e \in Endpoints : dst[s] = e \/ (dst[s] = None /\ src[s] = e)}
             target == Target[row.unit]
  <2>1. s \in Sockets
    BY DEF ChannelInv, RowOK, Keys
  <2>2. target \in Endpoints /\ None \notin Endpoints
    BY ChannelAssumption
  <2>3. row.status = "matched" <=> target = Endpoint(s)
    BY DEF ChannelInv, RowOK, MatchStatus
  <2>4. /\ dst[s] \in Endpoints \cup {None}
        /\ proto = "tcp" => dst[s] # None
        /\ proto = "tcp" \/ proto = "udp"
    BY <2>1 DEF ChannelInv, RowOK, Connected, SocketsOK
  <2>5. Endpoint(s) = IF dst[s] # None THEN dst[s] ELSE src[s]
    BY <2>4 DEF Endpoint, TcpEndpoint, UdpEndpoint
  <2> HIDE DEF s, target
  <2>6. CASE dst[s] # None
    <3>1. tied = {dst[s]}
      BY <2>4, <2>6
    <3> QED
      BY <2>3, <2>5, <2>6, <3>1 DEF s, target
  <2>7. CASE dst[s] = None
    <3>1. tied = {e \in Endpoints : src[s] = e}
      BY <2>2, <2>7
    <3>2. tied = {target} <=> src[s] = target
      BY <2>2, <3>1
    <3> QED
      BY <2>3, <2>5, <2>7, <3>2 DEF s, target
  <2> QED
    BY <2>6, <2>7
<1> QED
  BY <1>1, ChannelsInvariant, PTL

\* udp_channel.bpf.c:11-14: all rows of a UDP socket together hold no more than was
\* taken from it, those of a TCP socket no more than was taken and looked at.
THEOREM RowsReceiveOnce == Spec => []ReceivedOnce
<1>1. ChannelInv => ReceivedOnce
  <2> SUFFICES ASSUME ChannelInv, NEW s \in Sockets
               PROVE  reported[s] <= Taken(s)
    BY DEF ReceivedOnce
  <2>1. Unreported(s) \in Nat /\ InFlight(s) \in Nat
    BY UnreportedType, InFlightType DEF ChannelInv
  <2>2. reported[s] \in Nat /\ Taken(s) \in Nat
    BY DEF ChannelInv, GhostsOK, Taken
  <2>3. reported[s] + Unreported(s) + InFlight(s) <= Taken(s)
    BY DEF ChannelInv, LedgerOK
  <2> QED
    BY <2>1, <2>2, <2>3
<1> QED
  BY <1>1, ChannelsInvariant, PTL

\* tcp_channel.bpf.c:109-115, udp_channel.bpf.c:127-133: however many CPUs race to insert
\* the entries of a socket, every read is in the map, or held by a CPU that is about to
\* add it, exactly once, unless an entry of the socket was evicted or could not be made.
THEOREM NoReadIsLost == Spec => []ReadsAreCounted
<1>1. ChannelInv => ReadsAreCounted
  BY DEF ChannelInv, CountedOK, Recorded, InMap, InFlight, InCalls, FlowOf, ReadsAreCounted
<1> QED
  BY <1>1, ChannelsInvariant, PTL

================================================================================

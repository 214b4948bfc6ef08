------------------------------ MODULE ChannelFlows ------------------------------
(* A channel's path from the socket to the row: the TCP or the UDP channel program     *)
(* (tcp_channel.bpf.c, udp_channel.bpf.c), which counts what processes read and write    *)
(* per socket and cgroup, and TcpChannelCollector or UdpChannelCollector, which turns    *)
(* the counters into rows and finds out, later and from /proc, whose they are.           *)
(*                                                                                      *)
(* The two paths are twins; they differ in the hooks, in the flags they look at and in   *)
(* the endpoint they compare with the catalog.  Where they agree, one definition stands  *)
(* for both.  A dump is one step here: CheckpointCollector and IngressPipeline look       *)
(* inside it.                                                                           *)
EXTENDS Integers, FiniteSetsExt, Functions

CONSTANTS
  Sockets, Pids,
  Cgroups,
  Service,    \* the last .service of each cgroup's path, "" for one outside any service
  NumCpus,
  Capacity,   \* max_entries of the LRU map
  Started,    \* the cgroups the processes are in at first: a set of functions
  Target,     \* the catalog: the endpoint each unit in it is meant to receive
  Endpoints,  \* the streams there are
  UdpEnds,    \* what UDP receivers are bound and connected to: <<src, dst>>
  MaxOps,     \* bound: calls that connect, read, write or close a socket
  MaxEvents,  \* bound: processes that start or exit, sockets that are shared
  MaxPolls    \* bound: checkpoints

NoCgroup == "none"   \* of a number that is no process's
Wildcard == "any"    \* the wildcard address
None == "none"

ASSUME ChannelAssumption ==
  /\ NumCpus \in Nat \ {0} /\ Capacity \in Nat \ {0}
  /\ MaxOps \in Nat /\ MaxEvents \in Nat /\ MaxPolls \in Nat
  /\ IsFiniteSet(Cgroups) /\ NoCgroup \notin Cgroups
  /\ Target \in [DOMAIN Target -> Endpoints] /\ "" \notin DOMAIN Target
  /\ Started \subseteq [Pids -> Cgroups]
  /\ UdpEnds \subseteq (Endpoints \cup {Wildcard}) \X (Endpoints \cup {None})
  /\ {Wildcard, None} \cap Endpoints = {} /\ 0 \notin Pids

Cpus == 1 .. NumCpus
Keys == [sock : Sockets, cgroup : Cgroups]

VARIABLES
  proto,     \* "tcp" or "udp": --proto
  cgroupOf,  \* the cgroup each process runs in, NoCgroup if there is no such process
  holders,   \* processes with a descriptor of a socket
  src, dst,  \* a socket's own endpoint and its peer, None or Wildcard where it has none
  state,     \* a TCP socket's state: 0 new, 1 open, 2 closing
  flows,     \* the LRU map: a function from keys to per-CPU values
  call,      \* what each CPU does between two calls of map helpers
  phase,     \* the collector: "sleep" or "rows"
  dumped,    \* what the dump returned, merged over the CPUs
  todo,      \* identities that have had no row yet
  previous,  \* self.previous
  pid_units, \* self.pid_units
  row,       \* the row just written, or NoRow
  consumed,  \* ghost: what the processes have taken from each socket
  looked,    \* ghost: what they have looked at, or taken from the error queue
  reported,  \* ghost: the sum of a socket's rows
  lost,      \* ghost: sockets an entry of which was evicted or could not be made
  owners,    \* ghost: the cgroups each process number has had in the checkpoint under way
  exited,    \* ghost: process numbers that have exited
  ops, events, polls  \* bounded counters

socketVars == <<holders, src, dst, state>>
pollVars   == <<phase, dumped, todo, previous, pid_units, row, reported>>
bounds     == <<ops, events, polls>>
ghosts     == <<consumed, looked, lost>>
vars == <<proto, cgroupOf, socketVars, flows, call, pollVars, ghosts, owners, exited, bounds>>

Alive == {p \in Pids : cgroupOf[p] # NoCgroup}

Fields == {"tx", "rx", "connections"}
Nothing == [x \in Fields |-> 0]
One(field) == [Nothing EXCEPT ![field] = 1]
Plus(a, b) == [x \in Fields |-> a[x] + b[x]]

EmptySlot == [n |-> Nothing, pid |-> 0, state |-> 0]
NoRow == [unit |-> "", pid |-> 0]

Idle == [at |-> "idle"]
\* A CPU that found no entry for key: it inserts one, and looks it up again.
Calls == [at : {"insert", "again"}, key : Keys, pid : Pids, inc : [Fields -> Nat]]

---------------------------------------------------------------------------------
(* The programs.  A hook runs on a CPU, in a process p or in what interrupted it.    *)

\* fill_tcp_key: both ports and the peer's address; the cgroup is that of whatever
\* runs, in a softirq that of the process it has interrupted.
fill_tcp_key(s, p) ==
  IF dst[s] # None THEN {[sock |-> s, cgroup |-> cgroupOf[p]]} ELSE {}

\* Mutant: the key is taken from the socket's first user.
fill_udp_key_Socket(s, p) ==
  LET first == {k \in DOMAIN flows : k.sock = s}
  IN IF src[s] = None THEN {}
     ELSE IF first # {} THEN first ELSE {[sock |-> s, cgroup |-> cgroupOf[p]]}

\* fill_udp_key: the socket's own port is enough; a multicast receiver has no peer.
fill_udp_key(s, p) ==
  IF src[s] # None THEN {[sock |-> s, cgroup |-> cgroupOf[p]]} ELSE {}

\* Mutant: nothing is evicted.
Admit_Grow(key) == {flows}

\* BPF_NOEXIST into an LRU map: a full one gives up any entries that make room.
Admit(key) ==
  IF Cardinality(DOMAIN flows) < Capacity THEN {flows}
  ELSE {Restrict(flows, rest) : rest \in (SUBSET DOMAIN flows) \ {DOMAIN flows}}

\* What is added to the slot of this CPU; the first process on a CPU stays its pid.
Bump(slot, p, inc) ==
  [slot EXCEPT !.n = Plus(@, inc), !.pid = IF @ = 0 THEN p ELSE @]

With(map, key, value) ==
  [k \in DOMAIN map \cup {key} |-> IF k = key THEN value ELSE map[k]]

Add(key, cpu, p, inc) == flows' = [flows EXCEPT ![key][cpu] = Bump(@, p, inc)]

\* account_tcp_flow and account_udp_flow, up to the first lookup: an entry that is found
\* is added to, and otherwise this CPU goes on to insert one.
Account(keys, cpu, p, inc) ==
  IF keys = {} THEN UNCHANGED <<flows, call>>
  ELSE \E key \in keys :
    \/ key \in DOMAIN flows /\ Add(key, cpu, p, inc) /\ UNCHANGED call
    \/ /\ key \notin DOMAIN flows /\ UNCHANGED flows
       /\ call' = [call EXCEPT ![cpu] = [at |-> "insert", key |-> key, pid |-> p, inc |-> inc]]

\* zero: BPF_NOEXIST into a per-CPU map writes the slot of this CPU only.
NewEntry(cpu, p) == [c \in Cpus |-> [EmptySlot EXCEPT !.pid = IF c = cpu THEN p ELSE 0]]

unchangedByCalls == <<proto, cgroupOf, socketVars, pollVars, consumed, looked, owners, exited, bounds>>

\* Mutant: a CPU that loses the race to insert gives up.
InsertFlow_GiveUp(cpu) ==
  LET key == call[cpu].key IN
  /\ call[cpu].at = "insert"
  /\ \/ /\ key \in DOMAIN flows /\ UNCHANGED <<flows, lost>>
        /\ call' = [call EXCEPT ![cpu] = Idle]
     \/ /\ key \notin DOMAIN flows
        /\ call' = [call EXCEPT ![cpu].at = "again"]
        /\ \E map \in Admit(key) :
             /\ flows' = With(map, key, NewEntry(cpu, call[cpu].pid))
             /\ lost' = lost \cup {k.sock : k \in DOMAIN flows \ DOMAIN map}
  /\ UNCHANGED unchangedByCalls

\* bpf_map_update_elem, whose result nobody looks at: another CPU has inserted the key,
\* the kernel has no memory for it, or it gets a slot with this process's number.
InsertFlow(cpu) ==
  LET key == call[cpu].key IN
  /\ call[cpu].at = "insert"
  /\ call' = [call EXCEPT ![cpu].at = "again"]
  /\ \/ key \in DOMAIN flows /\ UNCHANGED <<flows, lost>>
     \/ key \notin DOMAIN flows /\ UNCHANGED flows /\ lost' = lost \cup {key.sock}
     \/ /\ key \notin DOMAIN flows
        /\ \E map \in Admit(key) :
             /\ flows' = With(map, key, NewEntry(cpu, call[cpu].pid))
             /\ lost' = lost \cup {k.sock : k \in DOMAIN flows \ DOMAIN map}
  /\ UNCHANGED unchangedByCalls

\* The second lookup: if (!value) return 0, and nothing is counted.
FindAgain(cpu) ==
  LET key == call[cpu].key IN
  /\ call[cpu].at = "again"
  /\ call' = [call EXCEPT ![cpu] = Idle]
  /\ \/ key \in DOMAIN flows /\ Add(key, cpu, call[cpu].pid, call[cpu].inc)
     \/ key \notin DOMAIN flows /\ UNCHANGED flows
  /\ UNCHANGED <<unchangedByCalls, lost>>

\* A hook begins on a CPU that is in none.
Call(cpu) == call[cpu].at = "idle" /\ ops < MaxOps /\ ops' = ops + 1

\* fexit/tcp_v4_connect, when it has returned 0: the socket has its peer.
tcp_v4_connect_exit(s, p, cpu, peer) ==
  /\ Call(cpu)
  /\ proto = "tcp" /\ p \in holders[s] /\ state[s] = 0
  /\ src' = [src EXCEPT ![s] = Wildcard] /\ dst' = [dst EXCEPT ![s] = peer]
  /\ state' = [state EXCEPT ![s] = 1]
  /\ Account({[sock |-> s, cgroup |-> cgroupOf[p]]}, cpu, p, One("connections"))
  /\ UNCHANGED <<proto, cgroupOf, holders, pollVars, ghosts, owners, exited, events, polls>>

\* fexit/tcp_sendmsg
tcp_sendmsg_exit(s, p, cpu) ==
  /\ Call(cpu)
  /\ proto = "tcp" /\ p \in holders[s] /\ state[s] = 1
  /\ Account(fill_tcp_key(s, p), cpu, p, One("tx"))
  /\ UNCHANGED <<proto, cgroupOf, socketVars, pollVars, ghosts, owners, exited, events, polls>>

\* A read of one unit of data, in earnest, or with MSG_PEEK or MSG_ERRQUEUE.
Flags == {"", "MSG_PEEK | MSG_ERRQUEUE"}

Read(s, flags) ==
  IF flags = "" THEN consumed' = [consumed EXCEPT ![s] = @ + 1] /\ UNCHANGED looked
                ELSE looked' = [looked EXCEPT ![s] = @ + 1] /\ UNCHANGED consumed

\* fexit/tcp_recvmsg: (void)flags.
tcp_recvmsg_exit(s, p, cpu, flags) ==
  /\ Call(cpu)
  /\ proto = "tcp" /\ p \in holders[s] /\ state[s] # 0
  /\ Read(s, flags)
  /\ Account(fill_tcp_key(s, p), cpu, p, One("rx"))
  /\ UNCHANGED <<proto, cgroupOf, socketVars, pollVars, lost, owners, exited, events, polls>>

\* Mutant: as in the TCP program, the flags are not looked at.
udp_recvmsg_exit_AnyFlags(s, p, cpu, flags) ==
  /\ Call(cpu)
  /\ proto = "udp" /\ p \in holders[s] /\ src[s] # None
  /\ Read(s, flags)
  /\ Account(fill_udp_key(s, p), cpu, p, One("rx"))
  /\ UNCHANGED <<proto, cgroupOf, socketVars, pollVars, lost, owners, exited, events, polls>>

\* fexit/udp_recvmsg: a peek does not consume, the error queue is no traffic.
udp_recvmsg_exit(s, p, cpu, flags) ==
  /\ Call(cpu)
  /\ proto = "udp" /\ p \in holders[s] /\ src[s] # None
  /\ Read(s, flags)
  /\ IF flags = "" THEN Account(fill_udp_key(s, p), cpu, p, One("rx"))
                   ELSE UNCHANGED <<flows, call>>
  /\ UNCHANGED <<proto, cgroupOf, socketVars, pollVars, lost, owners, exited, events, polls>>

\* fentry/tcp_set_state: p closes the socket, or the peer does and p is whoever is
\* interrupted, in a hook or not; only an entry of that process's cgroup is found.
tcp_set_state_entry(s, p, cpu) ==
  /\ ops < MaxOps /\ ops' = ops + 1
  /\ proto = "tcp" /\ p \in Alive /\ state[s] = 1
  /\ state' = [state EXCEPT ![s] = 2]
  /\ LET found == fill_tcp_key(s, p) \cap DOMAIN flows
     IN flows' = [k \in DOMAIN flows |->
                    IF k \in found THEN [flows[k] EXCEPT ![cpu].state = 2] ELSE flows[k]]
  /\ UNCHANGED <<proto, cgroupOf, holders, src, dst, call, pollVars, ghosts, owners, exited,
                 events, polls>>

---------------------------------------------------------------------------------
(* The processes.                                                                    *)

Event == events < MaxEvents /\ events' = events + 1

\* A descriptor is inherited or passed on.
Share(s, p) ==
  /\ Event
  /\ holders[s] # {} /\ p \in Alive \ holders[s]
  /\ holders' = [holders EXCEPT ![s] = @ \cup {p}]
  /\ UNCHANGED <<proto, cgroupOf, src, dst, state, flows, call, pollVars, ghosts, owners, exited,
                 ops, polls>>

\* What a checkpoint under way could find of a process number.
Belonging(p, g) == IF phase = "sleep" THEN owners ELSE [owners EXCEPT ![p] = @ \cup {g}]

\* A process that is in no hook exits; its number is given to another one later.
Exit(p) ==
  /\ Event
  /\ p \in Alive /\ \A c \in Cpus : call[c].at # "idle" => call[c].pid # p
  /\ cgroupOf' = [cgroupOf EXCEPT ![p] = NoCgroup]
  /\ holders' = [s \in Sockets |-> holders[s] \ {p}]
  /\ exited' = exited \cup {p} /\ owners' = Belonging(p, NoCgroup)
  /\ UNCHANGED <<proto, src, dst, state, flows, call, pollVars, ghosts, ops, polls>>

Start(p, g) ==
  /\ Event
  /\ cgroupOf[p] = NoCgroup
  /\ cgroupOf' = [cgroupOf EXCEPT ![p] = g]
  /\ owners' = Belonging(p, g)
  /\ UNCHANGED <<proto, socketVars, flows, call, pollVars, ghosts, exited, ops, polls>>

---------------------------------------------------------------------------------
(* The collector.                                                                    *)

\* The first CPU whose slot has a value, 0 if none has.
FirstOf(slots, field) ==
  LET cpus == {c \in Cpus : slots[c][field] # 0}
  IN IF cpus = {} THEN 0 ELSE slots[Min(cpus)][field]

\* parse_tcp_flow_value: counters are summed over the CPUs, the process and the state
\* are those of the first CPU that has one.
parse_flow_value(slots) ==
  [n |-> [x \in Fields |-> SumFunction([c \in Cpus |-> slots[c].n[x]])],
   pid |-> FirstOf(slots, "pid"),
   state |-> FirstOf(slots, "state")]

\* Mutant: the processes' units are remembered as long as the analyzer runs.
read_checkpoint_Remembers ==
  /\ phase = "sleep"
  /\ polls < MaxPolls /\ polls' = polls + 1
  /\ owners' = [p \in Pids |-> {cgroupOf[p]}]
  /\ dumped' = [k \in DOMAIN flows |-> parse_flow_value(flows[k])]
  /\ previous' = Restrict(previous, DOMAIN previous \cap DOMAIN flows)
  /\ todo' = DOMAIN flows
  /\ phase' = "rows" /\ row' = NoRow
  /\ UNCHANGED <<proto, cgroupOf, socketVars, flows, call, pid_units, reported, ghosts, exited,
                 ops, events>>

\* read_checkpoint clears the units it remembers, then dumps the map; _read_flows drops
\* the baselines of flows that are gone and begins with the rows.
read_checkpoint ==
  /\ phase = "sleep"
  /\ polls < MaxPolls /\ polls' = polls + 1
  /\ pid_units' = [p \in {} |-> ""]
  /\ owners' = [p \in Pids |-> {cgroupOf[p]}]
  /\ dumped' = [k \in DOMAIN flows |-> parse_flow_value(flows[k])]
  /\ previous' = Restrict(previous, DOMAIN previous \cap DOMAIN flows)
  /\ todo' = DOMAIN flows
  /\ phase' = "rows" /\ row' = NoRow
  /\ UNCHANGED <<proto, cgroupOf, socketVars, flows, call, reported, ghosts, exited, ops, events>>

\* unit_from_cgroup_text: "" too when there is no file to read.
UnitIn(g) == IF g = NoCgroup THEN "" ELSE Service[g]

\* unit_for_pid reads /proc/<pid>/cgroup.
unit_for_pid(pid) == UnitIn(cgroupOf[pid])

\* _unit_for_pid: no process, remembered, or looked up now.
UnitForPid(pid) ==
  IF pid = 0 THEN ""
  ELSE IF pid \in DOMAIN pid_units THEN pid_units[pid]
  ELSE unit_for_pid(pid)

\* What the catalog is asked about.  TCP: the peer.
TcpEndpoint(s) == dst[s]

\* Mutant: as for TCP.
UdpEndpoint_Peer(s) == dst[s]

\* UDP: the peer if there is one, else what the socket is bound to.
UdpEndpoint(s) == IF dst[s] # None THEN dst[s] ELSE src[s]

Endpoint(s) == IF proto = "tcp" THEN TcpEndpoint(s) ELSE UdpEndpoint(s)

\* ChannelCatalog.match
MatchStatus(unit, endpoint) ==
  IF unit \notin DOMAIN Target THEN "unknown_unit"
  ELSE IF Target[unit] = endpoint THEN "matched" ELSE "unexpected_flow"

\* max(counter - previous, 0)
Delta(new, old) == [x \in Fields |-> IF new[x] > old[x] THEN new[x] - old[x] ELSE 0]

\* The body of the second loop of _read_flows for one identity.
FlowRow(key) ==
  /\ phase = "rows" /\ key \in todo
  /\ todo' = todo \ {key}
  /\ previous' = With(previous, key, dumped[key].n)
  /\ LET value == dumped[key]
         delta == Delta(value.n, previous[key])
         unit == UnitForPid(value.pid)
     IN IF key \notin DOMAIN previous \/ delta = Nothing
        THEN row' = NoRow /\ UNCHANGED <<pid_units, reported>>
        ELSE /\ pid_units' = IF value.pid = 0 THEN pid_units ELSE With(pid_units, value.pid, unit)
             /\ row' = [key |-> key, n |-> delta, unit |-> unit, pid |-> value.pid,
                        state |-> value.state, endpoint |-> Endpoint(key.sock),
                        status |-> MatchStatus(unit, Endpoint(key.sock))]
             /\ reported' = [reported EXCEPT ![key.sock] = @ + delta["rx"]]
  /\ UNCHANGED <<proto, cgroupOf, socketVars, flows, call, phase, dumped, ghosts, owners, exited,
                 bounds>>

\* read_checkpoint returns; the dictionaries of this dump are gone.
Return ==
  /\ phase = "rows" /\ todo = {}
  /\ phase' = "sleep" /\ row' = NoRow /\ dumped' = [k \in {} |-> EmptySlot]
  /\ owners' = [p \in Pids |-> {}]
  /\ UNCHANGED <<proto, cgroupOf, socketVars, flows, call, todo, previous, pid_units, reported,
                 ghosts, exited, bounds>>

---------------------------------------------------------------------------------
\* The processes have opened their sockets, and bound them if they are UDP.
Init ==
  /\ proto \in {"tcp", "udp"}
  /\ cgroupOf \in Started
  /\ \E opener \in [Sockets -> Pids] : holders = [s \in Sockets |-> {opener[s]}]
  /\ IF proto = "tcp" THEN src = [s \in Sockets |-> None] /\ dst = src
     ELSE \E ends \in [Sockets -> UdpEnds] :
            src = [s \in Sockets |-> ends[s][1]] /\ dst = [s \in Sockets |-> ends[s][2]]
  /\ state = [s \in Sockets |-> 0]
  /\ flows = [k \in {} |-> <<>>] /\ call = [c \in Cpus |-> Idle]
  /\ phase = "sleep" /\ dumped = [k \in {} |-> EmptySlot] /\ todo = {}
  /\ previous = [k \in {} |-> Nothing] /\ pid_units = [p \in {} |-> ""] /\ row = NoRow
  /\ consumed = [s \in Sockets |-> 0] /\ looked = [s \in Sockets |-> 0]
  /\ lost = {} /\ reported = [s \in Sockets |-> 0]
  /\ owners = [p \in Pids |-> {}] /\ exited = {}
  /\ ops = 0 /\ events = 0 /\ polls = 0

Hook(s, p, cpu) ==
  \/ \E peer \in Endpoints : tcp_v4_connect_exit(s, p, cpu, peer)
  \/ tcp_sendmsg_exit(s, p, cpu)
  \/ \E flags \in Flags : tcp_recvmsg_exit(s, p, cpu, flags) \/ udp_recvmsg_exit(s, p, cpu, flags)
  \/ tcp_set_state_entry(s, p, cpu)

Next ==
  \/ \E s \in Sockets, p \in Pids, cpu \in Cpus : Hook(s, p, cpu)
  \/ \E cpu \in Cpus : InsertFlow(cpu) \/ FindAgain(cpu)
  \/ \E s \in Sockets, p \in Pids : Share(s, p)
  \/ \E p \in Pids : Exit(p)
  \/ \E p \in Pids, g \in Cgroups : Start(p, g)
  \/ read_checkpoint
  \/ \E key \in Keys : FlowRow(key)
  \/ Return

Spec == Init /\ [][Next]_vars

---------------------------------------------------------------------------------
(* Properties.                                                                       *)

IsRow == row # NoRow

\* Type correctness of the program's map and of the collector's dictionaries.
TypeOK ==
  /\ proto \in {"tcp", "udp"} /\ phase \in {"sleep", "rows"}
  /\ cgroupOf \in [Pids -> Cgroups \cup {NoCgroup}]
  /\ DOMAIN flows \subseteq Keys /\ Cardinality(DOMAIN flows) <= Capacity
  /\ \A k \in DOMAIN flows, c \in Cpus : flows[k][c].pid \in Pids \cup {0}
  /\ \A c \in Cpus : call[c].at # "idle" => call[c].key \in Keys /\ call[c].pid \in Alive
  /\ todo \subseteq DOMAIN dumped /\ DOMAIN previous \subseteq Keys
  /\ DOMAIN pid_units \subseteq Pids
  /\ IsRow => row.pid \in Pids /\ row.n # Nothing

\* What a socket's readers are to be charged with: the UDP program does not count what
\* is only looked at, the TCP program does.
Taken(s) == consumed[s] + (IF proto = "tcp" THEN looked[s] ELSE 0)

\* What the map holds of a key, and what a CPU is about to add for a socket.
Counted(k) == IF k \in DOMAIN flows THEN parse_flow_value(flows[k]).n["rx"] ELSE 0
Held(c, s) == IF call[c].at # "idle" /\ call[c].key.sock = s THEN call[c].inc["rx"] ELSE 0

\* udp_channel.bpf.c:11-14: "peek returns the bytes but does not consume the datagram
\* (we would count it twice)".  All UDP rows of a socket together hold no more than was
\* taken from it, over evictions, CPUs and processes; TCP rows no more than was taken
\* and looked at, which is the bug the comment says the twin has.
ReceivedOnce == \A s \in Sockets : reported[s] <= Taken(s)

\* tcp_channel.bpf.c:109-115, udp_channel.bpf.c:127-133: CPUs that read one socket race
\* to insert its entry, and none looks at what the insertion returned.  Every read is in
\* the map, or about to be added by its CPU, once, unless an entry of the socket had to
\* make room for another or could not be made.
ReadsAreCounted ==
  \A s \in Sockets \ lost :
    SumFunction([g \in Cgroups |-> Counted([sock |-> s, cgroup |-> g])])
      + SumFunction([c \in Cpus |-> Held(c, s)]) = Taken(s)

\* tcp_channel.py:407-410: "A cache kept for the process lifetime returns the PREVIOUS
\* owner after pid reuse and pins a transient /proc miss".  A row's unit is what
\* /proc said of its process number at some moment since this checkpoint began: the
\* service of a cgroup it was in, or none, if that cgroup is in no service or there was
\* no such process.
UnitIsOfThisCheckpoint ==
  IsRow => row.unit \in {UnitIn(g) : g \in owners[row.pid]}

\* The program counts under the cgroup of the process that runs, the collector looks
\* the unit up by the process it finds in the entry: unless that process has exited,
\* the two agree, whichever units the socket is shared between.
UnitIsTheCgroups ==
  IsRow /\ row.pid \notin exited => row.unit = Service[row.key.cgroup]

\* udp_channel.py:482-485 ("the endpoint is taken from BIND when dst is empty") and
\* tcp_channel.py:480: a row is "matched" exactly if its unit is in the catalog and the
\* socket is tied to the unit's stream, by its peer or, without one, by the group it is
\* bound to.
MatchedByItsStream ==
  IsRow =>
    LET s == row.key.sock
        tied == {e \in Endpoints : dst[s] = e \/ (dst[s] = None /\ src[s] = e)}
    IN row.status = "matched" <=> row.unit \in DOMAIN Target /\ tied = {Target[row.unit]}

\* roadmap.md:51 and udp_channel.py:483: "attribution goes by cgroup->unit anyway".  It
\* goes by the process number in the entry, which may have another owner by now.
AttributedByCgroup == IsRow /\ row.unit # "" => row.unit = Service[row.key.cgroup]
=================================================================================

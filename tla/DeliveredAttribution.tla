--------------------------- MODULE DeliveredAttribution ---------------------------
(* Which process has received a datagram: the receive program (udp_receive.bpf.c),      *)
(* which counts per socket and flow, and the analyzer, which looks for the socket's       *)
(* holders in /proc (processes.py) when it writes a row (EbpfIngressCollector).           *)
(*                                                                                       *)
(* Attribution "cookie" goes by the socket's inode; the cookie is the kernel's with the   *)
(* fentry program, one of the program's own with the kprobe.  Attribution "legacy" has    *)
(* no receive program: it compares the address and port of an ingress row with every      *)
(* bound socket.  A dump is one step (CheckpointCollector, IngressPipeline), per-CPU      *)
(* slots are one counter (IngressProgram); inode numbers and random cookies do not repeat. *)
EXTENDS Integers, FiniteSets, Functions

CONSTANTS
  Sockets, Pids, Cpus, Addresses, \* Addresses: of struct sock, used again after a close
  Local,      \* the address and port each socket is bound to: [ip, port]
  NsOf,       \* the network namespace of each process
  Flows,      \* destinations of datagrams: [ip, port]
  ProcessNames,
  Running,    \* the processes there are at first, as names
  OpenedBy,   \* the process that has opened each socket, "none" if it is not open yet
  Filters,    \* --process-name: a name, "" for any
  MaxCookies, \* max_entries of udp_kprobe_cookies, an LRU map
  MaxEntries, \* max_entries of udp_delivered_counters, a plain hash
  Ttl,        \* cache_ttl
  MaxClock,   \* bound: ticks of time.monotonic()
  MaxPackets, \* bound: datagrams
  MaxEvents,  \* bound: sockets opened, passed on or closed, processes started, renamed or gone
  MaxMoves,   \* bound: datagrams and events together
  MaxPolls    \* bound: checkpoints

Wildcard == "0.0.0.0"
DualStack == "::"   \* bound so, an IPv6 socket receives IPv4 datagrams too

\* The processes that have opened sockets are running; "none" is no socket and no process.
ASSUME DeliveredAssumption ==
  /\ MaxCookies \in Nat \ {0} /\ MaxEntries \in Nat \ {0} /\ Ttl \in Nat /\ MaxClock \in Nat
  /\ MaxPackets \in Nat /\ MaxEvents \in Nat /\ MaxMoves \in Nat
  /\ MaxPolls \in Nat
  /\ "" \notin ProcessNames /\ Running \in [Pids -> ProcessNames \cup {""}]
  /\ DOMAIN Local = Sockets /\ DOMAIN NsOf = Pids
  /\ IsFiniteSet(Sockets) /\ "none" \notin Sockets \cup Pids
  /\ OpenedBy \in [Sockets -> Pids \cup {"none"}]
  /\ \A s \in Sockets : OpenedBy[s] # "none" => Running[OpenedBy[s]] # ""

VARIABLES
  mode,     \* "fentry", "kprobe", "legacy"
  filter,   \* the process name that is looked for
  names,    \* names[p]: the process's name, "" if there is no such process
  sk,       \* sk[s]: [stage, address, ns, holders]; a closing socket has no inode
  hook,     \* hook[c]: what the receive program is at on a CPU
  cookies,  \* udp_kprobe_cookies: <<address, inode>> -> cookie
  minted,   \* cookies given out so far
  entries,  \* the counters: <<cookie, flow>>, or the flow itself, -> [packets, inode]
  phase,    \* "sleep", "rows", "scan"
  dumped, todo, previous, \* of a checkpoint: the dump, identities to come, the baseline
  cursor,   \* the identity a scan is made for
  scan,     \* [left, pid, at, name, inodes, found]
  cache,    \* cached_sockets: [pid, name, socket], the socket standing for its inode
  cacheAt,  \* cache_at
  row,      \* the row just written with its processes, or NoRow
  clock,
  under,    \* ghost: sockets counted under each identity
  split,    \* ghost: sockets whose cookie was evicted
  since,    \* ghost: when a process that holds a socket got hold of it
  until,    \* ghost: when a process last held a socket it has lost, or a name
  nameSince, \* ghost: when a process got its name
  named,    \* ghost: what the rows that name a process say it has received of a socket or flow
  arrived,  \* ghost: datagrams that have been counted of each socket or flow
  packets, events, polls \* bounded counters

kernelVars == <<sk, names>>
progVars   == <<hook, cookies, minted, entries, under, split, arrived>>
pollVars   == <<phase, dumped, todo, previous, cursor, scan, cache, cacheAt, row, named>>
ghostVars  == <<since, until, nameSince>>
bounds     == <<packets, events, polls>>
vars == <<mode, filter, kernelVars, progVars, pollVars, ghostVars, clock, bounds>>

Alive == {p \in Pids : names[p] # ""}

\* The kernel's choice of a datagram's sockets.
Hears(s, f) == Local[s].port = f.port /\ Local[s].ip \in {Wildcard, DualStack, f.ip}

NoInode == "none"
InodeOf(s) == IF sk[s].stage = "open" THEN s ELSE NoInode

With(map, key, value) ==
  [k \in DOMAIN map \cup {key} |-> IF k = key THEN value ELSE map[k]]

EmptyMap == [k \in {} |-> 0]
Idle == [at |-> "idle"]
NoRow == [key |-> "none"]
NoScan == [at |-> "none"]
NoCursor == "none"

---------------------------------------------------------------------------------
(* The receive program.                                                             *)

Arrival == packets < MaxPackets /\ packets + events < MaxMoves /\ packets' = packets + 1

\* udp_recv_fentry, udp_recv_kprobe: the program has the socket and reads its inode,
\* which a socket that is being closed has no more.
Deliver(c, s, f) ==
  /\ Arrival
  /\ mode # "legacy" /\ hook[c] = Idle /\ sk[s].stage \in {"open", "closing"} /\ Hears(s, f)
  /\ hook' = [hook EXCEPT ![c] =
       [at |-> IF mode = "kprobe" THEN "lookup" ELSE "account",
        socket |-> s, flow |-> f, inode |-> InodeOf(s), cookie |-> <<"kernel", s>>]]
  /\ UNCHANGED <<mode, filter, kernelVars, cookies, minted, entries, under, split, arrived,
                 pollVars, ghostVars, clock, events, polls>>

CookieKey(h) == <<sk[h.socket].address, h.inode>>

\* bpf_map_lookup_elem(&udp_kprobe_cookies, &key), before and after the insertion.
LookupCookie(c) ==
  /\ hook[c].at \in {"lookup", "again"}
  /\ LET h == hook[c] IN
     hook' = [hook EXCEPT ![c] =
       IF CookieKey(h) \in DOMAIN cookies
         THEN [h EXCEPT !.at = "account", !.cookie = cookies[CookieKey(h)]]
         ELSE IF h.at = "lookup" THEN [h EXCEPT !.at = "insert"] ELSE Idle]
  /\ UNCHANGED <<mode, filter, kernelVars, cookies, minted, entries, under, split, arrived,
                 pollVars, ghostVars, clock, bounds>>

\* Mutant: the program goes on with its candidate, whether or not it was inserted.
InsertCookie_Candidate(c) ==
  /\ hook[c].at = "insert"
  /\ minted' = minted + 1
  /\ hook' = [hook EXCEPT ![c].at = "account", ![c].cookie = <<"random", minted>>]
  /\ cookies' = IF CookieKey(hook[c]) \in DOMAIN cookies THEN cookies
                ELSE With(cookies, CookieKey(hook[c]), <<"random", minted>>)
  /\ UNCHANGED <<mode, filter, kernelVars, entries, under, split, arrived, pollVars, ghostVars,
                 clock, bounds>>

\* Mutant: the map of cookies grows without bound.
InsertCookie_Grow(c) ==
  /\ hook[c].at = "insert"
  /\ minted' = minted + 1
  /\ hook' = [hook EXCEPT ![c].at = "again"]
  /\ cookies' = IF CookieKey(hook[c]) \in DOMAIN cookies THEN cookies
                ELSE With(cookies, CookieKey(hook[c]), <<"random", minted>>)
  /\ UNCHANGED <<mode, filter, kernelVars, entries, under, split, arrived, pollVars, ghostVars,
                 clock, bounds>>

\* A candidate, inserted unless another CPU was first; a full map evicts something.
InsertCookie(c) ==
  /\ hook[c].at = "insert"
  /\ minted' = minted + 1
  /\ hook' = [hook EXCEPT ![c].at = "again"]
  /\ LET key == CookieKey(hook[c]) IN
     IF key \in DOMAIN cookies THEN UNCHANGED <<cookies, split>>
     ELSE \E victims \in SUBSET DOMAIN cookies :
       /\ IF Cardinality(DOMAIN cookies) < MaxCookies THEN victims = {} ELSE victims # {}
       /\ cookies' = With(Restrict(cookies, DOMAIN cookies \ victims), key, <<"random", minted>>)
       /\ split' = split \cup {s \in Sockets : \E v \in victims : v[2] = s}
  /\ UNCHANGED <<mode, filter, kernelVars, entries, under, arrived, pollVars, ghostVars, clock,
                 bounds>>

\* Counts in the entry of an identity; a plain hash that is full takes no new one.
Count(key, inode, who) ==
  IF key \notin DOMAIN entries /\ Cardinality(DOMAIN entries) >= MaxEntries
  THEN UNCHANGED <<entries, under, arrived>>
  ELSE LET old == IF key \in DOMAIN entries THEN entries[key] ELSE [packets |-> 0, inode |-> inode]
           whom == IF key \in DOMAIN under THEN under[key] ELSE {}
       IN /\ entries' = With(entries, key,
                [packets |-> old.packets + 1,
                 inode |-> IF old.inode = NoInode THEN inode ELSE old.inode])
          /\ under' = With(under, key, whom \cup {who})
          /\ arrived' = With(arrived, who, 1 + IF who \in DOMAIN arrived THEN arrived[who] ELSE 0)

\* account_udp_delivery: nothing is counted of a socket of another family.
Account(c) ==
  /\ hook[c].at = "account"
  /\ hook' = [hook EXCEPT ![c] = Idle]
  /\ IF Local[hook[c].socket].ip = DualStack
       THEN UNCHANGED <<entries, under, arrived>>
       ELSE Count(<<hook[c].cookie, hook[c].flow>>, hook[c].inode, hook[c].socket)
  /\ UNCHANGED <<mode, filter, kernelVars, cookies, minted, split, pollVars, ghostVars, clock,
                 bounds>>

\* Without a receive program: the tc program counts the flow.
Ingress(f) ==
  /\ Arrival
  /\ mode = "legacy"
  /\ Count(f, NoInode, f)
  /\ UNCHANGED <<mode, filter, kernelVars, hook, cookies, minted, split, pollVars, ghostVars, clock,
                 events, polls>>

---------------------------------------------------------------------------------
(* Sockets, processes, time.                                                         *)

Event == events < MaxEvents /\ packets + events < MaxMoves /\ events' = events + 1

Open(p, s) ==
  /\ Event
  /\ p \in Alive /\ sk[s].stage = "new"
  /\ \E a \in Addresses \ {sk[t].address : t \in {u \in Sockets : sk[u].stage \in {"open", "closing"}}} :
       sk' = [sk EXCEPT ![s] = [stage |-> "open", address |-> a, ns |-> NsOf[p], holders |-> {p}]]
  /\ since' = With(since, <<p, s>>, clock)
  /\ UNCHANGED <<mode, filter, names, progVars, pollVars, until, nameSince, clock, packets, polls>>

\* Inherited, or passed on.
Share(p, s) ==
  /\ Event
  /\ p \in Alive /\ sk[s].stage = "open" /\ p \notin sk[s].holders
  /\ sk' = [sk EXCEPT ![s].holders = @ \cup {p}]
  /\ since' = With(since, <<p, s>>, clock)
  /\ UNCHANGED <<mode, filter, names, progVars, pollVars, until, nameSince, clock, packets, polls>>

Without(s, p) ==
  [sk[s] EXCEPT !.holders = @ \ {p},
                !.stage = IF sk[s].holders = {p} THEN "closing" ELSE @]

Close(p, s) ==
  /\ Event
  /\ p \in sk[s].holders
  /\ sk' = [sk EXCEPT ![s] = Without(s, p)]
  /\ since' = Restrict(since, DOMAIN since \ {<<p, s>>})
  /\ until' = With(until, <<p, s>>, clock)
  /\ UNCHANGED <<mode, filter, names, progVars, pollVars, nameSince, clock, packets, polls>>

\* struct sock is freed when no program runs on it any more.
Free(s) ==
  /\ sk[s].stage = "closing" /\ \A c \in Cpus : hook[c] # Idle => hook[c].socket # s
  /\ sk' = [sk EXCEPT ![s].stage = "closed"]
  /\ UNCHANGED <<mode, filter, names, progVars, pollVars, ghostVars, clock, bounds>>

\* A process exits, and another one gets its number.
Replace(p, name) ==
  /\ Event
  /\ names' = [names EXCEPT ![p] = name] /\ nameSince' = [nameSince EXCEPT ![p] = clock]
  /\ names[p] # "" \/ name # ""
  /\ sk' = [s \in Sockets |-> IF p \in sk[s].holders THEN Without(s, p) ELSE sk[s]]
  /\ LET lost == {x \in DOMAIN since : x[1] = p} IN
     /\ since' = Restrict(since, DOMAIN since \ lost)
     /\ until' = [x \in DOMAIN until \cup lost \cup {<<p, names[p]>>} |->
                   IF x \in lost \cup {<<p, names[p]>>} THEN clock ELSE until[x]]
  /\ UNCHANGED <<mode, filter, progVars, pollVars, clock, packets, polls>>

\* exec or prctl: a process takes another name and keeps its descriptors.
Rename(p, name) ==
  /\ Event
  /\ p \in Alive /\ name \notin {"", names[p]}
  /\ names' = [names EXCEPT ![p] = name] /\ nameSince' = [nameSince EXCEPT ![p] = clock]
  /\ until' = With(until, <<p, names[p]>>, clock)
  /\ UNCHANGED <<mode, filter, sk, progVars, pollVars, since, clock, packets, polls>>

Tick ==
  /\ clock < MaxClock /\ clock' = clock + 1
  /\ UNCHANGED <<mode, filter, kernelVars, progVars, pollVars, ghostVars, bounds>>

---------------------------------------------------------------------------------
(* A checkpoint.                                                                     *)

\* The increase since the last checkpoint; none for a flow that was not in it.
Delta(key) == IF key \in DOMAIN previous THEN dumped[key].packets - previous[key] ELSE 0

\* dump_entries: the identities of the delivered map, or of the ingress map; baselines
\* of identities that are gone are dropped.
ReadMap ==
  /\ phase = "sleep"
  /\ polls < MaxPolls /\ polls' = polls + 1
  /\ phase' = "rows" /\ dumped' = entries /\ todo' = DOMAIN entries
  /\ previous' = Restrict(previous, DOMAIN previous \cap DOMAIN entries)
  /\ row' = NoRow
  /\ UNCHANGED <<mode, filter, kernelVars, progVars, cursor, scan, cache, cacheAt, named, ghostVars,
                 clock, packets, events>>

\* Mutant: the correlation by port is repeated.
find_inode_matches_Port(sockets, inode) ==
  {x \in sockets : inode # NoInode /\ Local[x.socket].port = Local[inode].port}

\* find_inode_matches: no inode, no process.
find_inode_matches(sockets, inode) ==
  {x \in sockets : inode # NoInode /\ x.socket = inode}

\* find_matches: by port and address, whichever namespace the socket is in.
find_matches(sockets, f) ==
  {x \in sockets : Local[x.socket].port = f.port /\ Local[x.socket].ip \in {Wildcard, f.ip}}

\* Does the row have to ask the inventory?
Asks(key) == mode = "legacy" \/ dumped[key].inode # NoInode

\* The row of an identity, with the processes found among these sockets: enrich_exact
\* or enrich.
Emit(key, sockets, asked) ==
  LET matches == IF mode = "legacy" THEN find_matches(sockets, key)
                 ELSE find_inode_matches(sockets, dumped[key].inode)
      subject == IF mode = "legacy" THEN key ELSE dumped[key].inode
      pairs   == {<<x.pid, subject>> : x \in matches}
      times(x) == Cardinality({m \in matches : m.pid = x[1]})
  IN /\ row' = [key |-> key, packets |-> Delta(key), matches |-> matches,
                inode |-> dumped[key].inode, asked |-> asked]
     /\ named' = [x \in DOMAIN named \cup pairs |->
          (IF x \in DOMAIN named THEN named[x] ELSE 0)
            + (IF x \in pairs THEN times(x) * Delta(key) ELSE 0)]

\* Mutant: the baseline is kept as it was first seen.
Advance_Keep(key) ==
  /\ todo' = todo \ {key}
  /\ previous' = IF key \in DOMAIN previous THEN previous ELSE With(previous, key, dumped[key].packets)

Advance(key) ==
  /\ todo' = todo \ {key}
  /\ previous' = With(previous, key, dumped[key].packets)

\* Mutant: the inventory is made once.
Stale_Once == cacheAt < 0

Stale == clock - cacheAt > Ttl

\* An identity with no row, or with one that needs no scan.
FlowRow(key) ==
  /\ phase = "rows" /\ key \in todo
  /\ \/ Delta(key) <= 0 /\ row' = NoRow /\ UNCHANGED named
     \/ Delta(key) > 0 /\ ~(Asks(key) /\ Stale) /\ Emit(key, cache, clock)
  /\ Advance(key)
  /\ UNCHANGED <<mode, filter, kernelVars, progVars, phase, dumped, cursor, scan, cache, cacheAt,
                 ghostVars, clock, bounds>>

\* sockets(): the inventory is older than its time to live and is made again.  (A process
\* that starts during the scan may be listed or not: here it is not.)
BeginScan(key) ==
  /\ phase = "rows" /\ key \in todo
  /\ Delta(key) > 0 /\ Asks(key) /\ Stale
  /\ phase' = "scan" /\ cursor' = key /\ cacheAt' = clock
  /\ scan' = [at |-> "next", left |-> Alive, found |-> {}]
  /\ UNCHANGED <<mode, filter, kernelVars, progVars, dumped, todo, previous, cache, row, named,
                 ghostVars, clock, bounds>>

Scanning ==
  /\ phase = "scan"
  /\ UNCHANGED <<mode, filter, kernelVars, progVars, phase, dumped, todo, previous, cursor, cache,
                 cacheAt, row, named, ghostVars, clock, bounds>>

\* comm: a process of another name is passed over; so is one that is gone, if names count.
ScanName(p) ==
  /\ Scanning
  /\ scan.at = "next" /\ p \in scan.left
  /\ scan' = IF filter # "" /\ names[p] # filter
               THEN [scan EXCEPT !.left = @ \ {p}]
               ELSE [at |-> "fd", left |-> scan.left \ {p}, found |-> scan.found,
                     pid |-> p, name |-> names[p]]

\* The descriptors of whatever process has that number now.
process_socket_inodes(pid) == {s \in Sockets : pid \in sk[s].holders}

ScanInodes ==
  /\ Scanning
  /\ scan.at = "fd"
  /\ LET inodes == process_socket_inodes(scan.pid)
     IN scan' = IF inodes = {} THEN [at |-> "next", left |-> scan.left, found |-> scan.found]
                ELSE [at |-> "udp", left |-> scan.left, found |-> scan.found, pid |-> scan.pid,
                      name |-> scan.name, inodes |-> inodes]

\* /proc/<pid>/net/udp lists the sockets of the process's namespace, if it still is.
read_udp_sockets(pid) ==
  IF pid \in Alive THEN {s \in Sockets : sk[s].stage = "open" /\ sk[s].ns = NsOf[pid]} ELSE {}

\* Those of them that the process had a descriptor of.
ScanSockets ==
  /\ Scanning
  /\ scan.at = "udp"
  /\ scan' = [at |-> "next", left |-> scan.left,
              found |-> scan.found \cup
                {[pid |-> scan.pid, name |-> scan.name, socket |-> s] :
                   s \in read_udp_sockets(scan.pid) \cap scan.inodes}]

\* The scan is complete: it replaces the cache, and the row is written from it.
EndScan ==
  /\ phase = "scan" /\ scan.at = "next" /\ scan.left = {}
  /\ phase' = "rows" /\ cursor' = NoCursor /\ scan' = NoScan
  /\ cache' = scan.found
  /\ Emit(cursor, scan.found, cacheAt)
  /\ Advance(cursor)
  /\ UNCHANGED <<mode, filter, kernelVars, progVars, dumped, cacheAt, ghostVars, clock, bounds>>

Return ==
  /\ phase = "rows" /\ todo = {}
  /\ phase' = "sleep" /\ dumped' = EmptyMap /\ row' = NoRow
  /\ UNCHANGED <<mode, filter, kernelVars, progVars, todo, previous, cursor, scan, cache, cacheAt,
                 named, ghostVars, clock, bounds>>

---------------------------------------------------------------------------------
\* cache_at is 0.0 on a clock that has been running since the machine started.
Init ==
  /\ mode \in {"fentry", "kprobe", "legacy"}
  /\ filter \in Filters
  /\ names = Running
  /\ \E place \in Injection({s \in Sockets : OpenedBy[s] # "none"}, Addresses) :
       sk = [s \in Sockets |->
         IF OpenedBy[s] = "none"
           THEN [stage |-> "new", address |-> "none", ns |-> "none", holders |-> {}]
           ELSE [stage |-> "open", address |-> place[s], ns |-> NsOf[OpenedBy[s]],
                 holders |-> {OpenedBy[s]}]]
  /\ hook = [c \in Cpus |-> Idle] /\ cookies = EmptyMap /\ minted = 0 /\ entries = EmptyMap
  /\ phase = "sleep" /\ dumped = EmptyMap /\ todo = {} /\ previous = EmptyMap
  /\ cursor = NoCursor /\ scan = NoScan /\ cache = {} /\ cacheAt = -(Ttl + 1) /\ row = NoRow
  /\ clock = 0
  /\ since = [x \in {<<OpenedBy[s], s>> : s \in {t \in Sockets : OpenedBy[t] # "none"}} |-> 0]
  /\ until = EmptyMap /\ nameSince = [p \in Pids |-> 0]
  /\ under = EmptyMap /\ split = {}
  /\ named = EmptyMap /\ arrived = EmptyMap
  /\ packets = 0 /\ events = 0 /\ polls = 0

Program ==
  \/ \E c \in Cpus, s \in Sockets, f \in Flows : Deliver(c, s, f)
  \/ \E c \in Cpus : LookupCookie(c) \/ InsertCookie(c) \/ Account(c)
  \/ \E f \in Flows : Ingress(f)

World ==
  \/ \E p \in Pids, s \in Sockets : Open(p, s) \/ Share(p, s) \/ Close(p, s)
  \/ \E s \in Sockets : Free(s)
  \/ \E p \in Pids, name \in ProcessNames \cup {""} : Replace(p, name) \/ Rename(p, name)
  \/ Tick

Checkpoint ==
  \/ ReadMap
  \/ \E key \in todo : FlowRow(key) \/ BeginScan(key)
  \/ \E p \in Pids : ScanName(p)
  \/ ScanInodes \/ ScanSockets \/ EndScan
  \/ Return

Next == Program \/ World \/ Checkpoint

Spec == Init /\ [][Next]_vars

---------------------------------------------------------------------------------
(* Properties.                                                                       *)

IsRow == row # NoRow

\* Type correctness of the maps, the dictionaries and the cached inventory.
TypeOK ==
  /\ phase \in {"sleep", "rows", "scan"}
  /\ \A c \in Cpus : hook[c].at \in {"idle", "lookup", "insert", "again", "account"}
  /\ Cardinality(DOMAIN cookies) <= MaxCookies /\ Cardinality(DOMAIN entries) <= MaxEntries
  /\ todo \subseteq DOMAIN dumped /\ DOMAIN dumped \subseteq DOMAIN entries
  /\ \A key \in DOMAIN dumped : dumped[key].inode \in Sockets \cup {NoInode}
  /\ \A x \in cache : x.pid \in Pids /\ x.socket \in Sockets
  /\ IsRow => row.packets > 0

\* udp_receive.bpf.c:45-47: "Keep a private cookie for the selected struct sock".  What is
\* counted with an inode is all of one socket, although sockets come and go at the same
\* address and CPUs make up cookies at the same time; and all of a socket is under one
\* cookie, unless the map of cookies has evicted it.
OneCookiePerSocket ==
  mode # "legacy" =>
    /\ \A key \in DOMAIN entries : entries[key].inode # NoInode => under[key] = {entries[key].inode}
    /\ \A key, other \in DOMAIN entries :
         /\ entries[key].inode = entries[other].inode
         /\ entries[key].inode \notin split \cup {NoInode}
         => key[1] = other[1]

\* processes.py:131-135: "Enrich a kernel-attributed row without repeating port
\* correlation".  A process a row names held the socket the datagrams went to, not
\* longer ago than the inventory may live when the row asks for it; in legacy mode it
\* held some socket, of any namespace, that would hear the flow.  It held it by the name
\* in the row, or has lost that name within the same time: of such a process the scan may
\* have read the name before the change and the descriptors after it.
NamesAHolder ==
  LET recent(x) == x \in DOMAIN until /\ until[x] >= row.asked - Ttl IN
  IsRow => \A m \in row.matches : \E s \in Sockets :
    /\ IF mode = "legacy" THEN Hears(s, row.key) ELSE under[row.key] = {s}
    /\ m.pid \in sk[s].holders \/ recent(<<m.pid, s>>)
    /\ \/ /\ names[m.pid] = m.name
          /\ m.pid \notin sk[s].holders => nameSince[m.pid] <= until[<<m.pid, s>>]
       \/ recent(<<m.pid, m.name>>)

\* ProcessSocketEnricher.sockets and scan: a process that has held the socket for longer
\* than the inventory may live, and still does, is named, if its name is asked for and it
\* has had it as long, and if the socket is of its namespace; in legacy mode with every
\* flow the socket hears, unless it is an IPv6 socket that hears IPv4 too: find_matches
\* compares the text of the addresses (processes.py:169-170).
NoHolderMissed ==
  IsRow => \A x \in DOMAIN since :
    /\ since[x] < row.asked - Ttl
    /\ sk[x[2]].ns = NsOf[x[1]]
    /\ filter = "" \/ (filter = names[x[1]] /\ nameSince[x[1]] < row.asked - Ttl)
    /\ IF mode = "legacy" THEN Hears(x[2], row.key) /\ Local[x[2]].ip # DualStack
       ELSE row.inode = x[2]
    => \E m \in row.matches : m.pid = x[1]

\* A process's rows never add up to more than what has arrived for it: of a socket,
\* although each of its holders has a row of its own, and in legacy mode of a flow for
\* each socket it has.
PerProcessOnce ==
  \A x \in DOMAIN named :
    named[x] <= arrived[x[2]] *
      (IF mode = "legacy" THEN Cardinality({s \in Sockets : Hears(s, x[2])}) ELSE 1)
===================================================================================

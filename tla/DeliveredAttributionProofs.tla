----------------------- MODULE DeliveredAttributionProofs -----------------------
(* Proofs about DeliveredAttribution, for any number of sockets, processes and CPUs,   *)
(* any flows and namespaces, any size of the maps and any time to live.                *)
EXTENDS DeliveredAttribution, SumFacts

Names == ProcessNames \cup {""}
Inodes == Sockets \cup {NoInode}
Cookies == ({"kernel"} \X Sockets) \cup ({"random"} \X Nat)

---------------------------------------------------------------------------------
(* The inductive invariant: sockets, processes and time.                              *)

Socket == [stage : {"new", "open", "closing", "closed"}, address : Addresses \cup {"none"},
           ns : {NsOf[p] : p \in Pids} \cup {"none"}, holders : SUBSET Pids]

\* Who holds an open socket runs.
WorldOK ==
  /\ mode \in {"fentry", "kprobe", "legacy"}
  /\ names \in [Pids -> Names]
  /\ sk \in [Sockets -> Socket]
  /\ \A s \in Sockets : \A p \in sk[s].holders : names[p] # "" /\ sk[s].stage = "open"

\* The ghosts know since when each holder holds its socket.
TimesOK ==
  /\ clock \in Nat
  /\ DOMAIN since = {x \in Pids \X Sockets : x[1] \in sk[x[2]].holders}
  /\ \A x \in DOMAIN since : since[x] \in Nat /\ since[x] <= clock
  /\ \A x \in DOMAIN until : until[x] \in Nat /\ until[x] <= clock
  /\ nameSince \in [Pids -> Nat] /\ \A p \in Pids : nameSince[p] <= clock

---------------------------------------------------------------------------------
(* The receive program.                                                               *)

HookRecord == [at : {"lookup", "insert", "again", "account"}, socket : Sockets, flow : Flows,
               inode : Inodes, cookie : Cookies]

\* The program has a socket that is not freed, and its inode if it has read one.
HooksOK ==
  /\ hook \in [Cpus -> HookRecord \cup {Idle}]
  /\ \A c \in Cpus : hook[c] # Idle =>
       /\ mode # "legacy" /\ sk[hook[c].socket].stage \in {"open", "closing"}
       /\ hook[c].inode \in {NoInode, hook[c].socket}
       /\ mode = "fentry" => hook[c].at = "account" /\ hook[c].cookie = <<"kernel", hook[c].socket>>

\* A cookie is kept under the address that its socket has had from when it was opened.
CookiesOK ==
  /\ IsFiniteSet(DOMAIN cookies) /\ Cardinality(DOMAIN cookies) <= MaxCookies
  /\ minted \in Nat
  /\ \A k \in DOMAIN cookies : \E a \in Addresses \cup {"none"}, i \in Inodes :
       /\ k = <<a, i>>
       /\ i \in Sockets => a = sk[i].address /\ sk[i].stage # "new"

\* Where a cookie is used, and for which inode: in the map, by a CPU, in a counter.
Uses ==
  {<<cookies[k], k[2]>> : k \in DOMAIN cookies}
    \cup {<<hook[c].cookie, hook[c].inode>> : c \in {d \in Cpus : hook[d].at = "account"}}
    \cup {<<key[1], entries[key].inode>> : key \in DOMAIN entries}

Random(cookie) == cookie \in {"random"} \X Nat /\ cookie[2] < minted

\* A cookie is of one inode; an inode whose cookie was not evicted has one cookie.
UsesOK ==
  mode = "kprobe" =>
    /\ \A x \in Uses : Random(x[1])
    /\ \A x, y \in Uses : x[1] = y[1] => x[2] = y[2]
    /\ \A x \in Uses : x[2] \in Sockets \ split =>
         LET k == <<sk[x[2]].address, x[2]>> IN k \in DOMAIN cookies /\ cookies[k] = x[1]

Entry == [packets : Nat, inode : Inodes]

\* What is counted with an inode is all of that socket.
EntryOK(key) ==
  /\ entries[key] \in Entry
  /\ IF mode = "legacy"
       THEN key \in Flows /\ entries[key].inode = NoInode /\ under[key] = {key}
       ELSE /\ key \in Cookies \X Flows
            /\ entries[key].inode # NoInode => under[key] = {entries[key].inode}
            /\ mode = "fentry" => \E s \in Sockets :
                 /\ key[1] = <<"kernel", s>> /\ under[key] = {s}
                 /\ entries[key].inode \in {s, NoInode}

EntriesOK ==
  /\ IsFiniteSet(DOMAIN entries) /\ Cardinality(DOMAIN entries) <= MaxEntries
  /\ DOMAIN under = DOMAIN entries
  /\ \A key \in DOMAIN entries : EntryOK(key)

---------------------------------------------------------------------------------
(* The analyzer.                                                                      *)

\* A dump is what the entries were; a baseline is what a dump was.
DumpOK ==
  /\ phase \in {"sleep", "rows", "scan"}
  /\ todo \subseteq DOMAIN dumped /\ DOMAIN dumped \subseteq DOMAIN entries
  /\ \A key \in DOMAIN dumped :
       /\ dumped[key] \in Entry /\ dumped[key].packets <= entries[key].packets
       /\ dumped[key].inode # NoInode => entries[key].inode = dumped[key].inode
  /\ \A key \in DOMAIN previous :
       /\ key \in DOMAIN entries /\ previous[key] \in Nat
       /\ previous[key] <= entries[key].packets
       /\ key \in DOMAIN dumped => previous[key] <= dumped[key].packets
  /\ phase = "scan" => cursor \in todo /\ Delta(cursor) > 0 /\ Asks(cursor)

Match == [pid : Pids, name : Names, socket : Sockets]

\* Since t, at some time, it was so.
Lately(x, t) == x \in DOMAIN until /\ until[x] >= t
Called(p, name, t) == names[p] = name \/ Lately(<<p, name>>, t)
Holds(p, s, t) == p \in sk[s].holders \/ Lately(<<p, s>>, t)

\* It held the socket by that name, or has lost the name since then.
HoldsAs(p, name, s, t) ==
  /\ Holds(p, s, t)
  /\ \/ names[p] = name /\ (p \notin sk[s].holders => nameSince[p] <= until[<<p, s>>])
     \/ Lately(<<p, name>>, t)

\* A holder that an inventory made at t, or after, has to list.
Due(x, t) ==
  /\ x \in DOMAIN since /\ since[x] < t
  /\ sk[x[2]].ns = NsOf[x[1]]
  /\ filter = "" \/ (filter = names[x[1]] /\ nameSince[x[1]] < t)

Finds(found, p, s) == \E m \in found : m.pid = p /\ m.socket = s

True(found, t) == \A m \in found : HoldsAs(m.pid, m.name, m.socket, t)

OneName(found) == \A m, n \in found : m.pid = n.pid => m.name = n.name

\* An inventory says what was so not before it was begun, and misses no one.
CacheOK ==
  /\ cacheAt \in Int /\ cacheAt <= clock
  /\ cache \subseteq Match
  /\ phase # "scan" =>
       /\ True(cache, cacheAt) /\ OneName(cache)
       /\ \A x \in Pids \X Sockets : Due(x, cacheAt) => Finds(cache, x[1], x[2])

\* So does the part of one that has been made.
ScanOK ==
  phase = "scan" =>
    /\ scan.left \subseteq Pids /\ scan.found \subseteq Match
    /\ True(scan.found, cacheAt) /\ OneName(scan.found)
    /\ \A m \in scan.found : m.pid \notin scan.left
    /\ \/ scan \in [at : {"next"}, left : SUBSET Pids, found : SUBSET Match]
       \/ /\ scan.at \in {"fd", "udp"}
          /\ scan.pid \in Pids \ scan.left /\ scan.name \in Names
          /\ Called(scan.pid, scan.name, cacheAt)
          /\ \A m \in scan.found : m.pid # scan.pid
    /\ scan.at = "udp" => /\ scan.inodes \subseteq Sockets
                          /\ \A s \in scan.inodes : HoldsAs(scan.pid, scan.name, s, cacheAt)
    /\ \A x \in Pids \X Sockets : Due(x, cacheAt) =>
         \/ x[1] \in scan.left \/ Finds(scan.found, x[1], x[2])
         \/ scan.at = "fd" /\ scan.pid = x[1]
         \/ scan.at = "udp" /\ scan.pid = x[1] /\ x[2] \in scan.inodes

\* A row's processes, against what was so at the earliest when the inventory may date from.
RowOK ==
  IsRow =>
    /\ row.packets > 0 /\ row.asked \in Int /\ row.asked <= clock
    /\ row.matches \subseteq Match /\ True(row.matches, row.asked - Ttl)
    /\ \A m \in row.matches :
         IF mode = "legacy" THEN Hears(m.socket, row.key)
         ELSE row.key \in DOMAIN entries /\ entries[row.key].inode = m.socket
    /\ \A x \in Pids \X Sockets :
         /\ Due(x, row.asked - Ttl)
         /\ IF mode = "legacy" THEN Hears(x[2], row.key) /\ Local[x[2]].ip # DualStack ELSE row.inode = x[2]
         => Finds(row.matches, x[1], x[2])

---------------------------------------------------------------------------------
(* The ledger of what has arrived and what the rows say.                              *)

\* What the rows have covered of an entry, and what has been counted in it.
Base(key) == IF key \in DOMAIN previous THEN previous[key] ELSE 0
Subject(key) == IF mode = "legacy" THEN key ELSE entries[key].inode

Covered(who) == [key \in DOMAIN entries |-> IF Subject(key) = who THEN Base(key) ELSE 0]
Counted(who) ==
  [key \in DOMAIN entries |-> IF under[key] = {who} THEN entries[key].packets ELSE 0]

\* How often a row can name a process.
Times(who) == IF mode = "legacy" THEN Cardinality({s \in Sockets : Hears(s, who)}) ELSE 1

Subjects == IF mode = "legacy" THEN Flows ELSE Sockets

LedgerOK ==
  /\ \A x \in DOMAIN named : /\ x \in Pids \X Subjects /\ x[2] \in DOMAIN arrived
                             /\ named[x] \in Nat
                             /\ named[x] <= SumFunction(Covered(x[2])) * Times(x[2])
  /\ DOMAIN arrived \subseteq Subjects
  /\ \A who \in DOMAIN arrived : arrived[who] \in Nat
  /\ \A key \in DOMAIN entries : under[key] \subseteq DOMAIN arrived /\ under[key] # {}
  /\ \A who \in DOMAIN arrived : SumFunction(Counted(who)) <= arrived[who]

DeliveredInv ==
  /\ WorldOK /\ TimesOK
  /\ HooksOK /\ CookiesOK /\ UsesOK /\ EntriesOK
  /\ DumpOK /\ CacheOK /\ ScanOK /\ RowOK
  /\ LedgerOK
---------------------------------------------------------------------------------
(* Frames.                                                                            *)

\* The receive program leaves sockets, processes, the analyzer and time alone.
LEMMA ProgramFrame ==
  ASSUME Program
  PROVE  UNCHANGED <<mode, filter, kernelVars, pollVars, ghostVars, clock>>
BY DEF Program, Deliver, LookupCookie, InsertCookie, Account, Ingress

\* Sockets, processes and time go on without the program and the analyzer.
LEMMA WorldFrame ==
  ASSUME World
  PROVE  UNCHANGED <<mode, filter, progVars, pollVars>>
BY DEF World, Open, Share, Close, Free, Replace, Rename, Tick

\* The analyzer reads, it changes neither sockets nor the maps.
LEMMA CheckpointFrame ==
  ASSUME Checkpoint
  PROVE  UNCHANGED <<mode, filter, kernelVars, progVars, ghostVars, clock>>
BY DEF Checkpoint, ReadMap, FlowRow, BeginScan, ScanName, ScanInodes, ScanSockets, EndScan,
       Scanning, Return

---------------------------------------------------------------------------------
(* Sockets, processes and time.                                                       *)

\* What is left of a socket that a process gives up.
LEMMA WithoutType ==
  ASSUME WorldOK, NEW s \in Sockets, NEW p \in sk[s].holders
  PROVE  /\ Without(s, p) \in Socket
         /\ Without(s, p).holders = sk[s].holders \ {p}
         /\ Without(s, p).address = sk[s].address /\ Without(s, p).ns = sk[s].ns
         /\ Without(s, p).stage = IF sk[s].holders = {p} THEN "closing" ELSE "open"
<1>1. sk[s] \in Socket /\ sk[s].stage = "open"
  BY DEF WorldOK
<1> QED
  BY <1>1 DEF Without, Socket

\* An open socket belongs to processes that run.
LEMMA WorldStep ==
  ASSUME WorldOK, [Next]_vars
  PROVE  WorldOK'
<1>1. CASE Program
  BY <1>1, ProgramFrame DEF WorldOK, kernelVars
<1>2. CASE Checkpoint
  BY <1>2, CheckpointFrame DEF WorldOK, kernelVars
<1>3. ASSUME NEW p \in Pids, NEW s \in Sockets, Open(p, s) PROVE WorldOK'
  <2>1. PICK a \in Addresses :
          sk' = [sk EXCEPT ![s] = [stage |-> "open", address |-> a, ns |-> NsOf[p], holders |-> {p}]]
    BY <1>3 DEF Open
  <2>2. [stage |-> "open", address |-> a, ns |-> NsOf[p], holders |-> {p}] \in Socket
    BY DEF Socket
  <2>3. UNCHANGED <<mode, names>> /\ names[p] # ""
    BY <1>3 DEF Open, Alive
  <2> QED
    BY <2>1, <2>2, <2>3 DEF WorldOK
<1>4. ASSUME NEW p \in Pids, NEW s \in Sockets, Share(p, s) PROVE WorldOK'
  <2>1. /\ sk' = [sk EXCEPT ![s] = [sk[s] EXCEPT !.holders = sk[s].holders \cup {p}]]
        /\ UNCHANGED <<mode, names>> /\ names[p] # "" /\ sk[s].stage = "open"
    BY <1>4 DEF Share, Alive
  <2>2. /\ [sk[s] EXCEPT !.holders = sk[s].holders \cup {p}] \in Socket
        /\ [sk[s] EXCEPT !.holders = sk[s].holders \cup {p}].holders = sk[s].holders \cup {p}
        /\ [sk[s] EXCEPT !.holders = sk[s].holders \cup {p}].stage = sk[s].stage
    BY DEF WorldOK, Socket
  <2> QED
    BY <2>1, <2>2 DEF WorldOK
<1>5. ASSUME NEW p \in Pids, NEW s \in Sockets, Close(p, s) PROVE WorldOK'
  <2>1. p \in sk[s].holders /\ sk' = [sk EXCEPT ![s] = Without(s, p)] /\ UNCHANGED <<mode, names>>
    BY <1>5 DEF Close
  <2>2. \A q \in Without(s, p).holders : q \in sk[s].holders /\ Without(s, p).stage = "open"
    BY <2>1, WithoutType
  <2> QED
    BY <2>1, <2>2, WithoutType DEF WorldOK
<1>6. ASSUME NEW s \in Sockets, Free(s) PROVE WorldOK'
  <2>1. /\ sk' = [sk EXCEPT ![s] = [sk[s] EXCEPT !.stage = "closed"]]
        /\ sk[s].stage = "closing" /\ UNCHANGED <<mode, names>>
    BY <1>6 DEF Free
  <2>2. /\ [sk[s] EXCEPT !.stage = "closed"] \in Socket
        /\ [sk[s] EXCEPT !.stage = "closed"].holders = sk[s].holders
        /\ sk[s].holders = {}
    BY <2>1 DEF WorldOK, Socket
  <2> QED
    BY <2>1, <2>2 DEF WorldOK
<1>7. ASSUME NEW p \in Pids, NEW name \in ProcessNames \cup {""}, Replace(p, name) PROVE WorldOK'
  <2>1. /\ names' = [names EXCEPT ![p] = name] /\ UNCHANGED mode
        /\ sk' = [s \in Sockets |-> IF p \in sk[s].holders THEN Without(s, p) ELSE sk[s]]
    BY <1>7 DEF Replace
  <2>2. ASSUME NEW s \in Sockets
        PROVE  /\ sk'[s] \in Socket /\ sk'[s].holders = sk[s].holders \ {p}
               /\ sk'[s].holders # {} => sk'[s].stage = "open"
    <3>1. CASE p \in sk[s].holders
      BY <2>1, <3>1, WithoutType
    <3>2. CASE p \notin sk[s].holders
      BY <2>1, <3>2 DEF WorldOK
    <3> QED
      BY <3>1, <3>2
  <2>3. names' \in [Pids -> Names]
    BY <2>1 DEF WorldOK, Names
  <2>4. sk' \in [Sockets -> Socket]
    BY <2>1, <2>2
  <2>5. \A q \in Pids \ {p} : names'[q] = names[q]
    BY <2>1 DEF WorldOK
  <2>6. ASSUME NEW s \in Sockets, NEW q \in sk'[s].holders
        PROVE  names'[q] # "" /\ sk'[s].stage = "open"
    <3>1. q \in sk[s].holders /\ q \in Pids \ {p}
      BY <2>2 DEF Socket
    <3> QED
      BY <2>2, <2>5, <3>1 DEF WorldOK
  <2> QED
    BY <2>1, <2>3, <2>4, <2>6 DEF WorldOK
<1>8. CASE Tick
  BY <1>8 DEF Tick, WorldOK, kernelVars
<1>9. CASE UNCHANGED vars
  BY <1>9 DEF WorldOK, vars, kernelVars
<1>10. ASSUME NEW p \in Pids, NEW name \in ProcessNames \cup {""}, Rename(p, name) PROVE WorldOK'
  <2>1. names' = [names EXCEPT ![p] = name] /\ name # "" /\ UNCHANGED <<mode, sk>>
    BY <1>10 DEF Rename
  <2>2. names' \in [Pids -> Names] /\ \A q \in Pids : names[q] # "" => names'[q] # ""
    BY <2>1 DEF WorldOK, Names
  <2>3. \A s \in Sockets : sk[s].holders \subseteq Pids
    BY DEF WorldOK, Socket
  <2> QED
    BY <2>1, <2>2, <2>3 DEF WorldOK
<1> QED
  BY <1>1, <1>2, <1>3, <1>4, <1>5, <1>6, <1>7, <1>8, <1>9, <1>10 DEF Next, World

\* What an event does to the holders of the sockets: a process gets hold of one, or loses
\* one; all stay what they are; a process goes, and with it all it holds, or takes a name.
Gets(p, s) ==
  /\ p \notin sk[s].holders
  /\ \A t \in Sockets : sk'[t].holders = IF t = s THEN sk[t].holders \cup {p} ELSE sk[t].holders
  /\ \A t \in Sockets : t # s \/ sk[s].holders # {} => sk'[t].ns = sk[t].ns
  /\ since' = With(since, <<p, s>>, clock)
  /\ UNCHANGED <<names, until, nameSince, clock>>

Loses(p, s) ==
  /\ p \in sk[s].holders
  /\ \A t \in Sockets : sk'[t].holders = IF t = s THEN sk[t].holders \ {p} ELSE sk[t].holders
  /\ \A t \in Sockets : sk'[t].ns = sk[t].ns
  /\ since' = Restrict(since, DOMAIN since \ {<<p, s>>})
  /\ until' = With(until, <<p, s>>, clock)
  /\ UNCHANGED <<names, nameSince, clock>>

Stays ==
  /\ \A t \in Sockets : sk'[t].holders = sk[t].holders /\ sk'[t].ns = sk[t].ns
  /\ UNCHANGED <<names, since, until, nameSince>> /\ clock' \in {clock, clock + 1}

Lost(p) == {x \in DOMAIN since : x[1] = p}

Takes(p, name) ==
  /\ names' = [names EXCEPT ![p] = name] /\ nameSince' = [nameSince EXCEPT ![p] = clock]
  /\ until' = With(until, <<p, names[p]>>, clock)
  /\ UNCHANGED <<sk, since, clock>>

Goes(p, name) ==
  /\ names' = [names EXCEPT ![p] = name] /\ nameSince' = [nameSince EXCEPT ![p] = clock]
  /\ \A t \in Sockets : sk'[t].holders = sk[t].holders \ {p} /\ sk'[t].ns = sk[t].ns
  /\ since' = Restrict(since, DOMAIN since \ Lost(p))
  /\ until' = [x \in DOMAIN until \cup Lost(p) \cup {<<p, names[p]>>} |->
                 IF x \in Lost(p) \cup {<<p, names[p]>>} THEN clock ELSE until[x]]
  /\ UNCHANGED clock

\* Every event is one of these.
LEMMA WorldEvents ==
  ASSUME WorldOK, World
  PROVE  \/ \E p \in Pids, s \in Sockets : Gets(p, s) \/ Loses(p, s)
         \/ Stays
         \/ \E p \in Pids, name \in Names : Goes(p, name) \/ Takes(p, name)
<1>1. \A s \in Sockets : sk[s] \in Socket
  BY DEF WorldOK
<1>2. ASSUME NEW p \in Pids, NEW s \in Sockets, Open(p, s) PROVE Gets(p, s)
  <2>1. PICK a \in Addresses :
          sk' = [sk EXCEPT ![s] = [stage |-> "open", address |-> a, ns |-> NsOf[p], holders |-> {p}]]
    BY <1>2 DEF Open
  <2>2. sk[s].stage = "new" /\ since' = With(since, <<p, s>>, clock)
        /\ UNCHANGED <<names, until, nameSince, clock>>
    BY <1>2 DEF Open
  <2>3. sk[s].holders = {}
    BY <1>1, <2>2 DEF WorldOK, Socket
  <2>4. /\ sk'[s].holders = {p}
        /\ \A t \in Sockets \ {s} : sk'[t] = sk[t]
    BY <2>1 DEF WorldOK
  <2> QED
    BY <2>2, <2>3, <2>4 DEF Gets
<1>3. ASSUME NEW p \in Pids, NEW s \in Sockets, Share(p, s) PROVE Gets(p, s)
  <2>1. /\ sk' = [sk EXCEPT ![s] = [sk[s] EXCEPT !.holders = sk[s].holders \cup {p}]]
        /\ p \notin sk[s].holders /\ since' = With(since, <<p, s>>, clock)
        /\ UNCHANGED <<names, until, nameSince, clock>>
    BY <1>3 DEF Share
  <2>2. /\ [sk[s] EXCEPT !.holders = sk[s].holders \cup {p}].holders = sk[s].holders \cup {p}
        /\ [sk[s] EXCEPT !.holders = sk[s].holders \cup {p}].ns = sk[s].ns
    BY <1>1 DEF Socket
  <2>3. /\ sk'[s].holders = sk[s].holders \cup {p} /\ sk'[s].ns = sk[s].ns
        /\ \A t \in Sockets \ {s} : sk'[t] = sk[t]
    BY <2>1, <2>2 DEF WorldOK
  <2>4. ASSUME NEW t \in Sockets
        PROVE  /\ sk'[t].holders = IF t = s THEN sk[t].holders \cup {p} ELSE sk[t].holders
               /\ sk'[t].ns = sk[t].ns
    <3>1. CASE t = s
      BY <2>3, <3>1
    <3>2. CASE t # s
      BY <2>3, <3>2
    <3> QED
      BY <3>1, <3>2
  <2> QED
    BY <2>1, <2>4 DEF Gets
<1>4. ASSUME NEW p \in Pids, NEW s \in Sockets, Close(p, s) PROVE Loses(p, s)
  <2>1. /\ p \in sk[s].holders /\ sk' = [sk EXCEPT ![s] = Without(s, p)]
        /\ since' = Restrict(since, DOMAIN since \ {<<p, s>>})
        /\ until' = With(until, <<p, s>>, clock)
        /\ UNCHANGED <<names, nameSince, clock>>
    BY <1>4 DEF Close
  <2>2. /\ sk'[s].holders = sk[s].holders \ {p} /\ sk'[s].ns = sk[s].ns
        /\ \A t \in Sockets \ {s} : sk'[t] = sk[t]
    BY <2>1, WithoutType DEF WorldOK
  <2> QED
    BY <2>1, <2>2 DEF Loses
<1>5. ASSUME NEW s \in Sockets, Free(s) PROVE Stays
  <2>1. /\ sk' = [sk EXCEPT ![s] = [sk[s] EXCEPT !.stage = "closed"]]
        /\ UNCHANGED <<names, since, until, nameSince, clock>>
    BY <1>5 DEF Free, kernelVars, ghostVars
  <2>2. /\ [sk[s] EXCEPT !.stage = "closed"].holders = sk[s].holders
        /\ [sk[s] EXCEPT !.stage = "closed"].ns = sk[s].ns
    BY <1>1 DEF Socket
  <2> QED
    BY <2>1, <2>2 DEF WorldOK, Stays
<1>6. ASSUME NEW p \in Pids, NEW name \in ProcessNames \cup {""}, Replace(p, name) PROVE Goes(p, name)
  <2>1. /\ names' = [names EXCEPT ![p] = name] /\ nameSince' = [nameSince EXCEPT ![p] = clock]
        /\ UNCHANGED clock
        /\ sk' = [s \in Sockets |-> IF p \in sk[s].holders THEN Without(s, p) ELSE sk[s]]
        /\ since' = Restrict(since, DOMAIN since \ Lost(p))
        /\ until' = [x \in DOMAIN until \cup Lost(p) \cup {<<p, names[p]>>} |->
              IF x \in Lost(p) \cup {<<p, names[p]>>} THEN clock ELSE until[x]]
    BY <1>6 DEF Replace, Lost
  <2>2. \A t \in Sockets : sk'[t].holders = sk[t].holders \ {p} /\ sk'[t].ns = sk[t].ns
    BY <2>1, WithoutType
  <2> QED
    BY <2>1, <2>2 DEF Goes
<1>7. ASSUME Tick PROVE Stays
  BY <1>7 DEF Tick, kernelVars, ghostVars, Stays
<1>8. ASSUME NEW p \in Pids, NEW name \in ProcessNames \cup {""}, Rename(p, name) PROVE Takes(p, name)
  BY <1>8 DEF Rename, Takes
<1> QED
  BY <1>2, <1>3, <1>4, <1>5, <1>6, <1>7, <1>8 DEF World, Names

\* The times of the ghosts are of the past, and those of a holder there as long as it holds.
LEMMA TimesStep ==
  ASSUME WorldOK, TimesOK, [Next]_vars
  PROVE  TimesOK'
<1> DEFINE Held == {x \in Pids \X Sockets : x[1] \in sk[x[2]].holders}
<1>1. \A s \in Sockets : sk[s].holders \subseteq Pids
  BY DEF WorldOK, Socket
<1>2. clock \in Nat
  BY DEF TimesOK
<1>3. CASE UNCHANGED <<sk, since, until, nameSince, clock>>
  BY <1>3 DEF TimesOK
<1>4. ASSUME NEW p \in Pids, NEW s \in Sockets, Gets(p, s) PROVE TimesOK'
  <2>1. Held' = Held \cup {<<p, s>>}
    <3>1. ASSUME NEW q \in Pids, NEW u \in Sockets
          PROVE  q \in sk'[u].holders <=> q \in sk[u].holders \/ (q = p /\ u = s)
      BY <1>4 DEF Gets
    <3> QED
      BY <3>1
  <2>2. /\ DOMAIN since' = DOMAIN since \cup {<<p, s>>}
        /\ \A x \in DOMAIN since' : since'[x] = IF x = <<p, s>> THEN clock ELSE since[x]
    BY <1>4 DEF Gets, With
  <2>3. UNCHANGED <<until, nameSince, clock>>
    BY <1>4 DEF Gets
  <2> QED
    BY <1>2, <2>1, <2>2, <2>3 DEF TimesOK
<1>5. ASSUME NEW p \in Pids, NEW s \in Sockets, Loses(p, s) PROVE TimesOK'
  <2>1. Held' = Held \ {<<p, s>>}
    <3>1. ASSUME NEW q \in Pids, NEW u \in Sockets
          PROVE  q \in sk'[u].holders <=> q \in sk[u].holders /\ ~(q = p /\ u = s)
      BY <1>5 DEF Loses
    <3> QED
      BY <3>1
  <2>2. /\ DOMAIN since' = DOMAIN since \ {<<p, s>>}
        /\ \A x \in DOMAIN since' : since'[x] = since[x]
    BY <1>5 DEF Loses, Restrict
  <2>3. /\ DOMAIN until' = DOMAIN until \cup {<<p, s>>} /\ UNCHANGED <<nameSince, clock>>
        /\ \A x \in DOMAIN until' : until'[x] = IF x = <<p, s>> THEN clock ELSE until[x]
    BY <1>5 DEF Loses, With
  <2> QED
    BY <1>2, <2>1, <2>2, <2>3 DEF TimesOK
<1>6. ASSUME Stays PROVE TimesOK'
  <2>1. Held' = Held
    BY <1>6 DEF Stays
  <2>2. clock' \in Nat /\ clock <= clock' /\ UNCHANGED <<since, until, nameSince>>
    BY <1>2, <1>6 DEF Stays
  <2> QED
    BY <1>2, <2>1, <2>2 DEF TimesOK
<1>7. ASSUME NEW p \in Pids, NEW name \in Names, Goes(p, name) PROVE TimesOK'
  <2>1. Held' = Held \ Lost(p)
    BY <1>1, <1>7 DEF Goes, Lost, TimesOK
  <2>2. /\ DOMAIN since' = DOMAIN since \ Lost(p)
        /\ \A x \in DOMAIN since' : since'[x] = since[x]
    BY <1>7 DEF Goes, Restrict
  <2>3. /\ \A x \in DOMAIN until' : (x \in DOMAIN until /\ until'[x] = until[x]) \/ until'[x] = clock
        /\ UNCHANGED clock /\ nameSince' = [nameSince EXCEPT ![p] = clock]
    BY <1>7 DEF Goes
  <2> QED
    BY <1>2, <2>1, <2>2, <2>3 DEF TimesOK
<1>12. ASSUME NEW p \in Pids, NEW name \in Names, Takes(p, name) PROVE TimesOK'
  <2>1. UNCHANGED <<sk, since, clock>> /\ nameSince' = [nameSince EXCEPT ![p] = clock]
    BY <1>12 DEF Takes
  <2>2. \A x \in DOMAIN until' : (x \in DOMAIN until /\ until'[x] = until[x]) \/ until'[x] = clock
    BY <1>12 DEF Takes, With
  <2> QED
    BY <1>2, <2>1, <2>2 DEF TimesOK
<1>8. CASE Program
  BY <1>3, <1>8, ProgramFrame DEF kernelVars, ghostVars
<1>9. CASE Checkpoint
  BY <1>3, <1>9, CheckpointFrame DEF kernelVars, ghostVars
<1>10. CASE World
  BY <1>4, <1>5, <1>6, <1>7, <1>10, <1>12, WorldEvents
<1>11. CASE UNCHANGED vars
  BY <1>3, <1>11 DEF vars, kernelVars, ghostVars
<1> QED
  BY <1>8, <1>9, <1>10, <1>11 DEF Next

\* The clock only goes forward.
LEMMA ClockStep ==
  ASSUME TimesOK, [Next]_vars
  PROVE  clock \in Nat /\ clock' \in Nat /\ clock <= clock'
<1>1. clock' = clock \/ Tick
  BY ProgramFrame, CheckpointFrame DEF Next, World, Open, Share, Close, Free, Replace, Rename, vars
<1> QED
  BY <1>1 DEF Tick, TimesOK

\* What was so lately stays so; no holder becomes due that was not.
LEMMA Kept ==
  ASSUME WorldOK, TimesOK, [Next]_vars, NEW CONSTANT t \in Int, t <= clock
  PROVE  /\ \A p \in Pids : \A s \in Sockets : Holds(p, s, t) => Holds(p, s, t)'
         /\ \A p \in Pids : \A n \in Names : Called(p, n, t) => Called(p, n, t)'
         /\ \A p \in Pids : \A n \in Names : \A s \in Sockets :
              HoldsAs(p, n, s, t) => HoldsAs(p, n, s, t)'
         /\ \A x \in Pids \X Sockets : Due(x, t)' => Due(x, t)
<1> DEFINE Goal == /\ \A p \in Pids : \A s \in Sockets : Holds(p, s, t) => Holds(p, s, t)'
                   /\ \A p \in Pids : \A n \in Names : Called(p, n, t) => Called(p, n, t)'
                   /\ \A p \in Pids : \A n \in Names : \A s \in Sockets :
                        HoldsAs(p, n, s, t) => HoldsAs(p, n, s, t)'
                   /\ \A x \in Pids \X Sockets : Due(x, t)' => Due(x, t)
<1>1. filter' = filter
  BY ProgramFrame, WorldFrame, CheckpointFrame DEF Next, vars
<1>2. clock \in Nat
  BY DEF TimesOK
<1>3. CASE UNCHANGED <<sk, names, since, until, nameSince>>
  BY <1>1, <1>3 DEF Holds, HoldsAs, Called, Lately, Due
<1>4. ASSUME NEW p \in Pids, NEW s \in Sockets, Gets(p, s) PROVE Goal
  <2>1. UNCHANGED <<names, until, nameSince>> /\ \A u \in Sockets : sk[u].holders \subseteq sk'[u].holders
    BY <1>4 DEF Gets
  <2>2. ASSUME NEW x \in Pids \X Sockets, Due(x, t)' PROVE Due(x, t)
    <3>1. x \in DOMAIN since \cup {<<p, s>>} /\ since'[x] = IF x = <<p, s>> THEN clock ELSE since[x]
      BY <1>4, <2>2 DEF Due, Gets, With
    <3>2. x # <<p, s>>
      <4>1. since'[x] < t
        BY <2>2 DEF Due
      <4>2. x = <<p, s>> => since'[x] = clock
        BY <3>1
      <4> QED
        BY <1>2, <4>1, <4>2
    <3>3. sk'[x[2]].ns = sk[x[2]].ns
      BY <1>4, <3>1, <3>2 DEF Gets, TimesOK
    <3> QED
      BY <1>1, <2>1, <2>2, <3>1, <3>2, <3>3 DEF Due
  <2> QED
    BY <2>1, <2>2 DEF Holds, HoldsAs, Called, Lately
<1>5. ASSUME NEW p \in Pids, NEW s \in Sockets, Loses(p, s) PROVE Goal
  <2>1. /\ DOMAIN until' = DOMAIN until \cup {<<p, s>>}
        /\ \A x \in DOMAIN until' : until'[x] = IF x = <<p, s>> THEN clock ELSE until[x]
        /\ names' = names /\ nameSince' = nameSince
    BY <1>5 DEF Loses, With
  <2>2. \A x : Lately(x, t) => Lately(x, t)'
    BY <1>2, <2>1 DEF Lately
  <2>3. \A q \in Pids : \A u \in Sockets : Holds(q, u, t) => Holds(q, u, t)'
    <3>1. Lately(<<p, s>>, t)'
      BY <1>2, <2>1 DEF Lately
    <3> QED
      BY <1>5, <2>2, <3>1 DEF Holds, Loses
  <2>4. \A x : x \in DOMAIN since' => x \in DOMAIN since /\ since'[x] = since[x]
    BY <1>5 DEF Loses, Restrict
  <2>5. \A x \in Pids \X Sockets : Due(x, t)' => Due(x, t)
    BY <1>1, <1>5, <2>1, <2>4 DEF Due, Loses
  <2>6. ASSUME NEW q \in Pids, NEW n \in Names, NEW u \in Sockets, HoldsAs(q, n, u, t)
        PROVE  HoldsAs(q, n, u, t)'
    <3>1. Holds(q, u, t)' /\ (Lately(<<q, n>>, t) => Lately(<<q, n>>, t)')
      BY <2>2, <2>3, <2>6 DEF HoldsAs
    <3>2. ASSUME names[q] = n, q \in sk[u].holders \/ nameSince[q] <= until[<<q, u>>],
                 q \notin sk'[u].holders
          PROVE  nameSince'[q] <= until'[<<q, u>>]
      <4>1. CASE <<q, u>> = <<p, s>>
        <5>1. until'[<<q, u>>] = clock
          BY <2>1, <4>1
        <5> QED
          BY <2>1, <5>1 DEF TimesOK
      <4>2. CASE <<q, u>> # <<p, s>>
        <5>1. q \notin sk[u].holders
          BY <1>5, <3>2, <4>2 DEF Loses
        <5>2. <<q, u>> \in DOMAIN until'
          BY <3>1, <3>2 DEF Holds, Lately
        <5>3. until'[<<q, u>>] = until[<<q, u>>]
          BY <2>1, <4>2, <5>2
        <5> QED
          BY <2>1, <3>2, <5>1, <5>3
      <4> QED
        BY <4>1, <4>2
    <3> QED
      BY <2>1, <2>6, <3>1, <3>2 DEF HoldsAs
  <2> QED
    BY <2>1, <2>2, <2>3, <2>5, <2>6 DEF Called
<1>6. ASSUME Stays PROVE Goal
  BY <1>1, <1>6 DEF Stays, Holds, HoldsAs, Called, Lately, Due
<1>7. ASSUME NEW p \in Pids, NEW name \in Names, Goes(p, name) PROVE Goal
  <2>1. /\ DOMAIN until' = DOMAIN until \cup Lost(p) \cup {<<p, names[p]>>}
        /\ \A x \in DOMAIN until' :
             until'[x] = IF x \in Lost(p) \cup {<<p, names[p]>>} THEN clock ELSE until[x]
    BY <1>7 DEF Goes
  <2>2. \A x : Lately(x, t) => Lately(x, t)'
    BY <1>2, <2>1 DEF Lately
  <2>3. \A q \in Pids : \A u \in Sockets : Holds(q, u, t) => Holds(q, u, t)'
    <3>1. ASSUME NEW u \in Sockets, p \in sk[u].holders PROVE Lately(<<p, u>>, t)'
      <4>1. <<p, u>> \in Lost(p)
        BY <3>1 DEF Lost, TimesOK
      <4> QED
        BY <1>2, <2>1, <4>1 DEF Lately
    <3> QED
      BY <1>7, <2>2, <3>1 DEF Holds, Goes
  <2>4. \A q \in Pids \ {p} : names'[q] = names[q] /\ nameSince'[q] = nameSince[q]
    BY <1>7 DEF Goes, WorldOK, TimesOK
  <2>5. \A q \in Pids : \A n \in Names : Called(q, n, t) => Called(q, n, t)'
    <3>1. PICK n0 \in Names : n0 = names[p]
      BY DEF WorldOK
    <3>2. Lately(<<p, n0>>, t)'
      BY <1>2, <2>1, <3>1 DEF Lately
    <3> QED
      BY <2>2, <2>4, <3>1, <3>2 DEF Called
  <2>6. \A x : x \in DOMAIN since' => x \in DOMAIN since \ Lost(p) /\ since'[x] = since[x]
    BY <1>7 DEF Goes, Restrict
  <2>7. \A x \in Pids \X Sockets : Due(x, t)' => Due(x, t)
    <3>1. ASSUME NEW x \in Pids \X Sockets, Due(x, t)' PROVE Due(x, t)
      <4>1. x \in DOMAIN since \ Lost(p) /\ since'[x] = since[x]
        BY <2>6, <3>1 DEF Due
      <4>2. names'[x[1]] = names[x[1]] /\ nameSince'[x[1]] = nameSince[x[1]]
        BY <2>4, <4>1 DEF Lost
      <4>3. sk'[x[2]].ns = sk[x[2]].ns
        BY <1>7 DEF Goes
      <4> QED
        BY <1>1, <3>1, <4>1, <4>2, <4>3 DEF Due
    <3> QED
      BY <3>1
  <2>8. ASSUME NEW q \in Pids, NEW n \in Names, NEW u \in Sockets, HoldsAs(q, n, u, t)
        PROVE  HoldsAs(q, n, u, t)'
    <3>1. Holds(q, u, t)' /\ (Lately(<<q, n>>, t) => Lately(<<q, n>>, t)')
      BY <2>2, <2>3, <2>8 DEF HoldsAs
    <3>2. CASE q = p
      <4>1. names[p] = n => Lately(<<p, n>>, t)'
        BY <1>2, <2>1 DEF Lately
      <4> QED
        BY <2>8, <3>1, <3>2, <4>1 DEF HoldsAs
    <3>3. CASE q # p
      <4>1. sk'[u].holders = sk[u].holders \ {p} /\ (q \in sk'[u].holders <=> q \in sk[u].holders)
        BY <1>7, <3>3 DEF Goes
      <4>2. <<q, u>> \in DOMAIN until' => until'[<<q, u>>] = until[<<q, u>>]
        BY <2>1, <3>3 DEF Lost
      <4>3. q \notin sk'[u].holders => <<q, u>> \in DOMAIN until'
        BY <3>1 DEF Holds, Lately
      <4> QED
        BY <2>4, <2>8, <3>1, <3>3, <4>1, <4>2, <4>3 DEF HoldsAs
    <3> QED
      BY <3>2, <3>3
  <2> QED
    BY <2>3, <2>5, <2>7, <2>8
<1>12. ASSUME NEW p \in Pids, NEW name \in Names, Takes(p, name) PROVE Goal
  <2>1. /\ DOMAIN until' = DOMAIN until \cup {<<p, names[p]>>}
        /\ \A x \in DOMAIN until' : until'[x] = IF x = <<p, names[p]>> THEN clock ELSE until[x]
        /\ UNCHANGED <<sk, since, clock>> /\ nameSince'[p] = clock
        /\ \A q \in Pids \ {p} : names'[q] = names[q] /\ nameSince'[q] = nameSince[q]
    BY <1>12 DEF Takes, With, WorldOK, TimesOK
  <2>2. \A x : Lately(x, t) => Lately(x, t)'
    BY <1>2, <2>1 DEF Lately
  <2>3. \A q \in Pids : \A u \in Sockets : Holds(q, u, t) => Holds(q, u, t)'
    BY <2>1, <2>2 DEF Holds
  <2>4. \A n \in Names : names[p] = n => Lately(<<p, n>>, t)'
    BY <1>2, <2>1 DEF Lately
  <2>5. \A q \in Pids : \A n \in Names : Called(q, n, t) => Called(q, n, t)'
    BY <2>1, <2>2, <2>4 DEF Called
  <2>6. ASSUME NEW q \in Pids, NEW n \in Names, NEW u \in Sockets, HoldsAs(q, n, u, t)
        PROVE  HoldsAs(q, n, u, t)'
    <3>1. Holds(q, u, t)' /\ (Lately(<<q, n>>, t) => Lately(<<q, n>>, t)')
      BY <2>2, <2>3, <2>6 DEF HoldsAs
    <3>2. CASE q = p
      BY <2>4, <2>6, <3>1, <3>2 DEF HoldsAs
    <3>3. CASE q # p
      <4>1. <<q, u>> \in DOMAIN until' => until'[<<q, u>>] = until[<<q, u>>]
        BY <2>1, <3>3
      <4>2. q \notin sk'[u].holders => <<q, u>> \in DOMAIN until'
        BY <3>1 DEF Holds, Lately
      <4> QED
        BY <2>1, <2>6, <3>1, <3>3, <4>1, <4>2 DEF HoldsAs
    <3> QED
      BY <3>2, <3>3
  <2>7. ASSUME NEW x \in Pids \X Sockets, Due(x, t)' PROVE Due(x, t)
    <3>1. x[1] = p => filter = ""
      <4>1. x[1] = p => ~(nameSince'[x[1]] < t)
        BY <1>2, <2>1
      <4> QED
        BY <1>1, <2>7, <4>1 DEF Due
    <3> QED
      BY <1>1, <2>1, <2>7, <3>1 DEF Due
  <2> QED
    BY <2>3, <2>5, <2>6, <2>7
<1>8. CASE Program
  BY <1>3, <1>8, ProgramFrame DEF kernelVars, ghostVars
<1>9. CASE Checkpoint
  BY <1>3, <1>9, CheckpointFrame DEF kernelVars, ghostVars
<1>10. CASE World
  <2> HIDE DEF Goal
  <2>1. Goal
    BY <1>4, <1>5, <1>6, <1>7, <1>10, <1>12, WorldEvents
  <2> QED
    BY <2>1 DEF Goal
<1>11. CASE UNCHANGED vars
  BY <1>3, <1>11 DEF vars, kernelVars, ghostVars
<1> QED
  BY <1>8, <1>9, <1>10, <1>11 DEF Next

---------------------------------------------------------------------------------
(* The receive program.                                                               *)

\* A socket keeps its address, and is not freed while a CPU's program has it.
LEMMA SocketKept ==
  ASSUME WorldOK, World, NEW s \in Sockets, sk[s].stage # "new"
  PROVE  /\ sk'[s].address = sk[s].address /\ sk'[s].stage # "new"
         /\ sk[s].stage \in {"open", "closing"} /\ (\E c \in Cpus : hook[c] # Idle /\ hook[c].socket = s)
              => sk'[s].stage \in {"open", "closing"}
<1> DEFINE Same(t) == /\ t.address = sk[s].address /\ t.stage # "new"
                      /\ sk[s].stage \in {"open", "closing"} => t.stage \in {"open", "closing"}
<1>1. Same(sk[s])
  OBVIOUS
<1>2. ASSUME NEW p \in Pids, NEW t \in Sockets, Open(p, t) PROVE sk'[s] = sk[s]
  BY <1>2 DEF Open, WorldOK
<1>3. ASSUME NEW p \in Pids, NEW t \in Sockets, Share(p, t) PROVE Same(sk'[s])
  <2>1. sk' = [sk EXCEPT ![t] = [sk[t] EXCEPT !.holders = sk[t].holders \cup {p}]]
    BY <1>3 DEF Share
  <2>2. /\ [sk[s] EXCEPT !.holders = sk[s].holders \cup {p}].address = sk[s].address
        /\ [sk[s] EXCEPT !.holders = sk[s].holders \cup {p}].stage = sk[s].stage
    BY DEF WorldOK, Socket
  <2> QED
    BY <2>1, <2>2 DEF WorldOK
<1>4. ASSUME NEW p \in Pids, NEW t \in Sockets, Close(p, t) PROVE Same(sk'[s])
  <2>1. p \in sk[t].holders /\ sk' = [sk EXCEPT ![t] = Without(t, p)]
    BY <1>4 DEF Close
  <2>2. CASE t = s
    <3>1. Same(Without(s, p))
      BY <2>1, <2>2, WithoutType
    <3> QED
      BY <2>1, <2>2, <3>1 DEF WorldOK
  <2>3. CASE t # s
    BY <2>1, <2>3 DEF WorldOK
  <2> QED
    BY <2>2, <2>3
<1>5. ASSUME NEW t \in Sockets, Free(t)
      PROVE  \/ Same(sk'[s])
             \/ /\ sk'[s].address = sk[s].address /\ sk'[s].stage # "new"
                /\ \A c \in Cpus : hook[c] # Idle => hook[c].socket # s
  <2>1. /\ sk' = [sk EXCEPT ![t] = [sk[t] EXCEPT !.stage = "closed"]]
        /\ \A c \in Cpus : hook[c] # Idle => hook[c].socket # t
    BY <1>5 DEF Free
  <2>2. /\ [sk[s] EXCEPT !.stage = "closed"].address = sk[s].address
        /\ [sk[s] EXCEPT !.stage = "closed"].stage = "closed"
    BY DEF WorldOK, Socket
  <2>3. CASE t = s
    BY <2>1, <2>2, <2>3 DEF WorldOK
  <2>4. CASE t # s
    BY <2>1, <2>4 DEF WorldOK
  <2> QED
    BY <2>3, <2>4
<1>6. ASSUME NEW p \in Pids, NEW name \in ProcessNames \cup {""}, Replace(p, name)
      PROVE  Same(sk'[s])
  <2>1. sk'[s] = IF p \in sk[s].holders THEN Without(s, p) ELSE sk[s]
    BY <1>6 DEF Replace
  <2>2. p \in sk[s].holders => Same(Without(s, p))
    BY WithoutType
  <2> QED
    BY <1>1, <2>1, <2>2
<1>7. ASSUME Tick \/ \E p \in Pids, name \in ProcessNames \cup {""} : Rename(p, name)
      PROVE  sk'[s] = sk[s]
  BY <1>7 DEF Tick, Rename, kernelVars
<1>8. \/ Same(sk'[s])
      \/ /\ sk'[s].address = sk[s].address /\ sk'[s].stage # "new"
         /\ \A c \in Cpus : hook[c] # Idle => hook[c].socket # s
  <2> HIDE DEF Same
  <2>1. sk'[s] = sk[s] => Same(sk'[s])
    BY <1>1
  <2> QED
    BY <2>1, <1>2, <1>3, <1>4, <1>5, <1>6, <1>7 DEF World
<1> QED
  BY <1>8

\* A CPU's program has a socket that is not freed, and the inode or none.
LEMMA HooksStep ==
  ASSUME WorldOK, HooksOK, UsesOK, [Next]_vars
  PROVE  HooksOK'
<1> DEFINE Fits(h) == /\ h \in HookRecord
                      /\ mode # "legacy" /\ sk[h.socket].stage \in {"open", "closing"}
                      /\ h.inode \in {NoInode, h.socket}
                      /\ mode = "fentry" => h.at = "account" /\ h.cookie = <<"kernel", h.socket>>
<1>1. \A c \in Cpus : hook[c] # Idle => Fits(hook[c])
  BY DEF HooksOK
<1>2. ASSUME UNCHANGED <<mode, sk>>, NEW c \in Cpus, NEW h, Fits(h) \/ h = Idle,
             hook' = [hook EXCEPT ![c] = h]
      PROVE  HooksOK'
  <2>1. \A d \in Cpus : hook'[d] = IF d = c THEN h ELSE hook[d]
    BY <1>2 DEF HooksOK
  <2>2. \A d \in Cpus : hook'[d] = Idle \/ Fits(hook'[d])
    BY <1>1, <1>2, <2>1
  <2>3. hook' \in [Cpus -> HookRecord \cup {Idle}]
    BY <1>2 DEF HooksOK
  <2> QED
    BY <1>2, <2>2, <2>3 DEF HooksOK
<1>3. \A s \in Sockets : InodeOf(s) \in {NoInode, s}
  BY DEF InodeOf
<1>4. ASSUME NEW c \in Cpus, NEW s \in Sockets, NEW f \in Flows, Deliver(c, s, f) PROVE HooksOK'
  <2> DEFINE h == [at |-> IF mode = "kprobe" THEN "lookup" ELSE "account",
                   socket |-> s, flow |-> f, inode |-> InodeOf(s), cookie |-> <<"kernel", s>>]
  <2>1. /\ hook' = [hook EXCEPT ![c] = h] /\ UNCHANGED <<mode, sk>>
        /\ mode # "legacy" /\ sk[s].stage \in {"open", "closing"}
    BY <1>4 DEF Deliver, kernelVars
  <2>2. h \in HookRecord
    BY <1>3 DEF HookRecord, Inodes, Cookies
  <2>3. Fits(h)
    BY <1>3, <2>1, <2>2
  <2> QED
    BY <1>2, <2>1, <2>3
<1>5. ASSUME NEW c \in Cpus, LookupCookie(c) PROVE HooksOK'
  <2> DEFINE h == hook[c]
             found == [h EXCEPT !.at = "account", !.cookie = cookies[CookieKey(h)]]
             missed == [h EXCEPT !.at = "insert"]
  <2>1. /\ h.at \in {"lookup", "again"} /\ UNCHANGED <<mode, sk>>
        /\ hook' = [hook EXCEPT ![c] =
             IF CookieKey(h) \in DOMAIN cookies THEN found
             ELSE IF h.at = "lookup" THEN missed ELSE Idle]
    BY <1>5 DEF LookupCookie, kernelVars
  <2>2. h # Idle
    BY <2>1 DEF Idle
  <2>3. Fits(h) /\ mode = "kprobe"
    BY <1>1, <2>1, <2>2 DEF WorldOK
  <2>4. Fits(missed)
    BY <2>3 DEF HookRecord
  <2>5. CookieKey(h) \in DOMAIN cookies => Fits(found)
    <3> SUFFICES ASSUME CookieKey(h) \in DOMAIN cookies PROVE Fits(found)
      OBVIOUS
    <3>1. <<cookies[CookieKey(h)], CookieKey(h)[2]>> \in Uses
      BY DEF Uses
    <3>2. cookies[CookieKey(h)] \in Cookies
      BY <2>3, <3>1 DEF UsesOK, Random, Cookies
    <3> QED
      BY <2>3, <3>2 DEF HookRecord
  <2> HIDE DEF h, found, missed, Fits
  <2> QED
    BY <1>2, <2>1, <2>4, <2>5
<1>6. ASSUME NEW c \in Cpus, InsertCookie(c) PROVE HooksOK'
  <2> DEFINE again == [hook[c] EXCEPT !.at = "again"]
  <2>1. /\ hook' = [hook EXCEPT ![c] = again] /\ UNCHANGED <<mode, sk>>
        /\ hook[c].at = "insert"
    BY <1>6 DEF InsertCookie, kernelVars
  <2>2. Fits(hook[c]) /\ mode # "fentry"
    BY <1>1, <2>1 DEF Idle
  <2>3. Fits(again)
    BY <2>2 DEF HookRecord
  <2> QED
    BY <1>2, <2>1, <2>3
<1>7. ASSUME NEW c \in Cpus, Account(c) PROVE HooksOK'
  BY <1>2, <1>7 DEF Account, kernelVars
<1>8. CASE UNCHANGED <<mode, sk, hook>>
  BY <1>8 DEF HooksOK
<1>9. ASSUME NEW f \in Flows, Ingress(f) PROVE HooksOK'
  BY <1>8, <1>9 DEF Ingress, kernelVars
<1>10. CASE World
  <2>1. UNCHANGED <<mode, hook>>
    BY <1>10, WorldFrame DEF progVars
  <2>2. ASSUME NEW c \in Cpus, hook[c] # Idle PROVE sk'[hook[c].socket].stage \in {"open", "closing"}
    <3>1. hook[c].socket \in Sockets /\ sk[hook[c].socket].stage \in {"open", "closing"}
      BY <1>1, <2>2 DEF HookRecord
    <3> QED
      BY <1>10, <2>2, <3>1, SocketKept
  <2> QED
    BY <2>1, <2>2 DEF HooksOK
<1>11. CASE Checkpoint
  BY <1>8, <1>11, CheckpointFrame DEF kernelVars, progVars
<1>12. CASE UNCHANGED vars
  BY <1>8, <1>12 DEF vars, kernelVars, progVars
<1> QED
  BY <1>4, <1>5, <1>6, <1>7, <1>9, <1>10, <1>11, <1>12 DEF Next, Program

\* The cookies that a CPU's candidate goes to, if the program has to insert it.
Candidate(c, key, victims) ==
  /\ hook[c].at = "insert" /\ key = CookieKey(hook[c])
  /\ key \notin DOMAIN cookies /\ victims \subseteq DOMAIN cookies
  /\ IF Cardinality(DOMAIN cookies) < MaxCookies THEN victims = {} ELSE victims # {}
  /\ DOMAIN cookies' = (DOMAIN cookies \ victims) \cup {key}
  /\ cookies'[key] = <<"random", minted>>
  /\ \A k \in DOMAIN cookies \ victims : cookies'[k] = cookies[k]
  /\ split' = split \cup {s \in Sockets : \E v \in victims : v[2] = s}
  /\ minted' = minted + 1
  /\ \A d \in Cpus : hook'[d].at = "account" => d # c /\ hook'[d] = hook[d]
  /\ UNCHANGED <<mode, sk, entries>>

\* An insertion finds the key already there, or puts its candidate.
LEMMA Insertion ==
  ASSUME HooksOK, NEW c \in Cpus, InsertCookie(c)
  PROVE  \/ /\ UNCHANGED <<mode, sk, entries, cookies, split>> /\ minted' = minted + 1
            /\ \A d \in Cpus : hook'[d].at = "account" => d # c /\ hook'[d] = hook[d]
         \/ \E key, victims : Candidate(c, key, victims)
<1>1. ASSUME NEW d \in Cpus, hook'[d].at = "account" PROVE d # c /\ hook'[d] = hook[d]
  <2>1. /\ hook' = [hook EXCEPT ![c] = [hook[c] EXCEPT !.at = "again"]] /\ hook[c].at = "insert"
    BY DEF InsertCookie
  <2>2. hook[c] \in HookRecord
    BY <2>1 DEF HooksOK, Idle
  <2>3. [hook[c] EXCEPT !.at = "again"].at = "again"
    BY <2>2 DEF HookRecord
  <2> QED
    BY <1>1, <2>1, <2>3 DEF HooksOK
<1>2. UNCHANGED <<mode, sk, entries>> /\ minted' = minted + 1 /\ hook[c].at = "insert"
  BY DEF InsertCookie, kernelVars
<1>3. CASE CookieKey(hook[c]) \in DOMAIN cookies
  BY <1>1, <1>2, <1>3 DEF InsertCookie
<1>4. CASE CookieKey(hook[c]) \notin DOMAIN cookies
  <2> DEFINE key == CookieKey(hook[c])
  <2>1. PICK victims \in SUBSET DOMAIN cookies :
          /\ IF Cardinality(DOMAIN cookies) < MaxCookies THEN victims = {} ELSE victims # {}
          /\ cookies' = With(Restrict(cookies, DOMAIN cookies \ victims), key, <<"random", minted>>)
          /\ split' = split \cup {s \in Sockets : \E v \in victims : v[2] = s}
    BY <1>4 DEF InsertCookie
  <2>2. /\ DOMAIN cookies' = (DOMAIN cookies \ victims) \cup {key}
        /\ cookies'[key] = <<"random", minted>>
        /\ \A k \in DOMAIN cookies \ victims : cookies'[k] = cookies[k]
    <3> HIDE DEF key
    <3> QED
      BY <1>4, <2>1 DEF With, Restrict, key
  <2>3. Candidate(c, key, victims)
    BY <1>1, <1>2, <1>4, <2>1, <2>2 DEF Candidate
  <2> QED
    BY <2>3
<1> QED
  BY <1>3, <1>4

\* The map of cookies stays within its size; a key has the address its socket has.
LEMMA CookiesStep ==
  ASSUME WorldOK, HooksOK, CookiesOK, [Next]_vars
  PROVE  CookiesOK'
<1> DEFINE Key(k) == \E a \in Addresses \cup {"none"}, i \in Inodes :
             /\ k = <<a, i>>
             /\ i \in Sockets => a = sk[i].address /\ sk[i].stage # "new"
<1>1. CASE UNCHANGED <<sk, cookies, minted>>
  BY <1>1 DEF CookiesOK
<1>2. ASSUME NEW c \in Cpus, NEW key, NEW victims, Candidate(c, key, victims) PROVE CookiesOK'
  <2> DEFINE left == DOMAIN cookies \ victims
  <2>1. IsFiniteSet(left) /\ Cardinality(left) + 1 <= MaxCookies
    <3>1. IsFiniteSet(DOMAIN cookies) /\ Cardinality(DOMAIN cookies) <= MaxCookies
      BY DEF CookiesOK
    <3>2. MaxCookies \in Nat /\ Cardinality(DOMAIN cookies) \in Nat
      BY <3>1, DeliveredAssumption, FS_CardinalityType
    <3>3. IsFiniteSet(left) /\ Cardinality(left) <= Cardinality(DOMAIN cookies)
      BY <3>1, FS_Subset
    <3>4. Cardinality(left) \in Nat
      BY <3>3, FS_CardinalityType
    <3>5. CASE Cardinality(DOMAIN cookies) < MaxCookies
      BY <3>2, <3>3, <3>4, <3>5
    <3>6. CASE ~(Cardinality(DOMAIN cookies) < MaxCookies)
      <4>1. PICK v \in victims : v \in DOMAIN cookies
        BY <1>2, <3>6 DEF Candidate
      <4>2. /\ IsFiniteSet(DOMAIN cookies \ {v})
            /\ Cardinality(DOMAIN cookies \ {v}) = Cardinality(DOMAIN cookies) - 1
        BY <3>1, <4>1, FS_RemoveElement
      <4>3. Cardinality(left) <= Cardinality(DOMAIN cookies \ {v})
        <5>1. left \in SUBSET (DOMAIN cookies \ {v})
          BY <4>1
        <5> QED
          BY <4>2, <5>1, FS_Subset
      <4> QED
        BY <3>1, <3>2, <3>3, <3>4, <4>2, <4>3
    <3> QED
      BY <3>5, <3>6
  <2>2. DOMAIN cookies' = left \cup {key} /\ key \notin left
    BY <1>2 DEF Candidate
  <2>3. IsFiniteSet(DOMAIN cookies') /\ Cardinality(DOMAIN cookies') <= MaxCookies
    <3> HIDE DEF left
    <3>1. IsFiniteSet(left \cup {key}) /\ Cardinality(left \cup {key}) = Cardinality(left) + 1
      BY <2>1, <2>2, FS_AddElement
    <3> QED
      BY <2>1, <2>2, <3>1
  <2>4. Key(key)
    <3>1. hook[c] \in HookRecord /\ key = <<sk[hook[c].socket].address, hook[c].inode>>
          /\ sk[hook[c].socket].stage \in {"open", "closing"}
          /\ hook[c].inode \in {NoInode, hook[c].socket}
      BY <1>2 DEF Candidate, HooksOK, Idle, CookieKey
    <3>2. hook[c].socket \in Sockets /\ hook[c].inode \in Inodes
      BY <3>1 DEF HookRecord
    <3>3. sk[hook[c].socket].address \in Addresses \cup {"none"}
      BY <3>2 DEF WorldOK, Socket
    <3>4. NoInode \notin Sockets
      BY DeliveredAssumption DEF NoInode
    <3> QED
      BY <3>1, <3>2, <3>3, <3>4
  <2>5. \A k \in DOMAIN cookies' : Key(k)
    BY <2>2, <2>4 DEF CookiesOK
  <2>6. sk' = sk /\ minted' \in Nat
    BY <1>2 DEF Candidate, CookiesOK
  <2> QED
    BY <2>3, <2>5, <2>6 DEF CookiesOK
<1>3. ASSUME NEW c \in Cpus, InsertCookie(c) PROVE CookiesOK'
  BY <1>2, <1>3, Insertion DEF CookiesOK
<1>4. ASSUME NEW c \in Cpus, NEW s \in Sockets, NEW f \in Flows, Deliver(c, s, f)
      PROVE  UNCHANGED <<sk, cookies, minted>>
  BY <1>4 DEF Deliver, kernelVars
<1>5. ASSUME NEW c \in Cpus, LookupCookie(c) \/ Account(c) PROVE UNCHANGED <<sk, cookies, minted>>
  BY <1>5 DEF LookupCookie, Account, kernelVars
<1>6. ASSUME NEW f \in Flows, Ingress(f) PROVE UNCHANGED <<sk, cookies, minted>>
  BY <1>6 DEF Ingress, kernelVars
<1>7. CASE World
  <2>1. UNCHANGED <<cookies, minted>>
    BY <1>7, WorldFrame DEF progVars
  <2>2. \A i \in Sockets : sk[i].stage # "new" => sk'[i].address = sk[i].address /\ sk'[i].stage # "new"
    BY <1>7, SocketKept
  <2> QED
    BY <2>1, <2>2 DEF CookiesOK
<1>8. CASE Checkpoint
  BY <1>1, <1>8, CheckpointFrame DEF kernelVars, progVars
<1>9. CASE UNCHANGED vars
  BY <1>1, <1>9 DEF vars, kernelVars, progVars
<1> QED
  BY <1>1, <1>3, <1>4, <1>5, <1>6, <1>7, <1>8, <1>9 DEF Next, Program

\* What an account does: nothing, or one more in the entry, under its socket or flow.
Accounted(key, inode, who) ==
  /\ DOMAIN entries' = DOMAIN entries \cup {key} /\ DOMAIN under' = DOMAIN under \cup {key}
  /\ \A k \in DOMAIN entries \ {key} : entries'[k] = entries[k]
  /\ \A k \in DOMAIN under \ {key} : under'[k] = under[k]
  /\ key \in DOMAIN entries =>
       entries'[key] = [packets |-> entries[key].packets + 1,
                        inode |-> IF entries[key].inode = NoInode THEN inode ELSE entries[key].inode]
  /\ key \notin DOMAIN entries =>
       /\ entries'[key] = [packets |-> 1, inode |-> inode]
       /\ ~(Cardinality(DOMAIN entries) >= MaxEntries)
  /\ under'[key] = (IF key \in DOMAIN under THEN under[key] ELSE {}) \cup {who}
  /\ DOMAIN arrived' = DOMAIN arrived \cup {who}
  /\ \A x \in DOMAIN arrived \ {who} : arrived'[x] = arrived[x]
  /\ arrived'[who] = 1 + (IF who \in DOMAIN arrived THEN arrived[who] ELSE 0)

\* Count does nothing when the map is full; otherwise it does what Accounted says.
LEMMA Accounts ==
  ASSUME NEW key, NEW inode, NEW who, Count(key, inode, who)
  PROVE  UNCHANGED <<entries, under, arrived>> \/ Accounted(key, inode, who)
<1> SUFFICES ASSUME ~UNCHANGED <<entries, under, arrived>> PROVE Accounted(key, inode, who)
  OBVIOUS
<1> DEFINE old == IF key \in DOMAIN entries THEN entries[key] ELSE [packets |-> 0, inode |-> inode]
           new == [packets |-> old.packets + 1,
                   inode |-> IF old.inode = NoInode THEN inode ELSE old.inode]
           whom == IF key \in DOMAIN under THEN under[key] ELSE {}
           sum == 1 + IF who \in DOMAIN arrived THEN arrived[who] ELSE 0
<1>1. /\ ~(key \notin DOMAIN entries /\ Cardinality(DOMAIN entries) >= MaxEntries)
      /\ entries' = With(entries, key, new)
      /\ under' = With(under, key, whom \cup {who})
      /\ arrived' = With(arrived, who, sum)
  BY DEF Count
<1>2. key \notin DOMAIN entries => new = [packets |-> 1, inode |-> inode]
  OBVIOUS
<1>3. key \in DOMAIN entries =>
        new = [packets |-> entries[key].packets + 1,
               inode |-> IF entries[key].inode = NoInode THEN inode ELSE entries[key].inode]
  OBVIOUS
<1>4. /\ DOMAIN entries' = DOMAIN entries \cup {key} /\ entries'[key] = new
      /\ \A k \in DOMAIN entries \ {key} : entries'[k] = entries[k]
  <2> HIDE DEF new
  <2> QED
    BY <1>1 DEF With
<1>5. /\ DOMAIN under' = DOMAIN under \cup {key} /\ under'[key] = whom \cup {who}
      /\ \A k \in DOMAIN under \ {key} : under'[k] = under[k]
  <2> HIDE DEF whom
  <2> QED
    BY <1>1 DEF With
<1>6. /\ DOMAIN arrived' = DOMAIN arrived \cup {who} /\ arrived'[who] = sum
      /\ \A x \in DOMAIN arrived \ {who} : arrived'[x] = arrived[x]
  <2> HIDE DEF sum
  <2> QED
    BY <1>1 DEF With
<1> QED
  BY <1>1, <1>2, <1>3, <1>4, <1>5, <1>6 DEF Accounted

\* What the receive program counts, and when.
LEMMA AccountOf ==
  ASSUME HooksOK, NEW c \in Cpus, Account(c)
  PROVE  /\ hook[c] \in HookRecord /\ hook[c].at = "account" /\ mode # "legacy"
         /\ hook[c].inode \in {NoInode, hook[c].socket}
         /\ mode = "fentry" => hook[c].cookie = <<"kernel", hook[c].socket>>
         /\ \/ UNCHANGED <<entries, under, arrived>>
            \/ Accounted(<<hook[c].cookie, hook[c].flow>>, hook[c].inode, hook[c].socket)
         /\ \A d \in Cpus : hook'[d].at = "account" => d # c /\ hook'[d] = hook[d]
         /\ UNCHANGED <<mode, sk, cookies, minted, split>>
<1>1. /\ hook[c].at = "account" /\ hook' = [hook EXCEPT ![c] = Idle]
      /\ \/ UNCHANGED <<entries, under, arrived>>
         \/ Count(<<hook[c].cookie, hook[c].flow>>, hook[c].inode, hook[c].socket)
      /\ UNCHANGED <<mode, sk, cookies, minted, split>>
  BY DEF Account, kernelVars
<1>2. hook[c] # Idle
  BY <1>1 DEF Idle
<1>3. \A d \in Cpus : hook'[d].at = "account" => d # c /\ hook'[d] = hook[d]
  BY <1>1 DEF HooksOK, Idle
<1>4. \/ UNCHANGED <<entries, under, arrived>>
      \/ Accounted(<<hook[c].cookie, hook[c].flow>>, hook[c].inode, hook[c].socket)
  BY <1>1, Accounts
<1> QED
  BY <1>1, <1>2, <1>3, <1>4 DEF HooksOK

\* If nothing is used that was not, cookies are as they were.
LEMMA FewerUses ==
  ASSUME UsesOK, Uses' \subseteq Uses, UNCHANGED <<mode, cookies, minted, split>>,
         CookiesOK,
         \A i \in Sockets : sk[i].stage # "new" => sk'[i].address = sk[i].address
  PROVE  UsesOK'
<1> SUFFICES ASSUME mode = "kprobe" PROVE UsesOK'
  BY DEF UsesOK
<1>1. \A x \in Uses' : Random(x[1])'
  BY DEF UsesOK, Random
<1>2. \A x, y \in Uses' : x[1] = y[1] => x[2] = y[2]
  BY DEF UsesOK
<1>3. ASSUME NEW x \in Uses', x[2] \in Sockets \ split'
      PROVE  <<sk'[x[2]].address, x[2]>> \in DOMAIN cookies' /\ cookies'[<<sk'[x[2]].address, x[2]>>] = x[1]
  <2> DEFINE k == <<sk[x[2]].address, x[2]>>
  <2>1. k \in DOMAIN cookies /\ cookies[k] = x[1]
    BY <1>3 DEF UsesOK
  <2>2. sk[x[2]].stage # "new"
    <3>1. PICK a \in Addresses \cup {"none"}, i \in Inodes :
            k = <<a, i>> /\ (i \in Sockets => sk[i].stage # "new")
      BY <2>1 DEF CookiesOK
    <3> QED
      BY <1>3, <3>1
  <2> QED
    BY <1>3, <2>1, <2>2
<1> QED
  BY <1>1, <1>2, <1>3 DEF UsesOK

\* A candidate is a new cookie, of the inode that the program has.
LEMMA CandidateUses ==
  ASSUME HooksOK, CookiesOK, UsesOK, mode = "kprobe", NEW c \in Cpus, NEW key, NEW victims,
         Candidate(c, key, victims)
  PROVE  UsesOK'
<1> DEFINE new == <<"random", minted>>
           x0 == <<new, hook[c].inode>>
<1>1. /\ hook[c] \in HookRecord /\ key = <<sk[hook[c].socket].address, hook[c].inode>>
      /\ hook[c].inode \in {NoInode, hook[c].socket} /\ key[2] = hook[c].inode
  BY DEF HooksOK, Candidate, CookieKey, Idle
<1>2. minted \in Nat /\ minted' = minted + 1
  BY DEF CookiesOK, Candidate
<1>3. ASSUME NEW x \in Uses', x # x0
      PROVE  x \in Uses
  <2>1. CASE \E k \in DOMAIN cookies' : x = <<cookies'[k], k[2]>>
    <3>1. PICK k \in DOMAIN cookies' : x = <<cookies'[k], k[2]>>
      BY <2>1
    <3>2. k \in DOMAIN cookies /\ cookies'[k] = cookies[k]
      BY <1>1, <1>3, <3>1 DEF Candidate
    <3> QED
      BY <3>1, <3>2 DEF Uses
  <2>2. CASE \E d \in Cpus : hook'[d].at = "account" /\ x = <<hook'[d].cookie, hook'[d].inode>>
    BY <2>2 DEF Candidate, Uses
  <2>3. CASE \E k \in DOMAIN entries' : x = <<k[1], entries'[k].inode>>
    BY <2>3 DEF Candidate, Uses
  <2> QED
    BY <2>1, <2>2, <2>3 DEF Uses
<1>4. \A x \in Uses : x[1] # new /\ Random(x[1])
  BY <1>2 DEF UsesOK, Random
<1>5. \A x \in Uses' : Random(x[1])'
  BY <1>2, <1>3, <1>4 DEF Random
<1>6. \A x, y \in Uses' : x[1] = y[1] => x[2] = y[2]
  BY <1>3, <1>4 DEF UsesOK
<1>7. ASSUME NEW x \in Uses', x[2] \in Sockets \ split'
      PROVE  <<sk'[x[2]].address, x[2]>> \in DOMAIN cookies' /\ cookies'[<<sk'[x[2]].address, x[2]>>] = x[1]
  <2> DEFINE k == <<sk[x[2]].address, x[2]>>
  <2>1. sk' = sk
    BY DEF Candidate
  <2>2. CASE x = x0
    <3>1. NoInode \notin Sockets
      BY DeliveredAssumption DEF NoInode
    <3>2. hook[c].inode = hook[c].socket /\ k = key
      BY <1>1, <1>7, <2>2, <3>1
    <3> QED
      BY <2>1, <2>2, <3>2 DEF Candidate
  <2>3. CASE x # x0
    <3>1. x \in Uses
      BY <1>3, <2>3
    <3>2. split \subseteq split' /\ \A v \in victims : v[2] \in Sockets => v[2] \in split'
      BY DEF Candidate
    <3>3. k \in DOMAIN cookies /\ cookies[k] = x[1]
      BY <1>7, <3>1, <3>2 DEF UsesOK
    <3>4. k \notin victims
      BY <1>7, <3>2
    <3> QED
      BY <2>1, <3>3, <3>4 DEF Candidate
  <2> QED
    BY <2>2, <2>3
<1>8. mode' = "kprobe"
  BY DEF Candidate
<1> QED
  BY <1>5, <1>6, <1>7 DEF UsesOK

\* One cookie is of one inode, and an inode that was not evicted has one cookie.
LEMMA UsesStep ==
  ASSUME WorldOK, HooksOK, CookiesOK, UsesOK, [Next]_vars
  PROVE  UsesOK'
<1>1. CASE mode # "kprobe"
  <2>1. mode' = mode
    BY ProgramFrame, WorldFrame, CheckpointFrame DEF Next, vars
  <2> QED
    BY <1>1, <2>1 DEF UsesOK
<1>2. ASSUME NEW c \in Cpus, NEW s \in Sockets, NEW f \in Flows, Deliver(c, s, f), mode = "kprobe"
      PROVE  UsesOK'
  <2>1. UNCHANGED <<mode, sk, cookies, minted, split, entries>>
    BY <1>2 DEF Deliver, kernelVars
  <2>2. ASSUME NEW d \in Cpus, hook'[d].at = "account"
        PROVE  hook[d].at = "account" /\ hook'[d] = hook[d]
    <3> DEFINE h == [at |-> "lookup", socket |-> s, flow |-> f, inode |-> InodeOf(s),
                     cookie |-> <<"kernel", s>>]
    <3>1. hook' = [hook EXCEPT ![c] = h] /\ h.at = "lookup"
      BY <1>2 DEF Deliver
    <3> QED
      BY <2>2, <3>1 DEF HooksOK
  <2>3. Uses' \subseteq Uses
    BY <2>1, <2>2 DEF Uses
  <2> QED
    BY <2>1, <2>3, FewerUses
<1>3. ASSUME NEW c \in Cpus, LookupCookie(c) PROVE UsesOK'
  <2> DEFINE h == hook[c]
             found == [h EXCEPT !.at = "account", !.cookie = cookies[CookieKey(h)]]
             missed == [h EXCEPT !.at = "insert"]
  <2>1. /\ h.at \in {"lookup", "again"} /\ UNCHANGED <<mode, sk, cookies, minted, split, entries>>
        /\ hook' = [hook EXCEPT ![c] =
             IF CookieKey(h) \in DOMAIN cookies THEN found
             ELSE IF h.at = "lookup" THEN missed ELSE Idle]
    BY <1>3 DEF LookupCookie, kernelVars
  <2>2. h \in HookRecord
    BY <2>1 DEF HooksOK, Idle
  <2>3. /\ found.at = "account" /\ found.cookie = cookies[CookieKey(h)] /\ found.inode = h.inode
        /\ missed.at = "insert" /\ Idle.at = "idle"
    BY <2>2 DEF HookRecord, Idle
  <2>4. /\ hook'[c].at = "account" => CookieKey(h) \in DOMAIN cookies /\ hook'[c] = found
        /\ \A d \in Cpus \ {c} : hook'[d] = hook[d]
    <3> HIDE DEF found, missed, h
    <3> QED
      BY <2>1, <2>3 DEF HooksOK
  <2>5. ASSUME NEW d \in Cpus, hook'[d].at = "account"
        PROVE  <<hook'[d].cookie, hook'[d].inode>> \in Uses
    <3>1. CASE d = c
      <4>1. CookieKey(h) \in DOMAIN cookies /\ CookieKey(h)[2] = h.inode
        BY <2>4, <2>5, <3>1 DEF CookieKey
      <4>2. hook'[d].cookie = cookies[CookieKey(h)] /\ hook'[d].inode = CookieKey(h)[2]
        BY <2>3, <2>4, <2>5, <3>1, <4>1
      <4> QED
        BY <4>1, <4>2 DEF Uses
    <3>2. CASE d # c
      BY <2>4, <2>5, <3>2 DEF Uses
    <3> QED
      BY <3>1, <3>2
  <2>6. Uses' \subseteq Uses
    <3>1. ASSUME NEW x \in Uses' PROVE x \in Uses
      <4>1. CASE \E k \in DOMAIN cookies' : x = <<cookies'[k], k[2]>>
        BY <2>1, <4>1 DEF Uses
      <4>2. CASE \E d \in Cpus : hook'[d].at = "account" /\ x = <<hook'[d].cookie, hook'[d].inode>>
        BY <2>5, <4>2
      <4>3. CASE \E k \in DOMAIN entries' : x = <<k[1], entries'[k].inode>>
        BY <2>1, <4>3 DEF Uses
      <4> QED
        BY <4>1, <4>2, <4>3 DEF Uses
    <3> QED
      BY <3>1
  <2> QED
    BY <2>1, <2>6, FewerUses
<1>4. ASSUME NEW c \in Cpus, InsertCookie(c), mode = "kprobe" PROVE UsesOK'
  <2>1. CASE \E key, victims : Candidate(c, key, victims)
    BY <1>4, <2>1, CandidateUses
  <2>2. CASE /\ UNCHANGED <<mode, sk, entries, cookies, split>> /\ minted' = minted + 1
             /\ \A d \in Cpus : hook'[d].at = "account" => d # c /\ hook'[d] = hook[d]
    <3>1. Uses' \subseteq Uses
      BY <2>2 DEF Uses
    <3>2. \A x \in Uses' : Random(x[1])'
      <4>1. \A x \in Uses : x[1] \in {"random"} \X Nat /\ x[1][2] < minted
        BY <1>4 DEF UsesOK, Random
      <4>2. minted \in Nat
        BY DEF CookiesOK
      <4> QED
        BY <2>2, <3>1, <4>1, <4>2 DEF Random
    <3> QED
      BY <2>2, <3>1, <3>2 DEF UsesOK
  <2> QED
    BY <1>4, <2>1, <2>2, Insertion
<1>5. ASSUME NEW c \in Cpus, Account(c), mode = "kprobe" PROVE UsesOK'
  <2> DEFINE h == hook[c]
             key == <<h.cookie, h.flow>>
  <2>1. /\ h \in HookRecord /\ h.at = "account"
        /\ UNCHANGED <<entries, under, arrived>> \/ Accounted(key, h.inode, h.socket)
        /\ \A d \in Cpus : hook'[d].at = "account" => d # c /\ hook'[d] = hook[d]
        /\ UNCHANGED <<mode, sk, cookies, minted, split>>
    BY <1>5, AccountOf
  <2>2. <<h.cookie, h.inode>> \in Uses
    BY <2>1 DEF Uses
  <2>3. \A k \in DOMAIN entries : <<k[1], entries[k].inode>> \in Uses
    BY DEF Uses
  <2>4. ASSUME NEW k \in DOMAIN entries' PROVE <<k[1], entries'[k].inode>> \in Uses
    <3>1. CASE UNCHANGED entries
      BY <2>3, <3>1
    <3>2. CASE Accounted(key, h.inode, h.socket) /\ k # key
      BY <2>3, <2>4, <3>2 DEF Accounted
    <3>3. CASE Accounted(key, h.inode, h.socket) /\ k = key
      <4>1. \/ entries'[key].inode = h.inode
            \/ key \in DOMAIN entries /\ entries'[key].inode = entries[key].inode
        <5> HIDE DEF key, h
        <5> QED
          BY <3>3 DEF Accounted
      <4>2. key[1] = h.cookie
        OBVIOUS
      <4> QED
        BY <2>2, <2>3, <3>3, <4>1, <4>2
    <3> QED
      BY <2>1, <3>1, <3>2, <3>3
  <2>5. Uses' \subseteq Uses
    <3>1. ASSUME NEW x \in Uses' PROVE x \in Uses
      <4>1. CASE \E k \in DOMAIN cookies' : x = <<cookies'[k], k[2]>>
        BY <2>1, <4>1 DEF Uses
      <4>2. CASE \E d \in Cpus : hook'[d].at = "account" /\ x = <<hook'[d].cookie, hook'[d].inode>>
        BY <2>1, <4>2 DEF Uses
      <4>3. CASE \E k \in DOMAIN entries' : x = <<k[1], entries'[k].inode>>
        BY <2>4, <4>3
      <4> QED
        BY <4>1, <4>2, <4>3 DEF Uses
    <3> QED
      BY <3>1
  <2> QED
    BY <2>1, <2>5, FewerUses
<1>6. ASSUME NEW f \in Flows, Ingress(f) PROVE mode # "kprobe"
  BY <1>6 DEF Ingress
<1>7. CASE UNCHANGED <<mode, sk, cookies, minted, split, entries, hook>>
  BY <1>7 DEF UsesOK, Uses, Random
<1>8. CASE World
  <2>1. UNCHANGED <<mode, cookies, minted, split, entries, hook>>
    BY <1>8, WorldFrame DEF progVars
  <2>2. Uses' = Uses
    BY <2>1 DEF Uses
  <2>3. \A i \in Sockets : sk[i].stage # "new" => sk'[i].address = sk[i].address
    BY <1>8, SocketKept
  <2> QED
    BY <2>1, <2>2, <2>3, FewerUses
<1>9. CASE Checkpoint
  BY <1>7, <1>9, CheckpointFrame DEF kernelVars, progVars
<1>10. CASE UNCHANGED vars
  BY <1>7, <1>10 DEF vars, kernelVars, progVars
<1> QED
  BY <1>1, <1>2, <1>3, <1>4, <1>5, <1>6, <1>8, <1>9, <1>10 DEF Next, Program

\* What has been counted with an inode is all of that socket, and the map keeps its size.
LEMMA EntriesStep ==
  ASSUME WorldOK, HooksOK, UsesOK, EntriesOK, [Next]_vars
  PROVE  EntriesOK'
<1>1. CASE UNCHANGED <<mode, entries, under>>
  BY <1>1 DEF EntriesOK, EntryOK
<1>2. ASSUME NEW CONSTANT key, NEW CONSTANT inode, NEW CONSTANT who,
             Accounted(key, inode, who), mode' = mode, EntryOK(key)'
      PROVE  EntriesOK'
  <2>1. IsFiniteSet(DOMAIN entries') /\ Cardinality(DOMAIN entries') <= MaxEntries
    <3>1. IsFiniteSet(DOMAIN entries) /\ Cardinality(DOMAIN entries) <= MaxEntries
      BY DEF EntriesOK
    <3>2. DOMAIN entries' = DOMAIN entries \cup {key}
          /\ (key \notin DOMAIN entries => ~(Cardinality(DOMAIN entries) >= MaxEntries))
      BY <1>2 DEF Accounted
    <3>3. MaxEntries \in Nat /\ Cardinality(DOMAIN entries) \in Nat
      BY <3>1, DeliveredAssumption, FS_CardinalityType
    <3>4. /\ IsFiniteSet(DOMAIN entries \cup {key})
          /\ Cardinality(DOMAIN entries \cup {key}) =
               IF key \in DOMAIN entries THEN Cardinality(DOMAIN entries)
               ELSE Cardinality(DOMAIN entries) + 1
      BY <3>1, FS_AddElement
    <3> QED
      BY <3>1, <3>2, <3>3, <3>4
  <2>2. DOMAIN under' = DOMAIN entries'
    BY <1>2 DEF Accounted, EntriesOK
  <2>3. ASSUME NEW CONSTANT k, k \in DOMAIN entries \ {key} PROVE EntryOK(k)'
    <3>1. entries'[k] = entries[k] /\ under'[k] = under[k] /\ EntryOK(k)
      BY <1>2, <2>3 DEF Accounted, EntriesOK
    <3> QED
      BY <1>2, <3>1 DEF EntryOK
  <2>4. DOMAIN entries' = DOMAIN entries \cup {key}
    BY <1>2 DEF Accounted
  <2> HIDE DEF EntryOK
  <2>5. \A k \in DOMAIN entries' : EntryOK(k)'
    BY <1>2, <2>3, <2>4
  <2> QED
    BY <2>1, <2>2, <2>5 DEF EntriesOK
<1>3. ASSUME NEW c \in Cpus, Account(c) PROVE EntriesOK'
  <2>1. PICK key, inode, who :
          /\ key = <<hook[c].cookie, hook[c].flow>>
          /\ inode = hook[c].inode /\ who = hook[c].socket
    OBVIOUS
  <2>2. /\ hook[c] \in HookRecord /\ hook[c].at = "account" /\ mode # "legacy" /\ mode' = mode
        /\ inode \in {NoInode, who}
        /\ mode = "fentry" => key[1] = <<"kernel", who>>
        /\ UNCHANGED <<entries, under, arrived>> \/ Accounted(key, inode, who)
    BY <1>3, <2>1, AccountOf
  <2>3. CASE UNCHANGED <<entries, under, arrived>>
    BY <1>1, <2>2, <2>3
  <2>4. CASE Accounted(key, inode, who)
    <3>1. key \in Cookies \X Flows /\ inode \in Inodes /\ who \in Sockets
      BY <2>1, <2>2 DEF HookRecord
    <3>0. /\ entries'[key] \in Entry
          /\ entries'[key].inode # NoInode => under'[key] = {entries'[key].inode}
          /\ mode = "fentry" => under'[key] = {who} /\ entries'[key].inode \in {who, NoInode}
          => EntryOK(key)'
      <4> SUFFICES ASSUME entries'[key] \in Entry,
                          entries'[key].inode # NoInode => under'[key] = {entries'[key].inode},
                          mode = "fentry" => /\ under'[key] = {who}
                                             /\ entries'[key].inode \in {who, NoInode}
                   PROVE  EntryOK(key)'
        OBVIOUS
      <4>1. mode' # "legacy"
        BY <2>2
      <4>2. mode' = "fentry" =>
              /\ key[1] = <<"kernel", who>> /\ under'[key] = {who}
              /\ entries'[key].inode \in {who, NoInode}
        BY <2>2
      <4> QED
        BY <3>1, <4>1, <4>2 DEF EntryOK
    <3>2. CASE key \notin DOMAIN entries
      <4>1. entries'[key] = [packets |-> 1, inode |-> inode]
        BY <2>4, <3>2 DEF Accounted
      <4>2. under'[key] = {who}
        BY <2>4, <3>2 DEF Accounted, EntriesOK
      <4>3. entries'[key] \in Entry /\ entries'[key].inode = inode
        BY <3>1, <4>1 DEF Entry
      <4>4. EntryOK(key)'
        BY <2>2, <3>0, <4>2, <4>3
      <4> QED
        BY <1>2, <2>2, <2>4, <4>4
    <3>3. CASE key \in DOMAIN entries
      <4> DEFINE was == entries[key].inode
      <4>1. EntryOK(key) /\ DOMAIN under = DOMAIN entries
        BY <3>3 DEF EntriesOK
      <4>2. /\ entries'[key] = [packets |-> entries[key].packets + 1,
                                inode |-> IF was = NoInode THEN inode ELSE was]
            /\ under'[key] = under[key] \cup {who}
        BY <2>4, <3>3, <4>1 DEF Accounted
      <4>3. entries'[key] \in Entry /\ entries'[key].inode = IF was = NoInode THEN inode ELSE was
        BY <3>1, <4>1, <4>2 DEF EntryOK, Entry
      <4>4. CASE mode = "fentry"
        <5>1. PICK s \in Sockets :
                key[1] = <<"kernel", s>> /\ under[key] = {s} /\ was \in {s, NoInode}
          BY <4>1, <4>4 DEF EntryOK
        <5>2. s = who
          BY <2>2, <4>4, <5>1
        <5>3. under'[key] = {who} /\ entries'[key].inode \in {who, NoInode}
          BY <2>2, <4>2, <4>3, <5>1, <5>2
        <5>4. EntryOK(key)'
          BY <3>0, <4>3, <5>3
        <5> QED
          BY <1>2, <2>2, <2>4, <5>4
      <4>5. CASE mode = "kprobe"
        <5>1. <<key[1], inode>> \in Uses
          BY <2>1, <2>2 DEF Uses
        <5>2. <<key[1], was>> \in Uses
          BY <3>3 DEF Uses
        <5>3. was = inode
          BY <4>5, <5>1, <5>2 DEF UsesOK
        <5>4. inode # NoInode => under'[key] = {inode}
          BY <2>2, <4>1, <4>2, <4>5, <5>3 DEF EntryOK
        <5>5. EntryOK(key)'
          BY <3>0, <4>3, <4>5, <5>3, <5>4
        <5> QED
          BY <1>2, <2>2, <2>4, <5>5
      <4> QED
        BY <2>2, <4>4, <4>5 DEF WorldOK
    <3> QED
      BY <3>2, <3>3
  <2> QED
    BY <2>2, <2>3, <2>4
<1>4. ASSUME NEW f \in Flows, Ingress(f) PROVE EntriesOK'
  <2>1. mode = "legacy" /\ mode' = mode /\ Count(f, NoInode, f)
    BY <1>4 DEF Ingress
  <2>2. CASE UNCHANGED <<entries, under, arrived>>
    BY <1>1, <2>1, <2>2
  <2>3. CASE Accounted(f, NoInode, f)
    <3>1. f \in DOMAIN entries =>
            entries[f] \in Entry /\ entries[f].inode = NoInode /\ under[f] = {f}
      BY <2>1 DEF EntriesOK, EntryOK
    <3>2. DOMAIN under = DOMAIN entries
      BY DEF EntriesOK
    <3>3. under'[f] = {f}
      BY <2>3, <3>1, <3>2 DEF Accounted
    <3>4. \E n \in Nat : entries'[f] = [packets |-> n, inode |-> NoInode]
      <4>1. CASE f \notin DOMAIN entries
        BY <2>3, <4>1 DEF Accounted
      <4>2. CASE f \in DOMAIN entries
        <5>1. entries'[f] = [packets |-> entries[f].packets + 1, inode |-> NoInode]
          BY <2>3, <3>1, <4>2 DEF Accounted
        <5>2. entries[f].packets + 1 \in Nat
          BY <3>1, <4>2 DEF Entry
        <5> QED
          BY <5>1, <5>2
      <4> QED
        BY <4>1, <4>2
    <3>5. entries'[f] \in Entry /\ entries'[f].inode = NoInode
      BY <3>4 DEF Entry, Inodes
    <3>6. EntryOK(f)'
      BY <2>1, <3>3, <3>5 DEF EntryOK
    <3> QED
      BY <1>2, <2>1, <2>3, <3>6
  <2> QED
    BY <2>1, <2>2, <2>3, Accounts
<1>5. ASSUME NEW c \in Cpus, NEW s \in Sockets, NEW f \in Flows, Deliver(c, s, f) PROVE EntriesOK'
  BY <1>1, <1>5 DEF Deliver
<1>6. ASSUME NEW c \in Cpus, LookupCookie(c) \/ InsertCookie(c) PROVE EntriesOK'
  BY <1>1, <1>6 DEF LookupCookie, InsertCookie
<1>7. CASE World
  BY <1>1, <1>7, WorldFrame DEF progVars
<1>8. CASE Checkpoint
  BY <1>1, <1>8, CheckpointFrame DEF progVars
<1>9. CASE UNCHANGED vars
  BY <1>1, <1>9 DEF vars, progVars
<1> QED
  BY <1>3, <1>4, <1>5, <1>6, <1>7, <1>8, <1>9 DEF Next, Program

\* udp_receive.bpf.c:45-47: what has an inode is all of one socket, and a socket that was
\* not evicted is counted under one cookie.
LEMMA OneCookie ==
  ASSUME WorldOK, UsesOK, EntriesOK
  PROVE  OneCookiePerSocket
<1> SUFFICES ASSUME mode # "legacy" PROVE OneCookiePerSocket
  BY DEF OneCookiePerSocket
<1>1. \A key \in DOMAIN entries : entries[key].inode # NoInode => under[key] = {entries[key].inode}
  BY DEF EntriesOK, EntryOK
<1>2. ASSUME NEW key \in DOMAIN entries, NEW other \in DOMAIN entries,
             entries[key].inode = entries[other].inode,
             entries[key].inode \notin split \cup {NoInode}
      PROVE  key[1] = other[1]
  <2>1. entries[key].inode \in Sockets
    BY <1>2 DEF EntriesOK, EntryOK, Entry, Inodes
  <2>2. CASE mode = "kprobe"
    <3>1. <<key[1], entries[key].inode>> \in Uses /\ <<other[1], entries[other].inode>> \in Uses
      BY DEF Uses
    <3> DEFINE k == <<sk[entries[key].inode].address, entries[key].inode>>
    <3>2. cookies[k] = key[1]
      BY <1>2, <2>1, <2>2, <3>1 DEF UsesOK
    <3>3. cookies[k] = other[1]
      BY <1>2, <2>1, <2>2, <3>1 DEF UsesOK
    <3> QED
      BY <3>2, <3>3
  <2>3. CASE mode = "fentry"
    <3>1. key[1] = <<"kernel", entries[key].inode>>
      BY <1>2, <2>3 DEF EntriesOK, EntryOK
    <3>2. other[1] = <<"kernel", entries[other].inode>>
      BY <1>2, <2>3 DEF EntriesOK, EntryOK
    <3> QED
      BY <1>2, <3>1, <3>2
  <2> QED
    BY <2>2, <2>3 DEF WorldOK
<1> QED
  BY <1>1, <1>2 DEF OneCookiePerSocket

---------------------------------------------------------------------------------
(* The analyzer.                                                                      *)

\* Counters only grow, and an inode that is known stays.
LEMMA EntriesGrow ==
  ASSUME HooksOK, EntriesOK, [Next]_vars
  PROVE  /\ DOMAIN entries \subseteq DOMAIN entries'
         /\ \A key \in DOMAIN entries :
              /\ entries[key].packets <= entries'[key].packets
              /\ entries[key].inode # NoInode => entries'[key].inode = entries[key].inode
<1> DEFINE Grow == /\ DOMAIN entries \subseteq DOMAIN entries'
                   /\ \A key \in DOMAIN entries :
                        /\ entries[key].packets <= entries'[key].packets
                        /\ entries[key].inode # NoInode => entries'[key].inode = entries[key].inode
<1>1. \A key \in DOMAIN entries : entries[key].packets \in Nat
  BY DEF EntriesOK, EntryOK, Entry
<1>2. ASSUME UNCHANGED entries PROVE Grow
  BY <1>1, <1>2
<1>3. ASSUME NEW key, NEW inode, NEW who, Accounted(key, inode, who) PROVE Grow
  <2>1. key \in DOMAIN entries =>
          /\ entries'[key].packets = entries[key].packets + 1
          /\ entries[key].inode # NoInode => entries'[key].inode = entries[key].inode
    BY <1>3 DEF Accounted
  <2> QED
    BY <1>1, <1>3, <2>1 DEF Accounted
<1>4. ASSUME NEW c \in Cpus, Account(c) PROVE Grow
  BY <1>2, <1>3, <1>4, AccountOf
<1>5. ASSUME NEW f \in Flows, Ingress(f) PROVE Grow
  <2>1. Count(f, NoInode, f)
    BY <1>5 DEF Ingress
  <2> QED
    BY <1>2, <1>3, <2>1, Accounts
<1> HIDE DEF Grow
<1>6. ASSUME NEW c \in Cpus, NEW s \in Sockets, NEW f \in Flows, Deliver(c, s, f) PROVE Grow
  BY <1>2, <1>6 DEF Deliver
<1>7. ASSUME NEW c \in Cpus, LookupCookie(c) \/ InsertCookie(c) PROVE Grow
  BY <1>2, <1>7 DEF LookupCookie, InsertCookie
<1>8. ASSUME World PROVE Grow
  BY <1>2, <1>8, WorldFrame DEF progVars
<1>9. ASSUME Checkpoint PROVE Grow
  BY <1>2, <1>9, CheckpointFrame DEF progVars
<1>10. ASSUME UNCHANGED vars PROVE Grow
  BY <1>2, <1>10 DEF vars, progVars
<1>11. Grow
  BY <1>4, <1>5, <1>6, <1>7, <1>8, <1>9, <1>10 DEF Next, Program
<1> QED
  BY <1>11 DEF Grow

\* The baseline becomes what the dump says, of an identity that is in it.
LEMMA AdvanceKeepsDump ==
  ASSUME DumpOK, EntriesOK, NEW key \in todo, Advance(key), UNCHANGED <<dumped, entries>>,
         phase' = "rows"
  PROVE  DumpOK'
<1>1. /\ DOMAIN previous' = DOMAIN previous \cup {key} /\ previous'[key] = dumped[key].packets
      /\ \A k \in DOMAIN previous \ {key} : previous'[k] = previous[k]
      /\ todo' = todo \ {key}
  BY DEF Advance, With
<1>2. /\ key \in DOMAIN dumped /\ key \in DOMAIN entries /\ dumped[key].packets \in Nat
      /\ dumped[key].packets <= entries[key].packets
  BY DEF DumpOK, Entry
<1>3. ASSUME NEW k \in DOMAIN previous'
      PROVE  /\ k \in DOMAIN entries /\ previous'[k] \in Nat
             /\ previous'[k] <= entries[k].packets
             /\ k \in DOMAIN dumped => previous'[k] <= dumped[k].packets
  BY <1>1, <1>2, <1>3 DEF DumpOK
<1>4. \A k \in DOMAIN dumped :
        /\ dumped[k] \in Entry /\ dumped[k].packets <= entries[k].packets
        /\ dumped[k].inode # NoInode => entries[k].inode = dumped[k].inode
  BY DEF DumpOK
<1>5. todo' \subseteq DOMAIN dumped /\ DOMAIN dumped \subseteq DOMAIN entries
  BY <1>1 DEF DumpOK
<1> QED
  BY <1>3, <1>4, <1>5 DEF DumpOK

\* The dump is behind the counters, the baselines are behind the dump.
LEMMA DumpStep ==
  ASSUME WorldOK, HooksOK, UsesOK, EntriesOK, DumpOK, [Next]_vars
  PROVE  DumpOK'
<1>1. ASSUME UNCHANGED <<mode, phase, dumped, todo, previous, cursor>> PROVE DumpOK'
  <2>1. \A key \in DOMAIN entries :
          /\ key \in DOMAIN entries' /\ entries[key].packets \in Nat /\ entries'[key].packets \in Nat
          /\ entries[key].packets <= entries'[key].packets
          /\ entries[key].inode # NoInode => entries'[key].inode = entries[key].inode
    BY EntriesGrow, EntriesStep DEF EntriesOK, EntryOK, Entry
  <2>2. \A key \in DOMAIN dumped :
          /\ key \in DOMAIN entries' /\ dumped[key] \in Entry
          /\ dumped[key].packets <= entries'[key].packets
          /\ dumped[key].inode # NoInode => entries'[key].inode = dumped[key].inode
    BY <2>1 DEF DumpOK, Entry
  <2>3. \A key \in DOMAIN previous :
          /\ key \in DOMAIN entries' /\ previous[key] \in Nat
          /\ previous[key] <= entries'[key].packets
          /\ key \in DOMAIN dumped => previous[key] <= dumped[key].packets
    BY <2>1 DEF DumpOK
  <2>4. phase = "scan" => (cursor \in todo /\ Delta(cursor) > 0 /\ Asks(cursor))'
    BY <1>1 DEF DumpOK, Delta, Asks
  <2> QED
    BY <1>1, <2>2, <2>3, <2>4 DEF DumpOK
<1>2. ASSUME UNCHANGED <<phase, dumped, todo, previous, cursor, mode, entries>> PROVE DumpOK'
  BY <1>2 DEF DumpOK, Delta, Asks
<1>3. CASE ReadMap
  <2>1. /\ phase' = "rows" /\ dumped' = entries /\ todo' = DOMAIN entries /\ entries' = entries
        /\ DOMAIN previous' = DOMAIN previous \cap DOMAIN entries
        /\ \A k \in DOMAIN previous' : previous'[k] = previous[k]
    BY <1>3 DEF ReadMap, Restrict, progVars
  <2>2. \A k \in DOMAIN entries : entries[k] \in Entry /\ entries[k].packets <= entries[k].packets
    BY DEF EntriesOK, EntryOK, Entry
  <2> QED
    BY <2>1, <2>2 DEF DumpOK
<1>4. ASSUME NEW key \in todo, FlowRow(key) PROVE DumpOK'
  <2>1. Advance(key) /\ UNCHANGED <<dumped, entries>> /\ phase' = "rows"
    BY <1>4 DEF FlowRow, progVars
  <2> QED
    BY <2>1, AdvanceKeepsDump
<1>5. ASSUME NEW CONSTANT key, key \in todo, BeginScan(key) PROVE DumpOK'
  <2>1. /\ phase' = "scan" /\ cursor' = key /\ Delta(key) > 0 /\ Asks(key)
        /\ UNCHANGED <<mode, dumped, todo, previous, entries>>
    BY <1>5 DEF BeginScan, progVars
  <2>2. (Delta(key) > 0)' /\ Asks(key)'
    BY <2>1 DEF Delta, Asks
  <2>3. (Delta(cursor) > 0 /\ Asks(cursor))'
    BY <2>1, <2>2 DEF Delta, Asks
  <2> QED
    BY <1>5, <2>1, <2>3 DEF DumpOK
<1>6. CASE (\E p \in Pids : ScanName(p)) \/ ScanInodes \/ ScanSockets
  BY <1>2, <1>6 DEF ScanName, ScanInodes, ScanSockets, Scanning, progVars
<1>7. CASE EndScan
  <2>1. /\ Advance(cursor) /\ UNCHANGED <<dumped, entries>> /\ phase' = "rows" /\ phase = "scan"
    BY <1>7 DEF EndScan, progVars
  <2>2. cursor \in todo
    BY <2>1 DEF DumpOK
  <2> QED
    BY <2>1, <2>2, AdvanceKeepsDump
<1>8. CASE Return
  <2>1. phase' = "sleep" /\ DOMAIN dumped' = {} /\ todo' = {} /\ UNCHANGED <<previous, entries>>
    BY <1>8 DEF Return, EmptyMap, progVars
  <2> QED
    BY <2>1 DEF DumpOK
<1>9. CASE Program
  BY <1>1, <1>9, ProgramFrame DEF pollVars
<1>10. CASE World
  BY <1>1, <1>10, WorldFrame DEF pollVars
<1>11. CASE UNCHANGED vars
  BY <1>1, <1>11 DEF vars, pollVars
<1> QED
  BY <1>3, <1>4, <1>5, <1>6, <1>7, <1>8, <1>9, <1>10, <1>11 DEF Next, Checkpoint

\* An inventory that was true stays true.
LEMMA TrueKept ==
  ASSUME WorldOK, TimesOK, [Next]_vars, NEW CONSTANT found, found \subseteq Match,
         NEW CONSTANT t \in Int, t <= clock, True(found, t)
  PROVE  True(found, t)'
<1>1. ASSUME NEW m \in found PROVE HoldsAs(m.pid, m.name, m.socket, t)'
  <2>1. m.pid \in Pids /\ m.name \in Names /\ m.socket \in Sockets
    BY DEF Match
  <2>2. HoldsAs(m.pid, m.name, m.socket, t)
    BY DEF True
  <2> QED
    BY <2>1, <2>2, Kept
<1> QED
  BY <1>1 DEF True

\* The cached inventory, from when it was begun.
LEMMA CacheStep ==
  ASSUME WorldOK, TimesOK, CacheOK, ScanOK, [Next]_vars
  PROVE  CacheOK'
<1>1. clock \in Nat /\ clock' \in Nat /\ clock <= clock'
  BY ClockStep
<1>2. ASSUME UNCHANGED <<cache, cacheAt>>, phase' # "scan" => phase # "scan" PROVE CacheOK'
  <2>1. PICK found, t : found = cache /\ t = cacheAt
    OBVIOUS
  <2>2. t \in Int /\ t <= clock /\ found \subseteq Match
    BY <2>1 DEF CacheOK
  <2>3. cacheAt' \in Int /\ cacheAt' <= clock' /\ cache' \subseteq Match
    BY <1>1, <1>2 DEF CacheOK
  <2>4. ASSUME phase' # "scan"
        PROVE  /\ True(found, t)' /\ OneName(found)
               /\ \A x \in Pids \X Sockets : Due(x, t)' => Finds(found, x[1], x[2])
    <3>1. /\ True(found, t) /\ OneName(found)
          /\ \A x \in Pids \X Sockets : Due(x, t) => Finds(found, x[1], x[2])
      BY <1>2, <2>1, <2>4 DEF CacheOK
    <3>2. True(found, t)'
      BY <2>2, <3>1, TrueKept
    <3> QED
      BY <2>2, <3>1, <3>2, Kept
  <2>5. cache' = found /\ cacheAt' = t
    BY <1>2, <2>1
  <2>6. phase' # "scan" => (True(cache, cacheAt) /\ OneName(cache))'
    BY <2>4, <2>5 DEF True, OneName, HoldsAs, Holds, Lately
  <2>7. phase' # "scan" =>
          (\A x \in Pids \X Sockets : Due(x, cacheAt) => Finds(cache, x[1], x[2]))'
    BY <2>4, <2>5 DEF Due, Finds
  <2> QED
    BY <2>3, <2>6, <2>7 DEF CacheOK
<1>3. CASE ReadMap
  BY <1>2, <1>3 DEF ReadMap
<1>4. ASSUME NEW key \in todo, FlowRow(key) PROVE CacheOK'
  BY <1>2, <1>4 DEF FlowRow
<1>5. ASSUME NEW key \in todo, BeginScan(key) PROVE CacheOK'
  BY <1>1, <1>5 DEF BeginScan, CacheOK
<1>6. CASE (\E p \in Pids : ScanName(p)) \/ ScanInodes \/ ScanSockets
  BY <1>2, <1>6 DEF ScanName, ScanInodes, ScanSockets, Scanning
<1>7. CASE EndScan
  <2>1. /\ cache' = scan.found /\ cacheAt' = cacheAt /\ phase = "scan" /\ scan.at = "next"
        /\ scan.left = {}
    BY <1>7 DEF EndScan
  <2>2. PICK found, t : found = scan.found /\ t = cacheAt
    OBVIOUS
  <2>3. t \in Int /\ t <= clock /\ found \subseteq Match /\ True(found, t) /\ OneName(found)
    BY <2>1, <2>2 DEF CacheOK, ScanOK
  <2>4. \A x \in Pids \X Sockets : Due(x, t) => Finds(found, x[1], x[2])
    BY <2>1, <2>2 DEF ScanOK
  <2>5. True(found, t)' /\ \A x \in Pids \X Sockets : Due(x, t)' => Finds(found, x[1], x[2])
    BY <2>3, <2>4, TrueKept, Kept
  <2>6. cache' = found /\ cacheAt' = t
    BY <2>1, <2>2
  <2>7. (True(cache, cacheAt) /\ OneName(cache))'
    BY <2>3, <2>5, <2>6 DEF True, OneName, HoldsAs, Holds, Lately
  <2>8. (\A x \in Pids \X Sockets : Due(x, cacheAt) => Finds(cache, x[1], x[2]))'
    BY <2>5, <2>6 DEF Due, Finds
  <2>9. cacheAt' \in Int /\ cacheAt' <= clock' /\ cache' \subseteq Match
    BY <1>1, <2>3, <2>6
  <2> QED
    BY <2>7, <2>8, <2>9 DEF CacheOK
<1>8. CASE Return
  BY <1>2, <1>8 DEF Return
<1>9. CASE Program
  BY <1>2, <1>9, ProgramFrame DEF pollVars
<1>10. CASE World
  BY <1>2, <1>10, WorldFrame DEF pollVars
<1>11. CASE UNCHANGED vars
  BY <1>2, <1>11 DEF vars, pollVars
<1> QED
  BY <1>3, <1>4, <1>5, <1>6, <1>7, <1>8, <1>9, <1>10, <1>11 DEF Next, Checkpoint

\* What a scan has found so far, from when it was begun, and whom it still has to look at.
LEMMA ScanStep ==
  ASSUME WorldOK, TimesOK, DumpOK, CacheOK, ScanOK, [Next]_vars
  PROVE  ScanOK'
<1>1. \A x \in DOMAIN since : x \in Pids \X Sockets /\ x[1] \in sk[x[2]].holders
  BY DEF TimesOK
<1>2. \A s \in Sockets : \A p \in sk[s].holders : p \in Pids /\ names[p] # "" /\ sk[s].stage = "open"
  BY DEF WorldOK, Socket
<1>3. ASSUME UNCHANGED <<phase, scan, cacheAt>> PROVE ScanOK'
  <2> SUFFICES ASSUME phase' = "scan" PROVE ScanOK'
    BY DEF ScanOK
  <2>1. PICK sc, found, t : sc = scan /\ t = cacheAt /\ found = sc.found
    OBVIOUS
  <2>2. ScanOK /\ phase = "scan"
    BY <1>3
  <2>3. t \in Int /\ t <= clock /\ found \subseteq Match /\ True(found, t)
    BY <2>1, <2>2 DEF CacheOK, ScanOK
  <2>4. True(found, t)'
    BY <2>3, TrueKept
  <2>5. \/ sc \in [at : {"next"}, left : SUBSET Pids, found : SUBSET Match]
        \/ /\ sc.at \in {"fd", "udp"}
           /\ sc.pid \in Pids \ sc.left /\ sc.name \in Names
           /\ Called(sc.pid, sc.name, t)' /\ \A m \in found : m.pid # sc.pid
    BY <2>1, <2>2, <2>3, Kept DEF ScanOK
  <2>6. sc.at = "udp" => sc.inodes \subseteq Sockets /\ \A s \in sc.inodes : HoldsAs(sc.pid, sc.name, s, t)'
    <3> SUFFICES ASSUME sc.at = "udp"
                 PROVE  /\ sc.inodes \subseteq Sockets
                        /\ \A s \in sc.inodes : HoldsAs(sc.pid, sc.name, s, t)'
      OBVIOUS
    <3>1. sc.inodes \subseteq Sockets /\ \A s \in sc.inodes : HoldsAs(sc.pid, sc.name, s, t)
      BY <2>1, <2>2 DEF ScanOK
    <3>2. sc.pid \in Pids /\ sc.name \in Names
      BY <2>5
    <3> QED
      BY <2>3, <3>1, <3>2, Kept
  <2>7. ASSUME NEW x \in Pids \X Sockets, Due(x, t)'
        PROVE  \/ x[1] \in sc.left \/ Finds(found, x[1], x[2])
               \/ sc.at = "fd" /\ sc.pid = x[1]
               \/ sc.at = "udp" /\ sc.pid = x[1] /\ x[2] \in sc.inodes
    <3>1. Due(x, t)
      BY <2>3, <2>7, Kept
    <3> QED
      BY <2>1, <2>2, <3>1 DEF ScanOK
  <2>8. /\ sc.left \subseteq Pids /\ OneName(found) /\ \A m \in found : m.pid \notin sc.left
    BY <2>1, <2>2 DEF ScanOK
  <2>9. scan' = sc /\ cacheAt' = t /\ (scan.found)' = found
    BY <1>3, <2>1
  <2>10. True(scan.found, cacheAt)'
    BY <2>4, <2>9 DEF True, HoldsAs, Holds, Lately
  <2>11. (\/ scan \in [at : {"next"}, left : SUBSET Pids, found : SUBSET Match]
          \/ /\ scan.at \in {"fd", "udp"}
             /\ scan.pid \in Pids \ scan.left /\ scan.name \in Names
             /\ Called(scan.pid, scan.name, cacheAt)
             /\ \A m \in scan.found : m.pid # scan.pid)'
    BY <2>5, <2>9 DEF Called, Lately
  <2>12. (scan.at = "udp" => /\ scan.inodes \subseteq Sockets
                             /\ \A s \in scan.inodes : HoldsAs(scan.pid, scan.name, s, cacheAt))'
    BY <2>6, <2>9 DEF HoldsAs, Holds, Lately
  <2>13. (\A x \in Pids \X Sockets : Due(x, cacheAt) =>
            \/ x[1] \in scan.left \/ Finds(scan.found, x[1], x[2])
            \/ scan.at = "fd" /\ scan.pid = x[1]
            \/ scan.at = "udp" /\ scan.pid = x[1] /\ x[2] \in scan.inodes)'
    BY <2>7, <2>9 DEF Due, Finds
  <2>14. (scan.left \subseteq Pids /\ scan.found \subseteq Match /\ OneName(scan.found)
            /\ \A m \in scan.found : m.pid \notin scan.left)'
    BY <2>3, <2>8, <2>9 DEF OneName
  <2> QED
    BY <2>10, <2>11, <2>12, <2>13, <2>14 DEF ScanOK
<1>4. ASSUME phase' # "scan" PROVE ScanOK'
  BY <1>4 DEF ScanOK
<1>5. ASSUME NEW key \in todo, BeginScan(key) PROVE ScanOK'
  <2>1. /\ cacheAt' = clock /\ scan' = [at |-> "next", left |-> Alive, found |-> {}]
        /\ UNCHANGED <<sk, names, since, nameSince, filter>>
    BY <1>5 DEF BeginScan, kernelVars, ghostVars
  <2>2. Alive \subseteq Pids
    BY DEF Alive
  <2>3. scan' \in [at : {"next"}, left : SUBSET Pids, found : SUBSET Match]
    BY <2>1, <2>2
  <2>4. (\A x \in Pids \X Sockets : Due(x, cacheAt) => x[1] \in scan.left)'
    BY <1>1, <1>2, <2>1 DEF Due, Alive
  <2> QED
    BY <2>1, <2>2, <2>3, <2>4 DEF ScanOK, True, OneName
<1>6. ASSUME NEW p \in Pids, ScanName(p) PROVE ScanOK'
  <2>1. /\ phase = "scan" /\ scan.at = "next" /\ p \in scan.left
        /\ UNCHANGED <<phase, sk, names, since, until, nameSince, filter, cacheAt>>
    BY <1>6 DEF ScanName, Scanning, kernelVars, ghostVars
  <2>2. scan \in [at : {"next"}, left : SUBSET Pids, found : SUBSET Match]
    BY <2>1 DEF ScanOK
  <2>3. /\ True(scan.found, cacheAt) /\ OneName(scan.found)
        /\ \A m \in scan.found : m.pid \notin scan.left
        /\ \A x \in Pids \X Sockets : Due(x, cacheAt) =>
             x[1] \in scan.left \/ Finds(scan.found, x[1], x[2])
    BY <2>1 DEF ScanOK
  <2>4. True(scan.found, cacheAt)' \/ scan'.found # scan.found
    BY <2>1, <2>3 DEF True, HoldsAs, Holds, Lately
  <2>5. \A x \in Pids \X Sockets : Due(x, cacheAt)' => Due(x, cacheAt)
    BY <2>1 DEF Due
  <2>6. CASE filter # "" /\ names[p] # filter
    <3>1. scan' = [scan EXCEPT !.left = scan.left \ {p}]
      BY <1>6, <2>6 DEF ScanName
    <3>2. /\ scan' \in [at : {"next"}, left : SUBSET Pids, found : SUBSET Match]
          /\ scan'.left = scan.left \ {p} /\ scan'.found = scan.found /\ scan'.at = "next"
      BY <2>2, <3>1
    <3>3. (\A x \in Pids \X Sockets : Due(x, cacheAt) =>
             x[1] \in scan.left \/ Finds(scan.found, x[1], x[2]))'
      BY <2>3, <2>5, <2>6, <3>2 DEF Due, Finds
    <3> QED
      BY <2>3, <2>4, <3>2, <3>3 DEF ScanOK, OneName
  <2>7. CASE ~(filter # "" /\ names[p] # filter)
    <3>1. scan' = [at |-> "fd", left |-> scan.left \ {p}, found |-> scan.found,
                   pid |-> p, name |-> names[p]]
      BY <1>6, <2>7 DEF ScanName
    <3>2. /\ scan'.at = "fd" /\ scan'.left = scan.left \ {p} /\ scan'.found = scan.found
          /\ scan'.pid = p /\ scan'.name = names[p]
      BY <3>1
    <3>3. Called(scan.pid, scan.name, cacheAt)' /\ scan'.name \in Names
      BY <2>1, <3>2 DEF Called, WorldOK
    <3>4. \A m \in scan.found : m.pid # p
      BY <2>1, <2>3
    <3>5. (\A x \in Pids \X Sockets : Due(x, cacheAt) =>
             x[1] \in scan.left \/ Finds(scan.found, x[1], x[2]) \/ scan.pid = x[1])'
      BY <2>3, <2>5, <3>2 DEF Finds
    <3>6. scan'.left \subseteq Pids /\ scan'.found \subseteq Match /\ p \in Pids \ scan'.left
      BY <2>2, <3>2
    <3> QED
      BY <2>3, <2>4, <3>2, <3>3, <3>4, <3>5, <3>6 DEF ScanOK, OneName
  <2> QED
    BY <2>6, <2>7
<1>7. CASE ScanInodes
  <2> DEFINE inodes == process_socket_inodes(scan.pid)
             gone == [at |-> "next", left |-> scan.left, found |-> scan.found]
             there == [at |-> "udp", left |-> scan.left, found |-> scan.found, pid |-> scan.pid,
                       name |-> scan.name, inodes |-> inodes]
  <2>1. /\ phase = "scan" /\ scan.at = "fd"
        /\ scan' = IF inodes = {} THEN gone ELSE there
        /\ UNCHANGED <<phase, sk, names, since, until, nameSince, filter, cacheAt>>
    BY <1>7 DEF ScanInodes, Scanning, kernelVars, ghostVars
  <2>2. /\ scan.left \subseteq Pids /\ scan.found \subseteq Match
        /\ True(scan.found, cacheAt) /\ OneName(scan.found)
        /\ \A m \in scan.found : m.pid \notin scan.left /\ m.pid # scan.pid
        /\ scan.pid \in Pids \ scan.left /\ scan.name \in Names
        /\ Called(scan.pid, scan.name, cacheAt)
        /\ \A x \in Pids \X Sockets : Due(x, cacheAt) =>
             x[1] \in scan.left \/ Finds(scan.found, x[1], x[2]) \/ scan.pid = x[1]
    BY <2>1 DEF ScanOK
  <2>3. /\ inodes \subseteq Sockets /\ \A s \in inodes : scan.pid \in sk[s].holders
        /\ \A x \in Pids \X Sockets : Due(x, cacheAt) /\ x[1] = scan.pid => x[2] \in inodes
    BY <1>1 DEF process_socket_inodes, Due
  <2>4. \A x \in Pids \X Sockets : Due(x, cacheAt)' => Due(x, cacheAt)
    BY <2>1 DEF Due
  <2>5. scan'.left = scan.left /\ scan'.found = scan.found
    <3> HIDE DEF inodes
    <3> QED
      BY <2>1
  <2>6. True(scan.found, cacheAt)'
    BY <2>1, <2>2, <2>5 DEF True, HoldsAs, Holds, Lately
  <2>7. CASE inodes = {}
    <3>1. scan' \in [at : {"next"}, left : SUBSET Pids, found : SUBSET Match]
      BY <2>1, <2>2, <2>7
    <3>2. (\A x \in Pids \X Sockets : Due(x, cacheAt) =>
             x[1] \in scan.left \/ Finds(scan.found, x[1], x[2]))'
      BY <2>2, <2>3, <2>4, <2>5, <2>7 DEF Finds
    <3>3. scan'.at = "next"
      BY <2>1, <2>7
    <3> QED
      BY <2>2, <2>5, <2>6, <3>1, <3>2, <3>3 DEF ScanOK, OneName
  <2>8. CASE inodes # {}
    <3>1. scan'.at = "udp" /\ scan'.pid = scan.pid /\ scan'.name = scan.name /\ scan'.inodes = inodes
      BY <2>1, <2>8
    <3>2. Called(scan.pid, scan.name, cacheAt)'
      BY <2>1, <2>2, <3>1 DEF Called, Lately
    <3>3. (\A s \in scan.inodes : HoldsAs(scan.pid, scan.name, s, cacheAt))'
      BY <2>1, <2>2, <2>3, <3>1 DEF HoldsAs, Holds, Called, Lately
    <3>4. (\A x \in Pids \X Sockets : Due(x, cacheAt) =>
             \/ x[1] \in scan.left \/ Finds(scan.found, x[1], x[2])
             \/ scan.pid = x[1] /\ x[2] \in scan.inodes)'
      BY <2>2, <2>3, <2>4, <2>5, <3>1 DEF Finds
    <3> HIDE DEF inodes
    <3> QED
      BY <2>2, <2>3, <2>5, <2>6, <3>1, <3>2, <3>3, <3>4 DEF ScanOK, OneName
  <2> QED
    BY <2>7, <2>8
<1>8. CASE ScanSockets
  <2> DEFINE more == {[pid |-> scan.pid, name |-> scan.name, socket |-> s] :
                        s \in read_udp_sockets(scan.pid) \cap scan.inodes}
  <2>1. /\ phase = "scan" /\ scan.at = "udp"
        /\ scan' = [at |-> "next", left |-> scan.left, found |-> scan.found \cup more]
        /\ UNCHANGED <<phase, sk, names, since, until, nameSince, filter, cacheAt>>
    BY <1>8 DEF ScanSockets, Scanning, kernelVars, ghostVars
  <2>2. /\ scan.left \subseteq Pids /\ scan.found \subseteq Match
        /\ True(scan.found, cacheAt) /\ OneName(scan.found)
        /\ \A m \in scan.found : m.pid \notin scan.left /\ m.pid # scan.pid
        /\ scan.pid \in Pids \ scan.left /\ scan.name \in Names
        /\ Called(scan.pid, scan.name, cacheAt)
        /\ scan.inodes \subseteq Sockets
        /\ \A s \in scan.inodes : HoldsAs(scan.pid, scan.name, s, cacheAt)
        /\ \A x \in Pids \X Sockets : Due(x, cacheAt) =>
             \/ x[1] \in scan.left \/ Finds(scan.found, x[1], x[2])
             \/ scan.pid = x[1] /\ x[2] \in scan.inodes
    BY <2>1 DEF ScanOK
  <2>3. \A m \in more : /\ m \in Match /\ m.pid = scan.pid /\ m.name = scan.name
                        /\ m.socket \in scan.inodes
    BY <2>2 DEF Match
  <2>4. ASSUME NEW x \in Pids \X Sockets, Due(x, cacheAt), scan.pid = x[1], x[2] \in scan.inodes
        PROVE  Finds(more, x[1], x[2])
    <3>1. x[1] \in sk[x[2]].holders /\ sk[x[2]].ns = NsOf[x[1]]
      BY <1>1, <2>4 DEF Due
    <3>2. x[2] \in read_udp_sockets(scan.pid)
      BY <1>2, <2>4, <3>1 DEF read_udp_sockets, Alive
    <3>3. [pid |-> scan.pid, name |-> scan.name, socket |-> x[2]] \in more
      BY <2>4, <3>2
    <3> QED
      BY <2>4, <3>3 DEF Finds
  <2> HIDE DEF more
  <2>5. /\ scan'.at = "next" /\ scan'.left = scan.left /\ scan'.found = scan.found \cup more
        /\ scan' \in [at : {"next"}, left : SUBSET Pids, found : SUBSET Match]
    BY <2>1, <2>2, <2>3
  <2>6. True(scan.found, cacheAt)'
    <3>1. \A m \in scan.found \cup more : HoldsAs(m.pid, m.name, m.socket, cacheAt)
      BY <2>2, <2>3 DEF True
    <3> QED
      BY <2>1, <2>5, <3>1 DEF True, HoldsAs, Holds, Lately
  <2>7. OneName(scan'.found) /\ \A m \in scan'.found : m.pid \notin scan'.left
    BY <2>2, <2>3, <2>5 DEF OneName
  <2>8. (\A x \in Pids \X Sockets : Due(x, cacheAt) =>
           x[1] \in scan.left \/ Finds(scan.found, x[1], x[2]))'
    <3>1. \A x \in Pids \X Sockets : Due(x, cacheAt)' => Due(x, cacheAt)
      BY <2>1 DEF Due
    <3> QED
      BY <2>2, <2>4, <2>5, <3>1 DEF Finds
  <2> QED
    BY <2>5, <2>6, <2>7, <2>8 DEF ScanOK, OneName
<1>9. CASE ReadMap \/ EndScan \/ Return \/ \E key \in todo : FlowRow(key)
  BY <1>4, <1>9 DEF ReadMap, EndScan, Return, FlowRow
<1>10. CASE Program
  BY <1>3, <1>10, ProgramFrame DEF pollVars
<1>11. CASE World
  BY <1>3, <1>11, WorldFrame DEF pollVars
<1>12. CASE UNCHANGED vars
  BY <1>3, <1>12 DEF vars, pollVars
<1> QED
  BY <1>5, <1>6, <1>7, <1>8, <1>9, <1>10, <1>11, <1>12 DEF Next, Checkpoint

\* A row that is written from a true inventory with every holder in it.
LEMMA EmitRow ==
  ASSUME WorldOK, TimesOK, DumpOK,
         NEW CONSTANT key, key \in todo, NEW CONSTANT sockets, sockets \subseteq Match,
         NEW CONSTANT asked \in Int, asked <= clock, NEW CONSTANT at \in Int,
         True(sockets, at), \A x \in Pids \X Sockets : Due(x, at) => Finds(sockets, x[1], x[2]),
         Delta(key) > 0, Asks(key) => asked - Ttl <= at, Emit(key, sockets, asked),
         UNCHANGED <<mode, filter, names, sk, since, until, nameSince, clock, entries>>
  PROVE  RowOK'
<1> DEFINE matches == IF mode = "legacy" THEN find_matches(sockets, key)
                      ELSE find_inode_matches(sockets, dumped[key].inode)
<1>1. row' = [key |-> key, packets |-> Delta(key), matches |-> matches,
              inode |-> dumped[key].inode, asked |-> asked]
  BY DEF Emit
<1>2. Ttl \in Nat /\ NoInode \notin Sockets
  BY DeliveredAssumption DEF NoInode
<1>3. matches \subseteq sockets
  BY DEF find_matches, find_inode_matches
<1>4. PICK t \in Int : t = asked - Ttl
  BY <1>2
<1>5. matches # {} => t <= at
  BY <1>4 DEF find_inode_matches, Asks
<1>6. ASSUME NEW m \in matches PROVE HoldsAs(m.pid, m.name, m.socket, t)
  <2>1. HoldsAs(m.pid, m.name, m.socket, at)
    BY <1>3 DEF True
  <2>2. \A x : Lately(x, at) => Lately(x, t)
    BY <1>5 DEF Lately, TimesOK
  <2> QED
    BY <2>1, <2>2 DEF HoldsAs, Holds
<1>7. ASSUME NEW m \in matches
      PROVE  IF mode = "legacy" THEN Hears(m.socket, key)
             ELSE key \in DOMAIN entries /\ entries[key].inode = m.socket
  <2>1. CASE mode = "legacy"
    BY <2>1 DEF find_matches, Hears
  <2>2. CASE mode # "legacy"
    <3>1. dumped[key].inode # NoInode /\ m.socket = dumped[key].inode
      BY <2>2 DEF find_inode_matches
    <3>2. key \in DOMAIN entries /\ entries[key].inode = dumped[key].inode
      BY <3>1 DEF DumpOK
    <3> QED
      BY <2>2, <3>1, <3>2
  <2> QED
    BY <2>1, <2>2
<1>8. ASSUME NEW x \in Pids \X Sockets, Due(x, t),
             IF mode = "legacy" THEN Hears(x[2], key) /\ Local[x[2]].ip # DualStack ELSE dumped[key].inode = x[2]
      PROVE  Finds(matches, x[1], x[2])
  <2>1. Asks(key)
    BY <1>2, <1>8 DEF Asks
  <2>2. Due(x, at)
    <3>1. t <= at
      BY <1>4, <2>1
    <3>2. since[x] \in Nat /\ since[x] < t
      BY <1>8 DEF Due, TimesOK
    <3>3. since[x] < at /\ (nameSince[x[1]] < t => nameSince[x[1]] < at)
      BY <3>1, <3>2 DEF TimesOK
    <3> QED
      BY <1>8, <3>3 DEF Due
  <2>3. PICK m \in sockets : m.pid = x[1] /\ m.socket = x[2]
    BY <2>2 DEF Finds
  <2>4. m \in matches
    BY <1>2, <1>8, <2>3 DEF find_matches, find_inode_matches, Hears
  <2> QED
    BY <2>3, <2>4 DEF Finds
<1> HIDE DEF matches
<1>9. /\ row'.key = key /\ row'.packets = Delta(key) /\ row'.matches = matches
      /\ row'.inode = dumped[key].inode /\ row'.asked = asked
  BY <1>1
<1>10. (True(row.matches, row.asked - Ttl))'
  BY <1>4, <1>6, <1>9 DEF True, HoldsAs, Holds, Lately
<1>11. (\A m \in row.matches :
          IF mode = "legacy" THEN Hears(m.socket, row.key)
          ELSE row.key \in DOMAIN entries /\ entries[row.key].inode = m.socket)'
  BY <1>7, <1>9 DEF Hears
<1>12. (\A x \in Pids \X Sockets :
          /\ Due(x, row.asked - Ttl)
          /\ IF mode = "legacy" THEN Hears(x[2], row.key) /\ Local[x[2]].ip # DualStack ELSE row.inode = x[2]
          => Finds(row.matches, x[1], x[2]))'
  <2>1. ASSUME NEW CONSTANT x \in Pids \X Sockets, Due(x, row.asked - Ttl)' PROVE Due(x, t)
    BY <1>4, <1>9, <2>1 DEF Due
  <2> QED
    BY <1>8, <1>9, <2>1 DEF Hears, Finds
<1>13. row'.packets > 0 /\ row'.asked \in Int /\ row'.asked <= clock' /\ row'.matches \subseteq Match
  BY <1>3, <1>9
<1> QED
  BY <1>10, <1>11, <1>12, <1>13 DEF RowOK

\* A row names who was there, and misses no one it should name.
LEMMA RowStep ==
  ASSUME WorldOK, TimesOK, HooksOK, UsesOK, EntriesOK, DumpOK, CacheOK, ScanOK, RowOK, [Next]_vars
  PROVE  RowOK'
<1>1. clock \in Nat /\ clock' \in Nat /\ clock <= clock' /\ Ttl \in Nat
  BY ClockStep, DeliveredAssumption
<1>2. mode' = mode
  BY ProgramFrame, WorldFrame, CheckpointFrame DEF Next, vars
<1>3. ASSUME UNCHANGED row PROVE RowOK'
  <2> SUFFICES ASSUME IsRow PROVE RowOK'
    BY <1>3 DEF RowOK, IsRow
  <2>1. PICK found, t : found = row.matches /\ t = row.asked - Ttl
    OBVIOUS
  <2>2. /\ found \subseteq Match /\ True(found, t) /\ t \in Int /\ t <= clock
        /\ row.packets > 0 /\ row.asked \in Int /\ row.asked <= clock'
    BY <1>1, <2>1 DEF RowOK
  <2>3. True(found, t)'
    BY <2>2, TrueKept
  <2>4. ASSUME NEW m \in found
        PROVE  IF mode = "legacy" THEN Hears(m.socket, row.key)
               ELSE row.key \in DOMAIN entries' /\ entries'[row.key].inode = m.socket
    <3>1. IF mode = "legacy" THEN Hears(m.socket, row.key)
          ELSE row.key \in DOMAIN entries /\ entries[row.key].inode = m.socket
      BY <2>1 DEF RowOK
    <3>2. m.socket # NoInode
      BY <2>2, DeliveredAssumption DEF Match, NoInode
    <3> QED
      BY <3>1, <3>2, EntriesGrow
  <2>5. ASSUME NEW x \in Pids \X Sockets, Due(x, t)',
               IF mode = "legacy" THEN Hears(x[2], row.key) /\ Local[x[2]].ip # DualStack ELSE row.inode = x[2]
        PROVE  Finds(found, x[1], x[2])
    <3>1. Due(x, t)
      BY <2>2, <2>5, Kept
    <3> QED
      BY <2>1, <2>5, <3>1 DEF RowOK
  <2>6. True(row.matches, row.asked - Ttl)'
    BY <1>3, <2>1, <2>3 DEF True, HoldsAs, Holds, Lately
  <2>7. (\A m \in row.matches :
          IF mode = "legacy" THEN Hears(m.socket, row.key)
          ELSE row.key \in DOMAIN entries /\ entries[row.key].inode = m.socket)'
    BY <1>2, <1>3, <2>1, <2>4 DEF Hears
  <2>8. (\A x \in Pids \X Sockets :
          /\ Due(x, row.asked - Ttl)
          /\ IF mode = "legacy" THEN Hears(x[2], row.key) /\ Local[x[2]].ip # DualStack ELSE row.inode = x[2]
          => Finds(row.matches, x[1], x[2]))'
    <3>1. ASSUME NEW CONSTANT x \in Pids \X Sockets, Due(x, row.asked - Ttl)' PROVE Due(x, t)'
      BY <1>3, <2>1, <3>1 DEF Due
    <3> QED
      BY <1>2, <1>3, <2>1, <2>5, <3>1 DEF Hears, Finds
  <2> QED
    BY <1>3, <2>1, <2>2, <2>6, <2>7, <2>8 DEF RowOK
<1>4. ASSUME row' = NoRow PROVE RowOK'
  BY <1>4 DEF RowOK, IsRow
<1>5. ASSUME NEW CONSTANT key, key \in todo, FlowRow(key) PROVE RowOK'
  <2>1. CASE row' = NoRow
    BY <1>4, <2>1
  <2>2. CASE Delta(key) > 0 /\ ~(Asks(key) /\ Stale) /\ Emit(key, cache, clock)
    <3>1. PICK sockets, asked, at : sockets = cache /\ asked = clock /\ at = cacheAt
      OBVIOUS
    <3>2. /\ sockets \subseteq Match /\ at \in Int /\ True(sockets, at)
          /\ \A x \in Pids \X Sockets : Due(x, at) => Finds(sockets, x[1], x[2])
      BY <1>5, <3>1 DEF FlowRow, CacheOK
    <3>3. Asks(key) => asked - Ttl <= at
      BY <1>1, <2>2, <3>1, <3>2 DEF Stale
    <3>4. UNCHANGED <<mode, filter, names, sk, since, until, nameSince, clock, entries>>
      BY <1>5 DEF FlowRow, kernelVars, ghostVars, progVars
    <3> QED
      BY <1>1, <1>5, <2>2, <3>1, <3>2, <3>3, <3>4, EmitRow
  <2> QED
    BY <1>5, <2>1, <2>2 DEF FlowRow
<1>6. CASE EndScan
  <2>1. PICK key, sockets, at : key = cursor /\ sockets = scan.found /\ at = cacheAt
    OBVIOUS
  <2>2. /\ phase = "scan" /\ scan.at = "next" /\ scan.left = {} /\ Emit(key, sockets, at)
        /\ UNCHANGED <<mode, filter, names, sk, since, until, nameSince, clock, entries>>
    BY <1>6, <2>1 DEF EndScan, kernelVars, ghostVars, progVars
  <2>3. /\ key \in todo /\ Delta(key) > 0
    BY <2>1, <2>2 DEF DumpOK
  <2>4. /\ sockets \subseteq Match /\ True(sockets, at)
        /\ \A x \in Pids \X Sockets : Due(x, at) => Finds(sockets, x[1], x[2])
    BY <2>1, <2>2 DEF ScanOK
  <2>5. at \in Int /\ at <= clock /\ at - Ttl <= at
    BY <1>1, <2>1 DEF CacheOK
  <2> QED
    BY <2>2, <2>3, <2>4, <2>5, EmitRow
<1>7. CASE ReadMap \/ Return
  BY <1>4, <1>7 DEF ReadMap, Return
<1>8. CASE (\E key \in todo : BeginScan(key)) \/ (\E p \in Pids : ScanName(p)) \/ ScanInodes \/ ScanSockets
  BY <1>3, <1>8 DEF BeginScan, ScanName, ScanInodes, ScanSockets, Scanning
<1>9. CASE Program
  BY <1>3, <1>9, ProgramFrame DEF pollVars
<1>10. CASE World
  BY <1>3, <1>10, WorldFrame DEF pollVars
<1>11. CASE UNCHANGED vars
  BY <1>3, <1>11 DEF vars, pollVars
<1> QED
  BY <1>5, <1>6, <1>7, <1>8, <1>9, <1>10, <1>11 DEF Next, Checkpoint

---------------------------------------------------------------------------------
(* The ledger.                                                                        *)

\* A product of naturals grows with its first factor.
LEMMA ProductGrows ==
  ASSUME NEW a \in Nat, NEW b \in Nat, NEW n \in Nat, a <= b
  PROVE  a * n <= b * n
<1>1. PICK d \in Nat : b = a + d
  BY b - a \in Nat
<1>2. b * n = a * n + d * n
  BY <1>1
<1>3. a * n \in Nat /\ d * n \in Nat
  BY <1>1
<1> QED
  BY <1>2, <1>3

\* What the ledger adds up are numbers of datagrams.
LEMMA LedgerTypes ==
  ASSUME NEW CONSTANT who
  PROVE  EntriesOK /\ DumpOK =>
           /\ Covered(who) \in [DOMAIN entries -> Nat] /\ SumFunction(Covered(who)) \in Nat
           /\ Counted(who) \in [DOMAIN entries -> Nat] /\ SumFunction(Counted(who)) \in Nat
           /\ Times(who) \in Nat
<1> SUFFICES ASSUME EntriesOK, DumpOK
             PROVE  /\ Covered(who) \in [DOMAIN entries -> Nat] /\ SumFunction(Covered(who)) \in Nat
                    /\ Counted(who) \in [DOMAIN entries -> Nat] /\ SumFunction(Counted(who)) \in Nat
                    /\ Times(who) \in Nat
  OBVIOUS
<1>1. IsFiniteSet(DOMAIN entries)
  BY DEF EntriesOK
<1>2. Covered(who) \in [DOMAIN entries -> Nat]
  <2>1. \A key \in DOMAIN entries : Base(key) \in Nat
    BY DEF Base, DumpOK
  <2> QED
    BY <2>1 DEF Covered
<1>3. Counted(who) \in [DOMAIN entries -> Nat]
  BY DEF Counted, EntriesOK, EntryOK, Entry
<1>4. Times(who) \in Nat
  <2> DEFINE H == {s \in Sockets : Hears(s, who)}
  <2>1. IsFiniteSet(Sockets)
    BY DeliveredAssumption
  <2>2. IsFiniteSet(H)
    BY <2>1, FS_Subset
  <2>3. Cardinality(H) \in Nat
    BY <2>2, FS_CardinalityType
  <2> QED
    BY <2>3 DEF Times
<1> QED
  BY <1>1, <1>2, <1>3, <1>4, SumOfFunction

\* After a step, too.
LEMMA LedgerTypesNext ==
  ASSUME NEW CONSTANT who
  PROVE  (EntriesOK /\ DumpOK =>
            /\ Covered(who) \in [DOMAIN entries -> Nat] /\ SumFunction(Covered(who)) \in Nat
            /\ Counted(who) \in [DOMAIN entries -> Nat] /\ SumFunction(Counted(who)) \in Nat
            /\ Times(who) \in Nat)'
<1>1. EntriesOK /\ DumpOK =>
        /\ Covered(who) \in [DOMAIN entries -> Nat] /\ SumFunction(Covered(who)) \in Nat
        /\ Counted(who) \in [DOMAIN entries -> Nat] /\ SumFunction(Counted(who)) \in Nat
        /\ Times(who) \in Nat
  BY LedgerTypes
<1> QED
  BY <1>1, PTL

\* What the rows have covered of a socket or flow only grows.
LEMMA CoveredGrows ==
  ASSUME EntriesOK, DumpOK, (EntriesOK /\ DumpOK)', mode' = mode,
         NEW CONSTANT key, DOMAIN entries' = DOMAIN entries \cup {key},
         \A k \in DOMAIN entries : entries[k].inode # NoInode => entries'[k].inode = entries[k].inode,
         \A k \in DOMAIN entries : Base(k) <= Base(k)',
         NEW CONSTANT who, mode = "legacy" \/ who # NoInode
  PROVE  SumFunction(Covered(who)) <= SumFunction(Covered(who))'
<1> DEFINE f == Covered(who)
           g == Covered(who)'
<1>1. f \in [DOMAIN entries -> Nat]
  BY LedgerTypes
<1>2. g \in [DOMAIN entries \cup {key} -> Nat]
  BY LedgerTypesNext
<1>3. ASSUME NEW CONSTANT k, k \in DOMAIN entries PROVE f[k] <= g[k]
  <2>1. Subject(k) = who => Subject(k)' = who
    BY <1>3 DEF Subject
  <2>2. f[k] = IF Subject(k) = who THEN Base(k) ELSE 0
    BY <1>3 DEF Covered
  <2>3. g[k] = IF Subject(k)' = who THEN Base(k)' ELSE 0
    BY <1>3 DEF Covered
  <2>4. f[k] \in Nat /\ g[k] \in Nat
    BY <1>1, <1>2, <1>3
  <2>5. Base(k) <= Base(k)'
    BY <1>3
  <2> HIDE DEF f, g
  <2> QED
    BY <2>1, <2>2, <2>3, <2>4, <2>5
<1>4. IsFiniteSet(DOMAIN entries)
  BY DEF EntriesOK
<1>5. SumFunction(f) <= SumFunction(g)
  <2> HIDE DEF f, g
  <2> QED
    BY <1>1, <1>2, <1>3, <1>4, SumMoreKeys
<1> QED
  BY <1>5

\* What the rows said remains true of the ledger if they cover more.
LEMMA NamedKept ==
  ASSUME EntriesOK, DumpOK, LedgerOK, (EntriesOK /\ DumpOK)', mode' = mode,
         DOMAIN arrived \subseteq DOMAIN arrived',
         NEW CONSTANT x, x \in DOMAIN named,
         SumFunction(Covered(x[2])) <= SumFunction(Covered(x[2]))'
  PROVE  /\ x \in Pids \X Subjects' /\ x[2] \in DOMAIN arrived' /\ named[x] \in Nat
         /\ named[x] <= SumFunction(Covered(x[2]))' * Times(x[2])'
<1> DEFINE a == SumFunction(Covered(x[2]))
           b == SumFunction(Covered(x[2]))'
           n == Times(x[2])
<1>1. /\ x \in Pids \X Subjects /\ x[2] \in DOMAIN arrived
      /\ named[x] \in Nat /\ named[x] <= a * n
  BY DEF LedgerOK
<1>2. a \in Nat /\ b \in Nat /\ n \in Nat /\ Times(x[2])' = n /\ a <= b
  BY LedgerTypes, LedgerTypesNext DEF Times, Hears
<1>3. a * n <= b * n /\ a * n \in Nat /\ b * n \in Nat
  <2> HIDE DEF a, b, n
  <2> QED
    BY <1>2, ProductGrows
<1>4. named[x] <= b * n
  <2> HIDE DEF a, b, n
  <2> QED
    BY <1>1, <1>3
<1>5. Subjects' = Subjects
  BY DEF Subjects
<1> QED
  BY <1>1, <1>2, <1>4, <1>5

\* The places of a row where it names a process.
Places(matches, p) == {m \in matches : m.pid = p}

\* A row names a process at most once for the socket, or for each socket that hears the flow.
LEMMA TimesBound ==
  ASSUME NEW sockets \in SUBSET Match, OneName(sockets), NEW key, NEW p, NEW matches, NEW subject,
         matches = IF mode = "legacy" THEN find_matches(sockets, key)
                   ELSE find_inode_matches(sockets, dumped[key].inode),
         subject = IF mode = "legacy" THEN key ELSE dumped[key].inode
  PROVE  /\ Cardinality(Places(matches, p)) \in Nat
         /\ Cardinality(Places(matches, p)) <= Times(subject)
<1> DEFINE N == {m \in matches : m.pid = p}
           T == IF mode = "legacy" THEN {s \in Sockets : Hears(s, subject)} ELSE {subject}
           h == [m \in N |-> m.socket]
<1>1. matches \subseteq sockets
  BY DEF find_matches, find_inode_matches
<1>2. \A m \in N : m.socket \in T
  BY <1>1 DEF find_matches, find_inode_matches, Hears, Match
<1>3. \A m, n \in N : m.socket = n.socket => m = n
  BY <1>1 DEF OneName, Match
<1>4. h \in Injection(N, T)
  <2> HIDE DEF N, T
  <2> QED
    BY <1>2, <1>3 DEF Injection, IsInjective
<1>5. IsFiniteSet(T) /\ Cardinality(T) = Times(subject)
  <2>1. CASE mode = "legacy"
    <3>1. IsFiniteSet(Sockets)
      BY DeliveredAssumption
    <3>2. IsFiniteSet({s \in Sockets : Hears(s, subject)})
      BY <3>1, FS_Subset
    <3> QED
      BY <2>1, <3>2 DEF Times
  <2>2. CASE mode # "legacy"
    <3>1. IsFiniteSet({subject}) /\ Cardinality({subject}) = 1
      BY FS_Singleton
    <3> QED
      BY <2>2, <3>1 DEF Times
  <2> QED
    BY <2>1, <2>2
<1> HIDE DEF N, T, h
<1>6. IsFiniteSet(N) /\ Cardinality(N) <= Cardinality(T)
  BY <1>4, <1>5, FS_Injection
<1>7. Cardinality(N) \in Nat /\ Cardinality(N) <= Times(subject)
  BY <1>5, <1>6, FS_CardinalityType
<1> QED
  BY <1>7 DEF N, Places

\* What arrives is counted once for its socket or flow.
LEMMA ArrivedStep ==
  ASSUME EntriesOK, DumpOK, LedgerOK, (EntriesOK /\ DumpOK)', mode' = mode,
         NEW CONSTANT key, NEW CONSTANT inode, NEW CONSTANT w, Accounted(key, inode, w),
         w \in Subjects
  PROVE  /\ (DOMAIN arrived)' \subseteq Subjects'
         /\ \A who \in DOMAIN arrived' : arrived'[who] \in Nat
         /\ \A k \in DOMAIN entries' : under'[k] \subseteq DOMAIN arrived' /\ under'[k] # {}
         /\ \A who \in DOMAIN arrived' : SumFunction(Counted(who))' <= arrived'[who]
<1>1. /\ DOMAIN entries' = DOMAIN entries \cup {key} /\ DOMAIN under = DOMAIN entries
      /\ DOMAIN arrived' = DOMAIN arrived \cup {w}
      /\ under'[key] = (IF key \in DOMAIN entries THEN under[key] ELSE {}) \cup {w}
      /\ \A k \in DOMAIN entries \ {key} : under'[k] = under[k] /\ entries'[k] = entries[k]
      /\ key \in DOMAIN entries => entries'[key].packets = entries[key].packets + 1
      /\ key \notin DOMAIN entries => entries'[key].packets = 1
  BY DEF Accounted, EntriesOK
<1>2. /\ \A x \in DOMAIN arrived : arrived[x] \in Nat /\ SumFunction(Counted(x)) <= arrived[x]
      /\ \A k \in DOMAIN entries : under[k] \subseteq DOMAIN arrived /\ under[k] # {}
      /\ DOMAIN arrived \subseteq Subjects
  BY DEF LedgerOK
<1>3. /\ arrived'[w] = 1 + (IF w \in DOMAIN arrived THEN arrived[w] ELSE 0)
      /\ \A x \in DOMAIN arrived \ {w} : arrived'[x] = arrived[x]
  BY DEF Accounted
<1>4. (DOMAIN arrived)' \subseteq Subjects'
  BY <1>1, <1>2 DEF Subjects
<1>5. \A who \in DOMAIN arrived' : arrived'[who] \in Nat
  BY <1>1, <1>2, <1>3
<1>6. \A k \in DOMAIN entries' : under'[k] \subseteq DOMAIN arrived' /\ under'[k] # {}
  BY <1>1, <1>2
<1>7. ASSUME NEW CONSTANT who, who \in DOMAIN arrived'
      PROVE  SumFunction(Counted(who))' <= arrived'[who]
  <2> DEFINE f == Counted(who)
             g == Counted(who)'
  <2>1. f \in [DOMAIN entries -> Nat] /\ SumFunction(f) \in Nat
    BY LedgerTypes
  <2>2. g \in [DOMAIN entries \cup {key} -> Nat] /\ SumFunction(g) \in Nat
    BY <1>1, LedgerTypesNext
  <2>3. IsFiniteSet(DOMAIN entries)
    BY DEF EntriesOK
  <2>4. \A k \in DOMAIN entries \ {key} : g[k] <= f[k]
    <3>1. ASSUME NEW k \in DOMAIN entries \ {key} PROVE g[k] = f[k] /\ f[k] \in Nat
      BY <1>1, <2>1 DEF Counted
    <3> QED
      BY <3>1
  <2>5. g[key] = IF under'[key] = {who} THEN entries'[key].packets ELSE 0
    BY <1>1 DEF Counted
  <2>6. CASE who = w
    <3>1. g[key] <= 1 + (IF key \in DOMAIN entries THEN f[key] ELSE 0)
      <4>1. CASE key \in DOMAIN entries
        <5>1. under'[key] = {who} => under[key] = {who}
          BY <1>1, <1>2, <2>6, <4>1
        <5>2. f[key] = IF under[key] = {who} THEN entries[key].packets ELSE 0
          BY <4>1 DEF Counted
        <5>3. entries'[key].packets = entries[key].packets + 1 /\ f[key] \in Nat
          BY <1>1, <2>1, <4>1
        <5> HIDE DEF f, g
        <5> QED
          BY <2>5, <4>1, <5>1, <5>2, <5>3
      <4>2. CASE key \notin DOMAIN entries
        <5>1. entries'[key].packets = 1
          BY <1>1, <4>2
        <5> HIDE DEF f, g
        <5> QED
          BY <2>5, <4>2, <5>1
      <4> QED
        BY <4>1, <4>2
    <3>2. SumFunction(g) <= SumFunction(f) + 1
      <4> HIDE DEF f, g
      <4> QED
        BY <2>1, <2>2, <2>3, <2>4, <3>1, SumOneMore
    <3>3. SumFunction(f) <= (IF w \in DOMAIN arrived THEN arrived[w] ELSE 0)
      <4>1. CASE w \in DOMAIN arrived
        BY <1>2, <2>6, <4>1
      <4>2. CASE w \notin DOMAIN arrived
        <5>1. \A k \in DOMAIN entries : f[k] = 0
          BY <1>2, <2>6, <4>2 DEF Counted
        <5>2. SumFunction(f) = 0
          <6> HIDE DEF f
          <6> QED
            BY <2>1, <2>3, <5>1, SumOfFunction
        <5> HIDE DEF f
        <5> QED
          BY <4>2, <5>2
      <4> QED
        BY <4>1, <4>2
    <3>4. w \in DOMAIN arrived => arrived[w] \in Nat
      BY <1>2
    <3>5. SumFunction(g) <= arrived'[who]
      <4> HIDE DEF f, g
      <4> QED
        BY <1>3, <2>1, <2>2, <2>6, <3>2, <3>3, <3>4
    <3> QED
      BY <3>5
  <2>7. CASE who # w
    <3>1. g[key] = 0
      <4>1. under'[key] # {who}
        BY <1>1, <2>7
      <4> HIDE DEF g
      <4> QED
        BY <2>5, <4>1
    <3>2. g[key] <= 0 + (IF key \in DOMAIN entries THEN f[key] ELSE 0)
      <4>1. key \in DOMAIN entries => f[key] \in Nat
        BY <2>1
      <4> HIDE DEF f, g
      <4> QED
        BY <3>1, <4>1
    <3>3. SumFunction(g) <= SumFunction(f) + 0
      <4> HIDE DEF f, g
      <4> QED
        BY <2>1, <2>2, <2>3, <2>4, <3>2, SumOneMore
    <3>4. SumFunction(f) <= arrived[who] /\ arrived'[who] = arrived[who] /\ arrived[who] \in Nat
      BY <1>1, <1>2, <1>3, <1>7, <2>7
    <3>5. SumFunction(g) <= arrived'[who]
      <4> HIDE DEF f, g
      <4> QED
        BY <2>1, <2>2, <3>3, <3>4
    <3> QED
      BY <3>5
  <2> QED
    BY <2>6, <2>7
<1> QED
  BY <1>4, <1>5, <1>6, <1>7

\* The baseline of an identity never goes back when it is advanced.
LEMMA AdvanceBase ==
  ASSUME DumpOK, NEW CONSTANT key, key \in todo, Advance(key), UNCHANGED dumped
  PROVE  /\ Base(key)' = dumped[key].packets
         /\ \A k \in DOMAIN entries : Base(k) \in Nat /\ Base(k)' \in Nat /\ Base(k) <= Base(k)'
         /\ \A k \in DOMAIN entries \ {key} : Base(k)' = Base(k)
<1>1. /\ DOMAIN previous' = DOMAIN previous \cup {key} /\ previous'[key] = dumped[key].packets
      /\ \A k \in DOMAIN previous \ {key} : previous'[k] = previous[k]
  BY DEF Advance, With
<1>2. key \in DOMAIN dumped /\ dumped[key].packets \in Nat
  BY DEF DumpOK, Entry
<1>3. \A k \in DOMAIN previous : previous[k] \in Nat
  BY DEF DumpOK
<1>4. Base(key)' = dumped[key].packets
  BY <1>1 DEF Base
<1>5. \A k \in DOMAIN entries : Base(k) \in Nat
  BY <1>3 DEF Base
<1>6. \A k \in DOMAIN entries \ {key} : Base(k)' = Base(k)
  BY <1>1 DEF Base
<1>7. Base(key) <= dumped[key].packets
  BY <1>2 DEF Base, DumpOK
<1>8. ASSUME NEW CONSTANT k, k \in DOMAIN entries
      PROVE  Base(k)' \in Nat /\ Base(k) <= Base(k)'
  BY <1>2, <1>4, <1>5, <1>6, <1>7, <1>8
<1> QED
  BY <1>4, <1>5, <1>6, <1>8

\* What a row says is covered by the datagrams that it advances the baseline by.
LEMMA NamedEmitted ==
  ASSUME EntriesOK, DumpOK, LedgerOK, (EntriesOK /\ DumpOK)',
         NEW CONSTANT key, key \in todo, NEW CONSTANT sockets, sockets \in SUBSET Match,
         OneName(sockets), NEW CONSTANT asked, Delta(key) > 0,
         Emit(key, sockets, asked), Advance(key),
         UNCHANGED <<mode, dumped, entries, under, arrived>>,
         NEW CONSTANT x, x \in DOMAIN named'
  PROVE  /\ x \in Pids \X Subjects' /\ x[2] \in DOMAIN arrived' /\ named'[x] \in Nat
         /\ named'[x] <= SumFunction(Covered(x[2]))' * Times(x[2])'
<1>1. PICK matches, subject :
        /\ matches = IF mode = "legacy" THEN find_matches(sockets, key)
                     ELSE find_inode_matches(sockets, dumped[key].inode)
        /\ subject = IF mode = "legacy" THEN key ELSE dumped[key].inode
  OBVIOUS
<1> DEFINE pairs == {<<m.pid, subject>> : m \in matches}
           times(y) == Cardinality({m \in matches : m.pid = y[1]})
           said == IF x \in DOMAIN named THEN named[x] ELSE 0
<1>2. /\ DOMAIN named' = DOMAIN named \cup pairs
      /\ named'[x] = said + (IF x \in pairs THEN times(x) * Delta(key) ELSE 0)
  BY <1>1 DEF Emit
<1>3. NoInode \notin Subjects \/ mode = "legacy"
  BY DeliveredAssumption DEF NoInode, Subjects
<1>4. key \in DOMAIN entries /\ key \in DOMAIN dumped /\ dumped[key].packets \in Nat
  BY DEF DumpOK, Entry
<1>5. \A k \in DOMAIN entries : Base(k) \in Nat /\ Base(k)' \in Nat /\ Base(k) <= Base(k)'
  BY AdvanceBase
<1>6. CASE x \notin pairs
  <2>1. x \in DOMAIN named /\ named[x] \in Nat /\ x[2] \in Subjects
    BY <1>2, <1>6 DEF LedgerOK
  <2>2. named'[x] = named[x]
    <3>1. said = named[x]
      BY <2>1
    <3> HIDE DEF said, pairs, times
    <3> QED
      BY <1>2, <1>6, <2>1, <3>1
  <2>3. PICK who : who = x[2]
    OBVIOUS
  <2>4. SumFunction(Covered(who)) <= SumFunction(Covered(who))'
    <3>1. mode = "legacy" \/ who # NoInode
      BY <1>3, <2>1, <2>3
    <3>2. DOMAIN entries' = DOMAIN entries \cup {key}
      BY <1>4
    <3>3. \A k \in DOMAIN entries : entries[k].inode # NoInode => entries'[k].inode = entries[k].inode
      OBVIOUS
    <3> QED
      BY <1>5, <3>1, <3>2, <3>3, CoveredGrows
  <2>5. SumFunction(Covered(x[2])) <= SumFunction(Covered(x[2]))'
    BY <2>3, <2>4
  <2> QED
    BY <2>1, <2>2, <2>5, NamedKept
<1>7. CASE x \in pairs
  <2>1. PICK m \in matches : x = <<m.pid, subject>>
    BY <1>7
  <2>2. m \in sockets /\ m.pid \in Pids /\ x[2] = subject /\ x[1] = m.pid
    BY <1>1, <2>1 DEF find_matches, find_inode_matches, Match
  <2>3. Subject(key) = subject /\ under[key] = {subject} /\ (mode = "legacy" \/ subject # NoInode)
    <3>1. CASE mode = "legacy"
      BY <1>1, <1>4, <3>1 DEF Subject, EntriesOK, EntryOK
    <3>2. CASE mode # "legacy"
      <4>1. dumped[key].inode # NoInode
        BY <1>1, <3>2 DEF find_inode_matches
      <4>2. entries[key].inode = subject /\ subject # NoInode
        BY <1>1, <1>4, <3>2, <4>1 DEF DumpOK
      <4> QED
        BY <1>4, <3>2, <4>2 DEF Subject, EntriesOK, EntryOK
    <3> QED
      BY <3>1, <3>2
  <2>4. subject \in DOMAIN arrived /\ subject \in Subjects
    BY <1>4, <2>3 DEF LedgerOK
  <2> DEFINE f == Covered(subject)
             g == Covered(subject)'
             d == Delta(key)
             n == Times(subject)
  <2>5. /\ f \in [DOMAIN entries -> Nat] /\ SumFunction(f) \in Nat /\ n \in Nat
        /\ g \in [DOMAIN entries -> Nat] /\ SumFunction(g) \in Nat
    BY LedgerTypes, LedgerTypesNext
  <2>6. key \in DOMAIN previous /\ d = dumped[key].packets - previous[key] /\ d \in Nat
    <3>1. key \in DOMAIN previous
      BY DEF Delta
    <3>2. previous[key] \in Nat /\ previous[key] <= dumped[key].packets
      BY <1>4, <3>1 DEF DumpOK
    <3> QED
      BY <1>4, <3>1, <3>2 DEF Delta
  <2>7. SumFunction(g) = SumFunction(f) + d
    <3>1. f[key] = previous[key] /\ g[key] = dumped[key].packets
      <4>1. f[key] = Base(key)
        BY <1>4, <2>3 DEF Covered
      <4>2. Subject(key)' = subject
        BY <2>3 DEF Subject
      <4>3. g[key] = Base(key)'
        BY <1>4, <4>2 DEF Covered
      <4>4. Base(key)' = dumped[key].packets
        BY AdvanceBase
      <4> HIDE DEF f, g
      <4> QED
        BY <2>6, <4>1, <4>3, <4>4 DEF Base
    <3>2. g[key] = f[key] + d
      <4>1. previous[key] \in Nat
        BY <2>6 DEF DumpOK
      <4> HIDE DEF f, g, d
      <4> QED
        BY <1>4, <2>6, <3>1, <4>1
    <3>3. \A k \in DOMAIN entries \ {key} : g[k] = f[k]
      <4>1. ASSUME NEW CONSTANT k, k \in DOMAIN entries \ {key} PROVE g[k] = f[k]
        <5>1. Base(k)' = Base(k)
          BY <4>1, AdvanceBase
        <5>2. Subject(k)' = Subject(k)
          BY DEF Subject
        <5> QED
          BY <4>1, <5>1, <5>2 DEF Covered
      <4> QED
        BY <4>1
    <3>4. IsFiniteSet(DOMAIN entries)
      BY DEF EntriesOK
    <3> HIDE DEF f, g, d
    <3> QED
      BY <1>4, <2>5, <2>6, <3>2, <3>3, <3>4, SumGrows
  <2>8. times(x) \in Nat /\ times(x) <= n
    <3>1. PICK p : p = x[1]
      OBVIOUS
    <3>2. Cardinality(Places(matches, p)) \in Nat /\ Cardinality(Places(matches, p)) <= n
      BY <1>1, TimesBound
    <3>3. times(x) = Cardinality(Places(matches, p))
      BY <3>1 DEF Places
    <3> QED
      BY <3>2, <3>3
  <2>9. said \in Nat /\ said <= SumFunction(f) * n
    <3>1. CASE x \in DOMAIN named
      BY <2>2, <3>1 DEF LedgerOK
    <3>2. CASE x \notin DOMAIN named
      <4>1. SumFunction(f) * n \in Nat
        <5> HIDE DEF f, n
        <5> QED
          BY <2>5
      <4> QED
        BY <3>2, <4>1
    <3> QED
      BY <3>1, <3>2
  <2>10. named'[x] \in Nat /\ named'[x] <= SumFunction(g) * n
    <3> HIDE DEF f, g, d, n, said, times, pairs
    <3>1. named'[x] = said + times(x) * d
      BY <1>2, <1>7 DEF d
    <3>2. times(x) * d <= n * d /\ times(x) * d \in Nat /\ n * d \in Nat
      BY <2>5, <2>6, <2>8, ProductGrows
    <3>3. SumFunction(g) * n = SumFunction(f) * n + n * d
      BY <2>5, <2>6, <2>7
    <3>4. SumFunction(f) * n \in Nat
      BY <2>5
    <3> QED
      BY <2>9, <3>1, <3>2, <3>3, <3>4
  <2>11. x \in Pids \X Subjects' /\ x[2] \in DOMAIN arrived'
    <3>1. Subjects' = Subjects
      BY DEF Subjects
    <3> QED
      BY <2>1, <2>2, <2>4, <3>1
  <2>12. Times(subject)' = n
    BY DEF Times, Hears
  <2>13. named'[x] <= SumFunction(Covered(subject))' * Times(subject)'
    BY <2>10, <2>12
  <2> QED
    BY <2>2, <2>10, <2>11, <2>13 DEF Covered, Times
<1> QED
  BY <1>6, <1>7

\* The rows never say more than is covered, the counters never more than has arrived.
LEMMA LedgerStep ==
  ASSUME WorldOK, HooksOK, UsesOK, EntriesOK, DumpOK, CacheOK, ScanOK, LedgerOK, [Next]_vars
  PROVE  LedgerOK'
<1>1. (EntriesOK /\ DumpOK)'
  BY EntriesStep, DumpStep
<1>2. mode' = mode
  BY ProgramFrame, WorldFrame, CheckpointFrame DEF Next, vars
<1>3. \A x \in DOMAIN named : mode = "legacy" \/ x[2] # NoInode
  BY DeliveredAssumption DEF LedgerOK, Subjects, NoInode
<1>4. \A k \in DOMAIN entries : entries[k].inode # NoInode => entries'[k].inode = entries[k].inode
  BY EntriesGrow
<1> DEFINE Said(x) == /\ x \in Pids \X Subjects' /\ x[2] \in DOMAIN arrived' /\ named'[x] \in Nat
                      /\ named'[x] <= SumFunction(Covered(x[2]))' * Times(x[2])'
           Arrived == /\ (DOMAIN arrived)' \subseteq Subjects'
                      /\ \A who \in DOMAIN arrived' : arrived'[who] \in Nat
                      /\ \A k \in DOMAIN entries' : under'[k] \subseteq DOMAIN arrived' /\ under'[k] # {}
                      /\ \A who \in DOMAIN arrived' : SumFunction(Counted(who))' <= arrived'[who]
<1>5. ASSUME Arrived, \A x \in DOMAIN named' : Said(x) PROVE LedgerOK'
  BY <1>5 DEF LedgerOK
<1>6. ASSUME UNCHANGED <<entries, under, arrived>> PROVE Arrived
  <2>1. ASSUME NEW CONSTANT who, who \in DOMAIN arrived'
        PROVE  SumFunction(Counted(who))' <= arrived'[who]
    <3>1. Counted(who)' = Counted(who)
      BY <1>6 DEF Counted
    <3> QED
      BY <1>6, <2>1, <3>1 DEF LedgerOK
  <2>2. Subjects' = Subjects
    BY <1>2 DEF Subjects
  <2> QED
    BY <1>6, <2>1, <2>2 DEF LedgerOK
<1>7. ASSUME NEW CONSTANT key, DOMAIN entries' = DOMAIN entries \cup {key},
             \A k \in DOMAIN entries : Base(k) <= Base(k)',
             DOMAIN arrived \subseteq DOMAIN arrived', UNCHANGED named
      PROVE  \A x \in DOMAIN named' : Said(x)
  <2>1. ASSUME NEW CONSTANT x, x \in DOMAIN named PROVE Said(x)
    <3>1. PICK who : who = x[2]
      OBVIOUS
    <3>2. mode = "legacy" \/ who # NoInode
      BY <1>3, <2>1, <3>1
    <3>3. SumFunction(Covered(who)) <= SumFunction(Covered(who))'
      BY <1>1, <1>2, <1>4, <1>7, <3>2, CoveredGrows
    <3>4. SumFunction(Covered(x[2])) <= SumFunction(Covered(x[2]))'
      BY <3>1, <3>3
    <3> QED
      BY <1>1, <1>2, <1>7, <2>1, <3>4, NamedKept
  <2> HIDE DEF Said
  <2> QED
    BY <1>7, <2>1
<1>8. ASSUME UNCHANGED <<previous, entries, arrived, named>> PROVE \A x \in DOMAIN named' : Said(x)
  <2>1. ASSUME NEW CONSTANT x, x \in DOMAIN named PROVE Said(x)
    <3>1. Covered(x[2])' = Covered(x[2]) /\ Times(x[2])' = Times(x[2]) /\ Subjects' = Subjects
      BY <1>2, <1>8 DEF Covered, Times, Hears, Subjects, Subject, Base
    <3> QED
      BY <1>8, <2>1, <3>1 DEF LedgerOK
  <2> HIDE DEF Said
  <2> QED
    BY <1>8, <2>1
<1> HIDE DEF Said, Arrived
<1>9. ASSUME UNCHANGED <<previous, entries, under, arrived, named>> PROVE LedgerOK'
  BY <1>5, <1>6, <1>8, <1>9
<1>10. ASSUME NEW CONSTANT key, NEW CONSTANT inode, NEW CONSTANT w, w \in Subjects,
              Accounted(key, inode, w), UNCHANGED <<previous, named>>
       PROVE  LedgerOK'
  <2>1. Arrived
    BY <1>1, <1>2, <1>10, ArrivedStep DEF Arrived
  <2>2. /\ DOMAIN entries' = DOMAIN entries \cup {key} /\ DOMAIN arrived \subseteq DOMAIN arrived'
    BY <1>10 DEF Accounted
  <2>3. \A k \in DOMAIN entries : Base(k) <= Base(k)'
    BY <1>10 DEF Base, DumpOK
  <2> QED
    BY <1>5, <1>7, <1>10, <2>1, <2>2, <2>3
<1>11. ASSUME NEW c \in Cpus, Account(c) PROVE LedgerOK'
  <2>1. PICK key, inode, w :
          key = <<hook[c].cookie, hook[c].flow>> /\ inode = hook[c].inode /\ w = hook[c].socket
    OBVIOUS
  <2>2. /\ w \in Subjects /\ UNCHANGED <<previous, named>>
        /\ UNCHANGED <<entries, under, arrived>> \/ Accounted(key, inode, w)
    <3>1. /\ hook[c] \in HookRecord /\ mode # "legacy"
          /\ UNCHANGED <<entries, under, arrived>> \/ Accounted(key, inode, w)
      BY <1>11, <2>1, AccountOf
    <3>2. UNCHANGED <<previous, named>>
      BY <1>11 DEF Account, pollVars
    <3> QED
      BY <2>1, <3>1, <3>2 DEF HookRecord, Subjects
  <2> QED
    BY <1>9, <1>10, <2>2
<1>12. ASSUME NEW CONSTANT f, f \in Flows, Ingress(f) PROVE LedgerOK'
  <2>1. mode = "legacy" /\ Count(f, NoInode, f) /\ UNCHANGED <<previous, named>>
    BY <1>12 DEF Ingress, pollVars
  <2>2. UNCHANGED <<entries, under, arrived>> \/ Accounted(f, NoInode, f)
    BY <2>1, Accounts
  <2>3. f \in Subjects
    BY <1>12, <2>1 DEF Subjects
  <2> QED
    BY <1>9, <1>10, <2>1, <2>2, <2>3
<1>13. ASSUME NEW CONSTANT key, key \in todo, Advance(key), UNCHANGED <<dumped, entries, under, arrived>>,
              \/ UNCHANGED named
              \/ \E sockets \in SUBSET Match : \E asked :
                   Delta(key) > 0 /\ OneName(sockets) /\ Emit(key, sockets, asked)
       PROVE  LedgerOK'
  <2>1. Arrived
    BY <1>6, <1>13
  <2>2. CASE UNCHANGED named
    <3>1. DOMAIN entries' = DOMAIN entries \cup {key}
      BY <1>13 DEF DumpOK
    <3>2. \A k \in DOMAIN entries : Base(k) <= Base(k)'
      BY <1>13, AdvanceBase
    <3> QED
      BY <1>5, <1>7, <1>13, <2>1, <2>2, <3>1, <3>2
  <2>3. ASSUME NEW CONSTANT sockets, sockets \in SUBSET Match, NEW CONSTANT asked,
               Delta(key) > 0, OneName(sockets), Emit(key, sockets, asked)
        PROVE  LedgerOK'
    <3>1. ASSUME NEW CONSTANT x, x \in DOMAIN named' PROVE Said(x)
      BY <1>1, <1>2, <1>13, <2>3, <3>1, NamedEmitted DEF Said
    <3> QED
      BY <1>5, <2>1, <3>1
  <2> QED
    BY <1>13, <2>2, <2>3
<1>14. ASSUME NEW CONSTANT key, key \in todo, FlowRow(key) PROVE LedgerOK'
  <2>1. /\ Advance(key) /\ UNCHANGED <<dumped, entries, under, arrived>> /\ phase = "rows"
        /\ UNCHANGED named \/ (Delta(key) > 0 /\ Emit(key, cache, clock))
    BY <1>14 DEF FlowRow, progVars
  <2>2. cache \in SUBSET Match /\ OneName(cache)
    BY <2>1 DEF CacheOK
  <2>3. \/ UNCHANGED named
        \/ \E sockets \in SUBSET Match : \E asked :
             Delta(key) > 0 /\ OneName(sockets) /\ Emit(key, sockets, asked)
    BY <2>1, <2>2
  <2> QED
    BY <1>13, <1>14, <2>1, <2>3
<1>15. ASSUME EndScan PROVE LedgerOK'
  <2>1. PICK key : key = cursor
    OBVIOUS
  <2>2. /\ Advance(key) /\ UNCHANGED <<dumped, entries, under, arrived>>
        /\ phase = "scan" /\ Emit(key, scan.found, cacheAt)
    BY <1>15, <2>1 DEF EndScan, progVars
  <2>3. key \in todo /\ Delta(key) > 0 /\ scan.found \in SUBSET Match /\ OneName(scan.found)
    BY <2>1, <2>2 DEF DumpOK, ScanOK
  <2>4. \E sockets \in SUBSET Match : \E asked :
          Delta(key) > 0 /\ OneName(sockets) /\ Emit(key, sockets, asked)
    BY <2>2, <2>3
  <2> QED
    BY <1>13, <2>2, <2>3, <2>4
<1>16. ASSUME ReadMap PROVE LedgerOK'
  <2>1. UNCHANGED <<entries, under, arrived, named>>
    BY <1>16 DEF ReadMap, progVars
  <2>2. previous' = Restrict(previous, DOMAIN previous \cap DOMAIN entries)
    BY <1>16 DEF ReadMap
  <2>3. \A k \in DOMAIN entries : Base(k)' = Base(k)
    BY <2>2 DEF Base, Restrict
  <2>4. ASSUME NEW CONSTANT x, x \in DOMAIN named PROVE Said(x)
    <3>1. PICK who : who = x[2]
      OBVIOUS
    <3>2. Covered(who)' = Covered(who)
      BY <1>2, <2>1, <2>3 DEF Covered, Subject
    <3>3. Times(x[2])' = Times(x[2]) /\ Subjects' = Subjects
      BY <1>2 DEF Times, Hears, Subjects
    <3> QED
      BY <2>1, <2>4, <3>1, <3>2, <3>3 DEF LedgerOK, Said
  <2> QED
    BY <1>5, <1>6, <2>1, <2>4
<1>17. ASSUME NEW c \in Cpus, NEW s \in Sockets, NEW f \in Flows, Deliver(c, s, f) PROVE LedgerOK'
  BY <1>9, <1>17 DEF Deliver, pollVars
<1>18. ASSUME NEW c \in Cpus, LookupCookie(c) \/ InsertCookie(c) PROVE LedgerOK'
  BY <1>9, <1>18 DEF LookupCookie, InsertCookie, pollVars
<1>19. ASSUME World PROVE LedgerOK'
  BY <1>9, <1>19, WorldFrame DEF pollVars, progVars
<1>20. ASSUME (\E key \in todo : BeginScan(key)) \/ (\E p \in Pids : ScanName(p))
              \/ ScanInodes \/ ScanSockets \/ Return
       PROVE  LedgerOK'
  BY <1>9, <1>20 DEF BeginScan, ScanName, ScanInodes, ScanSockets, Scanning, Return, progVars
<1>21. ASSUME UNCHANGED vars PROVE LedgerOK'
  BY <1>9, <1>21 DEF vars, pollVars, progVars
<1> HIDE DEF LedgerOK
<1> QED
  BY <1>11, <1>12, <1>14, <1>15, <1>16, <1>17, <1>18, <1>19, <1>20, <1>21
  DEF Next, Program, Checkpoint

---------------------------------------------------------------------------------
(* The theorems.                                                                      *)

\* A map with no keys.
LEMMA NoKeys == DOMAIN EmptyMap = {}
BY DEF EmptyMap

\* Sockets that are open at first belong to processes that run, since the first instant.
LEMMA WorldInit ==
  ASSUME Init
  PROVE  WorldOK /\ TimesOK /\ clock = 0 /\ \A x \in DOMAIN since : since[x] = 0
<1>1. PICK place \in Injection({s \in Sockets : OpenedBy[s] # "none"}, Addresses) :
        sk = [s \in Sockets |->
          IF OpenedBy[s] = "none"
            THEN [stage |-> "new", address |-> "none", ns |-> "none", holders |-> {}]
            ELSE [stage |-> "open", address |-> place[s], ns |-> NsOf[OpenedBy[s]],
                  holders |-> {OpenedBy[s]}]]
  BY DEF Init
<1>2. /\ mode \in {"fentry", "kprobe", "legacy"} /\ names = Running /\ clock = 0
      /\ since = [x \in {<<OpenedBy[s], s>> : s \in {t \in Sockets : OpenedBy[t] # "none"}} |-> 0]
      /\ until = EmptyMap /\ nameSince = [p \in Pids |-> 0]
  BY DEF Init
<1>3. place \in [{s \in Sockets : OpenedBy[s] # "none"} -> Addresses]
  BY DEF Injection
<1>4. /\ OpenedBy \in [Sockets -> Pids \cup {"none"}] /\ Running \in [Pids -> Names]
      /\ \A s \in Sockets : OpenedBy[s] # "none" => Running[OpenedBy[s]] # ""
  BY DeliveredAssumption DEF Names
<1>5. ASSUME NEW s \in Sockets
      PROVE  /\ sk[s] \in Socket
             /\ sk[s].holders = IF OpenedBy[s] = "none" THEN {} ELSE {OpenedBy[s]}
             /\ \A p \in sk[s].holders : names[p] # "" /\ sk[s].stage = "open"
  <2>1. CASE OpenedBy[s] = "none"
    BY <1>1, <2>1 DEF Socket
  <2>2. CASE OpenedBy[s] # "none"
    <3>1. OpenedBy[s] \in Pids
      BY <1>4, <2>2
    <3>2. sk[s] = [stage |-> "open", address |-> place[s], ns |-> NsOf[OpenedBy[s]],
                   holders |-> {OpenedBy[s]}]
      BY <1>1, <2>2
    <3>3. place[s] \in Addresses /\ NsOf[OpenedBy[s]] \in {NsOf[p] : p \in Pids}
      BY <1>3, <2>2, <3>1
    <3>4. sk[s] \in Socket
      BY <3>1, <3>2, <3>3 DEF Socket
    <3>5. sk[s].holders = {OpenedBy[s]} /\ sk[s].stage = "open"
      BY <3>2
    <3> QED
      BY <1>2, <1>4, <2>2, <3>4, <3>5
  <2> QED
    BY <2>1, <2>2
<1>6. WorldOK
  BY <1>1, <1>2, <1>4, <1>5 DEF WorldOK
<1>7. DOMAIN since = {x \in Pids \X Sockets : x[1] \in sk[x[2]].holders}
  <2>1. DOMAIN since = {<<OpenedBy[s], s>> : s \in {t \in Sockets : OpenedBy[t] # "none"}}
    BY <1>2
  <2>2. ASSUME NEW x \in DOMAIN since PROVE x \in Pids \X Sockets /\ x[1] \in sk[x[2]].holders
    <3>1. PICK s \in Sockets : OpenedBy[s] # "none" /\ x = <<OpenedBy[s], s>>
      BY <2>1
    <3> QED
      BY <1>4, <1>5, <3>1
  <2>3. ASSUME NEW p \in Pids, NEW s \in Sockets, p \in sk[s].holders PROVE <<p, s>> \in DOMAIN since
    <3>1. OpenedBy[s] # "none" /\ p = OpenedBy[s]
      BY <1>5, <2>3
    <3> QED
      BY <2>1, <3>1
  <2>4. ASSUME NEW x \in Pids \X Sockets, x[1] \in sk[x[2]].holders PROVE x \in DOMAIN since
    <3>1. x[1] \in Pids /\ x[2] \in Sockets /\ x = <<x[1], x[2]>>
      OBVIOUS
    <3> QED
      BY <2>3, <2>4, <3>1
  <2> DEFINE Held == {x \in Pids \X Sockets : x[1] \in sk[x[2]].holders}
  <2>5. \A x : x \in DOMAIN since <=> x \in Held
    BY <2>2, <2>4
  <2> HIDE DEF Held
  <2>6. DOMAIN since = Held
    BY <2>5
  <2> QED
    BY <2>6 DEF Held
<1>8. \A x \in DOMAIN since : since[x] = 0
  BY <1>2
<1>9. TimesOK
  BY <1>2, <1>7, <1>8, NoKeys DEF TimesOK
<1> QED
  BY <1>2, <1>6, <1>8, <1>9

\* The invariant that the properties follow from.
THEOREM DeliveredInvariant == Spec => []DeliveredInv
<1>1. Init => DeliveredInv
  <2> SUFFICES ASSUME Init PROVE DeliveredInv
    OBVIOUS
  <2>1. WorldOK /\ TimesOK /\ clock = 0 /\ \A x \in DOMAIN since : since[x] = 0
    BY WorldInit
  <2>2. /\ hook = [c \in Cpus |-> Idle] /\ cookies = EmptyMap /\ minted = 0 /\ entries = EmptyMap
        /\ under = EmptyMap /\ split = {} /\ arrived = EmptyMap
    BY DEF Init
  <2>3. /\ phase = "sleep" /\ dumped = EmptyMap /\ todo = {} /\ previous = EmptyMap
        /\ cache = {} /\ cacheAt = -(Ttl + 1) /\ row = NoRow /\ named = EmptyMap
    BY DEF Init
  <2>4. MaxCookies \in Nat /\ MaxEntries \in Nat /\ Ttl \in Nat
    BY DeliveredAssumption
  <2>5. HooksOK
    BY <2>2 DEF HooksOK
  <2>6. IsFiniteSet(DOMAIN EmptyMap) /\ Cardinality(DOMAIN EmptyMap) = 0
    BY NoKeys, FS_EmptySet
  <2>7. CookiesOK
    BY <2>2, <2>4, <2>6, NoKeys DEF CookiesOK
  <2>8. UsesOK
    <3>1. Uses = {}
      BY <2>2, NoKeys DEF Uses, Idle
    <3> QED
      BY <3>1 DEF UsesOK
  <2>9. EntriesOK
    BY <2>2, <2>4, <2>6, NoKeys DEF EntriesOK
  <2>10. DumpOK
    BY <2>2, <2>3, NoKeys DEF DumpOK
  <2>11. CacheOK
    <3>1. cacheAt \in Int /\ cacheAt < 0
      BY <2>3, <2>4
    <3>2. ASSUME NEW CONSTANT x, x \in DOMAIN since PROVE ~(since[x] < cacheAt)
      <4>1. since[x] = 0
        BY <2>1, <3>2
      <4> QED
        BY <3>1, <4>1
    <3>3. \A x : ~Due(x, cacheAt)
      BY <3>2 DEF Due
    <3> QED
      BY <2>1, <2>3, <3>1, <3>3 DEF CacheOK, True, OneName
  <2>12. ScanOK /\ RowOK
    BY <2>3 DEF ScanOK, RowOK, IsRow
  <2>13. LedgerOK
    BY <2>2, <2>3, NoKeys DEF LedgerOK
  <2> QED
    BY <2>1, <2>5, <2>7, <2>8, <2>9, <2>10, <2>11, <2>12, <2>13 DEF DeliveredInv
<1>2. DeliveredInv /\ [Next]_vars => DeliveredInv'
  <2> SUFFICES ASSUME DeliveredInv, [Next]_vars PROVE DeliveredInv'
    OBVIOUS
  <2>1. WorldOK' /\ TimesOK'
    BY WorldStep, TimesStep DEF DeliveredInv
  <2>2. HooksOK' /\ CookiesOK' /\ UsesOK' /\ EntriesOK'
    BY HooksStep, CookiesStep, UsesStep, EntriesStep DEF DeliveredInv
  <2>3. DumpOK' /\ CacheOK' /\ ScanOK' /\ RowOK'
    BY DumpStep, CacheStep, ScanStep, RowStep DEF DeliveredInv
  <2>4. LedgerOK'
    BY LedgerStep DEF DeliveredInv
  <2> QED
    BY <2>1, <2>2, <2>3, <2>4 DEF DeliveredInv
<1> QED
  BY <1>1, <1>2, PTL DEF Spec

\* Type correctness of the program's maps and of the collector's dictionaries: neither map
\* outgrows its size, what is left to report is in the dump, and no row reports nothing.
THEOREM TypeCorrect == Spec => []TypeOK
<1>1. DeliveredInv => TypeOK
  <2> SUFFICES ASSUME DeliveredInv PROVE TypeOK
    OBVIOUS
  <2>1. \A c \in Cpus : hook[c].at \in {"idle", "lookup", "insert", "again", "account"}
    BY DEF DeliveredInv, HooksOK, HookRecord, Idle
  <2>2. \A key \in DOMAIN dumped : dumped[key].inode \in Sockets \cup {NoInode}
    BY DEF DeliveredInv, DumpOK, Entry, Inodes
  <2>3. \A x \in cache : x.pid \in Pids /\ x.socket \in Sockets
    BY DEF DeliveredInv, CacheOK, Match
  <2> QED
    BY <2>1, <2>2, <2>3 DEF DeliveredInv, CookiesOK, EntriesOK, DumpOK, RowOK, TypeOK
<1> QED
  BY <1>1, DeliveredInvariant, PTL

\* udp_receive.bpf.c:45-47: "Keep a private cookie for the selected struct sock": whatever
\* sockets come and go at an address and whichever CPUs make up cookies at the same time.
THEOREM CookiesAreOfOneSocket == Spec => []OneCookiePerSocket
<1>1. DeliveredInv => OneCookiePerSocket
  BY OneCookie DEF DeliveredInv
<1> QED
  BY <1>1, DeliveredInvariant, PTL

\* processes.py:131-135: a process that a row names held the socket the datagrams went to,
\* not longer ago than the inventory may live, by the name that the row gives it or, if it
\* has lost that name within the same time, by another.
THEOREM RowsNameHolders == Spec => []NamesAHolder
<1>1. DeliveredInv => NamesAHolder
  <2> SUFFICES ASSUME DeliveredInv, IsRow, NEW m \in row.matches
               PROVE  LET recent(x) == x \in DOMAIN until /\ until[x] >= row.asked - Ttl IN
                      \E s \in Sockets :
                        /\ IF mode = "legacy" THEN Hears(s, row.key) ELSE under[row.key] = {s}
                        /\ m.pid \in sk[s].holders \/ recent(<<m.pid, s>>)
                        /\ \/ /\ names[m.pid] = m.name
                              /\ m.pid \notin sk[s].holders => nameSince[m.pid] <= until[<<m.pid, s>>]
                           \/ recent(<<m.pid, m.name>>)
    BY DEF NamesAHolder
  <2>1. /\ m.socket \in Sockets /\ HoldsAs(m.pid, m.name, m.socket, row.asked - Ttl)
        /\ IF mode = "legacy" THEN Hears(m.socket, row.key)
           ELSE row.key \in DOMAIN entries /\ entries[row.key].inode = m.socket
    BY DEF DeliveredInv, RowOK, True, Match
  <2>2. mode # "legacy" => under[row.key] = {m.socket}
    <3>1. m.socket # NoInode
      BY <2>1, DeliveredAssumption DEF NoInode
    <3> QED
      BY <2>1, <3>1 DEF DeliveredInv, EntriesOK, EntryOK
  <2> QED
    BY <2>1, <2>2 DEF HoldsAs, Holds, Lately
<1> QED
  BY <1>1, DeliveredInvariant, PTL

\* ProcessSocketEnricher.sockets and scan: who has held the socket, and had its name, for
\* longer than the inventory may live, and still does, is named in the row; in legacy mode
\* unless the socket is of IPv6.
THEOREM RowsMissNoHolder == Spec => []NoHolderMissed
<1>1. DeliveredInv => NoHolderMissed
  <2> SUFFICES ASSUME DeliveredInv, IsRow, NEW x \in DOMAIN since,
                      since[x] < row.asked - Ttl, sk[x[2]].ns = NsOf[x[1]],
                      filter = "" \/ (filter = names[x[1]] /\ nameSince[x[1]] < row.asked - Ttl),
                      IF mode = "legacy" THEN Hears(x[2], row.key) /\ Local[x[2]].ip # DualStack ELSE row.inode = x[2]
               PROVE  \E m \in row.matches : m.pid = x[1]
    BY DEF NoHolderMissed
  <2>1. x \in Pids \X Sockets /\ Due(x, row.asked - Ttl)
    BY DEF DeliveredInv, TimesOK, Due
  <2> QED
    BY <2>1 DEF DeliveredInv, RowOK, Finds
<1> QED
  BY <1>1, DeliveredInvariant, PTL

\* A process's rows never add up to more than what has arrived for it: what they say is
\* covered by the baselines, which are behind the counters, which count what arrived.
THEOREM RowsAddUp == Spec => []PerProcessOnce
<1>1. DeliveredInv => PerProcessOnce
  <2> SUFFICES ASSUME DeliveredInv, NEW CONSTANT x, x \in DOMAIN named
               PROVE  named[x] <= arrived[x[2]] * Times(x[2])
    BY DEF PerProcessOnce, Times
  <2> DEFINE f == Covered(x[2])
             g == Counted(x[2])
             n == Times(x[2])
  <2>1. /\ x[2] \in Subjects /\ x[2] \in DOMAIN arrived /\ named[x] \in Nat
        /\ named[x] <= SumFunction(f) * n
        /\ arrived[x[2]] \in Nat /\ SumFunction(g) <= arrived[x[2]]
    BY DEF DeliveredInv, LedgerOK
  <2>2. EntriesOK /\ DumpOK
    BY DEF DeliveredInv
  <2>3. /\ f \in [DOMAIN entries -> Nat] /\ SumFunction(f) \in Nat /\ n \in Nat
        /\ g \in [DOMAIN entries -> Nat] /\ SumFunction(g) \in Nat
    BY <2>2, LedgerTypes
  <2>4. ASSUME NEW key \in DOMAIN entries PROVE f[key] <= g[key]
    <3>1. CASE Subject(key) = x[2]
      <4>1. under[key] = {x[2]}
        <5>1. mode = "legacy" \/ x[2] # NoInode
          BY <2>1, DeliveredAssumption DEF Subjects, NoInode
        <5> QED
          BY <2>2, <3>1, <5>1 DEF Subject, EntriesOK, EntryOK
      <4>2. f[key] = Base(key) /\ g[key] = entries[key].packets
        BY <3>1, <4>1 DEF Covered, Counted
      <4>3. Base(key) <= entries[key].packets
        BY <2>2, <2>4 DEF Base, DumpOK, EntriesOK, EntryOK, Entry
      <4> QED
        BY <4>2, <4>3
    <3>2. CASE Subject(key) # x[2]
      <4>1. f[key] = 0 /\ g[key] \in Nat
        BY <2>3, <3>2 DEF Covered
      <4> HIDE DEF f, g
      <4> QED
        BY <4>1
    <3> QED
      BY <3>1, <3>2
  <2>5. IsFiniteSet(DOMAIN entries)
    BY <2>2 DEF EntriesOK
  <2> HIDE DEF f, g, n
  <2>6. SumFunction(f) <= arrived[x[2]]
    <3>1. SumFunction(f) <= SumFunction(g)
      BY <2>3, <2>4, <2>5, SumOfFunction
    <3> QED
      BY <2>1, <2>3, <3>1
  <2>7. SumFunction(f) * n <= arrived[x[2]] * n
    BY <2>1, <2>3, <2>6, ProductGrows
  <2>8. SumFunction(f) * n \in Nat /\ arrived[x[2]] * n \in Nat
    BY <2>1, <2>3
  <2>9. named[x] <= arrived[x[2]] * n
    BY <2>1, <2>7, <2>8
  <2> QED
    BY <2>9 DEF n
<1> QED
  BY <1>1, DeliveredInvariant, PTL

================================================================================

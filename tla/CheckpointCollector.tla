--------------------------- MODULE CheckpointCollector ---------------------------
(* The heart of the analyzer: a kernel map of cumulative counters, updated by a   *)
(* BPF program at any moment, and the user-space loop that dumps the map entry by  *)
(* entry (bpftool map dump), aggregates the entries and turns them into rows of    *)
(* differences (EbpfIngressCollector._read_ingress and _read_delivered,            *)
(* TcpChannelCollector._read_flows, UdpChannelCollector._read_flows).              *)
(*                                                                                 *)
(* The dump is not a snapshot.  bpftool asks the kernel for the key that follows   *)
(* the last one and then looks that key up, two system calls per entry, while      *)
(* packets are counted, entries are inserted and, in the LRU maps of the channel   *)
(* programs, entries are evicted.                                                  *)
EXTENDS Naturals, FiniteSets

CONSTANTS Flows,       \* flow identities
          Fields,      \* counter fields of a map value
          NoFlow,      \* "no key yet": get_next_key is called without a key
          MaxEntries,  \* max_entries of the map
          Lru,         \* TRUE: LRU_PERCPU_HASH, FALSE: PERCPU_HASH
          Increments,  \* what the program may add to an entry in one step
          MaxCount,    \* bound: largest counter value explored
          MaxInserts,  \* bound: insertions explored
          MaxRestarts  \* bound: restarts of the analyzer explored

Counters == [Fields -> Nat]
Zero == [x \in Fields |-> 0]

ASSUME CollectorAssumption ==
  /\ NoFlow \notin Flows
  /\ Lru \in BOOLEAN
  /\ MaxEntries \in Nat /\ MaxCount \in Nat
  /\ Increments \subseteq Counters

VARIABLES
  live,       \* flows that have an entry in the kernel map
  ctr,        \* ctr[f][x]: the entry's counters, summed over the CPUs; 0 without an entry
  phase,      \* the analyzer: "sleep", "next" (get_next_key), "lookup", "dead"
  cursor,     \* the key bpftool holds, or NoFlow
  floor,      \* the cursor's counters when it became the cursor
  behind,     \* keys the iteration has passed: they will not be met again
  totals,     \* the dict totals of the checkpoint in progress
  previous,   \* the dict self.previous
  counted,    \* ghost: everything ever counted for a flow
  reported,   \* ghost: sum of all rows ever written for a flow
  staleBase,  \* ghost: flows in previous whose entry was evicted since it was read
  staleRead,  \* ghost: flows in totals whose entry was evicted since it was read
  twice,      \* ghost: flows some dump has read more than once
  mark,       \* ghost: counted when the dump behind previous began
  beginMark,  \* ghost: counted when the current dump began
  inserts, restarts  \* bounded counters of insertions and restarts

kernelVars  == <<live, ctr, inserts>>
dumpVars    == <<phase, cursor, floor, behind, totals>>
ghostVars   == <<counted, reported, staleBase, staleRead, twice, mark, beginMark>>
vars == <<kernelVars, dumpVars, previous, ghostVars, restarts>>

\* A Python dictionary from flows to counters.
IsDict(d) == DOMAIN d \subseteq Flows /\ d \in [DOMAIN d -> Counters]
EmptyDict == [f \in {} |-> Zero]

Plus(a, b) == [x \in Fields |-> a[x] + b[x]]
AtMost(a, b) == \A x \in Fields : a[x] <= b[x]

\* Mutant: the difference is not clamped.
Gain_Unclamped(new, old) == [x \in Fields |-> new[x] - old[x]]

\* max(new - old, 0) in every field.
Gain(new, old) == [x \in Fields |-> IF new[x] > old[x] THEN new[x] - old[x] ELSE 0]

---------------------------------------------------------------------------------
(* The kernel side.                                                               *)

\* What an insertion may evict.
Victims == IF Lru THEN SUBSET live ELSE {{}}

\* A packet of a flow without an entry makes the program insert one, at zero.  A
\* full hash refuses; an LRU map evicts any set of entries that makes room.  When
\* a dump is under way, the new entry's place in the iteration order decides
\* whether the dump will still meet it.
Insert(f) ==
  /\ f \notin live
  /\ inserts < MaxInserts
  /\ \E victims \in Victims :
       /\ Cardinality(live \ victims) < MaxEntries
       /\ live' = (live \ victims) \cup {f}
       /\ ctr' = [g \in Flows |-> IF g \in victims THEN Zero ELSE ctr[g]]
       /\ floor' = IF cursor \in victims THEN Zero ELSE floor
       /\ staleBase' = staleBase \cup (victims \cap DOMAIN previous)
       /\ staleRead' = staleRead \cup (victims \cap DOMAIN totals)
  /\ \/ UNCHANGED behind
     \/ cursor # NoFlow /\ behind' = behind \cup {f}
  /\ inserts' = inserts + 1
  /\ UNCHANGED <<phase, cursor, totals, previous, counted, reported, twice, mark,
                 beginMark, restarts>>

\* The program adds to an entry it has found: counters->packets += 1 and then
\* counters->bytes += payload_bytes, two steps a dump may fall between.
Count(f) ==
  /\ f \in live
  /\ \E inc \in Increments :
       /\ AtMost(Plus(counted[f], inc), [x \in Fields |-> MaxCount])
       /\ ctr'     = [ctr     EXCEPT ![f] = Plus(@, inc)]
       /\ counted' = [counted EXCEPT ![f] = Plus(@, inc)]
  /\ UNCHANGED <<live, inserts, dumpVars, previous, reported, staleBase, staleRead,
                 twice, mark, beginMark, restarts>>

---------------------------------------------------------------------------------
(* The dump.                                                                      *)

\* read_checkpoint starts bpftool.
BeginDump ==
  /\ phase = "sleep"
  /\ phase' = "next"
  /\ beginMark' = counted
  /\ UNCHANGED <<kernelVars, cursor, floor, behind, totals, previous, counted, reported,
                 staleBase, staleRead, twice, mark, restarts>>

\* The key bpftool holds has been evicted: the kernel cannot find its place any
\* more, and get_next_key starts again from the first key.
CursorLost == cursor # NoFlow /\ cursor \notin live

Rewind ==
  /\ phase = "next"
  /\ CursorLost
  /\ cursor' = NoFlow
  /\ behind' = {}
  /\ UNCHANGED <<kernelVars, phase, floor, totals, previous, ghostVars, restarts>>

\* get_next_key returns an entry the iteration has not passed yet.
NextKey(f) ==
  /\ phase = "next"
  /\ ~CursorLost
  /\ f \in live \ behind
  /\ phase' = "lookup"
  /\ cursor' = f
  /\ floor' = ctr[f]
  /\ behind' = behind \cup {f}
  /\ UNCHANGED <<kernelVars, totals, previous, ghostVars, restarts>>

\* totals.get(identity), 0 without one.
Accumulated(f) == IF f \in DOMAIN totals THEN totals[f] ELSE Zero

\* totals with one more map entry of flow f aggregated into it.
Aggregate(f, value) ==
  [g \in DOMAIN totals \cup {f} |-> IF g = f THEN Plus(Accumulated(f), value) ELSE totals[g]]

\* The lookup copies the counters CPU by CPU, so each field is somewhere between
\* its value when the key was returned and its value now; the Python loop adds the
\* entry to the total of its identity.
Lookup ==
  /\ phase = "lookup"
  /\ cursor \in live
  /\ phase' = "next"
  /\ \E value \in [Fields -> 0 .. MaxCount] :
       /\ AtMost(floor, value) /\ AtMost(value, ctr[cursor])
       /\ totals' = Aggregate(cursor, value)
  /\ floor' = Zero
  /\ twice' = twice \cup ({cursor} \cap DOMAIN totals)
  /\ staleRead' = staleRead \ {cursor}
  /\ UNCHANGED <<kernelVars, cursor, behind, previous, counted, reported, staleBase, mark,
                 beginMark, restarts>>

\* The entry was evicted between the two calls: bpftool prints an error object for
\* it, which the parser does not understand; the exception ends the analyzer.
LookupFails ==
  /\ phase = "lookup"
  /\ cursor \notin live
  /\ phase' = "dead"
  /\ UNCHANGED <<kernelVars, cursor, floor, behind, totals, previous, ghostVars, restarts>>

---------------------------------------------------------------------------------
(* The checkpoint.                                                                *)

\* Mutant: first sight is not special, the whole total is reported.
Row_Unseeded(new, old, f) ==
  IF f \in DOMAIN new
  THEN IF f \in DOMAIN old THEN Gain(new[f], old[f]) ELSE new[f]
  ELSE Zero

\* Mutant: "or" for "and" in the condition that skips a row.
Row_AllFieldsGrow(new, old, f) ==
  IF f \in DOMAIN new \cap DOMAIN old /\ \A x \in Fields : new[f][x] > old[f][x]
  THEN Gain(new[f], old[f])
  ELSE Zero

\* The counters of the row written for flow f: none at first sight (the baseline is
\* only seeded) and none when no field grew; otherwise the clamped differences.
Row(new, old, f) ==
  IF /\ f \in DOMAIN new \cap DOMAIN old
     /\ \E x \in Fields : new[f][x] > old[f][x]
  THEN Gain(new[f], old[f])
  ELSE Zero

\* Mutant: a baseline once seeded is never replaced.
Baseline_FirstSeen ==
  [f \in DOMAIN totals |-> IF f \in DOMAIN previous THEN previous[f] ELSE totals[f]]

\* self.previous after the checkpoint: stale flows are dropped, the others replaced.
Baseline == totals

\* The iteration has met the last entry; rows are computed from totals and previous
\* alone, so no kernel step can come between.
Checkpoint ==
  /\ phase = "next"
  /\ ~CursorLost
  /\ live \subseteq behind
  /\ reported' = [f \in Flows |-> Plus(reported[f], Row(totals, previous, f))]
  /\ previous' = Baseline
  /\ phase' = "sleep" /\ cursor' = NoFlow /\ behind' = {} /\ totals' = EmptyDict
  /\ staleBase' = staleRead /\ staleRead' = {}
  /\ mark' = beginMark
  /\ UNCHANGED <<kernelVars, floor, counted, twice, beginMark, restarts>>

\* The analyzer stops or is killed at any moment and is started again with an empty
\* self.previous: on the map the attached program kept (--no-attach), or on the
\* empty map of a program it attached anew.
Restart ==
  /\ restarts < MaxRestarts
  /\ restarts' = restarts + 1
  /\ \/ UNCHANGED <<live, ctr>>
     \/ live' = {} /\ ctr' = [f \in Flows |-> Zero]
  /\ phase' = "sleep" /\ cursor' = NoFlow /\ floor' = Zero /\ behind' = {}
  /\ totals' = EmptyDict /\ previous' = EmptyDict
  /\ staleBase' = {} /\ staleRead' = {}
  /\ UNCHANGED <<inserts, counted, reported, twice, mark, beginMark>>

---------------------------------------------------------------------------------
Init ==
  /\ live = {} /\ ctr = [f \in Flows |-> Zero]
  /\ phase = "sleep" /\ cursor = NoFlow /\ floor = Zero /\ behind = {}
  /\ totals = EmptyDict /\ previous = EmptyDict
  /\ counted = [f \in Flows |-> Zero] /\ reported = [f \in Flows |-> Zero]
  /\ staleBase = {} /\ staleRead = {} /\ twice = {}
  /\ mark = [f \in Flows |-> Zero] /\ beginMark = [f \in Flows |-> Zero]
  /\ inserts = 0 /\ restarts = 0

\* BPF program and map.
Kernel == \E f \in Flows : Insert(f) \/ Count(f)

\* One iteration of the analyzer's loop after the other, on its one thread.
Collector ==
  \/ BeginDump
  \/ \E f \in Flows : NextKey(f)
  \/ Lookup
  \/ LookupFails
  \/ Rewind
  \/ Checkpoint

Next == Kernel \/ Collector \/ Restart

Spec == Init /\ [][Next]_vars

\* The loop sleeps a finite time and then polls again; nobody restarts it for sure.
FairSpec == Spec /\ WF_vars(Collector)

---------------------------------------------------------------------------------
(* Properties.                                                                    *)

\* Type correctness: dictionaries map flows to counters, and the ghosts are sets of flows.
TypeOK ==
  /\ live \subseteq Flows
  /\ ctr \in [Flows -> Counters]
  /\ phase \in {"sleep", "next", "lookup", "dead"}
  /\ cursor \in Flows \cup {NoFlow}
  /\ floor \in Counters
  /\ behind \subseteq Flows
  /\ IsDict(totals) /\ IsDict(previous)
  /\ counted \in [Flows -> Counters] /\ reported \in [Flows -> Counters]
  /\ staleBase \subseteq Flows /\ staleRead \subseteq Flows /\ twice \subseteq Flows
  /\ mark \in [Flows -> Counters] /\ beginMark \in [Flows -> Counters]
  /\ inserts \in Nat /\ restarts \in Nat

\* The rows of a flow never add up to more than was counted for it, over all
\* restarts of the analyzer and all evictions of its entry, unless some dump met
\* its entry twice (ebpf.py:598-606 tells of the overstatement this rules out).
NoOverreport ==
  \A f \in Flows \ twice : AtMost(reported[f], counted[f])

\* On a map that does not evict, a dump meets every entry at most once and no
\* lookup fails: the checkpoint of the ingress map never dies of a vanished entry.
HashDumpIsSafe ==
  ~Lru => twice = {} /\ phase # "dead"

\* A flow whose entry lived on since the last checkpoint is still in the dump, and
\* its row holds the exact difference in EVERY field, also when only one of packets
\* and bytes grew (the condition at ebpf.py:610 skips a row only if neither did).
IntactDelta ==
  [][Checkpoint =>
       \A f \in DOMAIN previous \ (staleBase \cup twice) :
         /\ f \in DOMAIN totals
         /\ totals[f] = Plus(previous[f], [x \in Fields |-> reported'[f][x] - reported[f][x]])
    ]_vars

\* A row's counters were all counted after the previous dump began: no row reports
\* the traffic of earlier intervals as if it had happened in this one, after a
\* restart on a full map (ebpf.py:598-606) no more than after an eviction.
RowWithinInterval ==
  [][\A f \in Flows \ twice' :
       AtMost(Plus(mark[f], reported'[f]), Plus(counted[f], reported[f]))]_vars

\* The comment at tcp_channel.py:460-464: after a clamped interval "the next one is
\* correct because the baseline was just replaced".  Once traffic stops, the
\* baseline of every entry becomes its counters, whatever evictions and rewinds
\* came before, unless a vanished entry has ended the analyzer.
CatchesUp ==
  <>[](\/ phase = "dead"
       \/ \A f \in live : f \in DOMAIN previous /\ previous[f] = ctr[f])

\* README.md:24-27, "converts absolute eBPF map values into checkpoint deltas", and
\* test_tcp_channel.py:191, "delta, not cumulative": rows never add up to more than
\* was counted, on any map.
DeltasOnly ==
  \A f \in Flows : AtMost(reported[f], counted[f])

\* The rows of a map that does not evict implement the meter.
Meter == INSTANCE TrafficMeter
MeterSpec == Meter!Spec

---------------------------------------------------------------------------------
(* The inductive invariant behind NoOverreport and RowWithinInterval.  It follows  *)
(* one field x of one flow f through the three places its counter passes: the      *)
(* baseline of the last checkpoint, the lookup under way and the total read.       *)

\* What a row made of totals as they are would report.
Due(f, x) == Row(totals, previous, f)[x]

\* What was counted suffices for the rows written, for the row that is owed and for
\* the part of the entry's counter above value, which a later row may report.
Covers(f, x, owed, value) ==
  reported[f][x] + owed + ctr[f][x] <= counted[f][x] + value

\* What the counter holds above value was counted after the dump that began at start.
CoversSince(f, x, start, value) ==
  ctr[f][x] + start[f][x] <= counted[f][x] + value

\* Rows, and the interval marks, are within what was counted.
WithinCounted(f, x) ==
  /\ reported[f][x] <= counted[f][x]
  /\ mark[f][x] <= counted[f][x]
  /\ beginMark[f][x] <= counted[f][x]

\* A baseline is below the counter it was read from, unless the entry was evicted:
\* then the counter started again at zero.
BaselineInv(f, x) ==
  f \in DOMAIN previous =>
    IF f \in staleBase
    THEN Covers(f, x, 0, 0) /\ CoversSince(f, x, mark, 0)
    ELSE /\ previous[f][x] <= ctr[f][x]
         /\ Covers(f, x, 0, previous[f][x])
         /\ CoversSince(f, x, mark, previous[f][x])

\* The floor is a value the counter had during this dump, after the baseline.
LookupInv(f, x) ==
  phase = "lookup" /\ cursor = f =>
    /\ floor[x] <= ctr[f][x]
    /\ Covers(f, x, 0, floor[x])
    /\ CoversSince(f, x, beginMark, floor[x])
    /\ f \in DOMAIN previous \ staleBase => previous[f][x] <= floor[x]

\* A total that was read once can be turned into a row and become the baseline.
TotalInv(f, x) ==
  f \in DOMAIN totals =>
    /\ Due(f, x) + mark[f][x] <= counted[f][x]
    /\ IF f \in staleRead
       THEN Covers(f, x, Due(f, x), 0) /\ CoversSince(f, x, beginMark, 0)
       ELSE /\ totals[f][x] <= ctr[f][x]
            /\ Covers(f, x, Due(f, x), totals[f][x])
            /\ CoversSince(f, x, beginMark, totals[f][x])

\* Dictionaries and ghosts belong together, and totals is empty between dumps.
ShapeInv ==
  /\ staleBase \subseteq DOMAIN previous
  /\ staleRead \subseteq DOMAIN totals
  /\ phase = "sleep" => DOMAIN totals = {} /\ cursor = NoFlow
  /\ phase = "lookup" => cursor \in Flows

FieldInv(f, x) ==
  WithinCounted(f, x) /\ BaselineInv(f, x) /\ LookupInv(f, x) /\ TotalInv(f, x)

\* A known flow whose entry lived on keeps it, is either still ahead of the dump or
\* already in it, and has not fallen behind its baseline.
IntactInv(f) ==
  /\ f \in DOMAIN totals \ staleRead => f \in live
  /\ f \in DOMAIN previous \ staleBase =>
       /\ f \in live
       /\ phase = "next" /\ f \in behind => f \in DOMAIN totals
       /\ phase = "lookup" /\ f \in behind => f \in DOMAIN totals \cup {cursor}
       /\ f \in DOMAIN totals => AtMost(previous[f], totals[f])

\* Everything the analyzer holds about a flow no dump met twice is covered by what
\* was counted for it (the counters, self.previous and totals of ebpf.py:575-611).
LedgerInv ==
  ShapeInv /\ \A f \in Flows \ twice : \A x \in Fields : FieldInv(f, x)

\* What IntactDelta rests on.
ContinuityInv ==
  /\ phase = "sleep" => behind = {}
  /\ \A f \in Flows \ twice : IntactInv(f)

\* Without evictions the cursor's entry stays, and what was read has been passed.
HashInv ==
  ~Lru =>
    /\ twice = {} /\ phase # "dead"
    /\ cursor # NoFlow => cursor \in live
    /\ DOMAIN totals \subseteq behind
    /\ phase = "lookup" => cursor \in behind \ DOMAIN totals

=================================================================================

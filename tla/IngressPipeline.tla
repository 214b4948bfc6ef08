----------------------------- MODULE IngressPipeline -----------------------------
(* The ingress path end to end: the udp_ingress program on its CPUs (IngressProgram) *)
(* and EbpfIngressCollector reading its map.  A lookup copies an entry's per-CPU     *)
(* slots one counter at a time while the CPUs go on counting, and the parser sums    *)
(* the copies (parse_bpftool_counters), so a total may mix moments and may hold a    *)
(* packet without its bytes.                                                         *)
(*                                                                                   *)
(* The module implements CheckpointCollector, where an entry is a single counter and *)
(* a lookup returns some value between the counter's value at the beginning and at   *)
(* the end of the read.                                                              *)
EXTENDS IngressProgram

CONSTANTS NoFlow,   \* "no key yet"
          MaxCount  \* bound: largest sum of a counter field

ASSUME PipelineAssumption ==
  IsFiniteSet(Cpus) /\ NoFlow \notin Flows /\ MaxCount \in Nat

Fields == {"packets", "bytes"}

VARIABLES
  phase, cursor, behind, totals, previous, \* as in CheckpointCollector
  unread,   \* <<CPU, field>> pairs of the cursor's entry that are not copied yet
  sums,     \* the sums of those that are
  reported, \* ghost: sum of all rows of a flow
  floor, mark, beginMark, restarts, inserts \* history, for the refinement

readVars    == <<unread, sums>>
historyVars == <<floor, mark, beginMark, restarts, inserts>>
pollVars    == <<phase, cursor, behind, totals, previous, reported, readVars, historyVars>>
pipelineVars == <<programVars, pollVars>>

\* The counters of an entry, summed over the CPUs at one moment.
Counter(f) == [x \in Fields |-> SumFunction([c \in Cpus |-> slot[f][c][x]])]
CounterNow == [f \in Flows |-> Counter(f)]

\* What a frame adds, in two steps.
Increments ==
  {[packets |-> 1, bytes |-> 0]} \cup {[packets |-> 0, bytes |-> Payload(fr)] : fr \in Frames}

Collector ==
  INSTANCE CheckpointCollector WITH
    Lru <- FALSE, MaxInserts <- Cardinality(Flows), MaxRestarts <- 1,
    live <- entries, ctr <- CounterNow, counted <- CounterNow,
    staleBase <- {}, staleRead <- {}, twice <- {}

---------------------------------------------------------------------------------
\* A step of the program.  An entry it inserts during a dump may come to lie behind
\* the iteration's cursor.
Kernel ==
  /\ ProgramNext
  /\ \A f \in Flows : Collector!AtMost(Counter(f)', [x \in Fields |-> MaxCount])
  /\ IF entries' = entries
     THEN UNCHANGED <<behind, inserts>>
     ELSE /\ inserts' = inserts + 1
          /\ \/ UNCHANGED behind
             \/ cursor # NoFlow /\ behind' = behind \cup (entries' \ entries)
  /\ UNCHANGED <<phase, cursor, totals, previous, reported, readVars, floor, mark, beginMark,
                 restarts>>

\* read_checkpoint starts bpftool.
BeginDump ==
  /\ phase = "sleep"
  /\ phase' = "next"
  /\ beginMark' = CounterNow
  /\ UNCHANGED <<programVars, cursor, behind, totals, previous, reported, readVars, floor,
                 mark, restarts, inserts>>

\* get_next_key, and the lookup that follows begins.
NextKey(f) ==
  /\ phase = "next" /\ f \in entries \ behind
  /\ phase' = "lookup" /\ cursor' = f /\ behind' = behind \cup {f}
  /\ unread' = Cpus \X Fields /\ sums' = Collector!Zero
  /\ floor' = Counter(f)
  /\ UNCHANGED <<programVars, totals, previous, reported, mark, beginMark, restarts, inserts>>

\* Mutant: the parser keeps the last CPU's counter instead of the sum.
ReadSlot_LastCpu(c, x) ==
  /\ phase = "lookup" /\ <<c, x>> \in unread
  /\ unread' = unread \ {<<c, x>>}
  /\ sums' = [sums EXCEPT ![x] = slot[cursor][c][x]]
  /\ UNCHANGED <<programVars, phase, cursor, behind, totals, previous, reported, historyVars>>

\* One counter of one CPU's slot is copied, and later added to the sum of its field.
ReadSlot(c, x) ==
  /\ phase = "lookup" /\ <<c, x>> \in unread
  /\ unread' = unread \ {<<c, x>>}
  /\ sums' = [sums EXCEPT ![x] = @ + slot[cursor][c][x]]
  /\ UNCHANGED <<programVars, phase, cursor, behind, totals, previous, reported, historyVars>>

\* The entry is complete and its sums are added to the total of its identity.
EndLookup ==
  /\ phase = "lookup" /\ unread = {}
  /\ phase' = "next"
  /\ totals' = Collector!Aggregate(cursor, sums)
  /\ sums' = Collector!Zero /\ floor' = Collector!Zero
  /\ UNCHANGED <<programVars, cursor, behind, previous, reported, unread, mark, beginMark,
                 restarts, inserts>>

\* The last entry has been met: rows are written and the baseline is replaced.
Checkpoint ==
  /\ phase = "next" /\ entries \subseteq behind
  /\ reported' = [f \in Flows |->
                    Collector!Plus(reported[f], Collector!Row(totals, previous, f))]
  /\ previous' = totals
  /\ phase' = "sleep" /\ cursor' = NoFlow /\ behind' = {} /\ totals' = Collector!EmptyDict
  /\ mark' = beginMark
  /\ UNCHANGED <<programVars, readVars, floor, beginMark, restarts, inserts>>

\* The analyzer is started again with --no-attach, on the map as it is.
Restart ==
  /\ restarts < 1 /\ restarts' = restarts + 1
  /\ phase' = "sleep" /\ cursor' = NoFlow /\ behind' = {}
  /\ totals' = Collector!EmptyDict /\ previous' = Collector!EmptyDict
  /\ unread' = {} /\ sums' = Collector!Zero /\ floor' = Collector!Zero
  /\ UNCHANGED <<programVars, reported, mark, beginMark, inserts>>

PipelineInit ==
  /\ ProgramInit
  /\ phase = "sleep" /\ cursor = NoFlow /\ behind = {}
  /\ totals = Collector!EmptyDict /\ previous = Collector!EmptyDict
  /\ unread = {} /\ sums = Collector!Zero /\ floor = Collector!Zero
  /\ reported = [f \in Flows |-> Collector!Zero]
  /\ mark = [f \in Flows |-> Collector!Zero] /\ beginMark = [f \in Flows |-> Collector!Zero]
  /\ restarts = 0 /\ inserts = 0

PipelineNext ==
  \/ Kernel
  \/ BeginDump
  \/ \E f \in Flows : NextKey(f)
  \/ \E c \in Cpus, x \in Fields : ReadSlot(c, x)
  \/ EndLookup
  \/ Checkpoint
  \/ Restart

PipelineSpec == PipelineInit /\ [][PipelineNext]_pipelineVars

---------------------------------------------------------------------------------
(* Properties.                                                                    *)

\* Summing per-CPU slots that are copied at different moments gives the collector
\* nothing a single counter read at one moment during the copy could not give
\* (ebpf.py:565-637 over the PERCPU_HASH of udp_ingress.bpf.c:30-35).
RefinesCollector == Collector!Spec

\* What a reader of the rows relies on, end to end: traffic is counted or reported, never
\* both in one step, and what is reported has been counted, whatever a dump copies while
\* the CPUs count, and over a restart on the old totals (ebpf.py:598-606).
RefinesMeter == Collector!MeterSpec

\* End to end, no packet is in two rows: the packets in all rows of all flows are at
\* most the frames that carried UDP to the CPUs, however the dump tears an entry and
\* whenever the analyzer restarts.
RowsWithinArrivals ==
  SumFunction([f \in Flows |-> reported[f]["packets"]]) <=
    SumFunction([c \in Cpus |-> arrived[c]["datagram"] + arrived[c]["fragment"]])

=================================================================================

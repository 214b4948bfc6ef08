------------------------ MODULE CheckpointCollectorProofs ------------------------
(* Proofs about CheckpointCollector, for every value of its constants.             *)
EXTENDS CheckpointCollector, TLAPS

---------------------------------------------------------------------------------
(* Operators on counters and dictionaries.                                        *)

\* Counters are closed under addition and clamped difference, field by field.
LEMMA CounterOps ==
  ASSUME NEW a \in Counters, NEW b \in Counters
  PROVE  /\ Zero \in Counters
         /\ Plus(a, b) \in Counters /\ \A x \in Fields : Plus(a, b)[x] = a[x] + b[x]
         /\ Gain(a, b) \in Counters
         /\ \A x \in Fields :
              Gain(a, b)[x] = IF a[x] > b[x] THEN a[x] - b[x] ELSE 0
  BY DEF Counters, Zero, Plus, Gain

\* The empty dictionary is a dictionary.
LEMMA EmptyIsDict == IsDict(EmptyDict) /\ DOMAIN EmptyDict = {}
  BY DEF IsDict, EmptyDict

\* Looking a flow up in a dictionary.
LEMMA DictValue ==
  ASSUME NEW d, IsDict(d), NEW f \in DOMAIN d
  PROVE  f \in Flows /\ d[f] \in Counters
  BY DEF IsDict

\* Aggregating one entry changes the total of its flow and no other.
LEMMA AggregateEntry ==
  ASSUME IsDict(totals), NEW f \in Flows, NEW v \in Counters
  PROVE  /\ IsDict(Aggregate(f, v))
         /\ DOMAIN Aggregate(f, v) = DOMAIN totals \cup {f}
         /\ \A g \in DOMAIN totals : g # f => Aggregate(f, v)[g] = totals[g]
         /\ f \notin DOMAIN totals =>
              Aggregate(f, v)[f] \in Counters /\ \A x \in Fields : Aggregate(f, v)[f][x] = v[x]
<1>1. Accumulated(f) \in Counters
  BY DictValue DEF Accumulated, Counters, Zero
<1>2. Plus(Accumulated(f), v) \in Counters
  BY <1>1, CounterOps
<1>3. DOMAIN Aggregate(f, v) = DOMAIN totals \cup {f}
  BY DEF Aggregate
<1>4. \A g \in DOMAIN totals : g # f => Aggregate(f, v)[g] = totals[g]
  BY DEF Aggregate
<1>5. Aggregate(f, v)[f] = Plus(Accumulated(f), v)
  BY DEF Aggregate
<1>6. \A g \in DOMAIN Aggregate(f, v) : Aggregate(f, v)[g] \in Counters
  BY <1>2, <1>3, <1>4, <1>5, DictValue
<1>7. IsDict(Aggregate(f, v))
  <2>1. Aggregate(f, v) = [g \in DOMAIN Aggregate(f, v) |-> Aggregate(f, v)[g]]
    BY DEF Aggregate
  <2>2. DOMAIN Aggregate(f, v) \subseteq Flows
    BY <1>3 DEF IsDict
  <2> QED
    BY <1>6, <2>1, <2>2 DEF IsDict
<1>8. f \notin DOMAIN totals => \A x \in Fields : Plus(Accumulated(f), v)[x] = v[x]
  BY DEF Accumulated, Plus, Zero, Counters
<1> QED
  BY <1>2, <1>3, <1>4, <1>5, <1>7, <1>8

\* A row holds the clamped differences of a known flow, and nothing otherwise.
LEMMA RowValue ==
  ASSUME NEW new, IsDict(new), NEW old, IsDict(old), NEW f \in Flows
  PROVE  /\ Row(new, old, f) \in Counters
         /\ f \in DOMAIN new \cap DOMAIN old =>
              \A x \in Fields :
                Row(new, old, f)[x] =
                  IF new[f][x] > old[f][x] THEN new[f][x] - old[f][x] ELSE 0
         /\ f \notin DOMAIN new \cap DOMAIN old =>
              \A x \in Fields : Row(new, old, f)[x] = 0
<1>1. CASE f \in DOMAIN new \cap DOMAIN old
  <2>1. new[f] \in Counters /\ old[f] \in Counters
    BY <1>1, DictValue
  <2>2. Gain(new[f], old[f]) \in Counters
    BY <2>1, CounterOps
  <2>3. CASE \E x \in Fields : new[f][x] > old[f][x]
    BY <1>1, <2>1, <2>2, <2>3, CounterOps DEF Row
  <2>4. CASE ~ \E x \in Fields : new[f][x] > old[f][x]
    BY <1>1, <2>1, <2>4 DEF Row, Zero, Counters
  <2> QED
    BY <2>3, <2>4
<1>2. CASE f \notin DOMAIN new \cap DOMAIN old
  BY <1>2 DEF Row, Zero, Counters
<1> QED
  BY <1>1, <1>2

---------------------------------------------------------------------------------
(* Type correctness.                                                              *)

\* The value a lookup returns is a counter value.
LEMMA LookupType ==
  TypeOK /\ Lookup => IsDict(totals')
<1> SUFFICES ASSUME TypeOK, Lookup PROVE IsDict(totals')
  OBVIOUS
<1>1. PICK v \in [Fields -> 0 .. MaxCount] : totals' = Aggregate(cursor, v)
  BY DEF Lookup
<1>2. v \in Counters
  BY CollectorAssumption DEF Counters
<1>3. cursor \in Flows
  BY DEF Lookup, TypeOK
<1> QED
  BY <1>1, <1>2, <1>3, AggregateEntry DEF TypeOK

\* TypeOK is an invariant: every action of the program, of bpftool and of the
\* collector keeps counters counters and dictionaries dictionaries.
THEOREM TypeCorrect == Spec => []TypeOK
<1>1. Init => TypeOK
  BY EmptyIsDict, CollectorAssumption DEF Init, TypeOK, Counters, Zero
<1>2. TypeOK /\ [Next]_vars => TypeOK'
  <2> SUFFICES ASSUME TypeOK, [Next]_vars PROVE TypeOK'
    OBVIOUS
  <2> USE DEF TypeOK
  <2>z. Zero \in Counters /\ [f \in Flows |-> Zero] \in [Flows -> Counters]
    BY DEF Counters, Zero
  <2>1. ASSUME NEW f \in Flows, Insert(f) PROVE TypeOK'
    <3>1. PICK victims \in SUBSET live :
            /\ live' = (live \ victims) \cup {f}
            /\ ctr' = [g \in Flows |-> IF g \in victims THEN Zero ELSE ctr[g]]
            /\ floor' = IF cursor \in victims THEN Zero ELSE floor
            /\ staleBase' = staleBase \cup (victims \cap DOMAIN previous)
            /\ staleRead' = staleRead \cup (victims \cap DOMAIN totals)
      BY <2>1 DEF Insert, Victims
    <3>2. live' \subseteq Flows /\ floor' \in Counters /\ ctr' \in [Flows -> Counters]
      BY <2>z, <3>1
    <3>3. behind' \subseteq Flows
      BY <2>1 DEF Insert
    <3>4. staleBase' \subseteq Flows /\ staleRead' \subseteq Flows
      BY <3>1
    <3> QED
      BY <2>1, <3>2, <3>3, <3>4 DEF Insert, IsDict
  <2>2. ASSUME NEW f \in Flows, Count(f) PROVE TypeOK'
    <3>1. PICK inc \in Increments :
            /\ ctr'     = [ctr     EXCEPT ![f] = Plus(@, inc)]
            /\ counted' = [counted EXCEPT ![f] = Plus(@, inc)]
      BY <2>2 DEF Count
    <3>2. Plus(ctr[f], inc) \in Counters /\ Plus(counted[f], inc) \in Counters
      BY CollectorAssumption, CounterOps
    <3> QED
      BY <2>2, <3>1, <3>2 DEF Count, dumpVars, IsDict
  <2>3. CASE BeginDump
    BY <2>3 DEF BeginDump, kernelVars, IsDict
  <2>4. ASSUME NEW f \in Flows, NextKey(f) PROVE TypeOK'
    BY <2>4 DEF NextKey, kernelVars, ghostVars, IsDict
  <2>5. CASE Lookup
    BY <2>5, <2>z, LookupType DEF Lookup, kernelVars, IsDict
  <2>6. CASE LookupFails
    BY <2>6 DEF LookupFails, kernelVars, ghostVars, IsDict
  <2>7. CASE Rewind
    BY <2>7 DEF Rewind, kernelVars, ghostVars, IsDict
  <2>8. CASE Checkpoint
    <3>1. reported' \in [Flows -> Counters]
      BY <2>8, RowValue, CounterOps DEF Checkpoint
    <3>2. IsDict(previous') /\ IsDict(totals')
      BY <2>8, EmptyIsDict DEF Checkpoint, Baseline, IsDict
    <3> QED
      BY <2>8, <3>1, <3>2 DEF Checkpoint, kernelVars
  <2>9. CASE Restart
    BY <2>9, <2>z, EmptyIsDict DEF Restart
  <2>10. CASE UNCHANGED vars
    BY <2>10 DEF vars, kernelVars, dumpVars, ghostVars, IsDict
  <2> QED
    BY <2>1, <2>2, <2>3, <2>4, <2>5, <2>6, <2>7, <2>8, <2>9, <2>10
       DEF Next, Kernel, Collector
<1> QED
  BY <1>1, <1>2, PTL DEF Spec

---------------------------------------------------------------------------------
(* The ledger.                                                                    *)

\* The counters the ledger speaks of are numbers.
LEMMA Numbers ==
  ASSUME TypeOK, NEW f \in Flows, NEW x \in Fields
  PROVE  /\ ctr[f][x] \in Nat /\ floor[x] \in Nat
         /\ counted[f][x] \in Nat /\ reported[f][x] \in Nat
         /\ mark[f][x] \in Nat /\ beginMark[f][x] \in Nat
         /\ f \in DOMAIN previous => previous[f][x] \in Nat
         /\ f \in DOMAIN totals => totals[f][x] \in Nat
         /\ Due(f, x) \in Nat
<1>1. Row(totals, previous, f) \in Counters
  BY RowValue DEF TypeOK
<1> QED
  BY <1>1, DictValue DEF TypeOK, Counters, Due

\* What is due for a flow: the clamped difference if it was read and is known.
LEMMA DueValue ==
  ASSUME TypeOK, NEW f \in Flows, NEW x \in Fields
  PROVE  /\ f \in DOMAIN totals \cap DOMAIN previous =>
              Due(f, x) = IF totals[f][x] > previous[f][x]
                          THEN totals[f][x] - previous[f][x] ELSE 0
         /\ f \notin DOMAIN totals \cap DOMAIN previous => Due(f, x) = 0
  BY RowValue DEF TypeOK, Due

\* A step that leaves the dictionaries alone leaves what is due alone.
LEMMA DueUnchanged ==
  ASSUME totals' = totals, previous' = previous, NEW f \in Flows, NEW x \in Fields
  PROVE  Due(f, x)' = Due(f, x)
  BY DEF Due

\* An insertion, with the evictions it causes, keeps the ledger: an evicted entry's
\* counter falls to zero, which nothing written or held back may exceed.
LEMMA InsertKeepsField ==
  ASSUME TypeOK, ShapeInv, NEW g \in Flows, Insert(g),
         NEW f \in Flows, NEW x \in Fields, FieldInv(f, x)
  PROVE  FieldInv(f, x)'
<1>1. PICK victims \in SUBSET live :
        /\ ctr' = [h \in Flows |-> IF h \in victims THEN Zero ELSE ctr[h]]
        /\ floor' = IF cursor \in victims THEN Zero ELSE floor
        /\ staleBase' = staleBase \cup (victims \cap DOMAIN previous)
        /\ staleRead' = staleRead \cup (victims \cap DOMAIN totals)
  BY DEF Insert, Victims
<1>2. UNCHANGED <<phase, cursor, totals, previous, counted, reported, mark, beginMark>>
  BY DEF Insert
<1>3. Due(f, x)' = Due(f, x)
  BY <1>2, DueUnchanged
<1>4. ctr'[f][x] = IF f \in victims THEN 0 ELSE ctr[f][x]
  BY <1>1 DEF Zero
<1>5. cursor = f => floor'[x] = IF f \in victims THEN 0 ELSE floor[x]
  BY <1>1 DEF Zero
<1> USE Numbers DEF FieldInv, Covers, CoversSince
<1>6. WithinCounted(f, x)'
  BY <1>2 DEF WithinCounted
<1>7. BaselineInv(f, x)'
  BY <1>1, <1>2, <1>4 DEF BaselineInv, WithinCounted
<1>8. LookupInv(f, x)'
  <2>1. CASE f \in victims
    BY <1>1, <1>2, <1>4, <1>5, <2>1 DEF LookupInv, WithinCounted
  <2>2. CASE f \notin victims
    BY <1>1, <1>2, <1>4, <1>5, <2>2 DEF LookupInv
  <2> QED
    BY <2>1, <2>2
<1>9. TotalInv(f, x)'
  <2>1. CASE f \in victims
    BY <1>1, <1>2, <1>3, <1>4, <2>1 DEF TotalInv, WithinCounted
  <2>2. CASE f \notin victims
    BY <1>1, <1>2, <1>3, <1>4, <2>2 DEF TotalInv
  <2> QED
    BY <2>1, <2>2
<1> QED
  BY <1>6, <1>7, <1>8, <1>9

\* Counting raises the counter and the ledger's credit alike.
LEMMA CountKeepsField ==
  ASSUME TypeOK, NEW g \in Flows, Count(g),
         NEW f \in Flows, NEW x \in Fields, FieldInv(f, x)
  PROVE  FieldInv(f, x)'
<1>1. PICK inc \in Increments :
        /\ ctr'     = [ctr     EXCEPT ![g] = Plus(@, inc)]
        /\ counted' = [counted EXCEPT ![g] = Plus(@, inc)]
  BY DEF Count
<1>2. UNCHANGED <<phase, cursor, floor, totals, previous, reported, staleBase, staleRead,
                  mark, beginMark>>
  BY DEF Count, dumpVars
<1>3. Due(f, x)' = Due(f, x)
  BY <1>2, DueUnchanged
<1>4. \E n \in Nat : ctr'[f][x] = ctr[f][x] + n /\ counted'[f][x] = counted[f][x] + n
  <2>1. CASE f = g
    <3>1. inc[x] \in Nat
      BY CollectorAssumption DEF Counters
    <3>2. ctr'[f][x] = ctr[f][x] + inc[x] /\ counted'[f][x] = counted[f][x] + inc[x]
      BY <1>1, <2>1 DEF Plus, TypeOK
    <3> QED
      BY <3>1, <3>2
  <2>2. CASE f # g
    BY <1>1, <2>2, Numbers DEF TypeOK
  <2> QED
    BY <2>1, <2>2
<1> USE Numbers DEF FieldInv, Covers, CoversSince
<1>5. WithinCounted(f, x)'
  BY <1>2, <1>4 DEF WithinCounted
<1>6. BaselineInv(f, x)'
  BY <1>2, <1>4 DEF BaselineInv
<1>7. LookupInv(f, x)'
  BY <1>2, <1>4 DEF LookupInv
<1>8. TotalInv(f, x)'
  BY <1>2, <1>3, <1>4 DEF TotalInv
<1> QED
  BY <1>5, <1>6, <1>7, <1>8

\* A dump that begins opens an interval; nothing has been read in it yet.
LEMMA BeginDumpKeepsField ==
  ASSUME TypeOK, ShapeInv, BeginDump, NEW f \in Flows, NEW x \in Fields, FieldInv(f, x)
  PROVE  FieldInv(f, x)'
<1>1. DOMAIN totals = {}
  BY DEF BeginDump, ShapeInv
<1>2. beginMark' = counted /\ phase' = "next"
  BY DEF BeginDump
<1>3. UNCHANGED <<ctr, cursor, floor, totals, previous, counted, reported, staleBase,
                  staleRead, mark>>
  BY DEF BeginDump, kernelVars
<1> QED
  BY <1>1, <1>2, <1>3, Numbers
     DEF FieldInv, WithinCounted, BaselineInv, LookupInv, TotalInv, Covers, CoversSince

\* The cursor moves to an entry: its floor is its counter, at or above its baseline.
LEMMA NextKeyKeepsField ==
  ASSUME TypeOK, NEW g \in Flows, NextKey(g),
         NEW f \in Flows, NEW x \in Fields, FieldInv(f, x)
  PROVE  FieldInv(f, x)'
<1>1. phase' = "lookup" /\ cursor' = g /\ floor' = ctr[g]
  BY DEF NextKey
<1>2. UNCHANGED <<ctr, totals, previous, counted, reported, staleBase, staleRead, mark,
                  beginMark>>
  BY DEF NextKey, kernelVars, ghostVars
<1>3. Due(f, x)' = Due(f, x)
  BY <1>2, DueUnchanged
<1> USE Numbers DEF FieldInv, Covers, CoversSince
<1>4. WithinCounted(f, x)' /\ BaselineInv(f, x)'
  BY <1>2 DEF WithinCounted, BaselineInv
<1>5. LookupInv(f, x)'
  BY <1>1, <1>2 DEF LookupInv, WithinCounted, BaselineInv
<1>6. TotalInv(f, x)'
  BY <1>2, <1>3 DEF TotalInv
<1> QED
  BY <1>4, <1>5, <1>6

\* A lookup reads a value between the floor and the counter.  What becomes due for
\* its flow is what grew since the baseline, or what a new entry has counted.
LEMMA LookupKeepsField ==
  ASSUME TypeOK, TypeOK', ShapeInv, Lookup,
         NEW f \in Flows \ twice', NEW x \in Fields, FieldInv(f, x)
  PROVE  FieldInv(f, x)'
<1>1. PICK v \in [Fields -> 0 .. MaxCount] :
        AtMost(floor, v) /\ AtMost(v, ctr[cursor]) /\ totals' = Aggregate(cursor, v)
  BY DEF Lookup
<1>2. v \in Counters /\ cursor \in Flows
  BY CollectorAssumption DEF Counters, ShapeInv, Lookup
<1>. DEFINE read == Aggregate(cursor, v)
<1>a. IsDict(totals)
  BY DEF TypeOK
<1>b. /\ DOMAIN read = DOMAIN totals \cup {cursor}
      /\ \A g \in DOMAIN totals : g # cursor => read[g] = totals[g]
      /\ cursor \notin DOMAIN totals => \A y \in Fields : read[cursor][y] = v[y]
  BY <1>2, <1>a, AggregateEntry
<1>c. totals' = read
  BY <1>1
<1> HIDE DEF read
<1>3. /\ phase' = "next" /\ twice' = twice \cup ({cursor} \cap DOMAIN totals)
      /\ staleRead' = staleRead \ {cursor}
  BY DEF Lookup
<1>4. UNCHANGED <<ctr, cursor, previous, counted, reported, staleBase, mark, beginMark>>
  BY DEF Lookup, kernelVars
<1>5. WithinCounted(f, x)' /\ BaselineInv(f, x)' /\ LookupInv(f, x)'
  BY <1>3, <1>4
     DEF FieldInv, WithinCounted, BaselineInv, LookupInv, Covers, CoversSince
<1>6. TotalInv(f, x)'
  <2>1. CASE f = cursor
    <3>1. f \notin DOMAIN totals
      BY <1>3, <2>1
    <3>2. f \in DOMAIN totals' /\ totals'[f][x] = v[x] /\ v[x] \in Nat
      BY <1>b, <1>c, <1>2, <2>1, <3>1 DEF Counters
    <3>3. floor[x] <= v[x] /\ v[x] <= ctr[f][x]
      BY <1>1, <2>1 DEF AtMost
    <3>4. /\ f \in DOMAIN previous =>
               Due(f, x)' = IF v[x] > previous[f][x] THEN v[x] - previous[f][x] ELSE 0
          /\ f \notin DOMAIN previous => Due(f, x)' = 0
      <4>1. Due(f, x)' = Row(totals', previous', f)[x]
        BY DEF Due
      <4> QED
        BY <1>4, <3>2, <4>1, RowValue DEF TypeOK
    <3>5. LookupInv(f, x) /\ phase = "lookup"
      BY DEF FieldInv, Lookup
    <3>6. Due(f, x)' + mark[f][x] <= counted[f][x]
      BY <3>3, <3>4, Numbers, <3>2
         DEF FieldInv, WithinCounted, BaselineInv, CoversSince, Covers
    <3>7. reported[f][x] + Due(f, x)' + ctr[f][x] <= counted[f][x] + v[x]
      BY <2>1, <3>3, <3>4, <3>5, Numbers, <3>2
         DEF FieldInv, BaselineInv, LookupInv, Covers
    <3>8. ctr[f][x] + beginMark[f][x] <= counted[f][x] + v[x]
      BY <2>1, <3>3, <3>5, Numbers, <3>2 DEF LookupInv, CoversSince
    <3> QED
      BY <1>3, <1>4, <2>1, <3>2, <3>3, <3>6, <3>7, <3>8 DEF TotalInv, Covers, CoversSince
  <2>2. CASE f # cursor
    <3>1. /\ f \in DOMAIN totals' <=> f \in DOMAIN totals
          /\ f \in DOMAIN totals => totals'[f] = totals[f]
      BY <1>b, <1>c, <2>2
    <3>2. f \in DOMAIN totals => Due(f, x)' = Due(f, x)
      BY <1>4, <3>1 DEF Due, Row
    <3> QED
      BY <1>3, <1>4, <2>2, <3>1, <3>2 DEF FieldInv, TotalInv, Covers, CoversSince
  <2> QED
    BY <2>1, <2>2
<1> QED
  BY <1>5, <1>6 DEF FieldInv

\* A checkpoint writes what is due and makes the totals the baseline.
LEMMA CheckpointKeepsField ==
  ASSUME TypeOK, ShapeInv, Checkpoint, NEW f \in Flows, NEW x \in Fields, FieldInv(f, x)
  PROVE  FieldInv(f, x)'
<1>1. reported'[f][x] = reported[f][x] + Due(f, x)
  BY DEF Checkpoint, Plus, Due
<1>2. /\ previous' = totals /\ phase' = "sleep" /\ totals' = EmptyDict
      /\ staleBase' = staleRead /\ mark' = beginMark
  BY DEF Checkpoint, Baseline
<1>3. UNCHANGED <<ctr, counted, beginMark>>
  BY DEF Checkpoint, kernelVars
<1>4. staleRead \subseteq DOMAIN totals
  BY DEF ShapeInv
<1>5. f \notin DOMAIN totals => Due(f, x) = 0
  BY DueValue
<1> USE Numbers DEF FieldInv, Covers, CoversSince
<1>6. WithinCounted(f, x)'
  BY <1>1, <1>2, <1>3, <1>5 DEF WithinCounted, TotalInv
<1>7. BaselineInv(f, x)'
  BY <1>1, <1>2, <1>3, <1>4 DEF BaselineInv, TotalInv
<1>8. LookupInv(f, x)' /\ TotalInv(f, x)'
  BY <1>2, EmptyIsDict DEF LookupInv, TotalInv
<1> QED
  BY <1>6, <1>7, <1>8

\* A restarted analyzer knows nothing and owes nothing.
LEMMA RestartKeepsField ==
  ASSUME TypeOK, Restart, NEW f \in Flows, NEW x \in Fields, FieldInv(f, x)
  PROVE  FieldInv(f, x)'
<1>1. phase' = "sleep" /\ totals' = EmptyDict /\ previous' = EmptyDict
  BY DEF Restart
<1>2. UNCHANGED <<counted, reported, mark, beginMark>>
  BY DEF Restart
<1> QED
  BY <1>1, <1>2, EmptyIsDict DEF FieldInv, WithinCounted, BaselineInv, LookupInv, TotalInv

\* Rewinding, a failed lookup and stuttering touch nothing the ledger speaks of.
LEMMA OtherStepsKeepField ==
  ASSUME TypeOK, Rewind \/ LookupFails \/ UNCHANGED vars,
         NEW f \in Flows, NEW x \in Fields, FieldInv(f, x)
  PROVE  FieldInv(f, x)'
<1>1. UNCHANGED <<ctr, floor, totals, previous, ghostVars>>
  BY DEF Rewind, LookupFails, vars, kernelVars, dumpVars
<1>2. phase' = "lookup" => phase = "lookup" /\ cursor' = cursor
  BY DEF Rewind, LookupFails, vars, dumpVars
<1>3. Due(f, x)' = Due(f, x)
  BY <1>1, DueUnchanged
<1> QED
  BY <1>1, <1>2, <1>3
     DEF FieldInv, WithinCounted, BaselineInv, LookupInv, TotalInv, Covers, CoversSince,
         ghostVars

\* The ledger is an invariant.
THEOREM LedgerIsInvariant == Spec => []LedgerInv
<1>1. Init => LedgerInv
  <2> SUFFICES ASSUME Init PROVE LedgerInv
    OBVIOUS
  <2>1. ShapeInv
    BY EmptyIsDict DEF Init, ShapeInv
  <2>2. ASSUME NEW f \in Flows, NEW x \in Fields PROVE FieldInv(f, x)
    BY EmptyIsDict
       DEF Init, Zero, FieldInv, WithinCounted, BaselineInv, LookupInv, TotalInv
  <2> QED
    BY <2>1, <2>2 DEF LedgerInv
<1>2. TypeOK /\ TypeOK' /\ LedgerInv /\ [Next]_vars => LedgerInv'
  <2> SUFFICES ASSUME TypeOK, TypeOK', LedgerInv, [Next]_vars PROVE LedgerInv'
    OBVIOUS
  <2> USE DEF LedgerInv
  <2>1. ASSUME NEW g \in Flows, Insert(g) PROVE LedgerInv'
    <3>1. ShapeInv'
      BY <2>1 DEF Insert, ShapeInv
    <3>2. twice' = twice
      BY <2>1 DEF Insert
    <3> QED
      BY <2>1, <3>1, <3>2, InsertKeepsField
  <2>2. ASSUME NEW g \in Flows, Count(g) PROVE LedgerInv'
    <3>1. ShapeInv' /\ twice' = twice
      BY <2>2 DEF Count, ShapeInv, dumpVars
    <3> QED
      BY <2>2, <3>1, CountKeepsField
  <2>3. CASE BeginDump
    <3>1. ShapeInv' /\ twice' = twice
      BY <2>3 DEF BeginDump, ShapeInv
    <3> QED
      BY <2>3, <3>1, BeginDumpKeepsField
  <2>4. ASSUME NEW g \in Flows, NextKey(g) PROVE LedgerInv'
    <3>1. ShapeInv' /\ twice' = twice
      BY <2>4 DEF NextKey, ShapeInv, ghostVars
    <3> QED
      BY <2>4, <3>1, NextKeyKeepsField
  <2>5. CASE Lookup
    <3>1. DOMAIN totals \subseteq DOMAIN totals'
      BY <2>5 DEF Lookup, Aggregate
    <3>2. ShapeInv'
      BY <2>5, <3>1 DEF Lookup, ShapeInv
    <3>3. twice \subseteq twice'
      BY <2>5 DEF Lookup
    <3> QED
      BY <2>5, <3>2, <3>3, LookupKeepsField
  <2>6. CASE Checkpoint
    <3>1. ShapeInv' /\ twice' = twice
      BY <2>6, EmptyIsDict DEF Checkpoint, Baseline, ShapeInv
    <3> QED
      BY <2>6, <3>1, CheckpointKeepsField
  <2>7. CASE Restart
    <3>1. ShapeInv' /\ twice' = twice
      BY <2>7, EmptyIsDict DEF Restart, ShapeInv
    <3> QED
      BY <2>7, <3>1, RestartKeepsField
  <2>8. CASE Rewind \/ LookupFails \/ UNCHANGED vars
    <3>1. ShapeInv' /\ twice' = twice
      BY <2>8 DEF Rewind, LookupFails, ShapeInv, vars, kernelVars, dumpVars, ghostVars
    <3> QED
      BY <2>8, <3>1, OtherStepsKeepField
  <2> QED
    BY <2>1, <2>2, <2>3, <2>4, <2>5, <2>6, <2>7, <2>8 DEF Next, Kernel, Collector
<1> QED
  BY <1>1, <1>2, TypeCorrect, PTL DEF Spec

\* No overstatement: the rows of a flow that no dump met twice never add up to more
\* than was counted for it, over any number of restarts and evictions.
THEOREM NeverOverreports == Spec => []NoOverreport
<1>1. LedgerInv => NoOverreport
  BY DEF LedgerInv, FieldInv, WithinCounted, NoOverreport, AtMost
<1> QED
  BY <1>1, LedgerIsInvariant, PTL

\* No row reports what was counted before the dump behind its baseline began.
THEOREM RowsStayWithinInterval == Spec => RowWithinInterval
<1>1. TypeOK /\ LedgerInv /\ [Next]_vars =>
        [\A f \in Flows \ twice' :
           AtMost(Plus(mark[f], reported'[f]), Plus(counted[f], reported[f]))]_vars
  <2> SUFFICES ASSUME TypeOK, LedgerInv, Next, NEW f \in Flows \ twice', NEW x \in Fields
               PROVE  mark[f][x] + reported'[f][x] <= counted[f][x] + reported[f][x]
    BY DEF AtMost, Plus
  <2>1. f \in Flows \ twice
    BY DEF Next, Kernel, Collector, Insert, Count, BeginDump, NextKey, Lookup, LookupFails,
           Rewind, Checkpoint, Restart, ghostVars
  <2>2. FieldInv(f, x)
    BY <2>1 DEF LedgerInv
  <2>3. CASE Checkpoint
    <3>1. reported'[f][x] = reported[f][x] + Due(f, x)
      BY <2>3 DEF Checkpoint, Plus, Due
    <3> QED
      BY <2>2, <3>1, Numbers, DueValue DEF FieldInv, WithinCounted, TotalInv
  <2>4. CASE ~Checkpoint
    <3>1. reported' = reported
      BY <2>4 DEF Next, Kernel, Collector, Insert, Count, BeginDump, NextKey, Lookup,
                  LookupFails, Rewind, Restart, ghostVars
    <3> QED
      BY <2>2, <3>1, Numbers DEF FieldInv, WithinCounted
  <2> QED
    BY <2>3, <2>4
<1> QED
  BY <1>1, TypeCorrect, LedgerIsInvariant, PTL DEF Spec, RowWithinInterval

---------------------------------------------------------------------------------
(* Exactness.                                                                     *)

\* A lookup keeps a known flow's total at or above its baseline.
LEMMA LookupKeepsIntact ==
  ASSUME TypeOK, TypeOK', LedgerInv, Lookup, NEW f \in Flows \ twice', IntactInv(f)
  PROVE  IntactInv(f)'
<1>1. PICK v \in [Fields -> 0 .. MaxCount] :
        AtMost(floor, v) /\ totals' = Aggregate(cursor, v)
  BY DEF Lookup
<1>2. /\ phase = "lookup" /\ phase' = "next" /\ cursor \in live
      /\ twice' = twice \cup ({cursor} \cap DOMAIN totals)
      /\ staleRead' = staleRead \ {cursor}
  BY DEF Lookup
<1>3. UNCHANGED <<live, cursor, behind, previous, staleBase>>
  BY DEF Lookup, kernelVars
<1>. DEFINE read == Aggregate(cursor, v)
<1>4. v \in Counters /\ IsDict(totals) /\ cursor \in Flows
  BY CollectorAssumption, <1>2 DEF Counters, TypeOK
<1>5. /\ DOMAIN read = DOMAIN totals \cup {cursor}
      /\ \A g \in DOMAIN totals : g # cursor => read[g] = totals[g]
      /\ cursor \notin DOMAIN totals => \A x \in Fields : read[cursor][x] = v[x]
  BY <1>4, AggregateEntry
<1>6. totals' = read
  BY <1>1
<1> HIDE DEF read
<1>7. CASE f = cursor
  <2>1. f \notin DOMAIN totals /\ f \in Flows \ twice
    BY <1>2, <1>7
  <2>2. ASSUME f \in DOMAIN previous \ staleBase, NEW x \in Fields
        PROVE  previous[f][x] <= totals'[f][x]
    <3>1. previous[f][x] <= floor[x]
      BY <1>2, <1>7, <2>1, <2>2 DEF LedgerInv, FieldInv, LookupInv
    <3>2. floor[x] <= v[x] /\ totals'[f][x] = v[x]
      BY <1>1, <1>5, <1>6, <1>7, <2>1 DEF AtMost
    <3>3. previous[f][x] \in Nat /\ floor[x] \in Nat /\ v[x] \in Nat
      BY <1>4, <2>2, Numbers DEF Counters
    <3> QED
      BY <3>1, <3>2, <3>3
  <2> QED
    BY <1>2, <1>3, <1>5, <1>6, <1>7, <2>2 DEF IntactInv, AtMost
<1>8. CASE f # cursor
  <2>1. f \in DOMAIN totals' <=> f \in DOMAIN totals
    BY <1>5, <1>6, <1>8
  <2>2. f \in DOMAIN totals => totals'[f] = totals[f]
    BY <1>5, <1>6, <1>8
  <2> QED
    BY <1>2, <1>3, <1>8, <2>1, <2>2 DEF IntactInv, AtMost
<1> QED
  BY <1>7, <1>8

\* Continuity is an invariant.
THEOREM ContinuityIsInvariant == Spec => []ContinuityInv
<1>1. Init => ContinuityInv
  BY EmptyIsDict DEF Init, ContinuityInv, IntactInv
<1>2. TypeOK /\ TypeOK' /\ LedgerInv /\ ContinuityInv /\ [Next]_vars => ContinuityInv'
  <2> SUFFICES ASSUME TypeOK, TypeOK', LedgerInv, ContinuityInv, [Next]_vars
               PROVE  ContinuityInv'
    OBVIOUS
  <2> USE DEF ContinuityInv
  <2>1. ASSUME NEW g \in Flows, Insert(g) PROVE ContinuityInv'
    <3>1. PICK victims \in SUBSET live :
            /\ live' = (live \ victims) \cup {g}
            /\ staleBase' = staleBase \cup (victims \cap DOMAIN previous)
            /\ staleRead' = staleRead \cup (victims \cap DOMAIN totals)
      BY <2>1 DEF Insert, Victims
    <3>2. /\ UNCHANGED <<phase, cursor, totals, previous, twice>>
          /\ g \notin live /\ behind' \in {behind, behind \cup {g}}
          /\ cursor = NoFlow => behind' = behind
      BY <2>1 DEF Insert
    <3>3. phase' = "sleep" => behind' = {}
      <4>1. phase = "sleep" => cursor = NoFlow
        BY DEF LedgerInv, ShapeInv
      <4> QED
        BY <3>2, <4>1
    <3>4. ASSUME NEW f \in Flows \ twice, IntactInv(f) PROVE IntactInv(f)'
      BY <3>1, <3>2, <3>4 DEF IntactInv, AtMost
    <3> QED
      BY <3>2, <3>3, <3>4
  <2>2. CASE \E g \in Flows : Count(g)
    BY <2>2 DEF Count, dumpVars, IntactInv, AtMost
  <2>3. CASE BeginDump
    BY <2>3 DEF BeginDump, kernelVars, IntactInv, AtMost
  <2>4. ASSUME NEW g \in Flows, NextKey(g) PROVE ContinuityInv'
    BY <2>4 DEF NextKey, kernelVars, ghostVars, IntactInv, AtMost
  <2>5. CASE Lookup
    <3>1. twice \subseteq twice' /\ phase' = "next"
      BY <2>5 DEF Lookup
    <3> QED
      BY <2>5, <3>1, LookupKeepsIntact
  <2>6. CASE LookupFails
    BY <2>6 DEF LookupFails, kernelVars, ghostVars, IntactInv, AtMost
  <2>7. CASE Rewind
    BY <2>7 DEF Rewind, kernelVars, ghostVars, IntactInv, AtMost
  <2>8. CASE Checkpoint
    <3>1. /\ previous' = totals /\ staleBase' = staleRead /\ totals' = EmptyDict
          /\ behind' = {} /\ phase' = "sleep" /\ UNCHANGED <<live, twice>>
      BY <2>8 DEF Checkpoint, Baseline, kernelVars
    <3> QED
      BY <3>1, EmptyIsDict DEF IntactInv, AtMost
  <2>9. CASE Restart
    <3>1. /\ previous' = EmptyDict /\ totals' = EmptyDict /\ behind' = {}
          /\ twice' = twice
      BY <2>9 DEF Restart
    <3> QED
      BY <3>1, EmptyIsDict DEF IntactInv, AtMost
  <2>10. CASE UNCHANGED vars
    BY <2>10 DEF vars, kernelVars, dumpVars, ghostVars, IntactInv, AtMost
  <2> QED
    BY <2>1, <2>2, <2>3, <2>4, <2>5, <2>6, <2>7, <2>8, <2>9, <2>10
       DEF Next, Kernel, Collector
<1> QED
  BY <1>1, <1>2, TypeCorrect, LedgerIsInvariant, PTL DEF Spec

\* A flow whose entry lived on gets the exact difference of every field.
THEOREM DeltasAreExact == Spec => IntactDelta
<1>1. TypeOK /\ LedgerInv /\ ContinuityInv /\ [Next]_vars =>
        [Checkpoint =>
           \A f \in DOMAIN previous \ (staleBase \cup twice) :
             /\ f \in DOMAIN totals
             /\ totals[f] =
                  Plus(previous[f], [x \in Fields |-> reported'[f][x] - reported[f][x]])]_vars
  <2> SUFFICES ASSUME TypeOK, LedgerInv, ContinuityInv, Checkpoint,
                      NEW f \in DOMAIN previous \ (staleBase \cup twice)
               PROVE  /\ f \in DOMAIN totals
                      /\ totals[f] = Plus(previous[f],
                                          [x \in Fields |-> reported'[f][x] - reported[f][x]])
    OBVIOUS
  <2>1. f \in Flows /\ IntactInv(f)
    BY DEF TypeOK, IsDict, ContinuityInv
  <2>2. f \in DOMAIN totals
    BY <2>1 DEF Checkpoint, IntactInv
  <2>3. ASSUME NEW x \in Fields
        PROVE  totals[f][x] = previous[f][x] + (reported'[f][x] - reported[f][x])
    <3>1. reported'[f][x] = reported[f][x] + Due(f, x)
      BY <2>1 DEF Checkpoint, Plus, Due
    <3>2. previous[f][x] <= totals[f][x]
      BY <2>1, <2>2 DEF IntactInv, AtMost
    <3>3. Due(f, x) = totals[f][x] - previous[f][x]
      BY <2>1, <2>2, <3>2, Numbers, DueValue
    <3>4. totals[f][x] \in Nat /\ previous[f][x] \in Nat /\ reported[f][x] \in Nat
      BY <2>1, <2>2, Numbers
    <3> QED
      BY <3>1, <3>2, <3>3, <3>4
  <2>4. totals[f] \in Counters
    BY <2>2, DictValue DEF TypeOK
  <2> QED
    BY <2>2, <2>3, <2>4 DEF Plus, Counters
<1> QED
  BY <1>1, TypeCorrect, LedgerIsInvariant, ContinuityIsInvariant, PTL DEF Spec, IntactDelta

---------------------------------------------------------------------------------
(* Maps that do not evict.                                                        *)

\* Without evictions the iteration never loses its place: the cursor's entry stays
\* and every entry that was read has been passed.
THEOREM HashIsInvariant == Spec => []HashInv
<1>1. Init => HashInv
  BY EmptyIsDict DEF Init, HashInv
<1>2. TypeOK /\ ShapeInv /\ HashInv /\ [Next]_vars => HashInv'
  <2> SUFFICES ASSUME TypeOK, ShapeInv, HashInv, [Next]_vars, ~Lru PROVE HashInv'
    BY DEF HashInv
  <2> USE DEF HashInv
  <2>1. ASSUME NEW g \in Flows, Insert(g) PROVE HashInv'
    BY <2>1 DEF Insert, Victims
  <2>2. ASSUME NEW g \in Flows, Count(g) PROVE HashInv'
    BY <2>2 DEF Count, dumpVars
  <2>3. CASE BeginDump
    BY <2>3 DEF BeginDump, kernelVars
  <2>4. ASSUME NEW g \in Flows, NextKey(g) PROVE HashInv'
    BY <2>4 DEF NextKey, kernelVars, ghostVars
  <2>5. CASE Lookup
    <3>1. DOMAIN totals' = DOMAIN totals \cup {cursor}
      BY <2>5 DEF Lookup, Aggregate
    <3>2. cursor \in behind
      BY <2>5 DEF Lookup, HashInv
    <3> QED
      BY <2>5, <3>1, <3>2 DEF Lookup, kernelVars
  <2>6. CASE LookupFails
    BY <2>6, CollectorAssumption DEF LookupFails, ShapeInv
  <2>7. CASE Rewind
    BY <2>7 DEF Rewind, CursorLost
  <2>8. CASE Checkpoint
    BY <2>8, EmptyIsDict DEF Checkpoint, ShapeInv, kernelVars
  <2>9. CASE Restart
    BY <2>9, EmptyIsDict DEF Restart
  <2>10. CASE UNCHANGED vars
    BY <2>10 DEF vars, kernelVars, dumpVars, ghostVars
  <2> QED
    BY <2>1, <2>2, <2>3, <2>4, <2>5, <2>6, <2>7, <2>8, <2>9, <2>10
       DEF Next, Kernel, Collector
<1>3. LedgerInv => ShapeInv
  BY DEF LedgerInv
<1> QED
  BY <1>1, <1>2, <1>3, TypeCorrect, LedgerIsInvariant, PTL DEF Spec

\* A dump of a map that does not evict reads no entry twice and does not fail.
THEOREM HashDumpsAreSafe == Spec => []HashDumpIsSafe
<1>1. HashInv => HashDumpIsSafe
  BY DEF HashInv, HashDumpIsSafe
<1> QED
  BY <1>1, HashIsInvariant, PTL

\* The collector on a map that does not evict implements the meter: counting is
\* Count, a checkpoint is Report, and every other step stutters.
THEOREM HashImplementsMeter == ASSUME ~Lru PROVE Spec => MeterSpec
<1>1. Init => Meter!Init
  BY DEF Init, Meter!Init, Zero, Meter!Zero
<1>2. TypeOK /\ TypeOK' /\ LedgerInv' /\ HashInv' /\ [Next]_vars
        => [Meter!Next]_Meter!meterVars
  <2> SUFFICES ASSUME TypeOK, TypeOK', LedgerInv', HashInv', [Next]_vars
               PROVE  [Meter!Next]_Meter!meterVars
    OBVIOUS
  <2>0. counted' \in [Flows -> Meter!Counters] /\ reported' \in [Flows -> Meter!Counters]
    BY DEF TypeOK, Counters, Meter!Counters
  <2>1. ASSUME NEW g \in Flows, Count(g) PROVE Meter!Count
    <3>1. PICK inc \in Increments : counted' = [counted EXCEPT ![g] = Plus(@, inc)]
      BY <2>1 DEF Count
    <3>2. ASSUME NEW f \in Flows, NEW x \in Fields PROVE counted[f][x] <= counted'[f][x]
      BY <3>1, CollectorAssumption, Numbers DEF Plus, TypeOK, Counters
    <3> QED
      BY <2>0, <2>1, <3>2 DEF Count, Meter!Count, Meter!AtMost
  <2>2. CASE Checkpoint
    <3>1. counted' = counted
      BY <2>2 DEF Checkpoint
    <3>2. ASSUME NEW f \in Flows, NEW x \in Fields
          PROVE  reported[f][x] <= reported'[f][x] /\ reported'[f][x] <= counted[f][x]
      <4>1. reported'[f][x] = reported[f][x] + Due(f, x)
        BY <2>2 DEF Checkpoint, Plus, Due
      <4>2. reported'[f][x] <= counted'[f][x]
        BY DEF HashInv, LedgerInv, FieldInv, WithinCounted
      <4> QED
        BY <3>1, <4>1, <4>2, Numbers
    <3> QED
      BY <2>0, <3>1, <3>2 DEF Meter!Next, Meter!Report, Meter!AtMost
  <2>3. CASE ~Checkpoint /\ ~\E g \in Flows : Count(g)
    <3>1. UNCHANGED <<counted, reported>>
      BY <2>3 DEF Next, Kernel, Collector, Insert, BeginDump, NextKey, Lookup, LookupFails,
                  Rewind, Restart, ghostVars, vars
    <3> QED
      BY <3>1 DEF Meter!meterVars
  <2> QED
    BY <2>1, <2>2, <2>3 DEF Meter!Next
<1> QED
  BY <1>1, <1>2, TypeCorrect, LedgerIsInvariant, HashIsInvariant, PTL
     DEF Spec, MeterSpec, Meter!Spec

=================================================================================

---------------------------- MODULE AnalyzerRunProofs ----------------------------
(* Proofs about AnalyzerRun, for every set of command lines and every bound.       *)
EXTENDS AnalyzerRun, TLAPS, SequenceTheorems

---------------------------------------------------------------------------------
(* The inductive invariant: what the place in the code says about the rest.       *)

\* Which handlers are installed, and which exception is propagating.
HandlersByPlace ==
  /\ pc \in Constructor \cup {"undo", "writer", "handle_term"} => handlers = {}
  /\ pc = "handle_int" => handlers = {"TERM"}
  /\ pc \in Loop \cup Cleanup => handlers = {"TERM", "INT"}
  /\ pc \in Stopping => handlers \in {{}, {"TERM", "INT"}}
  /\ pc # "exited" => status = "running"
  /\ pc = "undo" => pending # "none"

\* What is attached before, during and after finally.
ResourcesByPlace ==
  /\ filter = "self" => opt.attach
  /\ pc \in {"close_filter", "flush", "close"} => opt.keep \/ ~loader
  /\ pc \in {"flush", "close"} => opt.keep \/ swallowed \/ filter # "self"
  /\ status = "ok" => opt.keep \/ (~loader /\ (swallowed \/ filter # "self"))

Elems(s) == {s[i] : i \in 1 .. Len(s)}
Increasing(s) == \A i, j \in 1 .. Len(s) : i < j => s[i] < s[j]

\* The rows the writer holds or has stored.
Kept == Elems(stored) \cup Elems(buffer)

\* The writer's rows are in order, and what it will append comes after what is stored;
\* a Parquet writer has no file before it flushes, and then all it holds is in there.
RowsInOrder ==
  /\ Increasing(stored) /\ Increasing(buffer)
  /\ opt.storage # "parquet" => \A r \in Elems(stored), q \in Elems(buffer) : r < q
  /\ opt.storage = "parquet" /\ pc # "exited" =>
       stored = IF pc = "close" THEN buffer ELSE <<>>
  /\ pc \in {"emit", "write"} /\ batch # 0 => batch = taken /\ \A r \in Kept : r < batch

\* When the writer holds nothing that is not stored; only SQLite's has a transaction.
NothingHeld ==
  /\ pc = "commit" => opt.storage = "sqlite"
  /\ opt.storage \in {"none", "duckdb", "clickhouse"} => buffer = <<>>
  /\ opt.storage = "sqlite" /\ pc \notin {"commit", "exited"} /\ ~Cleaning => buffer = <<>>
  /\ opt.storage # "parquet" /\ pc = "close" => buffer = <<>>

\* The writer has the rows of every checkpoint, the last included.
Complete ==
  \/ Constructing \/ pc \in Unprotected \cup {"read", "commit", "check", "sleep"}
  \/ pc \in {"emit", "write"} /\ batch = 0
  \/ Cleaning /\ signals = 0 /\ pending = "none"

\* No rows but those of the last checkpoint are ever missing.
NothingLost ==
  opt.storage # "none" =>
    /\ pc # "exited" => 1 .. taken - 1 \subseteq Kept
    /\ Complete => 1 .. taken \subseteq Kept
    /\ opt.storage # "parquet" => 1 .. taken - 1 \subseteq Stored
    /\ status = "ok" => 1 .. taken - 1 \subseteq Stored
    /\ status = "ok" /\ signals = 0 => 1 .. taken \subseteq Stored

ControlInv == HandlersByPlace /\ ResourcesByPlace /\ FailureCleansUpToo
RowsInv == RowsInOrder /\ NothingHeld /\ NothingLost

---------------------------------------------------------------------------------
(* Type correctness.                                                              *)

Statuses == {"running", "ok", "interrupted", "error", "traceback", "killed"}

\* The two halves of TypeOK: the process with its attachments, and the writer's rows.
ProcessTyped ==
  /\ opt \in Options /\ pc \in Places
  /\ handlers \subseteq {"TERM", "INT"} /\ stopping \in BOOLEAN
  /\ pending \in {"none", "runtime", "other"} /\ status \in Statuses
  /\ filter \in {"none", "self", "other"} /\ loader \in BOOLEAN
  /\ outside \in BOOLEAN /\ swallowed \in BOOLEAN /\ denied \in BOOLEAN
  /\ signals \in Nat /\ faults \in Nat

RowsTyped ==
  /\ taken \in Nat /\ batch \in 0 .. taken
  /\ buffer \in Seq(1 .. taken) /\ stored \in Seq(1 .. taken)

\* TypeOK is the two together.
LEMMA TypeOKParts == TypeOK <=> ProcessTyped /\ RowsTyped
  BY DEF TypeOK, ProcessTyped, RowsTyped, Statuses

\* An exception leaves a place, a pending exception or an exit status.
LEMMA RaiseType ==
  ASSUME ProcessTyped, NEW exc \in {"keyboard", "runtime", "other"}, Raise(exc)
  PROVE  pc' \in Places /\ pending' \in {"none", "runtime", "other"} /\ status' \in Statuses
  BY DEF ProcessTyped, Raise, Exit, Outcome, Places, Constructor, Unprotected, Loop, Stopping, Cleanup,
         Constructing, Cleaning,
         Statuses

\* So does an operation that fails, which changes no other control variable.
LEMMA FailsType ==
  ASSUME ProcessTyped, NEW exc \in {"keyboard", "runtime", "other"}, Fails(exc)
  PROVE  /\ pc' \in Places /\ pending' \in {"none", "runtime", "other"} /\ status' \in Statuses
         /\ faults' \in Nat /\ UNCHANGED <<outside, swallowed, denied, signals>>
  BY RaiseType DEF Fails, ProcessTyped

\* The process stays well-typed.
LEMMA ProcessTypedStep == ProcessTyped /\ [Next]_vars => ProcessTyped'
<1> SUFFICES ASSUME ProcessTyped, [Next]_vars PROVE ProcessTyped'
  OBVIOUS
<1> USE DEF ProcessTyped
<1>a. Places = {"attach", "find", "delivery", "undo", "writer", "handle_term", "handle_int",
                "read", "emit", "write", "commit", "check", "sleep",
                "stop_loader", "await_loader", "kill_loader", "drain_loader",
                "close_loader", "close_filter", "flush", "close", "exited"}
  BY DEF Places, Constructor, Unprotected, Loop, Stopping, Cleanup, Constructing, Cleaning
<1>1. CASE AttachFilter
  BY <1>1, <1>a, FailsType DEF AttachFilter, Goto, bounds
<1>2. CASE FindMap
  BY <1>2, <1>a, RaiseType, FailsType DEF FindMap, Goto, resources, bounds
<1>3. CASE ConfigureDelivery
  <2>1. loader' \in BOOLEAN
    BY <1>3 DEF ConfigureDelivery
  <2>2. /\ outside' \in BOOLEAN /\ swallowed' \in BOOLEAN /\ denied' \in BOOLEAN
        /\ signals' \in Nat /\ faults' \in Nat
    BY <1>3, FailsType DEF ConfigureDelivery, Goto, bounds
  <2>3. pc' \in Places /\ pending' \in {"none", "runtime", "other"} /\ status' \in Statuses
    BY <1>3, <1>a, RaiseType, FailsType DEF ConfigureDelivery, Goto
  <2> QED
    BY <1>3, <2>1, <2>2, <2>3 DEF ConfigureDelivery
<1>b. ASSUME DetachFilter \/ UNCHANGED <<filter, bounds>>
     PROVE  /\ filter' \in {"none", "self", "other"} /\ faults' \in Nat /\ signals' \in Nat
            /\ outside' \in BOOLEAN /\ swallowed' \in BOOLEAN /\ denied' \in BOOLEAN
  <2>1. filter' \in {"none", "self", "other"} /\ faults' \in Nat /\ signals' \in Nat
    BY <1>b DEF DetachFilter, bounds
  <2>2. outside' \in BOOLEAN /\ swallowed' \in BOOLEAN /\ denied' \in BOOLEAN
    BY <1>b, Zenon DEF DetachFilter, bounds
  <2> QED
    BY <2>1, <2>2
<1>4. CASE Undo
  <2>1. pc' \in Places /\ pending' \in {"none", "runtime", "other"} /\ status' \in Statuses
    BY <1>4, <1>a DEF Undo, Exit, Outcome, Statuses
  <2> QED
    BY <1>4, <1>b, <2>1 DEF Undo
<1>5. CASE CreateWriter
  BY <1>5, <1>a, FailsType DEF CreateWriter, Goto, resources, bounds
<1>6. CASE InstallHandler
  BY <1>6, <1>a DEF InstallHandler, Goto, resources, bounds
<1>7. CASE Read
  BY <1>7, <1>a, FailsType DEF Read, Goto, resources, bounds
<1>8. CASE Emit
  BY <1>8, <1>a, FailsType DEF Emit, Goto, resources, bounds
<1>9. CASE Write
  BY <1>9, <1>a, FailsType DEF Write, Goto, resources, bounds
<1>10. CASE Commit
  BY <1>10, <1>a, FailsType DEF Commit, Goto, resources, bounds
<1>11. CASE Check
  BY <1>11, <1>a DEF Check, Goto, resources, bounds
<1>12. CASE Sleep
  BY <1>12, <1>a DEF Sleep, Goto, resources, bounds
<1>13. CASE CloseLoader
  BY <1>13, <1>a DEF CloseLoader, Goto, resources, bounds
<1>14. CASE CloseFilter
  BY <1>14, <1>a, <1>b DEF CloseFilter, Goto
<1>19. CASE Stop \/ DrainLoader
  <2>1. loader' \in BOOLEAN /\ denied' \in BOOLEAN
    BY <1>19, Zenon DEF Stop, StopLoader, AwaitLoader, KillLoader, DrainLoader, Denied,
                        resources, bounds
  <2>2. outside' \in BOOLEAN /\ swallowed' \in BOOLEAN /\ signals' \in Nat /\ faults' \in Nat
    BY <1>19 DEF Stop, StopLoader, AwaitLoader, KillLoader, DrainLoader, Denied, bounds
  <2>3. pc' \in Places /\ pending' \in {"none", "runtime", "other"} /\ status' \in Statuses
    BY <1>19, <1>a, RaiseType
       DEF Stop, StopLoader, AwaitLoader, KillLoader, DrainLoader, Denied, Detached, Goto
  <2>4. UNCHANGED <<opt, handlers, stopping, filter>>
    BY <1>19 DEF Stop, StopLoader, AwaitLoader, KillLoader, DrainLoader, resources
  <2> QED
    BY <2>1, <2>2, <2>3, <2>4
<1>15. CASE Flush
  BY <1>15, <1>a, FailsType DEF Flush, Goto, resources, bounds
<1>16. CASE CloseWriter
  BY <1>16, <1>a, FailsType DEF CloseWriter, Exit, Outcome, resources, bounds, Statuses
<1>17. ASSUME NEW sig \in {"TERM", "INT"}, Signal(sig) PROVE ProcessTyped'
  <2>1. pc' \in Places /\ pending' \in {"none", "runtime", "other"} /\ status' \in Statuses
    BY <1>17, <1>a, RaiseType DEF Signal, OnSignal, Exit, Statuses
  <2>2. stopping' \in BOOLEAN /\ outside' \in BOOLEAN
    BY <1>17, Zenon DEF Signal, OnSignal
  <2> QED
    BY <1>17, <2>1, <2>2 DEF Signal, resources
<1>18. CASE UNCHANGED vars
  BY <1>18 DEF vars, resources, bounds
<1> QED
  BY <1>1, <1>2, <1>3, <1>4, <1>5, <1>6, <1>7, <1>8, <1>9, <1>10, <1>11, <1>12, <1>13,
     <1>14, <1>15, <1>16, <1>17, <1>18, <1>19 DEF Next, Process, Start, Poll, Finish

\* What a writer may append is rows of checkpoints there have been.
LEMMA AppendedRowsType ==
  ASSUME RowsTyped
  PROVE  /\ buffer \in Seq(1 .. taken + 1) /\ stored \in Seq(1 .. taken + 1)
         /\ <<>> \in Seq(1 .. taken)
         /\ InHand \in Seq(1 .. taken)
         /\ buffer \o InHand \in Seq(1 .. taken) /\ stored \o InHand \in Seq(1 .. taken)
         /\ stored \o buffer \in Seq(1 .. taken)
<1>1. 1 .. taken \subseteq 1 .. taken + 1
  BY DEF RowsTyped
<1>2. buffer \in Seq(1 .. taken + 1) /\ stored \in Seq(1 .. taken + 1)
  BY <1>1, SeqMonotonic DEF RowsTyped
<1>3. <<>> \in Seq(1 .. taken)
  BY EmptySeq
<1>4. InHand \in Seq(1 .. taken)
  <2>1. batch # 0 => batch \in 1 .. taken
    BY DEF RowsTyped
  <2>2. \A S : \A x \in S : <<x>> \in Seq(S)
    OBVIOUS
  <2> QED
    BY <1>3, <2>1, <2>2 DEF InHand
<1> QED
  BY <1>2, <1>3, <1>4, ConcatProperties DEF RowsTyped

\* The writer's rows stay well-typed.
LEMMA RowsTypedStep == RowsTyped /\ [Next]_vars => RowsTyped'
<1> SUFFICES ASSUME RowsTyped, [Next]_vars PROVE RowsTyped'
  OBVIOUS
<1>1. CASE UNCHANGED rows
  BY <1>1 DEF RowsTyped, rows
<1>2. CASE Read
  <2>1. /\ taken' \in {taken, taken + 1} /\ batch' \in 0 .. taken'
        /\ UNCHANGED <<buffer, stored>>
    BY <1>2 DEF Read, RowsTyped
  <2> QED
    BY <2>1, AppendedRowsType DEF RowsTyped
<1>3. CASE Write
  <2>1. /\ buffer' \in {buffer, buffer \o InHand} /\ stored' \in {stored, stored \o InHand}
        /\ taken' = taken /\ batch' = 0
    BY <1>3 DEF Write
  <2>2. buffer' \in Seq(1 .. taken) /\ stored' \in Seq(1 .. taken)
    BY <2>1, AppendedRowsType DEF RowsTyped
  <2>3. batch' \in 0 .. taken /\ taken' \in Nat
    BY <2>1 DEF RowsTyped
  <2> QED
    BY <2>1, <2>2, <2>3 DEF RowsTyped
<1>4. CASE Commit \/ Flush \/ CloseWriter
  <2>1. /\ buffer' \in {buffer, <<>>} /\ stored' \in {stored, buffer, stored \o buffer}
        /\ taken' = taken /\ batch' = batch
    BY <1>4 DEF Commit, Flush, CloseWriter, ParquetFile
  <2> QED
    BY <2>1, AppendedRowsType DEF RowsTyped
<1>5. ASSUME NEW sig \in {"TERM", "INT"}, Signal(sig) PROVE UNCHANGED rows
  BY <1>5 DEF Signal
<1>6. ASSUME Start PROVE UNCHANGED rows
  <2>1. AttachFilter \/ FindMap \/ ConfigureDelivery => UNCHANGED rows
    BY DEF AttachFilter, FindMap, ConfigureDelivery
  <2>2. Undo \/ CreateWriter \/ InstallHandler => UNCHANGED rows
    BY DEF Undo, CreateWriter, InstallHandler
  <2> QED
    BY <1>6, <2>1, <2>2 DEF Start
<1>7. ASSUME Emit \/ Check \/ Sleep \/ Stop \/ DrainLoader \/ CloseLoader \/ CloseFilter
               \/ UNCHANGED vars
     PROVE  UNCHANGED rows
  <2>1. CloseLoader \/ CloseFilter => UNCHANGED rows
    BY DEF CloseLoader, CloseFilter
  <2>2. Stop \/ DrainLoader => UNCHANGED rows
    BY DEF Stop, StopLoader, AwaitLoader, KillLoader, DrainLoader
  <2> QED
    BY <1>7, <2>1, <2>2 DEF Emit, Check, Sleep, vars
<1> QED
  BY <1>1, <1>2, <1>3, <1>4, <1>5, <1>6, <1>7 DEF Next, Process, Poll, Finish

\* TypeOK is an invariant: operations, their failures and signals alike keep the
\* process, its attachments and the writer's rows in their domains.
THEOREM TypeCorrect == Spec => []TypeOK
<1>1. Init => ProcessTyped
  <2>1. Init => stopping \in BOOLEAN /\ loader \in BOOLEAN /\ outside \in BOOLEAN /\ swallowed \in BOOLEAN
    BY Zenon DEF Init
  <2>2. Init => pc \in Places /\ status \in Statuses /\ handlers \subseteq {"TERM", "INT"}
    BY DEF Init, Places, Constructor, Statuses
  <2>3. Init => signals \in Nat /\ faults \in Nat
    BY DEF Init
  <2> QED
    BY <2>1, <2>2, <2>3 DEF Init, ProcessTyped
<1>2. Init => RowsTyped
  <2>1. <<>> \in Seq(1 .. taken)
    BY EmptySeq
  <2> QED
    BY <2>1 DEF Init, RowsTyped
<1>3. TypeOK /\ [Next]_vars => TypeOK'
  <2>1. TypeOK' <=> ProcessTyped' /\ RowsTyped'
    BY DEF TypeOK, ProcessTyped, RowsTyped, Statuses
  <2> QED
    BY <2>1, TypeOKParts, ProcessTypedStep, RowsTypedStep
<1> QED
  BY <1>1, <1>2, <1>3, TypeOKParts, PTL DEF Spec

---------------------------------------------------------------------------------
(* What is attached, and what a run leaves attached.                              *)

\* An exception that leaves the loop enters finally; elsewhere it ends the process or
\* the constructor, and never with exit status 0.
LEMMA RaiseControl ==
  ASSUME TypeOK, HandlersByPlace, NEW exc \in {"keyboard", "runtime", "other"}, Raise(exc)
  PROVE  \/ Constructing /\ pc' = "undo" /\ status' = "running" /\ pending' # "none"
         \/ pc \in Loop /\ pc' = "close_loader" /\ status' = "running"
         \/ /\ Constructing \/ pc \in Unprotected \/ Cleaning
            /\ pc' = "exited" /\ status' # "ok"
  BY DEF TypeOK, HandlersByPlace, Raise, Exit, Outcome, Constructor, Unprotected, Loop,
     Stopping, Cleanup, Constructing, Cleaning

\* What tc does when it is asked to delete the filter.
LEMMA DetachResult ==
  ASSUME DetachFilter
  PROVE  /\ filter' = "none" \/ (filter' = filter /\ swallowed')
         /\ swallowed => swallowed'
         /\ UNCHANGED <<outside, signals>>
<1>1. filter' = "none" \/ (filter' = filter /\ swallowed')
  BY DEF DetachFilter
<1>2. (swallowed => swallowed') /\ UNCHANGED <<outside, signals>>
  BY DEF DetachFilter, bounds
<1> QED
  BY <1>1, <1>2

\* Once the loop has begun, no exception can end the process before close() has run,
\* and finally is broken off by signals alone.
LEMMA ControlInvStep == TypeOK /\ ControlInv /\ [Next]_vars => ControlInv'
<1> SUFFICES ASSUME TypeOK, ControlInv, [Next]_vars PROVE ControlInv'
  OBVIOUS
<1> USE DEF ControlInv, HandlersByPlace, ResourcesByPlace, FailureCleansUpToo,
            Constructor, Unprotected, Loop, Stopping, Cleanup, Constructing, Cleaning, Goto
<1>1. CASE AttachFilter
  BY <1>1, RaiseControl DEF AttachFilter, Fails, bounds
<1>2. CASE FindMap
  BY <1>2, RaiseControl DEF FindMap, Fails, resources, bounds
<1>3. CASE ConfigureDelivery
  BY <1>3, RaiseControl DEF ConfigureDelivery, Fails, bounds
<1>4. CASE Undo
  BY <1>4, DetachResult DEF Undo, Exit, Outcome, TypeOK
<1>5. CASE CreateWriter
  BY <1>5, RaiseControl DEF CreateWriter, Fails, resources, bounds
<1>6. CASE InstallHandler
  BY <1>6 DEF InstallHandler, resources, bounds
<1>7. CASE Read
  BY <1>7, RaiseControl DEF Read, Fails, resources, bounds
<1>8. CASE Emit
  BY <1>8, RaiseControl DEF Emit, Fails, resources, bounds
<1>9. CASE Write
  BY <1>9, RaiseControl DEF Write, Fails, resources, bounds
<1>10. CASE Commit
  BY <1>10, RaiseControl DEF Commit, Fails, resources, bounds
<1>11. CASE Check
  BY <1>11 DEF Check, resources, bounds
<1>12. CASE Sleep
  BY <1>12 DEF Sleep, resources, bounds
<1>13. CASE CloseLoader
  BY <1>13 DEF CloseLoader, resources, bounds
<1>14. CASE CloseFilter
  BY <1>14, DetachResult DEF CloseFilter, bounds
<1>19. CASE StopLoader \/ KillLoader
  BY <1>19, RaiseControl DEF StopLoader, KillLoader, Allowed, Denied, resources, bounds
<1>20. CASE AwaitLoader \/ DrainLoader
  BY <1>20, RaiseControl DEF AwaitLoader, DrainLoader, Detached, bounds
<1>15. CASE Flush
  BY <1>15, RaiseControl DEF Flush, Fails, resources, bounds
<1>16. CASE CloseWriter
  BY <1>16, RaiseControl DEF CloseWriter, Exit, Outcome, Fails, resources, bounds
<1>17. ASSUME NEW sig \in {"TERM", "INT"}, Signal(sig) PROVE ControlInv'
  BY <1>17, RaiseControl DEF Signal, OnSignal, Exit, resources, bounds
<1>18. CASE UNCHANGED vars
  BY <1>18 DEF vars, resources, bounds
<1> QED
  BY <1>1, <1>2, <1>3, <1>4, <1>5, <1>6, <1>7, <1>8, <1>9, <1>10, <1>11, <1>12, <1>13,
     <1>14, <1>15, <1>16, <1>17, <1>18, <1>19, <1>20 DEF Next, Process, Start, Poll, Stop, Finish

---------------------------------------------------------------------------------
(* The rows the writer holds and has stored.                                      *)

\* Appending rows adds their checkpoints; it keeps the order when they come later.
LEMMA AppendRows ==
  ASSUME NEW s \in Seq(Nat), NEW t \in Seq(Nat)
  PROVE  /\ Elems(s \o t) = Elems(s) \cup Elems(t)
         /\ Increasing(s) /\ Increasing(t) /\ (\A r \in Elems(s), q \in Elems(t) : r < q)
              => Increasing(s \o t)
<1>1. /\ Len(s \o t) = Len(s) + Len(t) /\ Len(s) \in Nat /\ Len(t) \in Nat
      /\ \A i \in 1 .. Len(s) + Len(t) :
           (s \o t)[i] = IF i <= Len(s) THEN s[i] ELSE t[i - Len(s)]
  BY ConcatProperties, LenProperties
<1>2. Elems(s \o t) = Elems(s) \cup Elems(t)
  <2>1. ASSUME NEW r \in Elems(s \o t) PROVE r \in Elems(s) \cup Elems(t)
    <3>1. PICK i \in 1 .. Len(s) + Len(t) : r = (s \o t)[i]
      BY <1>1 DEF Elems
    <3>2. i <= Len(s) => r = s[i] /\ i \in 1 .. Len(s)
      BY <1>1, <3>1
    <3>3. i > Len(s) => r = t[i - Len(s)] /\ i - Len(s) \in 1 .. Len(t)
      BY <1>1, <3>1
    <3> QED
      BY <1>1, <3>1, <3>2, <3>3 DEF Elems
  <2>2. ASSUME NEW r \in Elems(s) PROVE r \in Elems(s \o t)
    <3>1. PICK i \in 1 .. Len(s) : r = s[i]
      BY DEF Elems
    <3>2. i \in 1 .. Len(s) + Len(t) /\ r = (s \o t)[i]
      BY <1>1, <3>1
    <3> QED
      BY <1>1, <3>2 DEF Elems
  <2>3. ASSUME NEW r \in Elems(t) PROVE r \in Elems(s \o t)
    <3>1. PICK i \in 1 .. Len(t) : r = t[i]
      BY DEF Elems
    <3>2. /\ i + Len(s) \in 1 .. Len(s) + Len(t) /\ ~(i + Len(s) <= Len(s))
          /\ i + Len(s) - Len(s) = i
      BY <1>1, <3>1
    <3>3. r = (s \o t)[i + Len(s)]
      BY <1>1, <3>1, <3>2
    <3> QED
      BY <1>1, <3>2, <3>3 DEF Elems
  <2> QED
    BY <2>1, <2>2, <2>3
<1>3. ASSUME Increasing(s), Increasing(t), \A r \in Elems(s), q \in Elems(t) : r < q
      PROVE  Increasing(s \o t)
  <2> SUFFICES ASSUME NEW i \in 1 .. Len(s) + Len(t), NEW j \in 1 .. Len(s) + Len(t), i < j
               PROVE  (s \o t)[i] < (s \o t)[j]
    BY <1>1 DEF Increasing
  <2>1. CASE j <= Len(s)
    BY <1>1, <1>3, <2>1 DEF Increasing
  <2>2. CASE i > Len(s)
    <3>1. /\ i - Len(s) \in 1 .. Len(t) /\ j - Len(s) \in 1 .. Len(t)
          /\ i - Len(s) < j - Len(s) /\ ~(i <= Len(s)) /\ ~(j <= Len(s))
      BY <1>1, <2>2
    <3> QED
      BY <1>1, <1>3, <3>1 DEF Increasing
  <2>3. CASE i <= Len(s) /\ j > Len(s)
    <3>1. i \in 1 .. Len(s) /\ j - Len(s) \in 1 .. Len(t) /\ ~(j <= Len(s))
      BY <1>1, <2>3
    <3>2. s[i] \in Elems(s) /\ t[j - Len(s)] \in Elems(t)
      BY <3>1 DEF Elems
    <3> QED
      BY <1>1, <1>3, <2>3, <3>1, <3>2
  <2> QED
    BY <1>1, <2>1, <2>2, <2>3
<1> QED
  BY <1>2, <1>3

\* The rows in hand are those of one checkpoint, or none.
LEMMA RowsInHand ==
  ASSUME TypeOK
  PROVE  /\ InHand \in Seq(Nat) /\ Increasing(InHand)
         /\ Elems(InHand) = IF batch = 0 THEN {} ELSE {batch}
         /\ Elems(<<>>) = {} /\ Increasing(<<>>)
<1>1. Len(<<>>) = 0 /\ <<>> \in Seq(Nat)
  BY EmptySeq
<1>2. Elems(<<>>) = {} /\ Increasing(<<>>)
  BY <1>1 DEF Elems, Increasing
<1>3. batch \in Nat
  BY DEF TypeOK
<1>4. Len(<<batch>>) = 1 /\ <<batch>> \in Seq(Nat) /\ <<batch>>[1] = batch
  BY <1>3
<1>5. Elems(<<batch>>) = {batch} /\ Increasing(<<batch>>)
  BY <1>4 DEF Elems, Increasing
<1> QED
  BY <1>1, <1>2, <1>4, <1>5 DEF InHand

\* The rows that are held or stored are those of checkpoints there have been.
LEMMA RowsOfCheckpoints ==
  ASSUME TypeOK
  PROVE  /\ taken \in Nat /\ stored \in Seq(Nat) /\ buffer \in Seq(Nat)
         /\ Elems(stored) \subseteq 1 .. taken /\ Elems(buffer) \subseteq 1 .. taken
         /\ Stored = Elems(stored)
<1>1. 1 .. taken \subseteq Nat
  BY DEF TypeOK
<1>2. stored \in Seq(Nat) /\ buffer \in Seq(Nat)
  BY <1>1, SeqMonotonic DEF TypeOK
<1>3. \A i \in 1 .. Len(stored) : stored[i] \in 1 .. taken
  BY ElementOfSeq DEF TypeOK
<1>4. \A i \in 1 .. Len(buffer) : buffer[i] \in 1 .. taken
  BY ElementOfSeq DEF TypeOK
<1> QED
  BY <1>2, <1>3, <1>4 DEF TypeOK, Elems, Stored

\* Where a step that leaves the rows alone may go.
RowsStayValid ==
  /\ UNCHANGED rows /\ opt' = opt
  /\ pc' \in {"emit", "write"} => pc \in {"emit", "write"}
  /\ pc' \notin {"commit", "exited"} /\ ~Cleaning' => pc \notin {"commit", "exited"} /\ ~Cleaning
  /\ pc' = "commit" => pc = "commit"
  /\ pc' # "exited" => pc # "exited" /\ (pc = "close" <=> pc' = "close")
  /\ Complete' => Complete
  /\ status' = "ok" => status = "ok"
  /\ signals' = 0 => signals = 0

\* Such a step preserves what is known of the rows.
LEMMA RowsFrame ==
  ASSUME RowsInv, RowsStayValid
  PROVE  RowsInv'
<1>1. /\ taken' = taken /\ batch' = batch /\ buffer' = buffer /\ stored' = stored /\ opt' = opt
      /\ Elems(stored)' = Elems(stored) /\ Elems(buffer)' = Elems(buffer) /\ Kept' = Kept
      /\ Increasing(stored)' = Increasing(stored) /\ Increasing(buffer)' = Increasing(buffer)
      /\ Stored' = Stored
  BY DEF RowsStayValid, rows, Elems, Increasing, Kept, Stored
<1>2. RowsInOrder'
  BY <1>1 DEF RowsInv, RowsInOrder, RowsStayValid
<1>3. NothingHeld'
  BY <1>1 DEF RowsInv, NothingHeld, RowsStayValid, Stopping, Cleanup, Cleaning
<1>4. NothingLost'
  BY <1>1 DEF RowsInv, NothingLost, RowsStayValid
<1> QED
  BY <1>2, <1>3, <1>4 DEF RowsInv

\* An operation that fails, or is interrupted, without touching the rows.
LEMMA RowsAfterRaise ==
  ASSUME TypeOK, ControlInv, RowsInv, NEW exc \in {"keyboard", "runtime", "other"},
         Raise(exc), UNCHANGED rows, opt' = opt,
         signals' \in Nat, signals' = 0 => signals = 0 /\ exc # "keyboard"
  PROVE  RowsInv'
<1>1. pc' \in {"undo", "close_loader", "exited"} /\ (pc' = "undo" => Constructing)
      /\ (pc' = "close_loader" => pc \in Loop)
  BY RaiseControl DEF ControlInv
<1>2. Complete' => Complete
  <2>1. CASE pc \in Loop
    BY <2>1, <1>1 DEF Raise, Complete, Constructor, Unprotected, Loop, Stopping, Cleanup,
       Constructing, Cleaning
  <2>2. CASE pc \notin Loop
    BY <2>2, <1>1 DEF Complete, Constructor, Unprotected, Loop, Stopping, Cleanup,
       Constructing, Cleaning
  <2> QED
    BY <2>1, <2>2
<1>3. status' # "ok"
  BY RaiseControl DEF ControlInv
<1> QED
  BY <1>1, <1>2, <1>3, RowsFrame DEF RowsStayValid, Constructor, Unprotected, Loop,
     Stopping, Cleanup, Constructing, Cleaning

\* At "read" every row is stored, or held by the Parquet writer.
LEMMA ReadRows == TypeOK /\ ControlInv /\ RowsInv /\ Read => RowsInv'
<1> SUFFICES ASSUME TypeOK, ControlInv, RowsInv, Read PROVE RowsInv'
  OBVIOUS
<1>1. /\ pc = "read" /\ buffer' = buffer /\ stored' = stored /\ opt' = opt
      /\ taken' = taken \/ taken' = taken + 1
  BY DEF Read
<1>2. /\ Elems(stored)' = Elems(stored) /\ Elems(buffer)' = Elems(buffer)
      /\ Increasing(stored)' = Increasing(stored) /\ Increasing(buffer)' = Increasing(buffer)
      /\ Kept' = Kept /\ Stored' = Stored
  BY <1>1 DEF Elems, Increasing, Kept, Stored
<1>3. /\ opt.storage # "none" => 1 .. taken \subseteq Kept
      /\ opt.storage \notin {"none", "parquet"} => 1 .. taken \subseteq Elems(stored)
      /\ opt.storage # "parquet" => buffer = <<>>
  <2>1. opt.storage \in {"none", "sqlite", "duckdb", "clickhouse", "parquet"}
    BY RunAssumption DEF TypeOK, CommandLine, Storages
  <2>2. opt.storage # "none" => 1 .. taken \subseteq Kept
    BY <1>1 DEF RowsInv, NothingLost, Complete
  <2>3. opt.storage # "parquet" => buffer = <<>>
    BY <1>1, <2>1 DEF RowsInv, NothingHeld, Constructor, Unprotected, Loop, Stopping,
       Cleanup, Constructing, Cleaning
  <2> QED
    BY <2>2, <2>3, RowsInHand DEF Kept
<1>4. Kept \subseteq 1 .. taken /\ taken \in Nat /\ Stored = Elems(stored)
  BY RowsOfCheckpoints DEF Kept
<1>a. /\ opt.storage # "none" => 1 .. taken' - 1 \subseteq Kept'
      /\ opt.storage \notin {"none", "parquet"} => 1 .. taken' - 1 \subseteq Stored'
  <2>1. taken' - 1 <= taken /\ taken' - 1 \in Int /\ taken \in Int
    BY <1>1, <1>4
  <2>2. \A m, n \in Int : m <= n => 1 .. m \subseteq 1 .. n
    OBVIOUS
  <2>3. 1 .. taken' - 1 \subseteq 1 .. taken
    BY <2>1, <2>2
  <2> QED
    BY <1>1, <1>2, <1>3, <1>4, <2>3
<1>5. CASE Goto("emit")
  <2>1. /\ pc' = "emit" /\ status' # "ok"
        /\ (batch' = 0 /\ taken' = taken) \/ (batch' = taken' /\ taken' = taken + 1)
    BY <1>1, <1>5 DEF Read, Goto, Fails, Raise, ControlInv, HandlersByPlace,
                      Constructor, Unprotected, Loop, Stopping, Cleanup, Constructing,
                         Cleaning
  <2>2. RowsInOrder'
    BY <1>1, <1>2, <1>4, <2>1 DEF RowsInv, RowsInOrder
  <2>3. NothingHeld'
    BY <1>1, <1>3, <2>1 DEF RowsInv, NothingHeld
  <2>4. NothingLost'
    BY <1>1, <1>2, <1>3, <1>a, <2>1
       DEF NothingLost, Complete, Constructor, Unprotected, Loop, Stopping, Cleanup,
          Constructing, Cleaning
  <2> QED
    BY <2>2, <2>3, <2>4 DEF RowsInv
<1>6. CASE \E exc \in {"runtime", "other"} : Fails(exc)
  <2>1. pc' = "close_loader" /\ pending' # "none" /\ status' # "ok"
    BY <1>1, <1>6 DEF Fails, Raise, ControlInv, HandlersByPlace, Constructor, Unprotected,
       Loop, Stopping, Cleanup, Constructing, Cleaning
  <2>2. RowsInOrder'
    BY <1>1, <1>2, <2>1 DEF RowsInv, RowsInOrder
  <2>3. NothingHeld'
    BY <1>1, <1>3, <2>1 DEF RowsInv, NothingHeld
  <2>4. NothingLost'
    BY <1>1, <1>2, <1>3, <1>a, <2>1
       DEF NothingLost, Complete, Constructor, Unprotected, Loop, Stopping, Cleanup,
          Constructing, Cleaning
  <2> QED
    BY <2>2, <2>3, <2>4 DEF RowsInv
<1> QED
  BY <1>5, <1>6 DEF Read

\* Writing puts the rows in hand behind those of earlier checkpoints, or keeps them from
\* the writer and ends the loop.
LEMMA WriteRows == TypeOK /\ ControlInv /\ RowsInv /\ Write => RowsInv'
<1> SUFFICES ASSUME TypeOK, ControlInv, RowsInv, Write PROVE RowsInv'
  OBVIOUS
<1>1. pc = "write" /\ opt' = opt /\ taken' = taken /\ batch' = 0
  BY DEF Write
<1>2. /\ taken \in Nat /\ stored \in Seq(Nat) /\ buffer \in Seq(Nat) /\ InHand \in Seq(Nat)
      /\ Stored = Elems(stored) /\ Stored' = Elems(stored')
      /\ Elems(InHand) = IF batch = 0 THEN {} ELSE {batch}
      /\ Elems(<<>>) = {} /\ Increasing(<<>>) /\ Increasing(InHand)
  BY RowsOfCheckpoints, RowsInHand DEF Stored, Elems
<1>3. /\ batch # 0 => batch = taken /\ \A r \in Kept : r < batch
      /\ opt.storage # "none" =>
           1 .. taken - 1 \subseteq Kept /\ (batch = 0 => 1 .. taken \subseteq Kept)
      /\ opt.storage # "parquet" => buffer = <<>>
  <2>1. opt.storage \in {"none", "sqlite", "duckdb", "clickhouse", "parquet"}
    BY RunAssumption DEF TypeOK, CommandLine, Storages
  <2> QED
    BY <1>1, <2>1 DEF RowsInv, RowsInOrder, NothingHeld, NothingLost, Complete, Constructor,
       Unprotected, Loop, Stopping, Cleanup, Constructing, Cleaning
<1>4. /\ Elems(stored \o InHand) = Elems(stored) \cup Elems(InHand)
      /\ Elems(buffer \o InHand) = Elems(buffer) \cup Elems(InHand)
      /\ Increasing(stored \o InHand) /\ Increasing(buffer \o InHand)
  BY <1>2, <1>3, AppendRows DEF RowsInv, RowsInOrder, Kept
<1>5. /\ stored' \in {stored, stored \o InHand} /\ buffer' \in {buffer, buffer \o InHand}
      /\ opt.storage \in {"sqlite", "parquet"} => stored' = stored
      /\ opt.storage \in {"none", "duckdb", "clickhouse"} => buffer' = buffer
      /\ opt.storage = "parquet" => buffer' = buffer \o InHand /\ pc' = "check"
  BY DEF Write, Goto
<1>6. \/ /\ pc' = (IF opt.storage = "sqlite" THEN "commit" ELSE "check")
         /\ opt.storage # "none" => Kept' = Kept \cup Elems(InHand)
         /\ opt.storage \in {"duckdb", "clickhouse"} => Elems(stored') = Elems(stored) \cup Elems(InHand)
      \/ pc' = "close_loader" /\ pending' # "none" /\ Kept' \in {Kept, Kept \cup Elems(InHand)}
  <2>1. Kept' = Elems(stored') \cup Elems(buffer')
    BY DEF Kept
  <2>2. CASE /\ opt.storage \in {"sqlite", "parquet"}
             /\ buffer' = buffer \o InHand /\ UNCHANGED stored
             /\ Goto(IF opt.storage = "sqlite" THEN "commit" ELSE "check")
    BY <1>4, <2>1, <2>2 DEF Goto, Kept
  <2>3. CASE /\ opt.storage \in {"duckdb", "clickhouse"}
             /\ stored' = stored \o InHand /\ UNCHANGED buffer /\ Goto("check")
    BY <1>4, <2>1, <2>3 DEF Goto, Kept
  <2>4. CASE opt.storage = "none" /\ Goto("check") /\ UNCHANGED <<buffer, stored>>
    BY <2>4 DEF Goto
  <2>5. CASE \E exc \in {"runtime", "other"} : Fails(exc)
    <3>1. pc' = "close_loader" /\ pending' # "none"
      BY <1>1, <2>5 DEF Fails, Raise, Constructor, Unprotected, Loop, Stopping, Cleanup,
         Constructing, Cleaning
    <3>2. opt.storage # "parquet" => stored' = stored \/ buffer' = buffer
      BY DEF Write
    <3> QED
      BY <1>4, <1>5, <2>1, <3>1, <3>2 DEF Kept
  <2> QED
    BY <2>2, <2>3, <2>4, <2>5 DEF Write
<1>7. status' # "ok"
  BY <1>1, <1>6 DEF Write, Goto, Fails, Raise, Exit, ControlInv, HandlersByPlace,
                    Constructor, Unprotected, Loop, Stopping, Cleanup, Constructing,
                       Cleaning
<1>8. RowsInOrder'
  <2>1. Increasing(stored') /\ Increasing(buffer')
    BY <1>4, <1>5 DEF RowsInv, RowsInOrder
  <2>2. opt.storage # "parquet" => \A r \in Elems(stored'), q \in Elems(buffer') : r < q
    BY <1>2, <1>3, <1>4, <1>5 DEF Kept, Write
  <2>3. opt.storage = "parquet" => stored' = <<>> /\ pc' = "check"
    BY <1>1, <1>5 DEF RowsInv, RowsInOrder
  <2> QED
    BY <1>1, <1>6, <2>1, <2>2, <2>3 DEF RowsInOrder
<1>9. NothingHeld'
  BY <1>1, <1>3, <1>5, <1>6 DEF NothingHeld, Constructor, Unprotected, Loop, Stopping,
     Cleanup, Constructing, Cleaning
<1>10. NothingLost'
  <2>1. opt.storage # "none" /\ pc' # "close_loader" => 1 .. taken \subseteq Kept'
    <3>1. 1 .. taken \subseteq (1 .. taken - 1) \cup {taken}
      BY <1>2
    <3> QED
      BY <1>2, <1>3, <1>6, <3>1
  <2>2. opt.storage # "none" => 1 .. taken - 1 \subseteq Kept'
    BY <1>3, <1>6
  <2>3. opt.storage \notin {"none", "parquet"} => 1 .. taken - 1 \subseteq Stored'
    BY <1>1, <1>2, <1>3, <1>4, <1>5 DEF Kept
  <2> QED
    BY <1>1, <1>6, <1>7, <2>1, <2>2, <2>3
       DEF NothingLost, Complete, Constructor, Unprotected, Loop, Stopping, Cleanup,
          Constructing, Cleaning
<1> QED
  BY <1>8, <1>9, <1>10 DEF RowsInv

\* What committing, or adding the transaction to the file, makes of the rows.
LEMMA StoreBuffer ==
  ASSUME TypeOK, RowsInv, opt.storage # "parquet"
  PROVE  /\ Elems(stored \o buffer) = Kept
         /\ Increasing(stored \o buffer)
         /\ Elems(<<>>) = {} /\ Increasing(<<>>)
  BY RowsOfCheckpoints, RowsInHand, AppendRows DEF RowsInv, RowsInOrder, Kept

\* The transaction is committed, or stays open for flush().
LEMMA CommitRows == TypeOK /\ ControlInv /\ RowsInv /\ Commit => RowsInv'
<1> SUFFICES ASSUME TypeOK, ControlInv, RowsInv, Commit PROVE RowsInv'
  OBVIOUS
<1>1. CASE Fails("other") /\ UNCHANGED <<stored, buffer>>
  <2>1. UNCHANGED rows /\ opt' = opt /\ Raise("other") /\ signals' = signals
    BY <1>1 DEF Commit, Fails, rows
  <2>2. signals \in Nat
    BY DEF TypeOK
  <2> QED
    BY <2>1, <2>2, RowsAfterRaise
<1>2. CASE stored' = stored \o buffer /\ buffer' = <<>> /\ Goto("check") /\ UNCHANGED bounds
  <2>1. /\ pc = "commit" /\ pc' = "check" /\ status' = "running" /\ signals' = signals
        /\ opt' = opt /\ taken' = taken /\ batch' = batch /\ opt.storage = "sqlite"
    BY <1>2 DEF Commit, Goto, bounds, ControlInv, HandlersByPlace, RowsInv, NothingHeld
  <2>2. /\ Elems(stored') = Kept /\ Increasing(stored') /\ Kept' = Kept /\ Stored' = Kept
        /\ Increasing(buffer') /\ Elems(buffer') = {}
    BY <1>2, <2>1, StoreBuffer DEF Kept, Stored, Elems
  <2>3. RowsInOrder' /\ NothingHeld'
    BY <1>2, <2>1, <2>2 DEF RowsInOrder, NothingHeld
  <2>4. NothingLost'
    BY <2>1, <2>2 DEF RowsInv, NothingLost, Complete, Constructor, Unprotected, Loop,
       Stopping, Cleanup, Constructing, Cleaning
  <2> QED
    BY <2>3, <2>4 DEF RowsInv
<1> QED
  BY <1>1, <1>2 DEF Commit

\* flush() stores all rows: what SQLite had left open, or the Parquet file.
LEMMA FlushRows == TypeOK /\ ControlInv /\ RowsInv /\ Flush => RowsInv'
<1> SUFFICES ASSUME TypeOK, ControlInv, RowsInv, Flush PROVE RowsInv'
  OBVIOUS
<1>1. CASE Fails("other") /\ UNCHANGED <<stored, buffer>>
  <2>1. UNCHANGED rows /\ opt' = opt /\ Raise("other") /\ signals' = signals
    BY <1>1 DEF Flush, Fails, rows
  <2>2. signals \in Nat
    BY DEF TypeOK
  <2> QED
    BY <2>1, <2>2, RowsAfterRaise
<1>2. CASE /\ opt.storage = "parquet" /\ stored' = ParquetFile /\ UNCHANGED buffer
           /\ Goto("close") /\ UNCHANGED bounds
  <2>1. /\ pc = "flush" /\ pc' = "close" /\ status' = "running"
        /\ signals' = signals /\ pending' = pending
        /\ opt' = opt /\ taken' = taken /\ batch' = batch
    BY <1>2 DEF Flush, Goto, bounds, ControlInv, HandlersByPlace, Cleanup
  <2>2. stored = <<>> /\ stored' = buffer /\ buffer' = buffer
    BY <1>2, <2>1 DEF ParquetFile, RowsInv, RowsInOrder
  <2>3. Kept' = Kept
    BY <2>2, RowsInHand DEF Kept
  <2>4. RowsInOrder'
    BY <1>2, <2>1, <2>2 DEF RowsInv, RowsInOrder
  <2>5. NothingHeld'
    BY <1>2, <2>1 DEF NothingHeld
  <2>6. NothingLost'
    BY <1>2, <2>1, <2>3 DEF RowsInv, NothingLost, Complete, Constructor, Unprotected, Loop,
       Stopping, Cleanup, Constructing, Cleaning
  <2> QED
    BY <2>4, <2>5, <2>6 DEF RowsInv
<1>3. CASE /\ opt.storage # "parquet" /\ stored' = stored \o buffer /\ buffer' = <<>>
           /\ Goto("close") /\ UNCHANGED bounds
  <2>1. /\ pc = "flush" /\ pc' = "close" /\ status' = "running"
        /\ signals' = signals /\ pending' = pending
        /\ opt' = opt /\ taken' = taken /\ batch' = batch
    BY <1>3 DEF Flush, Goto, bounds, ControlInv, HandlersByPlace, Cleanup
  <2>2. /\ Elems(stored') = Kept /\ Increasing(stored') /\ Kept' = Kept /\ Stored' = Kept
        /\ Increasing(buffer') /\ Elems(buffer') = {}
    BY <1>3, StoreBuffer DEF Kept, Stored, Elems
  <2>3. RowsInOrder' /\ NothingHeld'
    BY <1>3, <2>1, <2>2 DEF RowsInOrder, NothingHeld
  <2>4. NothingLost'
    BY <1>3, <2>1, <2>2 DEF RowsInv, NothingLost, Complete, Constructor, Unprotected, Loop,
       Stopping, Cleanup, Constructing, Cleaning
  <2> QED
    BY <2>3, <2>4 DEF RowsInv
<1> QED
  BY <1>1, <1>2, <1>3 DEF Flush

\* close() finds nothing left to store, and the second Parquet flush writes the same file.
LEMMA CloseRows == TypeOK /\ ControlInv /\ RowsInv /\ CloseWriter => RowsInv'
<1> SUFFICES ASSUME TypeOK, ControlInv, RowsInv, CloseWriter PROVE RowsInv'
  OBVIOUS
<1>1. CASE Fails("other") /\ UNCHANGED <<buffer, stored>>
  <2>1. UNCHANGED rows /\ opt' = opt /\ Raise("other") /\ signals' = signals
    BY <1>1 DEF CloseWriter, Fails, rows
  <2>2. signals \in Nat
    BY DEF TypeOK
  <2> QED
    BY <2>1, <2>2, RowsAfterRaise
<1>2. CASE /\ stored' = IF opt.storage = "parquet" THEN ParquetFile ELSE stored
           /\ buffer' = <<>>
           /\ Exit(Outcome(pending)) /\ UNCHANGED bounds
  <2>1. /\ pc = "close" /\ pc' = "exited" /\ signals' = signals
        /\ status' = "ok" => pending = "none"
        /\ opt' = opt /\ taken' = taken /\ batch' = batch
    BY <1>2 DEF CloseWriter, Exit, Outcome, bounds, TypeOK
  <2>2. /\ stored' = stored
        /\ opt.storage # "parquet" => buffer = <<>>
        /\ opt.storage = "parquet" => stored = buffer
    BY <1>2, <2>1 DEF ParquetFile, RowsInv, RowsInOrder, NothingHeld
  <2>3. /\ Stored' = Stored /\ Stored = Kept
    BY <2>2, RowsInHand, RowsOfCheckpoints DEF Kept, Stored, Elems
  <2>4. RowsInOrder' /\ NothingHeld'
    BY <1>2, <2>1, <2>2, RowsInHand DEF RowsInv, RowsInOrder, NothingHeld
  <2>5. NothingLost'
    BY <2>1, <2>3 DEF RowsInv, NothingLost, Complete, Constructor, Unprotected, Loop,
       Stopping, Cleanup, Constructing, Cleaning
  <2> QED
    BY <2>4, <2>5 DEF RowsInv
<1> QED
  BY <1>1, <1>2 DEF CloseWriter

\* RowsInv is inductive: the other operations leave the rows alone.
LEMMA RowsInvStep == TypeOK /\ ControlInv /\ RowsInv /\ [Next]_vars => RowsInv'
<1> SUFFICES ASSUME TypeOK, ControlInv, RowsInv, [Next]_vars PROVE RowsInv'
  OBVIOUS
<1> USE DEF Goto
<1>t. signals \in Nat
  BY DEF TypeOK
<1>f. ASSUME NEW exc \in {"runtime", "other"}, UNCHANGED rows, opt' = opt,
             signals' = signals, Raise(exc)
      PROVE  RowsInv'
  BY <1>f, <1>t, RowsAfterRaise
<1>g. ASSUME UNCHANGED rows, opt' = opt, signals' = signals, UNCHANGED <<pending, status>>,
             \/ pc \in Constructor \cup Unprotected
                  /\ pc' \in Constructor \cup Unprotected \cup {"read"}
             \/ pc = "emit" /\ pc' = "write"
             \/ pc = "check" /\ pc' \in {"sleep", "close_loader"}
             \/ pc = "sleep" /\ pc' = "read"
             \/ pc \in {"close_loader"} \cup Stopping /\ handlers # {}
                  /\ pc' \in Stopping \cup {"close_filter"} /\ handlers' = handlers
             \/ pc \in {"delivery"} \cup Stopping /\ handlers = {}
                  /\ pc' \in Stopping \cup {"writer"} /\ handlers' = handlers
             \/ pc = "close_filter" /\ pc' = "flush"
      PROVE  RowsInv'
  <2>1. RowsStayValid
    BY <1>g DEF RowsStayValid, Complete, rows, Constructor, Unprotected, Loop, Stopping,
       Cleanup, Constructing, Cleaning
  <2> QED
    BY <2>1, RowsFrame
<1>1. CASE AttachFilter
  BY <1>1, <1>f, <1>g DEF AttachFilter, Fails, bounds, Constructor, Unprotected, Loop,
     Stopping, Cleanup, Constructing, Cleaning
<1>2. CASE FindMap
  BY <1>2, <1>f, <1>g DEF FindMap, Fails, bounds, Constructor, Unprotected, Loop, Stopping,
     Cleanup, Constructing, Cleaning
<1>3. CASE ConfigureDelivery
  BY <1>3, <1>f, <1>g DEF ConfigureDelivery, Fails, bounds, ControlInv, HandlersByPlace,
     Constructor, Unprotected, Loop, Stopping, Cleanup, Constructing, Cleaning
<1>4. CASE Undo
  <2>1. /\ UNCHANGED rows /\ opt' = opt /\ pc = "undo" /\ pc' = "exited" /\ signals' = signals
    BY <1>4, DetachResult DEF Undo, Exit, bounds
  <2>2. status' # "ok"
    BY <1>4, <2>1 DEF Undo, Exit, Outcome, TypeOK, ControlInv, HandlersByPlace
  <2>3. RowsStayValid
    BY <2>1, <2>2 DEF RowsStayValid, Complete, Constructor, Unprotected, Loop, Stopping,
       Cleanup, Constructing, Cleaning
  <2> QED
    BY <2>3, RowsFrame
<1>5. CASE CreateWriter
  BY <1>5, <1>f, <1>g DEF CreateWriter, Fails, bounds, Constructor, Unprotected, Loop,
     Stopping, Cleanup, Constructing, Cleaning
<1>6. CASE InstallHandler
  BY <1>6, <1>g DEF InstallHandler, bounds, Constructor, Unprotected, Loop, Stopping,
     Cleanup, Constructing, Cleaning
<1>7. CASE Emit
  BY <1>7, <1>f, <1>g DEF Emit, Fails, bounds
<1>8. CASE Check \/ Sleep
  BY <1>8, <1>g DEF Check, Sleep, bounds
<1>9. CASE CloseLoader
  BY <1>9, <1>g DEF CloseLoader, bounds, ControlInv, HandlersByPlace, Stopping, Cleanup
<1>13. CASE StopLoader \/ KillLoader
  BY <1>13, <1>f, <1>g DEF StopLoader, KillLoader, Denied, bounds, Stopping
<1>14. CASE AwaitLoader \/ DrainLoader
  BY <1>14, <1>f, <1>g DEF AwaitLoader, DrainLoader, Detached, bounds, Stopping
<1>10. CASE CloseFilter
  BY <1>10, <1>g, DetachResult DEF CloseFilter, bounds
<1>11. ASSUME NEW sig \in {"TERM", "INT"}, Signal(sig) PROVE RowsInv'
  <2>1. /\ pc # "exited" /\ UNCHANGED rows /\ opt' = opt
        /\ signals' = signals + 1 /\ signals' # 0
    BY <1>11, <1>t DEF Signal
  <2>2. CASE Raise("keyboard")
    BY <2>1, <2>2, <1>t, RowsAfterRaise
  <2>3. CASE Exit("killed")
    BY <2>1, <2>3, RowsFrame DEF Exit, RowsStayValid, Complete, Constructor, Unprotected,
       Loop, Stopping, Cleanup, Constructing, Cleaning
  <2> QED
    BY <1>11, <2>2, <2>3 DEF Signal, OnSignal
<1>12. CASE UNCHANGED vars
  BY <1>12, RowsFrame DEF vars, bounds, RowsStayValid, Complete, rows, Cleaning, Constructing
<1> QED
  BY <1>1, <1>2, <1>3, <1>4, <1>5, <1>6, <1>7, <1>8, <1>9, <1>10, <1>11, <1>12,
     <1>13, <1>14, ReadRows, WriteRows, CommitRows, FlushRows, CloseRows
     DEF Next, Process, Start, Poll, Stop, Finish

\* The invariants of this module hold in every reachable state.
LEMMA RunInvariant == Spec => [](TypeOK /\ ControlInv /\ RowsInv)
<1>1. Init => ControlInv
  BY DEF Init, ControlInv, HandlersByPlace, ResourcesByPlace, FailureCleansUpToo,
         Constructor, Unprotected, Loop, Stopping, Cleanup, Constructing, Cleaning
<1>2. Init /\ TypeOK => RowsInv
  <2> SUFFICES ASSUME Init, TypeOK PROVE RowsInv
    OBVIOUS
  <2>1. /\ taken = 0 /\ batch = 0 /\ buffer = <<>> /\ stored = <<>> /\ pc = "attach"
        /\ status = "running"
    BY DEF Init
  <2>2. Elems(<<>>) = {} /\ Increasing(<<>>) /\ 1 .. 0 = {} /\ 1 .. 0 - 1 = {}
    BY RowsInHand
  <2> QED
    BY <2>1, <2>2 DEF RowsInv, RowsInOrder, NothingHeld, NothingLost, Cleanup
<1> QED
  BY <1>1, <1>2, ControlInvStep, RowsInvStep, TypeCorrect, PTL DEF Spec

\* A run that fails leaves neither its filter nor its loader behind, unless a signal
\* breaks finally off, tc fails unnoticed or sudo may not be signalled (cli.py:253-254).
THEOREM FailureCleaned == Spec => []FailureCleansUpToo
<1>1. ControlInv => FailureCleansUpToo
  BY DEF ControlInv
<1> QED
  BY <1>1, RunInvariant, PTL

\* Whatever ends the process and whichever write fails, the database has the rows of all
\* checkpoints before the last one (writers.py: a commit at every checkpoint).
THEOREM RowsAreDurable == Spec => []EarlierRowsAreDurable
<1>1. RowsInv => EarlierRowsAreDurable
  BY DEF RowsInv, NothingLost, EarlierRowsAreDurable
<1> QED
  BY <1>1, RunInvariant, PTL

\* Rows are stored in order and never twice, also when a write fails half-way and when
\* a Parquet file is written again.
THEOREM RowsAreStoredOnce == Spec => []StoredOnce
<1>1. RowsInv => StoredOnce
  BY DEF RowsInv, RowsInOrder, Increasing, StoredOnce
<1> QED
  BY <1>1, RunInvariant, PTL

\* Exit status 0 means that what was to be removed is gone and that no rows are missing
\* but, after a stop, the last checkpoint's (cli.py:251-256).
THEOREM SuccessCleaned == Spec => []SuccessIsClean
<1>1. TypeOK /\ ControlInv /\ RowsInv => SuccessIsClean
  <2> SUFFICES ASSUME TypeOK, ControlInv, RowsInv, status = "ok", ~swallowed
               PROVE  /\ ~opt.keep => ~loader /\ filter # "self"
                      /\ opt.storage # "none" => 1 .. taken - 1 \subseteq Stored
                      /\ opt.storage # "none" /\ signals = 0 => 1 .. taken = Stored
    BY DEF SuccessIsClean
  <2>1. ~opt.keep => ~loader /\ filter # "self"
    BY DEF ControlInv, ResourcesByPlace
  <2> QED
    BY <2>1, RowsOfCheckpoints DEF RowsInv, NothingLost
<1> QED
  BY <1>1, RunInvariant, PTL
=================================================================================

------------------------------- MODULE AnalyzerRun -------------------------------
(* One process of "udp-analyzer run --collector ebpf" from start to exit: it        *)
(* attaches the tc filter and the receive loader, creates a writer, installs signal *)
(* handlers, polls, and cleans up (main and run_analyzer of cli.py, the constructor *)
(* and close() of EbpfIngressCollector, the writers).                               *)
(*                                                                                  *)
(* Between any two of these operations a SIGTERM or a SIGINT may arrive, and each   *)
(* operation may fail.  What a run leaves behind, an attached filter, a running     *)
(* loader, rows that were read but not stored, depends on where that happens.       *)
EXTENDS Naturals, Sequences, FiniteSets

CONSTANTS Options,    \* the command lines explored
          MaxSignals, \* bound: signals that arrive
          MaxFaults,  \* bound: operations that fail
          MaxTaken    \* bound: checkpoints that return rows

Storages == {"none", "sqlite", "duckdb", "parquet", "clickhouse"}
Deliveries == {"none", "auto", "cookie"} \* "legacy" attaches nothing either

\* attach is not --no-attach, keep is --keep-attached, named is --interface, watch is
\* --watch or --duration, deadline is --duration; root is the user who runs it.
CommandLine ==
  [storage : Storages, delivery : Deliveries, attach : BOOLEAN, keep : BOOLEAN,
   named : BOOLEAN, watch : BOOLEAN, deadline : BOOLEAN, root : BOOLEAN]

ASSUME RunAssumption ==
  /\ Options \subseteq CommandLine
  /\ MaxSignals \in Nat /\ MaxFaults \in Nat /\ MaxTaken \in Nat

VARIABLES
  opt,       \* the command line
  pc,        \* the operation that comes next
  handlers,  \* signals whose handler is _on_signal
  stopping,  \* run_analyzer's stopping
  pending,   \* the exception that is propagating through finally, or "none"
  status,    \* how the process ended, or "running"
  filter,    \* whose tc filter is at the interface and pref: "none", "self", "other"
  loader,    \* the receive loader is running
  taken,     \* checkpoints that returned rows (their baselines have advanced)
  batch,     \* the rows in hand: of the checkpoint with this number, or 0
  buffer,    \* rows the writer holds: ParquetWriter.rows, SQLite's open transaction
  stored,    \* rows that are in the database or file
  outside,   \* ghost: a signal arrived before the loop or after it
  swallowed, \* ghost: tc could not delete the filter and nobody was told
  denied,    \* ghost: the kernel refused to signal sudo, the loader's parent
  signals, faults  \* bounded counters

resources == <<filter, loader>>
rows      == <<taken, batch, buffer, stored>>
bounds    == <<outside, swallowed, denied, signals, faults>>
vars == <<opt, pc, handlers, stopping, pending, status, resources, rows, bounds>>

Constructor == {"attach", "find", "delivery"}
Unprotected == {"undo", "writer", "handle_term", "handle_int"}
Loop        == {"read", "emit", "write", "commit", "check", "sleep"}
Stopping    == {"stop_loader", "await_loader", "kill_loader", "drain_loader"}
Cleanup     == {"close_loader", "close_filter", "flush", "close"}
Places      == Constructor \cup Unprotected \cup Loop \cup Stopping \cup Cleanup \cup {"exited"}

\* The loader is stopped by the constructor, which is before the handlers, or by close().
Constructing == pc \in Constructor \/ (pc \in Stopping /\ handlers = {})
Cleaning     == pc \in Cleanup \/ (pc \in Stopping /\ handlers # {})

---------------------------------------------------------------------------------
(* Control flow.                                                                   *)

\* main: KeyboardInterrupt is exit status 130, RuntimeError 1, others a traceback.
Outcome(exc) ==
  CASE exc = "none" -> "ok" [] exc = "keyboard" -> "interrupted"
    [] exc = "runtime" -> "error" [] exc = "other" -> "traceback"

Goto(place) == pc' = place /\ UNCHANGED <<pending, status>>

Exit(outcome) == pc' = "exited" /\ status' = outcome /\ UNCHANGED pending

\* Mutant: no "except KeyboardInterrupt" around the loop.
Raise_NotCaught(exc) ==
  \/ /\ Constructing /\ exc # "keyboard"
     /\ pc' = "undo" /\ pending' = exc /\ UNCHANGED status
  \/ /\ pc \in Loop
     /\ pc' = "close_loader" /\ pending' = exc /\ UNCHANGED status
  \/ /\ pc \in Unprotected \/ Cleaning \/ (Constructing /\ exc = "keyboard")
     /\ Exit(Outcome(exc))

\* Mutant: cleaning up after KeyboardInterrupt alone, without finally.
Raise_NoFinally(exc) ==
  \/ /\ Constructing /\ exc # "keyboard"
     /\ pc' = "undo" /\ pending' = exc /\ UNCHANGED status
  \/ /\ pc \in Loop /\ exc = "keyboard"
     /\ pc' = "close_loader" /\ pending' = "none" /\ UNCHANGED status
  \/ /\ \/ pc \in Unprotected \/ Cleaning \/ (Constructing /\ exc = "keyboard")
        \/ pc \in Loop /\ exc # "keyboard"
     /\ Exit(Outcome(exc))

\* An exception at the current place.  The constructor cleans up after an Exception,
\* which KeyboardInterrupt is not; the loop's finally cleans up after everything, and
\* forgets a KeyboardInterrupt; elsewhere nothing catches it, in finally neither.
Raise(exc) ==
  \/ /\ Constructing /\ exc # "keyboard"
     /\ pc' = "undo" /\ pending' = exc /\ UNCHANGED status
  \/ /\ pc \in Loop
     /\ pc' = "close_loader" /\ UNCHANGED status
     /\ pending' = IF exc = "keyboard" THEN "none" ELSE exc
  \/ /\ pc \in Unprotected \/ Cleaning \/ (Constructing /\ exc = "keyboard")
     /\ Exit(Outcome(exc))

\* The operation fails instead of doing its work.
Fails(exc) ==
  /\ faults < MaxFaults
  /\ faults' = faults + 1
  /\ Raise(exc)
  /\ UNCHANGED <<outside, swallowed, denied, signals>>

\* Mutant: the handler returns without setting or raising anything.
OnSignal_Ignored == UNCHANGED <<pc, pending, status, stopping>>

\* _on_signal: set stopping and raise KeyboardInterrupt.
OnSignal == stopping' = TRUE /\ Raise("keyboard")

\* A signal arrives.  Without a handler of ours SIGTERM kills the process, and
\* Python's own SIGINT handler raises KeyboardInterrupt.
Signal(sig) ==
  /\ pc # "exited"
  /\ signals < MaxSignals
  /\ signals' = signals + 1
  /\ outside' = (outside \/ pc \notin Loop)
  /\ \/ sig \in handlers /\ OnSignal
     \/ sig \notin handlers /\ sig = "INT" /\ Raise("keyboard") /\ UNCHANGED stopping
     \/ sig \notin handlers /\ sig = "TERM" /\ Exit("killed") /\ UNCHANGED stopping
  /\ UNCHANGED <<opt, handlers, resources, rows, swallowed, denied, faults>>

---------------------------------------------------------------------------------
(* Starting: EbpfIngressCollector.__init__, create_writer, the handlers.           *)

\* TcBpfAttachment.attach removes whatever filter has the preference and adds ours;
\* it can fail before either.
AttachFilter ==
  /\ pc = "attach"
  /\ \/ opt.attach /\ filter' = "self" /\ Goto("find") /\ UNCHANGED bounds
     \/ ~opt.attach /\ Goto("find") /\ UNCHANGED <<filter, bounds>>
     \/ opt.attach /\ filter' \in {filter, "none"} /\ Fails("runtime")
  /\ UNCHANGED <<opt, handlers, stopping, loader, rows>>

\* refresh_map_id: without a loaded program there is no map to read.
FindMap ==
  /\ pc = "find"
  /\ \/ filter # "none" /\ Goto("delivery") /\ UNCHANGED bounds
     \/ filter = "none" /\ Raise("runtime") /\ UNCHANGED bounds
     \/ Fails("runtime")
  /\ UNCHANGED <<opt, handlers, stopping, resources, rows>>

\* _configure_delivery: "auto" falls back to the port heuristic when the loader
\* cannot be started or used, "cookie" insists; without attaching, it insists on a
\* --receive-map-id, which it may or may not have been given.  A loader that is late, or
\* says what attach() does not understand, runs and has to be stopped.
ConfigureDelivery ==
  /\ pc = "delivery"
  /\ \/ /\ opt.delivery # "none" /\ opt.attach
        /\ loader' = TRUE /\ Goto("writer") /\ UNCHANGED bounds
     \/ /\ opt.delivery = "none" \/ ~opt.attach
        /\ Goto("writer") /\ UNCHANGED <<loader, bounds>>
     \/ /\ opt.delivery = "cookie" /\ ~opt.attach
        /\ Raise("runtime") /\ UNCHANGED <<loader, bounds>>
     \/ /\ opt.delivery = "auto" /\ opt.attach /\ faults < MaxFaults
        /\ faults' = faults + 1 /\ Goto("writer")
        /\ UNCHANGED <<loader, outside, swallowed, denied, signals>>
     \/ /\ opt.delivery = "cookie" /\ opt.attach
        /\ Fails("runtime") /\ UNCHANGED loader
     \/ /\ opt.delivery # "none" /\ opt.attach /\ faults < MaxFaults
        /\ loader' = TRUE /\ faults' = faults + 1 /\ Goto("stop_loader")
        /\ UNCHANGED <<outside, swallowed, denied, signals>>
  /\ UNCHANGED <<opt, handlers, stopping, filter, rows>>

\* detach(ignore_missing=True): when tc fails, whatever the reason, it returns as if it
\* had succeeded.
DetachFilter ==
  \/ filter' = "none" /\ UNCHANGED bounds
  \/ /\ filter # "none" /\ faults < MaxFaults
     /\ faults' = faults + 1 /\ swallowed' = TRUE
     /\ UNCHANGED <<filter, outside, denied, signals>>

\* except Exception in the constructor: remove the filter, raise again.  A receive
\* attachment that failed is not self.receive_attachment yet: a loader it could not stop
\* stays.
Undo ==
  /\ pc = "undo"
  /\ IF opt.attach THEN DetachFilter ELSE UNCHANGED <<filter, bounds>>
  /\ Exit(Outcome(pending))
  /\ UNCHANGED <<opt, handlers, stopping, loader, rows>>

\* The database cannot be opened, or DuckDB is not installed.
CreateWriter ==
  /\ pc = "writer"
  /\ \/ Goto("handle_term") /\ UNCHANGED bounds
     \/ opt.storage \in {"duckdb", "parquet"} /\ Fails("runtime")
     \/ opt.storage \in {"sqlite", "duckdb", "parquet"} /\ Fails("other")
  /\ UNCHANGED <<opt, handlers, stopping, resources, rows>>

\* for _sig in (SIGTERM, SIGINT): signal.signal(_sig, _on_signal)
InstallHandler ==
  /\ \/ pc = "handle_term" /\ handlers' = {"TERM"} /\ Goto("handle_int")
     \/ pc = "handle_int" /\ handlers' = {"TERM", "INT"} /\ Goto("read")
  /\ UNCHANGED <<opt, stopping, resources, rows, bounds>>

---------------------------------------------------------------------------------
(* The loop.                                                                       *)

\* read_checkpoint returns rows, or none; when it fails, baselines may already have
\* advanced, and the rows go with the exception.
Read ==
  /\ pc = "read"
  /\ \/ taken < MaxTaken /\ taken' = taken + 1 /\ batch' = taken + 1 /\ Goto("emit")
        /\ UNCHANGED bounds
     \/ batch' = 0 /\ Goto("emit") /\ UNCHANGED <<taken, bounds>>
     \/ /\ batch' = 0
        /\ \/ UNCHANGED taken
           \/ taken < MaxTaken /\ taken' = taken + 1
        /\ \E exc \in {"runtime", "other"} : Fails(exc)
  /\ UNCHANGED <<opt, handlers, stopping, resources, buffer, stored>>

\* emit_samples prints; standard output may be gone.
Emit ==
  /\ pc = "emit"
  /\ \/ Goto("write") /\ UNCHANGED bounds
     \/ Fails("other")
  /\ UNCHANGED <<opt, handlers, stopping, resources, rows>>

InHand == IF batch = 0 THEN <<>> ELSE <<batch>>

\* Mutant: SQLiteWriter.write_samples without its commit.
Write_NoCommit ==
  /\ pc = "write"
  /\ \/ /\ opt.storage \in {"sqlite", "parquet"}
        /\ buffer' = buffer \o InHand /\ UNCHANGED stored
        /\ Goto("check") /\ UNCHANGED bounds
     \/ /\ opt.storage \in {"duckdb", "clickhouse"}
        /\ stored' = stored \o InHand /\ UNCHANGED buffer
        /\ Goto("check") /\ UNCHANGED bounds
     \/ opt.storage = "none" /\ Goto("check") /\ UNCHANGED <<buffer, stored, bounds>>
  /\ batch' = 0
  /\ UNCHANGED <<opt, handlers, stopping, resources, taken>>

\* write_samples: Parquet keeps the rows, SQLite inserts them into a transaction it
\* commits next, DuckDB and ClickHouse store them.  When it fails the rows may be there
\* all the same: SQLite's stay in the transaction, which flush() will commit, and a
\* ClickHouse server may have carried out the request whose answer is lost.
Write ==
  /\ pc = "write"
  /\ \/ /\ opt.storage \in {"sqlite", "parquet"}
        /\ buffer' = buffer \o InHand /\ UNCHANGED stored
        /\ Goto(IF opt.storage = "sqlite" THEN "commit" ELSE "check") /\ UNCHANGED bounds
     \/ /\ opt.storage \in {"duckdb", "clickhouse"}
        /\ stored' = stored \o InHand /\ UNCHANGED buffer
        /\ Goto("check") /\ UNCHANGED bounds
     \/ opt.storage = "none" /\ Goto("check") /\ UNCHANGED <<buffer, stored, bounds>>
     \/ /\ opt.storage = "sqlite" /\ Fails("other")
        /\ buffer' \in {buffer, buffer \o InHand} /\ UNCHANGED stored
     \/ /\ opt.storage \in {"duckdb", "clickhouse"} /\ Fails("other")
        /\ stored' \in {stored, stored \o InHand} /\ UNCHANGED buffer
     \/ /\ opt.storage = "clickhouse" /\ Fails("runtime")
        /\ UNCHANGED <<buffer, stored>>
  /\ batch' = 0
  /\ UNCHANGED <<opt, handlers, stopping, resources, taken>>

\* self.conn.commit() at the end of SQLiteWriter.write_samples.
Commit ==
  /\ pc = "commit"
  /\ \/ stored' = stored \o buffer /\ buffer' = <<>> /\ Goto("check") /\ UNCHANGED bounds
     \/ Fails("other") /\ UNCHANGED <<stored, buffer>>
  /\ UNCHANGED <<opt, handlers, stopping, resources, taken, batch>>

\* One checkpoint without --watch; until the deadline or a signal with it.
Check ==
  /\ pc = "check"
  /\ \/ /\ ~opt.watch \/ stopping \/ opt.deadline
        /\ Goto("close_loader")
     \/ opt.watch /\ ~stopping /\ Goto("sleep")
  /\ UNCHANGED <<opt, handlers, stopping, resources, rows, bounds>>

Sleep ==
  /\ pc = "sleep"
  /\ Goto("read")
  /\ UNCHANGED <<opt, handlers, stopping, resources, rows, bounds>>

---------------------------------------------------------------------------------
(* ReceiveBpfAttachment.detach, in attach() and in close(); LoaderAttachment has the   *)
(* processes at its other end.                                                         *)

\* Only a root analyzer may signal sudo; anyone may while sudo is still starting.
Allowed == opt.root \/ handlers = {}

\* os.kill raises PermissionError, which no one catches and "auto" does not fall back on.
Denied ==
  /\ ~opt.root
  /\ denied' = TRUE
  /\ Raise("other")
  /\ UNCHANGED <<outside, swallowed, signals, faults>>

\* detach() returns to attach(), which raises RuntimeError, or to close().
Detached ==
  \/ handlers = {} /\ opt.delivery = "auto" /\ Goto("writer")
  \/ handlers = {} /\ opt.delivery # "auto" /\ Raise("runtime")
  \/ handlers # {} /\ Goto("close_filter")

\* process.terminate()
StopLoader ==
  /\ pc = "stop_loader"
  /\ \/ Allowed /\ Goto("await_loader") /\ UNCHANGED bounds
     \/ Denied
  /\ UNCHANGED <<opt, handlers, stopping, resources, rows>>

\* communicate(timeout=5): the loader ends, or TimeoutExpired is caught.
AwaitLoader ==
  /\ pc = "await_loader"
  /\ \/ loader' = FALSE /\ Detached /\ UNCHANGED bounds
     \/ /\ faults < MaxFaults /\ faults' = faults + 1 /\ Goto("kill_loader")
        /\ UNCHANGED <<loader, outside, swallowed, denied, signals>>
  /\ UNCHANGED <<opt, handlers, stopping, filter, rows>>

\* process.kill() ends sudo, which cannot pass it on.
KillLoader ==
  /\ pc = "kill_loader"
  /\ \/ Allowed /\ Goto("drain_loader") /\ UNCHANGED bounds
     \/ Denied
  /\ UNCHANGED <<opt, handlers, stopping, resources, rows>>

\* communicate() waits for the end of a pipe that the loader holds: until it ends, if
\* ever.
DrainLoader ==
  /\ pc = "drain_loader"
  /\ loader' = FALSE
  /\ Detached
  /\ UNCHANGED <<opt, handlers, stopping, filter, rows, bounds>>

---------------------------------------------------------------------------------
(* finally: collector.close(), writer.flush(), writer.close().                     *)

\* Mutant: detach_on_close is taken for its opposite.
CloseLoader_Inverted ==
  /\ pc = "close_loader"
  /\ Goto(IF loader /\ opt.keep THEN "stop_loader" ELSE "close_filter")
  /\ UNCHANGED <<opt, handlers, stopping, resources, rows, bounds>>

\* close() stops the receive loader first.
CloseLoader ==
  /\ pc = "close_loader"
  /\ Goto(IF loader /\ ~opt.keep THEN "stop_loader" ELSE "close_filter")
  /\ UNCHANGED <<opt, handlers, stopping, resources, rows, bounds>>

\* Then it removes the filter of its preference, whoever added it: after --no-attach
\* it does the same on the interface that was named, or on one called "unknown".
CloseFilter ==
  /\ pc = "close_filter"
  /\ IF ~opt.keep /\ (opt.attach \/ opt.named)
     THEN DetachFilter
     ELSE UNCHANGED <<filter, bounds>>
  /\ Goto("flush")
  /\ UNCHANGED <<opt, handlers, stopping, loader, rows>>

\* Mutant: Parquet rows are added to those in the file.
ParquetFile_Appended == stored \o buffer

\* COPY TO replaces the file by one with all rows kept so far; without rows nothing is
\* written.
ParquetFile == IF buffer = <<>> THEN stored ELSE buffer

\* flush() commits, or writes the Parquet file.
Flush ==
  /\ pc = "flush"
  /\ \/ /\ opt.storage = "parquet"
        /\ stored' = ParquetFile /\ UNCHANGED buffer
        /\ Goto("close") /\ UNCHANGED bounds
     \/ /\ opt.storage # "parquet"
        /\ stored' = stored \o buffer /\ buffer' = <<>>
        /\ Goto("close") /\ UNCHANGED bounds
     \/ opt.storage \notin {"none", "clickhouse"} /\ Fails("other") /\ UNCHANGED <<buffer, stored>>
  /\ UNCHANGED <<opt, handlers, stopping, resources, taken, batch>>

\* close() drops what was not committed; Parquet flushes once more.
CloseWriter ==
  /\ pc = "close"
  /\ \/ /\ stored' = IF opt.storage = "parquet" THEN ParquetFile ELSE stored
        /\ buffer' = <<>>
        /\ Exit(Outcome(pending)) /\ UNCHANGED bounds
     \/ opt.storage = "parquet" /\ Fails("other") /\ UNCHANGED <<buffer, stored>>
  /\ UNCHANGED <<opt, handlers, stopping, resources, taken, batch>>

---------------------------------------------------------------------------------
\* The interface has no filter, or one of a run that was killed, is still alive, or
\* was told to keep it.
Init ==
  /\ opt \in Options
  /\ filter \in {"none", "other"}
  /\ pc = "attach" /\ handlers = {} /\ stopping = FALSE
  /\ pending = "none" /\ status = "running"
  /\ loader = FALSE
  /\ taken = 0 /\ batch = 0 /\ buffer = <<>> /\ stored = <<>>
  /\ outside = FALSE /\ swallowed = FALSE /\ denied = FALSE
  /\ signals = 0 /\ faults = 0

Start == AttachFilter \/ FindMap \/ ConfigureDelivery \/ Undo \/ CreateWriter \/ InstallHandler
Poll  == Read \/ Emit \/ Write \/ Commit \/ Check \/ Sleep
Stop  == StopLoader \/ AwaitLoader \/ KillLoader
Finish == CloseLoader \/ CloseFilter \/ Flush \/ CloseWriter

Process == Start \/ Poll \/ Stop \/ Finish

Next == Process \/ DrainLoader \/ \E sig \in {"TERM", "INT"} : Signal(sig)

Spec == Init /\ [][Next]_vars

\* Every command the process waits for ends, and sleeping does; the wait for a loader
\* that outlived its sudo has no timeout and need not end.
FairSpec == Spec /\ WF_vars(Process)

---------------------------------------------------------------------------------
(* Properties.                                                                     *)

\* Type correctness.
TypeOK ==
  /\ opt \in Options /\ pc \in Places
  /\ handlers \subseteq {"TERM", "INT"} /\ stopping \in BOOLEAN
  /\ pending \in {"none", "runtime", "other"}
  /\ status \in {"running", "ok", "interrupted", "error", "traceback", "killed"}
  /\ filter \in {"none", "self", "other"} /\ loader \in BOOLEAN
  /\ taken \in Nat /\ batch \in 0 .. taken
  /\ buffer \in Seq(1 .. taken) /\ stored \in Seq(1 .. taken)
  /\ outside \in BOOLEAN /\ swallowed \in BOOLEAN /\ denied \in BOOLEAN
  /\ signals \in Nat /\ faults \in Nat

Stored == {stored[i] : i \in 1 .. Len(stored)}

\* A run that ends with exit status 0 has cleaned up whatever it was told not to keep,
\* and has stored all rows but, when it was stopped, those of its last checkpoint
\* (cli.py:251-256), unless tc failed behind its back.
SuccessIsClean ==
  status = "ok" /\ ~swallowed =>
    /\ ~opt.keep => ~loader /\ filter # "self"
    /\ opt.storage # "none" => 1 .. taken - 1 \subseteq Stored
    /\ opt.storage # "none" /\ signals = 0 => 1 .. taken = Stored

\* Nor does a run that fails leave anything: once run_analyzer has its handlers, whatever
\* fails in the loop or in finally, and however the process ends, the filter and the
\* loader are gone (cli.py:253-254), unless a signal broke finally off, tc failed behind
\* its back, or an analyzer that is not root was refused the signal to sudo: then the
\* PermissionError leaves finally with both in place (ebpf.py:238, 704-708).
FailureCleansUpToo ==
  /\ pc = "exited" /\ handlers = {"TERM", "INT"}
  /\ ~outside /\ ~swallowed /\ ~denied /\ ~opt.keep
  => ~loader /\ filter # "self"

\* A database that is written at every checkpoint (SQLite, DuckDB, ClickHouse) has the
\* rows of all checkpoints before the last one at any time, however the process ends.
EarlierRowsAreDurable ==
  opt.storage \in {"sqlite", "duckdb", "clickhouse"} => 1 .. taken - 1 \subseteq Stored

\* Rows are stored in order and at most once, also by a Parquet writer that flushes
\* twice (writers.py:167-188) and by a request whose answer is lost.
StoredOnce ==
  \A i, j \in 1 .. Len(stored) : i < j => stored[i] < stored[j]

\* A stop request ends the run (cli.py:229-232, 251-252): no operation and no sleep
\* outlasts it but one, the wait without a timeout for a loader that SIGTERM did not end
\* and whose sudo was killed (ebpf.py:243-244); and if the request came in the loop,
\* nothing else has failed and sudo could be signalled, the exit status is 0.
StopEndsRun ==
  signals > 0 ~>
    \/ pc = "exited" /\ (~outside /\ faults = 0 /\ ~denied => status = "ok")
    \/ [](pc = "drain_loader")

=================================================================================

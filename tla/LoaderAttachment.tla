---------------------------- MODULE LoaderAttachment ----------------------------
(* A BPF loader and the Python attachment that starts, watches and stops it: three   *)
(* processes, the analyzer, sudo (unless the analyzer is root and the attachment a    *)
(* channel's) and the loader, which holds the BPF links and the map as long as it     *)
(* lives.  They talk through the loader's standard output and through signals.        *)
(*                                                                                    *)
(* The main loop around it is that of run-channels; "channel" stands for the TCP and  *)
(* the UDP attachment, whose code is the same, "receive" for ReceiveBpfAttachment.    *)
(* Time is not modelled: a timeout may strike as long as what it waits for has not    *)
(* happened.                                                                          *)
EXTENDS Naturals

CONSTANTS Setups,    \* how the analyzer is run
          MaxFaults, \* bound: loaders that crash, output lines that are garbled
          MaxStops   \* bound: signals that stop the analyzer

\* kind: the attachment; root: the analyzer's user; attempts: backends the loader may
\* try (fentry, then kprobe), 1 for a channel; watch: --watch.
Setup ==
  [kind : {"channel", "receive"}, root : BOOLEAN, attempts : 1 .. 2, watch : BOOLEAN]

ASSUME LoaderAssumption ==
  /\ Setups \subseteq Setup
  /\ MaxFaults \in Nat /\ MaxStops \in Nat

VARIABLES
  setup,
  py,        \* the attachment's or the main loop's next operation
  pending,   \* an exception propagates while detach() runs
  outcome,   \* how the analyzer ended, or "running"
  attached,  \* self.process is set
  handled,   \* the analyzer has installed its signal handlers
  sudo,      \* "none", "starting", "running", "exited"
  relay,     \* sudo has a SIGTERM it has not passed on
  loader,    \* the loader's next operation; "none" before it is started
  left,      \* backends the loader has not tried yet
  links,     \* the loader has programs attached
  stopping,  \* the loader's stopping
  stdout,    \* what is in the pipe: "empty", "line", "garbled"
  cause,     \* ghost: why nobody could stop the loader, or "none"
  faults, stops  \* bounded counters

python == <<py, pending, outcome, attached, handled>>
child  == <<sudo, relay, loader, left, links, stopping>>
bounds == <<faults, stops>>
vars == <<setup, python, child, stdout, cause, bounds>>

Attaching == {"select", "readline"}
Looping   == {"ensure", "dump", "sleep"}
Detaching == {"poll", "terminate", "communicate", "kill", "drain"}
Places    == {"spawn", "install", "exited"} \cup Attaching \cup Looping \cup Detaching

---------------------------------------------------------------------------------
(* The loader (tcp_channel_loader.c, udp_channel_loader.c, udp_receive_loader.c).    *)

LoaderGone == loader \in {"none", "exited"}

LoaderExits == loader' = "exited" /\ links' = FALSE

\* Mutant: the fallback is counted one off.
LoadAndAttach_OneMore ==
  /\ loader = "load"
  /\ left' = left - 1
  /\ \/ links' = TRUE /\ loader' = "handlers"
     \/ left > 0 /\ links' = FALSE /\ UNCHANGED loader
     \/ left = 0 /\ LoaderExits
  /\ UNCHANGED <<setup, python, sudo, relay, stopping, stdout, cause, bounds>>

\* Opening, verifying, attaching the programs, finding the map: on success the links
\* are held; a failed backend is destroyed, and the receive loader tries the next.
LoadAndAttach ==
  /\ loader = "load"
  /\ left' = left - 1
  /\ \/ links' = TRUE /\ loader' = "handlers"
     \/ left > 1 /\ links' = FALSE /\ UNCHANGED loader
     \/ left = 1 /\ LoaderExits
  /\ UNCHANGED <<setup, python, sudo, relay, stopping, stdout, cause, bounds>>

\* signal(SIGINT, ...), signal(SIGTERM, ...)
InstallHandlers ==
  /\ loader = "handlers"
  /\ loader' = "report"
  /\ UNCHANGED <<setup, python, sudo, relay, left, links, stopping, stdout, cause, bounds>>

\* Mutant: SIGPIPE is ignored, and so is the result of printf.
Report_Unheard ==
  /\ loader = "report"
  /\ loader' = "test"
  /\ IF py # "exited" THEN stdout' = "line" ELSE UNCHANGED stdout
  /\ UNCHANGED <<setup, python, sudo, relay, left, links, stopping, cause, bounds>>

\* printf, fflush: without a reader SIGPIPE ends the loader.
Report ==
  /\ loader = "report"
  /\ \/ py # "exited" /\ loader' = "test" /\ stdout' = "line" /\ UNCHANGED <<links, faults>>
     \/ /\ py # "exited" /\ faults < MaxFaults /\ faults' = faults + 1
        /\ loader' = "test" /\ stdout' = "garbled" /\ UNCHANGED links
     \/ py = "exited" /\ LoaderExits /\ UNCHANGED <<stdout, faults>>
  /\ UNCHANGED <<setup, python, sudo, relay, left, stopping, cause, stops>>

\* while (!stopping) pause();  The test and the call are two steps: a handler that runs
\* in between sets stopping, and pause() waits for a signal that will not come.
Wait ==
  /\ \/ loader = "test" /\ loader' = IF stopping THEN "destroy" ELSE "pause"
     \/ loader = "pause" /\ loader' = "blocked"
  /\ UNCHANGED <<setup, python, sudo, relay, left, links, stopping, stdout, cause, bounds>>

\* destroy_state(&state); return 0;
Destroy ==
  /\ loader = "destroy"
  /\ LoaderExits
  /\ UNCHANGED <<setup, python, sudo, relay, left, stopping, stdout, cause, bounds>>

\* The loader gets a SIGTERM: before it has a handler it dies, and the kernel releases
\* the links with its file descriptors; stop_handler sets stopping and interrupts a
\* pause() that has begun.
TermLoader ==
  \/ loader \in {"load", "handlers"} /\ LoaderExits /\ UNCHANGED stopping
  \/ /\ loader \in {"report", "test", "pause", "destroy"}
     /\ stopping' = TRUE /\ UNCHANGED <<loader, links>>
  \/ loader = "blocked" /\ stopping' = TRUE /\ loader' = "test" /\ UNCHANGED links
  \/ LoaderGone /\ UNCHANGED <<loader, links, stopping>>

\* Killed from outside, by the OOM killer or an administrator.
Crash ==
  /\ ~LoaderGone
  /\ faults < MaxFaults /\ faults' = faults + 1
  /\ LoaderExits
  /\ UNCHANGED <<setup, python, sudo, relay, left, stopping, stdout, cause, stops>>

---------------------------------------------------------------------------------
(* sudo.                                                                             *)

\* It starts the loader, or refuses: -n means it may not ask for a password.
SudoStarts ==
  /\ sudo = "starting"
  /\ \/ sudo' = "running" /\ loader' = "load"
     \/ sudo' = "exited" /\ UNCHANGED loader
  /\ UNCHANGED <<setup, python, relay, left, links, stopping, stdout, cause, bounds>>

\* It passes SIGTERM on, and exits when the loader has.
SudoRelays ==
  /\ sudo = "running" /\ relay
  /\ relay' = FALSE /\ TermLoader
  /\ UNCHANGED <<setup, python, sudo, left, stdout, cause, bounds>>

SudoExits ==
  /\ sudo = "running" /\ LoaderGone
  /\ sudo' = "exited" /\ relay' = FALSE
  /\ UNCHANGED <<setup, python, loader, left, links, stopping, stdout, cause, bounds>>

---------------------------------------------------------------------------------
(* The analyzer: attach().                                                           *)

ViaSudo == sudo # "none"

\* What Popen.poll() and a pipe's end tell: the child is sudo if there is one, but the
\* pipe is the loader's, too.
ChildExited == IF ViaSudo THEN sudo = "exited" ELSE LoaderGone
EndOfFile   == LoaderGone /\ sudo \in {"none", "exited"}

Goto(place) == py' = place /\ UNCHANGED <<pending, outcome, handled>>

Exit(how) == py' = "exited" /\ outcome' = how /\ UNCHANGED <<pending, handled>>

\* An exception leaves attach() or the main loop by way of detach().
RaiseAndDetach == py' = "poll" /\ pending' = TRUE /\ UNCHANGED <<outcome, handled>>

\* A file that is missing, a kernel that is too old, a command that cannot be run.
CannotSpawn ==
  /\ py = "spawn"
  /\ Exit("failed")
  /\ UNCHANGED <<setup, attached, child, stdout, cause, bounds>>

\* A channel's loader is a child of a root analyzer, and sudo's child otherwise.
SpawnChannel ==
  /\ py = "spawn" /\ setup.kind = "channel"
  /\ \/ setup.root /\ loader' = "load" /\ UNCHANGED sudo
     \/ ~setup.root /\ sudo' = "starting" /\ UNCHANGED loader
  /\ attached' = TRUE /\ Goto("select")
  /\ UNCHANGED <<setup, relay, left, links, stopping, stdout, cause, bounds>>

\* The receive loader is always sudo's child.
SpawnReceive ==
  /\ py = "spawn" /\ setup.kind = "receive"
  /\ sudo' = "starting"
  /\ attached' = TRUE /\ Goto("select")
  /\ UNCHANGED <<setup, relay, loader, left, links, stopping, stdout, cause, bounds>>

\* select() waits for output or the end of it, startup_timeout seconds at most.
Select ==
  /\ py = "select"
  /\ \/ (stdout # "empty" \/ EndOfFile) /\ Goto("readline")
     \/ stdout = "empty" /\ ~EndOfFile /\ RaiseAndDetach
  /\ UNCHANGED <<setup, attached, child, stdout, cause, bounds>>

\* A line is the loader's status; the end of file means that it has failed.
ReadLine ==
  /\ py = "readline"
  /\ \/ stdout = "line" /\ Goto("install") /\ UNCHANGED attached
     \/ stdout = "empty" /\ ChildExited /\ attached' = FALSE /\ Exit("failed")
  /\ UNCHANGED <<setup, child, stdout, cause, bounds>>

\* parse_tcp_channel_loader_status raises out of attach(), and the collector does not
\* exist yet whose close() would detach.
RefuseChannelStatus ==
  /\ py = "readline" /\ stdout = "garbled" /\ setup.kind = "channel"
  /\ Exit("failed") /\ cause' = "unparsed"
  /\ UNCHANGED <<setup, attached, child, stdout, bounds>>

\* ReceiveBpfAttachment detaches in the same place.
RefuseReceiveStatus ==
  /\ py = "readline" /\ stdout = "garbled" /\ setup.kind = "receive"
  /\ RaiseAndDetach
  /\ UNCHANGED <<setup, attached, child, stdout, cause, bounds>>

---------------------------------------------------------------------------------
(* The analyzer: run_channel_analyzer.                                               *)

RoundStart == IF setup.kind = "channel" THEN "ensure" ELSE "dump"

\* The handlers, for SIGTERM and SIGINT.
HandleSignals ==
  /\ py = "install"
  /\ handled' = TRUE /\ py' = RoundStart /\ UNCHANGED <<pending, outcome>>
  /\ UNCHANGED <<setup, attached, child, stdout, cause, bounds>>

\* ensure_alive(): a channel collector asks before every dump.
EnsureAlive ==
  /\ py = "ensure"
  /\ \/ ~ChildExited /\ Goto("dump") /\ UNCHANGED attached
     \/ ChildExited /\ attached' = FALSE /\ RaiseAndDetach
  /\ UNCHANGED <<setup, child, stdout, cause, bounds>>

\* Mutant: a dump that fails is taken for an empty map.
Dump_Empty ==
  /\ py = "dump"
  /\ Goto("sleep")
  /\ UNCHANGED <<setup, attached, child, stdout, cause, bounds>>

\* The map lives as long as the loader, which may have exited since it was asked;
\* bpftool may fail for other reasons as well.
Dump ==
  /\ py = "dump"
  /\ \/ ~LoaderGone /\ Goto("sleep") /\ UNCHANGED faults
     \/ LoaderGone /\ RaiseAndDetach /\ UNCHANGED faults
     \/ faults < MaxFaults /\ faults' = faults + 1 /\ RaiseAndDetach
  /\ UNCHANGED <<setup, attached, child, stdout, cause, stops>>

\* Print, and sleep until the next round or the deadline; one round without --watch.
Sleep ==
  /\ py = "sleep"
  /\ \/ setup.watch /\ Goto(RoundStart)
     \/ Goto("poll")
  /\ UNCHANGED <<setup, attached, child, stdout, cause, bounds>>

\* A signal stops the analyzer: it is killed before it has handlers; in the loop it
\* goes to finally; in finally it breaks that off.
Stop ==
  /\ py # "exited"
  /\ stops < MaxStops /\ stops' = stops + 1
  /\ \/ ~handled /\ Exit("killed") /\ cause' = "killed"
     \/ handled /\ py \in Looping /\ Goto("poll") /\ UNCHANGED cause
     \/ handled /\ py \in Detaching /\ Exit("interrupted") /\ cause' = "interrupted"
  /\ UNCHANGED <<setup, attached, child, stdout, faults>>

---------------------------------------------------------------------------------
(* The analyzer: detach().                                                           *)

Return == Exit(IF pending THEN "failed" ELSE "ok")

\* self.process = None; nothing to do if the child has exited.
Poll ==
  /\ py = "poll"
  /\ attached' = FALSE
  /\ IF attached /\ ~ChildExited THEN Goto("terminate") ELSE Return
  /\ UNCHANGED <<setup, child, stdout, cause, bounds>>

\* terminate() a loader of our own, or sudo: it passes the signal on, also one that it
\* gets before it has started the loader, or gives up.  Once sudo is "full root",
\* a user who is not gets PermissionError, which nobody catches.
Terminate ==
  /\ py = "terminate"
  /\ \/ ChildExited /\ UNCHANGED <<child, cause>> /\ Goto("communicate")
     \/ /\ ~ViaSudo
        /\ TermLoader /\ UNCHANGED <<sudo, relay, left, cause>> /\ Goto("communicate")
     \/ /\ sudo = "starting" \/ (sudo = "running" /\ setup.root)
        /\ relay' = TRUE
        /\ UNCHANGED <<sudo, loader, left, links, stopping, cause>> /\ Goto("communicate")
     \/ /\ sudo = "starting" /\ sudo' = "exited"
        /\ UNCHANGED <<relay, loader, left, links, stopping, cause>> /\ Goto("communicate")
     \/ /\ sudo \in {"starting", "running"} /\ ~setup.root
        /\ cause' = "denied" /\ UNCHANGED child /\ Exit("failed")
  /\ UNCHANGED <<setup, attached, stdout, bounds>>

\* Mutant: communicate() gives up on a child that does not end, and nobody kills it.
Communicate_GiveUp ==
  /\ py = "communicate"
  /\ Return
  /\ UNCHANGED <<setup, attached, child, stdout, cause, bounds>>

\* communicate(timeout=5) reads to the end of the pipe and waits for the child.  Five
\* seconds are enough for a running sudo to pass a signal on.
Communicate ==
  /\ py = "communicate"
  /\ \/ EndOfFile /\ Return
     \/ ~EndOfFile /\ ~(sudo = "running" /\ relay) /\ Goto("kill")
  /\ UNCHANGED <<setup, attached, child, stdout, cause, bounds>>

\* Mutant: terminate() once more.
Kill_Politely ==
  /\ py = "kill"
  /\ TermLoader
  /\ Goto("drain")
  /\ UNCHANGED <<setup, attached, sudo, relay, left, stdout, cause, bounds>>

\* kill() ends the child.  sudo cannot pass SIGKILL on; if it has a monitor process,
\* that may tell the loader, and if not nobody does.
Kill ==
  /\ py = "kill"
  /\ \/ ChildExited /\ UNCHANGED <<child, cause>> /\ Goto("drain")
     \/ ~ViaSudo /\ LoaderExits /\ UNCHANGED <<sudo, relay, left, stopping, cause>> /\ Goto("drain")
     \/ /\ sudo \in {"starting", "running"} /\ setup.root
        /\ sudo' = "exited" /\ relay' = FALSE
        /\ TermLoader \/ UNCHANGED <<loader, links, stopping>>
        /\ UNCHANGED <<left, cause>> /\ Goto("drain")
     \/ /\ sudo \in {"starting", "running"} /\ ~setup.root
        /\ cause' = "denied" /\ UNCHANGED child /\ Exit("failed")
  /\ UNCHANGED <<setup, attached, stdout, bounds>>

\* communicate() without a timeout: the pipe ends when the last process that holds it
\* does, which is not the one that was killed if that was sudo.
Drain ==
  /\ py = "drain"
  /\ EndOfFile
  /\ Return
  /\ UNCHANGED <<setup, attached, child, stdout, cause, bounds>>

---------------------------------------------------------------------------------
Init ==
  /\ setup \in Setups
  /\ py = "spawn" /\ pending = FALSE /\ outcome = "running"
  /\ attached = FALSE /\ handled = FALSE
  /\ sudo = "none" /\ relay = FALSE
  /\ loader = "none" /\ left = setup.attempts /\ links = FALSE /\ stopping = FALSE
  /\ stdout = "empty" /\ cause = "none"
  /\ faults = 0 /\ stops = 0

Loader == LoadAndAttach \/ InstallHandlers \/ Report \/ Wait \/ Destroy
Sudo   == SudoStarts \/ SudoRelays \/ SudoExits

Attach == \/ CannotSpawn \/ SpawnChannel \/ SpawnReceive \/ Select \/ ReadLine
          \/ RefuseChannelStatus \/ RefuseReceiveStatus
Loop   == HandleSignals \/ EnsureAlive \/ Dump \/ Sleep
Detach == Poll \/ Terminate \/ Communicate \/ Kill \/ Drain

Analyzer == Attach \/ Loop \/ Detach

Next == Loader \/ Sudo \/ Analyzer \/ Crash \/ Stop

Spec == Init /\ [][Next]_vars

\* Each process is scheduled; nobody has to crash or be stopped.
FairSpec == Spec /\ WF_vars(Loader) /\ WF_vars(Sudo) /\ WF_vars(Analyzer)

---------------------------------------------------------------------------------
(* Properties.                                                                       *)

\* Type correctness.
TypeOK ==
  /\ setup \in Setups /\ py \in Places
  /\ pending \in BOOLEAN /\ attached \in BOOLEAN /\ handled \in BOOLEAN
  /\ outcome \in {"running", "ok", "failed", "killed", "interrupted"}
  /\ sudo \in {"none", "starting", "running", "exited"} /\ relay \in BOOLEAN
  /\ loader \in {"none", "load", "handlers", "report", "test", "pause", "blocked",
                 "destroy", "exited"}
  /\ left \in 0 .. 2 /\ links \in BOOLEAN /\ stopping \in BOOLEAN
  /\ stdout \in {"empty", "line", "garbled"}
  /\ cause \in {"none", "unparsed", "killed", "interrupted", "denied"}
  /\ faults \in Nat /\ stops \in Nat

\* An analyzer that ends by itself leaves no loader and no attached program behind, a
\* readiness that comes late (tcp_channel.py:292) and a loader that outlives sudo
\* (tcp_channel.py:341) included.  There are four exceptions, and one of them alone is
\* no signal and no lack of permission: a status that does not parse.
NoSilentOrphan ==
  py = "exited" /\ cause = "none" => LoaderGone /\ ~links

\* The map of a loader that has exited is not read for ever as if nothing had happened
\* (tcp_channel.py:404): the analyzer ends.
DeathIsNoticed ==
  py \in Looping /\ loader = "exited" ~> py = "exited"

\* detach() of a loader of our own ends (tcp_channel.py:336-341), also when the wake-up
\* by SIGTERM is lost (tcp_channel_loader.c:136).
DetachEnds ==
  py \in Detaching /\ ~ViaSudo ~> py = "exited"

\* A loader whose analyzer was killed before it read the status does not stay
\* (tcp_channel_loader.c:133): it writes into a pipe that has no reader.
UnreadLoaderEnds ==
  outcome = "killed" /\ stdout = "empty" ~> [](LoaderGone /\ ~links)

\* cli.py:226, "Translating the signal into a normal exception lets the `finally` clean
\* up": after a stop in the loop finally comes to its end, and the loader to its own.
StopEndsLoader ==
  handled /\ stops > 0 ~> py = "exited" /\ (outcome # "interrupted" => LoaderGone)

=================================================================================

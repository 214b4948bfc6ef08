------------------------- MODULE LoaderAttachmentProofs -------------------------
(* Proofs about LoaderAttachment, for every set of setups and every bound.          *)
EXTENDS LoaderAttachment, TLAPS

---------------------------------------------------------------------------------
(* The inductive invariant.                                                         *)

\* The loader holds links while it lives only, and starts with a backend to try.
LoaderInv ==
  /\ LoaderGone => ~links
  /\ loader \in {"none", "load"} => left \in 1 .. 2

\* A loader comes after its sudo, and survives it only when detach() has killed sudo.
SudoInv ==
  /\ sudo = "starting" => loader = "none"
  /\ sudo = "exited" /\ ~LoaderGone => py = "drain" \/ (py = "exited" /\ cause # "none")

\* What the analyzer knows of its child at each place, and that one which ended by
\* itself has seen the end of the pipe.
PythonInv ==
  /\ py = "spawn" => sudo = "none" /\ loader = "none"
  /\ py \in Attaching \cup {"install"} \cup Looping => attached
  /\ py \notin {"spawn", "exited"} => ViaSudo \/ loader # "none"
  /\ py = "poll" /\ ~attached => ChildExited
  /\ py = "exited" /\ cause = "none" => EndOfFile

Inv == LoaderInv /\ SudoInv /\ PythonInv

---------------------------------------------------------------------------------
(* Type correctness.                                                                *)

FlagsTyped ==
  /\ pending \in BOOLEAN /\ attached \in BOOLEAN /\ handled \in BOOLEAN
  /\ relay \in BOOLEAN /\ links \in BOOLEAN /\ stopping \in BOOLEAN

LoaderPlaces ==
  {"none", "load", "handlers", "report", "test", "pause", "blocked", "destroy", "exited"}

ValuesTyped ==
  /\ setup \in Setups /\ py \in Places
  /\ outcome \in {"running", "ok", "failed", "killed", "interrupted"}
  /\ sudo \in {"none", "starting", "running", "exited"}
  /\ loader \in LoaderPlaces /\ left \in 0 .. 2
  /\ stdout \in {"empty", "line", "garbled"}
  /\ cause \in {"none", "unparsed", "killed", "interrupted", "denied"}
  /\ faults \in Nat /\ stops \in Nat

\* TypeOK is the two together.
LEMMA TypeOKParts == TypeOK <=> FlagsTyped /\ ValuesTyped
  BY DEF TypeOK, FlagsTyped, ValuesTyped, LoaderPlaces

\* Flags stay flags.
LEMMA FlagsTypedStep == FlagsTyped /\ [Next]_vars => FlagsTyped'
<1> SUFFICES ASSUME FlagsTyped, [Next]_vars PROVE FlagsTyped'
  OBVIOUS
<1> USE DEF FlagsTyped
<1>1. CASE LoadAndAttach
  BY <1>1, Zenon DEF LoadAndAttach, LoaderExits, python
<1>2. CASE InstallHandlers
  BY <1>2, Zenon DEF InstallHandlers, python
<1>3. CASE Report
  BY <1>3, Zenon DEF Report, LoaderExits, python
<1>4. CASE Wait
  BY <1>4, Zenon DEF Wait, python
<1>5. CASE Destroy
  BY <1>5, Zenon DEF Destroy, LoaderExits, python
<1>6. CASE Crash
  BY <1>6, Zenon DEF Crash, LoaderExits, python
<1>7. CASE SudoStarts
  BY <1>7, Zenon DEF SudoStarts, python
<1>8. CASE SudoRelays
  BY <1>8, Zenon DEF SudoRelays, TermLoader, LoaderExits, python
<1>9. CASE SudoExits
  BY <1>9, Zenon DEF SudoExits, python
<1>10. CASE CannotSpawn
  BY <1>10, Zenon DEF CannotSpawn, Exit, child
<1>11. CASE SpawnChannel
  BY <1>11, Zenon DEF SpawnChannel, Goto
<1>12. CASE SpawnReceive
  BY <1>12, Zenon DEF SpawnReceive, Goto
<1>13. CASE Select
  BY <1>13, Zenon DEF Select, Goto, RaiseAndDetach, child
<1>14. CASE ReadLine
  BY <1>14, Zenon DEF ReadLine, Goto, Exit, child
<1>15. CASE RefuseChannelStatus
  BY <1>15, Zenon DEF RefuseChannelStatus, Exit, child
<1>16. CASE RefuseReceiveStatus
  BY <1>16, Zenon DEF RefuseReceiveStatus, RaiseAndDetach, child
<1>17. CASE HandleSignals
  BY <1>17, Zenon DEF HandleSignals, RoundStart, child
<1>18. CASE EnsureAlive
  BY <1>18, Zenon DEF EnsureAlive, Goto, RaiseAndDetach, child
<1>19. CASE Dump
  BY <1>19, Zenon DEF Dump, Goto, RaiseAndDetach, child
<1>20. CASE Sleep
  BY <1>20, Zenon DEF Sleep, RoundStart, Goto, child
<1>21. CASE Stop
  BY <1>21, Zenon DEF Stop, Goto, Exit, child
<1>22. CASE Poll
  BY <1>22, Zenon DEF Poll, Goto, Return, Exit, child
<1>23. CASE Terminate
  BY <1>23, Zenon DEF Terminate, TermLoader, LoaderExits, Goto, Exit, child
<1>24. CASE Communicate
  BY <1>24, Zenon DEF Communicate, Goto, Return, Exit, child
<1>25. CASE Kill
  BY <1>25, Zenon DEF Kill, TermLoader, LoaderExits, Goto, Exit, child
<1>26. CASE Drain
  BY <1>26, Zenon DEF Drain, Return, Exit, child
<1>27. CASE UNCHANGED vars
  BY <1>27, Zenon DEF vars, python, child
<1> QED
  BY <1>1, <1>2, <1>3, <1>4, <1>5, <1>6, <1>7, <1>8, <1>9, <1>10, <1>11, <1>12, <1>13, <1>14,
     <1>15, <1>16, <1>17, <1>18, <1>19, <1>20, <1>21, <1>22, <1>23, <1>24, <1>25, <1>26, <1>27
     DEF Next, Loader, Sudo, Analyzer, Attach, Loop, Detach

\* The other variables stay in their domains; a loader that is about to try a backend
\* has one left, so that the counter does not run below zero.
LEMMA ValuesTypedStep ==
  ValuesTyped /\ LoaderInv /\ [Next]_vars => ValuesTyped'
<1> SUFFICES ASSUME ValuesTyped, LoaderInv, [Next]_vars PROVE ValuesTyped'
  OBVIOUS
<1> USE DEF ValuesTyped, LoaderPlaces, Places, Attaching, Looping, Detaching, bounds
<1>1. CASE LoadAndAttach
  BY <1>1 DEF LoaderInv, LoadAndAttach, LoaderExits, python
<1>2. CASE InstallHandlers
  BY <1>2 DEF InstallHandlers, python
<1>3. CASE Report
  BY <1>3 DEF Report, LoaderExits, python
<1>4. CASE Wait
  BY <1>4 DEF Wait, python
<1>5. CASE Destroy
  BY <1>5 DEF Destroy, LoaderExits, python
<1>6. CASE Crash
  BY <1>6 DEF Crash, LoaderExits, python
<1>7. CASE SudoStarts
  BY <1>7 DEF SudoStarts, python
<1>8. CASE SudoRelays
  BY <1>8 DEF SudoRelays, TermLoader, LoaderExits, python
<1>9. CASE SudoExits
  BY <1>9 DEF SudoExits, python
<1>10. CASE CannotSpawn
  BY <1>10 DEF CannotSpawn, Exit, child
<1>11. CASE SpawnChannel
  BY <1>11 DEF SpawnChannel, Goto
<1>12. CASE SpawnReceive
  BY <1>12 DEF SpawnReceive, Goto
<1>13. CASE Select
  BY <1>13 DEF Select, Goto, RaiseAndDetach, child
<1>14. CASE ReadLine
  BY <1>14 DEF ReadLine, Goto, Exit, child
<1>15. CASE RefuseChannelStatus
  BY <1>15 DEF RefuseChannelStatus, Exit, child
<1>16. CASE RefuseReceiveStatus
  BY <1>16 DEF RefuseReceiveStatus, RaiseAndDetach, child
<1>17. CASE HandleSignals
  BY <1>17 DEF HandleSignals, RoundStart, child
<1>18. CASE EnsureAlive
  BY <1>18 DEF EnsureAlive, Goto, RaiseAndDetach, child
<1>19. CASE Dump
  BY <1>19 DEF Dump, Goto, RaiseAndDetach, child
<1>20. CASE Sleep
  BY <1>20 DEF Sleep, RoundStart, Goto, child
<1>21. CASE Stop
  BY <1>21 DEF Stop, Goto, Exit, child
<1>22. CASE Poll
  BY <1>22 DEF Poll, Goto, Return, Exit, child
<1>23. CASE Terminate
  BY <1>23 DEF Terminate, TermLoader, LoaderExits, Goto, Exit, child
<1>24. CASE Communicate
  BY <1>24 DEF Communicate, Goto, Return, Exit, child
<1>25. CASE Kill
  BY <1>25 DEF Kill, TermLoader, LoaderExits, Goto, Exit, child
<1>26. CASE Drain
  BY <1>26 DEF Drain, Return, Exit, child
<1>27. CASE UNCHANGED vars
  BY <1>27 DEF vars, python, child
<1> QED
  BY <1>1, <1>2, <1>3, <1>4, <1>5, <1>6, <1>7, <1>8, <1>9, <1>10, <1>11, <1>12, <1>13, <1>14,
     <1>15, <1>16, <1>17, <1>18, <1>19, <1>20, <1>21, <1>22, <1>23, <1>24, <1>25, <1>26, <1>27
     DEF Next, Loader, Sudo, Analyzer, Attach, Loop, Detach

\* The loader's links do not outlive it, and it starts once, with all its backends.
LEMMA LoaderInvStep == TypeOK /\ Inv /\ [Next]_vars => LoaderInv'
<1> SUFFICES ASSUME TypeOK, Inv, [Next]_vars PROVE LoaderInv'
  OBVIOUS
<1> USE DEF Inv, LoaderInv, SudoInv, PythonInv, LoaderGone
<1>1. CASE LoadAndAttach
  BY <1>1 DEF TypeOK, LoadAndAttach, LoaderExits, python
<1>2. CASE InstallHandlers
  BY <1>2 DEF InstallHandlers, python
<1>3. CASE Report
  BY <1>3 DEF Report, LoaderExits, python
<1>4. CASE Wait
  BY <1>4 DEF Wait, python
<1>5. CASE Destroy
  BY <1>5 DEF Destroy, LoaderExits, python
<1>6. CASE Crash
  BY <1>6 DEF Crash, LoaderExits, python
<1>7. CASE SudoStarts
  BY <1>7 DEF SudoStarts, python
<1>8. CASE SudoRelays
  BY <1>8 DEF SudoRelays, TermLoader, LoaderExits, python
<1>9. CASE SudoExits
  BY <1>9 DEF SudoExits, python
<1>10. CASE CannotSpawn
  BY <1>10 DEF CannotSpawn, Exit, child
<1>11. CASE SpawnChannel
  BY <1>11 DEF SpawnChannel, Goto
<1>12. CASE SpawnReceive
  BY <1>12 DEF SpawnReceive, Goto
<1>13. CASE Select
  BY <1>13 DEF Select, Goto, RaiseAndDetach, child
<1>14. CASE ReadLine
  BY <1>14 DEF ReadLine, Goto, Exit, child
<1>15. CASE RefuseChannelStatus
  BY <1>15 DEF RefuseChannelStatus, Exit, child
<1>16. CASE RefuseReceiveStatus
  BY <1>16 DEF RefuseReceiveStatus, RaiseAndDetach, child
<1>17. CASE HandleSignals
  BY <1>17 DEF HandleSignals, RoundStart, child
<1>18. CASE EnsureAlive
  BY <1>18 DEF EnsureAlive, Goto, RaiseAndDetach, child
<1>19. CASE Dump
  BY <1>19 DEF Dump, Goto, RaiseAndDetach, child
<1>20. CASE Sleep
  BY <1>20 DEF Sleep, RoundStart, Goto, child
<1>21. CASE Stop
  BY <1>21 DEF Stop, Goto, Exit, child
<1>22. CASE Poll
  BY <1>22 DEF Poll, Goto, Return, Exit, child
<1>23. CASE Terminate
  BY <1>23 DEF Terminate, TermLoader, LoaderExits, Goto, Exit, child
<1>24. CASE Communicate
  BY <1>24 DEF Communicate, Goto, Return, Exit, child
<1>25. CASE Kill
  BY <1>25 DEF Kill, TermLoader, LoaderExits, Goto, Exit, child
<1>26. CASE Drain
  BY <1>26 DEF Drain, Return, Exit, child
<1>27. CASE UNCHANGED vars
  BY <1>27 DEF vars, python, child
<1> QED
  BY <1>1, <1>2, <1>3, <1>4, <1>5, <1>6, <1>7, <1>8, <1>9, <1>10, <1>11, <1>12, <1>13, <1>14,
     <1>15, <1>16, <1>17, <1>18, <1>19, <1>20, <1>21, <1>22, <1>23, <1>24, <1>25, <1>26, <1>27
     DEF Next, Loader, Sudo, Analyzer, Attach, Loop, Detach


---------------------------------------------------------------------------------
(* No loader is left behind.                                                        *)

\* sudo starts before its loader and ends after it, unless detach() kills it.
LEMMA SudoInvStep == TypeOK /\ Inv /\ [Next]_vars => SudoInv'
<1> SUFFICES ASSUME TypeOK, Inv, [Next]_vars PROVE SudoInv'
  OBVIOUS
<1> USE DEF Inv, SudoInv, PythonInv, LoaderGone, EndOfFile, Attaching, Looping, Detaching
<1>1. CASE LoadAndAttach
  BY <1>1 DEF LoadAndAttach, LoaderExits, python
<1>2. CASE InstallHandlers
  BY <1>2 DEF InstallHandlers, python
<1>3. CASE Report
  BY <1>3 DEF Report, LoaderExits, python
<1>4. CASE Wait
  BY <1>4 DEF Wait, python
<1>5. CASE Destroy
  BY <1>5 DEF Destroy, LoaderExits, python
<1>6. CASE Crash
  BY <1>6 DEF Crash, LoaderExits, python
<1>7. CASE SudoStarts
  BY <1>7 DEF SudoStarts, python
<1>8. CASE SudoRelays
  BY <1>8 DEF SudoRelays, TermLoader, LoaderExits, python
<1>9. CASE SudoExits
  BY <1>9 DEF SudoExits, python
<1>10. CASE CannotSpawn
  BY <1>10 DEF CannotSpawn, Exit, child
<1>11. CASE SpawnChannel
  BY <1>11 DEF SpawnChannel, Goto
<1>12. CASE SpawnReceive
  BY <1>12 DEF SpawnReceive, Goto
<1>13. CASE Select
  BY <1>13 DEF Select, Goto, RaiseAndDetach, child
<1>14. CASE ReadLine
  BY <1>14 DEF ReadLine, Goto, Exit, child
<1>15. CASE RefuseChannelStatus
  BY <1>15 DEF RefuseChannelStatus, Exit, child
<1>16. CASE RefuseReceiveStatus
  BY <1>16 DEF RefuseReceiveStatus, RaiseAndDetach, child
<1>17. CASE HandleSignals
  BY <1>17 DEF HandleSignals, RoundStart, child
<1>18. CASE EnsureAlive
  BY <1>18 DEF EnsureAlive, Goto, RaiseAndDetach, child
<1>19. CASE Dump
  BY <1>19 DEF Dump, Goto, RaiseAndDetach, child
<1>20. CASE Sleep
  BY <1>20 DEF Sleep, RoundStart, Goto, child
<1>21. CASE Stop
  BY <1>21 DEF Stop, Goto, Exit, child
<1>22. CASE Poll
  BY <1>22 DEF Poll, Goto, Return, Exit, child
<1>23. CASE Terminate
  BY <1>23 DEF Terminate, TermLoader, LoaderExits, Goto, Exit, child
<1>24. CASE Communicate
  BY <1>24 DEF Communicate, Goto, Return, Exit, child
<1>25. CASE Kill
  BY <1>25 DEF Kill, TermLoader, LoaderExits, Goto, Exit, child
<1>26. CASE Drain
  BY <1>26 DEF Drain, Return, Exit, child
<1>27. CASE UNCHANGED vars
  BY <1>27 DEF vars, python, child
<1> QED
  BY <1>1, <1>2, <1>3, <1>4, <1>5, <1>6, <1>7, <1>8, <1>9, <1>10, <1>11, <1>12, <1>13, <1>14,
     <1>15, <1>16, <1>17, <1>18, <1>19, <1>20, <1>21, <1>22, <1>23, <1>24, <1>25, <1>26, <1>27
     DEF Next, Loader, Sudo, Analyzer, Attach, Loop, Detach

\* The analyzer leaves by a place where it has seen the child's end, or by one that
\* "cause" names.
LEMMA PythonInvStep == TypeOK /\ Inv /\ [Next]_vars => PythonInv'
<1> SUFFICES ASSUME TypeOK, Inv, [Next]_vars PROVE PythonInv'
  OBVIOUS
<1> USE DEF TypeOK, Inv, SudoInv, PythonInv, LoaderGone, ViaSudo, ChildExited, EndOfFile,
            Attaching, Looping, Detaching
<1>1. CASE LoadAndAttach
  BY <1>1 DEF LoadAndAttach, LoaderExits, python
<1>2. CASE InstallHandlers
  BY <1>2 DEF InstallHandlers, python
<1>3. CASE Report
  BY <1>3 DEF Report, LoaderExits, python
<1>4. CASE Wait
  BY <1>4 DEF Wait, python
<1>5. CASE Destroy
  BY <1>5 DEF Destroy, LoaderExits, python
<1>6. CASE Crash
  BY <1>6 DEF Crash, LoaderExits, python
<1>7. CASE SudoStarts
  BY <1>7 DEF SudoStarts, python
<1>8. CASE SudoRelays
  BY <1>8 DEF SudoRelays, TermLoader, LoaderExits, python
<1>9. CASE SudoExits
  BY <1>9 DEF SudoExits, python
<1>10. CASE CannotSpawn
  BY <1>10 DEF CannotSpawn, Exit, child
<1>11. CASE SpawnChannel
  BY <1>11 DEF SpawnChannel, Goto
<1>12. CASE SpawnReceive
  BY <1>12 DEF SpawnReceive, Goto
<1>13. CASE Select
  BY <1>13 DEF Select, Goto, RaiseAndDetach, child
<1>14. CASE ReadLine
  BY <1>14 DEF ReadLine, Goto, Exit, child
<1>15. CASE RefuseChannelStatus
  BY <1>15 DEF RefuseChannelStatus, Exit, child
<1>16. CASE RefuseReceiveStatus
  BY <1>16 DEF RefuseReceiveStatus, RaiseAndDetach, child
<1>17. CASE HandleSignals
  BY <1>17 DEF HandleSignals, RoundStart, child
<1>18. CASE EnsureAlive
  BY <1>18 DEF EnsureAlive, Goto, RaiseAndDetach, child
<1>19. CASE Dump
  BY <1>19 DEF Dump, Goto, RaiseAndDetach, child
<1>20. CASE Sleep
  BY <1>20 DEF Sleep, RoundStart, Goto, child
<1>21. CASE Stop
  BY <1>21 DEF Stop, Goto, Exit, child
<1>22. CASE Poll
  BY <1>22 DEF Poll, Goto, Return, Exit, child
<1>23. CASE Terminate
  BY <1>23 DEF Terminate, TermLoader, LoaderExits, Goto, Exit, child
<1>24. CASE Communicate
  BY <1>24 DEF Communicate, Goto, Return, Exit, child
<1>25. CASE Kill
  BY <1>25 DEF Kill, TermLoader, LoaderExits, Goto, Exit, child
<1>26. CASE Drain
  BY <1>26 DEF Drain, Return, Exit, child
<1>27. CASE UNCHANGED vars
  BY <1>27 DEF vars, python, child
<1> QED
  BY <1>1, <1>2, <1>3, <1>4, <1>5, <1>6, <1>7, <1>8, <1>9, <1>10, <1>11, <1>12, <1>13, <1>14,
     <1>15, <1>16, <1>17, <1>18, <1>19, <1>20, <1>21, <1>22, <1>23, <1>24, <1>25, <1>26, <1>27
     DEF Next, Loader, Sudo, Analyzer, Attach, Loop, Detach

\* The invariants of this module hold in every reachable state.
LEMMA AttachmentInvariant == Spec => [](TypeOK /\ Inv)
<1>1. Init => TypeOK /\ Inv
  <2>1. Init => FlagsTyped
    BY Zenon DEF Init, FlagsTyped
  <2>2. Init => left \in 1 .. 2
    BY LoaderAssumption DEF Init, Setup
  <2>3. Init => ValuesTyped
    BY <2>2 DEF Init, ValuesTyped, LoaderPlaces, Places
  <2>4. Init => Inv
    BY <2>2 DEF Init, Inv, LoaderInv, SudoInv, PythonInv, LoaderGone, Attaching, Looping
  <2> QED
    BY <2>1, <2>3, <2>4, TypeOKParts
<1>2. TypeOK /\ Inv /\ [Next]_vars => TypeOK' /\ Inv'
  <2>1. TypeOK' <=> FlagsTyped' /\ ValuesTyped'
    BY DEF TypeOK, FlagsTyped, ValuesTyped, LoaderPlaces
  <2> QED
    BY <2>1, TypeOKParts, FlagsTypedStep, ValuesTypedStep, LoaderInvStep, SudoInvStep,
       PythonInvStep DEF Inv
<1> QED
  BY <1>1, <1>2, PTL DEF Spec

\* Every state is well-typed, whatever fails and in whatever order the three run; the
\* loader never counts its backends below zero.
THEOREM TypeCorrect == Spec => []TypeOK
  BY AttachmentInvariant, PTL

\* An analyzer that ends by itself leaves neither a loader nor an attached program
\* behind, a late readiness (tcp_channel.py:292) and a killed sudo (tcp_channel.py:341)
\* included.
THEOREM NoOrphan == Spec => []NoSilentOrphan
<1>1. Inv => NoSilentOrphan
  BY DEF Inv, LoaderInv, PythonInv, EndOfFile, NoSilentOrphan
<1> QED
  BY <1>1, AttachmentInvariant, PTL
=================================================================================

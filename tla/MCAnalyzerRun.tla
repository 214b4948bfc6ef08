---------------------------- MODULE MCAnalyzerRun ----------------------------
(* Command lines for AnalyzerRun.                                              *)
EXTENDS AnalyzerRun

\* As the service unit runs it, for every storage.
Service ==
  {[storage |-> s, delivery |-> d, attach |-> TRUE, keep |-> FALSE,
    named |-> FALSE, watch |-> TRUE, deadline |-> t, root |-> TRUE] :
     s \in Storages, d \in Deliveries, t \in BOOLEAN}

\* Without --watch, with --keep-attached, reading the map of another run, or run by a user
\* who may only use sudo, which matters to those with a loader.
Variations ==
  {o \in CommandLine :
     /\ o.storage \in {"none", "sqlite"}
     /\ o.deadline => o.watch
     /\ ~o.root => o.attach /\ o.delivery # "none"}

AllOptions == Service \cup Variations
==============================================================================

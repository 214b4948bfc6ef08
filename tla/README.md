# A TLA+ model of the eBPF UDP/TCP analyzer

The analyzer counts network traffic in kernel maps with BPF programs, and a Python
process turns the cumulative counters into rows of differences, one checkpoint after the
other. Unit tests reach the parsing and the arithmetic of one checkpoint. What they hardly
reach is what this directory is about: counters that move while they are dumped, entries
that are evicted between two system calls, CPUs that race for an insertion, a restart over
a map full of old traffic, processes and sockets that change hands while `/proc` is read,
and signals that arrive while the process attaches, writes, cleans up or waits for a loader
that waits for a signal.

Paths are relative to the repository; `ebpf.py` and the other Python files are in
`src/udp_analyzer/`, the C files in `bpf/`.

## The system and its parts

```
 frames ─▶ udp_ingress (tc, every CPU) ─▶ udp_ingress_counters (PERCPU_HASH, 65536)
 recvmsg ─▶ udp_receive (fentry/kprobe) ─▶ delivered counters  (PERCPU_HASH)
 tcp/udp sockets ─▶ tcp_channel, udp_channel ─▶ channel flows  (LRU_PERCPU_HASH)
                                                    │ bpftool map dump, entry by entry
 udp-analyzer run / run-channels ◀──────────────────┘
   read_checkpoint → filter, enrich → print → write → sleep
```

| Part | State | Operations | Interacts through |
|---|---|---|---|
| `udp_ingress.bpf.c` | counters map, drop tally, both per CPU | one run per incoming frame: checks, lookup, insert, lookup, two additions | the map; other CPUs |
| `udp_receive.bpf.c` | delivered map, cookie cache (LRU, kprobe only) | a run per received datagram | the map |
| `tcp_channel.bpf.c`, `udp_channel.bpf.c` | LRU flow maps | hooks on send, receive, state change | the map; eviction |
| `EbpfIngressCollector` (`ebpf.py`) | `previous`, `delivered_previous`, attachments | constructor, `read_checkpoint`, `close` | `bpftool` and `tc` subprocesses |
| `TcpChannelCollector`, `UdpChannelCollector` | `previous`, the loader | the same | `bpftool`, the loader's stdout |
| three C loaders and their attachments | a process that holds the BPF links | start, report readiness, wait for a signal | stdout, signals |
| `TcBpfAttachment`, `BpftoolMapReader` | the filter at an interface and preference, `map_id` | attach, detach, find the newest map by name | the kernel, shared by all analyzers |
| `channels.py` | unit files to targets | load, resolve, match | read by the channel collectors |
| `processes.py` | `/proc` socket cache, 1 s | refresh, enrich | fan-out of a row to processes |
| `writers.py` | an open transaction, rows in memory | `write_samples`, `flush`, `close` | SQLite, DuckDB, Parquet, ClickHouse |
| `cli.py` | `stopping`, signal handlers | `run_analyzer`, `run_channel_analyzer` | all of the above |
| `models.py`, `output.py`, `collectors.py`, `harness/`, `scripts/` | none | formatting, canned rows, test equipment | – |

What makes it hard, and what makes each part correct:

* **Programs.** Runs on several CPUs interleave at every map operation; frames come in
  shapes nobody tested. Correct: every frame is counted or dropped for its reason, once,
  and the reason is true.
* **Dump and difference.** A dump takes two system calls per entry and is no snapshot; LRU
  maps evict at any moment; a restarted analyzer meets old totals. Correct: rows never add
  up to more than was counted, a row holds only its own interval's traffic, a flow that
  lived on gets its exact difference, and baselines catch up.
* **Process.** A stop may arrive anywhere, any command may fail. Correct: a run that
  reports success has cleaned up and stored its rows, stored rows are neither repeated nor
  (but for the last checkpoint) lost, and a stop ends the run.
* **Loaders.** Readiness and termination are a handshake of three processes: analyzer, sudo
  and loader. Correct: an analyzer that ends by itself leaves no loader and no program
  attached, a loader that dies is noticed, and detaching ends.
* **Attribution.** Kernel counters know a socket, a cgroup or a process number; whose row it
  is, is read from `/proc` later. Correct: a row names who had the socket, or the unit the
  process belonged to, within the time the caches promise; nobody who had it is missed; and
  nobody is said to have received more than arrived.
* **Catalog.** Which of several files, targets and environment files decides what a unit is
  meant to receive. Correct: as the files say, in the order of precedence, whatever else
  lies beside them.

`PROJECT.json` lists the parts with what is modelled of each, and the hazards with the
line at which each bites and the properties that cover it.

## Modules

| Module | What it is | Code |
|---|---|---|
| `TrafficMeter` | abstract specification: traffic is counted, rows are written, rows never exceed traffic | the promise of the collectors |
| `CheckpointCollector` | a kernel map (hash or LRU) and the loop that dumps it and computes rows | `ebpf.py` `read_checkpoint`, `_read_ingress`, `_read_delivered`; `_read_flows` of the channel collectors |
| `CheckpointCollectorProofs` | theorems about it | |
| `IngressProgram` | the tc classifier on several CPUs | `udp_ingress.bpf.c` |
| `IngressPipeline` | both composed through the per-CPU map | `udp_ingress.bpf.c` + `ebpf.py` |
| `IngressPipelineProofs` | theorems about the program; the pipeline implements the collector | |
| `AnalyzerRun` | one process from start to exit | `cli.py` `main`, `run_analyzer`; constructor and `close()` of the collector; `writers.py` |
| `LoaderAttachment` | a loader, sudo and the attachment that starts, watches and stops it | the three `*_loader.c`; `TcpChannelBpfAttachment`, `UdpChannelBpfAttachment`, `ReceiveBpfAttachment`; `run_channel_analyzer` |
| `ChannelFlows` | sockets, the channel programs, and the rows with their unit and status | `tcp_channel.bpf.c`, `udp_channel.bpf.c`; the parsers and `_read_flows` of the channel collectors |
| `ChannelCatalog` | unit files to targets, resolution, matching | `channels.py`, `cli.py` `load_channel_catalog` |
| `DeliveredAttribution` | sockets, the receive program, the inventory of `/proc`, and the rows with their processes | `udp_receive.bpf.c`, `processes.py`, `ebpf.py` `_read_delivered` |
| `AnalyzerRunProofs`, `LoaderAttachmentProofs`, `ChannelFlowsProofs`, `ChannelCatalogProofs`, `DeliveredAttributionProofs` | theorems about the module each is named after | |
| `SumFacts` | lemmas about sums over finite sets, and induction over a set of numbers, for the proofs | |
| `MC*` | frames, increments and command lines for TLC | |

**CheckpointCollector.** `live` and `ctr` are the map; `totals` and `previous` are the two
dictionaries of the code; `phase` and `cursor` are the position of bpftool. `Insert` and
`Count` are the program's two kinds of write, `NextKey` and `Lookup` bpftool's two system
calls, `Checkpoint` the loop over `totals` (`Row` decides first sight, no growth and the
clamp, `Baseline` the replacement of `previous`), `Restart` a new process on the old map or
on a new one. `LookupFails` and `Rewind` are what happens when the entry under the cursor
was evicted. `floor` bounds what a torn read may return: every field lies between its value
when the key was returned and its value now. The `Lru` constant selects the map type, so
one module stands for the ingress and delivered maps (`FALSE`) and the channel maps
(`TRUE`). The remaining variables are ghosts that only properties read.

**IngressProgram.** A frame is a record of the lengths and flags the checks look at.
`Checks` lists the seven conditions in the code's order; `Find`, `InsertZero`, `FindAgain`,
`AddPacket` and `AddBytes` are the map operations, one step each.

**IngressPipeline.** `ReadSlot` copies one counter of one CPU at a time while the CPUs
count on. `Collector` is an instance of CheckpointCollector whose counter is the sum over
the CPUs at one moment: that this refinement (`RefinesCollector`) holds means per-CPU tearing
adds nothing to the behaviours the collector is checked and proved against. `RefinesMeter` is
`TrafficMeter` seen through both: what a row reports, some CPU has counted, once.

**AnalyzerRun.** `pc` is the operation that comes next; `Constructor`, `Unprotected`, `Loop`
and `Cleanup` are the four regions of the code that treat an exception differently, and
`Raise` is that difference. `Signal` may arrive before any operation. A checkpoint's rows
are one number, the checkpoint's; `taken` counts those whose baseline has advanced.
`filter` says whose filter is at the interface and preference. Stopping the receive loader,
from `close()` or from a constructor whose `attach()` has failed, is four places: the signal
to sudo (`StopLoader`; the kernel refuses it with a `PermissionError` if the analyzer is not
root, which `denied` records), five seconds for the loader to end (`AwaitLoader`), a kill
(`KillLoader`, refused likewise), and the second `communicate()`, which waits for the end of
the pipe without a timeout (`DrainLoader`).

**LoaderAttachment.** Three processes with a place each: `py` (the attachment's or main
loop's next operation), `sudo`, `loader`. They share the pipe (`stdout`, which ends when the
last process that can write to it is gone), signals (`relay` is one that sudo has and has not
passed on) and the child's exit. `while (!stopping) pause();` is two steps. `setup` says
which attachment it is, and who runs it: a channel's loader is the child of a root analyzer
and sudo's child otherwise, the receive loader always sudo's. A timeout may strike as long
as what it waits for has not happened. `cause` records, for the properties, why nobody could
stop a loader: the analyzer was killed, interrupted in `finally`, denied the signal by the
kernel, or did not get past a status line that does not parse.

**ChannelFlows.** `flows` is the LRU map with a value per CPU. `tcp_v4_connect_exit`,
`tcp_sendmsg_exit`, `tcp_recvmsg_exit`, `tcp_set_state_entry` and `udp_recvmsg_exit` are the
hooks, on any CPU, in a process or in whatever process a softirq has interrupted. A hook that
finds its entry adds to it (`Account`); one that does not goes on in two more steps, during
which other CPUs, evictions and dumps take theirs: `InsertFlow`, which may have been
forestalled by another CPU, evict other entries or fail, and `FindAgain`, which adds to the
entry or, if there is none, counts nothing. `Share`, `Exit` and `Start` change who holds a
socket and whose a process number is, also between two rows of a checkpoint. `Service` gives
the unit of a cgroup, `""` for one outside any `.service`. `read_checkpoint` dumps and clears
`pid_units`; `FlowRow` is one turn of the loop over the totals. A unit of traffic stands for
the bytes of a call. The twins agree but for the hooks, the flags and the endpoint, so
`proto` selects those, and `map` names for each definition one of the two places it stands
for.

**ChannelCatalog.** A text is a sequence of lines with their key, their URLs, the file they
name and whether a backslash continues them. `LoadPath` loads a path, `resolve_channel_targets`
asks for one target's addresses, `Moves` changes the resolver's answers afterwards. The
properties say what the files mean line by line (`Gives`) and which of two paths wins
(`Overrides`), without joining lines, lists or dictionaries: they are a second, declarative
reading of the same files.

**DeliveredAttribution.** `Deliver`, `LookupCookie`, `InsertCookie` and `Account` are the
receive program step by step on each CPU; `Ingress` stands in for it with
`--delivery-attribution legacy`. `Open`, `Share`, `Close`, `Free`, `Replace` and `Rename` are
the world: an address is used again by another socket, a process number by another process,
and a process that calls `exec` or `prctl` has another name and the same sockets. `Hears` is
the kernel's choice of sockets, which includes IPv6 sockets on the wildcard. `BeginScan` to
`EndScan` read `/proc` the way `scan` does, name, descriptors and socket table of one process
number after the other, while the world goes on; `FlowRow` and `EndScan` write a row with the
processes found.

## Runs

`tlc -config X.cfg M` for each run. With two workers `delivered`, `channels` (3.9 million
states each), `pipeline` and `collector_live` take one to two minutes, the others seconds.

| Run | Question | Bounds and why they are enough |
|---|---|---|
| `collector_live` | On an LRU map, are rows within the traffic and within their interval? With two fields that grow apart, is a surviving flow's row exact in each? Do baselines catch up once traffic stops? | 2 flows, 2 fields, counters to 1, 2 entries, 3 insertions, a restart: a flow is evicted, comes back and is met again |
| `ingress` | Is each kind of frame counted or dropped for its reason? Does a race for an insertion lose a frame or tally a wrong reason? | 10 kinds of frame, 3 flows, 2 entries, 2 CPUs with 2 frames each: the checks know one frame at a time; a third flow finds the map full, before or during its insertion |
| `pipeline` | Does tearing across CPUs stay within what CheckpointCollector allows? Do rows implement `TrafficMeter` from the CPUs' counters to the report? Is a packet in two rows? | 2 CPUs with a frame each, 2 flows: 4 counters to copy per entry while both CPUs count, entries inserted before or behind the cursor, a restart over old totals |
| `run_process` | What do signals and failures leave behind? Does a stop end the run? | 420 starts: every storage, delivery and combination of options, by root or by a user with sudo; 2 signals, 2 failures, 3 checkpoints: the loop is left from its second and third round, also with a failure during cleanup; a loader that ends, outlives the signal or whose sudo may not be signalled |
| `loader` | Does an analyzer that ends by itself leave a loader? Does it notice one that dies? Does detaching end? | every kind of attachment, user and number of backends, with and without `--watch`; 2 faults (crashes, garbled lines, failing dumps), 2 signals: a loader that crashes while it is being stopped, a second signal in `finally` |
| `channels` | Are reads counted? Whose rows are they, and do they hold what was received? | 1 socket, 2 processes in two cgroups (a unit's and one outside any service), 2 CPUs, a map of 1 entry, 3 calls, 2 events, 3 checkpoints: both CPUs insert for one socket, an entry is evicted by the other process's before its own CPU finds it again, a process number is used again before, during or between checkpoints. Sockets do not interact but through the room in the map, which the two cgroups fill |
| `catalog` | Which target does a unit get, what ends the load, what is matched? | 2 of 3 unit names (a template, its instance, another unit) in any of 4 directories, 11 texts (9 plain ones, among them several URLs and port 0, and 2 templates), 4 sets of environment files, 2 hosts with addresses of both families: every pair of files meets in every order |
| `delivered` | Is a row's process one that held the socket, is none missed, and how much is it said to have received? | 3 sockets (on the group, the wildcard and the IPv6 wildcard) at 2 addresses, 2 processes (host and container), 2 CPUs, 1 cookie in the cache, 3 datagrams and 2 events, 4 of them together, 3 checkpoints, 2 ticks and an inventory that lives for one: both CPUs insert for a new socket, an eviction, a socket passed on or reopened and a process renamed during the scan and while the inventory is still valid |

Deadlock is checked where nothing can stop the system. Elsewhere it may really stop: the
analyzer dies of a vanished entry on an LRU map, the process exits, a catalog is loaded once,
or the bounded number of frames, calls or datagrams has arrived.

Four further runs check a sentence of the documentation or of a comment that the code does
not keep. TLC finds the violation; `PROJECT.json` quotes the sentences.

| Run | What it shows |
|---|---|
| `collector_overreport` | An eviction of the key bpftool holds rewinds the dump of an LRU map; an entry met twice is summed twice, and a row exceeds what was counted |
| `loader_stop` | A SIGTERM between the loader's test of `stopping` and its `pause()` is lost. After five seconds the analyzer kills its child; if that is sudo, the loader lives on, and `communicate()` waits for the pipe it holds: the analyzer hangs in `finally` |
| `catalog_several` | `docs/roadmap.md` says that a load fails if a unit contains several URLs; the code warns and leaves the unit out, as `test_channels.py` wants it |
| `channels_reuse` | An entry names a process that has exited; its number belongs to another unit by the time of the checkpoint, and the row is that unit's, although the entry's cgroup is not |

What else the models show of the code, without a run of its own: `bpf_skb_pull_data(skb, 82)`
fails for frames shorter than 82 bytes, so datagrams with up to 39 bytes of payload are
dropped as `PULL_FAIL`, and the fragment offset is not looked at, so that a later fragment
counts as a datagram of a flow read from its payload (`CountedExactly` says exactly what is
counted, short frames and fragments included). A flow's first checkpoint only seeds its
baseline. The filter is attached before the handlers are installed, so an early stop leaves
it behind, and `--no-attach --interface X` deletes on exit the filter it only meant to read
(`SuccessIsClean` and `FailureCleansUpToo` speak of the filter the run has attached, once the
handlers are there). A loader's status line that does not parse leaves a channel's loader
behind (the exception in `NoSilentOrphan`); the receive attachment detaches in the same place.

Every property of a passing run has a mutant in `PROJECT.json`: a variant of one mapped
definition, kept next to it in the module under the comment "Mutant", under which TLC
finds the property violated.

## Fairness

`CheckpointCollector!FairSpec` has weak fairness of `Collector`: the loop is one thread
that sleeps `bucket_ms` and polls again, and each bpftool call returns. Nothing is assumed
about the kernel, about traffic, or about anyone restarting a dead analyzer; `CatchesUp`
accepts the death of the analyzer for that reason. Weak fairness of the disjunction is
enough: some collector step is enabled whenever the analyzer is alive, and traffic is
bounded, so a dump cannot be rewound for ever. (With unbounded traffic on an LRU map it
could: that is outside the property, which speaks of traffic that stops.)

`AnalyzerRun!FairSpec` has weak fairness of `Process`: the commands the process waits for
return (ClickHouse after a 10 s timeout), and sleeping ends. Signals are not fair: nobody has
to stop the analyzer. `DrainLoader` is not fair: it waits for the loader's pipe without a
timeout, and `LoaderAttachment` shows that this may last for ever if the loader missed its
signal and has sudo above it (`loader_stop`). So `StopEndsRun` says that a signal
ends the run, or leaves it waiting there for good.

`LoaderAttachment!FairSpec` has weak fairness of the loader, of sudo and of the analyzer
separately: each is a process of its own that the system schedules, and attaching programs,
starting a command and passing on a signal come to an end. Crashes, garbled lines and signals
are not fair. `UnreadLoaderEnds` speaks of a loader that has not printed yet: one whose status
was read or lies in the pipe sleeps on when its analyzer is killed, and nothing in the code
would wake it.

## Proofs

Proved by TLAPS for every value of the constants, under the assumptions the modules name
next to their constants; they are what the code or the kernel guarantees.

| Assumption | What it says beyond the types of the constants |
|---|---|
| `CollectorAssumption` | `NoFlow` is no flow |
| `ProgramAssumption` | flows are finitely many; frames have the fields the checks read, a 4-bit `ihl`, a linear part within the frame |
| `PipelineAssumption` | CPUs are finitely many |
| `RunAssumption`, `LoaderAssumption` | command lines and setups are what the parser and the three attachments allow |
| `ChannelAssumption` | a CPU at least; cgroups are finitely many and none is called `none`; the catalog has no unit `""`; process number 0 is nobody's |
| `DeliveredAssumption` | sockets are finitely many; who has opened one at the start runs |
| `CatalogAssumption` | URLs and environment files are finitely many; a sorted list of names repeats none; the resolver's addresses are of the two IP families |

Each component has one inductive invariant. The properties the runs check are its
consequences, and none of those that needed a proof was inductive as it stands.

**The collector** (`CheckpointCollectorProofs`).

* `LedgerIsInvariant`, and from it `NeverOverreports` and `RowsStayWithinInterval`.
  `NoOverreport` (`reported <= counted`) is not inductive: whether the next row fits
  depends on the baseline, on what the dump has read and on what was evicted since. The
  ledger `LedgerInv` follows one field of one flow through the three places its counter
  passes. `Covers(owed, value)` says that what was counted pays for the rows written, for
  the row owed and for the counter above `value`; `value` is the baseline between dumps
  (`BaselineInv`), the floor during a lookup (`LookupInv`), the total afterwards
  (`TotalInv`), and zero once the entry was evicted, since its counter starts again.
  `CoversSince` is the same with the traffic before the previous dump taken off, which
  gives the interval property. There is a lemma per action (`InsertKeepsField` to
  `RestartKeepsField`) for a single flow and field, and the theorem quantifies over them.
* `ContinuityIsInvariant`, and from it `DeltasAreExact`: a known flow whose entry lived on
  is still ahead of the dump or in it already, and has not fallen behind its baseline; so
  the clamp never bites and the row is the exact difference.
* `HashIsInvariant`, and from it `HashDumpsAreSafe`: without evictions the cursor's entry
  stays, so nothing is rewound, met twice, or lost.
* `HashImplementsMeter`: with `~Lru` the collector implements `TrafficMeter`. The initial
  state maps to the initial state, `Count` and `Checkpoint` to `Count` and `Report`, the
  other steps stutter; the ledger gives `Report`'s bound. No run checks these two on their
  own: `pipeline` checks `TrafficMeter` of the whole (`PipelineImplementsMeter`).

**Sums** (`SumFacts`). Counters are kept per CPU, per flow and per socket, so the
conservation properties are about sums over sets of any size. The library defines them by
recursion over a set, and its induction theorems take operators, which the provers here
cannot instantiate. `SetInduction` says the same of a *set* of numbers that holds 0 and is
closed under successors; from it follow that the recursion has a solution on the subsets
of a finite set (`SumOfSubsetsExists`), the step of a sum (`SumStep`), and what the proofs
use: one term changes (`SumChange`, `SumOneMore`), sums are monotone (`SumMonotone`), add
up (`SumPlus`), can be taken in either order (`SumSwap`) and grow with their keys
(`SumMoreKeys`).

**The ingress program** (`IngressPipelineProofs`, first part).

* `HeadersStayLinear`: after a pull of 82 bytes no bounds check fails, for every frame.
* `FullMeansFull`: for any number of CPUs and flows, a second lookup that fails means the
  map is full, so `MAP_FULL` is never tallied for a lost race. It rests on entries only
  being added.
* `FramesAreConserved` and `FramesAreCountedExactly`: `Balance(c)` keeps a CPU's two
  accounts at once, what arrived against what is counted, dropped or under way, and the
  frames that ought to be counted against those that are or were refused. The second one
  is not inductive without the frame under way, nor without `ChecksDecideKind`: the seven
  checks in their order let exactly the frames through that `Kind` calls a datagram or a
  fragment. The first attempt at that lemma failed, on a fragment in a frame shorter than
  the pull: it is dropped as `PULL_FAIL`, and `Kind` had called it a fragment. No frame
  of the run was one; `Kind` now tests the length first, and the run has such a frame.

**The pipeline** (`IngressPipelineProofs`, second part).

* `PipelineImplementsCollector`: the per-CPU map, copied counter by counter, implements
  `CheckpointCollector`. The invariant `ReadInv` splits the cursor's entry into the
  counters that are copied and those ahead: what has been summed is at most what the
  copied ones hold by now, and with those ahead it reaches the floor. So the sum at the end
  of a read lies between two moments' sums, which is all that `Lookup` promises.
  `ProgramEffect` says that a step of the program inserts an entry, adds an increment to one
  slot, or leaves the map alone; then every step of the pipeline is one of the collector
  (`KernelImplements`, `EndLookupImplements`, `StepImplements`) or stutters.
* `PipelineImplementsMeter`: `HashImplementsMeter`, taken over through that refinement.
* `RowsStayWithinArrivals`: the collector's ledger, taken over through that refinement
  (`CollectorFacts` is an instance of its proofs), bounds the rows by the slots, and
  `Balance` bounds the slots by what has arrived; flows and CPUs are summed in the other
  order in between.

**The process** (`AnalyzerRunProofs`): `SuccessCleaned`, `FailureCleaned`, `RowsAreDurable`
and `RowsAreStoredOnce`. `ControlInv` says for each place in the code which handlers are
installed, what is attached and what an exception on its way has passed. `RowsInv` says where
the rows are: what the writer holds or has stored is in order, what it will append comes
later (`RowsInOrder`), a writer holds nothing where its code has none (`NothingHeld`), and no
checkpoint but the last is missing from both together (`NothingLost`). Only the two in one
invariant are inductive, since a flush stores what the buffer holds. `FailureCleaned`
excuses three things openly: a signal that broke `finally` off, a `tc` that failed unnoticed,
and a signal to sudo that was refused, which also ends `finally`.

**The loaders** (`LoaderAttachmentProofs`): `NoOrphan`. `NoSilentOrphan` speaks of the end;
the invariant says for each place of `attach()`, the main loop and `detach()` what the
analyzer knows of its child (`PythonInv`), that a loader outlives sudo only when `detach()`
killed sudo and then waits for the pipe (`SudoInv`), and that links die with the loader.

**The channels** (`ChannelFlowsProofs`). `ChannelInv` has a part for each place an entry
passes: processes and sockets, the map, the dump, the cache of units, the row, the ledger.

* `UnitsAgree`, `UnitsAreOfTheCheckpoint`: `Belongs(k, pid)` ties a process number in an
  entry, in a call under way or in a dump to the cgroup of its key, unless the process has
  exited; `RightUnit` is what the cache of this checkpoint may say of it, at any later moment
  of the checkpoint. A row without a unit is one whose cgroup is in no service, or whose
  process was gone.
* `RowsMatchByStream`: `Connected` says that an entry's TCP socket has its peer.
* `RowsReceiveOnce`: `LedgerOK` is `reported[s] + Unreported(s) + InFlight(s) <= Taken(s)`.
  `Unreported` sums, over the cgroups that have an entry of the socket, what the dump or the
  map holds above the baseline, whichever the collector will use next; `InFlight` is what CPUs
  have read and are about to add. An eviction can only lose from it, and an entry that is
  inserted again starts from nothing.
* `NoReadIsLost`: `CountedOK` is the same account as an equation. What the map holds of a
  socket (`Recorded`) and what is in flight are all that was taken from it, as long as no
  entry of it was evicted and no insertion failed. The step that matters is an insertion that
  another CPU has made already: the loser finds the winner's entry and adds to that.

**Delivery and attribution** (`DeliveredAttributionProofs`). `DeliveredInv` goes from the
sockets to the rows.

* `CookiesAreOfOneSocket`: `UsesOK` looks at every place that holds a cookie (the cache, a
  CPU on its way to a counter, a counter) at once: a cookie is used with one inode only, and
  one whose socket was not evicted is the one in the cache. The last part is what makes it
  inductive when several CPUs have made up cookies for a new socket: the loser of the
  insertion looks up the winner's.
* `RowsNameHolders`, `RowsMissNoHolder`: `ScanOK` is both properties for the part of `/proc`
  that has been read, against the moment the scan began; `CacheOK` is the same of an inventory
  that is kept, `RowOK` of a row, against the time to live. `Kept` is the lemma they share:
  what was so at or after a given time stays so, although processes, names and sockets change.
  `HoldsAs` ties the name to the holding: a process in a row held the socket under the name in
  the row, or has lost that name within the time to live. The second case is a torn scan: the
  name is read first and the descriptors later, and a process that is renamed in between and
  then gets the socket is listed with a name it never had together with it.
  `RowsMissNoHolder` asks for a holding and a name that are older than the inventory may be.
* `RowsAddUp`: `LedgerOK` bounds what rows said of a process by what the baselines cover
  (`Covered`), that by what the counters hold (`Counted`), that by what arrived. In legacy
  mode a row names a process once for each socket that hears the flow (`Times`).

**The catalog** (`ChannelCatalogProofs`). `CatalogInv` has a part for the loop over the paths:
the paths done are a prefix of the load order, none of them raises, and the targets so far
are those these paths give, in their order (`LoadInv`); and one for the resolver: what a
target was given is what its host answers, unless the host has moved (`ResolveInv`). Most
of the work is to show that the code's folds and lists mean what the declarative reading says.

* Recursion over a text or a list is a function on its prefixes (`Recursion`, `JoinExists`,
  by `SetInduction`); `Flattened` says where each part of a concatenation of lists lies,
  `ThoseMembers` and `AfterFlatten` what is in it and in which order.
* `JoinInvStep`, `TextFacts`: for every text, the joined lines are its own lines taken
  from the one each continues (`StartOf`), wherever backslashes stand and also at its end.
  From it follow the URLs and environment files of a unit (`UnitFacts`) and of a
  template's instances (`InstanceFacts`), and the targets of a path (`TargetsOfPath`).
* `LoadOrderFacts`: if one path `Overrides` another, some occurrence of it comes after every
  one of the other in the list that is loaded, whichever directories and files are named twice.
* `TheLastFileDecides`, `StopsExactlyForABadUrl` follow: a path stops the load exactly if it
  is `Bad` (`RaisesIsBad`), and the last target of a unit comes from the path no other that
  names the unit overrides (`Placed`). `MatchFollowsTheResolver` needs only `ResolveInv`.

All type invariants are proved too (`TypeCorrect` of each module, `ProgramTypeCorrect`).
`LedgerInv`, `ChannelInv`, `DeliveredInv` and the other inductive invariants are not among
the properties of the runs: what the runs check follows from them.

Model-checked only:

* `CatchesUp`, `StopEndsRun`, `DeathIsNoticed`, `DetachEnds`, `UnreadLoaderEnds`: liveness
  under fairness, which the prover cannot treat.

## What is abstracted, and what is not modelled

* Rows carry counters only. Addresses, names, timestamps, the measured interval
  (`elapsed_ms`) and the sample filter, which drops rows after the baseline has advanced,
  are data no property tells apart.
* Map behaviour the code relies on is external: the order in which `get_next_key` returns
  keys is any order, it restarts when its key is gone, and a failed lookup makes bpftool
  print an error object. An LRU map may evict any entries, more often than the kernel
  does. The reuse of an evicted node under a reader, and failures of
  `bpf_skb_pull_data` for want of memory, are left out.
* Counters do not wrap: they are 64 bits wide.
* The key's padding is zeroed by the code (`udp_ingress.bpf.c:122`), so a flow is its key.
* In `AnalyzerRun` an operation happens before or after a signal as a whole; a DuckDB
  insert that fails has stored all rows of the checkpoint or none; the filter of another
  run sits at the interface this run names; delivery `none` stands for `legacy` too, which
  attaches nothing; signals that arrive while the interpreter starts are left out.
* In `LoaderAttachment` sudo is what the code relies on: it passes SIGTERM on, exits after its
  command, refuses a signal of a user who is not root, and may or may not have a monitor that
  ends the command when sudo is killed. Five seconds are enough for a running sudo to pass a
  signal on.
* In `ChannelFlows` and `DeliveredAttribution` a dump is one step, since
  `CheckpointCollector` and `IngressPipeline` look inside it. A process stays in the cgroup
  and the network namespace it started in, and a process that cannot be read is one that has
  exited; a name in `/proc` that is not UTF-8, at which `read_text` raises, is left out.
  Inode numbers and random cookies do not repeat; a process that starts while `/proc` is
  scanned is not listed; the programs' checks of packets the kernel has built always pass;
  containers and namespaces are labels that are copied.
* In `ChannelFlows` an addition after a successful lookup is one step with it: an entry that
  is evicted in between, and whose memory the kernel hands to another key, is left out. IPv6
  sockets are left out, since the channel programs pass over them. The comment that new entries
  are always admitted (`tcp_channel.bpf.c:50`) is not taken at its word: an insertion may fail,
  and an entry may be evicted before its CPU finds it again. The TCP program counts what is
  only looked at (`MSG_PEEK`) and `Taken` allows for it, so `ReceivedOnce` is about reading
  twice for UDP, and about evictions and baselines for both.
* In legacy mode an IPv6 socket on the wildcard hears IPv4 datagrams too and its holder is
  missed, since `find_matches` compares the text of the addresses (`processes.py:169-170`).
  `NoHolderMissed` excepts these sockets by name.
* In `ChannelCatalog` a URL is what `urlparse` makes of it, and reading a line apart (quotes,
  blanks, the regular expression) is not modelled; directories are ordered as their paths.
* Not modelled: several analyzers that share an interface, a preference or the name of the
  program (`ebpf.py:279`, `:351`); a checkpoint whose second dump fails (`ebpf.py:560`).
  Not to be modelled: formatting and printing, the dry-run collectors, harness and scripts:
  they keep no state and take part in no interaction.

## Plan

Done, in this order: `TrafficMeter`, `CheckpointCollector`, `IngressProgram`, `IngressPipeline`,
`AnalyzerRun`, `LoaderAttachment`, `ChannelCatalog`, `ChannelFlows`, `DeliveredAttribution`, and
proofs of all their safety and action properties. Next:

1. `TcAttachment`: several analyzers at one interface and preference, and
   `refresh_map_id`, which takes the newest program of that name. Property: rows come from
   the interface they name.

# FlyDPI: a TLA+ development

TLA+ modules of the FlyDPI diagnostic tool, the TLC configurations that check
them on small instances, and proofs for TLAPS of what the runs check of safety,
for every value of the constants. The program is under `../src`; every path below
is relative to it.

## The system

FlyDPI runs as three processes: a launcher, a Go backend ("orchestrator") and a
Qt user interface. The backend loads a Rust library (`flydpi-core.dll`) which in
turn loads a C++ one (`flydpi_wfp_observer.dll`) that subscribes to the Windows
Filtering Platform (WFP).

    WFP threads --callback--> native queue --pop--> ingest worker --push--> EventRing
                                                                               |
                            flydpi_runtime_poll (C ABI, under Manager.mu) <----+
                                     |
    connection goroutines: status.get, telemetry.poll, diagnostic.run, history.list, ...
                                     |  JSON lines over 127.0.0.1:27654
                                  Qt client

| Component (source) | State | Operations | Hard part |
|---|---|---|---|
| WFP observer (`native/wfp-observer`) | engine and subscription handles, bounded queue, counters | start, callback, pop, counters, stop | callbacks on foreign threads during start and stop |
| Bridge and ingest worker (`wfp_bridge.rs`, `ingest.rs`) | module, function pointers, stop flag, thread, statistics | open, loop, stop, drop | teardown order, stop against a busy queue, failed spawn |
| Event ring (`ring.rs`) | bounded queue, drop counter | push, drain | capacity, accounting |
| Runtime C ABI (`runtime.rs`) | boxed runtime, last start error | start, poll, drain, stop | exclusive access demanded from foreign callers |
| Datapath (`datapath.rs`) | flow table | on_packet, expire_idle, clear | growth, counters at their limit |
| Runtime manager (`internal/runtime`) | runtime pointer, error, mutex | NewManager, Enabled, Error, Events, Close | polls against close |
| RPC server, main (`internal/rpc`, `cmd/flydpi`) | sequence number, context, one goroutine per connection | accept loop, request handlers, shutdown | two locks in one handler, exits that skip Close |
| Diagnostic engine, probe pool (`internal/diagnostic`, `internal/probe`) | per run: deadline, result slots, report | Run | shared deadline, worker pool, cancellation |
| History store (`internal/history`) | a directory of JSON files | Add, List | no lock, stale listing, kill in the middle |
| Profile store (`internal/profile`) | a directory of JSON files | Save, List | name collisions, overlapping saves, torn writes |
| Filter lifecycle (`wfp.rs`, `lib.rs`, `native_wfp.rs`) | owned filter ids, initialised flag, a transient engine | initialize, register, remove, reset | reuse of identifiers, the last of them |
| Flow analyzer (`flow_analyzer.rs`) | signals per flow | observe_packet, snapshot, expire | flags that stick, lost segments, ports used again |
| Parsers (`transport.rs`, `packet.rs`) | none | TLS ClientHello, QUIC header, IPv4 | lengths at their boundaries |
| Qt client (`ui/qt`) | socket, two timers, line buffer, views | connect, send, route answers | reconnection, stale buffer, routing by shape |
| Launcher (`launcher`) | two child processes, a signal goroutine | wait for backend, show the window, terminate | a backend that dies, a signal during the wait |
| Strategy, classifier, telemetry decoder (`internal/strategy`, ...) | none | pure functions without callers | -- |

What makes each correct: the observer and the DLLs outlive whatever uses them
and are released on every path; each event is delivered at most once, in order,
or counted as lost; the ABI is never entered twice at once or after stop;
requests are answered and a signal ends the process; a report covers every
target and does not contradict itself; history loses only what is old; a saved
profile is whole until the next save under its name; verdicts on a flow are true
of its connection, as far as it was observed; a filter has one owner; the
window shows the server it is connected to, comes back to it after a loss and
does not wait for a diagnostic that is gone; the parsers read and report only
bytes that are there.

## Modules

| Module | Models | State and actions |
|---|---|---|
| `LossyFifo` | what the pipeline promises its host | `sent`, `transit`, `last`; accept, lose the oldest undelivered events, deliver the next |
| `ObservationRuntime` | observer, bridge, worker, ring, C ABI | one variable per field that another thread can touch; `host` and `wpc` are the program counters of the ABI caller and of the worker, `cb` that of each callback thread |
| `ObservationRuntimeProofs` | -- | the theorems below |
| `Datapath` | the flow table of the datapath, as an abstract specification | `flows`; packet, expiry, clear |
| `FlowAnalyzer` | `FlowSessionAnalyzer` beside the connections it watches | `signals` is the table of the analyzer; `wire` is what the TCP connections really did, `whole` the flows of which nothing was missed; one action per observed or lost segment, datagram, expiry |
| `FlowAnalyzerProofs` | -- | the theorems below |
| `FilterState` | `init_wfp_filter`, `reset_filters`, `WfpState`, `NativeWfpEngine` | the fields of `WfpState`, the callers inside `init_wfp_filter`, who holds which identifier |
| `FilterStateProofs` | -- | the theorems below |
| `Orchestrator` | main, accept loop, Manager, request handlers | uses `LossyFifo` in place of the runtime: `Observe` is the pipeline working beside the goroutines, `PollOne` one poll that returns 1 |
| `OrchestratorProofs` | -- | the theorems below |
| `HistoryStore` | `Store.Add`, `Store.List` | one action per file-system call, `Crash` between any two |
| `HistoryStoreProofs` | -- | the theorems below |
| `ProfileStore` | `Store.Save`, `Store.List`, `sanitize` of the profiles | a file is the blocks of the calls that wrote it; one action per file-system call, `Crash` between any two |
| `ProfileStoreProofs` | -- | the theorems below |
| `Diagnostic` | `Engine.Run`, `lookupAnyDoH`, probe `Engine.Run`, `runOne` | the run, the resolvers' answers, the workers; the names it shares with other components begin with `Engine`, so that `OrchestratorProofs` can extend both |
| `RpcClient` | the Qt client, `running` of `Main.qml`, an abstract server | `sock`, the timers, `buffer` and the views are fields of the class; one action per slot, per request of the user and per thing the server or its process does |
| `RpcClientProofs` | -- | the theorems below |
| `Parsers` | `parse_ipv4_transport`, `analyze_tls_client_hello`, `analyze_quic_header` | the length of the slice being read and the positions in it; one action per part of the input |
| `ParsersProofs` | -- | the theorems below |
| `MC*` | -- | constant values, symmetry sets and the extension of `TLC` |

`ObservationRuntime` is composed with `Orchestrator` through `LossyFifo`: the
first is shown to implement it (`FifoSpec`), the second runs on top of it and
uses only what it promises. `FlowAnalyzer` keeps a superset of what the datapath
keeps, in code written separately; it is shown to implement `Datapath`
(`TableSpec`). `Orchestrator.AddHistory` stands for a whole
`HistoryStore.Add`, whose error the handler ignores, and `RunEngine` for a whole
`Diagnostic` run: neither touches the manager.

### Steps

A step of `ObservationRuntime` ends where another thread can interfere: at each
lock, atomic access or external call. `on_net_event` is three steps (copy the
header, push under the queue's mutex, count); one pass of the worker is
`CheckStop`, then `Pop`, `Feed`, `PushEvent` until the queue is empty, then
`ReadDropped` and `Sleep`. The teardown (`Unsubscribe` ... `FreeLibrary`) is the
drop of the bridge: on the worker thread after its loop, or on the host thread
when the spawn failed and the closure that owns the bridge is dropped.

A snapshot is the number of its acceptance and the header fields that
`snapshot_to_meta` and `snapshot_to_event` look at. It passes through the
conversions of the code: `EventOf` makes the event that the ring holds,
`AbiEvent` what a poll writes for its caller. `kind` is constant in the native
code. Timestamps, addresses and application ids are only copied and left out.

Nothing in the repository calls the flow analyzer outside its tests, and
`register_owned_filter` and `remove_owned_filter` have no caller behind the C
ABI: `FlowAnalyzer` and `FilterState` call them as their interfaces allow. Left
out of the first are the server name and the QUIC version, which are only
copied, and the counters of payload beyond one unit; of the second,
`apply_tactic`, which returns an error and changes nothing. A segment and its
observation are one step of `FlowAnalyzer`, because the analyzer has no clock of
its own: it is told the time with each call. `whole` is what makes a verdict
checkable at all: after a loss, an expiry or a reuse of the ports the analyzer
cannot know the connection, and nothing is claimed.

`ProfileStore` writes files in blocks, so that what two overlapping saves leave
behind is computed and not guessed. `os.ReadFile` is two reads, of what is there
and of the rest. Upper and lower case name the same file on Windows.

All slots of `RpcClient` run on one event loop, so a slot is one step. An answer
travels in two pieces that may arrive apart (`ReadPart`, `ReadLine`): one cut is
all `m_buffer` can tell from several, because it only matters whether something
is left in it when a connection is lost. An answer is the method it answers and
the shape of its result, which is what `onReadyRead` and `handleResult` look at;
the report that `m_diagnosticReport` holds is replaced as a whole and left out.
The server answers a connection's requests in order, as `ListenLoop` does, and
without a runtime it answers `telemetry.poll` with null, the JSON of a nil slice.
A remote close makes Qt report the error and then the disconnection; `Lost` is
both.

`Parsers` reads no byte twice, so a byte is chosen when it is read and only
lengths and positions are kept. `Reading` is the bounds check of Rust: beyond
the end of a slice the parser is in the state `panic`. What is copied to the
output without a decision (versions, ports, addresses, flags) is left out.

### What is assumed of code outside the repository

- `FwpmNetEventUnsubscribe0` returns when no callback of the subscription is
  running any more and starts none later (`Unsubscribe`, `Unsubscribed`). The
  observer relies on it, since it deletes itself right afterwards.
- Windows refuses to remove a file that is open in the Go process (`Open`): Go
  opens files without the right to share deletion.
- A name server or a peer does what it likes; the deadline of a context ends
  each network operation (`Answers`, `Dial`, `Handshake`).
- `connectToHost` and a connection that fails leave the socket unconnected with
  nothing to read, and a refused connection reports an error.
- A goroutine waiting for a Go mutex gets it eventually.
- The clock goes forward from one file of the history to the next: `now` grows
  with each write, so that no two modification times are equal and none is of a
  clock that was stepped back, either of which could make the sort of
  `history/store.go:42` put a newer file last. The timestamp that names a file is
  chosen when its Add begins, and two Adds may choose the same.
- A file of the history that is there can be read. Its List passes over one that
  cannot (`history/store.go:53`), so `ListComplete` of `HistoryStore` is about
  the readable ones. The List of the profiles fails instead, which is `ReadFails`.
  And the directory to which an Add has just written can be listed: an error of
  `history/store.go:34` would only be one more Add that failed and did not prune.

## Runs

| Run | Bounds | Shows |
|---|---|---|
| `core` | 2 callback threads, both queues of 2, drains of up to 2, 4 events, accepted and rejected; fair threads | types, lifetimes, release, accounting, order, refinement; stop returns, no event stays in the queue |
| `core_endless` | 1 thread, queue 1, events without end, counters held at 1 | `flydpi_runtime_stop` need not return (finding) |
| `orchestrator` | 2 connections with 2 and 1 requests, 3 events, batch limits 1 and 2 | exclusive ABI, uncut batches, truthful stage, shutdown, answers |
| `flow_analyzer` | 1 TCP and 1 UDP flow, a clock of 2, timeout and idle time of 1, counters up to 2 | verdicts and latency against the connection, refinement of the flow table |
| `filters` | 2 threads, 3 identifiers | types at the last identifier, ownership |
| `history` | 2 goroutines that add, 1 that lists, 3 Adds, limit 2, 3 timestamps, 1 kill | limit, survival of recent entries, complete listings |
| `profiles` | 2 goroutines that save, 1 that lists, 3 saves of up to 2 blocks under 4 names, 1 kill, any read or write failing | what a save leaves, complete listings |
| `diagnostic` | 3 targets, 2 workers, 2 endpoints, a deadline of 3 ticks | complete report, termination |
| `diagnostic_suspicion` | 1 target, 2 endpoints | an anomaly without a difference in availability (finding) |
| `rpc_client` | 2 requests in flight beyond which nobody sends, 2 kills | timers, line buffer, routing, status, reconnection, end of a diagnostic |
| `parsers` | inputs up to 64 bytes, bytes up to 21, length fields up to 65 | no read beyond a slice but one, outputs inside the input, termination |
| `parsers_panic` | inputs up to 43 bytes | the one read beyond a slice (finding) |

The bounds are enough for what they are for: four events, each accepted or
rejected for its version, overflow either of the two queues of two
and still leave some to deliver; two callback threads give every
order of copy, push and count; a drain of two covers both the partial and the
complete drain; three Adds against a limit of two make each of them prune, from a
listing that the others have made stale; three saves let the third find what two
overlapping ones of different length left; two of the four names differ for a
person and not for the store, and one is blank; three events and two batches
of one client let another client's batch come between; a clock of two lets a flow
be idle for less, exactly and more than its limit; three targets for two workers make one
worker take a second job; two kills let a connection be lost, made again with
half a line in the buffer, and lost again; four requests go out on every new
connection whatever `MaxInFlight` says. A ClientHello with a server name takes 5
+ 4 + 35 + 2 + 1 + 2 + 4 + 2 + 3 bytes before the name, so 64 leave room for a
name, for a second one or for another extension; 21 is one more than the longest
connection identifier, and 65 one more than anything that fits. The history
variable `lines` stops at 2, since only the first line of a connection is
distinguished. Symmetry is used only in runs without temporal properties
(`history`, `profiles`, `filters`), over goroutines and threads, which the modules do not distinguish.

Deadlock is checked everywhere but in `history` and `profiles`, which stop when
their calls are used up, and in `parsers`, whose calls end; elsewhere the end of the program is an explicit stutter.

### Fairness

- Core: weak fairness of the worker, of a callback that has begun and of the
  host inside `start` and `stop`: they are runnable threads that wait for no
  one, or, in `Joined`, for the end of the worker. Nothing obliges WFP to report
  an event or the host to make a call. `CheckStop` to `Sleep` is one process, so
  its fairness is that of their disjunction.
- Orchestrator: strong fairness of a goroutine and of Close, because other
  goroutines take and release the mutex in between and Go's mutex does not
  starve a waiter; weak fairness of the rest of main. A run has finitely many
  connections, so the accept times out some time; with clients that keep
  connecting within the 500 ms it need not, and the signal is not noticed.
  `Stopped` is fair because of `StopReturns`, and so only as far as that holds.
- RpcClient: weak fairness of the slots and of the server's answers: the event
  loop delivers what is pending and fires a running timer. The user, the kills
  and the restarts have none. Fairness of `Connected` says that a connection
  over the loopback is made within the second between two attempts, since
  `retryConnection` aborts one that is still under way.
- Parsers: a call runs to its end.
- Diagnostic: weak fairness of Run and of each worker, since every operation has
  a deadline.

### Findings

1. `core_endless`: `stop()` waits for a worker that looks at the stop flag only
   between two passes (`ingest.rs:42`), and a pass ends only when the queue is
   empty (`ingest.rs:44`).
2. `diagnostic_suspicion`: resolvers asked one after the other under one
   deadline (`engine.go:52-54`). The comment below says that only a difference
   in availability counts; a slow answer before makes one.
3. `parsers_panic`: a ClientHello body of 34 bytes passes the test of
   `transport.rs:66` and is then indexed at 34 (`transport.rs:71`), where every
   other short input returns an error. `PanicsOnlyOnShortHello` shows that it is
   the only such input.

Three more need no run to be seen. `wfp_observer.cpp:46` copies the version of the
address family as WFP numbers it, `FWP_IP_VERSION_V4` = 0 and `FWP_IP_VERSION_V6` = 1,
while `wfp_bridge.rs:152` and `wfp_bridge.rs:172` know only 4 and 6, as do their
tests (`wfp_bridge.rs:203`): events as Windows reports them would all be rejected
and none would reach the ring (`WFP_OBSERVABILITY.md:96` has "Observer starts and
receives ordinary browser traffic" on its checklist). The properties of `ObservationRuntime` hold for all
`Headers`; `core` takes one segment with each numbering, so that some events
pass. Further, nothing calls `Datapath::expire_idle`, although
the README of the program and `FLOW_ANALYSIS.md` promise a table bounded by idle
expiration; and `waitForBackend` of the launcher tests `backend.ProcessState`
(`launcher/main.go:87`), which only `Wait` sets, called after it, so that a
backend that dies at once is reported as a timeout ten seconds later.

What the client does and no document forbids: an answer glued to half a line of
the connection before is lost, and when it is the answer to `status.get` the
window keeps the status of the old server for the whole connection
(`StatusIsTheServers` excepts it); an empty history or profile list empties the
telemetry view (`ViewsHoldTheirKind`); an error of any request ends the
diagnostic for the window while it is still running.

What the stores, the analyzer and the filters do and no document forbids: two
saves under one name at the same time can leave a file that is neither, which
listings skip, and a save that fails has already truncated the old profile
(`SavedIsKept` is about saves that nothing ran into); names that differ in case
or in a character that is not a letter, digit, hyphen or underscore are one
profile; a new connection on ports whose entry has not expired inherits the old
verdict, and a lost SYN-ACK makes an established connection an incomplete
handshake (`whole` excludes both); and an identifier from before a reset removes a
filter of after it (`Ownership` states it).

`ShutdownReleases` states an exception as well: `main.go:39` looks at the context
once and then goes on to `log.Fatal`, so that a signal between the two, or while
the error is written, exits with the runtime running, as an error of the listener
without a signal does; what is left is for Windows to clean up. One profile that
cannot be read makes the whole list an error (`profile/store.go:54`), where the
history passes over such a file; no document says which is meant.

`NothingLeftBehind` states one exception, the module that a missing symbol
leaves loaded (`wfp_bridge.rs:105`), and `RecentSurvives` another: pruning from a
stale listing can remove an entry once as many Adds as the limit have run beside
it (100 in the program).

## Proofs

`ObservationRuntimeProofs` proves, for every number of callback threads, every
set of headers and all capacities, from `CallbacksAssumption`,
`CapacityAssumption` and `HeadersAssumption`:

- `TypeCorrect`: `TypeOK`, including both capacities. Inductive as it stands;
  `PushBoundedBounds` and `DrainLength` say what the queue operators return,
  `EventOfType` and `AbiEventType` what the conversions do.
- `ResourcesCorrect`: `Resources` (no run checks it, only the theorem), which says for each point of the host and of
  the worker which of observer, engine, subscription, module and callbacks
  exist. It is inductive together with `TypeOK`, and it is what neither of the
  next two is alone: `LifetimeSafe` says nothing of the worker's program counter
  and `NothingLeftBehind` nothing of the states before the last.
- `LifetimeCorrect`, `ReleaseCorrect`: consequences of `Resources`.
- `ConservationCorrect`: the four accounts, by one step per action that touches
  a counter (`ConservationStep`); `IncCounts` says that counters add up when the
  model is not `Endless`. The callback account needs the cardinality of a set
  that gains and loses one thread.
- `OrderCorrect`: `Ordered`. Acceptance numbers are given out under the lock of
  the queue, so the proof needs that nothing in transit has a number that is not
  yet given. `InOrder` says this and the order of what is in the ring, in the
  worker's hand and in the queue one by one; `PushSeqs` and `FrontRemoved` say
  what an eviction and a removal leave of an order.
- `FifoCorrect`: `FifoSpec`, the refinement of `LossyFifo`, where the numbers do
  not wrap (`~Endless`). What is in
  transit is the union of three sets (`TransitByPart`); taking a snapshot is
  `Accept`, a poll `Deliver`, an eviction or a teardown `Lose`, and moving from
  the queue to the ring a stutter unless the ring is full.
- `StopCorrect`: once `flydpi_runtime_stop` is called, every step of a callback
  thread, of the worker or of the host makes `StopLeft` smaller, which is never more
  than `StopAllowed`: six for each event that WFP still reports, one for each
  callback thread, three for each place in the queue, and thirteen for the worker's
  loop, the teardown and the join. This is the half of `StopReturns` that is safety,
  and its `~Endless` is the other side of the finding of `core_endless`: an event
  costs the worker a turn of the inner loop, in which it does not look at the flag.
  The proof needs `WithinEvents`, that the callbacks under way are among the events
  still to be counted, and one lemma for each way in which a step makes `StopSum`
  smaller (`SumBegins` to `SumJoins`).

`ParsersProofs` proves, for inputs, bytes and length fields of every size, from
`ParsersAssumption`: `TypeCorrect`, `PanicCorrect`, `NameCorrect` and
`PayloadCorrect`, the safety properties of `Parsers`. The last three say nothing
of the positions inside the parser, so the invariant has three more parts, one
for each place where a later read relies on an earlier test: `AtStart` (nothing
is chosen before the first read), `InExtensions` (position, end of the extension
and end of the list lie in each other and in the body) and `InPacket` (header
and total length lie in the bytes). Each action of a parser is one case of the
step. `StepsCorrect` proves that a call ends after at most `MaxLen + 7` steps: every
step makes `Left` smaller, the bytes not yet read and the parts still to come. The
loops over extensions and names go forward by at least their headers. This is the
half of `ParserEnds` that is safety.

`FlowAnalyzerProofs` proves, for every set of flows, every timeout and idle time
and every width of the counters, from `FlowAnalyzerAssumption`:

- `TypeCorrect`: `TypeOK`, with no time in the future. `CountFields` and
  `MeasureFields` say what one packet does to an entry and are all the other
  proofs know of `observe_packet`.
- `VerdictCorrect`, `LatencyCorrect`: `VerdictIsTrue` and `LatencyIsHandshake`.
  Neither is inductive, since lifecycle and diagnosis forget most of the signals.
  `Inv` says of each entry in `whole` what every signal knows of the connection
  (`Faithful`): the flags that stick are tied to what happened once, the RST to
  the present state. `SegmentCases` has the seven kinds of segment one by one;
  `FaithfulSegment` and `FaithfulOpening` are the two ways into `whole`.
- `TableCorrect`: `TableSpec`, the refinement of `Datapath`. An observed packet
  is `OnPacket`, an expiry `ExpireIdle`, a lost segment a stutter.

`FilterStateProofs` proves, for any number of threads, identifiers and calls:
`TypeCorrect` and `OwnershipCorrect`. The latter rests on the fact that every
identifier issued since the reset lies below `next_id`, so that a new one
belongs to nobody, as long as the last one is refused.

`OrchestratorProofs` proves, for every number of connections, requests and
events and all batch limits, from `OrchestratorAssumption`: `TypeCorrect`,
`AbiCorrect`, `BatchesCorrect`, `StageCorrect` and `ShutdownCorrect`. The
invariant says where a goroutine may be while another holds the mutex:

- `Locking`: who polls or stops holds the mutex and has found the runtime open,
  and no goroutine is left when main has exited. `AbiExclusive` follows; alone
  it does not say why nobody enters.
- `Opening`: main opens the runtime once or not at all.
- `Uncut`: a request takes events only between its start and its end, and those
  of the request that is polling are the last ones taken. Without the second part
  a batch could be continued after another client's.
- `Staged`: what a diagnostic has found before it asks for the runtime, and that
  a failed stage was found while there was none, which stays so.

`ShutdownReleases` is about what follows a signal, so its proof has an invariant
of its own for that time, `Releasing`: main has not gone to `log.Fatal`, and has
not exited with the runtime running. Every way into it and every step from it
that could end it is in `ListenLoopFails` and `Close`.

Four more theorems say what the clients of the process rely on; their properties
are stated in `OrchestratorProofs` and no run repeats them:

- `LockCorrect`: `LockNotLeaked`, a mutex that is held is held inside a call of the
  ABI, by a goroutine that polls or by main that stops.
- `EventsCorrect`: `EventsOnce`, no event goes to two requests, none out of order, and
  none after a younger one that somebody has. `InOrder` is the invariant: the
  request that polls is ahead of all others, and `last` of the FIFO is the front.
- `AdvanceCorrect`: `Work` bounds what a request still has to do, and
  `RequestAdvances` says that a step in which it has a part does some of it and no
  other step undoes any. This is the half of `RequestAnswered` that is safety; the
  other, that the goroutine is let run, stays with fairness and TLC.
- `ImplementsFifo`: seen through the Manager the runtime is still a `LossyFifo`, with
  `Observe` and `PollOne` its steps and `Stopped` a loss. With `FifoCorrect` below
  the runtime it closes the chain from the WFP callback to an answer.

Its last part is about a whole diagnostic run, which `RunEngine` takes as one step.
It proves, for every number of targets, workers and resolvers, whatever the network
answers and whenever the run is cancelled, from `DiagnosticAssumption`:

- `ReportCorrect`: `ReportComplete`. `JobsHandedOut` is the invariant: jobs are
  handed out in order and to one worker each, and one that was handed out is being
  worked on or has its result.
- `StepsCorrect`: every step makes `Left` smaller, which begins at no more than
  `StepsAllowed`. `Left` weighs the lookups, the jobs by the steps of a probe, the
  workers by what they are in the middle of, the close of the channel and the
  cancellation. `EngineTypes` adds to the invariant what this needs: a worker leaves
  only when the channel is closed.
- `NobodyStuckCorrect`: until there is a report, `Run`, the goroutine that sends and
  closes, or a worker can go on. Together the two are the half of `RunReturns`
  that is safety.

`HistoryStoreProofs` proves, for any limit of files and any number of handlers,
Adds, timestamps and kills, from `HistoryAssumption`: `TypeCorrect`,
`RecentCorrect`, `ListCorrect` and `BoundedCorrect`. The invariant in parts:

- `Working` and `Named`: a handler at work executes a running call of its own, and
  every file, also one about to be removed, is that of a call that opened it.
- `Kept`: an entry that fewer than the limit of Adds ran beside or after is there,
  in nobody's list of files to remove, and every newer file is of a later call.
  There are too few of those to make it excess (`NotExcess`), however stale the
  listing from which a handler prunes.
- `Listing`: the listing has read such an entry or still will.
- `Distinct` and `Bounded`: no two files are of one time, so what a pruning means
  to leave is at most the limit (`ExcessLeaves`). Several prunings can be under way,
  each from a listing of its own. `Bounded` puts them in the order of these
  listings: beside the files of calls that failed, have not listed yet, or listed
  later, each leaves no more than the limit, and so did the last one that ended.
  When no Add runs, only the failed ones are left in that sentence, and that is
  `BoundedAtRest`. A pruning that ends out of order is why a rank and not a
  single bound is needed (`EndBounded`).

`ProfileStoreProofs` proves, for any number of handlers, saves, blocks and kills
and for any names, from `ProfileAssumption`: `SavedCorrect` and `ListCorrect`.
`Kept` says that a save that nothing runs into finds its file as it truncated it
and leaves its profile there, `Listing` that a listing has read such a profile
or will, also between the two reads of a file; a read that fails ends the listing,
and with it the claim. `SameFile` is what `sanitize` does:
two names share a file only if `SameName` says so.

`RpcClientProofs` proves, for any number of requests in flight and of kills of the
server, from `RpcClientAssumption`: `TypeCorrect`, `TimersCorrect`, `ViewsCorrect`
and `StatusCorrect`. The first needs `Buffered`, which bounds the pieces of old
answers in the buffer by the kills that could leave one: a piece is left over only
when the client has noticed the loss. The last needs `Informed`: until the first
line of a connection its status is the next answer to come, and every status
that the connected server has sent is its own state.

Each inductive invariant and each measure was checked by TLC, as an invariant or an
action property of the component's run, before it was proved. Every safety
invariant and both refinements that the passing runs check are stated by one of
these theorems. Only model-checked are the properties under fairness
(`StopReturns`, `QueueMoves`, `RequestAnswered`, `ShutdownCompletes`, `RunReturns`,
`Reconnects`, `DiagnosticEnds`, `ParserEnds`), since liveness and ENABLED are out of
the prover's reach. Of four of them (`StopReturns`, `RequestAnswered`, `RunReturns`,
`ParserEnds`) the bound on the steps is proved, as described above; of the others
none is stated, because the user, WFP, the clients or the server may take any
number of steps in between. The runs that end in a violation refute their property and have
nothing to prove.

## Not modelled

- The launcher's wait for the backend and its signals: a signal before
  `signal.Notify` (`launcher/main.go:66`) ends it and leaves the backend running.
- An error of `os.Executable` (`main.go:31`), before there is anything to release.
- Of the client: a write that fails on a connected socket; the piling up of
  polls behind a long diagnostic, beyond `MaxInFlight`.
- Left out: QML layout; the strategy selector, classifier and telemetry decoder
  (pure functions nothing calls: floating-point scores, a table of texts, a byte
  layout); `event_for`, `EventBuffer` and `DpiFeatures` of the Rust core, which
  have no caller either; build scripts. Poisoned Rust mutexes (nothing
  panics under them), allocation failures, and the statistics that
  `flydpi_runtime_stop` throws away.
- `drained` is kept as zero or non-zero, the counters are unbounded: their
  widths (u32, u64) are far from what a model can count to.

## Plan

1. Done: all the modules above. Left of the components are the launcher's wait,
   the pure functions without callers, the QML layout and the build scripts.
2. Done: the safety of every module with a run is proved, as listed above.
3. Done: the bounds behind four of the liveness properties, and the chain of
   refinements from the WFP callback to the orchestrator.
4. Next proofs: the pieces a profile file holds while two saves overlap, and a
   refinement of the history store by a log that forgets its oldest entries.

-------------------------- MODULE ObservationRuntime --------------------------
(***************************************************************************)
(* The observation pipeline, from the WFP callbacks to the C ABI:         *)
(*                                                                         *)
(*   WFP callback threads --> native queue --> ingest worker --> EventRing *)
(*                                              --> flydpi_runtime_poll    *)
(*                                                                         *)
(* The actors are the callback threads that WFP runs (external; what they *)
(* execute is on_net_event), the ingest worker thread, and the host        *)
(* thread that calls the C ABI.  The callers of the ABI are serialised by  *)
(* the Manager's mutex (see Orchestrator), so the host is one actor.     *)
(* Every access to state another thread can touch is a step of its own.    *)
(***************************************************************************)
EXTENDS Integers, Sequences, FiniteSets

CONSTANTS
  Callbacks,      \* the threads on which WFP runs the subscription callback
  Headers,        \* the event headers WFP reports
  QueueCapacity,  \* kQueueCapacity
  RingCapacity,   \* the capacity EventRing::new is given
  DrainMax,       \* the largest buffer a caller passes to flydpi_runtime_drain
  EventMax,       \* bound: the number of events WFP reports
  Endless         \* TRUE: WFP never stops reporting, and the counters (u64 in the
                  \* code) and history variables stay at EventMax once they reach it

ASSUME CallbacksAssumption == IsFiniteSet(Callbacks)
ASSUME CapacityAssumption ==
  /\ QueueCapacity \in Nat \ {0}
  /\ RingCapacity \in Nat \ {0}
  /\ DrainMax \in Nat \ {0}
  /\ EventMax \in Nat
  /\ Endless \in BOOLEAN
ASSUME HeadersAssumption ==
  Headers \subseteq [ip_version : Nat, protocol : Nat, local_port : Nat, remote_port : Nat]

VARIABLES
  \* FlyDpiWfpObserver
  observer,       \* its memory: "none", "live" or "freed"
  engine,         \* its engine handle: "open" or "closed"
  subscription,   \* "active": WFP may begin a callback; or "none"
  queue,          \* the native queue, oldest first
  events,         \* callbacks counted
  dropped,        \* entries the full queue gave up
  cb,             \* what each callback thread is doing
  accepted,       \* history: number of snapshots pushed, the n-th has seq n
  \* WfpObserverBridge and IngestWorker
  module,         \* the observer DLL: "loaded" or "unloaded"
  wpc,            \* where the worker is
  hand,           \* the snapshot the worker last popped
  drained,        \* 0 if this pass of the worker has popped nothing, else 1
  stop,           \* the stop flag, 0 or 1
  stats,          \* IngestStats
  \* FlyDpiRuntime
  host,           \* where the host thread is in the ABI
  last_error,     \* LAST_START_ERROR
  flows,          \* the keys of the datapath's flow table
  ring,           \* the EventRing, oldest first
  ring_dropped,   \* its drop counter
  polled,         \* history: number of events handed to the host
  last_polled     \* history: the last event handed to the host, seq 0 before the first

obsVars    == <<observer, engine, subscription>>
queueVars  == <<queue, dropped, accepted>>
workerVars == <<wpc, hand, drained, stats>>
ringVars   == <<ring, ring_dropped>>
hostVars   == <<host, last_error, stop>>
pollVars   == <<polled, last_polled>>
vars == <<obsVars, queueVars, workerVars, ringVars, hostVars, pollVars,
          events, cb, module, flows>>

Add(n, k) == IF Endless /\ n + k > EventMax THEN EventMax ELSE n + k
Inc(n) == Add(n, 1)

Snapshot == [seq : Nat, header : Headers]

\* NetworkEvent, of which timestamp, address and result code are left out.
ProtocolName(protocol) ==
  CASE protocol = 6 -> "tcp" [] protocol = 17 -> "udp" [] OTHER -> "other"
EventOf(s) == [seq |-> s.seq, kind |-> "PacketObserved",
               protocol |-> ProtocolName(s.header.protocol), remote_port |-> s.header.remote_port]
Event == [seq : Nat, kind : {"PacketObserved"}, protocol : {"tcp", "udp"}, remote_port : Nat]

\* FlyDpiRuntimeEvent: the codes of the C ABI.
KindCode == [PacketObserved |-> 1, ConnectAttempt |-> 2, ConnectSuccess |-> 3, ConnectFailure |-> 4,
             ResetObserved |-> 5, ReceiveTimeout |-> 6, DnsAddressMismatch |-> 7]
ProtocolCode(name) == CASE name = "tcp" -> 6 [] name = "udp" -> 17 [] OTHER -> 0
AbiEvent(e) == [seq |-> e.seq, kind |-> KindCode[e.kind],
                protocol |-> ProtocolCode(e.protocol), remote_port |-> e.remote_port]
NoEvent == [seq |-> 0, kind |-> 0, protocol |-> 0, remote_port |-> 0]
Polled == [seq : Nat, kind : {1}, protocol : {6, 17}, remote_port : Nat] \cup {NoEvent}

FlowKey  == [protocol : Nat, remote_port : Nat, local_port : Nat]
StartErrors == {"None", "InvalidPath", "LoadFailed", "MissingSymbol",
                "StartFailed", "WorkerStartFailed"}
HostStates == {"idle", "load", "symbols", "engine", "subscribe", "spawn", "spawn_failed",
               "running", "stopping", "stopped", "failed"}
WorkerStates == {"none", "check", "pop", "feed", "push", "read_dropped", "sleep", "final",
                 "unsubscribe", "unsubscribing", "close", "delete", "free_library", "done"}

\* Mutants: three ways to get a bounded queue wrong, and one its counter.
PushUnbounded(q, x, cap)  == Append(q, x)
PushDropNewest(q, x, cap) == IF Len(q) >= cap THEN q ELSE Append(q, x)
PushFront(q, x, cap)      == <<x>> \o (IF Len(q) >= cap THEN Tail(q) ELSE q)
CountDropLate(q, n, cap)  == IF Len(q) > cap THEN Inc(n) ELSE n

\* Drop-oldest insertion, which both bounded queues share, and its counter.
PushBounded(q, x, cap) == Append(IF Len(q) >= cap THEN Tail(q) ELSE q, x)
CountDrop(q, n, cap)   == IF Len(q) >= cap THEN Inc(n) ELSE n

\* snapshot_to_meta: only TCP and UDP over IPv4 or IPv6 with a port reach the
\* datapath; feed_snapshot returns None for the others.
HasMeta(h) ==
  /\ h.protocol \in {6, 17}
  /\ h.ip_version \in {4, 6}
  /\ ~(h.remote_port = 0 /\ h.local_port = 0)

\* The key of a flow; of its addresses the model keeps none.
FlowOf(h) == [protocol |-> h.protocol, remote_port |-> h.remote_port, local_port |-> h.local_port]

\* Datapath::on_packet adds the flow unless it is there; its counters are left out.
OnPacket(table, h) == table \cup {FlowOf(h)}

Init ==
  /\ observer = "none" /\ engine = "closed" /\ subscription = "none"
  /\ queue = <<>> /\ events = 0 /\ dropped = 0 /\ accepted = 0
  /\ cb = [c \in Callbacks |-> [pc |-> "idle"]]
  /\ module = "unloaded"
  /\ wpc = "none" /\ hand = <<>> /\ drained = 0 /\ stop = 0
  /\ stats = [snapshots_seen |-> 0, events_normalized |-> 0,
              snapshots_rejected |-> 0, observer_dropped |-> 0]
  /\ host = "idle" /\ last_error = "None"
  /\ flows = {} /\ ring = <<>> /\ ring_dropped = 0
  /\ polled = 0 /\ last_polled = NoEvent

------------------------------------------------------------------------------
(* flydpi_runtime_start, on the host thread                                  *)

Fail(error) ==
  /\ host' = "failed"
  /\ last_error' = error

\* The error code is cleared first; a null, empty or non-UTF-8 path is refused.
StartCall ==
  /\ host = "idle"
  /\ \/ host' = "load" /\ last_error' = "None"
     \/ Fail("InvalidPath")
  /\ UNCHANGED <<obsVars, queueVars, workerVars, ringVars, stop, pollVars,
                 events, cb, module, flows>>

LoadLibrary ==
  /\ host = "load"
  /\ \/ module' = "loaded" /\ host' = "symbols" /\ UNCHANGED last_error
     \/ Fail("LoadFailed") /\ UNCHANGED module
  /\ UNCHANGED <<obsVars, queueVars, workerVars, ringVars, stop, pollVars,
                 events, cb, flows>>

\* The early return of a missing symbol leaves the module loaded.
FindSymbols ==
  /\ host = "symbols"
  /\ \/ host' = "engine" /\ UNCHANGED last_error
     \/ Fail("MissingSymbol")
  /\ UNCHANGED <<obsVars, queueVars, workerVars, ringVars, stop, pollVars,
                 events, cb, module, flows>>

\* FwpmEngineOpen0.  On failure the unique_ptr frees the observer and the
\* bridge unloads the module.
OpenEngine ==
  /\ host = "engine"
  /\ \/ /\ observer' = "live" /\ engine' = "open" /\ host' = "subscribe"
        /\ UNCHANGED <<module, last_error>>
     \/ /\ observer' = "freed" /\ module' = "unloaded"
        /\ Fail("StartFailed")
        /\ UNCHANGED engine
  /\ UNCHANGED <<subscription, queueVars, workerVars, ringVars, stop, pollVars,
                 events, cb, flows>>

\* Mutant: the failed subscription returns without FwpmEngineClose0.
SubscribeKeepsEngine ==
  /\ host = "subscribe"
  /\ \/ subscription' = "active" /\ host' = "spawn" /\ UNCHANGED <<observer, module, last_error>>
     \/ /\ observer' = "freed" /\ module' = "unloaded" /\ Fail("StartFailed")
        /\ UNCHANGED subscription
  /\ UNCHANGED <<engine, queueVars, workerVars, ringVars, stop, pollVars,
                 events, cb, flows>>

\* FwpmNetEventSubscribe1.  From here on callbacks may run, although the
\* worker does not exist yet.
Subscribe ==
  /\ host = "subscribe"
  /\ \/ /\ subscription' = "active" /\ host' = "spawn"
        /\ UNCHANGED <<observer, engine, module, last_error>>
     \/ /\ engine' = "closed" /\ observer' = "freed" /\ module' = "unloaded"
        /\ Fail("StartFailed")
        /\ UNCHANGED subscription
  /\ UNCHANGED <<queueVars, workerVars, ringVars, stop, pollVars,
                 events, cb, flows>>

\* thread::Builder::spawn.  If it fails the closure, and the bridge in it, is
\* dropped: the teardown steps below then run on the host thread.
Spawn ==
  /\ host = "spawn"
  /\ \/ host' = "running" /\ wpc' = "check"
     \/ host' = "spawn_failed" /\ wpc' = "unsubscribe"
  /\ UNCHANGED <<obsVars, queueVars, hand, drained, stats, ringVars, last_error, stop,
                 pollVars, events, cb, module, flows>>

SpawnFailed ==
  /\ host = "spawn_failed"
  /\ wpc = "done"
  /\ Fail("WorkerStartFailed")
  /\ UNCHANGED <<obsVars, queueVars, workerVars, ringVars, stop, pollVars,
                 events, cb, module, flows>>

------------------------------------------------------------------------------
(* flydpi_runtime_poll, _drain and _stop, on the host thread                 *)

\* EventRing::drain: up to n of the oldest events leave the ring together.
Take(n) ==
  /\ host = "running"
  /\ ring # <<>>
  /\ LET k == IF n <= Len(ring) THEN n ELSE Len(ring)
     IN  /\ ring' = SubSeq(ring, k + 1, Len(ring))
         /\ polled' = Add(polled, k)
         /\ last_polled' = AbiEvent(ring[k])
  /\ UNCHANGED <<obsVars, queueVars, workerVars, ring_dropped, hostVars,
                 events, cb, module, flows>>

\* An empty ring makes poll return 0 and drain write nothing: no step.
Poll  == Take(1)
Drain == \E n \in 1..DrainMax : Take(n)

\* Mutant: joins the worker without setting the flag.
StopWithoutFlag ==
  /\ host = "running"
  /\ host' = "stopping"
  /\ UNCHANGED <<obsVars, queueVars, workerVars, ringVars, last_error, stop, pollVars,
                 events, cb, module, flows>>

\* IngestWorker::stop sets the flag and joins the worker.
Stop ==
  /\ host = "running"
  /\ host' = "stopping"
  /\ stop' = 1
  /\ UNCHANGED <<obsVars, queueVars, workerVars, ringVars, last_error, pollVars,
                 events, cb, module, flows>>

\* The join returns and the Box is freed, with the ring and the flow table.
Joined ==
  /\ host = "stopping"
  /\ wpc = "done"
  /\ host' = "stopped"
  /\ ring' = <<>>
  /\ flows' = {}
  /\ UNCHANGED <<obsVars, queueVars, workerVars, ring_dropped, last_error, stop, pollVars,
                 events, cb, module>>
------------------------------------------------------------------------------
(* on_net_event, on the callback threads                                     *)

\* WFP begins a callback, which copies the event's header into a snapshot.
BeginCallback(c) ==
  /\ subscription = "active"
  /\ cb[c].pc = "idle"
  /\ Endless \/ accepted + Cardinality({d \in Callbacks : cb[d].pc = "copied"}) < EventMax
  /\ \E h \in Headers : cb' = [cb EXCEPT ![c] = [pc |-> "copied", header |-> h]]
  /\ UNCHANGED <<obsVars, queueVars, workerVars, ringVars, hostVars, pollVars,
                 events, module, flows>>

\* Under queue_mutex: drop the oldest entry of a full queue, append this one.
PushSnapshot(c) ==
  /\ cb[c].pc = "copied"
  /\ accepted' = Inc(accepted)
  /\ queue' = PushBounded(queue, [seq |-> accepted', header |-> cb[c].header], QueueCapacity)
  /\ dropped' = CountDrop(queue, dropped, QueueCapacity)
  /\ cb' = [cb EXCEPT ![c] = [pc |-> "pushed"]]
  /\ UNCHANGED <<obsVars, workerVars, ringVars, hostVars, pollVars,
                 events, module, flows>>

\* The event counter moves after the lock is released.
CountEvent(c) ==
  /\ cb[c].pc = "pushed"
  /\ events' = Inc(events)
  /\ cb' = [cb EXCEPT ![c] = [pc |-> "idle"]]
  /\ UNCHANGED <<obsVars, queueVars, workerVars, ringVars, hostVars, pollVars,
                 module, flows>>

------------------------------------------------------------------------------
(* The loop of the ingest worker                                             *)

\* The stop flag is read between two passes, never within one.
CheckStop ==
  /\ wpc = "check"
  /\ IF stop = 1 THEN wpc' = "final" /\ UNCHANGED drained
             ELSE wpc' = "pop" /\ drained' = 0
  /\ UNCHANGED <<obsVars, queueVars, hand, stats, ringVars, hostVars, pollVars,
                 events, cb, module, flows>>

\* flydpi_wfp_observer_pop, under queue_mutex.
Pop ==
  /\ wpc = "pop"
  /\ IF queue = <<>>
     THEN wpc' = "read_dropped" /\ UNCHANGED <<queue, hand, drained, stats>>
     ELSE /\ wpc' = "feed"
          /\ hand' = <<Head(queue)>>
          /\ queue' = Tail(queue)
          /\ drained' = 1
          /\ stats' = [stats EXCEPT !.snapshots_seen = Inc(@)]
  /\ UNCHANGED <<obsVars, dropped, accepted, ringVars, hostVars, pollVars,
                 events, cb, module, flows>>

\* feed_snapshot under the datapath's lock, then the branch on its result.
Feed ==
  /\ wpc = "feed"
  /\ IF HasMeta(hand[1].header)
     THEN /\ flows' = OnPacket(flows, hand[1].header)
          /\ stats' = [stats EXCEPT !.events_normalized = Inc(@)]
          /\ wpc' = "push"
          /\ UNCHANGED hand
     ELSE /\ stats' = [stats EXCEPT !.snapshots_rejected = Inc(@)]
          /\ wpc' = "pop"
          /\ hand' = <<>>
          /\ UNCHANGED flows
  /\ UNCHANGED <<obsVars, queueVars, drained, ringVars, hostVars, pollVars,
                 events, cb, module>>

\* EventRing::push, under the ring's lock.
PushEvent ==
  /\ wpc = "push"
  /\ ring' = PushBounded(ring, EventOf(hand[1]), RingCapacity)
  /\ ring_dropped' = CountDrop(ring, ring_dropped, RingCapacity)
  /\ hand' = <<>>
  /\ wpc' = "pop"
  /\ UNCHANGED <<obsVars, queueVars, drained, stats, hostVars, pollVars,
                 events, cb, module, flows>>

\* The queue was found empty; a pass that popped nothing sleeps 2 ms.
ReadDropped ==
  /\ wpc = "read_dropped"
  /\ stats' = [stats EXCEPT !.observer_dropped = dropped]
  /\ wpc' = IF drained = 1 THEN "check" ELSE "sleep"
  /\ UNCHANGED <<obsVars, queueVars, hand, drained, ringVars, hostVars, pollVars,
                 events, cb, module, flows>>

\* Mutant: the idle worker waits to be stopped instead of looking again.
SleepUntilStop ==
  /\ wpc = "sleep"
  /\ stop = 1
  /\ wpc' = "check"
  /\ UNCHANGED <<obsVars, queueVars, hand, drained, stats, ringVars, hostVars, pollVars,
                 events, cb, module, flows>>

Sleep ==
  /\ wpc = "sleep"
  /\ wpc' = "check"
  /\ UNCHANGED <<obsVars, queueVars, hand, drained, stats, ringVars, hostVars, pollVars,
                 events, cb, module, flows>>

\* The last read of the observer's counter before the closure returns.
ReadFinal ==
  /\ wpc = "final"
  /\ stats' = [stats EXCEPT !.observer_dropped = dropped]
  /\ wpc' = "unsubscribe"
  /\ UNCHANGED <<obsVars, queueVars, hand, drained, ringVars, hostVars, pollVars,
                 events, cb, module, flows>>

------------------------------------------------------------------------------
(* Drop of WfpObserverBridge: flydpi_wfp_observer_stop, then FreeLibrary      *)

\* Mutant: closes the engine without ending the subscription.
UnsubscribeSkipped ==
  /\ wpc = "unsubscribe"
  /\ wpc' = "close"
  /\ UNCHANGED <<obsVars, queueVars, hand, drained, stats, ringVars, hostVars,
                 pollVars, events, cb, module, flows>>

\* FwpmNetEventUnsubscribe0 (external) lets no new callback begin ...
Unsubscribe ==
  /\ wpc = "unsubscribe"
  /\ subscription' = "none"
  /\ wpc' = "unsubscribing"
  /\ UNCHANGED <<observer, engine, queueVars, hand, drained, stats, ringVars, hostVars,
                 pollVars, events, cb, module, flows>>

\* ... and returns when those in progress have returned.
Unsubscribed ==
  /\ wpc = "unsubscribing"
  /\ \A c \in Callbacks : cb[c].pc = "idle"
  /\ wpc' = "close"
  /\ UNCHANGED <<obsVars, queueVars, hand, drained, stats, ringVars, hostVars,
                 pollVars, events, cb, module, flows>>

CloseEngine ==
  /\ wpc = "close"
  /\ engine' = "closed"
  /\ wpc' = "delete"
  /\ UNCHANGED <<observer, subscription, queueVars, hand, drained, stats, ringVars,
                 hostVars, pollVars, events, cb, module, flows>>

\* delete observer: whatever is still queued goes with it.
DeleteObserver ==
  /\ wpc = "delete"
  /\ observer' = "freed"
  /\ queue' = <<>>
  /\ wpc' = "free_library"
  /\ UNCHANGED <<engine, subscription, dropped, accepted, hand, drained, stats, ringVars,
                 hostVars, pollVars, events, cb, module, flows>>

FreeLibrary ==
  /\ wpc = "free_library"
  /\ module' = "unloaded"
  /\ wpc' = "done"
  /\ UNCHANGED <<obsVars, queueVars, hand, drained, stats, ringVars, hostVars, pollVars,
                 events, cb, flows>>

------------------------------------------------------------------------------
Start    == StartCall \/ LoadLibrary \/ FindSymbols \/ OpenEngine \/ Subscribe \/ Spawn
Teardown == Unsubscribe \/ Unsubscribed \/ CloseEngine \/ DeleteObserver \/ FreeLibrary
Worker   == CheckStop \/ Pop \/ Feed \/ PushEvent \/ ReadDropped \/ Sleep \/ ReadFinal \/ Teardown
Callback(c) == PushSnapshot(c) \/ CountEvent(c)

\* The host is done and nothing else runs: any other state without a
\* successor is a deadlock.
Terminated ==
  /\ host \in {"stopped", "failed"}
  /\ UNCHANGED vars

Next ==
  \/ Start \/ SpawnFailed \/ Poll \/ Drain \/ Stop \/ Joined
  \/ \E c \in Callbacks : BeginCallback(c) \/ Callback(c)
  \/ Worker
  \/ Terminated

\* The threads that are runnable run: the worker, a callback that has begun,
\* and the host inside a call of the ABI.  Nothing makes WFP report an event
\* or the host make a call.
Fairness ==
  /\ WF_vars(Worker)
  /\ \A c \in Callbacks : WF_vars(Callback(c))
  /\ WF_vars(LoadLibrary \/ FindSymbols \/ OpenEngine \/ Subscribe \/ Spawn \/ SpawnFailed \/ Joined)

Spec == Init /\ [][Next]_vars
FairSpec == Spec /\ Fairness

------------------------------------------------------------------------------
(* Properties                                                                *)

\* The worker still holds the bridge, and with it the observer.
Using == {"check", "pop", "feed", "push", "read_dropped", "sleep", "final",
          "unsubscribe", "unsubscribing", "close", "delete"}

TypeOK ==
  /\ observer \in {"none", "live", "freed"}
  /\ engine \in {"closed", "open"} /\ subscription \in {"none", "active"}
  /\ queue \in Seq(Snapshot) /\ Len(queue) <= QueueCapacity
  /\ events \in Nat /\ dropped \in Nat /\ accepted \in Nat
  /\ cb \in [Callbacks -> [pc : {"idle", "pushed"}] \cup [pc : {"copied"}, header : Headers]]
  /\ module \in {"unloaded", "loaded"}
  /\ wpc \in WorkerStates
  /\ hand \in Seq(Snapshot)
  /\ Len(hand) = IF wpc \in {"feed", "push"} THEN 1 ELSE 0
  /\ wpc = "push" => HasMeta(hand[1].header)
  /\ drained \in 0..1 /\ stop \in 0..1
  /\ stats \in [snapshots_seen : Nat, events_normalized : Nat,
                snapshots_rejected : Nat, observer_dropped : Nat]
  /\ host \in HostStates /\ last_error \in StartErrors
  /\ flows \in SUBSET FlowKey
  /\ ring \in Seq(Event) /\ Len(ring) <= RingCapacity
  /\ ring_dropped \in Nat
  /\ polled \in Nat /\ last_polled \in Polled

\* Which resources exist at every point of start, run and teardown, whoever
\* executes it: the inductive invariant behind the next two properties.
\* (wfp_observer.cpp start/stop, WfpObserverBridge::open and Drop, IngestWorker)
BeforeSpawn == {"idle", "load", "symbols", "engine", "subscribe", "spawn"}
Ending == {"unsubscribe", "unsubscribing", "close", "delete", "free_library", "done"}
Resources ==
  /\ wpc = "none" <=> host \in BeforeSpawn \/ (host = "failed" /\ last_error # "WorkerStartFailed")
  /\ host = "spawn_failed" => wpc \in Ending
  /\ host = "running" => wpc \notin Ending \cup {"final"}
  /\ stop = 1 <=> host \in {"stopping", "stopped"}
  /\ host \in {"stopped", "failed"} => wpc \in {"none", "done"}
  /\ observer = "none" <=>
        \/ host \in {"idle", "load", "symbols", "engine"}
        \/ host = "failed" /\ last_error \in {"InvalidPath", "LoadFailed", "MissingSymbol"}
  /\ observer = "live" <=> host \in {"subscribe", "spawn"} \/ wpc \in Using
  /\ engine = "open" <=> host \in {"subscribe", "spawn"} \/ wpc \in Using \ {"delete"}
  /\ subscription = "active" <=>
        host = "spawn" \/ wpc \in Using \ {"unsubscribing", "close", "delete"}
  /\ module = "loaded" <=>
        \/ host \in {"symbols", "engine", "subscribe", "spawn"}
        \/ wpc \in Using \cup {"free_library"}
        \/ host = "failed" /\ last_error = "MissingSymbol"
  /\ \A c \in Callbacks :
        cb[c].pc # "idle" => host = "spawn" \/ wpc \in Using \ {"close", "delete"}

\* The observer's memory outlives every callback that holds its address and
\* every call the worker makes through the bridge, and the DLL's code outlives
\* them too.  (the lifetime rules of wfp_observer.cpp stop and the bridge's Drop)
LifetimeSafe ==
  /\ \A c \in Callbacks : cb[c].pc # "idle" => observer = "live" /\ module = "loaded"
  /\ wpc \in Using => observer = "live" /\ module = "loaded"
  /\ subscription = "active" => engine = "open" /\ observer = "live"

\* When the host's call has returned, nothing is left behind: no handle, no
\* observer, no callback that could still run, no worker -- after
\* flydpi_runtime_stop, and after a failed start, whose one exception is the
\* module that a missing symbol leaves loaded.
NothingLeftBehind ==
  host \in {"stopped", "failed"} =>
     /\ engine = "closed" /\ subscription = "none" /\ observer # "live"
     /\ \A c \in Callbacks : cb[c].pc = "idle"
     /\ wpc \in {"none", "done"}
     /\ module = "loaded" => last_error = "MissingSymbol"

\* Every accepted event is accounted for: it waits in a queue, is in the
\* worker's hand, was polled, was rejected, or is in one of the drop counters.
\* No loss is silent until delete observer and the drop of the runtime close
\* the two accounts.  (the counters of on_net_event, the worker and EventRing)
InHand(s) == IF wpc = s THEN 1 ELSE 0
Counting == {c \in Callbacks : cb[c].pc = "pushed"}
CallbackAccount == accepted = events + Cardinality(Counting)
QueueAccount == observer # "freed" => accepted = dropped + stats.snapshots_seen + Len(queue)
WorkerAccount == stats.snapshots_seen =
                    stats.events_normalized + stats.snapshots_rejected + InHand("feed")
RingAccount == host # "stopped" =>
                  stats.events_normalized = ring_dropped + polled + Len(ring) + InHand("push")
Conservation ==
  ~Endless => CallbackAccount /\ QueueAccount /\ WorkerAccount /\ RingAccount

\* The events on their way, from the next one the host gets to the newest.
InTransit == ring \o hand \o queue

\* The events on their way are in the order of acceptance, without
\* duplicates, and all later than what the host already has.
Ordered ==
  ~Endless =>
  /\ \A i, j \in 1..Len(InTransit) : i < j => InTransit[i].seq < InTransit[j].seq
  /\ \A i \in 1..Len(InTransit) : last_polled.seq < InTransit[i].seq /\ InTransit[i].seq <= accepted

\* The pipeline is a lossy FIFO: see the module of that name.
TransitSet == {InTransit[i].seq : i \in 1..Len(InTransit)}
Fifo == INSTANCE LossyFifo WITH sent <- accepted, transit <- TransitSet, last <- last_polled.seq
FifoSpec == Fifo!Spec

\* flydpi_runtime_stop returns: the stop flag is seen, the teardown ends, the
\* join returns.
StopReturns == host = "stopping" ~> host = "stopped"

\* No accepted event stays in the native queue for ever.
QueueMoves ==
  \A n \in 1..EventMax :
     (\E i \in 1..Len(queue) : queue[i].seq = n) ~> ~(\E i \in 1..Len(queue) : queue[i].seq = n)
==============================================================================

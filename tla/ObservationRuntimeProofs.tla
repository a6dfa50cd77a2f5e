----------------------- MODULE ObservationRuntimeProofs -----------------------
(***************************************************************************)
(* Machine-checked facts about ObservationRuntime that hold for every      *)
(* number of callback threads, every queue capacity and any number of      *)
(* events.                                                                 *)
(***************************************************************************)
EXTENDS ObservationRuntime, TLAPS, FiniteSetTheorems, SequenceTheorems

\* Drop-oldest insertion keeps a queue within its capacity; the new element
\* is always in it.
LEMMA PushBoundedBounds ==
  ASSUME NEW S, NEW q \in Seq(S), NEW x \in S, NEW cap \in Nat \ {0}, Len(q) <= cap
  PROVE  /\ PushBounded(q, x, cap) \in Seq(S)
         /\ Len(PushBounded(q, x, cap)) <= cap
         /\ Len(PushBounded(q, x, cap)) = IF Len(q) >= cap THEN Len(q) ELSE Len(q) + 1
<1>1. CASE Len(q) >= cap
  <2>1. Tail(q) \in Seq(S) /\ Len(Tail(q)) = Len(q) - 1
    BY <1>1
  <2>2. PushBounded(q, x, cap) = Append(Tail(q), x)
    BY <1>1 DEF PushBounded
  <2> QED BY <1>1, <2>1, <2>2
<1>2. CASE ~(Len(q) >= cap)
  <2>1. PushBounded(q, x, cap) = Append(q, x)
    BY <1>2 DEF PushBounded
  <2> QED BY <1>2, <2>1
<1> QED BY <1>1, <1>2

\* What EventRing::drain leaves.
LEMMA DrainLength ==
  ASSUME NEW S, NEW q \in Seq(S), NEW k \in 1..Len(q)
  PROVE  Len(SubSeq(q, k + 1, Len(q))) = Len(q) - k
OBVIOUS

\* feed_snapshot's filter is what makes the protocol of an event "tcp" or "udp",
\* and its code at the C ABI 6 or 17.
LEMMA EventOfType ==
  ASSUME NEW s \in Snapshot, HasMeta(s.header)
  PROVE  EventOf(s) \in Event
BY HeadersAssumption DEF Snapshot, HasMeta, EventOf, Event, ProtocolName

LEMMA AbiEventType ==
  ASSUME NEW e \in Event
  PROVE  AbiEvent(e) \in Polled
BY DEF Event, AbiEvent, Polled, KindCode, ProtocolCode

\* Counters stay natural numbers.
LEMMA AddType ==
  ASSUME NEW n \in Nat, NEW k \in Nat
  PROVE  Add(n, k) \in Nat
BY CapacityAssumption DEF Add

\* One step keeps the types.  Resources is needed where the worker is spawned:
\* no worker exists before, so none holds a snapshot.
LEMMA TypeStep == TypeOK /\ Resources /\ [Next]_vars => TypeOK'
<1> SUFFICES ASSUME TypeOK, Resources, [Next]_vars PROVE TypeOK'
  OBVIOUS
<1> USE DEF TypeOK, obsVars, queueVars, workerVars, ringVars, hostVars, pollVars, vars,
            WorkerStates, HostStates, StartErrors
<1>1. CASE StartCall
  BY <1>1 DEF StartCall, Fail
<1>2. CASE LoadLibrary
  BY <1>2 DEF LoadLibrary, Fail
<1>3. CASE FindSymbols
  BY <1>3 DEF FindSymbols, Fail
<1>4. CASE OpenEngine
  BY <1>4 DEF OpenEngine, Fail
<1>5. CASE Subscribe
  BY <1>5 DEF Subscribe, Fail
<1>6. CASE Spawn
  <2>0. wpc = "none"
    BY <1>6 DEF Spawn, Resources, BeforeSpawn
  <2>1. CASE host' = "running" /\ wpc' = "check"
    BY <1>6, <2>0, <2>1 DEF Spawn
  <2>2. CASE host' = "spawn_failed" /\ wpc' = "unsubscribe"
    BY <1>6, <2>0, <2>2 DEF Spawn
  <2> QED BY <1>6, <2>1, <2>2 DEF Spawn
<1>7. CASE SpawnFailed
  BY <1>7 DEF SpawnFailed, Fail
<1>8. ASSUME NEW n \in Nat \ {0}, Take(n) PROVE TypeOK'
  <2> DEFINE k == IF n <= Len(ring) THEN n ELSE Len(ring)
  <2>1. k \in 1..Len(ring) /\ k \in Nat
    BY <1>8 DEF Take
  <2>2. ring' \in Seq(Event) /\ Len(ring') <= RingCapacity
    BY <1>8, <2>1, CapacityAssumption, SMTT(30) DEF Take
  <2>3. polled' \in Nat
    BY <1>8, <2>1, AddType DEF Take
  <2>4. ring[k] \in Event
    BY <2>1
  <2>5. last_polled' \in Polled
    BY <1>8, <2>4, AbiEventType DEF Take
  <2>6. UNCHANGED <<obsVars, queueVars, workerVars, ring_dropped, hostVars, events, cb, module, flows>>
    BY <1>8 DEF Take
  <2> HIDE DEF k
  <2> QED BY <2>2, <2>3, <2>5, <2>6
<1>9. CASE Stop
  BY <1>9 DEF Stop
<1>10. CASE Joined
  BY <1>10, CapacityAssumption DEF Joined
<1>11. ASSUME NEW c \in Callbacks, BeginCallback(c) PROVE TypeOK'
  BY <1>11 DEF BeginCallback
<1>12. ASSUME NEW c \in Callbacks, PushSnapshot(c) PROVE TypeOK'
  <2>1. accepted' \in Nat /\ dropped' \in Nat
    BY <1>12, AddType DEF PushSnapshot, Inc, CountDrop
  <2>2. cb[c].header \in Headers
    BY <1>12 DEF PushSnapshot
  <2>3. [seq |-> accepted', header |-> cb[c].header] \in Snapshot
    BY <2>1, <2>2 DEF Snapshot
  <2>4. queue' \in Seq(Snapshot) /\ Len(queue') <= QueueCapacity
    BY <1>12, <2>3, PushBoundedBounds, CapacityAssumption DEF PushSnapshot
  <2>5. cb' \in [Callbacks -> [pc : {"idle", "pushed"}] \cup [pc : {"copied"}, header : Headers]]
    BY <1>12 DEF PushSnapshot
  <2> QED BY <1>12, <2>1, <2>4, <2>5 DEF PushSnapshot
<1>13. ASSUME NEW c \in Callbacks, CountEvent(c) PROVE TypeOK'
  <2>1. events' \in Nat
    BY <1>13, AddType DEF CountEvent, Inc
  <2>2. cb' \in [Callbacks -> [pc : {"idle", "pushed"}] \cup [pc : {"copied"}, header : Headers]]
    BY <1>13 DEF CountEvent
  <2> QED BY <1>13, <2>1, <2>2 DEF CountEvent
<1>14. CASE CheckStop
  BY <1>14 DEF CheckStop
<1>15. CASE Pop
  <2>1. CASE queue = <<>>
    BY <1>15, <2>1 DEF Pop
  <2>2. CASE queue # <<>>
    <3>1. Head(queue) \in Snapshot /\ Tail(queue) \in Seq(Snapshot)
          /\ Len(Tail(queue)) <= QueueCapacity
      BY <2>2, CapacityAssumption
    <3>2. <<Head(queue)>> \in Seq(Snapshot) /\ Len(<<Head(queue)>>) = 1
      BY <3>1
    <3>3. Inc(stats.snapshots_seen) \in Nat
      BY AddType DEF Inc
    <3>4. stats' \in [snapshots_seen : Nat, events_normalized : Nat,
                      snapshots_rejected : Nat, observer_dropped : Nat]
      BY <1>15, <2>2, <3>3 DEF Pop
    <3>5. hand' = <<Head(queue)>> /\ queue' = Tail(queue) /\ wpc' = "feed" /\ drained' = 1
      BY <1>15, <2>2 DEF Pop
    <3> QED BY <1>15, <3>1, <3>2, <3>4, <3>5, SMTT(30) DEF Pop
  <2> QED BY <2>1, <2>2
<1>16. CASE Feed
  <2>1. wpc = "feed" /\ Len(hand) = 1 /\ hand \in Seq(Snapshot)
    BY <1>16 DEF Feed
  <2>2. hand[1] \in Snapshot
    BY ONLY <2>1
  <2>3. FlowOf(hand[1].header) \in FlowKey
    BY ONLY <2>2, HeadersAssumption DEF FlowOf, FlowKey, Snapshot
  <2>4. Inc(stats.events_normalized) \in Nat /\ Inc(stats.snapshots_rejected) \in Nat
    BY AddType DEF Inc
  <2>5. CASE HasMeta(hand[1].header)
    <3>1. /\ wpc' = "push" /\ hand' = hand
          /\ flows' = flows \cup {FlowOf(hand[1].header)}
          /\ stats' = [stats EXCEPT !.events_normalized = Inc(@)]
          /\ UNCHANGED <<obsVars, queueVars, drained, ringVars, hostVars, pollVars, events, cb, module>>
      BY <1>16, <2>5 DEF Feed, OnPacket
    <3>2. /\ flows' \in SUBSET FlowKey
          /\ stats' \in [snapshots_seen : Nat, events_normalized : Nat,
                        snapshots_rejected : Nat, observer_dropped : Nat]
      BY <2>3, <2>4, <3>1
    <3> QED BY <2>1, <2>5, <3>1, <3>2, SMTT(30)
  <2>6. CASE ~HasMeta(hand[1].header)
    BY <1>16, <2>4, <2>6 DEF Feed
  <2> QED BY <2>5, <2>6
<1>17. CASE PushEvent
  <2>0. wpc = "push" /\ Len(hand) = 1 /\ hand \in Seq(Snapshot)
    BY <1>17 DEF PushEvent
  <2>1. hand[1] \in Snapshot
    BY ONLY <2>0
  <2>1a. EventOf(hand[1]) \in Event
    BY <2>0, <2>1, EventOfType
  <2>2. ring' \in Seq(Event) /\ Len(ring') <= RingCapacity
    BY <1>17, <2>1a, PushBoundedBounds, CapacityAssumption DEF PushEvent
  <2>3. ring_dropped' \in Nat
    BY <1>17, AddType DEF PushEvent, Inc, CountDrop
  <2> QED BY <1>17, <2>2, <2>3 DEF PushEvent
<1>18. CASE ReadDropped
  BY <1>18, SMTT(30) DEF ReadDropped
<1>19. CASE Sleep
  BY <1>19 DEF Sleep
<1>20. CASE ReadFinal
  BY <1>20 DEF ReadFinal
<1>21. CASE Teardown
  <2>1. CASE Unsubscribe
    BY <2>1 DEF Unsubscribe
  <2>2. CASE Unsubscribed
    BY <2>2 DEF Unsubscribed
  <2>3. CASE CloseEngine
    BY <2>3 DEF CloseEngine
  <2>4. CASE DeleteObserver
    BY <2>4, CapacityAssumption DEF DeleteObserver
  <2>5. CASE FreeLibrary
    BY <2>5 DEF FreeLibrary
  <2> QED BY <1>21, <2>1, <2>2, <2>3, <2>4, <2>5 DEF Teardown
<1>22. CASE UNCHANGED vars
  BY <1>22
<1>23. CASE Poll
  <2> HIDE DEF TypeOK
  <2> QED BY <1>8, <1>23 DEF Poll
<1>24. CASE Drain
  <2>1. PICK n \in 1..DrainMax : Take(n)
    BY <1>24 DEF Drain
  <2>2. n \in Nat \ {0}
    BY CapacityAssumption
  <2> HIDE DEF TypeOK
  <2> QED BY <1>8, <2>1, <2>2
<1> QED
  BY <1>1, <1>2, <1>3, <1>4, <1>5, <1>6, <1>7, <1>9, <1>10, <1>11, <1>12, <1>13, <1>14,
     <1>15, <1>16, <1>17, <1>18, <1>19, <1>20, <1>21, <1>22, <1>23, <1>24
  DEF Next, Start, Callback, Worker, Terminated

\* One step keeps the table of resources.
LEMMA ResourcesStep == TypeOK /\ Resources /\ [Next]_vars => Resources'
<1> SUFFICES ASSUME TypeOK, Resources, [Next]_vars PROVE Resources'
  OBVIOUS
<1>0. cb \in [Callbacks -> [pc : {"idle", "pushed"}] \cup [pc : {"copied"}, header : Headers]]
  BY DEF TypeOK
<1> USE DEF Resources, Using, Ending, BeforeSpawn, obsVars, queueVars, workerVars, ringVars,
            hostVars, pollVars, vars
<1>1. CASE StartCall
  BY <1>1 DEF StartCall, Fail
<1>2. CASE LoadLibrary
  BY <1>2 DEF LoadLibrary, Fail
<1>3. CASE FindSymbols
  BY <1>3 DEF FindSymbols, Fail
<1>4. CASE OpenEngine
  BY <1>4 DEF OpenEngine, Fail
<1>5. CASE Subscribe
  BY <1>5 DEF Subscribe, Fail
<1>6. CASE Spawn
  <2>1. host = "spawn" /\ wpc = "none"
    BY <1>6 DEF Spawn
  <2>2. CASE host' = "running" /\ wpc' = "check"
    BY <1>6, <2>1, <2>2 DEF Spawn
  <2>3. CASE host' = "spawn_failed" /\ wpc' = "unsubscribe"
    BY <1>6, <2>1, <2>3 DEF Spawn
  <2> QED BY <1>6, <2>2, <2>3 DEF Spawn
<1>7. CASE SpawnFailed
  BY <1>7 DEF SpawnFailed, Fail
<1>8. ASSUME NEW n, Take(n) PROVE Resources'
  BY <1>8 DEF Take
<1>9. CASE Stop
  BY <1>9 DEF Stop
<1>10. CASE Joined
  BY <1>10 DEF Joined
<1>11. ASSUME NEW c \in Callbacks, BeginCallback(c) PROVE Resources'
  BY <1>0, <1>11 DEF BeginCallback
<1>12. ASSUME NEW c \in Callbacks, PushSnapshot(c) PROVE Resources'
  BY <1>0, <1>12 DEF PushSnapshot
<1>13. ASSUME NEW c \in Callbacks, CountEvent(c) PROVE Resources'
  BY <1>0, <1>13 DEF CountEvent
<1>14. CASE CheckStop
  BY <1>14 DEF CheckStop
<1>15. CASE Pop
  BY <1>15 DEF Pop
<1>16. CASE Feed
  BY <1>16 DEF Feed
<1>17. CASE PushEvent
  BY <1>17 DEF PushEvent
<1>18. CASE ReadDropped
  BY <1>18 DEF ReadDropped
<1>19. CASE Sleep
  BY <1>19 DEF Sleep
<1>20. CASE ReadFinal
  BY <1>20 DEF ReadFinal
<1>21. CASE Teardown
  <2>1. CASE Unsubscribe
    BY <2>1 DEF Unsubscribe
  <2>2. CASE Unsubscribed
    BY <2>2 DEF Unsubscribed
  <2>3. CASE CloseEngine
    BY <2>3 DEF CloseEngine
  <2>4. CASE DeleteObserver
    BY <2>4 DEF DeleteObserver
  <2>5. CASE FreeLibrary
    BY <2>5 DEF FreeLibrary
  <2> QED BY <1>21, <2>1, <2>2, <2>3, <2>4, <2>5 DEF Teardown
<1>22. CASE UNCHANGED vars
  BY <1>22
<1> QED
  BY <1>1, <1>2, <1>3, <1>4, <1>5, <1>6, <1>7, <1>8, <1>9, <1>10, <1>11, <1>12, <1>13, <1>14,
     <1>15, <1>16, <1>17, <1>18, <1>19, <1>20, <1>21, <1>22
  DEF Next, Start, Poll, Drain, Callback, Worker, Terminated

\* In every reachable state the variables have the shape the code's types give
\* them and both queues are within their capacities.
THEOREM TypeCorrect == Spec => []TypeOK
<1>1. Init => TypeOK /\ Resources
  BY CapacityAssumption DEF Init, TypeOK, Resources, WorkerStates, HostStates, StartErrors,
     BeforeSpawn, Using, Polled
<1>2. TypeOK /\ Resources /\ [Next]_vars => TypeOK' /\ Resources'
  BY TypeStep, ResourcesStep
<1> QED BY <1>1, <1>2, PTL DEF Spec

\* In every reachable state exactly the resources of Resources exist: start,
\* run and teardown acquire and release each of them at its place.
THEOREM ResourcesCorrect == Spec => []Resources
<1>1. Init => TypeOK /\ Resources
  BY CapacityAssumption DEF Init, TypeOK, Resources, WorkerStates, HostStates, StartErrors,
     BeforeSpawn, Using, Polled
<1>2. TypeOK /\ Resources /\ [Next]_vars => TypeOK' /\ Resources'
  BY TypeStep, ResourcesStep
<1> QED BY <1>1, <1>2, PTL DEF Spec

\* No callback and no call of the worker ever finds the observer freed or the
\* DLL unloaded, however many callbacks are in flight when the pipeline stops.
THEOREM LifetimeCorrect == Spec => []LifetimeSafe
<1>1. Resources => LifetimeSafe
  BY DEF Resources, LifetimeSafe, Using
<1> QED BY <1>1, ResourcesCorrect, PTL

\* When a call of start or stop has ended the pipeline, everything it acquired
\* is released, but for the module a missing symbol leaves loaded.
THEOREM ReleaseCorrect == Spec => []NothingLeftBehind
<1>1. TypeOK /\ Resources => NothingLeftBehind
  <2> SUFFICES ASSUME TypeOK, Resources, host \in {"stopped", "failed"}
               PROVE  NothingLeftBehind
    BY DEF NothingLeftBehind
  <2>1. wpc \in {"none", "done"}
    BY DEF Resources
  <2>2. wpc \notin Using /\ wpc # "free_library"
    BY <2>1 DEF Using
  <2>3. engine # "open" /\ subscription # "active" /\ observer # "live"
    BY <2>2 DEF Resources
  <2>4. \A c \in Callbacks : cb[c].pc = "idle"
    BY <2>2 DEF Resources
  <2>5. module = "loaded" => last_error = "MissingSymbol"
    BY <2>2 DEF Resources
  <2> QED BY <2>1, <2>3, <2>4, <2>5 DEF NothingLeftBehind, TypeOK
<1> QED BY <1>1, TypeCorrect, ResourcesCorrect, PTL

\* While the counters do not saturate they simply count.
LEMMA IncCounts ==
  ASSUME ~Endless, NEW n \in Nat
  PROVE  Inc(n) = n + 1
BY DEF Inc, Add

\* One step keeps the balance of each of the four accounts.
LEMMA ConservationStep ==
  ASSUME TypeOK, TypeOK', Resources, Conservation, ~Endless, [Next]_vars
  PROVE  CallbackAccount' /\ QueueAccount' /\ WorkerAccount' /\ RingAccount'
<1> DEFINE Balance == CallbackAccount /\ QueueAccount /\ WorkerAccount /\ RingAccount
<1>a. Balance
  BY DEF Conservation
<1>b. /\ events \in Nat /\ dropped \in Nat /\ accepted \in Nat /\ ring_dropped \in Nat
      /\ polled \in Nat
      /\ stats \in [snapshots_seen : Nat, events_normalized : Nat,
                    snapshots_rejected : Nat, observer_dropped : Nat]
      /\ queue \in Seq(Snapshot) /\ ring \in Seq(Event)
      /\ Len(queue) <= QueueCapacity /\ Len(ring) <= RingCapacity
      /\ cb \in [Callbacks -> [pc : {"idle", "pushed"}] \cup [pc : {"copied"}, header : Headers]]
  BY DEF TypeOK
<1>c. IsFiniteSet(Counting) /\ Cardinality(Counting) \in Nat
  <2>1. Counting \subseteq Callbacks
    BY DEF Counting
  <2> QED BY <2>1, CallbacksAssumption, FS_Subset, FS_CardinalityType
<1> DEFINE Untouched == UNCHANGED <<queueVars, stats, ringVars, events, cb, polled>>
\* Steps that move no event.
<1>d. ASSUME Untouched, InHand("feed")' = InHand("feed"), InHand("push")' = InHand("push"),
             host # "stopped" \/ host' = "stopped",
             observer' # "freed" => observer # "freed"
      PROVE  Balance'
  BY <1>a, <1>d DEF CallbackAccount, QueueAccount, WorkerAccount, RingAccount, Counting,
     queueVars, ringVars
<1> USE DEF obsVars, queueVars, workerVars, ringVars, hostVars, pollVars
<1>1. CASE StartCall \/ LoadLibrary \/ FindSymbols
  <2>1. Untouched /\ wpc' = wpc /\ observer' = observer /\ host # "stopped"
    BY <1>1 DEF StartCall, LoadLibrary, FindSymbols
  <2> QED BY <1>d, <2>1 DEF InHand
<1>2. CASE OpenEngine \/ Subscribe
  <2>1. Untouched /\ wpc' = wpc /\ host # "stopped" /\ observer # "freed"
    BY <1>2 DEF OpenEngine, Subscribe, Resources
  <2> QED BY <1>d, <2>1 DEF InHand
<1>3. CASE Spawn
  <2>1. Untouched /\ wpc = "none" /\ wpc' \in {"check", "unsubscribe"}
        /\ observer' = observer /\ host # "stopped"
    BY <1>3 DEF Spawn, Resources, BeforeSpawn
  <2> QED BY <1>d, <2>1 DEF InHand
<1>4. CASE SpawnFailed \/ Stop
  <2>1. Untouched /\ wpc' = wpc /\ observer' = observer /\ host # "stopped"
    BY <1>4 DEF SpawnFailed, Stop
  <2> QED BY <1>d, <2>1 DEF InHand
<1>5. ASSUME NEW n \in Nat \ {0}, Take(n) PROVE Balance'
  <2> DEFINE k == IF n <= Len(ring) THEN n ELSE Len(ring)
  <2>1. k \in 1..Len(ring)
    BY <1>b, <1>5 DEF Take
  <2>2. Len(ring') = Len(ring) - k
    <3>1. ring' = SubSeq(ring, k + 1, Len(ring))
      BY <1>5 DEF Take
    <3> HIDE DEF k
    <3> QED BY <1>b, <2>1, <3>1, DrainLength
  <2>3. polled' = polled + k
    BY <1>5 DEF Take, Add
  <2>3a. UNCHANGED <<wpc, stats, ring_dropped>> /\ host = "running"
    BY <1>5 DEF Take
  <2>4. RingAccount'
    <3> HIDE DEF k
    <3> QED BY <1>a, <1>b, <2>1, <2>2, <2>3, <2>3a DEF RingAccount, InHand
  <2> QED BY <1>a, <1>5, <2>4 DEF Take, CallbackAccount, QueueAccount, WorkerAccount,
                                    Counting, InHand
<1>6. CASE Joined
  BY <1>a, <1>6 DEF Joined, CallbackAccount, QueueAccount, WorkerAccount, RingAccount,
                    Counting, InHand
<1>7. ASSUME NEW c \in Callbacks, BeginCallback(c) PROVE Balance'
  <2>1. Counting' = Counting
    BY <1>b, <1>7 DEF BeginCallback, Counting
  <2> QED BY <1>a, <1>7, <2>1 DEF BeginCallback, CallbackAccount, QueueAccount,
                                    WorkerAccount, RingAccount, InHand
<1>8. ASSUME NEW c \in Callbacks, PushSnapshot(c) PROVE Balance'
  <2>1. c \notin Counting /\ Counting' = Counting \cup {c}
    BY <1>b, <1>8 DEF PushSnapshot, Counting
  <2>2. Cardinality(Counting') = Cardinality(Counting) + 1
    BY <1>c, <2>1, FS_AddElement
  <2>3. accepted' = accepted + 1
    BY <1>b, <1>8, IncCounts DEF PushSnapshot
  <2>4. CallbackAccount'
    BY <1>a, <1>b, <1>c, <1>8, <2>2, <2>3 DEF PushSnapshot, CallbackAccount
  <2> DEFINE x == [seq |-> accepted', header |-> cb[c].header]
  <2>5. x \in Snapshot
    <3>1. accepted' \in Nat
      BY <1>b, <2>3
    <3>2. cb[c].header \in Headers
      BY <1>b, <1>8 DEF PushSnapshot
    <3> QED BY <3>1, <3>2 DEF Snapshot
  <2>6. Len(queue') = IF Len(queue) >= QueueCapacity THEN Len(queue) ELSE Len(queue) + 1
    BY <1>b, <1>8, <2>5, PushBoundedBounds, CapacityAssumption DEF PushSnapshot
  <2>7. dropped' = IF Len(queue) >= QueueCapacity THEN dropped + 1 ELSE dropped
    BY <1>b, <1>8, IncCounts DEF PushSnapshot, CountDrop
  <2>7a. UNCHANGED <<observer, stats>>
    BY <1>8 DEF PushSnapshot
  <2>8. QueueAccount'
    BY <1>a, <1>b, <2>3, <2>6, <2>7, <2>7a DEF QueueAccount
  <2> QED BY <1>a, <1>8, <2>4, <2>8 DEF PushSnapshot, WorkerAccount, RingAccount, InHand
<1>9. ASSUME NEW c \in Callbacks, CountEvent(c) PROVE Balance'
  <2>1. c \in Counting /\ Counting' = Counting \ {c}
    BY <1>b, <1>9 DEF CountEvent, Counting
  <2>2. Cardinality(Counting') = Cardinality(Counting) - 1
    BY <1>c, <2>1, FS_RemoveElement
  <2>3. events' = events + 1
    BY <1>b, <1>9, IncCounts DEF CountEvent
  <2>4. CallbackAccount'
    BY <1>a, <1>b, <1>c, <1>9, <2>2, <2>3 DEF CountEvent, CallbackAccount
  <2> QED BY <1>a, <1>9, <2>4 DEF CountEvent, QueueAccount, WorkerAccount, RingAccount, InHand
<1>10. CASE CheckStop \/ Sleep
  <2>1. Untouched /\ observer' = observer /\ host' = host
        /\ wpc \in {"check", "sleep"} /\ wpc' \in {"final", "pop", "check"}
    BY <1>10 DEF CheckStop, Sleep
  <2> QED BY <1>d, <2>1 DEF InHand
<1>11. CASE Pop
  <2>1. CASE queue = <<>>
    <3>1. Untouched /\ observer' = observer /\ host' = host
          /\ wpc = "pop" /\ wpc' = "read_dropped"
      BY <1>11, <2>1 DEF Pop
    <3> QED BY <1>d, <3>1 DEF InHand
  <2>2. CASE queue # <<>>
    <3>1. Len(queue') = Len(queue) - 1
      BY <1>b, <1>11, <2>2 DEF Pop
    <3>2. /\ stats'.snapshots_seen = stats.snapshots_seen + 1
          /\ stats'.events_normalized = stats.events_normalized
          /\ stats'.snapshots_rejected = stats.snapshots_rejected
      BY <1>b, <1>11, <2>2, IncCounts DEF Pop
    <3>3. wpc = "pop" /\ wpc' = "feed"
      BY <1>11, <2>2 DEF Pop
    <3>4. QueueAccount'
      BY <1>a, <1>b, <1>11, <3>1, <3>2 DEF Pop, QueueAccount
    <3>5. WorkerAccount'
      BY <1>a, <1>b, <3>2, <3>3 DEF WorkerAccount, InHand
    <3>6. RingAccount' /\ CallbackAccount'
      BY <1>a, <1>11, <3>2, <3>3 DEF Pop, RingAccount, CallbackAccount, Counting, InHand
    <3> QED BY <3>4, <3>5, <3>6
  <2> QED BY <2>1, <2>2
<1>12. CASE Feed
  <2>1. wpc = "feed" /\ stats'.snapshots_seen = stats.snapshots_seen
    BY <1>b, <1>12 DEF Feed
  <2>2. \/ /\ wpc' = "push" /\ stats'.events_normalized = stats.events_normalized + 1
           /\ stats'.snapshots_rejected = stats.snapshots_rejected
        \/ /\ wpc' = "pop" /\ stats'.events_normalized = stats.events_normalized
           /\ stats'.snapshots_rejected = stats.snapshots_rejected + 1
    BY <1>b, <1>12, IncCounts DEF Feed
  <2>3. WorkerAccount'
    BY <1>a, <1>b, <2>1, <2>2 DEF WorkerAccount, InHand
  <2>4. RingAccount'
    BY <1>a, <1>b, <1>12, <2>1, <2>2, SMTT(30) DEF Feed, RingAccount, InHand
  <2>5. CallbackAccount' /\ QueueAccount'
    BY <1>a, <1>12, <2>1 DEF Feed, CallbackAccount, QueueAccount, Counting
  <2> QED BY <2>3, <2>4, <2>5
<1>13. CASE PushEvent
  <2>1. wpc = "push" /\ wpc' = "pop" /\ hand \in Seq(Snapshot) /\ Len(hand) = 1
    BY <1>13 DEF PushEvent, TypeOK
  <2>2a. hand[1] \in Snapshot
    BY ONLY <2>1
  <2>2. EventOf(hand[1]) \in Event
    BY <2>1, <2>2a, <1>13, EventOfType DEF PushEvent, TypeOK
  <2>3. Len(ring') = IF Len(ring) >= RingCapacity THEN Len(ring) ELSE Len(ring) + 1
    <3>1. ring' = PushBounded(ring, EventOf(hand[1]), RingCapacity)
      BY <1>13 DEF PushEvent
    <3> QED BY ONLY <1>b, <2>2, <3>1, PushBoundedBounds, CapacityAssumption
  <2>4. ring_dropped' = IF Len(ring) >= RingCapacity THEN ring_dropped + 1 ELSE ring_dropped
    BY <1>b, <1>13, IncCounts DEF PushEvent, CountDrop
  <2>5. RingAccount'
    BY <1>a, <1>b, <1>13, <2>1, <2>3, <2>4, SMTT(30) DEF PushEvent, RingAccount, InHand
  <2> QED BY <1>a, <1>13, <2>1, <2>5 DEF PushEvent, CallbackAccount, QueueAccount,
                                           WorkerAccount, Counting, InHand
<1>14. CASE ReadDropped \/ ReadFinal
  <2>1. /\ stats'.snapshots_seen = stats.snapshots_seen
        /\ stats'.events_normalized = stats.events_normalized
        /\ stats'.snapshots_rejected = stats.snapshots_rejected
    BY <1>b, <1>14 DEF ReadDropped, ReadFinal
  <2>2. wpc \in {"read_dropped", "final"} /\ wpc' \in {"check", "sleep", "unsubscribe"}
    BY <1>14 DEF ReadDropped, ReadFinal
  <2>3. UNCHANGED <<obsVars, queueVars, ringVars, hostVars, pollVars, events, cb>>
    BY <1>14 DEF ReadDropped, ReadFinal
  <2> QED BY <1>a, <2>1, <2>2, <2>3 DEF CallbackAccount, QueueAccount, WorkerAccount,
                                          RingAccount, Counting, InHand
<1>15. CASE Unsubscribe \/ Unsubscribed \/ CloseEngine \/ FreeLibrary
  <2>1. Untouched /\ observer' = observer /\ host' = host
        /\ wpc \notin {"feed", "push"} /\ wpc' \notin {"feed", "push"}
    BY <1>15 DEF Unsubscribe, Unsubscribed, CloseEngine, FreeLibrary
  <2> QED BY <1>d, <2>1 DEF InHand
<1>16. CASE DeleteObserver
  BY <1>a, <1>16 DEF DeleteObserver, CallbackAccount, QueueAccount, WorkerAccount,
                     RingAccount, Counting, InHand
<1>17. CASE UNCHANGED vars
  BY <1>d, <1>17 DEF vars, InHand
<1>18. CASE Poll
  BY <1>5, <1>18 DEF Poll
<1>19. CASE Drain
  <2>1. PICK n \in 1..DrainMax : Take(n)
    BY <1>19 DEF Drain
  <2>2. n \in Nat \ {0}
    BY CapacityAssumption
  <2> QED BY <1>5, <2>1, <2>2
<1> QED
  BY <1>1, <1>2, <1>3, <1>4, <1>6, <1>7, <1>8, <1>9, <1>10, <1>11, <1>12, <1>13, <1>14,
     <1>15, <1>16, <1>17, <1>18, <1>19
  DEF Next, Start, Callback, Worker, Teardown, Terminated

\* Every event the observer accepts is, at every later moment, waiting, in the
\* worker's hand, polled, rejected, or in a drop counter: the pipeline loses
\* none silently while the observer and the runtime exist.
THEOREM ConservationCorrect == Spec => []Conservation
<1>1. Init => Conservation
  <2> SUFFICES ASSUME Init PROVE Conservation
    OBVIOUS
  <2>1. Counting = {}
    BY DEF Init, Counting
  <2>2. Cardinality(Counting) = 0
    BY <2>1, FS_EmptySet
  <2> QED BY <2>2 DEF Init, Conservation, CallbackAccount, QueueAccount, WorkerAccount,
                      RingAccount, InHand
<1>2. TypeOK /\ TypeOK' /\ Resources /\ Conservation /\ [Next]_vars => Conservation'
  BY ConservationStep DEF Conservation
<1> QED BY <1>1, <1>2, TypeCorrect, ResourcesCorrect, PTL DEF Spec

------------------------------------------------------------------------------
(* The order of events, and the lossy FIFO                                   *)

\* What Ordered says of the concatenation, said of its three parts.
Sorted(q) == \A i, j \in 1..Len(q) : i < j => q[i].seq < q[j].seq
Precedes(p, q) == \A i \in 1..Len(p), j \in 1..Len(q) : p[i].seq < q[j].seq
Recent(q) == \A i \in 1..Len(q) : last_polled.seq < q[i].seq /\ q[i].seq <= accepted

InOrder ==
  /\ Sorted(ring) /\ Sorted(queue)
  /\ Precedes(ring, hand) /\ Precedes(ring, queue) /\ Precedes(hand, queue)
  /\ Recent(ring) /\ Recent(hand) /\ Recent(queue)
  /\ last_polled.seq <= accepted

\* The numbers of the events in a queue.
Seqs(q) == {q[i].seq : i \in 1..Len(q)}
Numbered == Snapshot \cup Event

\* What is in transit, part by part.
LEMMA InTransitParts ==
  ASSUME TypeOK
  PROVE  /\ Len(InTransit) = Len(ring) + Len(hand) + Len(queue)
         /\ \A i \in 1..Len(InTransit) :
               InTransit[i] = IF i <= Len(ring) THEN ring[i]
                              ELSE IF i <= Len(ring) + Len(hand) THEN hand[i - Len(ring)]
                              ELSE queue[i - (Len(ring) + Len(hand))]
         /\ TransitSet = Seqs(ring) \cup Seqs(hand) \cup Seqs(queue)
<1>1. ring \in Seq(Numbered) /\ hand \in Seq(Numbered) /\ queue \in Seq(Numbered)
  <2>1. Snapshot \subseteq Numbered /\ Event \subseteq Numbered
    BY DEF Snapshot, Numbered
  <2>2. ring \in Seq(Event) /\ hand \in Seq(Snapshot) /\ queue \in Seq(Snapshot)
    BY DEF TypeOK
  <2> QED BY <2>1, <2>2, SeqMonotonic
<1>2. /\ ring \o hand \in Seq(Numbered)
      /\ Len(ring \o hand) = Len(ring) + Len(hand)
      /\ \A i \in 1..Len(ring) + Len(hand) :
            (ring \o hand)[i] = IF i <= Len(ring) THEN ring[i] ELSE hand[i - Len(ring)]
  BY <1>1
<1>3. /\ Len(InTransit) = Len(ring) + Len(hand) + Len(queue)
      /\ \A i \in 1..Len(InTransit) :
            InTransit[i] = IF i <= Len(ring) + Len(hand) THEN (ring \o hand)[i]
                           ELSE queue[i - (Len(ring) + Len(hand))]
  BY <1>1, <1>2 DEF InTransit
<1>4. \A i \in 1..Len(InTransit) :
         InTransit[i] = IF i <= Len(ring) THEN ring[i]
                        ELSE IF i <= Len(ring) + Len(hand) THEN hand[i - Len(ring)]
                        ELSE queue[i - (Len(ring) + Len(hand))]
  BY <1>1, <1>2, <1>3
<1>5. TransitSet \subseteq Seqs(ring) \cup Seqs(hand) \cup Seqs(queue)
  <2> SUFFICES ASSUME NEW i \in 1..Len(InTransit)
               PROVE  InTransit[i].seq \in Seqs(ring) \cup Seqs(hand) \cup Seqs(queue)
    BY DEF TransitSet
  <2>1. CASE i <= Len(ring)
    BY <1>1, <1>4, <2>1 DEF Seqs
  <2>2. CASE Len(ring) < i /\ i <= Len(ring) + Len(hand)
    <3>1. i - Len(ring) \in 1..Len(hand)
      BY <1>1, <2>2
    <3> QED BY <1>1, <1>4, <2>2, <3>1 DEF Seqs
  <2>3. CASE Len(ring) + Len(hand) < i
    <3>1. i - (Len(ring) + Len(hand)) \in 1..Len(queue)
      BY <1>1, <1>3, <2>3
    <3> QED BY <1>1, <1>4, <2>3, <3>1 DEF Seqs
  <2> QED BY <1>1, <2>1, <2>2, <2>3
<1>6. Seqs(ring) \cup Seqs(hand) \cup Seqs(queue) \subseteq TransitSet
  <2>1. ASSUME NEW i \in 1..Len(ring) PROVE ring[i].seq \in TransitSet
    <3>1. i \in 1..Len(InTransit) /\ InTransit[i] = ring[i]
      BY <1>1, <1>3, <1>4
    <3> QED BY <3>1 DEF TransitSet
  <2>2. ASSUME NEW i \in 1..Len(hand) PROVE hand[i].seq \in TransitSet
    <3>1. Len(ring) + i \in 1..Len(InTransit) /\ InTransit[Len(ring) + i] = hand[i]
      BY <1>1, <1>3, <1>4
    <3> QED BY <3>1 DEF TransitSet
  <2>3. ASSUME NEW i \in 1..Len(queue) PROVE queue[i].seq \in TransitSet
    <3> DEFINE m == Len(ring) + Len(hand) + i
    <3>1. /\ m \in 1..Len(InTransit) /\ ~(m <= Len(ring) + Len(hand))
          /\ m - (Len(ring) + Len(hand)) = i
      BY <1>1, <1>3
    <3> HIDE DEF m
    <3>2. m \in 1..Len(InTransit) /\ InTransit[m] = queue[i]
      BY <1>3, <3>1
    <3> QED BY <3>2 DEF TransitSet
  <2> QED BY <2>1, <2>2, <2>3 DEF Seqs
<1> QED BY <1>3, <1>4, <1>5, <1>6

\* The parts in order are the whole in order.
LEMMA PartsOrdered == TypeOK /\ InOrder => Ordered
<1> SUFFICES ASSUME TypeOK, InOrder PROVE Ordered
  OBVIOUS
<1>1. Len(ring) \in Nat /\ Len(hand) \in Nat /\ Len(queue) \in Nat
  BY DEF TypeOK
<1> DEFINE a == Len(ring)
           b == Len(ring) + Len(hand)
<1>2. ASSUME NEW i \in 1..Len(InTransit)
      PROVE  \/ i \in 1..Len(ring) /\ InTransit[i] = ring[i]
             \/ i > a /\ i - a \in 1..Len(hand) /\ InTransit[i] = hand[i - a]
             \/ i > b /\ i - b \in 1..Len(queue) /\ InTransit[i] = queue[i - b]
  BY <1>1, InTransitParts
<1>3. Len(hand) <= 1
  BY DEF TypeOK
<1>4. \A i, j \in 1..Len(InTransit) : i < j => InTransit[i].seq < InTransit[j].seq
  <2> SUFFICES ASSUME NEW i \in 1..Len(InTransit), NEW j \in 1..Len(InTransit), i < j
               PROVE  InTransit[i].seq < InTransit[j].seq
    OBVIOUS
  <2> HIDE DEF InOrder
  <2>1. CASE i \in 1..Len(ring) /\ InTransit[i] = ring[i]
    BY <1>1, <1>2, <2>1 DEF InOrder, Sorted, Precedes
  <2>2. CASE i > a /\ i - a \in 1..Len(hand) /\ InTransit[i] = hand[i - a]
    <3>1. ~(j \in 1..Len(ring)) /\ ~(j - a \in 1..Len(hand))
      BY <1>1, <1>3, <2>2
    <3>3. j - b \in 1..Len(queue) /\ InTransit[j] = queue[j - b]
      BY <1>2, <3>1
    <3> QED BY <1>1, <2>2, <3>3 DEF InOrder, Precedes
  <2>3. CASE i > b /\ i - b \in 1..Len(queue) /\ InTransit[i] = queue[i - b]
    <3>1. j - b \in 1..Len(queue) /\ InTransit[j] = queue[j - b]
      BY <1>1, <2>3, InTransitParts
    <3> QED BY <1>1, <2>3, <3>1, SMTT(30) DEF InOrder, Sorted
  <2> QED BY <1>2, <2>1, <2>2, <2>3
<1>5. \A i \in 1..Len(InTransit) : last_polled.seq < InTransit[i].seq /\ InTransit[i].seq <= accepted
  BY <1>2 DEF InOrder, Recent
<1> QED BY <1>4, <1>5 DEF Ordered

TransitByPart == TransitSet = Seqs(ring) \cup Seqs(hand) \cup Seqs(queue)
LEMMA TransitParts == TypeOK => TransitByPart
BY InTransitParts DEF TransitByPart

\* What drop-oldest insertion leaves in a queue, element by element.
LEMMA PushBoundedElements ==
  ASSUME NEW S, NEW q \in Seq(S), NEW x \in S, NEW cap \in Nat \ {0}, Len(q) <= cap
  PROVE  \E d \in 0..1 :
           /\ d <= Len(q)
           /\ Len(PushBounded(q, x, cap)) = Len(q) - d + 1
           /\ \A i \in 1..Len(q) - d : PushBounded(q, x, cap)[i] = q[i + d]
           /\ PushBounded(q, x, cap)[Len(q) - d + 1] = x
<1>1. CASE Len(q) >= cap
  <2>1. Tail(q) \in Seq(S) /\ Len(Tail(q)) = Len(q) - 1 /\ \A i \in 1..Len(q) - 1 : Tail(q)[i] = q[i + 1]
    BY <1>1
  <2>2. PushBounded(q, x, cap) = Append(Tail(q), x)
    BY <1>1 DEF PushBounded
  <2>3. 1 <= Len(q) /\ 1 \in 0..1
    BY <1>1
  <2>4. /\ Len(PushBounded(q, x, cap)) = Len(q) - 1 + 1
        /\ \A i \in 1..Len(q) - 1 : PushBounded(q, x, cap)[i] = q[i + 1]
        /\ PushBounded(q, x, cap)[Len(q) - 1 + 1] = x
    BY <2>1, <2>2, <2>3
  <2> QED BY <2>3, <2>4
<1>2. CASE ~(Len(q) >= cap)
  <2>1. PushBounded(q, x, cap) = Append(q, x)
    BY <1>2 DEF PushBounded
  <2>2. 0 <= Len(q) /\ 0 \in 0..1
    OBVIOUS
  <2>3. /\ Len(PushBounded(q, x, cap)) = Len(q) - 0 + 1
        /\ \A i \in 1..Len(q) - 0 : PushBounded(q, x, cap)[i] = q[i + 0]
        /\ PushBounded(q, x, cap)[Len(q) - 0 + 1] = x
    BY <2>1
  <2> QED BY <2>2, <2>3
<1> QED BY <1>1, <1>2

\* The numbers in a queue after its insertion and after its head has left:
\* numbers in order are distinct, so exactly the one of the lost entry is gone.
LEMMA PushSeqs ==
  ASSUME NEW q, NEW p, Len(q) \in Nat, NEW d \in 0..1, d <= Len(q), Len(p) = Len(q) - d + 1,
         \A i \in 1..Len(q) - d : p[i] = q[i + d],
         \A i \in 1..Len(q) : q[i].seq \in Nat, Sorted(q)
  PROVE  Seqs(p) = (Seqs(q) \ {q[i].seq : i \in 1..d}) \cup {p[Len(p)].seq}
<1>1. ASSUME NEW i \in 1..Len(p)
      PROVE  p[i].seq \in (Seqs(q) \ {q[j].seq : j \in 1..d}) \cup {p[Len(p)].seq}
  <2>1. CASE i = Len(p)
    BY <2>1
  <2>2. CASE i # Len(p)
    <3>1. i \in 1..Len(q) - d /\ i + d \in 1..Len(q) /\ p[i].seq = q[i + d].seq
      BY <2>2
    <3>2. \A j \in 1..d : q[j].seq < q[i + d].seq
      BY <3>1 DEF Sorted
    <3> QED BY <3>1, <3>2 DEF Seqs
  <2> QED BY <2>1, <2>2
<1>2. ASSUME NEW i \in 1..Len(q), q[i].seq \notin {q[j].seq : j \in 1..d}
      PROVE  q[i].seq \in Seqs(p)
  <2>1. i \notin 1..d
    BY <1>2
  <2>2. i - d \in 1..Len(q) - d /\ i - d \in 1..Len(p) /\ p[i - d] = q[(i - d) + d] /\ (i - d) + d = i
    BY <2>1
  <2> QED BY <2>2 DEF Seqs
<1>3. Len(p) \in 1..Len(p)
  OBVIOUS
<1> QED BY <1>1, <1>2, <1>3 DEF Seqs

\* A removal from the front keeps what is left in order.
FrontGone(q, p, k) ==
  /\ Len(q) \in Nat /\ k \in 0..Len(q) /\ Len(p) = Len(q) - k
  /\ \A i \in 1..Len(p) : p[i] = q[i + k]
  /\ \A i \in 1..Len(q) : q[i].seq \in Nat

LEMMA FrontRemoved ==
  ASSUME NEW q, NEW p, NEW k, FrontGone(q, p, k), Sorted(q)
  PROVE  Sorted(p) /\ Seqs(p) = Seqs(q) \ {q[i].seq : i \in 1..k}
<1> USE DEF FrontGone
<1>1. Sorted(p)
  <2> SUFFICES ASSUME NEW i \in 1..Len(p), NEW j \in 1..Len(p), i < j PROVE p[i].seq < p[j].seq
    BY DEF Sorted
  <2>1. i + k \in 1..Len(q) /\ j + k \in 1..Len(q) /\ i + k < j + k
    OBVIOUS
  <2> QED BY <2>1 DEF Sorted
<1>2. ASSUME NEW i \in 1..Len(p) PROVE p[i].seq \in Seqs(q) \ {q[j].seq : j \in 1..k}
  <2>1. i + k \in 1..Len(q) /\ p[i].seq = q[i + k].seq
    OBVIOUS
  <2>2. \A j \in 1..k : q[j].seq < q[i + k].seq
    BY <2>1 DEF Sorted
  <2>3. p[i].seq \in Seqs(q)
    BY <2>1 DEF Seqs
  <2>4. q[i + k].seq \in Nat /\ \A j \in 1..k : q[j].seq # q[i + k].seq
    BY <2>1, <2>2
  <2> QED BY ONLY <2>1, <2>3, <2>4
<1>3. ASSUME NEW i \in 1..Len(q), q[i].seq \notin {q[j].seq : j \in 1..k}
      PROVE  q[i].seq \in Seqs(p)
  <2>1. i \notin 1..k
    BY <1>3
  <2>2. i - k \in 1..Len(p) /\ p[i - k] = q[(i - k) + k] /\ (i - k) + k = i
    BY <2>1
  <2> QED BY <2>2 DEF Seqs
<1> QED BY <1>1, <1>2, <1>3 DEF Seqs

\* The types the order is about.
LEMMA OrderTypes ==
  ASSUME TypeOK
  PROVE  /\ Len(ring) \in Nat /\ Len(hand) \in Nat /\ Len(queue) \in Nat
         /\ \A i \in 1..Len(ring) : ring[i] \in Event /\ ring[i].seq \in Nat
         /\ \A i \in 1..Len(hand) : hand[i] \in Snapshot /\ hand[i].seq \in Nat
         /\ \A i \in 1..Len(queue) : queue[i] \in Snapshot /\ queue[i].seq \in Nat
         /\ accepted \in Nat /\ last_polled.seq \in Nat
<1>1. ring \in Seq(Event) /\ hand \in Seq(Snapshot) /\ queue \in Seq(Snapshot) /\ accepted \in Nat
  BY DEF TypeOK
<1>2. last_polled.seq \in Nat
  <2>1. last_polled \in Polled
    BY DEF TypeOK
  <2>2. \A e \in Polled : e.seq \in Nat
    BY DEF Polled, NoEvent
  <2> QED BY <2>1, <2>2
<1>3. \A e \in Event : e.seq \in Nat
  BY DEF Event
<1>4. \A s \in Snapshot : s.seq \in Nat
  BY DEF Snapshot
<1>5. /\ \A i \in 1..Len(ring) : ring[i] \in Event
      /\ \A i \in 1..Len(hand) : hand[i] \in Snapshot
      /\ \A i \in 1..Len(queue) : queue[i] \in Snapshot
  BY <1>1
<1> QED BY <1>1, <1>2, <1>3, <1>4, <1>5

\* A batch of the oldest events leaves the ring: a delivery.
LEMMA TakeMoves ==
  ASSUME TypeOK, TypeOK', InOrder, NEW n \in Nat \ {0}, Take(n)
  PROVE  InOrder' /\ Fifo!Deliver
<1> DEFINE k == IF n <= Len(ring) THEN n ELSE Len(ring)
           B == {ring[i].seq : i \in 1..k}
<1>1. k \in 1..Len(ring) /\ k \in 0..Len(ring) /\ ring \in Seq(Event)
  <2>1. ring \in Seq(Event) /\ ring # <<>>
    BY DEF Take, TypeOK
  <2>2. Len(ring) \in Nat /\ Len(ring) # 0
    BY ONLY <2>1
  <2> QED BY <2>1, <2>2
<1>2. /\ ring' = SubSeq(ring, k + 1, Len(ring))
      /\ last_polled'.seq = ring[k].seq
      /\ UNCHANGED <<hand, queue, accepted>>
  BY DEF Take, AbiEvent, workerVars, queueVars
<1> HIDE DEF k
<1>3. Len(ring') = Len(ring) - k /\ \A i \in 1..Len(ring') : ring'[i] = ring[i + k]
  BY <1>1, <1>2
<1>4. Sorted(ring') /\ Seqs(ring') = Seqs(ring) \ B
  <2>1. Sorted(ring)
    BY DEF InOrder
  <2>2. FrontGone(ring, ring', k)
    BY <1>1, <1>3, OrderTypes DEF FrontGone
  <2> QED BY <2>1, <2>2, FrontRemoved
<1>5. \A i \in 1..Len(ring') : i + k \in 1..Len(ring) /\ k < i + k
  BY <1>1, <1>3
<1>6. InOrder'
  <2>1. Precedes(ring', hand) /\ Precedes(ring', queue)
    BY <1>3, <1>5 DEF InOrder, Precedes
  <2>2. /\ \A i \in 1..Len(ring') : last_polled'.seq < ring'[i].seq /\ ring'[i].seq <= accepted
        /\ \A i \in 1..Len(hand) : last_polled'.seq < hand[i].seq /\ hand[i].seq <= accepted
        /\ \A i \in 1..Len(queue) : last_polled'.seq < queue[i].seq /\ queue[i].seq <= accepted
        /\ last_polled'.seq <= accepted
    BY <1>1, <1>2, <1>3, <1>5 DEF InOrder, Sorted, Precedes, Recent
  <2>3. Recent(ring)' /\ Recent(hand)' /\ Recent(queue)' /\ (last_polled.seq <= accepted)'
    BY <1>2, <2>2 DEF Recent
  <2>4. /\ Sorted(queue)' /\ Sorted(ring)'
        /\ Precedes(hand, queue)' /\ Precedes(ring, hand)' /\ Precedes(ring, queue)'
    BY <1>2, <1>4, <2>1 DEF InOrder, Sorted, Precedes
  <2> QED BY <2>3, <2>4 DEF InOrder
<1>7. Fifo!Deliver
  <2>1. TransitSet = Seqs(ring) \cup Seqs(hand) \cup Seqs(queue)
    BY TransitParts DEF TransitByPart
  <2>2. TransitSet' = Seqs(ring') \cup Seqs(hand) \cup Seqs(queue)
    <3>1. TransitByPart'
      BY TransitParts, PTL
    <3> QED BY <1>2, <3>1 DEF TransitByPart, Seqs
  <2>3. \A i \in 1..k : i \in 1..Len(ring)
    BY <1>1
  <2>4. \A b \in B, t \in Seqs(hand) \cup Seqs(queue) : b < t
    BY <2>3 DEF InOrder, Precedes, Seqs
  <2>5. \A b \in B, t \in Seqs(ring) \ B : b < t
    <3> SUFFICES ASSUME NEW i \in 1..k, NEW j \in 1..Len(ring), ring[j].seq \notin B
                 PROVE  ring[i].seq < ring[j].seq
      BY DEF Seqs
    <3>1. j \notin 1..k
      OBVIOUS
    <3>2. i < j
      BY <1>1, <3>1
    <3> QED BY <2>3, <3>2 DEF InOrder, Sorted
  <2>6. TransitSet' = TransitSet \ B
    <3>1. \A b \in B : b \notin Seqs(hand) \cup Seqs(queue)
      <4>1. \A b \in B : b \in Nat /\ ~(b < b)
        BY <2>3, OrderTypes
      <4> QED BY <2>4, <4>1
    <3> QED BY <1>4, <2>1, <2>2, <3>1
  <2>7. B \in SUBSET TransitSet
    BY <2>1, <2>3 DEF Seqs
  <2>8. \A b \in B, t \in TransitSet \ B : b < t
    BY <2>1, <2>4, <2>5
  <2>9. \A b \in B : last_polled.seq < b
    BY <2>3 DEF InOrder, Recent
  <2>10. last_polled'.seq \in B /\ \A b \in B : b <= last_polled'.seq
    <3>1. k \in 1..k
      BY <1>1
    <3>2. ASSUME NEW i \in 1..k PROVE ring[i].seq <= ring[k].seq
      <4>1. i = k \/ i < k
        BY <1>1
      <4> QED BY <1>1, <2>3, <4>1, OrderTypes DEF InOrder, Sorted
    <3> QED BY <1>2, <3>1, <3>2
  <2> HIDE DEF B
  <2> QED BY <1>2, <2>6, <2>7, <2>8, <2>9, <2>10 DEF Fifo!Deliver
<1> QED BY <1>6, <1>7

\* Whatever else a step does, if it adds no event and delivers none, it loses
\* some or none.
LEMMA ShrinkIsLose ==
  ASSUME TypeOK, TypeOK', UNCHANGED <<accepted, last_polled>>,
         Seqs(ring') \cup Seqs(hand') \cup Seqs(queue')
            \subseteq Seqs(ring) \cup Seqs(hand) \cup Seqs(queue)
  PROVE  Fifo!Lose
<1>1. TransitByPart /\ TransitByPart'
  BY TransitParts, PTL
<1>2. TransitSet' \subseteq TransitSet
  BY <1>1 DEF TransitByPart, Seqs
<1>3. TransitSet' = TransitSet \ (TransitSet \ TransitSet')
  BY <1>2
<1> QED BY <1>3 DEF Fifo!Lose

\* A step that leaves the three parts alone, or empties one, keeps the order.
LEMMA EmptiedInOrder ==
  ASSUME TypeOK, InOrder, UNCHANGED <<accepted, last_polled>>,
         ring' \in {ring, <<>>}, hand' \in {hand, <<>>}, queue' \in {queue, <<>>}
  PROVE  /\ InOrder'
         /\ Seqs(ring') \cup Seqs(hand') \cup Seqs(queue')
              \subseteq Seqs(ring) \cup Seqs(hand) \cup Seqs(queue)
<1>1. /\ Len(ring') \in Nat /\ \A i \in 1..Len(ring') : i \in 1..Len(ring) /\ ring'[i] = ring[i]
      /\ Len(hand') \in Nat /\ \A i \in 1..Len(hand') : i \in 1..Len(hand) /\ hand'[i] = hand[i]
      /\ Len(queue') \in Nat /\ \A i \in 1..Len(queue') : i \in 1..Len(queue) /\ queue'[i] = queue[i]
  BY OrderTypes
<1>2. InOrder'
  BY <1>1 DEF InOrder, Sorted, Precedes, Recent
<1>3. /\ Seqs(ring') \subseteq Seqs(ring)
      /\ Seqs(hand') \subseteq Seqs(hand) /\ Seqs(queue') \subseteq Seqs(queue)
  BY <1>1 DEF Seqs
<1> QED BY <1>2, <1>3

\* The worker takes the head of the native queue in its hand.
LEMMA PopMoves ==
  ASSUME TypeOK, TypeOK', InOrder, Pop
  PROVE  InOrder' /\ Fifo!Lose
<1> USE DEF Pop, obsVars, queueVars, ringVars, hostVars, pollVars
<1>1. CASE queue = <<>>
  BY <1>1, EmptiedInOrder, ShrinkIsLose
<1>2. CASE queue # <<>>
  <2>1. /\ UNCHANGED <<accepted, last_polled, ring>>
        /\ hand' = <<Head(queue)>> /\ queue' = Tail(queue)
    BY <1>2
  <2>2. queue \in Seq(Snapshot) /\ Len(hand) = 0 /\ Len(ring) \in Nat
    BY DEF TypeOK
  <2>3. /\ Len(hand') = 1 /\ 1 \in 1..Len(queue) /\ hand'[1] = queue[1]
        /\ Len(queue') = Len(queue) - 1 /\ \A i \in 1..Len(queue') : queue'[i] = queue[i + 1]
    BY <1>2, <2>1, <2>2
  <2>4. Sorted(queue') /\ Seqs(queue') = Seqs(queue) \ {queue[i].seq : i \in 1..1}
    <3>1. 1 \in 0..Len(queue) /\ Len(queue) \in Nat /\ Sorted(queue)
      BY <2>2, <2>3 DEF InOrder
    <3>2. FrontGone(queue, queue', 1)
      BY <2>3, <3>1, OrderTypes DEF FrontGone
    <3> QED BY <3>1, <3>2, FrontRemoved
  <2>5. \A i \in 1..Len(queue') : i + 1 \in 1..Len(queue) /\ 1 < i + 1
    BY <2>2, <2>3
  <2>6. Precedes(ring, hand)' /\ Precedes(ring, queue)' /\ Precedes(hand, queue)'
    BY <2>1, <2>3, <2>5 DEF InOrder, Precedes, Sorted
  <2>7. Recent(ring)' /\ Recent(hand)' /\ Recent(queue)'
    BY <2>1, <2>3, <2>5 DEF InOrder, Recent
  <2>8. InOrder'
    BY <2>1, <2>4, <2>6, <2>7 DEF InOrder, Sorted
  <2>9. Seqs(hand') \subseteq Seqs(queue)
    BY <2>3 DEF Seqs
  <2>10. Seqs(ring') = Seqs(ring)
    BY <2>1
  <2> QED BY <2>1, <2>4, <2>8, <2>9, <2>10, ShrinkIsLose
<1> QED BY <1>1, <1>2

\* The worker puts the event in its hand into the ring, whose oldest may go.
LEMMA PushEventMoves ==
  ASSUME TypeOK, TypeOK', InOrder, PushEvent
  PROVE  InOrder' /\ Fifo!Lose
<1>1. /\ ring' = PushBounded(ring, EventOf(hand[1]), RingCapacity) /\ hand' = <<>>
      /\ UNCHANGED <<accepted, last_polled, queue>> /\ wpc = "push"
  BY DEF PushEvent, queueVars, pollVars
<1>2. Len(hand) = 1 /\ hand \in Seq(Snapshot) /\ HasMeta(hand[1].header)
  BY <1>1 DEF TypeOK
<1>3. hand[1] \in Snapshot /\ 1 \in 1..Len(hand)
  BY ONLY <1>2
<1>4. EventOf(hand[1]) \in Event /\ EventOf(hand[1]).seq = hand[1].seq
  BY <1>2, <1>3, EventOfType DEF EventOf
<1>5. ring \in Seq(Event) /\ Len(ring) <= RingCapacity /\ RingCapacity \in Nat \ {0}
  BY CapacityAssumption DEF TypeOK
<1>6. PICK d \in 0..1 :
         /\ d <= Len(ring) /\ Len(ring') = Len(ring) - d + 1
         /\ \A i \in 1..Len(ring) - d : ring'[i] = ring[i + d]
         /\ ring'[Len(ring) - d + 1] = EventOf(hand[1])
  BY <1>1, <1>4, <1>5, PushBoundedElements
<1>7. Len(ring) \in Nat
  BY <1>5
<1>8. ASSUME NEW i \in 1..Len(ring')
      PROVE  \/ i = Len(ring') /\ ring'[i].seq = hand[1].seq
             \/ i < Len(ring') /\ i + d \in 1..Len(ring) /\ ring'[i] = ring[i + d]
  BY <1>4, <1>6, <1>7
<1>9. Sorted(ring')
  <2> SUFFICES ASSUME NEW i \in 1..Len(ring'), NEW j \in 1..Len(ring'), i < j
               PROVE  ring'[i].seq < ring'[j].seq
    BY DEF Sorted
  <2>1. i + d \in 1..Len(ring) /\ ring'[i] = ring[i + d] /\ i + d < j + d
    BY <1>6, <1>7, <1>8
  <2>2. CASE j = Len(ring') /\ ring'[j].seq = hand[1].seq
    BY <1>3, <2>1, <2>2 DEF InOrder, Precedes
  <2>3. CASE j + d \in 1..Len(ring) /\ ring'[j] = ring[j + d]
    BY <2>1, <2>3 DEF InOrder, Sorted
  <2> QED BY <1>8, <2>2, <2>3
<1>10. Precedes(ring', queue) /\ Recent(ring)'
  <2>1. ASSUME NEW i \in 1..Len(ring')
        PROVE  /\ \A j \in 1..Len(queue) : ring'[i].seq < queue[j].seq
               /\ last_polled.seq < ring'[i].seq /\ ring'[i].seq <= accepted
    <3>1. CASE ring'[i].seq = hand[1].seq
      BY <1>3, <3>1 DEF InOrder, Precedes, Recent
    <3>2. CASE i + d \in 1..Len(ring) /\ ring'[i] = ring[i + d]
      BY <3>2 DEF InOrder, Precedes, Recent
    <3> QED BY <1>8, <3>1, <3>2
  <2> QED BY <1>1, <2>1 DEF Precedes, Recent
<1>11. InOrder'
  <2>1. Len(hand') = 0 /\ 1..0 = {}
    BY <1>1
  <2> QED BY <1>1, <1>9, <1>10, <2>1 DEF InOrder, Sorted, Precedes, Recent
<1>12. Seqs(ring') \subseteq Seqs(ring) \cup Seqs(hand)
  BY <1>3, <1>8 DEF Seqs
<1>13. Seqs(hand') = {} /\ Seqs(queue') = Seqs(queue)
  BY <1>1 DEF Seqs
<1> QED BY <1>1, <1>11, <1>12, <1>13, ShrinkIsLose

\* A callback appends its snapshot to the native queue, whose oldest may go.
LEMMA PushSnapshotMoves ==
  ASSUME TypeOK, TypeOK', InOrder, ~Endless, NEW c \in Callbacks, PushSnapshot(c)
  PROVE  InOrder' /\ Fifo!Accept
<1> DEFINE x == [seq |-> accepted', header |-> cb[c].header]
<1>1. /\ queue' = PushBounded(queue, x, QueueCapacity)
      /\ UNCHANGED <<ring, hand, last_polled>> /\ cb[c].pc = "copied"
  BY DEF PushSnapshot, workerVars, ringVars, pollVars
<1>2. accepted \in Nat /\ accepted' = accepted + 1
  BY IncCounts DEF PushSnapshot, TypeOK
<1>3. x \in Snapshot /\ x.seq = accepted'
  <2>1. cb[c].header \in Headers
    BY <1>1 DEF TypeOK
  <2> QED BY <1>2, <2>1 DEF Snapshot
<1>4. queue \in Seq(Snapshot) /\ Len(queue) <= QueueCapacity /\ QueueCapacity \in Nat \ {0}
  BY CapacityAssumption DEF TypeOK
<1> HIDE DEF x
<1>5. PICK d \in 0..1 :
         /\ d <= Len(queue) /\ Len(queue') = Len(queue) - d + 1
         /\ \A i \in 1..Len(queue) - d : queue'[i] = queue[i + d]
         /\ queue'[Len(queue) - d + 1] = x
  BY <1>1, <1>3, <1>4, PushBoundedElements
<1>6. Len(queue) \in Nat
  BY <1>4
<1>7. ASSUME NEW i \in 1..Len(queue')
      PROVE  \/ i = Len(queue') /\ queue'[i].seq = accepted'
             \/ i < Len(queue') /\ i + d \in 1..Len(queue) /\ queue'[i] = queue[i + d]
  BY <1>3, <1>5, <1>6
<1>8. Sorted(queue')
  <2> SUFFICES ASSUME NEW i \in 1..Len(queue'), NEW j \in 1..Len(queue'), i < j
               PROVE  queue'[i].seq < queue'[j].seq
    BY DEF Sorted
  <2>1. i + d \in 1..Len(queue) /\ queue'[i] = queue[i + d] /\ i + d < j + d
    BY <1>5, <1>6, <1>7
  <2>2. CASE j = Len(queue') /\ queue'[j].seq = accepted'
    BY <1>2, <2>1, <2>2, OrderTypes DEF InOrder, Recent
  <2>3. CASE j + d \in 1..Len(queue) /\ queue'[j] = queue[j + d]
    BY <2>1, <2>3 DEF InOrder, Sorted
  <2> QED BY <1>7, <2>2, <2>3
<1>9. ASSUME NEW i \in 1..Len(queue')
      PROVE  /\ \A j \in 1..Len(ring) : ring[j].seq < queue'[i].seq
             /\ \A j \in 1..Len(hand) : hand[j].seq < queue'[i].seq
             /\ last_polled.seq < queue'[i].seq /\ queue'[i].seq <= accepted'
  <2>1. CASE queue'[i].seq = accepted'
    BY <1>2, <2>1, OrderTypes DEF InOrder, Recent
  <2>2. CASE i + d \in 1..Len(queue) /\ queue'[i] = queue[i + d]
    BY <1>2, <2>2, OrderTypes DEF InOrder, Precedes, Recent
  <2> QED BY <1>7, <2>1, <2>2
<1>10. InOrder'
  <2>1. Precedes(ring, queue)' /\ Precedes(hand, queue)' /\ Precedes(ring, hand)' /\ Recent(queue)'
    BY <1>1, <1>9 DEF InOrder, Precedes, Recent
  <2>2. Recent(ring)' /\ Recent(hand)' /\ (last_polled.seq <= accepted)'
    BY <1>1, <1>2, OrderTypes DEF InOrder, Recent
  <2> QED BY <1>1, <1>8, <2>1, <2>2 DEF InOrder, Sorted
<1>11. Fifo!Accept
  <2> DEFINE gone == {queue[i].seq : i \in 1..d}
  <2>1. TransitSet = Seqs(ring) \cup Seqs(hand) \cup Seqs(queue)
    BY TransitParts DEF TransitByPart
  <2>2. TransitSet' = Seqs(ring) \cup Seqs(hand) \cup Seqs(queue')
    <3>1. TransitByPart'
      BY TransitParts, PTL
    <3> QED BY <1>1, <3>1 DEF TransitByPart, Seqs
  <2>3. Seqs(queue') = (Seqs(queue) \ gone) \cup {accepted'}
    <3>1. Sorted(queue) /\ queue'[Len(queue')].seq = accepted'
      BY <1>3, <1>5 DEF InOrder
    <3>2. \A i \in 1..Len(queue) : queue[i].seq \in Nat
      BY OrderTypes
    <3> DEFINE q == queue
               p == queue'
    <3>3. /\ Len(q) \in Nat /\ d <= Len(q) /\ Len(p) = Len(q) - d + 1
          /\ \A i \in 1..Len(q) - d : p[i] = q[i + d]
          /\ \A i \in 1..Len(q) : q[i].seq \in Nat
          /\ Sorted(q)
          /\ p[Len(p)].seq = accepted'
      BY <1>5, <1>6, <3>1, <3>2
    <3> HIDE DEF q, p
    <3>4. Seqs(p) = (Seqs(q) \ {q[i].seq : i \in 1..d}) \cup {p[Len(p)].seq}
      BY <3>3, PushSeqs
    <3> QED BY <3>3, <3>4 DEF q, p
  <2>4. \A i \in 1..d : i \in 1..Len(queue)
    BY <1>5, <1>6
  <2>5. \A n \in gone : n \notin Seqs(ring) \cup Seqs(hand)
    <3>1. ASSUME NEW i \in 1..d, NEW j \in 1..Len(ring) PROVE ring[j].seq # queue[i].seq
      BY <2>4, OrderTypes DEF InOrder, Precedes
    <3>2. ASSUME NEW i \in 1..d, NEW j \in 1..Len(hand) PROVE hand[j].seq # queue[i].seq
      BY <2>4, OrderTypes DEF InOrder, Precedes
    <3> QED BY <3>1, <3>2 DEF Seqs
  <2>6. gone \in SUBSET TransitSet
    BY <2>1, <2>4 DEF Seqs
  <2>7. \A m, n \in gone : m = n
    BY <1>5
  <2>8. TransitSet' = (TransitSet \ gone) \cup {accepted'}
    BY <2>1, <2>2, <2>3, <2>5
  <2> HIDE DEF gone
  <2>9. \E l \in SUBSET TransitSet :
           (\A m, n \in l : m = n) /\ TransitSet' = (TransitSet \ l) \cup {accepted'}
    BY <2>6, <2>7, <2>8
  <2>10. last_polled'.seq = last_polled.seq
    BY <1>1
  <2> QED BY <1>2, <2>9, <2>10 DEF Fifo!Accept
<1> QED BY <1>10, <1>11

\* Any other step that touches the parts empties one of them.
Quiet ==
  /\ UNCHANGED <<accepted, last_polled>>
  /\ ring' \in {ring, <<>>} /\ hand' \in {hand, <<>>} /\ queue' \in {queue, <<>>}

LEMMA QuietMoves ==
  ASSUME TypeOK, TypeOK', InOrder, Quiet
  PROVE  InOrder' /\ Fifo!Lose
BY EmptiedInOrder, ShrinkIsLose DEF Quiet

\* Every step keeps the order and is a step of the lossy FIFO: losing none is one too.
LEMMA OrderStep ==
  ASSUME TypeOK, TypeOK', InOrder, ~Endless, [Next]_vars
  PROVE  InOrder' /\ Fifo!Next
<1>1. ASSUME NEW n \in Nat \ {0}, Take(n) PROVE InOrder' /\ Fifo!Next
  BY <1>1, TakeMoves DEF Fifo!Next
<1>2. CASE Poll
  BY <1>1, <1>2 DEF Poll
<1>3. CASE Drain
  <2>1. PICK n \in 1..DrainMax : Take(n)
    BY <1>3 DEF Drain
  <2>2. n \in Nat \ {0}
    BY CapacityAssumption
  <2> QED BY <1>1, <2>1, <2>2
<1>4. CASE Pop
  BY <1>4, PopMoves DEF Fifo!Next
<1>5. CASE PushEvent
  BY <1>5, PushEventMoves DEF Fifo!Next
<1>6. ASSUME NEW c \in Callbacks, PushSnapshot(c) PROVE InOrder' /\ Fifo!Next
  BY <1>6, PushSnapshotMoves DEF Fifo!Next
<1>7. ASSUME Quiet PROVE InOrder' /\ Fifo!Next
  BY <1>7, QuietMoves DEF Fifo!Next
<1> USE DEF obsVars, queueVars, workerVars, ringVars, hostVars, pollVars
<1>8. CASE Start \/ SpawnFailed \/ Stop
  <2>1. UNCHANGED <<accepted, last_polled, ring, hand, queue>>
    BY <1>8 DEF Start, StartCall, LoadLibrary, FindSymbols, OpenEngine, Subscribe, Spawn,
                SpawnFailed, Stop
  <2> QED BY <1>7, <2>1 DEF Quiet
<1>9. CASE Joined
  <2>1. UNCHANGED <<accepted, last_polled, hand, queue>> /\ ring' = <<>>
    BY <1>9 DEF Joined
  <2> QED BY <1>7, <2>1 DEF Quiet
<1>10. ASSUME NEW c \in Callbacks, BeginCallback(c) \/ CountEvent(c) PROVE InOrder' /\ Fifo!Next
  <2>1. UNCHANGED <<accepted, last_polled, ring, hand, queue>>
    BY <1>10 DEF BeginCallback, CountEvent
  <2> QED BY <1>7, <2>1 DEF Quiet
<1>11. CASE Feed
  <2>1. UNCHANGED <<accepted, last_polled, ring, queue>> /\ hand' \in {hand, <<>>}
    BY <1>11 DEF Feed
  <2> QED BY <1>7, <2>1 DEF Quiet
<1>12. CASE CheckStop \/ ReadDropped \/ Sleep \/ ReadFinal
  <2>1. UNCHANGED <<accepted, last_polled, ring, hand, queue>>
    BY <1>12 DEF CheckStop, ReadDropped, Sleep, ReadFinal
  <2> QED BY <1>7, <2>1 DEF Quiet
<1>13. CASE Teardown
  <2>1. UNCHANGED <<accepted, last_polled, ring, hand>> /\ queue' \in {queue, <<>>}
    BY <1>13 DEF Teardown, Unsubscribe, Unsubscribed, CloseEngine, DeleteObserver, FreeLibrary
  <2> QED BY <1>7, <2>1 DEF Quiet
<1>14. CASE Terminated \/ UNCHANGED vars
  <2>1. UNCHANGED <<accepted, last_polled, ring, hand, queue>>
    BY <1>14 DEF Terminated, vars
  <2> QED BY <1>7, <2>1 DEF Quiet
<1> QED
  BY <1>2, <1>3, <1>4, <1>5, <1>6, <1>8, <1>9, <1>10, <1>11, <1>12, <1>13, <1>14
  DEF Next, Callback, Worker

\* At the start nothing is on its way.
LEMMA OrderInit == Init => InOrder /\ Fifo!Init
<1> SUFFICES ASSUME Init PROVE InOrder /\ Fifo!Init
  OBVIOUS
<1>1. /\ ring = <<>> /\ hand = <<>> /\ queue = <<>> /\ accepted = 0 /\ last_polled.seq = 0
      /\ Len(<<>>) = 0 /\ 1..0 = {}
  BY DEF Init, NoEvent
<1>2. InOrder
  BY <1>1 DEF InOrder, Sorted, Precedes, Recent
<1>3. InTransit = <<>>
  BY <1>1 DEF InTransit
<1>4. TransitSet = {}
  BY <1>1, <1>3 DEF TransitSet
<1> QED BY <1>1, <1>2, <1>4 DEF Fifo!Init

\* While the numbers of events do not wrap, the events on their way from WFP
\* to the host are in the order of their acceptance, none twice, and every one
\* is newer than what the host has: of whatever threads, queues and locks are
\* between, none swaps or repeats an event.
THEOREM OrderCorrect == Spec => []Ordered
<1> DEFINE I == ~Endless => InOrder
<1>1. Init => I
  BY OrderInit
<1>2. TypeOK /\ TypeOK' /\ I /\ [Next]_vars => I'
  BY OrderStep
<1>3. TypeOK /\ I => Ordered
  BY PartsOrdered DEF Ordered
<1> HIDE DEF I
<1> QED BY <1>1, <1>2, <1>3, TypeCorrect, PTL DEF Spec

\* The pipeline implements the lossy FIFO: every step of a callback thread, of
\* the worker and of the host accepts one event, loses some, delivers a batch
\* of the oldest ones, or leaves the FIFO as it is.
THEOREM FifoCorrect == ~Endless => (Spec => FifoSpec)
<1> SUFFICES ASSUME ~Endless PROVE Spec => FifoSpec
  OBVIOUS
<1>1. Init => InOrder /\ Fifo!Init
  BY OrderInit
<1>2. TypeOK /\ TypeOK' /\ InOrder /\ [Next]_vars => InOrder' /\ Fifo!Next
  BY OrderStep
<1> QED BY <1>1, <1>2, TypeCorrect, PTL DEF Spec, FifoSpec, Fifo!Spec
------------------------------------------------------------------------------
(* flydpi_runtime_stop returns: once it is called, each step of any thread   *)
(* uses up one of a number of steps.                                         *)

Copied == {c \in Callbacks : cb[c].pc = "copied"}
EventsLeft == EventMax - accepted - Cardinality(Copied)
WorkerLeft(step) ==
  CASE step = "feed"          -> 12
    [] step = "push"          -> 11
    [] step = "pop"           -> 10
    [] step = "read_dropped"  -> 9
    [] step = "sleep"         -> 8
    [] step = "check"         -> 7
    [] step = "final"         -> 6
    [] step = "unsubscribe"   -> 5
    [] step = "unsubscribing" -> 4
    [] step = "close"         -> 3
    [] step = "delete"        -> 2
    [] step = "free_library"  -> 1
    [] OTHER -> 0
JoinLeft == IF host = "stopping" THEN 1 ELSE 0

\* An event still to come costs a callback and, with room in the queue, a turn
\* of the worker's inner loop, which reads the stop flag only after it.
StopSum(toCome, copied, counting, queued, worker, join) ==
  6 * toCome + 5 * copied + counting + 3 * queued + worker + join
StopLeft ==
  StopSum(EventsLeft, Cardinality(Copied), Cardinality(Counting), Len(queue),
          WorkerLeft(wpc), JoinLeft)
StopAllowed == 6 * EventMax + Cardinality(Callbacks) + 3 * QueueCapacity + 13

WithinEvents == ~Endless => EventsLeft >= 0
StopWithin == ~Endless => StopLeft \in 0..StopAllowed
StopShrinks == ~Endless /\ host = "stopping" => StopLeft' < StopLeft

LEMMA ThreadCounts ==
  /\ IsFiniteSet(Copied) /\ Cardinality(Copied) \in Nat
  /\ IsFiniteSet(Counting) /\ Cardinality(Counting) \in Nat
  /\ Cardinality(Counting) <= Cardinality(Callbacks) /\ Cardinality(Callbacks) \in Nat
<1>1. Copied \subseteq Callbacks /\ Counting \subseteq Callbacks
  BY DEF Copied, Counting
<1> QED BY <1>1, CallbacksAssumption, FS_Subset, FS_CardinalityType

LEMMA WorkerLeftType == \A step : WorkerLeft(step) \in 0..12
BY DEF WorkerLeft

\* What a callback does to the sets of threads and to the queue.
LEMMA BeginMoves ==
  ASSUME TypeOK, ~Endless, NEW c \in Callbacks, BeginCallback(c)
  PROVE  /\ EventsLeft' = EventsLeft - 1 /\ EventsLeft > 0
         /\ Cardinality(Copied') = Cardinality(Copied) + 1 /\ Counting' = Counting
<1>1. cb \in [Callbacks -> [pc : {"idle", "pushed"}] \cup [pc : {"copied"}, header : Headers]]
      /\ accepted \in Nat /\ accepted' = accepted
  BY DEF TypeOK, BeginCallback, queueVars
<1>2. PICK h \in Headers : cb' = [cb EXCEPT ![c] = [pc |-> "copied", header |-> h]]
  BY DEF BeginCallback
<1>3. c \notin Copied /\ Copied' = Copied \cup {c}
  BY <1>1, <1>2 DEF BeginCallback, Copied
<1>4. Counting' = Counting
  BY <1>1, <1>2 DEF BeginCallback, Counting
<1>5. Cardinality(Copied') = Cardinality(Copied) + 1
  BY <1>3, ThreadCounts, FS_AddElement
<1>6. accepted + Cardinality(Copied) < EventMax
  BY DEF BeginCallback, Copied
<1> QED BY <1>1, <1>4, <1>5, <1>6, ThreadCounts, CapacityAssumption DEF EventsLeft

LEMMA PushMoves ==
  ASSUME TypeOK, ~Endless, NEW c \in Callbacks, PushSnapshot(c)
  PROVE  /\ EventsLeft' = EventsLeft /\ Len(queue') <= Len(queue) + 1 /\ Len(queue') \in Nat
         /\ Cardinality(Copied') = Cardinality(Copied) - 1
         /\ Cardinality(Counting') = Cardinality(Counting) + 1
<1>1. /\ cb \in [Callbacks -> [pc : {"idle", "pushed"}] \cup [pc : {"copied"}, header : Headers]]
      /\ accepted \in Nat /\ queue \in Seq(Snapshot) /\ Len(queue) <= QueueCapacity
      /\ cb' = [cb EXCEPT ![c] = [pc |-> "pushed"]] /\ cb[c].pc = "copied"
  BY DEF TypeOK, PushSnapshot
<1>2. accepted' = accepted + 1
  BY <1>1, IncCounts DEF PushSnapshot
<1>3. c \in Copied /\ Copied' = Copied \ {c}
  BY <1>1 DEF Copied
<1>4. c \notin Counting /\ Counting' = Counting \cup {c}
  BY <1>1 DEF Counting
<1>5. Cardinality(Copied') = Cardinality(Copied) - 1
  BY <1>3, ThreadCounts, FS_RemoveElement
<1>6. Cardinality(Counting') = Cardinality(Counting) + 1
  BY <1>4, ThreadCounts, FS_AddElement
<1>7. Len(queue') <= Len(queue) + 1 /\ Len(queue') \in Nat
  <2> DEFINE x == [seq |-> accepted', header |-> cb[c].header]
  <2>1. x \in Snapshot
    BY <1>1, <1>2 DEF Snapshot
  <2>2. queue' = PushBounded(queue, x, QueueCapacity)
    BY DEF PushSnapshot
  <2> HIDE DEF x
  <2> QED BY <1>1, <2>1, <2>2, PushBoundedBounds, CapacityAssumption
<1> QED BY <1>1, <1>2, <1>5, <1>6, <1>7, ThreadCounts, CapacityAssumption DEF EventsLeft

LEMMA CountMoves ==
  ASSUME TypeOK, NEW c \in Callbacks, CountEvent(c)
  PROVE  /\ EventsLeft' = EventsLeft /\ Copied' = Copied /\ UNCHANGED queue
         /\ Cardinality(Counting') = Cardinality(Counting) - 1
<1>1. /\ cb \in [Callbacks -> [pc : {"idle", "pushed"}] \cup [pc : {"copied"}, header : Headers]]
      /\ cb' = [cb EXCEPT ![c] = [pc |-> "idle"]] /\ cb[c].pc = "pushed"
      /\ UNCHANGED <<queue, accepted>>
  BY DEF TypeOK, CountEvent, queueVars
<1>2. c \in Counting /\ Counting' = Counting \ {c} /\ Copied' = Copied
  BY <1>1 DEF Counting, Copied
<1> QED BY <1>1, <1>2, ThreadCounts, FS_RemoveElement DEF EventsLeft

\* No other step touches a callback or accepts an event.
LEMMA OthersQuiet ==
  ASSUME [Next]_vars, \A c \in Callbacks : ~BeginCallback(c) /\ ~PushSnapshot(c) /\ ~CountEvent(c)
  PROVE  UNCHANGED <<cb, accepted>>
<1> USE DEF queueVars, vars
<1>1. CASE Start \/ SpawnFailed \/ Stop \/ Joined
  BY <1>1 DEF Start, StartCall, LoadLibrary, FindSymbols, OpenEngine, Subscribe, Spawn,
              SpawnFailed, Stop, Joined
<1>2. ASSUME NEW n, Take(n) PROVE UNCHANGED <<cb, accepted>>
  BY <1>2 DEF Take
<1>3. CASE Worker
  BY <1>3 DEF Worker, CheckStop, Pop, Feed, PushEvent, ReadDropped, Sleep, ReadFinal, Teardown,
              Unsubscribe, Unsubscribed, CloseEngine, DeleteObserver, FreeLibrary
<1> QED BY <1>1, <1>2, <1>3 DEF Next, Poll, Drain, Callback, Terminated

LEMMA EventsStep == TypeOK /\ WithinEvents /\ [Next]_vars => WithinEvents'
<1> SUFFICES ASSUME TypeOK, ~Endless, EventsLeft >= 0, [Next]_vars
             PROVE  EventsLeft' >= 0
  BY DEF WithinEvents
<1>0. EventsLeft \in Int
  BY ThreadCounts, CapacityAssumption DEF EventsLeft, TypeOK
<1>1. ASSUME NEW c \in Callbacks, BeginCallback(c) PROVE EventsLeft' >= 0
  BY <1>0, <1>1, BeginMoves
<1>2. ASSUME NEW c \in Callbacks, PushSnapshot(c) \/ CountEvent(c) PROVE EventsLeft' >= 0
  BY <1>2, PushMoves, CountMoves
<1>3. CASE \A c \in Callbacks : ~BeginCallback(c) /\ ~PushSnapshot(c) /\ ~CountEvent(c)
  <2>1. UNCHANGED <<cb, accepted>>
    BY <1>3, OthersQuiet
  <2>2. EventsLeft' = EventsLeft
    BY <2>1 DEF EventsLeft, Copied
  <2> QED BY <2>2
<1> QED BY <1>1, <1>2, <1>3

\* The worker after the stop, and how far it gets with each step.
LEMMA WorkerShrinks ==
  ASSUME TypeOK, Resources, host = "stopping", Worker
  PROVE  /\ 3 * Len(queue') + WorkerLeft(wpc') < 3 * Len(queue) + WorkerLeft(wpc)
         /\ Len(queue') \in Nat /\ UNCHANGED host
<1>0. queue \in Seq(Snapshot) /\ Len(queue) \in Nat /\ stop = 1
  BY DEF TypeOK, Resources
<1> USE DEF queueVars, hostVars, WorkerLeft
<1>1. CASE CheckStop \/ ReadDropped \/ Sleep \/ ReadFinal
  BY <1>0, <1>1 DEF CheckStop, ReadDropped, Sleep, ReadFinal
<1>2. CASE Pop
  <2>1. CASE queue = <<>>
    BY <1>0, <1>2, <2>1 DEF Pop
  <2>2. CASE queue # <<>>
    <3>1. queue' = Tail(queue) /\ wpc = "pop" /\ wpc' = "feed" /\ UNCHANGED host
      BY <1>2, <2>2 DEF Pop
    <3>2. Len(Tail(queue)) = Len(queue) - 1 /\ Len(queue) > 0
      BY <1>0, <2>2
    <3> QED BY <1>0, <3>1, <3>2
  <2> QED BY <2>1, <2>2
<1>3. CASE Feed \/ PushEvent
  <2>1. /\ UNCHANGED <<queue, host>>
        /\ \/ wpc = "feed" /\ wpc' \in {"push", "pop"}
           \/ wpc = "push" /\ wpc' = "pop"
    BY <1>3 DEF Feed, PushEvent
  <2> QED BY <1>0, <2>1
<1>4. CASE Unsubscribe \/ Unsubscribed \/ CloseEngine \/ FreeLibrary
  BY <1>0, <1>4 DEF Unsubscribe, Unsubscribed, CloseEngine, FreeLibrary
<1>5. CASE DeleteObserver
  <2>1. queue' = <<>> /\ wpc = "delete" /\ wpc' = "free_library" /\ UNCHANGED host
    BY <1>5 DEF DeleteObserver
  <2>2. Len(queue') = 0
    BY <2>1
  <2> QED BY <1>0, <2>1, <2>2
<1> QED BY <1>1, <1>2, <1>3, <1>4, <1>5 DEF Worker, Teardown

\* What a callback that begins, pushes and counts, a step of the worker and the
\* join each take from the sum.
LEMMA SumBegins ==
  ASSUME NEW e \in Nat, NEW a \in Nat, NEW b \in Nat, NEW q \in Nat, NEW w \in Nat, NEW j \in Nat,
         NEW e1, NEW a1, e1 = e - 1, a1 = a + 1
  PROVE  StopSum(e1, a1, b, q, w, j) < StopSum(e, a, b, q, w, j)
BY DEF StopSum

LEMMA SumPushes ==
  ASSUME NEW e \in Nat, NEW a \in Nat, NEW b \in Nat, NEW q \in Nat, NEW w \in Nat, NEW j \in Nat,
         NEW a1, NEW b1, NEW q1 \in Nat, a1 = a - 1, b1 = b + 1, q1 <= q + 1
  PROVE  StopSum(e, a1, b1, q1, w, j) < StopSum(e, a, b, q, w, j)
BY DEF StopSum

LEMMA SumCounts ==
  ASSUME NEW e \in Nat, NEW a \in Nat, NEW b \in Nat, NEW q \in Nat, NEW w \in Nat, NEW j \in Nat,
         NEW b1, b1 = b - 1
  PROVE  StopSum(e, a, b1, q, w, j) < StopSum(e, a, b, q, w, j)
BY DEF StopSum

LEMMA SumWorks ==
  ASSUME NEW e \in Nat, NEW a \in Nat, NEW b \in Nat, NEW q \in Nat, NEW w \in Nat, NEW j \in Nat,
         NEW q1 \in Nat, NEW w1 \in Nat, 3 * q1 + w1 < 3 * q + w
  PROVE  StopSum(e, a, b, q1, w1, j) < StopSum(e, a, b, q, w, j)
BY DEF StopSum

LEMMA SumJoins ==
  ASSUME NEW e \in Nat, NEW a \in Nat, NEW b \in Nat, NEW q \in Nat, NEW w \in Nat
  PROVE  StopSum(e, a, b, q, w, 0) < StopSum(e, a, b, q, w, 1)
BY DEF StopSum

LEMMA SumBounded ==
  ASSUME NEW e \in Nat, NEW a \in Nat, NEW b \in Nat, NEW q \in Nat, NEW w \in Nat, NEW j \in Nat,
         NEW m \in Nat, NEW n \in Nat, NEW k \in Nat,
         e + a <= m, b <= n, q <= k, w <= 12, j <= 1
  PROVE  StopSum(e, a, b, q, w, j) \in 0..(6 * m + n + 3 * k + 13)
BY DEF StopSum

LEMMA StopStep ==
  ASSUME TypeOK, Resources, WithinEvents, Next, vars' # vars
  PROVE  StopShrinks
<1> SUFFICES ASSUME ~Endless, host = "stopping" PROVE StopLeft' < StopLeft
  BY DEF StopShrinks
<1>0. /\ EventsLeft \in Nat /\ Cardinality(Copied) \in Nat /\ Cardinality(Counting) \in Nat
      /\ Len(queue) \in Nat /\ WorkerLeft(wpc) \in Nat /\ JoinLeft \in Nat /\ JoinLeft = 1
  <2>1. EventsLeft \in Nat
    BY ThreadCounts, CapacityAssumption DEF EventsLeft, WithinEvents, TypeOK
  <2>2. WorkerLeft(wpc) \in Nat
    BY WorkerLeftType
  <2> QED BY <2>1, <2>2, ThreadCounts DEF TypeOK, JoinLeft
<1>1. ASSUME NEW c \in Callbacks, BeginCallback(c) PROVE StopLeft' < StopLeft
  <2>1. UNCHANGED <<queue, wpc, host>>
    BY <1>1 DEF BeginCallback, queueVars, workerVars, hostVars
  <2>2. JoinLeft' = JoinLeft
    BY <2>1 DEF JoinLeft
  <2>3. /\ EventsLeft' = EventsLeft - 1 /\ EventsLeft > 0 /\ Counting' = Counting
        /\ Cardinality(Copied') = Cardinality(Copied) + 1
    BY <1>1, BeginMoves
  <2>4. StopLeft' = StopSum(EventsLeft', Cardinality(Copied'), Cardinality(Counting), Len(queue),
                            WorkerLeft(wpc), JoinLeft)
    BY <2>1, <2>2, <2>3 DEF StopLeft
  <2> QED BY ONLY <1>0, <2>3, <2>4, SumBegins DEF StopLeft
<1>2. ASSUME NEW c \in Callbacks, PushSnapshot(c) PROVE StopLeft' < StopLeft
  <2>1. UNCHANGED <<wpc, host>>
    BY <1>2 DEF PushSnapshot, workerVars, hostVars
  <2>2. JoinLeft' = JoinLeft
    BY <2>1 DEF JoinLeft
  <2>3. /\ EventsLeft' = EventsLeft /\ Len(queue') <= Len(queue) + 1 /\ Len(queue') \in Nat
        /\ Cardinality(Copied') = Cardinality(Copied) - 1
        /\ Cardinality(Counting') = Cardinality(Counting) + 1
    BY <1>2, PushMoves
  <2>4. StopLeft' = StopSum(EventsLeft, Cardinality(Copied'), Cardinality(Counting'), Len(queue'),
                            WorkerLeft(wpc), JoinLeft)
    BY <2>1, <2>2, <2>3 DEF StopLeft
  <2> QED BY ONLY <1>0, <2>3, <2>4, SumPushes DEF StopLeft
<1>3. ASSUME NEW c \in Callbacks, CountEvent(c) PROVE StopLeft' < StopLeft
  <2>1. UNCHANGED <<wpc, host>>
    BY <1>3 DEF CountEvent, workerVars, hostVars
  <2>2. JoinLeft' = JoinLeft
    BY <2>1 DEF JoinLeft
  <2>3. /\ EventsLeft' = EventsLeft /\ Copied' = Copied /\ UNCHANGED queue
        /\ Cardinality(Counting') = Cardinality(Counting) - 1
    BY <1>3, CountMoves
  <2>4. StopLeft' = StopSum(EventsLeft, Cardinality(Copied), Cardinality(Counting'), Len(queue),
                            WorkerLeft(wpc), JoinLeft)
    BY <2>1, <2>2, <2>3 DEF StopLeft
  <2> QED BY ONLY <1>0, <2>3, <2>4, SumCounts DEF StopLeft
<1>4. CASE Worker /\ \A c \in Callbacks : ~BeginCallback(c) /\ ~PushSnapshot(c) /\ ~CountEvent(c)
  <2>1. UNCHANGED <<cb, accepted>>
    BY <1>4, OthersQuiet
  <2>2. EventsLeft' = EventsLeft /\ Copied' = Copied /\ Counting' = Counting
    BY <2>1 DEF EventsLeft, Copied, Counting
  <2>3. /\ 3 * Len(queue') + WorkerLeft(wpc') < 3 * Len(queue) + WorkerLeft(wpc)
        /\ Len(queue') \in Nat /\ UNCHANGED host
    BY <1>4, WorkerShrinks
  <2>4. JoinLeft' = JoinLeft /\ WorkerLeft(wpc') \in Nat
    BY <2>3, WorkerLeftType DEF JoinLeft
  <2>5. StopLeft' = StopSum(EventsLeft, Cardinality(Copied), Cardinality(Counting), Len(queue'),
                            WorkerLeft(wpc'), JoinLeft)
    BY <2>2, <2>4 DEF StopLeft
  <2> QED BY ONLY <1>0, <2>3, <2>4, <2>5, SumWorks DEF StopLeft
<1>5. CASE Joined
  <2>1. UNCHANGED <<queue, wpc, cb, accepted>> /\ host' = "stopped"
    BY <1>5 DEF Joined, queueVars, workerVars
  <2>2. EventsLeft' = EventsLeft /\ Copied' = Copied /\ Counting' = Counting /\ JoinLeft' = 0
    BY <2>1 DEF EventsLeft, Copied, Counting, JoinLeft
  <2>3. StopLeft' = StopSum(EventsLeft, Cardinality(Copied), Cardinality(Counting), Len(queue),
                            WorkerLeft(wpc), 0)
    BY <2>1, <2>2 DEF StopLeft
  <2> QED BY ONLY <1>0, <2>3, SumJoins DEF StopLeft
<1>6. ~Start /\ ~SpawnFailed /\ ~Stop /\ (\A n : ~Take(n)) /\ ~Terminated
  BY DEF Start, StartCall, LoadLibrary, FindSymbols, OpenEngine, Subscribe, Spawn, SpawnFailed,
         Stop, Take, Terminated
<1> QED BY <1>1, <1>2, <1>3, <1>4, <1>5, <1>6 DEF Next, Poll, Drain, Callback

\* After flydpi_runtime_stop is called each step of a callback thread, of the
\* worker or of the host brings its return nearer, and the steps left are
\* bounded by what WFP still reports, the threads it does so on and the queue's
\* capacity.  The bound needs an end of the reports: IngestWorker reads the stop
\* flag only when it has found the queue empty.
THEOREM StopCorrect == Spec => []StopWithin /\ [][StopShrinks]_vars
<1>1. Init => WithinEvents
  <2> SUFFICES ASSUME Init PROVE EventsLeft >= 0
    BY DEF WithinEvents
  <2>1. Copied = {}
    BY DEF Init, Copied
  <2> QED BY <2>1, FS_EmptySet, CapacityAssumption DEF Init, EventsLeft
<1>2. TypeOK /\ WithinEvents /\ [Next]_vars => WithinEvents'
  BY EventsStep
<1>3. TypeOK /\ WithinEvents => StopWithin
  <2> SUFFICES ASSUME TypeOK, ~Endless, EventsLeft >= 0
               PROVE  StopLeft \in 0..StopAllowed
    BY DEF WithinEvents, StopWithin
  <2>1. /\ EventsLeft \in Nat /\ EventsLeft + Cardinality(Copied) <= EventMax
    BY ThreadCounts, CapacityAssumption DEF EventsLeft, TypeOK
  <2>2. Len(queue) \in Nat /\ Len(queue) <= QueueCapacity /\ JoinLeft \in 0..1
    BY DEF TypeOK, JoinLeft
  <2>3. WorkerLeft(wpc) \in 0..12
    BY WorkerLeftType
  <2>4. /\ WorkerLeft(wpc) \in Nat /\ WorkerLeft(wpc) <= 12 /\ JoinLeft \in Nat /\ JoinLeft <= 1
        /\ EventMax \in Nat /\ QueueCapacity \in Nat
    BY <2>2, <2>3, CapacityAssumption
  <2> QED BY ONLY <2>1, <2>2, <2>4, ThreadCounts, SumBounded DEF StopLeft, StopAllowed
<1>4. TypeOK /\ Resources /\ WithinEvents /\ [Next]_vars => [StopShrinks]_vars
  BY StopStep
<1> QED BY <1>1, <1>2, <1>3, <1>4, TypeCorrect, ResourcesCorrect, PTL DEF Spec
==============================================================================

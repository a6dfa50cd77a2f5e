-------------------------- MODULE OrchestratorProofs --------------------------
(***************************************************************************)
(* The safety of the orchestrator for every number of connections,         *)
(* requests and events and for all batch limits, and of the diagnostic     *)
(* engine it runs for every number of targets, workers and endpoints.      *)
(***************************************************************************)
EXTENDS Orchestrator, Diagnostic, FiniteSetTheorems, TLAPS

\* Who may be where while the mutex is held: a goroutine polls only with the
\* mutex and an open runtime, main stops the runtime only with both, and once
\* main has exited no goroutine runs.
Locking ==
  /\ \A c \in Conns : pc[c] = "polling" => mu = c /\ rt = "open"
  /\ main = "stopping" => mu = "main" /\ rt = "open"
  /\ mu = "main" => main = "stopping"
  /\ rt = "open" <=> native = "running"
  /\ main \in {"start", "listen"} => \A c \in Conns : pc[c] = "none"
  /\ main = "exited" => \A c \in Conns : pc[c] \in {"none", "gone", "killed"}

\* What main has made of the runtime: it opens it once or not at all.
Opening ==
  /\ main = "start" => rt = "nil" /\ ~err
  /\ err => rt = "nil"

\* A request takes events only between its start and its end, and the events of
\* the request that is polling are the last ones taken.
BeforePolling == {"running", "want_events"}
Taking ==
  /\ \A i \in 1..Len(owner) : owner[i][2] <= requests[owner[i][1]]
  /\ \A c \in Conns : pc[c] \in BeforePolling =>
        \A i \in 1..Len(owner) : owner[i] # RequestId(c)
  /\ \A c \in Conns : pc[c] = "polling" =>
        \A i, j \in 1..Len(owner) : i < j /\ owner[i] = RequestId(c) => owner[j] = RequestId(c)

\* What a diagnostic has found before it asks whether there is a runtime.
BeforeStage == {"running", "want_events", "polling", "want_enabled"}
Staging ==
  /\ \A c \in Conns : pc[c] \in BeforeStage => stage[c] = "ok"
  /\ \A c \in Conns : pc[c] \in {"none", "want_enabled"} => batch[c] = <<>>
  /\ \A c \in Conns : pc[c] \in {"status_enabled", "status_error"} => method[c] = "status.get"
  /\ \A c \in Conns : stage[c] = "failed" => rt = "nil" /\ batch[c] = <<>> /\ main # "start"
  /\ \A c \in Conns : err => batch[c] = <<>>

Uncut == Taking /\ BatchesContiguous
Staged == Staging /\ StageTellsRuntime

IInv == TypeOK /\ Locking /\ Opening /\ Uncut /\ Staged

\* A request that has its events goes on to one of three states.
LEMMA AfterEventsStates ==
  ASSUME NEW c \in Conns
  PROVE  AfterEvents(c) \in {"respond", "want_enabled", "add_history"}
BY DEF AfterEvents

\* A step of the pipeline keeps what LossyFifo says of its variables, and a
\* delivery hands out an event that was in transit.
LEMMA FifoTypes ==
  ASSUME Fifo!TypeInvariant
  PROVE  /\ Fifo!Accept => Fifo!TypeInvariant' /\ sent' = sent + 1
         /\ Fifo!Lose => Fifo!TypeInvariant' /\ sent' = sent
         /\ Fifo!Deliver => Fifo!TypeInvariant' /\ sent' = sent /\ last' \in 1..sent
<1> USE DEF Fifo!TypeInvariant
<1>1. ASSUME Fifo!Accept PROVE Fifo!TypeInvariant' /\ sent' = sent + 1
  <2>1. PICK lost \in SUBSET transit : transit' = (transit \ lost) \cup {sent'}
    BY <1>1 DEF Fifo!Accept
  <2>2. sent' = sent + 1 /\ last' = last
    BY <1>1 DEF Fifo!Accept
  <2> QED BY <2>1, <2>2
<1>2. ASSUME Fifo!Lose PROVE Fifo!TypeInvariant' /\ sent' = sent
  BY <1>2 DEF Fifo!Lose
<1>3. ASSUME Fifo!Deliver PROVE Fifo!TypeInvariant' /\ sent' = sent /\ last' \in 1..sent
  <2>1. PICK taken \in SUBSET transit : last' \in taken /\ transit' = transit \ taken
    BY <1>3 DEF Fifo!Deliver
  <2> QED BY <1>3, <2>1 DEF Fifo!Deliver
<1> QED BY <1>1, <1>2, <1>3

\* One step keeps the types.
LEMMA TypeStep == TypeOK /\ Locking /\ [Next]_vars => TypeOK'
<1> SUFFICES ASSUME TypeOK, Locking, [Next]_vars PROVE TypeOK'
  OBVIOUS
<1> USE DEF TypeOK, MainStates, ConnStates, Methods, fifoVars, mgrVars, mainVars, connVars
<1>1. CASE NewManager
  BY <1>1 DEF NewManager, OpenRuntime, NoRuntime, Fifo!TypeInvariant
<1>2. CASE Listen
  BY <1>2 DEF Listen, ListenLoopFails, Fifo!TypeInvariant
<1>3. CASE Signal
  BY <1>3 DEF Signal, Fifo!TypeInvariant
<1>4. CASE AcceptTimeout
  BY <1>4 DEF AcceptTimeout, ListenLoopFails, Fifo!TypeInvariant
<1>5. CASE AcceptError
  BY <1>5 DEF AcceptError, ListenLoopFails, Fifo!TypeInvariant
<1>6. CASE Close
  BY <1>6 DEF Close, Exit, Fifo!TypeInvariant
<1>7. CASE Stopped
  <2>1. Fifo!TypeInvariant'
    BY <1>7 DEF Stopped, Fifo!TypeInvariant
  <2> QED BY <1>7, <2>1 DEF Stopped, Exit
<1>8. CASE Observe
  <2>1. Fifo!TypeInvariant' /\ sent' <= MaxEvents
    BY <1>8, FifoTypes, OrchestratorAssumption DEF Observe, Fifo!TypeInvariant
  <2> QED BY <1>8, <2>1 DEF Observe
<1>9. ASSUME NEW c \in Conns, Accept(c) PROVE TypeOK'
  BY <1>9 DEF Accept, Goto, Fifo!TypeInvariant
<1>10. ASSUME NEW c \in Conns, Receive(c) PROVE TypeOK'
  <2>1. PICK m \in Methods :
           /\ method' = [method EXCEPT ![c] = m]
           /\ Goto(c, CASE m = "status.get"     -> "status_enabled"
                        [] m = "telemetry.poll" -> "want_events"
                        [] m = "diagnostic.run" -> "running")
           /\ seq' = IF m = "diagnostic.run" THEN seq + 1 ELSE seq
    BY <1>10 DEF Receive
  <2>2. method' \in [Conns -> Methods \cup {"none"}] /\ seq' \in Nat
    BY <2>1
  <2>3. pc' \in [Conns -> ConnStates]
    BY <2>1 DEF Goto
  <2>4. requests' \in [Conns -> Nat] /\ \A d \in Conns : requests'[d] <= MaxRequests[d]
    <3>1. requests[c] < MaxRequests[c] /\ requests' = [requests EXCEPT ![c] = requests[c] + 1]
      BY <1>10 DEF Receive
    <3>2. requests \in [Conns -> Nat] /\ \A d \in Conns : requests[d] <= MaxRequests[d]
      OBVIOUS
    <3> QED BY ONLY <3>1, <3>2, OrchestratorAssumption
  <2>5. \A d \in Conns : method'[d] = method[d] \/ d = c
    BY <2>1
  <2>6. /\ DOMAIN batch' = Conns
        /\ \A d \in Conns :
              /\ batch'[d] \in Seq(1..MaxEvents)
              /\ Len(batch'[d]) <= IF method'[d] = "telemetry.poll" THEN TelemetryLimit
                                                                   ELSE DiagnosticLimit
    <3>1. batch' = [batch EXCEPT ![c] = <<>>]
      BY <1>10 DEF Receive
    <3>0. DOMAIN batch = Conns
      OBVIOUS
    <3>2. \A d \in Conns : batch'[d] = IF d = c THEN <<>> ELSE batch[d]
      BY ONLY <3>1, <3>0
    <3>3. <<>> \in Seq(1..MaxEvents) /\ Len(<<>>) = 0
      OBVIOUS
    <3>4. \A d \in Conns : Len(batch[d]) <= IF method[d] = "telemetry.poll" THEN TelemetryLimit
                                                                           ELSE DiagnosticLimit
      OBVIOUS
    <3>5. \A d \in Conns : batch[d] \in Seq(1..MaxEvents)
      OBVIOUS
    <3>6. TelemetryLimit \in Nat /\ DiagnosticLimit \in Nat
      BY OrchestratorAssumption
    <3>7. DOMAIN batch' = Conns
      BY ONLY <3>0, <3>1
    <3>8. ASSUME NEW d \in Conns
          PROVE  /\ batch'[d] \in Seq(1..MaxEvents)
                 /\ Len(batch'[d]) <= IF method'[d] = "telemetry.poll" THEN TelemetryLimit
                                                                      ELSE DiagnosticLimit
      <4>1. CASE d = c
        <5>1. batch'[d] = <<>>
          BY <3>2, <4>1
        <5>2. Len(batch'[d]) = 0 /\ 0 <= TelemetryLimit /\ 0 <= DiagnosticLimit
          BY ONLY <3>6, <5>1
        <5> QED BY ONLY <3>3, <5>1, <5>2
      <4>2. CASE d # c
        BY ONLY <2>5, <3>2, <3>4, <3>5, <4>2, d \in Conns
      <4> QED BY <4>1, <4>2
    <3> QED BY ONLY <3>7, <3>8
  <2> QED BY <1>10, <2>2, <2>3, <2>4, <2>6 DEF Receive, Fifo!TypeInvariant
<1>11. ASSUME NEW c \in Conns, Disconnect(c) PROVE TypeOK'
  BY <1>11 DEF Disconnect, Goto, Fifo!TypeInvariant
<1>12. ASSUME NEW c \in Conns, RunEngine(c) PROVE TypeOK'
  BY <1>12 DEF RunEngine, Goto, Fifo!TypeInvariant
<1>13. ASSUME NEW c \in Conns, LockEvents(c) PROVE TypeOK'
  BY <1>13, AfterEventsStates DEF LockEvents, Goto, Fifo!TypeInvariant
<1>14. ASSUME NEW c \in Conns, PollOne(c) PROVE TypeOK'
  <2>1. Fifo!TypeInvariant' /\ sent' = sent /\ last' \in 1..sent
    BY <1>14, FifoTypes DEF PollOne
  <2>2. last' \in 1..MaxEvents
    BY <2>1, OrchestratorAssumption DEF Fifo!TypeInvariant
  <2>3. Append(batch[c], last') \in Seq(1..MaxEvents)
        /\ Len(Append(batch[c], last')) <= Limit(c)
    BY <1>14, <2>2, OrchestratorAssumption DEF PollOne, Limit
  <2>4. batch' = [batch EXCEPT ![c] = Append(batch[c], last')] /\ UNCHANGED method
    BY <1>14 DEF PollOne
  <2>5. \A d \in Conns :
              /\ batch'[d] \in Seq(1..MaxEvents)
              /\ Len(batch'[d]) <= IF method'[d] = "telemetry.poll" THEN TelemetryLimit
                                                                   ELSE DiagnosticLimit
    BY <2>3, <2>4 DEF Limit
  <2>6. RequestId(c) \in Conns \X Nat
    BY DEF RequestId
  <2>7. owner' \in Seq(Conns \X Nat)
    BY <1>14, <2>6 DEF PollOne
  <2> QED BY <1>14, <2>1, <2>4, <2>5, <2>7 DEF PollOne
<1>15. ASSUME NEW c \in Conns, PollEnd(c) PROVE TypeOK'
  BY <1>15, AfterEventsStates DEF PollEnd, Goto, Fifo!TypeInvariant
<1>16. ASSUME NEW c \in Conns, CheckEnabled(c) PROVE TypeOK'
  BY <1>16 DEF CheckEnabled, Goto, Fifo!TypeInvariant
<1>17. ASSUME NEW c \in Conns, AddHistory(c) PROVE TypeOK'
  BY <1>17 DEF AddHistory, Goto, Fifo!TypeInvariant
<1>18. ASSUME NEW c \in Conns, Status(c) PROVE TypeOK'
  BY <1>18 DEF Status, Goto, Fifo!TypeInvariant
<1>19. ASSUME NEW c \in Conns, Respond(c) PROVE TypeOK'
  BY <1>19 DEF Respond, Goto, Fifo!TypeInvariant
<1>20. CASE UNCHANGED vars
  BY <1>20 DEF vars, Fifo!TypeInvariant
<1>21. CASE LogFatal
  BY <1>21 DEF LogFatal, Exit, Fifo!TypeInvariant
<1> QED
  BY <1>1, <1>2, <1>3, <1>4, <1>5, <1>6, <1>7, <1>8, <1>9, <1>10,
     <1>11, <1>12, <1>13, <1>14, <1>15, <1>16, <1>17, <1>18, <1>19, <1>20, <1>21
  DEF Next, Conn, Terminated

\* One step keeps the mutex in the right hands.
LEMMA LockingStep == TypeOK /\ Locking /\ [Next]_vars => Locking'
<1> SUFFICES ASSUME TypeOK, Locking, [Next]_vars PROVE Locking'
  OBVIOUS
<1>0. pc \in [Conns -> ConnStates] /\ mu \in Conns \cup {"main", "free"}
  BY DEF TypeOK
<1>a. "main" \notin Conns /\ "free" \notin Conns
  BY OrchestratorAssumption
<1> USE DEF Locking, fifoVars, mgrVars, mainVars, connVars
<1>1. CASE NewManager
  BY <1>1, <1>0, <1>a DEF NewManager, OpenRuntime, NoRuntime
<1>2. CASE Listen
  BY <1>2, <1>0, <1>a DEF Listen, ListenLoopFails
<1>3. CASE Signal
  BY <1>3, <1>0, <1>a DEF Signal
<1>4. CASE AcceptTimeout
  BY <1>4, <1>0, <1>a DEF AcceptTimeout, ListenLoopFails
<1>5. CASE AcceptError
  BY <1>5, <1>0, <1>a DEF AcceptError, ListenLoopFails
<1>6. CASE Close
  <2>1. CASE rt = "open"
    BY <1>0, <1>a, <1>6, <2>1 DEF Close
  <2>2. CASE rt # "open"
    BY <1>0, <1>a, <1>6, <2>2 DEF Close, Exit
  <2> QED BY <2>1, <2>2
<1>7. CASE Stopped
  BY <1>7, <1>0, <1>a DEF Stopped, Exit
<1>8. CASE Observe
  BY <1>8, <1>0, <1>a DEF Observe
<1>9. ASSUME NEW c \in Conns, Accept(c) PROVE Locking'
  BY <1>9, <1>0, <1>a DEF Accept, Goto
<1>10. ASSUME NEW c \in Conns, Receive(c) PROVE Locking'
  BY <1>10, <1>0, <1>a DEF Receive, Goto, Methods
<1>11. ASSUME NEW c \in Conns, Disconnect(c) PROVE Locking'
  BY <1>11, <1>0, <1>a DEF Disconnect, Goto
<1>12. ASSUME NEW c \in Conns, RunEngine(c) PROVE Locking'
  BY <1>12, <1>0, <1>a DEF RunEngine, Goto
<1>13. ASSUME NEW c \in Conns, LockEvents(c) PROVE Locking'
  <2>1. CASE rt = "open"
    BY <1>0, <1>a, <1>13, <2>1 DEF LockEvents, Goto
  <2>2. CASE rt # "open"
    BY <1>0, <1>a, <1>13, <2>2, AfterEventsStates DEF LockEvents, Goto
  <2> QED BY <2>1, <2>2
<1>14. ASSUME NEW c \in Conns, PollOne(c) PROVE Locking'
  BY <1>14, <1>0, <1>a DEF PollOne
<1>15. ASSUME NEW c \in Conns, PollEnd(c) PROVE Locking'
  BY <1>0, <1>a, <1>15, AfterEventsStates DEF PollEnd, Goto
<1>16. ASSUME NEW c \in Conns, CheckEnabled(c) PROVE Locking'
  BY <1>16, <1>0, <1>a DEF CheckEnabled, Goto
<1>17. ASSUME NEW c \in Conns, AddHistory(c) PROVE Locking'
  BY <1>17, <1>0, <1>a DEF AddHistory, Goto
<1>18. ASSUME NEW c \in Conns, Status(c) PROVE Locking'
  <2>1. \E s \in {"status_error", "respond"} : Goto(c, s)
    BY <1>18 DEF Status
  <2>2. pc[c] \in {"status_enabled", "status_error"}
    BY <1>18 DEF Status
  <2> QED BY <1>0, <1>a, <1>18, <2>1, <2>2 DEF Status, Goto
<1>19. ASSUME NEW c \in Conns, Respond(c) PROVE Locking'
  BY <1>19, <1>0, <1>a DEF Respond, Goto
<1>20. CASE UNCHANGED vars
  BY <1>20, <1>0, <1>a DEF vars
<1>21. CASE LogFatal
  BY <1>21, <1>0, <1>a DEF LogFatal, Exit
<1> QED
  BY <1>1, <1>2, <1>3, <1>4, <1>5, <1>6, <1>7, <1>8, <1>9, <1>10,
     <1>11, <1>12, <1>13, <1>14, <1>15, <1>16, <1>17, <1>18, <1>19, <1>20, <1>21
  DEF Next, Conn, Terminated

\* One step keeps what main has made of the runtime.
LEMMA OpeningStep == TypeOK /\ Locking /\ Opening /\ [Next]_vars => Opening'
<1> SUFFICES ASSUME TypeOK, Locking, Opening, [Next]_vars PROVE Opening'
  OBVIOUS
<1> USE DEF Locking, Opening, fifoVars, mgrVars, mainVars, connVars
<1>1. CASE NewManager
  BY <1>1 DEF NewManager, OpenRuntime, NoRuntime
<1>2. CASE Listen
  BY <1>2 DEF Listen, ListenLoopFails
<1>3. CASE Signal
  BY <1>3 DEF Signal
<1>4. CASE AcceptTimeout
  BY <1>4 DEF AcceptTimeout, ListenLoopFails
<1>5. CASE AcceptError
  BY <1>5 DEF AcceptError, ListenLoopFails
<1>6. CASE Close
  BY <1>6 DEF Close, Exit
<1>7. CASE Stopped
  BY <1>7 DEF Stopped, Exit
<1>8. CASE Observe
  BY <1>8 DEF Observe
<1>9. ASSUME NEW c \in Conns, Accept(c) PROVE Opening'
  BY <1>9 DEF Accept, Goto
<1>10. ASSUME NEW c \in Conns, Receive(c) PROVE Opening'
  BY <1>10 DEF Receive, Goto, Methods
<1>11. ASSUME NEW c \in Conns, Disconnect(c) PROVE Opening'
  BY <1>11 DEF Disconnect, Goto
<1>12. ASSUME NEW c \in Conns, RunEngine(c) PROVE Opening'
  BY <1>12 DEF RunEngine, Goto
<1>13. ASSUME NEW c \in Conns, LockEvents(c) PROVE Opening'
  BY <1>13 DEF LockEvents, Goto
<1>14. ASSUME NEW c \in Conns, PollOne(c) PROVE Opening'
  BY <1>14 DEF PollOne
<1>15. ASSUME NEW c \in Conns, PollEnd(c) PROVE Opening'
  BY <1>15 DEF PollEnd, Goto
<1>16. ASSUME NEW c \in Conns, CheckEnabled(c) PROVE Opening'
  BY <1>16 DEF CheckEnabled, Goto
<1>17. ASSUME NEW c \in Conns, AddHistory(c) PROVE Opening'
  BY <1>17 DEF AddHistory, Goto
<1>18. ASSUME NEW c \in Conns, Status(c) PROVE Opening'
  BY <1>18 DEF Status, Goto
<1>19. ASSUME NEW c \in Conns, Respond(c) PROVE Opening'
  BY <1>19 DEF Respond, Goto
<1>20. CASE UNCHANGED vars
  BY <1>20 DEF vars
<1>21. CASE LogFatal
  BY <1>21 DEF LogFatal, Exit
<1> QED
  BY <1>1, <1>2, <1>3, <1>4, <1>5, <1>6, <1>7, <1>8, <1>9, <1>10,
     <1>11, <1>12, <1>13, <1>14, <1>15, <1>16, <1>17, <1>18, <1>19, <1>20, <1>21
  DEF Next, Conn, Terminated

\* One step keeps the batches whole.  Only the steps that start a request, take
\* the mutex for it or poll touch what Taking says.
LEMMA UncutStep == TypeOK /\ Locking /\ Uncut /\ [Next]_vars => Uncut'
<1> SUFFICES ASSUME TypeOK, Locking, Uncut, [Next]_vars PROVE Uncut'
  OBVIOUS
<1>0. pc \in [Conns -> ConnStates]
  BY DEF TypeOK
<1>1. owner \in Seq(Conns \X Nat) /\ requests \in [Conns -> Nat]
  BY DEF TypeOK
<1>2. Taking /\ BatchesContiguous
  BY DEF Uncut
<1>3. ASSUME UNCHANGED <<owner, requests>>,
             \A c \in Conns : pc'[c] \in BeforePolling => pc[c] \in BeforePolling,
             \A c \in Conns : pc'[c] = "polling" => pc[c] \in BeforePolling \cup {"polling"}
      PROVE  Uncut'
  <2>1. BatchesContiguous'
    BY <1>2, <1>3 DEF BatchesContiguous
  <2>2. Taking'
    BY <1>2, <1>3 DEF Taking, RequestId
  <2> QED BY <2>1, <2>2 DEF Uncut
<1> USE DEF fifoVars, mgrVars, mainVars, connVars
<1>4. CASE NewManager
  BY <1>4, <1>0, <1>3 DEF NewManager, OpenRuntime, NoRuntime, BeforePolling
<1>5. CASE Listen
  BY <1>5, <1>0, <1>3 DEF Listen, ListenLoopFails, BeforePolling
<1>6. CASE Signal
  BY <1>6, <1>0, <1>3 DEF Signal, BeforePolling
<1>7. CASE AcceptTimeout
  BY <1>7, <1>0, <1>3 DEF AcceptTimeout, ListenLoopFails, BeforePolling
<1>8. CASE AcceptError
  BY <1>8, <1>0, <1>3 DEF AcceptError, ListenLoopFails, BeforePolling
<1>9. CASE Close
  BY <1>9, <1>0, <1>3 DEF Close, Exit, BeforePolling
<1>10. CASE Stopped
  BY <1>10, <1>0, <1>3 DEF Stopped, Exit, BeforePolling
<1>11. CASE Observe
  BY <1>11, <1>0, <1>3 DEF Observe, BeforePolling
<1>12. ASSUME NEW c \in Conns, Accept(c) PROVE Uncut'
  BY <1>12, <1>0, <1>3 DEF Accept, Goto, BeforePolling
<1>13. ASSUME NEW c \in Conns, Receive(c) PROVE Uncut'
  <2>1. UNCHANGED owner /\ requests' = [requests EXCEPT ![c] = requests[c] + 1]
    BY <1>13 DEF Receive
  <2>2. \A d \in Conns : d # c => pc'[d] = pc[d]
    BY <1>0, <1>13 DEF Receive, Goto
  <2>3. pc'[c] # "polling"
    BY <1>0, <1>13 DEF Receive, Goto, Methods
  <2>4. \A i \in 1..Len(owner) : owner[i] \in Conns \X Nat /\ owner[i][2] <= requests[owner[i][1]]
    BY <1>1, <1>2 DEF Taking
  <2>5. \A i \in 1..Len(owner) : owner[i][2] <= requests'[owner[i][1]]
    BY <1>1, <2>1, <2>4
  <2>6. \A i \in 1..Len(owner) : owner[i] # RequestId(c)'
    BY <1>1, <2>1, <2>4 DEF RequestId
  <2>7. \A d \in Conns : d # c => RequestId(d)' = RequestId(d)
    BY <1>1, <2>1 DEF RequestId
  <2>8. Taking'
    BY <1>2, <2>1, <2>2, <2>3, <2>5, <2>6, <2>7 DEF Taking
  <2>9. BatchesContiguous'
    BY <1>2, <2>1 DEF BatchesContiguous
  <2> QED BY <2>8, <2>9 DEF Uncut
<1>14. ASSUME NEW c \in Conns, Disconnect(c) PROVE Uncut'
  BY <1>14, <1>0, <1>3 DEF Disconnect, Goto, BeforePolling
<1>15. ASSUME NEW c \in Conns, RunEngine(c) PROVE Uncut'
  BY <1>15, <1>0, <1>3 DEF RunEngine, Goto, BeforePolling
<1>16. ASSUME NEW c \in Conns, LockEvents(c) PROVE Uncut'
  BY <1>0, <1>3, <1>16, AfterEventsStates DEF LockEvents, Goto, BeforePolling
<1>17. ASSUME NEW c \in Conns, PollOne(c) PROVE Uncut'
  <2>1. UNCHANGED <<pc, requests>> /\ owner' = Append(owner, RequestId(c)) /\ pc[c] = "polling"
    BY <1>17 DEF PollOne
  <2>2. RequestId(c) \in Conns \X Nat /\ RequestId(c)[1] = c /\ RequestId(c)[2] = requests[c]
    BY <1>1 DEF RequestId
  <2>3. /\ Len(owner') = Len(owner) + 1
        /\ \A i \in 1..Len(owner) : owner'[i] = owner[i]
        /\ owner'[Len(owner) + 1] = RequestId(c)
    BY <1>1, <2>1, <2>2
  <2>4. \A d \in Conns : pc[d] = "polling" => d = c
    BY <2>1 DEF Locking
  <2>5. \A d \in Conns : RequestId(d)' = RequestId(d) /\ (RequestId(d) = RequestId(c) => d = c)
    BY <2>1 DEF RequestId
  <2>6. \A i, j \in 1..Len(owner) : i < j /\ owner[i] = RequestId(c) => owner[j] = RequestId(c)
    BY <1>2, <2>1 DEF Taking
  <2>7. Taking'
    <3>1. \A i \in 1..Len(owner') : owner'[i][2] <= requests'[owner'[i][1]]
      BY <1>1, <1>2, <2>1, <2>2, <2>3 DEF Taking
    <3>2. ASSUME NEW d \in Conns, pc'[d] \in BeforePolling, NEW i \in 1..Len(owner')
          PROVE  owner'[i] # RequestId(d)'
      <4>1. d # c
        BY <2>1, <3>2 DEF BeforePolling
      <4>2. CASE i \in 1..Len(owner)
        <5>1. pc[d] \in BeforePolling
          BY <2>1, <3>2
        <5>2. owner[i] # RequestId(d)
          BY <1>2, <4>2, <5>1 DEF Taking
        <5>3. owner'[i] = owner[i]
          BY <2>3, <4>2
        <5> QED BY <2>5, <5>2, <5>3
      <4>3. CASE i = Len(owner) + 1
        <5>1. owner'[i] = RequestId(c)
          BY <2>3, <4>3
        <5>2. RequestId(d) # RequestId(c) /\ RequestId(d)' = RequestId(d)
          BY <2>5, <4>1
        <5> QED BY <5>1, <5>2
      <4> QED BY <1>1, <2>3, <3>2, <4>2, <4>3
    <3>3. ASSUME NEW d \in Conns, pc'[d] = "polling", NEW i \in 1..Len(owner'), NEW j \in 1..Len(owner'),
                 i < j, owner'[i] = RequestId(d)'
          PROVE  owner'[j] = RequestId(d)'
      <4>1. d = c /\ RequestId(c)' = RequestId(c)
        BY <2>1, <2>4, <2>5, <3>3
      <4>2. i \in 1..Len(owner)
        BY <1>1, <2>3, <3>3
      <4>3. CASE j \in 1..Len(owner)
        BY <2>3, <2>6, <3>3, <4>1, <4>2, <4>3
      <4>4. CASE j = Len(owner) + 1
        BY <2>3, <4>1, <4>4
      <4> QED BY <1>1, <2>3, <4>3, <4>4
    <3> QED BY <3>1, <3>2, <3>3 DEF Taking
  <2>8. BatchesContiguous'
    <3> SUFFICES ASSUME NEW i \in 1..Len(owner'), NEW j \in 1..Len(owner'), NEW k \in 1..Len(owner'),
                        i < j, j < k, owner'[i] = owner'[k]
                 PROVE  owner'[j] = owner'[i]
      BY DEF BatchesContiguous
    <3>1. i \in 1..Len(owner) /\ j \in 1..Len(owner)
      BY <1>1, <2>3, SMTT(30)
    <3>2. CASE k = Len(owner) + 1
      BY <2>3, <2>6, <3>1, <3>2
    <3>3. CASE k # Len(owner) + 1
      <4>1. k \in 1..Len(owner)
        BY <1>1, <2>3, <3>3, SMTT(30)
      <4> QED BY <1>2, <2>3, <3>1, <4>1 DEF BatchesContiguous
    <3> QED BY <3>2, <3>3
  <2> QED BY <2>7, <2>8 DEF Uncut
<1>18. ASSUME NEW c \in Conns, PollEnd(c) PROVE Uncut'
  BY <1>0, <1>3, <1>18, AfterEventsStates DEF PollEnd, Goto, BeforePolling
<1>19. ASSUME NEW c \in Conns, CheckEnabled(c) PROVE Uncut'
  BY <1>19, <1>0, <1>3 DEF CheckEnabled, Goto, BeforePolling
<1>20. ASSUME NEW c \in Conns, AddHistory(c) PROVE Uncut'
  BY <1>20, <1>0, <1>3 DEF AddHistory, Goto, BeforePolling
<1>21. ASSUME NEW c \in Conns, Status(c) PROVE Uncut'
  BY <1>21, <1>0, <1>3 DEF Status, Goto, BeforePolling
<1>22. ASSUME NEW c \in Conns, Respond(c) PROVE Uncut'
  BY <1>22, <1>0, <1>3 DEF Respond, Goto, BeforePolling
<1>23. CASE LogFatal
  BY <1>23, <1>0, <1>3 DEF LogFatal, Exit, BeforePolling
<1>24. CASE UNCHANGED vars
  BY <1>24, <1>0, <1>3 DEF vars, BeforePolling
<1> QED
  BY <1>4, <1>5, <1>6, <1>7, <1>8, <1>9, <1>10, <1>11, <1>12, <1>13,
     <1>14, <1>15, <1>16, <1>17, <1>18, <1>19, <1>20, <1>21, <1>22, <1>23, <1>24
  DEF Next, Conn, Terminated

\* One step keeps the stage of a report truthful.
LEMMA StagedStep == TypeOK /\ Locking /\ Opening /\ Staged /\ [Next]_vars => Staged'
<1> SUFFICES ASSUME TypeOK, Locking, Opening, Staged, [Next]_vars PROVE Staged'
  OBVIOUS
<1>0. /\ pc \in [Conns -> ConnStates] /\ method \in [Conns -> Methods \cup {"none"}]
      /\ stage \in [Conns -> {"ok", "failed"}] /\ rt \in {"nil", "open"} /\ DOMAIN batch = Conns
  BY DEF TypeOK
<1>a. /\ err => rt = "nil"
      /\ main = "start" => rt = "nil" /\ ~err /\ \A c \in Conns : pc[c] = "none"
      /\ main = "listen" => \A c \in Conns : pc[c] = "none"
      /\ \A c \in Conns : pc[c] = "polling" => rt = "open"
  BY DEF Opening, Locking
<1> USE DEF Staged, Staging, StageTellsRuntime, BeforeStage, fifoVars, mgrVars, mainVars, connVars
<1>1. CASE NewManager
  <2>1. main = "start" /\ main' = "listen" /\ (err' => rt' = "nil")
    BY <1>1, <1>a DEF NewManager, OpenRuntime, NoRuntime
  <2>2. \A c \in Conns : pc[c] = "none" /\ stage[c] # "failed"
    BY <1>a, <2>1
  <2>3. UNCHANGED connVars
    BY <1>1 DEF NewManager
  <2>4. \A c \in Conns : batch[c] = <<>>
    BY <2>2
  <2> QED BY <2>1, <2>2, <2>3, <2>4
<1>2. CASE Listen
  BY <1>2, <1>0, <1>a DEF Listen, ListenLoopFails
<1>3. CASE Signal
  BY <1>3, <1>0, <1>a DEF Signal
<1>4. CASE AcceptTimeout
  BY <1>4, <1>0, <1>a DEF AcceptTimeout, ListenLoopFails
<1>5. CASE AcceptError
  BY <1>5, <1>0, <1>a DEF AcceptError, ListenLoopFails
<1>6. CASE Close
  BY <1>6, <1>0, <1>a DEF Close, Exit
<1>7. CASE Stopped
  BY <1>7, <1>0, <1>a DEF Stopped, Exit
<1>8. CASE Observe
  BY <1>8, <1>0, <1>a DEF Observe
<1>9. ASSUME NEW c \in Conns, Accept(c) PROVE Staged'
  BY <1>9, <1>0, <1>a DEF Accept, Goto
<1>10. ASSUME NEW c \in Conns, Receive(c) PROVE Staged'
  BY <1>10, <1>0, <1>a DEF Receive, Goto, Methods
<1>11. ASSUME NEW c \in Conns, Disconnect(c) PROVE Staged'
  BY <1>11, <1>0, <1>a DEF Disconnect, Goto
<1>12. ASSUME NEW c \in Conns, RunEngine(c) PROVE Staged'
  BY <1>12, <1>0, <1>a DEF RunEngine, Goto
<1>13. ASSUME NEW c \in Conns, LockEvents(c) PROVE Staged'
  BY <1>13, <1>0, <1>a DEF LockEvents, AfterEvents, Goto
<1>14. ASSUME NEW c \in Conns, PollOne(c) PROVE Staged'
  BY <1>14, <1>0, <1>a DEF PollOne
<1>15. ASSUME NEW c \in Conns, PollEnd(c) PROVE Staged'
  BY <1>15, <1>0, <1>a DEF PollEnd, AfterEvents, Goto
<1>16. ASSUME NEW c \in Conns, CheckEnabled(c) PROVE Staged'
  BY <1>16, <1>0, <1>a DEF CheckEnabled, Goto
<1>17. ASSUME NEW c \in Conns, AddHistory(c) PROVE Staged'
  BY <1>17, <1>0, <1>a DEF AddHistory, Goto
<1>18. ASSUME NEW c \in Conns, Status(c) PROVE Staged'
  <2>1. CASE pc[c] = "status_enabled" /\ Goto(c, "status_error")
    BY <1>18, <1>0, <1>a, <2>1 DEF Status, Goto
  <2>2. CASE pc[c] = "status_error" /\ Goto(c, "respond")
    BY <1>18, <1>0, <1>a, <2>2 DEF Status, Goto
  <2> QED BY <1>18, <2>1, <2>2 DEF Status
<1>19. ASSUME NEW c \in Conns, Respond(c) PROVE Staged'
  BY <1>19, <1>0, <1>a DEF Respond, Goto
<1>20. CASE UNCHANGED vars
  BY <1>20, <1>0, <1>a DEF vars
<1>21. CASE LogFatal
  BY <1>21, <1>0, <1>a DEF LogFatal, Exit
<1> QED
  BY <1>1, <1>2, <1>3, <1>4, <1>5, <1>6, <1>7, <1>8, <1>9, <1>10,
     <1>11, <1>12, <1>13, <1>14, <1>15, <1>16, <1>17, <1>18, <1>19, <1>20, <1>21
  DEF Next, Conn, Terminated

\* The invariant holds from the start and in every step.
LEMMA Inductive == Spec => []IInv
<1>1. Init => IInv
  <2> SUFFICES ASSUME Init PROVE IInv
    OBVIOUS
  <2>1. TypeOK
    <3>1. Fifo!TypeInvariant
      BY DEF Init, Fifo!Init, Fifo!TypeInvariant
    <3>2. /\ DOMAIN batch = Conns
          /\ \A c \in Conns :
                /\ batch[c] \in Seq(1..MaxEvents)
                /\ Len(batch[c]) <= IF method[c] = "telemetry.poll" THEN TelemetryLimit
                                                                     ELSE DiagnosticLimit
      BY OrchestratorAssumption DEF Init
    <3>3. requests \in [Conns -> Nat] /\ \A c \in Conns : requests[c] <= MaxRequests[c]
      BY OrchestratorAssumption DEF Init
    <3>4. sent <= MaxEvents /\ seq \in Nat /\ owner \in Seq(Conns \X Nat)
      BY OrchestratorAssumption DEF Init, Fifo!Init
    <3> QED BY <3>1, <3>2, <3>3, <3>4 DEF Init, TypeOK, MainStates, ConnStates
  <2>2. Locking /\ Opening
    BY OrchestratorAssumption DEF Init, Locking, Opening
  <2>3. Uncut /\ Staged
    BY DEF Init, Uncut, Taking, BatchesContiguous, BeforePolling, Staged, Staging,
           StageTellsRuntime, BeforeStage
  <2> QED BY <2>1, <2>2, <2>3 DEF IInv
<1>2. IInv /\ [Next]_vars => IInv'
  BY TypeStep, LockingStep, OpeningStep, UncutStep, StagedStep DEF IInv
<1> QED BY <1>1, <1>2, PTL DEF Spec

\* In every reachable state the variables have the shape the code's types give
\* them, no batch exceeds the limit of its method, and nothing is delivered
\* that was not observed.
THEOREM TypeCorrect == Spec => []TypeOK
BY Inductive, PTL DEF IInv

\* flydpi_runtime_poll and flydpi_runtime_stop never overlap, and none is
\* called on a runtime that is not running, however many goroutines poll when
\* main closes (Manager.Events, Manager.Close).
THEOREM AbiCorrect == Spec => []AbiExclusive
<1>1. IInv => AbiExclusive
  BY DEF IInv, Locking, AbiExclusive
<1> QED BY <1>1, Inductive, PTL

\* The events that one request takes are consecutive, whatever other clients
\* ask for meanwhile (Manager.Events holds the mutex over its whole loop).
THEOREM BatchesCorrect == Spec => []BatchesContiguous
BY Inductive, PTL DEF IInv, Uncut

\* A finished diagnostic blames the runtime exactly as far as it is to blame
\* (the WFP stage that diagnostic.run adds to its report).
THEOREM StageCorrect == Spec => []StageTellsRuntime
BY Inductive, PTL DEF IInv, Staged

\* Once main has a signal that came before it found the context alive, it goes
\* to exit through the deferred Close alone, which leaves no runtime.
Releasing == ctx = "done" /\ main # "fatal" /\ (main = "exited" => native # "running")

\* After such a signal the process does not exit with the runtime running,
\* whether the listener fails or requests are under way (main: the deferred
\* Close; ListenLoop: its return on a done context).
THEOREM ShutdownCorrect == Spec => ShutdownReleases
<1> DEFINE P == ctx = "done" /\ main \notin {"fatal", "exited"}
           Q == main = "exited" => native # "running"
<1>1. P => Releasing
  BY DEF Releasing
<1>2. IInv /\ Releasing /\ [Next]_vars => Releasing'
  <2> SUFFICES ASSUME IInv, Releasing, [Next]_vars PROVE Releasing'
    OBVIOUS
  <2>1. rt = "open" <=> native = "running"
    BY DEF IInv, Locking
  <2> USE DEF Releasing, fifoVars, mgrVars, mainVars, connVars
  <2>2. CASE NewManager
    BY <2>2 DEF NewManager
  <2>3. CASE Listen \/ AcceptTimeout \/ AcceptError
    BY <2>3 DEF Listen, AcceptTimeout, AcceptError, ListenLoopFails
  <2>4. CASE Close
    BY <2>1, <2>4 DEF Close, Exit
  <2>5. CASE Stopped
    BY <2>5 DEF Stopped, Exit
  <2>6. CASE Signal \/ LogFatal \/ Observe \/ Terminated \/ UNCHANGED vars
    BY <2>6 DEF Signal, LogFatal, Observe, Terminated, vars
  <2>7. ASSUME NEW c \in Conns,
               \/ Accept(c) \/ Receive(c) \/ Disconnect(c) \/ RunEngine(c) \/ LockEvents(c)
               \/ PollOne(c) \/ PollEnd(c) \/ CheckEnabled(c) \/ AddHistory(c) \/ Status(c)
               \/ Respond(c)
        PROVE  UNCHANGED <<main, ctx, native>>
    BY <2>7 DEF Accept, Receive, Disconnect, RunEngine, LockEvents, PollOne, PollEnd,
                CheckEnabled, AddHistory, Status, Respond
  <2> QED BY <2>2, <2>3, <2>4, <2>5, <2>6, <2>7 DEF Next, Conn
<1>3. Releasing => Q
  BY DEF Releasing
<1>4. ShutdownReleases <=> [](P => []Q)
  BY DEF ShutdownReleases
<1> HIDE DEF P, Q
<1> QED BY <1>1, <1>2, <1>3, <1>4, Inductive, PTL DEF Spec

------------------------------------------------------------------------------
(* What the clients may rely on: the mutex is always given back, no event is *)
(* handed out twice or late, and a request that was read moves on.           *)

\* The mutex has a holder only while that holder is inside a call of the ABI,
\* which PollEnd and Stopped end.
LockNotLeaked ==
  main # "exited" =>
     \/ mu = "free"
     \/ mu = "main" /\ main = "stopping"
     \/ \E c \in Conns : mu = c /\ pc[c] = "polling"

\* All events of one request come before all events of the other.
Before(c, d) ==
  \A i \in 1..Len(batch[c]), k \in 1..Len(batch[d]) : batch[c][i] < batch[d][k]

\* What the requests hold is in the order of observation, no event is in two
\* of them, and what is still to come is later than all of it.
EventsOnce ==
  /\ \A c \in Conns : \A i, j \in 1..Len(batch[c]) : i < j => batch[c][i] < batch[c][j]
  /\ \A c, d \in Conns : c # d => Before(c, d) \/ Before(d, c)
  /\ \A c \in Conns : \A i \in 1..Len(batch[c]) : \A t \in transit : batch[c][i] < t

\* The request that polls is ahead of all others, and last is the front.
InOrder ==
  /\ \A t \in transit : last < t
  /\ \A c \in Conns : \A i \in 1..Len(batch[c]) : batch[c][i] <= last
  /\ \A c \in Conns : pc[c] \in BeforePolling => batch[c] = <<>>
  /\ \A c \in Conns : pc[c] = "polling" => \A d \in Conns : d # c => Before(d, c)

\* What a request still has to do: states to pass, events to take.
Rank(state) ==
  CASE state = "running" -> 6
    [] state = "want_events" -> 5
    [] state = "polling" -> 4
    [] state \in {"want_enabled", "status_enabled"} -> 3
    [] state \in {"add_history", "status_error"} -> 2
    [] state = "respond" -> 1
    [] OTHER -> 0
Work(c) == Rank(pc[c]) + Limit(c) - Len(batch[c])

\* A step in which a request has a part brings it nearer to its answer.
RequestAdvances ==
  \A c \in Conns : pc[c] \in Answering =>
     Work(c)' < Work(c) \/ UNCHANGED <<pc[c], method[c], batch[c]>>

LEMMA LockStep == TypeOK /\ Locking /\ LockNotLeaked /\ [Next]_vars => LockNotLeaked'
<1> SUFFICES ASSUME TypeOK, Locking, LockNotLeaked, [Next]_vars, main' # "exited"
             PROVE  LockNotLeaked'
  BY DEF LockNotLeaked
<1>0. pc \in [Conns -> ConnStates]
  BY DEF TypeOK
<1>a. ASSUME UNCHANGED mu, main' = main \/ main # "stopping", main # "exited",
             \A c \in Conns : pc[c] = "polling" => pc'[c] = "polling"
      PROVE  LockNotLeaked'
  BY <1>a DEF LockNotLeaked, Locking
<1> USE DEF fifoVars, mgrVars, mainVars, connVars
<1>1. CASE NewManager \/ Signal \/ Observe
  BY <1>1, <1>a DEF NewManager, Signal, Observe
<1>2. CASE Listen \/ AcceptTimeout \/ AcceptError
  BY <1>2, <1>a DEF Listen, AcceptTimeout, AcceptError, ListenLoopFails
<1>3. CASE Close
  BY <1>3 DEF Close, Exit, LockNotLeaked
<1>4. CASE Stopped \/ LogFatal
  BY <1>4 DEF Stopped, LogFatal, Exit
<1>5. ASSUME NEW c \in Conns, LockEvents(c) PROVE LockNotLeaked'
  <2>1. mu = "free" /\ UNCHANGED main
    BY <1>5 DEF LockEvents
  <2>2. CASE rt = "open"
    <3>1. mu' = c /\ pc'[c] = "polling"
      BY <1>0, <1>5, <2>2 DEF LockEvents, Goto
    <3> QED BY <3>1 DEF LockNotLeaked
  <2>3. CASE rt # "open"
    BY <1>5, <2>1, <2>3 DEF LockEvents, LockNotLeaked
  <2> QED BY <2>2, <2>3
<1>6. ASSUME NEW c \in Conns, PollEnd(c) PROVE LockNotLeaked'
  BY <1>6 DEF PollEnd, LockNotLeaked
<1>7. ASSUME NEW c \in Conns, PollOne(c) PROVE LockNotLeaked'
  BY <1>7, <1>a DEF PollOne
<1>8. ASSUME NEW c \in Conns,
             \/ Accept(c) \/ Receive(c) \/ Disconnect(c) \/ RunEngine(c) \/ CheckEnabled(c)
             \/ AddHistory(c) \/ Status(c) \/ Respond(c)
      PROVE  LockNotLeaked'
  <2>1. UNCHANGED <<mu, main>> /\ pc[c] # "polling" /\ \E s : Goto(c, s)
    BY <1>8 DEF Accept, Receive, Disconnect, RunEngine, CheckEnabled, AddHistory, Status, Respond
  <2>2. \A d \in Conns : d # c => pc'[d] = pc[d]
    BY <1>0, <2>1 DEF Goto
  <2> QED BY <1>a, <2>1, <2>2
<1>9. CASE UNCHANGED vars
  BY <1>9, <1>a DEF vars
<1> QED BY <1>1, <1>2, <1>3, <1>4, <1>5, <1>6, <1>7, <1>8, <1>9 DEF Next, Conn, Terminated

LEMMA Ranks ==
  /\ Rank("running") = 6 /\ Rank("want_events") = 5 /\ Rank("polling") = 4
  /\ Rank("want_enabled") = 3 /\ Rank("status_enabled") = 3
  /\ Rank("add_history") = 2 /\ Rank("status_error") = 2
  /\ Rank("respond") = 1 /\ \A s : s \notin Answering => Rank(s) = 0
  /\ \A s : Rank(s) \in 0..6 /\ (s \in Answering => Rank(s) > 0)
BY DEF Rank, Answering

\* Two steps write a batch: the one that starts a request and the one that
\* takes an event.  Every other step lets requests go on or ends them.
LEMMA OtherSteps ==
  ASSUME TypeOK, [Next]_vars, \A c \in Conns : ~Receive(c) /\ ~PollOne(c)
  PROVE  /\ UNCHANGED <<batch, method, last>>
         /\ transit' \subseteq transit \cup {sent + 1}
         /\ \A c \in Conns : pc[c] \in Answering => pc'[c] = pc[c] \/ Rank(pc'[c]) < Rank(pc[c])
         /\ \A c \in Conns : pc'[c] \in BeforePolling => pc[c] \in BeforePolling
         /\ \A c \in Conns : pc'[c] = "polling" => pc[c] \in BeforePolling \cup {"polling"}
<1> DEFINE Quiet == /\ UNCHANGED <<batch, method, last>>
                    /\ transit' \subseteq transit \cup {sent + 1}
<1>0. pc \in [Conns -> ConnStates]
  BY DEF TypeOK
<1>a. ASSUME Quiet, \A c \in Conns : pc'[c] \in {pc[c], "killed"}
      PROVE  /\ \A c \in Conns : pc[c] \in Answering => pc'[c] = pc[c] \/ Rank(pc'[c]) < Rank(pc[c])
             /\ \A c \in Conns : pc'[c] \in BeforePolling => pc[c] \in BeforePolling
             /\ \A c \in Conns : pc'[c] = "polling" => pc[c] \in BeforePolling \cup {"polling"}
  <2>1. Rank("killed") = 0 /\ \A s \in Answering : Rank(s) > 0
    BY Ranks DEF Answering
  <2> QED BY <1>a, <2>1 DEF BeforePolling
<1>b. ASSUME Quiet, NEW c \in Conns, NEW s, Goto(c, s),
             pc[c] \in Answering => Rank(s) < Rank(pc[c]),
             s \in BeforePolling \cup {"polling"} => pc[c] \in BeforePolling
      PROVE  /\ \A d \in Conns : pc[d] \in Answering => pc'[d] = pc[d] \/ Rank(pc'[d]) < Rank(pc[d])
             /\ \A d \in Conns : pc'[d] \in BeforePolling => pc[d] \in BeforePolling
             /\ \A d \in Conns : pc'[d] = "polling" => pc[d] \in BeforePolling \cup {"polling"}
  <2>1. \A d \in Conns : pc'[d] = IF d = c THEN s ELSE pc[d]
    BY <1>0, <1>b DEF Goto
  <2> QED BY <1>b, <2>1
<1> USE DEF fifoVars, mgrVars, mainVars, connVars
<1>1. CASE NewManager \/ Signal \/ UNCHANGED vars
  <2>1. Quiet /\ UNCHANGED pc
    BY <1>1 DEF NewManager, Signal, vars
  <2> QED BY <1>a, <2>1
<1>2. CASE Listen \/ AcceptTimeout \/ AcceptError
  <2>1. Quiet /\ \A c \in Conns : pc'[c] \in {pc[c], "killed"}
    BY <1>2 DEF Listen, AcceptTimeout, AcceptError, ListenLoopFails
  <2> QED BY <1>a, <2>1
<1>3. CASE Close \/ Stopped \/ LogFatal
  <2>1. Quiet /\ \A c \in Conns : pc'[c] \in {pc[c], "killed"}
    BY <1>3 DEF Close, Stopped, LogFatal, Exit
  <2> QED BY <1>a, <2>1
<1>4. CASE Observe
  <2>1. Quiet /\ UNCHANGED pc
    BY <1>4 DEF Observe, Fifo!Accept, Fifo!Lose
  <2> QED BY <1>a, <2>1
<1>5. ASSUME NEW c \in Conns, Accept(c) \/ Disconnect(c) \/ Respond(c)
      PROVE  /\ Quiet /\ \E s \in {"reading", "gone"} : Goto(c, s)
             /\ pc[c] \in {"none", "reading", "respond"}
  BY <1>5 DEF Accept, Disconnect, Respond
<1>6. ASSUME NEW c \in Conns, LockEvents(c)
      PROVE  /\ Quiet /\ \E s \in {"polling", "want_enabled", "add_history", "respond"} : Goto(c, s)
             /\ pc[c] = "want_events"
  BY <1>6, AfterEventsStates DEF LockEvents
<1>7. ASSUME NEW c \in Conns, PollEnd(c)
      PROVE  /\ Quiet /\ \E s \in {"want_enabled", "add_history", "respond"} : Goto(c, s)
             /\ pc[c] = "polling"
  BY <1>7, AfterEventsStates DEF PollEnd
<1>8. ASSUME NEW c \in Conns, RunEngine(c) \/ CheckEnabled(c) \/ AddHistory(c) \/ Status(c)
      PROVE  /\ Quiet
             /\ \/ pc[c] = "running" /\ Goto(c, "want_events")
                \/ pc[c] = "want_enabled" /\ Goto(c, "add_history")
                \/ pc[c] = "add_history" /\ Goto(c, "respond")
                \/ pc[c] = "status_enabled" /\ Goto(c, "status_error")
                \/ pc[c] = "status_error" /\ Goto(c, "respond")
  BY <1>8 DEF RunEngine, CheckEnabled, AddHistory, Status
<1>9. ASSUME NEW c \in Conns, Conn(c) \/ Accept(c) \/ Disconnect(c)
      PROVE  /\ Quiet
             /\ \E s : /\ Goto(c, s) /\ (pc[c] \in Answering => Rank(s) < Rank(pc[c]))
                       /\ s \in BeforePolling \cup {"polling"} => pc[c] \in BeforePolling
  <2>1. CASE Accept(c) \/ Disconnect(c) \/ Respond(c)
    BY <1>5, <2>1, Ranks DEF Answering, BeforePolling
  <2>2. CASE LockEvents(c)
    BY <1>6, <2>2, Ranks DEF BeforePolling
  <2>3. CASE PollEnd(c)
    BY <1>7, <2>3, Ranks DEF BeforePolling
  <2>4. CASE RunEngine(c) \/ CheckEnabled(c) \/ AddHistory(c) \/ Status(c)
    BY <1>8, <2>4, Ranks DEF BeforePolling
  <2> QED BY <1>9, <2>1, <2>2, <2>3, <2>4 DEF Conn
<1>10. ASSUME NEW c \in Conns, Conn(c) \/ Accept(c) \/ Disconnect(c)
       PROVE  /\ Quiet
              /\ \A d \in Conns : pc[d] \in Answering => pc'[d] = pc[d] \/ Rank(pc'[d]) < Rank(pc[d])
              /\ \A d \in Conns : pc'[d] \in BeforePolling => pc[d] \in BeforePolling
              /\ \A d \in Conns : pc'[d] = "polling" => pc[d] \in BeforePolling \cup {"polling"}
  <2>1. PICK s : /\ Quiet /\ Goto(c, s) /\ (pc[c] \in Answering => Rank(s) < Rank(pc[c]))
                 /\ s \in BeforePolling \cup {"polling"} => pc[c] \in BeforePolling
    BY <1>9, <1>10
  <2> QED BY <2>1, <1>b
<1>11. Quiet
  BY <1>1, <1>2, <1>3, <1>4, <1>10 DEF Next, Terminated, NewManager, Signal, AcceptTimeout, vars,
     Listen, AcceptError, Close, Stopped, LogFatal, Observe, Fifo!Accept, Fifo!Lose
<1> QED
  BY <1>1, <1>2, <1>3, <1>4, <1>10, <1>11 DEF Next, Terminated

LEMMA Delivery ==
  ASSUME Fifo!TypeInvariant, \A t \in transit : last < t, Fifo!Deliver
  PROVE  /\ last' > last /\ transit' \subseteq transit
         /\ \A t \in transit' : last' < t
<1>1. PICK taken \in SUBSET transit : /\ \A b \in taken, t \in transit \ taken : b < t
                                      /\ last' \in taken /\ transit' = transit \ taken
  BY DEF Fifo!Deliver
<1> QED BY <1>1 DEF Fifo!TypeInvariant

LEMMA EventsStep ==
  TypeOK /\ Locking /\ InOrder /\ EventsOnce /\ [Next]_vars => InOrder' /\ EventsOnce'
<1> SUFFICES ASSUME TypeOK, Locking, InOrder, EventsOnce, [Next]_vars
             PROVE  InOrder' /\ EventsOnce'
  OBVIOUS
<1>0. /\ pc \in [Conns -> ConnStates] /\ DOMAIN batch = Conns
      /\ \A c \in Conns : batch[c] \in Seq(Nat)
      /\ last \in Nat /\ sent \in Nat /\ last <= sent /\ transit \subseteq Nat
  BY OrchestratorAssumption DEF TypeOK, Fifo!TypeInvariant
<1>1. ASSUME \A c \in Conns : ~Receive(c) /\ ~PollOne(c)
      PROVE  InOrder' /\ EventsOnce'
  <2>1. /\ UNCHANGED <<batch, last>> /\ transit' \subseteq transit \cup {sent + 1}
        /\ \A c \in Conns : pc'[c] \in BeforePolling => pc[c] \in BeforePolling
        /\ \A c \in Conns : pc'[c] = "polling" => pc[c] \in BeforePolling \cup {"polling"}
    BY <1>1, OtherSteps
  <2>2. \A t \in transit' : last' < t
    BY <1>0, <2>1 DEF InOrder
  <2>3. \A c, d \in Conns : Before(c, d)' = Before(c, d)
    BY <2>1 DEF Before
  <2>4. \A c, d \in Conns : batch[c] = <<>> => Before(d, c)
    BY DEF Before
  <2>5. \A c \in Conns : pc'[c] = "polling" => \A d \in Conns : d # c => Before(d, c)
    BY <2>1, <2>4 DEF InOrder
  <2>6. InOrder'
    BY <2>1, <2>2, <2>3, <2>5 DEF InOrder
  <2>7. ASSUME NEW c \in Conns, NEW i \in 1..Len(batch'[c]), NEW t \in transit'
        PROVE  batch'[c][i] < t
    <3>1. batch'[c][i] \in Nat /\ batch'[c][i] <= last
      BY <1>0, <2>1, <2>7 DEF InOrder
    <3>2. t \in Nat /\ last < t
      BY <1>0, <2>1, <2>2
    <3> QED BY ONLY <1>0, <3>1, <3>2
  <2> QED BY <2>1, <2>3, <2>6, <2>7 DEF EventsOnce
<1>2. ASSUME NEW c \in Conns, Receive(c)
      PROVE  InOrder' /\ EventsOnce'
  <2>1. /\ \A d \in Conns : batch'[d] = IF d = c THEN <<>> ELSE batch[d]
        /\ UNCHANGED <<last, transit>>
    BY <1>0, <1>2 DEF Receive, fifoVars
  <2>2. /\ \A d \in Conns : d # c => pc'[d] = pc[d]
        /\ pc'[c] # "polling"
    BY <1>0, <1>2 DEF Receive, Goto, Methods
  <2>3. \A d \in Conns : Before(d, c)' /\ Before(c, d)'
    BY <2>1 DEF Before
  <2>4. \A d, e \in Conns : d # c /\ e # c => Before(d, e)' = Before(d, e)
    BY <2>1 DEF Before
  <2>5. InOrder'
    BY <2>1, <2>2, <2>3, <2>4 DEF InOrder
  <2> QED BY <2>1, <2>3, <2>4, <2>5 DEF EventsOnce
<1>3. ASSUME NEW c \in Conns, PollOne(c)
      PROVE  InOrder' /\ EventsOnce'
  <2>1. /\ last' > last /\ transit' \subseteq transit /\ last' \in Nat
        /\ \A t \in transit' : last' < t
    <3>1. Fifo!Deliver /\ Fifo!TypeInvariant /\ \A t \in transit : last < t
      BY <1>3 DEF PollOne, TypeOK, InOrder
    <3>2. last' \in Nat
      BY <3>1 DEF Fifo!Deliver, Fifo!TypeInvariant
    <3> QED BY <3>1, <3>2, Delivery
  <2>2. /\ \A d \in Conns : batch'[d] = IF d = c THEN Append(batch[c], last') ELSE batch[d]
        /\ UNCHANGED pc /\ pc[c] = "polling"
    BY <1>0, <1>3 DEF PollOne
  <2>3. /\ Len(batch'[c]) = Len(batch[c]) + 1 /\ batch'[c][Len(batch[c]) + 1] = last'
        /\ \A i \in 1..Len(batch[c]) : batch'[c][i] = batch[c][i]
    <3>1. batch'[c] = Append(batch[c], last') /\ batch[c] \in Seq(Nat) /\ last' \in Nat
      BY <1>0, <2>1, <2>2
    <3> QED BY ONLY <3>1
  <2>4. \A d \in Conns : \A i \in 1..Len(batch[d]) : batch[d][i] \in Nat /\ batch[d][i] <= last
    BY <1>0 DEF InOrder
  <2>5. \A d \in Conns : \A i \in 1..Len(batch[d]) : batch[d][i] < last'
    BY <1>0, <2>1, <2>4
  <2>6. \A d \in Conns : \A i \in 1..Len(batch'[d]) : batch'[d][i] \in Nat /\ batch'[d][i] <= last'
    <3>1. ASSUME NEW d \in Conns, NEW i \in 1..Len(batch'[d]), d # c
          PROVE  batch'[d][i] \in Nat /\ batch'[d][i] <= last'
      BY <2>1, <2>2, <2>4, <2>5, <3>1
    <3>2. ASSUME NEW i \in 1..Len(batch'[c]) PROVE batch'[c][i] \in Nat /\ batch'[c][i] <= last'
      <4>1. i \in 1..Len(batch[c]) \/ i = Len(batch[c]) + 1
        BY <1>0, <2>3
      <4> QED BY <2>1, <2>3, <2>4, <2>5, <4>1
    <3> QED BY <3>1, <3>2
  <2>7. \A d \in Conns : d # c => Before(d, c)'
    <3> SUFFICES ASSUME NEW d \in Conns, d # c,
                        NEW i \in 1..Len(batch'[d]), NEW k \in 1..Len(batch'[c])
                 PROVE  batch'[d][i] < batch'[c][k]
      BY DEF Before
    <3>1. batch'[d] = batch[d]
      BY <2>2
    <3>2. CASE k = Len(batch[c]) + 1
      BY <2>3, <2>5, <3>1, <3>2
    <3>3. CASE k # Len(batch[c]) + 1
      <4>1. k \in 1..Len(batch[c])
        BY <1>0, <2>3, <3>3
      <4> QED BY <2>2, <2>3, <3>1, <4>1 DEF InOrder, Before
    <3> QED BY <3>2, <3>3
  <2>8. \A d, e \in Conns : d # c /\ e # c => Before(d, e)' = Before(d, e)
    BY <2>2 DEF Before
  <2>9. InOrder'
    <3>1. \A d \in Conns : pc[d] = "polling" => d = c
      BY <2>2 DEF Locking
    <3>2. \A d \in Conns : pc'[d] \in BeforePolling => batch'[d] = <<>>
      BY <2>2 DEF InOrder, BeforePolling
    <3> QED BY <2>1, <2>2, <2>6, <2>7, <3>1, <3>2 DEF InOrder
  <2>10. \A d \in Conns : \A i, j \in 1..Len(batch'[d]) : i < j => batch'[d][i] < batch'[d][j]
    <3>1. ASSUME NEW i \in 1..Len(batch'[c]), NEW j \in 1..Len(batch'[c]), i < j
          PROVE  batch'[c][i] < batch'[c][j]
      <4>1. i \in 1..Len(batch[c])
        BY <1>0, <2>3, <3>1
      <4>2. CASE j = Len(batch[c]) + 1
        BY <2>3, <2>5, <4>1, <4>2
      <4>3. CASE j # Len(batch[c]) + 1
        <5>1. j \in 1..Len(batch[c])
          BY <1>0, <2>3, <4>3
        <5> QED BY <2>3, <3>1, <4>1, <5>1 DEF EventsOnce
      <4> QED BY <4>2, <4>3
    <3> QED BY <2>2, <3>1 DEF EventsOnce
  <2>11. ASSUME NEW d \in Conns, NEW i \in 1..Len(batch'[d]), NEW t \in transit'
         PROVE  batch'[d][i] < t
    <3>1. t \in Nat /\ last' < t
      BY <1>0, <2>1
    <3>2. batch'[d][i] \in Nat /\ batch'[d][i] <= last'
      BY <2>6
    <3> QED BY <2>1, <3>1, <3>2
  <2>12. \A d, e \in Conns : d # e => Before(d, e)' \/ Before(e, d)'
    BY <2>7, <2>8 DEF EventsOnce
  <2> QED BY <2>9, <2>10, <2>11, <2>12 DEF EventsOnce
<1> QED BY <1>1, <1>2, <1>3

LEMMA WorkStep == TypeOK /\ [Next]_vars => RequestAdvances
<1> SUFFICES ASSUME TypeOK, [Next]_vars, NEW c \in Conns, pc[c] \in Answering
             PROVE  Work(c)' < Work(c) \/ UNCHANGED <<pc[c], method[c], batch[c]>>
  BY DEF RequestAdvances
<1>0. /\ pc \in [Conns -> ConnStates] /\ DOMAIN batch = Conns /\ Len(batch[c]) \in Nat
      /\ method \in [Conns -> Methods \cup {"none"}] /\ batch[c] \in Seq(1..MaxEvents)
  BY DEF TypeOK
<1>a. Limit(c) \in Nat /\ \A s : Rank(s) \in Nat
  <2>1. \A s : Rank(s) \in 0..6
    BY Ranks
  <2> QED BY <2>1, OrchestratorAssumption DEF Limit
<1>1. CASE \A d \in Conns : ~Receive(d) /\ ~PollOne(d)
  <2>1. UNCHANGED <<batch, method>> /\ (pc'[c] = pc[c] \/ Rank(pc'[c]) < Rank(pc[c]))
    BY <1>1, OtherSteps
  <2>2. Limit(c)' = Limit(c)
    BY <2>1 DEF Limit
  <2> QED BY <1>0, <1>a, <2>1, <2>2 DEF Work
<1>2. ASSUME NEW d \in Conns, Receive(d)
      PROVE  UNCHANGED <<pc[c], method[c], batch[c]>>
  BY <1>0, <1>2 DEF Receive, Goto, Answering
<1>3. ASSUME NEW d \in Conns, PollOne(d)
      PROVE  Work(c)' < Work(c) \/ UNCHANGED <<pc[c], method[c], batch[c]>>
  <2>1. UNCHANGED <<pc, method>> /\ batch' = [batch EXCEPT ![d] = Append(batch[d], last')]
    BY <1>3 DEF PollOne
  <2>2. CASE d # c
    BY <2>1, <2>2
  <2>3. CASE d = c
    <3>1. last' \in 1..MaxEvents
      BY <1>3, FifoTypes, OrchestratorAssumption DEF TypeOK, PollOne, Fifo!TypeInvariant
    <3>2. batch'[c] = Append(batch[c], last')
      BY <1>0, <2>1, <2>3
    <3>3. Len(batch'[c]) = Len(batch[c]) + 1
      BY <1>0, <3>1, <3>2
    <3>4. Limit(c)' = Limit(c)
      BY <2>1 DEF Limit
    <3> QED BY <1>0, <1>a, <2>1, <3>3, <3>4 DEF Work
  <2> QED BY <2>2, <2>3
<1> QED BY <1>1, <1>2, <1>3

\* A mutex that is held is held inside a call of the ABI: whoever waits for
\* Manager.mu waits for a goroutine that is polling or for main that stops the
\* runtime, never for one that has gone on and forgotten to unlock.
THEOREM LockCorrect == Spec => []LockNotLeaked
<1>1. Init => LockNotLeaked
  BY DEF Init, LockNotLeaked
<1>2. IInv /\ LockNotLeaked /\ [Next]_vars => LockNotLeaked'
  BY LockStep DEF IInv
<1> QED BY <1>1, <1>2, Inductive, PTL DEF Spec

\* No two clients are given the same event, none gets its events out of order,
\* and none gets an event that is older than one somebody already has
\* (Manager.Events over flydpi_runtime_poll, for telemetry.poll and
\* diagnostic.run alike).
THEOREM EventsCorrect == Spec => []EventsOnce
<1>1. Init => InOrder /\ EventsOnce
  BY DEF Init, Fifo!Init, InOrder, EventsOnce, Before
<1>2. IInv /\ InOrder /\ EventsOnce /\ [Next]_vars => InOrder' /\ EventsOnce'
  BY EventsStep DEF IInv
<1> QED BY <1>1, <1>2, Inductive, PTL DEF Spec

\* A request that was read is a bounded number of its own steps away from its
\* answer, and no step of another goroutine takes it further from it: what
\* RequestAnswered adds is only that it is let run (handle, Manager.Events).
THEOREM AdvanceCorrect ==
  Spec => /\ [](\A c \in Conns : Work(c) \in 0..(6 + Limit(c)))
          /\ [][RequestAdvances]_vars
<1>1. TypeOK => \A c \in Conns : Work(c) \in 0..(6 + Limit(c))
  <2> SUFFICES ASSUME TypeOK, NEW c \in Conns PROVE Work(c) \in 0..(6 + Limit(c))
    OBVIOUS
  <2>1. Limit(c) \in Nat /\ Len(batch[c]) \in Nat /\ Len(batch[c]) <= Limit(c)
    BY OrchestratorAssumption DEF TypeOK, Limit
  <2>2. Rank(pc[c]) \in 0..6
    BY Ranks
  <2> QED BY <2>1, <2>2 DEF Work
<1>2. IInv /\ [Next]_vars => [RequestAdvances]_vars
  BY WorkStep DEF IInv
<1> QED BY <1>1, <1>2, Inductive, PTL DEF Spec, IInv

\* Seen through the Manager the runtime is still the lossy FIFO, with main
\* opening it, several clients sharing it and Close stopping it: what is still
\* in it at the stop is lost, and nothing else changes.
THEOREM ImplementsFifo == Spec => Fifo!Spec
<1>1. Init => Fifo!Init
  BY DEF Init
<1>2. IInv /\ [Next]_vars => [Fifo!Next]_(Fifo!fifoVars)
  <2> SUFFICES ASSUME [Next]_vars PROVE Fifo!Next \/ UNCHANGED fifoVars
    BY DEF Fifo!fifoVars, fifoVars
  <2>1. CASE Observe
    BY <2>1 DEF Observe, Fifo!Next
  <2>2. CASE Stopped
    BY <2>2 DEF Stopped, Fifo!Next, Fifo!Lose
  <2>3. ASSUME NEW c \in Conns, PollOne(c) PROVE Fifo!Next
    BY <2>3 DEF PollOne, Fifo!Next
  <2>4. CASE NewManager \/ Listen \/ Signal \/ AcceptTimeout \/ AcceptError \/ Close
             \/ LogFatal \/ Terminated \/ UNCHANGED vars
    BY <2>4 DEF NewManager, Listen, Signal, AcceptTimeout, AcceptError, Close, LogFatal, Terminated, vars
  <2>5. ASSUME NEW c \in Conns,
               \/ Accept(c) \/ Receive(c) \/ Disconnect(c) \/ RunEngine(c) \/ LockEvents(c)
               \/ PollEnd(c) \/ CheckEnabled(c) \/ AddHistory(c) \/ Status(c) \/ Respond(c)
        PROVE  UNCHANGED fifoVars
    BY <2>5 DEF Accept, Receive, Disconnect, RunEngine, LockEvents, PollEnd, CheckEnabled,
                AddHistory, Status, Respond
  <2> QED BY <2>1, <2>2, <2>3, <2>4, <2>5 DEF Next, Conn
<1> QED BY <1>1, <1>2, Inductive, PTL DEF Spec, Fifo!Spec

------------------------------------------------------------------------------
(* The diagnostic engine                                                     *)
(*                                                                           *)
(* RunEngine is one step above.  It stands for a whole run of Diagnostic,    *)
(* under the signal context of main, whose report the history is given.      *)

USE DiagnosticAssumption

\* What a worker is doing, and that it has a job as long as it works on one.
WorkerStates == {Idle, Exited}
                  \cup [job : Targets, step : {"dial", "handshake"}]
\* Jobs are handed out in order, each once; one that was handed out is being
\* worked on or has its result.
JobsHandedOut ==
  /\ wk \in [Workers -> WorkerStates]
  /\ next \in Nat \ {0} /\ DOMAIN results = Targets
  /\ \A w \in Workers : wk[w].job < next
  /\ \A v, w \in Workers : v # w /\ wk[v].job # 0 => wk[v].job # wk[w].job
  /\ \A i \in Targets : i < next =>
        results[i] # NoResult \/ \E w \in Workers : wk[w].job = i
  /\ closed => next > NTargets
  /\ phase \in {"report", "done"} => closed /\ \A w \in Workers : wk[w] = Exited

LEMMA JobsInit ==
  ASSUME EngineInit
  PROVE  JobsHandedOut
BY DEF EngineInit, JobsHandedOut, WorkerStates, Idle, Targets

LEMMA EngineStates ==
  /\ \A s \in WorkerStates : s = Idle \/ s = Exited \/ s.job \in Targets
  /\ Idle.job = 0 /\ Exited.job = 0 /\ Idle # Exited
  /\ \A s \in WorkerStates : s.step \in {"dial", "handshake"} => s.job \in Targets
  /\ Idle.step = "idle" /\ Exited.step = "exited"
BY DEF WorkerStates, Idle, Exited

\* A worker that goes on, without a job of which nothing is written.
LEMMA EngineWorks ==
  ASSUME JobsHandedOut, NEW w \in Workers, NEW s \in WorkerStates,
         wk' = [wk EXCEPT ![w] = s], wk[w] # Exited, s.job = wk[w].job \/ s.job = 0,
         UNCHANGED <<next, closed, phase>>, DOMAIN results' = Targets,
         \A i \in Targets : results[i] # NoResult => results'[i] # NoResult,
         wk[w].job \in Targets /\ s.job = 0 => results'[wk[w].job] # NoResult
  PROVE  JobsHandedOut'
<1>1. /\ wk' \in [Workers -> WorkerStates]
      /\ \A v \in Workers : wk'[v] = IF v = w THEN s ELSE wk[v]
  BY DEF JobsHandedOut
<1>2. \A v \in Workers : wk'[v].job = 0 \/ wk'[v].job = wk[v].job
  BY <1>1
<1>3. \A v \in Workers : wk'[v].job < next
  BY <1>2 DEF JobsHandedOut
<1>4. \A v, u \in Workers : v # u /\ wk'[v].job # 0 => wk'[v].job # wk'[u].job
  <2> SUFFICES ASSUME NEW v \in Workers, NEW u \in Workers, v # u,
                      wk'[v].job # 0, wk'[v].job = wk'[u].job
               PROVE  FALSE
    OBVIOUS
  <2>1. wk'[v].job = wk[v].job /\ wk'[u].job = wk[u].job
    BY <1>2
  <2> QED BY <2>1 DEF JobsHandedOut
<1>5. ASSUME NEW i \in Targets, i < next
      PROVE  results'[i] # NoResult \/ \E v \in Workers : wk'[v].job = i
  <2>1. CASE results[i] # NoResult
    BY <2>1
  <2>2. ASSUME NEW v \in Workers, wk[v].job = i
        PROVE  results'[i] # NoResult \/ \E u \in Workers : wk'[u].job = i
    <3>1. CASE v # w
      BY <1>1, <2>2, <3>1
    <3>2. CASE v = w
      BY <1>1, <2>2, <3>2
    <3> QED BY <3>1, <3>2
  <2> QED BY <1>5, <2>1, <2>2 DEF JobsHandedOut
<1>6. phase \notin {"report", "done"}
  BY DEF JobsHandedOut
<1> QED BY <1>1, <1>3, <1>4, <1>5, <1>6 DEF JobsHandedOut

LEMMA EngineSend ==
  ASSUME JobsHandedOut, NEW w \in Workers, Send(w)
  PROVE  JobsHandedOut'
<1> DEFINE s == [job |-> next, step |-> "dial"]
<1>1. /\ next <= NTargets /\ wk[w] = Idle /\ wk' = [wk EXCEPT ![w] = s]
      /\ next' = next + 1 /\ phase = "probe" /\ UNCHANGED <<phase, closed, results>>
  BY DEF Send
<1>2. next \in Nat \ {0} /\ next \in Targets
  BY <1>1 DEF JobsHandedOut, Targets
<1>3. s \in WorkerStates /\ s.job = next
  BY <1>2 DEF WorkerStates
<1> HIDE DEF s
<1>4. /\ wk' \in [Workers -> WorkerStates]
      /\ \A v \in Workers : wk'[v] = IF v = w THEN s ELSE wk[v]
  BY <1>1, <1>3 DEF JobsHandedOut
<1>5. \A v \in Workers : wk[v] \in WorkerStates /\ wk[v].job < next
  BY DEF JobsHandedOut
<1>6. \A v \in Workers : wk[v].job \in Nat
  BY <1>5, EngineStates DEF Targets
<1>7. \A v \in Workers : wk'[v].job < next'
  BY <1>1, <1>2, <1>3, <1>4, <1>5, <1>6
<1>8. \A v, u \in Workers : v # u /\ wk'[v].job # 0 => wk'[v].job # wk'[u].job
  <2> SUFFICES ASSUME NEW v \in Workers, NEW u \in Workers, v # u,
                      wk'[v].job # 0, wk'[v].job = wk'[u].job
               PROVE  FALSE
    OBVIOUS
  <2>1. CASE v = w \/ u = w
    BY <1>2, <1>3, <1>4, <1>5, <1>6, <2>1
  <2>2. CASE v # w /\ u # w
    BY <1>4, <2>2 DEF JobsHandedOut
  <2> QED BY <2>1, <2>2
<1>9. ASSUME NEW i \in Targets, i < next'
      PROVE  results'[i] # NoResult \/ \E v \in Workers : wk'[v].job = i
  <2>1. CASE i = next
    BY <1>3, <1>4, <2>1
  <2>2. CASE i # next
    <3>1. i < next
      BY <1>1, <1>2, <1>9, <2>2 DEF Targets
    <3>2. results[i] # NoResult \/ \E v \in Workers : wk[v].job = i
      BY <3>1 DEF JobsHandedOut
    <3>3. \A v \in Workers : wk[v].job = i => v # w
      BY <1>1, EngineStates DEF Targets
    <3> QED BY <1>1, <1>4, <3>2, <3>3
  <2> QED BY <2>1, <2>2
<1>10. closed => next' > NTargets
  BY <1>1, <1>2 DEF JobsHandedOut
<1>11. next' \in Nat \ {0} /\ phase' \notin {"report", "done"} /\ DOMAIN results' = Targets
  BY <1>1, <1>2 DEF JobsHandedOut
<1> QED BY <1>1, <1>4, <1>7, <1>8, <1>9, <1>10, <1>11 DEF JobsHandedOut

\* A probe that ends, well or not, writes the slot of its job.
LEMMA EngineStores ==
  ASSUME JobsHandedOut, NEW w \in Workers, wk[w].step \in {"dial", "handshake"},
         NEW r, r # NoResult, Store(w, r), UNCHANGED <<next, closed, phase>>
  PROVE  JobsHandedOut'
<1>1. wk[w].job \in Targets /\ wk[w] # Exited
  BY EngineStates DEF JobsHandedOut
<1>2. wk' = [wk EXCEPT ![w] = Idle] /\ results' = [results EXCEPT ![wk[w].job] = r]
  BY DEF Store, AfterJob
<1>3. Idle \in WorkerStates
  BY DEF WorkerStates
<1>4. DOMAIN results' = Targets /\ \A i \in Targets :
        results'[i] = IF i = wk[w].job THEN r ELSE results[i]
  BY <1>2 DEF JobsHandedOut
<1> QED BY <1>1, <1>2, <1>3, <1>4, EngineStates, EngineWorks

LEMMA JobsStep ==
  ASSUME JobsHandedOut, [EngineNext]_engineVars
  PROVE  JobsHandedOut'
<1>1. ASSUME UNCHANGED probeVars, phase' \in {"report", "done"} => phase' = phase
             \/ (closed /\ \A w \in Workers : wk[w] = Exited)
      PROVE  JobsHandedOut'
  BY <1>1 DEF JobsHandedOut, probeVars
<1>2. CASE Cancel \/ LookupSystem \/ LookupDoH \/ EngineDone
           \/ UNCHANGED engineVars
  BY <1>1, <1>2 DEF Cancel, LookupSystem, LookupDoH, EngineDone, engineVars
<1>3. CASE Compare
  BY <1>1, <1>3 DEF Compare
<1>4. CASE Wait
  BY <1>1, <1>4 DEF Wait
<1>5. CASE MakeReport
  <2>1. phase = "report" /\ UNCHANGED probeVars
    BY <1>5 DEF MakeReport
  <2> QED BY <1>1, <2>1 DEF JobsHandedOut
<1>6. CASE CloseJobs
  BY <1>6 DEF CloseJobs, JobsHandedOut
<1>7. ASSUME NEW w \in Workers, WorkerExit(w) PROVE JobsHandedOut'
  <2>1. /\ wk[w] = Idle /\ wk' = [wk EXCEPT ![w] = Exited]
        /\ UNCHANGED <<phase, next, closed, results>>
    BY <1>7 DEF WorkerExit
  <2>2. Exited \in WorkerStates /\ 0 \notin Targets
    BY DEF WorkerStates, Targets
  <2>3. DOMAIN results' = Targets
    BY <2>1 DEF JobsHandedOut
  <2> QED BY <2>1, <2>2, <2>3, EngineStates, EngineWorks
<1>8. ASSUME NEW w \in Workers, Dial(w) PROVE JobsHandedOut'
  <2>1. wk[w].step = "dial" /\ UNCHANGED <<phase, next, closed>>
    BY <1>8 DEF Dial
  <2>2. CASE wk' = [wk EXCEPT ![w].step = "handshake"] /\ UNCHANGED results
    <3> DEFINE s == [wk[w] EXCEPT !.step = "handshake"]
    <3>1. wk[w] \in [job : Targets, step : {"dial", "handshake"}]
      <4>1. wk[w] \in WorkerStates
        BY DEF JobsHandedOut
      <4> QED BY <2>1, <4>1, EngineStates DEF WorkerStates
    <3>2. s \in WorkerStates /\ s.job = wk[w].job /\ wk' = [wk EXCEPT ![w] = s]
      BY <2>2, <3>1 DEF WorkerStates
    <3>3. wk[w] # Exited /\ s.job # 0 /\ DOMAIN results' = Targets
      BY <2>1, <2>2, <3>1, <3>2, EngineStates DEF JobsHandedOut, Targets
    <3> HIDE DEF s
    <3> QED BY <2>1, <2>2, <3>2, <3>3, EngineWorks
  <2>3. ASSUME NEW e \in ErrorClasses, Store(w, [NoResult EXCEPT !.error = e])
        PROVE  JobsHandedOut'
    <3>1. [NoResult EXCEPT !.error = e] # NoResult
      BY DEF NoResult, ErrorClasses
    <3> QED BY <2>1, <2>3, <3>1, EngineStores
  <2>4. "tcp_failure" \in ErrorClasses
    BY DEF ErrorClasses
  <2> QED BY <1>8, <2>2, <2>3, <2>4 DEF Dial
<1>9. ASSUME NEW w \in Workers, Handshake(w) PROVE JobsHandedOut'
  <2>1. \A b \in BOOLEAN : \A e : [tcp |-> TRUE, tls |-> b, error |-> e] # NoResult
    BY DEF NoResult
  <2>2. /\ wk[w].step = "handshake" /\ UNCHANGED <<phase, next, closed>>
        /\ \E b \in BOOLEAN : \E e : Store(w, [tcp |-> TRUE, tls |-> b, error |-> e])
    BY <1>9 DEF Handshake
  <2> QED BY <2>1, <2>2, EngineStores
<1>10. ASSUME NEW w \in Workers, Send(w) PROVE JobsHandedOut'
  BY <1>10, EngineSend
<1> QED BY <1>2, <1>3, <1>4, <1>5, <1>6, <1>7, <1>8, <1>9, <1>10
       DEF EngineNext, Run, Worker

\* For every number of targets and workers, and whatever the network answers
\* and whenever the run is cancelled: the report is made from a result for
\* every target, when no worker can write one any more, and no target is given
\* to two workers.
THEOREM ReportCorrect == EngineSpec => []ReportComplete
<1>1. EngineInit => JobsHandedOut
  BY JobsInit
<1>2. JobsHandedOut /\ [EngineNext]_engineVars => JobsHandedOut'
  BY JobsStep
<1>3. JobsHandedOut => ReportComplete
  <2> SUFFICES ASSUME JobsHandedOut PROVE ReportComplete
    OBVIOUS
  <2>1. ASSUME phase \in {"report", "done"}, NEW i \in Targets PROVE results[i] # NoResult
    <3>1. i < next
      BY <2>1 DEF JobsHandedOut, Targets
    <3>2. \A w \in Workers : wk[w].job # i
      BY <2>1, EngineStates DEF JobsHandedOut, Targets
    <3> QED BY <3>1, <3>2 DEF JobsHandedOut
  <2> QED BY <2>1 DEF JobsHandedOut, ReportComplete
<1> QED BY <1>1, <1>2, <1>3, PTL DEF EngineSpec

(* A diagnosis comes to an end: some goroutine can always go on, and every     *)
(* step uses up one of a number of steps that is known when the run begins.    *)

EngineTypes ==
  /\ runCtx \in {"live", "done"} /\ phase \in {"dns", "probe", "report", "done"}
  /\ at \in Targets /\ asking \in 0..(NEndpoints + 1)
  /\ next <= NTargets + 1 /\ closed \in BOOLEAN
  /\ ~closed => \A w \in Workers : wk[w] # Exited

\* Of Run, the sender, the closer and the workers there is always one that the
\* channel and the wait group do not keep waiting.
NobodyStuck ==
  \/ phase = "dns"
  \/ \E w \in Workers : wk[w].step \in {"dial", "handshake"}
  \/ phase = "probe" /\ next <= NTargets /\ \E w \in Workers : wk[w] = Idle
  \/ phase = "probe" /\ next > NTargets /\ ~closed
  \/ closed /\ \E w \in Workers : wk[w] = Idle
  \/ phase = "probe" /\ closed /\ \A w \in Workers : wk[w] = Exited
  \/ phase \in {"report", "done"}

\* The steps that are left: of the resolvers, of Run, of the probes, the close
\* of the channel and the cancellation.
At(step) == {w \in Workers : wk[w].step = step}
Doing(step) == Cardinality(At(step))
DnsLeft == IF phase = "dns" THEN (NTargets + 1 - at) * (NEndpoints + 3) - asking ELSE 0
PhasesLeft == IF phase = "dns" THEN 3 ELSE IF phase = "probe" THEN 2
              ELSE IF phase = "report" THEN 1 ELSE 0
JobsLeft == NTargets + 1 - next
ProbesLeft == 3 * JobsLeft + 3 * Doing("dial") + 2 * Doing("handshake") + Doing("idle")
CloseLeft == IF closed THEN 0 ELSE 1
CancelLeft == IF runCtx = "live" THEN 1 ELSE 0
Left == DnsLeft + PhasesLeft + ProbesLeft + CloseLeft + CancelLeft

LEMMA WorkersFinite == IsFiniteSet(Workers) /\ 1 \in Workers
BY FS_Interval DEF Workers

LEMMA DoingCounts == \A step : IsFiniteSet(At(step)) /\ Doing(step) \in Nat
<1> SUFFICES ASSUME NEW step PROVE IsFiniteSet(At(step)) /\ Doing(step) \in Nat
  OBVIOUS
<1>1. At(step) \subseteq Workers
  BY DEF At
<1>2. IsFiniteSet(At(step))
  BY <1>1, WorkersFinite, FS_Subset
<1> QED BY <1>2, FS_CardinalityType DEF Doing

\* A worker that goes from one step to another.
LEMMA DoingMoves ==
  ASSUME wk \in [Workers -> WorkerStates], NEW w \in Workers, NEW s \in WorkerStates,
         wk' = [wk EXCEPT ![w] = s], s.step # wk[w].step
  PROVE  \A step \in {"idle", "dial", "handshake"} :
            Doing(step)' = IF wk[w].step = step THEN Doing(step) - 1
                           ELSE IF s.step = step THEN Doing(step) + 1 ELSE Doing(step)
<1> TAKE step \in {"idle", "dial", "handshake"}
<1>1. \A v \in Workers : wk'[v] = IF v = w THEN s ELSE wk[v]
  OBVIOUS
<1>2. CASE wk[w].step = step
  <2>1. At(step)' = At(step) \ {w} /\ w \in At(step)
    BY <1>1, <1>2 DEF At
  <2>2. IsFiniteSet(At(step))
    BY DoingCounts
  <2>3. Cardinality(At(step) \ {w}) = Cardinality(At(step)) - 1
    BY ONLY <2>1, <2>2, FS_RemoveElement
  <2>4. Doing(step)' = Doing(step) - 1
    BY <2>1, <2>3 DEF Doing
  <2> QED BY <1>2, <2>4
<1>3. CASE s.step = step
  <2>1. At(step)' = At(step) \cup {w} /\ w \notin At(step)
    BY <1>1, <1>3 DEF At
  <2>2. IsFiniteSet(At(step))
    BY DoingCounts
  <2>3. Cardinality(At(step) \cup {w}) = Cardinality(At(step)) + 1
    BY ONLY <2>1, <2>2, FS_AddElement
  <2>4. Doing(step)' = Doing(step) + 1
    BY <2>1, <2>3 DEF Doing
  <2> QED BY <1>3, <2>4
<1>4. CASE step \notin {wk[w].step, s.step}
  <2>1. At(step)' = At(step)
    BY <1>1, <1>4 DEF At
  <2> QED BY <1>4, <2>1 DEF Doing
<1> QED BY <1>2, <1>3, <1>4

\* A worker that dials goes on to the handshake or is done with its job.
LEMMA DialMoves ==
  ASSUME JobsHandedOut, NEW w \in Workers, Dial(w)
  PROVE  \E s \in WorkerStates : /\ wk' = [wk EXCEPT ![w] = s]
                                 /\ s.step \in {"handshake", "idle"}
<1>1. wk[w] \in [job : Targets, step : {"dial", "handshake"}]
  BY EngineStates DEF Dial, JobsHandedOut, WorkerStates
<1>2. CASE wk' = [wk EXCEPT ![w].step = "handshake"]
  <2> DEFINE s == [wk[w] EXCEPT !.step = "handshake"]
  <2>1. s \in WorkerStates /\ s.step = "handshake"
    BY <1>1 DEF WorkerStates
  <2> QED BY <1>2, <2>1
<1>3. CASE wk' = [wk EXCEPT ![w] = Idle]
  BY <1>3, EngineStates DEF WorkerStates
<1> QED BY <1>2, <1>3 DEF Dial, Store, AfterJob

LEMMA EngineTypesStep ==
  ASSUME JobsHandedOut, EngineTypes, [EngineNext]_engineVars
  PROVE  EngineTypes'
<1> USE DEF EngineTypes, Targets
<1>1. CASE Cancel
  BY <1>1 DEF Cancel, dnsVars, probeVars
<1>2. CASE LookupSystem
  BY <1>2 DEF LookupSystem, probeVars
<1>3. CASE LookupDoH
  BY <1>3 DEF LookupDoH, probeVars
<1>4. CASE Compare
  BY <1>4 DEF Compare, probeVars
<1>5. CASE CloseJobs
  BY <1>5 DEF CloseJobs, dnsVars
<1>6. CASE Wait
  BY <1>6 DEF Wait, dnsVars, probeVars
<1>7. CASE MakeReport
  BY <1>7 DEF MakeReport, dnsVars, probeVars
<1>8. ASSUME NEW w \in Workers, Send(w) PROVE EngineTypes'
  BY <1>8, EngineStates DEF Send, dnsVars, Exited, JobsHandedOut
<1>9. ASSUME NEW w \in Workers, Dial(w) PROVE EngineTypes'
  <2>1. PICK s \in WorkerStates : /\ wk' = [wk EXCEPT ![w] = s]
                                  /\ s.step \in {"handshake", "idle"}
    BY <1>9, DialMoves
  <2>2. s # Exited
    BY <2>1, EngineStates
  <2>3. ~closed => \A v \in Workers : wk'[v] # Exited
    BY <2>1, <2>2 DEF JobsHandedOut
  <2>4. UNCHANGED <<runCtx, phase, at, asking, next, closed>>
    BY <1>9 DEF Dial, dnsVars
  <2> QED BY <2>3, <2>4
<1>10. ASSUME NEW w \in Workers, Handshake(w) PROVE EngineTypes'
  BY <1>10, EngineStates DEF Handshake, Store, AfterJob, dnsVars, JobsHandedOut
<1>11. ASSUME NEW w \in Workers, WorkerExit(w) PROVE EngineTypes'
  BY <1>11 DEF WorkerExit, dnsVars
<1>12. CASE EngineDone \/ UNCHANGED engineVars
  BY <1>12 DEF EngineDone, engineVars, dnsVars, probeVars
<1> QED BY <1>1, <1>2, <1>3, <1>4, <1>5, <1>6, <1>7, <1>8, <1>9, <1>10, <1>11, <1>12
       DEF EngineNext, Run, Worker

\* What is left before a step and after it, as far as the workers are concerned.
LEMMA Amounts ==
  ASSUME JobsHandedOut, EngineTypes
  PROVE  /\ JobsLeft \in Nat /\ ProbesLeft \in Nat
         /\ PhasesLeft \in Nat /\ CloseLeft \in Nat /\ CancelLeft \in Nat
         /\ DnsLeft \in Nat
<1>1. JobsLeft \in Nat
  BY DEF JobsLeft, EngineTypes, JobsHandedOut
<1>2. ProbesLeft \in Nat
  BY <1>1, DoingCounts DEF ProbesLeft
<1>3. DnsLeft \in Nat
  <2> DEFINE n == NTargets + 1 - at
             k == NEndpoints + 3
  <2>1. n \in Nat /\ n - 1 \in Nat /\ k \in Nat /\ asking \in Nat /\ asking < k
    BY DEF EngineTypes, Targets
  <2> HIDE DEF n, k
  <2>2. n * k = (n - 1) * k + k /\ (n - 1) * k \in Nat
    BY <2>1
  <2>3. n * k - asking \in Nat
    BY <2>1, <2>2
  <2> QED BY <2>3 DEF DnsLeft, n, k
<1> QED BY <1>1, <1>2, <1>3 DEF PhasesLeft, CloseLeft, CancelLeft

AmountsNat ==
  /\ ProbesLeft \in Nat /\ PhasesLeft \in Nat /\ CloseLeft \in Nat
  /\ CancelLeft \in Nat /\ DnsLeft \in Nat /\ Left \in Nat

LEMMA AmountsAlways == JobsHandedOut /\ EngineTypes => AmountsNat
BY Amounts DEF Left, AmountsNat

LEMMA AmountsNext ==
  ASSUME JobsHandedOut', EngineTypes'
  PROVE  AmountsNat'
BY AmountsAlways, PTL

LEMMA SumShrinks ==
  \A a, b, c, d, e, f \in Nat :
     f < a => /\ f + b + c + d + e < a + b + c + d + e
              /\ b + c + f + d + e < b + c + a + d + e
OBVIOUS

\* A worker moves: a job is taken, or the worker is a step further with it.
LEMMA ProbesShrink ==
  ASSUME JobsHandedOut, EngineTypes, NEW w \in Workers, Worker(w)
  PROVE  ProbesLeft' < ProbesLeft /\ UNCHANGED <<runCtx, phase, at, asking, closed>>
<1>0. /\ wk \in [Workers -> WorkerStates] /\ JobsLeft \in Nat
      /\ \A step : Doing(step) \in Nat
  BY Amounts, DoingCounts DEF JobsHandedOut
<1>1. CASE Send(w)
  <2> DEFINE s == [job |-> next, step |-> "dial"]
  <2>1. /\ s \in WorkerStates /\ wk' = [wk EXCEPT ![w] = s]
        /\ wk[w].step = "idle" /\ s.step = "dial"
    BY <1>1, EngineStates DEF Send, WorkerStates, Targets, JobsHandedOut
  <2>2. /\ Doing("idle")' = Doing("idle") - 1 /\ Doing("dial")' = Doing("dial") + 1
        /\ Doing("handshake")' = Doing("handshake")
    BY <1>0, <2>1, DoingMoves
  <2>3. JobsLeft' = JobsLeft - 1
    BY <1>1 DEF Send, JobsLeft, JobsHandedOut
  <2> QED BY <1>0, <1>1, <2>2, <2>3 DEF Send, dnsVars, ProbesLeft
<1>2. CASE Dial(w)
  <2>1. PICK s \in WorkerStates : /\ wk' = [wk EXCEPT ![w] = s]
                                  /\ s.step \in {"handshake", "idle"}
    BY <1>2, DialMoves
  <2>2. wk[w].step = "dial" /\ JobsLeft' = JobsLeft
    BY <1>2 DEF Dial, JobsLeft
  <2>3. CASE s.step = "handshake"
    <3>1. /\ Doing("dial")' = Doing("dial") - 1 /\ Doing("handshake")' = Doing("handshake") + 1
          /\ Doing("idle")' = Doing("idle")
      BY <1>0, <2>1, <2>2, <2>3, DoingMoves
    <3> QED BY <1>0, <1>2, <2>2, <3>1 DEF Dial, dnsVars, ProbesLeft
  <2>4. CASE s.step = "idle"
    <3>1. /\ Doing("dial")' = Doing("dial") - 1 /\ Doing("idle")' = Doing("idle") + 1
          /\ Doing("handshake")' = Doing("handshake")
      BY <1>0, <2>1, <2>2, <2>4, DoingMoves
    <3> QED BY <1>0, <1>2, <2>2, <3>1 DEF Dial, dnsVars, ProbesLeft
  <2> QED BY <2>1, <2>3, <2>4
<1>3. CASE Handshake(w)
  <2>1. /\ wk' = [wk EXCEPT ![w] = Idle] /\ Idle \in WorkerStates
        /\ wk[w].step = "handshake" /\ Idle.step = "idle" /\ JobsLeft' = JobsLeft
    BY <1>3, EngineStates DEF Handshake, Store, AfterJob, WorkerStates, JobsLeft
  <2>2. /\ Doing("handshake")' = Doing("handshake") - 1 /\ Doing("idle")' = Doing("idle") + 1
        /\ Doing("dial")' = Doing("dial")
    BY <1>0, <2>1, DoingMoves
  <2> QED BY <1>0, <1>3, <2>1, <2>2 DEF Handshake, dnsVars, ProbesLeft
<1>4. CASE WorkerExit(w)
  <2>1. /\ wk' = [wk EXCEPT ![w] = Exited] /\ Exited \in WorkerStates
        /\ wk[w].step = "idle" /\ Exited.step = "exited" /\ JobsLeft' = JobsLeft
    BY <1>4, EngineStates DEF WorkerExit, WorkerStates, JobsLeft
  <2>2. /\ Doing("idle")' = Doing("idle") - 1
        /\ Doing("handshake")' = Doing("handshake") /\ Doing("dial")' = Doing("dial")
    BY <1>0, <2>1, DoingMoves
  <2> QED BY <1>0, <1>4, <2>1, <2>2 DEF WorkerExit, dnsVars, ProbesLeft
<1> QED BY <1>1, <1>2, <1>3, <1>4 DEF Worker

\* Each step that is no stutter leaves less to do.
LEMMA LeftShrinks ==
  ASSUME JobsHandedOut, EngineTypes, EngineNext, engineVars' # engineVars,
         JobsHandedOut', EngineTypes'
  PROVE  Left' < Left
<1>0. /\ ProbesLeft \in Nat /\ PhasesLeft \in Nat /\ CloseLeft \in Nat
      /\ CancelLeft \in Nat /\ DnsLeft \in Nat
  BY AmountsAlways DEF AmountsNat
<1>b. ProbesLeft' \in Nat /\ PhasesLeft' \in Nat /\ DnsLeft' \in Nat
  BY AmountsNext DEF AmountsNat
<1>c. /\ Left = DnsLeft + PhasesLeft + ProbesLeft + CloseLeft + CancelLeft
      /\ Left' = DnsLeft' + PhasesLeft' + ProbesLeft' + CloseLeft' + CancelLeft'
  BY DEF Left
<1>a. UNCHANGED probeVars => ProbesLeft' = ProbesLeft /\ CloseLeft' = CloseLeft
  BY DEF probeVars, ProbesLeft, JobsLeft, Doing, At, CloseLeft
<1>1. CASE Cancel
  BY <1>0, <1>1, <1>a DEF Cancel, Left, CancelLeft, CloseLeft, PhasesLeft, DnsLeft, dnsVars
<1>2. CASE LookupSystem \/ LookupDoH
  <2>1. /\ UNCHANGED <<runCtx, phase, at>> /\ UNCHANGED probeVars /\ phase = "dns"
        /\ asking' > asking
    BY <1>2 DEF LookupSystem, LookupDoH, EngineTypes
  <2>2. DnsLeft' < DnsLeft
    <3>1. PICK product \in Nat : product = (NTargets + 1 - at) * (NEndpoints + 3)
      <4>1. NTargets + 1 - at \in Nat /\ NEndpoints + 3 \in Nat
        BY DEF EngineTypes, Targets
      <4> QED BY <4>1
    <3>2. DnsLeft = product - asking /\ DnsLeft' = product - asking'
      BY <2>1, <3>1 DEF DnsLeft
    <3> QED BY <2>1, <3>1, <3>2 DEF EngineTypes
  <2>3. /\ PhasesLeft' = PhasesLeft /\ CancelLeft' = CancelLeft
        /\ ProbesLeft' = ProbesLeft /\ CloseLeft' = CloseLeft
    BY <1>a, <2>1 DEF PhasesLeft, CancelLeft
  <2> QED BY <1>0, <1>b, <1>c, <2>2, <2>3, SumShrinks
<1>3. CASE Compare
  <2>1. UNCHANGED runCtx /\ UNCHANGED probeVars /\ phase = "dns" /\ asking = NEndpoints + 1
    BY <1>3 DEF Compare
  <2>2. CASE at = NTargets
    <3>1. phase' = "probe" /\ DnsLeft' = 0 /\ PhasesLeft = 3 /\ PhasesLeft' = 2
      BY <1>3, <2>1, <2>2 DEF Compare, DnsLeft, PhasesLeft
    <3> QED BY <1>0, <1>b, <1>a, <2>1, <3>1 DEF Left, CloseLeft, CancelLeft
  <2>3. CASE at # NTargets
    <3> DEFINE n == NTargets + 1 - at
               k == NEndpoints + 3
    <3>1. at' = at + 1 /\ phase' = "dns" /\ asking' = 0
      BY <1>3, <2>3, <2>1 DEF Compare
    <3>2. n \in Nat /\ n - 1 \in Nat /\ k \in Nat /\ n - 1 = NTargets + 1 - at'
      BY <3>1 DEF EngineTypes, Targets
    <3>3. DnsLeft = n * k - (k - 2) /\ DnsLeft' = (n - 1) * k - 0
      BY <2>1, <3>1, <3>2 DEF DnsLeft
    <3> HIDE DEF n, k
    <3>4. n * k = (n - 1) * k + k /\ (n - 1) * k \in Nat
      BY <3>2
    <3>5. DnsLeft' < DnsLeft
      BY <3>2, <3>3, <3>4
    <3>6. /\ PhasesLeft' = PhasesLeft /\ CancelLeft' = CancelLeft
          /\ ProbesLeft' = ProbesLeft /\ CloseLeft' = CloseLeft
      BY <1>a, <2>1, <3>1 DEF PhasesLeft, CancelLeft
    <3> QED BY <1>0, <1>b, <1>c, <3>5, <3>6, SumShrinks
  <2> QED BY <2>2, <2>3
<1>4. CASE CloseJobs
  <2>1. ProbesLeft' = ProbesLeft /\ DnsLeft' = DnsLeft
    BY <1>4 DEF CloseJobs, ProbesLeft, JobsLeft, Doing, At, DnsLeft, dnsVars
  <2> QED BY <1>0, <1>4, <2>1 DEF CloseJobs, Left, PhasesLeft, CloseLeft, CancelLeft
<1>5. CASE Wait \/ MakeReport
  <2>1. /\ UNCHANGED runCtx /\ UNCHANGED probeVars /\ DnsLeft = 0 /\ DnsLeft' = 0
        /\ PhasesLeft' = PhasesLeft - 1 /\ PhasesLeft \in Nat
    BY <1>5 DEF Wait, MakeReport, DnsLeft, PhasesLeft
  <2> QED BY <1>0, <1>b, <1>a, <2>1 DEF Left, CloseLeft, CancelLeft
<1>6. ASSUME NEW w \in Workers, Worker(w) PROVE Left' < Left
  <2>1. ProbesLeft' < ProbesLeft /\ UNCHANGED <<runCtx, phase, at, asking, closed>>
    BY <1>6, ProbesShrink
  <2>2. /\ PhasesLeft' = PhasesLeft /\ CancelLeft' = CancelLeft
        /\ DnsLeft' = DnsLeft /\ CloseLeft' = CloseLeft
    BY <2>1 DEF DnsLeft, PhasesLeft, CloseLeft, CancelLeft
  <2> QED BY <1>0, <1>b, <1>c, <2>1, <2>2, SumShrinks
<1> QED BY <1>1, <1>2, <1>3, <1>4, <1>5, <1>6 DEF EngineNext, Run, EngineDone

\* How many steps a run is given.
StepsAllowed == NTargets * (NEndpoints + 3) + 3 * NTargets + Cardinality(Workers) + 5

LEMMA LeftInit ==
  ASSUME EngineInit
  PROVE  EngineTypes /\ Left = StepsAllowed
<1>1. EngineTypes
  <2>1. \A w \in Workers : wk[w] # Exited
    BY EngineStates DEF EngineInit
  <2>2. 1 \in Targets /\ 0 \in 0..(NEndpoints + 1) /\ 1 <= NTargets + 1
    BY DEF Targets
  <2> QED BY <2>1, <2>2 DEF EngineInit, EngineTypes
<1>2. Doing("idle") = Cardinality(Workers) /\ Cardinality(Workers) \in Nat
  <2>1. At("idle") = Workers
    BY DEF EngineInit, At, Idle
  <2> QED BY <2>1, WorkersFinite, FS_CardinalityType DEF Doing
<1>3. Doing("dial") = 0 /\ Doing("handshake") = 0
  <2>1. At("dial") = {} /\ At("handshake") = {}
    BY DEF EngineInit, At, Idle
  <2> QED BY <2>1, FS_EmptySet DEF Doing
<1>4. /\ DnsLeft = NTargets * (NEndpoints + 3) - 0 /\ JobsLeft = NTargets
      /\ PhasesLeft = 3 /\ CloseLeft = 1 /\ CancelLeft = 1
  BY DEF EngineInit, DnsLeft, JobsLeft, PhasesLeft, CloseLeft, CancelLeft
<1>5. NTargets * (NEndpoints + 3) \in Nat
  OBVIOUS
<1> QED BY <1>1, <1>2, <1>3, <1>4, <1>5 DEF Left, ProbesLeft, StepsAllowed

EngineInv == JobsHandedOut /\ EngineTypes
WithinSteps == EngineInv /\ Left \in 0..StepsAllowed

LEMMA EngineInductive == EngineSpec => []WithinSteps
<1>1. EngineInit => WithinSteps
  <2> SUFFICES ASSUME EngineInit PROVE WithinSteps
    OBVIOUS
  <2>1. EngineInv /\ Left = StepsAllowed
    BY JobsInit, LeftInit DEF EngineInv
  <2>2. Left \in Nat
    BY <2>1, AmountsAlways DEF EngineInv, AmountsNat
  <2> QED BY <2>1, <2>2 DEF WithinSteps
<1>2. WithinSteps /\ [EngineNext]_engineVars => WithinSteps'
  <2> SUFFICES ASSUME WithinSteps, [EngineNext]_engineVars PROVE WithinSteps'
    OBVIOUS
  <2>1. EngineInv /\ EngineInv'
    BY JobsStep, EngineTypesStep DEF WithinSteps, EngineInv
  <2>2. Left' \in Nat
    BY <2>1, AmountsNext DEF EngineInv, AmountsNat
  <2>3. CASE UNCHANGED engineVars
    <3>1. Left' = Left
      BY <2>3 DEF engineVars, dnsVars, probeVars, Left, DnsLeft, PhasesLeft, ProbesLeft, JobsLeft,
                  Doing, At, CloseLeft, CancelLeft
    <3>2. StepsAllowed' = StepsAllowed
      BY DEF StepsAllowed, Workers
    <3> QED BY <2>1, <3>1, <3>2 DEF WithinSteps
  <2>4. CASE EngineNext /\ engineVars' # engineVars
    <3>1. Left' < Left
      BY <2>1, <2>4, LeftShrinks DEF EngineInv
    <3>2. StepsAllowed' = StepsAllowed /\ StepsAllowed \in Int
      <4>1. Cardinality(Workers) \in Nat
        BY WorkersFinite, FS_CardinalityType
      <4> QED BY <4>1 DEF StepsAllowed, Workers
    <3> QED BY <2>1, <2>2, <3>1, <3>2 DEF WithinSteps
  <2> QED BY <2>3, <2>4
<1> QED BY <1>1, <1>2, PTL DEF EngineSpec

\* A diagnosis takes no more steps than one for each lookup, three for each
\* target, one for each worker and a handful more, however the goroutines
\* interleave and whatever the network answers: nothing in it goes round in a
\* loop (Engine.Run, probe Engine.Run and lookupAnyDoH).
THEOREM StepsCorrect == EngineSpec => [](Left \in 0..StepsAllowed) /\ [][Left' < Left]_engineVars
<1>1. WithinSteps => Left \in 0..StepsAllowed
  BY DEF WithinSteps
<1>2. WithinSteps /\ WithinSteps' /\ [EngineNext]_engineVars => [Left' < Left]_engineVars
  BY LeftShrinks DEF WithinSteps, EngineInv
<1> QED BY <1>1, <1>2, EngineInductive, PTL DEF EngineSpec

\* And it is never stuck: while there is no report, Run, the goroutine that
\* sends and closes, or a worker can go on; none waits for another that has
\* gone (the unbuffered channel of jobs, its close, the wait group).
THEOREM NobodyStuckCorrect == EngineSpec => []NobodyStuck
<1>1. EngineInv => NobodyStuck
  <2> SUFFICES ASSUME EngineInv, phase = "probe",
                      \A w \in Workers : wk[w].step \notin {"dial", "handshake"}
               PROVE  NobodyStuck
    BY DEF NobodyStuck, EngineInv, EngineTypes
  <2>1. \A w \in Workers : wk[w] = Idle \/ wk[w] = Exited
    BY DEF EngineInv, JobsHandedOut, WorkerStates
  <2>2. CASE next <= NTargets
    <3>1. ~closed /\ wk[1] = Idle
      BY <2>1, <2>2, WorkersFinite DEF EngineInv, EngineTypes, JobsHandedOut
    <3> QED BY <2>2, <3>1, WorkersFinite DEF NobodyStuck
  <2>3. CASE next > NTargets
    BY <2>1, <2>3 DEF NobodyStuck
  <2> QED BY <2>2, <2>3 DEF EngineInv, JobsHandedOut
<1> QED BY <1>1, EngineInductive, PTL DEF WithinSteps
==============================================================================

----------------------------- MODULE Orchestrator -----------------------------
(***************************************************************************)
(* The Go orchestrator around the observation runtime: main, the accept    *)
(* loop, one goroutine per connection that answers its requests in order,  *)
(* and the Manager whose mutex serialises every call into the C ABI.       *)
(*                                                                         *)
(* The runtime itself is the lossy FIFO that ObservationRuntime is shown   *)
(* to implement: its event source runs beside the goroutines, and one call *)
(* of flydpi_runtime_poll is one delivery.                                 *)
(***************************************************************************)
EXTENDS Naturals, Sequences, FiniteSets

CONSTANTS
  Conns,          \* the clients' connections, each opened at most once
  MaxRequests,    \* bound: requests per connection, a function
  MaxEvents,      \* bound: events the observer accepts
  TelemetryLimit, \* the batch limit of telemetry.poll (default 32, at most 128)
  DiagnosticLimit \* the batch limit of diagnostic.run (128)

ASSUME OrchestratorAssumption ==
  /\ IsFiniteSet(Conns)
  /\ "main" \notin Conns /\ "free" \notin Conns
  /\ MaxRequests \in [Conns -> Nat] /\ MaxEvents \in Nat
  /\ TelemetryLimit \in Nat \ {0} /\ DiagnosticLimit \in Nat \ {0}

VARIABLES
  sent, transit, last,  \* the observation runtime, see LossyFifo
  native,     \* the FlyDpiRuntime behind the handle: "none", "running" or "stopped"
  rt,         \* Manager.rt: "nil" or "open"
  err,        \* is Manager.err set
  mu,         \* the holder of Manager.mu: a connection, "main" or "free"
  main,       \* where main is
  ctx,        \* the signal context: "live" or "done"
  pc,         \* where each connection's goroutine is
  method,     \* the method it is answering
  batch,      \* the events its request has taken from the runtime
  stage,      \* the WFP stage of its diagnostic report: "ok" or "failed"
  requests,   \* how many requests each connection has sent
  seq,        \* Server.seq, the number of diagnostics started
  owner       \* history: the request that took the n-th delivered event

fifoVars == <<sent, transit, last>>
mgrVars  == <<native, rt, err, mu>>
mainVars == <<main, ctx>>
connVars == <<pc, method, batch, stage, requests>>
vars == <<fifoVars, mgrVars, mainVars, connVars, seq, owner>>

Fifo == INSTANCE LossyFifo

Methods == {"status.get", "telemetry.poll", "diagnostic.run"}
MainStates == {"start", "listen", "serving", "fatal", "closing", "stopping", "exited"}
ConnStates == {"none", "reading", "running", "want_events", "polling", "want_enabled",
               "add_history", "status_enabled", "status_error", "respond",
               "gone", "killed"}
Answering == {"running", "want_events", "polling", "want_enabled", "add_history",
              "status_enabled", "status_error", "respond"}
RequestId(c) == <<c, requests[c]>>

Init ==
  /\ Fifo!Init
  /\ native = "none" /\ rt = "nil" /\ err = FALSE /\ mu = "free"
  /\ main = "start" /\ ctx = "live"
  /\ pc = [c \in Conns |-> "none"]
  /\ method = [c \in Conns |-> "none"]
  /\ batch = [c \in Conns |-> <<>>]
  /\ stage = [c \in Conns |-> "ok"]
  /\ requests = [c \in Conns |-> 0]
  /\ seq = 0 /\ owner = <<>>

Goto(c, state) == pc' = [pc EXCEPT ![c] = state]

------------------------------------------------------------------------------
(* main and the accept loop                                                  *)

\* Open: the DLL with its symbols, then flydpi_runtime_start.
OpenRuntime == rt' = "open" /\ native' = "running" /\ UNCHANGED err

\* A missing file or a failed Open: rt stays nil and err says why.
NoRuntime == err' = TRUE /\ UNCHANGED <<rt, native>>

NewManager ==
  /\ main = "start"
  /\ main' = "listen"
  /\ OpenRuntime \/ NoRuntime
  /\ UNCHANGED <<fifoVars, mu, ctx, connVars, seq, owner>>

\* Process exit ends every goroutine where it stands.
Exit ==
  /\ main' = "exited"
  /\ pc' = [c \in Conns |-> IF pc[c] \in {"none", "gone"} THEN pc[c] ELSE "killed"]

\* Mutant: every error of ListenLoop is fatal.
ListenLoopFailsUnasked == main' = "fatal"

\* ListenLoop returned an error: after a signal main returns and runs the
\* deferred Close, without one it goes on to log.Fatal.
ListenLoopFails == main' = IF ctx = "done" THEN "closing" ELSE "fatal"

Listen ==
  /\ main = "listen"
  /\ main' = "serving" \/ ListenLoopFails
  /\ UNCHANGED <<fifoVars, mgrVars, ctx, connVars, seq, owner>>

\* An interrupt or SIGTERM cancels the context, nothing else.
Signal ==
  /\ main \in {"start", "listen", "serving", "fatal"}
  /\ ctx' = "done"
  /\ UNCHANGED <<fifoVars, mgrVars, main, connVars, seq, owner>>

Accept(c) ==
  /\ main = "serving"
  /\ pc[c] = "none"
  /\ Goto(c, "reading")
  /\ UNCHANGED <<fifoVars, mgrVars, mainVars, method, batch, stage, requests, seq, owner>>

\* The context is looked at only when Accept has timed out.
AcceptTimeout ==
  /\ main = "serving"
  /\ ctx = "done"
  /\ ListenLoopFails
  /\ UNCHANGED <<fifoVars, mgrVars, ctx, connVars, seq, owner>>

\* Any other error of Accept ends the loop.
AcceptError ==
  /\ main = "serving"
  /\ ListenLoopFails
  /\ UNCHANGED <<fifoVars, mgrVars, ctx, connVars, seq, owner>>

\* log.Fatal writes the error and exits; a signal that comes before the exit
\* finds nobody who looks at the context again, and Close is not run.
LogFatal ==
  /\ main = "fatal"
  /\ Exit
  /\ UNCHANGED <<fifoVars, mgrVars, ctx, method, batch, stage, requests, seq, owner>>

\* Mutant: Close without the mutex.
CloseUnlocked ==
  /\ main = "closing"
  /\ IF rt = "open"
     THEN main' = "stopping" /\ mu' = "main" /\ UNCHANGED pc
     ELSE Exit /\ UNCHANGED mu
  /\ UNCHANGED <<fifoVars, native, rt, err, ctx, method, batch, stage, requests, seq, owner>>

\* The deferred Manager.Close: takes the mutex, and with it stops the runtime.
Close ==
  /\ main = "closing"
  /\ mu = "free"
  /\ IF rt = "open"
     THEN main' = "stopping" /\ mu' = "main" /\ UNCHANGED pc
     ELSE Exit /\ UNCHANGED mu
  /\ UNCHANGED <<fifoVars, native, rt, err, ctx, method, batch, stage, requests, seq, owner>>

\* flydpi_runtime_stop returned, with everything it held released.
Stopped ==
  /\ main = "stopping"
  /\ native' = "stopped"
  /\ transit' = {}
  /\ rt' = "nil"
  /\ mu' = "free"
  /\ Exit
  /\ UNCHANGED <<sent, last, err, ctx, method, batch, stage, requests, seq, owner>>

------------------------------------------------------------------------------
(* The runtime beside them                                                   *)

Observe ==
  /\ native = "running"
  /\ main # "exited"
  /\ \/ sent < MaxEvents /\ Fifo!Accept
     \/ Fifo!Lose
  /\ UNCHANGED <<mgrVars, mainVars, connVars, seq, owner>>

------------------------------------------------------------------------------
(* The goroutine of a connection                                             *)

\* Decode the next request; a diagnostic counts as started before it runs.
Receive(c) ==
  /\ pc[c] = "reading"
  /\ requests[c] < MaxRequests[c]
  /\ \E m \in Methods :
        /\ method' = [method EXCEPT ![c] = m]
        /\ Goto(c, CASE m = "status.get"     -> "status_enabled"
                     [] m = "telemetry.poll" -> "want_events"
                     [] m = "diagnostic.run" -> "running")
        /\ seq' = IF m = "diagnostic.run" THEN seq + 1 ELSE seq
  /\ requests' = [requests EXCEPT ![c] = @ + 1]
  /\ batch' = [batch EXCEPT ![c] = <<>>]
  /\ stage' = [stage EXCEPT ![c] = "ok"]
  /\ UNCHANGED <<fifoVars, mgrVars, mainVars, owner>>

\* End of input or a broken connection.
Disconnect(c) ==
  /\ pc[c] = "reading"
  /\ Goto(c, "gone")
  /\ UNCHANGED <<fifoVars, mgrVars, mainVars, method, batch, stage, requests, seq, owner>>

\* engine.Run; a shutdown does not interrupt it, its context only cancels it.
RunEngine(c) ==
  /\ pc[c] = "running"
  /\ Goto(c, "want_events")
  /\ UNCHANGED <<fifoVars, mgrVars, mainVars, method, batch, stage, requests, seq, owner>>

\* Where a request goes once it has its events.
AfterEvents(c) ==
  IF method[c] = "telemetry.poll" THEN "respond"
  ELSE IF batch[c] = <<>> THEN "want_enabled" ELSE "add_history"

\* Mutants: polling without the mutex, and a return that keeps it.
LockEventsUnlocked(c) ==
  /\ pc[c] = "want_events"
  /\ Goto(c, IF rt = "open" THEN "polling" ELSE AfterEvents(c))
  /\ UNCHANGED <<fifoVars, mgrVars, mainVars, method, batch, stage, requests, seq, owner>>
LockEventsNilKeepsLock(c) ==
  /\ pc[c] = "want_events"
  /\ mu = "free"
  /\ mu' = c
  /\ Goto(c, IF rt = "open" THEN "polling" ELSE AfterEvents(c))
  /\ UNCHANGED <<fifoVars, native, rt, err, mainVars, method, batch, stage, requests, seq, owner>>

\* Manager.Events: lock, and poll only a runtime that is open.
LockEvents(c) ==
  /\ pc[c] = "want_events"
  /\ mu = "free"
  /\ IF rt = "open"
     THEN mu' = c /\ Goto(c, "polling")
     ELSE Goto(c, AfterEvents(c)) /\ UNCHANGED mu
  /\ UNCHANGED <<fifoVars, native, rt, err, mainVars, method, batch, stage, requests, seq, owner>>

\* Mutant: the batch limit is off by one.
LimitPlusOne(c) == 1 + (IF method[c] = "telemetry.poll" THEN TelemetryLimit ELSE DiagnosticLimit)

Limit(c) == IF method[c] = "telemetry.poll" THEN TelemetryLimit ELSE DiagnosticLimit

\* One call of flydpi_runtime_poll that returns 1.
PollOne(c) ==
  /\ pc[c] = "polling"
  /\ Len(batch[c]) < Limit(c)
  /\ Fifo!Deliver
  /\ Cardinality(transit') = Cardinality(transit) - 1
  /\ batch' = [batch EXCEPT ![c] = Append(@, last')]
  /\ owner' = Append(owner, RequestId(c))
  /\ UNCHANGED <<mgrVars, mainVars, pc, method, stage, requests, seq>>

\* Mutant: the batch ends without unlocking.
PollEndKeepsLock(c) ==
  /\ pc[c] = "polling"
  /\ Goto(c, AfterEvents(c))
  /\ UNCHANGED <<fifoVars, mgrVars, mainVars, method, batch, stage, requests, seq, owner>>

\* The batch is full, or the ring was found empty (what is in transit is then
\* still in the native queue or in the worker's hand).
PollEnd(c) ==
  /\ pc[c] = "polling"
  /\ mu' = "free"
  /\ Goto(c, AfterEvents(c))
  /\ UNCHANGED <<fifoVars, native, rt, err, mainVars, method, batch, stage, requests, seq, owner>>

\* Mutant: a diagnostic that observed nothing blames the runtime unasked.
CheckEnabledUnasked(c) ==
  /\ pc[c] = "want_enabled"
  /\ stage' = [stage EXCEPT ![c] = "failed"]
  /\ Goto(c, "add_history")
  /\ UNCHANGED <<fifoVars, mgrVars, mainVars, method, batch, requests, seq, owner>>

\* Manager.Enabled, for a diagnostic that observed nothing.
CheckEnabled(c) ==
  /\ pc[c] = "want_enabled"
  /\ mu = "free"
  /\ stage' = [stage EXCEPT ![c] = IF rt = "nil" THEN "failed" ELSE "ok"]
  /\ Goto(c, "add_history")
  /\ UNCHANGED <<fifoVars, mgrVars, mainVars, method, batch, requests, seq, owner>>

\* history.Add, whose error is ignored (see HistoryStore).
AddHistory(c) ==
  /\ pc[c] = "add_history"
  /\ Goto(c, "respond")
  /\ UNCHANGED <<fifoVars, mgrVars, mainVars, method, batch, stage, requests, seq, owner>>

\* status.get takes the mutex for Enabled, then for Error.
Status(c) ==
  /\ mu = "free"
  /\ \/ pc[c] = "status_enabled" /\ Goto(c, "status_error")
     \/ pc[c] = "status_error" /\ Goto(c, "respond")
  /\ UNCHANGED <<fifoVars, mgrVars, mainVars, method, batch, stage, requests, seq, owner>>

Respond(c) ==
  /\ pc[c] = "respond"
  /\ \E s \in {"reading", "gone"} : Goto(c, s)
  /\ UNCHANGED <<fifoVars, mgrVars, mainVars, method, batch, stage, requests, seq, owner>>

------------------------------------------------------------------------------
Conn(c) == \/ RunEngine(c) \/ LockEvents(c) \/ PollOne(c) \/ PollEnd(c)
           \/ CheckEnabled(c) \/ AddHistory(c) \/ Status(c) \/ Respond(c)

Terminated == main = "exited" /\ UNCHANGED vars

Next ==
  \/ NewManager \/ Listen \/ Signal \/ AcceptTimeout \/ AcceptError
  \/ LogFatal \/ Close \/ Stopped
  \/ Observe
  \/ \E c \in Conns : Accept(c) \/ Receive(c) \/ Disconnect(c) \/ Conn(c)
  \/ Terminated

\* Goroutines run; Go's mutex hands itself to a starving waiter, hence SF on
\* the steps that lock; the accept loop goes round.  engine.Run returns
\* because each of its network operations has a deadline, and
\* flydpi_runtime_stop returns as ObservationRuntime's StopReturns says.
Fairness ==
  /\ \A c \in Conns : SF_vars(Conn(c))
  /\ SF_vars(Close)
  /\ WF_vars(NewManager) /\ WF_vars(Listen) /\ WF_vars(LogFatal) /\ WF_vars(Stopped)
  /\ WF_vars(AcceptTimeout \/ \E c \in Conns : Accept(c))

Spec == Init /\ [][Next]_vars
FairSpec == Spec /\ Fairness

------------------------------------------------------------------------------
(* Properties                                                                *)

TypeOK ==
  /\ Fifo!TypeInvariant
  /\ native \in {"none", "running", "stopped"} /\ rt \in {"nil", "open"} /\ err \in BOOLEAN
  /\ mu \in Conns \cup {"main", "free"}
  /\ main \in MainStates /\ ctx \in {"live", "done"}
  /\ pc \in [Conns -> ConnStates]
  /\ method \in [Conns -> Methods \cup {"none"}]
  /\ DOMAIN batch = Conns
  /\ \A c \in Conns :
        /\ batch[c] \in Seq(1..MaxEvents)
        /\ Len(batch[c]) <= IF method[c] = "telemetry.poll" THEN TelemetryLimit ELSE DiagnosticLimit
  /\ stage \in [Conns -> {"ok", "failed"}]
  /\ requests \in [Conns -> Nat] /\ \A c \in Conns : requests[c] <= MaxRequests[c]
  /\ sent <= MaxEvents
  /\ seq \in Nat
  /\ owner \in Seq(Conns \X Nat)

\* flydpi_runtime_poll takes the runtime by &mut and flydpi_runtime_stop frees
\* it: no two calls of the ABI overlap and none follows the stop, whichever
\* goroutines are polling when main closes.  (Manager.mu, Manager.Close)
AbiExclusive ==
  /\ \A c \in Conns : pc[c] = "polling" => mu = c /\ native = "running"
  /\ main = "stopping" => mu = "main" /\ native = "running"
  /\ rt = "open" => native = "running"

\* What one request takes is an uninterrupted run of the event stream: the
\* telemetry polls and the diagnostics of other clients never cut into it.
BatchesContiguous ==
  \A i, j, k \in 1..Len(owner) : i < j /\ j < k /\ owner[i] = owner[k] => owner[j] = owner[i]

\* The WFP stage of a finished diagnostic: failed only when there is no runtime
\* and nothing was observed, and always when the runtime could not be started.
StageTellsRuntime ==
  \A c \in Conns : method[c] = "diagnostic.run" /\ pc[c] \in {"add_history", "respond"} =>
     /\ stage[c] = "failed" => rt = "nil" /\ batch[c] = <<>>
     /\ err => stage[c] = "failed"

\* A signal that comes before main has found the context alive is not lost: from
\* then on neither a listener that fails nor a goroutine that polls lets main
\* exit before flydpi_runtime_stop has returned.  One that comes later, while
\* log.Fatal is under way, finds the process gone and the runtime with it.
\* (main.go:39, Manager.Close)
ShutdownReleases ==
  [](ctx = "done" /\ main \notin {"fatal", "exited"} => [](main = "exited" => native # "running"))

\* Every request that was read is answered, unless the process exits first.
RequestAnswered ==
  \A c \in Conns : pc[c] \in Answering ~> pc[c] \notin Answering

\* A signal ends the process: the accept loop notices it, Close gets the mutex
\* from the goroutines that are polling, the runtime stops.
ShutdownCompletes == ctx = "done" ~> main = "exited"
==============================================================================

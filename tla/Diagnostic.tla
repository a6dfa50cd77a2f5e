------------------------------ MODULE Diagnostic ------------------------------
(***************************************************************************)
(* One diagnostic run of the orchestrator (Engine.Run): for each target    *)
(* the system resolver and then the DNS-over-HTTPS endpoints are asked     *)
(* under one shared deadline, a pool of workers probes the targets over a  *)
(* channel of jobs, and the report is made from both.  The network answers *)
(* as it likes, and a shutdown may cancel the run between any two steps.   *)
(***************************************************************************)
EXTENDS Naturals, FiniteSets

CONSTANTS
  NTargets,     \* len(cfg.Targets); NewEngine never leaves it 0
  Concurrency,  \* cfg.Concurrency
  NEndpoints,   \* len(defaultDoHEndpoints)
  Timeout       \* cfg.Timeout in ticks: an answer takes at least one tick

ASSUME DiagnosticAssumption ==
  /\ NTargets \in Nat \ {0} /\ Concurrency \in Nat \ {0}
  /\ NEndpoints \in Nat \ {0} /\ Timeout \in Nat \ {0}

VARIABLES
  runCtx,     \* the context Run is given, ctx in the code: "live" or "done"
  phase,      \* where Run is: "dns", "probe", "report" or "done"
  at,         \* the target whose name is being looked up
  asking,     \* whom: 0 the system resolver, e the e-th endpoint, NEndpoints + 1 nobody
  spent,      \* how much of the target's deadline is gone
  found,      \* which resolvers have answered for this target
  able,       \* history: which would have, each with the whole timeout to itself
  dnsFailed,  \* dnsStageFailed
  differed,   \* history: has the availability of the resolvers differed for a target
  next,       \* the next job to send
  closed,     \* is the channel of jobs closed
  wk,         \* what each worker is doing
  results,    \* one slot for each target
  report      \* the DiagnosticReport

dnsVars   == <<at, asking, spent, found, able, dnsFailed, differed>>
probeVars == <<next, closed, wk, results>>
engineVars == <<runCtx, phase, dnsVars, probeVars, report>>

Targets == 1..NTargets
Workers == 1..(IF Concurrency < NTargets THEN Concurrency ELSE NTargets)
Resolvers == {"system", "doh"}

\* What a resolver does when asked: answer after some ticks, or fail by then.
\* Timeout ticks are no answer.
Answers == {a \in [ticks : 1..Timeout, ok : BOOLEAN] : a.ok => a.ticks < Timeout}

ErrorClasses == {"timeout", "connection_reset", "tcp_failure", "tls_failure"}
Idle == [job |-> 0, step |-> "idle"]
Exited == [job |-> 0, step |-> "exited"]
NoResult == [tcp |-> FALSE, tls |-> FALSE, error |-> "none"]
NoReport == [severity |-> "none"]

EngineInit ==
  /\ runCtx = "live" /\ phase = "dns"
  /\ at = 1 /\ asking = 0 /\ spent = 0 /\ found = {} /\ able = {}
  /\ dnsFailed = FALSE /\ differed = FALSE
  /\ next = 1 /\ closed = FALSE
  /\ wk = [w \in Workers |-> Idle]
  /\ results = [i \in Targets |-> NoResult]
  /\ report = NoReport

\* The signal context of main is the parent of every deadline below.
Cancel ==
  /\ runCtx = "live" /\ phase # "done"
  /\ runCtx' = "done"
  /\ UNCHANGED <<phase, dnsVars, probeVars, report>>

------------------------------------------------------------------------------
(* Resolvers                                                                 *)

\* Does an answer come before the deadline of ctxDNS and before a cancellation?
InTime(a) == runCtx = "live" /\ spent + a.ticks < Timeout

\* The deadline ends a lookup that would outlast it; a context that is done
\* already ends it at once.
SpentOn(a) == IF runCtx = "done" THEN spent
              ELSE IF InTime(a) THEN spent + a.ticks ELSE Timeout

LookupSystem ==
  /\ phase = "dns" /\ asking = 0
  /\ \E a \in Answers :
        /\ found' = IF a.ok /\ InTime(a) THEN {"system"} ELSE {}
        /\ able' = IF a.ok THEN {"system"} ELSE {}
        /\ spent' = SpentOn(a)
  /\ asking' = 1
  /\ UNCHANGED <<runCtx, phase, at, dnsFailed, differed, probeVars, report>>

\* lookupAnyDoH: the endpoints one after the other, until one has addresses.
LookupDoH ==
  /\ phase = "dns" /\ asking \in 1..NEndpoints
  /\ \E a \in Answers :
        /\ found' = IF a.ok /\ InTime(a) THEN found \cup {"doh"} ELSE found
        /\ able' = IF a.ok THEN able \cup {"doh"} ELSE able
        /\ asking' = IF a.ok /\ InTime(a) THEN NEndpoints + 1 ELSE asking + 1
        /\ spent' = SpentOn(a)
  /\ UNCHANGED <<runCtx, phase, at, dnsFailed, differed, probeVars, report>>

Differs(resolvers) == resolvers # {} /\ resolvers # Resolvers

Compare ==
  /\ phase = "dns" /\ asking = NEndpoints + 1
  /\ dnsFailed' = (dnsFailed \/ Differs(found))
  /\ differed' = (differed \/ Differs(able))
  /\ IF at = NTargets THEN phase' = "probe" /\ UNCHANGED at
                      ELSE at' = at + 1 /\ UNCHANGED phase
  /\ asking' = 0 /\ spent' = 0 /\ found' = {} /\ able' = {}
  /\ UNCHANGED <<runCtx, probeVars, report>>

------------------------------------------------------------------------------
(* The probe engine: a goroutine sends, the workers receive                  *)

\* The channel has no buffer: a job is sent when a worker takes it.
Send(w) ==
  /\ phase = "probe"
  /\ next <= NTargets
  /\ wk[w] = Idle
  /\ wk' = [wk EXCEPT ![w] = [job |-> next, step |-> "dial"]]
  /\ next' = next + 1
  /\ UNCHANGED <<runCtx, phase, dnsVars, closed, results, report>>

\* Mutant: a worker takes a single job instead of ranging over the channel.
AfterJobExit == Exited

AfterJob == Idle

Store(w, r) ==
  /\ results' = [results EXCEPT ![wk[w].job] = r]
  /\ wk' = [wk EXCEPT ![w] = AfterJob]

\* runOne: the connection, then the handshake.
Dial(w) ==
  /\ wk[w].step = "dial"
  /\ \/ runCtx = "live" /\ wk' = [wk EXCEPT ![w].step = "handshake"] /\ UNCHANGED results
     \/ runCtx = "live" /\ \E e \in ErrorClasses \ {"tls_failure"} : Store(w, [NoResult EXCEPT !.error = e])
     \/ runCtx = "done" /\ Store(w, [NoResult EXCEPT !.error = "tcp_failure"])
  /\ UNCHANGED <<runCtx, phase, dnsVars, next, closed, report>>

Handshake(w) ==
  /\ wk[w].step = "handshake"
  /\ \/ runCtx = "live" /\ Store(w, [tcp |-> TRUE, tls |-> TRUE, error |-> "none"])
     \/ Store(w, [tcp |-> TRUE, tls |-> FALSE, error |-> "tls_failure"])
  /\ UNCHANGED <<runCtx, phase, dnsVars, next, closed, report>>

CloseJobs ==
  /\ phase = "probe" /\ next > NTargets /\ ~closed
  /\ closed' = TRUE
  /\ UNCHANGED <<runCtx, phase, dnsVars, next, wk, results, report>>

WorkerExit(w) ==
  /\ closed /\ wk[w] = Idle
  /\ wk' = [wk EXCEPT ![w] = Exited]
  /\ UNCHANGED <<runCtx, phase, dnsVars, next, closed, results, report>>

\* Mutant: the results are used as soon as every job has been handed out.
WaitForJobsOnly ==
  /\ phase = "probe" /\ closed
  /\ phase' = "report"
  /\ UNCHANGED <<runCtx, dnsVars, probeVars, report>>

\* wg.Wait.
Wait ==
  /\ phase = "probe" /\ closed
  /\ \A w \in Workers : wk[w] = Exited
  /\ phase' = "report"
  /\ UNCHANGED <<runCtx, dnsVars, probeVars, report>>

------------------------------------------------------------------------------
(* The report                                                                *)

FailTCP == {i \in Targets : ~results[i].tcp}
FailTLS == {i \in Targets : results[i].tcp /\ ~results[i].tls}
ErrorIn(class) == \E i \in FailTCP : results[i].error = class

StageForFailures(failures) == IF failures = {} THEN "passed" ELSE "failed"

\* The title stands for the four texts that summarize chooses from.
Title == IF dnsFailed THEN "dns_anomaly"
         ELSE IF FailTCP = {} /\ FailTLS = {} THEN "normal"
         ELSE IF ErrorIn("connection_reset") THEN "reset_seen" ELSE "partial"

MakeReport ==
  /\ phase = "report"
  /\ phase' = "done"
  /\ report' = [severity |-> IF Title = "normal" THEN "ok" ELSE "warning",
                title    |-> Title,
                dns      |-> IF dnsFailed THEN "failed" ELSE "passed",
                tcp      |-> StageForFailures(FailTCP),
                tls      |-> StageForFailures(FailTLS),
                poisoning |-> dnsFailed,
                rst      |-> ErrorIn("connection_reset"),
                timeout  |-> ErrorIn("timeout")]
  /\ UNCHANGED <<runCtx, dnsVars, probeVars>>

------------------------------------------------------------------------------
EngineDone == phase = "done" /\ UNCHANGED engineVars

Run == LookupSystem \/ LookupDoH \/ Compare \/ CloseJobs \/ Wait \/ MakeReport
Worker(w) == Send(w) \/ Dial(w) \/ Handshake(w) \/ WorkerExit(w)

EngineNext == Cancel \/ Run \/ (\E w \in Workers : Worker(w)) \/ EngineDone

\* Run and its workers are goroutines that are scheduled, and each lookup, dial
\* and handshake ends at its deadline; nothing cancels a run in particular.
EngineFairness == WF_engineVars(Run) /\ \A w \in Workers : WF_engineVars(Worker(w))

EngineSpec == EngineInit /\ [][EngineNext]_engineVars
EngineFairSpec == EngineSpec /\ EngineFairness

------------------------------------------------------------------------------
(* Properties                                                                *)

\* The report is made when every target has been probed, by one worker, and no
\* worker can write a slot any more; a slot never holds the zero Result.
ReportComplete ==
  /\ phase \in {"report", "done"} =>
       /\ \A i \in Targets : results[i] # NoResult
       /\ \A w \in Workers : wk[w] = Exited
  /\ \A v, w \in Workers : v # w /\ wk[v].job # 0 => wk[v].job # wk[w].job

\* engine.go: "A DNS discrepancy is considered suspicious only when resolver
\* availability differs."
SuspicionJustified == dnsFailed => differed

\* A diagnosis ends: no interleaving of the sender, the workers and the close
\* of the channel leaves one waiting for another.
RunReturns == <>(phase = "done")
==============================================================================

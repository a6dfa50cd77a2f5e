------------------------------- MODULE RpcClient -------------------------------
(***************************************************************************)
(* The Qt client of the JSON-RPC server: one socket, a buffer for the line *)
(* that is not complete yet, a timer that polls the telemetry, a timer     *)
(* that reconnects, and the four things the window shows.  All slots run   *)
(* on the event loop of the GUI thread, one after the other.  The server   *)
(* answers one request of a connection after the other, and may be killed  *)
(* and started again at any point, in the middle of an answer too.         *)
(***************************************************************************)
EXTENDS Naturals, Sequences

CONSTANTS
  MaxInFlight,  \* bound: timers and user stop sending at this many requests
  MaxKills      \* bound: how often the server is killed

ASSUME RpcClientAssumption == MaxInFlight \in Nat /\ MaxKills \in Nat

VARIABLES
  sock,           \* m_socket.state()
  link,           \* the connection under a connected socket: "open" or "cut"
  telemetryTimer, \* m_telemetryTimer.isActive()
  reconnectTimer, \* m_reconnectTimer.isActive()
  buffer,         \* m_buffer: how many unfinished pieces of lines it holds
  history, profiles, telemetry, \* the lists shown, as the answers they came with
  runtimeEnabled, \* m_runtimeEnabled
  running,        \* Main.qml: a diagnostic is under way
  requests,       \* methods sent on this connection that the server has not read
  answers,        \* answers of the server the client has not read to their end
  half,           \* has the client read the first part of Head(answers)
  lines,          \* history: lines completed on this connection, 2 for two or more
  spoiled,        \* history: which of them were no JSON
  server,         \* is the server process up, and has it a runtime
  kills           \* how often it was killed

clientVars == <<telemetryTimer, reconnectTimer, buffer, history, profiles,
                telemetry, runtimeEnabled, running>>
connVars   == <<link, requests, answers, half, lines, spoiled>>
vars == <<sock, clientVars, connVars, server, kills>>

Methods == {"status.get", "history.list", "profile.list", "telemetry.poll",
            "diagnostic.run", "profile.save"}

\* What the result of each method looks like; any of them may be an error.
Bodies(m) ==
  CASE m = "status.get"     -> {"enabled", "disabled"}
    [] m = "history.list"   -> {"entries", "empty", "error"}
    [] m = "profile.list"   -> {"profiles", "empty", "error"}
    [] m = "telemetry.poll" -> {"events", "empty", "null"}
    [] m = "diagnostic.run" -> {"report"}
    [] m = "profile.save"   -> {"saved", "error"}

Answer == UNION {[of : {m}, body : Bodies(m)] : m \in Methods}
Nothing == [of |-> "none", body |-> "empty"]

\* Mutant: what was not sent yet is kept for the next connection.
NoConnectionKeep ==
  /\ link' = "cut" /\ requests' = requests /\ answers' = <<>> /\ half' = FALSE
  /\ lines' = 0 /\ spoiled' = {}

\* A connection that is gone takes what was in flight with it.
NoConnection ==
  /\ link' = "cut" /\ requests' = <<>> /\ answers' = <<>> /\ half' = FALSE
  /\ lines' = 0 /\ spoiled' = {}

Init ==
  /\ sock = "connecting"   \* main calls connectToOrchestrator before the loop
  /\ telemetryTimer = FALSE /\ reconnectTimer = FALSE /\ buffer = 0
  /\ history = Nothing /\ profiles = Nothing /\ telemetry = Nothing
  /\ runtimeEnabled = FALSE /\ running = FALSE
  /\ link = "cut" /\ requests = <<>> /\ answers = <<>> /\ half = FALSE
  /\ lines = 0 /\ spoiled = {}
  /\ server \in [up : BOOLEAN, enabled : BOOLEAN]
  /\ kills = 0

------------------------------------------------------------------------------
(* The socket and the reconnection                                           *)

\* What onConnected asks for, in this order.
Greeting == <<"status.get", "history.list", "profile.list", "telemetry.poll">>

\* Mutant: the timer that reconnects is left running.
ConnectedRetrying ==
  /\ sock = "connecting" /\ server.up
  /\ sock' = "connected" /\ link' = "open"
  /\ telemetryTimer' = TRUE
  /\ requests' = Greeting /\ answers' = <<>> /\ half' = FALSE
  /\ lines' = 0 /\ spoiled' = {}
  /\ UNCHANGED <<reconnectTimer, buffer, history, profiles, telemetry, runtimeEnabled, running,
                 server, kills>>

\* onConnected: stop retrying, send Greeting, and poll from now on.
Connected ==
  /\ sock = "connecting" /\ server.up
  /\ sock' = "connected" /\ link' = "open"
  /\ reconnectTimer' = FALSE /\ telemetryTimer' = TRUE
  /\ requests' = Greeting /\ answers' = <<>> /\ half' = FALSE
  /\ lines' = 0 /\ spoiled' = {}
  /\ UNCHANGED <<buffer, history, profiles, telemetry, runtimeEnabled, running, server, kills>>

\* Mutant: a connection that was refused does not start the timer.
RetreatOnce ==
  /\ sock' = "unconnected"
  /\ telemetryTimer' = FALSE /\ reconnectTimer' = reconnectTimer
  /\ running' = FALSE

\* Mutant: the window does not notice that its diagnostic is lost.
RetreatRunning ==
  /\ sock' = "unconnected"
  /\ telemetryTimer' = FALSE /\ reconnectTimer' = TRUE
  /\ running' = running

\* What every failure of the socket does to the client: onSocketError and, for
\* a connection that was up, onDisconnected after it.  The window takes the
\* error and the lost connection as the end of its diagnostic.
Retreat ==
  /\ sock' = "unconnected"
  /\ telemetryTimer' = FALSE /\ reconnectTimer' = TRUE
  /\ running' = FALSE

\* Nobody listens on the port.
Refused ==
  /\ sock = "connecting" /\ ~server.up
  /\ Retreat
  /\ UNCHANGED <<connVars, buffer, history, profiles, telemetry, runtimeEnabled, server, kills>>

\* The client learns that the server is gone.  What it has not read is lost;
\* m_buffer keeps what it has read of a line.
Lost ==
  /\ sock = "connected" /\ link = "cut"
  /\ Retreat
  /\ NoConnection
  /\ UNCHANGED <<buffer, history, profiles, telemetry, runtimeEnabled, server, kills>>

\* retryConnection, when the timer fires: an attempt that is still under way is
\* aborted and another begins.
RetryConnection ==
  /\ reconnectTimer /\ sock # "connected"
  /\ sock' = "connecting"
  /\ UNCHANGED <<clientVars, connVars, server, kills>>

------------------------------------------------------------------------------
(* Requests                                                                  *)

\* send: without a connection the caller gets an error and the timer runs.
Send(m) ==
  IF sock = "connected"
  THEN /\ requests' = Append(requests, m)
       /\ UNCHANGED <<reconnectTimer, running>>
  ELSE /\ reconnectTimer' = TRUE /\ running' = FALSE
       /\ UNCHANGED requests

Room == Len(requests) + Len(answers) < MaxInFlight

\* pollTelemetry, when the timer fires: whether or not the last poll was answered.
PollTelemetry ==
  /\ telemetryTimer /\ sock = "connected" /\ Room
  /\ requests' = Append(requests, "telemetry.poll")
  /\ UNCHANGED <<sock, link, telemetryTimer, reconnectTimer, running, buffer, history, profiles, telemetry,
                 runtimeEnabled, answers, half, lines, spoiled, server, kills>>

\* The two buttons that send a request without looking at the connection.
Click ==
  /\ Room
  /\ \E m \in {"history.list", "profile.save"} : Send(m)
  /\ UNCHANGED <<sock, link, telemetryTimer, buffer, history, profiles, telemetry,
                 runtimeEnabled, answers, half, lines, spoiled, server, kills>>

\* startDiagnostic of Main.qml.
StartDiagnostic ==
  /\ ~running /\ sock = "connected" /\ Room
  /\ running' = TRUE
  /\ requests' = Append(requests, "diagnostic.run")
  /\ UNCHANGED <<sock, link, telemetryTimer, reconnectTimer, buffer, history, profiles,
                 telemetry, runtimeEnabled, answers, half, lines, spoiled, server, kills>>

------------------------------------------------------------------------------
(* The server                                                                *)

\* What the server may answer to m.  Its stores hold what they hold, its
\* runtime it has or has not: without one a poll is answered with null.
Possible(m) == {b \in Bodies(m) :
  /\ b \in {"enabled", "events"} => server.enabled
  /\ b \in {"disabled", "null"} => ~server.enabled
  /\ m = "telemetry.poll" /\ b = "empty" => server.enabled}

\* The goroutine of the connection decodes a request, handles it and encodes
\* the answer.
Serve ==
  /\ link = "open" /\ requests # <<>>
  /\ requests' = Tail(requests)
  /\ \E b \in Possible(Head(requests)) :
       answers' = Append(answers, [of |-> Head(requests), body |-> b])
  /\ UNCHANGED <<sock, clientVars, link, half, lines, spoiled, server, kills>>

\* The process is killed, with every answer in flight cut where it is.
Kill ==
  /\ server.up /\ kills < MaxKills
  /\ kills' = kills + 1
  /\ server' = [server EXCEPT !.up = FALSE]
  /\ link' = "cut"
  /\ UNCHANGED <<sock, clientVars, requests, answers, half, lines, spoiled>>

\* It is started again, with or without a runtime.
Restart ==
  /\ ~server.up
  /\ \E e \in BOOLEAN : server' = [server EXCEPT !.up = TRUE, !.enabled = e]
  /\ UNCHANGED <<sock, clientVars, connVars, kills>>

------------------------------------------------------------------------------
(* Answers                                                                   *)

\* readAll has returned the bytes up to the middle of an answer.
ReadPart ==
  /\ sock = "connected" /\ answers # <<>> /\ ~half
  /\ half' = TRUE /\ buffer' = buffer + 1
  /\ UNCHANGED <<sock, link, telemetryTimer, reconnectTimer, history, profiles, telemetry,
                 runtimeEnabled, running, requests, answers, lines, spoiled, server, kills>>

\* Mutant: the first test takes everything that carries a time.
RouteByTime(body) ==
  CASE body \in {"entries", "events"} -> "history"
    [] body = "profiles" -> "profiles"
    [] body = "empty" -> "telemetry"
    [] OTHER -> "none"

\* Which list an answer replaces: by its first element, not by its id.
Route(body) ==
  CASE body = "entries"  -> "history"
    [] body = "profiles" -> "profiles"
    [] body \in {"events", "empty"} -> "telemetry"
    [] OTHER -> "none"

\* Main.qml: an error, of whatever request, or a report ends the diagnostic.
StillRunning(a) == running /\ a.body \notin {"error", "report"}

\* Mutant: the flag is set but never taken back.
ShowNeverOff(a) ==
  /\ history'   = IF Route(a.body) = "history"   THEN a ELSE history
  /\ profiles'  = IF Route(a.body) = "profiles"  THEN a ELSE profiles
  /\ telemetry' = IF Route(a.body) = "telemetry" THEN a ELSE telemetry
  /\ runtimeEnabled' = (runtimeEnabled \/ a.body = "enabled")
  /\ running' = StillRunning(a)

\* The handling of one answer that is JSON: a status sets the flag, null and
\* "saved" change nothing.
Show(a) ==
  /\ history'   = IF Route(a.body) = "history"   THEN a ELSE history
  /\ profiles'  = IF Route(a.body) = "profiles"  THEN a ELSE profiles
  /\ telemetry' = IF Route(a.body) = "telemetry" THEN a ELSE telemetry
  /\ runtimeEnabled' = IF a.of = "status.get" THEN a.body = "enabled" ELSE runtimeEnabled
  /\ running' = StillRunning(a)

\* The rest of the answer with its newline arrives.  The line is the answer
\* only if nothing else was in the buffer; otherwise it is no JSON.
ReadLine ==
  /\ sock = "connected" /\ half
  /\ buffer' = 0 /\ half' = FALSE /\ answers' = Tail(answers)
  /\ lines' = IF lines < 2 THEN lines + 1 ELSE lines
  /\ IF buffer = 1
     THEN Show(Head(answers)) /\ UNCHANGED spoiled
     ELSE /\ spoiled' = spoiled \cup {lines'}
          /\ running' = FALSE
          /\ UNCHANGED <<history, profiles, telemetry, runtimeEnabled>>
  /\ UNCHANGED <<sock, link, telemetryTimer, reconnectTimer, requests, server, kills>>

------------------------------------------------------------------------------
Client == Connected \/ Refused \/ Lost \/ RetryConnection \/ PollTelemetry
          \/ ReadPart \/ ReadLine
User   == Click \/ StartDiagnostic
Server == Serve \/ Kill \/ Restart

Next == Client \/ User \/ Server

Spec == Init /\ [][Next]_vars

\* The event loop delivers what is pending and fires a running timer, and the
\* server that is up answers.  Nobody needs to click, to kill or to restart.
FairSpec ==
  /\ Spec
  /\ WF_vars(Connected) /\ WF_vars(Refused) /\ WF_vars(Lost) /\ WF_vars(RetryConnection)
  /\ WF_vars(ReadPart) /\ WF_vars(ReadLine) /\ WF_vars(Serve)

------------------------------------------------------------------------------
(* Properties                                                                *)

\* The types of the variables; a dead connection has nothing in flight once
\* the client knows of it, and every loss leaves at most one piece behind.
TypeOK ==
  /\ sock \in {"unconnected", "connecting", "connected"} /\ link \in {"open", "cut"}
  /\ telemetryTimer \in BOOLEAN /\ reconnectTimer \in BOOLEAN
  /\ runtimeEnabled \in BOOLEAN /\ running \in BOOLEAN /\ half \in BOOLEAN
  /\ buffer \in 0..(kills + 1)
  /\ history \in Answer \cup {Nothing} /\ profiles \in Answer \cup {Nothing}
  /\ telemetry \in Answer \cup {Nothing}
  /\ requests \in Seq(Methods) /\ answers \in Seq(Answer)
  /\ half => answers # <<>>
  /\ sock # "connected" => link = "cut" /\ requests = <<>> /\ answers = <<>>
  /\ lines \in 0..2 /\ spoiled \subseteq 1..lines
  /\ server \in [up : BOOLEAN, enabled : BOOLEAN]
  /\ kills \in 0..MaxKills

\* Between two events of the loop the timers follow the socket: a connected
\* client polls and does not reconnect, a client without a connection has the
\* timer that will bring it back, and an old telemetry timer never survives
\* into the next connection (RpcClient.cpp: onConnected, onDisconnected,
\* onSocketError, scheduleReconnect).
TimersFollowSocket ==
  /\ sock = "connected"   => telemetryTimer /\ ~reconnectTimer
  /\ sock = "unconnected" => reconnectTimer
  /\ telemetryTimer       => sock = "connected"

\* Answers are told apart by the shape of their first element: the history
\* shows entries only, the profiles profiles only, and what shows as telemetry
\* without being a telemetry answer is an empty list (onReadyRead).
ViewsHoldTheirKind ==
  /\ history # Nothing => history.of = "history.list"
  /\ profiles # Nothing => profiles.of = "profile.list"
  /\ telemetry.of # "telemetry.poll" => telemetry.body = "empty"

\* The status is asked for once per connection, first of all.  From the first
\* answer on the window shows the state of the runtime of the server it is
\* connected to, restarted or not, unless just that answer was lost to half a
\* line that the buffer, which outlives its connection, still held: only ever
\* the first answer is, and only after a kill (onConnected, onReadyRead,
\* handleResult).
StatusIsTheServers ==
  /\ spoiled \subseteq {1} /\ (spoiled # {} => kills > 0)
  /\ sock = "connected" /\ link = "open" /\ lines > 0 /\ spoiled = {}
       => runtimeEnabled = server.enabled

\* A server that stays up is connected to in the end, whenever it came up.
Reconnects == <>[](server.up) => <>[](sock = "connected" /\ link = "open")

\* A diagnostic started from the window ends for the window: with its report,
\* an error, or the loss of the connection (Main.qml: running).
DiagnosticEnds == running ~> ~running
================================================================================

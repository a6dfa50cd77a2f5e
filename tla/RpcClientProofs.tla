---------------------------- MODULE RpcClientProofs ----------------------------
(***************************************************************************)
(* Machine-checked facts about RpcClient that hold for any number of       *)
(* requests in flight and any number of times the server is killed.        *)
(***************************************************************************)
EXTENDS RpcClient, TLAPS

------------------------------------------------------------------------------
(* The inductive invariant                                                   *)

\* The piece of the answer that is being read is in the buffer.  Beside it the
\* buffer holds what earlier connections left there, at most a piece for each
\* that was killed: the piece of a killed server's connection is not left over
\* before the client knows of its loss.  The first line takes all of it away.
Piece == IF half THEN 1 ELSE 0
Unnoticed == IF sock = "connected" /\ link = "cut" THEN 1 ELSE 0
Buffered ==
  /\ link = "open" => sock = "connected" /\ server.up
  /\ Piece <= buffer
  /\ buffer + Unnoticed <= kills + Piece
  /\ lines > 0 => buffer = Piece
  /\ spoiled \subseteq {1} /\ (spoiled # {} => kills > 0)

\* Until the first line the status is the next thing to come, and what the
\* connected server has answered is its own state.
StatusFirst ==
  IF answers = <<>> THEN requests # <<>> /\ Head(requests) = "status.get"
                    ELSE Head(answers).of = "status.get"
Truthful ==
  \A i \in 1..Len(answers) :
     answers[i].of = "status.get" => (answers[i].body = "enabled" <=> server.enabled)
Informed ==
  /\ sock = "connected" /\ lines = 0 => StatusFirst
  /\ link = "open" => Truthful
  /\ link = "open" /\ lines > 0 /\ spoiled = {} => runtimeEnabled = server.enabled

IInv == TypeOK /\ Buffered /\ TimersFollowSocket /\ ViewsHoldTheirKind /\ Informed

------------------------------------------------------------------------------
(* Facts about the wire                                                      *)

\* What is left of a queue, and what an appended element adds to it.
LEMMA QueueFacts ==
  ASSUME NEW S, NEW q \in Seq(S), NEW x \in S
  PROVE  /\ Append(q, x) \in Seq(S) /\ Append(q, x) # <<>>
         /\ Len(Append(q, x)) = Len(q) + 1
         /\ \A i \in 1..Len(q) : Append(q, x)[i] = q[i]
         /\ Append(q, x)[Len(q) + 1] = x
         /\ q # <<>> => /\ Head(q) \in S /\ Head(q) = q[1] /\ Head(Append(q, x)) = Head(q)
                        /\ 1 \in 1..Len(q) /\ Tail(q) \in Seq(S)
                        /\ \A i \in 1..Len(Tail(q)) : i + 1 \in 1..Len(q) /\ Tail(q)[i] = q[i + 1]
         /\ q = <<>> => Head(Append(q, x)) = x
OBVIOUS

\* The server answers with what the type of answers allows.
LEMMA ServedType ==
  ASSUME NEW m \in Methods, NEW b \in Possible(m)
  PROVE  [of |-> m, body |-> b] \in Answer
BY DEF Possible, Answer

\* The body of an answer tells of which request it is, but for empty and error.
LEMMA AnswerKinds ==
  ASSUME NEW a \in Answer
  PROVE  /\ a.of \in Methods
         /\ a.body = "entries" => a.of = "history.list"
         /\ a.body = "profiles" => a.of = "profile.list"
         /\ a.body = "events" => a.of = "telemetry.poll"
         /\ a.body \in {"enabled", "disabled"} <=> a.of = "status.get"
         /\ a # Nothing
<1>1. PICK m \in Methods : a \in [of : {m}, body : Bodies(m)]
  BY DEF Answer
<1>2. a.of = m /\ a.body \in Bodies(m)
  BY <1>1
<1> QED BY <1>2 DEF Methods, Bodies, Nothing

LEMMA GreetingType ==
  /\ Greeting \in Seq(Methods) /\ Greeting # <<>> /\ Head(Greeting) = "status.get"
BY DEF Greeting, Methods

------------------------------------------------------------------------------
(* One step                                                                  *)

LEMMA BufferedStep == TypeOK /\ Buffered /\ [Next]_vars => Buffered'
<1> SUFFICES ASSUME TypeOK, Buffered, [Next]_vars PROVE Buffered'
  OBVIOUS
<1> USE DEF Buffered, Piece, Unnoticed, clientVars, connVars
<1>t. /\ buffer \in Nat /\ kills \in Nat /\ lines \in 0..2 /\ spoiled \subseteq 1..lines
      /\ half \in BOOLEAN /\ (half => answers # <<>>)
      /\ (sock # "connected" => link = "cut" /\ answers = <<>>)
  BY RpcClientAssumption DEF TypeOK
<1>1. CASE Connected
  <2>1. half = FALSE
    BY <1>1, <1>t DEF Connected
  <2> QED BY <1>1, <1>t, <2>1 DEF Connected
<1>2. CASE Refused
  BY <1>2, <1>t DEF Refused, Retreat
<1>3. CASE Lost
  BY <1>3, <1>t DEF Lost, Retreat, NoConnection
<1>4. CASE RetryConnection
  BY <1>4, <1>t DEF RetryConnection
<1>5. CASE PollTelemetry \/ Click \/ StartDiagnostic \/ Serve \/ UNCHANGED vars
  <2>1. UNCHANGED <<sock, link, buffer, half, lines, spoiled, server, kills>>
    BY <1>5 DEF PollTelemetry, Click, StartDiagnostic, Serve, vars
  <2> QED BY <2>1
<1>6. CASE ReadPart
  BY <1>6, <1>t DEF ReadPart
<1>7. CASE ReadLine
  <2>1. /\ half /\ buffer' = 0 /\ half' = FALSE
        /\ lines' = IF lines < 2 THEN lines + 1 ELSE lines
        /\ spoiled' = IF buffer = 1 THEN spoiled ELSE spoiled \cup {lines'}
        /\ UNCHANGED <<sock, link, server, kills>>
    BY <1>7 DEF ReadLine
  <2>2. CASE buffer = 1
    BY <1>t, <2>1, <2>2
  <2>3. CASE buffer # 1
    <3>1. lines = 0 /\ lines' = 1 /\ kills > 0
      BY <1>t, <2>1, <2>3
    <3> QED BY <1>t, <2>1, <2>3, <3>1
  <2> QED BY <2>2, <2>3
<1>8. CASE Kill
  BY <1>8, <1>t DEF Kill
<1>9. CASE Restart
  BY <1>9, <1>t DEF Restart
<1> QED BY <1>1, <1>2, <1>3, <1>4, <1>5, <1>6, <1>7, <1>8, <1>9 DEF Next, Client, User, Server

LEMMA TypeStep == TypeOK /\ Buffered /\ Buffered' /\ [Next]_vars => TypeOK'
<1> SUFFICES ASSUME TypeOK, Buffered, Buffered', [Next]_vars PROVE TypeOK'
  OBVIOUS
<1> USE DEF TypeOK, clientVars, connVars
<1>k. kills \in Nat /\ buffer \in Nat
  BY RpcClientAssumption
<1>e. <<>> \in Seq(Methods) /\ <<>> \in Seq(Answer)
  OBVIOUS
\* A connection that begins, or is gone.
<1>n. ASSUME requests' \in Seq(Methods), answers' = <<>>, half' = FALSE, lines' = 0, spoiled' = {},
             sock' \in {"unconnected", "connected"}, link' \in {"open", "cut"},
             sock' # "connected" => link' = "cut" /\ requests' = <<>>,
             telemetryTimer' \in BOOLEAN, reconnectTimer' \in BOOLEAN, running' \in BOOLEAN,
             UNCHANGED <<buffer, history, profiles, telemetry, runtimeEnabled, server, kills>>
      PROVE  TypeOK'
  <2>1. /\ sock' \in {"unconnected", "connecting", "connected"}
        /\ lines' \in 0..2 /\ spoiled' \subseteq 1..lines'
        /\ answers' \in Seq(Answer)
    BY <1>e, <1>n
  <2>2. half' \in BOOLEAN /\ ~half'
    BY <1>n, Zenon
  <2> QED BY <1>n, <2>1, <2>2
<1>1. CASE Connected
  <2>1. requests' \in Seq(Methods)
    BY <1>1, GreetingType DEF Connected
  <2> QED BY <1>1, <1>n, <2>1 DEF Connected
<1>2. CASE Refused
  BY <1>2 DEF Refused, Retreat
<1>3. CASE Lost
  <2>1. requests' = <<>> /\ link' = "cut" /\ requests' \in Seq(Methods)
    BY <1>3, <1>e DEF Lost, NoConnection
  <2> QED BY <1>3, <1>n, <2>1 DEF Lost, Retreat, NoConnection
<1>4. CASE RetryConnection
  BY <1>4 DEF RetryConnection
<1>5. CASE PollTelemetry
  BY <1>5 DEF PollTelemetry, Methods
<1>6. CASE Click
  <2>1. PICK m \in {"history.list", "profile.save"} : Send(m)
    BY <1>6 DEF Click
  <2>2. /\ requests' \in Seq(Methods) /\ (sock # "connected" => requests' = requests)
        /\ reconnectTimer' \in BOOLEAN /\ running' \in BOOLEAN
    <3>1. CASE sock = "connected"
      <4>1. m \in Methods
        BY DEF Methods
      <4> QED BY <2>1, <3>1, <4>1, SMTT(30) DEF Send
    <3>2. CASE sock # "connected"
      BY <2>1, <3>2 DEF Send
    <3> QED BY <3>1, <3>2
  <2> QED BY <1>6, <2>2 DEF Click
<1>7. CASE StartDiagnostic
  BY <1>7 DEF StartDiagnostic, Methods
<1>8. CASE Serve
  <2>1. requests # <<>> /\ requests \in Seq(Methods) /\ answers \in Seq(Answer)
    BY <1>8 DEF Serve
  <2>2. PICK b \in Possible(Head(requests)) :
           answers' = Append(answers, [of |-> Head(requests), body |-> b])
    BY <1>8 DEF Serve
  <2>3. Head(requests) \in Methods /\ requests' \in Seq(Methods)
    BY ONLY <1>8, <2>1 DEF Serve
  <2>4. answers' \in Seq(Answer) /\ answers' # <<>>
    BY <2>1, <2>2, <2>3, ServedType
  <2>5. sock = "connected"
    BY <2>1
  <2>6. UNCHANGED <<sock, link, telemetryTimer, reconnectTimer, buffer, history, profiles, telemetry,
                    runtimeEnabled, running, half, lines, spoiled, server, kills>>
    BY <1>8 DEF Serve
  <2> QED BY <2>3, <2>4, <2>5, <2>6
<1>9. CASE Kill
  <2>1. buffer' \in 0..(kills' + 1) /\ kills' \in 0..MaxKills
    BY <1>9, <1>k, RpcClientAssumption DEF Kill
  <2>2. server' \in [up : BOOLEAN, enabled : BOOLEAN]
    BY <1>9 DEF Kill
  <2> QED BY <1>9, <2>1, <2>2 DEF Kill
<1>10. CASE Restart
  <2>0. server \in [up : BOOLEAN, enabled : BOOLEAN]
    OBVIOUS
  <2>1. server' \in [up : BOOLEAN, enabled : BOOLEAN]
    BY ONLY <1>10, <2>0 DEF Restart
  <2>2. UNCHANGED <<sock, clientVars, connVars, kills>>
    BY ONLY <1>10 DEF Restart
  <2> QED BY <2>1, <2>2
<1>11. CASE ReadPart
  <2>1. buffer' \in 0..(kills' + 1)
    BY <1>11, <1>k DEF ReadPart, Buffered, Piece, Unnoticed
  <2> QED BY <1>11, <2>1 DEF ReadPart
<1>12. CASE ReadLine
  <2>1. /\ sock = "connected" /\ answers # <<>> /\ answers \in Seq(Answer)
        /\ answers' = Tail(answers) /\ half' = FALSE /\ buffer' = 0
        /\ lines' = IF lines < 2 THEN lines + 1 ELSE lines
        /\ UNCHANGED <<sock, link, telemetryTimer, reconnectTimer, requests, server, kills>>
    BY <1>12 DEF ReadLine
  <2>2. Head(answers) \in Answer /\ answers' \in Seq(Answer)
    BY ONLY <2>1
  <2>3. lines' \in 0..2 /\ spoiled' \subseteq 1..lines'
    <3>1. lines' \in 1..2 /\ \A n \in 1..lines : n \in 1..lines'
      BY <2>1
    <3>2. spoiled' \subseteq spoiled \cup {lines'} /\ spoiled \subseteq 1..lines
      BY <1>12 DEF ReadLine
    <3> QED BY <3>1, <3>2
  <2>4. /\ history' \in Answer \cup {Nothing} /\ profiles' \in Answer \cup {Nothing}
        /\ telemetry' \in Answer \cup {Nothing}
    BY <1>12, <2>2 DEF ReadLine, Show
  <2>5. running' \in BOOLEAN /\ runtimeEnabled' \in BOOLEAN
    BY <1>12 DEF ReadLine, Show, StillRunning
  <2>6. buffer' \in 0..(kills' + 1)
    BY <1>k, <2>1
  <2>7. half' \in BOOLEAN /\ ~half'
    BY <2>1, Zenon
  <2> QED BY <2>1, <2>2, <2>3, <2>4, <2>5, <2>6, <2>7
<1>13. CASE UNCHANGED vars
  BY <1>13 DEF vars
<1> QED BY <1>1, <1>2, <1>3, <1>4, <1>5, <1>6, <1>7, <1>8, <1>9, <1>10, <1>11, <1>12, <1>13
        DEF Next, Client, User, Server

LEMMA TimersStep == TimersFollowSocket /\ [Next]_vars => TimersFollowSocket'
<1> SUFFICES ASSUME TimersFollowSocket, [Next]_vars PROVE TimersFollowSocket'
  OBVIOUS
<1> USE DEF TimersFollowSocket, clientVars, connVars
<1>1. CASE Connected \/ Refused \/ Lost \/ RetryConnection
  BY <1>1 DEF Connected, Refused, Lost, RetryConnection, Retreat
<1>2. CASE Click
  BY <1>2 DEF Click, Send
<1>3. CASE PollTelemetry \/ StartDiagnostic \/ ReadPart \/ ReadLine
  BY <1>3 DEF PollTelemetry, StartDiagnostic, ReadPart, ReadLine
<1>4. CASE Serve \/ Kill \/ Restart \/ UNCHANGED vars
  <2>1. UNCHANGED <<sock, telemetryTimer, reconnectTimer>>
    BY <1>4 DEF Serve, Kill, Restart, vars
  <2> QED BY <2>1
<1> QED BY <1>1, <1>2, <1>3, <1>4 DEF Next, Client, User, Server

LEMMA ViewsStep == TypeOK /\ ViewsHoldTheirKind /\ [Next]_vars => ViewsHoldTheirKind'
<1> SUFFICES ASSUME TypeOK, ViewsHoldTheirKind, [Next]_vars PROVE ViewsHoldTheirKind'
  OBVIOUS
<1> USE DEF ViewsHoldTheirKind
<1>1. CASE UNCHANGED <<history, profiles, telemetry>>
  BY <1>1
<1>2. ASSUME NEW a \in Answer, Show(a) PROVE ViewsHoldTheirKind'
  BY <1>2, AnswerKinds DEF Show, Route
<1>3. CASE ReadLine
  <2>1. answers \in Seq(Answer) /\ answers # <<>>
    BY <1>3 DEF ReadLine, TypeOK
  <2>2. Head(answers) \in Answer
    BY ONLY <2>1
  <2>3. Show(Head(answers)) \/ UNCHANGED <<history, profiles, telemetry>>
    BY <1>3 DEF ReadLine
  <2> QED BY <1>1, <1>2, <2>2, <2>3
<1>4. [Next]_vars => ReadLine \/ UNCHANGED <<history, profiles, telemetry>>
  BY DEF Next, Client, User, Server, Connected, Refused, Lost, RetryConnection, PollTelemetry,
         ReadPart, Click, StartDiagnostic, Serve, Kill, Restart, vars, clientVars
<1> QED BY <1>1, <1>3, <1>4

LEMMA InformedStep == TypeOK /\ Buffered /\ Informed /\ [Next]_vars => Informed'
<1> SUFFICES ASSUME TypeOK, Buffered, Informed, [Next]_vars PROVE Informed'
  OBVIOUS
<1> USE DEF Informed, clientVars, connVars
<1>t. /\ requests \in Seq(Methods) /\ answers \in Seq(Answer)
      /\ lines \in 0..2 /\ spoiled \subseteq 1..lines
  BY DEF TypeOK
<1>1. CASE Connected
  BY <1>1, GreetingType DEF Connected, StatusFirst, Truthful
<1>2. CASE Refused \/ Lost \/ RetryConnection
  <2>1. sock' # "connected" /\ link' = "cut"
    BY <1>2 DEF Refused, Lost, RetryConnection, Retreat, NoConnection, TypeOK
  <2> QED BY <2>1
\* A request is added behind those that wait.
<1>3. ASSUME NEW m \in Methods, requests' \in {requests, Append(requests, m)},
             UNCHANGED <<sock, link, answers, lines, spoiled, runtimeEnabled, server>>
      PROVE  Informed'
  <2>1. StatusFirst => StatusFirst'
    BY <1>3, <1>t, QueueFacts DEF StatusFirst
  <2> QED BY <1>3, <2>1 DEF Truthful
<1>4. CASE PollTelemetry \/ Click \/ StartDiagnostic
  BY <1>3, <1>4 DEF PollTelemetry, Click, StartDiagnostic, Send, Methods
<1>5. CASE Serve
  <2>1. requests # <<>> /\ requests' = Tail(requests) /\ link = "open"
    BY <1>5 DEF Serve
  <2> DEFINE m == Head(requests)
  <2>2. PICK b \in Possible(m) : answers' = Append(answers, [of |-> m, body |-> b])
    BY <1>5 DEF Serve
  <2>3. m \in Methods
    BY ONLY <1>t, <2>1
  <2>4. [of |-> m, body |-> b] \in Answer
    BY <2>3, ServedType
  <2>5. m = "status.get" => (b = "enabled" <=> server.enabled)
    BY DEF Possible, Bodies
  <2> HIDE DEF m
  <2> DEFINE a == [of |-> m, body |-> b]
  <2>6. a.of = m /\ a.body = b
    OBVIOUS
  <2> HIDE DEF a
  <2>7. StatusFirst => StatusFirst'
    BY <1>t, <2>2, <2>4, <2>6, QueueFacts DEF StatusFirst, a, m
  <2>8. Truthful => Truthful'
    BY <1>t, <1>5, <2>2, <2>4, <2>5, <2>6, QueueFacts DEF Truthful, Serve, a
  <2> QED BY <1>5, <2>7, <2>8 DEF Serve
<1>6. CASE Kill
  BY <1>6 DEF Kill, StatusFirst
<1>7. CASE Restart
  <2>1. link = "cut" /\ link' = link
    BY <1>7 DEF Restart, Buffered, TypeOK
  <2> QED BY <1>7, <2>1 DEF Restart, StatusFirst
<1>8. CASE ReadPart
  BY <1>8 DEF ReadPart, StatusFirst, Truthful
<1>9. CASE ReadLine
  <2> DEFINE a == Head(answers)
  <2>1. /\ answers # <<>> /\ answers' = Tail(answers) /\ lines' > 0 /\ sock = "connected"
        /\ UNCHANGED <<sock, link, server>>
    BY <1>9, <1>t DEF ReadLine, TypeOK
  <2>2. Truthful => Truthful'
    BY <1>t, <2>1, QueueFacts DEF Truthful
  <2>3. a \in Answer /\ (Truthful => (a.of = "status.get" => (a.body = "enabled" <=> server.enabled)))
    BY <1>t, <2>1, QueueFacts DEF Truthful
  <2>4. CASE buffer = 1
    <3>1. /\ runtimeEnabled' = IF a.of = "status.get" THEN a.body = "enabled" ELSE runtimeEnabled
          /\ spoiled' = spoiled
      BY <1>9, <2>4 DEF ReadLine, Show
    <3>2. lines = 0 => a.of = "status.get"
      BY <2>1 DEF StatusFirst
    <3>3. lines = 0 \/ lines > 0
      BY <1>t
    <3> QED BY <2>1, <2>2, <2>3, <3>1, <3>2, <3>3 DEF TypeOK
  <2>5. CASE buffer # 1
    <3>1. spoiled' # {}
      BY <1>9, <2>5 DEF ReadLine
    <3> QED BY <1>t, <2>1, <2>2, <3>1
  <2> QED BY <2>4, <2>5
<1>10. CASE UNCHANGED vars
  BY <1>10 DEF vars, StatusFirst, Truthful
<1> QED BY <1>1, <1>2, <1>4, <1>5, <1>6, <1>7, <1>8, <1>9, <1>10 DEF Next, Client, User, Server

------------------------------------------------------------------------------
(* The theorems                                                              *)

LEMMA Inductive == Spec => []IInv
<1>1. Init => IInv
  <2> SUFFICES ASSUME Init PROVE IInv
    OBVIOUS
  <2>1. <<>> \in Seq(Methods) /\ <<>> \in Seq(Answer)
    OBVIOUS
  <2>2. TypeOK
    <3>1. /\ buffer \in 0..(kills + 1) /\ kills \in 0..MaxKills
          /\ lines \in 0..2 /\ spoiled \subseteq 1..lines
      BY RpcClientAssumption DEF Init
    <3> QED BY <2>1, <3>1 DEF Init, TypeOK
  <2>3. Buffered
    BY DEF Init, Buffered, Piece, Unnoticed
  <2>4. TimersFollowSocket
    BY DEF Init, TimersFollowSocket
  <2>5. ViewsHoldTheirKind
    BY DEF Init, ViewsHoldTheirKind, Nothing
  <2>6. Informed
    BY DEF Init, Informed
  <2> QED BY <2>2, <2>3, <2>4, <2>5, <2>6 DEF IInv
<1>2. IInv /\ [Next]_vars => IInv'
  BY BufferedStep, TypeStep, TimersStep, ViewsStep, InformedStep DEF IInv
<1> QED BY <1>1, <1>2, PTL DEF Spec

\* Type correctness of the client and its connection: in particular the buffer,
\* which onDisconnected does not clear, never holds more pieces of lines than
\* servers were killed, and one that is being read.
THEOREM TypeCorrect == Spec => []TypeOK
BY Inductive, PTL DEF IInv

\* However connections, refusals, losses, clicks and retries interleave, the
\* two timers follow the socket.
THEOREM TimersCorrect == Spec => []TimersFollowSocket
BY Inductive, PTL DEF IInv

\* No answer is shown in the list of another request, but for an empty one.
THEOREM ViewsCorrect == Spec => []ViewsHoldTheirKind
BY Inductive, PTL DEF IInv

\* The window shows the runtime state of the server it is connected to, unless
\* the first answer of the connection was spoiled by what the buffer still held.
THEOREM StatusCorrect == Spec => []StatusIsTheServers
<1>1. IInv => StatusIsTheServers
  BY DEF IInv, Buffered, Informed, StatusIsTheServers
<1> QED BY <1>1, Inductive, PTL
================================================================================

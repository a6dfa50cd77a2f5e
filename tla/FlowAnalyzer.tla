----------------------------- MODULE FlowAnalyzer -----------------------------
(***************************************************************************)
(* FlowSessionAnalyzer beside the connections it watches.  Connections     *)
(* send segments; the observation of a segment may be lost, because the    *)
(* pipeline before the analyzer drops events; what is observed goes into   *)
(* the signals of its flow.  Life on the wire is kept as history, so that  *)
(* the verdicts can be held against what really happened.                  *)
(***************************************************************************)
EXTENDS Integers

CONSTANTS
  Tcp, Udp,  \* the FlowKeys of the two protocols
  Timeout,   \* the diagnostic timeout snapshot is given
  Idle,      \* the idle time expire is given
  MaxCount,  \* the largest value of a counter, u64::MAX in the code
  MaxTime    \* bound: the clock

ASSUME FlowAnalyzerAssumption ==
  /\ Tcp \cap Udp = {}
  /\ Timeout \in Nat /\ Idle \in Nat /\ MaxCount \in Nat /\ MaxTime \in Nat

VARIABLES
  signals,   \* flows: the FlowSignals of the keys in the table
  now,       \* the clock
  wire,      \* history: the connection of each TCP key as it is
  whole      \* history: the TCP keys whose signals are those of the present
             \* connection from its first SYN on, with nothing lost

vars == <<signals, now, wire, whole>>

Keys == Tcp \cup Udp
None == -1

FlowSignals ==
  [syn_seen : BOOLEAN, syn_ack_seen : BOOLEAN, ack_seen : BOOLEAN,
   fin_seen : BOOLEAN, rst_seen : BOOLEAN,
   packets : 0..MaxCount, bytes : 0..MaxCount,
   first_seen : 0..MaxTime, last_seen : 0..MaxTime, connect_latency : 0..MaxTime \cup {None},
   tls_client_hello_seen : BOOLEAN, quic_long_header_seen : BOOLEAN]

\* A payload is what analyze_payload finds in it (see Parsers); the server name
\* and the QUIC version, which are only copied, are left out.
Length(payload) == IF payload = "empty" THEN 0 ELSE 1

------------------------------------------------------------------------------
(* The connections (external)                                                *)

\* The segments a connection may send: where it stands, the flags, where it
\* stands then.  A SYN opens a connection, again on a pair of ports that was
\* used before, and is retransmitted until it is answered.
Segment(from, flags, to) == [from : from, flags : {flags}, to : {to}]
Segments ==
  UNION {Segment({"none", "syn", "closed", "reset"}, {"syn"}, "syn"),
         Segment({"syn", "answered"}, {"syn", "ack"}, "answered"),
         Segment({"answered", "open"}, {"ack"}, "open"),
         Segment({"open", "closed"}, {"fin", "ack"}, "closed"),
         Segment({"closed"}, {"ack"}, "closed"),
         Segment({"syn"}, {"rst", "ack"}, "reset"),
         Segment({"answered", "open", "closed"}, {"rst"}, "reset")}

\* Only an established connection carries data.
Carries(seg) == IF seg.from = "open" /\ seg.flags \in {{"ack"}, {"fin", "ack"}}
                THEN {"empty", "hello", "other"} ELSE {"empty"}

Connection == [state : {"none", "syn", "answered", "open", "closed", "reset"},
               began : 0..MaxTime, took : 0..MaxTime \cup {None}, hello : BOOLEAN]

Opens(seg) == seg.flags = {"syn"} /\ seg.from # "syn"

\* The connection after a segment: its state, when it began, how long the
\* first SYN-ACK took, whether a ClientHello was sent.
After(w, seg, payload) ==
  LET c == IF Opens(seg) THEN [w EXCEPT !.began = now, !.took = None, !.hello = FALSE] ELSE w
  IN  [c EXCEPT !.state = seg.to,
                !.took = IF @ = None /\ seg.to = "answered" THEN now - c.began ELSE @,
                !.hello = @ \/ payload = "hello"]

Init ==
  /\ signals = [k \in {} |-> {}]
  /\ now = 0
  /\ wire = [k \in Tcp |-> [state |-> "none", began |-> 0, took |-> None, hello |-> FALSE]]
  /\ whole = {}

------------------------------------------------------------------------------
(* observe_packet                                                            *)

\* Mutant: plain addition, on a counter that has no more room.
GrowingAdd(m, n) == m + n

SaturatingAdd(m, n) == IF m + n > MaxCount THEN MaxCount ELSE m + n

NewSignals ==
  [syn_seen |-> FALSE, syn_ack_seen |-> FALSE, ack_seen |-> FALSE,
   fin_seen |-> FALSE, rst_seen |-> FALSE,
   packets |-> 0, bytes |-> 0,
   first_seen |-> now, last_seen |-> now, connect_latency |-> None,
   tls_client_hello_seen |-> FALSE, quic_long_header_seen |-> FALSE]

Count(s, flags, payload) ==
  [s EXCEPT !.packets = SaturatingAdd(@, 1),
            !.bytes = SaturatingAdd(@, Length(payload)),
            !.last_seen = now,
            !.syn_seen = @ \/ ("syn" \in flags /\ "ack" \notin flags),
            !.syn_ack_seen = @ \/ {"syn", "ack"} \subseteq flags,
            !.ack_seen = @ \/ "ack" \in flags,
            !.fin_seen = @ \/ "fin" \in flags,
            !.rst_seen = @ \/ "rst" \in flags,
            !.tls_client_hello_seen = @ \/ payload = "hello",
            !.quic_long_header_seen = @ \/ payload = "quic"]

\* Mutant: the latency is taken again at every segment.
MeasureAgain(s) ==
  IF s.syn_seen /\ s.syn_ack_seen THEN [s EXCEPT !.connect_latency = now - s.first_seen] ELSE s

\* The latency is taken once, when both SYN and SYN-ACK have been seen, from
\* the first packet of the entry, whatever packet that was.
Measure(s) ==
  IF s.connect_latency = None /\ s.syn_seen /\ s.syn_ack_seen
  THEN [s EXCEPT !.connect_latency = now - s.first_seen] ELSE s

Observe(k, flags, payload) ==
  LET s == IF k \in DOMAIN signals THEN signals[k] ELSE NewSignals
  IN  signals' = [j \in DOMAIN signals \cup {k} |->
                    IF j = k THEN Measure(Count(s, flags, payload)) ELSE signals[j]]

\* A segment is sent, and its observation reaches the analyzer or is lost.
Send(k) ==
  \E seg \in {g \in Segments : g.from = wire[k].state} : \E payload \in Carries(seg) :
     /\ wire' = [wire EXCEPT ![k] = After(@, seg, payload)]
     /\ \/ /\ Observe(k, seg.flags, payload)
           /\ whole' = IF ~Opens(seg) THEN whole
                       ELSE IF k \in DOMAIN signals THEN whole \ {k} ELSE whole \cup {k}
        \/ whole' = whole \ {k} /\ UNCHANGED signals
     /\ UNCHANGED now

\* A datagram has no flags.
Datagram(k) ==
  \E payload \in {"quic", "other"} : Observe(k, {}, payload) /\ UNCHANGED <<now, wire, whole>>

------------------------------------------------------------------------------
(* expire and snapshot                                                       *)

\* Mutant: a silence of exactly Idle is too long.
RetainedStrictly(s) == now - s.last_seen < Idle

Retained(s) == now - s.last_seen <= Idle

Expire ==
  LET kept == {k \in DOMAIN signals : Retained(signals[k])}
  IN  /\ signals' = [k \in kept |-> signals[k]]
      /\ whole' = whole \cap kept
      /\ UNCHANGED <<now, wire>>

\* Mutant: the signals are looked at in the order in which they usually come.
LifecycleInOrder(s) ==
  CASE s.fin_seen -> "FinSeen"
    [] s.rst_seen /\ ~s.fin_seen -> "Reset"
    [] OTHER -> IF s.syn_seen THEN IF s.syn_ack_seen /\ s.ack_seen THEN "Established" ELSE "SynSent"
                ELSE "New"

Lifecycle(s) ==
  IF s.rst_seen THEN "Reset"
  ELSE IF s.fin_seen THEN "FinSeen"
  ELSE IF s.syn_seen /\ s.syn_ack_seen /\ s.ack_seen THEN "Established"
  ELSE IF s.syn_seen THEN "SynSent" ELSE "New"

Diagnosis(s) ==
  IF s.rst_seen THEN "TcpReset"
  ELSE IF Lifecycle(s) = "SynSent"
       THEN IF now - s.last_seen >= Timeout THEN "IdleTimeoutSuspected" ELSE "TcpHandshakeIncomplete"
  ELSE IF s.tls_client_hello_seen THEN "TlsClientHelloObserved"
  ELSE IF s.quic_long_header_seen THEN "QuicLongHeaderObserved"
  ELSE IF Lifecycle(s) = "Established" THEN "HealthyTransport" ELSE "Unknown"

Snapshot(k) == [lifecycle |-> Lifecycle(signals[k]), diagnosis |-> Diagnosis(signals[k])]

Tick == now < MaxTime /\ now' = now + 1 /\ UNCHANGED <<signals, wire, whole>>

Next ==
  \/ \E k \in Tcp : Send(k)
  \/ \E k \in Udp : Datagram(k)
  \/ Expire \/ Tick

Spec == Init /\ [][Next]_vars

------------------------------------------------------------------------------
(* Properties                                                                *)

TypeOK ==
  /\ DOMAIN signals \subseteq Keys
  /\ \A k \in DOMAIN signals : /\ signals[k] \in FlowSignals
                               /\ signals[k].first_seen <= signals[k].last_seen
                               /\ signals[k].last_seen <= now
  /\ now \in 0..MaxTime
  /\ wire \in [Tcp -> Connection]
  /\ \A k \in Tcp : wire[k].began <= now
  /\ whole \subseteq Tcp \cap DOMAIN signals

\* Of a connection observed from its first SYN without a loss, lifecycle and
\* diagnosis tell the truth: incomplete or timed out exactly while its SYN is
\* unanswered (from the SYN-ACK on, which carries an ACK itself, it counts as
\* established), reset once it is reset whatever was seen before, a ClientHello
\* reported exactly if one was sent.  Signals that stick to an entry (a SYN
\* retransmitted, an ACK after the FIN, a RST after data) must not change that.
\* (flow_analyzer.rs observe_packet, lifecycle, diagnosis)
TrueLifecycle(w) ==
  IF w.state = "syn" THEN "SynSent" ELSE IF w.state = "reset" THEN "Reset"
  ELSE IF w.state = "closed" THEN "FinSeen" ELSE "Established"
TrueDiagnoses(w) ==
  IF w.state = "syn" THEN {"TcpHandshakeIncomplete", "IdleTimeoutSuspected"}
  ELSE IF w.state = "reset" THEN {"TcpReset"} ELSE IF w.hello THEN {"TlsClientHelloObserved"}
  ELSE IF w.state = "closed" THEN {"Unknown"} ELSE {"HealthyTransport"}
VerdictIsTrue ==
  \A k \in whole : /\ Snapshot(k).lifecycle = TrueLifecycle(wire[k])
                   /\ Snapshot(k).diagnosis \in TrueDiagnoses(wire[k])

\* Of such a connection connect_latency is the time from the first SYN to the
\* first SYN-ACK, through retransmissions of either and everything that comes
\* later, and there is none before.  (flow_analyzer.rs observe_packet)
LatencyIsHandshake == \A k \in whole : signals[k].connect_latency = wire[k].took

\* The analyzer keeps the flow table of Datapath and more: the same entries
\* with the same times and counters, through every packet and expiry, although
\* the two are written separately.  (flow_analyzer.rs observe_packet and expire,
\* datapath.rs on_packet and expire_idle)
FlowOf(s) == [created_at |-> s.first_seen, last_seen |-> s.last_seen,
              packets |-> s.packets, bytes |-> s.bytes]
Table == INSTANCE Datapath
           WITH flows <- [k \in DOMAIN signals |-> FlowOf(signals[k])], Lengths <- {0, 1}
TableSpec == Table!Spec
==============================================================================

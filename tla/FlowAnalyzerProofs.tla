-------------------------- MODULE FlowAnalyzerProofs --------------------------
(***************************************************************************)
(* Proofs about FlowAnalyzer, for every set of flows, every timeout and    *)
(* every width of the counters.                                            *)
(***************************************************************************)
EXTENDS FlowAnalyzer, TLAPS

USE FlowAnalyzerAssumption DEF FlowAnalyzerAssumption

\* The seven kinds of segment, one by one.
\* (flow_analyzer.rs TcpFlags, as observe_packet meets them)
LEMMA SegmentCases ==
  ASSUME NEW seg \in Segments
  PROVE  \/ seg.from \in {"none", "syn", "closed", "reset"} /\ seg.flags = {"syn"} /\ seg.to = "syn"
         \/ seg.from \in {"syn", "answered"} /\ seg.flags = {"syn", "ack"} /\ seg.to = "answered"
         \/ seg.from \in {"answered", "open"} /\ seg.flags = {"ack"} /\ seg.to = "open"
         \/ seg.from \in {"open", "closed"} /\ seg.flags = {"fin", "ack"} /\ seg.to = "closed"
         \/ seg.from = "closed" /\ seg.flags = {"ack"} /\ seg.to = "closed"
         \/ seg.from = "syn" /\ seg.flags = {"rst", "ack"} /\ seg.to = "reset"
         \/ seg.from \in {"answered", "open", "closed"} /\ seg.flags = {"rst"} /\ seg.to = "reset"
  BY DEF Segments, Segment

\* The saturating addition stays within the counter.  (saturating_add)
LEMMA SaturatingAddType ==
  ASSUME NEW m \in 0..MaxCount, NEW n \in Nat
  PROVE  SaturatingAdd(m, n) \in 0..MaxCount
  BY DEF SaturatingAdd

\* What one packet does to the signals of an entry.
\* (flow_analyzer.rs observe_packet)
LEMMA CountFields ==
  ASSUME NEW s \in FlowSignals, NEW flags, NEW payload, now \in 0..MaxTime
  PROVE  LET c == Count(s, flags, payload) IN
         /\ c \in FlowSignals
         /\ c.first_seen = s.first_seen /\ c.last_seen = now
         /\ c.connect_latency = s.connect_latency
         /\ c.packets = SaturatingAdd(s.packets, 1)
         /\ c.bytes = SaturatingAdd(s.bytes, Length(payload))
         /\ c.syn_seen <=> s.syn_seen \/ ("syn" \in flags /\ "ack" \notin flags)
         /\ c.syn_ack_seen <=> s.syn_ack_seen \/ {"syn", "ack"} \subseteq flags
         /\ c.ack_seen <=> s.ack_seen \/ "ack" \in flags
         /\ c.fin_seen <=> s.fin_seen \/ "fin" \in flags
         /\ c.rst_seen <=> s.rst_seen \/ "rst" \in flags
         /\ c.tls_client_hello_seen <=> s.tls_client_hello_seen \/ payload = "hello"
         /\ c.quic_long_header_seen <=> s.quic_long_header_seen \/ payload = "quic"
<1>1. SaturatingAdd(s.packets, 1) \in 0..MaxCount
  BY SaturatingAddType DEF FlowSignals
<1>2. SaturatingAdd(s.bytes, Length(payload)) \in 0..MaxCount
  BY SaturatingAddType DEF FlowSignals, Length
<1> DEFINE packets == SaturatingAdd(s.packets, 1)
           bytes == SaturatingAdd(s.bytes, Length(payload))
           syn == s.syn_seen \/ ("syn" \in flags /\ "ack" \notin flags)
           synAck == s.syn_ack_seen \/ {"syn", "ack"} \subseteq flags
           ack == s.ack_seen \/ "ack" \in flags
           fin == s.fin_seen \/ "fin" \in flags
           rst == s.rst_seen \/ "rst" \in flags
           hello == s.tls_client_hello_seen \/ payload = "hello"
           quic == s.quic_long_header_seen \/ payload = "quic"
<1>3. /\ syn \in BOOLEAN /\ synAck \in BOOLEAN /\ ack \in BOOLEAN /\ fin \in BOOLEAN
      /\ rst \in BOOLEAN /\ hello \in BOOLEAN /\ quic \in BOOLEAN
  OBVIOUS
<1>4. Count(s, flags, payload) =
        [s EXCEPT !.packets = packets, !.bytes = bytes, !.last_seen = now, !.syn_seen = syn,
                  !.syn_ack_seen = synAck, !.ack_seen = ack, !.fin_seen = fin, !.rst_seen = rst,
                  !.tls_client_hello_seen = hello, !.quic_long_header_seen = quic]
  BY DEF Count
<1> HIDE DEF packets, bytes, syn, synAck, ack, fin, rst, hello, quic
<1>5. packets \in 0..MaxCount /\ bytes \in 0..MaxCount
  BY <1>1, <1>2 DEF packets, bytes
<1>6. LET c == Count(s, flags, payload) IN
      /\ c \in FlowSignals
      /\ c.first_seen = s.first_seen /\ c.last_seen = now
      /\ c.connect_latency = s.connect_latency
      /\ c.packets = packets /\ c.bytes = bytes
      /\ c.syn_seen = syn /\ c.syn_ack_seen = synAck /\ c.ack_seen = ack
      /\ c.fin_seen = fin /\ c.rst_seen = rst
      /\ c.tls_client_hello_seen = hello /\ c.quic_long_header_seen = quic
  <2> DEFINE c == Count(s, flags, payload)
  <2>1. c \in FlowSignals
    <3> DEFINE d == [s EXCEPT !.packets = packets, !.bytes = bytes, !.last_seen = now, !.syn_seen = syn]
               e == [d EXCEPT !.syn_ack_seen = synAck, !.ack_seen = ack, !.fin_seen = fin]
    <3>1. d \in FlowSignals
      BY <1>3, <1>5 DEF FlowSignals
    <3>2. e \in FlowSignals
      <4> HIDE DEF d
      <4> QED BY <1>3, <3>1 DEF FlowSignals
    <3>3. [e EXCEPT !.rst_seen = rst, !.tls_client_hello_seen = hello,
                    !.quic_long_header_seen = quic] \in FlowSignals
      <4> HIDE DEF e
      <4> QED BY <1>3, <3>2 DEF FlowSignals
    <3> QED BY <1>4, <3>3
  <2>2. c.first_seen = s.first_seen /\ c.last_seen = now /\ c.connect_latency = s.connect_latency
    BY <1>4 DEF FlowSignals
  <2>4. c.packets = packets /\ c.bytes = bytes
    BY <1>4 DEF FlowSignals
  <2>3. /\ c.syn_seen = syn /\ c.syn_ack_seen = synAck /\ c.ack_seen = ack
        /\ c.fin_seen = fin /\ c.rst_seen = rst
        /\ c.tls_client_hello_seen = hello /\ c.quic_long_header_seen = quic
    BY <1>4 DEF FlowSignals
  <2> HIDE DEF c
  <2> QED BY <2>1, <2>2, <2>3, <2>4 DEF c
<1> QED
  BY <1>6 DEF packets, bytes, syn, synAck, ack, fin, rst, hello, quic

\* The measurement touches the latency and nothing else.
\* (flow_analyzer.rs observe_packet)
LEMMA MeasureFields ==
  ASSUME NEW s \in FlowSignals, now \in 0..MaxTime, s.first_seen <= now
  PROVE  LET m == Measure(s) IN
         /\ m \in FlowSignals
         /\ m = [s EXCEPT !.connect_latency = m.connect_latency]
         /\ m.connect_latency = IF s.connect_latency = None /\ s.syn_seen /\ s.syn_ack_seen
                                THEN now - s.first_seen ELSE s.connect_latency
  BY DEF Measure, FlowSignals, None

\* A new entry has the type of an entry.  (FlowSignals::default)
LEMMA NewSignalsType == ASSUME now \in 0..MaxTime PROVE NewSignals \in FlowSignals
  BY DEF NewSignals, FlowSignals, None

\* What an entry is after a packet, whether it was there before or not.
\* (flow_analyzer.rs observe_packet)
Entry(k) == IF k \in DOMAIN signals THEN signals[k] ELSE NewSignals

LEMMA ObserveFields ==
  ASSUME TypeOK, NEW k \in Keys, NEW flags, NEW payload, Observe(k, flags, payload)
  PROVE  /\ Entry(k) \in FlowSignals /\ Entry(k).first_seen <= now
         /\ DOMAIN signals' = DOMAIN signals \cup {k}
         /\ signals'[k] = Measure(Count(Entry(k), flags, payload))
         /\ signals'[k] \in FlowSignals
         /\ signals'[k].first_seen = Entry(k).first_seen /\ signals'[k].last_seen = now
         /\ \A j \in DOMAIN signals \ {k} : signals'[j] = signals[j]
<1>1. Entry(k) \in FlowSignals /\ Entry(k).first_seen <= now
  BY NewSignalsType DEF TypeOK, Entry, NewSignals, FlowSignals
<1> DEFINE c == Count(Entry(k), flags, payload)
           e == Measure(c)
<1>2. c \in FlowSignals /\ c.first_seen = Entry(k).first_seen /\ c.last_seen = now
  BY <1>1, CountFields DEF TypeOK
<1>3. signals' = [j \in DOMAIN signals \cup {k} |-> IF j = k THEN e ELSE signals[j]]
  BY DEF Observe, Entry
<1> HIDE DEF c
<1>4. e \in FlowSignals /\ e = [c EXCEPT !.connect_latency = e.connect_latency]
  BY <1>1, <1>2, MeasureFields DEF TypeOK
<1>5. e.first_seen = Entry(k).first_seen /\ e.last_seen = now
  BY <1>2, <1>4 DEF FlowSignals
<1> HIDE DEF e
<1>6. /\ DOMAIN signals' = DOMAIN signals \cup {k} /\ signals'[k] = e
      /\ \A j \in DOMAIN signals \ {k} : signals'[j] = signals[j]
  BY <1>3
<1> QED
  BY <1>1, <1>2, <1>4, <1>5, <1>6 DEF c, e

\* The table keeps its types through a packet.
LEMMA ObserveType ==
  ASSUME TypeOK, NEW k \in Keys, NEW flags, NEW payload,
         Observe(k, flags, payload), UNCHANGED now
  PROVE  /\ DOMAIN signals' = DOMAIN signals \cup {k} /\ DOMAIN signals' \subseteq Keys
         /\ \A j \in DOMAIN signals' : /\ signals'[j] \in FlowSignals
                                       /\ signals'[j].first_seen <= signals'[j].last_seen
                                       /\ signals'[j].last_seen <= now'
<1>1. /\ DOMAIN signals' = DOMAIN signals \cup {k}
      /\ \A j \in DOMAIN signals \ {k} : signals'[j] = signals[j]
      /\ signals'[k] \in FlowSignals
      /\ signals'[k].first_seen <= now /\ signals'[k].last_seen = now
  BY ObserveFields, Zenon
<1>2. now \in 0..MaxTime
  BY DEF TypeOK
<1> QED
  BY <1>1, <1>2 DEF TypeOK

\* The connection after a segment is a connection that began in the past.
LEMMA AfterType ==
  ASSUME NEW w \in Connection, NEW seg \in Segments, NEW payload, now \in 0..MaxTime, w.began <= now
  PROVE  After(w, seg, payload) \in Connection /\ After(w, seg, payload).began <= now
<1> DEFINE fresh == [w EXCEPT !.began = now, !.took = None, !.hello = FALSE]
           c == IF Opens(seg) THEN fresh ELSE w
           took == IF c.took = None /\ seg.to = "answered" THEN now - c.began ELSE c.took
           hello == c.hello \/ payload = "hello"
<1>1. seg.to \in {"syn", "answered", "open", "closed", "reset"}
  BY SegmentCases
<1>2. c \in Connection /\ c.began <= now
  <2>1. fresh \in Connection /\ fresh.began = now
    BY DEF Connection, None
  <2>2. c = fresh \/ c = w
    OBVIOUS
  <2> HIDE DEF fresh, c
  <2> QED
    BY <2>1, <2>2
<1>3. After(w, seg, payload) = [c EXCEPT !.state = seg.to, !.took = took, !.hello = hello]
  BY DEF After
<1> HIDE DEF c
<1>4. took \in 0..MaxTime \cup {None}
  BY <1>2 DEF Connection
<1>5. hello \in BOOLEAN
  BY <1>2 DEF Connection
<1> HIDE DEF took, hello
<1>6. [c EXCEPT !.state = seg.to, !.took = took, !.hello = hello] \in Connection
  BY <1>1, <1>2, <1>4, <1>5 DEF Connection
<1>7. [c EXCEPT !.state = seg.to, !.took = took, !.hello = hello].began = c.began
  BY <1>2 DEF Connection
<1> QED
  BY <1>2, <1>3, <1>6, <1>7

LEMMA TypeStep == TypeOK /\ [Next]_vars => TypeOK'
<1> SUFFICES ASSUME TypeOK, [Next]_vars PROVE TypeOK'
  OBVIOUS
<1>1. ASSUME NEW k \in Tcp, Send(k) PROVE TypeOK'
  <2>0. PICK seg \in Segments : \E payload :
          /\ wire' = [wire EXCEPT ![k] = After(@, seg, payload)]
          /\ \/ /\ Observe(k, seg.flags, payload)
                /\ whole' = IF ~Opens(seg) THEN whole
                            ELSE IF k \in DOMAIN signals THEN whole \ {k} ELSE whole \cup {k}
             \/ whole' = whole \ {k} /\ UNCHANGED signals
          /\ UNCHANGED now
    BY <1>1, Zenon DEF Send
  <2>1. PICK payload :
          /\ wire' = [wire EXCEPT ![k] = After(@, seg, payload)]
          /\ \/ /\ Observe(k, seg.flags, payload)
                /\ whole' = IF ~Opens(seg) THEN whole
                            ELSE IF k \in DOMAIN signals THEN whole \ {k} ELSE whole \cup {k}
             \/ whole' = whole \ {k} /\ UNCHANGED signals
          /\ UNCHANGED now
    BY <2>0
  <2>2. After(wire[k], seg, payload) \in Connection /\ After(wire[k], seg, payload).began <= now
    BY AfterType DEF TypeOK
  <2>3. wire' \in [Tcp -> Connection] /\ \A j \in Tcp : wire'[j].began <= now'
    BY <2>1, <2>2 DEF TypeOK
  <2>4. CASE Observe(k, seg.flags, payload) /\ whole' = IF ~Opens(seg) THEN whole
                  ELSE IF k \in DOMAIN signals THEN whole \ {k} ELSE whole \cup {k}
    <3>1. /\ DOMAIN signals' = DOMAIN signals \cup {k} /\ DOMAIN signals' \subseteq Keys
          /\ \A j \in DOMAIN signals' : /\ signals'[j] \in FlowSignals
                                        /\ signals'[j].first_seen <= signals'[j].last_seen
                                        /\ signals'[j].last_seen <= now'
      BY <2>1, <2>4, ObserveType, Zenon DEF Keys
    <3>2. whole' \subseteq Tcp \cap DOMAIN signals'
      BY <2>4, <3>1 DEF TypeOK
    <3> QED
      BY <2>1, <2>3, <3>1, <3>2 DEF TypeOK
  <2>5. CASE whole' = whole \ {k} /\ UNCHANGED signals
    BY <2>1, <2>3, <2>5 DEF TypeOK
  <2> QED
    BY <2>1, <2>4, <2>5
<1>2. ASSUME NEW k \in Udp, Datagram(k) PROVE TypeOK'
  <2>1. PICK payload : Observe(k, {}, payload) /\ UNCHANGED <<now, wire, whole>>
    BY <1>2 DEF Datagram
  <2>2. /\ DOMAIN signals' = DOMAIN signals \cup {k} /\ DOMAIN signals' \subseteq Keys
        /\ \A j \in DOMAIN signals' : /\ signals'[j] \in FlowSignals
                                      /\ signals'[j].first_seen <= signals'[j].last_seen
                                      /\ signals'[j].last_seen <= now'
    BY <2>1, ObserveType, Zenon DEF Keys
  <2> QED
    BY <2>1, <2>2 DEF TypeOK
<1>3. CASE Expire
  BY <1>3 DEF TypeOK, Expire
<1>4. CASE Tick
  BY <1>4 DEF TypeOK, Tick, FlowSignals, Connection
<1>5. CASE UNCHANGED vars
  BY <1>5 DEF TypeOK, vars
<1> QED
  BY <1>1, <1>2, <1>3, <1>4, <1>5 DEF Next

\* Every entry and every connection keeps its type, counters saturate, and no
\* time lies in the future.  (flow_analyzer.rs FlowSignals)
THEOREM TypeCorrect == Spec => []TypeOK
<1>1. Init => TypeOK
  BY DEF Init, TypeOK, Connection, None
<1> QED
  BY <1>1, TypeStep, PTL DEF Spec

-------------------------------------------------------------------------------
(* The verdicts                                                              *)

\* What the signals of an entry know of the connection they were taken from.
\* The FIN and the ClientHello stay behind when it is reset; the latency and
\* the SYN-ACK do so too, which is why they are tied to took and not to state.
Faithful(s, w) ==
  /\ w.state # "none" /\ s.syn_seen /\ ~s.quic_long_header_seen
  /\ s.rst_seen <=> w.state = "reset"
  /\ w.state = "syn" => ~s.syn_ack_seen
  /\ w.state \in {"answered", "open", "closed"} => s.syn_ack_seen /\ s.ack_seen
  /\ w.state # "reset" => (s.fin_seen <=> w.state = "closed")
  /\ s.tls_client_hello_seen <=> w.hello
  /\ w.took = None <=> ~s.syn_ack_seen
  /\ s.connect_latency = w.took
  /\ s.first_seen = w.began

Inv == \A k \in whole : Faithful(signals[k], wire[k])

\* A segment that opens no connection, observed.
\* (flow_analyzer.rs observe_packet)
LEMMA FaithfulSegment ==
  ASSUME NEW s \in FlowSignals, NEW w \in Connection, NEW seg \in Segments, NEW payload,
         now \in 0..MaxTime, s.first_seen <= now,
         seg.from = w.state, payload \in Carries(seg), ~Opens(seg), Faithful(s, w)
  PROVE  Faithful(Measure(Count(s, seg.flags, payload)), After(w, seg, payload))
<1> DEFINE c == Count(s, seg.flags, payload)
           m == Measure(c)
           v == After(w, seg, payload)
<1>1. /\ v.state = seg.to /\ v.began = w.began
      /\ v.took = IF w.took = None /\ seg.to = "answered" THEN now - w.began ELSE w.took
      /\ v.hello <=> w.hello \/ payload = "hello"
  BY DEF After, Connection
<1>2. /\ c \in FlowSignals
      /\ c.first_seen = s.first_seen /\ c.connect_latency = s.connect_latency
      /\ c.syn_seen <=> s.syn_seen \/ ("syn" \in seg.flags /\ "ack" \notin seg.flags)
      /\ c.syn_ack_seen <=> s.syn_ack_seen \/ {"syn", "ack"} \subseteq seg.flags
      /\ c.ack_seen <=> s.ack_seen \/ "ack" \in seg.flags
      /\ c.fin_seen <=> s.fin_seen \/ "fin" \in seg.flags
      /\ c.rst_seen <=> s.rst_seen \/ "rst" \in seg.flags
      /\ c.tls_client_hello_seen <=> s.tls_client_hello_seen \/ payload = "hello"
      /\ c.quic_long_header_seen <=> s.quic_long_header_seen \/ payload = "quic"
  BY CountFields
<1> HIDE DEF c, v
<1>3. /\ m = [c EXCEPT !.connect_latency = m.connect_latency]
      /\ m.connect_latency = IF c.connect_latency = None /\ c.syn_seen /\ c.syn_ack_seen
                             THEN now - c.first_seen ELSE c.connect_latency
  BY <1>2, MeasureFields
<1> HIDE DEF m
<1>4. /\ m.syn_seen = c.syn_seen /\ m.syn_ack_seen = c.syn_ack_seen /\ m.ack_seen = c.ack_seen
      /\ m.fin_seen = c.fin_seen /\ m.rst_seen = c.rst_seen /\ m.first_seen = c.first_seen
      /\ m.tls_client_hello_seen = c.tls_client_hello_seen
      /\ m.quic_long_header_seen = c.quic_long_header_seen
  BY <1>2, <1>3 DEF FlowSignals
<1>5. payload # "quic"
  BY DEF Carries
<1>6. {"syn", "ack"} \subseteq seg.flags <=> seg.to = "answered"
  BY SegmentCases
<1>7. seg.to = "answered" => w.state \in {"syn", "answered"}
  BY SegmentCases
<1>8. /\ v.state # "none" /\ m.syn_seen /\ ~m.quic_long_header_seen
      /\ m.tls_client_hello_seen <=> v.hello
      /\ m.first_seen = v.began
  BY <1>1, <1>2, <1>4, <1>5, SegmentCases DEF Faithful
<1>9. m.rst_seen <=> v.state = "reset"
  BY <1>1, <1>2, <1>4, SegmentCases DEF Faithful, Opens
<1>10. v.state = "syn" => ~m.syn_ack_seen
  BY <1>1, <1>2, <1>4, <1>6, SegmentCases DEF Faithful, Opens
<1>11. v.state \in {"answered", "open", "closed"} => m.syn_ack_seen /\ m.ack_seen
  BY <1>1, <1>2, <1>4, <1>6, SegmentCases DEF Faithful, Opens
<1>12. v.state # "reset" => (m.fin_seen <=> v.state = "closed")
  BY <1>1, <1>2, <1>4, SegmentCases DEF Faithful, Opens
<1>13. now - w.began # None
  BY DEF Faithful, FlowSignals, Connection, None
<1>14. v.took = None <=> ~m.syn_ack_seen
  BY <1>1, <1>2, <1>4, <1>6, <1>13 DEF Faithful
<1>15. m.connect_latency = v.took
  BY <1>1, <1>2, <1>3, <1>6, <1>7 DEF Faithful
<1>16. Faithful(m, v)
  BY <1>8, <1>9, <1>10, <1>11, <1>12, <1>14, <1>15 DEF Faithful
<1> QED
  BY <1>16 DEF c, m, v

\* The SYN that opens a connection, observed as the first packet of its entry.
\* (flow_analyzer.rs observe_packet)
LEMMA FaithfulOpening ==
  ASSUME NEW w \in Connection, NEW seg \in Segments, NEW payload,
         now \in 0..MaxTime, payload \in Carries(seg), Opens(seg)
  PROVE  Faithful(Measure(Count(NewSignals, seg.flags, payload)), After(w, seg, payload))
<1> DEFINE c == Count(NewSignals, seg.flags, payload)
           m == Measure(c)
           v == After(w, seg, payload)
<1>1. seg.flags = {"syn"} /\ seg.to = "syn" /\ payload = "empty"
  BY SegmentCases DEF Opens, Carries
<1>2. v.state = "syn" /\ v.began = now /\ v.took = None /\ ~v.hello
  BY <1>1 DEF After, Connection, None
<1>3. /\ c \in FlowSignals
      /\ c.first_seen = now /\ c.connect_latency = None
      /\ c.syn_seen /\ ~c.syn_ack_seen /\ ~c.fin_seen /\ ~c.rst_seen
      /\ ~c.tls_client_hello_seen /\ ~c.quic_long_header_seen
  BY <1>1, NewSignalsType, CountFields DEF NewSignals
<1>4. m = c
  BY <1>3 DEF Measure
<1> QED
  BY <1>2, <1>3, <1>4 DEF Faithful

LEMMA InvStep == TypeOK /\ Inv /\ [Next]_vars => Inv'
<1> SUFFICES ASSUME TypeOK, Inv, [Next]_vars, NEW j \in whole'
             PROVE  Faithful(signals'[j], wire'[j])
  BY DEF Inv
<1>1. ASSUME NEW k \in Tcp, Send(k) PROVE Faithful(signals'[j], wire'[j])
  <2>1. PICK seg \in Segments :
          /\ seg.from = wire[k].state
          /\ \E payload \in Carries(seg) :
               /\ wire' = [wire EXCEPT ![k] = After(@, seg, payload)]
               /\ \/ /\ Observe(k, seg.flags, payload)
                     /\ whole' = IF ~Opens(seg) THEN whole
                                 ELSE IF k \in DOMAIN signals THEN whole \ {k} ELSE whole \cup {k}
                  \/ whole' = whole \ {k} /\ UNCHANGED signals
    BY <1>1 DEF Send
  <2>2. PICK payload \in Carries(seg) :
          /\ wire' = [wire EXCEPT ![k] = After(@, seg, payload)]
          /\ \/ /\ Observe(k, seg.flags, payload)
                /\ whole' = IF ~Opens(seg) THEN whole
                            ELSE IF k \in DOMAIN signals THEN whole \ {k} ELSE whole \cup {k}
             \/ whole' = whole \ {k} /\ UNCHANGED signals
    BY <2>1
  <2>3. /\ wire[k] \in Connection /\ wire'[k] = After(wire[k], seg, payload)
        /\ j # k => wire'[j] = wire[j]
    BY <2>2 DEF TypeOK
  <2>4. CASE whole' = whole \ {k} /\ UNCHANGED signals
    BY <2>3, <2>4 DEF Inv
  <2>5. CASE Observe(k, seg.flags, payload) /\ whole' = IF ~Opens(seg) THEN whole
                  ELSE IF k \in DOMAIN signals THEN whole \ {k} ELSE whole \cup {k}
    <3>1. /\ Entry(k) \in FlowSignals /\ Entry(k).first_seen <= now
          /\ signals'[k] = Measure(Count(Entry(k), seg.flags, payload))
          /\ \A i \in DOMAIN signals \ {k} : signals'[i] = signals[i]
      <4>1. k \in Keys
        BY DEF Keys
      <4> QED
        BY <2>5, <4>1, ObserveFields, Zenon
    <3>2. CASE j # k
      <4>1. j \in whole
        BY <2>5, <3>2
      <4> QED
        BY <2>3, <3>1, <3>2, <4>1 DEF Inv, TypeOK
    <3>3. CASE j = k /\ ~Opens(seg)
      <4>1. k \in whole /\ k \in DOMAIN signals
        BY <2>5, <3>3 DEF TypeOK
      <4>2. Entry(k) = signals[k] /\ Faithful(signals[k], wire[k])
        BY <4>1 DEF Entry, Inv
      <4> QED
        BY <2>1, <2>3, <3>1, <3>3, <4>2, FaithfulSegment DEF TypeOK
    <3>4. CASE j = k /\ Opens(seg)
      <4>1. k \notin DOMAIN signals
        BY <2>5, <3>4 DEF TypeOK
      <4>2. Entry(k) = NewSignals
        BY <4>1 DEF Entry
      <4> QED
        BY <2>3, <3>1, <3>4, <4>2, FaithfulOpening DEF TypeOK
    <3> QED
      BY <3>2, <3>3, <3>4
  <2> QED
    BY <2>2, <2>4, <2>5
<1>2. ASSUME NEW k \in Udp, Datagram(k) PROVE Faithful(signals'[j], wire'[j])
  <2>1. PICK payload : Observe(k, {}, payload) /\ UNCHANGED <<now, wire, whole>>
    BY <1>2 DEF Datagram
  <2>2. j \in whole /\ j \in DOMAIN signals \ {k}
    BY <2>1 DEF TypeOK
  <2>3. signals'[j] = signals[j]
    BY <2>1, <2>2, ObserveFields, Zenon DEF Keys
  <2> QED
    BY <2>1, <2>2, <2>3 DEF Inv
<1>3. CASE Expire
  <2>1. j \in whole /\ signals'[j] = signals[j] /\ wire'[j] = wire[j]
    BY <1>3 DEF Expire
  <2> QED
    BY <2>1 DEF Inv
<1>4. CASE Tick
  BY <1>4 DEF Inv, Tick
<1>5. CASE UNCHANGED vars
  BY <1>5 DEF Inv, vars
<1> QED
  BY <1>1, <1>2, <1>3, <1>4, <1>5 DEF Next

\* The signals of an entry that has missed nothing know the connection.
LEMMA InvCorrect == Spec => [](TypeOK /\ Inv)
<1>1. Init => TypeOK /\ Inv
  BY DEF Init, TypeOK, Inv, Connection, None
<1> QED
  BY <1>1, TypeStep, InvStep, PTL DEF Spec

\* Lifecycle and diagnosis tell the truth of every connection observed from its
\* first SYN without a loss.  (flow_analyzer.rs lifecycle, diagnosis)
THEOREM VerdictCorrect == Spec => []VerdictIsTrue
<1>1. ASSUME NEW s, NEW w \in Connection, Faithful(s, w)
      PROVE  Lifecycle(s) = TrueLifecycle(w) /\ Diagnosis(s) \in TrueDiagnoses(w)
  BY <1>1 DEF Faithful, Connection, Lifecycle, Diagnosis, TrueLifecycle, TrueDiagnoses
<1>2. TypeOK /\ Inv => VerdictIsTrue
  BY <1>1 DEF TypeOK, Inv, VerdictIsTrue, Snapshot
<1> QED
  BY <1>2, InvCorrect, PTL

\* The latency of such a connection is that of its handshake.
\* (flow_analyzer.rs observe_packet)
THEOREM LatencyCorrect == Spec => []LatencyIsHandshake
<1>1. TypeOK /\ Inv => LatencyIsHandshake
  BY DEF Inv, Faithful, LatencyIsHandshake
<1> QED
  BY <1>1, InvCorrect, PTL

-------------------------------------------------------------------------------
(* The refinement                                                            *)

\* The table of the analyzer: what Datapath has of each of its entries.
Shown == [k \in DOMAIN signals |-> FlowOf(signals[k])]

\* A packet is counted in the entry as Datapath counts it.
\* (flow_analyzer.rs observe_packet, datapath.rs on_packet)
LEMMA FlowOfCounted ==
  ASSUME NEW s \in FlowSignals, NEW flags, NEW payload, now \in 0..MaxTime, s.first_seen <= now
  PROVE  FlowOf(Measure(Count(s, flags, payload))) =
           [created_at |-> s.first_seen, last_seen |-> now,
            packets |-> SaturatingAdd(s.packets, 1),
            bytes |-> SaturatingAdd(s.bytes, Length(payload))]
<1> DEFINE c == Count(s, flags, payload)
           m == Measure(c)
<1>1. /\ c \in FlowSignals /\ c.first_seen = s.first_seen /\ c.last_seen = now
      /\ c.packets = SaturatingAdd(s.packets, 1)
      /\ c.bytes = SaturatingAdd(s.bytes, Length(payload))
  BY CountFields
<1> HIDE DEF c
<1>2. m = [c EXCEPT !.connect_latency = m.connect_latency]
  BY <1>1, MeasureFields
<1> HIDE DEF m
<1>3. /\ m.first_seen = c.first_seen /\ m.last_seen = c.last_seen
      /\ m.packets = c.packets /\ m.bytes = c.bytes
  BY <1>1, <1>2 DEF FlowSignals
<1> QED
  BY <1>1, <1>3 DEF FlowOf, c, m

\* A packet observed is a packet of Datapath.
LEMMA ObserveIsOnPacket ==
  ASSUME TypeOK, NEW k \in Keys, NEW flags, NEW payload,
         Observe(k, flags, payload), UNCHANGED now
  PROVE  Table!Next
<1> DEFINE entry == IF k \in DOMAIN Shown THEN Shown[k]
                    ELSE [created_at |-> now, last_seen |-> now, packets |-> 0, bytes |-> 0]
           counted == [entry EXCEPT !.last_seen = now,
                                    !.packets = SaturatingAdd(@, 1),
                                    !.bytes = SaturatingAdd(@, Length(payload))]
<1>1. /\ Entry(k) \in FlowSignals /\ Entry(k).first_seen <= now
      /\ DOMAIN signals' = DOMAIN signals \cup {k}
      /\ signals'[k] = Measure(Count(Entry(k), flags, payload))
      /\ \A j \in DOMAIN signals \ {k} : signals'[j] = signals[j]
  BY ObserveFields
<1>2. entry = FlowOf(Entry(k))
  BY DEF Shown, Entry, FlowOf, NewSignals
<1>3. FlowOf(signals'[k]) = counted
  <2> DEFINE s == Entry(k)
             packets == SaturatingAdd(s.packets, 1)
             bytes == SaturatingAdd(s.bytes, Length(payload))
  <2>1. FlowOf(signals'[k]) =
          [created_at |-> s.first_seen, last_seen |-> now, packets |-> packets, bytes |-> bytes]
    BY <1>1, FlowOfCounted DEF TypeOK
  <2>2. /\ entry = [created_at |-> s.first_seen, last_seen |-> s.last_seen,
                    packets |-> s.packets, bytes |-> s.bytes]
        /\ entry.packets = s.packets /\ entry.bytes = s.bytes
    BY <1>2 DEF FlowOf
  <2>3. counted = [entry EXCEPT !.last_seen = now, !.packets = packets, !.bytes = bytes]
    BY <2>2
  <2> HIDE DEF s, entry, counted, packets, bytes
  <2>4. counted = [created_at |-> s.first_seen, last_seen |-> now, packets |-> packets,
                   bytes |-> bytes]
    BY <2>2, <2>3
  <2> QED
    BY <2>1, <2>4
<1> HIDE DEF counted
<1>4. Shown' = [j \in DOMAIN Shown \cup {k} |-> IF j # k THEN Shown[j] ELSE counted]
  BY <1>1, <1>3 DEF Shown
<1>5. Length(payload) \in {0, 1}
  BY DEF Length
<1>6. Table!OnPacket(k, Length(payload))
  BY <1>4 DEF Table!OnPacket, Table!SaturatingAdd, SaturatingAdd, Shown, counted
<1> QED
  BY <1>5, <1>6 DEF Table!Next

\* The analyzer keeps the table of Datapath: every packet it observes and every
\* expiry is one of the table's, and nothing else touches it.
\* (flow_analyzer.rs observe_packet and expire, datapath.rs)
THEOREM TableCorrect == Spec => TableSpec
<1>1. Init => Table!Init
  BY DEF Init, Table!Init
<1>2. TypeOK /\ [Next]_vars => [Table!Next]_<<Shown, now>>
  <2> SUFFICES ASSUME TypeOK, [Next]_vars PROVE Table!Next \/ UNCHANGED <<Shown, now>>
    OBVIOUS
  <2>1. ASSUME NEW k \in Tcp, Send(k) PROVE Table!Next \/ UNCHANGED <<Shown, now>>
    <3>1. PICK seg, payload :
            /\ Observe(k, seg.flags, payload) \/ UNCHANGED signals
            /\ UNCHANGED now
      BY <2>1, Zenon DEF Send
    <3>2. CASE Observe(k, seg.flags, payload)
      <4>1. k \in Keys
        BY DEF Keys
      <4> QED
        BY <3>1, <3>2, <4>1, ObserveIsOnPacket, Zenon
    <3>3. CASE UNCHANGED signals
      BY <3>1, <3>3 DEF Shown
    <3> QED
      BY <3>1, <3>2, <3>3
  <2>2. ASSUME NEW k \in Udp, Datagram(k) PROVE Table!Next
    <3>1. PICK payload : Observe(k, {}, payload) /\ UNCHANGED now
      BY <2>2 DEF Datagram
    <3>2. k \in Keys
      BY DEF Keys
    <3> QED
      BY <3>1, <3>2, ObserveIsOnPacket, Zenon
  <2>3. CASE Expire
    <3>1. Shown' = [k \in {j \in DOMAIN Shown : now - Shown[j].last_seen <= Idle} |-> Shown[k]]
      BY <2>3 DEF Expire, Retained, Shown, FlowOf
    <3>2. Table!ExpireIdle
      BY <2>3, <3>1 DEF Expire, Table!ExpireIdle, Shown
    <3> QED
      BY <3>2 DEF Table!Next
  <2>4. CASE Tick
    BY <2>4 DEF Tick, Table!Next, Table!Tick
  <2>5. CASE UNCHANGED vars
    BY <2>5 DEF vars, Shown
  <2> QED
    BY <2>1, <2>2, <2>3, <2>4, <2>5 DEF Next
<1> QED
  BY <1>1, <1>2, TypeCorrect, PTL DEF Spec, TableSpec, Table!Spec, Shown
===============================================================================

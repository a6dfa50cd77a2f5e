-------------------------------- MODULE Parsers --------------------------------
(***************************************************************************)
(* The parsers of observed bytes: parse_ipv4_transport for a packet,       *)
(* analyze_tls_client_hello and analyze_quic_header for a payload.  A byte *)
(* is an arbitrary value chosen when it is read, no parser reads one       *)
(* twice; what remains is the arithmetic of lengths and positions.  As in  *)
(* Rust, an index or a slice beyond the end of its slice is a panic.       *)
(***************************************************************************)
EXTENDS Integers

CONSTANTS
  MaxLen,    \* bound: the longest input
  MaxByte,   \* the largest value of one byte: 255 in the code
  MaxField   \* the largest value of a length in two or three bytes: 65535 and more

ASSUME ParsersAssumption == MaxLen \in Nat /\ MaxByte \in Nat /\ MaxField \in Nat

VARIABLES
  parser,   \* which of the parsers runs
  stage,    \* what it reads next, or how it ended
  len,      \* the length of the slice it reads: bytes, payload, hs, body
  pos,      \* its position in that slice
  end,      \* extensions_end of the ClientHello; total_len of the packet
  extEnd,   \* where the server_name extension ends
  np,       \* the position in that extension
  listEnd,  \* where its list of names ends
  name,     \* the name taken as sni: where it begins and ends in the extension,
            \* and where its list does
  payload   \* payload_len of an accepted packet

outputs == <<name, payload>>
vars == <<parser, stage, len, pos, end, extEnd, np, listEnd, outputs>>

Byte  == 0..MaxByte
Field == 0..MaxField
Errors == {"truncated", "malformed", "invalid", "not ipv4", "unsupported", "direction"}
Ends   == Errors \cup {"unknown", "hello", "quic", "packet", "panic"}
NoName == [from |-> 0, to |-> 0, list |-> 0]

Init ==
  /\ parser \in {"ipv4", "tls", "quic"} /\ stage = "start" /\ len \in 0..MaxLen
  /\ pos = 0 /\ end = 0 /\ extEnd = 0 /\ np = 0 /\ listEnd = 0
  /\ name = NoName /\ payload = 0

End(result) ==
  /\ stage' = result
  /\ UNCHANGED <<parser, len, pos, end, extEnd, np, listEnd, outputs>>

\* The bytes below n of a slice of length l are read before Then goes on.
Reading(n, l, Then) == IF n <= l THEN Then ELSE End("panic")

At(s) == parser = "tls" /\ stage = s

\* On to the next stage and position, in the same slice.
Goto(s, p) ==
  /\ stage' = s /\ pos' = p
  /\ UNCHANGED <<parser, len, end, extEnd, np, listEnd, outputs>>

\* Into the slice of length l at the end of the present one.
Enter(s, l) ==
  /\ stage' = s /\ len' = l /\ pos' = 0
  /\ UNCHANGED <<parser, end, extEnd, np, listEnd, outputs>>

------------------------------------------------------------------------------
(* analyze_tls_client_hello                                                  *)

Record ==
  /\ At("start")
  /\ IF len < 5 THEN End("truncated")
     ELSE Reading(5, len,
       \/ End("unknown")   \* not a handshake record
       \/ \E recordLen \in Field :
            IF recordLen > len - 5 THEN End("truncated")
            ELSE Reading(5 + recordLen, len, Enter("handshake", recordLen)))

Handshake ==
  /\ At("handshake")
  /\ IF len < 4 THEN End("unknown")
     ELSE Reading(4, len,
       \/ End("unknown")   \* not a ClientHello
       \/ \E handshakeLen \in Field :
            IF handshakeLen > len - 4 THEN End("truncated")
            ELSE Reading(4 + handshakeLen, len, Enter("body", handshakeLen)))

\* The version, the random bytes and the session identifier.  The test admits
\* a body of 34 bytes, but its byte 34 is read.
Hello ==
  /\ At("body")
  /\ IF len < 34 THEN End("malformed")
     ELSE Reading(35, len,
       \E sessionLen \in Byte :
         IF 35 + sessionLen > len THEN End("malformed") ELSE Goto("ciphers", 35 + sessionLen))

\* Mutant: the test forgets the two bytes of the length.
CiphersShort ==
  /\ At("ciphers")
  /\ IF pos > len THEN End("malformed")
     ELSE Reading(pos + 2, len,
       \E cipherLen \in Field :
         IF pos + 2 + cipherLen > len THEN End("malformed")
         ELSE Goto("compression", pos + 2 + cipherLen))

Ciphers ==
  /\ At("ciphers")
  /\ IF pos + 2 > len THEN End("malformed")
     ELSE Reading(pos + 2, len,
       \E cipherLen \in Field :
         IF pos + 2 + cipherLen > len THEN End("malformed")
         ELSE Goto("compression", pos + 2 + cipherLen))

\* A ClientHello may end here, without extensions.
Compression ==
  /\ At("compression")
  /\ IF pos >= len THEN End("hello")
     ELSE Reading(pos + 1, len,
       \E compressionLen \in Byte :
         IF pos + 1 + compressionLen > len THEN End("malformed")
         ELSE Goto("extensions", pos + 1 + compressionLen))

Extensions ==
  /\ At("extensions")
  /\ IF pos + 2 > len THEN End("malformed")
     ELSE Reading(pos + 2, len,
       \E extensionsLen \in Field :
         IF pos + 2 + extensionsLen > len THEN End("malformed")
         ELSE /\ stage' = "extension"
              /\ pos' = pos + 2 /\ end' = pos + 2 + extensionsLen
              /\ UNCHANGED <<parser, len, extEnd, np, listEnd, outputs>>)

\* One turn of the loop over the extensions.
Extension ==
  /\ At("extension")
  /\ IF pos + 4 > end THEN End("hello")
     ELSE Reading(pos + 4, len,
       \E extLen \in Field, serverName \in BOOLEAN :
         IF pos + 4 + extLen > end THEN End("malformed")
         ELSE IF serverName /\ extLen >= 5
         THEN /\ stage' = "list" /\ pos' = pos + 4 /\ extEnd' = pos + 4 + extLen
              /\ UNCHANGED <<parser, len, end, np, listEnd, outputs>>
         ELSE Goto("extension", pos + 4 + extLen))

ExtLen == extEnd - pos

NameList ==
  /\ At("list")
  /\ Reading(extEnd, len, Reading(2, ExtLen,
       \E l \in Field :
         IF l + 2 > ExtLen THEN End("malformed")
         ELSE /\ stage' = "name" /\ np' = 2 /\ listEnd' = 2 + l
              /\ UNCHANGED <<parser, len, pos, end, extEnd, outputs>>))

\* Mutant: the name is not compared with the end of the list.
NameLoose ==
  /\ At("name")
  /\ IF np + 3 > listEnd THEN Goto("extension", extEnd)
     ELSE Reading(np + 3, ExtLen,
       \E nameLen \in Field, host \in BOOLEAN, utf8 \in BOOLEAN :
         LET to == np + 3 + nameLen IN
         IF to > ExtLen THEN End("malformed")
         ELSE IF host /\ nameLen > 0
         THEN /\ stage' = "extension" /\ pos' = extEnd
              /\ name' = IF utf8 THEN [from |-> np + 3, to |-> to, list |-> listEnd] ELSE name
              /\ UNCHANGED <<parser, len, end, extEnd, np, listEnd, payload>>
         ELSE /\ np' = to
              /\ UNCHANGED <<parser, stage, len, pos, end, extEnd, listEnd, outputs>>)

\* Mutant: without a host name the loop over the extensions continues before
\* the position has moved on.
NameContinue ==
  /\ At("name")
  /\ IF np + 3 > listEnd THEN Goto("extension", pos - 4)
     ELSE Reading(np + 3, ExtLen,
       \E nameLen \in Field, host \in BOOLEAN, utf8 \in BOOLEAN :
         LET to == np + 3 + nameLen IN
         IF to > listEnd \/ to > ExtLen THEN End("malformed")
         ELSE IF host /\ nameLen > 0
         THEN Reading(to, ExtLen,
                /\ stage' = "extension" /\ pos' = extEnd
                /\ name' = IF utf8 THEN [from |-> np + 3, to |-> to, list |-> listEnd] ELSE name
                /\ UNCHANGED <<parser, len, end, extEnd, np, listEnd, payload>>)
         ELSE /\ np' = to
              /\ UNCHANGED <<parser, stage, len, pos, end, extEnd, listEnd, outputs>>)

\* One turn of the loop over the names: the first host name ends it, and is
\* the sni if it is UTF-8.
Name ==
  /\ At("name")
  /\ IF np + 3 > listEnd THEN Goto("extension", extEnd)
     ELSE Reading(np + 3, ExtLen,
       \E nameLen \in Field, host \in BOOLEAN, utf8 \in BOOLEAN :
         LET to == np + 3 + nameLen IN
         IF to > listEnd \/ to > ExtLen THEN End("malformed")
         ELSE IF host /\ nameLen > 0
         THEN Reading(to, ExtLen,
                /\ stage' = "extension" /\ pos' = extEnd
                /\ name' = IF utf8 THEN [from |-> np + 3, to |-> to, list |-> listEnd] ELSE name
                /\ UNCHANGED <<parser, len, end, extEnd, np, listEnd, payload>>)
         ELSE /\ np' = to
              /\ UNCHANGED <<parser, stage, len, pos, end, extEnd, listEnd, outputs>>)

Tls == Record \/ Handshake \/ Hello \/ Ciphers \/ Compression \/ Extensions
       \/ Extension \/ NameList \/ Name

------------------------------------------------------------------------------
(* analyze_quic_header                                                       *)

Quic ==
  /\ parser = "quic" /\ stage = "start"
  /\ IF len = 0 THEN End("truncated")
     ELSE Reading(1, len,
       \/ End("unknown")   \* a short header
       \/ IF len < 6 THEN End("truncated")
          ELSE Reading(6, len,
            \E dcid \in Byte :
              IF dcid > 20 \/ 6 + dcid + 1 > len THEN End("malformed")
              ELSE Reading(6 + dcid + 1, len,
                \E scid \in Byte :
                  IF scid > 20 \/ 6 + dcid + 1 + scid > len THEN End("malformed")
                  ELSE End("quic"))))

------------------------------------------------------------------------------
(* parse_ipv4_transport                                                      *)

\* What four bits count in words of four bytes.
HeaderLengths == {4 * words : words \in 0..15}

\* On to the transport header of a packet.
Transport(s, ihl, total) ==
  /\ stage' = s /\ pos' = ihl /\ end' = total
  /\ UNCHANGED <<parser, len, extEnd, np, listEnd, outputs>>

\* The header length is ihl: pos becomes it, end the total length.
Addresses(ihl) ==
  IF ihl < 20 \/ len < ihl THEN End("invalid")
  ELSE \E total \in Field :
         IF total < ihl \/ total > len THEN End("truncated")
         ELSE \/ End("direction")      \* PacketDirection::Unknown
              \/ End("unsupported")    \* neither TCP nor UDP
              \/ \E s \in {"tcp", "udp"} : Transport(s, ihl, total)

IpHeader ==
  /\ parser = "ipv4" /\ stage = "start"
  /\ IF len < 20 THEN End("truncated")
     ELSE Reading(20, len, End("not ipv4") \/ \E ihl \in HeaderLengths : Addresses(ihl))

Packet(p) ==
  /\ stage' = "packet" /\ payload' = p
  /\ UNCHANGED <<parser, len, pos, end, extEnd, np, listEnd, name>>

\* Mutant: the data offset is not compared with the packet.
TcpTrusting ==
  /\ stage = "tcp"
  /\ IF end < pos + 20 THEN End("invalid")
     ELSE Reading(pos + 14, len,
       \E dataOffset \in HeaderLengths :
         IF dataOffset < 20 THEN End("invalid") ELSE Packet(end - pos - dataOffset))

Tcp ==
  /\ stage = "tcp"
  /\ IF end < pos + 20 THEN End("invalid")
     ELSE Reading(pos + 14, len,
       \E dataOffset \in HeaderLengths :
         IF dataOffset < 20 \/ pos + dataOffset > end THEN End("invalid")
         ELSE Packet(end - pos - dataOffset))

\* Mutant: the length of the UDP header is not compared with the packet.
UdpTrusting ==
  /\ stage = "udp"
  /\ IF end < pos + 8 THEN End("invalid")
     ELSE Reading(pos + 6, len,
       \E udpLen \in Field :
         IF udpLen < 8 THEN End("invalid") ELSE Packet(udpLen - 8))

Udp ==
  /\ stage = "udp"
  /\ IF end < pos + 8 THEN End("invalid")
     ELSE Reading(pos + 6, len,
       \E udpLen \in Field :
         IF udpLen < 8 \/ pos + udpLen > end THEN End("invalid") ELSE Packet(udpLen - 8))

Ipv4 == IpHeader \/ Tcp \/ Udp

------------------------------------------------------------------------------
Next == Tls \/ Quic \/ Ipv4

Spec == Init /\ [][Next]_vars

\* A parser runs to its end in the call that starts it.
FairSpec == Spec /\ WF_vars(Next)

------------------------------------------------------------------------------
(* Properties                                                                *)

Stages == Ends \cup {"start", "handshake", "body", "ciphers", "compression", "extensions",
                     "extension", "list", "name", "tcp", "udp"}

\* The types of the variables: no unsigned subtraction went below zero.
TypeOK ==
  /\ parser \in {"ipv4", "tls", "quic"} /\ stage \in Stages
  /\ len \in Nat /\ pos \in Nat /\ end \in Nat /\ extEnd \in Nat
  /\ np \in Nat /\ listEnd \in Nat /\ payload \in Nat
  /\ name \in [from : Nat, to : Nat, list : Nat]

\* No input makes a parser index beyond its slice (transport.rs, packet.rs).
NeverPanics == stage # "panic"

\* The one input that does: a ClientHello body of exactly 34 bytes, whose
\* session identifier length would be byte 34 (transport.rs:67 and 71).
PanicsOnlyOnShortHello == stage = "panic" => parser = "tls" /\ len = 34 /\ pos = 0

\* The sni is a nonempty part of the extension, within its list of names and
\* not overlapping their headers (transport.rs: the loop over the names).
NameInsideList ==
  name # NoName =>
    /\ 5 <= name.from /\ name.from < name.to
    /\ name.to <= name.list

\* An accepted packet has its headers and its payload within its total length,
\* which is within the bytes observed: payload_len counts no byte that is not
\* there (packet.rs: parse_ipv4_transport).
PayloadInsidePacket ==
  stage = "packet" => pos + payload + 8 <= end /\ end <= len

\* The loops over extensions and names advance: every parser ends
\* (transport.rs: the loops at pos and np).
ParserEnds == <>(stage \in Ends)
================================================================================

----------------------------- MODULE ParsersProofs -----------------------------
(***************************************************************************)
(* Proofs about Parsers, for inputs and fields of every length: no parser  *)
(* reads beyond its slice but for one ClientHello, the sni is inside its   *)
(* list, and the payload inside its packet.                                *)
(***************************************************************************)
EXTENDS Parsers, TLAPS

(***************************************************************************)
(* The invariant says at each stage what the tests passed so far have      *)
(* established about positions and ends.                                   *)
(***************************************************************************)

\* Before the session identifier the position is the start of the slice; the
\* stages of the two loops belong to a ClientHello, tcp and udp to a packet.
AtStart ==
  /\ stage \in {"start", "handshake", "body"} => pos = 0
  /\ stage \in {"handshake", "body"} => parser = "tls"

InExtensions ==
  /\ stage = "extension" => end <= len
  /\ stage = "list" => end <= len /\ pos + 5 <= extEnd /\ extEnd <= end
  /\ stage = "name" => /\ end <= len /\ extEnd <= end
                       /\ 2 <= np /\ pos + listEnd <= extEnd

InPacket == stage \in {"tcp", "udp"} => pos <= end /\ end <= len

Inv ==
  /\ TypeOK /\ AtStart /\ InExtensions /\ InPacket
  /\ PanicsOnlyOnShortHello /\ NameInsideList /\ PayloadInsidePacket

LEMMA InitInv == Init => Inv
BY ParsersAssumption DEF Init, Inv, TypeOK, Stages, Ends, Errors, NoName, AtStart, InExtensions,
  InPacket, PanicsOnlyOnShortHello, NameInsideList, PayloadInsidePacket

\* Ending a parse without a panic and without a packet disturbs nothing.
LEMMA EndInv ==
  ASSUME Inv, NEW r \in Errors \cup {"unknown", "hello", "quic"}, End(r)
  PROVE  Inv'
<1>1. /\ stage' = r /\ parser' = parser /\ len' = len /\ pos' = pos /\ end' = end
      /\ extEnd' = extEnd /\ np' = np /\ listEnd' = listEnd
      /\ name' = name /\ payload' = payload
  BY DEF End, outputs
<1>2. /\ r \in Stages
      /\ r \notin {"start", "handshake", "body", "extension", "list", "name", "tcp", "udp",
                    "packet", "panic"}
  BY DEF Errors, Stages, Ends
<1>3. TypeOK'
  BY <1>1, <1>2 DEF Inv, TypeOK
<1>4. (AtStart /\ InExtensions /\ InPacket /\ PanicsOnlyOnShortHello /\ PayloadInsidePacket)'
  BY <1>1, <1>2 DEF AtStart, InExtensions, InPacket, PanicsOnlyOnShortHello, PayloadInsidePacket
<1>5. NameInsideList'
  BY <1>1 DEF Inv, NameInsideList
<1> QED BY <1>3, <1>4, <1>5 DEF Inv

\* A step that only moves on in a body, within it or not, disturbs nothing
\* before the extensions.
LEMMA GotoInv ==
  ASSUME Inv, NEW s \in {"ciphers", "compression", "extensions"}, NEW p \in Nat, Goto(s, p)
  PROVE  Inv'
<1>1. stage' = s /\ pos' = p /\ name' = name
      /\ UNCHANGED <<parser, len, end, extEnd, np, listEnd, payload>>
  BY DEF Goto, outputs
<1>2. TypeOK'
  BY <1>1 DEF Inv, TypeOK, Stages
<1>3. (AtStart /\ InExtensions /\ InPacket /\ PanicsOnlyOnShortHello /\ PayloadInsidePacket)'
  BY <1>1 DEF AtStart, InExtensions, InPacket, PanicsOnlyOnShortHello, PayloadInsidePacket
<1>4. NameInsideList'
  BY <1>1 DEF Inv, NameInsideList
<1> QED BY <1>2, <1>3, <1>4 DEF Inv

LEMMA TlsHeaderInv ==
  ASSUME Inv, Record \/ Handshake \/ Hello
  PROVE  Inv'
<1> USE ParsersAssumption DEF Field, Byte, At, Reading
<1>0. len \in Nat
  BY DEF Inv, TypeOK
<1>1. CASE Record
  <2>1. End("truncated") \/ End("unknown") \/ \E l \in Field : Enter("handshake", l)
    BY <1>0, <1>1 DEF Record
  <2>2. CASE End("truncated") \/ End("unknown")
    BY <2>2, EndInv DEF Errors
  <2>3. CASE \E l \in Field : Enter("handshake", l)
    BY <1>1, <2>3 DEF Enter, outputs, Inv, TypeOK, Stages, Ends, Errors, AtStart, InExtensions,
      InPacket, PanicsOnlyOnShortHello, NameInsideList, PayloadInsidePacket, NoName, Record
  <2> QED BY <2>1, <2>2, <2>3
<1>2. CASE Handshake
  <2>1. End("truncated") \/ End("unknown") \/ \E l \in Field : Enter("body", l)
    BY <1>0, <1>2 DEF Handshake
  <2>2. CASE End("truncated") \/ End("unknown")
    BY <2>2, EndInv DEF Errors
  <2>3. CASE \E l \in Field : Enter("body", l)
    BY <1>2, <2>3 DEF Enter, outputs, Inv, TypeOK, Stages, Ends, Errors, AtStart, InExtensions,
      InPacket, PanicsOnlyOnShortHello, NameInsideList, PayloadInsidePacket, NoName, Handshake
  <2> QED BY <2>1, <2>2, <2>3
<1>3. CASE Hello
  <2>1. \/ End("malformed")
        \/ len = 34 /\ End("panic")
        \/ \E n \in Byte : Goto("ciphers", 35 + n)
    BY <1>0, <1>3 DEF Hello
  <2>2. CASE End("malformed")
    BY <2>2, EndInv DEF Errors
  <2>3. CASE len = 34 /\ End("panic")
    BY <1>3, <2>3 DEF End, outputs, Inv, TypeOK, Stages, Ends, Errors, AtStart, InExtensions,
      InPacket, PanicsOnlyOnShortHello, NameInsideList, PayloadInsidePacket, NoName, Hello
  <2>4. CASE \E n \in Byte : Goto("ciphers", 35 + n)
    BY <2>4, GotoInv
  <2> QED BY <2>1, <2>2, <2>3, <2>4
<1> QED BY <1>1, <1>2, <1>3

LEMMA TlsFieldsInv ==
  ASSUME Inv, Ciphers \/ Compression \/ Extensions
  PROVE  Inv'
<1> USE ParsersAssumption DEF Field, Byte, At, Reading
<1>0. len \in Nat /\ pos \in Nat
  BY DEF Inv, TypeOK
<1>1. CASE Ciphers
  <2>1. End("malformed") \/ \E p \in Nat : Goto("compression", p)
    BY <1>0, <1>1 DEF Ciphers
  <2> QED BY <2>1, EndInv, GotoInv DEF Errors
<1>2. CASE Compression
  <2>1. End("hello") \/ End("malformed") \/ \E p \in Nat : Goto("extensions", p)
    BY <1>0, <1>2 DEF Compression
  <2> QED BY <2>1, EndInv, GotoInv DEF Errors
<1>3. CASE Extensions
  <2>1. \/ End("malformed")
        \/ \E n \in Field :
             /\ pos + 2 + n <= len
             /\ stage' = "extension" /\ pos' = pos + 2 /\ end' = pos + 2 + n
             /\ UNCHANGED <<parser, len, extEnd, np, listEnd, outputs>>
    BY <1>0, <1>3 DEF Extensions
  <2>2. CASE End("malformed")
    BY <2>2, EndInv DEF Errors
  <2>3. ASSUME NEW n \in Field, pos + 2 + n <= len,
               stage' = "extension", pos' = pos + 2, end' = pos + 2 + n,
               UNCHANGED <<parser, len, extEnd, np, listEnd, outputs>>
        PROVE  Inv'
    <3>1. name' = name /\ payload' = payload
      BY <2>3 DEF outputs
    <3>2. TypeOK'
      BY <1>0, <2>3, <3>1 DEF Inv, TypeOK, Stages
    <3>3. (AtStart /\ InExtensions /\ InPacket /\ PanicsOnlyOnShortHello /\ PayloadInsidePacket)'
      BY <1>0, <2>3 DEF AtStart, InExtensions, InPacket, PanicsOnlyOnShortHello, PayloadInsidePacket
    <3>4. NameInsideList'
      BY <3>1 DEF Inv, NameInsideList
    <3> QED BY <3>2, <3>3, <3>4 DEF Inv
  <2> QED BY <2>1, <2>2, <2>3
<1> QED BY <1>1, <1>2, <1>3

\* Back to the loop over the extensions, wherever in the body.
LEMMA LoopInv ==
  ASSUME Inv, end <= len, NEW p \in Nat, Goto("extension", p)
  PROVE  Inv'
<1>1. stage' = "extension" /\ pos' = p /\ name' = name
      /\ UNCHANGED <<parser, len, end, extEnd, np, listEnd, payload>>
  BY DEF Goto, outputs
<1>2. TypeOK'
  BY <1>1 DEF Inv, TypeOK, Stages
<1>3. (AtStart /\ InExtensions /\ InPacket /\ PanicsOnlyOnShortHello /\ PayloadInsidePacket)'
  BY <1>1 DEF AtStart, InExtensions, InPacket, PanicsOnlyOnShortHello, PayloadInsidePacket
<1>4. NameInsideList'
  BY <1>1 DEF Inv, NameInsideList
<1> QED BY <1>2, <1>3, <1>4 DEF Inv

LEMMA ExtensionInv ==
  ASSUME Inv, Extension
  PROVE  Inv'
<1> USE ParsersAssumption DEF Field, Byte, At, Reading
<1>0. len \in Nat /\ pos \in Nat /\ end \in Nat /\ end <= len /\ stage = "extension"
  BY DEF Inv, TypeOK, InExtensions, Extension
<1>1. \/ End("hello") \/ End("malformed")
      \/ \E n \in Field :
           /\ pos + 4 + n <= end /\ n >= 5
           /\ stage' = "list" /\ pos' = pos + 4 /\ extEnd' = pos + 4 + n
           /\ UNCHANGED <<parser, len, end, np, listEnd, outputs>>
      \/ \E p \in Nat : Goto("extension", p)
  BY <1>0 DEF Extension
<1>2. CASE End("hello") \/ End("malformed")
  BY <1>2, EndInv DEF Errors
<1>3. ASSUME NEW n \in Field, pos + 4 + n <= end, n >= 5,
             stage' = "list", pos' = pos + 4, extEnd' = pos + 4 + n,
             UNCHANGED <<parser, len, end, np, listEnd, outputs>>
      PROVE  Inv'
  <2>1. name' = name /\ payload' = payload
    BY <1>3 DEF outputs
  <2>2. TypeOK'
    BY <1>0, <1>3, <2>1 DEF Inv, TypeOK, Stages
  <2>3. (AtStart /\ InExtensions /\ InPacket /\ PanicsOnlyOnShortHello /\ PayloadInsidePacket)'
    BY <1>0, <1>3 DEF AtStart, InExtensions, InPacket, PanicsOnlyOnShortHello, PayloadInsidePacket
  <2>4. NameInsideList'
    BY <2>1 DEF Inv, NameInsideList
  <2> QED BY <2>2, <2>3, <2>4 DEF Inv
<1>4. ASSUME NEW p \in Nat, Goto("extension", p)
      PROVE  Inv'
  BY <1>0, <1>4, LoopInv
<1> QED BY <1>1, <1>2, <1>3, <1>4

LEMMA NameListInv ==
  ASSUME Inv, NameList
  PROVE  Inv'
<1> USE ParsersAssumption DEF Field, At, Reading, ExtLen
<1>0. /\ len \in Nat /\ pos \in Nat /\ end \in Nat /\ extEnd \in Nat /\ stage = "list"
      /\ end <= len /\ pos + 5 <= extEnd /\ extEnd <= end
  BY DEF Inv, TypeOK, InExtensions, NameList
<1>1. \/ End("malformed")
      \/ \E l \in Field :
           /\ l + 2 <= extEnd - pos
           /\ stage' = "name" /\ np' = 2 /\ listEnd' = 2 + l
           /\ UNCHANGED <<parser, len, pos, end, extEnd, outputs>>
  BY <1>0 DEF NameList
<1>2. CASE End("malformed")
  BY <1>2, EndInv DEF Errors
<1>3. ASSUME NEW l \in Field, l + 2 <= extEnd - pos,
             stage' = "name", np' = 2, listEnd' = 2 + l,
             UNCHANGED <<parser, len, pos, end, extEnd, outputs>>
      PROVE  Inv'
  <2>1. name' = name /\ payload' = payload
    BY <1>3 DEF outputs
  <2>2. TypeOK'
    BY <1>0, <1>3, <2>1 DEF Inv, TypeOK, Stages
  <2>3. (AtStart /\ InExtensions /\ InPacket /\ PanicsOnlyOnShortHello /\ PayloadInsidePacket)'
    BY <1>0, <1>3 DEF AtStart, InExtensions, InPacket, PanicsOnlyOnShortHello, PayloadInsidePacket
  <2>4. NameInsideList'
    BY <2>1 DEF Inv, NameInsideList
  <2> QED BY <2>2, <2>3, <2>4 DEF Inv
<1> QED BY <1>1, <1>2, <1>3

LEMMA NameInv ==
  ASSUME Inv, Name
  PROVE  Inv'
<1> USE ParsersAssumption DEF Field, At, Reading, ExtLen
<1>0. /\ len \in Nat /\ pos \in Nat /\ end \in Nat /\ extEnd \in Nat
      /\ np \in Nat /\ listEnd \in Nat /\ stage = "name"
      /\ end <= len /\ extEnd <= end /\ 2 <= np /\ pos + listEnd <= extEnd
  BY DEF Inv, TypeOK, InExtensions, Name
<1>1. \/ End("malformed")
      \/ Goto("extension", extEnd)
      \/ \E n \in Field, utf8 \in BOOLEAN :
           /\ np + 3 + n <= listEnd /\ n > 0
           /\ stage' = "extension" /\ pos' = extEnd
           /\ name' = IF utf8 THEN [from |-> np + 3, to |-> np + 3 + n, list |-> listEnd] ELSE name
           /\ UNCHANGED <<parser, len, end, extEnd, np, listEnd, payload>>
      \/ \E n \in Field :
           /\ np' = np + 3 + n
           /\ UNCHANGED <<parser, stage, len, pos, end, extEnd, listEnd, outputs>>
  BY <1>0 DEF Name
<1>2. CASE End("malformed")
  BY <1>2, EndInv DEF Errors
<1>3. CASE Goto("extension", extEnd)
  BY <1>0, <1>3, LoopInv
<1>4. ASSUME NEW n \in Field, NEW utf8 \in BOOLEAN, np + 3 + n <= listEnd, n > 0,
             stage' = "extension", pos' = extEnd,
             name' = IF utf8 THEN [from |-> np + 3, to |-> np + 3 + n, list |-> listEnd] ELSE name,
             UNCHANGED <<parser, len, end, extEnd, np, listEnd, payload>>
      PROVE  Inv'
  <2>1. name' \in [from : Nat, to : Nat, list : Nat]
    BY <1>0, <1>4 DEF Inv, TypeOK
  <2>2. TypeOK'
    BY <1>0, <1>4, <2>1 DEF Inv, TypeOK, Stages
  <2>3. (AtStart /\ InExtensions /\ InPacket /\ PanicsOnlyOnShortHello /\ PayloadInsidePacket)'
    BY <1>0, <1>4 DEF AtStart, InExtensions, InPacket, PanicsOnlyOnShortHello, PayloadInsidePacket
  <2>4. NameInsideList'
    BY <1>0, <1>4 DEF Inv, NameInsideList
  <2> QED BY <2>2, <2>3, <2>4 DEF Inv
<1>5. ASSUME NEW n \in Field, np' = np + 3 + n,
             UNCHANGED <<parser, stage, len, pos, end, extEnd, listEnd, outputs>>
      PROVE  Inv'
  <2>1. name' = name /\ payload' = payload
    BY <1>5 DEF outputs
  <2>2. TypeOK'
    BY <1>0, <1>5, <2>1 DEF Inv, TypeOK, Stages
  <2>3. (AtStart /\ InExtensions /\ InPacket /\ PanicsOnlyOnShortHello /\ PayloadInsidePacket)'
    BY <1>0, <1>5 DEF AtStart, InExtensions, InPacket, PanicsOnlyOnShortHello, PayloadInsidePacket
  <2>4. NameInsideList'
    BY <2>1 DEF Inv, NameInsideList
  <2> QED BY <2>2, <2>3, <2>4 DEF Inv
<1> QED BY <1>1, <1>2, <1>3, <1>4, <1>5

LEMMA QuicInv ==
  ASSUME Inv, Quic
  PROVE  Inv'
<1> USE ParsersAssumption DEF Byte, Reading
<1>0. len \in Nat
  BY DEF Inv, TypeOK
<1>1. End("truncated") \/ End("unknown") \/ End("malformed") \/ End("quic")
  BY <1>0 DEF Quic
<1> QED BY <1>1, EndInv DEF Errors

LEMMA AddressesInv ==
  ASSUME Inv, NEW ihl \in Nat, Addresses(ihl)
  PROVE  Inv'
<1> USE ParsersAssumption DEF Field
<1>0. len \in Nat
  BY DEF Inv, TypeOK
<1>1. \/ End("invalid") \/ End("truncated") \/ End("direction") \/ End("unsupported")
      \/ \E total \in Field, s \in {"tcp", "udp"} :
           ihl <= total /\ total <= len /\ Transport(s, ihl, total)
  BY <1>0 DEF Addresses
<1>2. CASE \/ End("invalid") \/ End("truncated") \/ End("direction") \/ End("unsupported")
  BY <1>2, EndInv DEF Errors
<1>3. ASSUME NEW total \in Field, NEW s \in {"tcp", "udp"},
             ihl <= total, total <= len, Transport(s, ihl, total)
      PROVE  Inv'
  <2>1. /\ stage' = s /\ pos' = ihl /\ end' = total /\ name' = name
        /\ UNCHANGED <<parser, len, extEnd, np, listEnd, payload>>
    BY <1>3 DEF Transport, outputs
  <2>2. TypeOK'
    BY <2>1 DEF Inv, TypeOK, Stages
  <2>3. (AtStart /\ InExtensions /\ InPacket /\ PanicsOnlyOnShortHello /\ PayloadInsidePacket)'
    BY <1>0, <1>3, <2>1 DEF AtStart, InExtensions, InPacket, PanicsOnlyOnShortHello,
      PayloadInsidePacket
  <2>4. NameInsideList'
    BY <2>1 DEF Inv, NameInsideList
  <2> QED BY <2>2, <2>3, <2>4 DEF Inv
<1> QED BY <1>1, <1>2, <1>3

LEMMA Ipv4Inv ==
  ASSUME Inv, Ipv4
  PROVE  Inv'
<1> USE ParsersAssumption DEF Field, Reading
<1>0. len \in Nat /\ pos \in Nat /\ end \in Nat
  BY DEF Inv, TypeOK
<1>1. HeaderLengths \subseteq Nat
  BY DEF HeaderLengths
<1>2. CASE IpHeader
  <2>1. End("truncated") \/ End("not ipv4") \/ \E ihl \in HeaderLengths : Addresses(ihl)
    <3>1. len < 20 \/ (~(len < 20) /\ 20 <= len)
      BY <1>0
    <3> QED BY <1>2, <3>1 DEF IpHeader
  <2>2. CASE End("truncated") \/ End("not ipv4")
    BY <2>2, EndInv DEF Errors
  <2>3. ASSUME NEW ihl \in HeaderLengths, Addresses(ihl)
        PROVE  Inv'
    BY <1>1, <2>3, AddressesInv
  <2> QED BY <2>1, <2>2, <2>3
<1>3. CASE Tcp \/ Udp
  <2>0. pos <= end /\ end <= len
    BY <1>3 DEF Inv, InPacket, Tcp, Udp
  <2>1. End("invalid") \/ \E p \in Nat : pos + p + 8 <= end /\ Packet(p)
    <3>1. CASE Tcp
      BY <1>0, <1>1, <2>0, <3>1 DEF Tcp
    <3>2. CASE Udp
      BY <1>0, <2>0, <3>2 DEF Udp
    <3> QED BY <1>3, <3>1, <3>2
  <2>2. CASE End("invalid")
    BY <2>2, EndInv DEF Errors
  <2>3. ASSUME NEW p \in Nat, pos + p + 8 <= end, Packet(p)
        PROVE  Inv'
    <3>1. stage' = "packet" /\ payload' = p /\ name' = name
          /\ UNCHANGED <<parser, len, pos, end, extEnd, np, listEnd>>
      BY <2>3 DEF Packet
    <3>2. TypeOK'
      BY <3>1 DEF Inv, TypeOK, Stages, Ends
    <3>3. (AtStart /\ InExtensions /\ InPacket /\ PanicsOnlyOnShortHello /\ PayloadInsidePacket)'
      BY <2>0, <2>3, <3>1 DEF AtStart, InExtensions, InPacket, PanicsOnlyOnShortHello,
        PayloadInsidePacket
    <3>4. NameInsideList'
      BY <3>1 DEF Inv, NameInsideList
    <3> QED BY <3>2, <3>3, <3>4 DEF Inv
  <2> QED BY <2>1, <2>2, <2>3
<1> QED BY <1>2, <1>3 DEF Ipv4

LEMMA StutterInv ==
  ASSUME Inv, UNCHANGED vars
  PROVE  Inv'
BY DEF vars, outputs, Inv, TypeOK, AtStart, InExtensions, InPacket, PanicsOnlyOnShortHello,
  NameInsideList, PayloadInsidePacket

LEMMA InvariantHolds == Spec => []Inv
<1>1. Inv /\ [Next]_vars => Inv'
  BY TlsHeaderInv, TlsFieldsInv, ExtensionInv, NameListInv, NameInv, QuicInv, Ipv4Inv, StutterInv
     DEF Next, Tls
<1> QED BY InitInv, <1>1, PTL DEF Spec

\* Every length and position is a natural number: no unsigned subtraction of
\* the parsers goes below zero.
THEOREM TypeCorrect == Spec => []TypeOK
BY InvariantHolds, PTL DEF Inv

\* For inputs and fields of every length, no parser reads beyond its slice,
\* except a ClientHello body of 34 bytes at its session identifier.
THEOREM PanicCorrect == Spec => []PanicsOnlyOnShortHello
BY InvariantHolds, PTL DEF Inv

\* The sni lies inside its list of names, behind the headers.
THEOREM NameCorrect == Spec => []NameInsideList
BY InvariantHolds, PTL DEF Inv

\* The headers and the payload of an accepted packet lie inside it, and it
\* inside the bytes observed.
THEOREM PayloadCorrect == Spec => []PayloadInsidePacket
BY InvariantHolds, PTL DEF Inv
------------------------------------------------------------------------------
(* The parsers end: each test moves on, and the loops over the extensions    *)
(* and the names have fewer bytes left after each turn.                      *)

\* The loops stay inside the bytes they were given.
InLoop ==
  /\ stage = "extension" => pos <= end
  /\ stage = "name" => np <= listEnd

\* A bound on the reads that are left.
Left ==
  CASE stage = "start"       -> len + 7
    [] stage = "handshake"   -> len + 6
    [] stage = "body"        -> len + 5
    [] stage = "ciphers"     -> len + 4
    [] stage = "compression" -> len + 3
    [] stage = "extensions"  -> len + 2
    [] stage = "extension"   -> end - pos + 1
    [] stage = "list"        -> end - pos + 3
    [] stage = "name"        -> end - pos + 4 - np
    [] stage \in {"tcp", "udp"} -> 1
    [] OTHER -> 0

LEMMA LeftOf ==
  /\ stage = "start" => Left = len + 7
  /\ stage = "handshake" => Left = len + 6
  /\ stage = "body" => Left = len + 5
  /\ stage = "ciphers" => Left = len + 4
  /\ stage = "compression" => Left = len + 3
  /\ stage = "extensions" => Left = len + 2
  /\ stage = "extension" => Left = end - pos + 1
  /\ stage = "list" => Left = end - pos + 3
  /\ stage = "name" => Left = end - pos + 4 - np
  /\ stage \in {"tcp", "udp"} => Left = 1
  /\ stage \in Ends => Left = 0
BY DEF Left, Ends, Errors

LEMMA LeftNext ==
  /\ stage' = "handshake" => Left' = len' + 6
  /\ stage' = "body" => Left' = len' + 5
  /\ stage' = "ciphers" => Left' = len' + 4
  /\ stage' = "compression" => Left' = len' + 3
  /\ stage' = "extensions" => Left' = len' + 2
  /\ stage' = "extension" => Left' = end' - pos' + 1
  /\ stage' = "list" => Left' = end' - pos' + 3
  /\ stage' = "name" => Left' = end' - pos' + 4 - np'
  /\ stage' \in {"tcp", "udp"} => Left' = 1
  /\ stage' \in Ends => Left' = 0
BY DEF Left, Ends, Errors

LEMMA LeftPositive ==
  ASSUME Inv, InLoop
  PROVE  Left \in Nat /\ (stage \notin Ends => Left > 0)
<1>1. len \in Nat /\ pos \in Nat /\ end \in Nat /\ extEnd \in Nat /\ np \in Nat /\ listEnd \in Nat
      /\ stage \in Stages
  BY DEF Inv, TypeOK
<1>2. stage = "list" => end - pos \in Nat
  BY <1>1 DEF Inv, InExtensions
<1>3. stage = "name" => end - pos - np \in Nat
  BY <1>1 DEF Inv, InExtensions, InLoop
<1>4. stage = "extension" => end - pos \in Nat
  BY <1>1 DEF InLoop
<1> QED BY <1>1, <1>2, <1>3, <1>4, LeftOf DEF Stages

IsNat == Left \in Nat

LEMMA NatAlways == Inv /\ InLoop => IsNat
BY LeftPositive DEF IsNat

LEMMA NatNext ==
  ASSUME Inv', InLoop'
  PROVE  IsNat'
BY NatAlways, PTL

\* What each reader does to the bound.
Shrinks == InLoop' /\ Left' < Left

LEMMA EndShrinks ==
  ASSUME Inv, InLoop, stage \notin Ends, NEW r \in Ends, End(r)
  PROVE  Shrinks
<1>1. stage' = r /\ r \notin {"extension", "name"}
  BY DEF End, Ends, Errors
<1> QED BY <1>1, LeftNext, LeftPositive DEF Shrinks, InLoop

LEMMA TlsHeaderShrinks ==
  ASSUME Inv, InLoop, Record \/ Handshake \/ Hello
  PROVE  Shrinks
<1> USE ParsersAssumption DEF Field, Byte, At, Reading
<1>0. len \in Nat /\ stage \notin Ends
  BY DEF Inv, TypeOK, Record, Handshake, Hello, Ends, Errors
<1>1. ASSUME NEW r \in {"truncated", "unknown", "malformed", "panic"}, End(r) PROVE Shrinks
  BY <1>0, <1>1, EndShrinks DEF Ends, Errors
<1>2. CASE Record
  <2>1. End("truncated") \/ End("unknown") \/ \E l \in Field : l <= len - 5 /\ Enter("handshake", l)
    BY <1>0, <1>2 DEF Record
  <2>2. ASSUME NEW l \in Field, l <= len - 5, Enter("handshake", l) PROVE Shrinks
    <3>1. stage' = "handshake" /\ len' = l /\ stage = "start"
      BY <1>2, <2>2 DEF Enter, Record
    <3> QED BY <1>0, <2>2, <3>1, LeftOf, LeftNext DEF Shrinks, InLoop
  <2> QED BY <1>1, <2>1, <2>2
<1>3. CASE Handshake
  <2>1. End("truncated") \/ End("unknown") \/ \E l \in Field : l <= len - 4 /\ Enter("body", l)
    BY <1>0, <1>3 DEF Handshake
  <2>2. ASSUME NEW l \in Field, l <= len - 4, Enter("body", l) PROVE Shrinks
    <3>1. stage' = "body" /\ len' = l /\ stage = "handshake"
      BY <1>3, <2>2 DEF Enter, Handshake
    <3> QED BY <1>0, <2>2, <3>1, LeftOf, LeftNext DEF Shrinks, InLoop
  <2> QED BY <1>1, <2>1, <2>2
<1>4. CASE Hello
  <2>1. End("malformed") \/ End("panic") \/ \E n \in Byte : Goto("ciphers", 35 + n)
    BY <1>0, <1>4 DEF Hello
  <2>2. ASSUME NEW n \in Byte, Goto("ciphers", 35 + n) PROVE Shrinks
    <3>1. stage' = "ciphers" /\ len' = len /\ stage = "body"
      BY <1>4, <2>2 DEF Goto, Hello
    <3> QED BY <1>0, <3>1, LeftOf, LeftNext DEF Shrinks, InLoop
  <2> QED BY <1>1, <2>1, <2>2
<1> QED BY <1>2, <1>3, <1>4

LEMMA TlsFieldsShrinks ==
  ASSUME Inv, InLoop, Ciphers \/ Compression \/ Extensions
  PROVE  Shrinks
<1> USE ParsersAssumption DEF Field, Byte, At, Reading
<1>0. len \in Nat /\ pos \in Nat /\ stage \notin Ends
  BY DEF Inv, TypeOK, Ciphers, Compression, Extensions, Ends, Errors
<1>1. ASSUME NEW r \in {"malformed", "hello"}, End(r) PROVE Shrinks
  BY <1>0, <1>1, EndShrinks DEF Ends, Errors
<1>2. CASE Ciphers
  <2>1. End("malformed") \/ \E p \in Nat : Goto("compression", p)
    BY <1>0, <1>2 DEF Ciphers
  <2>2. ASSUME NEW p \in Nat, Goto("compression", p) PROVE Shrinks
    <3>1. stage' = "compression" /\ len' = len /\ stage = "ciphers"
      BY <1>2, <2>2 DEF Goto, Ciphers
    <3> QED BY <1>0, <3>1, LeftOf, LeftNext DEF Shrinks, InLoop
  <2> QED BY <1>1, <2>1, <2>2
<1>3. CASE Compression
  <2>1. End("hello") \/ End("malformed") \/ \E p \in Nat : Goto("extensions", p)
    BY <1>0, <1>3 DEF Compression
  <2>2. ASSUME NEW p \in Nat, Goto("extensions", p) PROVE Shrinks
    <3>1. stage' = "extensions" /\ len' = len /\ stage = "compression"
      BY <1>3, <2>2 DEF Goto, Compression
    <3> QED BY <1>0, <3>1, LeftOf, LeftNext DEF Shrinks, InLoop
  <2> QED BY <1>1, <2>1, <2>2
<1>4. CASE Extensions
  <2>1. \/ End("malformed")
        \/ \E n \in Field : /\ pos + 2 + n <= len
                            /\ stage' = "extension" /\ pos' = pos + 2 /\ end' = pos + 2 + n
    BY <1>0, <1>4 DEF Extensions
  <2>2. ASSUME NEW n \in Field, pos + 2 + n <= len,
               stage' = "extension", pos' = pos + 2, end' = pos + 2 + n
        PROVE  Shrinks
    <3>1. stage = "extensions"
      BY <1>4 DEF Extensions
    <3> QED BY <1>0, <2>2, <3>1, LeftOf, LeftNext DEF Shrinks, InLoop
  <2> QED BY <1>1, <2>1, <2>2
<1> QED BY <1>2, <1>3, <1>4

LEMMA ExtensionShrinks ==
  ASSUME Inv, InLoop, Extension
  PROVE  Shrinks
<1> USE ParsersAssumption DEF Field, Byte, At, Reading
<1>0. len \in Nat /\ pos \in Nat /\ end \in Nat /\ stage = "extension" /\ end <= len /\ pos <= end
  BY DEF Inv, TypeOK, InExtensions, InLoop, Extension
<1>1. \/ End("hello") \/ End("malformed")
      \/ stage' = "list" /\ pos' = pos + 4 /\ end' = end
      \/ \E n \in Field : pos + 4 + n <= end /\ Goto("extension", pos + 4 + n)
  BY <1>0 DEF Extension
<1>2. CASE End("hello") \/ End("malformed")
  BY <1>0, <1>2, EndShrinks DEF Ends, Errors
<1>3. CASE stage' = "list" /\ pos' = pos + 4 /\ end' = end
  BY <1>0, <1>3, LeftOf, LeftNext DEF Shrinks, InLoop
<1>4. ASSUME NEW n \in Field, pos + 4 + n <= end, Goto("extension", pos + 4 + n)
      PROVE  Shrinks
  <2>1. stage' = "extension" /\ pos' = pos + 4 + n /\ end' = end
    BY <1>4 DEF Goto
  <2> QED BY <1>0, <1>4, <2>1, LeftOf, LeftNext DEF Shrinks, InLoop
<1> QED BY <1>1, <1>2, <1>3, <1>4

LEMMA NamesShrink ==
  ASSUME Inv, InLoop, NameList \/ Name
  PROVE  Shrinks
<1> USE ParsersAssumption DEF Field, At, Reading, ExtLen
<1>0. /\ len \in Nat /\ pos \in Nat /\ end \in Nat /\ extEnd \in Nat /\ np \in Nat /\ listEnd \in Nat
      /\ stage \in {"list", "name"} /\ end <= len /\ extEnd <= end
      /\ stage = "list" => pos + 5 <= extEnd
      /\ stage = "name" => 2 <= np /\ np <= listEnd /\ pos + listEnd <= extEnd
  BY DEF Inv, TypeOK, InExtensions, InLoop, NameList, Name
<1>1. ASSUME End("malformed") PROVE Shrinks
  BY <1>0, <1>1, EndShrinks DEF Ends, Errors
<1>2. CASE NameList
  <2>1. \/ End("malformed")
        \/ \E l \in Field : stage' = "name" /\ np' = 2 /\ listEnd' = 2 + l /\ UNCHANGED <<pos, end>>
    BY <1>0, <1>2 DEF NameList
  <2>2. stage = "list"
    BY <1>2 DEF NameList
  <2> QED BY <1>0, <1>1, <2>1, <2>2, LeftOf, LeftNext DEF Shrinks, InLoop
<1>3. CASE Name
  <2>1. \/ End("malformed")
        \/ stage' = "extension" /\ pos' = extEnd /\ end' = end
        \/ \E n \in Field : /\ np' = np + 3 + n /\ np' <= listEnd
                            /\ UNCHANGED <<stage, pos, end, listEnd>>
    BY <1>0, <1>3 DEF Name, Goto
  <2>2. stage = "name"
    BY <1>3 DEF Name
  <2>3. CASE stage' = "extension" /\ pos' = extEnd /\ end' = end
    BY <1>0, <2>2, <2>3, LeftOf, LeftNext DEF Shrinks, InLoop
  <2>4. ASSUME NEW n \in Field, np' = np + 3 + n, np' <= listEnd,
               UNCHANGED <<stage, pos, end, listEnd>>
        PROVE  Shrinks
    BY <1>0, <2>2, <2>4, LeftOf, LeftNext DEF Shrinks, InLoop
  <2> QED BY <1>1, <2>1, <2>3, <2>4
<1> QED BY <1>2, <1>3

LEMMA HeadersShrink ==
  ASSUME Inv, InLoop, Quic \/ Ipv4
  PROVE  Shrinks
<1> USE ParsersAssumption DEF Field, Byte, Reading
<1>0. len \in Nat /\ pos \in Nat /\ end \in Nat /\ stage \notin Ends /\ HeaderLengths \subseteq Nat
  <2>1. stage \in {"start", "tcp", "udp"}
    BY DEF Quic, Ipv4, IpHeader, Tcp, Udp
  <2>2. HeaderLengths \subseteq Nat
    BY DEF HeaderLengths
  <2> QED BY <2>1, <2>2 DEF Inv, TypeOK, Ends, Errors
<1>1. CASE Quic
  <2>1. End("truncated") \/ End("unknown") \/ End("malformed") \/ End("quic")
    BY <1>0, <1>1 DEF Quic
  <2> QED BY <1>0, <2>1, EndShrinks DEF Ends, Errors
<1>2. CASE IpHeader
  <2>1. End("truncated") \/ End("not ipv4") \/ \E ihl \in HeaderLengths : Addresses(ihl)
    <3>1. len < 20 \/ (~(len < 20) /\ 20 <= len)
      BY <1>0
    <3> QED BY <1>2, <3>1 DEF IpHeader
  <2>2. ASSUME NEW ihl \in HeaderLengths, Addresses(ihl) PROVE Shrinks
    <3>1. \/ End("invalid") \/ End("truncated") \/ End("direction") \/ End("unsupported")
          \/ stage' \in {"tcp", "udp"}
      BY <2>2 DEF Addresses, Transport
    <3>2. CASE stage' \in {"tcp", "udp"}
      <4>1. stage = "start"
        BY <1>2 DEF IpHeader
      <4> QED BY <1>0, <3>2, <4>1, LeftOf, LeftNext DEF Shrinks, InLoop
    <3> QED BY <1>0, <3>1, <3>2, EndShrinks DEF Ends, Errors
  <2> QED BY <1>0, <2>1, <2>2, EndShrinks DEF Ends, Errors
<1>3. CASE Tcp \/ Udp
  <2>0. pos <= end /\ end <= len
    BY <1>3 DEF Inv, InPacket, Tcp, Udp
  <2>1. End("invalid") \/ stage' = "packet"
    <3>1. CASE Tcp
      BY <1>0, <1>3, <2>0, <3>1 DEF Tcp, Packet
    <3>2. CASE Udp
      BY <1>0, <1>3, <2>0, <3>2 DEF Udp, Packet
    <3> QED BY <1>3, <3>1, <3>2
  <2>2. CASE stage' = "packet"
    <3>1. Left' = 0
      BY <2>2, LeftNext DEF Ends
    <3> QED BY <1>0, <2>2, <3>1, LeftPositive DEF Shrinks, InLoop
  <2> QED BY <1>0, <2>1, <2>2, EndShrinks DEF Ends, Errors
<1> QED BY <1>1, <1>2, <1>3 DEF Ipv4

LEMMA NextShrinks == Inv /\ InLoop /\ Next => Shrinks
BY TlsHeaderShrinks, TlsFieldsShrinks, ExtensionShrinks, NamesShrink, HeadersShrink DEF Next, Tls

Bounded == Inv /\ InLoop /\ Left \in 0..(MaxLen + 7)

\* Whatever an input says of its own lengths, a parser takes at most one read
\* for each of its bytes and seven more: no extension and no name, empty or
\* not, makes a loop stand still or start over (transport.rs, packet.rs).
THEOREM StepsCorrect ==
  Spec => [](Left \in 0..(MaxLen + 7)) /\ [][Left' < Left]_vars
<1>1. Init => Bounded
  <2> SUFFICES ASSUME Init PROVE Bounded
    OBVIOUS
  <2>1. Inv /\ InLoop /\ stage = "start" /\ len \in 0..MaxLen
    BY InitInv DEF Init, InLoop
  <2>2. Left = len + 7
    BY <2>1, LeftOf
  <2> QED BY <2>1, <2>2, ParsersAssumption DEF Bounded
<1>2. InLoop /\ UNCHANGED vars => InLoop' /\ Left' = Left
  BY DEF InLoop, Left, vars
<1>3. Bounded /\ Inv' /\ [Next]_vars => Bounded'
  <2> SUFFICES ASSUME Bounded, Inv', [Next]_vars PROVE Bounded'
    OBVIOUS
  <2>1. InLoop' /\ (Left' < Left \/ Left' = Left)
    BY <1>2, NextShrinks DEF Bounded, Shrinks
  <2>2. Left' \in Nat
    BY <2>1, NatNext DEF IsNat
  <2> QED BY <2>1, <2>2, ParsersAssumption DEF Bounded
<1>4. Bounded => Left \in 0..(MaxLen + 7)
  BY DEF Bounded
<1>5. Bounded /\ [Next]_vars => [Left' < Left]_vars
  BY NextShrinks DEF Bounded, Shrinks
<1> QED BY <1>1, <1>3, <1>4, <1>5, InvariantHolds, PTL DEF Spec
================================================================================

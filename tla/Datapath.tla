------------------------------- MODULE Datapath -------------------------------
(***************************************************************************)
(* The flow table of the datapath: one entry per flow, with the times of   *)
(* its first and last packet and two saturating counters.  The flow        *)
(* analyzer keeps the same table with more in it, see FlowAnalyzer.        *)
(***************************************************************************)
EXTENDS Naturals

CONSTANTS
  Keys,      \* the FlowKeys
  Lengths,   \* the payload lengths of packets
  Idle,      \* the idle time after which a flow is expired
  MaxCount   \* the largest value of a counter, u64::MAX in the code

VARIABLES
  flows,     \* the table: a FlowState for each of the keys in it
  now        \* the caller's clock

FlowState == [created_at : Nat, last_seen : Nat, packets : 0..MaxCount, bytes : 0..MaxCount]

SaturatingAdd(m, n) == IF m + n > MaxCount THEN MaxCount ELSE m + n

Init == flows = [k \in {} |-> {}] /\ now = 0

\* on_packet: the entry is made when the key has none.
OnPacket(k, length) ==
  LET entry == IF k \in DOMAIN flows THEN flows[k]
               ELSE [created_at |-> now, last_seen |-> now, packets |-> 0, bytes |-> 0]
  IN  /\ flows' = [j \in DOMAIN flows \cup {k} |->
                     IF j # k THEN flows[j]
                     ELSE [entry EXCEPT !.last_seen = now,
                                        !.packets = SaturatingAdd(@, 1),
                                        !.bytes = SaturatingAdd(@, length)]]
      /\ UNCHANGED now

\* expire_idle retains a flow whose silence is exactly Idle long.
ExpireIdle ==
  /\ flows' = [k \in {j \in DOMAIN flows : now - flows[j].last_seen <= Idle} |-> flows[k]]
  /\ UNCHANGED now

Clear == flows' = [k \in {} |-> {}] /\ UNCHANGED now

Tick == now' = now + 1 /\ UNCHANGED flows

Next ==
  \/ \E k \in Keys, length \in Lengths : OnPacket(k, length)
  \/ ExpireIdle \/ Clear \/ Tick

Spec == Init /\ [][Next]_<<flows, now>>
==============================================================================

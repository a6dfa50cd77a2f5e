------------------------------ MODULE LossyFifo ------------------------------
(***************************************************************************)
(* What the observation pipeline promises to the reader of its events,    *)
(* whatever queues, threads and locks it is built from: events are        *)
(* numbered in the order in which the observer accepts them, an event may *)
(* be lost on the way (both queues are bounded and drop their oldest      *)
(* entry), but what is delivered comes out in the order of acceptance and *)
(* never twice.                                                            *)
(*                                                                         *)
(* ObservationRuntime implements this specification.                      *)
(***************************************************************************)
EXTENDS Naturals

VARIABLES
  sent,       \* number of events accepted so far; the n-th one is called n
  transit,    \* the accepted events that are neither lost nor delivered yet
  last        \* the most recently delivered event, 0 before the first one

fifoVars == <<sent, transit, last>>

TypeInvariant ==
  /\ sent \in Nat
  /\ transit \subseteq 1..sent
  /\ last \in 0..sent

Init ==
  /\ sent = 0
  /\ transit = {}
  /\ last = 0

\* A new event is accepted; when there is no room for it the pipeline gives
\* up at most one of the older ones, never the new one.
Accept ==
  /\ sent' = sent + 1
  /\ \E lost \in SUBSET transit :
        /\ \A m, n \in lost : m = n
        /\ transit' = (transit \ lost) \cup {sent'}
  /\ UNCHANGED last

\* Events are rejected or discarded without being delivered.
Lose ==
  /\ \E lost \in SUBSET transit : transit' = transit \ lost
  /\ UNCHANGED <<sent, last>>

\* A batch of events is delivered: the oldest ones in transit, all later
\* than what was delivered before.
Deliver ==
  /\ \E batch \in SUBSET transit :
        /\ \A b \in batch, t \in transit \ batch : b < t
        /\ \A b \in batch : last < b
        /\ last' \in batch
        /\ \A b \in batch : b <= last'
        /\ transit' = transit \ batch
  /\ UNCHANGED sent

Next == Accept \/ Lose \/ Deliver

Spec == Init /\ [][Next]_fifoVars
==============================================================================

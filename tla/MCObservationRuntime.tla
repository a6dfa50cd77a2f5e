------------------------- MODULE MCObservationRuntime -------------------------
(* ObservationRuntime for TLC.                                               *)
EXTENDS ObservationRuntime

\* A segment with the version number that snapshot_to_meta expects of IPv4, and
\* one with the number that WFP gives it (FWP_IP_VERSION_V4), which is rejected.
MCHeaders == {[ip_version |-> v, protocol |-> 6, local_port |-> 5000, remote_port |-> 443] : v \in {0, 4}}

\* One header for the runs that are about scheduling only.
MCOneHeader == {[ip_version |-> 6, protocol |-> 17, local_port |-> 5000, remote_port |-> 443]}
==============================================================================

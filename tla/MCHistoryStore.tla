---------------------------- MODULE MCHistoryStore ----------------------------
(* HistoryStore for TLC.                                                     *)
EXTENDS HistoryStore, TLC

Symmetry == Permutations(Handlers)
==============================================================================

---------------------------- MODULE MCFilterState ----------------------------
(* FilterState for TLC.                                                      *)
EXTENDS FilterState, TLC

Symmetry == Permutations(Threads)
==============================================================================

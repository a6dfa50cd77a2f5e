---------------------------- MODULE MCFlowAnalyzer ----------------------------
(* FlowAnalyzer for TLC.                                                     *)
EXTENDS FlowAnalyzer
==============================================================================

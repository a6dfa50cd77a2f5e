----------------------------- MODULE MCDiagnostic -----------------------------
(* Diagnostic for TLC: the constants of the configurations are numbers.      *)
EXTENDS Diagnostic
==============================================================================

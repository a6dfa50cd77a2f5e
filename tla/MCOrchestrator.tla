---------------------------- MODULE MCOrchestrator ----------------------------
(* Orchestrator for TLC.                                                     *)
EXTENDS Orchestrator

\* One client sends two requests, the others one each.
MCRequests == LET k == CHOOSE c \in Conns : TRUE
              IN  [c \in Conns |-> IF c = k THEN 2 ELSE 1]
==============================================================================

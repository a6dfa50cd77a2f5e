------------------------------- MODULE MCParsers -------------------------------
(* Parsers for TLC: the constants of the configurations are numbers.         *)
EXTENDS Parsers
================================================================================

------------------------------ MODULE MCRpcClient ------------------------------
(* RpcClient for TLC: the constants of the configurations are numbers.       *)
EXTENDS RpcClient
================================================================================

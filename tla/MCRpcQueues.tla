------------------------------ MODULE MCRpcQueues ------------------------------
(* RpcQueues for TLC: the calls are interchangeable. *)
EXTENDS RpcQueues, TLC

CallSymmetry == Permutations(Calls)
===============================================================================

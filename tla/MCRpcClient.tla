---------------------------- MODULE MCRpcClient ----------------------------
(* RpcClient on small instances.                                           *)
EXTENDS RpcClient, TLC

MCPools == 0..MaxInits
MCUsers == Callers \X (0..Retries)
MCAddrs == {"a"}
MCRemote == [x \in MCAddrs |-> x]

Symmetry == Permutations(Conns)
=============================================================================

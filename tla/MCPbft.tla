------------------------------- MODULE MCPbft -------------------------------
(***************************************************************************)
(* The consensus of a shard of four nodes, three of them interchangeable.  *)
(***************************************************************************)
EXTENDS Pbft, TLC

Perms == Permutations(Replicas)
=============================================================================

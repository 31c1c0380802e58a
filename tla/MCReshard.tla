----------------------------- MODULE MCReshard -----------------------------
(***************************************************************************)
(* Two shards with an account or two, and transactions between them.  In   *)
(* the first scenario two maps are sent on time, the first of which moves  *)
(* one account and the second both.  In the second the account moves and   *)
(* comes back as it went.  In the third any message may be late and there  *)
(* is one transaction.  In the fourth there are no maps, but the           *)
(* supervisor counts and stops.  In the last the main nodes have the chain *)
(* that pbft.go makes.                                                     *)
(*                                                                         *)
(* A behaviour is one of the shards, or one of the algorithm that finds    *)
(* the maps, with four accounts on three shards.                           *)
(***************************************************************************)
EXTENDS Reshard, TLC

CONSTANTS a, b, c, t1, t2

mcSender == [t \in Txs |-> IF t = t1 THEN a ELSE b]
mcBothWays == [t \in Txs |-> IF t = t1 THEN b ELSE a]
mcOneAcross == [t \in Txs |-> IF t = t1 THEN b ELSE c]
mcAddr2Shard == [x \in Accounts |-> IF x = a THEN 0 ELSE 1]
mcMaps == <<(a :> 1), (a :> 0) @@ (b :> 0)>>

mcOnTime == [txs |-> {t1, t2}, recipient |-> mcBothWays, maps |-> mcMaps, reports |-> FALSE,
             timely |-> {"relays", "injects", "partitions"}, rounds |-> 5,
             short |-> {t2}, chain |-> "dbMPT"]
mcBack == [mcOnTime EXCEPT !.txs = {t1}, !.maps = <<(a :> 1), (a :> 0)>>, !.rounds = 3]
mcAnyTime == [mcOnTime EXCEPT !.txs = {t1}, !.timely = {}, !.rounds = 2]
mcCounting == [mcOnTime EXCEPT !.recipient = mcOneAcross, !.maps = <<>>, !.reports = TRUE,
                               !.timely = {"reports"}, !.rounds = 2]
mcMemory == [mcAnyTime EXCEPT !.txs = {t1, t2}, !.reports = TRUE, !.chain = "memory"]
mcScenarios == {mcOnTime, mcBack, mcAnyTime, mcCounting, mcMemory}

VARIABLES inst,  \* what runs: "shards" or "clpa"
          phase, todo, VertexSet, Edge, PartitionMap, Edges2Shard, MinEdges2Shard,
          CrossShardEdgeNum, VertexsNumInShard, res, updates, sentMap, edges, runs

clpaVars == <<phase, todo, VertexSet, Edge, PartitionMap, Edges2Shard, MinEdges2Shard,
              CrossShardEdgeNum, VertexsNumInShard, res, updates, sentMap, edges, runs>>
allVars == <<inst, vars, clpaVars>>

mcVertices == {"a", "b", "c", "d"}
mcHome == [v \in mcVertices |-> IF v \in {"a", "b"} THEN 1 ELSE IF v = "c" THEN 2 ELSE 3]
Clpa == INSTANCE Partition WITH Vertices <- mcVertices, Shards <- {1, 2, 3}, Addr2Shard <- mcHome,
            MaxIterations <- 3, UpdateThreshold <- 2, SelfPayments <- FALSE,
            MaxEdges <- 4, MaxRuns <- 2, modifiedMap <- sentMap

ReshardInit ==
    /\ Init /\ Clpa!Init
    /\ inst \in {"shards", "clpa"}
    /\ inst = "clpa" => scenario = mcOnTime

ReshardNext ==
    /\ UNCHANGED inst
    /\ \/ inst = "shards" /\ Next /\ UNCHANGED clpaVars
       \/ inst = "clpa" /\ Clpa!Next /\ UNCHANGED vars

ReshardSpec == ReshardInit /\ [][ReshardNext]_allVars

----------------------------------------------------------------------------
\* What CLPA keeps up to date move by move is what a fresh count would give, and the moves
\* that are sent out lead to the map it has arrived at.  No shard loses its last vertex,
\* and a shard without any edge keeps every account where it is.
PartitionSound ==
    /\ [](inst = "clpa" => Clpa!ParametersExact /\ Clpa!VertexCountsExact /\ Clpa!MovesComplete)
    /\ Clpa!NoShardEmptied /\ Clpa!FrozenByIdleShard
=============================================================================

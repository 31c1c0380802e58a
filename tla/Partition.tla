------------------------------ MODULE Partition ------------------------------
(***************************************************************************)
(* The constrained label propagation of src/partition, and its use by the  *)
(* CLPA committee of the supervisor: the transactions of the blocks        *)
(* reported are edges of a graph of accounts; from time to time the        *)
(* accounts are moved to the shard of their neighbours with the best       *)
(* score, the moves are sent to the shards and a new graph is begun.       *)
(* The vertices of the graph, a map, are visited in any order.             *)
(***************************************************************************)
EXTENDS Integers, FiniteSets, FiniteSetsExt, Functions, TLC

CONSTANTS Vertices, Shards,
          Addr2Shard,        \* the shard an address has by itself
          MaxIterations,     \* 100 in the code
          UpdateThreshold,   \* 50 in the code
          SelfPayments,      \* does a client pay itself?
          MaxEdges, MaxRuns  \* bounds

VARIABLES phase,             \* "collect", or the iteration of CLPA_Partition
          todo,              \* the vertices that are left in this iteration
          VertexSet, Edge,   \* the graph: how often u is in the list of v
          PartitionMap, Edges2Shard, MinEdges2Shard, CrossShardEdgeNum, VertexsNumInShard,
          res, updates,      \* what CLPA_Partition returns, and updateTreshold
          modifiedMap,       \* of the committee: what has been sent
          edges, runs        \* counters for the bounds

graph == <<VertexSet, Edge>>
params == <<Edges2Shard, MinEdges2Shard, CrossShardEdgeNum>>
vars == <<phase, todo, graph, PartitionMap, params, VertexsNumInShard, res, updates,
          modifiedMap, edges, runs>>

Zero == [s \in Shards |-> 0]

NoEdge == [v \in Vertices |-> [u \in Vertices |-> 0]]

fetchModifiedMap(m, v) == IF v \in DOMAIN m THEN m[v] ELSE Addr2Shard[v]

Init ==
    /\ phase = 0 /\ todo = {} /\ VertexSet = {} /\ Edge = NoEdge
    /\ PartitionMap = Addr2Shard /\ VertexsNumInShard = Zero
    /\ Edges2Shard = Zero /\ MinEdges2Shard = 0 /\ CrossShardEdgeNum = 0
    /\ res = <<>> /\ updates = [v \in Vertices |-> 0] /\ modifiedMap = <<>>
    /\ edges = 0 /\ runs = 0

-----------------------------------------------------------------------------
\* How many entries of v's list lie in a set of shards.
Towards(pm, v, S) == SumFunctionOnSet(Edge[v], {u \in Vertices : pm[u] \in S})

\* The entries that lead into a shard from vertices of it, or of others.
Inner(pm, s) == MapThenSumSet(LAMBDA v : IF pm[v] = s THEN Towards(pm, v, {s}) ELSE 0, Vertices)
Incoming(pm, s) == MapThenSumSet(LAMBDA v : IF pm[v] = s THEN 0 ELSE Towards(pm, v, {s}), Vertices)

EdgesTo(pm) == [s \in Shards |-> Incoming(pm, s) + Inner(pm, s) \div 2]

CrossEdges(pm) == MapThenSumSet(LAMBDA s : Incoming(pm, s), Shards) \div 2

MinOf(w) == Min(Range(w))

ComputeEdges2Shard ==
    /\ Edges2Shard' = EdgesTo(PartitionMap) /\ MinEdges2Shard' = MinOf(EdgesTo(PartitionMap))
    /\ CrossShardEdgeNum' = CrossEdges(PartitionMap)

\* Mutant: the edges that become inner ones are forgotten.
RecomputeOuter(pm, v, old) ==
    LET new == pm[v]
    IN [edges |-> [Edges2Shard EXCEPT ![new] = @ + Towards(pm, v, Shards \ {new}),
                                      ![old] = @ - Towards(pm, v, Shards \ {new, old})],
        cross |-> CrossShardEdgeNum + Towards(pm, v, {old}) - Towards(pm, v, {new})]

changeShardRecompute(pm, v, old) ==
    LET new == pm[v]
    IN [edges |-> [Edges2Shard EXCEPT ![new] = @ + Towards(pm, v, Shards \ {new}),
                                      ![old] = @ - Towards(pm, v, Shards \ {old})],
        cross |-> CrossShardEdgeNum + Towards(pm, v, {old}) - Towards(pm, v, {new})]

-----------------------------------------------------------------------------
AddVertex(S) ==
    /\ VertexSet' = VertexSet \cup S
    /\ VertexsNumInShard' =
          [s \in Shards |-> VertexsNumInShard[s] + Cardinality({v \in S \ VertexSet : PartitionMap[v] = s})]

\* HandleBlockInfo of the committee, of a block with one transaction; a longer one is as
\* good as several.
AddEdge(u, v) ==
    /\ phase = 0 /\ edges < MaxEdges /\ (u = v => SelfPayments)
    /\ edges' = edges + 1
    /\ AddVertex({u, v})
    /\ Edge' = IF u = v THEN [Edge EXCEPT ![u][u] = @ + 2]
                        ELSE [Edge EXCEPT ![u][v] = @ + 1, ![v][u] = @ + 1]
    /\ UNCHANGED <<phase, todo, PartitionMap, params, res, updates, modifiedMap, runs>>

\* CLPA_Partition, up to its loop.  Blocks reported meanwhile wait for clpaLock.
StartPartition ==
    /\ phase = 0 /\ runs < MaxRuns /\ runs' = runs + 1
    /\ ComputeEdges2Shard
    /\ phase' = 1 /\ todo' = VertexSet
    /\ res' = <<>> /\ updates' = [v \in Vertices |-> 0]
    /\ UNCHANGED <<graph, PartitionMap, VertexsNumInShard, modifiedMap, edges>>

\* getShard_score with the weight penalty of a half, times the degree of v and twice
\* MinEdges2Shard, which are the same for all shards.
getShard_score(v, s) == Towards(PartitionMap, v, {s}) * (2 * MinEdges2Shard - Edges2Shard[s])

\* The shards that may come out best.  Equal scores are decided by the order of the
\* list and by rounding.  A division by MinEdges2Shard = 0 makes every score minus
\* infinity, and none is better than the first one to beat, -9999.
BestShards(v) ==
    LET near == {PartitionMap[u] : u \in {u \in Vertices : Edge[v][u] > 0}}
    IN IF MinEdges2Shard = 0 \/ near = {} THEN {PartitionMap[v]}
       ELSE {s \in near : \A t \in near : getShard_score(v, t) <= getShard_score(v, s)}

Moves(v, s) == PartitionMap[v] # s /\ VertexsNumInShard[PartitionMap[v]] > 1

Return(v, s) == res' = [u \in {v} |-> s] @@ res

Visit(v) ==
    /\ phase > 0 /\ v \in todo /\ todo' = todo \ {v}
    /\ \E s \in IF updates[v] >= UpdateThreshold THEN {PartitionMap[v]} ELSE BestShards(v) :
          IF Moves(v, s)
          THEN LET old == PartitionMap[v]
                   new == changeShardRecompute([PartitionMap EXCEPT ![v] = s], v, old)
               IN /\ PartitionMap' = [PartitionMap EXCEPT ![v] = s]
                  /\ Return(v, s)
                  /\ updates' = [updates EXCEPT ![v] = @ + 1]
                  /\ VertexsNumInShard' = [VertexsNumInShard EXCEPT ![old] = @ - 1, ![s] = @ + 1]
                  /\ Edges2Shard' = new.edges /\ CrossShardEdgeNum' = new.cross
                  /\ MinEdges2Shard' = MinOf(new.edges)
          ELSE UNCHANGED <<PartitionMap, res, updates, VertexsNumInShard, params>>
    /\ UNCHANGED <<phase, graph, modifiedMap, edges, runs>>

NextIteration ==
    /\ phase > 0 /\ todo = {} /\ phase < MaxIterations
    /\ phase' = phase + 1 /\ todo' = VertexSet
    /\ UNCHANGED <<graph, PartitionMap, params, VertexsNumInShard, res, updates, modifiedMap,
                   edges, runs>>

\* The end of CLPA_Partition; the committee sends the moves, adds them to its map and
\* resets the graph, to which it gives its map.
Finish ==
    /\ phase = MaxIterations /\ todo = {} /\ phase' = 0
    /\ modifiedMap' = res @@ modifiedMap
    /\ VertexSet' = {} /\ Edge' = NoEdge /\ VertexsNumInShard' = Zero
    /\ PartitionMap' = [v \in Vertices |-> fetchModifiedMap(res @@ modifiedMap, v)]
    /\ Edges2Shard' = Zero /\ MinEdges2Shard' = 0 /\ CrossShardEdgeNum' = 0
    /\ UNCHANGED <<todo, res, updates, edges, runs>>

Next ==
    \/ \E u, v \in Vertices : AddEdge(u, v)
    \/ StartPartition \/ NextIteration \/ Finish \/ \E v \in Vertices : Visit(v)

Spec == Init /\ [][Next]_vars

-----------------------------------------------------------------------------
\* What changeShardRecompute keeps up to date move by move is what counting everything
\* anew would give: the edges of each shard, the least of them, and the cross edges.
ParametersExact ==
    phase > 0 =>
        /\ Edges2Shard = EdgesTo(PartitionMap) /\ MinEdges2Shard = MinOf(Edges2Shard)
        /\ CrossShardEdgeNum = CrossEdges(PartitionMap)

\* The counts of vertices, which decide whether one may move, are those of the graph.
VertexCountsExact ==
    \A s \in Shards : VertexsNumInShard[s] = Cardinality({v \in VertexSet : PartitionMap[v] = s})

\* No shard that has a vertex of the graph loses its last one.
NoShardEmptied ==
    [][phase > 0 /\ phase' > 0 =>
          \A s \in Shards : (\E v \in VertexSet : PartitionMap[v] = s)
                                => \E v \in VertexSet : PartitionMap'[v] = s]_vars

\* The moves that are sent out lead to the map the algorithm has arrived at: where the
\* shards and the committee believe an account to be is where the graph has it.
MovesComplete ==
    \A v \in VertexSet : PartitionMap[v] = fetchModifiedMap(IF phase > 0 THEN res @@ modifiedMap ELSE modifiedMap, v)

\* A shard without any edge keeps every account where it is.
FrozenByIdleShard ==
    [][phase > 0 /\ phase' > 0 /\ (\E s \in Shards : Edges2Shard[s] = 0) => UNCHANGED PartitionMap]_vars
=============================================================================

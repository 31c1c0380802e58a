------------------------------ MODULE HashRing ------------------------------
(****************************************************************************)
(* The consistent hash of package local: a ring of virtual nodes, each node *)
(* with its share of them, and the bookkeeping of which data keys a node    *)
(* holds, kept up to date by migrateIn and migrateOut as nodes come and go. *)
(*                                                                          *)
(* Every operation runs under the package's Lock, so that operations do not *)
(* overlap; an iteration of the loop over the replicas is one step here.    *)
(* The hash is any function: hash is chosen in Init and never changes.  The *)
(* migrator is ideal: a task moves the data of its keys that are at the     *)
(* task's source, and the tasks of one operation run in any order.          *)
(****************************************************************************)
EXTENDS RingMap

CONSTANTS
    Node,        \* node ids
    Key,         \* data keys
    Replicas,    \* opts.replicas
    Weight,      \* the weights AddNode is called with
    Layouts,     \* the hashes considered: scores of the virtual nodes
    KeyScore,    \* the scores of the data keys
    NoNode       \* the empty string

Index == 0 .. 10 * Replicas - 1

ASSUME RingAssumption ==
    /\ MaxInt \in Nat \ {0} /\ Replicas \in Nat \ {0}
    /\ Weight \subseteq Int
    /\ Layouts \subseteq [Node \X Index -> Score]
    /\ KeyScore \in [Key -> Score]
    /\ NoNode \notin Node

VARIABLES
    hash,            \* encryptor.Encrypt of the virtual nodes' keys
    ring,            \* the skip list: the node keys at every score
    nodeToReplicas,  \* 0 for a node that has no entry
    nodeToDataKey,
    op,              \* the operation that holds Lock, and its loop counter
    tasks,           \* migrateTasks
    store            \* where the data of a key is

vars == <<hash, ring, nodeToReplicas, nodeToDataKey, op, tasks, store>>

NodeKey == Node \X Index
Task == [from : Node, to : Node, keys : SUBSET Key]
Idle == [kind |-> "idle", node |-> NoNode, i |-> 0, replicas |-> 0]

TypeOK ==
    /\ DOMAIN hash = NodeKey
    /\ ring \in [Score -> Seq(NodeKey)]
    /\ nodeToReplicas \in [Node -> 0 .. 10 * Replicas]
    /\ nodeToDataKey \in [Node -> SUBSET Key]
    /\ op \in [kind : {"idle", "add", "remove", "migrate"},
               node : Node \cup {NoNode},
               i : 0 .. 10 * Replicas, replicas : 0 .. 10 * Replicas]
    /\ tasks \subseteq Task
    /\ store \in [Key -> Node \cup {NoNode}]

Init ==
    /\ hash \in Layouts
    /\ ring = [s \in Score |-> <<>>]
    /\ nodeToReplicas = [n \in Node |-> 0]
    /\ nodeToDataKey = [n \in Node |-> {}]
    /\ op = Idle
    /\ tasks = {}
    /\ store = [k \in Key |-> NoNode]

-----------------------------------------------------------------------------
(* The ring.                                                                *)

NodeAt(r, s, j) == r[s][j][1]

incrScore(s) == IF s = MaxInt - 1 THEN 0 ELSE s + 1
decrScore(s) == IF s = 0 THEN MaxInt - 1 ELSE s - 1

Rekeyed(from, to, ks) ==
    LET without == [nodeToDataKey EXCEPT ![from] = @ \ ks]
    IN [without EXCEPT ![to] = @ \cup ks]

WithTask(from, to, ks) ==
    IF ks = {} THEN tasks ELSE tasks \cup {[from |-> from, to |-> to, keys |-> ks]}

-----------------------------------------------------------------------------
(* Adding a node.                                                           *)

getValidWeight(w) == IF w <= 0 THEN 1 ELSE IF w >= 10 THEN 10 ELSE w

\* A node that is listed is refused.
AddNode(n, w) ==
    /\ op = Idle
    /\ nodeToReplicas[n] = 0
    /\ LET replicas == getValidWeight(w) * Replicas
       IN /\ nodeToReplicas' = [nodeToReplicas EXCEPT ![n] = replicas]
          /\ op' = [kind |-> "add", node |-> n, i |-> 0, replicas |-> replicas]
    /\ UNCHANGED <<hash, ring, nodeToDataKey, tasks, store>>

\* Faulty: the key at the new score itself is left behind.
ClaimedBelow(k, last, cur, next) ==
    LET patternOne == last > cur
        patternTwo == next < cur
        shift == IF patternTwo THEN MaxInt ELSE 0
        lo == (IF patternOne THEN last - MaxInt ELSE last) - shift
        wrapped == patternOne /\ KeyScore[k] > lo + MaxInt
        s == (IF wrapped THEN KeyScore[k] - MaxInt ELSE KeyScore[k]) - shift
    IN lo < s /\ s < cur - shift

\* Whether a key's score lies in (last, cur], with the arithmetic of the two
\* patterns: last-0-cur-next and last-cur-0-next.
Claimed(k, last, cur, next) ==
    LET patternOne == last > cur
        patternTwo == next < cur
        shift == IF patternTwo THEN MaxInt ELSE 0
        lo == (IF patternOne THEN last - MaxInt ELSE last) - shift
        wrapped == patternOne /\ KeyScore[k] > lo + MaxInt
        s == (IF wrapped THEN KeyScore[k] - MaxInt ELSE KeyScore[k]) - shift
    IN lo < s /\ s <= cur - shift

\* The keys migrateIn takes from the first node at the next score.
migrateIn(r, v) ==
    LET last == Floor(r, decrScore(v))
        next == Ceiling(r, incrScore(v))
    IN IF Len(r[v]) > 1 \/ last \in {-1, v} \/ next \in {-1, v} THEN {}
       ELSE {k \in nodeToDataKey[NodeAt(r, next, 1)] : Claimed(k, last, v, next)}

AddVirtual ==
    /\ op.kind = "add" /\ op.i < op.replicas
    /\ LET n == op.node
           v == hash[<<n, op.i>>]
           r == Add(ring, v, <<n, op.i>>)
           from == NodeAt(r, Ceiling(r, incrScore(v)), 1)
           ks == migrateIn(r, v)
       IN /\ ring' = r
          /\ nodeToDataKey' = Rekeyed(from, n, ks)
          /\ tasks' = WithTask(from, n, ks)
    /\ op' = [op EXCEPT !.i = @ + 1]
    /\ UNCHANGED <<hash, nodeToReplicas, store>>

-----------------------------------------------------------------------------
(* Removing a node.                                                         *)

\* A node that is not listed is refused.
RemoveNode(n) ==
    /\ op = Idle
    /\ nodeToReplicas[n] > 0
    /\ nodeToReplicas' = [nodeToReplicas EXCEPT ![n] = 0]
    /\ op' = [kind |-> "remove", node |-> n, i |-> 0,
              replicas |-> nodeToReplicas[n]]
    /\ UNCHANGED <<hash, ring, nodeToDataKey, tasks, store>>

\* The search of a successor other than n, until it comes round to a score it
\* started from.
getValidNextNode(r, v, n) ==
    LET find[s \in Score, ranged \in SUBSET Score] ==
            LET next == Ceiling(r, incrScore(s))
            IN IF next = -1 \/ next \in ranged THEN NoNode
               ELSE IF NodeAt(r, next, 1) # n THEN NodeAt(r, next, 1)
               ELSE IF Len(r[next]) > 1 THEN NodeAt(r, next, 2)
               ELSE find[next, ranged \cup {s}]
    IN find[v, {}]

\* Whether a key's score lies in (last, cur].
Released(k, last, cur) ==
    LET pattern == last > cur
        lo == IF pattern THEN last - MaxInt ELSE last
        s == IF pattern /\ KeyScore[k] > last THEN KeyScore[k] - MaxInt
             ELSE KeyScore[k]
    IN lo < s /\ s <= cur

\* migrateOut: whether it moves nothing, the keys it moves, to whom, and
\* whether it fails for want of another node.
Nothing(v, n) == NodeAt(ring, v, 1) # n \/ nodeToDataKey[n] = {}

OnlyScore(v) == Floor(ring, decrScore(v)) \in {-1, v}

Outgoing(v, n) ==
    IF Nothing(v, n) THEN {}
    ELSE {k \in nodeToDataKey[n] :
             OnlyScore(v) \/ Released(k, Floor(ring, decrScore(v)), v)}

Heir(v, n) ==
    IF Len(ring[v]) > 1 THEN NodeAt(ring, v, 2) ELSE getValidNextNode(ring, v, n)

NoOther(v, n) ==
    /\ ~ Nothing(v, n)
    /\ Len(ring[v]) = 1
    /\ OnlyScore(v) \/ Heir(v, n) = NoNode

\* The errors of Node and Rem for a virtual node that is not on the ring do not
\* occur: see ReplicasOnRing.
RemoveVirtual ==
    /\ op.kind = "remove" /\ op.i < op.replicas
    /\ LET n == op.node
           v == hash[<<n, op.i>>]
           ks == Outgoing(v, n)
       IN /\ ~ NoOther(v, n)
          /\ ring' = Rem(ring, v, <<n, op.i>>)
          /\ nodeToDataKey' = IF ks = {} THEN nodeToDataKey
                              ELSE Rekeyed(n, Heir(v, n), ks)
          /\ tasks' = WithTask(n, Heir(v, n), ks)
    /\ op' = [op EXCEPT !.i = @ + 1]
    /\ UNCHANGED <<hash, nodeToReplicas, store>>

\* An error ends RemoveNode at once: the tasks gathered so far are dropped and
\* the entry in nodeToReplicas stays deleted.
RemoveFails ==
    /\ op.kind = "remove" /\ op.i < op.replicas
    /\ NoOther(hash[<<op.node, op.i>>], op.node)
    /\ op' = Idle
    /\ tasks' = {}
    /\ UNCHANGED <<hash, ring, nodeToReplicas, nodeToDataKey, store>>

-----------------------------------------------------------------------------
(* The tasks of an operation, and the lookup.                               *)

batchExecuteMigrator ==
    /\ op.kind \in {"add", "remove"} /\ op.i = op.replicas
    /\ op' = [op EXCEPT !.kind = "migrate"]
    /\ UNCHANGED <<hash, ring, nodeToReplicas, nodeToDataKey, tasks, store>>

migrator(t) ==
    /\ op.kind = "migrate"
    /\ store' = [k \in Key |-> IF k \in t.keys /\ store[k] = t.from
                               THEN t.to ELSE store[k]]
    /\ tasks' = tasks \ {t}
    /\ UNCHANGED <<hash, ring, nodeToReplicas, nodeToDataKey, op>>

AllMigrated ==
    /\ op.kind = "migrate" /\ tasks = {}
    /\ op' = Idle
    /\ UNCHANGED <<hash, ring, nodeToReplicas, nodeToDataKey, tasks, store>>

\* The node a key belongs to.
Owner(r, k) == NodeAt(r, Ceiling(r, KeyScore[k]), 1)

\* The caller puts the data of a new key where the lookup says.
GetNode(k) ==
    /\ op = Idle
    /\ Ceiling(ring, KeyScore[k]) # -1
    /\ LET n == Owner(ring, k)
       IN /\ nodeToDataKey' = [nodeToDataKey EXCEPT ![n] = @ \cup {k}]
          /\ store' = [store EXCEPT ![k] = IF @ = NoNode THEN n ELSE @]
    /\ UNCHANGED <<hash, ring, nodeToReplicas, op, tasks>>

Next ==
    \/ \E n \in Node, w \in Weight : AddNode(n, w)
    \/ AddVirtual
    \/ \E n \in Node : RemoveNode(n)
    \/ RemoveVirtual
    \/ RemoveFails
    \/ batchExecuteMigrator
    \/ \E t \in tasks : migrator(t)
    \/ AllMigrated
    \/ \E k \in Key : GetNode(k)

Spec == Init /\ [][Next]_vars

-----------------------------------------------------------------------------
(* Properties.                                                              *)

\* The virtual nodes that nodeToReplicas promises, and those a removal has still
\* to take away, are on the ring: neither Node nor Rem fails in RemoveNode.
ReplicasOnRing ==
    /\ op = Idle => \A n \in Node : \A i \in 0 .. nodeToReplicas[n] - 1 :
           <<n, i>> \in Range(ring[hash[<<n, i>>]])
    /\ op.kind = "remove" => \A i \in op.i .. op.replicas - 1 :
           <<op.node, i>> \in Range(ring[hash[<<op.node, i>>]])

Holders(k) == {n \in Node : k \in nodeToDataKey[n]}

\* Between operations a key that was ever looked up is listed under exactly
\* one node, the one a lookup finds now: the ranges migrateIn and migrateOut
\* compute with wrapped scores are the ones the ring defines, whatever the
\* hash, shared scores and removals that fail included.  (It needs the weight
\* of a node to be the same each time it is added.)
KeysFollowRing ==
    op = Idle => \A k \in Key :
        Holders(k) = IF store[k] = NoNode THEN {} ELSE {Owner(ring, k)}

\* While a node is being removed, a key listed under another node is already
\* where the ring will have it once every virtual node of the leaving node is
\* gone, and a key still listed under the leaving node is found there.
Sans(n) == [s \in Score |-> SelectSeq(ring[s], LAMBDA x : x[1] # n)]

RemovalOnCourse ==
    op.kind = "remove" => \A m \in Node : \A k \in nodeToDataKey[m] :
        m = Owner(IF m = op.node THEN ring ELSE Sans(op.node), k)

\* Between operations the data of a key is at the node a lookup finds: the
\* migration tasks an operation hands to the migrator suffice, in any order.
DataFollowsRing ==
    op = Idle => \A k \in Key :
        store[k] # NoNode => store[k] = Owner(ring, k)

\* A node with virtual nodes on the ring is listed in nodeToReplicas between
\* operations, which the comment of AddNode takes for the mark that a node
\* exists.
\* It does not hold: the README says why.
ListedIfOnRing ==
    op = Idle => \A s \in Score, nk \in NodeKey :
        nk \in Range(ring[s]) => nodeToReplicas[nk[1]] > 0

\* The source of a migration task is the node where the data is, as the
\* comment on from says.
\* It does not hold: the README says why.
TasksStartAtData ==
    op.kind \in {"add", "remove"} =>
        \A t \in tasks : \A k \in t.keys : store[k] = t.from
=============================================================================

--------------------------- MODULE MCTrieIterator ---------------------------
(***************************************************************************)
(* An iterator over any map of a few keys, from any start, while nodes of  *)
(* the database come and go; its caller goes on after an error.            *)
(***************************************************************************)
EXTENDS TrieIterator

CONSTANTS Keys, Starts, Values,
          MaxLost   \* bound on how often a node is lost

VARIABLES map,     \* what the trie holds
          start,   \* where the iterator was asked to start
          it,      \* the iterator
          seen,    \* the positions it has reported, in order
          expected, \* the positions it should report
          lost     \* how often a node has been lost

vars == <<map, start, it, seen, expected, lost>>

Database == [h \in {x[2] : x \in StoredNodes(map)} |-> h.of]

\* Every node of a hashed trie, its values included, by path.
RECURSIVE Nodes(_, _)
Nodes(path, n) ==
    CASE n = Nil -> {}
      [] n.kind = "value" -> {<<path, Nil>>}
      [] n.kind = "short" -> {<<path, n.hash>>} \cup Nodes(path \o n.key, n.val)
      [] n.kind = "full" -> {<<path, n.hash>>} \cup UNION {Nodes(Append(path, i), n.kids[i]) : i \in Slots}

\* Those from the start on, in the order of their paths.
Expected(m, k) ==
    LET S == {x \in Nodes(<<>>, RootOf(m).cached) : Compare(x[1], Front(keybytesToHex(k))) >= 0}
    IN [n \in 1 .. Cardinality(S) |->
           CHOOSE x \in S : Cardinality({y \in S : Compare(y[1], x[1]) < 0}) = n - 1]

\* The database may lack one node when the iterator is made.
Init ==
    /\ map \in [Keys -> Values \cup {0}]
    /\ start \in Starts
    /\ seen = <<>> /\ expected = Expected(map, start) /\ lost \in 0 .. 1
    /\ LET trie == New(RootOf(map).hashed, Database)
           without(h) == [trie EXCEPT !.reader = Restrict(@, DOMAIN @ \ {h})]
       IN IF lost = 0 THEN it = newNodeIterator(trie, start)
          ELSE \E h \in DOMAIN Database : it = newNodeIterator(without(h), start)

Step ==
    /\ it.err # "end"
    /\ \E r \in {NextNode(it, TRUE)} :
          /\ it' = r.it
          /\ seen' = IF r.ok THEN Append(seen, <<r.it.path, HashOf(r.it)>>) ELSE seen
    /\ UNCHANGED <<map, start, expected, lost>>

Lose ==
    /\ it.trie.reader = Database /\ it.err # "end"
    /\ lost < MaxLost /\ lost' = lost + 1
    /\ \E h \in DOMAIN Database : it' = [it EXCEPT !.trie.reader = Restrict(@, DOMAIN @ \ {h})]
    /\ UNCHANGED <<map, start, expected, seen>>

Restore ==
    /\ it.trie.reader # Database
    /\ it' = [it EXCEPT !.trie.reader = Database]
    /\ UNCHANGED <<map, start, expected, seen, lost>>

Next == Step \/ Lose \/ Restore

Spec == Init /\ [][Next]_vars

----------------------------------------------------------------------------

\* The iterator reports every node from its start on, in the order of their paths, each
\* once, however often a node could not be loaded in between: a call that fails loses
\* nothing and repeats nothing.
IterationExact ==
    /\ IsPrefix(seen, expected)
    /\ it.err = "end" => seen = expected

\* At a leaf the nodes on the stack prove the leaf against the root.
LeafProofsHold ==
    (seen # <<>> /\ it.err = "none" /\ Leaf(it) /\ it.stack # <<>>) =>
        \A k \in {LeafKey(it)}, P \in {LeafProof(it)} :
            LET r == VerifyProof(RootOf(map).hashed, k, P)
            IN r.ok /\ r.val = LeafBlob(it) /\ r.val = map[k]

\* A call that has every node at hand gets on: it reports another node or the end, also
\* when the one before it failed.
CallsProgress ==
    it.err # "end" => \A r \in {NextNode([it EXCEPT !.trie.reader = Database], TRUE)} :
                          r.ok \/ r.it.err = "end"
=============================================================================

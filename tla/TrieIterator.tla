--------------------------- MODULE TrieIterator ---------------------------
(***************************************************************************)
(* Iterators over the nodes of a trie (src/trie/iterator.go).  An iterator *)
(* is a record                                                             *)
(*   stack  of [node, hash, index, pathlen], the root first                *)
(*   path   of the node on top                                             *)
(*   err    "none", "end", "missing" (a node could not be loaded) or       *)
(*          "seek" (the same, before the start was reached)                *)
(*   start  the key it was asked to start from, in hex                     *)
(*   trie   the trie, whose reader finds the nodes                         *)
(*   rank   of two iterators, the one with the larger hashes (of different *)
(*          nodes) has the higher rank                                     *)
(* A fresh iterator has an empty stack.  The hash of the nearest ancestor, *)
(* which Parent reports, is left out.                                      *)
(***************************************************************************)
EXTENDS TrieProof

itState(node, hashOf, pathlen) == [node |-> node, hash |-> hashOf, index |-> -1, pathlen |-> pathlen]

\* The hash cached in a node that is loaded; a hash node has none until it is resolved.
cacheOf(n) == IF Inner(n) THEN n.hash ELSE Nil

pop(it) == [it EXCEPT !.path = Take(@, Last(it.stack).pathlen), !.stack = Front(@)]

push(it, state, path) ==
    LET n == Len(it.stack)
        up == IF n = 0 THEN it.stack ELSE [it.stack EXCEPT ![n].index = @ + 1]
    IN [it EXCEPT !.stack = Append(up, state), !.path = path]

\* The state of a child, with its node loaded: ok is FALSE if the reader does not have it.
resolve(it, state) ==
    IF state.node.kind # "hash" THEN [ok |-> TRUE, state |-> state]
    ELSE IF state.node \notin DOMAIN it.trie.reader THEN [ok |-> FALSE, state |-> state]
    ELSE [ok |-> TRUE, state |-> [state EXCEPT !.hash = state.node,
                                               !.node = decodeNode(state.node, it.trie.reader[state.node])]]

\* findChild: the slots of a full node from an index on that have a child.
findChild(n, index) == {i \in Slots : i >= index /\ n.kids[i] # Nil}

NoChild == [found |-> FALSE, node |-> Nil, path |-> <<>>, index |-> -1]

\* Mutant: the index is that of the child before the child is pushed.
nextChildAhead(parent, path) ==
    LET open == IF parent.node.kind = "full" THEN findChild(parent.node, parent.index + 1) ELSE {}
    IN CASE open # {} -> [found |-> TRUE, node |-> parent.node.kids[Min(open)],
                          path |-> Append(path, Min(open)), index |-> Min(open)]
         [] parent.node.kind = "short" /\ parent.index < 0 ->
              [found |-> TRUE, node |-> parent.node.val, path |-> path \o parent.node.key, index |-> -1]
         [] OTHER -> NoChild

\* nextChild
nextChild(parent, path) ==
    CASE parent.node.kind = "full" /\ findChild(parent.node, parent.index + 1) # {} ->
           LET child(i) == [found |-> TRUE, node |-> parent.node.kids[i], path |-> Append(path, i),
                            index |-> i - 1]
           IN child(Min(findChild(parent.node, parent.index + 1)))
      [] parent.node.kind = "short" /\ parent.index < 0 ->
           [found |-> TRUE, node |-> parent.node.val, path |-> path \o parent.node.key, index |-> -1]
      [] OTHER -> NoChild

\* Of the children that come before the key the last is taken, else the first after it.
ClosestChild(before, i) == IF before = {} THEN i ELSE Max(before)

\* nextChildAt: as nextChild, but it skips siblings that do not lead to the key.
nextChildAt(parent, path, key) ==
    LET child(i) == [found |-> TRUE, node |-> parent.node.kids[i], path |-> Append(path, i), index |-> i - 1]
        of(ahead) == IF ahead = {} THEN NoChild
                     ELSE child(ClosestChild({i \in ahead : Compare(Append(path, i), key) < 0}, Min(ahead)))
    IN IF parent.node.kind # "full" THEN nextChild(parent, path)
       ELSE of(findChild(parent.node, parent.index + 1))

\* The path of the node at a level of the stack.
pathAt(it, n) == IF n = Len(it.stack) THEN it.path ELSE Take(it.path, it.stack[n + 1].pathlen)

\* The loops of peek and peekSeek: everything above the highest node that has a child left is
\* popped.  The parent's index is one short until the child is pushed.
climb(it, seeking, key) ==
    LET next(n) == IF seeking THEN nextChildAt(it.stack[n], pathAt(it, n), key)
                   ELSE nextChild(it.stack[n], pathAt(it, n))
        left(top) == [it EXCEPT !.stack = Take(@, top), !.path = pathAt(it, top)]
        found(top, c, r) ==
            [it |-> [left(top) EXCEPT !.stack[top].index = c.index], state |-> r.state,
             path |-> c.path, err |-> IF r.ok THEN "none" ELSE "missing"]
        child(top, c) ==
            found(top, c, resolve(it, itState(c.node, cacheOf(c.node), Len(pathAt(it, top)))))
        at(open) == IF open = {} THEN [it |-> [it EXCEPT !.stack = <<>>, !.path = <<>>], err |-> "end",
                                       state |-> Nil, path |-> <<>>]
                    ELSE child(Max(open), next(Max(open)))
    IN at({n \in DOMAIN it.stack : next(n).found})

\* peek and peekSeek; descends is FALSE if the children of the top are to be skipped.
peek(it, descends, seeking, key) ==
    IF it.stack = <<>>
    THEN [it |-> it, err |-> "none", path |-> <<>>,
          state |-> itState(hashRoot(it.trie).cached, hashRoot(it.trie).hashed, 0)]
    ELSE climb(IF descends THEN it ELSE pop(it), seeking, key)

\* seek: moves on until the next node would be at or after the key.
RECURSIVE seek(_)
seek(it) ==
    LET from(r) ==
            CASE r.err = "end" -> [r.it EXCEPT !.err = "end"]
              [] r.err = "missing" -> [r.it EXCEPT !.err = "seek"]
              [] r.err = "none" -> IF Compare(r.path, it.start) >= 0 THEN [r.it EXCEPT !.err = "none"]
                                   ELSE seek(push(r.it, r.state, r.path))
    IN from(peek(it, IsPrefix(it.path, it.start), TRUE, it.start))

\* newNodeIterator
newNodeIterator(trie, start) ==
    LET it == [stack |-> <<>>, path |-> <<>>, err |-> "none", trie |-> trie, rank |-> 0,
               start |-> Front(keybytesToHex(start))]
    IN IF trie.root = Nil THEN [it EXCEPT !.err = "end"] ELSE seek(it)

\* Next: the iterator after the call, and what it returned.
NextNode(it, descend) ==
    LET moved(r) == IF r.err # "none" THEN [it |-> [r.it EXCEPT !.err = r.err], ok |-> FALSE]
                    ELSE [it |-> [push(r.it, r.state, r.path) EXCEPT !.err = "none"], ok |-> TRUE]
        from(ready) == IF it.err = "seek" /\ ready.err # "none" THEN [it |-> ready, ok |-> FALSE]
                       ELSE moved(peek(ready, descend, FALSE, <<>>))
    IN IF it.err = "end" THEN [it |-> it, ok |-> FALSE]
       ELSE from(IF it.err = "seek" THEN seek(it) ELSE it)

HashOf(it) == IF it.stack = <<>> THEN Nil ELSE Last(it.stack).hash
Leaf(it) == hasTerm(it.path)
LeafKey(it) == hexToKeybytes(it.path)
LeafBlob(it) == Last(it.stack).node.val

\* LeafProof: the nodes on the stack that are stored by themselves, and the root.
LeafProof(it) ==
    LET enc(i) == hash([it.stack[i].node EXCEPT !.hash = Nil], i = 1).hashed
    IN {h.of : h \in {e \in {enc(i) : i \in 1 .. Len(it.stack) - 1} : e.kind = "hash"}}

----------------------------------------------------------------------------
(* Two iterators at once *)

\* compareNodes; a node without a hash has the hash zero, which is the least.
compareNodes(a, b) ==
    CASE a.path # b.path -> Compare(a.path, b.path)
      [] a.path = b.path /\ HashOf(a) # HashOf(b) ->
           IF HashOf(a) = Nil \/ (HashOf(b) # Nil /\ a.rank < b.rank) THEN -1 ELSE 1
      [] a.path = b.path /\ HashOf(a) = HashOf(b) ->
           IF Leaf(a) /\ LeafBlob(a) # LeafBlob(b) THEN IF LeafBlob(a) < LeafBlob(b) THEN -1 ELSE 1
           ELSE 0

\* The children of an element that both have are skipped if it has a hash; the hash of an
\* embedded node says nothing about its content.
Descends(it) == HashOf(it) = Nil

\* differenceIterator.Next, after b has been advanced: d is [a, b, eof].
RECURSIVE differ(_)
differ(d) ==
    LET behind(x, na) == IF na.ok THEN differ([x EXCEPT !.a = na.it])
                         ELSE [d |-> [x EXCEPT !.a = na.it, !.eof = TRUE], ok |-> TRUE]
        same(nb) == IF ~nb.ok THEN [d |-> [d EXCEPT !.b = nb.it], ok |-> FALSE]
                    ELSE behind([d EXCEPT !.b = nb.it], NextNode(d.a, Descends(d.a)))
        by(c) == CASE c = 1 -> [d |-> d, ok |-> TRUE]
                   [] c = -1 -> behind(d, NextNode(d.a, TRUE))
                   [] c = 0 -> same(NextNode(d.b, Descends(d.a)))
    IN by(compareNodes(d.a, d.b))

\* NewDifferenceIterator and its Next.
NewDifference(a, b) == [a |-> NextNode(a, TRUE).it, b |-> b, eof |-> FALSE]

NextDifference(d) ==
    LET on(moved, ok) == IF ~ok \/ d.eof THEN [d |-> moved, ok |-> ok] ELSE differ(moved)
        from(nb) == on([d EXCEPT !.b = nb.it], nb.ok)
    IN from(NextNode(d.b, TRUE))

\* unionIterator.Next(true) of two iterators: items is the sequence of those with elements left,
\* the least first, as the heap keeps them.
Heap(items) ==
    IF Len(items) = 2 /\ compareNodes(items[1], items[2]) = 1 THEN Reverse(items) ELSE items

NextUnion(items) ==
    LET left(r) == IF r.ok THEN <<r.it>> ELSE <<>>
        rest == IF Len(items) < 2 THEN <<>>
                ELSE IF compareNodes(items[1], items[2]) # 0 THEN <<items[2]>>
                ELSE left(NextNode(items[2], Descends(items[2])))
    IN Heap(left(NextNode(items[1], TRUE)) \o rest)
=============================================================================

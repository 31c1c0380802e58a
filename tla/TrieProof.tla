----------------------------- MODULE TrieProof -----------------------------
(***************************************************************************)
(* Merkle proofs of one key and of a range of keys (src/trie/proof.go).    *)
(* A proof is a set of encoded nodes; a hash is found in it if the node it *)
(* is the hash of is there.  The functions that change nodes in place are  *)
(* operators that return the new node, Nil for one that is unset.          *)
(***************************************************************************)
EXTENDS StackTrie

Missing == [ok |-> FALSE, node |-> Nil, val |-> 0]

\* Prove: the nodes on the path to a key, as far as it goes; embedded nodes are part of
\* their parents, and the root is always there.
RECURSIVE proveFrom(_, _, _)
proveFrom(t, n, key) ==
    LET elem(x) == {c \in {hash([x EXCEPT !.hash = Nil], FALSE).hashed} : c.kind = "hash"}
    IN IF key = <<>> \/ n.kind \in {"nil", "value"} THEN {}
       ELSE CASE n.kind = "short" ->
                   elem(n) \cup (IF IsPrefix(n.key, key) THEN proveFrom(t, n.val, Drop(key, Len(n.key)))
                                 ELSE {})
              [] n.kind = "full" -> elem(n) \cup proveFrom(t, n.kids[key[1]], Tail(key))
              [] n.kind = "hash" -> proveFrom(t, decodeNode(n, t.reader[n]), key)

Prove(t, key) ==
    IF t.root = Nil THEN {}
    ELSE {h.of : h \in proveFrom(t, t.root, keybytesToHex(key)) \cup {hashRoot(t).hashed}}

\* The function get of proof.go, with skipResolved: the first node on the path that is not
\* resolved, and the rest of the key.
RECURSIVE skip(_, _)
skip(n, key) ==
    CASE n.kind = "short" -> IF IsPrefix(n.key, key) THEN skip(n.val, Drop(key, Len(n.key)))
                             ELSE [node |-> Nil, rest |-> <<>>]
      [] n.kind = "full" -> skip(n.kids[key[1]], Tail(key))
      [] OTHER -> [node |-> n, rest |-> key]

\* Mutant: a node that is missing counts as the end of the path.
RECURSIVE verifyLoosely(_, _, _)
verifyLoosely(h, key, proof) ==
    IF h.of \notin proof THEN [ok |-> TRUE, node |-> Nil, val |-> 0]
    ELSE LET g == skip(decodeNode(h, h.of), key)
         IN CASE g.node.kind = "nil" -> [ok |-> TRUE, node |-> Nil, val |-> 0]
              [] g.node.kind = "hash" -> verifyLoosely(g.node, g.rest, proof)
              [] g.node.kind = "value" -> [ok |-> TRUE, node |-> Nil, val |-> g.node.val]

\* VerifyProof: val is 0 for a proof that the key is absent.
RECURSIVE verify(_, _, _)
verify(h, key, proof) ==
    IF h.of \notin proof THEN Missing
    ELSE LET g == skip(decodeNode(h, h.of), key)
         IN CASE g.node.kind = "nil" -> [ok |-> TRUE, node |-> Nil, val |-> 0]
              [] g.node.kind = "hash" -> verify(g.node, g.rest, proof)
              [] g.node.kind = "value" -> [ok |-> TRUE, node |-> Nil, val |-> g.node.val]

VerifyProof(root, key, proof) == verify(root, keybytesToHex(key), proof)

----------------------------------------------------------------------------
(* Edge paths *)

\* proofToPath below a node that is resolved.
RECURSIVE pathFrom(_, _, _, _)
pathFrom(n, key, proof, allow) ==
    LET next(child, rest) ==
            CASE child.kind = "nil" -> [ok |-> allow, node |-> Nil, val |-> 0]
              [] child.kind = "value" -> [ok |-> TRUE, node |-> child, val |-> child.val]
              [] child.kind = "hash" -> IF child.of \in proof
                                        THEN pathFrom(decodeNode(child, child.of), rest, proof, allow)
                                        ELSE Missing
              [] OTHER -> pathFrom(child, rest, proof, allow)
        short(r) == [r EXCEPT !.node = [n EXCEPT !.val = r.node]]
        full(r) == [r EXCEPT !.node = [n EXCEPT !.kids[key[1]] = r.node]]
    IN CASE n.kind = "short" /\ ~IsPrefix(n.key, key) -> [ok |-> allow, node |-> n, val |-> 0]
         [] n.kind = "short" /\ IsPrefix(n.key, key) -> short(next(n.val, Drop(key, Len(n.key))))
         [] n.kind = "full" -> full(next(n.kids[key[1]], Tail(key)))

proofToPath(rootHash, root, key, proof, allow) ==
    IF root # Nil THEN pathFrom(root, keybytesToHex(key), proof, allow)
    ELSE IF rootHash.of \notin proof THEN Missing
    ELSE pathFrom(decodeNode(rootHash, rootHash.of), keybytesToHex(key), proof, allow)

Dirtied(n) == [n EXCEPT !.hash = Nil, !.dirty = TRUE]

\* Clears the children of a full node in a set of slots.
Cleared(n, slots) == [n EXCEPT !.kids = [i \in Slots |-> IF i \in slots THEN Nil ELSE n.kids[i]]]

\* Mutant: the fork's own branch is kept on either side of the path.
KeepBranch(cmp, removeLeft) == FALSE

\* A short node off the path is inside the range if it is on the side to be removed.
Inside(cmp, removeLeft) == IF removeLeft THEN cmp < 0 ELSE cmp > 0

\* unset: what becomes of the child that the path leads to.
RECURSIVE unset(_, _, _)
unset(n, key, removeLeft) ==
    CASE n.kind = "nil" -> Nil
      [] n.kind = "full" ->
           LET i == key[1]
               gone == {j \in Nibbles : IF removeLeft THEN j < i ELSE j > i}
               c == Dirtied(Cleared(n, gone))
           IN [c EXCEPT !.kids[i] = unset(n.kids[i], Tail(key), removeLeft)]
      [] n.kind = "short" ->
           IF ~IsPrefix(n.key, key)
           THEN IF Inside(Compare(n.key, key), removeLeft) THEN Nil ELSE n
           ELSE IF n.val.kind = "value" THEN Nil
           ELSE [Dirtied(n) EXCEPT !.val = unset(n.val, Drop(key, Len(n.key)), removeLeft)]

\* unsetInternal: err for an empty range; the node Nil where the parent's child, or for the
\* root the whole trie, is unset.
RECURSIVE unsetInternal(_, _, _)
unsetInternal(n, left, right) ==
    LET as(node) == [err |-> FALSE, node |-> node]
        len == Len(n.key)
        side(s) == Compare(Take(s, IF Len(s) < len THEN Len(s) ELSE len), n.key)
        inShort(below) == [below EXCEPT !.node = [Dirtied(n) EXCEPT !.val = below.node]]
        fork(l, r) ==
            IF l = 0 /\ r = 0 THEN inShort(unsetInternal(n.val, Drop(left, len), Drop(right, len)))
            ELSE IF l = r THEN [err |-> TRUE, node |-> n]
            ELSE IF (l # 0 /\ r # 0) \/ n.val.kind = "value" THEN as(Nil)
            ELSE as([Dirtied(n) EXCEPT !.val = IF r # 0 THEN unset(n.val, Drop(left, len), FALSE)
                                               ELSE unset(n.val, Drop(right, len), TRUE)])
        inFull(i, below) == [below EXCEPT !.node = [Dirtied(n) EXCEPT !.kids[i] = below.node]]
        clear(c, i, key, removeLeft) == [c EXCEPT !.kids[i] = unset(c.kids[i], Tail(key), removeLeft)]
        branch(i, j) ==
            IF n.kids[i] # Nil /\ i = j
            THEN inFull(i, unsetInternal(n.kids[i], Tail(left), Tail(right)))
            ELSE as(clear(clear(Cleared(Dirtied(n), {k \in Nibbles : i < k /\ k < j}), i, left, FALSE),
                          j, right, TRUE))
    IN IF n.kind = "short" THEN fork(side(left), side(right)) ELSE branch(left[1], right[1])

RECURSIVE rightOf(_, _)
rightOf(n, key) ==
    CASE n.kind \in {"nil", "value"} -> FALSE
      [] n.kind = "full" -> \/ \E i \in Nibbles : i > key[1] /\ n.kids[i] # Nil
                            \/ rightOf(n.kids[key[1]], Tail(key))
      [] n.kind = "short" -> IF IsPrefix(n.key, key) THEN rightOf(n.val, Drop(key, Len(n.key)))
                             ELSE Compare(n.key, key) > 0

hasRightElement(n, key) == rightOf(n, keybytesToHex(key))

----------------------------------------------------------------------------
(* Range proofs *)

Rejected == [ok |-> FALSE, more |-> FALSE]
Accepted(more) == [ok |-> TRUE, more |-> more]

\* VerifyRangeProof for keys and values of equal number; all is TRUE for no edge proof.
VerifyRangeProof(rootHash, first, last, keys, values, proof, all) ==
    LET n == Len(keys)
        ordered == \A i \in 1 .. n - 1 : Compare(keys[i], keys[i + 1]) < 0
        stack == FoldLeft(LAMBDA s, i : StackUpdate(s, keys[i], values[i], <<>>).st, NewStackTrie,
                          [i \in 1 .. n |-> i])
        empty(absent) ==
            IF ~absent.ok \/ absent.val # 0 \/ hasRightElement(absent.node, first) THEN Rejected
            ELSE Accepted(FALSE)
        one(single) ==
            IF ~single.ok \/ first # keys[1] \/ single.val # values[1] THEN Rejected
            ELSE Accepted(hasRightElement(single.node, first))
        \* the trie with the range filled in again
        compare(filled) ==
            IF hashRoot(filled).hashed # rootHash THEN Rejected
            ELSE Accepted(hasRightElement(filled.root, keys[n]))
        fill(cut) ==
            IF cut.err THEN Rejected
            ELSE compare(FoldLeft(LAMBDA t, i : Update(t, keys[i], values[i]), newTrie(cut.node, <<>>),
                                  [i \in 1 .. n |-> i]))
        cutOut(both) ==
            IF ~both.ok THEN Rejected
            ELSE fill(unsetInternal(both.node, keybytesToHex(first), keybytesToHex(last)))
        edges(left) ==
            IF ~left.ok THEN Rejected ELSE cutOut(proofToPath(rootHash, left.node, last, proof, TRUE))
    IN IF ~ordered \/ \E i \in 1 .. n : values[i] = 0 THEN Rejected
       ELSE IF all THEN IF StackHash(stack) = rootHash THEN Accepted(FALSE) ELSE Rejected
       ELSE IF n = 0 THEN empty(proofToPath(rootHash, Nil, first, proof, TRUE))
       ELSE IF n = 1 /\ first = last THEN one(proofToPath(rootHash, Nil, first, proof, FALSE))
       ELSE IF Compare(first, last) >= 0 \/ Len(first) # Len(last) THEN Rejected
       ELSE edges(proofToPath(rootHash, Nil, first, proof, TRUE))
=============================================================================

----------------------------- MODULE StackTrie -----------------------------
(***************************************************************************)
(* The trie that is built from keys in increasing order and forgets what   *)
(* it will not need again (src/trie/stacktrie.go).  A node is              *)
(*   [type, key, val, kids], with an extension's child at kids[0];         *)
(* a hashed node keeps its hash, or its encoding if that is small, in val. *)
(* insert and hashRec carry the nodes that writeFn was given, in order.    *)
(***************************************************************************)
EXTENDS TrieReference

NoKids == [i \in Nibbles |-> Nil]
Stack(type, key, val, kids) == [kind |-> "stack", type |-> type, key |-> key, val |-> val, kids |-> kids]

NewStackTrie == Stack("empty", <<>>, 0, NoKids)
newLeaf(key, val) == Stack("leaf", key, val, NoKids)
newExt(key, child) == Stack("ext", key, 0, [NoKids EXCEPT ![0] = child])

\* hashRec: the node made a hashed node, and the list of written nodes.
RECURSIVE hashRec(_, _, _)
hashRec(st, path, out) ==
    LET hashed(h, o) == [st |-> Stack("hashed", <<>>, h, NoKids),
                         out |-> IF h.kind = "hash" THEN Append(o, <<path, h>>) ELSE o]
        done(blob, o) == hashed(toHash(blob, FALSE), o)
        put(x, i, r) == [nodes |-> [x.nodes EXCEPT ![i] = r.st.val], out |-> r.out]
        child(x, i) ==
            IF st.kids[i] = Nil THEN x ELSE put(x, i, hashRec(st.kids[i], Append(path, i), x.out))
        branch(r) == done(FullBlob(r.nodes), r.out)
        ext(r) == done(ShortBlob(hexToCompact(st.key), r.st.val), r.out)
    IN CASE st.type = "hashed" -> [st |-> st, out |-> out]
         [] st.type = "empty" -> [st |-> Stack("hashed", <<>>, EmptyRootHash, NoKids), out |-> out]
         [] st.type = "branch" ->
              branch(FoldLeft(child, [nodes |-> [i \in Slots |-> Nil], out |-> out],
                              SetToSortSeq(Nibbles, <)))
         [] st.type = "ext" -> ext(hashRec(st.kids[0], path \o st.key, out))
         [] st.type = "leaf" ->
              done(ShortBlob(hexToCompact(Append(st.key, Term)), valueNode(st.val)), out)

getDiffIndex(st, key) == prefixLen(st.key, key)

\* The children of a branch that come before the slot of a new key; the last is hashed.
Elder(kids, idx) == {i \in Nibbles : i < idx /\ kids[i] # Nil}

\* insert; ok is FALSE where the code panics.
RECURSIVE stackInsert(_, _, _, _, _)
stackInsert(st, key, value, prefix, out) ==
    LET d == getDiffIndex(st, key)
        upto(n) == prefix \o Take(st.key, n)
        \* the branch between the old part n and a leaf for the rest of the key
        split(n) == Stack("branch", <<>>, 0,
                          [NoKids EXCEPT ![st.key[d + 1]] = n, ![key[d + 1]] = newLeaf(Drop(key, d + 1), value)])
        below(n) == IF d = 0 THEN split(n) ELSE newExt(Take(st.key, d), split(n))
        result(node, o) == [st |-> node, out |-> o, ok |-> TRUE]
        hashed(r) == result(below(r.st), r.out)
        \* in a branch: the elder sibling is hashed, then the key goes to its child
        idx == key[1]
        elder == Elder(st.kids, idx)
        inBranch(kids, r) == [r EXCEPT !.st = [st EXCEPT !.kids = [kids EXCEPT ![idx] = r.st]]]
        toChild(kids, o) ==
            inBranch(kids, IF kids[idx] = Nil THEN result(newLeaf(Tail(key), value), o)
                           ELSE stackInsert(kids[idx], Tail(key), value, Append(prefix, idx), o))
        after(sib) == toChild([st.kids EXCEPT ![Max(elder)] = sib.st], sib.out)
        inExt(r) == [r EXCEPT !.st = [st EXCEPT !.kids[0] = r.st]]
    IN CASE st.type = "branch" ->
              IF elder = {} THEN toChild(st.kids, out)
              ELSE after(hashRec(st.kids[Max(elder)], Append(prefix, Max(elder)), out))
         [] st.type = "ext" ->
              IF d = Len(st.key) THEN inExt(stackInsert(st.kids[0], Drop(key, d), value, upto(d), out))
              ELSE hashed(IF d < Len(st.key) - 1
                          THEN hashRec(newExt(Drop(st.key, d + 1), st.kids[0]), upto(d + 1), out)
                          ELSE hashRec(st.kids[0], upto(Len(st.key)), out))
         [] st.type = "leaf" ->
              IF d >= Len(st.key) THEN [result(st, out) EXCEPT !.ok = FALSE]
              ELSE hashed(hashRec(newLeaf(Drop(st.key, d + 1), st.val), upto(d + 1), out))
         [] st.type = "empty" -> result(newLeaf(key, value), out)
         [] st.type = "hashed" -> [result(st, out) EXCEPT !.ok = FALSE]

\* Update, of a value that is not empty.
StackUpdate(st, key, value, out) == stackInsert(st, Front(keybytesToHex(key)), value, <<>>, out)

\* Mutant: the hash of a small root is not forced.
Unforced(st, out) == LET r == hashRec(st, <<>>, out) IN [root |-> r.st.val, out |-> r.out]

\* Commit: the root is hashed and written whatever its size.  Hash is the same without
\* the last write.
StackCommit(st, out) ==
    LET forced(v, o) == IF v.kind = "hash" THEN [root |-> v, out |-> o]
                        ELSE [root |-> hashNode(v), out |-> Append(o, <<<<>>, hashNode(v)>>)]
        of(r) == forced(r.st.val, r.out)
    IN of(hashRec(st, <<>>, out))

StackHash(st) == StackCommit(st, <<>>).root
=============================================================================

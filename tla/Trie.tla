-------------------------------- MODULE Trie --------------------------------
(***************************************************************************)
(* The Merkle Patricia trie of src/trie: nodes (node.go), lookups,         *)
(* insertion and deletion (trie.go), the record of inserted, deleted and   *)
(* loaded nodes (tracer.go), hashing (hasher.go) and commit (committer.go, *)
(* nodeset.go).                                                            *)
(*                                                                         *)
(* Hashing is ideal: a hash node is [kind |-> "hash", of |-> c], where c   *)
(* is the encoded node.  An encoded node has a compact key and, in place   *)
(* of each child, its hash or, if it is small, its own encoding.  A value  *)
(* is the number of its bytes.  The receiver t of the methods is a record  *)
(*    root, reader (the node database: hashes to encoded nodes), and the   *)
(*    tracer: ins, del and acc, sets of paths.                             *)
(***************************************************************************)
EXTENDS TrieEncoding, FiniteSets, FiniteSetsExt, TLC

CONSTANTS Nibbles,  \* the nibbles that occur in keys
          Limit     \* a node whose encoding is smaller is embedded; 32 in the code

Slots == Nibbles \cup {Term}

Nil == [kind |-> "nil"]
valueNode(v) == [kind |-> "value", val |-> v]
hashNode(c) == [kind |-> "hash", of |-> c]
EmptyRootHash == hashNode(Nil)

\* Encoded nodes.
ShortBlob(key, val) == [kind |-> "short", key |-> key, val |-> val]
FullBlob(kids) == [kind |-> "full", kids |-> kids]

\* Nodes in memory have a cached hash or Nil, and a dirty flag; a new one has newFlag.
shortNode(key, val) == [kind |-> "short", key |-> key, val |-> val, hash |-> Nil, dirty |-> TRUE]
fullNode(kids) == [kind |-> "full", kids |-> kids, hash |-> Nil, dirty |-> TRUE]
Inner(n) == n.kind \in {"short", "full"}

Drop(s, n) == SubSeq(s, n + 1, Len(s))
Take(s, n) == SubSeq(s, 1, n)

----------------------------------------------------------------------------
(* Encoding and decoding *)

RECURSIVE EncSize(_)
EncSize(c) ==
    CASE c.kind = "nil" -> 1
      [] c.kind = "value" -> 1 + c.val
      [] c.kind = "hash" -> 33
      [] c.kind = "short" -> 1 + Len(c.key) + EncSize(c.val)
      [] c.kind = "full" -> 1 + MapThenSumSet(LAMBDA i : EncSize(c.kids[i]), Slots)

\* shortnodeToHash and fullnodeToHash
toHash(c, force) == IF EncSize(c) < Limit /\ ~force THEN c ELSE hashNode(c)

\* hasher.hash: the node collapsed into its hash, and the node with its hash filled in.
RECURSIVE hash(_, _)
hash(n, force) ==
    LET with(h, x) == [hashed |-> h, cached |-> [x EXCEPT !.hash = IF h.kind = "hash" THEN h ELSE Nil]]
        short(r) == with(toHash(ShortBlob(hexToCompact(n.key), r.hashed), force),
                         [n EXCEPT !.val = r.cached])
        full(r) == with(toHash(FullBlob([i \in Slots |-> r[i].hashed]), force),
                        [n EXCEPT !.kids = [i \in Slots |-> r[i].cached]])
    IN CASE ~Inner(n) -> [hashed |-> n, cached |-> n]
         [] Inner(n) /\ n.hash # Nil -> [hashed |-> n.hash, cached |-> n]
         [] n.kind = "short" /\ n.hash = Nil -> short(hash(n.val, FALSE))
         [] n.kind = "full" /\ n.hash = Nil -> full([i \in Slots |-> hash(n.kids[i], FALSE)])

\* decodeNode: an embedded child is decoded with it and has no hash.
RECURSIVE decodeNode(_, _)
decodeNode(h, c) ==
    LET ref(x) == IF x.kind \in {"short", "full"} THEN decodeNode(Nil, x) ELSE x
    IN IF c.kind = "short"
       THEN [shortNode(compactToHex(c.key), ref(c.val)) EXCEPT !.hash = h, !.dirty = FALSE]
       ELSE [fullNode([i \in Slots |-> ref(c.kids[i])]) EXCEPT !.hash = h, !.dirty = FALSE]

----------------------------------------------------------------------------
(* The tracer *)

onInsert(t, path) ==
    IF path \in t.del THEN [t EXCEPT !.del = @ \ {path}] ELSE [t EXCEPT !.ins = @ \cup {path}]

onDelete(t, path) ==
    IF path \in t.ins THEN [t EXCEPT !.ins = @ \ {path}] ELSE [t EXCEPT !.del = @ \cup {path}]

onRead(t, path) == [t EXCEPT !.acc = @ \cup {path}]

\* resolveAndTrack: ok is FALSE for a MissingNodeError.
resolveAndTrack(t, n, prefix) ==
    IF n \in DOMAIN t.reader
    THEN [ok |-> TRUE, t |-> onRead(t, prefix), node |-> decodeNode(n, t.reader[n])]
    ELSE [ok |-> FALSE, t |-> t, node |-> n]

----------------------------------------------------------------------------
(* Get, insert and delete *)

\* get: v is the value found, or 0.  The nodes it loads are put in place.
RECURSIVE get(_, _, _, _)
get(t, n, prefix, key) ==
    LET found(v) == [v |-> v, node |-> n, t |-> t, ok |-> TRUE]
        short(r) == IF r.ok THEN [r EXCEPT !.node = [n EXCEPT !.val = r.node]] ELSE r
        full(r) == IF r.ok THEN [r EXCEPT !.node = [n EXCEPT !.kids[key[1]] = r.node]] ELSE r
        in(res) == IF res.ok THEN get(res.t, res.node, prefix, key) ELSE [found(0) EXCEPT !.ok = FALSE]
    IN CASE n.kind = "nil" -> found(0)
         [] n.kind = "value" -> found(n.val)
         [] n.kind = "short" ->
              IF ~IsPrefix(n.key, key) THEN found(0)
              ELSE short(get(t, n.val, prefix \o n.key, Drop(key, Len(n.key))))
         [] n.kind = "full" -> full(get(t, n.kids[key[1]], Append(prefix, key[1]), Tail(key)))
         [] n.kind = "hash" -> in(resolveAndTrack(t, n, prefix))

\* Mutant: the cached hash of a full node survives the change of a child.
StaleFull(n, i, child) == [n EXCEPT !.kids[i] = child, !.dirty = TRUE]

\* A copy of a full node with one child replaced and a new flag.
WithChild(n, i, child) == fullNode([n.kids EXCEPT ![i] = child])

\* insert and delete return t (with its tracer), whether anything changed, and the node.
RECURSIVE insert(_, _, _, _, _)
insert(t, n, prefix, key, value) ==
    LET result(tt, dirty, node) == [t |-> tt, dirty |-> dirty, node |-> node, ok |-> TRUE]
        unless(r, node) == IF r.ok /\ r.dirty THEN r ELSE [r EXCEPT !.dirty = FALSE, !.node = node]
        inShort(r) == IF r.ok /\ r.dirty THEN [r EXCEPT !.node = shortNode(n.key, @)] ELSE unless(r, n)
        inFull(r) == IF r.ok /\ r.dirty THEN [r EXCEPT !.node = WithChild(n, key[1], @)] ELSE unless(r, n)
        inHash(res) == IF ~res.ok THEN [result(t, FALSE, Nil) EXCEPT !.ok = FALSE]
                       ELSE unless(insert(res.t, res.node, prefix, key, value), res.node)
        \* a short node that shares m nibbles with the key is split
        leaf(tt, k, m, val) == insert(tt, Nil, prefix \o Take(k, m + 1), Drop(k, m + 1), val)
        branch(m, old, new) ==
            fullNode([i \in Slots |-> CASE i = n.key[m + 1] -> old.node
                                        [] i = key[m + 1] -> new.node
                                        [] OTHER -> Nil])
        joined(m, old, new) ==
            IF m = 0 THEN result(new.t, TRUE, branch(m, old, new))
            ELSE result(onInsert(new.t, prefix \o Take(key, m)), TRUE,
                        shortNode(Take(key, m), branch(m, old, new)))
        split(m, old) == joined(m, old, leaf(old.t, key, m, value))
        at(m) == IF m = Len(n.key) THEN inShort(insert(t, n.val, prefix \o n.key, Drop(key, m), value))
                 ELSE split(m, leaf(t, n.key, m, n.val))
    IN CASE key = <<>> -> result(t, n # value, value)
         [] key # <<>> /\ n.kind = "nil" -> result(onInsert(t, prefix), TRUE, shortNode(key, value))
         [] key # <<>> /\ n.kind = "short" -> at(prefixLen(key, n.key))
         [] key # <<>> /\ n.kind = "full" ->
              inFull(insert(t, n.kids[key[1]], Append(prefix, key[1]), Tail(key), value))
         [] key # <<>> /\ n.kind = "hash" -> inHash(resolveAndTrack(t, n, prefix))

\* Mutant: a full node with one child left is kept as it is.
KeepFull(t, n, prefix) == [t |-> t, dirty |-> TRUE, node |-> n, ok |-> TRUE]

\* The end of delete at a full node that lost a child: with one child left it becomes a
\* short node, merged with the child if that is a short node too.
reduce(t, n, prefix) ==
    LET result(tt, node) == [t |-> tt, dirty |-> TRUE, node |-> node, ok |-> TRUE]
        merged(pos, res) ==
            IF ~res.ok THEN [t |-> t, dirty |-> FALSE, node |-> Nil, ok |-> FALSE]
            ELSE IF res.node.kind = "short"
            THEN result(onDelete(res.t, Append(prefix, pos)),
                        shortNode(<<pos>> \o res.node.key, res.node.val))
            ELSE result(res.t, shortNode(<<pos>>, n.kids[pos]))
        short(pos) ==
            IF pos = Term THEN result(t, shortNode(<<pos>>, n.kids[pos]))
            ELSE merged(pos, IF n.kids[pos].kind = "hash"
                             THEN resolveAndTrack(t, n.kids[pos], Append(prefix, pos))
                             ELSE [ok |-> TRUE, t |-> t, node |-> n.kids[pos]])
        of(left) == IF Cardinality(left) > 1 THEN result(t, n) ELSE short(CHOOSE i \in left : TRUE)
    IN of({i \in Slots : n.kids[i] # Nil})

RECURSIVE delete(_, _, _, _)
delete(t, n, prefix, key) ==
    LET result(tt, dirty, node) == [t |-> tt, dirty |-> dirty, node |-> node, ok |-> TRUE]
        unless(r, node) == IF r.ok /\ r.dirty THEN r ELSE [r EXCEPT !.dirty = FALSE, !.node = node]
        inShort(r) ==
            IF ~r.ok \/ ~r.dirty THEN unless(r, n)
            ELSE IF r.node.kind = "short"
            THEN result(onDelete(r.t, prefix \o n.key), TRUE, shortNode(n.key \o r.node.key, r.node.val))
            ELSE result(r.t, TRUE, shortNode(n.key, r.node))
        inFull(r) ==
            IF ~r.ok \/ ~r.dirty THEN unless(r, n)
            ELSE IF r.node # Nil THEN result(r.t, TRUE, WithChild(n, key[1], r.node))
            ELSE reduce(r.t, WithChild(n, key[1], Nil), prefix)
        inHash(res) == IF ~res.ok THEN [result(t, FALSE, Nil) EXCEPT !.ok = FALSE]
                       ELSE unless(delete(res.t, res.node, prefix, key), res.node)
    IN CASE n.kind = "nil" -> result(t, FALSE, Nil)
         [] n.kind = "value" -> result(t, TRUE, Nil)
         [] n.kind = "short" ->
              IF prefixLen(key, n.key) < Len(n.key) THEN result(t, FALSE, n)
              ELSE IF Len(key) = Len(n.key) THEN result(onDelete(t, prefix), TRUE, Nil)
              ELSE inShort(delete(t, n.val, prefix \o n.key, Drop(key, Len(n.key))))
         [] n.kind = "full" -> inFull(delete(t, n.kids[key[1]], Append(prefix, key[1]), Tail(key)))
         [] n.kind = "hash" -> inHash(resolveAndTrack(t, n, prefix))

----------------------------------------------------------------------------
(* The methods of a trie *)

newTrie(root, reader) == [root |-> root, reader |-> reader, ins |-> {}, del |-> {}, acc |-> {}]

\* New, for a root that the reader has; the root node is loaded and tracked.
New(root, reader) ==
    IF root = EmptyRootHash THEN newTrie(Nil, reader)
    ELSE LET r == resolveAndTrack(newTrie(Nil, reader), root, <<>>)
         IN [r.t EXCEPT !.root = r.node]

Get(t, key) == get(t, t.root, <<>>, keybytesToHex(key))

\* A method that fails leaves the root as it is; the tracer keeps what it recorded.
Assigned(t, r) == [r.t EXCEPT !.root = IF r.ok THEN r.node ELSE t.root]

Delete(t, key) == Assigned(t, delete(t, t.root, <<>>, keybytesToHex(key)))

Update(t, key, v) ==
    IF v = 0 THEN Delete(t, key)
    ELSE Assigned(t, insert(t, t.root, <<>>, keybytesToHex(key), valueNode(v)))

hashRoot(t) == IF t.root = Nil THEN [hashed |-> EmptyRootHash, cached |-> Nil] ELSE hash(t.root, TRUE)

Hash(t) == [t EXCEPT !.root = hashRoot(t).cached]

----------------------------------------------------------------------------
(* Commit *)

Deleted == [hash |-> Nil, blob |-> Nil]

\* committer.store: n is the node with its hash, blob its collapsed form.
store(acc, path, n, blob, set) ==
    IF n.hash = Nil
    THEN [node |-> blob, set |-> IF path \in acc THEN path :> Deleted @@ set ELSE set]
    ELSE [node |-> n.hash, set |-> path :> [hash |-> n.hash, blob |-> blob] @@ set]

\* committer.commit: the hash or embedded form of n, and the set with its dirty nodes.
RECURSIVE commit(_, _, _, _)
commit(acc, path, n, set) ==
    LET as(node) == [node |-> node, set |-> set]
        child(x, i) ==
            IF ~Inner(n.kids[i]) THEN x
            ELSE LET r == commit(acc, Append(path, i), n.kids[i], x.set)
                 IN [kids |-> [x.kids EXCEPT ![i] = r.node], set |-> r.set]
    IN CASE ~Inner(n) -> as(n)
         [] Inner(n) /\ n.hash # Nil /\ ~n.dirty -> as(n.hash)
         [] n.kind = "short" /\ (n.hash = Nil \/ n.dirty) ->
              LET r == IF n.val.kind = "full" THEN commit(acc, path \o n.key, n.val, set) ELSE as(n.val)
              IN store(acc, path, n, ShortBlob(hexToCompact(n.key), r.node), r.set)
         [] n.kind = "full" /\ (n.hash = Nil \/ n.dirty) ->
              LET r == FoldLeft(child, [kids |-> n.kids, set |-> set], SetToSeq(Nibbles))
              IN store(acc, path, n, FullBlob(r.kids), r.set)

\* tracer.markDeletions: a node that was never read was not stored by itself.
markDeletions(t) == [p \in t.del \cap t.acc |-> Deleted]

\* Trie.Commit: the root hash, and the node set, which is nil for a trie that is clean.
Commit(t) ==
    LET nodes == markDeletions(t)
        h == hashRoot(t)
    IN IF t.root = Nil THEN [root |-> EmptyRootHash, set |-> nodes, nil |-> FALSE]
       ELSE IF ~h.cached.dirty THEN [root |-> h.hashed, set |-> <<>>, nil |-> TRUE]
       ELSE [root |-> h.hashed, set |-> commit(t.acc, <<>>, h.cached, nodes).set, nil |-> FALSE]

\* What a database keyed by hashes gets from a set, and what one keyed by paths does.
WithNodes(db, set) ==
    LET updated == {p \in DOMAIN set : set[p] # Deleted}
    IN [h \in {set[p].hash : p \in updated} |-> set[CHOOSE p \in updated : set[p].hash = h].blob] @@ db

WithPaths(disk, set) ==
    [p \in {q \in DOMAIN disk \cup DOMAIN set : q \in DOMAIN set => set[q] # Deleted} |->
        IF p \in DOMAIN set THEN set[p].hash ELSE disk[p]]
=============================================================================

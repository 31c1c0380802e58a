--------------------------- MODULE TrieReference ---------------------------
(***************************************************************************)
(* What a trie should be: the trie of a map (from keys to values, 0 where  *)
(* there is none), built at once from the keys, and the nodes of it that   *)
(* are stored.  The tries of the code are compared with it.                *)
(***************************************************************************)
EXTENDS Trie

HexMap(m) == [x \in {keybytesToHex(k) : k \in {k \in DOMAIN m : m[k] # 0}} |-> m[hexToKeybytes(x)]]

RECURSIVE Canonical(_)
Canonical(h) ==
    LET D == DOMAIN h
        some == CHOOSE x \in D : TRUE
        shared == Max({n \in 0 .. Len(some) : \A x \in D : IsPrefix(Take(some, n), x)})
        below(p) == [y \in {Drop(x, Len(p)) : x \in {x \in D : IsPrefix(p, x)}} |-> h[p \o y]]
    IN IF D = {} THEN Nil
       ELSE IF some = <<>> THEN valueNode(h[some])
       ELSE IF Cardinality(D) = 1 THEN shortNode(some, valueNode(h[some]))
       ELSE IF shared > 0 THEN shortNode(Take(some, shared), Canonical(below(Take(some, shared))))
       ELSE fullNode([i \in Slots |-> Canonical(below(<<i>>))])

\* Its root, hashed: the hash, and the trie with every hash filled in.
RootOf(m) == hashRoot([root |-> Canonical(HexMap(m))])

\* The nodes of a hashed trie that are stored by themselves, by path.
RECURSIVE StoredAt(_, _)
StoredAt(path, n) ==
    IF ~Inner(n) THEN {}
    ELSE (IF n.hash = Nil THEN {} ELSE {<<path, n.hash>>})
            \cup (IF n.kind = "short" THEN StoredAt(path \o n.key, n.val)
                  ELSE UNION {StoredAt(Append(path, i), n.kids[i]) : i \in Slots})

StoredNodes(m) == StoredAt(<<>>, RootOf(m).cached)

\* The order of bytes.Compare: -1, 0 or 1.
Compare(a, b) ==
    LET before(n) == n = Len(a) \/ (n < Len(b) /\ a[n + 1] < b[n + 1])
    IN IF a = b THEN 0 ELSE IF before(prefixLen(a, b)) THEN -1 ELSE 1
=============================================================================

---------------------------- MODULE MCTrieProof ----------------------------
(***************************************************************************)
(* Every map over a few keys, its trie opened from a database, and every   *)
(* question of a verifier about it: a key with any part of the trie's      *)
(* nodes, or a range with any claim of what it holds.                      *)
(***************************************************************************)
EXTENDS TrieProof

CONSTANTS Keys, Edges, Values

VARIABLES map,     \* what the trie holds
          trie,    \* the trie, opened from a database with its nodes
          root,    \* its root hash
          asked,   \* the question about a range
          answer   \* of VerifyRangeProof

vars == <<map, trie, root, asked, answer>>

NoRange == [first |-> <<>>, last |-> <<>>, claim |-> <<>>, all |-> FALSE]

Init ==
    /\ map \in [Keys -> Values \cup {0}]
    /\ root = RootOf(map).hashed
    /\ trie = New(root, [h \in {x[2] : x \in StoredNodes(map)} |-> h.of])
    /\ asked = NoRange /\ answer = Rejected

\* Keys of the universe from one to another.
Between(a, b) == {k \in Keys : Compare(a, k) <= 0 /\ Compare(k, b) <= 0}

\* A claim about the keys in a range, or about the whole map, and the verifier's answer.
Ask(a, b, S, all) ==
    LET proof == Prove(trie, a) \cup Prove(trie, b)
        keys == SetToSortSeq(S, LAMBDA x, y : Compare(x, y) < 0)
    IN /\ asked = NoRange
       /\ \E c \in [S -> Values] :
             /\ asked' = [first |-> a, last |-> b, claim |-> c, all |-> all]
             /\ answer' = VerifyRangeProof(root, a, b, keys, [i \in DOMAIN keys |-> c[keys[i]]], proof, all)
       /\ UNCHANGED <<map, trie, root>>

Next ==
    \/ \E a, b \in Edges : /\ Compare(a, b) <= 0
                           /\ \E S \in SUBSET Between(a, b) : Ask(a, b, S, FALSE)
    \/ \E a \in {k \in Keys : \A j \in Keys : Compare(k, j) <= 0}, S \in SUBSET Keys : Ask(a, a, S, TRUE)

Spec == Init /\ [][Next]_vars

----------------------------------------------------------------------------

ValueOf(k) == IF k \in Keys THEN map[k] ELSE 0
NotEmpty == \E k \in Keys : map[k] # 0

Truth(S) == [k \in {k \in S : map[k] # 0} |-> map[k]]

\* The keys that a claim is about: with no key in it, everything from its first edge on.
Scope == IF asked.all THEN Keys
         ELSE IF DOMAIN asked.claim = {}
         THEN {k \in Keys : Compare(asked.first, k) <= 0}
         ELSE Between(asked.first, asked.last)

\* A proof proves: for every key, present or not, the nodes that Prove gives are accepted
\* with the value the map has.
ProofsComplete ==
    (asked = NoRange /\ NotEmpty) =>
        \A k \in Edges : LET r == VerifyProof(root, k, Prove(trie, k))
                         IN r.ok /\ r.val = ValueOf(k)

\* Nothing else is ever proved: with any part of the trie's nodes the answer is the value of
\* the map or a refusal.
ProofsSound ==
    asked = NoRange =>
        \A P \in SUBSET {x[2].of : x \in StoredNodes(map)}, k \in Edges :
            LET r == VerifyProof(root, k, P) IN r.ok => r.val = ValueOf(k)

\* A range that is claimed as it is is accepted, wherever its edges lie, and the verifier
\* learns whether there is more to come.
RangesComplete ==
    (asked # NoRange /\ asked.claim = Truth(Scope) /\ NotEmpty) =>
        /\ answer.ok
        /\ asked.claim # <<>> =>
              (answer.more <=> ~asked.all /\ \E k \in Keys : map[k] # 0 /\ Compare(k, asked.last) > 0)

\* A claim with a gap, a key too many or a wrong value is refused.
RangesSound == (asked # NoRange /\ answer.ok) => asked.claim = Truth(Scope)
=============================================================================

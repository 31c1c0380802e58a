----------------------------- MODULE MCTrieDiff -----------------------------
(***************************************************************************)
(* The difference and the union of any two tries over a few keys.          *)
(***************************************************************************)
EXTENDS TrieIterator

CONSTANTS Keys, Values

VARIABLES old, new,  \* what the two tries hold
          diff,      \* the difference iterator: elements of new that are not in old
          union,     \* the iterators of the union
          inDiff,    \* the leaves and stored nodes that the difference has reported
          inUnion,   \* and the union, in order
          busy       \* which of the two have more to report

vars == <<old, new, diff, union, inDiff, inUnion, busy>>

Opened(m, rank) ==
    [newNodeIterator(New(RootOf(m).hashed, [h \in {x[2] : x \in StoredNodes(m)} |-> h.of]), <<>>)
        EXCEPT !.rank = rank]

Init ==
    /\ old \in [Keys -> Values \cup {0}] /\ new \in [Keys -> Values \cup {0}]
    /\ \E rank \in {0, 2} : /\ diff = NewDifference(Opened(old, rank), Opened(new, 1))
                           /\ union = <<Opened(old, rank), Opened(new, 1)>>
    /\ inDiff = <<>> /\ inUnion = <<>> /\ busy = {"diff", "union"}

\* What a position says: the leaf or the stored node it is at, if any.
Element(it) ==
    IF Leaf(it) THEN <<[key |-> LeafKey(it), val |-> LeafBlob(it)]>>
    ELSE IF HashOf(it) # Nil THEN <<[path |-> it.path, hash |-> HashOf(it)]>> ELSE <<>>

StepDiff ==
    /\ "diff" \in busy
    /\ \E r \in {NextDifference(diff)} :
          /\ diff' = r.d
          /\ IF r.ok THEN inDiff' = inDiff \o Element(r.d.b) /\ UNCHANGED busy
             ELSE busy' = busy \ {"diff"} /\ UNCHANGED inDiff
    /\ UNCHANGED <<old, new, union, inUnion>>

StepUnion ==
    /\ "union" \in busy /\ "diff" \notin busy
    /\ \E u \in {NextUnion(union)} :
          /\ union' = u
          /\ IF u # <<>> THEN inUnion' = inUnion \o Element(u[1]) /\ UNCHANGED busy
             ELSE busy' = busy \ {"union"} /\ UNCHANGED inUnion
    /\ UNCHANGED <<old, new, diff, inDiff>>

Next == StepDiff \/ StepUnion

Spec == Init /\ [][Next]_vars

----------------------------------------------------------------------------

Elements(m) ==
    {[key |-> k, val |-> m[k]] : k \in {k \in Keys : m[k] # 0}}
        \cup {[path |-> x[1], hash |-> x[2]] : x \in StoredNodes(m)}

NoDuplicates(s) == Cardinality(Range(s)) = Len(s)

\* The difference is exact although it skips every subtree that the two tries share: it
\* reports each leaf and each stored node of the second trie that the first does not have,
\* once, and no other.
DifferenceExact ==
    "diff" \notin busy => Range(inDiff) = Elements(new) \ Elements(old) /\ NoDuplicates(inDiff)

\* The union reports each leaf and each stored node of either trie once.
UnionExact ==
    "union" \notin busy => Range(inUnion) = Elements(old) \cup Elements(new) /\ NoDuplicates(inUnion)
=============================================================================

------------------------------ MODULE SkipList ------------------------------
(***************************************************************************)
(* The skip list behind the ring (SkiplistHashRing, src/local/hash_ring.go)*)
(* A node is known by its score and Root stands for s.root, so that        *)
(* nexts[p][l + 1] is the score of the node that p.nexts[l] points to, Nil *)
(* when it is nil.  A node outside the list has no nexts.                  *)
(***************************************************************************)
EXTENDS RingMap

CONSTANTS NodeID,
          MaxLevel  \* bound on what roll returns

Root == -1
Nil == MaxInt
Ptr == Score \cup {Root}

VARIABLES nexts,   \* the pointers of every node, lowest level first
          nodeIDs  \* the ids stored at every node

vars == <<nexts, nodeIDs>>

TypeOK ==
    /\ nexts \in [Ptr -> UNION {[1 .. n -> Score \cup {Nil}] : n \in 0 .. MaxLevel + 1}]
    /\ nodeIDs \in [Score -> Seq(NodeID)]

Init ==
    /\ nexts = [p \in Ptr |-> <<>>]
    /\ nodeIDs = [s \in Score |-> <<>>]

Levels == Len(nexts[Root])

\* From move, the last node of the level before score.
Advance(nx, move, level, score) ==
    LET go[p \in Ptr] ==
            LET q == nx[p][level] IN IF q # Nil /\ q < score THEN go[q] ELSE p
    IN go[move]

\* Where the search of score ends that starts at the root at the given level and goes
\* down to level `to'.
Descend(nx, from, to, score) ==
    LET go[l \in 0 .. from + 1] ==
            IF l > from THEN Root ELSE Advance(nx, go[l + 1], l, score)
    IN go[to]

\* The node of a score, found at the first level that has it.
get(score) ==
    IF \E l \in 1 .. Levels : nexts[Descend(nexts, Levels, l, score)][l] = score
    THEN score ELSE Nil

first == IF Levels = 0 THEN -1 ELSE nexts[Root][1]

last ==
    IF Levels = 0 THEN -1 ELSE Descend(nexts, Levels, 1, Nil)

ceiling(score) ==
    LET move == Descend(nexts, Levels, 1, score)
    IN IF Levels = 0 THEN -1
       ELSE IF nexts[move][1] = Nil THEN -1 ELSE nexts[move][1]

floor(score) ==
    LET move == Descend(nexts, Levels, 1, score)
    IN IF Levels = 0 THEN -1
       ELSE IF nexts[move][1] = score THEN score
       ELSE move  \* Root, for "not found", is -1 too

----------------------------------------------------------------------------

Padded(seq, n) == [i \in 1 .. Max({Len(seq), n}) |-> IF i <= Len(seq) THEN seq[i] ELSE Nil]

\* Mutant: a new node is linked in the levels below its own only.
LinkedLow(nx, score, top) ==
    LET prev(l) == Descend(nx, top, l, score)
    IN [p \in Ptr |->
          IF p = score THEN [l \in 1 .. top |-> nx[prev(l)][l]]
          ELSE [l \in DOMAIN nx[p] |-> IF l < top /\ p = prev(l) THEN score ELSE nx[p][l]]]

\* nexts with a new node of the given number of levels linked in.  A pointer of the new
\* node is the one it replaces, read in the same pass.
Linked(nx, score, top) ==
    LET prev(l) == Descend(nx, top, l, score)
    IN [p \in Ptr |->
          IF p = score THEN [l \in 1 .. top |-> nx[prev(l)][l]]
          ELSE [l \in DOMAIN nx[p] |-> IF l <= top /\ p = prev(l) THEN score ELSE nx[p][l]]]

\* Mutant: an id that is there is stored again.
AddTwice(score, id) ==
    /\ get(score) # Nil /\ Len(nodeIDs[score]) < 3
    /\ nodeIDs' = [nodeIDs EXCEPT ![score] = Append(@, id)]
    /\ UNCHANGED nexts

AddThere(score, id) ==
    /\ get(score) # Nil
    /\ nodeIDs' = [nodeIDs EXCEPT ![score] = IF id \in Range(@) THEN @ ELSE Append(@, id)]
    /\ UNCHANGED nexts

AddNew(score, id, rLevel) ==
    /\ get(score) = Nil
    /\ nexts' = Linked([nexts EXCEPT ![Root] = Padded(@, rLevel + 1)], score, rLevel + 1)
    /\ nodeIDs' = [nodeIDs EXCEPT ![score] = <<id>>]

RemShared(score, id) ==
    /\ get(score) # Nil /\ id \in Range(nodeIDs[score]) /\ Len(nodeIDs[score]) > 1
    /\ nodeIDs' = [nodeIDs EXCEPT ![score] = SelectSeq(@, LAMBDA x : x # id)]
    /\ UNCHANGED nexts

Unlinked(nx, score) ==
    LET prev(l) == Descend(nx, Levels, l, score)
    IN [p \in Ptr |->
          IF p = score THEN <<>>
          ELSE [l \in DOMAIN nx[p] |->
                   IF p = prev(l) /\ nx[p][l] = score THEN nx[score][l] ELSE nx[p][l]]]

\* s.root.nexts is cut at its first level without a node.
Cut(seq) ==
    LET empty == {l \in DOMAIN seq : seq[l] = Nil}
    IN IF empty = {} THEN seq ELSE SubSeq(seq, 1, Min(empty) - 1)

RemLast(score, id) ==
    /\ get(score) # Nil /\ nodeIDs[score] = <<id>>
    /\ LET nx == Unlinked(nexts, score) IN nexts' = [nx EXCEPT ![Root] = Cut(@)]
    /\ nodeIDs' = [nodeIDs EXCEPT ![score] = <<>>]

Next ==
    \E score \in Score, id \in NodeID :
        \/ AddThere(score, id)
        \/ \E rLevel \in 0 .. MaxLevel : AddNew(score, id, rLevel)
        \/ RemShared(score, id)
        \/ RemLast(score, id)

Spec == Init /\ [][Next]_vars

----------------------------------------------------------------------------
(* Properties *)

Chain(level) ==
    LET after[p \in Ptr] ==
            IF nexts[p][level] = Nil THEN <<>>
            ELSE <<nexts[p][level]>> \o after[nexts[p][level]]
    IN after[Root]

\* The chain of every level rises, and holds exactly the nodes that have that level: no
\* search steps on a node too low for it (an index out of range in Go), none misses one.
LevelsSound ==
    \A l \in 1 .. Levels :
        /\ \A p \in Ptr : Len(nexts[p]) >= l => nexts[p][l] = Nil \/ nexts[p][l] > p
        /\ Range(Chain(l)) = {s \in Score : Len(nexts[s]) >= l}
        /\ Chain(l) # <<>>

\* Ceiling, Floor and Node answer for every score as the ordered map does.
SearchesAgree ==
    \A s \in Score :
        /\ Ceiling(nodeIDs, s) = IF ceiling(s) # -1 THEN ceiling(s) ELSE first
        /\ Floor(nodeIDs, s) = IF floor(s) # -1 THEN floor(s) ELSE last
        /\ (get(s) # Nil) <=> (nodeIDs[s] # <<>>)

\* The list implements the ordered map: its contents are what its lowest level reaches.
Contents == [s \in Score |-> IF Levels > 0 /\ s \in Range(Chain(1)) THEN nodeIDs[s] ELSE <<>>]
Map == INSTANCE OrderedRing WITH ring <- Contents
IsOrderedRing == Map!Spec
=============================================================================

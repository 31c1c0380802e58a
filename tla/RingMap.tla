------------------------------ MODULE RingMap ------------------------------
(***************************************************************************)
(* What the ring of package local holds, as a value: the node keys at each *)
(* score, with the operations of HashRing (src/local/hash_ring.go) on it.  *)
(* The module HashRing builds on them; SkipList is shown to compute them.  *)
(***************************************************************************)
EXTENDS Integers, Sequences, FiniteSets, FiniteSetsExt, SequencesExt

CONSTANT MaxInt  \* math.MaxInt32: scores are taken modulo this

Score == 0 .. MaxInt - 1

Held(r) == {s \in Score : r[s] # <<>>}

Ceiling(r, s) ==
    LET up == {x \in Held(r) : x >= s}
    IN IF up # {} THEN Min(up) ELSE IF Held(r) # {} THEN Min(Held(r)) ELSE -1

Floor(r, s) ==
    LET down == {x \in Held(r) : x <= s}
    IN IF down # {} THEN Max(down) ELSE IF Held(r) # {} THEN Max(Held(r)) ELSE -1

Add(r, s, nk) ==
    IF nk \in Range(r[s]) THEN r ELSE [r EXCEPT ![s] = Append(@, nk)]

\* Rem's delete of nodeToDataKey names a node key, which is never a node id.
Rem(r, s, nk) == [r EXCEPT ![s] = SelectSeq(@, LAMBDA x : x # nk)]
=============================================================================

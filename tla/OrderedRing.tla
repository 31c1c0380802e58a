---------------------------- MODULE OrderedRing ----------------------------
(***************************************************************************)
(* The ring as an ordered map that node keys are added to and removed from *)
(* one at a time: what SkipList implements.                                *)
(***************************************************************************)
EXTENDS RingMap

CONSTANT NodeID

VARIABLE ring

Init == ring = [s \in Score |-> <<>>]

Next == \E s \in Score, id \in NodeID : ring' = Add(ring, s, id) \/ ring' = Rem(ring, s, id)

Spec == Init /\ [][Next]_ring
=============================================================================

------------------------------ MODULE MCTrieDB ------------------------------
(***************************************************************************)
(* Three tries that share nodes, one of them a subtrie of another, updated,*)
(* referenced, dropped, flushed and committed in any order, with crashes.  *)
(***************************************************************************)
EXTENDS TrieDB

\* The nodes of a trie that its commit reports: the root, with each of them one of its
\* parents, and all that the trie it was made from does not have.  Any more may be among
\* them, rewritten to what they were.
DirtySets(r) ==
    {S \in SUBSET Reach(r) :
        /\ r \in S
        /\ \A h \in S \ {r} : \E p \in S : h \in Range(Kids[p])
        /\ \/ S = Reach(r)
           \/ \E b \in Roots : Live(b) /\ Reach(r) \ S \subseteq Reach(b)}

Next ==
    \/ \E r \in Roots : \/ \E S \in DirtySets(r) : Update(r, S)
                        \/ Reference(r) \/ Dereference(r) \/ Commit(r)
    \/ \E n \in 1 .. Cardinality(DOMAIN Kids) : Cap(n)
    \/ \E n \in 1 .. 3 : WriteBatch(n)
    \/ \E n \in 4 .. Len(job.todo) : n = Len(job.todo) /\ WriteBatch(n)
    \/ Uncache \/ Finish \/ Crash

Spec == Init /\ [][Next]_vars

----------------------------------------------------------------------------

\* A trie that someone references, or that was just written, can be read in full at any time,
\* in the middle of a flush too: no node of it is dropped because another trie that shares
\* it is, and none leaves memory before it is on disk.
LiveTriesComplete ==
    \A r \in Roots : (held[r] > 0 \/ fresh = r) => Reach(r) \subseteq DOMAIN dirties \cup disk

\* On disk every node has its children, whenever the process dies: what can be opened after
\* a restart can be read.
DiskClosed == \A h \in disk : Reach(h) \subseteq disk

\* The flush list goes through all nodes in memory, from the oldest to the newest, in both
\* directions.
FlushListSound ==
    LET list == From(oldest)
    IN /\ Range(list) = DOMAIN dirties /\ Len(list) = Cardinality(DOMAIN dirties)
       /\ list # <<>> => Last(list) = newest
       /\ \A i \in 2 .. Len(list) : dirties[list[i]].prev = list[i - 1]

\* Nothing is kept too long: a node has never more parents on its account than there are
\* references to it from memory, so it goes with the last of them.
NotOvercounted ==
    \A h \in DOMAIN dirties :
        dirties[h].parents <= MapThenSumSet(LAMBDA p : ParentOf(p, h), DOMAIN dirties)
                                + (IF h \in Roots THEN held[h] ELSE 0)
=============================================================================

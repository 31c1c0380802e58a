------------------------------ MODULE MCTries ------------------------------
(***************************************************************************)
(* The trie package: the trie itself with its commits, the key encodings,  *)
(* the stack trie, proofs, the node iterator, and the difference and union *)
(* of two tries.  A behaviour is one of one of them, with keys of its own; *)
(* the variables of the others are idle.                                   *)
(***************************************************************************)
EXTENDS MCTrie

VARIABLES inst,    \* the part that runs
          hex, st, out, root, asked, answer,
          start, it, seen, expected, lost,
          old, new, diff, union, inDiff, inUnion, busy

mapVars == <<map, trie, root>>
commitVars == <<saved, disk>>
stackVars == <<st, out>>
proofVars == <<asked, answer>>
iterVars == <<start, it, seen, expected, lost>>
diffVars == <<old, new, diff, union, inDiff, inUnion, busy>>
trieVars == <<inst, hex, mapVars, commitVars, stackVars, proofVars, iterVars, diffVars>>

Encoding == INSTANCE MCTrieEncoding WITH Nibbles <- {0, 1, 2, 15}, MaxLen <- 5
StackKeys == {<<0, 0>>, <<0, 1>>, <<0, 16>>, <<1, 0>>, <<1, 17>>, <<16, 1>>, <<17, 17>>}
Stacked == INSTANCE MCStackTrie WITH Keys <- StackKeys
ProofKeys == {<<0>>, <<1>>, <<18>>, <<33>>}
ProofEdges == ProofKeys \cup {<<2>>, <<17>>, <<34>>}
Proof == INSTANCE MCTrieProof WITH Keys <- ProofKeys, Edges <- ProofEdges
DeepKeys == {<<0, 0>>, <<0, 1>>, <<0, 17>>, <<1, 1>>}
DeepEdges == DeepKeys \cup {<<0, 16>>}
Deep == INSTANCE MCTrieProof WITH Keys <- DeepKeys, Edges <- DeepEdges
IterKeys == {<<0>>, <<1>>, <<16>>, <<18>>}
Starts == IterKeys \cup {<<>>, <<2>>, <<17>>, <<34>>}
Iter == INSTANCE MCTrieIterator WITH Keys <- IterKeys, MaxLost <- 2
DiffKeys == {<<0>>, <<1>>, <<18>>}
Diff == INSTANCE MCTrieDiff WITH Keys <- DiffKeys

NoMaps == map = Nil /\ trie = Nil /\ root = Nil
NoCommits == saved = Nil /\ disk = Nil
NoStack == st = Nil /\ out = Nil
NoProof == asked = Nil /\ answer = Nil
NoIter == start = Nil /\ it = Nil /\ seen = Nil /\ expected = Nil /\ lost = 0
NoDiff == /\ old = Nil /\ new = Nil /\ diff = Nil /\ union = Nil
          /\ inDiff = Nil /\ inUnion = Nil /\ busy = {}

TriesInit ==
    /\ Encoding!Init
    /\ \/ inst = "trie" /\ Init /\ root = Nil /\ NoStack /\ NoProof /\ NoIter /\ NoDiff
       \/ inst = "encoding" /\ NoMaps /\ NoCommits /\ NoStack /\ NoProof /\ NoIter /\ NoDiff
       \/ inst = "stack" /\ Stacked!Init /\ trie = Nil /\ NoCommits /\ NoProof /\ NoIter /\ NoDiff
       \/ inst = "proof" /\ Proof!Init /\ NoCommits /\ NoStack /\ NoIter /\ NoDiff
       \/ inst = "deep" /\ Deep!Init /\ NoCommits /\ NoStack /\ NoIter /\ NoDiff
       \/ inst = "iterator" /\ Iter!Init /\ trie = Nil /\ root = Nil /\ NoCommits /\ NoStack /\ NoProof /\ NoDiff
       \/ inst = "diff" /\ Diff!Init /\ NoMaps /\ NoCommits /\ NoStack /\ NoProof /\ NoIter

TriesNext ==
    /\ UNCHANGED inst
    /\ \/ inst = "trie" /\ Next /\ UNCHANGED <<hex, root, stackVars, proofVars, iterVars, diffVars>>
       \/ /\ inst = "encoding" /\ Encoding!Grow
          /\ UNCHANGED <<mapVars, commitVars, stackVars, proofVars, iterVars, diffVars>>
       \/ inst = "stack" /\ Stacked!Next /\ UNCHANGED <<hex, trie, commitVars, proofVars, iterVars, diffVars>>
       \/ inst = "proof" /\ Proof!Next /\ UNCHANGED <<hex, commitVars, stackVars, iterVars, diffVars>>
       \/ inst = "deep" /\ Deep!Next /\ UNCHANGED <<hex, commitVars, stackVars, iterVars, diffVars>>
       \/ /\ inst = "iterator" /\ Iter!Next
          /\ UNCHANGED <<hex, trie, root, commitVars, stackVars, proofVars, diffVars>>
       \/ inst = "diff" /\ Diff!Next /\ UNCHANGED <<hex, mapVars, commitVars, stackVars, proofVars, iterVars>>

TriesSpec == TriesInit /\ [][TriesNext]_trieVars

----------------------------------------------------------------------------
(* The properties of the parts, whose modules say more of them.            *)

\* Every lookup gives what was last put under the key, and the root hash depends on the
\* map alone, whatever the order of updates, deletions, hashings and commits.
MapExact == inst = "trie" => LookupsAgree /\ RootIsCanonical

\* A store keyed by paths, kept up to date from the node sets of the commits, holds the
\* nodes of the committed trie and nothing else; in the database every hash names its
\* node, and no node of the committed trie is missing.
CommitsExact == inst = "trie" => PathsExact /\ DatabaseSound

\* compactToHex undoes hexToCompact, hexToCompactInPlace gives the same bytes, and
\* hexToKeybytes and keybytesToHex are inverses on keys of whole bytes.
EncodingsExact ==
    inst = "encoding" => Encoding!CompactRoundTrip /\ Encoding!InPlaceAgrees /\ Encoding!KeyRoundTrip

\* With keys in increasing order the stack trie never panics, its root is that of a trie
\* with the same content, and it writes the nodes of that trie, each once.
StackExact == inst = "stack" => Stacked!NeverPanics /\ Stacked!SameRoot /\ Stacked!WritesExact

\* VerifyProof accepts what Prove gives and, with any part of the trie's nodes, gives the
\* value of the map or refuses.  VerifyRangeProof accepts every true claim and tells
\* whether there is more, and refuses one with a gap, a key too many or a wrong value.
ProofsExact ==
    /\ inst = "proof" => /\ Proof!ProofsComplete /\ Proof!ProofsSound
                         /\ Proof!RangesComplete /\ Proof!RangesSound
    /\ inst = "deep" => /\ Deep!ProofsComplete /\ Deep!ProofsSound
                        /\ Deep!RangesComplete /\ Deep!RangesSound

\* An iterator reports every node once and in order, whatever could not be loaded between;
\* at a leaf its stack proves the leaf, and a call that has every node at hand gets on.
\* The difference and the union of two tries are exact.
IteratorsExact ==
    /\ inst = "iterator" => Iter!IterationExact /\ Iter!LeafProofsHold /\ Iter!CallsProgress
    /\ inst = "diff" => Diff!DifferenceExact /\ Diff!UnionExact
=============================================================================

------------------------------- MODULE MCTrie -------------------------------
(***************************************************************************)
(* One trie that is read, written, hashed and committed in any order, next *)
(* to the map it stands for and to a store of its nodes by their paths.    *)
(***************************************************************************)
EXTENDS TrieReference

CONSTANTS Keys,    \* sequences of bytes whose nibbles are in Nibbles
          Values,  \* lengths of values
          Puts     \* which of them are put under which key

MCKeys == {<<0>>, <<1>>, <<17>>, <<0, 1>>}
MCPuts == ({<<0>>, <<0, 1>>} \X {1, 9}) \cup {<<<<1>>, 9>>, <<<<17>>, 1>>}

VARIABLES trie,    \* the open trie
          map,     \* what was put: 0 if there is nothing
          saved,   \* the map at the last commit
          disk     \* hashes by path, as the node sets of the commits leave them

vars == <<trie, map, saved, disk>>

NoMap == [k \in Keys |-> 0]

Init ==
    /\ trie = newTrie(Nil, <<>>) /\ disk = <<>>
    /\ map = NoMap /\ saved = NoMap

DoUpdate(k, v) ==
    /\ trie' = Update(trie, k, v) /\ map' = [map EXCEPT ![k] = v]
    /\ UNCHANGED <<saved, disk>>

DoDelete(k) ==
    /\ trie' = Delete(trie, k) /\ map' = [map EXCEPT ![k] = 0]
    /\ UNCHANGED <<saved, disk>>

DoGet(k) == trie' = [Get(trie, k).t EXCEPT !.root = Get(trie, k).node] /\ UNCHANGED <<map, saved, disk>>

DoHash == trie' = Hash(trie) /\ UNCHANGED <<map, saved, disk>>

\* A commit, its node set written out, and the trie opened again.  The database drops
\* every node that the paths no longer name.
DoCommit ==
    LET c == Commit(trie)
        paths == WithPaths(disk, c.set)
        db == WithNodes(trie.reader, c.set)
    IN /\ disk' = paths
       /\ trie' = New(c.root, Restrict(db, DOMAIN db \cap {paths[p] : p \in DOMAIN paths}))
       /\ saved' = map /\ UNCHANGED map

Next ==
    \/ \E put \in Puts : DoUpdate(put[1], put[2])
    \/ \E k \in Keys : DoDelete(k) \/ DoGet(k)
    \/ DoHash \/ DoCommit

Spec == Init /\ [][Next]_vars

----------------------------------------------------------------------------
(* Properties *)

\* The trie is the map: every lookup gives what was last put under the key.
LookupsAgree == \A k \in Keys : Get(trie, k).ok /\ Get(trie, k).v = map[k]

\* The root hash depends on the map alone, not on the order of the calls that made it, nor
\* on which hashes were cached and which nodes loaded in between.
RootIsCanonical == hashRoot(trie).hashed = RootOf(map).hashed

\* The node sets of the commits describe every change of the stored nodes: a store keyed by
\* paths holds the nodes of the committed trie, and nothing else.
PathsExact ==
    {<<p, disk[p]>> : p \in DOMAIN disk} = StoredNodes(saved)

\* Every hash in the database names the node it is the hash of, and the database has every
\* node of the committed trie.
DatabaseSound ==
    /\ \A h \in DOMAIN trie.reader : trie.reader[h] = h.of
    /\ \A x \in StoredNodes(saved) : x[2] \in DOMAIN trie.reader
=============================================================================

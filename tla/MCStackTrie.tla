---------------------------- MODULE MCStackTrie ----------------------------
(***************************************************************************)
(* A stack trie that gets keys in increasing order and is then committed.  *)
(***************************************************************************)
EXTENDS StackTrie

CONSTANTS Keys, Values

VARIABLES st, map, out, root

vars == <<st, map, out, root>>

Init == st = NewStackTrie /\ map = [k \in Keys |-> 0] /\ out = <<>> /\ root = Nil

DoUpdate(k, v) ==
    /\ root = Nil /\ \A j \in Keys : map[j] # 0 => Compare(j, k) = -1
    /\ LET r == StackUpdate(st, k, v, out)
       IN r.ok /\ st' = r.st /\ out' = r.out
    /\ map' = [map EXCEPT ![k] = v] /\ UNCHANGED root

DoCommit ==
    /\ root = Nil
    /\ root' = StackCommit(st, out).root /\ out' = StackCommit(st, out).out
    /\ UNCHANGED <<st, map>>

Next == (\E k \in Keys, v \in Values : DoUpdate(k, v)) \/ DoCommit

Spec == Init /\ [][Next]_vars

\* No key in increasing order makes the code panic: it never has to insert into a node that
\* it has hashed already, nor over an existing key.
NeverPanics ==
    root = Nil => \A k \in Keys : (\A j \in Keys : map[j] # 0 => Compare(j, k) = -1)
                                     => StackUpdate(st, k, 1, out).ok

\* The root is the one that a trie with the same content has.
SameRoot == root # Nil => root = RootOf(map).hashed

\* The nodes written, most of them before the last key was known, are those of the finished
\* trie, each of them once and none of an intermediate one.
WritesExact ==
    (root # Nil /\ map # [k \in Keys |-> 0]) =>
        /\ Range(out) = StoredNodes(map)
        /\ Cardinality(Range(out)) = Len(out)
=============================================================================

------------------------------- MODULE TrieDB -------------------------------
(***************************************************************************)
(* The node database between tries and the disk (src/trie/database.go):    *)
(* nodes written by Update stay in memory (dirties) with a count of their  *)
(* parents and on a list in the order of their insertion, until the last   *)
(* reference to them goes (Dereference), the list is flushed from its old  *)
(* end (Cap), or a trie is written out (Commit).  Cap and Commit write in  *)
(* batches and drop nodes from memory only after they are on disk; the     *)
(* process may die between any two of these steps.                         *)
(*                                                                         *)
(* Nodes are hashes with fixed children.  The clean cache is off, as the   *)
(* chains configure it, and references between tries (Update with leaves)  *)
(* do not occur, since no account has storage.                             *)
(***************************************************************************)
EXTENDS Naturals, Sequences, SequencesExt, FiniteSets, FiniteSetsExt, Functions

CONSTANTS Kids,     \* a hash to the sequence of its children, which are smaller numbers
          Roots,    \* hashes that are roots of tries
          MaxHeld   \* bound on the references to one root

\* Hashes as they are: no node is below itself.
Dag ==
    /\ Roots \subseteq DOMAIN Kids
    /\ \A h \in DOMAIN Kids : h > 0 /\ \A i \in DOMAIN Kids[h] : Kids[h][i] \in DOMAIN Kids /\ Kids[h][i] < h

VARIABLES dirties,  \* hash -> [parents, prev, next]; links are 0 at the ends
          oldest, newest,
          held,     \* root -> references that its users hold
          disk,     \* hashes on disk
          job,      \* the Cap or Commit under way
          fresh     \* a root that was just updated and is not yet referenced or committed, or 0

vars == <<dirties, oldest, newest, held, disk, job, fresh>>

Idle == [kind |-> "none", root |-> 0, todo |-> <<>>, written |-> <<>>]

Init ==
    /\ dirties = <<>> /\ oldest = 0 /\ newest = 0
    /\ held = [r \in Roots |-> 0]
    /\ disk = {} /\ job = Idle /\ fresh = 0

RECURSIVE Reach(_)
Reach(h) == {h} \cup UNION {Reach(Kids[h][i]) : i \in DOMAIN Kids[h]}

\* Tries that may be opened: referenced, or on disk.
Live(r) == held[r] > 0 \/ r \in disk

\* What is in memory, as one value for the functions that change it.
Mem == [dirties |-> dirties, oldest |-> oldest, newest |-> newest]
Becomes(m) == dirties' = m.dirties /\ oldest' = m.oldest /\ newest' = m.newest

\* A link of a node; those of the meta-root are written and never read.
Linked(d, h, f, v) == IF h \in DOMAIN d THEN [d EXCEPT ![h][f] = v] ELSE d

----------------------------------------------------------------------------

\* Mutant: the children are not told of their new parent.
NotCounted(h, x) == 0

\* How often a node is the parent of another.
ParentOf(h, x) == Cardinality({i \in DOMAIN Kids[h] : Kids[h][i] = x})

\* insert
insertNode(m, h) ==
    LET counted == [x \in DOMAIN m.dirties |-> [m.dirties[x] EXCEPT !.parents = @ + ParentOf(h, x)]]
        entry == [parents |-> 0, prev |-> m.newest, next |-> 0]
        listed == IF m.oldest = 0 THEN counted ELSE Linked(counted, m.newest, "next", h)
    IN IF h \in DOMAIN m.dirties THEN m
       ELSE [dirties |-> [x \in DOMAIN listed \cup {h} |-> IF x = h THEN entry ELSE listed[x]],
             oldest |-> IF m.oldest = 0 THEN h ELSE m.oldest,
             newest |-> h]

\* Update with the dirty nodes of a trie, the children first.
Ordered(S) == SelectSeq([i \in 1 .. Max(DOMAIN Kids) |-> i], LAMBDA h : h \in S)

Update(r, S) ==
    /\ job = Idle /\ fresh = 0
    /\ Becomes(FoldLeft(insertNode, Mem, Ordered(S)))
    /\ fresh' = r
    /\ UNCHANGED <<held, disk, job>>

\* Reference of a root by the meta-root; one that is only on disk is skipped.
Reference(r) ==
    /\ job = Idle /\ (fresh = r \/ (fresh = 0 /\ Live(r))) /\ held[r] < MaxHeld
    /\ dirties' = IF r \in DOMAIN dirties THEN [dirties EXCEPT ![r].parents = @ + 1] ELSE dirties
    /\ held' = [held EXCEPT ![r] = @ + 1]
    /\ fresh' = 0
    /\ UNCHANGED <<oldest, newest, disk, job>>

\* The removal from the flush list in dereference and in the cleaner's Put.
unlink(m, h) ==
    LET n == m.dirties[h]
    IN CASE h = m.oldest -> [m EXCEPT !.oldest = n.next, !.dirties = Linked(@, n.next, "prev", 0)]
         [] h # m.oldest /\ h = m.newest ->
              [m EXCEPT !.newest = n.prev, !.dirties = Linked(@, n.prev, "next", 0)]
         [] OTHER -> [m EXCEPT !.dirties = Linked(Linked(@, n.prev, "next", n.next), n.next, "prev", n.prev)]

Without(m, h) == [m EXCEPT !.dirties = Restrict(@, DOMAIN @ \ {h})]

\* dereference: a node that loses its last parent goes, and its children lose one.
RECURSIVE dereference(_, _)
dereference(m, h) ==
    LET p == m.dirties[h].parents
        n == IF p > 0 THEN p - 1 ELSE 0
    IN IF h \notin DOMAIN m.dirties THEN m
       ELSE IF n > 0 THEN [m EXCEPT !.dirties[h].parents = n]
       ELSE Without(FoldLeft(LAMBDA x, k : dereference(x, k), unlink(m, h), Kids[h]), h)

Dereference(r) ==
    /\ job = Idle /\ fresh = 0 /\ held[r] > 0
    /\ held' = [held EXCEPT ![r] = @ - 1]
    /\ Becomes(dereference(Mem, r))
    /\ UNCHANGED <<disk, job, fresh>>

----------------------------------------------------------------------------
(* Cap and Commit *)

RECURSIVE From(_)
From(h) == IF h \notin DOMAIN dirties THEN <<>> ELSE <<h>> \o From(dirties[h].next)

\* Cap, for a limit that n nodes have to go for; they are written from the old end.
Cap(n) ==
    /\ job = Idle /\ fresh = 0
    /\ n <= Len(From(oldest))
    /\ job' = [Idle EXCEPT !.kind = "cap", !.todo = SubSeq(From(oldest), 1, n)]
    /\ UNCHANGED <<dirties, oldest, newest, held, disk, fresh>>

\* Mutant: a node is written before its children.
RECURSIVE parentFirst(_)
parentFirst(h) ==
    IF h \notin DOMAIN dirties THEN <<>>
    ELSE <<h>> \o FlattenSeq([i \in DOMAIN Kids[h] |-> parentFirst(Kids[h][i])])

\* commit: the nodes of a trie that are in memory, in the order they are written.
RECURSIVE commitOrder(_)
commitOrder(h) ==
    IF h \notin DOMAIN dirties THEN <<>>
    ELSE FlattenSeq([i \in DOMAIN Kids[h] |-> commitOrder(Kids[h][i])]) \o <<h>>

Commit(r) ==
    /\ job = Idle /\ (fresh = r \/ (fresh = 0 /\ Live(r)))
    /\ job' = [Idle EXCEPT !.kind = "commit", !.root = r, !.todo = commitOrder(r)]
    /\ fresh' = 0
    /\ UNCHANGED <<dirties, oldest, newest, held, disk>>

\* A batch reaches its size, or the end, and is written.
WriteBatch(n) ==
    /\ job.kind = "cap" \/ job.written = <<>>
    /\ n <= Len(job.todo)
    /\ LET now == SelectSeq(SubSeq(job.todo, 1, n), LAMBDA h : h \in DOMAIN dirties)
       IN /\ disk' = disk \cup Range(now)
          /\ job' = [job EXCEPT !.todo = SubSeq(@, n + 1, Len(@)), !.written = @ \o now]
    /\ UNCHANGED <<dirties, oldest, newest, held, fresh>>

\* Commit clears a batch once it is written, Cap everything at its end.
Uncacheable == job.written # <<>> /\ (job.kind = "cap" => job.todo = <<>>)

Uncached(m, h) == IF h \in DOMAIN m.dirties THEN Without(unlink(m, h), h) ELSE m

Uncache ==
    /\ Uncacheable
    /\ Becomes(FoldLeft(Uncached, Mem, job.written))
    /\ job' = [job EXCEPT !.written = <<>>]
    /\ UNCHANGED <<held, disk, fresh>>

Finish ==
    /\ job.kind # "none" /\ job.todo = <<>> /\ job.written = <<>>
    /\ job' = Idle
    /\ UNCHANGED <<dirties, oldest, newest, held, disk, fresh>>

\* The process dies: what is in memory is gone.
Crash ==
    /\ dirties' = <<>> /\ oldest' = 0 /\ newest' = 0
    /\ held' = [r \in Roots |-> 0] /\ job' = Idle /\ fresh' = 0
    /\ UNCHANGED disk
=============================================================================

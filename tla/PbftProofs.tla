----------------------------- MODULE PbftProofs -----------------------------
(***************************************************************************)
(* RoundsSound and SameChainInOrder of the consensus of a shard, for every *)
(* number of nodes, of faults and of rounds, either module plugged in,     *)
(* either chain under the nodes, and with or without a stop.               *)
(*                                                                         *)
(* Neither is inductive.  A block is on a chain because enough commits for *)
(* it were counted, so that the counts must be those of the nodes that     *)
(* have voted; a catch-up may lengthen a chain by several blocks at once,  *)
(* of which the node has seen the votes of the last one only, so that the  *)
(* main node's chain must vouch for the others; and a catch-up under way   *)
(* must not be overtaken by the rounds the node ends meanwhile.            *)
(***************************************************************************)
EXTENDS Pbft, FiniteSetTheorems, TLAPS

Asks == [state : {"no", "asked", "answered"}, start : Nat, end : Nat, len : Nat]

\* The values of the variables, as far as the proof needs them.
TypeOK ==
    /\ sequenceID \in [Nodes -> Nat] /\ height \in [Nodes -> Nat]
    /\ requestPool \in [Nodes -> SUBSET Rounds] /\ isReply \in [Nodes -> SUBSET Rounds]
    /\ isCommitBordcast \in [Nodes -> SUBSET Rounds] /\ unread \in [Nodes -> SUBSET Rounds]
    /\ ask \in [Nodes -> Asks] /\ commits \in [Rounds -> Nat]
    /\ proposed \in SUBSET Rounds /\ sequenceLock \in BOOLEAN
    /\ dead \in BOOLEAN

\* The main node stores what it proposes and nothing else, no node stores or is sent
\* anything else, and the main node has replied to the rounds it has ended only.
PoolsSound ==
    /\ requestPool[Main] = proposed /\ isReply[Main] = 1 .. sequenceID[Main] - 1
    /\ \A n \in Nodes : requestPool[n] \subseteq proposed /\ unread[n] \subseteq proposed

Voters(k) == {n \in Nodes : k \in isCommitBordcast[n]}

\* The commits counted for a block are those of different nodes, which store it.
VotesSound ==
    /\ \A k \in Rounds : commits[k] = Cardinality(Voters(k))
    /\ \A n \in Nodes : isCommitBordcast[n] \subseteq requestPool[n]

Decided(k) == k \in proposed /\ commits[k] >= CommitThreshold

\* A node stores the blocks of its chain, which are all decided.
ChainsSound ==
    \A n \in Nodes :
        /\ 1 .. height[n] \subseteq requestPool[n]
        /\ n \in Alive => height[n] < sequenceID[n]
        /\ \A k \in 1 .. height[n] : Decided(k)

\* A catch-up ends with a decided block that its node does not have yet, and cannot get
\* in a round since it has replied to it; the answer has every block of the range.
AsksSound ==
    \A n \in Nodes : LET a == ask[n] IN a.state # "no" =>
        /\ Decided(a.end) /\ a.end \in isReply[n] /\ height[n] < a.end /\ a.start >= 1
        /\ a.state = "answered" => a.len = IF a.start <= a.end THEN a.end - a.start + 1 ELSE 0

\* A node that gets blocks and commits in order is in step with its chain and never asks.
InStep ==
    order # "any" =>
        \A n \in Nodes :
            ask[n].state = "no" /\ (n \in Alive => sequenceID[n] = height[n] + 1)

IInv ==
    /\ TypeOK /\ MainInStep /\ PoolsSound /\ VotesSound
    /\ ChainsSound /\ AsksSound /\ InStep

-----------------------------------------------------------------------------
\* Main is a node, and the nodes are finitely many.
LEMMA NodesFinite == Main \in Nodes /\ IsFiniteSet(Nodes)
BY Zenon, ShardAssumption, FS_AddElement DEF Nodes

\* The voters for a block are a finite set of nodes, so that a count of votes is a number.
LEMMA VotersFinite ==
    ASSUME NEW k PROVE IsFiniteSet(Voters(k)) /\ Cardinality(Voters(k)) \in Nat
<1>1. Voters(k) \in SUBSET Nodes
  BY Zenon DEF Voters
<1>. QED
  BY Zenon, <1>1, NodesFinite, FS_Subset, FS_CardinalityType

\* A block with enough commits is one that some node has stored, hence decided: the main
\* node has proposed it.
LEMMA EnoughIsDecided ==
    ASSUME TypeOK, PoolsSound, VotesSound, NEW k \in Rounds, commits[k] >= CommitThreshold
    PROVE  Decided(k)
<1>1. Cardinality(Voters(k)) # 0
  BY ShardAssumption DEF VotesSound, CommitThreshold
<1>2. PICK m \in Nodes : k \in isCommitBordcast[m]
  BY <1>1, FS_EmptySet, Zenon DEF Voters
<1>. QED
  BY Zenon, <1>2 DEF VotesSound, PoolsSound, Decided

\* What the proof is for follows from the invariant: the voters for a block of a chain
\* are the quorum that Certified asks for.
LEMMA InvariantImplies == IInv => RoundsSound /\ SameChainInOrder
<1>. SUFFICES ASSUME IInv PROVE RoundsSound /\ SameChainInOrder
  BY Zenon
<1>. USE DEF IInv
<1>1. Certified
  <2>. SUFFICES ASSUME NEW n \in Nodes, NEW k \in 1 .. height[n]
       PROVE \E Q \in SUBSET Nodes :
                /\ Cardinality(Q) >= 2 * Faults
                /\ \A m \in Q : k \in requestPool[m] /\ k \in isCommitBordcast[m]
    BY Zenon DEF Certified
  <2>1. k \in Rounds /\ commits[k] >= 2 * Faults
    BY Zenon DEF ChainsSound, Decided, CommitThreshold, TypeOK
  <2>2. Voters(k) \in SUBSET Nodes /\ Cardinality(Voters(k)) >= 2 * Faults
    BY Zenon, <2>1 DEF VotesSound, Voters
  <2>3. \A m \in Voters(k) : k \in requestPool[m] /\ k \in isCommitBordcast[m]
    BY Zenon DEF VotesSound, Voters
  <2>. QED
    BY Zenon, <2>2, <2>3
<1>2. NeverAhead
  BY Zenon DEF NeverAhead, ChainsSound, Decided, Alive
<1>3. SameChainInOrder
  BY SMTT(30) DEF SameChainInOrder, InStep, TypeOK, Alive
<1>. QED
  BY Zenon, <1>1, <1>2, <1>3 DEF RoundsSound

\* Before the first round.
LEMMA InitIInv == Init => IInv
<1>. SUFFICES ASSUME Init PROVE IInv
  BY Zenon
<1>. USE NodesFinite DEF Init
<1>1. TypeOK /\ MainInStep /\ PoolsSound /\ ChainsSound /\ AsksSound /\ InStep
  <2>1. TypeOK
    BY Zenon DEF TypeOK, Asks, NoAsk
  <2>2. MainInStep /\ PoolsSound
    BY DEF NoAsk, MainInStep, PoolsSound
  <2>3. ChainsSound
    BY DEF ChainsSound, Alive
  <2>4. AsksSound /\ InStep
    BY DEF NoAsk, AsksSound, InStep, Alive
  <2>. QED
    BY Zenon, <2>1, <2>2, <2>3, <2>4
<1>2. \A k \in Rounds : Voters(k) = {}
  BY Zenon DEF Voters
<1>3. VotesSound
  BY Zenon, <1>2, FS_EmptySet DEF VotesSound
<1>. QED
  BY Zenon, <1>1, <1>3 DEF IInv

-----------------------------------------------------------------------------
\* The proposer's loop and the stop change nothing that the invariant speaks of.
LEMMA StopPreserves ==
    ASSUME IInv, UNCHANGED setup, Select \/ SendStop \/ WaitToStop PROVE IInv'
<1>. UNCHANGED <<setup, sequenceID, height, requestPool, isCommitBordcast, isReply, ask, hung,
                 network, proposed, sequenceLock, dead>>
  BY Zenon DEF Select, SendStop, WaitToStop
<1>. QED
  BY DEF IInv, setup, HasPool, Alive, network, TypeOK, MainInStep, PoolsSound, VotesSound, Voters, ChainsSound, Decided,
         AsksSound, InStep

\* Propose: the block is the next of the main node's chain, and nobody has seen it.
LEMMA ProposePreserves == ASSUME IInv, UNCHANGED setup, Propose PROVE IInv'
<1>. USE NodesFinite DEF IInv
<1>. DEFINE k == sequenceID[Main]
<1>1. /\ k = height[Main] + 1 /\ k \in Rounds /\ proposed' = proposed \cup {k}
      /\ requestPool' = [requestPool EXCEPT ![Main] = @ \cup {k}]
      /\ unread' = [n \in Nodes |-> unread[n] \cup {k}]
      /\ ~sequenceLock /\ sequenceLock' = TRUE /\ ~dead
      /\ UNCHANGED <<order, chain, sequenceID, height, isCommitBordcast, isReply, ask, hung, commits, dead>>
  BY ShardAssumption DEF Propose, MainInStep, TypeOK, Rounds, setup
<1>. HIDE DEF k
<1>2. TypeOK'
  BY Zenon, <1>1 DEF TypeOK
<1>3. MainInStep'
  <2>1. sequenceID[Main] \in Nat /\ height[Main] \in Nat
    BY Zenon DEF TypeOK
  <2>. QED
    BY <1>1, <2>1 DEF MainInStep, HasPool, k
<1>4. PoolsSound'
  BY Zenon, <1>1 DEF PoolsSound, TypeOK
<1>5. VotesSound'
  BY Zenon, <1>1 DEF VotesSound, Voters, TypeOK
<1>6. ChainsSound' /\ AsksSound' /\ InStep'
  BY Zenon, <1>1 DEF ChainsSound, Decided, AsksSound, InStep, TypeOK, Alive
<1>. QED
  BY Zenon, <1>2, <1>3, <1>4, <1>5, <1>6

\* A pre-prepare stores the block, which was proposed.
LEMMA PrePreparePreserves ==
    ASSUME IInv, UNCHANGED setup, NEW n \in Nodes, NEW k \in Rounds, HandlePrePrepare(n, k)
    PROVE  IInv'
<1>. USE NodesFinite DEF IInv
<1>1. /\ k \in proposed
      /\ unread' = [unread EXCEPT ![n] = @ \ {k}]
      /\ requestPool' = [requestPool EXCEPT ![n] = @ \cup {k}]
      /\ UNCHANGED <<order, chain, sequenceID, height, isCommitBordcast, isReply, ask, hung, commits,
                     proposed, sequenceLock, dead>>
  BY Zenon DEF HandlePrePrepare, main, PoolsSound, setup
<1>2. TypeOK' /\ MainInStep' /\ PoolsSound'
  BY Zenon, <1>1 DEF TypeOK, MainInStep, PoolsSound, HasPool
<1>3. VotesSound'
  BY Zenon, <1>1 DEF VotesSound, Voters, TypeOK
<1>4. ChainsSound' /\ AsksSound' /\ InStep'
  BY Zenon, <1>1 DEF ChainsSound, Decided, AsksSound, InStep, TypeOK, Alive
<1>. QED
  BY Zenon, <1>2, <1>3, <1>4

\* The prepare that is enough makes the node vote, once: the count stays that of the
\* voters, and what was decided stays so.
LEMMA PreparePreserves ==
    ASSUME IInv, UNCHANGED setup, NEW n \in Nodes, NEW k \in Rounds, HandlePrepare(n, k)
    PROVE  IInv'
<1>. USE NodesFinite DEF IInv
<1>1. /\ k \in requestPool[n] /\ k \notin isCommitBordcast[n]
      /\ commits' = [commits EXCEPT ![k] = @ + 1]
      /\ isCommitBordcast' = [isCommitBordcast EXCEPT ![n] = @ \cup {k}]
      /\ UNCHANGED <<order, chain, sequenceID, height, requestPool, isReply, ask, hung, unread, proposed,
                     sequenceLock, dead>>
  BY Zenon DEF HandlePrepare, main, setup
<1>2. TypeOK' /\ MainInStep' /\ PoolsSound'
  BY SMTT(30), <1>1 DEF TypeOK, MainInStep, PoolsSound, HasPool
<1>3. VotesSound'
  <2>1. \A j \in Rounds : commits'[j] = Cardinality(Voters(j)')
    <3>. SUFFICES ASSUME NEW j \in Rounds PROVE commits'[j] = Cardinality(Voters(j)')
      BY Zenon
    <3>1. CASE j = k
      <4>1. Voters(j)' = Voters(j) \cup {n} /\ n \notin Voters(j)
        BY <1>1, <3>1 DEF Voters, TypeOK
      <4>2. Cardinality(Voters(j)') = Cardinality(Voters(j)) + 1
        BY Zenon, <4>1, VotersFinite, FS_AddElement
      <4>. QED
        BY Zenon, <1>1, <3>1, <4>2 DEF VotesSound, TypeOK
    <3>2. CASE j # k
      <4>1. Voters(j)' = Voters(j)
        BY Zenon, <1>1, <3>2 DEF Voters, TypeOK
      <4>. QED
        BY Zenon, <1>1, <3>2, <4>1 DEF VotesSound, TypeOK
    <3>. QED
      BY Zenon, <3>1, <3>2
  <2>2. \A m \in Nodes : isCommitBordcast'[m] \subseteq requestPool'[m]
    BY Zenon, <1>1 DEF VotesSound, TypeOK
  <2>. QED
    BY Zenon, <2>1, <2>2 DEF VotesSound
<1>4. \A j : Decided(j) => Decided(j)'
  BY <1>1, ShardAssumption DEF Decided, CommitThreshold, TypeOK
<1>5. ChainsSound' /\ AsksSound' /\ InStep'
  BY Zenon, <1>1, <1>4 DEF ChainsSound, AsksSound, InStep, Alive
<1>. QED
  BY Zenon, <1>2, <1>3, <1>5

-----------------------------------------------------------------------------
\* A block that the main node commits is the next of its chain, and sequenceLock is held.
LEMMA MainCommitsNext ==
    ASSUME IInv, NEW k \in Rounds, ~dead, k \notin isReply[Main], Decided(k)
    PROVE  k = height[Main] + 1 /\ k = sequenceID[Main] /\ sequenceLock
<1>1. height[Main] \in Nat /\ sequenceID[Main] = height[Main] + 1 /\ k \in Nat /\ k >= 1
  BY NodesFinite DEF IInv, TypeOK, MainInStep, Rounds
<1>2. k \in 1 .. (IF sequenceLock THEN sequenceID[Main] ELSE height[Main])
  BY Zenon DEF IInv, MainInStep, Decided
<1>3. k \notin 1 .. sequenceID[Main] - 1
  BY Zenon DEF IInv, PoolsSound
<1>. QED
  BY <1>1, <1>2, <1>3

\* The commit that is enough, at a node that stores the block and does not die of it: the
\* chain grows if the block is the next one, and the round ends either way.
LEMMA CommitStoredPreserves ==
    ASSUME IInv, UNCHANGED setup, NEW n \in Nodes, NEW k \in Rounds, HandleCommit(n, k),
           k \in requestPool[n], ~DiesInCommit(n)
    PROVE  IInv'
<1>. USE NodesFinite DEF IInv
<1>1. /\ commits[k] >= CommitThreshold /\ k \notin isReply[n]
      /\ order # "any" => sequenceID[n] = k
      /\ isReply' = [isReply EXCEPT ![n] = @ \cup {k}]
      /\ height' = [height EXCEPT ![n] = AddBlock(@, k)]
      /\ sequenceID' = [sequenceID EXCEPT ![n] = @ + 1]
      /\ sequenceLock' = (sequenceLock /\ n # Main)
      /\ UNCHANGED <<order, chain, ask, hung, requestPool, isCommitBordcast, unread, commits, proposed, dead>>
  BY Zenon DEF HandleCommit, EndRound, UnlockSequence, network, setup
<1>2. Decided(k)
  BY Zenon, <1>1, EnoughIsDecided
<1>3. height[n] \in Nat /\ sequenceID[n] \in Nat /\ AddBlock(height[n], k) \in Nat
  BY DEF TypeOK, AddBlock, Rounds
<1>4. TypeOK'
  BY <1>1, <1>3 DEF TypeOK
<1>5. MainInStep' /\ isReply'[Main] = 1 .. sequenceID'[Main] - 1
  <2>1. CASE n = Main
    <3>1. HasPool /\ ~dead
      BY Zenon, <2>1 DEF DiesInCommit, MainInStep
    <3>2. k = height[Main] + 1 /\ k = sequenceID[Main] /\ sequenceLock
      BY Zenon, <1>1, <1>2, <2>1, <3>1, MainCommitsNext
    <3>3. /\ height'[Main] = height[Main] + 1 /\ sequenceID'[Main] = sequenceID[Main] + 1
          /\ sequenceLock' = FALSE /\ isReply'[Main] = isReply[Main] \cup {sequenceID[Main]}
      BY Zenon, <1>1, <1>3, <2>1, <3>2 DEF AddBlock, TypeOK
    <3>4. (1 .. sequenceID[Main] - 1) \cup {sequenceID[Main]} = 1 .. (sequenceID[Main] + 1) - 1
      BY <1>3, <2>1, <3>2
    <3>5. isReply'[Main] = 1 .. sequenceID'[Main] - 1
      BY Zenon, <3>3, <3>4 DEF PoolsSound
    <3>6. MainInStep'
      BY Zenon, <1>1, <1>3, <2>1, <3>1, <3>2, <3>3 DEF MainInStep, HasPool
    <3>. QED
      BY Zenon, <3>5, <3>6
  <2>2. CASE n # Main
    <3>1. /\ height'[Main] = height[Main] /\ sequenceID'[Main] = sequenceID[Main]
          /\ sequenceLock' = sequenceLock /\ isReply'[Main] = isReply[Main]
      BY Zenon, <1>1, <2>2 DEF TypeOK
    <3>. QED
      BY <1>1, <3>1 DEF MainInStep, PoolsSound, HasPool
  <2>. QED
    BY Zenon, <2>1, <2>2
<1>6. PoolsSound' /\ VotesSound'
  BY Zenon, <1>1, <1>5 DEF PoolsSound, VotesSound, Voters
<1>7. ChainsSound'
  <2>. SUFFICES ASSUME NEW m \in Nodes
       PROVE /\ 1 .. height'[m] \subseteq requestPool'[m]
             /\ m \in Alive => height'[m] < sequenceID'[m]
             /\ \A j \in 1 .. height'[m] : Decided(j)'
    BY Zenon, <1>1 DEF ChainsSound, Alive
  <2>1. \A j : Decided(j)' <=> Decided(j)
    BY Zenon, <1>1 DEF Decided, CommitThreshold
  <2>2. CASE m = n
    <3>1. height'[n] = AddBlock(height[n], k) /\ sequenceID'[n] = sequenceID[n] + 1
      BY Zenon, <1>1 DEF TypeOK
    <3>2. 1 .. height[n] \subseteq requestPool[n] /\ (n \in Alive => height[n] < sequenceID[n])
          /\ \A j \in 1 .. height[n] : Decided(j)
      BY Zenon DEF ChainsSound
    <3>. QED
      BY <1>1, <1>2, <1>3, <2>1, <2>2, <3>1, <3>2 DEF AddBlock
  <2>3. CASE m # n
    BY Zenon, <1>1, <2>1, <2>3 DEF ChainsSound, TypeOK
  <2>. QED
    BY Zenon, <2>2, <2>3
<1>8. AsksSound'
  <2>. SUFFICES ASSUME NEW m \in Nodes, ask[m].state # "no"
       PROVE height'[m] < ask[m].end /\ ask[m].end \in isReply'[m]
    BY Zenon, <1>1 DEF AsksSound, Decided, CommitThreshold
  <2>1. height[m] < ask[m].end /\ ask[m].end \in isReply[m] /\ ask[m].end \in Nat
    BY Zenon DEF AsksSound, TypeOK, Asks
  <2>. QED
    BY <1>1, <1>3, <2>1 DEF AddBlock, TypeOK
<1>9. InStep'
  BY Zenon, <1>1, <1>3 DEF InStep, AddBlock, TypeOK, Alive
<1>. QED
  BY Zenon, <1>4, <1>5, <1>6, <1>7, <1>8, <1>9

\* The first commit of a main node without a pool: its chain has the block and its process
\* ends there, with the round as it was.
LEMMA CommitDeadlyPreserves ==
    ASSUME IInv, UNCHANGED setup, NEW n \in Nodes, NEW k \in Rounds, HandleCommit(n, k),
           k \in requestPool[n], DiesInCommit(n)
    PROVE  IInv'
<1>. USE NodesFinite DEF IInv
<1>1. /\ n = Main /\ ~HasPool /\ ~dead /\ dead' = TRUE
      /\ commits[k] >= CommitThreshold /\ k \notin isReply[Main]
      /\ height' = [height EXCEPT ![Main] = AddBlock(@, k)]
      /\ UNCHANGED <<order, chain, isReply, sequenceID, sequenceLock, ask, hung, requestPool,
                     isCommitBordcast, unread, commits, proposed>>
  BY Zenon DEF HandleCommit, DiesInCommit, Running, network, setup
<1>2. Decided(k)
  BY Zenon, <1>1, EnoughIsDecided
<1>3. k = height[Main] + 1 /\ k = sequenceID[Main] /\ sequenceLock
  BY Zenon, <1>1, <1>2, MainCommitsNext
<1>4. /\ height[Main] \in Nat /\ height[Main] + 1 \in Nat
      /\ height' = [height EXCEPT ![Main] = height[Main] + 1]
  BY <1>1, <1>3 DEF TypeOK, AddBlock
<1>5. height'[Main] = height[Main] + 1 /\ \A m \in Nodes \ {Main} : height'[m] = height[m]
  BY Zenon, <1>4 DEF TypeOK
<1>6. TypeOK'
  BY Zenon, <1>1, <1>4 DEF TypeOK
<1>7. MainInStep'
  <2>1. sequenceID[Main] = height[Main] + 1 + 0
    BY <1>3, <1>4
  <2>. QED
    BY Zenon, <1>1, <1>3, <1>5, <2>1 DEF MainInStep, HasPool
<1>8. PoolsSound' /\ VotesSound'
  BY Zenon, <1>1 DEF PoolsSound, VotesSound, Voters
<1>9. \A j : Decided(j)' <=> Decided(j)
  BY Zenon, <1>1 DEF Decided, CommitThreshold
<1>10. ChainsSound'
  <2>1. 1 .. height[Main] + 1 = (1 .. height[Main]) \cup {k}
    BY <1>3, <1>4
  <2>2. 1 .. height'[Main] \subseteq requestPool'[Main] /\ \A j \in 1 .. height'[Main] : Decided(j)'
    BY Zenon, <1>1, <1>2, <1>5, <1>9, <2>1 DEF ChainsSound
  <2>3. Alive' = Nodes \ {Main} /\ Alive = Nodes
    BY Zenon, <1>1 DEF Alive
  <2>. QED
    BY Zenon, <1>1, <1>5, <1>9, <2>2, <2>3 DEF ChainsSound
<1>11. AsksSound' /\ InStep'
  <2>1. \A m \in Nodes : ask[m].state # "no" => m # Main
    BY Zenon DEF MainInStep
  <2>2. Alive' = Nodes \ {Main} /\ Alive = Nodes
    BY Zenon, <1>1 DEF Alive
  <2>. QED
    BY Zenon, <1>1, <1>5, <1>9, <2>1, <2>2 DEF AsksSound, InStep
<1>. QED
  BY Zenon, <1>6, <1>7, <1>8, <1>10, <1>11

\* The commit that is enough, at a node that does not store the block: it asks for the
\* blocks it may lack, or hangs if it has asked already.  The main node stores all.
LEMMA CommitUnknownPreserves ==
    ASSUME IInv, UNCHANGED setup, NEW n \in Nodes, NEW k \in Rounds, HandleCommit(n, k),
           k \notin requestPool[n]
    PROVE  IInv'
<1>. USE NodesFinite DEF IInv
<1>1. /\ commits[k] >= CommitThreshold /\ order = "any"
      /\ isReply' = [isReply EXCEPT ![n] = @ \cup {k}]
      /\ UNCHANGED <<order, chain, height, sequenceID, requestPool, isCommitBordcast, unread, commits,
                     proposed, dead>>
  BY Zenon DEF HandleCommit, network, setup
<1>2. Decided(k)
  BY Zenon, <1>1, EnoughIsDecided
<1>3. n # Main
  BY Zenon, <1>2 DEF PoolsSound, Decided
<1>4. /\ sequenceLock' = sequenceLock /\ hung' \in {hung, hung \cup {n}}
      /\ \/ UNCHANGED ask
         \/ ask' = [ask EXCEPT ![n] = [state |-> "asked", len |-> 0,
                                       start |-> sequenceID[n] + 1, end |-> k]]
  BY Zenon, <1>3 DEF HandleCommit, UnlockSequence, TypeOK
<1>5. TypeOK' /\ MainInStep' /\ PoolsSound'
  <2>1. [state |-> "asked", len |-> 0, start |-> sequenceID[n] + 1, end |-> k] \in Asks
    BY DEF TypeOK, Asks, Rounds
  <2>2. TypeOK'
    BY <1>1, <1>4, <2>1 DEF TypeOK
  <2>3. MainInStep' /\ PoolsSound'
    BY Zenon, <1>1, <1>3, <1>4 DEF MainInStep, PoolsSound, TypeOK, HasPool
  <2>. QED
    BY Zenon, <2>2, <2>3
<1>6. VotesSound' /\ ChainsSound' /\ InStep'
  BY Zenon, <1>1 DEF VotesSound, Voters, ChainsSound, Decided, CommitThreshold, InStep, Alive
<1>7. AsksSound'
  <2>1. height[n] < k
    <3>1. height[n] \in Nat /\ k \in Nat /\ k >= 1
      BY DEF TypeOK, Rounds
    <3>2. k \notin 1 .. height[n]
      BY Zenon DEF ChainsSound
    <3>. QED
      BY <3>1, <3>2
  <2>2. \A j : Decided(j)' <=> Decided(j)
    BY Zenon, <1>1 DEF Decided, CommitThreshold
  <2>. SUFFICES ASSUME NEW m \in Nodes, ask'[m].state # "no"
       PROVE /\ Decided(ask'[m].end) /\ ask'[m].end \in isReply'[m]
             /\ height'[m] < ask'[m].end /\ ask'[m].start >= 1
             /\ ask'[m].state = "answered" => ask'[m].len =
                   IF ask'[m].start <= ask'[m].end THEN ask'[m].end - ask'[m].start + 1 ELSE 0
    BY Zenon, <2>2 DEF AsksSound
  <2>3. CASE ask'[m] = ask[m]
    BY <1>1, <2>3 DEF AsksSound, TypeOK
  <2>4. CASE ask'[m] # ask[m]
    <3>1. m = n /\ ask'[m] = [state |-> "asked", len |-> 0, start |-> sequenceID[n] + 1, end |-> k]
      BY Zenon, <1>4, <2>4 DEF TypeOK
    <3>. QED
      BY <1>1, <1>2, <2>1, <3>1 DEF TypeOK
  <2>. QED
    BY Zenon, <2>3, <2>4
<1>. QED
  BY Zenon, <1>5, <1>6, <1>7

-----------------------------------------------------------------------------
\* The main node has every block up to the last of a range it is asked for, so that the
\* answer lacks none.
LEMMA AnswerIsFull ==
    ASSUME IInv, NEW n \in Nodes, ask[n].state # "no"
    PROVE  Cardinality(Stored(ask[n].start, ask[n].end))
              = IF ask[n].start <= ask[n].end THEN ask[n].end - ask[n].start + 1 ELSE 0
<1>. DEFINE s == ask[n].start
            e == ask[n].end
<1>1. s \in Nat /\ e \in Nat /\ s >= 1 /\ e \in proposed
  BY Zenon DEF IInv, TypeOK, Asks, AsksSound, Decided
<1>2. \A j \in 1 .. e : j \in proposed /\ j \in requestPool[Main]
  BY <1>1, NodesFinite DEF IInv, MainInStep, PoolsSound, TypeOK
<1>. HIDE DEF s, e
<1>3. Stored(s, e) = s .. e
  BY <1>1, <1>2 DEF Stored
<1>4. Cardinality(s .. e) = IF s > e THEN 0 ELSE e - s + 1
  BY <1>1, FS_Interval
<1>5. Cardinality(Stored(s, e)) = IF s <= e THEN e - s + 1 ELSE 0
  BY <1>1, <1>3, <1>4
<1>. QED
  BY Zenon, <1>5 DEF s, e

\* The main node's answer.
LEMMA RequestOldSeqPreserves ==
    ASSUME IInv, UNCHANGED setup, NEW n \in Nodes, HandleRequestOldSeq(n) PROVE IInv'
<1>. USE NodesFinite DEF IInv
<1>. DEFINE c == Cardinality(Stored(ask[n].start, ask[n].end))
<1>1. /\ ask[n].state = "asked" /\ ask' = [ask EXCEPT ![n].state = "answered", ![n].len = c]
      /\ UNCHANGED <<order, chain, sequenceID, height, requestPool, isCommitBordcast, isReply, hung, unread,
                     commits, proposed, sequenceLock, dead>>
  BY Zenon DEF HandleRequestOldSeq, network, main, setup
<1>2. c = IF ask[n].start <= ask[n].end THEN ask[n].end - ask[n].start + 1 ELSE 0
  BY Zenon, <1>1, AnswerIsFull
<1>. HIDE DEF c
<1>3. ask[n] \in Asks /\ c \in Nat
  BY <1>2 DEF TypeOK, Asks
<1>4. ask'[n] = [ask[n] EXCEPT !.state = "answered", !.len = c] /\ ask'[n] \in Asks
  BY Zenon, <1>1, <1>3 DEF TypeOK, Asks
<1>5. \A m \in Nodes : m # n => ask'[m] = ask[m]
  BY Zenon, <1>1 DEF TypeOK
<1>6. TypeOK' /\ MainInStep' /\ PoolsSound' /\ VotesSound' /\ ChainsSound' /\ InStep'
  <2>1. n # Main /\ order = "any"
    BY Zenon, <1>1 DEF MainInStep, InStep
  <2>2. ask' \in [Nodes -> Asks]
    BY Zenon, <1>1, <1>4, <1>5 DEF TypeOK
  <2>3. TypeOK'
    BY Zenon, <1>1, <2>2 DEF TypeOK
  <2>. QED
    BY ZenonT(60), <1>1, <1>5, <2>1, <2>3 DEF MainInStep, PoolsSound, VotesSound, Voters, ChainsSound, Decided,
                                  CommitThreshold, InStep, Alive, HasPool
<1>7. AsksSound'
  <2>1. \A j : Decided(j)' <=> Decided(j)
    BY Zenon, <1>1 DEF Decided, CommitThreshold
  <2>2. ask'[n].start = ask[n].start /\ ask'[n].end = ask[n].end /\ ask'[n].len = c
    BY Zenon, <1>3, <1>4 DEF Asks
  <2>3. \A m \in Nodes \ {n} : ask'[m] = ask[m]
    BY Zenon, <1>5
  <2>. QED
    BY ZenonT(60), <1>1, <1>2, <2>1, <2>2, <2>3 DEF AsksSound
<1>. QED
  BY Zenon, <1>6, <1>7

\* The answer at the node that asked.
LEMMA SendOldSeqPreserves ==
    ASSUME IInv, UNCHANGED setup, NEW n \in Nodes, HandleSendOldSeq(n) PROVE IInv'
<1>. USE NodesFinite DEF IInv
<1>. DEFINE a == ask[n]
            g == Grown(height[n], a)
<1>1. /\ a.state = "answered"
      /\ height' = [height EXCEPT ![n] = g]
      /\ requestPool' = [requestPool EXCEPT ![n] = @ \cup Sent(a)]
      /\ isReply' = [isReply EXCEPT ![n] = @ \cup Sent(a)]
      /\ sequenceID' = [sequenceID EXCEPT ![n] = a.end + 1]
      /\ ask' = [ask EXCEPT ![n] = NoAsk]
      /\ UNCHANGED <<order, chain, isCommitBordcast, hung, unread, commits, proposed, sequenceLock, dead>>
  BY Zenon DEF HandleSendOldSeq, main, TypeOK, setup
<1>2. /\ n # Main /\ order = "any"
      /\ Decided(a.end) /\ height[n] < a.end /\ a.start >= 1 /\ a.end \in Nat /\ a.start \in Nat
      /\ a.len = IF a.start <= a.end THEN a.end - a.start + 1 ELSE 0
      /\ height[n] \in Nat
  BY Zenon, <1>1 DEF MainInStep, InStep, AsksSound, TypeOK, Asks
<1>. HIDE DEF a
<1>3. \A j \in 1 .. a.end : Decided(j)
  <2>. SUFFICES ASSUME NEW j \in 1 .. a.end, j # a.end PROVE Decided(j)
    BY Zenon, <1>2
  <2>1. height[Main] \in Nat /\ j <= height[Main]
    BY <1>2 DEF MainInStep, Decided, TypeOK
  <2>. QED
    BY <2>1 DEF ChainsSound
<1>4. Sent(a) \subseteq 1 .. a.end /\ Sent(a) \subseteq proposed
  BY <1>2, <1>3 DEF Sent, Decided
<1>5. /\ g \in Nat /\ g <= a.end /\ \A j \in 1 .. g : Decided(j)
      /\ 1 .. g \subseteq requestPool[n] \cup Sent(a)
  <2>1. 1 .. height[n] \subseteq requestPool[n]
    BY Zenon DEF ChainsSound
  <2>. QED
    BY <1>2, <1>3, <2>1 DEF Grown, Sent
<1>. HIDE DEF g
<1>6. TypeOK'
  BY <1>1, <1>2, <1>4, <1>5 DEF TypeOK, NoAsk, Asks
<1>7. MainInStep' /\ PoolsSound' /\ InStep'
  BY SMTT(30), <1>1, <1>2, <1>4 DEF MainInStep, PoolsSound, InStep, TypeOK, HasPool
<1>8. VotesSound'
  BY Zenon, <1>1 DEF VotesSound, Voters, TypeOK
<1>9. \A j : Decided(j)' <=> Decided(j)
  BY Zenon, <1>1 DEF Decided, CommitThreshold
<1>10. ChainsSound'
  <2>. SUFFICES ASSUME NEW m \in Nodes
       PROVE /\ 1 .. height'[m] \subseteq requestPool'[m]
             /\ m \in Alive => height'[m] < sequenceID'[m]
             /\ \A j \in 1 .. height'[m] : Decided(j)'
    BY Zenon, <1>1 DEF ChainsSound, Alive
  <2>1. CASE m = n
    BY <1>1, <1>2, <1>5, <1>9, <2>1 DEF TypeOK
  <2>2. CASE m # n
    BY Zenon, <1>1, <1>9, <2>2 DEF ChainsSound, TypeOK
  <2>. QED
    BY Zenon, <2>1, <2>2
<1>11. AsksSound'
  BY Zenon, <1>1, <1>9 DEF AsksSound, NoAsk, TypeOK
<1>. QED
  BY Zenon, <1>6, <1>7, <1>8, <1>10, <1>11

-----------------------------------------------------------------------------
\* Every step.
LEMMA NextPreserves == IInv /\ [Next]_vars => IInv'
<1>1. ASSUME IInv, Next PROVE IInv'
  BY Zenon, <1>1, StopPreserves, ProposePreserves, PrePreparePreserves, PreparePreserves,
     CommitStoredPreserves, CommitDeadlyPreserves, CommitUnknownPreserves, RequestOldSeqPreserves, SendOldSeqPreserves
  DEF Next, Handle
<1>2. ASSUME IInv, UNCHANGED vars PROVE IInv'
  BY <1>2 DEF vars, setup, HasPool, Alive, network, main, IInv, TypeOK, MainInStep, PoolsSound, VotesSound, Voters,
              ChainsSound, Decided, AsksSound, InStep
<1>. QED
  BY Zenon, <1>1, <1>2

\* The invariant of the consensus of a shard.
LEMMA Invariant == Spec => []IInv
BY InitIInv, NextPreserves, PTL DEF Spec

\* In whatever order messages arrive, and whichever never do, the main node is in step with
\* its chain, or dead after its first block if CurChain has no pool, every block on a chain is one that 2f nodes have stored and voted for, and
\* no chain is ahead of the proposals or of the rounds its node has ended
\* (handleCommit, handleRequestOldSeq and handleSendOldSeq together).
THEOREM RoundsAreSound == Spec => []RoundsSound
BY Invariant, InvariantImplies, PTL

\* When blocks come before their commits and commits in their round, two nodes that have
\* ended the same number of rounds, and whose processes are there, have the same chain.
THEOREM SameChains == Spec => []SameChainInOrder
BY Invariant, InvariantImplies, PTL
=============================================================================

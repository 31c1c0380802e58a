-------------------------------- MODULE Pbft --------------------------------
(***************************************************************************)
(* The consensus of one shard (src/consensus_shard/pbft_all): the main     *)
(* node proposes one block per sequence number, under sequenceLock, and    *)
(* every node takes it through pre-prepare, prepare and commit.            *)
(*                                                                         *)
(* The view never changes and only the main node proposes, so that a block *)
(* is its number, a chain is its height, and a digest is the number of the *)
(* block.  Every message is sent by a goroutine of its own.  It may arrive *)
(* at any time or never, and one that a handler refuses is as good as      *)
(* lost.  Handlers do not look at the sender of a vote and the maps of     *)
(* votes have a fresh pointer for every message, so that votes are simply  *)
(* counted; all but the one that makes them enough only change the count,  *)
(* and the step of a vote is the step of that one.                         *)
(*                                                                         *)
(* The chain of a node is one of two.  pbft.go makes the chain of          *)
(* blockchain_MemoryMPT.go ("memory"), whose Txpool is nil, so that the    *)
(* main node dies in HandleinCommit of its first block.  The modules are   *)
(* written for that of blockchain.go ("dbMPT"), which has a pool.          *)
(***************************************************************************)
EXTENDS Integers, FiniteSets

CONSTANTS Replicas, Main,   \* the nodes of the shard
          Faults,           \* malicious_nums, a third of the replicas
          MaxSeq,           \* a bound on the rounds
          Orders, Chains,   \* see order and chain
          Broker,           \* is the Raw Broker module plugged in, not the Raw Relay one?
          Stops             \* does the supervisor send CStop?

\* A shard of at least four nodes: with fewer, malicious_nums is 0, any vote is enough,
\* and counting the votes does not tell whether there is one.
ASSUME ShardAssumption ==
    IsFiniteSet(Replicas) /\ Faults \in Nat \ {0} /\ MaxSeq \in Nat

Nodes == Replicas \cup {Main}

Rounds == 1 .. MaxSeq

VARIABLES order,         \* rigid: what is assumed of deliveries: "any", "commits" or "all"
          chain,         \* rigid: the chain under the nodes, "memory" or "dbMPT"
          sequenceID, height, requestPool,  \* of every node
          isCommitBordcast, isReply,
          ask,           \* a catch-up under way: askForLock, the request and its answer
          hung,          \* nodes that wait for askForLock while they hold tcpPoolLock
          proposed,      \* the rounds main has broadcast a pre-prepare for
          unread,        \* the pre-prepares that have not arrived
          prepares, commits,                \* how many nodes have broadcast one
          sequenceLock, proposer, stop,     \* at the main node
          dead                              \* its process has ended in a nil dereference

network == <<unread, prepares, commits>>
main == <<proposed, sequenceLock, proposer, stop, dead>>
setup == <<order, chain>>
vars == <<setup, sequenceID, height, requestPool, isCommitBordcast, isReply, ask, hung, network, main>>

NoAsk == [state |-> "no", start |-> 0, end |-> 0, len |-> 0]

Init ==
    /\ order \in Orders /\ chain \in Chains
    /\ sequenceID = [n \in Nodes |-> 1] /\ height = [n \in Nodes |-> 0]
    /\ requestPool = [n \in Nodes |-> {}]
    /\ isCommitBordcast = [n \in Nodes |-> {}] /\ isReply = isCommitBordcast
    /\ ask = [n \in Nodes |-> NoAsk] /\ hung = {}
    /\ unread = [n \in Nodes |-> {}]
    /\ prepares = [k \in Rounds |-> 0] /\ commits = prepares
    /\ proposed = {} /\ sequenceLock = FALSE /\ proposer = "select" /\ stop = "no"
    /\ dead = FALSE

-----------------------------------------------------------------------------
\* Has CurChain a Txpool?
HasPool == chain = "dbMPT"

\* A handler runs under tcpPoolLock, which a node that hangs in one never gives back.
Running(n) == n \notin hung /\ (n = Main => stop \in {"no", "sent"} /\ ~dead)

\* IsValidBlock, of one chain of blocks.
Valid(n, k) == k = height[n] + 1

\* What AddBlock makes of a chain: a block that is not the next is refused.
AddBlock(h, k) == IF k = h + 1 THEN k ELSE h

\* Mutant: the loop does not look for a stop.
SelectNever ==
    /\ proposer = "select" /\ ~dead /\ proposer' = "lock"
    /\ UNCHANGED <<sequenceID, height, requestPool, isCommitBordcast, isReply, ask, hung, network,
                   proposed, sequenceLock, stop, dead>>

\* The loop of Propose looks for a stop, sleeps, and takes the lock of the sequence.
Select ==
    /\ proposer = "select" /\ ~dead
    /\ IF stop = "blocked" THEN proposer' = "stopped" /\ stop' = "done"
                           ELSE proposer' = "lock" /\ UNCHANGED stop
    /\ UNCHANGED <<sequenceID, height, requestPool, isCommitBordcast, isReply, ask, hung, network,
                   proposed, sequenceLock, dead>>

\* Mutant: the main node does not wait for the round before.
ProposeAtOnce ==
    /\ proposer = "lock" /\ ~dead /\ sequenceID[Main] <= MaxSeq
    /\ \E k \in Rounds \ proposed :
          /\ k <= sequenceID[Main] + 1
          /\ requestPool' = [requestPool EXCEPT ![Main] = @ \cup {k}]
          /\ proposed' = proposed \cup {k}
          /\ unread' = [n \in Nodes |-> unread[n] \cup {k}]
    /\ sequenceLock' = TRUE /\ proposer' = "select"
    /\ UNCHANGED <<sequenceID, height, isCommitBordcast, isReply, ask, hung, prepares, commits, stop, dead>>

\* Broadcast goes to every address of the shard, the sender's too.
Propose ==
    /\ proposer = "lock" /\ ~sequenceLock /\ ~dead /\ sequenceID[Main] <= MaxSeq
    /\ sequenceLock' = TRUE /\ proposer' = "select"
    /\ LET k == height[Main] + 1 IN
          /\ requestPool' = [requestPool EXCEPT ![Main] = @ \cup {k}]
          /\ proposed' = proposed \cup {sequenceID[Main]}
          /\ unread' = [n \in Nodes |-> unread[n] \cup {k}]
    /\ UNCHANGED <<sequenceID, height, isCommitBordcast, isReply, ask, hung, prepares, commits, stop, dead>>

BroadcastPrepare(k) == prepares' = [prepares EXCEPT ![k] = @ + 1]

HandlePrePrepare(n, k) ==
    /\ Running(n) /\ k \in unread[n]
    /\ order = "all" => sequenceID[n] = k
    /\ unread' = [unread EXCEPT ![n] = @ \ {k}]
    /\ requestPool' = [requestPool EXCEPT ![n] = @ \cup {k}]
    /\ IF sequenceID[n] >= k /\ Valid(n, k) THEN BroadcastPrepare(k) ELSE UNCHANGED prepares
    /\ UNCHANGED <<sequenceID, height, isCommitBordcast, isReply, ask, hung, commits, main>>

PrepareThreshold(n) == IF n = Main THEN 2 * Faults ELSE 2 * Faults - 1

HandlePrepare(n, k) ==
    /\ Running(n) /\ prepares[k] >= PrepareThreshold(n)
    /\ k \in requestPool[n] /\ sequenceID[n] >= k /\ k \notin isCommitBordcast[n]
    /\ commits' = [commits EXCEPT ![k] = @ + 1]
    /\ isCommitBordcast' = [isCommitBordcast EXCEPT ![n] = @ \cup {k}]
    /\ UNCHANGED <<sequenceID, height, requestPool, isReply, ask, hung, unread, prepares, main>>

CommitThreshold == 2 * Faults

\* Mutant: the main node alone counts its rounds.
EndAtMain(n, k) == sequenceID' = [sequenceID EXCEPT ![n] = IF n = Main THEN @ + 1 ELSE @]

EndRound(n, k) == sequenceID' = [sequenceID EXCEPT ![n] = @ + 1]

\* Mutant: the lock is not given back.
KeepLock(n) == sequenceLock' = sequenceLock

UnlockSequence(n) == sequenceLock' = (sequenceLock /\ n # Main)

\* Does HandleinCommit die?  Once it has added the block, the main node uses Txpool.
DiesInCommit(n) == n = Main /\ ~HasPool

HandleCommit(n, k) ==
    /\ Running(n) /\ commits[k] >= CommitThreshold /\ k \notin isReply[n]
    /\ order # "any" => k \in requestPool[n] /\ sequenceID[n] = k
    /\ IF k \in requestPool[n]
       THEN /\ height' = [height EXCEPT ![n] = AddBlock(@, k)]
            /\ IF DiesInCommit(n)
               THEN dead' = TRUE /\ UNCHANGED <<isReply, sequenceID, sequenceLock>>
               ELSE /\ isReply' = [isReply EXCEPT ![n] = @ \cup {k}]
                    /\ EndRound(n, k) /\ UnlockSequence(n) /\ UNCHANGED dead
            /\ UNCHANGED <<ask, hung>>
       ELSE /\ isReply' = [isReply EXCEPT ![n] = @ \cup {k}]
            /\ IF ask[n].state = "no"
               THEN /\ ask' = [ask EXCEPT ![n] = [state |-> "asked", len |-> 0,
                                                  start |-> sequenceID[n] + 1, end |-> k]]
                    /\ UnlockSequence(n) /\ UNCHANGED hung
               ELSE hung' = hung \cup {n} /\ UNCHANGED <<ask, sequenceLock>>
            /\ UNCHANGED <<height, sequenceID, dead>>
    /\ UNCHANGED <<requestPool, isCommitBordcast, network, proposed, proposer, stop>>

-----------------------------------------------------------------------------
\* The main node answers with the blocks from the start of the range up to the first
\* that it does not have.
Stored(start, end) ==
    {h \in start .. end : \A j \in start .. h : j \in proposed \cap requestPool[Main]}

HandleRequestOldSeq(n) ==
    /\ Running(Main) /\ ask[n].state = "asked"
    /\ ask' = [ask EXCEPT ![n].state = "answered",
                          ![n].len = Cardinality(Stored(ask[n].start, ask[n].end))]
    /\ UNCHANGED <<sequenceID, height, requestPool, isCommitBordcast, isReply, hung, network, main>>

\* The test of HandleforSequentialRequest, which the two modules write differently.
Enough(a) == IF Broker THEN a.start - a.end = a.len ELSE a.end - a.start + 1 = a.len

\* The numbers of the blocks of an answer.
Sent(a) == a.start .. a.start + a.len - 1

\* AddBlock for each block of the answer, in order.
Grown(h, a) == IF Enough(a) /\ h + 1 \in Sent(a) THEN a.start + a.len - 1 ELSE h

HandleSendOldSeq(n) ==
    /\ Running(n) /\ ask[n].state = "answered"
    /\ LET a == ask[n]
           seq == a.end + 1
       IN /\ height' = [height EXCEPT ![n] = Grown(@, a)]
          /\ requestPool' = [requestPool EXCEPT ![n] = @ \cup Sent(a)]
          /\ isReply' = [isReply EXCEPT ![n] = @ \cup Sent(a)]
          /\ sequenceID' = [sequenceID EXCEPT ![n] = seq]
          /\ IF seq \in requestPool[n] /\ seq = Grown(height[n], a) + 1
             THEN BroadcastPrepare(seq) ELSE UNCHANGED prepares
    /\ ask' = [ask EXCEPT ![n] = NoAsk]
    /\ UNCHANGED <<isCommitBordcast, hung, unread, commits, main>>

-----------------------------------------------------------------------------
\* CStop at the main node: the handler waits for the proposer with tcpPoolLock held.
SendStop == Stops /\ stop = "no" /\ stop' = "sent"
            /\ UNCHANGED <<sequenceID, height, requestPool, isCommitBordcast, isReply, ask, hung, network,
                           proposed, sequenceLock, proposer, dead>>

WaitToStop == Running(Main) /\ stop = "sent" /\ stop' = "blocked"
              /\ UNCHANGED <<sequenceID, height, requestPool, isCommitBordcast, isReply, ask, hung, network,
                             proposed, sequenceLock, proposer, dead>>

Handle(n) ==
    \/ \E k \in Rounds : HandlePrePrepare(n, k) \/ HandlePrepare(n, k) \/ HandleCommit(n, k)
    \/ HandleRequestOldSeq(n) \/ HandleSendOldSeq(n)

Next ==
    /\ UNCHANGED setup
    /\ Select \/ Propose \/ SendStop \/ WaitToStop \/ \E n \in Nodes : Handle(n)

Spec == Init /\ [][Next]_vars

\* The proposer goes on, and every message arrives.
Fairness ==
    /\ WF_vars((Select \/ Propose) /\ UNCHANGED setup)
    /\ WF_vars(WaitToStop /\ UNCHANGED setup)
    /\ \A n \in Nodes : WF_vars(Handle(n) /\ UNCHANGED setup)

LiveSpec == Spec /\ Fairness

-----------------------------------------------------------------------------
\* The main node is never behind its own chain: its sequence number is the number of the
\* next block, sequenceLock is held exactly while a block is on its way, and it never
\* asks for blocks, in whatever order the messages arrive.  It dies only without a pool,
\* with its first block on the chain and the round not ended; no other round comes then.
MainInStep ==
    /\ sequenceID[Main] = height[Main] + (IF dead THEN 0 ELSE 1)
    /\ dead => sequenceLock /\ ~HasPool
    /\ ~HasPool => sequenceID[Main] = 1
    /\ ask[Main].state = "no" /\ Main \notin hung
    /\ proposed = 1 .. (IF sequenceLock THEN sequenceID[Main] ELSE height[Main])

\* The nodes whose process is there.
Alive == IF dead THEN Nodes \ {Main} ELSE Nodes

\* A block that is on some chain has been stored by 2f nodes that have each told the
\* others to commit it, once.
Certified ==
    \A n \in Nodes : \A k \in 1 .. height[n] :
        \E Q \in SUBSET Nodes :
            Cardinality(Q) >= 2 * Faults /\ \A m \in Q : k \in requestPool[m] /\ k \in isCommitBordcast[m]

\* No node has a block that the main node has not proposed, nor one whose round it has
\* not ended: at worst a chain is behind the sequence number.
NeverAhead ==
    /\ \A n \in Alive : height[n] < sequenceID[n]
    /\ \A n \in Nodes : 1 .. height[n] \subseteq proposed

\* The three together: in whatever order messages arrive, and whichever never do, rounds
\* follow one another and every block on a chain is one that a quorum holds.
RoundsSound == MainInStep /\ Certified /\ NeverAhead

\* If a node gets the commits of a block after the block and in its round, the nodes of the
\* shard have the same chain: two that have ended the same number of rounds have the same
\* blocks.
SameChainInOrder ==
    order # "any" => \A m, n \in Alive : sequenceID[m] = sequenceID[n] => height[m] = height[n]

\* What the comment on CurChain says, with no such condition: all nodes in the shard
\* maintain the same blockchain.
\* It does not hold: the README says why.
SameChain == \A m, n \in Alive : sequenceID[m] = sequenceID[n] => height[m] = height[n]

\* A node that says it has 2f + 1 commits has them: so many nodes have sent one.
\* It does not hold: the README says why.
CommitQuorum == \A n \in Nodes : \A k \in isReply[n] : commits[k] >= 2 * Faults + 1

\* An answer with all the blocks of its range is enough.
\* It does not hold: the README says why.
FullAnswerTaken ==
    \A n \in Nodes : LET a == ask[n] IN
        a.state = "answered" /\ a.end >= a.start /\ a.len = a.end - a.start + 1 => Enough(a)

\* Without a pool the first block is the last.
LastBlock == IF HasPool THEN MaxSeq ELSE 1

\* All the chains get every block that is ever proposed, unless a stop is sent.
AllCommit == <>(stop # "no" \/ \A n \in Nodes : height[n] = LastBlock)

LastRound == sequenceID[Main] > MaxSeq

\* A round that begins ends: the main node gives sequenceLock back.
\* It does not hold without a pool: the README says why.
LockComesBack == sequenceLock ~> ~sequenceLock

\* A stop that no round is in the way of ends the proposer.
StopBetweenRounds == stop = "blocked" /\ ~sequenceLock ~> proposer = "stopped" \/ LastRound

\* The channel for stopping the consensus stops it.
\* It does not hold: the README says why.
StopEnds == stop = "sent" ~> proposer = "stopped" \/ LastRound
=============================================================================

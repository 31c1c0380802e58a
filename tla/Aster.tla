-------------------------------- MODULE Aster --------------------------------
(***************************************************************************)
(* The proposer of shard 0 and its followers: one epoch after another the  *)
(* proposer takes a batch of transactions, routes each one to the          *)
(* followers that own its sender and its recipient, and packs what the     *)
(* followers send back into a block, which starts the next epoch.          *)
(*                                                                         *)
(* A step is what one goroutine does between two points where another can  *)
(* interfere.  Messages travel in sets: networks.TcpDial writes from a     *)
(* goroutine of its own, so nothing orders them, and a failed dial drops   *)
(* them silently.                                                          *)
(***************************************************************************)
EXTENDS Integers, Sequences, FiniteSets, Functions

CONSTANTS
    Tx,             \* transactions, identified by their hashes
    TxList,         \* the data set in the order of the file, a sequence
    Account, Sender, Recipient, Value,
    Digit,          \* first hex digit of an address, -1 if it is not one
    InitBalance,    \* params.Init_Balance
    N,              \* followers at start, params.FollowerNum
    MaxJoin,        \* bound: followers that join later
    MaxFaults,      \* bound: messages lost and followers crashed
    InjectSpeed, MaxBlockSize,
    StopPolls       \* consecutive empty polls before closing (10)

Fid == 0 .. (N + MaxJoin - 1)
Absent == -1

ASSUME ParamsAssumption ==
    /\ N \in Nat \ {0} /\ MaxJoin \in Nat /\ MaxFaults \in Nat
    /\ InjectSpeed \in Nat \ {0} /\ MaxBlockSize \in Nat \ {0}
    /\ StopPolls \in Nat \ {0}

ASSUME DataAssumption ==
    /\ TxList \in Seq(Tx)
    /\ \A i, j \in DOMAIN TxList : TxList[i] = TxList[j] => i = j
    /\ Sender \in [Tx -> Account] /\ Recipient \in [Tx -> Account]
    /\ \A t \in Tx : Sender[t] # Recipient[t]
    /\ Value \in [Tx -> Nat] /\ InitBalance \in Nat
    /\ Digit \in [Account -> -1 .. 15]

VARIABLES
    \* --- the injector and the scheduler (RunProposerNode, SchedulingTxs)
    txs,             \* not injected yet
    PendingTxpool,
    signals,         \* goroutines about to send on schedulingTxsSignal
    poollencount,
    stop,
    main,            \* where the select loop is
    localTxpool,     \* routing goroutines that have not run yet
    lens,            \* len(FollowerIDs) since they were started, in order
    allocMap,
    EpochId,
    toLaunch,        \* followers the range loop has still to visit
    wg,              \* counter of the WaitGroup
    panicked,        \* the proposer process died of a negative counter
    \* --- TxAllocate goroutines before and after TcpDial
    starting, sent,
    \* --- pools, replies and blocks
    AllocatedTxpool,
    ProcessedTxpool,
    gathering,       \* handlers inside GatherTxs (AllocatedTxpoolLock)
    gathered,        \* handlers between GatherTxs and GatherLock
    GatherMap,       \* <<epoch, fid>> of the replies registered
    gens,            \* blockGenerate goroutines started, not finished
    building,        \* the block being added, a sequence of 0 or 1
    blockHashGenDone,
    chain,           \* the blocks after genesis
    \* --- membership
    FollowerIDs, FollowerNum, joining, joins,
    \* --- network and followers
    allocMsgs, replyMsgs,
    working,         \* batches being executed (ProcessTxLock)
    trie,            \* account balances of each follower
    executed,        \* history: <<tx, follower>> that took effect
    down, faults

schedVars == <<txs, PendingTxpool, signals, poollencount, stop, main,
               localTxpool, lens, allocMap, EpochId, toLaunch>>
allocVars == <<wg, panicked, starting, sent>>
gatherVars == <<AllocatedTxpool, ProcessedTxpool, gathering, gathered,
                GatherMap>>
blockVars == <<gens, building, blockHashGenDone, chain>>
joinVars == <<FollowerIDs, FollowerNum, joining, joins>>
followerVars == <<working, trie, executed>>
netVars == <<allocMsgs, replyMsgs, down, faults>>
vars == <<schedVars, allocVars, gatherVars, blockVars, joinVars,
          followerVars, netVars>>

\* A node that has stopped drops what it reads from its connections.
Listening == ~panicked /\ ~stop

Least(a, b) == IF a < b THEN a ELSE b
NoBatches == [f \in Fid |-> <<>>]

\* NewProposerNode gives every initial follower an entry; the only other
\* writer, handleFollowerReady, answers a data migration that cannot start
\* while the ring holds no data keys (GetNode has no caller).
ReadyMap == 0 .. (N - 1)

Init ==
    /\ txs = TxList /\ PendingTxpool = <<>> /\ signals = 1
    /\ poollencount = 0 /\ stop = FALSE /\ main = "select"
    /\ localTxpool = {} /\ lens = <<>> /\ allocMap = NoBatches
    /\ EpochId = 1 /\ toLaunch = {}
    /\ wg = 0 /\ panicked = FALSE /\ starting = {} /\ sent = {}
    /\ AllocatedTxpool = {} /\ ProcessedTxpool = <<>>
    /\ gathering = {} /\ gathered = {} /\ GatherMap = {}
    /\ gens = 0 /\ building = <<>> /\ blockHashGenDone = {} /\ chain = <<>>
    /\ FollowerIDs = [i \in 1 .. N |-> i - 1] /\ FollowerNum = N
    /\ joining = {} /\ joins = 0
    /\ allocMsgs = {} /\ replyMsgs = {} /\ down = {} /\ faults = 0
    /\ working = {} /\ executed = {}
    /\ trie = [f \in ReadyMap |-> [a \in Account |-> Absent]]

-----------------------------------------------------------------------------
(* The injector and the scheduler.                                         *)

\* The injector adds a slice; it waits for ever on PendingTxpoolLock once
\* the closing scheduler sleeps with it.
Inject ==
    /\ ~panicked /\ ~stop /\ txs # <<>> /\ main # "closed"
    /\ LET n == Least(InjectSpeed, Len(txs)) IN
         /\ PendingTxpool' = PendingTxpool \o SubSeq(txs, 1, n)
         /\ txs' = SubSeq(txs, n + 1, Len(txs))
    /\ UNCHANGED <<signals, poollencount, stop, main, localTxpool, lens,
                   allocMap, EpochId, toLaunch, allocVars, gatherVars,
                   blockVars, joinVars, followerVars, netVars>>

\* Mutant: empty polls are not counted.
NotCounted(polls) == polls
Counted(polls) == polls + 1

\* The select loop receives from schedulingTxsSignal.
Signalled == signals > 0

\* closeProposerNode waits for chainLock to close the chain.
closeProposerNode == stop' = TRUE /\ building = <<>>

\* SchedulingTxs with nothing pending polls again in a second.  At the last
\* poll it closes the node, then sends on stopchan, whose only receiver is
\* the select loop it was called from: "closed" has no continuation.
PollEmpty ==
    /\ ~panicked /\ main = "select" /\ Signalled /\ PendingTxpool = <<>>
    /\ poollencount' = Counted(poollencount)
    /\ IF poollencount' >= StopPolls
         THEN /\ closeProposerNode
              /\ main' = "closed" /\ signals' = signals - 1
         ELSE UNCHANGED <<stop, main, signals>>
    /\ UNCHANGED <<txs, PendingTxpool, localTxpool, lens, allocMap, EpochId,
                   toLaunch, allocVars, gatherVars, blockVars, joinVars,
                   followerVars, netVars>>

\* SchedulingTxs takes at most MaxBlockSize transactions and starts one
\* routing goroutine for each.
TakeBatch ==
    /\ ~panicked /\ main = "select" /\ Signalled /\ PendingTxpool # <<>>
    /\ LET n == Least(MaxBlockSize, Len(PendingTxpool)) IN
         /\ localTxpool' = {PendingTxpool[i] : i \in 1 .. n}
         /\ PendingTxpool' = SubSeq(PendingTxpool, n + 1, Len(PendingTxpool))
    /\ signals' = signals - 1 /\ poollencount' = 0 /\ main' = "route"
    /\ allocMap' = NoBatches /\ lens' = <<Len(FollowerIDs)>>
    /\ UNCHANGED <<txs, stop, EpochId, toLaunch, allocVars, gatherVars,
                   blockVars, joinVars, followerVars, netVars>>

IsHex(a) == Digit[a] >= 0

\* The append of one routing goroutine, under allocMapLock.
Routed(am, t, d1, d2) ==
    [f \in Fid |-> IF f \in {d1, d2} THEN Append(am[f], t) ELSE am[f]]

\* One routing goroutine.  It reads len(FollowerIDs) twice, without a lock,
\* at any time since the batch was taken.
RouteTx(t) ==
    /\ ~panicked /\ main = "route" /\ t \in localTxpool
    /\ localTxpool' = localTxpool \ {t}
    /\ IF IsHex(Sender[t]) /\ IsHex(Recipient[t])
         THEN \E i, j \in DOMAIN lens :
                /\ i <= j
                /\ allocMap' = Routed(allocMap, t, Digit[Sender[t]] % lens[i],
                                      Digit[Recipient[t]] % lens[j])
         ELSE UNCHANGED allocMap
    /\ UNCHANGED <<txs, PendingTxpool, signals, poollencount, stop, main,
                   lens, EpochId, toLaunch, allocVars, gatherVars, blockVars,
                   joinVars, followerVars, netVars>>

\* w.Wait returns; the epoch gets its number and its list of followers.
StartEpoch ==
    /\ ~panicked /\ main = "route" /\ localTxpool = {}
    /\ EpochId' = EpochId + 1 /\ main' = "launch"
    /\ toLaunch' = Range(FollowerIDs) /\ lens' = <<>>
    /\ UNCHANGED <<txs, PendingTxpool, signals, poollencount, stop,
                   localTxpool, allocMap, allocVars, gatherVars,
                   blockVars, joinVars, followerVars, netVars>>

\* go p.TxAllocate(...), for the followers in the order of a Go map.
Launch(f) ==
    /\ ~panicked /\ main = "launch" /\ f \in toLaunch
    /\ toLaunch' = toLaunch \ {f} /\ main' = "add"
    /\ starting' = starting \cup
                     {[epoch |-> EpochId, fid |-> f, txs |-> allocMap[f]]}
    /\ UNCHANGED <<txs, PendingTxpool, signals, poollencount, stop,
                   localTxpool, lens, allocMap, EpochId, wg, panicked, sent,
                   gatherVars, blockVars, joinVars, followerVars, netVars>>

\* wg.Add(1), after the goroutine it counts has been started.
WgAdd ==
    /\ ~panicked /\ main = "add"
    /\ wg' = wg + 1 /\ main' = "launch"
    /\ UNCHANGED <<txs, PendingTxpool, signals, poollencount, stop,
                   localTxpool, lens, allocMap, EpochId, toLaunch, panicked,
                   starting, sent, gatherVars, blockVars, joinVars,
                   followerVars, netVars>>

\* Mutant: no wg.Wait.
NotWaited == wg >= 0
Waited == wg = 0

\* wg.Wait returns and SchedulingTxs with it.
EndScheduling ==
    /\ ~panicked /\ main = "launch" /\ toLaunch = {} /\ Waited
    /\ main' = "select"
    /\ UNCHANGED <<txs, PendingTxpool, signals, poollencount, stop,
                   localTxpool, lens, allocMap, EpochId, toLaunch, allocVars,
                   gatherVars, blockVars, joinVars, followerVars, netVars>>

-----------------------------------------------------------------------------
(* TxAllocate, one goroutine for each follower of the epoch.               *)

\* The deferred wg.Done(): below zero, the Go runtime panics.
WgDone ==
    IF wg > 0 THEN wg' = wg - 1 /\ UNCHANGED panicked
              ELSE panicked' = TRUE /\ UNCHANGED wg

\* A follower that joined has no entry in ReadyMap: its batch is dropped.
AllocateNotReady(a) ==
    /\ ~panicked /\ a \in starting /\ a.fid \notin ReadyMap
    /\ starting' = starting \ {a}
    /\ WgDone
    /\ UNCHANGED <<schedVars, sent, gatherVars, blockVars, joinVars,
                   followerVars, netVars>>

\* networks.TcpDial: from here on the follower may receive the batch.
AllocateSend(a) ==
    /\ ~panicked /\ a \in starting /\ a.fid \in ReadyMap
    /\ starting' = starting \ {a} /\ sent' = sent \cup {a}
    /\ allocMsgs' = allocMsgs \cup {a}
    /\ UNCHANGED <<schedVars, wg, panicked, gatherVars, blockVars, joinVars,
                   followerVars, replyMsgs, down, faults>>

\* Recording the batch in AllocatedTxpool, only after it was sent.
AllocateRecord(a) ==
    /\ ~panicked /\ a \in sent /\ gathering = {}
    /\ sent' = sent \ {a}
    /\ AllocatedTxpool' = AllocatedTxpool \cup Range(a.txs)
    /\ WgDone
    /\ UNCHANGED <<schedVars, starting, ProcessedTxpool, gathering, gathered,
                   GatherMap, blockVars, joinVars, followerVars, netVars>>

-----------------------------------------------------------------------------
(* Followers: handleAllocatedTxs and ProcessTxs.                           *)

\* f.FollowerNum is fixed when the follower starts.
Mine(f, a) == Digit[a] % N = f
Balance(st, a) == IF st[a] = Absent THEN InitBalance ELSE st[a]
Rejects(st, f, t) == Mine(f, Sender[t]) /\ Balance(st, Sender[t]) < Value[t]
Debit(st, f, t) ==
    IF Mine(f, Sender[t])
      THEN [st EXCEPT ![Sender[t]] = Balance(st, Sender[t]) - Value[t]]
      ELSE st
Credit(st, f, t) ==
    IF Mine(f, Recipient[t])
      THEN [st EXCEPT ![Recipient[t]] = Balance(st, Recipient[t]) + Value[t]]
      ELSE st

\* Mutant: a rejected transaction is returned as executed.
ReturnedAll(hashes, t, rej) == Append(hashes, t)
Returned(hashes, t, rej) == IF rej THEN hashes ELSE Append(hashes, t)

\* ProcessTxs returns at once for an empty batch.  Otherwise it commits the
\* trie, and a commit that changed nothing returns no node set, which is
\* dereferenced, unless the trie is still empty.
Committable(m) == m.txs = <<>> \/ \A a \in Account : trie[m.fid][a] = Absent

\* The handler of a batch gets ProcessTxLock.
StartBatch(m) ==
    /\ m \in allocMsgs /\ m.fid \notin down
    /\ \A w \in working : w.fid # m.fid
    /\ allocMsgs' = allocMsgs \ {m}
    /\ working' = working \cup {[epoch |-> m.epoch, fid |-> m.fid,
                                 todo |-> m.txs, hashes |-> <<>>,
                                 commits |-> Committable(m)]}
    /\ UNCHANGED <<schedVars, allocVars, gatherVars, blockVars, joinVars,
                   trie, executed, replyMsgs, down, faults>>

\* One iteration of the loop of ProcessTxs.  A rejected transaction is
\* skipped; a recipient is credited whatever the sender's follower decides.
ExecuteTx(w) ==
    /\ w \in working /\ w.todo # <<>>
    /\ LET t == Head(w.todo)
           f == w.fid
           rej == Rejects(trie[f], f, t) IN
         /\ trie' = IF rej THEN trie
                    ELSE [trie EXCEPT ![f] = Credit(Debit(@, f, t), f, t)]
         /\ working' = (working \ {w}) \cup
              {[w EXCEPT !.todo = Tail(w.todo),
                         !.hashes = Returned(w.hashes, t, rej),
                         !.commits = w.commits \/ trie' # trie]}
         /\ executed' = IF rej THEN executed ELSE executed \cup {<<t, f>>}
    /\ UNCHANGED <<schedVars, allocVars, gatherVars, blockVars, joinVars,
                   netVars>>

\* Mutant: a follower with nothing executed does not answer.
ReplyIfAny(w) ==
    /\ w \in working /\ w.todo = <<>> /\ w.commits
    /\ working' = working \ {w}
    /\ replyMsgs' = IF w.hashes = <<>> THEN replyMsgs ELSE replyMsgs \cup
         {[epoch |-> w.epoch, fid |-> w.fid, hashes |-> w.hashes]}
    /\ UNCHANGED <<schedVars, allocVars, gatherVars, blockVars, joinVars,
                   trie, executed, allocMsgs, down, faults>>

\* The batch is committed and the hashes executed go back to the proposer.
Reply(w) ==
    /\ w \in working /\ w.todo = <<>> /\ w.commits
    /\ working' = working \ {w}
    /\ replyMsgs' = replyMsgs \cup
         {[epoch |-> w.epoch, fid |-> w.fid, hashes |-> w.hashes]}
    /\ UNCHANGED <<schedVars, allocVars, gatherVars, blockVars, joinVars,
                   trie, executed, allocMsgs, down, faults>>

\* trie.NewWithNodeSet(nil) panics: the follower dies, with what it was sent.
CommitPanic(w) ==
    /\ w \in working /\ w.todo = <<>> /\ ~w.commits
    /\ working' = {v \in working : v.fid # w.fid}
    /\ allocMsgs' = {m \in allocMsgs : m.fid # w.fid}
    /\ down' = down \cup {w.fid}
    /\ UNCHANGED <<schedVars, allocVars, gatherVars, blockVars, joinVars,
                   trie, executed, replyMsgs, faults>>

-----------------------------------------------------------------------------
(* The proposer gathers replies: handleProcessedTxs.                       *)

\* A handler enters GatherTxs; a closed node drops what it receives.
GatherBegin(m) ==
    /\ Listening /\ m \in replyMsgs /\ gathering = {}
    /\ replyMsgs' = replyMsgs \ {m}
    /\ gathering' = {[epoch |-> m.epoch, fid |-> m.fid, todo |-> m.hashes,
                      hashes |-> m.hashes]}
    /\ UNCHANGED <<schedVars, allocVars, AllocatedTxpool, ProcessedTxpool,
                   gathered, GatherMap, blockVars, joinVars, followerVars,
                   allocMsgs, down, faults>>

\* One iteration of the loop of GatherTxs: a hash that is not in
\* AllocatedTxpool is ignored.
GatherOne(g) ==
    /\ ~panicked /\ g \in gathering /\ g.todo # <<>>
    /\ LET t == Head(g.todo) IN
         /\ gathering' = {[g EXCEPT !.todo = Tail(g.todo)]}
         /\ ProcessedTxpool' = IF t \in AllocatedTxpool
                                 THEN Append(ProcessedTxpool, t)
                                 ELSE ProcessedTxpool
         /\ AllocatedTxpool' = AllocatedTxpool \ {t}
    /\ UNCHANGED <<schedVars, allocVars, gathered, GatherMap, blockVars,
                   joinVars, followerVars, netVars>>

GatherEnd(g) ==
    /\ ~panicked /\ g \in gathering /\ g.todo = <<>>
    /\ gathering' = {}
    /\ gathered' = gathered \cup
         {[epoch |-> g.epoch, fid |-> g.fid, hashes |-> g.hashes]}
    /\ UNCHANGED <<schedVars, allocVars, AllocatedTxpool, ProcessedTxpool,
                   GatherMap, blockVars, joinVars, followerVars, netVars>>

Registered(gm, e) == {f \in Fid : <<e, f>> \in gm}
\* Mutant: the block is made one reply early.
EpochAlmostFull(gm, e) == Cardinality(Registered(gm, e)) >= FollowerNum - 1
EpochFull(gm, e) == Cardinality(Registered(gm, e)) = FollowerNum

\* Under GatherLock: the reply is registered and the one that completes the
\* epoch starts blockGenerate.
Register(g) ==
    /\ ~panicked /\ g \in gathered
    /\ gathered' = gathered \ {g}
    /\ GatherMap' = GatherMap \cup {<<g.epoch, g.fid>>}
    /\ gens' = IF EpochFull(GatherMap', g.epoch) THEN gens + 1 ELSE gens
    /\ UNCHANGED <<schedVars, allocVars, AllocatedTxpool, ProcessedTxpool,
                   gathering, building, blockHashGenDone, chain, joinVars,
                   followerVars, netVars>>

-----------------------------------------------------------------------------
(* blockGenerate, under chainLock.                                         *)

\* Nothing to pack (or a block already built on this one): it returns
\* without starting the goroutine that would signal the scheduler.
GenerateNothing ==
    /\ ~panicked /\ gens > 0 /\ building = <<>>
    /\ ~(ProcessedTxpool # <<>> /\ Len(chain) \notin blockHashGenDone)
    /\ gens' = gens - 1
    /\ UNCHANGED <<schedVars, allocVars, gatherVars, building,
                   blockHashGenDone, chain, joinVars, followerVars, netVars>>

\* Mutant: packed transactions stay in the pool.
AllLeftInPool == ProcessedTxpool
LeftInPool == <<>>

\* Everything in ProcessedTxpool goes into a block on the current one.
GenerateBlock ==
    /\ ~panicked /\ gens > 0 /\ building = <<>>
    /\ ProcessedTxpool # <<>> /\ Len(chain) \notin blockHashGenDone
    /\ building' = <<[parent |-> Len(chain), txs |-> ProcessedTxpool]>>
    /\ ProcessedTxpool' = LeftInPool
    /\ blockHashGenDone' = blockHashGenDone \cup {Len(chain)}
    /\ UNCHANGED <<schedVars, allocVars, AllocatedTxpool, gathering,
                   gathered, GatherMap, gens, chain, joinVars, followerVars,
                   netVars>>

\* CurChain.AddBlock refuses a block that is not on the current one.
Accepts(block) == block.parent = Len(chain)

SignalAfterBlock == signals + 1

\* The result of CurChain.AddBlock is not looked at: the goroutine that
\* signals the scheduler after Block_Interval starts either way.
AddBlock ==
    /\ ~panicked /\ building # <<>>
    /\ chain' = IF Accepts(building[1])
                  THEN Append(chain, building[1].txs) ELSE chain
    /\ building' = <<>> /\ gens' = gens - 1 /\ signals' = SignalAfterBlock
    /\ UNCHANGED <<txs, PendingTxpool, poollencount, stop, main, localTxpool,
                   lens, allocMap, EpochId, toLaunch, allocVars, gatherVars,
                   blockHashGenDone, joinVars, followerVars, netVars>>

-----------------------------------------------------------------------------
(* Followers that join, crash or cannot be reached.                        *)

\* Mutant: ids counted from one.
NewNodeIdFromOne == Len(FollowerIDs) + 1
NewNodeId == Len(FollowerIDs)

\* handleFollowerJoin reads the next id and sends it to the new follower.
JoinRead ==
    /\ Listening /\ joins < MaxJoin
    /\ joins' = joins + 1
    /\ joining' = joining \cup {[join |-> joins, id |-> NewNodeId, pc |-> "add",
                                num |-> 0, ids |-> <<>>]}
    /\ UNCHANGED <<schedVars, allocVars, gatherVars, blockVars, FollowerIDs,
                   FollowerNum, followerVars, netVars>>

\* After ConsistentHash.AddNode it counts the follower and lists its id, with
\* no lock: handlers of two joins can each load what the other is about to
\* store, and then one of the two updates is lost.  Nothing makes the new
\* follower ready.
JoinLoad(j) ==
    /\ ~panicked /\ j \in joining /\ j.pc = "add"
    /\ joining' = (joining \ {j})
                    \cup {[j EXCEPT !.pc = "count", !.num = FollowerNum]}
    /\ UNCHANGED <<schedVars, allocVars, gatherVars, blockVars, FollowerIDs,
                   FollowerNum, joins, followerVars, netVars>>

JoinCount(j) ==
    /\ ~panicked /\ j \in joining /\ j.pc = "count"
    /\ FollowerNum' = j.num + 1
    /\ joining' = (joining \ {j})
                    \cup {[j EXCEPT !.pc = "list", !.ids = FollowerIDs]}
    /\ UNCHANGED <<schedVars, allocVars, gatherVars, blockVars, FollowerIDs,
                   joins, followerVars, netVars>>

JoinList(j) ==
    /\ ~panicked /\ j \in joining /\ j.pc = "list"
    /\ joining' = joining \ {j}
    /\ FollowerIDs' = Append(j.ids, j.id)
    /\ lens' = IF main = "route" THEN Append(lens, Len(FollowerIDs')) ELSE lens
    /\ UNCHANGED <<txs, PendingTxpool, signals, poollencount, stop, main,
                   localTxpool, allocMap, EpochId, toLaunch, allocVars,
                   gatherVars, blockVars, FollowerNum, joins, followerVars,
                   netVars>>

\* TcpDial cannot connect or write: the message is gone, nobody is told.
Lose(m) ==
    /\ faults < MaxFaults /\ m \in allocMsgs \cup replyMsgs
    /\ faults' = faults + 1
    /\ allocMsgs' = allocMsgs \ {m} /\ replyMsgs' = replyMsgs \ {m}
    /\ UNCHANGED <<schedVars, allocVars, gatherVars, blockVars, joinVars,
                   followerVars, down>>

\* A follower process dies with what it was executing and was sent.
Crash(f) ==
    /\ faults < MaxFaults /\ f \in ReadyMap \ down
    /\ faults' = faults + 1 /\ down' = down \cup {f}
    /\ working' = {w \in working : w.fid # f}
    /\ allocMsgs' = {m \in allocMsgs : m.fid # f}
    /\ UNCHANGED <<schedVars, allocVars, gatherVars, blockVars, joinVars,
                   trie, executed, replyMsgs>>

\* A dial to a dead follower fails.
DropAtDown(m) ==
    /\ m \in allocMsgs /\ m.fid \in down
    /\ allocMsgs' = allocMsgs \ {m}
    /\ UNCHANGED <<schedVars, allocVars, gatherVars, blockVars, joinVars,
                   followerVars, replyMsgs, down, faults>>

\* A restarted follower begins with an empty trie, whatever its database holds.
Restart(f) ==
    /\ f \in down
    /\ down' = down \ {f}
    /\ trie' = [trie EXCEPT ![f] = [a \in Account |-> Absent]]
    /\ UNCHANGED <<schedVars, allocVars, gatherVars, blockVars, joinVars,
                   working, executed, allocMsgs, replyMsgs, faults>>

-----------------------------------------------------------------------------
Schedule ==
    \/ Inject \/ PollEmpty \/ TakeBatch \/ StartEpoch \/ WgAdd
    \/ EndScheduling
    \/ \E t \in localTxpool : RouteTx(t)
    \/ \E f \in toLaunch : Launch(f)
Allocate ==
    \/ \E a \in starting : AllocateNotReady(a) \/ AllocateSend(a)
    \/ \E a \in sent : AllocateRecord(a)
Follow ==
    \/ \E m \in allocMsgs : StartBatch(m)
    \/ \E w \in working : ExecuteTx(w) \/ Reply(w) \/ CommitPanic(w)
Gather ==
    \/ \E m \in replyMsgs : GatherBegin(m)
    \/ \E g \in gathering : GatherOne(g) \/ GatherEnd(g)
    \/ \E g \in gathered : Register(g)
Generate == GenerateNothing \/ GenerateBlock \/ AddBlock
Enlist == \E j \in joining : JoinLoad(j) \/ JoinCount(j) \/ JoinList(j)
Join == JoinRead \/ Enlist
Fail ==
    \/ \E m \in allocMsgs \cup replyMsgs : Lose(m)
    \/ \E f \in ReadyMap : Crash(f)
    \/ \E m \in allocMsgs : DropAtDown(m)
    \/ \E f \in down : Restart(f)

Next == Schedule \/ Allocate \/ Follow \/ Gather \/ Generate \/ Join \/ Fail

Spec == Init /\ [][Next]_vars

\* The Go scheduler runs every goroutine that can run, a sleeping one
\* included, and a message that is not lost arrives.  Nothing forces a
\* follower to ask to join, a fault to happen or a dead follower to return.
Fairness ==
    /\ WF_vars(Schedule) /\ WF_vars(Allocate) /\ WF_vars(Follow)
    /\ WF_vars(Gather) /\ WF_vars(Generate) /\ WF_vars(Enlist)

FairSpec == Spec /\ Fairness

-----------------------------------------------------------------------------
(* Properties.                                                             *)

AllocMsg == [epoch : Nat, fid : Fid, txs : Seq(Tx)]
ReplyMsg == [epoch : Nat, fid : Fid, hashes : Seq(Tx)]
Candidate == [parent : Nat, txs : Seq(Tx)]
Job == [epoch : Nat, fid : Fid, todo : Seq(Tx), hashes : Seq(Tx)]
Batch == [epoch : Nat, fid : Fid, todo : Seq(Tx), hashes : Seq(Tx),
          commits : BOOLEAN]

Joiner == [join : Nat, id : Fid, pc : {"add", "count", "list"}, num : Nat,
           ids : Seq(Fid)]

SchedType ==
    /\ txs \in Seq(Tx) /\ PendingTxpool \in Seq(Tx) /\ signals \in Nat
    /\ poollencount \in Nat /\ stop \in BOOLEAN
    /\ main \in {"select", "route", "launch", "add", "closed"}
    /\ localTxpool \subseteq Tx /\ lens \in Seq(1 .. (N + MaxJoin))
    /\ allocMap \in [Fid -> Seq(Tx)] /\ EpochId \in Nat
    /\ toLaunch \subseteq Fid
AllocType ==
    /\ wg \in Nat /\ panicked \in BOOLEAN
    /\ starting \subseteq AllocMsg /\ sent \subseteq AllocMsg
GatherType ==
    /\ AllocatedTxpool \subseteq Tx /\ ProcessedTxpool \in Seq(Tx)
    /\ gathering \subseteq Job /\ gathered \subseteq ReplyMsg
    /\ GatherMap \subseteq Nat \X Fid
BlockType ==
    /\ gens \in Nat /\ building \in Seq(Candidate)
    /\ blockHashGenDone \subseteq Nat /\ chain \in Seq(Seq(Tx))
JoinType ==
    /\ FollowerIDs \in Seq(Fid) /\ FollowerNum \in Nat
    /\ joining \subseteq Joiner /\ joins \in 0 .. MaxJoin
FollowerType ==
    /\ working \subseteq Batch /\ executed \subseteq Tx \X Fid
    /\ trie \in [ReadyMap -> [Account -> Nat \cup {Absent}]]
NetType ==
    /\ allocMsgs \subseteq AllocMsg /\ replyMsgs \subseteq ReplyMsg
    /\ down \subseteq ReadyMap /\ faults \in 0 .. MaxFaults

\* Every variable has its type: no batch, reply or handler names a follower
\* outside the table or a transaction outside the data set, and no counter
\* of goroutines or of the WaitGroup is negative.
TypeOK ==
    /\ SchedType /\ AllocType /\ GatherType /\ BlockType /\ JoinType
    /\ FollowerType /\ NetType

InFlight == allocMsgs \cup working \cup replyMsgs \cup gathering \cup gathered
Busy == starting \cup InFlight

\* GatherTxs appends to ProcessedTxpool under AllocatedTxpoolLock and
\* blockGenerate empties it under ProcessedTxpoolLock: no common lock.  They
\* never overlap all the same, since blockGenerate starts only after the
\* last handler of its epoch has left GatherTxs and before the next epoch.
GatherExcludesGenerate == gens > 0 => gathering = {}

\* The scheduling token: at any time at most one of a pending signal, a
\* batch being routed, a blockGenerate and the final close exists, so two
\* epochs never run at once and schedulingTxsSignal never has two senders.
Token ==
    signals + gens + (IF main = "route" THEN 1 ELSE 0)
                   + (IF main = "closed" THEN 1 ELSE 0)
SingleToken == Token <= 1 /\ Len(building) <= gens

\* While the scheduler may start an epoch nothing of an earlier one is left
\* between proposer and followers, and what is there in an epoch belongs to
\* it, one item for each follower: GatherMap counts no stale reply.
EpochBarrier ==
    /\ Token > 0 => Busy = {} /\ toLaunch = {}
    /\ \A x \in Busy : x.epoch = EpochId
    /\ \A x, y \in Busy : x.fid = y.fid => x = y

\* wg.Add comes after the go statement it counts.  wg.Wait returns only when
\* every TxAllocate has recorded its batch, and the counter goes below zero
\* only between a go statement and its Add.
WaitGroupSound ==
    /\ ~panicked /\ main \in {"select", "route", "closed"}
         => wg = 0 /\ starting = {} /\ sent = {}
    /\ panicked => main = "add" /\ wg = 0

Packed == Range(ProcessedTxpool)
            \cup (UNION {Range(building[i].txs) : i \in DOMAIN building})
            \cup (UNION {Range(chain[i]) : i \in DOMAIN chain})

\* A transaction that GatherTxs packs was executed by one of its followers.
PackedWasExecuted == \A t \in Packed : \E f \in ReadyMap : <<t, f>> \in executed

\* A transaction routed to two followers can be packed once for each, when
\* the second TxAllocate records it after the first reply was gathered; but
\* never into two different blocks.
OneBlockPerTx ==
    \A i, j \in DOMAIN chain :
        i # j => Range(chain[i]) \cap Range(chain[j]) = {}

\* closeProposerNode never abandons an epoch: when the node stops listening
\* no reply is under way and everything gathered is on the chain.
CleanStop ==
    stop => Busy = {} /\ gens = 0 /\ ProcessedTxpool = <<>>

EpochComplete == Cardinality(Registered(GatherMap, EpochId)) = FollowerNum

\* Under fairness every batch taken is answered by all followers, unless the
\* WaitGroup panics or a follower dies of a batch that changed nothing: no
\* interleaving of sends, records and replies blocks an epoch.
EpochsComplete ==
    main = "route" ~> panicked \/ (main # "route" /\ (EpochComplete \/ down # {}))

\* The node ends in one of three ways: closed after the empty
\* polls, dead of the WaitGroup, or waiting for a signal that nobody will
\* send, either because the whole epoch was rejected and blockGenerate built
\* nothing or because a follower died.
Settled ==
    \/ main = "closed" \/ panicked
    \/ /\ main = "select" /\ Token = 0 /\ Busy = {}
       /\ EpochComplete => ProcessedTxpool = <<>>

\* What the readme says of node failures (task reassignment ensures stability)
\* and of recruiting followers as the network grows: an epoch that was started
\* completes, whoever dies or joins.
EpochsAlwaysComplete ==
    main = "route" ~> panicked \/ (main # "route" /\ EpochComplete)

\* What the comment of trie.Commit asks of its callers (no node set comes back
\* from a clean trie): a batch of which nothing takes effect is survived.
\* It does not hold: the README says why.
FollowersSurvive == down = {}

\* What the comment of GatherTxs says (what the followers executed and
\* returned is collected in the proposer's pool), for a reply gathered.
ExecutedIsGathered ==
    \A g \in gathered : \A t \in Range(g.hashes) : t \in Packed

\* What the readme says of blocks (packages validated transactions): a
\* transaction on the chain took effect at its sender's follower.
\* It does not hold: the README says why.
ChainIsValidated ==
    \A i \in DOMAIN chain : \A t \in Range(chain[i]) :
        <<t, Digit[Sender[t]] % N>> \in executed
=============================================================================

------------------------------- MODULE MCLive -------------------------------
(***************************************************************************)
(* What must happen in the end: at the proposer, when a follower joins it, *)
(* at the lock of its ring, when accounts move between two shards, and     *)
(* when brokers pay across them.  A behaviour is one of one of these; the  *)
(* others stay as they were created.                                       *)
(***************************************************************************)
EXTENDS MCAster, TLC

CONSTANTS a, b, c, br, t1, Threads, NoThread

VARIABLES inst,  \* what runs: "aster", "join", "lock", "relay" or "broker"
          \* of Migrator
          mScenario, mPc, ReceiveRequestDataMap, locked, ready, joined, FollowerID, state, deposits, mNet,
          \* of RingLock
          pc, doubleLock, lock, owner, cancel, guards, using, timed,
          \* of Reshard
          scenario, leader, net, unsent, sentMaps, modifiedMap, stopGap, stopped, measures, reported, ended,
          died,
          \* of Broker
          bScenario, bLeader, bNet, bEnded, bDied, bUnsent, bSentMaps, bModifiedMap, bMeasures,
          dealt, rawMegs, confirm1, confirm2, brokerTxs, measuring

migrateVars == <<mScenario, mPc, ReceiveRequestDataMap, locked, ready, joined, FollowerID, state, deposits, mNet>>
lockVars == <<pc, doubleLock, lock, owner, cancel, guards, using, timed>>
relayVars == <<scenario, leader, net, unsent, sentMaps, modifiedMap, stopGap, stopped, measures, reported, ended,
               died>>
brokerVars == <<bScenario, bLeader, bNet, bEnded, bDied, bUnsent, bSentMaps, bModifiedMap, bMeasures,
                dealt, rawMegs, confirm1, confirm2, brokerTxs, measuring>>
liveVars == <<inst, vars, migrateVars, lockVars, relayVars, brokerVars>>

(* A third follower joins two.  Its accounts come from both of them, or from one with  *)
(* two tasks; or there is one task and messages are lost.                              *)

\* 2 is the executor of a and b once the third follower is listed; c stays.
mcDigit == a :> 2 @@ b :> 5 @@ c :> 6

\* Both followers have changed the accounts they give away, but for c; or one has them all.
mcStart ==
    [f \in 0 .. 2 |-> [k \in {a, b, c} |->
        IF <<f, k>> \in {<<0, a>>, <<1, b>>} THEN 3 ELSE -1]]
mcBoth ==
    [f \in 0 .. 2 |-> [k \in {a, b, c} |-> IF f = 0 THEN 3 ELSE -1]]

Moving(from, ks) == [from |-> from, to |-> 2, keys |-> ks]
mcRegular == [tasks |-> {Moving(0, {a, c}), Moving(1, {b})}, start |-> mcStart, lossy |-> FALSE,
              fidFirst |-> TRUE, deposits |-> 1]
mcEarly == [mcRegular EXCEPT !.fidFirst = FALSE]
mcShared == [mcEarly EXCEPT !.tasks = {Moving(0, {a}), Moving(0, {b, c})}, !.start = mcBoth]
mcLossy == [mcEarly EXCEPT !.tasks = {Moving(0, {a, c})}, !.lossy = TRUE, !.deposits = 2]
mcScenarios == {mcRegular, mcEarly, mcShared, mcLossy}

Migration == INSTANCE Migrator WITH
    scenario <- mScenario, pc <- mPc, ReadyMap <- ready, net <- mNet,
    N <- 2, Key <- {a, b, c}, Digit <- mcDigit, Init_Balance <- 1, Scenarios <- mcScenarios
ASSUME Migration!ScenarioTypes /\ Migration!KeysApart

Lock == INSTANCE RingLock WITH MaxGuards <- 2

mcShards == {0, 1}
mcAddr2Shard == [x \in {a, b, br} |-> IF x = b THEN 1 ELSE 0]

\* A transaction between the shards; its sender moves to the other one, and both move back.
mcRelay == [txs |-> {t1}, recipient |-> (t1 :> b), maps |-> <<(a :> 1), (a :> 0) @@ (b :> 0)>>,
            reports |-> FALSE, timely |-> {"relays", "injects", "partitions"}, rounds |-> 3,
            short |-> {}, chain |-> "dbMPT"]
mcRelayMemory == [mcRelay EXCEPT !.chain = "memory"]
Relay == INSTANCE Reshard WITH
    Shards <- mcShards, Accounts <- {a, b}, Txs <- {t1}, Sender <- (t1 :> a),
    Addr2Shard <- [x \in {a, b} |-> mcAddr2Shard[x]], BlockSize <- 1, Scenarios <- {mcRelay, mcRelayMemory},
    executed <- reported, panicked <- ended

\* A transaction across the shards, until its sender moves.
mcBroker == [txs |-> {t1}, maps |-> <<(a :> 1)>>,
             timely |-> {"seqs", "injects", "deals", "partitions"}, rounds |-> 2,
             short |-> {}, chain |-> "dbMPT"]
mcBrokerMemory == [mcBroker EXCEPT !.chain = "memory"]
Brokers == INSTANCE Broker WITH
    scenario <- bScenario, leader <- bLeader, net <- bNet, panicked <- bEnded, died <- bDied, unsent <- bUnsent,
    sentMaps <- bSentMaps, modifiedMap <- bModifiedMap, measures <- bMeasures,
    Shards <- mcShards, Accounts <- {a, b, br}, Txs <- {t1}, Sender <- (t1 :> a),
    Recipient <- (t1 :> b), Addr2Shard <- mcAddr2Shard, BrokerAddress <- br,
    BlockSize <- 1, Scenarios <- {mcBroker, mcBrokerMemory}

LiveInit ==
    /\ inst \in {"aster", "join", "lock", "relay", "broker"}
    /\ Init /\ Migration!Init /\ Lock!Init /\ Relay!Init /\ Brokers!Init
    /\ inst # "join" => mScenario = mcRegular
    /\ inst # "relay" => scenario = mcRelay
    /\ inst # "broker" => bScenario = mcBroker

LiveNext ==
    /\ UNCHANGED inst
    /\ \/ inst = "aster" /\ Next /\ UNCHANGED <<migrateVars, lockVars, relayVars, brokerVars>>
       \/ inst = "join" /\ Migration!Next /\ UNCHANGED <<vars, lockVars, relayVars, brokerVars>>
       \/ inst = "lock" /\ Lock!Next /\ UNCHANGED <<vars, migrateVars, relayVars, brokerVars>>
       \/ inst = "relay" /\ Relay!Next /\ UNCHANGED <<vars, migrateVars, lockVars, brokerVars>>
       \/ inst = "broker" /\ Brokers!Next /\ UNCHANGED <<vars, migrateVars, lockVars, relayVars>>

\* The fairness that Aster explains.
AsterFairness ==
    /\ WF_vars(inst = "aster" /\ Schedule) /\ WF_vars(inst = "aster" /\ Allocate)
    /\ WF_vars(inst = "aster" /\ Follow) /\ WF_vars(inst = "aster" /\ Gather)
    /\ WF_vars(inst = "aster" /\ Generate) /\ WF_vars(inst = "aster" /\ Enlist)

\* Goroutines run and messages are handled.
OfJoin(A) == inst = "join" /\ A /\ UNCHANGED mScenario
JoinFairness ==
    /\ \A t \in Migration!AllTasks : WF_migrateVars(OfJoin(t \in Migration!Tasks /\ Migration!Goroutine(t)))
    /\ WF_migrateVars(OfJoin(Migration!JoinReturns))
    /\ WF_migrateVars(OfJoin(\E m \in mNet : Migration!Handle(m)))

\* Threads and guards that can go on do, and users give the lock back.  Strong fairness
\* for the steps that take a mutex: a sync.Mutex hands itself to the longest waiter
\* after a millisecond.
LockFairness ==
    /\ \A t \in Threads : /\ SF_lockVars(inst = "lock" /\ Lock!ThreadStep(t))
                          /\ WF_lockVars(inst = "lock" /\ Lock!CallUnlock(t))
    /\ \A g \in 1 .. 2 : SF_lockVars(inst = "lock" /\ g \in DOMAIN guards /\ Lock!GuardStep(g))

\* Messages arrive, and a partition that has begun goes on; blocks need not come.
OfRelay(A) == inst = "relay" /\ A /\ UNCHANGED scenario
RelayFairness ==
    /\ WF_relayVars(OfRelay(\E m \in net : Relay!Handle(m)))
    /\ \A s \in mcShards : WF_relayVars(OfRelay(Relay!Partition(s)))

\* Messages arrive, threads and partitions go on, and a pool with transactions is emptied.
OfBrokers(A) == inst = "broker" /\ A /\ UNCHANGED bScenario
BrokerFairness ==
    /\ WF_brokerVars(OfBrokers(Brokers!Supervise))
    /\ WF_brokerVars(OfBrokers(\E m \in bNet : Brokers!Handle(m)))
    /\ \A s \in mcShards :
          WF_brokerVars(OfBrokers(Brokers!Partition(s))) /\ WF_brokerVars(OfBrokers(Brokers!Block(s)))

LiveSpec ==
    /\ LiveInit /\ [][LiveNext]_liveVars
    /\ AsterFairness /\ JoinFairness /\ LockFairness /\ RelayFairness /\ BrokerFairness

----------------------------------------------------------------------------
(* The properties of the parts; EpochsComplete is that of Aster.            *)

\* Under fairness the proposer ends, for good, in one of the three ways that Settled lists.
ProposerSettles == <>[](inst = "aster" => Settled)

\* What a joining follower is to get arrives, unless a goroutine panics, which none does if
\* each task has a source of its own; a follower is ready only with the accounts of a
\* task, and with one task no data overwrites what a batch has made of an account.
MigrationSound == inst = "join" => Migration!MigrationSound

\* If each task has a source of its own, nothing is lost and the id comes first,
\* handleFollowerJoin ends, with the ring's Lock given up, and the follower is ready for
\* batches from some time on.
JoinSucceeds == <>[](inst = "join" /\ Migration!Regular => joined /\ 2 \in ready)

\* A guard that fires comes to its end, unless a thread waits in Lock for the mutex.
FiredEnds == Lock!FiredEnds

\* Every partition comes to its end, so that time and again no shard is in one, unless a
\* main node dies.  One dies in the first partition if there is no pool.
PartitionEnds == []<>(died # {} \/ \A s \in mcShards : ~leader[s].on)

\* The transaction is executed in the end, by whichever way the brokers take it, unless a
\* main node dies; and one does die if there is no pool.
AllExecuted ==
    <>(inst = "broker" => bDied # {} \/ (bScenario.chain = "dbMPT" /\ Brokers!Credits(t1) # {}))
=============================================================================

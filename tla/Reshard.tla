------------------------------ MODULE Reshard ------------------------------
(***************************************************************************)
(* The main nodes of several shards and the supervisor, above consensus:   *)
(* transactions are injected, put into blocks and relayed to the shard of  *)
(* their recipient; from time to time the supervisor sends out a modified  *)
(* map of accounts to shards, and the main nodes hand over accounts and    *)
(* pending transactions before each of them commits the partition (the     *)
(* CLPA modules of src/consensus_shard/pbft_all and the committee of       *)
(* src/supervisor).  Without maps it is the plain relay system.            *)
(*                                                                         *)
(* A round of consensus is one step for a block, and two for a partition,  *)
(* which is proposed before it is committed.  Every message has a          *)
(* goroutine of its own.                                                   *)
(*                                                                         *)
(* The chain of a main node is one of two.  pbft.go makes that of          *)
(* blockchain_MemoryMPT.go ("memory"), which has no Txpool, so that the    *)
(* process dies where it first uses it.  The modules are written for that  *)
(* of blockchain.go ("dbMPT"), which has one and dies only when it commits *)
(* a state trie that nothing has changed.  Amounts are not modelled, and   *)
(* may be 0.                                                               *)
(***************************************************************************)
EXTENDS Integers, Sequences, FiniteSets, FiniteSetsExt

CONSTANTS Shards,             \* 0, 1, ...
          Accounts, Txs, Sender,
          Addr2Shard,         \* the shard an account has by its address
          BlockSize,          \* MaxBlockSize_global
          Scenarios           \* see scenario

VARIABLES scenario,           \* rigid: the circumstances, see below
          leader,             \* the state of each main node
          net,                \* messages on their way
          unsent, sentMaps, modifiedMap,   \* the committee
          stopGap, stopped,   \* the supervisor
          measures,           \* what it has counted: transactions, in halves
          executed,           \* how often each transaction has been reported executed
          panicked,           \* the main nodes that have ended themselves
          died                \* the main nodes that a nil pointer has ended

committee == <<unsent, sentMaps, modifiedMap>>
supervisor == <<stopGap, stopped, measures>>
vars == <<scenario, leader, net, committee, supervisor, executed, panicked, died>>

RecipientOf == scenario.recipient
Maps == scenario.maps         \* the modified maps the committee comes to
Reports == scenario.reports   \* is the stop rule of the supervisor looked at?
Timely == scenario.timely     \* what timing is relied on
MaxSeq == scenario.rounds     \* a bound on the rounds of a shard
Short == scenario.short       \* the transactions whose sender has not the means
HasPool == scenario.chain = "dbMPT"   \* has CurChain a Txpool?

Down == panicked \cup died

\* A map gives shards to some of the accounts.
ASSUME ScenarioAssumption ==
    /\ IsFiniteSet(Shards) /\ Shards # {}
    /\ Sender \in [Txs -> Accounts] /\ Addr2Shard \in [Accounts -> Shards]
    /\ \A x \in Scenarios :
          /\ x.txs \subseteq Txs /\ IsFiniteSet(x.txs) /\ x.recipient \in [Txs -> Accounts]
          /\ x.maps \in Seq(UNION {[as -> Shards] : as \in SUBSET Accounts})
          /\ x.timely \subseteq {"relays", "injects", "partitions", "reports"}
          /\ x.short \subseteq Txs /\ x.chain \in {"memory", "dbMPT"}

Others(s) == Shards \ {s}

\* Assignments to the entries of a Go map.
Put(map, i, val) == [j \in DOMAIN map \cup {i} |-> IF j = i THEN val ELSE map[j]]
Over(new, map) == [j \in DOMAIN map \cup DOMAIN new |-> IF j \in DOMAIN new THEN new[j] ELSE map[j]]

\* A transaction in a pool, with its flag Relayed.
Fresh(t) == [tx |-> t, relayed |-> FALSE]
Relayed(t) == [tx |-> t, relayed |-> TRUE]

NoLedger == [a \in Accounts |-> {}]

NewLeader(s) ==
    [pool |-> {}, seq |-> 1, map |-> Addr2Shard,
     ledger |-> NoLedger,     \* for each account, the transfers in its state
     trie |-> {},             \* the accounts that have a state in the trie
     seqIDMap |-> <<>>, maps |-> <<>>, round |-> 0, on |-> FALSE, ready |-> {},
     readySeq |-> <<>>, accts |-> {}, over |-> FALSE,
     atm |-> <<>>, pc |-> "propose", transfers |-> 0, block |-> TRUE]

Init ==
    /\ scenario \in Scenarios
    /\ leader = [s \in Shards |-> NewLeader(s)] /\ net = {}
    /\ unsent = scenario.txs /\ sentMaps = 0 /\ modifiedMap = Addr2Shard
    /\ stopGap = 0 /\ stopped = FALSE /\ measures = [relay |-> {}, total |-> 0, cross |-> 0]
    /\ executed = [t \in Txs |-> 0] /\ panicked = {} /\ died = {}

-----------------------------------------------------------------------------
\* The timing that is relied on.  "injects": injected transactions are in the pools
\* before the next map goes out, and the pause of the committee outlasts a partition.
\* "partitions": a map finds the one before it done with, and a block after it.
\* "relays": the relays of a shard arrive in order, the first of them before it is ready.
\* "reports": the report that a transaction is relayed arrives before that of its end.
OnTime == Maps = <<>> \/ {"relays", "injects", "partitions"} \subseteq Timely

Idle(s) == LET l == leader[s] IN l.pc = "propose" /\ ~l.on /\ Len(l.maps) = sentMaps

Injecting == \E m \in net : m.type = "inject"

MayInject == "injects" \in Timely => \A s \in Shards : Idle(s)

MayPartition ==
    /\ "injects" \in Timely => ~Injecting
    /\ "partitions" \in Timely => \A s \in Shards : Idle(s) /\ leader[s].block

InOrder(m) ==
    "relays" \in Timely =>
        ~\E r \in net : r.type = "relay" /\ r.from = m.from /\ r.to = m.to /\ r.seq < m.seq

FirstRelayed(m) == "relays" \in Timely => m.from \in DOMAIN leader[m.to].seqIDMap \/ InOrder(m)

AfterRelay(m) ==
    "reports" \in Timely => ~\E r \in net : r.type = "info" /\ r.relay1 \cap m.done # {}

-----------------------------------------------------------------------------
GapEnough == stopGap >= 2 * Cardinality(Shards)

\* A batch of MsgSendingControl, of one transaction.
TxSending(t) ==
    /\ t \in unsent /\ unsent' = unsent \ {t}
    /\ MayInject
    /\ net' = net \cup {[type |-> "inject", to |-> modifiedMap[Sender[t]], tx |-> t]}
    /\ stopGap' = 0
    /\ UNCHANGED <<leader, sentMaps, modifiedMap, stopped, measures, executed, panicked, died>>

clpaMapSend ==
    /\ sentMaps < Len(Maps) /\ MayPartition /\ ~stopped
    /\ (unsent = {} => ~GapEnough)
    /\ sentMaps' = sentMaps + 1
    /\ net' = net \cup {[type |-> "map", to |-> s, id |-> sentMaps + 1] : s \in Shards}
    /\ modifiedMap' = Over(Maps[sentMaps + 1], modifiedMap)
    /\ UNCHANGED <<leader, unsent, supervisor, executed, panicked, died>>

SupervisorStop ==
    /\ Reports /\ unsent = {} /\ GapEnough /\ ~stopped /\ stopped' = TRUE
    /\ UNCHANGED <<leader, net, committee, stopGap, measures, executed, panicked, died>>

\* Mutant: what is not known to be relayed counts one half.
NoneWhole(m) == {}

\* The executed transactions that are not known to be relayed.
Whole(m) == {t \in m.done : t \notin measures.relay \cup m.relay1}

\* The measures of throughput, and of the share of transactions across shards.
totTxNum(m) == measures.total + Cardinality(m.relay1) + Cardinality(m.done) + Cardinality(Whole(m))

totCrossTxNum(m) == measures.cross + Cardinality(m.relay1) + Cardinality(m.done \ Whole(m))

handleBlockInfos(m) ==
    /\ m.type = "info" /\ AfterRelay(m) /\ net' = net \ {m}
    /\ stopGap' = IF m.empty THEN stopGap + 1 ELSE 0
    /\ measures' = [relay |-> measures.relay \cup m.relay1,
                    total |-> totTxNum(m), cross |-> totCrossTxNum(m)]
    /\ UNCHANGED <<leader, committee, stopped, executed, panicked, died>>

-----------------------------------------------------------------------------
\* A main node dies before what it was about to do has any effect elsewhere.
Dies(s) ==
    /\ s \notin Down /\ died' = died \cup {s}
    /\ UNCHANGED <<leader, net, committee, supervisor, executed, panicked>>

\* A message that a main node handles, and what it becomes.
Receive(m, s, l) ==
    /\ s \notin Down
    /\ net' = net \ {m}
    /\ leader' = [leader EXCEPT ![s] = l]
    /\ UNCHANGED <<committee, supervisor, executed, panicked, died>>

handleInjectTx(m) ==
    /\ m.type = "inject"
    /\ IF HasPool THEN Receive(m, m.to, [leader[m.to] EXCEPT !.pool = @ \cup {Fresh(m.tx)}])
                  ELSE Dies(m.to)

handleRelay(m) ==
    /\ m.type = "relay" /\ InOrder(m)
    /\ IF HasPool
       THEN Receive(m, m.to, [leader[m.to] EXCEPT !.pool = @ \cup {Relayed(t) : t \in m.txs},
                                                  !.seqIDMap = Put(@, m.from, m.seq)])
       ELSE Dies(m.to)

handlePartitionMsg(m) ==
    m.type = "map" /\ Receive(m, m.to, [leader[m.to] EXCEPT !.maps = Append(@, m.id), !.on = TRUE])

handlePartitionReady(m) ==
    /\ m.type = "ready" /\ FirstRelayed(m)
    /\ Receive(m, m.to, [leader[m.to] EXCEPT !.ready = @ \cup {m.from},
                                             !.readySeq = Put(@, m.from, m.seq)])

\* AccountStateTx has one entry for each shard.
handleAccountStateAndTxMsg(m) ==
    /\ m.type = "accounts"
    /\ LET l == leader[m.to]
           accts == {x \in l.accts : x.from # m.from} \cup {m}
       IN Receive(m, m.to, [l EXCEPT !.accts = accts,
                                     !.over = @ \/ Cardinality(accts) = Cardinality(Shards) - 1])

-----------------------------------------------------------------------------
\* A look-up in a Go map, which gives the shard 0 for an account that is not in it.
Shard(map, a) == IF a \in DOMAIN map THEN map[a] ELSE 0

\* The checks of HandleinCommit, each of which ends the process.
Incorrect(s, x) ==
    leader[s].map[IF x.relayed THEN RecipientOf[x.tx] ELSE Sender[x.tx]] # s

ToRelay(s, x) == ~x.relayed /\ leader[s].map[RecipientOf[x.tx]] # s

\* What GetUpdateStatusTrie debits and credits, in accounts of the shard: a sender without
\* the means pays nothing, its state is written and the recipient credited all the same.
Debited(s, block) == {x \in block : ~x.relayed /\ leader[s].map[Sender[x.tx]] = s}
Credited(s, block) == {x \in block : leader[s].map[RecipientOf[x.tx]] = s}
Paid(s, block) == {x \in Debited(s, block) : x.tx \notin Short}

Written(s, block) ==
    {Sender[x.tx] : x \in Debited(s, block)} \cup {RecipientOf[x.tx] : x \in Credited(s, block)}

State(s, block) ==
    [a \in Accounts |-> leader[s].ledger[a]
        \cup {<<x.tx, "out">> : x \in {x \in Paid(s, block) : Sender[x.tx] = a}}
        \cup {<<x.tx, "in">> : x \in {x \in Credited(s, block) : RecipientOf[x.tx] = a}}]

\* No account is new in the trie, so that the states written may all be as they were.  Then
\* Commit gives no nodes, and the database dies of them.
NoneNew(l, accounts) == l.trie # {} /\ accounts \subseteq l.trie

\* HandleinCommit of the main node.
HandleinCommit(s, block) ==
    LET l == leader[s]
        done == {x.tx : x \in {x \in block : ~ToRelay(s, x)}}
        relay == {x.tx : x \in {x \in block : ToRelay(s, x)}}
    IN /\ IF \E x \in block : Incorrect(s, x)
          THEN panicked' = panicked \cup {s} /\ UNCHANGED <<leader, net, executed>>
          ELSE /\ leader' = [leader EXCEPT ![s].pool = @ \ block, ![s].seq = @ + 1,
                                           ![s].ledger = State(s, block), ![s].block = TRUE,
                                           ![s].trie = @ \cup Written(s, block)]
               /\ executed' = [t \in Txs |-> executed[t] + (IF t \in done THEN 1 ELSE 0)]
               /\ net' = net
                     \cup {[type |-> "relay", from |-> s, to |-> i, seq |-> l.seq,
                            txs |-> {t \in relay : l.map[RecipientOf[t]] = i}] : i \in Others(s)}
                     \cup {[type |-> "info", from |-> s, seq |-> l.seq, empty |-> block = {},
                            done |-> done, relay1 |-> relay] : r \in {r \in {TRUE} : Reports}}
               /\ UNCHANGED panicked
       /\ UNCHANGED died

\* A round with a block: GenerateBlock, which dies of a state it has not changed, and
\* HandleinCommit, which dies without a pool.
Block(s) ==
    LET l == leader[s]
        same(block) == Written(s, block) # {} /\ NoneNew(l, Written(s, block))
    IN /\ l.pc = "propose" /\ ~l.on /\ l.seq <= MaxSeq /\ s \notin Down
       /\ IF HasPool
          THEN \E block \in kSubset(Min({Cardinality(l.pool), BlockSize}), l.pool) :
                  \/ same(block) /\ Dies(s)
                  \/ /\ same(block) => Paid(s, block) \cup Credited(s, block) # {}
                     /\ HandleinCommit(s, block)
          ELSE Dies(s)
       /\ UNCHANGED <<committee, supervisor>>

-----------------------------------------------------------------------------
\* HandleinPropose of a partition: first the others are told that this shard is ready.
sendPartitionReady(s) ==
    LET l == leader[s] IN
    /\ l.pc = "propose" /\ l.on /\ s \notin Down
    /\ leader' = [leader EXCEPT ![s].ready = @ \cup {s}, ![s].pc = "ready"]
    /\ net' = net \cup {[type |-> "ready", from |-> s, to |-> i, seq |-> l.seq] : i \in Others(s)}
    /\ UNCHANGED <<committee, supervisor, executed, panicked, died>>

\* Mutant: off by one.
SeqEqual(l) ==
    /\ l.ready = Shards
    /\ \A i \in DOMAIN l.seqIDMap : i \in DOMAIN l.readySeq /\ l.readySeq[i] = l.seqIDMap[i]

getPartitionReady(l) ==
    /\ l.ready = Shards
    /\ \A i \in DOMAIN l.seqIDMap : i \in DOMAIN l.readySeq /\ l.readySeq[i] - 1 = l.seqIDMap[i]

\* Mutant: transactions go with their sender.
WithSender(addrs, x) == Sender[x.tx] \in addrs

\* The transactions that go with the accounts that leave.
GoesWith(addrs, x) == IF x.relayed THEN RecipientOf[x.tx] \in addrs ELSE Sender[x.tx] \in addrs

\* Mutant: they stay in the pool as well.
KeepAll(pool, sent) == pool

Kept(pool, sent) == pool \ sent

sendAccounts_and_Txs(s) ==
    LET l == leader[s]
        last == Maps[l.maps[Len(l.maps)]]
        addrs(i) == {a \in DOMAIN last : last[a] = i /\ i # s /\ l.map[a] = s}
        txs(i) == {x \in l.pool : GoesWith(addrs(i), x)}
    IN /\ l.pc = "ready" /\ getPartitionReady(l) /\ s \notin Down
       /\ IF HasPool
          THEN /\ leader' = [leader EXCEPT ![s].pc = "collect",
                                           ![s].pool = Kept(@, UNION {txs(i) : i \in Others(s)})]
               /\ net' = net \cup {[type |-> "accounts", from |-> s, to |-> i, seq |-> l.seq, txs |-> txs(i),
                                    states |-> [a \in addrs(i) |-> l.ledger[a]]] : i \in Others(s)}
               /\ UNCHANGED <<committee, supervisor, executed, panicked, died>>
          ELSE Dies(s)

\* ModifiedMap[AccountTransferRound], of a slice that counts from 0.
RoundMap(l) == Maps[l.maps[l.round + 1]]

ATid(l) == Len(l.maps)

\* The states in the messages; an account that is in two of them takes one of its states.
ReceivedNewAccountState(accts) ==
    [a \in UNION {DOMAIN m.states : m \in accts} |->
        (CHOOSE m \in accts : a \in DOMAIN m.states).states[a]]

\* Only a main node with a pool gets here: sendAccounts_and_Txs has used it.
proposePartition(s) ==
    LET l == leader[s]
        txs == UNION {m.txs : m \in l.accts}
    IN /\ l.pc = "collect" /\ l.over /\ s \notin Down
       /\ IF \E x \in txs : Shard(RoundMap(l), IF x.relayed THEN RecipientOf[x.tx] ELSE Sender[x.tx]) # s
          THEN panicked' = panicked \cup {s} /\ leader' = [leader EXCEPT ![s].pc = "panicked"]
          ELSE /\ leader' = [leader EXCEPT
                     ![s].pool = @ \cup txs, ![s].pc = "commit",
                     ![s].atm = [map |-> l.maps[l.round + 1], id |-> ATid(l),
                                 states |-> ReceivedNewAccountState(l.accts)]]
               /\ UNCHANGED panicked
       /\ UNCHANGED <<net, committee, supervisor, executed, died>>

\* The map after the transfer, and the accounts that AddAccounts takes: those of the shard.
NewMap(l) == Over(Maps[l.atm.map], l.map)
Added(s, l) == {a \in DOMAIN l.atm.states : NewMap(l)[a] = s}

\* accountTransfer_do, with AddAccounts, and the end of the round.
accountTransfer_do(s) ==
    LET l == leader[s]
        same == DOMAIN l.atm.states # {} /\ NoneNew(l, Added(s, l))
        states == [a \in Added(s, l) |-> l.atm.states[a]]
    IN /\ l.pc = "commit" /\ s \notin Down
       /\ \/ same /\ Dies(s)
          \/ /\ same => Added(s, l) # {}
             /\ leader' = [leader EXCEPT ![s] =
                   [l EXCEPT !.map = NewMap(l), !.ledger = Over(states, @), !.trie = @ \cup Added(s, l),
                             !.maps = IF Len(@) = l.atm.id THEN @ ELSE Append(@, l.atm.map),
                             !.round = l.atm.id, !.accts = {}, !.on = FALSE, !.over = FALSE,
                             !.ready = {}, !.seq = @ + 1, !.pc = "propose", !.atm = <<>>,
                             !.transfers = @ + 1, !.block = FALSE]]
             /\ UNCHANGED <<net, committee, supervisor, executed, panicked, died>>

-----------------------------------------------------------------------------
Handle(m) ==
    \/ handleInjectTx(m) \/ handleRelay(m) \/ handlePartitionMsg(m)
    \/ handlePartitionReady(m) \/ handleAccountStateAndTxMsg(m) \/ handleBlockInfos(m)

Partition(s) ==
    sendPartitionReady(s) \/ sendAccounts_and_Txs(s) \/ proposePartition(s) \/ accountTransfer_do(s)

Next ==
    /\ UNCHANGED scenario
    /\ \/ \E t \in Txs : TxSending(t)
       \/ clpaMapSend \/ SupervisorStop
       \/ \E m \in net : Handle(m)
       \/ \E s \in Shards : Block(s) \/ Partition(s)

Spec == Init /\ [][Next]_vars

\* The shape of a state, which the proofs about this module start from.
Entries == [tx : Txs, relayed : BOOLEAN]

Fields == {"pool", "seq", "map", "ledger", "trie", "seqIDMap", "maps", "round", "on", "ready",
           "readySeq", "accts", "over", "atm", "pc", "transfers", "block"}

Frame ==
    /\ scenario \in Scenarios
    /\ DOMAIN leader = Shards /\ \A s \in Shards : DOMAIN leader[s] = Fields
    /\ sentMaps \in 0 .. Len(Maps) /\ modifiedMap \in [Accounts -> Shards]
    /\ unsent \subseteq Txs /\ executed \in [Txs -> Nat]
    /\ \A m \in net : m.type # "info" => m.to \in Shards

-----------------------------------------------------------------------------
\* The places a transaction is in.
Places(t) ==
    Cardinality({s \in Shards : \E x \in leader[s].pool : x.tx = t})
    + Cardinality({m \in net : \/ m.type = "inject" /\ m.tx = t
                               \/ m.type = "relay" /\ t \in m.txs
                               \/ m.type = "accounts" /\ \E x \in m.txs : x.tx = t})
    + Cardinality({h \in UNION {{s} \X leader[s].accts : s \in Shards} :
                       leader[h[1]].pc # "commit" /\ \E x \in h[2].txs : x.tx = t})

\* However messages are ordered, a transaction is in one place at most, and only until
\* it has been executed, once.
NeverTwice == \A t \in scenario.txs : Places(t) + executed[t] + (IF t \in unsent THEN 1 ELSE 0) <= 1

\* Nothing is lost either, with the timing relied on, as in all that follows: what a main
\* node that is down has, or was to get, is stuck there.
Conserved ==
    OnTime => \A t \in scenario.txs : Places(t) + executed[t] + (IF t \in unsent THEN 1 ELSE 0) = 1

\* No main node meets a transaction that is not for its shard, in a block or among those
\* it is handed with accounts.
NoPanic == OnTime => panicked = {}

\* When no partition is under way, every account is at home in one shard, the same for
\* all, and its state there has all the transfers that any shard has made for it.
AccountsAtHome ==
    (OnTime /\ \A s \in Shards : Idle(s)) =>
        \A a \in Accounts :
            /\ \A s \in Shards : leader[s].map[a] = modifiedMap[a]
            /\ \A s \in Shards : leader[s].ledger[a] \subseteq leader[modifiedMap[a]].ledger[a]

\* A main node hands over accounts only when the last rounds of the others are over: no
\* relay of a block before the partition is still on its way to it.
LastRoundsOver ==
    OnTime => \A s \in Shards : leader[s].pc = "collect" =>
        ~\E m \in net : m.type = "relay" /\ m.to = s /\ leader[m.from].pc \in {"ready", "collect", "commit"}
                          /\ m.seq < leader[m.from].seq /\ m.txs # {}

\* AccountTransferRound is the number of account transfers done.
RoundsCounted == OnTime => \A s \in Shards : leader[s].round = leader[s].transfers

\* The supervisor stops the shards when all transactions have been handled.
\* It does not hold: the README says why.
StopAfterAll == stopped => \A t \in scenario.txs : executed[t] = 1

\* It does not stop before so many reports of empty blocks in a row that it has had more
\* than one from some shard, and nothing was left to send.
StopAfterGap == stopped => unsent = {} /\ \E s \in Shards : leader[s].seq > 2

\* When all the reports are in, the measures count every executed transaction once, and
\* among those across shards the ones that were relayed.
MeasuresExact ==
    Reports /\ "reports" \in Timely /\ net = {} /\ (\A t \in scenario.txs : executed[t] = 1) =>
        /\ measures.total = 2 * Cardinality(scenario.txs)
        /\ measures.cross = 2 * Cardinality(measures.relay)

\* Without a pool nothing happens: no transaction is executed or gets into a pool, no main
\* node ends a round or hands over an account, and none tells the supervisor of a block.
NothingWithoutPool ==
    ~HasPool =>
        /\ \A t \in Txs : executed[t] = 0
        /\ \A s \in Shards : leader[s].pool = {} /\ leader[s].seq = 1 /\ leader[s].transfers = 0
        /\ \A m \in net : m.type \in {"inject", "map", "ready"}

\* However messages are ordered, no transaction is in two places or executed twice; with
\* the timing that is relied on none is lost.  Without a pool none gets anywhere.
TransactionsSound == NeverTwice /\ Conserved /\ NothingWithoutPool

\* With that timing partitions are sound: no main node finds a transaction that is not for
\* its shard, the last rounds of the others are over when accounts are handed over, every
\* map is carried out and counted, and the accounts arrive whole.
HandOverSound == NoPanic /\ LastRoundsOver /\ RoundsCounted /\ AccountsAtHome

\* The supervisor counts what was executed, and stops only after a gap.
SupervisorSound == MeasuresExact /\ StopAfterGap
=============================================================================

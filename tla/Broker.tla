------------------------------- MODULE Broker -------------------------------
(***************************************************************************)
(* Transactions across shards by way of a broker: the committee of the     *)
(* supervisor replaces one by a transaction to the broker in the shard of  *)
(* the sender (broker1) and, once that is in a block, by one from the      *)
(* broker in the shard of the recipient (broker2).  With maps of accounts  *)
(* it is the broker system with CLPA: main nodes hand over accounts as in  *)
(* Reshard, and what was inside a shard and is no longer goes back to the  *)
(* committee.  Without maps it is the plain broker system.                 *)
(*                                                                         *)
(* The supervisor has two threads: the control that sends the data set and *)
(* the maps, and the handler of reports, of which tcpLock lets one run.    *)
(* Each decides what to send, and sends it later.                          *)
(*                                                                         *)
(* The chain of a main node is one of two, as in Reshard: "memory" has no  *)
(* Txpool, and "dbMPT", which the modules are written for, has one.        *)
(***************************************************************************)
EXTENDS Integers, Sequences, FiniteSets, FiniteSetsExt, TLC

CONSTANTS Shards, Accounts, Txs, Sender, Recipient, Addr2Shard,
          BrokerAddress,      \* the one broker that is used
          BlockSize,
          Scenarios           \* see scenario

VARIABLES scenario,           \* rigid: the circumstances, see below
          leader, net, panicked, died,   \* main nodes and messages, as in Reshard
          unsent, sentMaps, modifiedMap,
          dealt,              \* for each thread, the transactions it is about to send
          rawMegs, confirm1, confirm2, brokerTxs,   \* the pools of the committee
          measuring,          \* the report the handler has still to measure
          measures

committee == <<unsent, sentMaps, modifiedMap, dealt, rawMegs, confirm1, confirm2, brokerTxs, measuring, measures>>
vars == <<scenario, leader, net, panicked, died, committee>>

Maps == scenario.maps         \* the modified maps the committee comes to
Timely == scenario.timely     \* what timing is relied on
MaxSeq == scenario.rounds     \* a bound on empty blocks
Short == scenario.short       \* the transactions whose sender has not the means
HasPool == scenario.chain = "dbMPT"

Down == panicked \cup died

ScenarioTypes ==
    /\ Sender \in [Txs -> Accounts] /\ Recipient \in [Txs -> Accounts]
    /\ Addr2Shard \in [Accounts -> Shards] /\ BrokerAddress \in Accounts
    /\ \A x \in Scenarios :
          /\ x.txs \subseteq Txs
          /\ x.timely \subseteq {"seqs", "injects", "deals", "partitions"}
          /\ x.short \subseteq Txs /\ x.chain \in {"memory", "dbMPT"}

Others(s) == Shards \ {s}

\* A transaction in a pool: inside a shard, with a broker as a party, or one of the two
\* that stand for one across shards.
TxOf(kind, t) == [kind |-> kind, raw |-> t]

TxSender(x) == IF x.kind = "broker2" THEN BrokerAddress ELSE Sender[x.raw]
TxRecipient(x) == IF x.kind = "broker1" THEN BrokerAddress ELSE Recipient[x.raw]
IsBroker(a) == a = BrokerAddress
HasBroker(x) == x.kind = "withBroker"

\* The parties that have to be in the shard of the transaction.
Parties(x) ==
    CASE x.kind = "broker1" -> {Sender[x.raw]}
      [] x.kind = "broker2" -> {Recipient[x.raw]}
      [] x.kind = "withBroker" -> {IF IsBroker(Sender[x.raw]) THEN Recipient[x.raw] ELSE Sender[x.raw]}
      [] OTHER -> {Sender[x.raw], Recipient[x.raw]}

NewLeader(s) ==
    [pool |-> {}, seq |-> 1, map |-> Addr2Shard, ledger |-> [a \in Accounts |-> {}],
     trie |-> {}, seqIDMap |-> <<>>, maps |-> <<>>, round |-> 0, on |-> FALSE, ready |-> {},
     readySeq |-> <<>>, accts |-> {}, over |-> FALSE, atm |-> <<>>, pc |-> "propose",
     block |-> TRUE]

Init ==
    /\ scenario \in Scenarios
    /\ leader = [s \in Shards |-> NewLeader(s)] /\ net = {} /\ panicked = {} /\ died = {}
    /\ unsent = scenario.txs /\ sentMaps = 0 /\ modifiedMap = Addr2Shard
    /\ dealt = [control |-> {}, handler |-> {}]
    /\ rawMegs = {} /\ confirm1 = {} /\ confirm2 = {} /\ brokerTxs = [t \in Txs |-> <<>>]
    /\ measuring = {}
    /\ measures = [total |-> 0, latencies |-> 0, txNum |-> 0, broker1 |-> {}, unknown |-> {}]

-----------------------------------------------------------------------------
\* The timing that is relied on.  "injects": a transaction is in its pool before the next
\* map goes out, and not before the maps that went out earlier; the pause of the control
\* outlasts a partition.  "deals": no map goes out between a decision of the handler and
\* its sending.  "partitions": a map finds the one before it done with, and a block after
\* it.  "seqs": the sequence numbers of a shard arrive in order, the first before it is
\* ready.
OnTime == Maps = <<>> \/ {"seqs", "injects", "deals", "partitions"} \subseteq Timely

Idle(s) == LET l == leader[s] IN l.pc = "propose" /\ ~l.on /\ Len(l.maps) = sentMaps

MaySend(g) == "injects" \in Timely /\ g = "control" => \A s \in Shards : Idle(s)

MayPartition ==
    /\ "injects" \in Timely => ~\E m \in net : m.type = "inject"
    /\ "deals" \in Timely => dealt["handler"] = {}
    /\ "partitions" \in Timely => \A s \in Shards : Idle(s) /\ leader[s].block

AfterMaps(m) == "injects" \in Timely => ~\E r \in net : r.type = "map" /\ r.to = m.to

InOrder(m) ==
    "seqs" \in Timely =>
        ~\E r \in net : r.type = "seq" /\ r.from = m.from /\ r.to = m.to /\ r.seq < m.seq

FirstKnown(m) == "seqs" \in Timely => m.from \in DOMAIN leader[m.to].seqIDMap \/ InOrder(m)

-----------------------------------------------------------------------------
Across(t) ==
    /\ modifiedMap[Sender[t]] # modifiedMap[Recipient[t]]
    /\ ~IsBroker(Sender[t]) /\ ~IsBroker(Recipient[t])

\* Mutant: the second transaction is sent first.
DealSecond(t) ==
    IF Across(t) THEN TxOf("broker2", t)
    ELSE TxOf(IF IsBroker(Sender[t]) \/ IsBroker(Recipient[t]) THEN "withBroker" ELSE "inner", t)

\* What is sent for a transaction.
Deal(t) ==
    IF Across(t) THEN TxOf("broker1", t)
    ELSE TxOf(IF IsBroker(Sender[t]) \/ IsBroker(Recipient[t]) THEN "withBroker" ELSE "inner", t)

\* Mutant: the confirmation is not expected.
DealUnrecorded(g, txs) ==
    /\ dealt' = [dealt EXCEPT ![g] = {Deal(t) : t \in txs}]
    /\ rawMegs' = rawMegs \cup {t \in txs : Across(t)}
    /\ UNCHANGED confirm1

\* dealTxByBroker, with handleBrokerRawMag and handleBrokerType1Mes, which note what they
\* are going to send in the pools.
dealTxByBroker(g, txs) ==
    /\ dealt' = [dealt EXCEPT ![g] = {Deal(t) : t \in txs}]
    /\ rawMegs' = rawMegs \cup {t \in txs : Across(t)}
    /\ confirm1' = confirm1 \cup {t \in txs : Across(t)}

\* A batch of MsgSendingControl, of one transaction.
MsgSendingControl(t) ==
    /\ t \in unsent /\ dealt["control"] = {}
    /\ MaySend("control")
    /\ unsent' = unsent \ {t}
    /\ dealTxByBroker("control", {t})
    /\ UNCHANGED <<leader, net, panicked, died, sentMaps, modifiedMap, confirm2, brokerTxs, measuring, measures>>

ShardOf(x) == modifiedMap[IF IsBroker(TxSender(x)) THEN TxRecipient(x) ELSE TxSender(x)]

txSending(g) ==
    /\ dealt[g] # {} /\ MaySend(g)
    /\ dealt' = [dealt EXCEPT ![g] = {}]
    /\ net' = net \cup {[type |-> "inject", to |-> ShardOf(x), tx |-> x] : x \in dealt[g]}
    /\ UNCHANGED <<leader, panicked, died, unsent, sentMaps, modifiedMap, rawMegs, confirm1, confirm2,
                   brokerTxs, measuring, measures>>

clpaMapSend ==
    /\ sentMaps < Len(Maps) /\ dealt["control"] = {} /\ MayPartition
    /\ sentMaps' = sentMaps + 1
    /\ net' = net \cup {[type |-> "map", to |-> s, id |-> sentMaps + 1] : s \in Shards}
    /\ modifiedMap' = Maps[sentMaps + 1] @@ modifiedMap
    /\ UNCHANGED <<leader, panicked, died, unsent, dealt, rawMegs, confirm1, confirm2, brokerTxs,
                   measuring, measures>>

-----------------------------------------------------------------------------
\* tcpLock is free.
HandlerFree == dealt["handler"] = {} /\ measuring = {}

\* HandleOtherMessage: what is no longer inside a shard is dealt with anew.
HandleOtherMessage(m) ==
    /\ m.type = "inner2cross" /\ HandlerFree
    /\ net' = net \ {m}
    /\ dealTxByBroker("handler", m.txs)
    /\ UNCHANGED <<leader, panicked, died, unsent, sentMaps, modifiedMap, confirm2, brokerTxs,
                   measuring, measures>>

\* RawTx2BrokerTx after handleTx1ConfirmMag and handleTx2ConfirmMag.
RawTx2BrokerTx(c1, c2) ==
    [t \in Txs |-> brokerTxs[t] \o (IF t \in c1 THEN <<"broker1">> ELSE <<>>)
                                \o (IF t \in c2 THEN <<"broker2">> ELSE <<>>)]

\* HandleBlockInfo: createConfirm with its handlers, up to the sending of broker2.
HandleBlockInfo(m) ==
    LET c1 == m.broker1 \cap confirm1 \cap rawMegs
        c2 == m.broker2 \cap confirm2
    IN /\ m.type = "info" /\ HandlerFree
       /\ net' = net \ {m}
       /\ brokerTxs' = RawTx2BrokerTx(c1, c2)
       /\ confirm2' = confirm2 \cup c1
       /\ dealt' = [dealt EXCEPT !["handler"] = {TxOf("broker2", t) : t \in c1}]
       /\ measuring' = measuring \cup {m}
       /\ UNCHANGED <<leader, panicked, died, unsent, sentMaps, modifiedMap, rawMegs, confirm1, measures>>

\* The measures of the broker system: the transactions, in halves, and the latencies, for
\* which the times of broker1 are kept.
excutedTxNum(m) ==
    measures.total + 2 * Cardinality(m.done) + Cardinality(m.broker1) + Cardinality(m.broker2)

UpdateMeasureRecord(m) ==
    LET broker1 == measures.broker1 \cup m.broker1 IN
    /\ m \in measuring /\ dealt["handler"] = {}
    /\ measuring' = measuring \ {m}
    /\ measures' =
          [total |-> excutedTxNum(m),
           latencies |-> measures.latencies + Cardinality(m.done) + Cardinality(m.broker2 \cap broker1),
           txNum |-> measures.txNum + Cardinality(m.done),
           broker1 |-> broker1, unknown |-> measures.unknown \cup (m.broker2 \ broker1)]
    /\ UNCHANGED <<leader, net, panicked, died, unsent, sentMaps, modifiedMap, dealt, rawMegs, confirm1,
                   confirm2, brokerTxs>>

-----------------------------------------------------------------------------
\* A main node dies before what it was about to do has any effect elsewhere.
Dies(s) ==
    /\ s \notin Down /\ died' = died \cup {s}
    /\ UNCHANGED <<leader, net, panicked, committee>>

Receive(m, s, l) ==
    /\ s \notin Down /\ net' = net \ {m}
    /\ leader' = [leader EXCEPT ![s] = l]
    /\ UNCHANGED <<panicked, died, committee>>

handleInjectTx(m) ==
    /\ m.type = "inject" /\ AfterMaps(m)
    /\ IF HasPool THEN Receive(m, m.to, [leader[m.to] EXCEPT !.pool = @ \cup {m.tx}])
                  ELSE Dies(m.to)

handleSeqIDinfos(m) ==
    /\ m.type = "seq" /\ InOrder(m)
    /\ Receive(m, m.to, [leader[m.to] EXCEPT !.seqIDMap = (m.from :> m.seq) @@ @])

handlePartitionMsg(m) ==
    m.type = "map" /\ Receive(m, m.to, [leader[m.to] EXCEPT !.maps = Append(@, m.id), !.on = TRUE])

handlePartitionReady(m) ==
    /\ m.type = "ready" /\ FirstKnown(m)
    /\ Receive(m, m.to, [leader[m.to] EXCEPT !.ready = @ \cup {m.from},
                                             !.readySeq = (m.from :> m.seq) @@ @])

handleAccountStateAndTxMsg(m) ==
    /\ m.type = "accounts"
    /\ LET l == leader[m.to]
           accts == {x \in l.accts : x.from # m.from} \cup {m}
       IN Receive(m, m.to, [l EXCEPT !.accts = accts,
                                     !.over = @ \/ Cardinality(accts) = Cardinality(Shards) - 1])

-----------------------------------------------------------------------------
\* The checks of HandleinCommit, each of which ends the process.
Err(s, x) == \E a \in Parties(x) : leader[s].map[a] # s

\* What GetUpdateStatusTrie debits and credits: accounts of the shard, and both parties of
\* a transaction with a broker.  A sender without the means pays nothing; its state is
\* written, and the recipient credited, all the same.
Here(s, x, a) == leader[s].map[a] = s \/ HasBroker(x)
Debited(s, block) == {x \in block : Here(s, x, TxSender(x))}
Credited(s, block) == {x \in block : Here(s, x, TxRecipient(x))}
Paid(s, block) == {x \in Debited(s, block) : x.kind = "broker2" \/ x.raw \notin Short}

Written(s, block) ==
    {TxSender(x) : x \in Debited(s, block)} \cup {TxRecipient(x) : x \in Credited(s, block)}

State(s, block) ==
    [a \in Accounts |-> leader[s].ledger[a]
        \cup {<<x, "out">> : x \in {x \in Paid(s, block) : TxSender(x) = a}}
        \cup {<<x, "in">> : x \in {x \in Credited(s, block) : TxRecipient(x) = a}}]

\* No account is new in the trie, so that the states written may all be as they were.  Then
\* Commit gives no nodes, and the database dies of them.
NoneNew(l, accounts) == l.trie # {} /\ accounts \subseteq l.trie

Raws(block, kinds) == {x.raw : x \in {x \in block : x.kind \in kinds}}

SeqIDinfos(s, to) == {[type |-> "seq", from |-> s, to |-> i, seq |-> leader[s].seq] : i \in to}

\* HandleinCommit of the main node.  Reports of empty blocks are left out: the committee
\* does nothing with them.
HandleinCommit(s, block) ==
    /\ IF \E x \in block : Err(s, x)
       THEN panicked' = panicked \cup {s} /\ UNCHANGED <<leader, net>>
       ELSE /\ leader' = [leader EXCEPT ![s].pool = @ \ block, ![s].seq = @ + 1,
                                        ![s].ledger = State(s, block), ![s].block = TRUE,
                                        ![s].trie = @ \cup Written(s, block)]
            /\ net' = net \cup SeqIDinfos(s, Others(s))
                  \cup {[type |-> "info", from |-> s, seq |-> leader[s].seq,
                         done |-> Raws(b, {"inner", "withBroker"}),
                         broker1 |-> Raws(b, {"broker1"}),
                         broker2 |-> Raws(b, {"broker2"})] : b \in {block} \ {{}}}
            /\ UNCHANGED panicked
    /\ UNCHANGED died

\* Without a pool the block is empty, and HandleinCommit dies after it has begun to send.
DiesInCommit(s) ==
    /\ died' = died \cup {s}
    /\ \E to \in SUBSET Others(s) : net' = net \cup SeqIDinfos(s, to)
    /\ UNCHANGED <<leader, panicked>>

\* A round with a block: GenerateBlock, which dies of a state it has not changed, and
\* HandleinCommit.
Block(s) ==
    LET l == leader[s]
        same(block) == Written(s, block) # {} /\ NoneNew(l, Written(s, block))
    IN /\ l.pc = "propose" /\ ~l.on /\ s \notin Down
       /\ l.pool # {} \/ l.seq <= MaxSeq
       /\ IF HasPool
          THEN \E block \in kSubset(Min({Cardinality(l.pool), BlockSize}), l.pool) :
                  \/ same(block) /\ Dies(s)
                  \/ /\ same(block) => Paid(s, block) \cup Credited(s, block) # {}
                     /\ HandleinCommit(s, block)
          ELSE DiesInCommit(s)
       /\ UNCHANGED committee

sendPartitionReady(s) ==
    LET l == leader[s] IN
    /\ l.pc = "propose" /\ l.on /\ s \notin Down
    /\ leader' = [leader EXCEPT ![s].ready = @ \cup {s}, ![s].pc = "ready"]
    /\ net' = net \cup {[type |-> "ready", from |-> s, to |-> i, seq |-> l.seq] : i \in Others(s)}
    /\ UNCHANGED <<panicked, died, committee>>

getPartitionReady(l) ==
    /\ l.ready = Shards
    /\ \A i \in DOMAIN l.seqIDMap : i \in DOMAIN l.readySeq /\ l.readySeq[i] - 1 = l.seqIDMap[i]

\* Mutant: transactions inside the shard leave with their sender.
StayInner(addrs, x) == FALSE

\* A transaction that is inside a shard now and may not be after the partition.
BeCross(addrs, x) == x.kind = "inner" /\ Parties(x) \cap addrs # {}

BeRemoved(addrs, x) == Parties(x) \cap addrs # {}

sendAccounts_and_Txs(s) ==
    LET l == leader[s]
        last == Maps[l.maps[Len(l.maps)]]
        addrs(i) == {a \in DOMAIN last : last[a] = i /\ i # s /\ l.map[a] = s}
        leaving == UNION {addrs(i) : i \in Others(s)}
        txs(i) == {x \in l.pool : x.kind # "inner" /\ Parties(x) \cap addrs(i) # {}}
        txsBeCross == {x.raw : x \in {x \in l.pool : BeCross(leaving, x)}}
    IN /\ l.pc = "ready" /\ getPartitionReady(l) /\ s \notin Down
       /\ IF HasPool
          THEN /\ leader' = [leader EXCEPT ![s].pc = "collect",
                                           ![s].pool = {x \in @ : ~BeRemoved(leaving, x)}]
               /\ net' = net
                     \cup {[type |-> "accounts", from |-> s, to |-> i, seq |-> l.seq, txs |-> txs(i),
                            states |-> [a \in addrs(i) |-> l.ledger[a]]] : i \in Others(s)}
                     \cup {[type |-> "inner2cross", from |-> s, txs |-> ts] : ts \in {txsBeCross} \ {{}}}
               /\ UNCHANGED <<panicked, died, committee>>
          ELSE Dies(s)

\* Only a main node with a pool gets here: sendAccounts_and_Txs has used it.
proposePartition(s) ==
    LET l == leader[s] IN
    /\ l.pc = "collect" /\ l.over /\ s \notin Down
    /\ leader' = [leader EXCEPT
          ![s].pool = @ \cup UNION {m.txs : m \in l.accts}, ![s].pc = "commit",
          ![s].atm = [map |-> l.maps[l.round + 1], id |-> Len(l.maps),
                      states |-> FoldSet(LAMBDA m, f : m.states @@ f, <<>>, l.accts)]]
    /\ UNCHANGED <<net, panicked, died, committee>>

\* The map after the transfer, and the accounts that AddAccounts takes: those of the shard.
NewMap(l) == Maps[l.atm.map] @@ l.map
Added(s, l) == {a \in DOMAIN l.atm.states : NewMap(l)[a] = s}
AddAccounts(s, l) == [a \in Added(s, l) |-> l.atm.states[a]] @@ l.ledger

accountTransfer_do(s) ==
    LET l == leader[s]
        same == DOMAIN l.atm.states # {} /\ NoneNew(l, Added(s, l))
    IN /\ l.pc = "commit" /\ s \notin Down
       /\ \/ same /\ Dies(s)
          \/ /\ same => Added(s, l) # {}
             /\ leader' = [leader EXCEPT ![s] =
                   [l EXCEPT !.map = NewMap(l), !.ledger = AddAccounts(s, l), !.trie = @ \cup Added(s, l),
                             !.maps = IF Len(@) = l.atm.id THEN @ ELSE Append(@, l.atm.map),
                             !.round = l.atm.id, !.accts = {}, !.on = FALSE, !.over = FALSE, !.ready = {},
                             !.seq = @ + 1, !.pc = "propose", !.atm = <<>>, !.block = FALSE]]
             /\ UNCHANGED <<net, panicked, died, committee>>

-----------------------------------------------------------------------------
Handle(m) ==
    \/ handleInjectTx(m) \/ handleSeqIDinfos(m) \/ handlePartitionMsg(m) \/ handlePartitionReady(m)
    \/ handleAccountStateAndTxMsg(m) \/ HandleOtherMessage(m) \/ HandleBlockInfo(m)

Partition(s) ==
    sendPartitionReady(s) \/ sendAccounts_and_Txs(s) \/ proposePartition(s) \/ accountTransfer_do(s)

Supervise ==
    \/ \E t \in Txs : MsgSendingControl(t)
    \/ \E g \in {"control", "handler"} : txSending(g)
    \/ \E m \in measuring : UpdateMeasureRecord(m)

Next ==
    /\ UNCHANGED scenario
    /\ \/ Supervise \/ clpaMapSend
       \/ \E m \in net : Handle(m)
       \/ \E s \in Shards : Block(s) \/ Partition(s)

Spec == Init /\ [][Next]_vars

-----------------------------------------------------------------------------
\* The transactions by which the recipient has been credited.
Credits(t) == {<<s, x>> \in Shards \X {TxOf(k, t) : k \in {"inner", "withBroker", "broker2"}} :
                  <<x, "in">> \in leader[s].ledger[Recipient[t]]}

\* The places in which a transaction waits for its next step.
Places(t) ==
    LET has(S) == \E x \in S : x.raw = t
    IN Cardinality({s \in Shards : has(leader[s].pool)})
       + Cardinality({g \in DOMAIN dealt : has(dealt[g])})
       + Cardinality({m \in net : \/ m.type = "inject" /\ m.tx.raw = t
                                  \/ m.type = "accounts" /\ has(m.txs)
                                  \/ m.type = "inner2cross" /\ t \in m.txs
                                  \/ m.type = "info" /\ t \in m.broker1})
       + Cardinality({<<s, m>> \in UNION {{s} \X leader[s].accts : s \in Shards} :
                          leader[s].pc # "commit" /\ has(m.txs)})
       + (IF t \in unsent THEN 1 ELSE 0)

\* Whatever the timing, a transaction is in one place at most, and no more than one of
\* the transactions made from it waits.
OnePlace == \A t \in Txs : Places(t) <= 1

\* With the timing that is relied on nothing is lost: a transaction waits somewhere, or
\* its recipient has been credited.
Conserved == OnTime => \A t \in scenario.txs : Places(t) = 0 => Credits(t) # {}

\* The recipient gets nothing before the sender has paid, unless the sender has not the
\* means: then the recipient is credited all the same.
SenderPaysFirst ==
    \A t \in Txs \ Short : Credits(t) # {} =>
        \E s \in Shards, k \in {"inner", "withBroker", "broker1"} :
            <<TxOf(k, t), "out">> \in leader[s].ledger[Sender[t]]

\* On time, no main node meets a transaction with a party that is not of its shard.
NoPanic == OnTime => panicked = {}

\* On time too, when no partition is under way, the shard of an account has all its transfers.
AccountsAtHome ==
    (OnTime /\ \A s \in Shards : Idle(s)) =>
        \A a \in Accounts \ {BrokerAddress}, s \in Shards :
            leader[s].map[a] = modifiedMap[a]
            /\ leader[s].ledger[a] \subseteq leader[modifiedMap[a]].ledger[a]

\* The record of a transaction across shards has broker1, then broker2, each once, and
\* both only when broker2 is in a block.
RecordsInOrder ==
    \A t \in Txs :
        /\ brokerTxs[t] \in {<<>>, <<"broker1">>, <<"broker1", "broker2">>}
        /\ Len(brokerTxs[t]) = 2 => \E s \in Shards : <<TxOf("broker2", t), "in">> \in leader[s].ledger[Recipient[t]]

\* The time of broker1 is known whenever the latency of broker2 is to be measured.
TimesKnown == measures.unknown = {}

\* At the end all transactions are counted, once.
AllCounted ==
    unsent = {} /\ net = {} /\ HandlerFree /\ (\A t \in Txs : Places(t) = 0) /\ Down = {} =>
        measures.total = 2 * Cardinality(scenario.txs)

\* The latencies summed up are those of the transactions they are divided by.
\* It does not hold: the README says why.
LatenciesCounted == measures.latencies = measures.txNum

\* Without a pool no transaction gets into one, or to its recipient: no main node ends a
\* round or hands over an account, and the committee has nothing to confirm or to measure.
NothingWithoutPool ==
    ~HasPool =>
        /\ \A s \in Shards : leader[s].pool = {} /\ leader[s].seq = 1
        /\ \A t \in Txs : Credits(t) = {} /\ brokerTxs[t] = <<>>
        /\ \A m \in net : m.type \in {"inject", "map", "ready", "seq"}
        /\ measures.total = 0

\* A transaction is in one place at most, whatever the timing; with the timing that is
\* relied on none is lost, no main node meets one that is not for its shard, and accounts
\* arrive whole.  Without a pool none gets anywhere.
TransactionsSound == OnePlace /\ Conserved /\ NoPanic /\ AccountsAtHome /\ NothingWithoutPool

\* Whatever the timing, a sender with the means pays before the recipient gets anything,
\* the broker's records and the measures follow in that order, and in the end all is
\* counted.
PaymentsInOrder == SenderPaysFirst /\ RecordsInOrder /\ TimesKnown /\ AllCounted
=============================================================================

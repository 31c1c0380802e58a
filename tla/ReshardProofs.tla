--------------------------- MODULE ReshardProofs ---------------------------
(***************************************************************************)
(* A transaction that has been sent is in one spot at a time, however      *)
(* messages are ordered: a spot is an entry of a pool, of a message on its *)
(* way, or of the accounts a main node has put aside during a partition.   *)
(* What is in no spot has been executed, or is lost; that nothing is lost  *)
(* takes the timing that HandOverProofs relies on.                         *)
(*                                                                         *)
(* The second part is about what the supervisor concludes from the reports *)
(* of blocks, which reach it in any order: when it stops the shards, and   *)
(* what it has measured.                                                   *)
(***************************************************************************)
EXTENDS Reshard, FiniteSetTheorems, TLAPS

\* The entries a message brings to the pool of its receiver.
Cargo(m) ==
    IF m.type = "inject" THEN {Fresh(m.tx)}
    ELSE IF m.type = "relay" THEN {Relayed(t) : t \in m.txs}
    ELSE IF m.type = "accounts" THEN m.txs ELSE {}

\* The messages a main node has put aside and not yet added to its pool.
Aside(l) == IF l.pc = "commit" THEN {} ELSE l.accts

InPool(s, x) == [in |-> "pool", at |-> s, by |-> <<>>, x |-> x]
InMsg(m, x) == [in |-> "net", at |-> <<>>, by |-> m, x |-> x]
InAside(s, m, x) == [in |-> "aside", at |-> s, by |-> m, x |-> x]

Spots(ld, n) ==
    (UNION {{InPool(s, x) : x \in ld[s].pool} : s \in Shards})
    \cup (UNION {{InMsg(m, x) : x \in Cargo(m)} : m \in n})
    \cup (UNION {UNION {{InAside(s, m, x) : x \in m.txs} : m \in Aside(ld[s])} : s \in Shards})

OneSpot ==
    /\ \A p, q \in Spots(leader, net) : p.x.tx = q.x.tx => p = q
    /\ \A p \in Spots(leader, net) : p.x.tx \in Txs \ unsent /\ executed[p.x.tx] = 0
    /\ \A t \in Txs : executed[t] \in {0, 1} /\ (t \in unsent => executed[t] = 0)

Inv1 == Frame /\ OneSpot

Single(S) == \A p, q \in S : p.x.tx = q.x.tx => p = q

Somewhere ==
    \A t \in scenario.txs \ unsent : executed[t] = 0 => \E p \in Spots(leader, net) : p.x.tx = t

\* What makes every transaction arrive that is sent on: no accounts come twice or too late,
\* and every account has a shard.
Keeps ==
    /\ \A m \in net : m.type = "accounts" =>
          leader[m.to].pc # "commit" /\ \A n \in leader[m.to].accts : n.from # m.from
    /\ \A s \in Shards : leader[s].map \in [Accounts -> Shards]

\* What a spot is: an entry of a pool, of a message, or of accounts put aside.
LEMMA SpotIs ==
    ASSUME NEW ld, NEW n, NEW p
    PROVE  p \in Spots(ld, n) <=>
              \/ \E s \in Shards : \E x \in ld[s].pool : p = InPool(s, x)
              \/ \E m \in n : \E x \in Cargo(m) : p = InMsg(m, x)
              \/ \E s \in Shards : \E m \in Aside(ld[s]) : \E x \in m.txs : p = InAside(s, m, x)
<1>1. p \in (UNION {{InPool(s, x) : x \in ld[s].pool} : s \in Shards})
      <=> \E s \in Shards : \E x \in ld[s].pool : p = InPool(s, x)
  OBVIOUS
<1>2. p \in (UNION {{InMsg(m, x) : x \in Cargo(m)} : m \in n})
      <=> \E m \in n : \E x \in Cargo(m) : p = InMsg(m, x)
  OBVIOUS
<1>3. p \in (UNION {UNION {{InAside(s, m, x) : x \in m.txs} : m \in Aside(ld[s])} : s \in Shards})
      <=> \E s \in Shards : \E m \in Aside(ld[s]) : \E x \in m.txs : p = InAside(s, m, x)
  OBVIOUS
<1> QED
  BY Zenon, <1>1, <1>2, <1>3 DEF Spots

\* Spots are equal only when they are of the same kind, place and entry.
LEMMA Apart ==
    ASSUME NEW s, NEW i, NEW m, NEW n, NEW x, NEW y
    PROVE  /\ InPool(s, x) = InPool(i, y) <=> s = i /\ x = y
           /\ InMsg(m, x) = InMsg(n, y) <=> m = n /\ x = y
           /\ InAside(s, m, x) = InAside(i, n, y) <=> s = i /\ m = n /\ x = y
           /\ InPool(s, x) # InMsg(n, y) /\ InPool(s, x) # InAside(i, n, y) /\ InMsg(m, x) # InAside(i, n, y)
           /\ InPool(s, x).x = x /\ InMsg(m, x).x = x /\ InAside(s, m, x).x = x
BY Zenon DEF InPool, InMsg, InAside

\* Every entry of a pool, of a message or of what is put aside has its spot.
LEMMA SpotOf ==
    ASSUME NEW ld, NEW n
    PROVE  /\ \A s \in Shards : \A x \in ld[s].pool : InPool(s, x) \in Spots(ld, n) /\ InPool(s, x).x = x
           /\ \A m \in n : \A x \in Cargo(m) : InMsg(m, x) \in Spots(ld, n) /\ InMsg(m, x).x = x
           /\ \A s \in Shards : \A m \in Aside(ld[s]) : \A x \in m.txs :
                 InAside(s, m, x) \in Spots(ld, n) /\ InAside(s, m, x).x = x
<1>1. ASSUME NEW s \in Shards, NEW x \in ld[s].pool PROVE InPool(s, x) \in Spots(ld, n) /\ InPool(s, x).x = x
  BY ZenonT(30), SpotIs, Apart
<1>2. ASSUME NEW m \in n, NEW x \in Cargo(m) PROVE InMsg(m, x) \in Spots(ld, n) /\ InMsg(m, x).x = x
  BY ZenonT(30), SpotIs, Apart
<1>3. ASSUME NEW s \in Shards, NEW m \in Aside(ld[s]), NEW x \in m.txs
      PROVE  InAside(s, m, x) \in Spots(ld, n) /\ InAside(s, m, x).x = x
  BY SpotIs, Apart
<1> QED
  BY Zenon, <1>1, <1>2, <1>3

\* A step that moves no entry leaves the spots as they were.
LEMMA SameSpots ==
    ASSUME NEW ld, NEW ld2, NEW n, NEW n2,
           \A s \in Shards : ld2[s].pool = ld[s].pool /\ Aside(ld2[s]) = Aside(ld[s]),
           \A m \in n \ n2 : Cargo(m) = {}, \A m \in n2 \ n : Cargo(m) = {}
    PROVE  Spots(ld2, n2) = Spots(ld, n)
<1>1. ASSUME NEW p PROVE p \in Spots(ld2, n2) <=> p \in Spots(ld, n)
  <2>1. (\E s \in Shards : \E x \in ld2[s].pool : p = InPool(s, x))
        <=> (\E s \in Shards : \E x \in ld[s].pool : p = InPool(s, x))
    BY Zenon
  <2>2. (\E m \in n2 : \E x \in Cargo(m) : p = InMsg(m, x)) <=> (\E m \in n : \E x \in Cargo(m) : p = InMsg(m, x))
    BY Zenon
  <2>3. (\E s \in Shards : \E m \in Aside(ld2[s]) : \E x \in m.txs : p = InAside(s, m, x))
        <=> (\E s \in Shards : \E m \in Aside(ld[s]) : \E x \in m.txs : p = InAside(s, m, x))
    BY Zenon
  <2> QED
    BY <2>1, <2>2, <2>3, SpotIs
<1> QED
  BY Zenon, <1>1

\* A step that takes the spots M away and adds the spots N.
LEMMA SpotsLeft ==
    ASSUME NEW ld, NEW ld2, NEW n, NEW n2, NEW M, NEW N,
           \A s \in Shards : \A x \in ld2[s].pool :
              (x \in ld[s].pool /\ InPool(s, x) \notin M) \/ InPool(s, x) \in N,
           \A m \in n2 : \A x \in Cargo(m) : (m \in n /\ InMsg(m, x) \notin M) \/ InMsg(m, x) \in N,
           \A s \in Shards : \A m \in Aside(ld2[s]) : \A x \in m.txs :
              (m \in Aside(ld[s]) /\ InAside(s, m, x) \notin M) \/ InAside(s, m, x) \in N
    PROVE  Spots(ld2, n2) \subseteq (Spots(ld, n) \ M) \cup N
<1> SUFFICES ASSUME NEW p \in Spots(ld2, n2)
             PROVE  p \in N \/ (p \in Spots(ld, n) /\ p \notin M)
  BY Zenon
<1>1. CASE \E s \in Shards : \E x \in ld2[s].pool : p = InPool(s, x)
  BY ZenonT(30), <1>1, SpotIs
<1>2. CASE \E m \in n2 : \E x \in Cargo(m) : p = InMsg(m, x)
  BY ZenonT(30), <1>2, SpotIs
<1>3. CASE \E s \in Shards : \E m \in Aside(ld2[s]) : \E x \in m.txs : p = InAside(s, m, x)
  BY <1>3, SpotIs
<1> QED
  BY <1>1, <1>2, <1>3, SpotIs

\* Such a step keeps every transaction in its one spot.
LEMMA SameHolds ==
    ASSUME OneSpot, Spots(leader, net)' = Spots(leader, net), UNCHANGED <<scenario, unsent, executed>>
    PROVE  OneSpot' /\ (Somewhere => Somewhere')
BY Zenon DEF OneSpot, Somewhere

\* A step that takes the spots M away and gives N for them, at most one for each transaction.
LEMMA MovesHold ==
    ASSUME OneSpot, NEW M, NEW N, Single(N), Spots(leader, net)' \subseteq (Spots(leader, net) \ M) \cup N,
           \A q \in N : \E p \in M \cap Spots(leader, net) : p.x.tx = q.x.tx,
           UNCHANGED <<scenario, unsent, executed>>
    PROVE  /\ OneSpot'
           /\ (\A p \in Spots(leader, net) : \E q \in Spots(leader, net)' : q.x.tx = p.x.tx) /\ Somewhere
              => Somewhere'
<1>1. Single(Spots(leader, net))
  BY Zenon DEF OneSpot, Single
<1>2. Single(Spots(leader, net)') /\ \A q \in Spots(leader, net)' : \E p \in Spots(leader, net) : p.x.tx = q.x.tx
  <2> DEFINE S == Spots(leader, net)
             T == Spots(leader, net)'
  <2>1. Single(S) /\ T \subseteq (S \ M) \cup N /\ \A q \in N : \E p \in M \cap S : p.x.tx = q.x.tx
    BY Zenon, <1>1
  <2> HIDE DEF S, T
  <2>2. Single(T) /\ \A q \in T : \E p \in S : p.x.tx = q.x.tx
    BY <2>1 DEF Single
  <2> QED
    BY Zenon, <2>2 DEF S, T
<1>3. OneSpot'
  BY <1>2 DEF OneSpot, Single
<1> QED
  BY <1>3 DEF Somewhere

\* What the assumption on the scenarios says of the one that runs.
LEMMA ScenarioTypes ==
    ASSUME scenario \in Scenarios
    PROVE  /\ scenario.txs \subseteq Txs /\ RecipientOf \in [Txs -> Accounts]
           /\ Maps \in Seq(UNION {[as -> Shards] : as \in SUBSET Accounts})
           /\ \A k \in 1 .. Len(Maps) : /\ DOMAIN Maps[k] \subseteq Accounts
                                        /\ \A a \in DOMAIN Maps[k] : Maps[k][a] \in Shards
<1>1. /\ scenario.txs \subseteq Txs /\ RecipientOf \in [Txs -> Accounts]
      /\ Maps \in Seq(UNION {[as -> Shards] : as \in SUBSET Accounts})
  BY Zenon, ScenarioAssumption DEF RecipientOf, Maps
<1>2. ASSUME NEW k \in 1 .. Len(Maps)
      PROVE  /\ DOMAIN Maps[k] \subseteq Accounts
             /\ \A a \in DOMAIN Maps[k] : Maps[k][a] \in Shards
  <2>1. Maps[k] \in UNION {[as -> Shards] : as \in SUBSET Accounts}
    BY <1>1
  <2>2. PICK as \in SUBSET Accounts : Maps[k] \in [as -> Shards]
    BY Zenon, <2>1
  <2> QED
    BY Zenon, <2>2
<1> QED
  BY Zenon, <1>1, <1>2

\* What a message handler of a main node leaves alone, and what it may change.
LEMMA ReceiveFrame ==
    ASSUME Frame, NEW m, NEW s \in Shards, NEW l, DOMAIN l = Fields, Receive(m, s, l), UNCHANGED scenario
    PROVE  /\ Frame' /\ leader'[s] = l /\ \A i \in Shards \ {s} : leader'[i] = leader[i]
           /\ net' = net \ {m} /\ UNCHANGED <<unsent, sentMaps, modifiedMap, executed, panicked>>
BY Zenon DEF Frame, Receive, committee, Maps

\* A step in which no main node dies.
LEMMA Living == UNCHANGED died => \A s : ~Dies(s)
BY Zenon DEF Dies, Down

\* A block that the main node survives is one that HandleinCommit handles.
LEMMA LivingBlock ==
    ASSUME NEW s, Block(s), UNCHANGED died
    PROVE  /\ UNCHANGED <<unsent, sentMaps, modifiedMap, stopGap, stopped, measures>>
           /\ \E block : block \subseteq leader[s].pool /\ HandleinCommit(s, block)
BY Zenon, Living DEF Block, kSubset, committee, supervisor

\* Where one dies, all else stays as it was.
LEMMA Dying ==
    ASSUME Next, died' # died
    PROVE  UNCHANGED <<scenario, leader, net, committee, supervisor, executed, panicked>>
<1>1. ASSUME NEW s, Dies(s) PROVE UNCHANGED <<leader, net, committee, supervisor, executed, panicked>>
  BY Zenon, <1>1 DEF Dies
<1>2. ASSUME NEW m, Handle(m) PROVE \E s : Dies(s)
  BY Zenon, <1>2 DEF Handle, handleInjectTx, handleRelay, handlePartitionMsg, handlePartitionReady,
     handleAccountStateAndTxMsg, handleBlockInfos, Receive
<1>3. ASSUME NEW s, Block(s) PROVE \E i : Dies(i)
  BY Zenon, <1>3 DEF Block, HandleinCommit
<1>4. ASSUME NEW s, Partition(s) PROVE \E i : Dies(i)
  BY Zenon, <1>4 DEF Partition, sendPartitionReady, sendAccounts_and_Txs, proposePartition, accountTransfer_do
<1>5. \E s : Dies(s)
  BY Zenon, <1>2, <1>3, <1>4 DEF Next, TxSending, clpaMapSend, SupervisorStop
<1> QED
  BY Zenon, <1>1, <1>5 DEF Next

\* Initially no transaction is anywhere but in the input file.
LEMMA InitOne == Init => Inv1 /\ Somewhere
<1> SUFFICES ASSUME Init PROVE Inv1 /\ Somewhere
  BY Zenon
<1>1. Frame
  <2>1. \A s \in Shards : DOMAIN leader[s] = Fields
    BY Zenon DEF Init, NewLeader, Fields
  <2>2. 0 \in 0 .. Len(Maps)
    BY ScenarioTypes DEF Init
  <2> QED
    BY Zenon, <2>1, <2>2, ScenarioAssumption DEF Init, Frame
<1>2. \A p : p \notin Spots(leader, net)
  <2>1. \A s \in Shards : leader[s].pool = {} /\ Aside(leader[s]) = {}
    BY Zenon DEF Init, NewLeader, Aside
  <2> QED
    BY Zenon, <2>1, SpotIs DEF Init
<1> QED
  BY Zenon, <1>1, <1>2, ScenarioAssumption DEF Inv1, OneSpot, Somewhere, Init

\* A transaction that TxSending injects gets its first spot.
LEMMA TxSendingOne ==
    ASSUME Inv1, NEW t \in Txs, TxSending(t), UNCHANGED scenario
    PROVE  Inv1' /\ (Somewhere => Somewhere')
<1> DEFINE m == [type |-> "inject", to |-> modifiedMap[Sender[t]], tx |-> t]
           q == InMsg(m, Fresh(t))
<1>1. Frame'
  BY ScenarioAssumption DEF Inv1, Frame, TxSending, Maps
<1>2. Cargo(m) = {Fresh(t)} /\ Fresh(t).tx = t /\ net' = net \cup {m} /\ leader' = leader
  BY Zenon DEF Cargo, Fresh, TxSending
<1>3. q.x.tx = t
  BY <1>2, Apart
<1> HIDE DEF m
<1>4. \A p : p \in Spots(leader, net)' <=> p \in Spots(leader, net) \/ p = q
  BY <1>2, SpotIs
<1> HIDE DEF q
<1>5. t \in unsent /\ unsent' = unsent \ {t} /\ executed' = executed
  BY Zenon DEF TxSending
<1>6. OneSpot'
  BY Zenon, <1>3, <1>4, <1>5 DEF Inv1, OneSpot
<1>7. Somewhere => Somewhere'
  BY Zenon, <1>3, <1>4, <1>5 DEF Somewhere
<1> QED
  BY Zenon, <1>1, <1>6, <1>7 DEF Inv1

\* clpaMapSend sends maps, which carry no transaction.
LEMMA MapSendOne ==
    ASSUME Inv1, clpaMapSend, UNCHANGED scenario
    PROVE  Inv1' /\ (Somewhere => Somewhere')
<1>1. modifiedMap' \in [Accounts -> Shards]
  <2>1. sentMaps + 1 \in 1 .. Len(Maps)
    BY ScenarioTypes DEF Inv1, Frame, clpaMapSend
  <2> QED
    BY Zenon, <2>1, ScenarioTypes DEF Inv1, Frame, clpaMapSend, Over
<1>2. Frame'
  BY <1>1, ScenarioTypes DEF Inv1, Frame, clpaMapSend, Maps
<1>3. Spots(leader, net)' = Spots(leader, net)
  <2>1. \A m \in net' \ net : Cargo(m) = {}
    BY DEF clpaMapSend, Cargo
  <2> QED
    BY <2>1, SameSpots DEF clpaMapSend
<1>4. UNCHANGED <<unsent, executed>>
  BY Zenon DEF clpaMapSend
<1> QED
  BY Zenon, <1>2, <1>3, <1>4, SameHolds DEF Inv1

\* The steps that handle a message without transactions, or only count.
LEMMA QuietOne ==
    ASSUME Inv1, UNCHANGED scenario,
           SupervisorStop \/ \E m \in net : handlePartitionMsg(m) \/ handlePartitionReady(m) \/ handleBlockInfos(m)
    PROVE  Inv1' /\ (Somewhere => Somewhere')
<1>1. CASE SupervisorStop
  <2>1. UNCHANGED <<leader, net, sentMaps, modifiedMap, unsent, executed>>
    BY Zenon, <1>1 DEF SupervisorStop, committee
  <2> QED
    BY Zenon, <2>1, SameHolds DEF Inv1, Frame, Maps
<1>2. ASSUME NEW m \in net, handleBlockInfos(m)
      PROVE  Inv1' /\ (Somewhere => Somewhere')
  <2>1. UNCHANGED <<leader, sentMaps, modifiedMap, unsent, executed>> /\ net' = net \ {m} /\ m.type = "info"
    BY Zenon, <1>2 DEF handleBlockInfos, committee
  <2>2. Spots(leader, net)' = Spots(leader, net)
    BY <2>1, SameSpots DEF Cargo
  <2>3. Frame'
    BY Zenon, <2>1 DEF Inv1, Frame, Maps
  <2> QED
    BY Zenon, <2>1, <2>2, <2>3, SameHolds DEF Inv1
<1>3. ASSUME NEW m \in net, NEW l, Receive(m, m.to, l), m.type \in {"map", "ready"}, DOMAIN l = Fields,
             l.pool = leader[m.to].pool, l.pc = leader[m.to].pc, l.accts = leader[m.to].accts
      PROVE  Inv1' /\ (Somewhere => Somewhere')
  <2>0. m.to \in Shards
    BY Zenon, <1>3 DEF Inv1, Frame
  <2>1. Frame' /\ leader'[m.to] = l /\ (\A i \in Shards \ {m.to} : leader'[i] = leader[i])
        /\ net' = net \ {m} /\ UNCHANGED <<unsent, executed>>
    BY Zenon, <1>3, <2>0, ReceiveFrame DEF Inv1
  <2>2. Spots(leader, net)' = Spots(leader, net)
    <3>1. \A i \in Shards : leader'[i].pool = leader[i].pool /\ Aside(leader'[i]) = Aside(leader[i])
      BY Zenon, <1>3, <2>0, <2>1 DEF Aside
    <3>2. \A n \in net \ net' : Cargo(n) = {}
      BY Zenon, <1>3, <2>1 DEF Cargo
    <3> QED
      BY <2>1, <3>1, <3>2, SameSpots
  <2> QED
    BY Zenon, <2>1, <2>2, SameHolds DEF Inv1
<1>4. ASSUME NEW m \in net, handlePartitionMsg(m)
      PROVE  Inv1' /\ (Somewhere => Somewhere')
  <2> DEFINE l == [leader[m.to] EXCEPT !.maps = Append(@, m.id), !.on = TRUE]
  <2>1. m.to \in Shards /\ Receive(m, m.to, l) /\ m.type = "map"
    BY Zenon, <1>4 DEF handlePartitionMsg, Inv1, Frame
  <2>2. DOMAIN l = Fields /\ l.pool = leader[m.to].pool /\ l.pc = leader[m.to].pc /\ l.accts = leader[m.to].accts
    BY Zenon, <2>1 DEF Inv1, Frame, Fields
  <2> HIDE DEF l
  <2> QED
    BY Zenon, <1>3, <2>1, <2>2
<1>5. ASSUME NEW m \in net, handlePartitionReady(m)
      PROVE  Inv1' /\ (Somewhere => Somewhere')
  <2> DEFINE l == [leader[m.to] EXCEPT !.ready = @ \cup {m.from}, !.readySeq = Put(@, m.from, m.seq)]
  <2>1. m.to \in Shards /\ Receive(m, m.to, l) /\ m.type = "ready"
    BY Zenon, <1>5 DEF handlePartitionReady, Inv1, Frame
  <2>2. DOMAIN l = Fields /\ l.pool = leader[m.to].pool /\ l.pc = leader[m.to].pc /\ l.accts = leader[m.to].accts
    BY Zenon, <2>1 DEF Inv1, Frame, Fields
  <2> HIDE DEF l
  <2> QED
    BY Zenon, <1>3, <2>1, <2>2
<1> QED
  BY Zenon, <1>1, <1>2, <1>4, <1>5

\* A message whose cargo goes to the pool of its receiver.
LEMMA PoolOne ==
    ASSUME Inv1, UNCHANGED <<scenario, died>>, NEW m \in net, handleInjectTx(m) \/ handleRelay(m)
    PROVE  Inv1' /\ (Somewhere => Somewhere')
<1>0. m.to \in Shards
  BY Zenon DEF Inv1, Frame, handleInjectTx, handleRelay
<1>1. PICK l : Receive(m, m.to, l) /\ DOMAIN l = Fields /\ l.pool = leader[m.to].pool \cup Cargo(m)
                 /\ l.pc = leader[m.to].pc /\ l.accts = leader[m.to].accts
  <2>1. CASE handleInjectTx(m)
    <3> DEFINE l == [leader[m.to] EXCEPT !.pool = @ \cup {Fresh(m.tx)}]
    <3>1. Receive(m, m.to, l) /\ Cargo(m) = {Fresh(m.tx)}
      BY Zenon, <2>1, Living DEF handleInjectTx, Cargo
    <3>2. DOMAIN l = Fields /\ l.pool = leader[m.to].pool \cup Cargo(m)
          /\ l.pc = leader[m.to].pc /\ l.accts = leader[m.to].accts
      BY Zenon, <1>0, <3>1 DEF Inv1, Frame, Fields
    <3> HIDE DEF l
    <3> QED
      BY Zenon, <3>1, <3>2
  <2>2. CASE handleRelay(m)
    <3> DEFINE l == [leader[m.to] EXCEPT !.pool = @ \cup {Relayed(t) : t \in m.txs},
                                         !.seqIDMap = Put(@, m.from, m.seq)]
    <3>1. Receive(m, m.to, l) /\ Cargo(m) = {Relayed(t) : t \in m.txs}
      BY Zenon, <2>2, Living DEF handleRelay, Cargo
    <3>2. DOMAIN l = Fields /\ l.pool = leader[m.to].pool \cup Cargo(m)
          /\ l.pc = leader[m.to].pc /\ l.accts = leader[m.to].accts
      BY Zenon, <1>0, <3>1 DEF Inv1, Frame, Fields
    <3> HIDE DEF l
    <3> QED
      BY Zenon, <3>1, <3>2
  <2> QED
    BY Zenon, <2>1, <2>2
<1>2. Frame' /\ leader'[m.to] = l /\ (\A i \in Shards \ {m.to} : leader'[i] = leader[i])
      /\ net' = net \ {m} /\ UNCHANGED <<unsent, executed>>
  BY Zenon, <1>0, <1>1, ReceiveFrame DEF Inv1
<1> DEFINE M == {InMsg(m, x) : x \in Cargo(m)}
           N == {InPool(m.to, x) : x \in Cargo(m)}
<1>3. \A i \in Shards : Aside(leader'[i]) = Aside(leader[i])
  BY Zenon, <1>1, <1>2 DEF Aside
<1>4. /\ \A i, x : InPool(i, x) \notin M /\ (InPool(i, x) \in N <=> i = m.to /\ x \in Cargo(m))
      /\ \A n, x : InMsg(n, x) \notin N /\ (InMsg(n, x) \in M <=> n = m /\ x \in Cargo(m))
      /\ \A i, n, x : InAside(i, n, x) \notin M /\ InAside(i, n, x) \notin N
  BY Zenon DEF InPool, InMsg, InAside
<1>a. \A x : InMsg(m, x).x = x /\ InPool(m.to, x).x = x
  BY Zenon DEF InMsg, InPool
<1>b. /\ \A q : q \in N <=> \E x \in Cargo(m) : q = InPool(m.to, x)
      /\ \A p : p \in M <=> \E x \in Cargo(m) : p = InMsg(m, x)
  BY Zenon
<1>5. \A q \in N : \E p \in M : p.x.tx = q.x.tx
  <2> SUFFICES ASSUME NEW q \in N PROVE \E p \in M : p.x.tx = q.x.tx
    BY Zenon
  <2> HIDE DEF M, N
  <2>1. PICK x \in Cargo(m) : q = InPool(m.to, x)
    BY Zenon, <1>b
  <2>2. InMsg(m, x) \in M /\ InMsg(m, x).x.tx = q.x.tx
    BY Zenon, <1>a, <1>b, <2>1
  <2> QED
    BY Zenon, <2>2
<1>6. \A p \in M : \E q \in N : q.x.tx = p.x.tx
  <2> SUFFICES ASSUME NEW p \in M PROVE \E q \in N : q.x.tx = p.x.tx
    BY Zenon
  <2> HIDE DEF M, N
  <2>1. PICK x \in Cargo(m) : p = InMsg(m, x)
    BY Zenon, <1>b
  <2>2. InPool(m.to, x) \in N /\ InPool(m.to, x).x.tx = p.x.tx
    BY Zenon, <1>a, <1>b, <2>1
  <2> QED
    BY Zenon, <2>2
<1>7. M \subseteq Spots(leader, net)
  BY Zenon, SpotIs
<1>8. \A x, y \in Cargo(m) : x.tx = y.tx => x = y
  <2> SUFFICES ASSUME NEW x \in Cargo(m), NEW y \in Cargo(m), x.tx = y.tx PROVE x = y
    BY Zenon
  <2>1. InMsg(m, x) \in Spots(leader, net) /\ InMsg(m, y) \in Spots(leader, net)
    BY Zenon, <1>7
  <2> QED
    BY <2>1, Apart DEF Inv1, OneSpot
<1>9. Single(N)
  BY <1>8, Apart DEF Single
<1> HIDE DEF M, N
<1>10. Spots(leader', net') \subseteq (Spots(leader, net) \ M) \cup N
  BY <1>0, <1>1, <1>2, <1>3, <1>4, SpotsLeft
<1>11. Spots(leader, net) \subseteq (Spots(leader', net') \ {}) \cup M
  BY <1>0, <1>1, <1>2, <1>3, <1>4, SpotsLeft
<1>12. N \subseteq Spots(leader', net')
  BY <1>0, <1>1, <1>2, SpotIs DEF N
<1>13. \A p \in Spots(leader, net) : \E q \in Spots(leader, net)' : q.x.tx = p.x.tx
  BY Zenon, <1>6, <1>11, <1>12
<1>14. \A q \in N : \E p \in M \cap Spots(leader, net) : p.x.tx = q.x.tx
  BY Zenon, <1>5, <1>7
<1>15. OneSpot' /\ (Somewhere => Somewhere')
  BY Zenon, <1>2, <1>9, <1>10, <1>13, <1>14, MovesHold DEF Inv1
<1> QED
  BY Zenon, <1>2, <1>15 DEF Inv1

\* A message with accounts is put aside.  One that another of the same shard replaces, or
\* that comes too late, is lost.
LEMMA AsideOne ==
    ASSUME Inv1, UNCHANGED scenario, NEW m \in net, handleAccountStateAndTxMsg(m)
    PROVE  /\ Inv1'
           /\ Somewhere /\ leader[m.to].pc # "commit" /\ (\A n \in leader[m.to].accts : n.from # m.from)
              => Somewhere'
<1>0. m.to \in Shards /\ m.type = "accounts"
  BY Zenon DEF Inv1, Frame, handleAccountStateAndTxMsg
<1> DEFINE accts == {x \in leader[m.to].accts : x.from # m.from} \cup {m}
           l == [leader[m.to] EXCEPT !.accts = accts,
                                     !.over = @ \/ Cardinality(accts) = Cardinality(Shards) - 1]
<1>1. Receive(m, m.to, l) /\ Cargo(m) = m.txs
  BY Zenon, <1>0 DEF handleAccountStateAndTxMsg, Cargo
<1>2. DOMAIN l = Fields /\ l.pool = leader[m.to].pool /\ l.pc = leader[m.to].pc /\ l.accts = accts
  BY Zenon, <1>0 DEF Inv1, Frame, Fields
<1> HIDE DEF l
<1>3. Frame' /\ leader'[m.to] = l /\ (\A i \in Shards \ {m.to} : leader'[i] = leader[i])
      /\ net' = net \ {m} /\ UNCHANGED <<unsent, executed>>
  BY Zenon, <1>0, <1>1, <1>2, ReceiveFrame DEF Inv1
<1> DEFINE M == {InMsg(m, x) : x \in Cargo(m)}
           N == {InAside(m.to, m, x) : x \in Cargo(m)}
<1>4. /\ \A i, x : InPool(i, x) \notin M /\ InPool(i, x) \notin N
      /\ \A n, x : InMsg(n, x) \notin N /\ (InMsg(n, x) \in M <=> n = m /\ x \in Cargo(m))
      /\ \A i, n, x : InAside(i, n, x) \notin M /\ (InAside(i, n, x) \in N <=> i = m.to /\ n = m /\ x \in Cargo(m))
  BY Zenon DEF InPool, InMsg, InAside
<1>5. \A q \in N : \E p \in M : p.x.tx = q.x.tx
  BY Apart
<1>6. \A p \in M : \E q \in N : q.x.tx = p.x.tx
  BY Apart
<1>7. M \subseteq Spots(leader, net)
  BY Zenon, SpotIs
<1>8. \A x, y \in Cargo(m) : x.tx = y.tx => x = y
  <2> SUFFICES ASSUME NEW x \in Cargo(m), NEW y \in Cargo(m), x.tx = y.tx PROVE x = y
    BY Zenon
  <2>1. InMsg(m, x) \in Spots(leader, net) /\ InMsg(m, y) \in Spots(leader, net)
    BY Zenon, <1>7
  <2> QED
    BY <2>1, Apart DEF Inv1, OneSpot
<1>9. Single(N)
  BY <1>8, Apart DEF Single
<1> HIDE DEF M, N
<1>10. Spots(leader', net') \subseteq (Spots(leader, net) \ M) \cup N
  <2>1. \A i \in Shards : leader'[i].pool = leader[i].pool
    BY Zenon, <1>2, <1>3
  <2>2. \A i \in Shards : \A n \in Aside(leader'[i]) : n \in Aside(leader[i]) \/ (i = m.to /\ n = m)
    BY Zenon, <1>2, <1>3 DEF Aside
  <2>3. \A i \in Shards : \A x \in leader'[i].pool :
          (x \in leader[i].pool /\ InPool(i, x) \notin M) \/ InPool(i, x) \in N
    BY Zenon, <1>4, <2>1
  <2>4. \A n \in net' : \A x \in Cargo(n) : (n \in net /\ InMsg(n, x) \notin M) \/ InMsg(n, x) \in N
    BY Zenon, <1>3, <1>4
  <2>5. \A i \in Shards : \A n \in Aside(leader'[i]) : \A x \in n.txs :
          (n \in Aside(leader[i]) /\ InAside(i, n, x) \notin M) \/ InAside(i, n, x) \in N
    BY Zenon, <1>1, <1>4, <2>2
  <2> QED
    BY <2>3, <2>4, <2>5, SpotsLeft
<1>14. \A q \in N : \E p \in M \cap Spots(leader, net) : p.x.tx = q.x.tx
  BY Zenon, <1>5, <1>7
<1>15. ASSUME leader[m.to].pc # "commit", \A n \in leader[m.to].accts : n.from # m.from
       PROVE  \A p \in Spots(leader, net) : \E q \in Spots(leader, net)' : q.x.tx = p.x.tx
  <2>1. \A i \in Shards : leader'[i].pool = leader[i].pool
    BY Zenon, <1>2, <1>3
  <2>2. \A i \in Shards : \A n \in Aside(leader[i]) : n \in Aside(leader'[i])
    BY Zenon, <1>2, <1>3, <1>15 DEF Aside
  <2>3. m \in Aside(leader'[m.to])
    BY Zenon, <1>2, <1>3, <1>15 DEF Aside
  <2>4. Spots(leader, net) \subseteq (Spots(leader', net') \ {}) \cup M
    <3>1. \A i \in Shards : \A x \in leader[i].pool :
          (x \in leader'[i].pool /\ InPool(i, x) \notin {}) \/ InPool(i, x) \in M
      BY Zenon, <2>1
    <3>2. \A n \in net : \A x \in Cargo(n) : (n \in net' /\ InMsg(n, x) \notin {}) \/ InMsg(n, x) \in M
      BY Zenon, <1>3, <1>4
    <3>3. \A i \in Shards : \A n \in Aside(leader[i]) : \A x \in n.txs :
          (n \in Aside(leader'[i]) /\ InAside(i, n, x) \notin {}) \/ InAside(i, n, x) \in M
      BY Zenon, <2>2
    <3> QED
      BY <3>1, <3>2, <3>3, SpotsLeft
  <2>5. N \subseteq Spots(leader', net')
    BY <1>0, <1>1, <2>3, SpotIs DEF N
  <2> QED
    BY Zenon, <1>6, <2>4, <2>5
<1>16. OneSpot' /\ ((\A p \in Spots(leader, net) : \E q \in Spots(leader, net)' : q.x.tx = p.x.tx) /\ Somewhere
                      => Somewhere')
  BY Zenon, <1>3, <1>9, <1>10, <1>14, MovesHold DEF Inv1
<1> QED
  BY Zenon, <1>3, <1>15, <1>16 DEF Inv1

\* A step of one main node that sends messages: what it leaves alone.
LEMMA SendFrame ==
    ASSUME Inv1, NEW s \in Shards, NEW l, DOMAIN l = Fields, leader' = [leader EXCEPT ![s] = l],
           \A m \in net' : m \in net \/ m.type = "info" \/ m.to \in Shards, executed' \in [Txs -> Nat],
           UNCHANGED <<scenario, unsent, sentMaps, modifiedMap>>
    PROVE  Frame' /\ leader'[s] = l /\ \A i \in Shards \ {s} : leader'[i] = leader[i]
BY Zenon DEF Inv1, Frame, Maps

\* The steps of a partition that move no transaction.
LEMMA PartitionQuietOne ==
    ASSUME Inv1, UNCHANGED <<scenario, died>>, NEW s \in Shards, sendPartitionReady(s) \/ accountTransfer_do(s)
    PROVE  Inv1' /\ (Somewhere => Somewhere')
<1>1. ASSUME NEW l, DOMAIN l = Fields, leader' = [leader EXCEPT ![s] = l], l.pool = leader[s].pool,
             Aside(l) = Aside(leader[s]), \A m \in net : m \in net', \A m \in net' \ net : m.to \in Shards /\ Cargo(m) = {},
             UNCHANGED <<unsent, sentMaps, modifiedMap, executed>>
      PROVE  Inv1' /\ (Somewhere => Somewhere')
  <2>1. executed \in [Txs -> Nat] /\ \A m \in net' : m \in net \/ m.type = "info" \/ m.to \in Shards
    BY Zenon, <1>1 DEF Inv1, Frame
  <2>2. Frame' /\ leader'[s] = l /\ \A i \in Shards \ {s} : leader'[i] = leader[i]
    BY Zenon, <1>1, <2>1, SendFrame
  <2>3. Spots(leader, net)' = Spots(leader, net)
    <3>1. \A i \in Shards : leader'[i].pool = leader[i].pool /\ Aside(leader'[i]) = Aside(leader[i])
      BY Zenon, <1>1, <2>2
    <3>2. (\A m \in net \ net' : Cargo(m) = {}) /\ \A m \in net' \ net : Cargo(m) = {}
      BY Zenon, <1>1
    <3> QED
      BY <3>1, <3>2, SameSpots
  <2> QED
    BY Zenon, <1>1, <2>2, <2>3, SameHolds DEF Inv1
<1>2. CASE sendPartitionReady(s)
  <2> DEFINE l == [leader[s] EXCEPT !.ready = @ \cup {s}, !.pc = "ready"]
  <2>1. DOMAIN l = Fields /\ leader' = [leader EXCEPT ![s] = l] /\ l.pool = leader[s].pool
        /\ l.accts = leader[s].accts /\ l.pc = "ready" /\ leader[s].pc = "propose"
    BY Zenon, <1>2 DEF sendPartitionReady, Inv1, Frame, Fields
  <2>2. Aside(l) = Aside(leader[s])
    BY Zenon, <2>1 DEF Aside
  <2>3. (\A m \in net : m \in net') /\ \A m \in net' \ net : m.to \in Shards /\ Cargo(m) = {}
    BY <1>2 DEF sendPartitionReady, Cargo, Others
  <2>4. UNCHANGED <<unsent, sentMaps, modifiedMap, executed>>
    BY Zenon, <1>2 DEF sendPartitionReady, committee
  <2> HIDE DEF l
  <2> QED
    BY Zenon, <1>1, <2>1, <2>2, <2>3, <2>4
<1>3. CASE accountTransfer_do(s)
  <2>1. PICK l : leader' = [leader EXCEPT ![s] = l] /\ DOMAIN l = Fields /\ l.pool = leader[s].pool
                   /\ l.accts = {} /\ leader[s].pc = "commit"
    <3> DEFINE l == [leader[s] EXCEPT !.map = NewMap(leader[s]),
                    !.ledger = Over([a \in Added(s, leader[s]) |-> leader[s].atm.states[a]], @),
                    !.trie = @ \cup Added(s, leader[s]),
                    !.maps = IF Len(@) = leader[s].atm.id THEN @ ELSE Append(@, leader[s].atm.map),
                    !.round = leader[s].atm.id, !.accts = {}, !.on = FALSE, !.over = FALSE,
                    !.ready = {}, !.seq = @ + 1, !.pc = "propose", !.atm = <<>>,
                    !.transfers = @ + 1, !.block = FALSE]
    <3>1. leader' = [leader EXCEPT ![s] = l] /\ leader[s].pc = "commit"
      BY Zenon, <1>3, Living DEF accountTransfer_do
    <3>2. DOMAIN l = Fields /\ l.pool = leader[s].pool /\ l.accts = {}
      BY Zenon DEF Inv1, Frame, Fields
    <3> HIDE DEF l
    <3> QED
      BY Zenon, <3>1, <3>2
  <2>2. Aside(l) = Aside(leader[s])
    BY Zenon, <2>1 DEF Aside
  <2>3. UNCHANGED <<net, unsent, sentMaps, modifiedMap, executed>>
    BY Zenon, <1>3, Living DEF accountTransfer_do, committee
  <2> QED
    BY Zenon, <1>1, <2>1, <2>2, <2>3
<1> QED
  BY Zenon, <1>2, <1>3

\* The transactions put aside go to the pool.
LEMMA ProposeOne ==
    ASSUME Inv1, UNCHANGED scenario, NEW s \in Shards, proposePartition(s)
    PROVE  Inv1' /\ (Somewhere => Somewhere')
<1> DEFINE txs == UNION {m.txs : m \in leader[s].accts}
<1>0. leader[s].pc = "collect" /\ UNCHANGED <<net, unsent, sentMaps, modifiedMap, executed>>
  BY Zenon DEF proposePartition, committee
<1>1. executed \in [Txs -> Nat] /\ \A m \in net' : m \in net \/ m.type = "info" \/ m.to \in Shards
  BY Zenon, <1>0 DEF Inv1, Frame
<1>2. CASE leader' = [leader EXCEPT ![s].pc = "panicked"]
  <2> DEFINE l == [leader[s] EXCEPT !.pc = "panicked"]
  <2>1. leader' = [leader EXCEPT ![s] = l] /\ DOMAIN l = Fields /\ l.pool = leader[s].pool
        /\ l.accts = leader[s].accts /\ l.pc = "panicked"
    BY Zenon, <1>2 DEF Inv1, Frame, Fields
  <2>2. Aside(l) = Aside(leader[s])
    BY Zenon, <1>0, <2>1 DEF Aside
  <2> HIDE DEF l
  <2>3. Frame' /\ leader'[s] = l /\ \A i \in Shards \ {s} : leader'[i] = leader[i]
    BY Zenon, <1>0, <1>1, <2>1, SendFrame
  <2>4. \A i \in Shards : leader'[i].pool = leader[i].pool /\ Aside(leader'[i]) = Aside(leader[i])
    BY Zenon, <2>1, <2>2, <2>3
  <2>5. Spots(leader, net)' = Spots(leader, net)
    BY <1>0, <2>4, SameSpots
  <2> QED
    BY Zenon, <1>0, <2>3, <2>5, SameHolds DEF Inv1
<1>3. CASE leader' # [leader EXCEPT ![s].pc = "panicked"]
  <2>1. PICK l : leader' = [leader EXCEPT ![s] = l] /\ DOMAIN l = Fields /\ l.pool = leader[s].pool \cup txs
                   /\ l.pc = "commit"
    <3> DEFINE l == [leader[s] EXCEPT !.pool = @ \cup txs, !.pc = "commit",
                     !.atm = [map |-> leader[s].maps[leader[s].round + 1], id |-> ATid(leader[s]),
                              states |-> ReceivedNewAccountState(leader[s].accts)]]
    <3>1. leader' = [leader EXCEPT ![s] = l]
      BY Zenon, <1>3 DEF proposePartition
    <3>2. DOMAIN l = Fields /\ l.pool = leader[s].pool \cup txs /\ l.pc = "commit"
      BY Zenon DEF Inv1, Frame, Fields
    <3> HIDE DEF l
    <3> QED
      BY Zenon, <3>1, <3>2
  <2>2. Frame' /\ leader'[s] = l /\ \A i \in Shards \ {s} : leader'[i] = leader[i]
    BY Zenon, <1>0, <1>1, <2>1, SendFrame
  <2> DEFINE M == UNION {{InAside(s, m, x) : x \in m.txs} : m \in leader[s].accts}
             N == {InPool(s, x) : x \in txs}
  <2>3. Aside(leader[s]) = leader[s].accts /\ Aside(leader'[s]) = {}
        /\ \A i \in Shards \ {s} : Aside(leader'[i]) = Aside(leader[i])
    BY <1>0, <2>1, <2>2 DEF Aside
  <2>a. \A q : q \in N <=> \E x \in txs : q = InPool(s, x)
    BY Zenon
  <2>b. \A q : q \in M <=> \E m \in leader[s].accts : \E x \in m.txs : q = InAside(s, m, x)
    OBVIOUS
  <2> HIDE DEF M, N
  <2>c. \A i, x : InPool(i, x) \notin M /\ (InPool(i, x) \in N <=> i = s /\ x \in txs)
    BY <2>a, <2>b DEF InPool, InAside
  <2>d. \A n, x : InMsg(n, x) \notin N /\ InMsg(n, x) \notin M
    BY <2>a, <2>b DEF InPool, InMsg, InAside
  <2>e. \A i, n, x : InAside(i, n, x) \notin N
                      /\ (InAside(i, n, x) \in M <=> i = s /\ n \in leader[s].accts /\ x \in n.txs)
    BY <2>a, <2>b DEF InPool, InAside
  <2>4. /\ \A i, x : InPool(i, x) \notin M /\ (InPool(i, x) \in N <=> i = s /\ x \in txs)
        /\ \A n, x : InMsg(n, x) \notin N /\ InMsg(n, x) \notin M
        /\ \A i, n, x : InAside(i, n, x) \notin N
                        /\ (InAside(i, n, x) \in M <=> i = s /\ n \in leader[s].accts /\ x \in n.txs)
    BY Zenon, <2>c, <2>d, <2>e
  <2>5. \A x : x \in txs <=> \E m \in leader[s].accts : x \in m.txs
    BY Zenon
  <2>6. \A q \in N : \E p \in M : p.x.tx = q.x.tx
    <3> SUFFICES ASSUME NEW q \in N PROVE \E p \in M : p.x.tx = q.x.tx
      BY Zenon
    <3>0. PICK x \in txs : q = InPool(s, x)
      BY Zenon, <2>a
    <3>1. PICK m \in leader[s].accts : x \in m.txs
      BY Zenon, <2>5
    <3>2. InAside(s, m, x) \in M /\ InAside(s, m, x).x = x /\ q.x = x
      BY <2>4, <3>0, <3>1, Apart
    <3> QED
      BY Zenon, <3>2
  <2>7. \A p \in M : \E q \in N : q.x.tx = p.x.tx
    <3> SUFFICES ASSUME NEW m \in leader[s].accts, NEW x \in m.txs PROVE \E q \in N : q.x.tx = x.tx
      BY <2>b, Apart
    <3>1. InPool(s, x) \in N /\ InPool(s, x).x = x
      BY ZenonT(120), <2>4, <2>5, Apart
    <3> QED
      BY Zenon, <3>1
  <2>8. M \subseteq Spots(leader, net)
    BY <2>3, <2>b, SpotIs
  <2>9. Single(N)
    <3> SUFFICES ASSUME NEW p \in N, NEW q \in N, p.x.tx = q.x.tx PROVE p = q
      BY Zenon DEF Single
    <3>a. PICK x \in txs : p = InPool(s, x)
      BY Zenon, <2>a
    <3>b. PICK y \in txs : q = InPool(s, y)
      BY Zenon, <2>a
    <3>1. PICK m \in leader[s].accts : x \in m.txs
      BY Zenon, <2>5
    <3>2. PICK n \in leader[s].accts : y \in n.txs
      BY Zenon, <2>5
    <3>3. InAside(s, m, x) \in Spots(leader, net) /\ InAside(s, n, y) \in Spots(leader, net)
      BY Zenon, <2>4, <2>8, <3>1, <3>2
    <3>4. x.tx = y.tx
      BY <3>a, <3>b, Apart
    <3>5. x = y
      BY <3>3, <3>4, Apart DEF Inv1, OneSpot
    <3> QED
      BY Zenon, <3>5, <3>a, <3>b
  <2> HIDE DEF txs
  <2>10. Spots(leader', net') \subseteq (Spots(leader, net) \ M) \cup N
    <3>1. \A i \in Shards : \A x \in leader'[i].pool :
            (x \in leader[i].pool /\ InPool(i, x) \notin M) \/ InPool(i, x) \in N
      BY Zenon, <2>1, <2>2, <2>4
    <3>2. \A n \in net' : \A x \in Cargo(n) : (n \in net /\ InMsg(n, x) \notin M) \/ InMsg(n, x) \in N
      BY Zenon, <1>0, <2>4
    <3>3. \A i \in Shards : \A n \in Aside(leader'[i]) : \A x \in n.txs :
            (n \in Aside(leader[i]) /\ InAside(i, n, x) \notin M) \/ InAside(i, n, x) \in N
      BY Zenon, <2>3, <2>4
    <3> QED
      BY <3>1, <3>2, <3>3, SpotsLeft
  <2>11. Spots(leader, net) \subseteq (Spots(leader', net') \ {}) \cup M
    <3>1. \A i \in Shards : \A x \in leader[i].pool :
            (x \in leader'[i].pool /\ InPool(i, x) \notin {}) \/ InPool(i, x) \in M
      BY Zenon, <2>1, <2>2
    <3>2. \A n \in net : \A x \in Cargo(n) : (n \in net' /\ InMsg(n, x) \notin {}) \/ InMsg(n, x) \in M
      BY Zenon, <1>0
    <3>3. \A i \in Shards : \A n \in Aside(leader[i]) : \A x \in n.txs :
            (n \in Aside(leader'[i]) /\ InAside(i, n, x) \notin {}) \/ InAside(i, n, x) \in M
      BY Zenon, <2>3, <2>4
    <3> QED
      BY <3>1, <3>2, <3>3, SpotsLeft
  <2>12. N \subseteq Spots(leader', net')
    <3> SUFFICES ASSUME NEW q \in N PROVE q \in Spots(leader', net')
      BY Zenon
    <3>1. PICK x \in txs : q = InPool(s, x)
      BY Zenon, <2>a
    <3>2. x \in leader'[s].pool
      BY Zenon, <2>1, <2>2
    <3> QED
      BY Zenon, <3>1, <3>2, SpotIs
  <2>13. \A p \in Spots(leader, net) : \E q \in Spots(leader, net)' : q.x.tx = p.x.tx
    BY Zenon, <2>7, <2>11, <2>12
  <2>14. \A q \in N : \E p \in M \cap Spots(leader, net) : p.x.tx = q.x.tx
    BY Zenon, <2>6, <2>8
  <2>15. OneSpot' /\ (Somewhere => Somewhere')
    BY Zenon, <1>0, <2>9, <2>10, <2>13, <2>14, MovesHold DEF Inv1
  <2> QED
    BY Zenon, <2>2, <2>15 DEF Inv1
<1> QED
  BY Zenon, <1>2, <1>3

\* The transactions that go with their accounts leave the pool for messages.
LEMMA SendAccountsOne ==
    ASSUME Inv1, UNCHANGED <<scenario, died>>, NEW s \in Shards, sendAccounts_and_Txs(s)
    PROVE  Inv1' /\ (Somewhere => Somewhere')
<1> DEFINE ls == leader[s]
           last == Maps[ls.maps[Len(ls.maps)]]
           addrs(i) == {a \in DOMAIN last : last[a] = i /\ i # s /\ ls.map[a] = s}
           txs(i) == {x \in ls.pool : GoesWith(addrs(i), x)}
           sent == UNION {txs(i) : i \in Others(s)}
           msg(i) == [type |-> "accounts", from |-> s, to |-> i, seq |-> ls.seq, txs |-> txs(i),
                      states |-> [a \in addrs(i) |-> ls.ledger[a]]]
           l == [ls EXCEPT !.pc = "collect", !.pool = Kept(@, sent)]
<1>1. ls.pc = "ready" /\ leader' = [leader EXCEPT ![s] = l] /\ net' = net \cup {msg(i) : i \in Others(s)}
      /\ UNCHANGED <<unsent, sentMaps, modifiedMap, executed>>
  BY Zenon, Living DEF sendAccounts_and_Txs, committee
<1>2. DOMAIN l = Fields /\ l.pool = ls.pool \ sent /\ l.pc = "collect" /\ l.accts = ls.accts
  BY Zenon DEF Inv1, Frame, Fields, Kept
<1>3. \A i \in Others(s) : Cargo(msg(i)) = txs(i) /\ msg(i).to = i
  BY Zenon DEF Cargo
<1>4. \A i \in Others(s) : i \in Shards
  BY Zenon DEF Others
<1>5. \A x : x \in sent <=> \E i \in Others(s) : x \in txs(i)
  BY Zenon
<1>6. \A i, j \in Others(s) : \A x \in txs(i) : x \in txs(j) => i = j
  <2> SUFFICES ASSUME NEW i \in Others(s), NEW j \in Others(s), NEW x \in txs(i), x \in txs(j) PROVE i = j
    BY Zenon
  <2>1. PICK a : a \in addrs(i) /\ a \in addrs(j)
    BY Zenon DEF GoesWith
  <2> QED
    BY Zenon, <2>1
<1>7. \A i \in Others(s) : txs(i) \subseteq ls.pool
  BY Zenon
<1> HIDE DEF l, msg, txs, sent
<1>8. executed \in [Txs -> Nat] /\ \A m \in net' : m \in net \/ m.type = "info" \/ m.to \in Shards
  BY Zenon, <1>1, <1>3, <1>4 DEF Inv1, Frame
<1>9. Frame' /\ leader'[s] = l /\ \A i \in Shards \ {s} : leader'[i] = leader[i]
  BY Zenon, <1>1, <1>2, <1>8, SendFrame
<1> DEFINE M == {InPool(s, x) : x \in sent}
           N == UNION {{InMsg(msg(i), x) : x \in txs(i)} : i \in Others(s)}
<1>11. \A q : q \in N <=> \E i \in Others(s) : \E x \in txs(i) : q = InMsg(msg(i), x)
  OBVIOUS
<1>a. \A q : q \in M <=> \E x \in sent : q = InPool(s, x)
  BY Zenon
<1> HIDE DEF M, N
<1>b. \A i, x : InPool(i, x) \notin N /\ (InPool(i, x) \in M <=> i = s /\ x \in sent)
  BY <1>a, <1>11 DEF InPool, InMsg
<1>c. \A n, x : InMsg(n, x) \notin M
                 /\ (InMsg(n, x) \in N <=> \E i \in Others(s) : n = msg(i) /\ x \in txs(i))
  BY <1>a, <1>11 DEF InPool, InMsg
<1>d. \A i, n, x : InAside(i, n, x) \notin N /\ InAside(i, n, x) \notin M
  BY <1>a, <1>11 DEF InPool, InMsg, InAside
<1>10. /\ \A i, x : InPool(i, x) \notin N /\ (InPool(i, x) \in M <=> i = s /\ x \in sent)
       /\ \A n, x : InMsg(n, x) \notin M
                    /\ (InMsg(n, x) \in N <=> \E i \in Others(s) : n = msg(i) /\ x \in txs(i))
       /\ \A i, n, x : InAside(i, n, x) \notin N /\ InAside(i, n, x) \notin M
  BY Zenon, <1>b, <1>c, <1>d
<1>12. M \subseteq Spots(leader, net)
  BY <1>5, <1>7, <1>a, SpotIs
<1>13. \A x, y \in sent : x.tx = y.tx => x = y
  <2> SUFFICES ASSUME NEW x \in sent, NEW y \in sent, x.tx = y.tx PROVE x = y
    BY Zenon
  <2>1. InPool(s, x) \in Spots(leader, net) /\ InPool(s, y) \in Spots(leader, net)
    BY Zenon, <1>10, <1>12
  <2> QED
    BY <2>1, Apart DEF Inv1, OneSpot
<1>14. Single(N)
  <2> SUFFICES ASSUME NEW p \in N, NEW q \in N, p.x.tx = q.x.tx PROVE p = q
    BY Zenon DEF Single
  <2>1. PICK i \in Others(s) : \E x \in txs(i) : p = InMsg(msg(i), x)
    BY Zenon, <1>11
  <2>2. PICK j \in Others(s) : \E x \in txs(j) : q = InMsg(msg(j), x)
    BY Zenon, <1>11
  <2>3. PICK x \in txs(i) : p = InMsg(msg(i), x)
    BY Zenon, <2>1
  <2>4. PICK y \in txs(j) : q = InMsg(msg(j), y)
    BY Zenon, <2>2
  <2>5. x = y
    BY <1>5, <1>13, <2>3, <2>4, Apart
  <2>6. i = j
    BY Zenon, <1>6, <2>5
  <2> QED
    BY Zenon, <2>3, <2>4, <2>5, <2>6
<1>15. \A q \in N : \E p \in M \cap Spots(leader, net) : p.x.tx = q.x.tx
  <2> SUFFICES ASSUME NEW q \in N PROVE \E p \in M \cap Spots(leader, net) : p.x.tx = q.x.tx
    BY Zenon
  <2>1. PICK i \in Others(s) : \E x \in txs(i) : q = InMsg(msg(i), x)
    BY Zenon, <1>11
  <2>2. PICK x \in txs(i) : q = InMsg(msg(i), x)
    BY Zenon, <2>1
  <2>3. InPool(s, x) \in M /\ InPool(s, x).x = x /\ q.x = x
    BY ZenonT(120), <1>5, <1>10, <2>2, Apart
  <2> QED
    BY Zenon, <1>12, <2>3
<1>16. \A p \in M : \E q \in N : q.x.tx = p.x.tx
  <2> SUFFICES ASSUME NEW p \in M PROVE \E q \in N : q.x.tx = p.x.tx
    BY Zenon
  <2>0. PICK x \in sent : p = InPool(s, x)
    BY Zenon, <1>a
  <2>1. PICK i \in Others(s) : x \in txs(i)
    BY Zenon, <1>5
  <2>2. InMsg(msg(i), x) \in N /\ InMsg(msg(i), x).x = x /\ p.x = x
    BY ZenonT(120), <1>c, <2>0, <2>1, Apart
  <2> QED
    BY Zenon, <2>2
<1>17. \A i \in Shards : Aside(leader'[i]) = Aside(leader[i])
  BY <1>1, <1>2, <1>9 DEF Aside
<1>18. Spots(leader', net') \subseteq (Spots(leader, net) \ M) \cup N
  <2>1. \A i \in Shards : \A x \in leader'[i].pool :
          (x \in leader[i].pool /\ InPool(i, x) \notin M) \/ InPool(i, x) \in N
    BY Zenon, <1>2, <1>9, <1>10
  <2>2. \A n \in net' : \A x \in Cargo(n) : (n \in net /\ InMsg(n, x) \notin M) \/ InMsg(n, x) \in N
    BY <1>1, <1>3, <1>10
  <2>3. \A i \in Shards : \A n \in Aside(leader'[i]) : \A x \in n.txs :
          (n \in Aside(leader[i]) /\ InAside(i, n, x) \notin M) \/ InAside(i, n, x) \in N
    BY Zenon, <1>10, <1>17
  <2> QED
    BY <2>1, <2>2, <2>3, SpotsLeft
<1>19. Spots(leader, net) \subseteq (Spots(leader', net') \ {}) \cup M
  <2>1. \A i \in Shards : \A x \in leader[i].pool :
          (x \in leader'[i].pool /\ InPool(i, x) \notin {}) \/ InPool(i, x) \in M
    BY Zenon, <1>2, <1>9, <1>10
  <2>2. \A n \in net : \A x \in Cargo(n) : (n \in net' /\ InMsg(n, x) \notin {}) \/ InMsg(n, x) \in M
    BY Zenon, <1>1
  <2>3. \A i \in Shards : \A n \in Aside(leader[i]) : \A x \in n.txs :
          (n \in Aside(leader'[i]) /\ InAside(i, n, x) \notin {}) \/ InAside(i, n, x) \in M
    BY Zenon, <1>17
  <2> QED
    BY ZenonT(120), <2>1, <2>2, <2>3, SpotsLeft
<1>20. N \subseteq Spots(leader', net')
  BY <1>1, <1>3, <1>11, SpotIs
<1>21. \A p \in Spots(leader, net) : \E q \in Spots(leader, net)' : q.x.tx = p.x.tx
  BY Zenon, <1>16, <1>19, <1>20
<1>22. OneSpot' /\ (Somewhere => Somewhere')
  BY Zenon, <1>1, <1>14, <1>15, <1>18, <1>21, MovesHold DEF Inv1
<1> QED
  BY Zenon, <1>9, <1>22 DEF Inv1

\* A block executes some transactions of the pool and sends the others on.
LEMMA BlockOne ==
    ASSUME Inv1, UNCHANGED <<scenario, died>>, NEW s \in Shards, Block(s)
    PROVE  Inv1' /\ (Somewhere /\ leader[s].map \in [Accounts -> Shards] => Somewhere')
<1> DEFINE ls == leader[s]
<1>a. PICK block : block \subseteq ls.pool /\ HandleinCommit(s, block)
  BY Zenon, LivingBlock
<1>1. /\ block \subseteq ls.pool
      /\ LET done == {x.tx : x \in {x \in block : ~ToRelay(s, x)}}
             relay == {x.tx : x \in {x \in block : ToRelay(s, x)}}
         IN IF \E x \in block : Incorrect(s, x)
            THEN panicked' = panicked \cup {s} /\ UNCHANGED <<leader, net, executed>>
            ELSE /\ leader' = [leader EXCEPT ![s].pool = @ \ block, ![s].seq = @ + 1,
                                 ![s].ledger = State(s, block), ![s].block = TRUE,
                                 ![s].trie = @ \cup Written(s, block)]
                 /\ executed' = [t \in Txs |-> executed[t] + (IF t \in done THEN 1 ELSE 0)]
                 /\ net' = net
                       \cup {[type |-> "relay", from |-> s, to |-> i, seq |-> ls.seq,
                              txs |-> {t \in relay : ls.map[RecipientOf[t]] = i}] : i \in Others(s)}
                       \cup {[type |-> "info", from |-> s, seq |-> ls.seq, empty |-> block = {},
                              done |-> done, relay1 |-> relay] : r \in {r \in {TRUE} : Reports}}
  BY Zenon, <1>a DEF HandleinCommit
<1>2. UNCHANGED <<unsent, sentMaps, modifiedMap>>
  BY Zenon, LivingBlock
<1>3. CASE \E x \in block : Incorrect(s, x)
  <2>1. UNCHANGED <<leader, net, executed>>
    BY Zenon, <1>1, <1>3
  <2> QED
    BY Zenon, <1>2, <2>1, SameHolds DEF Inv1, Frame, Maps
<1>4. CASE ~\E x \in block : Incorrect(s, x)
  <2> DEFINE done == {x.tx : x \in {x \in block : ~ToRelay(s, x)}}
             relay == {x.tx : x \in {x \in block : ToRelay(s, x)}}
             txs(i) == {t \in relay : ls.map[RecipientOf[t]] = i}
             msg(i) == [type |-> "relay", from |-> s, to |-> i, seq |-> ls.seq, txs |-> txs(i)]
             info == [type |-> "info", from |-> s, seq |-> ls.seq, empty |-> block = {}, done |-> done, relay1 |-> relay]
             l == [ls EXCEPT !.pool = @ \ block, !.seq = @ + 1, !.ledger = State(s, block), !.block = TRUE,
                          !.trie = @ \cup Written(s, block)]
  <2>1. /\ leader' = [leader EXCEPT ![s] = l]
        /\ executed' = [t \in Txs |-> executed[t] + (IF t \in done THEN 1 ELSE 0)]
    BY Zenon, <1>1, <1>4 DEF Inv1, Frame, Fields
  <2>2. /\ \A m \in net' : m \in net \/ m = info \/ \E i \in Others(s) : m = msg(i)
        /\ \A m \in net : m \in net'
        /\ \A i \in Others(s) : msg(i) \in net'
    <3>1. net' = net \cup {msg(i) : i \in Others(s)} \cup {info : r \in {r \in {TRUE} : Reports}}
      BY <1>1, <1>4, Zenon
    <3> HIDE DEF msg, info
    <3> QED
      BY Zenon, <3>1
  <2>3. DOMAIN l = Fields /\ l.pool = ls.pool \ block /\ l.pc = ls.pc /\ l.accts = ls.accts
    BY Zenon DEF Inv1, Frame, Fields
  <2>4. /\ info.type = "info" /\ Cargo(info) = {}
        /\ \A i \in Others(s) : Cargo(msg(i)) = {Relayed(t) : t \in txs(i)} /\ msg(i).to = i /\ i \in Shards
    BY Zenon DEF Cargo, Others
  <2>5. /\ \A t : t \in done <=> \E x \in block : x.tx = t /\ ~ToRelay(s, x)
        /\ \A t : t \in relay <=> \E x \in block : x.tx = t /\ ToRelay(s, x)
        /\ \A i, t : t \in txs(i) <=> t \in relay /\ ls.map[RecipientOf[t]] = i
    BY Zenon
  <2> HIDE DEF l, msg, info, txs, done, relay
  <2>6. executed' \in [Txs -> Nat] /\ \A m \in net' : m \in net \/ m.type = "info" \/ m.to \in Shards
    BY <2>1, <2>2, <2>4 DEF Inv1, Frame
  <2>7. Frame' /\ leader'[s] = l /\ \A i \in Shards \ {s} : leader'[i] = leader[i]
    BY Zenon, <1>2, <2>1, <2>3, <2>6, SendFrame
  <2>8. \A x \in block : InPool(s, x) \in Spots(leader, net) /\ InPool(s, x).x = x
    BY ZenonT(120), <1>1, SpotIs, Apart
  <2>9. \A x \in block : x.tx \in Txs /\ executed[x.tx] = 0 /\ x.tx \notin unsent
    BY <2>8 DEF Inv1, OneSpot
  <2>10. \A x \in block : \A p \in Spots(leader, net) : p.x.tx = x.tx => p = InPool(s, x)
    BY Zenon, <2>8 DEF Inv1, OneSpot
  <2>11. \A x, y \in block : x.tx = y.tx => x = y
    BY <2>8, <2>10, Apart
  <2> DEFINE M == {InPool(s, x) : x \in block}
             N == UNION {{InMsg(msg(i), Relayed(t)) : t \in txs(i)} : i \in Others(s)}
  <2>12. \A q : q \in M <=> \E x \in block : q = InPool(s, x)
    BY Zenon
  <2>13. \A q : q \in N <=> \E i \in Others(s) : \E t \in txs(i) : q = InMsg(msg(i), Relayed(t))
    OBVIOUS
  <2> HIDE DEF M, N
  <2>14. \A i, x : InPool(i, x) \notin N /\ (InPool(i, x) \in M <=> i = s /\ x \in block)
    BY <2>12, <2>13 DEF InPool, InMsg
  <2>15. \A n, x : InMsg(n, x) \notin M
                   /\ (InMsg(n, x) \in N <=> \E i \in Others(s) : \E t \in txs(i) : n = msg(i) /\ x = Relayed(t))
    BY <2>12, <2>13 DEF InPool, InMsg
  <2>16. \A i, n, x : InAside(i, n, x) \notin N /\ InAside(i, n, x) \notin M
    BY <2>12, <2>13 DEF InPool, InMsg, InAside
  <2>17. \A i \in Shards : Aside(leader'[i]) = Aside(leader[i])
    BY Zenon, <2>3, <2>7 DEF Aside
  <2>18. Spots(leader', net') \subseteq (Spots(leader, net) \ M) \cup N
    <3>1. \A i \in Shards : \A x \in leader'[i].pool :
            (x \in leader[i].pool /\ InPool(i, x) \notin M) \/ InPool(i, x) \in N
      BY Zenon, <2>3, <2>7, <2>14
    <3>2. \A n \in net' : \A x \in Cargo(n) : (n \in net /\ InMsg(n, x) \notin M) \/ InMsg(n, x) \in N
      BY <2>2, <2>4, <2>15
    <3>3. \A i \in Shards : \A n \in Aside(leader'[i]) : \A x \in n.txs :
            (n \in Aside(leader[i]) /\ InAside(i, n, x) \notin M) \/ InAside(i, n, x) \in N
      BY Zenon, <2>16, <2>17
    <3> QED
      BY <3>1, <3>2, <3>3, SpotsLeft
  <2>19. Spots(leader, net) \subseteq (Spots(leader', net') \ {}) \cup M
    <3>1. \A i \in Shards : \A x \in leader[i].pool :
            (x \in leader'[i].pool /\ InPool(i, x) \notin {}) \/ InPool(i, x) \in M
      BY Zenon, <2>3, <2>7, <2>14
    <3>2. \A n \in net : \A x \in Cargo(n) : (n \in net' /\ InMsg(n, x) \notin {}) \/ InMsg(n, x) \in M
      BY Zenon, <2>2
    <3>3. \A i \in Shards : \A n \in Aside(leader[i]) : \A x \in n.txs :
            (n \in Aside(leader'[i]) /\ InAside(i, n, x) \notin {}) \/ InAside(i, n, x) \in M
      BY Zenon, <2>17
    <3> QED
      BY ZenonT(120), <3>1, <3>2, <3>3, SpotsLeft
  <2>20. \A q \in N : \E x \in block : ToRelay(s, x) /\ q.x.tx = x.tx /\ \E i \in Others(s) :
                         q = InMsg(msg(i), Relayed(x.tx)) /\ ls.map[RecipientOf[x.tx]] = i
    <3> SUFFICES ASSUME NEW q \in N
                 PROVE  \E x \in block : ToRelay(s, x) /\ q.x.tx = x.tx /\ \E i \in Others(s) :
                         q = InMsg(msg(i), Relayed(x.tx)) /\ ls.map[RecipientOf[x.tx]] = i
      BY Zenon
    <3>1. PICK i \in Others(s) : \E t \in txs(i) : q = InMsg(msg(i), Relayed(t))
      BY Zenon, <2>13
    <3>2. PICK t \in txs(i) : q = InMsg(msg(i), Relayed(t))
      BY Zenon, <3>1
    <3>3. PICK x \in block : x.tx = t /\ ToRelay(s, x)
      BY Zenon, <2>5, <3>2
    <3>4. q.x.tx = t
      BY <3>2, Apart DEF Relayed
    <3> QED
      BY <2>5, <3>2, <3>3, <3>4
  <2>21. \A p, q \in N : p.x.tx = q.x.tx => p = q
    BY <2>11, <2>20
  <2>22. \A q \in Spots(leader', net') : q \in N \/ (q \in Spots(leader, net) /\ \A x \in block : q.x.tx # x.tx)
    BY Zenon, <2>10, <2>12, <2>18
  <2>23. \A t \in Txs : executed'[t] = IF t \in done THEN 1 ELSE executed[t]
    BY <2>1, <2>5, <2>9 DEF Inv1, Frame
  <2>24. \A q \in N : q.x.tx \in Txs \ unsent /\ executed[q.x.tx] = 0 /\ q.x.tx \notin done
    BY <2>5, <2>9, <2>11, <2>20
  <2>25. \A p, q \in Spots(leader', net') : p.x.tx = q.x.tx => p = q
    <3> SUFFICES ASSUME NEW p \in Spots(leader', net'), NEW q \in Spots(leader', net'), p.x.tx = q.x.tx PROVE p = q
      BY Zenon
    <3>1. CASE p \in N /\ q \in N
      BY Zenon, <2>21, <3>1
    <3>2. CASE p \notin N /\ q \notin N
      BY Zenon, <2>22, <3>2 DEF Inv1, OneSpot
    <3>3. CASE p \in N /\ q \notin N
      BY Zenon, <2>20, <2>22, <3>3
    <3>4. CASE p \notin N /\ q \in N
      BY Zenon, <2>20, <2>22, <3>4
    <3> QED
      BY Zenon, <3>1, <3>2, <3>3, <3>4
  <2>26. \A p \in Spots(leader', net') : p.x.tx \in Txs \ unsent /\ executed'[p.x.tx] = 0
    <3> SUFFICES ASSUME NEW p \in Spots(leader', net') PROVE p.x.tx \in Txs \ unsent /\ executed'[p.x.tx] = 0
      BY Zenon
    <3>1. CASE p \in N
      BY Zenon, <2>23, <2>24, <3>1
    <3>2. CASE p \notin N
      <4>1. p \in Spots(leader, net) /\ \A x \in block : p.x.tx # x.tx
        BY Zenon, <2>22, <3>2
      <4>2. p.x.tx \in Txs \ unsent /\ executed[p.x.tx] = 0 /\ p.x.tx \notin done
        BY Zenon, <2>5, <4>1 DEF Inv1, OneSpot
      <4> QED
        BY Zenon, <2>23, <4>2
    <3> QED
      BY Zenon, <3>1, <3>2
  <2>27. \A t \in Txs : executed'[t] \in {0, 1} /\ (t \in unsent => executed'[t] = 0)
    BY <2>5, <2>9, <2>23 DEF Inv1, OneSpot
  <2>28. OneSpot'
    BY Zenon, <1>2, <2>25, <2>26, <2>27 DEF OneSpot
  <2>29. ASSUME Somewhere, ls.map \in [Accounts -> Shards]
         PROVE  Somewhere'
    <3> SUFFICES ASSUME NEW t \in scenario.txs \ unsent, executed'[t] = 0
                 PROVE  \E q \in Spots(leader', net') : q.x.tx = t
      BY Zenon, <1>2 DEF Somewhere
    <3>1. t \in Txs /\ t \notin done /\ executed[t] = 0
      BY <2>23, ScenarioTypes DEF Inv1, Frame
    <3>2. PICK p \in Spots(leader, net) : p.x.tx = t
      BY Zenon, <2>29, <3>1 DEF Somewhere
    <3>3. CASE p \notin M
      BY Zenon, <2>19, <3>2, <3>3
    <3>4. CASE p \in M
      <4>1. PICK x \in block : p = InPool(s, x)
        BY Zenon, <2>12, <3>4
      <4>2. x.tx = t
        BY Zenon, <2>8, <3>2, <4>1
      <4>3. ToRelay(s, x)
        BY Zenon, <2>5, <3>1, <4>2
      <4> DEFINE i == ls.map[RecipientOf[t]]
      <4>4. i \in Others(s)
        BY Zenon, <2>29, <3>1, <4>2, <4>3, ScenarioTypes DEF Inv1, Frame, ToRelay, Others
      <4>5. t \in txs(i)
        BY Zenon, <2>5, <4>2, <4>3
      <4>6. msg(i) \in net' /\ Relayed(t) \in Cargo(msg(i))
        BY Zenon, <2>2, <2>4, <4>4, <4>5
      <4>7. InMsg(msg(i), Relayed(t)) \in Spots(leader', net')
        BY Zenon, <4>6, SpotIs
      <4>8. InMsg(msg(i), Relayed(t)).x.tx = t
        BY Apart DEF Relayed
      <4> QED
        BY Zenon, <4>7, <4>8
    <3> QED
      BY Zenon, <3>3, <3>4
  <2> QED
    BY Zenon, <2>7, <2>28, <2>29 DEF Inv1
<1> QED
  BY Zenon, <1>3, <1>4

\* No step puts a transaction in a second spot or executes it again, and none loses one that
\* arrives where it is sent.
LEMMA NextOne ==
    ASSUME Inv1, [Next]_vars
    PROVE  Inv1' /\ (Somewhere /\ Keeps => Somewhere')
<1> DEFINE Goal == Inv1' /\ (Somewhere /\ Keeps => Somewhere')
<1>1. CASE UNCHANGED vars \/ (Next /\ died' # died)
  <2>1. UNCHANGED <<scenario, leader, net, unsent, sentMaps, modifiedMap, executed>>
    BY Zenon, <1>1, Dying DEF vars, committee
  <2>2. Frame' /\ Spots(leader, net)' = Spots(leader, net)
    BY Zenon, <2>1 DEF Inv1, Frame, Maps
  <2> QED
    BY Zenon, <2>1, <2>2, SameHolds DEF Inv1
<1>2. CASE Next /\ died' = died
  <2>0. UNCHANGED <<scenario, died>>
    BY Zenon, <1>2 DEF Next
  <2>1. ASSUME NEW t \in Txs, TxSending(t) PROVE Goal
    BY Zenon, <2>0, <2>1, TxSendingOne
  <2>2. CASE clpaMapSend
    BY Zenon, <2>0, <2>2, MapSendOne
  <2>3. CASE SupervisorStop
    BY Zenon, <2>0, <2>3, QuietOne
  <2>4. ASSUME NEW m \in net, Handle(m) PROVE Goal
    <3>1. CASE handleAccountStateAndTxMsg(m)
      <4>1. m.type = "accounts"
        BY Zenon, <3>1 DEF handleAccountStateAndTxMsg
      <4> QED
        BY Zenon, <2>0, <3>1, <4>1, AsideOne DEF Keeps
    <3>2. CASE handleInjectTx(m) \/ handleRelay(m)
      BY Zenon, <2>0, <3>2, PoolOne
    <3>3. CASE handlePartitionMsg(m) \/ handlePartitionReady(m) \/ handleBlockInfos(m)
      BY Zenon, <2>0, <3>3, QuietOne
    <3> QED
      BY Zenon, <2>4, <3>1, <3>2, <3>3 DEF Handle
  <2>5. ASSUME NEW s \in Shards, Block(s) PROVE Goal
    BY Zenon, <2>0, <2>5, BlockOne DEF Keeps
  <2>6. ASSUME NEW s \in Shards, Partition(s) PROVE Goal
    BY Zenon, <2>0, <2>6, PartitionQuietOne, SendAccountsOne, ProposeOne DEF Partition
  <2> QED
    BY Zenon, <1>2, <2>1, <2>2, <2>3, <2>4, <2>5, <2>6 DEF Next
<1> QED
  BY Zenon, <1>1, <1>2

-----------------------------------------------------------------------------
(* The supervisor.                                                         *)

Infos == {m \in net : m.type = "info"}

\* The shards that have had a round the supervisor has no report of on its way.
HeardOf == {s \in Shards : leader[s].seq >= 2 /\ \A m \in Infos : m.from # s}

\* Reports are of different rounds, and before the second round of any shard is over there
\* have been no more of empty blocks than shards that have reported.
Gap ==
    /\ \A s \in Shards : leader[s].seq \in Nat /\ leader[s].seq >= 1
    /\ \A m \in Infos : m.from \in Shards /\ m.seq \in Nat /\ m.seq >= 1 /\ m.seq < leader[m.from].seq
    /\ \A m, n \in Infos : m.from = n.from /\ m.seq = n.seq => m = n
    /\ stopGap \in Nat
    /\ (\A s \in Shards : leader[s].seq <= 2) => stopGap <= Cardinality(HeardOf)

\* A transaction that no report, arrived or on its way, says has been relayed.
Unrelayed(t) == t \notin measures.relay /\ \A m \in Infos : t \notin m.relay1

\* The transactions that have been reported executed, and the report has arrived.
Counted == {t \in Txs : executed[t] = 1 /\ \A m \in Infos : t \notin m.done}

\* The reports are of different transactions.
Reported ==
    /\ DOMAIN measures = {"relay", "total", "cross"}
    /\ unsent \subseteq scenario.txs /\ (\A t \in unsent : Unrelayed(t))
    /\ \A p \in Spots(leader, net) : p.x.tx \in scenario.txs /\ (p.x.relayed \/ Unrelayed(p.x.tx))
    /\ measures.relay \subseteq scenario.txs
    /\ \A t \in Txs : executed[t] = 1 => t \in scenario.txs
    /\ \A m \in Infos : /\ \A t \in m.done : t \in Txs /\ executed[t] = 1
                        /\ m.relay1 \subseteq scenario.txs /\ m.relay1 \cap measures.relay = {}
    /\ \A m, n \in Infos : m # n => m.done \cap n.done = {} /\ m.relay1 \cap n.relay1 = {}

\* What has been measured is what has been reported.
Measured ==
    Reports /\ "reports" \in Timely =>
        /\ \A m \in Infos : m.relay1 \cap Counted = {}
        /\ measures.total = Cardinality(measures.relay) + Cardinality(Counted) + Cardinality(Counted \ measures.relay)
        /\ measures.cross = Cardinality(measures.relay) + Cardinality(Counted \cap measures.relay)

Inv3 == Inv1 /\ Gap /\ StopAfterGap /\ Reported /\ Measured

-----------------------------------------------------------------------------
\* A pool, a message or what has been put aside holds the entry x.
Carried(ld, n, x) ==
    \/ \E s \in Shards : x \in ld[s].pool
    \/ \E m \in n : x \in Cargo(m)
    \/ \E s \in Shards : \E m \in Aside(ld[s]) : x \in m.txs

\* An entry is carried just when it has a spot.
LEMMA CarriedIs ==
    ASSUME NEW ld, NEW n, NEW x
    PROVE  Carried(ld, n, x) <=> \E p \in Spots(ld, n) : p.x = x
<1>1. ASSUME Carried(ld, n, x) PROVE \E p \in Spots(ld, n) : p.x = x
  BY <1>1, SpotOf DEF Carried
<1>2. ASSUME NEW p \in Spots(ld, n), p.x = x PROVE Carried(ld, n, x)
  <2>1. CASE \E s \in Shards : \E y \in ld[s].pool : p = InPool(s, y)
    BY <1>2, <2>1, Apart DEF Carried
  <2>2. CASE \E m \in n : \E y \in Cargo(m) : p = InMsg(m, y)
    BY <1>2, <2>2, Apart DEF Carried
  <2>3. CASE \E s \in Shards : \E m \in Aside(ld[s]) : \E y \in m.txs : p = InAside(s, m, y)
    BY <1>2, <2>3, Apart DEF Carried
  <2> QED
    BY <2>1, <2>2, <2>3, SpotIs
<1> QED
  BY Zenon, <1>1, <1>2

\* What the measures count is finite, as the input file is.
LEMMA FiniteSets3 ==
    ASSUME Inv3
    PROVE  /\ IsFiniteSet(scenario.txs) /\ IsFiniteSet(HeardOf) /\ Cardinality(HeardOf) \in Nat
           /\ IsFiniteSet(measures.relay) /\ IsFiniteSet(Counted) /\ Cardinality(HeardOf) <= Cardinality(Shards)
           /\ \A m \in Infos : IsFiniteSet(m.relay1) /\ IsFiniteSet(m.done)
<1>1. IsFiniteSet(scenario.txs)
  BY Zenon, ScenarioAssumption DEF Inv3, Inv1, Frame
<1>2. HeardOf \subseteq Shards
  BY Zenon DEF HeardOf
<1>3. IsFiniteSet(HeardOf) /\ Cardinality(HeardOf) <= Cardinality(Shards)
  BY Zenon, <1>2, ScenarioAssumption, FS_Subset
<1>4. measures.relay \subseteq scenario.txs /\ Counted \subseteq scenario.txs
  BY Zenon DEF Inv3, Reported, Counted
<1>5. \A m \in Infos : m.relay1 \subseteq scenario.txs /\ m.done \subseteq scenario.txs
  BY Zenon DEF Inv3, Reported
<1> QED
  BY Zenon, <1>1, <1>3, <1>4, <1>5, FS_Subset, FS_CardinalityType

\* Initially there is nothing to report.
LEMMA InitThree == Init => Inv3
<1> SUFFICES ASSUME Init PROVE Inv3
  BY Zenon
<1>1. Inv1
  BY Zenon, InitOne
<1>2. Infos = {} /\ measures = [relay |-> {}, total |-> 0, cross |-> 0] /\ \A s \in Shards : leader[s] = NewLeader(s)
  BY Zenon DEF Init, Infos
<1>3. Counted = {}
  BY DEF Counted, Init
<1>4. Gap
  <2>1. HeardOf = {} /\ \A s \in Shards : leader[s].seq = 1
    BY <1>2 DEF HeardOf, NewLeader
  <2>2. Cardinality(HeardOf) = 0
    BY Zenon, <2>1, FS_EmptySet
  <2>3. stopGap = 0
    BY Zenon DEF Init
  <2> QED
    BY <1>2, <2>1, <2>2, <2>3 DEF Gap
<1>5. StopAfterGap
  BY ZenonT(30) DEF StopAfterGap, Init
<1>6. Reported
  <2>1. Spots(leader, net) = {}
    <3>1. \A s \in Shards : leader[s].pool = {} /\ Aside(leader[s]) = {}
      BY <1>2 DEF NewLeader, Aside
    <3> QED
      BY ZenonT(120), <3>1, SpotIs DEF Init
  <2> QED
    BY <1>2, <2>1 DEF Reported, Unrelayed, Init
<1>7. Measured
  BY <1>2, <1>3, FS_EmptySet DEF Measured
<1> QED
  BY Zenon, <1>1, <1>4, <1>5, <1>6, <1>7 DEF Inv3

\* A step that only moves entries.
LEMMA MovesThree ==
    ASSUME Inv3, Inv1', UNCHANGED <<scenario, unsent, executed, measures, stopGap, stopped>>, Infos' = Infos,
           \A s \in Shards : leader'[s].seq \in Nat /\ leader'[s].seq >= leader[s].seq,
           \A x : Carried(leader', net', x) => Carried(leader, net, x)
    PROVE  Inv3'
<1>1. \A s \in Shards : leader[s].seq \in Nat /\ leader[s].seq >= 1
  BY Zenon DEF Inv3, Gap
<1>2. HeardOf \subseteq HeardOf'
  <2> SUFFICES ASSUME NEW s \in Shards, leader[s].seq >= 2, \A m \in Infos : m.from # s
               PROVE  leader'[s].seq >= 2 /\ \A m \in Infos' : m.from # s
    BY Zenon DEF HeardOf
  <2> QED
    BY <1>1
<1>3. IsFiniteSet(HeardOf') /\ HeardOf' \subseteq Shards
  <2>1. HeardOf' \subseteq Shards
    BY Zenon DEF HeardOf
  <2> QED
    BY Zenon, <2>1, ScenarioAssumption, FS_Subset
<1>4. Cardinality(HeardOf) <= Cardinality(HeardOf') /\ Cardinality(HeardOf) \in Nat /\ Cardinality(HeardOf') \in Nat
  BY Zenon, <1>2, <1>3, FS_Subset, FS_CardinalityType
<1>5. Gap'
  <2>1. \A s \in Shards : leader'[s].seq \in Nat /\ leader'[s].seq >= 1
    BY <1>1
  <2>2. \A m \in Infos : m.from \in Shards /\ m.seq \in Nat /\ m.seq >= 1 /\ m.seq < leader'[m.from].seq
    BY <1>1 DEF Inv3, Gap
  <2>3. (\A s \in Shards : leader'[s].seq <= 2) => stopGap <= Cardinality(HeardOf')
    <3>1. (\A s \in Shards : leader'[s].seq <= 2) => \A s \in Shards : leader[s].seq <= 2
      BY <1>1
    <3> QED
      BY <1>4, <3>1 DEF Inv3, Gap
  <2> QED
    BY Zenon, <2>1, <2>2, <2>3 DEF Inv3, Gap
<1>6. StopAfterGap'
  BY <1>1 DEF Inv3, StopAfterGap
<1>7. \A t : Unrelayed(t)' <=> Unrelayed(t)
  BY Zenon DEF Unrelayed
<1>8. Counted' = Counted
  BY Zenon DEF Counted
<1>9. \A p \in Spots(leader', net') : p.x.tx \in scenario.txs /\ (p.x.relayed \/ Unrelayed(p.x.tx))
  <2> SUFFICES ASSUME NEW p \in Spots(leader', net') PROVE p.x.tx \in scenario.txs /\ (p.x.relayed \/ Unrelayed(p.x.tx))
    BY Zenon
  <2>1. Carried(leader', net', p.x)
    BY Zenon, CarriedIs
  <2>2. PICK q \in Spots(leader, net) : q.x = p.x
    BY Zenon, <2>1, CarriedIs
  <2>3. q.x.tx \in scenario.txs /\ (q.x.relayed \/ Unrelayed(q.x.tx))
    BY Zenon DEF Inv3, Reported
  <2> QED
    BY Zenon, <2>2, <2>3
<1>10. Reported'
  BY Zenon, <1>7, <1>9 DEF Inv3, Reported
<1>11. Measured'
  BY Zenon, <1>8 DEF Inv3, Measured, Timely, Reports
<1> QED
  BY Zenon, <1>5, <1>6, <1>10, <1>11 DEF Inv3

\* A receipt by a leader changes neither reports nor measures.
LEMMA HandleThree ==
    ASSUME Inv3, UNCHANGED <<scenario, died>>, NEW m \in net, Handle(m), m.type # "info"
    PROVE  Inv3'
<1> DEFINE s == m.to
<1>1. Inv1'
  BY Zenon, PoolOne, AsideOne, QuietOne DEF Handle, Inv3
<1>2. s \in Shards
  BY Zenon DEF Inv3, Inv1, Frame
<1>3. ASSUME NEW l, DOMAIN l = Fields, Receive(m, s, l), l.seq = leader[s].seq,
             l.pool \subseteq leader[s].pool \cup Cargo(m),
             \A n \in Aside(l) : n \in Aside(leader[s]) \/ n.txs = Cargo(m)
      PROVE  Inv3'
  <2>1. /\ leader'[s] = l /\ (\A i \in Shards \ {s} : leader'[i] = leader[i]) /\ net' = net \ {m}
        /\ UNCHANGED <<unsent, executed>>
    BY Zenon, <1>2, <1>3, ReceiveFrame DEF Inv3, Inv1
  <2>2. UNCHANGED <<measures, stopGap, stopped>>
    BY Zenon, <1>3 DEF Receive, supervisor
  <2>3. Infos' = Infos
    BY Zenon, <2>1 DEF Infos
  <2>4. \A i \in Shards : leader'[i].seq \in Nat /\ leader'[i].seq >= leader[i].seq
    BY <1>3, <2>1 DEF Inv3, Gap
  <2>5. ASSUME NEW x, Carried(leader', net', x) PROVE Carried(leader, net, x)
    <3>1. CASE \E i \in Shards : x \in leader'[i].pool
      BY Zenon, <1>3, <2>1, <3>1 DEF Carried
    <3>2. CASE \E n \in net' : x \in Cargo(n)
      BY Zenon, <2>1, <3>2 DEF Carried
    <3>3. CASE \E i \in Shards : \E n \in Aside(leader'[i]) : x \in n.txs
      <4>1. PICK i \in Shards : \E n \in Aside(leader'[i]) : x \in n.txs
        BY Zenon, <3>3
      <4>2. PICK n \in Aside(leader'[i]) : x \in n.txs
        BY Zenon, <4>1
      <4>3. n \in Aside(leader[i]) \/ n.txs = Cargo(m)
        BY Zenon, <1>3, <2>1
      <4> QED
        BY Zenon, <4>2, <4>3 DEF Carried
    <3> QED
      BY Zenon, <2>5, <3>1, <3>2, <3>3 DEF Carried
  <2> QED
    BY Zenon, <1>1, <2>1, <2>2, <2>3, <2>4, <2>5, MovesThree
<1>4. DOMAIN leader[s] = Fields
  BY Zenon, <1>2 DEF Inv3, Inv1, Frame
<1>5. CASE handleInjectTx(m)
  <2> DEFINE l == [leader[s] EXCEPT !.pool = @ \cup {Fresh(m.tx)}]
  <2>1. Receive(m, s, l) /\ Cargo(m) = {Fresh(m.tx)}
    BY Zenon, <1>5, Living DEF handleInjectTx, Cargo
  <2>2. DOMAIN l = Fields /\ l.seq = leader[s].seq /\ l.pool = leader[s].pool \cup {Fresh(m.tx)}
        /\ l.pc = leader[s].pc /\ l.accts = leader[s].accts
    BY Zenon, <1>4 DEF Fields
  <2> HIDE DEF l
  <2>3. Aside(l) = Aside(leader[s])
    BY Zenon, <2>2 DEF Aside
  <2> QED
    BY Zenon, <1>3, <2>1, <2>2, <2>3
<1>6. CASE handleRelay(m)
  <2> DEFINE l == [leader[s] EXCEPT !.pool = @ \cup {Relayed(t) : t \in m.txs}, !.seqIDMap = Put(@, m.from, m.seq)]
  <2>1. Receive(m, s, l) /\ Cargo(m) = {Relayed(t) : t \in m.txs}
    BY Zenon, <1>6, Living DEF handleRelay, Cargo
  <2>2. DOMAIN l = Fields /\ l.seq = leader[s].seq /\ l.pool = leader[s].pool \cup {Relayed(t) : t \in m.txs}
        /\ l.pc = leader[s].pc /\ l.accts = leader[s].accts
    BY Zenon, <1>4 DEF Fields
  <2> HIDE DEF l
  <2>3. Aside(l) = Aside(leader[s])
    BY Zenon, <2>2 DEF Aside
  <2>4. l.pool \subseteq leader[s].pool \cup Cargo(m)
    BY Zenon, <2>1, <2>2
  <2> QED
    BY Zenon, <1>3, <2>1, <2>2, <2>3, <2>4
<1>7. CASE handlePartitionMsg(m)
  <2> DEFINE l == [leader[s] EXCEPT !.maps = Append(@, m.id), !.on = TRUE]
  <2>1. Receive(m, s, l)
    BY Zenon, <1>7 DEF handlePartitionMsg
  <2>2. DOMAIN l = Fields /\ l.seq = leader[s].seq /\ l.pool = leader[s].pool
        /\ l.pc = leader[s].pc /\ l.accts = leader[s].accts
    BY Zenon, <1>4 DEF Fields
  <2> HIDE DEF l
  <2>3. Aside(l) = Aside(leader[s])
    BY Zenon, <2>2 DEF Aside
  <2> QED
    BY Zenon, <1>3, <2>1, <2>2, <2>3
<1>8. CASE handlePartitionReady(m)
  <2> DEFINE l == [leader[s] EXCEPT !.ready = @ \cup {m.from}, !.readySeq = Put(@, m.from, m.seq)]
  <2>1. Receive(m, s, l)
    BY Zenon, <1>8 DEF handlePartitionReady
  <2>2. DOMAIN l = Fields /\ l.seq = leader[s].seq /\ l.pool = leader[s].pool
        /\ l.pc = leader[s].pc /\ l.accts = leader[s].accts
    BY Zenon, <1>4 DEF Fields
  <2> HIDE DEF l
  <2>3. Aside(l) = Aside(leader[s])
    BY Zenon, <2>2 DEF Aside
  <2> QED
    BY Zenon, <1>3, <2>1, <2>2, <2>3
<1>9. CASE handleAccountStateAndTxMsg(m)
  <2> DEFINE accts == {x \in leader[s].accts : x.from # m.from} \cup {m}
             l == [leader[s] EXCEPT !.accts = accts, !.over = @ \/ Cardinality(accts) = Cardinality(Shards) - 1]
  <2>1. Receive(m, s, l) /\ Cargo(m) = m.txs
    BY Zenon, <1>9 DEF handleAccountStateAndTxMsg, Cargo
  <2>2. DOMAIN l = Fields /\ l.seq = leader[s].seq /\ l.pool = leader[s].pool
        /\ l.pc = leader[s].pc /\ l.accts = accts
    BY Zenon, <1>4 DEF Fields
  <2> HIDE DEF l
  <2>3. \A n \in Aside(l) : n \in Aside(leader[s]) \/ n = m
    BY Zenon, <2>2 DEF Aside
  <2> HIDE DEF accts
  <2> QED
    BY Zenon, <1>3, <2>1, <2>2, <2>3
<1> QED
  BY Zenon, <1>5, <1>6, <1>7, <1>8, <1>9 DEF Handle, handleBlockInfos

\* A step of s that gives it the record l: what it sends was in its pool, what its pool gains was set aside.
Rearranges(s, l) ==
    /\ leader' = [leader EXCEPT ![s] = l] /\ l.seq \in Nat /\ l.seq >= leader[s].seq
    /\ \A m \in net' : m \in net \/ (m.type # "info" /\ \A x \in Cargo(m) : x \in leader[s].pool)
    /\ \A m \in net : m \in net'
    /\ \A x \in l.pool : x \in leader[s].pool \/ \E m \in Aside(leader[s]) : x \in m.txs
    /\ Aside(l) \subseteq Aside(leader[s])

\* A step of a partition changes neither reports nor measures.
LEMMA PartitionThree ==
    ASSUME Inv3, UNCHANGED <<scenario, died>>, NEW s \in Shards, Partition(s)
    PROVE  Inv3'
<1>1. Inv1'
  BY Zenon, PartitionQuietOne, ProposeOne, SendAccountsOne DEF Partition, Inv3
<1>2. UNCHANGED <<unsent, executed, measures, stopGap, stopped>>
  BY Zenon, Living DEF Partition, sendPartitionReady, sendAccounts_and_Txs, proposePartition, accountTransfer_do,
     committee, supervisor
<1>3. DOMAIN leader[s] = Fields /\ DOMAIN leader = Shards
  BY Zenon DEF Inv3, Inv1, Frame
<1>4. ASSUME NEW l, Rearranges(s, l)
      PROVE  Inv3'
  <2>0. /\ leader' = [leader EXCEPT ![s] = l] /\ l.seq \in Nat /\ l.seq >= leader[s].seq
        /\ \A m \in net' : m \in net \/ (m.type # "info" /\ \A x \in Cargo(m) : x \in leader[s].pool)
        /\ \A m \in net : m \in net'
        /\ \A x \in l.pool : x \in leader[s].pool \/ \E m \in Aside(leader[s]) : x \in m.txs
        /\ Aside(l) \subseteq Aside(leader[s])
    BY Zenon, <1>4 DEF Rearranges
  <2>1. leader'[s] = l /\ \A i \in Shards \ {s} : leader'[i] = leader[i]
    BY Zenon, <1>3, <2>0
  <2>2. Infos' = Infos
    BY Zenon, <2>0 DEF Infos
  <2>3. \A i \in Shards : leader'[i].seq \in Nat /\ leader'[i].seq >= leader[i].seq
    BY <2>0, <2>1 DEF Inv3, Gap
  <2>4. ASSUME NEW x, Carried(leader', net', x) PROVE Carried(leader, net, x)
    <3>1. CASE \E i \in Shards : x \in leader'[i].pool
      BY Zenon, <2>0, <2>1, <3>1 DEF Carried
    <3>2. CASE \E n \in net' : x \in Cargo(n)
      BY Zenon, <2>0, <2>1, <3>2 DEF Carried
    <3>3. CASE \E i \in Shards : \E n \in Aside(leader'[i]) : x \in n.txs
      BY Zenon, <2>0, <2>1, <3>3 DEF Carried
    <3> QED
      BY Zenon, <2>4, <3>1, <3>2, <3>3 DEF Carried
  <2> QED
    BY Zenon, <1>1, <1>2, <2>2, <2>3, <2>4, MovesThree
<1>5. leader[s].seq \in Nat
  BY Zenon DEF Inv3, Gap
<1>6. CASE sendPartitionReady(s)
  <2> DEFINE l == [leader[s] EXCEPT !.ready = @ \cup {s}, !.pc = "ready"]
  <2>1. leader' = [leader EXCEPT ![s] = l]
    BY Zenon, <1>3, <1>6 DEF sendPartitionReady, Fields
  <2>2. l.seq = leader[s].seq /\ l.pool = leader[s].pool /\ l.accts = leader[s].accts /\ l.pc = "ready"
    BY Zenon, <1>3 DEF Fields
  <2> HIDE DEF l
  <2>3. Aside(l) = Aside(leader[s])
    BY Zenon, <1>6, <2>2 DEF sendPartitionReady, Aside
  <2>4. \A m \in net' : m \in net \/ (m.type # "info" /\ Cargo(m) = {})
    BY <1>6 DEF sendPartitionReady, Cargo
  <2>5. \A m \in net : m \in net'
    BY Zenon, <1>6 DEF sendPartitionReady
  <2>99. Rearranges(s, l)
    BY <1>5, <2>1, <2>2, <2>3, <2>4, <2>5 DEF Rearranges
  <2> QED
    BY Zenon, <1>4, <2>99
<1>7. CASE sendAccounts_and_Txs(s)
  <2> DEFINE ls == leader[s]
             last == Maps[ls.maps[Len(ls.maps)]]
             addrs(i) == {a \in DOMAIN last : last[a] = i /\ i # s /\ ls.map[a] = s}
             txs(i) == {x \in ls.pool : GoesWith(addrs(i), x)}
             sent == UNION {txs(i) : i \in Others(s)}
             l == [leader[s] EXCEPT !.pc = "collect", !.pool = Kept(@, sent)]
             msg(i) == [type |-> "accounts", from |-> s, to |-> i, seq |-> ls.seq, txs |-> txs(i),
                        states |-> [a \in addrs(i) |-> ls.ledger[a]]]
  <2>1. leader[s].pc = "ready" /\ net' = net \cup {msg(i) : i \in Others(s)}
    BY Zenon, <1>7, Living DEF sendAccounts_and_Txs
  <2>2. leader' = [leader EXCEPT ![s] = l]
    BY Zenon, <1>3, <1>7, Living DEF sendAccounts_and_Txs, Fields
  <2>3. l.seq = ls.seq /\ l.pool \subseteq leader[s].pool /\ l.accts = leader[s].accts /\ l.pc = "collect"
    BY Zenon, <1>3 DEF Fields, Kept
  <2>4. \A i \in Others(s) : msg(i).type = "accounts" /\ Cargo(msg(i)) = txs(i) /\ txs(i) \subseteq leader[s].pool
    BY Zenon DEF Cargo
  <2> HIDE DEF l, msg, txs, addrs, sent
  <2>5. Aside(l) = Aside(leader[s])
    BY Zenon, <2>1, <2>3 DEF Aside
  <2>6. \A m \in net' : m \in net \/ (m.type # "info" /\ \A x \in Cargo(m) : x \in leader[s].pool)
    BY Zenon, <2>1, <2>4
  <2>7. \A m \in net : m \in net'
    BY Zenon, <2>1
  <2>99. Rearranges(s, l)
    BY <1>5, <2>2, <2>3, <2>5, <2>6, <2>7 DEF Rearranges
  <2> QED
    BY Zenon, <1>4, <2>99
<1>8. CASE proposePartition(s)
  <2> DEFINE txs == UNION {m.txs : m \in leader[s].accts}
             l == [leader[s] EXCEPT !.pool = @ \cup txs, !.pc = "commit",
                       !.atm = [map |-> leader[s].maps[leader[s].round + 1], id |-> ATid(leader[s]),
                                states |-> ReceivedNewAccountState(leader[s].accts)]]
             k == [leader[s] EXCEPT !.pc = "panicked"]
  <2>1. net' = net /\ leader[s].pc = "collect"
    BY Zenon, <1>8 DEF proposePartition
  <2>2. leader' = [leader EXCEPT ![s] = l] \/ leader' = [leader EXCEPT ![s] = k]
    BY Zenon, <1>3, <1>8 DEF proposePartition, Fields
  <2>3. /\ l.seq = leader[s].seq /\ l.pool = leader[s].pool \cup txs /\ l.pc = "commit"
        /\ k.seq = leader[s].seq /\ k.pool = leader[s].pool /\ k.accts = leader[s].accts /\ k.pc = "panicked"
    BY Zenon, <1>3 DEF Fields
  <2> HIDE DEF l, k
  <2>4. Aside(l) = {} /\ Aside(k) = Aside(leader[s]) /\ Aside(leader[s]) = leader[s].accts
    BY Zenon, <2>1, <2>3 DEF Aside
  <2>5. \A x \in l.pool : x \in leader[s].pool \/ \E m \in Aside(leader[s]) : x \in m.txs
    BY Zenon, <2>3, <2>4
  <2> HIDE DEF txs
  <2>6. CASE leader' = [leader EXCEPT ![s] = l]
    <3>1. Rearranges(s, l)
      BY <1>5, <2>1, <2>3, <2>4, <2>5, <2>6 DEF Rearranges
    <3> QED
      BY Zenon, <1>4, <3>1
  <2>7. CASE leader' = [leader EXCEPT ![s] = k]
    <3>1. Rearranges(s, k)
      BY <1>5, <2>1, <2>3, <2>4, <2>7 DEF Rearranges
    <3> QED
      BY Zenon, <1>4, <3>1
  <2> QED
    BY Zenon, <2>2, <2>6, <2>7
<1>9. CASE accountTransfer_do(s)
  <2> DEFINE l == [leader[s] EXCEPT !.map = NewMap(leader[s]),
                    !.ledger = Over([a \in Added(s, leader[s]) |-> leader[s].atm.states[a]], @),
                    !.trie = @ \cup Added(s, leader[s]),
                    !.maps = IF Len(@) = leader[s].atm.id THEN @ ELSE Append(@, leader[s].atm.map),
                    !.round = leader[s].atm.id, !.accts = {}, !.on = FALSE, !.over = FALSE,
                    !.ready = {}, !.seq = @ + 1, !.pc = "propose", !.atm = <<>>,
                    !.transfers = @ + 1, !.block = FALSE]
  <2>1. leader' = [leader EXCEPT ![s] = l] /\ net' = net
    BY Zenon, <1>9, Living DEF accountTransfer_do
  <2>2. l.seq = leader[s].seq + 1 /\ l.pool = leader[s].pool /\ l.accts = {}
    BY Zenon, <1>3 DEF Fields
  <2> HIDE DEF l
  <2>3. Aside(l) = {}
    BY Zenon, <2>2 DEF Aside
  <2>99. Rearranges(s, l)
    BY <1>5, <2>1, <2>2, <2>3 DEF Rearranges
  <2> QED
    BY Zenon, <1>4, <2>99
<1> QED
  BY Zenon, <1>6, <1>7, <1>8, <1>9 DEF Partition

\* clpaMapSend changes neither reports nor measures.
LEMMA CommitteeThree ==
    ASSUME Inv3, UNCHANGED scenario, clpaMapSend
    PROVE  Inv3'
<1>1. Inv1'
  BY Zenon, MapSendOne DEF Inv3
<1>2. UNCHANGED <<leader, unsent, executed, measures, stopGap, stopped>>
  BY Zenon DEF clpaMapSend, supervisor
<1>3. \A m \in net' : m \in net \/ (m.type # "info" /\ Cargo(m) = {})
  BY DEF clpaMapSend, Cargo
<1>4. \A m \in net : m \in net'
  BY Zenon DEF clpaMapSend
<1>5. Infos' = Infos
  BY Zenon, <1>3, <1>4 DEF Infos
<1>6. \A x : Carried(leader', net', x) => Carried(leader, net, x)
  BY Zenon, <1>2, <1>3 DEF Carried
<1>7. \A i \in Shards : leader'[i].seq \in Nat /\ leader'[i].seq >= leader[i].seq
  BY <1>2 DEF Inv3, Gap
<1> QED
  BY Zenon, <1>1, <1>2, <1>5, <1>6, <1>7, MovesThree

\* TxSending resets the gap; what it injects has not been reported.
LEMMA TxSendingThree ==
    ASSUME Inv3, UNCHANGED scenario, NEW t \in Txs, TxSending(t)
    PROVE  Inv3'
<1> DEFINE m == [type |-> "inject", to |-> modifiedMap[Sender[t]], tx |-> t]
<1>1. Inv1'
  BY Zenon, TxSendingOne DEF Inv3
<1>2. /\ t \in unsent /\ unsent' = unsent \ {t} /\ net' = net \cup {m} /\ stopGap' = 0
      /\ UNCHANGED <<leader, stopped, measures, executed>>
  BY Zenon DEF TxSending
<1>3. m.type = "inject" /\ Cargo(m) = {Fresh(t)} /\ Fresh(t).tx = t
  BY Zenon DEF Cargo, Fresh
<1> HIDE DEF m
<1>4. Infos' = Infos
  BY Zenon, <1>2, <1>3 DEF Infos
<1>5. \A u : Unrelayed(u)' <=> Unrelayed(u)
  BY Zenon, <1>2, <1>4 DEF Unrelayed
<1>6. Counted' = Counted /\ HeardOf' = HeardOf
  BY Zenon, <1>2, <1>4 DEF Counted, HeardOf
<1>7. \A p \in Spots(leader', net') : p.x.tx \in scenario.txs /\ (p.x.relayed \/ Unrelayed(p.x.tx))
  <2> SUFFICES ASSUME NEW p \in Spots(leader', net') PROVE p.x.tx \in scenario.txs /\ (p.x.relayed \/ Unrelayed(p.x.tx))
    BY Zenon
  <2>1. Carried(leader', net', p.x)
    BY Zenon, CarriedIs
  <2>2. Carried(leader, net, p.x) \/ p.x = Fresh(t)
    BY Zenon, <1>2, <1>3, <2>1 DEF Carried
  <2>3. CASE Carried(leader, net, p.x)
    BY Zenon, <2>3, CarriedIs DEF Inv3, Reported
  <2>4. CASE p.x = Fresh(t)
    BY Zenon, <1>2, <1>3, <2>4 DEF Inv3, Reported
  <2> QED
    BY Zenon, <2>2, <2>3, <2>4
<1>8. Gap'
  BY <1>2, <1>4, <1>6, FiniteSets3 DEF Inv3, Gap
<1>9. StopAfterGap'
  BY Zenon, <1>2 DEF Inv3, StopAfterGap
<1>10. Reported'
  BY Zenon, <1>2, <1>4, <1>5, <1>7 DEF Inv3, Reported
<1>11. Measured'
  BY Zenon, <1>2, <1>4, <1>6 DEF Inv3, Measured, Timely, Reports
<1> QED
  BY Zenon, <1>1, <1>8, <1>9, <1>10, <1>11 DEF Inv3

\* Two reports of empty blocks for each shard are more than one for each.
LEMMA StopThree ==
    ASSUME Inv3, UNCHANGED scenario, SupervisorStop
    PROVE  Inv3'
<1>1. Inv1'
  BY Zenon, QuietOne DEF Inv3
<1>2. /\ unsent = {} /\ stopGap >= 2 * Cardinality(Shards)
      /\ UNCHANGED <<leader, net, unsent, stopGap, measures, executed>>
  BY Zenon DEF SupervisorStop, GapEnough, committee
<1>3. Cardinality(Shards) \in Nat /\ Cardinality(Shards) # 0
  BY Zenon, ScenarioAssumption, FS_CardinalityType, FS_EmptySet
<1>4. \E s \in Shards : leader[s].seq > 2
  <2> SUFFICES ASSUME \A s \in Shards : ~(leader[s].seq > 2) PROVE FALSE
    BY Zenon
  <2>1. \A s \in Shards : leader[s].seq <= 2
    BY DEF Inv3, Gap
  <2>2. stopGap \in Nat /\ stopGap <= Cardinality(HeardOf)
    BY Zenon, <2>1 DEF Inv3, Gap
  <2> QED
    BY <1>2, <1>3, <2>2, FiniteSets3
<1>5. StopAfterGap'
  BY Zenon, <1>2, <1>4 DEF StopAfterGap
<1>6. Infos' = Infos /\ HeardOf' = HeardOf /\ Counted' = Counted /\ \A t : Unrelayed(t)' <=> Unrelayed(t)
  BY Zenon, <1>2 DEF Infos, HeardOf, Counted, Unrelayed
<1>7. Gap'
  BY Zenon, <1>2, <1>6 DEF Inv3, Gap
<1>8. Reported' /\ Measured'
  BY Zenon, <1>2, <1>6 DEF Inv3, Reported, Measured, Timely, Reports
<1> QED
  BY Zenon, <1>1, <1>5, <1>7, <1>8 DEF Inv3

\* The transactions that the reports have said are relayed and executed, those a new report
\* says are, and of the latter the ones that no report has said are relayed.
Adds(R, C, r, d, w) ==
    /\ IsFiniteSet(R) /\ IsFiniteSet(C) /\ IsFiniteSet(r) /\ IsFiniteSet(d)
    /\ C \cap d = {} /\ R \cap r = {} /\ r \cap C = {} /\ r \cap d = {}
    /\ w = {t \in d : t \notin R \cup r}

Sums(R, C, r, d, w) ==
    /\ Cardinality(R \cup r) = Cardinality(R) + Cardinality(r)
    /\ Cardinality(C \cup d) = Cardinality(C) + Cardinality(d)
    /\ Cardinality((C \cup d) \ (R \cup r)) = Cardinality(C \ R) + Cardinality(w)
    /\ Cardinality((C \cup d) \cap (R \cup r)) = Cardinality(C \cap R) + Cardinality(d \ w)

\* What a report adds to the measures is what it adds to the sets they count.
LEMMA CountsAdd ==
    ASSUME NEW R, NEW C, NEW r, NEW d, NEW w, Adds(R, C, r, d, w)
    PROVE  Sums(R, C, r, d, w)
<1>0. /\ IsFiniteSet(R) /\ IsFiniteSet(C) /\ IsFiniteSet(r) /\ IsFiniteSet(d)
      /\ C \cap d = {} /\ R \cap r = {} /\ r \cap C = {} /\ r \cap d = {}
      /\ w = {t \in d : t \notin R \cup r}
  BY Zenon DEF Adds
<1>1. ASSUME NEW A, NEW B, IsFiniteSet(A), IsFiniteSet(B), A \cap B = {}
      PROVE  Cardinality(A \cup B) = Cardinality(A) + Cardinality(B)
  <2>1. Cardinality(A \cup B) = Cardinality(A) + Cardinality(B) - Cardinality({})
    BY <1>1, FS_Union
  <2>2. Cardinality({}) = 0 /\ Cardinality(A) \in Nat /\ Cardinality(B) \in Nat
    BY Zenon, <1>1, FS_EmptySet, FS_CardinalityType
  <2> QED
    BY <2>1, <2>2
<1>2. IsFiniteSet(w) /\ IsFiniteSet(C \ R) /\ IsFiniteSet(C \cap R) /\ IsFiniteSet(d \ w)
  <2>1. w \subseteq d /\ C \ R \subseteq C /\ C \cap R \subseteq C /\ d \ w \subseteq d
    BY Zenon, <1>0
  <2> QED
    BY Zenon, <1>0, <2>1, FS_Subset
<1>3. (C \cup d) \ (R \cup r) = (C \ R) \cup w /\ (C \ R) \cap w = {}
  BY Zenon, <1>0
<1>4. (C \cup d) \cap (R \cup r) = (C \cap R) \cup (d \ w) /\ (C \cap R) \cap (d \ w) = {}
  BY Zenon, <1>0
<1>5. Cardinality((C \cup d) \ (R \cup r)) = Cardinality(C \ R) + Cardinality(w)
  BY Zenon, <1>1, <1>2, <1>3
<1>6. Cardinality((C \cup d) \cap (R \cup r)) = Cardinality(C \cap R) + Cardinality(d \ w)
  BY Zenon, <1>1, <1>2, <1>4
<1>7. Cardinality(R \cup r) = Cardinality(R) + Cardinality(r) /\ Cardinality(C \cup d) = Cardinality(C) + Cardinality(d)
  BY Zenon, <1>0, <1>1
<1> QED
  BY Zenon, <1>5, <1>6, <1>7 DEF Sums

\* handleBlockInfos counts a report, and a report of an empty block is of one more shard.
LEMMA InfosThree ==
    ASSUME Inv3, UNCHANGED scenario, NEW m \in net, handleBlockInfos(m)
    PROVE  Inv3'
<1>1. Inv1'
  BY Zenon, QuietOne DEF Inv3
<1>2. /\ m.type = "info" /\ AfterRelay(m) /\ net' = net \ {m}
      /\ stopGap' = (IF m.empty THEN stopGap + 1 ELSE 0)
      /\ measures' = [relay |-> measures.relay \cup m.relay1, total |-> totTxNum(m), cross |-> totCrossTxNum(m)]
      /\ UNCHANGED <<leader, unsent, stopped, executed>>
  BY Zenon DEF handleBlockInfos, committee
<1>3. m \in Infos /\ Infos' = Infos \ {m}
  BY Zenon, <1>2 DEF Infos
<1>4. measures'.relay = measures.relay \cup m.relay1 /\ DOMAIN measures' = {"relay", "total", "cross"}
      /\ measures'.total = totTxNum(m) /\ measures'.cross = totCrossTxNum(m)
  BY Zenon, <1>2
<1>5. Gap'
  <2>1. HeardOf \subseteq HeardOf'
    BY Zenon, <1>2, <1>3 DEF HeardOf
  <2>2. HeardOf' \subseteq Shards
    BY Zenon DEF HeardOf
  <2>3. IsFiniteSet(HeardOf') /\ IsFiniteSet(HeardOf) /\ Cardinality(HeardOf) \in Nat /\ Cardinality(HeardOf') \in Nat
        /\ Cardinality(HeardOf) <= Cardinality(HeardOf')
    BY Zenon, <2>1, <2>2, ScenarioAssumption, FS_Subset, FS_CardinalityType
  <2>4. stopGap \in Nat /\ stopGap' \in Nat
    BY <1>2 DEF Inv3, Gap
  <2>5. ASSUME \A s \in Shards : leader[s].seq <= 2 PROVE stopGap' <= Cardinality(HeardOf')
    <3>1. m.from \in Shards /\ m.seq = 1 /\ leader[m.from].seq = 2
      BY <1>3, <2>5 DEF Inv3, Gap
    <3>2. \A n \in Infos : n.from = m.from => n = m
      BY <1>3, <2>5, <3>1 DEF Inv3, Gap
    <3>3. m.from \in HeardOf' /\ m.from \notin HeardOf
      BY <1>2, <1>3, <3>1, <3>2 DEF HeardOf
    <3>4. HeardOf \cup {m.from} \in SUBSET HeardOf'
      BY Zenon, <2>1, <3>3
    <3>5. Cardinality(HeardOf \cup {m.from}) = Cardinality(HeardOf) + 1
      BY Zenon, <2>3, <3>3, FS_AddElement
    <3>6. Cardinality(HeardOf) + 1 <= Cardinality(HeardOf')
      BY ZenonT(120), <2>3, <3>4, <3>5, FS_Subset
    <3>7. stopGap <= Cardinality(HeardOf)
      BY Zenon, <2>5 DEF Inv3, Gap
    <3> QED
      BY <1>2, <2>3, <2>4, <3>6, <3>7
  <2> QED
    BY Zenon, <1>2, <1>3, <2>4, <2>5 DEF Inv3, Gap
<1>6. StopAfterGap'
  BY Zenon, <1>2 DEF Inv3, StopAfterGap
<1>7. \A t : Unrelayed(t)' <=> Unrelayed(t)
  BY Zenon, <1>3, <1>4 DEF Unrelayed
<1>8. Spots(leader', net') \subseteq Spots(leader, net)
  BY <1>2, SpotIs
<1>9. Reported'
  BY Zenon, <1>2, <1>3, <1>4, <1>7, <1>8 DEF Inv3, Reported
<1>10. Counted' = Counted \cup m.done /\ Counted \cap m.done = {}
  <2>1. \A t : t \in Counted' <=> t \in Txs /\ executed[t] = 1 /\ \A n \in Infos \ {m} : t \notin n.done
    BY Zenon, <1>2, <1>3 DEF Counted
  <2>2. \A t : t \in Counted <=> t \in Txs /\ executed[t] = 1 /\ \A n \in Infos : t \notin n.done
    BY Zenon DEF Counted
  <2>3. \A t \in m.done : t \in Txs /\ executed[t] = 1 /\ \A n \in Infos \ {m} : t \notin n.done
    BY Zenon, <1>3 DEF Inv3, Reported
  <2>4. \A t : t \in Counted' <=> t \in Counted \/ t \in m.done
    BY Zenon, <1>3, <2>1, <2>2, <2>3
  <2> QED
    BY Zenon, <1>3, <2>2, <2>4
<1>11. Measured'
  <2> SUFFICES ASSUME Reports, "reports" \in Timely
               PROVE  /\ \A n \in Infos' : n.relay1 \cap Counted' = {}
                      /\ measures'.total = Cardinality(measures'.relay) + Cardinality(Counted') + Cardinality(Counted' \ measures'.relay)
                      /\ measures'.cross = Cardinality(measures'.relay) + Cardinality(Counted' \cap measures'.relay)
    BY Zenon DEF Measured, Timely, Reports
  <2>1. \A n \in Infos : n.relay1 \cap m.done = {} /\ n.relay1 \cap Counted = {}
    BY Zenon, <1>2 DEF AfterRelay, Infos, Inv3, Measured
  <2>2. \A n \in Infos' : n.relay1 \cap Counted' = {}
    BY Zenon, <1>3, <1>10, <2>1
  <2> DEFINE R == measures.relay
             C == Counted
             r == m.relay1
             d == m.done
             w == {t \in d : t \notin R \cup r}
  <2>3. /\ IsFiniteSet(R) /\ IsFiniteSet(C) /\ IsFiniteSet(r) /\ IsFiniteSet(d)
        /\ C \cap d = {} /\ R \cap r = {} /\ r \cap C = {} /\ r \cap d = {}
    BY Zenon, <1>3, <1>10, <2>1, FiniteSets3 DEF Inv3, Reported
  <2>4. w = Whole(m)
    BY Zenon DEF Whole
  <2>5. /\ totTxNum(m) = measures.total + Cardinality(r) + Cardinality(d) + Cardinality(w)
        /\ totCrossTxNum(m) = measures.cross + Cardinality(r) + Cardinality(d \ w)
    BY Zenon, <2>4 DEF totTxNum, totCrossTxNum
  <2>6. /\ measures.total = Cardinality(R) + Cardinality(C) + Cardinality(C \ R)
        /\ measures.cross = Cardinality(R) + Cardinality(C \cap R)
    BY Zenon DEF Inv3, Measured
  <2> HIDE DEF R, C, r, d, w
  <2>7. /\ Cardinality(R \cup r) = Cardinality(R) + Cardinality(r)
        /\ Cardinality(C \cup d) = Cardinality(C) + Cardinality(d)
        /\ Cardinality((C \cup d) \ (R \cup r)) = Cardinality(C \ R) + Cardinality(w)
        /\ Cardinality((C \cup d) \cap (R \cup r)) = Cardinality(C \cap R) + Cardinality(d \ w)
    <3>1. Adds(R, C, r, d, w)
      BY Zenon, <2>3 DEF w, Adds
    <3>2. Sums(R, C, r, d, w)
      BY Zenon, <3>1, CountsAdd
    <3> QED
      BY Zenon, <3>2 DEF Sums
  <2>8. IsFiniteSet(w) /\ IsFiniteSet(C \ R) /\ IsFiniteSet(C \cap R) /\ IsFiniteSet(d \ w)
    <3>1. w \subseteq d /\ C \ R \subseteq C /\ C \cap R \subseteq C /\ d \ w \subseteq d
      BY Zenon DEF w
    <3> QED
      BY Zenon, <2>3, <3>1, FS_Subset
  <2>9. /\ Cardinality(w) \in Nat /\ Cardinality(C \ R) \in Nat /\ Cardinality(C \cap R) \in Nat /\ Cardinality(d \ w) \in Nat
        /\ Cardinality(R) \in Nat /\ Cardinality(C) \in Nat /\ Cardinality(r) \in Nat /\ Cardinality(d) \in Nat
    BY Zenon, <2>3, <2>8, FS_CardinalityType
  <2>10. measures'.relay = R \cup r /\ Counted' = C \cup d
    BY ZenonT(30), <1>4, <1>10 DEF R, r, C, d
  <2>11. measures'.total = Cardinality(R \cup r) + Cardinality(C \cup d) + Cardinality((C \cup d) \ (R \cup r))
    <3>1. (Cardinality(R) + Cardinality(C) + Cardinality(C \ R)) + Cardinality(r) + Cardinality(d) + Cardinality(w)
          = (Cardinality(R) + Cardinality(r)) + (Cardinality(C) + Cardinality(d)) + (Cardinality(C \ R) + Cardinality(w))
      BY <2>9
    <3> QED
      BY Zenon, <1>4, <2>5, <2>6, <2>7, <3>1
  <2>12. measures'.cross = Cardinality(R \cup r) + Cardinality((C \cup d) \cap (R \cup r))
    BY <1>4, <2>5, <2>6, <2>7, <2>9
  <2> QED
    BY Zenon, <2>2, <2>10, <2>11, <2>12
<1> QED
  BY Zenon, <1>1, <1>5, <1>6, <1>9, <1>11 DEF Inv3

\* A block reports transactions that no report has been of.
LEMMA BlockThree ==
    ASSUME Inv3, UNCHANGED <<scenario, died>>, NEW s \in Shards, Block(s)
    PROVE  Inv3'
<1> DEFINE ls == leader[s]
<1>0. Inv1 /\ Inv1'
  BY Zenon, BlockOne DEF Inv3
<1>a. PICK block : block \subseteq ls.pool /\ HandleinCommit(s, block)
  BY Zenon, LivingBlock
<1>1. /\ block \subseteq ls.pool
      /\ LET done == {x.tx : x \in {x \in block : ~ToRelay(s, x)}}
             relay == {x.tx : x \in {x \in block : ToRelay(s, x)}}
         IN IF \E x \in block : Incorrect(s, x)
            THEN panicked' = panicked \cup {s} /\ UNCHANGED <<leader, net, executed>>
            ELSE /\ leader' = [leader EXCEPT ![s].pool = @ \ block, ![s].seq = @ + 1,
                                 ![s].ledger = State(s, block), ![s].block = TRUE,
                                 ![s].trie = @ \cup Written(s, block)]
                 /\ executed' = [t \in Txs |-> executed[t] + (IF t \in done THEN 1 ELSE 0)]
                 /\ net' = net
                       \cup {[type |-> "relay", from |-> s, to |-> i, seq |-> ls.seq,
                              txs |-> {t \in relay : ls.map[RecipientOf[t]] = i}] : i \in Others(s)}
                       \cup {[type |-> "info", from |-> s, seq |-> ls.seq, empty |-> block = {},
                              done |-> done, relay1 |-> relay] : r \in {r \in {TRUE} : Reports}}
  BY Zenon, <1>a DEF HandleinCommit
<1>2. UNCHANGED <<unsent, stopGap, stopped, measures>>
  BY Zenon, LivingBlock
<1>3. CASE \E x \in block : Incorrect(s, x)
  <2>1. UNCHANGED <<leader, net, executed>>
    BY Zenon, <1>1, <1>3
  <2>2. Infos' = Infos
    BY Zenon, <2>1 DEF Infos
  <2>3. \A i \in Shards : leader'[i].seq \in Nat /\ leader'[i].seq >= leader[i].seq
    BY <2>1 DEF Inv3, Gap
  <2> QED
    BY Zenon, <1>0, <1>2, <2>1, <2>2, <2>3, MovesThree
<1>4. CASE ~\E x \in block : Incorrect(s, x)
  <2> DEFINE done == {x.tx : x \in {x \in block : ~ToRelay(s, x)}}
             relay == {x.tx : x \in {x \in block : ToRelay(s, x)}}
             txs(i) == {t \in relay : ls.map[RecipientOf[t]] = i}
             msg(i) == [type |-> "relay", from |-> s, to |-> i, seq |-> ls.seq, txs |-> txs(i)]
             info == [type |-> "info", from |-> s, seq |-> ls.seq, empty |-> block = {}, done |-> done, relay1 |-> relay]
             l == [ls EXCEPT !.pool = @ \ block, !.seq = @ + 1, !.ledger = State(s, block), !.block = TRUE,
                          !.trie = @ \cup Written(s, block)]
  <2>1. /\ leader' = [leader EXCEPT ![s] = l]
        /\ executed' = [t \in Txs |-> executed[t] + (IF t \in done THEN 1 ELSE 0)]
    BY Zenon, <1>0, <1>1, <1>4 DEF Inv1, Frame, Fields
  <2>2. /\ \A m : m \in net' <=> m \in net \/ (m = info /\ Reports) \/ \E i \in Others(s) : m = msg(i)
    <3>1. net' = net \cup {msg(i) : i \in Others(s)} \cup {info : r \in {r \in {TRUE} : Reports}}
      BY <1>1, <1>4, Zenon
    <3> HIDE DEF msg, info
    <3> QED
      BY Zenon, <3>1
  <2>3. l.pool = ls.pool \ block /\ l.pc = ls.pc /\ l.accts = ls.accts /\ l.seq = ls.seq + 1
    BY Zenon, <1>0 DEF Inv1, Frame, Fields
  <2>4. /\ info.type = "info" /\ Cargo(info) = {} /\ info.from = s /\ info.seq = ls.seq /\ info.done = done
        /\ info.relay1 = relay
        /\ \A i \in Others(s) : Cargo(msg(i)) = {Relayed(t) : t \in txs(i)} /\ msg(i).type = "relay"
    BY Zenon DEF Cargo
  <2>5. /\ \A t : t \in done <=> \E x \in block : x.tx = t /\ ~ToRelay(s, x)
        /\ \A t : t \in relay <=> \E x \in block : x.tx = t /\ ToRelay(s, x)
        /\ \A i : txs(i) \subseteq relay
    BY Zenon
  <2> HIDE DEF l, msg, info, txs, done, relay
  <2>6. leader'[s] = l /\ \A i \in Shards \ {s} : leader'[i] = leader[i]
    BY Zenon, <1>0, <2>1 DEF Inv1, Frame
  <2>7. \A m : m \in Infos' <=> m \in Infos \/ (m = info /\ Reports)
    BY Zenon, <2>2, <2>4 DEF Infos
  <2>8. \A x \in block : InPool(s, x) \in Spots(leader, net) /\ InPool(s, x).x = x
    BY ZenonT(120), <1>1, SpotIs, Apart
  <2>9. \A x \in block : x.tx \in Txs /\ executed[x.tx] = 0 /\ x.tx \notin unsent /\ x.tx \in scenario.txs
                         /\ (ToRelay(s, x) => Unrelayed(x.tx))
    <3> SUFFICES ASSUME NEW x \in block
                 PROVE  /\ x.tx \in Txs /\ executed[x.tx] = 0 /\ x.tx \notin unsent /\ x.tx \in scenario.txs
                        /\ (ToRelay(s, x) => Unrelayed(x.tx))
      BY Zenon
    <3> DEFINE p == InPool(s, x)
    <3>0. p \in Spots(leader, net) /\ p.x = x
      BY Zenon, <2>8
    <3> HIDE DEF p
    <3>1. p.x.tx \in Txs \ unsent /\ executed[p.x.tx] = 0
      BY Zenon, <1>0, <3>0 DEF Inv1, OneSpot
    <3>2. p.x.tx \in scenario.txs /\ (p.x.relayed \/ Unrelayed(p.x.tx))
      BY Zenon, <1>0, <3>0 DEF Inv3, Reported
    <3> QED
      BY Zenon, <3>0, <3>1, <3>2 DEF ToRelay
  <2>10. \A x \in block : \A p \in Spots(leader, net) : p.x.tx = x.tx => p = InPool(s, x)
    BY ZenonT(120), <1>0, <2>8 DEF Inv1, OneSpot
  <2>11. /\ \A t \in done : t \in Txs /\ t \in scenario.txs /\ executed[t] = 0
         /\ \A t \in relay : t \in scenario.txs /\ executed[t] = 0 /\ t \notin unsent /\ Unrelayed(t)
    <3>1. ASSUME NEW t \in done PROVE t \in Txs /\ t \in scenario.txs /\ executed[t] = 0
      <4>1. PICK x \in block : x.tx = t
        BY Zenon, <2>5
      <4> QED
        BY Zenon, <2>9, <4>1
    <3>2. ASSUME NEW t \in relay PROVE t \in scenario.txs /\ executed[t] = 0 /\ t \notin unsent /\ Unrelayed(t)
      <4>1. PICK x \in block : x.tx = t /\ ToRelay(s, x)
        BY Zenon, <2>5
      <4> QED
        BY Zenon, <2>9, <4>1
    <3> QED
      BY Zenon, <3>1, <3>2
  <2>12. \A t \in Txs : executed'[t] = IF t \in done THEN 1 ELSE executed[t]
    <3> SUFFICES ASSUME NEW t \in Txs PROVE executed'[t] = IF t \in done THEN 1 ELSE executed[t]
      BY Zenon
    <3>1. executed[t] \in {0, 1} /\ executed'[t] = executed[t] + (IF t \in done THEN 1 ELSE 0)
      BY Zenon, <1>0, <2>1 DEF Inv1, OneSpot
    <3>2. 0 + 0 = 0 /\ 0 + 1 = 1 /\ 1 + 0 = 1
      OBVIOUS
    <3>3. CASE t \in done
      BY Zenon, <2>11, <3>1, <3>2, <3>3
    <3>4. CASE t \notin done
      BY Zenon, <3>1, <3>2, <3>4
    <3> QED
      BY Zenon, <3>3, <3>4
  <2>13. \A t : Unrelayed(t) /\ t \notin relay => Unrelayed(t)'
    BY Zenon, <1>2, <2>4, <2>7 DEF Unrelayed
  <2>14. ASSUME NEW p \in Spots(leader', net')
         PROVE  p.x.tx \in scenario.txs /\ (p.x.relayed \/ Unrelayed(p.x.tx)')
    <3>1. (\E t \in relay : p.x = Relayed(t)) \/ (p \in Spots(leader, net) /\ \A x \in block : p # InPool(s, x))
      <4>1. CASE \E i \in Shards : \E x \in leader'[i].pool : p = InPool(i, x)
        <5>1. PICK i \in Shards : \E x \in leader'[i].pool : p = InPool(i, x)
          BY Zenon, <4>1
        <5>2. PICK x \in leader'[i].pool : p = InPool(i, x)
          BY Zenon, <5>1
        <5>3. x \in leader[i].pool /\ ~(i = s /\ x \in block)
          BY Zenon, <2>3, <2>6, <5>2
        <5>4. \A y : p = InPool(s, y) => i = s /\ x = y
          BY Zenon, <5>2 DEF InPool
        <5> QED
          BY Zenon, <5>2, <5>3, <5>4, SpotIs
      <4>2. CASE \E m \in net' : \E x \in Cargo(m) : p = InMsg(m, x)
        <5>1. PICK m \in net' : \E x \in Cargo(m) : p = InMsg(m, x)
          BY Zenon, <4>2
        <5>2. PICK x \in Cargo(m) : p = InMsg(m, x)
          BY Zenon, <5>1
        <5>3. p.x = x /\ \A y : p # InPool(s, y)
          BY Zenon, <5>2, Apart DEF InMsg, InPool
        <5>4. CASE m \in net
          BY Zenon, <5>2, <5>3, <5>4, SpotIs
        <5>5. CASE m = info
          BY ZenonT(30), <2>4, <5>5
        <5>6. CASE \E i \in Others(s) : m = msg(i)
          BY <2>4, <2>5, <5>3, <5>6
        <5> QED
          BY Zenon, <2>2, <5>4, <5>5, <5>6
      <4>3. CASE \E i \in Shards : \E m \in Aside(leader'[i]) : \E x \in m.txs : p = InAside(i, m, x)
        <5>1. \A i \in Shards : Aside(leader'[i]) = Aside(leader[i])
          BY Zenon, <2>3, <2>6 DEF Aside
        <5>2. \A y : p # InPool(s, y)
          BY <4>3 DEF InAside, InPool
        <5> QED
          BY Zenon, <4>3, <5>1, <5>2, SpotIs
      <4> QED
        BY <4>1, <4>2, <4>3, SpotIs
    <3>2. CASE \E t \in relay : p.x = Relayed(t)
      BY <2>11, <3>2 DEF Relayed
    <3>3. CASE p \in Spots(leader, net) /\ \A x \in block : p # InPool(s, x)
      <4>1. p.x.tx \notin relay
        BY <2>5, <2>10, <3>3
      <4> QED
        BY ZenonT(30), <2>13, <3>3, <4>1 DEF Inv3, Reported
    <3> QED
      BY ZenonT(30), <3>1, <3>2, <3>3
  <2>15. Reported'
    <3>1. /\ DOMAIN measures' = {"relay", "total", "cross"} /\ unsent' \subseteq scenario.txs
          /\ (\A t \in unsent' : Unrelayed(t)') /\ measures'.relay \subseteq scenario.txs
      BY Zenon, <1>2, <2>11, <2>13 DEF Inv3, Reported
    <3>2. \A t \in Txs : executed'[t] = 1 => t \in scenario.txs
      BY Zenon, <2>11, <2>12 DEF Inv3, Reported
    <3>3. \A m \in Infos' : /\ \A t \in m.done : t \in Txs /\ executed'[t] = 1
                            /\ m.relay1 \subseteq scenario.txs /\ m.relay1 \cap measures'.relay = {}
      <4> SUFFICES ASSUME NEW m \in Infos'
                   PROVE  /\ \A t \in m.done : t \in Txs /\ executed'[t] = 1
                          /\ m.relay1 \subseteq scenario.txs /\ m.relay1 \cap measures'.relay = {}
        BY Zenon
      <4>1. CASE m \in Infos
        BY Zenon, <1>2, <2>12, <4>1 DEF Inv3, Reported
      <4>2. CASE m = info
        BY ZenonT(30), <1>2, <2>4, <2>11, <2>12, <4>2 DEF Unrelayed
      <4> QED
        BY Zenon, <2>7, <4>1, <4>2
    <3>4. \A m \in Infos : m.done \cap done = {} /\ m.relay1 \cap relay = {}
      <4>0. 0 # 1
        OBVIOUS
      <4>1. \A m \in Infos : \A t \in m.done : t \notin done
        BY Zenon, <2>11, <4>0 DEF Inv3, Reported
      <4>2. \A m \in Infos : \A t \in m.relay1 : t \notin relay
        BY Zenon, <2>11 DEF Unrelayed
      <4> QED
        BY Zenon, <4>1, <4>2
    <3>5. \A m, n \in Infos' : m # n => m.done \cap n.done = {} /\ m.relay1 \cap n.relay1 = {}
      <4> SUFFICES ASSUME NEW m \in Infos', NEW n \in Infos', m # n
                   PROVE  m.done \cap n.done = {} /\ m.relay1 \cap n.relay1 = {}
        BY Zenon
      <4>0. (m \in Infos \/ m = info) /\ (n \in Infos \/ n = info) /\ ~(m = info /\ n = info)
        BY Zenon, <2>7
      <4>1. CASE m \in Infos /\ n \in Infos
        BY Zenon, <4>1 DEF Inv3, Reported
      <4>2. CASE m = info /\ n \in Infos
        BY Zenon, <2>4, <3>4, <4>2
      <4>3. CASE m \in Infos /\ n = info
        BY Zenon, <2>4, <3>4, <4>3
      <4> QED
        BY Zenon, <4>0, <4>1, <4>2, <4>3
    <3> QED
      BY ZenonT(30), <2>14, <3>1, <3>2, <3>3, <3>5 DEF Reported
  <2>16. /\ \A i \in Shards : leader[i].seq \in Nat /\ leader[i].seq >= 1
         /\ \A i \in Shards : leader'[i].seq = leader[i].seq + (IF i = s THEN 1 ELSE 0)
    BY <2>3, <2>6 DEF Inv3, Gap
  <2>17. Gap'
    <3>1. \A i \in Shards : leader'[i].seq \in Nat /\ leader'[i].seq >= 1
      BY <2>16
    <3>2. \A m \in Infos' : m.from \in Shards /\ m.seq \in Nat /\ m.seq >= 1 /\ m.seq < leader'[m.from].seq
      <4> SUFFICES ASSUME NEW m \in Infos'
                   PROVE  m.from \in Shards /\ m.seq \in Nat /\ m.seq >= 1 /\ m.seq < leader'[m.from].seq
        BY Zenon
      <4>1. CASE m \in Infos
        <5>1. m.from \in Shards /\ m.seq \in Nat /\ m.seq >= 1 /\ m.seq < leader[m.from].seq
          BY Zenon, <4>1 DEF Inv3, Gap
        <5> QED
          BY <2>16, <5>1
      <4>2. CASE m = info
        <5>1. \A k \in Nat : k < k + 1
          OBVIOUS
        <5>2. ls.seq \in Nat /\ ls.seq >= 1 /\ leader'[s].seq = ls.seq + 1
          BY Zenon, <2>3, <2>6, <2>16
        <5> QED
          BY Zenon, <2>4, <4>2, <5>1, <5>2
      <4> QED
        BY Zenon, <2>7, <4>1, <4>2
    <3>3. \A m \in Infos : ~(m.from = s /\ m.seq = ls.seq)
      <4> SUFFICES ASSUME NEW m \in Infos, m.from = s, m.seq = ls.seq PROVE FALSE
        BY Zenon
      <4>1. \A k \in Nat : ~(k < k)
        OBVIOUS
      <4> QED
        BY Zenon, <2>16, <4>1 DEF Inv3, Gap
    <3>4. \A m, n \in Infos' : m.from = n.from /\ m.seq = n.seq => m = n
      BY <2>4, <2>7, <3>3 DEF Inv3, Gap
    <3>5. stopGap' \in Nat
      BY Zenon, <1>2 DEF Inv3, Gap
    <3>6. ASSUME \A i \in Shards : leader'[i].seq <= 2 PROVE stopGap' <= Cardinality(HeardOf')
      <4>1. \A i \in Shards : leader[i].seq <= 2 /\ (i = s => leader[i].seq < 2)
        BY <2>16, <3>6
      <4>2. \A i \in HeardOf : i \in HeardOf'
        <5> SUFFICES ASSUME NEW i \in Shards, leader[i].seq >= 2, \A m \in Infos : m.from # i
                     PROVE  leader'[i].seq >= 2 /\ \A m \in Infos' : m.from # i
          BY Zenon DEF HeardOf
        <5>1. i # s
          BY <2>16, <4>1
        <5> QED
          BY Zenon, <2>4, <2>6, <2>7, <5>1
      <4>3. HeardOf' \subseteq Shards
        BY Zenon DEF HeardOf
      <4>4. HeardOf \in SUBSET HeardOf' /\ IsFiniteSet(HeardOf')
        BY Zenon, <4>2, <4>3, ScenarioAssumption, FS_Subset
      <4>5. Cardinality(HeardOf) <= Cardinality(HeardOf') /\ Cardinality(HeardOf') \in Nat /\ Cardinality(HeardOf) \in Nat
        BY Zenon, <4>4, FS_Subset, FS_CardinalityType
      <4>6. stopGap \in Nat /\ stopGap <= Cardinality(HeardOf)
        BY Zenon, <4>1 DEF Inv3, Gap
      <4> QED
        BY <1>2, <4>5, <4>6
    <3> QED
      BY ZenonT(30), <3>1, <3>2, <3>4, <3>5, <3>6 DEF Gap
  <2>18. StopAfterGap'
    BY <1>2, <2>16 DEF Inv3, StopAfterGap
  <2>19. Measured'
    <3> SUFFICES ASSUME Reports, "reports" \in Timely
                 PROVE  /\ \A n \in Infos' : n.relay1 \cap Counted' = {}
                        /\ measures'.total = Cardinality(measures'.relay) + Cardinality(Counted') + Cardinality(Counted' \ measures'.relay)
                        /\ measures'.cross = Cardinality(measures'.relay) + Cardinality(Counted' \cap measures'.relay)
      BY Zenon DEF Measured, Timely, Reports
    <3>1. \A t : t \in Counted' <=> t \in Txs /\ executed'[t] = 1 /\ \A n \in Infos' : t \notin n.done
      BY Zenon DEF Counted
    <3>2. \A t : t \in Counted <=> t \in Txs /\ executed[t] = 1 /\ \A n \in Infos : t \notin n.done
      BY Zenon DEF Counted
    <3>3. \A t : (\A n \in Infos' : t \notin n.done) <=> (t \notin done /\ \A n \in Infos : t \notin n.done)
      BY Zenon, <2>4, <2>7
    <3>4. \A t : t \in Counted' <=> t \in Counted
      BY <2>11, <2>12, <3>1, <3>2, <3>3
    <3>5. Counted' = Counted
      BY ZenonT(30), <3>4
    <3>6. \A n \in Infos' : n.relay1 \cap Counted = {}
      BY <2>4, <2>7, <2>11, <3>2 DEF Inv3, Measured
    <3> QED
      BY Zenon, <1>2, <3>5, <3>6 DEF Inv3, Measured
  <2> QED
    BY Zenon, <1>0, <2>15, <2>17, <2>18, <2>19 DEF Inv3
<1> QED
  BY Zenon, <1>3, <1>4

\* No step breaks the invariant of the reports.
LEMMA NextThree == Inv3 /\ [Next]_vars => Inv3'
<1> SUFFICES ASSUME Inv3, [Next]_vars PROVE Inv3'
  BY Zenon
<1>1. CASE UNCHANGED vars \/ (Next /\ died' # died)
  <2>1. UNCHANGED <<scenario, leader, net, unsent, sentMaps, modifiedMap, executed, measures, stopGap, stopped>>
    BY Zenon, <1>1, Dying DEF vars, committee, supervisor
  <2>2. Inv1'
    BY Zenon, NextOne DEF Inv3
  <2>3. Infos' = Infos
    BY ZenonT(30), <2>1 DEF Infos
  <2>4. \A i \in Shards : leader'[i].seq \in Nat /\ leader'[i].seq >= leader[i].seq
    BY <2>1 DEF Inv3, Gap
  <2> QED
    BY Zenon, <2>1, <2>2, <2>3, <2>4, MovesThree
<1>2. CASE Next /\ died' = died
  <2>1. UNCHANGED <<scenario, died>>
    BY Zenon, <1>2 DEF Next
  <2>2. ASSUME NEW m \in net, Handle(m) PROVE Inv3'
    <3>1. CASE m.type = "info"
      BY Zenon, <2>1, <2>2, <3>1, InfosThree DEF Handle, handleInjectTx, handleRelay, handlePartitionMsg,
         handlePartitionReady, handleAccountStateAndTxMsg
    <3> QED
      BY Zenon, <2>1, <2>2, <3>1, HandleThree
  <2> QED
    BY Zenon, <1>2, <2>1, <2>2, TxSendingThree, CommitteeThree, StopThree, BlockThree, PartitionThree DEF Next
<1> QED
  BY Zenon, <1>1, <1>2

\* With nothing on its way, what has been counted is the whole input.
LEMMA InvMeasures == Inv3 => SupervisorSound
<1> SUFFICES ASSUME Inv3, Reports, "reports" \in Timely, net = {}, \A t \in scenario.txs : executed[t] = 1
             PROVE  /\ measures.total = 2 * Cardinality(scenario.txs)
                    /\ measures.cross = 2 * Cardinality(measures.relay)
  BY Zenon DEF SupervisorSound, MeasuresExact, Inv3
<1>1. scenario.txs \subseteq Txs
  BY Zenon, ScenarioAssumption DEF Inv3, Inv1, Frame
<1>2. Counted = scenario.txs
  BY Zenon, <1>1 DEF Counted, Infos, Inv3, Reported
<1> DEFINE C == scenario.txs
           R == measures.relay
<1>3. IsFiniteSet(C) /\ R \in SUBSET C
  BY Zenon, FiniteSets3 DEF Inv3, Reported
<1>4. measures.total = Cardinality(R) + Cardinality(C) + Cardinality(C \ R) /\ measures.cross = Cardinality(R) + Cardinality(C \cap R)
  BY Zenon, <1>2 DEF Inv3, Measured
<1> HIDE DEF C, R
<1>5. C \cap R = R /\ IsFiniteSet(R)
  BY Zenon, <1>3, FS_Subset
<1>6. Cardinality(C \ R) = Cardinality(C) - Cardinality(R)
  BY ZenonT(30), <1>3, <1>5, FS_Difference
<1>7. Cardinality(C) \in Nat /\ Cardinality(R) \in Nat
  BY Zenon, <1>3, <1>5, FS_CardinalityType
<1>8. \A a, b \in Nat : b + a + (a - b) = 2 * a /\ b + b = 2 * b
  OBVIOUS
<1>9. measures.total = Cardinality(R) + Cardinality(C) + (Cardinality(C) - Cardinality(R))
      /\ measures.cross = Cardinality(R) + Cardinality(R)
  BY <1>4, <1>5, <1>6, Zenon
<1>10. measures.total = 2 * Cardinality(C) /\ measures.cross = 2 * Cardinality(R)
  BY Zenon, <1>7, <1>8, <1>9
<1> QED
  BY Zenon, <1>10 DEF C, R

\* However reports are ordered, the supervisor stops the shards only when all transactions have been
\* sent and some shard has been past its second round; and, when a report that a transaction was
\* relayed precedes the one that it was executed, the measures of handleBlockInfos count every
\* transaction once, and as across shards those that were relayed.
THEOREM SupervisorIsSound == Spec => []SupervisorSound
<1> QED
  BY InitThree, NextThree, InvMeasures, PTL DEF Spec
=============================================================================

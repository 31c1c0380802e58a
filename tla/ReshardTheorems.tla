-------------------------- MODULE ReshardTheorems --------------------------
(***************************************************************************)
(* The theorems about Reshard: a transaction is in one place at most, and  *)
(* with the timing that is relied on partitions are sound and nothing is   *)
(* lost.  ReshardProofs follows the transactions, HandOverProofs the       *)
(* accounts.                                                               *)
(***************************************************************************)
EXTENDS HandOverProofs, ReshardProofs

\* Places counts the spots of a transaction.
LEMMA PlacesAreSpots ==
    ASSUME Inv1, NEW t
    PROVE  \/ Places(t) = 0 /\ ~\E p \in Spots(leader, net) : p.x.tx = t
           \/ Places(t) = 1 /\ \E p \in Spots(leader, net) : p.x.tx = t
<1> DEFINE A == {s \in Shards : \E x \in leader[s].pool : x.tx = t}
           B == {m \in net : \/ m.type = "inject" /\ m.tx = t
                             \/ m.type = "relay" /\ t \in m.txs
                             \/ m.type = "accounts" /\ \E x \in m.txs : x.tx = t}
           C == {h \in UNION {{s} \X leader[s].accts : s \in Shards} :
                       leader[h[1]].pc # "commit" /\ \E x \in h[2].txs : x.tx = t}
<1>1. Places(t) = Cardinality(A) + Cardinality(B) + Cardinality(C)
  BY Zenon DEF Places
<1>2. \A s : s \in A <=> s \in Shards /\ \E x \in leader[s].pool : x.tx = t
  BY Zenon
<1>3. \A m : m \in B <=> m \in net /\ \E x \in Cargo(m) : x.tx = t
  <2>1. \A u : Fresh(u).tx = u /\ Relayed(u).tx = u
    BY Zenon DEF Fresh, Relayed
  <2> SUFFICES ASSUME NEW m \in net PROVE m \in B <=> \E x \in Cargo(m) : x.tx = t
    BY Zenon
  <2>2. CASE m.type = "inject"
    BY Zenon, <2>1, <2>2 DEF Cargo
  <2>3. CASE m.type = "relay"
    <3>1. Cargo(m) = {Relayed(u) : u \in m.txs} /\ (m \in B <=> t \in m.txs)
      BY Zenon, <2>3 DEF Cargo
    <3> QED
      BY <2>1, <3>1
  <2>4. CASE m.type = "accounts"
    BY Zenon, <2>4 DEF Cargo
  <2>5. CASE m.type \notin {"inject", "relay", "accounts"}
    BY Zenon, <2>5 DEF Cargo
  <2> QED
    BY Zenon, <2>2, <2>3, <2>4, <2>5
<1>4. \A h : h \in C <=> \E s \in Shards : \E m \in Aside(leader[s]) : h = <<s, m>> /\ \E x \in m.txs : x.tx = t
  <2>1. ASSUME NEW h \in C
        PROVE  \E s \in Shards : \E m \in Aside(leader[s]) : h = <<s, m>> /\ \E x \in m.txs : x.tx = t
    <3>1. PICK s \in Shards : h \in {s} \X leader[s].accts
      BY Zenon, <2>1
    <3>2. PICK m \in leader[s].accts : h = <<s, m>>
      BY <3>1
    <3>3. h[1] = s /\ h[2] = m
      BY Zenon, <3>2
    <3> QED
      BY Zenon, <2>1, <3>2, <3>3 DEF Aside
  <2>2. ASSUME NEW s \in Shards, NEW m \in Aside(leader[s]), \E x \in m.txs : x.tx = t
        PROVE  <<s, m>> \in C
    <3>1. m \in leader[s].accts /\ leader[s].pc # "commit"
      BY Zenon, <2>2 DEF Aside
    <3>2. <<s, m>> \in {s} \X leader[s].accts
      BY Zenon, <3>1
    <3>3. <<s, m>> \in UNION {{i} \X leader[i].accts : i \in Shards}
      BY Zenon, <3>2
    <3> QED
      BY Zenon, <2>2, <3>1, <3>3
  <2> QED
    BY <2>1, <2>2
<1> HIDE DEF A, B, C
<1>5. Cardinality({}) = 0 /\ \A x : Cardinality({x}) = 1
  BY Zenon, FS_EmptySet, FS_Singleton
<1>6. CASE ~\E p \in Spots(leader, net) : p.x.tx = t
  <2>1. A = {}
    <3> SUFFICES ASSUME NEW s \in A PROVE FALSE
      BY Zenon
    <3>1. PICK x \in leader[s].pool : x.tx = t
      BY Zenon, <1>2
    <3> QED
      BY <1>2, <1>6, <3>1, SpotOf
  <2>2. B = {}
    <3> SUFFICES ASSUME NEW m \in B PROVE FALSE
      BY Zenon
    <3>1. PICK x \in Cargo(m) : x.tx = t
      BY Zenon, <1>3
    <3> QED
      BY <1>3, <1>6, <3>1, SpotOf
  <2>3. C = {}
    <3> SUFFICES ASSUME NEW s \in Shards, NEW m \in Aside(leader[s]), NEW x \in m.txs, x.tx = t PROVE FALSE
      BY Zenon, <1>4
    <3> QED
      BY <1>6, SpotOf
  <2> QED
    <3>1. 0 + 0 + 0 = 0
      OBVIOUS
    <3> QED
      BY Zenon, <1>1, <1>5, <1>6, <2>1, <2>2, <2>3, <3>1
<1>7. CASE \E p \in Spots(leader, net) : p.x.tx = t
  <2>1. PICK p \in Spots(leader, net) : p.x.tx = t
    BY Zenon, <1>7
  <2>2. \A s \in A : \E x \in leader[s].pool : p = InPool(s, x)
    <3> SUFFICES ASSUME NEW s \in A PROVE \E x \in leader[s].pool : p = InPool(s, x)
      BY Zenon
    <3>1. PICK x \in leader[s].pool : x.tx = t
      BY Zenon, <1>2
    <3>2. InPool(s, x) \in Spots(leader, net) /\ InPool(s, x).x.tx = t
      BY <1>2, <3>1, SpotOf
    <3> QED
      BY Zenon, <2>1, <3>2 DEF Inv1, OneSpot
  <2>3. \A m \in B : \E x \in Cargo(m) : p = InMsg(m, x)
    <3> SUFFICES ASSUME NEW m \in B PROVE \E x \in Cargo(m) : p = InMsg(m, x)
      BY Zenon
    <3>1. PICK x \in Cargo(m) : x.tx = t
      BY Zenon, <1>3
    <3>2. InMsg(m, x) \in Spots(leader, net) /\ InMsg(m, x).x.tx = t
      BY Zenon, <1>3, <3>1, SpotOf
    <3> QED
      BY Zenon, <2>1, <3>2 DEF Inv1, OneSpot
  <2>4. \A h \in C : \E s \in Shards : \E m \in Aside(leader[s]) : \E x \in m.txs : h = <<s, m>> /\ p = InAside(s, m, x)
    <3> SUFFICES ASSUME NEW h \in C
                 PROVE  \E s \in Shards : \E m \in Aside(leader[s]) : \E x \in m.txs : h = <<s, m>> /\ p = InAside(s, m, x)
      BY Zenon
    <3>1. PICK s \in Shards : \E m \in Aside(leader[s]) : h = <<s, m>> /\ \E x \in m.txs : x.tx = t
      BY Zenon, <1>4
    <3>2. PICK m \in Aside(leader[s]) : h = <<s, m>> /\ \E x \in m.txs : x.tx = t
      BY Zenon, <3>1
    <3>3. PICK x \in m.txs : x.tx = t
      BY Zenon, <3>2
    <3>4. InAside(s, m, x) \in Spots(leader, net) /\ InAside(s, m, x).x.tx = t
      BY <3>2, <3>3, SpotOf
    <3> QED
      BY Zenon, <2>1, <3>2, <3>4 DEF Inv1, OneSpot
  <2>5. CASE \E s \in Shards : \E x \in leader[s].pool : p = InPool(s, x)
    <3>1. PICK s \in Shards : \E x \in leader[s].pool : p = InPool(s, x)
      BY Zenon, <2>5
    <3>2. PICK x \in leader[s].pool : p = InPool(s, x)
      BY Zenon, <3>1
    <3>3. s \in A
      BY <1>2, <2>1, <3>2, Apart
    <3>4. \A i \in A : i = s
      BY Zenon, <2>2, <3>2 DEF InPool
    <3>5. B = {}
      BY Zenon, <2>3, <3>2 DEF InPool, InMsg
    <3>6. C = {}
      BY Zenon, <2>4, <3>2 DEF InPool, InAside
    <3>7. A = {s}
      BY Zenon, <3>3, <3>4
    <3>9. Cardinality(A) = 1 /\ Cardinality(B) = 0 /\ Cardinality(C) = 0
      BY Zenon, <1>5, <3>5, <3>6, <3>7
    <3>10. Places(t) = 1
      BY <1>1, <3>9
    <3> QED
      BY Zenon, <1>7, <3>10
  <2>6. CASE \E m \in net : \E x \in Cargo(m) : p = InMsg(m, x)
    <3>1. PICK m \in net : \E x \in Cargo(m) : p = InMsg(m, x)
      BY Zenon, <2>6
    <3>2. PICK x \in Cargo(m) : p = InMsg(m, x)
      BY Zenon, <3>1
    <3>3. m \in B
      BY <1>3, <2>1, <3>2, Apart
    <3>4. \A n \in B : n = m
      BY Zenon, <2>3, <3>2 DEF InMsg
    <3>5. A = {}
      BY Zenon, <2>2, <3>2 DEF InPool, InMsg
    <3>6. C = {}
      BY Zenon, <2>4, <3>2 DEF InMsg, InAside
    <3>7. B = {m}
      BY Zenon, <3>3, <3>4
    <3>9. Cardinality(A) = 0 /\ Cardinality(B) = 1 /\ Cardinality(C) = 0
      BY Zenon, <1>5, <3>5, <3>6, <3>7
    <3>10. Places(t) = 1
      BY <1>1, <3>9
    <3> QED
      BY Zenon, <1>7, <3>10
  <2>7. CASE \E s \in Shards : \E m \in Aside(leader[s]) : \E x \in m.txs : p = InAside(s, m, x)
    <3>1. PICK s \in Shards : \E m \in Aside(leader[s]) : \E x \in m.txs : p = InAside(s, m, x)
      BY Zenon, <2>7
    <3>2. PICK m \in Aside(leader[s]) : \E x \in m.txs : p = InAside(s, m, x)
      BY Zenon, <3>1
    <3>3. PICK x \in m.txs : p = InAside(s, m, x)
      BY Zenon, <3>2
    <3>4. <<s, m>> \in C
      BY <1>4, <2>1, <3>3, Apart
    <3>5. \A h \in C : h = <<s, m>>
      BY Zenon, <2>4, <3>3 DEF InAside
    <3>6. A = {}
      BY Zenon, <2>2, <3>3 DEF InPool, InAside
    <3>7. B = {}
      BY Zenon, <2>3, <3>3 DEF InMsg, InAside
    <3>8. C = {<<s, m>>}
      BY Zenon, <3>4, <3>5
    <3>9. Cardinality(A) = 0 /\ Cardinality(B) = 0 /\ Cardinality(C) = 1
      BY ZenonT(30), <1>5, <3>6, <3>7, <3>8
    <3>10. Places(t) = 1
      BY <1>1, <3>9
    <3> QED
      BY Zenon, <1>7, <3>10
  <2> QED
    BY <2>1, <2>5, <2>6, <2>7, SpotIs
<1> QED
  BY Zenon, <1>6, <1>7

\* A transaction with at most one spot is in at most one place, and in none once executed.
LEMMA OneGivesNever == Inv1 => NeverTwice
<1> SUFFICES ASSUME Inv1, NEW t \in scenario.txs
             PROVE  Places(t) + executed[t] + (IF t \in unsent THEN 1 ELSE 0) <= 1
  BY Zenon DEF NeverTwice
<1>1. t \in Txs
  BY Zenon, ScenarioTypes DEF Inv1, Frame
<1>2. CASE Places(t) = 0 /\ ~\E p \in Spots(leader, net) : p.x.tx = t
  BY <1>1, <1>2 DEF Inv1, OneSpot
<1>3. CASE Places(t) = 1 /\ \E p \in Spots(leader, net) : p.x.tx = t
  <2>1. t \notin unsent /\ executed[t] = 0
    BY Zenon, <1>3 DEF Inv1, OneSpot
  <2> QED
    BY <1>3, <2>1
<1> QED
  BY Zenon, <1>2, <1>3, PlacesAreSpots

\* However the messages of relays, partitions and reports are ordered, no transaction is in two
\* places (pools, messages, accounts put aside) or executed twice: TxPool, handleRelay,
\* handleAccountStateAndTxMsg and sendAccounts_and_Txs only ever move it.
THEOREM NeverInTwoPlaces == Spec => []NeverTwice
<1>1. Init => Inv1
  BY Zenon, InitOne
<1>2. Inv1 /\ [Next]_vars => Inv1'
  BY Zenon, NextOne
<1> QED
  BY <1>1, <1>2, OneGivesNever, PTL DEF Spec

\* AccountStateTx has an entry of every other shard when it has as many.
LEMMA Counting == Pigeonhole
<1> SUFFICES ASSUME NEW A, NEW s \in Shards, \A m \in A : m.from \in Others(s),
                    \A m, n \in A : m.from = n.from => m = n, Cardinality(A) = Cardinality(Shards) - 1
             PROVE  \A i \in Others(s) : \E m \in A : m.from = i
  BY Zenon DEF Pigeonhole
<1> DEFINE f == [m \in A |-> m.from]
<1>1. IsFiniteSet(Others(s)) /\ Cardinality(Others(s)) = Cardinality(Shards) - 1
  BY Zenon, ScenarioAssumption, FS_RemoveElement DEF Others
<1>2. f \in Injection(A, Others(s))
  BY Zenon DEF Injection, IsInjective
<1>3. f \in Surjection(A, Others(s))
  BY Zenon, <1>1, <1>2, FS_Injection
<1> QED
  BY Zenon, <1>3 DEF Surjection

\* Without a pool a main node gets no further than to say that it is ready.
Bare ==
    ~HasPool => NothingWithoutPool /\ \A s \in Shards : leader[s].pc \in {"propose", "ready"}

\* The inductive invariant: a transaction is in at most one spot, and with the timing that is
\* relied on it is in one while it is neither unsent nor executed.
Inv ==
    Inv1 /\ Bare /\ (OnTime => Somewhere /\ \E old \in [Accounts -> Shards] : Inv2(old))

\* Main nodes that have no pool handle maps and messages that others are ready, and say so
\* themselves; everything else is the death of them.
LEMMA BareNext ==
    ASSUME Inv1, Bare, [Next]_vars
    PROVE  Bare'
<1> SUFFICES ASSUME ~HasPool'
             PROVE  NothingWithoutPool' /\ \A s \in Shards : leader'[s].pc \in {"propose", "ready"}
  BY Zenon DEF Bare
<1>1. UNCHANGED scenario /\ ~HasPool /\ DOMAIN leader = Shards /\ \A s \in Shards : DOMAIN leader[s] = Fields
  BY Zenon DEF Next, vars, HasPool, Inv1, Frame
<1>2. /\ \A t \in Txs : executed[t] = 0
      /\ \A s \in Shards : /\ leader[s].pool = {} /\ leader[s].seq = 1 /\ leader[s].transfers = 0
                           /\ leader[s].pc \in {"propose", "ready"}
      /\ \A m \in net : m.type \in {"inject", "map", "ready"} /\ m.to \in Shards
  BY Zenon, <1>1 DEF Bare, NothingWithoutPool, Inv1, Frame
<1> DEFINE Goal == /\ \A t \in Txs : executed'[t] = 0
                   /\ \A s \in Shards : /\ leader'[s].pool = {} /\ leader'[s].seq = 1 /\ leader'[s].transfers = 0
                                        /\ leader'[s].pc \in {"propose", "ready"}
                   /\ \A m \in net' : m.type \in {"inject", "map", "ready"}
<1>3. SUFFICES Goal
  BY Zenon DEF NothingWithoutPool
<1>4. ASSUME UNCHANGED <<leader, executed>>, \A m \in net' : m \in net \/ m.type \in {"inject", "map"} PROVE Goal
  BY Zenon, <1>2, <1>4
<1>5. ASSUME NEW s \in Shards, NEW l, leader' = [leader EXCEPT ![s] = l], UNCHANGED executed,
             l.pool = {}, l.seq = 1, l.transfers = 0, l.pc \in {"propose", "ready"},
             \A m \in net' : m \in net \/ m.type = "ready"
      PROVE  Goal
  <2>1. leader'[s] = l /\ \A i \in Shards \ {s} : leader'[i] = leader[i]
    BY Zenon, <1>1, <1>5
  <2> QED
    BY Zenon, <1>2, <1>5, <2>1
<1>6. CASE UNCHANGED vars \/ (Next /\ died' # died)
  <2>1. UNCHANGED <<leader, net, executed>>
    BY Zenon, <1>6, Dying DEF vars
  <2> QED
    BY Zenon, <1>4, <2>1
<1>7. CASE Next /\ died' = died
  <2>1. \A s : ~Dies(s)
    BY Zenon, <1>7, Living
  <2>2. ASSUME NEW t \in Txs, TxSending(t) PROVE Goal
    <3>1. UNCHANGED <<leader, executed>>
      BY Zenon, <2>2 DEF TxSending
    <3>2. \A m \in net' : m \in net \/ m.type = "inject"
      BY <2>2 DEF TxSending
    <3> QED
      BY Zenon, <1>4, <3>1, <3>2
  <2>3. CASE clpaMapSend
    <3>1. UNCHANGED <<leader, executed>>
      BY Zenon, <2>3 DEF clpaMapSend
    <3>2. \A m \in net' : m \in net \/ m.type = "map"
      BY <2>3 DEF clpaMapSend
    <3> QED
      BY Zenon, <1>4, <3>1, <3>2
  <2>4. CASE SupervisorStop
    <3>1. UNCHANGED <<leader, net, executed>>
      BY Zenon, <2>4 DEF SupervisorStop
    <3> QED
      BY Zenon, <1>4, <3>1
  <2>5. ASSUME NEW m \in net, Handle(m) PROVE Goal
    <3> DEFINE s == m.to
               k == [leader[s] EXCEPT !.maps = Append(@, m.id), !.on = TRUE]
               l == [leader[s] EXCEPT !.ready = @ \cup {m.from}, !.readySeq = Put(@, m.from, m.seq)]
    <3>1. s \in Shards /\ m.type \in {"inject", "map", "ready"}
      BY Zenon, <1>2
    <3>2. Receive(m, s, k) \/ Receive(m, s, l)
      BY Zenon, <1>1, <2>1, <2>5, <3>1 DEF Handle, handleInjectTx, handleRelay, handlePartitionMsg,
         handlePartitionReady, handleAccountStateAndTxMsg, handleBlockInfos
    <3>3. /\ k.pool = {} /\ k.seq = 1 /\ k.transfers = 0 /\ k.pc \in {"propose", "ready"}
          /\ l.pool = {} /\ l.seq = 1 /\ l.transfers = 0 /\ l.pc \in {"propose", "ready"}
      BY Zenon, <1>1, <1>2, <3>1 DEF Fields
    <3> HIDE DEF s, k, l
    <3>4. (leader' = [leader EXCEPT ![s] = k] \/ leader' = [leader EXCEPT ![s] = l]) /\ UNCHANGED executed
          /\ \A n \in net' : n \in net
      BY Zenon, <3>2 DEF Receive
    <3> QED
      BY Zenon, <1>5, <3>1, <3>3, <3>4
  <2>6. ASSUME NEW s \in Shards, Block(s) PROVE Goal
    BY Zenon, <1>1, <2>1, <2>6 DEF Block
  <2>7. ASSUME NEW s \in Shards, Partition(s) PROVE Goal
    <3> DEFINE l == [leader[s] EXCEPT !.ready = @ \cup {s}, !.pc = "ready"]
    <3>1. leader[s].pc \notin {"collect", "commit"}
      BY Zenon, <1>2
    <3>2. sendPartitionReady(s)
      BY Zenon, <1>1, <2>1, <2>7, <3>1 DEF Partition, sendAccounts_and_Txs, proposePartition, accountTransfer_do
    <3>3. leader' = [leader EXCEPT ![s] = l] /\ UNCHANGED executed
      BY Zenon, <1>1, <3>2 DEF sendPartitionReady, Fields
    <3>5. \A m \in net' : m \in net \/ m.type = "ready"
      BY <3>2 DEF sendPartitionReady
    <3>4. l.pool = {} /\ l.seq = 1 /\ l.transfers = 0 /\ l.pc \in {"propose", "ready"}
      BY Zenon, <1>1, <1>2 DEF Fields
    <3> HIDE DEF l
    <3> QED
      BY Zenon, <1>5, <3>3, <3>4, <3>5
  <2> QED
    BY Zenon, <1>7, <2>2, <2>3, <2>4, <2>5, <2>6, <2>7 DEF Next
<1> QED
  BY Zenon, <1>6, <1>7

\* The inductive invariant holds initially.
LEMMA InitInv == Init => Inv
<1> SUFFICES ASSUME Init PROVE Inv
  BY Zenon
<1>1. Inv1
  BY Zenon, InitOne
<1>2. Somewhere /\ Inv2(Addr2Shard)
  BY Zenon, InitOne, InitTimed
<1>3. Bare
  BY Zenon DEF Init, NewLeader, Bare, NothingWithoutPool
<1> QED
  BY Zenon, <1>1, <1>2, <1>3, ScenarioAssumption DEF Inv

\* The inductive invariant is preserved.
LEMMA NextInv == Inv /\ [Next]_vars => Inv'
<1> SUFFICES ASSUME Inv, [Next]_vars PROVE Inv'
  BY Zenon
<1>1. Inv1'
  BY Zenon, NextOne DEF Inv
<1>2. UNCHANGED scenario
  BY Zenon DEF Next, vars
<1>3. ASSUME OnTime' PROVE Somewhere' /\ \E new \in [Accounts -> Shards] : Inv2(new)'
  <2>1. OnTime
    BY Zenon, <1>2, <1>3 DEF OnTime, Maps, Timely
  <2>2. PICK old \in [Accounts -> Shards] : Inv2(old)
    BY Zenon, <2>1 DEF Inv
  <2>3. Frame /\ Inv1 /\ Somewhere
    BY Zenon, <2>1 DEF Inv, Inv1
  <2>4. Keeps
    BY Zenon, <2>2, <2>3, TimedKeeps DEF Keeps
  <2>5. Somewhere'
    BY Zenon, <2>3, <2>4, NextOne
  <2>6. \E new \in [Accounts -> Shards] : Inv2(new)'
    BY Zenon, <2>1, <2>2, <2>3, Counting, NextTimed
  <2> QED
    BY Zenon, <2>5, <2>6
<1>4. Bare'
  BY Zenon, BareNext DEF Inv
<1> QED
  BY Zenon, <1>1, <1>3, <1>4 DEF Inv

\* Nothing is lost.
LEMMA InvConserves == Inv => TransactionsSound
<1> SUFFICES ASSUME Inv PROVE TransactionsSound
  BY Zenon
<1>1. NeverTwice
  BY Zenon, OneGivesNever DEF Inv
<1>2. ASSUME OnTime, NEW t \in scenario.txs
      PROVE  Places(t) + executed[t] + (IF t \in unsent THEN 1 ELSE 0) = 1
  <2>1. t \in Txs
    BY Zenon, ScenarioTypes DEF Inv, Inv1, Frame
  <2>2. Somewhere /\ Inv1
    BY Zenon, <1>2 DEF Inv
  <2>3. executed[t] \in {0, 1} /\ (t \in unsent => executed[t] = 0)
    BY Zenon, <2>1, <2>2 DEF Inv1, OneSpot
  <2>4. CASE Places(t) = 0 /\ ~\E p \in Spots(leader, net) : p.x.tx = t
    <3>1. t \in unsent \/ executed[t] # 0
      BY Zenon, <2>2, <2>4 DEF Somewhere
    <3> QED
      BY <2>3, <2>4, <3>1
  <2>5. CASE Places(t) = 1 /\ \E p \in Spots(leader, net) : p.x.tx = t
    <3>1. t \notin unsent /\ executed[t] = 0
      BY Zenon, <2>2, <2>5 DEF Inv1, OneSpot
    <3> QED
      BY <2>5, <3>1
  <2> QED
    BY Zenon, <2>2, <2>4, <2>5, PlacesAreSpots
<1>3. NothingWithoutPool
  BY Zenon DEF Inv, Bare, NothingWithoutPool
<1> QED
  BY Zenon, <1>1, <1>2, <1>3 DEF TransactionsSound, Conserved

\* Partitions are sound.
LEMMA InvHandsOver == Inv => HandOverSound
<1> SUFFICES ASSUME Inv, OnTime PROVE HandOverSound
  BY Zenon DEF HandOverSound, NoPanic, LastRoundsOver, RoundsCounted, AccountsAtHome
<1>1. PICK old \in [Accounts -> Shards] : Inv2(old)
  BY Zenon DEF Inv
<1> QED
  BY Zenon, <1>1, TimedHandsOver DEF Inv, Inv1

\* Without a Txpool, as on the chain that pbft.go makes, no transaction is ever executed or in
\* a pool: the main nodes die first.  With one, however messages are ordered, none is in two
\* places or executed twice, and with the timing that is relied on (relays in order and ahead
\* of the ready messages, no map while transactions are injected or a partition is under way)
\* none is lost: at any moment it is unsent, in one pool or message or put aside, or executed.
\* What is in the pool of a main node that has died, or on its way there, stays there.
THEOREM NothingLost == Spec => []TransactionsSound
BY InitInv, NextInv, InvConserves, PTL DEF Spec

\* With that timing, and whichever main nodes die on the way, none ever finds a transaction
\* that is not for its shard (the log.Panic of HandleinCommit and proposePartition), hands
\* over accounts while a relay of an earlier block is on its way to it, or loses count of
\* the maps; and after every partition that all of them have survived, each account is at
\* home in one shard for all, with every transfer that was made for it anywhere.
THEOREM PartitionsSound == Spec => []HandOverSound
BY InitInv, NextInv, InvHandsOver, PTL DEF Spec
=============================================================================

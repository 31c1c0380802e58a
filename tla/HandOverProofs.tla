--------------------------- MODULE HandOverProofs ---------------------------
(***************************************************************************)
(* With the timing that is relied on, a partition is carried out as its    *)
(* map says: the invariant of the hand-over under OnTime.                  *)
(*                                                                         *)
(* Between two maps a main node goes through five stages, and the          *)
(* invariant says how far the others can be when one is at a stage, which  *)
(* of the two maps the contents of every pool and message go by, and where *)
(* the full state of every account is.                                     *)
(***************************************************************************)
EXTENDS Reshard, TLAPS

\* The stages: 0 the map is on its way, 1 it has arrived, 2 the node is ready, 3 it has
\* handed over its accounts, 4 it has proposed the partition, 5 it has committed it.
Stage(l, k) ==
    IF l.pc = "commit" THEN 4 ELSE IF l.pc = "collect" THEN 3 ELSE IF l.pc = "ready" THEN 2
    ELSE IF l.on THEN 1 ELSE IF Len(l.maps) = k THEN 5 ELSE 0

St(s) == Stage(leader[s], sentMaps)

\* The account whose shard a transaction of a pool is for.
Addr(rec, x) == IF x.relayed THEN rec[x.tx] ELSE Sender[x.tx]

\* The accounts a modified map gives to the shard.
Given(map, s) == {a \in DOMAIN map : map[a] = s}

\* The state of one main node: k maps have been sent, the last of which turned old into new.
Local(l, s, k, old, new, rec) ==
    /\ l.pc \in {"propose", "ready", "collect", "commit"} /\ l.on \in BOOLEAN
    /\ Stage(l, k) < 5 => k >= 1
    /\ l.maps \in Seq(Nat) /\ (\A i \in 1 .. Len(l.maps) : l.maps[i] = i)
    /\ Len(l.maps) = (IF Stage(l, k) = 0 THEN k - 1 ELSE k)
    /\ l.transfers = (IF Stage(l, k) = 5 THEN k ELSE k - 1) /\ l.round = l.transfers
    /\ l.map = (IF Stage(l, k) = 5 THEN new ELSE old)
    /\ l.seq \in Nat /\ DOMAIN l.ledger = Accounts
    /\ l.pool \subseteq Entries
    /\ \A x \in l.pool : (IF Stage(l, k) <= 2 THEN old ELSE new)[Addr(rec, x)] = s

\* What it has been sent by the others.
Heard(l, s, k) ==
    /\ l.accts # {} => Stage(l, k) \in 2 .. 4
    /\ \A m, n \in l.accts : m.from = n.from => m = n
    /\ l.over \in BOOLEAN /\ (l.over => \A i \in Others(s) : \E m \in l.accts : m.from = i)
    /\ Stage(l, k) = 4 => l.over /\ l.atm.map = k /\ l.atm.id = k
                          /\ l.atm.states = ReceivedNewAccountState(l.accts)
    /\ l.ready \subseteq Shards /\ (Stage(l, k) = 5 => l.ready = {})
    /\ Stage(l, k) \in {3, 4} => l.ready = Shards

Locals(old) ==
    \A s \in Shards : /\ Local(leader[s], s, sentMaps, old, modifiedMap, RecipientOf)
                      /\ Heard(leader[s], s, sentMaps)

\* A message with accounts for the shard s, on its way or put aside.
HandOver(m, s, old) ==
    /\ sentMaps >= 1 /\ m.from \in Others(s) /\ St(m.from) >= 3 /\ m.txs \subseteq Entries
    /\ \A x \in m.txs : Addr(RecipientOf, x) \in Given(Maps[sentMaps], s)
    /\ DOMAIN m.states = {a \in Given(Maps[sentMaps], s) : old[a] = m.from}
    /\ \A a \in DOMAIN m.states : m.states[a] = leader[m.from].ledger[a]

Asides(old) == \A s \in Shards : \A m \in leader[s].accts : HandOver(m, s, old)

NoRelay(i, s) == \A m \in net : ~(m.type = "relay" /\ m.from = i /\ m.to = s)

ReadyHeard ==
    \A s \in Shards : \A i \in leader[s].ready :
        /\ St(i) >= 2
        /\ St(s) <= 2 /\ i # s =>
              /\ St(i) \in {2, 3} /\ i \in DOMAIN leader[s].readySeq /\ leader[s].readySeq[i] = leader[i].seq
              /\ i \in DOMAIN leader[s].seqIDMap \/ NoRelay(i, s)

Behind ==
    \A s, i \in Shards : (St(s) >= 3 => St(i) >= 2) /\ (St(s) >= 4 => s = i \/ St(i) >= 3)

InjectOK == \A m \in net : m.type = "inject" =>
    m.tx \in Txs /\ m.to = modifiedMap[Sender[m.tx]] /\ \A s \in Shards : St(s) = 5

MapOK == \A m \in net : m.type = "map" => m.to \in Shards /\ m.id = sentMaps /\ St(m.to) = 0

RelayOK(old) == \A m \in net : m.type = "relay" =>
    /\ m.from \in Shards /\ m.to \in Others(m.from) /\ m.seq \in Nat /\ m.seq < leader[m.from].seq
    /\ m.txs \subseteq Txs
    /\ \A t \in m.txs : (IF St(m.from) = 5 THEN modifiedMap ELSE old)[RecipientOf[t]] = m.to
    /\ St(m.from) \in 2 .. 4 => St(m.to) <= 2
    /\ Maps # <<>> /\ m.from \in DOMAIN leader[m.to].seqIDMap => leader[m.to].seqIDMap[m.from] < m.seq

\* No block is known by its relays before it has been committed.
RelaysPast ==
    \A s, i \in Shards : i \in DOMAIN leader[s].seqIDMap =>
        leader[s].seqIDMap[i] \in Nat /\ leader[s].seqIDMap[i] < leader[i].seq

ReadyOK == \A m \in net : m.type = "ready" =>
    /\ m.from \in Shards /\ m.to \in Others(m.from) /\ St(m.from) \in {2, 3} /\ St(m.to) <= 2
    /\ m.from \notin leader[m.to].ready /\ m.seq = leader[m.from].seq

AccountsOK(old) == \A m \in net : m.type = "accounts" =>
    /\ m.to \in Shards /\ HandOver(m, m.to, old) /\ St(m.to) \in {2, 3}
    /\ \A n \in leader[m.to].accts : n.from # m.from

Alike(m, n) ==
    /\ m.type = n.type /\ m.type \in {"relay", "map", "ready", "accounts"} /\ m.to = n.to
    /\ m.type # "map" => m.from = n.from
    /\ m.type = "relay" => m.seq = n.seq

Distinct == \A m, n \in net : Alike(m, n) => m = n

\* The shard that has the full state of the account.
Holder(a, old) == IF St(modifiedMap[a]) = 5 THEN modifiedMap[a] ELSE old[a]

LedgerOK(old) ==
    \A a \in Accounts, s \in Shards : leader[s].ledger[a] \subseteq leader[Holder(a, old)].ledger[a]

MapsOK(old) ==
    /\ old \in [Accounts -> Shards]
    /\ sentMaps >= 1 => modifiedMap = Over(Maps[sentMaps], old)

Messages(old) ==
    InjectOK /\ MapOK /\ RelayOK(old) /\ ReadyOK /\ AccountsOK(old) /\ Distinct

Inv2(old) ==
    /\ MapsOK(old) /\ panicked = {} /\ Locals(old) /\ Asides(old) /\ ReadyHeard /\ Behind
    /\ RelaysPast /\ Messages(old) /\ LedgerOK(old)

\* The counting behind CollectOver: with as many messages as there are other shards, and no
\* two from the same, there is one from every other shard.
Pigeonhole ==
    \A A : \A s \in Shards :
        /\ \A m \in A : m.from \in Others(s)
        /\ \A m, n \in A : m.from = n.from => m = n
        /\ Cardinality(A) = Cardinality(Shards) - 1
        => \A i \in Others(s) : \E m \in A : m.from = i

-----------------------------------------------------------------------------
\* What the assumption on the scenarios says of the one that runs.
LEMMA MapTypes ==
    ASSUME scenario \in Scenarios
    PROVE  /\ scenario.txs \subseteq Txs /\ RecipientOf \in [Txs -> Accounts]
           /\ Maps \in Seq(UNION {[as -> Shards] : as \in SUBSET Accounts})
           /\ \A k \in 1 .. Len(Maps) : /\ DOMAIN Maps[k] \subseteq Accounts
                                        /\ \A a \in DOMAIN Maps[k] : Maps[k][a] \in Shards
<1>1. /\ scenario.txs \subseteq Txs /\ RecipientOf \in [Txs -> Accounts]
      /\ Maps \in Seq(UNION {[as -> Shards] : as \in SUBSET Accounts})
  BY Zenon, ScenarioAssumption DEF RecipientOf, Maps
<1>2. ASSUME NEW k \in 1 .. Len(Maps)
      PROVE  /\ DOMAIN Maps[k] \subseteq Accounts
             /\ \A a \in DOMAIN Maps[k] : Maps[k][a] \in Shards
  <2>1. Maps[k] \in UNION {[as -> Shards] : as \in SUBSET Accounts}
    BY <1>1
  <2>2. PICK as \in SUBSET Accounts : Maps[k] \in [as -> Shards]
    BY Zenon, <2>1
  <2> QED
    BY Zenon, <2>2
<1> QED
  BY Zenon, <1>1, <1>2

\* What a message handler of a main node leaves alone, and what it may change.
LEMMA Received ==
    ASSUME Frame, NEW m, NEW s \in Shards, NEW l, DOMAIN l = Fields, Receive(m, s, l), UNCHANGED scenario
    PROVE  /\ Frame' /\ leader'[s] = l /\ \A i \in Shards \ {s} : leader'[i] = leader[i]
           /\ net' = net \ {m} /\ UNCHANGED <<unsent, sentMaps, modifiedMap, executed, panicked>>
BY Zenon DEF Frame, Receive, committee, Maps

\* A step in which no main node dies.
LEMMA Survives == UNCHANGED died => \A s : ~Dies(s)
BY Zenon DEF Dies, Down

\* What the stages are compared with.
LEMMA Numbers ==
    /\ ~(2 >= 3) /\ 3 >= 3 /\ 0 # 1 /\ 0 # 2 /\ 0 # 3 /\ 0 # 4 /\ 0 # 5 /\ 1 # 2 /\ 1 # 3 /\ 1 # 4 /\ 1 # 5
    /\ 2 # 3 /\ 2 # 4 /\ 2 # 5 /\ 3 # 4 /\ 3 # 5 /\ 4 # 5
    /\ 0 <= 2 /\ 1 <= 2 /\ 2 <= 2 /\ ~(3 <= 2) /\ ~(4 <= 2) /\ ~(5 <= 2)
    /\ 0 < 5 /\ 1 < 5 /\ 2 < 5 /\ 3 < 5 /\ 4 < 5 /\ ~(5 < 5)
    /\ ~(0 >= 2) /\ ~(1 >= 2) /\ 2 >= 2 /\ 3 >= 2 /\ 4 >= 2 /\ 5 >= 2
    /\ 0 \notin 2 .. 4 /\ 1 \notin 2 .. 4 /\ 2 \in 2 .. 4 /\ 3 \in 2 .. 4 /\ 4 \in 2 .. 4 /\ 5 \notin 2 .. 4
    /\ 0 \notin 3 .. 5 /\ 1 \notin 3 .. 5 /\ 2 \notin 3 .. 5 /\ 3 \in 3 .. 5 /\ 4 \in 3 .. 5 /\ 5 \in 3 .. 5
OBVIOUS

\* How far a leader is in the round of a partition, read off its fields.
LEMMA StageIs ==
    ASSUME NEW l, NEW k, l.pc \in {"propose", "ready", "collect", "commit"}, l.on \in BOOLEAN
    PROVE  /\ Stage(l, k) \in 0 .. 5
           /\ Stage(l, k) = 4 <=> l.pc = "commit"
           /\ Stage(l, k) = 3 <=> l.pc = "collect"
           /\ Stage(l, k) = 2 <=> l.pc = "ready"
           /\ Stage(l, k) = 1 <=> l.pc = "propose" /\ l.on
           /\ Stage(l, k) = 5 <=> l.pc = "propose" /\ ~l.on /\ Len(l.maps) = k
BY DEF Stage

\* The stage depends on the fields pc, on and maps only.
LEMMA SameStage ==
    ASSUME NEW l, NEW l2, NEW k, l2.pc = l.pc, l2.on = l.on, l2.maps = l.maps
    PROVE  Stage(l2, k) = Stage(l, k)
BY Zenon DEF Stage

\* The stage of each shard in a state of the invariant.
LEMMA Stages ==
    ASSUME NEW old, Locals(old), NEW s \in Shards
    PROVE  /\ St(s) \in 0 .. 5
           /\ St(s) = 4 <=> leader[s].pc = "commit"
           /\ St(s) = 3 <=> leader[s].pc = "collect"
           /\ St(s) = 2 <=> leader[s].pc = "ready"
           /\ St(s) = 1 <=> leader[s].pc = "propose" /\ leader[s].on
           /\ St(s) = 5 <=> Idle(s)
<1>1. leader[s].pc \in {"propose", "ready", "collect", "commit"} /\ leader[s].on \in BOOLEAN
  BY Zenon DEF Locals, Local
<1> QED
  BY <1>1, StageIs DEF St, Idle

\* Without maps no partition is ever under way.
LEMMA WithoutMaps ==
    ASSUME Frame, NEW old, Locals(old), Maps = <<>>
    PROVE  sentMaps = 0 /\ \A s \in Shards : St(s) = 5
<1>1. sentMaps = 0
  BY DEF Frame
<1>2. ASSUME NEW s \in Shards PROVE St(s) = 5
  <2>1. St(s) < 5 => sentMaps >= 1
    BY Zenon DEF Locals, Local, St
  <2> QED
    BY <1>1, <2>1, Stages
<1> QED
  BY Zenon, <1>1, <1>2

\* Initially every shard is done with the partition before the first.
LEMMA InitTimed == Init => Inv2(Addr2Shard)
<1> SUFFICES ASSUME Init PROVE Inv2(Addr2Shard)
  BY Zenon
<1>1. \A s \in Shards : leader[s] = NewLeader(s)
  BY Zenon DEF Init
<1>2. \A s \in Shards : St(s) = 5
  BY Zenon, <1>1 DEF St, Stage, NewLeader, Init
<1>3. MapsOK(Addr2Shard)
  BY ScenarioAssumption DEF MapsOK, Init
<1>4. Locals(Addr2Shard)
  <2> SUFFICES ASSUME NEW s \in Shards
               PROVE  /\ Local(NewLeader(s), s, 0, Addr2Shard, Addr2Shard, RecipientOf)
                      /\ Heard(NewLeader(s), s, 0)
    BY Zenon, <1>1 DEF Locals, Init
  <2>1. Stage(NewLeader(s), 0) = 5
    BY Zenon DEF Stage, NewLeader
  <2>2. Local(NewLeader(s), s, 0, Addr2Shard, Addr2Shard, RecipientOf)
    BY <2>1 DEF Local, NewLeader, NoLedger
  <2>3. Heard(NewLeader(s), s, 0)
    BY Zenon, Numbers, <2>1 DEF Heard, NewLeader
  <2> QED
    BY Zenon, <2>2, <2>3
<1>5. Asides(Addr2Shard)
  BY <1>1 DEF Asides, NewLeader
<1>6. ReadyHeard /\ RelaysPast
  BY <1>1 DEF ReadyHeard, RelaysPast, NewLeader
<1>7. Behind
  BY <1>2 DEF Behind
<1>8. Messages(Addr2Shard)
  BY Zenon DEF Messages, InjectOK, MapOK, RelayOK, ReadyOK, AccountsOK, Distinct, Init
<1>9. LedgerOK(Addr2Shard)
  BY Zenon, <1>1, <1>2, ScenarioAssumption DEF LedgerOK, Holder, NewLeader, NoLedger, Init
<1>10. panicked = {}
  BY Zenon DEF Init
<1> QED
  BY Zenon, <1>3, <1>4, <1>5, <1>6, <1>7, <1>8, <1>9, <1>10 DEF Inv2

\* TxSending injects to the shard that its map names.
LEMMA TxSendingTimed ==
    ASSUME Frame, OnTime, NEW old, Inv2(old), UNCHANGED scenario, NEW t \in Txs, TxSending(t)
    PROVE  Inv2(old)'
<1> DEFINE m == [type |-> "inject", to |-> modifiedMap[Sender[t]], tx |-> t]
<1>1. net' = net \cup {m} /\ UNCHANGED <<leader, sentMaps, modifiedMap, panicked>> /\ MayInject
  BY Zenon DEF TxSending
<1>2. m.type = "inject" /\ m.tx = t /\ m.to = modifiedMap[Sender[t]]
  BY Zenon
<1> HIDE DEF m
<1>3. \A s \in Shards : St(s) = 5
  <2>1. CASE Maps = <<>>
    BY Zenon, <2>1, WithoutMaps DEF Inv2
  <2>2. CASE Maps # <<>>
    BY Zenon, <1>1, <2>2, Stages DEF MayInject, OnTime, Inv2
  <2> QED
    BY Zenon, <2>1, <2>2
<1>4. MapsOK(old)' /\ panicked' = {} /\ Locals(old)' /\ Asides(old)' /\ Behind' /\ RelaysPast' /\ LedgerOK(old)'
  BY <1>1 DEF Inv2, MapsOK, Locals, Asides, HandOver, Behind, RelaysPast, LedgerOK, Holder, St, Maps, RecipientOf
<1>5. ReadyHeard'
  BY <1>1, <1>2 DEF Inv2, ReadyHeard, NoRelay, St
<1>6. InjectOK'
  BY Zenon, <1>1, <1>2, <1>3 DEF Inv2, Messages, InjectOK, St
<1>7. MapOK' /\ ReadyOK'
  BY Zenon, <1>1, <1>2 DEF Inv2, Messages, MapOK, ReadyOK, St
<1>8. RelayOK(old)'
  BY Zenon, <1>1, <1>2 DEF Inv2, Messages, RelayOK, St, Maps, RecipientOf
<1>9. AccountsOK(old)'
  BY Zenon, <1>1, <1>2 DEF Inv2, Messages, AccountsOK, HandOver, St, Maps, RecipientOf
<1>10. Distinct'
  BY <1>1, <1>2 DEF Inv2, Messages, Distinct, Alike
<1> QED
  BY Zenon, <1>4, <1>5, <1>6, <1>7, <1>8, <1>9, <1>10 DEF Inv2, Messages

\* clpaMapSend, with all shards done with the partition before, opens the next.
LEMMA MapSendTimed ==
    ASSUME Frame, OnTime, NEW old, Inv2(old), UNCHANGED scenario, clpaMapSend
    PROVE  \E new \in [Accounts -> Shards] : Inv2(new)'
<1>0. PICK new \in [Accounts -> Shards] : new = modifiedMap
  BY Zenon DEF Frame
<1>1. /\ sentMaps' = sentMaps + 1 /\ sentMaps < Len(Maps)
      /\ net' = net \cup {[type |-> "map", to |-> s, id |-> sentMaps + 1] : s \in Shards}
      /\ modifiedMap' = Over(Maps[sentMaps + 1], modifiedMap) /\ UNCHANGED <<leader, panicked>> /\ MayPartition
  BY Zenon DEF clpaMapSend
<1>2. sentMaps \in Nat /\ Maps # <<>>
  BY <1>1, MapTypes DEF Frame
<1>3. ~Injecting /\ \A s \in Shards : Idle(s)
  BY Zenon, <1>1, <1>2 DEF MayPartition, OnTime
<1>4. \A s \in Shards : St(s) = 5 /\ leader[s].pc = "propose" /\ ~leader[s].on /\ Len(leader[s].maps) = sentMaps
  BY Zenon, <1>3, Stages DEF Inv2, Idle
<1>5. \A s \in Shards : St(s)' = 0
  BY <1>1, <1>2, <1>4 DEF St, Stage
<1>6. \A m \in net' : m \in net \/ (m.type = "map" /\ m.to \in Shards /\ m.id = sentMaps')
  BY <1>1
<1>7. \A s \in Shards : leader[s].accts = {} /\ leader[s].ready = {}
  BY Zenon, Numbers, <1>4 DEF Inv2, Locals, Heard, St
<1>8. MapsOK(new)'
  BY Zenon, <1>0, <1>1, <1>2 DEF MapsOK, Frame, Maps
<1>9. Locals(new)'
  <2> SUFFICES ASSUME NEW s \in Shards
               PROVE  /\ Local(leader[s], s, sentMaps', new, modifiedMap', RecipientOf)
                      /\ Heard(leader[s], s, sentMaps')
    BY Zenon, <1>1 DEF Locals, RecipientOf
  <2>1. Stage(leader[s], sentMaps') = 0 /\ Stage(leader[s], sentMaps) = 5
    BY Zenon, <1>1, <1>4, <1>5 DEF St
  <2>2. Local(leader[s], s, sentMaps, old, modifiedMap, RecipientOf) /\ Heard(leader[s], s, sentMaps)
    BY Zenon DEF Inv2, Locals
  <2>3. Local(leader[s], s, sentMaps', new, modifiedMap', RecipientOf)
    <3>1. sentMaps' - 1 = sentMaps /\ sentMaps' >= 1
      BY <1>1, <1>2
    <3> QED
      BY Zenon, Numbers, <1>0, <2>1, <2>2, <3>1 DEF Local
  <2>4. Heard(leader[s], s, sentMaps')
    BY Zenon, Numbers, <2>1, <2>2, <1>7 DEF Heard
  <2> QED
    BY Zenon, <2>3, <2>4
<1>10. Asides(new)' /\ ReadyHeard'
  BY Zenon, <1>1, <1>7 DEF Asides, ReadyHeard
<1>11. Behind' /\ RelaysPast'
  BY <1>1, <1>5 DEF Behind, RelaysPast, Inv2
<1>12. InjectOK'
  BY Zenon, <1>3, <1>6 DEF InjectOK, Injecting
<1>13. MapOK'
  BY Zenon, Numbers, <1>4, <1>5, <1>6 DEF MapOK, Inv2, Messages
<1>14. RelayOK(new)'
  <2> SUFFICES ASSUME NEW m \in net, m.type = "relay"
               PROVE  /\ m.from \in Shards /\ m.to \in Others(m.from) /\ m.seq \in Nat /\ m.seq < leader[m.from].seq
                      /\ m.txs \subseteq Txs
                      /\ \A t \in m.txs : new[RecipientOf[t]] = m.to
                      /\ Maps # <<>> /\ m.from \in DOMAIN leader[m.to].seqIDMap => leader[m.to].seqIDMap[m.from] < m.seq
    BY Zenon, Numbers, <1>1, <1>5, <1>6 DEF RelayOK, Others, RecipientOf, Maps
  <2> QED
    BY Zenon, <1>0, <1>4 DEF Inv2, Messages, RelayOK
<1>15. ReadyOK'
  <2>1. \A m \in net : m.type # "ready"
    BY Zenon, Numbers, <1>4 DEF Inv2, Messages, ReadyOK
  <2> QED
    BY Zenon, <1>6, <2>1 DEF ReadyOK
<1>16. AccountsOK(new)'
  <2>1. \A m \in net : m.type # "accounts"
    BY Zenon, Numbers, <1>4 DEF Inv2, Messages, AccountsOK
  <2> QED
    BY Zenon, <1>6, <2>1 DEF AccountsOK
<1>17. Distinct'
  <2>1. \A m \in net : m.type # "map"
    BY Zenon, Numbers, <1>4 DEF Inv2, Messages, MapOK
  <2> SUFFICES ASSUME NEW m \in net', NEW n \in net', Alike(m, n) PROVE m = n
    BY Zenon DEF Distinct
  <2>2. CASE m.type = "map"
    <3>1. PICK s \in Shards : m = [type |-> "map", to |-> s, id |-> sentMaps + 1]
      BY Zenon, <1>1, <2>1, <2>2
    <3>2. PICK i \in Shards : n = [type |-> "map", to |-> i, id |-> sentMaps + 1]
      BY Zenon, <1>1, <2>1, <2>2 DEF Alike
    <3> QED
      BY Zenon, <3>1, <3>2 DEF Alike
  <2>3. CASE m.type # "map"
    BY Zenon, <1>6, <2>3 DEF Alike, Inv2, Messages, Distinct
  <2> QED
    BY Zenon, <2>2, <2>3
<1>18. LedgerOK(new)'
  <2> SUFFICES ASSUME NEW a \in Accounts, NEW s \in Shards
               PROVE  leader[s].ledger[a] \subseteq leader[new[a]].ledger[a]
    <3>1. \A a \in Accounts : modifiedMap'[a] \in Shards
      BY <1>1, <1>2, MapTypes DEF Frame, Over
    <3> QED
      BY Zenon, Numbers, <1>1, <1>5, <3>1 DEF LedgerOK, Holder
  <2>1. modifiedMap[a] \in Shards
    BY Zenon DEF Frame
  <2> QED
    BY Zenon, <1>0, <1>4, <2>1 DEF Inv2, LedgerOK, Holder
<1>19. panicked' = {}
  BY Zenon, <1>1 DEF Inv2
<1> QED
  BY Zenon, <1>8, <1>9, <1>10, <1>11, <1>12, <1>13, <1>14, <1>15, <1>16, <1>17, <1>18, <1>19 DEF Inv2, Messages

\* What the supervisor does changes nothing of a partition.
LEMMA SupervisorTimed ==
    ASSUME Frame, NEW old, Inv2(old), UNCHANGED scenario,
           SupervisorStop \/ \E m \in net : handleBlockInfos(m)
    PROVE  Inv2(old)'
<1>1. UNCHANGED <<leader, sentMaps, modifiedMap, panicked>> /\ net' \subseteq net
  BY Zenon DEF SupervisorStop, handleBlockInfos, committee
<1>4. MapsOK(old)' /\ panicked' = {} /\ Locals(old)' /\ Asides(old)' /\ Behind' /\ RelaysPast' /\ LedgerOK(old)'
  BY ZenonT(30), <1>1 DEF Inv2, MapsOK, Locals, Asides, HandOver, Behind, RelaysPast, LedgerOK, Holder, St, Maps, RecipientOf
<1>5. ReadyHeard'
  BY <1>1 DEF Inv2, ReadyHeard, NoRelay, St
<1>7. InjectOK' /\ MapOK' /\ ReadyOK'
  BY Zenon, <1>1 DEF Inv2, Messages, InjectOK, MapOK, ReadyOK, St
<1>8. RelayOK(old)'
  BY Zenon, <1>1 DEF Inv2, Messages, RelayOK, St, Maps, RecipientOf
<1>9. AccountsOK(old)'
  BY Zenon, <1>1 DEF Inv2, Messages, AccountsOK, HandOver, St, Maps, RecipientOf
<1>10. Distinct'
  BY Zenon, <1>1 DEF Inv2, Messages, Distinct, Alike
<1> QED
  BY Zenon, <1>4, <1>5, <1>7, <1>8, <1>9, <1>10 DEF Inv2, Messages

\* A message arrives at s, which becomes l: its round does not go on.
Arrives(m, s, l) ==
    /\ m \in net /\ s \in Shards /\ m.type # "info" /\ m.to = s /\ DOMAIN l = Fields /\ Receive(m, s, l)
    /\ l.seq = leader[s].seq /\ l.ledger = leader[s].ledger
    /\ \/ Stage(l, sentMaps) = St(s)
       \/ m.type = "map" /\ St(s) = 0 /\ Stage(l, sentMaps) = 1

\* What a step leaves of the invariant when the message m has been handled.
Arrived(old, m, s, l) ==
    /\ MapsOK(old)' /\ panicked' = {} /\ Behind' /\ InjectOK' /\ MapOK' /\ Distinct' /\ LedgerOK(old)'
    /\ Local(l, s, sentMaps, old, modifiedMap, RecipientOf) /\ Heard(l, s, sentMaps) => Locals(old)'
    /\ \A n : \A i \in Shards : HandOver(n, i, old) => HandOver(n, i, old)'
    /\ l.accts = leader[s].accts => Asides(old)' /\ AccountsOK(old)'
    /\ l.seqIDMap = leader[s].seqIDMap => RelayOK(old)' /\ RelaysPast'
    /\ l.ready = leader[s].ready => ReadyOK'
    /\ l.ready = leader[s].ready /\ l.readySeq = leader[s].readySeq /\ l.seqIDMap = leader[s].seqIDMap
          => ReadyHeard'

\* What the arrival of a message at a main node cannot disturb.
LEMMA Arrival ==
    ASSUME Frame, NEW old, Inv2(old), UNCHANGED scenario, NEW m, NEW s, NEW l, Arrives(m, s, l)
    PROVE  Arrived(old, m, s, l)
<1>0. /\ m \in net /\ s \in Shards /\ m.type # "info" /\ m.to = s /\ DOMAIN l = Fields /\ Receive(m, s, l)
      /\ l.seq = leader[s].seq /\ l.ledger = leader[s].ledger
      /\ \/ Stage(l, sentMaps) = St(s)
         \/ m.type = "map" /\ St(s) = 0 /\ Stage(l, sentMaps) = 1
  BY Zenon DEF Arrives
<1> USE <1>0
<1>1. /\ leader'[s] = l /\ \A i \in Shards \ {s} : leader'[i] = leader[i]
      /\ net' = net \ {m} /\ UNCHANGED <<unsent, sentMaps, modifiedMap, executed, panicked>>
  BY Zenon, Received
<1>2. \A i \in Shards : /\ leader'[i].seq = leader[i].seq /\ leader'[i].ledger = leader[i].ledger
                        /\ St(i)' = St(i) \/ (i = s /\ m.type = "map" /\ St(i) = 0 /\ St(i)' = 1)
  BY Zenon, <1>1 DEF St
<1>3. \A i \in Shards : i # s => St(i)' = St(i)
  BY Zenon, <1>1 DEF St
<1>4. UNCHANGED <<Maps, RecipientOf>>
  BY Zenon DEF Maps, RecipientOf
<1>5. MapsOK(old)' /\ panicked' = {}
  BY Zenon, <1>1, <1>4 DEF Inv2, MapsOK
<1>6. Behind'
  BY <1>2 DEF Inv2, Behind
<1>7. InjectOK'
  BY ZenonT(30), Numbers, <1>1, <1>2 DEF Inv2, Messages, InjectOK
<1>8. MapOK'
  <2> SUFFICES ASSUME NEW n \in net', n.type = "map"
               PROVE  n.to \in Shards /\ n.id = sentMaps /\ St(n.to)' = 0
    BY Zenon, <1>1 DEF MapOK
  <2>1. n \in net /\ n # m /\ n.to \in Shards /\ n.id = sentMaps /\ St(n.to) = 0
    BY Zenon, <1>1 DEF Inv2, Messages, MapOK
  <2>2. m.type = "map" => n.to # s
    BY Zenon, <2>1 DEF Inv2, Messages, Distinct, Alike
  <2> QED
    BY Zenon, <1>2, <2>1, <2>2
<1>9. Distinct'
  BY <1>1 DEF Inv2, Messages, Distinct, Alike
<1>10. LedgerOK(old)'
  <2> SUFFICES ASSUME NEW a \in Accounts, NEW i \in Shards
               PROVE  leader'[i].ledger[a] \subseteq leader'[Holder(a, old)'].ledger[a]
    BY Zenon DEF LedgerOK
  <2>1. modifiedMap[a] \in Shards /\ old[a] \in Shards /\ modifiedMap' = modifiedMap
    BY Zenon, <1>1 DEF Frame, Inv2, MapsOK
  <2>2. Holder(a, old)' = Holder(a, old) /\ Holder(a, old) \in Shards
    BY Zenon, Numbers, <1>2, <2>1 DEF Holder
  <2> QED
    BY Zenon, <1>2, <2>2 DEF Inv2, LedgerOK
<1>11. ASSUME Local(l, s, sentMaps, old, modifiedMap, RecipientOf), Heard(l, s, sentMaps) PROVE Locals(old)'
  BY Zenon, <1>1, <1>4, <1>11 DEF Inv2, Locals
<1>12. \A n : \A i \in Shards : HandOver(n, i, old) => HandOver(n, i, old)'
  BY <1>1, <1>2, <1>4 DEF HandOver, Others
<1>13. ASSUME l.accts = leader[s].accts PROVE Asides(old)' /\ AccountsOK(old)'
  <2>1. \A i \in Shards : leader'[i].accts = leader[i].accts
    BY Zenon, <1>1, <1>13
  <2>2. Asides(old)'
    BY Zenon, <1>12, <2>1 DEF Inv2, Asides
  <2>3. AccountsOK(old)'
    BY <1>1, <1>2, <1>12, <2>1 DEF Inv2, Messages, AccountsOK
  <2> QED
    BY Zenon, <2>2, <2>3
<1>14. ASSUME l.seqIDMap = leader[s].seqIDMap PROVE RelayOK(old)' /\ RelaysPast'
  <2>3. RelaysPast'
    BY ZenonT(30), Numbers, <1>1, <1>2, <1>14 DEF Inv2, RelaysPast
  <2> SUFFICES ASSUME NEW n \in net', n.type = "relay"
               PROVE  /\ n.from \in Shards /\ n.to \in Others(n.from) /\ n.seq \in Nat /\ n.seq < leader'[n.from].seq
                      /\ n.txs \subseteq Txs
                      /\ \A t \in n.txs : (IF St(n.from)' = 5 THEN modifiedMap ELSE old)[RecipientOf[t]] = n.to
                      /\ St(n.from)' \in 2 .. 4 => St(n.to)' <= 2
                      /\ Maps # <<>> /\ n.from \in DOMAIN leader'[n.to].seqIDMap
                            => leader'[n.to].seqIDMap[n.from] < n.seq
    BY ZenonT(30), Numbers, <1>1, <1>4, <2>3 DEF RelayOK
  <2>1. /\ n.from \in Shards /\ n.to \in Others(n.from) /\ n.seq \in Nat /\ n.seq < leader[n.from].seq
        /\ n.txs \subseteq Txs
        /\ \A t \in n.txs : (IF St(n.from) = 5 THEN modifiedMap ELSE old)[RecipientOf[t]] = n.to
        /\ St(n.from) \in 2 .. 4 => St(n.to) <= 2
        /\ Maps # <<>> /\ n.from \in DOMAIN leader[n.to].seqIDMap => leader[n.to].seqIDMap[n.from] < n.seq
    BY Zenon, <1>1 DEF Inv2, Messages, RelayOK
  <2>2. n.to \in Shards /\ leader'[n.to].seqIDMap = leader[n.to].seqIDMap
    BY Zenon, <1>1, <1>14, <2>1 DEF Others
  <2> QED
    BY Zenon, Numbers, <1>2, <2>1, <2>2
<1>15. ASSUME l.ready = leader[s].ready PROVE ReadyOK'
  <2>1. \A i \in Shards : leader'[i].ready = leader[i].ready
    BY Zenon, <1>1, <1>15
  <2> QED
    BY <1>1, <1>2, <2>1 DEF Inv2, Messages, ReadyOK, Others
<1>16. ASSUME l.ready = leader[s].ready, l.readySeq = leader[s].readySeq, l.seqIDMap = leader[s].seqIDMap
       PROVE  ReadyHeard'
  <2>1. \A i \in Shards : leader'[i].ready = leader[i].ready /\ leader'[i].readySeq = leader[i].readySeq
                           /\ leader'[i].seqIDMap = leader[i].seqIDMap /\ leader[i].ready \subseteq Shards
    BY Zenon, <1>1, <1>16 DEF Inv2, Locals, Heard
  <2> QED
    BY <1>1, <1>2, <2>1 DEF Inv2, ReadyHeard, NoRelay
<1> QED
  BY Zenon, <1>5, <1>6, <1>7, <1>8, <1>9, <1>10, <1>11, <1>12, <1>13, <1>14, <1>15, <1>16
  DEF Arrived

\* handleInjectTx puts a transaction in the pool of the shard of its sender.
LEMMA InjectTimed ==
    ASSUME Frame, NEW old, Inv2(old), UNCHANGED <<scenario, died>>, NEW m \in net, handleInjectTx(m)
    PROVE  Inv2(old)'
<1> DEFINE s == m.to
           l == [leader[s] EXCEPT !.pool = @ \cup {Fresh(m.tx)}]
<1>1. s \in Shards /\ m.type = "inject" /\ Receive(m, s, l)
  BY Zenon, Survives DEF Frame, handleInjectTx
<1>2. /\ DOMAIN l = Fields /\ l.pool = leader[s].pool \cup {Fresh(m.tx)}
      /\ \A f \in Fields \ {"pool"} : l[f] = leader[s][f]
  BY Zenon, <1>1 DEF Frame, Fields
<1> HIDE DEF l
<1>3. /\ l.seq = leader[s].seq /\ l.ledger = leader[s].ledger /\ l.pc = leader[s].pc /\ l.on = leader[s].on
      /\ l.maps = leader[s].maps /\ l.accts = leader[s].accts /\ l.ready = leader[s].ready
      /\ l.readySeq = leader[s].readySeq /\ l.seqIDMap = leader[s].seqIDMap /\ l.over = leader[s].over
      /\ l.atm = leader[s].atm /\ l.round = leader[s].round /\ l.transfers = leader[s].transfers
      /\ l.map = leader[s].map
  BY Zenon, <1>2 DEF Fields
<1>4. Stage(l, sentMaps) = St(s)
  BY Zenon, <1>3 DEF St, Stage
<1>5. m.tx \in Txs /\ s = modifiedMap[Sender[m.tx]] /\ St(s) = 5
  BY Zenon, <1>1 DEF Inv2, Messages, InjectOK
<1>6. Fresh(m.tx) \in Entries /\ Addr(RecipientOf, Fresh(m.tx)) = Sender[m.tx]
  BY Zenon, <1>5 DEF Fresh, Entries, Addr
<1>7. Local(leader[s], s, sentMaps, old, modifiedMap, RecipientOf) /\ Heard(leader[s], s, sentMaps)
  BY Zenon, <1>1 DEF Inv2, Locals
<1> HIDE DEF s
<1>8. Local(l, s, sentMaps, old, modifiedMap, RecipientOf)
  <2>1. Stage(l, sentMaps) = 5 /\ Stage(leader[s], sentMaps) = 5
    BY Zenon, <1>4, <1>5 DEF St
  <2>2. \A x \in l.pool : x \in Entries /\ modifiedMap[Addr(RecipientOf, x)] = s
    <3>1. \A x \in leader[s].pool : x \in Entries /\ modifiedMap[Addr(RecipientOf, x)] = s
      BY Zenon, Numbers, <1>7, <2>1 DEF Local
    <3>2. \A x \in l.pool : x \in leader[s].pool \/ x = Fresh(m.tx)
      BY Zenon, <1>2
    <3> QED
      BY Zenon, <1>5, <1>6, <3>1, <3>2
  <2> QED
    BY Zenon, Numbers, <1>3, <1>7, <2>1, <2>2 DEF Local
<1>9. Heard(l, s, sentMaps)
  BY Zenon, <1>3, <1>4, <1>7 DEF Heard, St
<1>11. s = m.to
  BY Zenon DEF s
<1> QED
  <2>1. Arrives(m, s, l)
    BY Zenon, <1>1, <1>2, <1>3, <1>4, <1>11 DEF Arrives
  <2>3. Arrived(old, m, s, l)
    BY Zenon, <2>1, Arrival
  <2>2. /\ MapsOK(old)' /\ panicked' = {} /\ Behind' /\ InjectOK' /\ MapOK' /\ Distinct' /\ LedgerOK(old)' /\ Locals(old)'
        /\ Asides(old)' /\ AccountsOK(old)' /\ RelayOK(old)' /\ RelaysPast' /\ ReadyOK' /\ ReadyHeard'
    BY Zenon, <1>3, <1>8, <1>9, <2>3 DEF Arrived
  <2> QED
    BY Zenon, <2>2 DEF Inv2, Messages

\* handlePartitionMsg takes a shard into the round of the partition.
LEMMA MapTimed ==
    ASSUME Frame, NEW old, Inv2(old), UNCHANGED scenario, NEW m \in net, handlePartitionMsg(m)
    PROVE  Inv2(old)'
<1> DEFINE s == m.to
           l == [leader[s] EXCEPT !.maps = Append(@, m.id), !.on = TRUE]
<1>1. s \in Shards /\ m.type = "map" /\ Receive(m, s, l)
  BY Zenon DEF Frame, handlePartitionMsg
<1>2. /\ DOMAIN l = Fields /\ l.maps = Append(leader[s].maps, m.id) /\ l.on = TRUE
      /\ \A f \in Fields \ {"maps", "on"} : l[f] = leader[s][f]
  BY Zenon, <1>1 DEF Frame, Fields
<1> HIDE DEF l
<1>3. /\ l.seq = leader[s].seq /\ l.ledger = leader[s].ledger /\ l.pc = leader[s].pc
      /\ l.pool = leader[s].pool /\ l.accts = leader[s].accts /\ l.ready = leader[s].ready
      /\ l.readySeq = leader[s].readySeq /\ l.seqIDMap = leader[s].seqIDMap /\ l.over = leader[s].over
      /\ l.atm = leader[s].atm /\ l.round = leader[s].round /\ l.transfers = leader[s].transfers
      /\ l.map = leader[s].map
  BY Zenon, <1>2 DEF Fields
<1>4. Local(leader[s], s, sentMaps, old, modifiedMap, RecipientOf) /\ Heard(leader[s], s, sentMaps)
  BY Zenon, <1>1 DEF Inv2, Locals
<1>5. m.id = sentMaps /\ St(s) = 0 /\ sentMaps \in Nat
  BY <1>1 DEF Inv2, Messages, MapOK, Frame
<1> HIDE DEF s
<1>6. Stage(leader[s], sentMaps) = 0 /\ leader[s].pc = "propose"
  BY Zenon, Numbers, <1>4, <1>5 DEF St, Stage, Local
<1>7. Stage(l, sentMaps) = 1
  BY Zenon, <1>2, <1>3, <1>6 DEF Stage
<1>8. l.maps \in Seq(Nat) /\ Len(l.maps) = sentMaps /\ \A i \in 1 .. Len(l.maps) : l.maps[i] = i
  <2>1. /\ leader[s].maps \in Seq(Nat) /\ Len(leader[s].maps) = sentMaps - 1
        /\ \A i \in 1 .. Len(leader[s].maps) : leader[s].maps[i] = i
    BY Zenon, <1>4, <1>6 DEF Local
  <2> QED
    BY <1>2, <1>5, <2>1
<1>9. Local(l, s, sentMaps, old, modifiedMap, RecipientOf)
  <2>1. l.on \in BOOLEAN
    BY Zenon, <1>2
  <2>2. l.pool \subseteq Entries /\ \A x \in l.pool : old[Addr(RecipientOf, x)] = s
    BY Zenon, Numbers, <1>3, <1>4, <1>6 DEF Local
  <2> QED
    BY <1>3, <1>4, <1>6, <1>7, <1>8, <2>1, <2>2 DEF Local
<1>10. Heard(l, s, sentMaps)
  BY Zenon, Numbers, <1>3, <1>4, <1>6, <1>7 DEF Heard
<1>12. s = m.to
  BY Zenon DEF s
<1> QED
  <2>1. Arrives(m, s, l)
    BY Zenon, <1>1, <1>2, <1>3, <1>5, <1>7, <1>12 DEF Arrives
  <2>3. Arrived(old, m, s, l)
    BY Zenon, <2>1, Arrival
  <2>2. /\ MapsOK(old)' /\ panicked' = {} /\ Behind' /\ InjectOK' /\ MapOK' /\ Distinct' /\ LedgerOK(old)' /\ Locals(old)'
        /\ Asides(old)' /\ AccountsOK(old)' /\ RelayOK(old)' /\ RelaysPast' /\ ReadyOK' /\ ReadyHeard'
    BY Zenon, <1>3, <1>9, <1>10, <2>3 DEF Arrived
  <2> QED
    BY Zenon, <2>2 DEF Inv2, Messages

\* handlePartitionReady records a readiness and the round it was sent in.
LEMMA ReadyTimed ==
    ASSUME Frame, OnTime, NEW old, Inv2(old), UNCHANGED scenario, NEW m \in net, handlePartitionReady(m)
    PROVE  Inv2(old)'
<1> DEFINE s == m.to
           l == [leader[s] EXCEPT !.ready = @ \cup {m.from}, !.readySeq = Put(@, m.from, m.seq)]
<1>1. s \in Shards /\ m.type = "ready" /\ Receive(m, s, l) /\ FirstRelayed(m)
  BY Zenon DEF Frame, handlePartitionReady
<1>2. /\ DOMAIN l = Fields /\ l.ready = leader[s].ready \cup {m.from}
      /\ l.readySeq = Put(leader[s].readySeq, m.from, m.seq)
      /\ \A f \in Fields \ {"ready", "readySeq"} : l[f] = leader[s][f]
  BY Zenon, <1>1 DEF Frame, Fields
<1> HIDE DEF l
<1>3. /\ l.seq = leader[s].seq /\ l.ledger = leader[s].ledger /\ l.pc = leader[s].pc /\ l.on = leader[s].on
      /\ l.maps = leader[s].maps /\ l.accts = leader[s].accts /\ l.pool = leader[s].pool
      /\ l.seqIDMap = leader[s].seqIDMap /\ l.over = leader[s].over
      /\ l.atm = leader[s].atm /\ l.round = leader[s].round /\ l.transfers = leader[s].transfers
      /\ l.map = leader[s].map
  BY Zenon, <1>2 DEF Fields
<1>4. Stage(l, sentMaps) = St(s)
  BY Zenon, <1>3 DEF St, Stage
<1>5. /\ m.from \in Shards /\ s \in Others(m.from) /\ St(m.from) \in {2, 3} /\ St(s) <= 2
      /\ m.from \notin leader[s].ready /\ m.seq = leader[m.from].seq
  BY Zenon, <1>1 DEF Inv2, Messages, ReadyOK
<1>6. Local(leader[s], s, sentMaps, old, modifiedMap, RecipientOf) /\ Heard(leader[s], s, sentMaps)
  BY Zenon, <1>1 DEF Inv2, Locals
<1>7. "relays" \in Timely
  BY Zenon, Numbers, <1>5, WithoutMaps DEF OnTime, Inv2
<1>0. s = m.to
  BY Zenon
<1> HIDE DEF s
<1>8. Local(l, s, sentMaps, old, modifiedMap, RecipientOf)
  BY Zenon, <1>3, <1>4, <1>6 DEF Local, St
<1>9. Heard(l, s, sentMaps)
  BY <1>2, <1>3, <1>4, <1>5, <1>6 DEF Heard, St
<1>10. /\ leader'[s] = l /\ \A i \in Shards \ {s} : leader'[i] = leader[i]
       /\ net' = net \ {m} /\ sentMaps' = sentMaps
  BY Zenon, <1>1, <1>2, Received
<1>11. \A i \in Shards : St(i)' = St(i) /\ leader'[i].seq = leader[i].seq
  BY Zenon, <1>3, <1>4, <1>10 DEF St
<1>12. ReadyHeard'
  <2> SUFFICES ASSUME NEW i \in Shards, NEW j \in leader'[i].ready
               PROVE  /\ St(j) >= 2
                      /\ St(i) <= 2 /\ j # i =>
                            /\ St(j) \in {2, 3} /\ j \in DOMAIN leader'[i].readySeq
                            /\ leader'[i].readySeq[j] = leader[j].seq
                            /\ j \in DOMAIN leader'[i].seqIDMap \/ NoRelay(j, i)'
    <3>1. \A i \in Shards : \A j \in leader'[i].ready : j \in Shards
      BY <1>2, <1>5, <1>10 DEF Inv2, Locals, Heard
    <3> QED
      BY Zenon, <1>11, <3>1 DEF ReadyHeard
  <2>1. CASE i = s /\ j = m.from
    <3>1. j \in DOMAIN l.readySeq /\ l.readySeq[j] = m.seq
      BY Zenon, <1>2, <2>1 DEF Put
    <3>2. j \in DOMAIN l.seqIDMap \/ NoRelay(j, i)
      <4>1. m.from \in DOMAIN leader[s].seqIDMap \/ InOrder(m)
        BY Zenon, <1>0, <1>1, <1>7 DEF FirstRelayed
      <4>2. ASSUME InOrder(m) PROVE NoRelay(m.from, s)
        <5> SUFFICES ASSUME NEW r \in net, r.type = "relay", r.from = m.from, r.to = s PROVE FALSE
          BY Zenon DEF NoRelay
        <5>1. r.seq < m.seq
          BY Zenon, <1>5 DEF Inv2, Messages, RelayOK
        <5> QED
          BY Zenon, <1>0, <1>7, <4>2, <5>1 DEF InOrder
      <4> QED
        BY Zenon, <1>3, <2>1, <4>1, <4>2
    <3>3. NoRelay(j, i) => NoRelay(j, i)'
      BY Zenon, <1>10 DEF NoRelay
    <3> QED
      BY Zenon, Numbers, <1>5, <1>10, <2>1, <3>1, <3>2, <3>3
  <2>2. CASE ~(i = s /\ j = m.from)
    <3>1. j \in leader[i].ready /\ leader'[i].seqIDMap = leader[i].seqIDMap
      BY Zenon, <1>2, <1>3, <1>10, <2>2
    <3>2. j \in DOMAIN leader[i].readySeq
             => j \in DOMAIN leader'[i].readySeq /\ leader'[i].readySeq[j] = leader[i].readySeq[j]
      BY <1>2, <1>10, <2>2 DEF Put
    <3>3. NoRelay(j, i) => NoRelay(j, i)'
      BY Zenon, <1>10 DEF NoRelay
    <3> QED
      BY Zenon, <3>1, <3>2, <3>3 DEF Inv2, ReadyHeard
  <2> QED
    BY Zenon, <2>1, <2>2
<1>13. ReadyOK'
  <2> SUFFICES ASSUME NEW n \in net', n.type = "ready"
               PROVE  /\ n.from \in Shards /\ n.to \in Others(n.from) /\ St(n.from)' \in {2, 3} /\ St(n.to)' <= 2
                      /\ n.from \notin leader'[n.to].ready /\ n.seq = leader'[n.from].seq
    BY Zenon DEF ReadyOK
  <2>1. /\ n.from \in Shards /\ n.to \in Others(n.from) /\ St(n.from) \in {2, 3} /\ St(n.to) <= 2
        /\ n.from \notin leader[n.to].ready /\ n.seq = leader[n.from].seq /\ n.to \in Shards
    BY Zenon, <1>10 DEF Inv2, Messages, ReadyOK, Others
  <2>2. n.to = s => n.from # m.from
    BY Zenon, <1>0, <1>1, <1>10 DEF Inv2, Messages, Distinct, Alike
  <2> QED
    BY Zenon, <1>2, <1>10, <1>11, <2>1, <2>2
<1> QED
  <2>1. Arrives(m, s, l)
    BY Zenon, <1>0, <1>1, <1>2, <1>3, <1>4 DEF Arrives
  <2>3. Arrived(old, m, s, l)
    BY Zenon, <2>1, Arrival
  <2>2. /\ MapsOK(old)' /\ panicked' = {} /\ Behind' /\ InjectOK' /\ MapOK' /\ Distinct' /\ LedgerOK(old)' /\ Locals(old)'
        /\ Asides(old)' /\ AccountsOK(old)' /\ RelayOK(old)' /\ RelaysPast'
    BY Zenon, <1>3, <1>8, <1>9, <2>3 DEF Arrived
  <2> QED
    BY Zenon, <1>12, <1>13, <2>2 DEF Inv2, Messages

\* handleRelay records the round of the last block relayed.
LEMMA RelayTimed ==
    ASSUME Frame, OnTime, NEW old, Inv2(old), UNCHANGED <<scenario, died>>, NEW m \in net, handleRelay(m)
    PROVE  Inv2(old)'
<1> DEFINE s == m.to
           l == [leader[s] EXCEPT !.pool = @ \cup {Relayed(t) : t \in m.txs}, !.seqIDMap = Put(@, m.from, m.seq)]
<1>1. s \in Shards /\ m.type = "relay" /\ Receive(m, s, l) /\ InOrder(m)
  BY Zenon, Survives DEF Frame, handleRelay
<1>2. /\ DOMAIN l = Fields /\ l.pool = leader[s].pool \cup {Relayed(t) : t \in m.txs}
      /\ l.seqIDMap = Put(leader[s].seqIDMap, m.from, m.seq)
      /\ \A f \in Fields \ {"pool", "seqIDMap"} : l[f] = leader[s][f]
  BY Zenon, <1>1 DEF Frame, Fields
<1> HIDE DEF l
<1>3. /\ l.seq = leader[s].seq /\ l.ledger = leader[s].ledger /\ l.pc = leader[s].pc /\ l.on = leader[s].on
      /\ l.maps = leader[s].maps /\ l.accts = leader[s].accts /\ l.ready = leader[s].ready
      /\ l.readySeq = leader[s].readySeq /\ l.over = leader[s].over
      /\ l.atm = leader[s].atm /\ l.round = leader[s].round /\ l.transfers = leader[s].transfers
      /\ l.map = leader[s].map
  BY Zenon, <1>2 DEF Fields
<1>4. Stage(l, sentMaps) = St(s)
  BY Zenon, <1>3 DEF St, Stage
<1>5. /\ m.from \in Shards /\ s \in Others(m.from) /\ m.seq \in Nat /\ m.txs \subseteq Txs
      /\ \A t \in m.txs : (IF St(m.from) = 5 THEN modifiedMap ELSE old)[RecipientOf[t]] = s
      /\ St(m.from) \in 2 .. 4 => St(s) <= 2
  BY Zenon, <1>1 DEF Inv2, Messages, RelayOK
<1>6. Local(leader[s], s, sentMaps, old, modifiedMap, RecipientOf) /\ Heard(leader[s], s, sentMaps)
  BY Zenon, <1>1 DEF Inv2, Locals
<1>0. s = m.to
  BY Zenon
<1> HIDE DEF s
<1>7. \A t \in m.txs : (IF St(s) <= 2 THEN old ELSE modifiedMap)[RecipientOf[t]] = s
  <2>1. St(m.from) \in 0 .. 5 /\ St(s) \in 0 .. 5
    BY Zenon, <1>1, <1>5, Stages DEF Inv2
  <2>2. (St(s) >= 3 => St(m.from) >= 2) /\ (St(m.from) >= 4 => St(s) >= 3)
    BY Zenon, <1>1, <1>5 DEF Inv2, Behind, Others
  <2>3. St(s) <= 2 <=> St(m.from) # 5
    BY <1>5, <2>1, <2>2
  <2> QED
    BY Zenon, <1>5, <2>3
<1>8. Local(l, s, sentMaps, old, modifiedMap, RecipientOf)
  <2>1. \A x \in l.pool : x \in Entries /\ (IF St(s) <= 2 THEN old ELSE modifiedMap)[Addr(RecipientOf, x)] = s
    <3> SUFFICES ASSUME NEW x \in l.pool
                 PROVE  x \in Entries /\ (IF St(s) <= 2 THEN old ELSE modifiedMap)[Addr(RecipientOf, x)] = s
      BY Zenon
    <3>1. CASE x \in leader[s].pool
      BY Zenon, <1>6, <3>1 DEF Local, St
    <3>2. CASE x \notin leader[s].pool
      <4>1. PICK t \in m.txs : x = Relayed(t)
        BY Zenon, <1>2, <3>2
      <4>2. x \in Entries /\ Addr(RecipientOf, x) = RecipientOf[t]
        BY Zenon, <1>5, <4>1 DEF Relayed, Entries, Addr
      <4> QED
        BY Zenon, <1>7, <4>2
    <3> QED
      BY Zenon, <3>1, <3>2
  <2> QED
    BY Zenon, <1>3, <1>4, <1>6, <2>1 DEF Local, St
<1>9. Heard(l, s, sentMaps)
  BY Zenon, <1>3, <1>4, <1>6 DEF Heard, St
<1>10. /\ leader'[s] = l /\ \A i \in Shards \ {s} : leader'[i] = leader[i]
       /\ net' = net \ {m} /\ UNCHANGED <<sentMaps, modifiedMap>>
  BY Zenon, <1>1, <1>2, Received
<1>11. \A i \in Shards : St(i)' = St(i) /\ leader'[i].seq = leader[i].seq /\ leader'[i].ready = leader[i].ready
                         /\ leader'[i].readySeq = leader[i].readySeq
  BY Zenon, <1>3, <1>4, <1>10 DEF St
<1>12. \A i \in Shards : DOMAIN leader[i].seqIDMap \subseteq DOMAIN leader'[i].seqIDMap
  BY Zenon, <1>2, <1>10 DEF Put
<1>13. ReadyHeard'
  <2>1. \A i, j \in Shards : NoRelay(i, j) => NoRelay(i, j)'
    BY Zenon, <1>10 DEF NoRelay
  <2>2. \A i \in Shards : leader[i].ready \subseteq Shards
    BY Zenon DEF Inv2, Locals, Heard
  <2> QED
    BY <1>11, <1>12, <2>1, <2>2 DEF Inv2, ReadyHeard
<1>14. RelayOK(old)'
  <2> SUFFICES ASSUME NEW n \in net', n.type = "relay"
               PROVE  /\ n.from \in Shards /\ n.to \in Others(n.from) /\ n.seq \in Nat /\ n.seq < leader'[n.from].seq
                      /\ n.txs \subseteq Txs
                      /\ \A t \in n.txs : (IF St(n.from)' = 5 THEN modifiedMap ELSE old)[RecipientOf[t]] = n.to
                      /\ St(n.from)' \in 2 .. 4 => St(n.to)' <= 2
                      /\ Maps # <<>> /\ n.from \in DOMAIN leader'[n.to].seqIDMap
                            => leader'[n.to].seqIDMap[n.from] < n.seq
    BY Zenon, Numbers, <1>10 DEF RelayOK, Maps, RecipientOf
  <2>1. /\ n.from \in Shards /\ n.to \in Others(n.from) /\ n.seq \in Nat /\ n.seq < leader[n.from].seq
        /\ n.txs \subseteq Txs /\ n.to \in Shards
        /\ \A t \in n.txs : (IF St(n.from) = 5 THEN modifiedMap ELSE old)[RecipientOf[t]] = n.to
        /\ St(n.from) \in 2 .. 4 => St(n.to) <= 2
        /\ Maps # <<>> /\ n.from \in DOMAIN leader[n.to].seqIDMap => leader[n.to].seqIDMap[n.from] < n.seq
    BY Zenon, <1>10 DEF Inv2, Messages, RelayOK, Others
  <2>2. ASSUME Maps # <<>>, n.from \in DOMAIN leader'[n.to].seqIDMap
        PROVE  leader'[n.to].seqIDMap[n.from] < n.seq
    <3>1. CASE n.to = s /\ n.from = m.from
      <4>1. ~(n.seq < m.seq)
        BY Zenon, <1>0, <1>1, <1>10, <2>2, <3>1 DEF InOrder, OnTime
      <4>2. n.seq # m.seq
        BY Zenon, <1>0, <1>1, <1>10, <3>1 DEF Inv2, Messages, Distinct, Alike
      <4>3. leader'[n.to].seqIDMap[n.from] = m.seq
        BY Zenon, <1>2, <1>10, <3>1 DEF Put
      <4> QED
        BY <1>5, <2>1, <4>1, <4>2, <4>3
    <3>2. CASE n.to = s /\ n.from # m.from
      BY <1>2, <1>10, <2>1, <2>2, <3>2 DEF Put
    <3>3. CASE n.to # s
      BY Zenon, <1>10, <2>1, <2>2, <3>3
    <3> QED
      BY Zenon, <3>1, <3>2, <3>3
  <2> QED
    BY Zenon, <1>11, <2>1, <2>2
<1>16. RelaysPast'
  <2>1. m.seq < leader[m.from].seq
    BY Zenon, <1>1 DEF Inv2, Messages, RelayOK
  <2> QED
    BY <1>2, <1>5, <1>10, <1>11, <2>1 DEF Inv2, RelaysPast, Put
<1> QED
  <2>1. Arrives(m, s, l)
    BY Zenon, <1>0, <1>1, <1>2, <1>3, <1>4 DEF Arrives
  <2>3. Arrived(old, m, s, l)
    BY Zenon, <2>1, Arrival
  <2>2. /\ MapsOK(old)' /\ panicked' = {} /\ Behind' /\ InjectOK' /\ MapOK' /\ Distinct' /\ LedgerOK(old)' /\ Locals(old)'
        /\ Asides(old)' /\ AccountsOK(old)' /\ ReadyOK'
    BY Zenon, <1>3, <1>8, <1>9, <2>3 DEF Arrived
  <2> QED
    BY Zenon, <1>13, <1>14, <1>16, <2>2 DEF Inv2, Messages

\* handleAccountStateAndTxMsg puts accounts and transactions aside.
LEMMA AccountsTimed ==
    ASSUME Pigeonhole, Frame, NEW old, Inv2(old), UNCHANGED scenario, NEW m \in net, handleAccountStateAndTxMsg(m)
    PROVE  Inv2(old)'
<1> DEFINE s == m.to
           accts == {x \in leader[s].accts : x.from # m.from} \cup {m}
           l == [leader[s] EXCEPT !.accts = accts, !.over = @ \/ Cardinality(accts) = Cardinality(Shards) - 1]
<1>1. s \in Shards /\ m.type = "accounts" /\ Receive(m, s, l)
  BY Zenon DEF Frame, handleAccountStateAndTxMsg
<1>2. /\ DOMAIN l = Fields /\ l.accts = accts
      /\ l.over = (leader[s].over \/ Cardinality(accts) = Cardinality(Shards) - 1)
      /\ \A f \in Fields \ {"accts", "over"} : l[f] = leader[s][f]
  BY Zenon, <1>1 DEF Frame, Fields
<1> HIDE DEF l
<1>3. /\ l.seq = leader[s].seq /\ l.ledger = leader[s].ledger /\ l.pc = leader[s].pc /\ l.on = leader[s].on
      /\ l.maps = leader[s].maps /\ l.pool = leader[s].pool /\ l.ready = leader[s].ready
      /\ l.readySeq = leader[s].readySeq /\ l.seqIDMap = leader[s].seqIDMap
      /\ l.round = leader[s].round /\ l.transfers = leader[s].transfers /\ l.map = leader[s].map
  BY Zenon, <1>2 DEF Fields
<1>4. Stage(l, sentMaps) = St(s)
  BY Zenon, <1>3 DEF St, Stage
<1>5. HandOver(m, s, old) /\ St(s) \in {2, 3} /\ \A n \in leader[s].accts : n.from # m.from
  BY Zenon, <1>1 DEF Inv2, Messages, AccountsOK
<1>6. Local(leader[s], s, sentMaps, old, modifiedMap, RecipientOf) /\ Heard(leader[s], s, sentMaps)
  BY Zenon, <1>1 DEF Inv2, Locals
<1>7. accts = leader[s].accts \cup {m}
  BY Zenon, <1>5
<1>0. s = m.to
  BY Zenon
<1> HIDE DEF s, accts
<1>8. Local(l, s, sentMaps, old, modifiedMap, RecipientOf)
  BY Zenon, <1>3, <1>4, <1>6 DEF Local, St
<1>9. Heard(l, s, sentMaps)
  <2>2. \A n, o \in accts : n.from = o.from => n = o
    BY Zenon, <1>5, <1>6, <1>7 DEF Heard
  <2>3. \A n \in accts : n.from \in Others(s)
    BY Zenon, <1>1, <1>5, <1>7 DEF Inv2, Asides, HandOver
  <2>4. ASSUME l.over PROVE \A i \in Others(s) : \E n \in accts : n.from = i
    <3>1. CASE leader[s].over
      BY Zenon, <1>6, <1>7, <3>1 DEF Heard
    <3>2. CASE Cardinality(accts) = Cardinality(Shards) - 1
      BY Zenon, <1>1, <2>2, <2>3, <3>2 DEF Pigeonhole
    <3> QED
      BY Zenon, <1>2, <2>4, <3>1, <3>2
  <2>5. l.over \in BOOLEAN
    BY Zenon, <1>2
  <2> QED
    BY <1>2, <1>3, <1>4, <1>5, <1>6, <2>2, <2>4, <2>5 DEF Heard, St
<1>10. /\ leader'[s] = l /\ \A i \in Shards \ {s} : leader'[i] = leader[i]
       /\ net' = net \ {m} /\ UNCHANGED <<sentMaps, modifiedMap>>
  BY Zenon, <1>1, <1>2, Received
<1>15. Arrives(m, s, l)
  <2>1. DOMAIN l = Fields /\ m.type # "info"
    BY Zenon, <1>1, <1>2
  <2> QED
    BY Zenon, <1>0, <1>1, <1>3, <1>4, <2>1 DEF Arrives
<1>16. Arrived(old, m, s, l)
  BY Zenon, <1>15, Arrival
<1>11. \A n : \A i \in Shards : HandOver(n, i, old) => HandOver(n, i, old)'
  BY Zenon, <1>16 DEF Arrived
<1>12. Asides(old)'
  BY <1>1, <1>2, <1>5, <1>7, <1>10, <1>11 DEF Inv2, Asides
<1>13. AccountsOK(old)'
  <2> SUFFICES ASSUME NEW n \in net', n.type = "accounts"
               PROVE  /\ n.to \in Shards /\ HandOver(n, n.to, old)' /\ St(n.to)' \in {2, 3}
                      /\ \A o \in leader'[n.to].accts : o.from # n.from
    BY Zenon DEF AccountsOK
  <2>1. /\ n.to \in Shards /\ HandOver(n, n.to, old) /\ St(n.to) \in {2, 3}
        /\ \A o \in leader[n.to].accts : o.from # n.from
    BY Zenon, <1>10 DEF Inv2, Messages, AccountsOK
  <2>2. n.to = s => n.from # m.from
    BY Zenon, <1>0, <1>1, <1>10 DEF Inv2, Messages, Distinct, Alike
  <2>3. St(n.to)' = St(n.to)
    BY Zenon, <1>4, <1>10, <2>1 DEF St
  <2> QED
    BY Zenon, <1>2, <1>7, <1>10, <1>11, <2>1, <2>2, <2>3
<1> QED
  <2>2. /\ MapsOK(old)' /\ panicked' = {} /\ Behind' /\ InjectOK' /\ MapOK' /\ Distinct' /\ LedgerOK(old)' /\ Locals(old)'
        /\ RelayOK(old)' /\ RelaysPast' /\ ReadyOK' /\ ReadyHeard'
    BY Zenon, <1>3, <1>8, <1>9, <1>16 DEF Arrived
  <2> QED
    BY Zenon, <1>12, <1>13, <2>2 DEF Inv2, Messages

\* s becomes l, and goes on to the next step of its partition before the commit.
Advances(s, l) ==
    /\ s \in Shards /\ DOMAIN l = Fields /\ leader' = [leader EXCEPT ![s] = l]
    /\ UNCHANGED <<unsent, sentMaps, modifiedMap, executed, panicked>>
    /\ l.seq = leader[s].seq /\ l.ledger = leader[s].ledger /\ l.seqIDMap = leader[s].seqIDMap
    /\ l.readySeq = leader[s].readySeq /\ l.accts = leader[s].accts
    /\ St(s) \in 1 .. 3 /\ Stage(l, sentMaps) = St(s) + 1
    /\ \A m \in net' : m \in net \/ m.type \in {"ready", "accounts"}

\* What a step leaves of the invariant when the main node of s has gone on by one stage.
Advanced(old, s, l) ==
    /\ leader'[s] = l /\ (\A i \in Shards \ {s} : leader'[i] = leader[i] /\ St(i)' = St(i))
    /\ St(s)' = St(s) + 1 /\ St(s) \in 1 .. 3
    /\ MapsOK(old)' /\ panicked' = {} /\ RelaysPast' /\ InjectOK' /\ MapOK' /\ LedgerOK(old)' /\ Asides(old)'
    /\ \A n : \A i \in Shards : HandOver(n, i, old) => HandOver(n, i, old)'
    /\ Local(l, s, sentMaps, old, modifiedMap, RecipientOf) /\ Heard(l, s, sentMaps) => Locals(old)'
    /\ \A n \in net' : n.type = "relay" =>
          /\ n \in net /\ n.from \in Shards /\ n.to \in Others(n.from)
          /\ St(n.from) \in 2 .. 4 => St(n.to) <= 2
    /\ (\A n \in net' : n.type = "relay" /\ St(n.from)' \in 2 .. 4 => St(n.to)' <= 2) => RelayOK(old)'

\* What no such step disturbs.
LEMMA Advance ==
    ASSUME Frame, NEW old, Inv2(old), UNCHANGED scenario, NEW s, NEW l, Advances(s, l)
    PROVE  Advanced(old, s, l)
<1>0. /\ s \in Shards /\ DOMAIN l = Fields /\ leader' = [leader EXCEPT ![s] = l]
      /\ UNCHANGED <<unsent, sentMaps, modifiedMap, executed, panicked>>
      /\ l.seq = leader[s].seq /\ l.ledger = leader[s].ledger /\ l.seqIDMap = leader[s].seqIDMap
      /\ l.readySeq = leader[s].readySeq /\ l.accts = leader[s].accts
      /\ St(s) \in 1 .. 3 /\ Stage(l, sentMaps) = St(s) + 1
      /\ \A m \in net' : m \in net \/ m.type \in {"ready", "accounts"}
  BY Zenon DEF Advances
<1>1. leader'[s] = l /\ \A i \in Shards \ {s} : leader'[i] = leader[i]
  BY Zenon, <1>0 DEF Frame
<1>2. (\A i \in Shards \ {s} : St(i)' = St(i)) /\ St(s)' = St(s) + 1 /\ St(s) \in 1 .. 3
  BY Zenon, <1>0, <1>1 DEF St
<1>3. \A i \in Shards : /\ leader'[i].seq = leader[i].seq /\ leader'[i].ledger = leader[i].ledger
                        /\ leader'[i].seqIDMap = leader[i].seqIDMap /\ leader'[i].accts = leader[i].accts
  BY Zenon, <1>0, <1>1
<1>4. UNCHANGED <<Maps, RecipientOf>>
  BY Zenon DEF Maps, RecipientOf
<1>5. MapsOK(old)' /\ panicked' = {} /\ RelaysPast'
  BY Zenon, <1>0, <1>3, <1>4 DEF Inv2, MapsOK, RelaysPast
<1>6. \A i \in Shards : St(i) \in 0 .. 5 /\ (St(i)' = 5 <=> St(i) = 5) /\ (St(i) >= 3 => St(i)' >= 3)
  BY <1>2, Stages DEF Inv2
<1>7. InjectOK' /\ MapOK'
  <2>1. \A m \in net' : m.type # "inject"
    BY <1>0, <1>2 DEF Inv2, Messages, InjectOK
  <2>2. \A m \in net' : m.type = "map" => m.to \in Shards /\ m.id = sentMaps /\ St(m.to) = 0
    BY Zenon, <1>0 DEF Inv2, Messages, MapOK
  <2> QED
    BY <1>0, <1>2, <2>1, <2>2 DEF InjectOK, MapOK
<1>8. LedgerOK(old)'
  <2> SUFFICES ASSUME NEW a \in Accounts, NEW i \in Shards
               PROVE  leader'[i].ledger[a] \subseteq leader'[Holder(a, old)'].ledger[a]
    BY Zenon DEF LedgerOK
  <2>1. modifiedMap[a] \in Shards /\ old[a] \in Shards /\ modifiedMap' = modifiedMap
    BY Zenon, <1>0 DEF Frame, Inv2, MapsOK
  <2>2. Holder(a, old)' = Holder(a, old) /\ Holder(a, old) \in Shards
    BY Zenon, <1>6, <2>1 DEF Holder
  <2> QED
    BY Zenon, <1>3, <2>2 DEF Inv2, LedgerOK
<1>9. \A n : \A i \in Shards : HandOver(n, i, old) => HandOver(n, i, old)'
  BY <1>0, <1>3, <1>4, <1>6 DEF HandOver, Others
<1>10. Asides(old)'
  BY Zenon, <1>3, <1>9 DEF Inv2, Asides
<1>11. ASSUME Local(l, s, sentMaps, old, modifiedMap, RecipientOf), Heard(l, s, sentMaps) PROVE Locals(old)'
  BY Zenon, <1>0, <1>1, <1>4, <1>11 DEF Inv2, Locals
<1>12. ASSUME NEW n \in net', n.type = "relay"
       PROVE  /\ n \in net /\ n.from \in Shards /\ n.to \in Others(n.from) /\ n.seq \in Nat /\ n.seq < leader[n.from].seq
              /\ n.txs \subseteq Txs /\ n.to \in Shards
              /\ \A t \in n.txs : (IF St(n.from) = 5 THEN modifiedMap ELSE old)[RecipientOf[t]] = n.to
              /\ St(n.from) \in 2 .. 4 => St(n.to) <= 2
              /\ Maps # <<>> /\ n.from \in DOMAIN leader[n.to].seqIDMap => leader[n.to].seqIDMap[n.from] < n.seq
  BY Zenon, <1>0, <1>12 DEF Inv2, Messages, RelayOK, Others
<1>13. ASSUME \A n \in net' : n.type = "relay" /\ St(n.from)' \in 2 .. 4 => St(n.to)' <= 2
       PROVE  RelayOK(old)'
  <2> SUFFICES ASSUME NEW n \in net', n.type = "relay"
               PROVE  /\ n.from \in Shards /\ n.to \in Others(n.from) /\ n.seq \in Nat /\ n.seq < leader'[n.from].seq
                      /\ n.txs \subseteq Txs
                      /\ \A t \in n.txs : (IF St(n.from)' = 5 THEN modifiedMap ELSE old)[RecipientOf[t]] = n.to
                      /\ Maps # <<>> /\ n.from \in DOMAIN leader'[n.to].seqIDMap
                            => leader'[n.to].seqIDMap[n.from] < n.seq
    BY Zenon, <1>0, <1>4, <1>13 DEF RelayOK
  <2> QED
    BY Zenon, <1>3, <1>6, <1>12
<1> QED
  BY Zenon, <1>1, <1>2, <1>5, <1>7, <1>8, <1>9, <1>10, <1>11, <1>12, <1>13
  DEF Advanced

\* sendPartitionReady tells the other shards of the round this one is in.
LEMMA SendReadyTimed ==
    ASSUME Frame, NEW old, Inv2(old), UNCHANGED scenario, NEW s \in Shards, sendPartitionReady(s)
    PROVE  Inv2(old)'
<1> DEFINE l == [leader[s] EXCEPT !.ready = @ \cup {s}, !.pc = "ready"]
           msg(i) == [type |-> "ready", from |-> s, to |-> i, seq |-> leader[s].seq]
<1>1. /\ leader[s].pc = "propose" /\ leader[s].on
      /\ net' = net \cup {msg(i) : i \in Others(s)}
      /\ UNCHANGED <<unsent, sentMaps, modifiedMap, executed, panicked>>
  BY Zenon DEF sendPartitionReady, committee
<1>2. leader' = [leader EXCEPT ![s] = l]
  BY Zenon DEF sendPartitionReady, Frame, Fields
<1>3. /\ DOMAIN l = Fields /\ l.ready = leader[s].ready \cup {s} /\ l.pc = "ready"
      /\ \A f \in Fields \ {"ready", "pc"} : l[f] = leader[s][f]
  BY Zenon DEF Frame, Fields
<1>4. \A m \in net' : m \in net \/ \E i \in Others(s) :
         m.type = "ready" /\ m.from = s /\ m.to = i /\ m.seq = leader[s].seq /\ m = msg(i)
  BY <1>1
<1> HIDE DEF l, msg
<1>5. /\ l.seq = leader[s].seq /\ l.ledger = leader[s].ledger /\ l.on = leader[s].on
      /\ l.maps = leader[s].maps /\ l.accts = leader[s].accts /\ l.pool = leader[s].pool
      /\ l.readySeq = leader[s].readySeq /\ l.over = leader[s].over /\ l.seqIDMap = leader[s].seqIDMap
      /\ l.atm = leader[s].atm /\ l.round = leader[s].round /\ l.transfers = leader[s].transfers
      /\ l.map = leader[s].map
  BY Zenon, <1>3 DEF Fields
<1>6. Stage(l, sentMaps) = 2 /\ St(s) = 1
  BY Zenon, <1>1, <1>3, Stages DEF Stage, Inv2
<1>7. Advances(s, l)
  BY <1>1, <1>2, <1>3, <1>4, <1>5, <1>6 DEF Advances
<1>7a. Advanced(old, s, l)
  BY Zenon, <1>7, Advance
<1>8. Local(leader[s], s, sentMaps, old, modifiedMap, RecipientOf) /\ Heard(leader[s], s, sentMaps)
      /\ Stage(leader[s], sentMaps) = 1
  BY Zenon, <1>6 DEF Inv2, Locals, St
<1>9. Local(l, s, sentMaps, old, modifiedMap, RecipientOf)
  BY ZenonT(30), Numbers, <1>3, <1>5, <1>6, <1>8 DEF Local
<1>10. Heard(l, s, sentMaps)
  BY Zenon, Numbers, <1>3, <1>5, <1>6, <1>8 DEF Heard
<1>11. /\ leader'[s] = l /\ (\A i \in Shards \ {s} : leader'[i] = leader[i] /\ St(i)' = St(i)) /\ St(s)' = 2
       /\ MapsOK(old)' /\ panicked' = {} /\ RelaysPast' /\ InjectOK' /\ MapOK' /\ LedgerOK(old)' /\ Asides(old)'
       /\ Locals(old)'
  <2>1. St(s)' = St(s) + 1
    BY Zenon, <1>7a DEF Advanced
  <2>2. St(s)' = 2
    BY <1>6, <2>1
  <2> QED
    BY Zenon, <1>7a, <1>9, <1>10, <2>2 DEF Advanced
<1>12. \A n : \A i \in Shards : HandOver(n, i, old) => HandOver(n, i, old)'
  BY Zenon, <1>7a DEF Advanced
<1>13. \A i \in Shards : St(i) <= 2 /\ St(i)' <= 2 /\ St(i) \in 0 .. 5 /\ St(i)' \in 0 .. 5
  BY <1>6, <1>11, Stages DEF Inv2, Behind
<1>14. Behind'
  BY <1>13 DEF Behind
<1>15. RelayOK(old)'
  <2>1. \A n \in net' : n.type = "relay" => n.to \in Shards
    BY Zenon, <1>7a DEF Others, Advanced
  <2>2. \A n \in net' : n.type = "relay" /\ St(n.from)' \in 2 .. 4 => St(n.to)' <= 2
    BY Zenon, <1>13, <2>1
  <2> QED
    BY Zenon, <1>7a, <2>2 DEF Advanced
<1>16. ReadyHeard'
  <2> SUFFICES ASSUME NEW j \in Shards, NEW i \in leader'[j].ready
               PROVE  /\ St(i)' >= 2
                      /\ i # j =>
                          /\ St(i)' \in {2, 3} /\ i \in DOMAIN leader'[j].readySeq
                          /\ leader'[j].readySeq[i] = leader'[i].seq
                          /\ i \in DOMAIN leader'[j].seqIDMap \/ NoRelay(i, j)'
    BY Zenon DEF ReadyHeard
  <2>1. CASE i = s
    <3>1. i = j
      BY Zenon, Numbers, <1>6, <1>11, <2>1 DEF Inv2, ReadyHeard
    <3> QED
      BY Zenon, Numbers, <1>11, <2>1, <3>1
  <2>2. CASE i # s
    <3>1. i \in leader[j].ready
      BY Zenon, Numbers, <1>3, <1>11, <2>2
    <3>2. /\ i \in Shards /\ St(i) >= 2
          /\ i # j => /\ St(i) \in {2, 3} /\ i \in DOMAIN leader[j].readySeq /\ leader[j].readySeq[i] = leader[i].seq
                      /\ i \in DOMAIN leader[j].seqIDMap \/ NoRelay(i, j)
      BY Zenon, <1>13, <3>1 DEF Inv2, ReadyHeard, Locals, Heard
    <3>3. NoRelay(i, j) => NoRelay(i, j)'
      BY Zenon, <1>4 DEF NoRelay
    <3>4. leader'[j].readySeq = leader[j].readySeq /\ leader'[j].seqIDMap = leader[j].seqIDMap
      BY Zenon, <1>5, <1>11
    <3> QED
      BY Zenon, <1>11, <2>2, <3>2, <3>3, <3>4
  <2> QED
    BY Zenon, <2>1, <2>2
<1>17. ReadyOK'
  <2> SUFFICES ASSUME NEW m \in net', m.type = "ready"
               PROVE  /\ m.from \in Shards /\ m.to \in Others(m.from) /\ St(m.from)' \in {2, 3} /\ St(m.to)' <= 2
                      /\ m.from \notin leader'[m.to].ready /\ m.seq = leader'[m.from].seq
    BY Zenon DEF ReadyOK
  <2>1. CASE m \in net
    <3>1. /\ m.from \in Shards /\ m.to \in Others(m.from) /\ St(m.from) \in {2, 3} /\ m.to \in Shards /\ m.to # m.from
          /\ m.from \notin leader[m.to].ready /\ m.seq = leader[m.from].seq
      BY Zenon, <2>1 DEF Inv2, Messages, ReadyOK, Others
    <3> QED
      BY <1>3, <1>6, <1>11, <1>13, <3>1
  <2>2. CASE m \notin net
    <3>1. m.from = s /\ m.to \in Others(s) /\ m.to \in Shards /\ m.to # s /\ m.seq = leader[s].seq
      BY Zenon, <1>4, <2>2 DEF Others
    <3>2. s \notin leader[m.to].ready
      BY Zenon, Numbers, <1>6, <3>1 DEF Inv2, ReadyHeard
    <3> QED
      BY Zenon, <1>5, <1>11, <1>13, <3>1, <3>2
  <2> QED
    BY Zenon, <2>1, <2>2
<1>18. AccountsOK(old)'
  <2> SUFFICES ASSUME NEW m \in net, m.type = "accounts"
               PROVE  /\ m.to \in Shards /\ HandOver(m, m.to, old)' /\ St(m.to)' \in {2, 3}
                      /\ \A n \in leader'[m.to].accts : n.from # m.from
    BY Zenon, <1>4 DEF AccountsOK
  <2>1. /\ m.to \in Shards /\ HandOver(m, m.to, old) /\ St(m.to) \in {2, 3}
        /\ \A n \in leader[m.to].accts : n.from # m.from
    BY Zenon DEF Inv2, Messages, AccountsOK
  <2> QED
    BY Zenon, Numbers, <1>6, <1>11, <1>12, <2>1
<1>19. Distinct'
  <2>1. \A m \in net : m.type = "ready" => m.from # s
    BY Zenon, Numbers, <1>6 DEF Inv2, Messages, ReadyOK
  <2> SUFFICES ASSUME NEW m \in net', NEW n \in net', Alike(m, n) PROVE m = n
    BY Zenon DEF Distinct
  <2>2. CASE m \in net /\ n \in net
    BY Zenon, <2>2 DEF Inv2, Messages, Distinct
  <2>3. CASE m \notin net \/ n \notin net
    <3>1. m \notin net /\ n \notin net
      BY Zenon, <1>4, <2>1, <2>3 DEF Alike
    <3> QED
      BY Zenon, Numbers, <1>4, <3>1 DEF Alike
  <2> QED
    BY Zenon, <2>2, <2>3
<1> QED
  BY Zenon, <1>11, <1>14, <1>15, <1>16, <1>17, <1>18, <1>19 DEF Inv2, Messages

\* When getPartitionReady lets s go on, nobody is behind and no relay is on its way to it.
LEMMA AllReady ==
    ASSUME Frame, NEW old, Inv2(old), NEW s \in Shards, St(s) = 2, getPartitionReady(leader[s])
    PROVE  /\ leader[s].ready = Shards /\ \A i \in Others(s) : St(i) \in {2, 3}
           /\ \A m \in net : ~(m.type = "relay" /\ m.to = s)
<1>1. leader[s].ready = Shards
  BY Zenon DEF getPartitionReady
<1>2. \A i \in Others(s) :
          /\ St(i) \in {2, 3} /\ i \in DOMAIN leader[s].readySeq /\ leader[s].readySeq[i] = leader[i].seq
          /\ i \in DOMAIN leader[s].seqIDMap \/ NoRelay(i, s)
  BY Zenon, <1>1 DEF Inv2, ReadyHeard, Others
<1>3. ASSUME NEW m \in net, m.type = "relay", m.to = s PROVE FALSE
  <2>1. /\ m.from \in Others(s) /\ m.seq \in Nat /\ m.seq < leader[m.from].seq
        /\ Maps # <<>> /\ m.from \in DOMAIN leader[s].seqIDMap => leader[s].seqIDMap[m.from] < m.seq
    BY Zenon, <1>3 DEF Inv2, Messages, RelayOK, Others
  <2>2. Maps # <<>>
    BY Zenon, Numbers, WithoutMaps DEF Inv2
  <2>3. m.from \in DOMAIN leader[s].seqIDMap
    BY Zenon, <1>2, <1>3, <2>1 DEF NoRelay
  <2>4. leader[m.from].seq - 1 = leader[s].seqIDMap[m.from]
    BY Zenon, <1>2, <2>1, <2>3 DEF getPartitionReady
  <2>5. leader[m.from].seq \in Nat
    BY Zenon, <2>1 DEF Inv2, Locals, Local, Others
  <2> QED
    BY <2>1, <2>2, <2>3, <2>4, <2>5
<1> QED
  BY Zenon, <1>1, <1>2, <1>3

\* sendAccounts_and_Txs hands over the accounts that leave and the transactions that go with them.
LEMMA SendAccountsTimed ==
    ASSUME Frame, NEW old, Inv2(old), UNCHANGED <<scenario, died>>, NEW s \in Shards, sendAccounts_and_Txs(s)
    PROVE  Inv2(old)'
<1> DEFINE ls == leader[s]
           last == Maps[ls.maps[Len(ls.maps)]]
           addrs(i) == {a \in DOMAIN last : last[a] = i /\ i # s /\ ls.map[a] = s}
           txs(i) == {x \in ls.pool : GoesWith(addrs(i), x)}
           sent == UNION {txs(i) : i \in Others(s)}
           l == [leader[s] EXCEPT !.pc = "collect", !.pool = Kept(@, sent)]
           msg(i) == [type |-> "accounts", from |-> s, to |-> i, seq |-> ls.seq, txs |-> txs(i),
                      states |-> [a \in addrs(i) |-> ls.ledger[a]]]
<1>1. /\ ls.pc = "ready" /\ getPartitionReady(ls)
      /\ net' = net \cup {msg(i) : i \in Others(s)}
      /\ UNCHANGED <<unsent, sentMaps, modifiedMap, executed, panicked>>
  BY Zenon, Survives DEF sendAccounts_and_Txs, committee
<1>2. leader' = [leader EXCEPT ![s] = l]
  BY Zenon, Survives DEF sendAccounts_and_Txs, Frame, Fields
<1>3. /\ DOMAIN l = Fields /\ l.pool = ls.pool \ sent /\ l.pc = "collect"
      /\ \A f \in Fields \ {"pool", "pc"} : l[f] = leader[s][f]
  BY Zenon DEF Frame, Fields, Kept
<1>4. St(s) = 2
  BY Zenon, <1>1, Stages DEF Inv2
<1>5. Local(ls, s, sentMaps, old, modifiedMap, RecipientOf) /\ Heard(ls, s, sentMaps)
      /\ Stage(ls, sentMaps) = 2
  BY Zenon, <1>4 DEF Inv2, Locals, St
<1>6. /\ sentMaps \in 1 .. Len(Maps) /\ last = Maps[sentMaps] /\ ls.map = old
      /\ \A x \in ls.pool : x \in Entries /\ old[Addr(RecipientOf, x)] = s
  <2>1. sentMaps \in 0 .. Len(Maps) /\ Len(Maps) \in Nat
    BY MapTypes DEF Frame
  <2>2. sentMaps >= 1 /\ Len(ls.maps) = sentMaps /\ ls.map = old
    BY Zenon, Numbers, <1>5 DEF Local
  <2>3. ls.maps[sentMaps] = sentMaps
    BY <1>5, <2>1, <2>2 DEF Local
  <2>4. \A x \in ls.pool : x \in Entries /\ old[Addr(RecipientOf, x)] = s
    BY Zenon, Numbers, <1>5 DEF Local
  <2> QED
    BY <2>1, <2>2, <2>3, <2>4
<1>7. DOMAIN Maps[sentMaps] \subseteq Accounts /\ \A a \in DOMAIN Maps[sentMaps] : Maps[sentMaps][a] \in Shards
  BY Zenon, <1>6, MapTypes DEF Frame
<1>8. \A x : \A i : x \in txs(i) <=> x \in ls.pool /\ Addr(RecipientOf, x) \in addrs(i)
  BY Zenon DEF GoesWith, Addr
<1>9. \A i \in Others(s) : addrs(i) = {a \in Given(Maps[sentMaps], i) : old[a] = s}
  BY Zenon, <1>6 DEF Given, Others
<1>10. \A x \in l.pool : x \in ls.pool /\ \A i \in Others(s) : x \notin txs(i)
  <2> HIDE DEF l, txs
  <2>1. \A i \in Others(s) : txs(i) \subseteq sent
    BY Zenon
  <2> HIDE DEF sent
  <2> QED
    BY Zenon, <1>3, <2>1
<1>11. \A m \in net' : m \in net \/ \E i \in Others(s) : m = msg(i)
  BY Zenon, <1>1
<1>12. \A i \in Others(s) : /\ msg(i).type = "accounts" /\ msg(i).from = s /\ msg(i).to = i
                            /\ msg(i).txs = txs(i) /\ DOMAIN msg(i).states = addrs(i)
                            /\ \A a \in addrs(i) : msg(i).states[a] = ls.ledger[a]
  BY Zenon
<1>13. ls = leader[s]
  BY Zenon
<1> HIDE DEF l, msg, txs, addrs, last, sent, ls
<1>14. /\ l.seq = leader[s].seq /\ l.ledger = leader[s].ledger /\ l.on = leader[s].on
       /\ l.maps = leader[s].maps /\ l.accts = leader[s].accts /\ l.ready = leader[s].ready
       /\ l.readySeq = leader[s].readySeq /\ l.over = leader[s].over /\ l.seqIDMap = leader[s].seqIDMap
       /\ l.atm = leader[s].atm /\ l.round = leader[s].round /\ l.transfers = leader[s].transfers
       /\ l.map = leader[s].map
  BY Zenon, <1>3 DEF Fields
<1>15. Stage(l, sentMaps) = 3
  BY Zenon, <1>3 DEF Stage
<1>16. Advances(s, l)
  <2>1. \A m \in net' : m \in net \/ m.type \in {"ready", "accounts"}
    BY <1>11, <1>12
  <2>2. DOMAIN l = Fields
    BY Zenon, <1>3
  <2> QED
    BY <1>1, <1>2, <1>4, <1>14, <1>15, <2>1, <2>2 DEF Advances
<1>16a. Advanced(old, s, l)
  BY Zenon, <1>16, Advance
<1>17. /\ leader[s].ready = Shards /\ (\A i \in Others(s) : St(i) \in {2, 3})
       /\ \A m \in net : ~(m.type = "relay" /\ m.to = s)
  BY Zenon, <1>1, <1>4, <1>13, AllReady
<1>18. Local(l, s, sentMaps, old, modifiedMap, RecipientOf)
  <2>1. modifiedMap = Over(Maps[sentMaps], old)
    BY <1>6 DEF Inv2, MapsOK
  <2>2. ASSUME NEW x \in l.pool PROVE x \in Entries /\ modifiedMap[Addr(RecipientOf, x)] = s
    <3> DEFINE a == Addr(RecipientOf, x)
    <3>1. x \in Entries /\ old[a] = s
      BY Zenon, <1>6, <1>10
    <3>2. a \in Accounts
      <4>1. RecipientOf \in [Txs -> Accounts] /\ Sender \in [Txs -> Accounts]
        BY Zenon, MapTypes, ScenarioAssumption DEF Frame
      <4> QED
        BY Zenon, <3>1, <4>1 DEF Entries, Addr
    <3>3. \A i \in Others(s) : a \notin addrs(i)
      BY Zenon, <1>8, <1>10
    <3> HIDE DEF a
    <3>4. a \in DOMAIN Maps[sentMaps] => Maps[sentMaps][a] = s
      BY Zenon, <1>7, <1>9, <3>1, <3>3 DEF Given, Others
    <3>5. modifiedMap[a] = (IF a \in DOMAIN Maps[sentMaps] THEN Maps[sentMaps][a] ELSE old[a])
      BY Zenon, <2>1, <3>2 DEF Over, Inv2, MapsOK
    <3>6. modifiedMap[a] = s
      BY Zenon, <3>1, <3>4, <3>5
    <3> QED
      BY Zenon, <3>1, <3>6 DEF a
  <2>3. l.pool \subseteq Entries
    BY Zenon, <2>2
  <2>4. Local(leader[s], s, sentMaps, old, modifiedMap, RecipientOf) /\ Stage(leader[s], sentMaps) = 2
    BY Zenon, <1>5, <1>13
  <2>5. sentMaps >= 1 /\ l.pc = "collect"
    BY Zenon, Numbers, <1>3, <2>4 DEF Local
  <2> QED
    BY Zenon, Numbers, <1>14, <1>15, <2>2, <2>3, <2>4, <2>5 DEF Local
<1>19. Heard(l, s, sentMaps)
  BY <1>5, <1>13, <1>14, <1>15, <1>17 DEF Heard
<1>20. /\ leader'[s] = l /\ (\A i \in Shards \ {s} : leader'[i] = leader[i] /\ St(i)' = St(i)) /\ St(s)' = 3
       /\ MapsOK(old)' /\ panicked' = {} /\ RelaysPast' /\ InjectOK' /\ MapOK' /\ LedgerOK(old)' /\ Asides(old)'
       /\ Locals(old)'
  <2>1. St(s)' = St(s) + 1
    BY Zenon, <1>16a DEF Advanced
  <2>2. St(s)' = 3
    BY <1>4, <2>1
  <2> QED
    BY Zenon, <1>16a, <1>18, <1>19, <2>2 DEF Advanced
<1>20a. \A i \in Shards : leader'[i].ready = leader[i].ready /\ leader'[i].seq = leader[i].seq
                          /\ leader'[i].ledger = leader[i].ledger
  BY Zenon, <1>14, <1>20
<1>21. \A n : \A i \in Shards : HandOver(n, i, old) => HandOver(n, i, old)'
  BY Zenon, <1>16a DEF Advanced
<1>22. \A i \in Shards : St(i)' \in {2, 3}
  BY Zenon, <1>17, <1>20 DEF Others
<1>23. Behind'
  BY <1>22 DEF Behind
<1>24. RelayOK(old)'
  <2>1. \A n \in net' : n.type = "relay" =>
           n \in net /\ n.from \in Shards /\ n.to \in Others(n.from) /\ (St(n.from) \in 2 .. 4 => St(n.to) <= 2)
    BY Zenon, <1>16a DEF Advanced
  <2>2. \A n \in net' : n.type = "relay" /\ St(n.from)' \in 2 .. 4 => St(n.to)' <= 2
    <3> SUFFICES ASSUME NEW n \in net', n.type = "relay" PROVE St(n.to)' <= 2
      BY Zenon
    <3>1. n.to # s /\ n.to \in Shards /\ n.from \in Shards
      BY Zenon, <1>17, <2>1 DEF Others
    <3>2. St(n.from) \in 2 .. 4
      BY Zenon, Numbers, <1>4, <1>17, <3>1 DEF Others
    <3> QED
      BY Zenon, <1>20, <2>1, <3>1, <3>2
  <2> QED
    BY Zenon, <1>16a, <2>2 DEF Advanced
<1>25. ReadyHeard'
  <2> SUFFICES ASSUME NEW j \in Shards, NEW i \in leader'[j].ready
               PROVE  /\ St(i)' >= 2
                      /\ St(j)' <= 2 /\ i # j =>
                          /\ St(i)' \in {2, 3} /\ i \in DOMAIN leader'[j].readySeq
                          /\ leader'[j].readySeq[i] = leader'[i].seq
                          /\ i \in DOMAIN leader'[j].seqIDMap \/ NoRelay(i, j)'
    BY ZenonT(30) DEF ReadyHeard
  <2>0. leader'[j].ready = leader[j].ready /\ leader[j].ready \subseteq Shards
    BY Zenon, <1>20, <1>20a DEF Inv2, Locals, Heard
  <2>1. i \in leader[j].ready /\ i \in Shards
    BY Zenon, <2>0
  <2>2. NoRelay(i, j) => NoRelay(i, j)'
    BY Zenon, <1>11, <1>12 DEF NoRelay
  <2>3. leader'[j].readySeq = leader[j].readySeq /\ leader'[j].seqIDMap = leader[j].seqIDMap
        /\ leader'[i].seq = leader[i].seq
    BY Zenon, <1>14, <1>20, <2>1
  <2>4. St(j)' <= 2 => j # s /\ St(j) <= 2
    BY Zenon, Numbers, <1>20
  <2> QED
    BY ZenonT(30), Numbers, <1>22, <2>1, <2>2, <2>3, <2>4 DEF Inv2, ReadyHeard
<1>26. ReadyOK'
  <2> SUFFICES ASSUME NEW m \in net', m.type = "ready"
               PROVE  /\ m.from \in Shards /\ m.to \in Others(m.from) /\ St(m.from)' \in {2, 3} /\ St(m.to)' <= 2
                      /\ m.from \notin leader'[m.to].ready /\ m.seq = leader'[m.from].seq
    BY Zenon DEF ReadyOK
  <2>1. /\ m.from \in Shards /\ m.to \in Others(m.from) /\ m.to \in Shards /\ St(m.to) <= 2
        /\ m.from \notin leader[m.to].ready /\ m.seq = leader[m.from].seq
    BY Zenon, <1>11, <1>12 DEF Inv2, Messages, ReadyOK, Others
  <2>2. m.to # s
    BY Zenon, <1>17, <2>1
  <2>3. St(m.to)' = St(m.to)
    BY Zenon, <1>20, <2>1, <2>2
  <2> QED
    BY Zenon, <1>20a, <1>22, <2>1, <2>3
<1>27. AccountsOK(old)'
  <2> SUFFICES ASSUME NEW m \in net', m.type = "accounts"
               PROVE  /\ m.to \in Shards /\ HandOver(m, m.to, old)'
                      /\ \A n \in leader'[m.to].accts : n.from # m.from
    BY Zenon, <1>22 DEF AccountsOK
  <2>1. \A i \in Shards : leader'[i].accts = leader[i].accts
    BY Zenon, <1>14, <1>20
  <2>2. CASE m \in net
    <3>1. /\ m.to \in Shards /\ HandOver(m, m.to, old) /\ \A n \in leader[m.to].accts : n.from # m.from
      BY Zenon, <2>2 DEF Inv2, Messages, AccountsOK
    <3> QED
      BY Zenon, <1>21, <2>1, <3>1
  <2>3. CASE m \notin net
    <3>1. PICK i \in Others(s) : m = msg(i)
      BY Zenon, <1>11, <2>3
    <3>2. i \in Shards /\ i # s /\ m.to = i /\ m.from = s
      BY ZenonT(30), <1>12, <3>1 DEF Others
    <3>3. \A n \in leader[i].accts : n.from # s
      <4>1. \A n \in leader[i].accts : St(n.from) >= 3
        BY Zenon, <3>2 DEF Inv2, Asides, HandOver
      <4>2. ~(St(s) >= 3)
        BY Zenon, Numbers, <1>4
      <4> QED
        BY Zenon, <4>1, <4>2
    <3>4. m.txs \subseteq Entries /\ \A x \in m.txs : Addr(RecipientOf, x) \in Given(Maps[sentMaps], i)
      BY <1>6, <1>8, <1>9, <1>12, <3>1
    <3>5. /\ DOMAIN m.states = {a \in Given(Maps[sentMaps], i) : old[a] = s}
          /\ \A a \in DOMAIN m.states : m.states[a] = leader[s].ledger[a]
      BY Zenon, <1>9, <1>12, <1>13, <3>1
    <3>6. UNCHANGED <<Maps, RecipientOf, sentMaps>>
      BY Zenon, <1>1 DEF Maps, RecipientOf
    <3>7. HandOver(m, i, old)'
      <4>1. sentMaps >= 1
        BY Zenon, Numbers, <1>5 DEF Local
      <4>2. m.from \in Others(i) /\ St(m.from)' >= 3
        BY Zenon, Numbers, <1>20, <3>2 DEF Others
      <4>3. \A a \in DOMAIN m.states : m.states[a] = leader'[m.from].ledger[a]
        BY Zenon, <1>20a, <3>2, <3>5
      <4> QED
        BY Zenon, <3>2, <3>4, <3>5, <3>6, <4>1, <4>2, <4>3 DEF HandOver
    <3> QED
      BY Zenon, <2>1, <3>2, <3>3, <3>7
  <2> QED
    BY Zenon, <2>2, <2>3
<1>28. Distinct'
  <2>1. \A m \in net : m.type = "accounts" => m.from # s
    BY <1>4 DEF Inv2, Messages, AccountsOK, HandOver
  <2> SUFFICES ASSUME NEW m \in net', NEW n \in net', Alike(m, n) PROVE m = n
    BY Zenon DEF Distinct
  <2>2. CASE m \in net /\ n \in net
    BY Zenon, <2>2 DEF Inv2, Messages, Distinct
  <2>3. CASE m \notin net \/ n \notin net
    <3>1. m \notin net /\ n \notin net
      BY <1>11, <1>12, <2>1, <2>3 DEF Alike
    <3>2. PICK i \in Others(s) : m = msg(i)
      BY Zenon, <1>11, <3>1
    <3>3. PICK j \in Others(s) : n = msg(j)
      BY Zenon, <1>11, <3>1
    <3> QED
      BY Zenon, <1>12, <3>2, <3>3 DEF Alike
  <2> QED
    BY Zenon, <2>2, <2>3
<1> QED
  BY Zenon, <1>20, <1>23, <1>24, <1>25, <1>26, <1>27, <1>28 DEF Inv2, Messages

\* proposePartition takes the transactions that were handed over into the pool.
LEMMA ProposeTimed ==
    ASSUME Frame, NEW old, Inv2(old), UNCHANGED scenario, NEW s \in Shards, proposePartition(s)
    PROVE  Inv2(old)'
<1> DEFINE txs == UNION {m.txs : m \in leader[s].accts}
           l == [leader[s] EXCEPT !.pool = @ \cup txs, !.pc = "commit",
                     !.atm = [map |-> leader[s].maps[leader[s].round + 1], id |-> ATid(leader[s]),
                              states |-> ReceivedNewAccountState(leader[s].accts)]]
<1>1. leader[s].pc = "collect" /\ leader[s].over /\ UNCHANGED <<net, unsent, sentMaps, modifiedMap, executed>>
  BY Zenon DEF proposePartition, committee
<1>2. St(s) = 3
  BY Zenon, <1>1, Stages DEF Inv2
<1>3. Local(leader[s], s, sentMaps, old, modifiedMap, RecipientOf) /\ Heard(leader[s], s, sentMaps)
      /\ Stage(leader[s], sentMaps) = 3
  BY Zenon, <1>2 DEF Inv2, Locals, St
<1>4. /\ sentMaps \in 1 .. Len(Maps) /\ leader[s].maps[leader[s].round + 1] = sentMaps
      /\ ATid(leader[s]) = sentMaps /\ RoundMap(leader[s]) = Maps[sentMaps]
  <2>1. sentMaps \in 0 .. Len(Maps) /\ Len(Maps) \in Nat
    BY MapTypes DEF Frame
  <2>2. sentMaps >= 1 /\ Len(leader[s].maps) = sentMaps /\ leader[s].round = sentMaps - 1
    BY Zenon, Numbers, <1>3, <2>1 DEF Local
  <2>3. leader[s].maps[sentMaps] = sentMaps
    BY <1>3, <2>1, <2>2 DEF Local
  <2>4. leader[s].round + 1 = sentMaps
    BY <2>1, <2>2
  <2> QED
    BY <2>1, <2>2, <2>3, <2>4 DEF ATid, RoundMap
<1>5. \A i \in Others(s) : \E m \in leader[s].accts : m.from = i
  BY Zenon, <1>1, <1>3 DEF Heard
<1>6. \A m \in leader[s].accts : HandOver(m, s, old)
  BY Zenon DEF Inv2, Asides
<1>7. \A i \in Others(s) : St(i) >= 3 /\ St(i) \in 3 .. 5 /\ i \in Shards /\ i # s
  <2> SUFFICES ASSUME NEW i \in Others(s) PROVE St(i) >= 3 /\ St(i) \in 3 .. 5 /\ i \in Shards /\ i # s
    BY Zenon
  <2>1. St(i) >= 3 /\ i \in Shards /\ i # s
    BY Zenon, <1>5, <1>6 DEF HandOver, Others
  <2>2. St(i) \in 0 .. 5
    BY Zenon, <2>1, Stages DEF Inv2
  <2> QED
    BY <2>1, <2>2
<1>8. \A x \in txs : x \in Entries /\ Addr(RecipientOf, x) \in Given(Maps[sentMaps], s)
  <2> SUFFICES ASSUME NEW m \in leader[s].accts, NEW x \in m.txs
               PROVE  x \in Entries /\ Addr(RecipientOf, x) \in Given(Maps[sentMaps], s)
    BY Zenon
  <2> QED
    BY Zenon, <1>6 DEF HandOver
<1>9. ~\E x \in txs : Shard(RoundMap(leader[s]), IF x.relayed THEN RecipientOf[x.tx] ELSE Sender[x.tx]) # s
  <2> HIDE DEF txs
  <2> SUFFICES ASSUME NEW x \in txs
               PROVE  Shard(RoundMap(leader[s]), IF x.relayed THEN RecipientOf[x.tx] ELSE Sender[x.tx]) = s
    BY Zenon
  <2> QED
    BY Zenon, <1>4, <1>8 DEF Shard, Addr, Given
<1>10. leader' = [leader EXCEPT ![s] = l] /\ UNCHANGED panicked
  <2>1. /\ leader' = [leader EXCEPT
                 ![s].pool = @ \cup txs, ![s].pc = "commit",
                 ![s].atm = [map |-> leader[s].maps[leader[s].round + 1], id |-> ATid(leader[s]),
                             states |-> ReceivedNewAccountState(leader[s].accts)]]
        /\ UNCHANGED panicked
    BY Zenon, <1>9 DEF proposePartition
  <2> QED
    BY Zenon, <2>1 DEF Frame, Fields
<1>11. /\ DOMAIN l = Fields /\ l.pool = leader[s].pool \cup txs /\ l.pc = "commit"
       /\ l.atm.map = sentMaps /\ l.atm.id = sentMaps
       /\ l.atm.states = ReceivedNewAccountState(leader[s].accts)
       /\ \A f \in Fields \ {"pool", "pc", "atm"} : l[f] = leader[s][f]
  BY Zenon, <1>4 DEF Frame, Fields
<1> HIDE DEF l, txs
<1>12. /\ l.seq = leader[s].seq /\ l.ledger = leader[s].ledger /\ l.on = leader[s].on
       /\ l.maps = leader[s].maps /\ l.accts = leader[s].accts /\ l.ready = leader[s].ready
       /\ l.readySeq = leader[s].readySeq /\ l.over = leader[s].over /\ l.seqIDMap = leader[s].seqIDMap
       /\ l.round = leader[s].round /\ l.transfers = leader[s].transfers
       /\ l.map = leader[s].map
  BY Zenon, <1>11 DEF Fields
<1>13. Stage(l, sentMaps) = 4
  BY Zenon, <1>11 DEF Stage
<1>14. Advances(s, l)
  <2>1. DOMAIN l = Fields
    BY Zenon, <1>11
  <2> QED
    BY <1>1, <1>2, <1>10, <1>12, <1>13, <2>1 DEF Advances
<1>14a. Advanced(old, s, l)
  BY Zenon, <1>14, Advance
<1>15. Local(l, s, sentMaps, old, modifiedMap, RecipientOf)
  <2>1. modifiedMap = Over(Maps[sentMaps], old)
    BY <1>4 DEF Inv2, MapsOK
  <2>2. ASSUME NEW x \in l.pool PROVE x \in Entries /\ modifiedMap[Addr(RecipientOf, x)] = s
    <3>1. CASE x \in leader[s].pool
      BY Zenon, Numbers, <1>3, <3>1 DEF Local
    <3>2. CASE x \in txs
      BY ZenonT(30), <1>8, <2>1, <3>2 DEF Over, Given
    <3> QED
      BY Zenon, <1>11, <2>2, <3>1, <3>2
  <2> QED
    BY Zenon, Numbers, <1>3, <1>11, <1>12, <1>13, <2>2 DEF Local
<1>16. Heard(l, s, sentMaps)
  <2>1. /\ \A m, n \in l.accts : m.from = n.from => m = n
        /\ l.over \in BOOLEAN /\ (l.over => \A i \in Others(s) : \E m \in l.accts : m.from = i)
        /\ l.ready \subseteq Shards
    BY Zenon, <1>3, <1>12 DEF Heard
  <2>2. l.ready = Shards
    BY Zenon, <1>3, <1>12 DEF Heard
  <2>3. l.over /\ l.atm.map = sentMaps /\ l.atm.id = sentMaps /\ l.atm.states = ReceivedNewAccountState(l.accts)
    BY Zenon, <1>1, <1>11, <1>12
  <2> QED
    BY Zenon, Numbers, <1>13, <2>1, <2>2, <2>3 DEF Heard
<1>17. /\ leader'[s] = l /\ (\A i \in Shards \ {s} : leader'[i] = leader[i] /\ St(i)' = St(i)) /\ St(s)' = 4
       /\ MapsOK(old)' /\ panicked' = {} /\ RelaysPast' /\ InjectOK' /\ MapOK' /\ LedgerOK(old)' /\ Asides(old)'
       /\ Locals(old)'
  <2>1. St(s)' = St(s) + 1
    BY Zenon, <1>14a DEF Advanced
  <2>2. St(s)' = 4
    BY <1>2, <2>1
  <2> QED
    BY Zenon, <1>14a, <1>15, <1>16, <2>2 DEF Advanced
<1>18. \A n : \A i \in Shards : HandOver(n, i, old) => HandOver(n, i, old)'
  BY Zenon, <1>14a DEF Advanced
<1>19. \A i \in Shards : St(i)' \in 3 .. 5
  BY <1>7, <1>17 DEF Others
<1>20. Behind'
  BY <1>19 DEF Behind
<1>21. RelayOK(old)'
  <2>1. \A n \in net' : n.type = "relay" =>
           n \in net /\ n.from \in Shards /\ n.to \in Others(n.from) /\ (St(n.from) \in 2 .. 4 => St(n.to) <= 2)
    BY Zenon, <1>14a DEF Advanced
  <2>2. \A n \in net' : n.type = "relay" => ~(St(n.from)' \in 2 .. 4)
    <3> SUFFICES ASSUME NEW n \in net', n.type = "relay", St(n.from)' \in 2 .. 4 PROVE FALSE
      BY Zenon
    <3>1. n.to \in Shards /\ n.from \in Shards /\ n.to # n.from
      BY Zenon, <2>1 DEF Others
    <3>2. St(n.from) \in 2 .. 4
      BY Zenon, Numbers, <1>2, <1>17, <3>1
    <3>3. St(n.to) \in 3 .. 5
      BY Zenon, Numbers, <1>2, <1>7, <3>1 DEF Others
    <3> QED
      BY <2>1, <3>2, <3>3
  <2> QED
    BY Zenon, <1>14a, <2>2 DEF Advanced
<1>22. ReadyHeard'
  <2>1. \A j \in Shards : leader'[j].ready \subseteq Shards
    BY Zenon, <1>17 DEF Locals, Heard
  <2> QED
    BY <1>19, <2>1 DEF ReadyHeard
<1>23. ReadyOK'
  <2>1. \A m \in net : m.type # "ready"
    BY <1>2, <1>7 DEF Inv2, Messages, ReadyOK, Others
  <2> QED
    BY Zenon, <1>1, <2>1 DEF ReadyOK
<1>24. AccountsOK(old)'
  <2> SUFFICES ASSUME NEW m \in net, m.type = "accounts"
               PROVE  /\ m.to \in Shards /\ HandOver(m, m.to, old)' /\ St(m.to)' \in {2, 3}
                      /\ \A n \in leader'[m.to].accts : n.from # m.from
    BY Zenon, <1>1 DEF AccountsOK
  <2>1. /\ m.to \in Shards /\ HandOver(m, m.to, old) /\ St(m.to) \in {2, 3}
        /\ \A n \in leader[m.to].accts : n.from # m.from
    BY Zenon DEF Inv2, Messages, AccountsOK
  <2>2. m.to # s
    BY Zenon, <1>5, <2>1 DEF HandOver
  <2> QED
    BY Zenon, <1>17, <1>18, <2>1, <2>2
<1>25. Distinct'
  BY Zenon, <1>1 DEF Inv2, Messages, Distinct
<1> QED
  BY Zenon, <1>17, <1>20, <1>21, <1>22, <1>23, <1>24, <1>25 DEF Inv2, Messages

\* accountTransfer_do, with all accounts there, installs the map and the states.
LEMMA DoTimed ==
    ASSUME Frame, NEW old, Inv2(old), UNCHANGED <<scenario, died>>, NEW s \in Shards, accountTransfer_do(s)
    PROVE  Inv2(old)'
<1> DEFINE ls == leader[s]
           states == [a \in Added(s, ls) |-> ls.atm.states[a]]
           l == [ls EXCEPT !.map = NewMap(ls), !.ledger = Over(states, @), !.trie = @ \cup Added(s, ls),
                    !.maps = IF Len(@) = ls.atm.id THEN @ ELSE Append(@, ls.atm.map),
                    !.round = ls.atm.id, !.accts = {}, !.on = FALSE, !.over = FALSE,
                    !.ready = {}, !.seq = @ + 1, !.pc = "propose", !.atm = <<>>,
                    !.transfers = @ + 1, !.block = FALSE]
           k == sentMaps
           got == ReceivedNewAccountState(ls.accts)
<1>1. /\ ls.pc = "commit" /\ leader' = [leader EXCEPT ![s] = l]
      /\ UNCHANGED <<net, unsent, sentMaps, modifiedMap, executed, panicked>>
  BY Zenon, Survives DEF accountTransfer_do, committee
<1>2. St(s) = 4
  BY Zenon, <1>1, Stages DEF Inv2
<1>3. Local(ls, s, k, old, modifiedMap, RecipientOf) /\ Heard(ls, s, k) /\ Stage(ls, k) = 4
  BY Zenon, <1>2 DEF Inv2, Locals, St
<1>4. /\ k \in 1 .. Len(Maps) /\ k \in Nat /\ ls.atm.map = k /\ ls.atm.id = k /\ ls.atm.states = got
      /\ Len(ls.maps) = k /\ ls.map = old /\ ls.transfers = k - 1 /\ ls.seq \in Nat /\ DOMAIN ls.ledger = Accounts
  <2>1. sentMaps \in 0 .. Len(Maps) /\ Len(Maps) \in Nat
    BY MapTypes DEF Frame
  <2>2. k >= 1 /\ Len(ls.maps) = k /\ ls.map = old /\ ls.transfers = k - 1 /\ ls.seq \in Nat
        /\ DOMAIN ls.ledger = Accounts
    BY Zenon, Numbers, <1>3, <2>1 DEF Local
  <2> QED
    BY <1>3, <2>1, <2>2 DEF Heard
<1>5. modifiedMap = Over(Maps[k], old) /\ old \in [Accounts -> Shards] /\ modifiedMap \in [Accounts -> Shards]
  BY <1>4 DEF Inv2, MapsOK, Frame
<1>6. DOMAIN Maps[k] \subseteq Accounts /\ \A a \in DOMAIN Maps[k] : Maps[k][a] \in Shards
  BY Zenon, <1>4, MapTypes DEF Frame
<1>7. /\ DOMAIN l = Fields /\ l.map = modifiedMap /\ l.ledger = Over(states, ls.ledger) /\ l.maps = ls.maps
      /\ l.round = k /\ l.accts = {} /\ l.on = FALSE /\ l.over = FALSE /\ l.ready = {} /\ l.seq = ls.seq + 1
      /\ l.pc = "propose" /\ l.transfers = k
      /\ \A f \in {"pool", "seqIDMap"} : l[f] = ls[f]
  <2>1. DOMAIN ls = Fields /\ k - 1 + 1 = k
    BY <1>4 DEF Frame
  <2>2. NewMap(ls) = modifiedMap
    BY Zenon, <1>4, <1>5 DEF NewMap
  <2> HIDE DEF ls, k, got, states
  <2> QED
    BY Zenon, <1>4, <2>1, <2>2 DEF Fields
<1>8. ls = leader[s] /\ k = sentMaps
  BY Zenon
<1> HIDE DEF l
<1>9. l.pool = ls.pool /\ l.seqIDMap = ls.seqIDMap
  BY Zenon, <1>7
<1>10. Stage(l, k) = 5
  BY Zenon, <1>4, <1>7 DEF Stage
\* What the others have given it.
<1>11. \A m \in ls.accts : HandOver(m, s, old)
  BY Zenon DEF Inv2, Asides
<1>12. \A i \in Others(s) : \E m \in ls.accts : m.from = i
  BY Zenon, <1>3 DEF Heard
<1>13. \A i \in Others(s) : St(i) >= 3 /\ i \in Shards /\ i # s
  BY Zenon, <1>11, <1>12 DEF HandOver, Others
<1>14. DOMAIN got = {a \in DOMAIN Maps[k] : Maps[k][a] = s /\ old[a] # s}
  <2>1. DOMAIN got = UNION {DOMAIN m.states : m \in ls.accts}
    BY Zenon DEF ReceivedNewAccountState
  <2>2. ASSUME NEW a \in DOMAIN got PROVE a \in DOMAIN Maps[k] /\ Maps[k][a] = s /\ old[a] # s
    <3>1. PICK m \in ls.accts : a \in DOMAIN m.states
      BY Zenon, <2>1, <2>2
    <3> QED
      BY Zenon, <1>11, <3>1 DEF HandOver, Given, Others
  <2>3. ASSUME NEW a \in DOMAIN Maps[k], Maps[k][a] = s, old[a] # s PROVE a \in DOMAIN got
    <3>1. old[a] \in Others(s)
      BY Zenon, <1>5, <1>6, <2>3 DEF Others
    <3>2. PICK m \in ls.accts : m.from = old[a]
      BY Zenon, <1>12, <3>1
    <3>3. a \in DOMAIN m.states
      BY Zenon, <1>11, <2>3, <3>2 DEF HandOver, Given
    <3> QED
      BY Zenon, <2>1, <3>3
  <2> QED
    BY Zenon, <2>2, <2>3
<1>15. \A a \in DOMAIN got : got[a] = leader[old[a]].ledger[a]
  <2> SUFFICES ASSUME NEW a \in DOMAIN got PROVE got[a] = leader[old[a]].ledger[a]
    BY Zenon
  <2>1. a \in UNION {DOMAIN m.states : m \in ls.accts}
    BY Zenon DEF ReceivedNewAccountState
  <2>2. \E m \in ls.accts : a \in DOMAIN m.states
    BY Zenon, <2>1
  <2> DEFINE c == CHOOSE m \in ls.accts : a \in DOMAIN m.states
  <2>3. c \in ls.accts /\ a \in DOMAIN c.states
    BY Zenon, <2>2
  <2>4. got[a] = c.states[a]
    BY Zenon, <2>1 DEF ReceivedNewAccountState
  <2> HIDE DEF c
  <2> QED
    BY Zenon, <1>11, <2>3, <2>4 DEF HandOver
<1> HIDE DEF got
\* AddAccounts takes all of it.
<1>a. DOMAIN states = DOMAIN got /\ \A a \in DOMAIN got : states[a] = got[a]
  <2>1. \A a \in DOMAIN got : NewMap(ls)[a] = s
    BY Zenon, <1>4, <1>6, <1>14 DEF NewMap, Over
  <2>2. Added(s, ls) = DOMAIN got
    BY Zenon, <1>4, <2>1 DEF Added
  <2> QED
    BY Zenon, <1>4, <2>2
<1> HIDE DEF states
<1>16. /\ DOMAIN l.ledger = Accounts
       /\ \A a \in Accounts : l.ledger[a] = (IF a \in DOMAIN got THEN got[a] ELSE ls.ledger[a])
  BY Zenon, <1>4, <1>6, <1>7, <1>14, <1>a DEF Over
<1>17. leader'[s] = l /\ \A i \in Shards \ {s} : leader'[i] = leader[i]
  BY Zenon, <1>1 DEF Frame
<1> HIDE DEF ls, k
<1>18. St(s)' = 5 /\ \A i \in Shards \ {s} : St(i)' = St(i)
  BY Zenon, <1>1, <1>8, <1>10, <1>17 DEF St
<1>19. \A i \in Shards : St(i)' \in 3 .. 5 /\ St(i) \in 3 .. 5
  <2> SUFFICES ASSUME NEW i \in Shards PROVE St(i)' \in 3 .. 5 /\ St(i) \in 3 .. 5
    BY Zenon
  <2>1. St(i) \in 0 .. 5
    BY Zenon, Stages DEF Inv2
  <2> QED
    BY <1>2, <1>13, <1>18, <2>1 DEF Others
<1>20. UNCHANGED <<Maps, RecipientOf>>
  BY Zenon DEF Maps, RecipientOf
<1>21. MapsOK(old)' /\ panicked' = {}
  BY Zenon, <1>1, <1>20 DEF Inv2, MapsOK
<1>22. Locals(old)'
  <2>1. Local(l, s, k, old, modifiedMap, RecipientOf)
    <3>1. \A x \in l.pool : x \in Entries /\ modifiedMap[Addr(RecipientOf, x)] = s
      BY Zenon, Numbers, <1>3, <1>9 DEF Local
    <3>2. l.pool \subseteq Entries /\ DOMAIN l.ledger = Accounts /\ l.on \in BOOLEAN
      BY Zenon, <1>7, <1>16, <3>1
    <3>3. l.seq \in Nat
      BY <1>4, <1>7
    <3>4. l.maps \in Seq(Nat) /\ (\A i \in 1 .. Len(l.maps) : l.maps[i] = i) /\ Len(l.maps) = k
      BY Zenon, <1>3, <1>4, <1>7 DEF Local
    <3>5. l.map = modifiedMap /\ l.round = k /\ l.transfers = k /\ l.pc = "propose"
      BY Zenon, <1>7
    <3> QED
      BY Zenon, Numbers, <1>10, <3>1, <3>2, <3>3, <3>4, <3>5 DEF Local
  <2>2. Heard(l, s, k)
    <3>1. l.accts = {} /\ ~l.over /\ l.over \in BOOLEAN /\ l.ready = {}
      BY Zenon, <1>7
    <3> QED
      BY Zenon, Numbers, <1>10, <3>1 DEF Heard
  <2> QED
    BY Zenon, <1>1, <1>8, <1>17, <1>20, <2>1, <2>2 DEF Inv2, Locals
<1>23. \A n : \A i \in Shards : HandOver(n, i, old) => HandOver(n, i, old)'
  <2> SUFFICES ASSUME NEW n, NEW i \in Shards, HandOver(n, i, old) PROVE HandOver(n, i, old)'
    BY Zenon
  <2>1. n.from \in Others(i) /\ n.from \in Shards
    BY Zenon DEF HandOver, Others
  <2>2. \A a \in DOMAIN n.states : leader'[n.from].ledger[a] = leader[n.from].ledger[a]
    <3>1. CASE n.from # s
      BY Zenon, <1>17, <2>1, <3>1
    <3>2. CASE n.from = s
      <4>1. \A a \in DOMAIN n.states : a \in Accounts /\ a \notin DOMAIN got
        BY Zenon, <1>6, <1>8, <1>14, <3>2 DEF HandOver, Given
      <4> QED
        BY Zenon, <1>8, <1>16, <1>17, <3>2, <4>1
    <3> QED
      BY Zenon, <3>1, <3>2
  <2>3. St(n.from)' >= 3
    BY <1>19, <2>1
  <2> QED
    BY Zenon, <1>1, <1>20, <2>2, <2>3 DEF HandOver
<1>24. Asides(old)'
  BY Zenon, <1>7, <1>17, <1>23 DEF Inv2, Asides
<1>25. ReadyHeard' /\ Behind'
  <2>1. \A j \in Shards : leader'[j].ready \subseteq Shards
    BY Zenon, <1>22 DEF Locals, Heard
  <2> QED
    BY <1>19, <2>1 DEF ReadyHeard, Behind
<1>26. RelaysPast'
  <2>1. \A i, j \in Shards : j \in DOMAIN leader'[i].seqIDMap =>
           leader'[i].seqIDMap[j] < leader[j].seq /\ j \in DOMAIN leader[i].seqIDMap
    BY Zenon, <1>8, <1>9, <1>17 DEF Inv2, RelaysPast
  <2>2. \A j \in Shards : leader'[j].seq = leader[j].seq \/ (leader[j].seq \in Nat /\ leader'[j].seq = leader[j].seq + 1)
    BY Zenon, <1>4, <1>7, <1>8, <1>17
  <2>3. \A i, j \in Shards : j \in DOMAIN leader[i].seqIDMap => leader[i].seqIDMap[j] \in Nat
    BY Zenon DEF Inv2, RelaysPast
  <2> QED
    BY <1>8, <1>9, <1>17, <2>1, <2>2, <2>3 DEF RelaysPast
<1>27. InjectOK' /\ MapOK' /\ ReadyOK'
  <2>1. \A m \in net : m.type \notin {"inject", "map", "ready"}
    BY <1>2, <1>19 DEF Inv2, Messages, InjectOK, MapOK, ReadyOK, Others
  <2> QED
    BY Zenon, <1>1, <2>1 DEF InjectOK, MapOK, ReadyOK
<1>28. RelayOK(old)'
  <2> SUFFICES ASSUME NEW n \in net, n.type = "relay"
               PROVE  /\ n.from \in Shards /\ n.to \in Others(n.from) /\ n.seq \in Nat /\ n.seq < leader'[n.from].seq
                      /\ n.txs \subseteq Txs
                      /\ \A t \in n.txs : (IF St(n.from)' = 5 THEN modifiedMap ELSE old)[RecipientOf[t]] = n.to
                      /\ St(n.from)' \in 2 .. 4 => St(n.to)' <= 2
                      /\ Maps # <<>> /\ n.from \in DOMAIN leader'[n.to].seqIDMap
                            => leader'[n.to].seqIDMap[n.from] < n.seq
    BY Zenon, <1>1, <1>20 DEF RelayOK
  <2>1. /\ n.from \in Shards /\ n.to \in Others(n.from) /\ n.seq \in Nat /\ n.seq < leader[n.from].seq
        /\ n.txs \subseteq Txs /\ n.to \in Shards
        /\ \A t \in n.txs : (IF St(n.from) = 5 THEN modifiedMap ELSE old)[RecipientOf[t]] = n.to
        /\ St(n.from) \in 2 .. 4 => St(n.to) <= 2
        /\ Maps # <<>> /\ n.from \in DOMAIN leader[n.to].seqIDMap => leader[n.to].seqIDMap[n.from] < n.seq
    BY Zenon DEF Inv2, Messages, RelayOK, Others
  <2>2. St(n.from) = 5 /\ n.from # s
    BY <1>2, <1>19, <2>1
  <2>3. leader'[n.to].seqIDMap = leader[n.to].seqIDMap
    BY Zenon, <1>8, <1>9, <1>17, <2>1
  <2> QED
    BY Zenon, Numbers, <1>17, <1>18, <2>1, <2>2, <2>3
<1>29. AccountsOK(old)'
  <2> SUFFICES ASSUME NEW m \in net, m.type = "accounts"
               PROVE  /\ m.to \in Shards /\ HandOver(m, m.to, old)' /\ St(m.to)' \in {2, 3}
                      /\ \A n \in leader'[m.to].accts : n.from # m.from
    BY Zenon, <1>1 DEF AccountsOK
  <2>1. /\ m.to \in Shards /\ HandOver(m, m.to, old) /\ St(m.to) \in {2, 3}
        /\ \A n \in leader[m.to].accts : n.from # m.from
    BY Zenon DEF Inv2, Messages, AccountsOK
  <2> QED
    BY Zenon, Numbers, <1>2, <1>17, <1>18, <1>23, <2>1
<1>30. Distinct'
  BY Zenon, <1>1 DEF Inv2, Messages, Distinct
<1>31. LedgerOK(old)'
  <2> SUFFICES ASSUME NEW a \in Accounts, NEW i \in Shards
               PROVE  leader'[i].ledger[a] \subseteq leader'[Holder(a, old)'].ledger[a]
    BY Zenon DEF LedgerOK
  <2>1. modifiedMap[a] \in Shards /\ old[a] \in Shards /\ modifiedMap' = modifiedMap
    BY Zenon, <1>1, <1>5
  <2>2. modifiedMap[a] = (IF a \in DOMAIN Maps[k] THEN Maps[k][a] ELSE old[a])
    BY Zenon, <1>5 DEF Over
  <2>3. \A j \in Shards : leader[j].ledger[a] \subseteq leader[Holder(a, old)].ledger[a]
    BY Zenon DEF Inv2, LedgerOK
  <2>4. \A j \in Shards : leader'[j].ledger[a] =
            (IF j = s /\ a \in DOMAIN got THEN leader[old[a]].ledger[a] ELSE leader[j].ledger[a])
    BY Zenon, <1>8, <1>15, <1>16, <1>17
  <2>5. CASE modifiedMap[a] = s
    <3>1. Holder(a, old) = old[a] /\ Holder(a, old)' = s
      BY Zenon, Numbers, <1>2, <1>18, <2>1, <2>5 DEF Holder
    <3>2. leader'[s].ledger[a] = leader[old[a]].ledger[a]
      BY Zenon, <1>8, <1>14, <2>2, <2>4, <2>5
    <3> QED
      BY Zenon, <2>1, <2>3, <2>4, <3>1, <3>2
  <2>6. CASE modifiedMap[a] # s
    <3>1. Holder(a, old)' = Holder(a, old) /\ Holder(a, old) \in Shards
      BY Zenon, <1>18, <2>1, <2>6 DEF Holder
    <3>2. a \notin DOMAIN got
      BY Zenon, <1>14, <2>2, <2>6
    <3> QED
      BY Zenon, <2>3, <2>4, <3>1, <3>2
  <2> QED
    BY Zenon, <2>5, <2>6
<1> QED
  BY Zenon, <1>21, <1>22, <1>24, <1>25, <1>26, <1>27, <1>28, <1>29, <1>30, <1>31 DEF Inv2, Messages

\* A block is of transactions whose accounts are at this shard, so none is incorrect.
LEMMA BlockTimed ==
    ASSUME Frame, NEW old, Inv2(old), UNCHANGED <<scenario, died>>, NEW s \in Shards, Block(s)
    PROVE  Inv2(old)'
<1> DEFINE ls == leader[s]
           home == IF St(s) = 5 THEN modifiedMap ELSE old
<1>a. PICK block : block \subseteq ls.pool /\ HandleinCommit(s, block)
  BY Zenon, Survives DEF Block, kSubset
<1>1. /\ block \subseteq ls.pool
      /\ LET done == {x.tx : x \in {x \in block : ~ToRelay(s, x)}}
             relay == {x.tx : x \in {x \in block : ToRelay(s, x)}}
         IN IF \E x \in block : Incorrect(s, x)
            THEN panicked' = panicked \cup {s} /\ UNCHANGED <<leader, net, executed>>
            ELSE /\ leader' = [leader EXCEPT ![s].pool = @ \ block, ![s].seq = @ + 1,
                                 ![s].ledger = State(s, block), ![s].block = TRUE,
                                 ![s].trie = @ \cup Written(s, block)]
                 /\ executed' = [t \in Txs |-> executed[t] + (IF t \in done THEN 1 ELSE 0)]
                 /\ net' = net
                       \cup {[type |-> "relay", from |-> s, to |-> i, seq |-> ls.seq,
                              txs |-> {t \in relay : ls.map[RecipientOf[t]] = i}] : i \in Others(s)}
                       \cup {[type |-> "info", from |-> s, seq |-> ls.seq, empty |-> block = {},
                              done |-> done, relay1 |-> relay] : r \in {r \in {TRUE} : Reports}}
                 /\ UNCHANGED panicked
  BY Zenon, <1>a DEF HandleinCommit
<1>2. UNCHANGED <<unsent, sentMaps, modifiedMap>> /\ ls.pc = "propose" /\ ~ls.on
  BY Zenon, Survives DEF Block, committee
<1>3. Local(ls, s, sentMaps, old, modifiedMap, RecipientOf) /\ Heard(ls, s, sentMaps) /\ Stage(ls, sentMaps) = St(s)
  BY Zenon DEF Inv2, Locals, St
<1>4. St(s) \in {0, 5}
  BY <1>2, Stages DEF Inv2
<1>5. /\ ls.map = home /\ ls.seq \in Nat /\ DOMAIN ls.ledger = Accounts
      /\ \A x \in ls.pool : x \in Entries /\ home[Addr(RecipientOf, x)] = s
  BY Zenon, Numbers, <1>3, <1>4 DEF Local
<1>6. home \in [Accounts -> Shards]
  BY Zenon DEF Inv2, MapsOK, Frame
<1>7. \A x \in block : ~Incorrect(s, x)
  BY Zenon, <1>1, <1>5 DEF Incorrect, Addr
<1> DEFINE done == {x.tx : x \in {x \in block : ~ToRelay(s, x)}}
           relay == {x.tx : x \in {x \in block : ToRelay(s, x)}}
           txs(i) == {t \in relay : ls.map[RecipientOf[t]] = i}
           msg(i) == [type |-> "relay", from |-> s, to |-> i, seq |-> ls.seq, txs |-> txs(i)]
           info == [type |-> "info", from |-> s, seq |-> ls.seq, empty |-> block = {}, done |-> done, relay1 |-> relay]
           l == [ls EXCEPT !.pool = @ \ block, !.seq = @ + 1, !.ledger = State(s, block), !.block = TRUE,
                      !.trie = @ \cup Written(s, block)]
<1>8. leader' = [leader EXCEPT ![s] = l] /\ UNCHANGED panicked
  BY Zenon, <1>1, <1>7 DEF Frame, Fields
<1>9. \A m \in net' : m \in net \/ m = info \/ \E i \in Others(s) : m = msg(i)
  <2>1. net' = net \cup {msg(i) : i \in Others(s)} \cup {info : r \in {r \in {TRUE} : Reports}}
    BY <1>1, <1>7, Zenon
  <2> HIDE DEF msg, info
  <2> QED
    BY Zenon, <2>1
<1>10. /\ DOMAIN l = Fields /\ l.pool = ls.pool \ block /\ l.seq = ls.seq + 1 /\ l.ledger = State(s, block)
       /\ \A f \in Fields \ {"pool", "seq", "ledger", "block", "trie"} : l[f] = ls[f]
  BY Zenon DEF Frame, Fields
<1>11. /\ info.type = "info"
       /\ \A i \in Others(s) : /\ msg(i).type = "relay" /\ msg(i).from = s /\ msg(i).to = i /\ msg(i).seq = ls.seq
                               /\ msg(i).txs = txs(i)
  BY Zenon
<1>12. \A i : \A t \in txs(i) : t \in Txs /\ home[RecipientOf[t]] = i
  <2> SUFFICES ASSUME NEW i, NEW t \in txs(i) PROVE t \in Txs /\ home[RecipientOf[t]] = i
    BY Zenon
  <2>1. \E x \in block : x.tx = t
    BY Zenon
  <2>2. t \in Txs
    BY Zenon, Numbers, <1>1, <1>5, <2>1 DEF Entries
  <2> QED
    BY Zenon, <1>5, <2>2
<1>13. ls = leader[s] /\ home = (IF St(s) = 5 THEN modifiedMap ELSE old)
  BY Zenon
<1> HIDE DEF l, msg, info, txs, done, relay
<1>14. /\ l.pc = ls.pc /\ l.on = ls.on /\ l.maps = ls.maps /\ l.accts = ls.accts /\ l.ready = ls.ready
       /\ l.readySeq = ls.readySeq /\ l.over = ls.over /\ l.seqIDMap = ls.seqIDMap /\ l.atm = ls.atm
       /\ l.round = ls.round /\ l.transfers = ls.transfers /\ l.map = ls.map
  BY Zenon, <1>10 DEF Fields
<1>15. Stage(l, sentMaps) = St(s)
  BY Zenon, <1>14 DEF St, Stage
<1>16. /\ DOMAIN l.ledger = Accounts
       /\ \A a \in Accounts : ls.ledger[a] \subseteq l.ledger[a] /\ (home[a] # s => l.ledger[a] = ls.ledger[a])
  <2>1. DOMAIN l.ledger = Accounts
    BY Zenon, <1>10 DEF State
  <2>2. ASSUME NEW a \in Accounts PROVE ls.ledger[a] \subseteq l.ledger[a]
    BY Zenon, Numbers, <1>10 DEF State
  <2>3. ASSUME NEW a \in Accounts, home[a] # s PROVE l.ledger[a] = ls.ledger[a]
    <3>1. leader[s].map[a] # s
      BY Zenon, <1>5, <2>3
    <3>2. l.ledger[a] = leader[s].ledger[a]
             \cup {<<x.tx, "out">> : x \in {x \in Paid(s, block) : Sender[x.tx] = a}}
             \cup {<<x.tx, "in">> : x \in {x \in Credited(s, block) : RecipientOf[x.tx] = a}}
      BY Zenon, <1>10 DEF State
    <3>3. {x \in Paid(s, block) : Sender[x.tx] = a} = {} /\ {x \in Credited(s, block) : RecipientOf[x.tx] = a} = {}
      BY Zenon, <3>1 DEF Paid, Debited, Credited
    <3> QED
      BY Zenon, <3>2, <3>3
  <2> QED
    BY Zenon, <2>1, <2>2, <2>3
<1>17. leader'[s] = l /\ \A i \in Shards \ {s} : leader'[i] = leader[i]
  BY Zenon, <1>8 DEF Frame
<1> HIDE DEF ls, home
<1>18. \A i \in Shards : /\ St(i)' = St(i) /\ leader'[i].accts = leader[i].accts /\ leader'[i].ready = leader[i].ready
                         /\ leader'[i].readySeq = leader[i].readySeq /\ leader'[i].seqIDMap = leader[i].seqIDMap
  BY Zenon, <1>2, <1>13, <1>14, <1>15, <1>17 DEF St
<1>19. UNCHANGED <<Maps, RecipientOf>>
  BY Zenon DEF Maps, RecipientOf
<1>20. MapsOK(old)' /\ panicked' = {}
  BY Zenon, <1>2, <1>8, <1>19 DEF Inv2, MapsOK
<1>21. Locals(old)'
  <2>1. Local(l, s, sentMaps, old, modifiedMap, RecipientOf)
    <3>1. l.pool \subseteq ls.pool
      BY Zenon, <1>10
    <3>2. l.seq \in Nat
      BY <1>5, <1>10
    <3> QED
      BY Zenon, <1>3, <1>14, <1>15, <1>16, <3>1, <3>2 DEF Local
  <2>2. Heard(l, s, sentMaps)
    BY <1>3, <1>14, <1>15 DEF Heard
  <2> QED
    BY Zenon, <1>2, <1>17, <1>19, <2>1, <2>2 DEF Inv2, Locals
<1>22. \A n : \A i \in Shards : HandOver(n, i, old) => HandOver(n, i, old)'
  <2> SUFFICES ASSUME NEW n, NEW i \in Shards, HandOver(n, i, old) PROVE HandOver(n, i, old)'
    BY Zenon
  <2>1. n.from \in Others(i) /\ n.from \in Shards /\ n.from # i /\ St(n.from) >= 3
    BY Zenon DEF HandOver, Others
  <2>2. \A a \in DOMAIN n.states : leader'[n.from].ledger[a] = leader[n.from].ledger[a]
    <3>1. CASE n.from # s
      BY Zenon, <1>17, <2>1, <3>1
    <3>2. CASE n.from = s
      <4>1. St(s) = 5 /\ Stage(ls, sentMaps) = 5
        BY <1>3, <1>4, <2>1, <3>2
      <4>2. sentMaps \in 0 .. Len(Maps) /\ Len(Maps) \in Nat
        BY MapTypes DEF Frame
      <4>3. sentMaps >= 1 /\ sentMaps # 0
        BY <4>2 DEF HandOver
      <4>4. modifiedMap = Over(Maps[sentMaps], old)
        BY Zenon, <4>2, <4>3 DEF Inv2, MapsOK
      <4>5. DOMAIN Maps[sentMaps] \subseteq Accounts
        BY <4>2, <4>3, MapTypes DEF Frame
      <4>6. \A a \in DOMAIN n.states : a \in Accounts /\ home[a] = i
        BY Zenon, <1>13, <4>1, <4>4, <4>5 DEF HandOver, Given, Over, Inv2, MapsOK
      <4> QED
        BY <1>13, <1>16, <1>17, <2>1, <3>2, <4>6
    <3> QED
      BY Zenon, <3>1, <3>2
  <2>3. St(n.from)' >= 3
    BY Zenon, <1>18, <2>1
  <2> QED
    BY Zenon, <1>2, <1>19, <2>2, <2>3 DEF HandOver
<1>23. Asides(old)'
  BY Zenon, <1>18, <1>22 DEF Inv2, Asides
<1>24. Behind'
  BY <1>18 DEF Inv2, Behind
<1>25. \A i \in Shards : leader[i].seq \in Nat /\ (leader'[i].seq = leader[i].seq \/ (i = s /\ leader'[i].seq = leader[i].seq + 1))
  BY Zenon, <1>5, <1>10, <1>13, <1>17 DEF Inv2, Locals, Local
<1>26. RelaysPast'
  BY <1>18, <1>25 DEF Inv2, RelaysPast
<1>27. ReadyHeard'
  <2> SUFFICES ASSUME NEW j \in Shards, NEW i \in leader[j].ready
               PROVE  /\ St(i)' >= 2
                      /\ St(j)' <= 2 /\ i # j =>
                          /\ St(i)' \in {2, 3} /\ i \in DOMAIN leader'[j].readySeq
                          /\ leader'[j].readySeq[i] = leader'[i].seq
                          /\ i \in DOMAIN leader'[j].seqIDMap \/ NoRelay(i, j)'
    BY Zenon, <1>18 DEF ReadyHeard
  <2>1. i \in Shards /\ St(i) >= 2 /\ (St(j) <= 2 /\ i # j =>
              /\ St(i) \in {2, 3} /\ i \in DOMAIN leader[j].readySeq /\ leader[j].readySeq[i] = leader[i].seq
              /\ i \in DOMAIN leader[j].seqIDMap \/ NoRelay(i, j))
    BY Zenon DEF Inv2, Locals, Heard, ReadyHeard
  <2>2. ASSUME St(j) <= 2, i # j PROVE i # s
    BY Zenon, Numbers, <1>4, <2>1, <2>2
  <2>3. ASSUME i # s, NoRelay(i, j) PROVE NoRelay(i, j)'
    BY <1>9, <1>11, <2>3 DEF NoRelay
  <2> QED
    BY Zenon, <1>17, <1>18, <2>1, <2>2, <2>3
<1>28. \A m \in net' : m \in net \/ m.type = "info" \/ (m.type = "relay" /\ m.from = s /\ m.seq = ls.seq /\ \E i \in Others(s) : m = msg(i))
  BY <1>9, <1>11
<1>29. InjectOK' /\ MapOK'
  BY Zenon, <1>2, <1>18, <1>28 DEF Inv2, Messages, InjectOK, MapOK
<1>30. RelayOK(old)'
  <2> SUFFICES ASSUME NEW n \in net', n.type = "relay"
               PROVE  /\ n.from \in Shards /\ n.to \in Others(n.from) /\ n.seq \in Nat /\ n.seq < leader'[n.from].seq
                      /\ n.txs \subseteq Txs
                      /\ \A t \in n.txs : (IF St(n.from)' = 5 THEN modifiedMap ELSE old)[RecipientOf[t]] = n.to
                      /\ St(n.from)' \in 2 .. 4 => St(n.to)' <= 2
                      /\ Maps # <<>> /\ n.from \in DOMAIN leader'[n.to].seqIDMap
                            => leader'[n.to].seqIDMap[n.from] < n.seq
    BY Zenon, <1>2, <1>19 DEF RelayOK
  <2>1. CASE n \in net
    <3>1. /\ n.from \in Shards /\ n.to \in Others(n.from) /\ n.seq \in Nat /\ n.seq < leader[n.from].seq
          /\ n.txs \subseteq Txs /\ n.to \in Shards
          /\ \A t \in n.txs : (IF St(n.from) = 5 THEN modifiedMap ELSE old)[RecipientOf[t]] = n.to
          /\ St(n.from) \in 2 .. 4 => St(n.to) <= 2
          /\ Maps # <<>> /\ n.from \in DOMAIN leader[n.to].seqIDMap => leader[n.to].seqIDMap[n.from] < n.seq
      BY Zenon, <2>1 DEF Inv2, Messages, RelayOK, Others
    <3>2. n.seq < leader'[n.from].seq
      <4>1. \A j, k \in Nat : j < k => j < k + 1
        OBVIOUS
      <4> QED
        BY Zenon, <1>25, <3>1, <4>1
    <3> QED
      BY Zenon, <1>18, <3>1, <3>2
  <2>2. CASE n \notin net
    <3>1. PICK i \in Others(s) : n = msg(i)
      BY Zenon, <1>28, <2>2
    <3>2. n.from = s /\ n.to = i /\ n.seq = ls.seq /\ n.txs = txs(i) /\ i \in Shards /\ i # s
      BY Zenon, <1>11, <3>1 DEF Others
    <3>3. n.seq < leader'[s].seq
      BY <1>5, <1>10, <1>17, <3>2
    <3>4. n.txs \subseteq Txs /\ \A t \in n.txs : home[RecipientOf[t]] = i
      BY <1>12, <3>2
    <3>5. s \in DOMAIN leader[i].seqIDMap => leader[i].seqIDMap[s] < ls.seq
      BY Zenon, <1>13, <3>2 DEF Inv2, RelaysPast
    <3> QED
      BY <1>4, <1>5, <1>13, <1>18, <3>2, <3>3, <3>4, <3>5
  <2> QED
    BY Zenon, <2>1, <2>2
<1>31. ReadyOK'
  <2> SUFFICES ASSUME NEW m \in net, m.type = "ready"
               PROVE  /\ m.from \in Shards /\ m.to \in Others(m.from) /\ St(m.from)' \in {2, 3} /\ St(m.to)' <= 2
                      /\ m.from \notin leader'[m.to].ready /\ m.seq = leader'[m.from].seq
    BY Zenon, <1>28 DEF ReadyOK
  <2>1. /\ m.from \in Shards /\ m.to \in Others(m.from) /\ m.to \in Shards /\ St(m.from) \in {2, 3} /\ St(m.to) <= 2
        /\ m.from \notin leader[m.to].ready /\ m.seq = leader[m.from].seq
    BY Zenon DEF Inv2, Messages, ReadyOK, Others
  <2>2. m.from # s
    BY Zenon, Numbers, <1>4, <2>1
  <2> QED
    BY Zenon, <1>17, <1>18, <2>1, <2>2
<1>32. AccountsOK(old)'
  BY Zenon, <1>18, <1>22, <1>28 DEF Inv2, Messages, AccountsOK
<1>33. Distinct'
  <2>1. \A m \in net : m.type = "relay" /\ m.from = s => m.seq < ls.seq /\ m.seq \in Nat
    BY Zenon, <1>13 DEF Inv2, Messages, RelayOK
  <2> SUFFICES ASSUME NEW m \in net', NEW n \in net', Alike(m, n) PROVE m = n
    BY Zenon DEF Distinct
  <2>2. CASE m \in net /\ n \in net
    BY Zenon, <2>2 DEF Inv2, Messages, Distinct
  <2>3. CASE m \notin net \/ n \notin net
    <3>1. m.type = "relay" /\ n.type = "relay" /\ m.from = s /\ n.from = s /\ m.seq = ls.seq /\ n.seq = ls.seq
      BY Zenon, <1>28, <2>3 DEF Alike
    <3>2. m \notin net /\ n \notin net
      BY <1>5, <2>1, <3>1
    <3>3. PICK i \in Others(s) : m = msg(i)
      BY Zenon, <1>28, <3>1, <3>2
    <3>4. PICK j \in Others(s) : n = msg(j)
      BY Zenon, <1>28, <3>1, <3>2
    <3> QED
      BY <1>11, <3>3, <3>4 DEF Alike
  <2> QED
    BY Zenon, <2>2, <2>3
<1>34. LedgerOK(old)'
  <2> SUFFICES ASSUME NEW a \in Accounts, NEW i \in Shards
               PROVE  leader'[i].ledger[a] \subseteq leader'[Holder(a, old)'].ledger[a]
    BY Zenon DEF LedgerOK
  <2>1. modifiedMap[a] \in Shards /\ old[a] \in Shards /\ modifiedMap' = modifiedMap
    BY Zenon, <1>2 DEF Frame, Inv2, MapsOK
  <2>2. Holder(a, old)' = Holder(a, old) /\ Holder(a, old) \in Shards
    BY Zenon, <1>18, <2>1 DEF Holder
  <2>3. \A j \in Shards : leader[j].ledger[a] \subseteq leader[Holder(a, old)].ledger[a]
    BY Zenon DEF Inv2, LedgerOK
  <2>4. CASE home[a] # s
    <3>1. leader'[s].ledger[a] = leader[s].ledger[a]
      BY Zenon, <1>13, <1>16, <1>17, <2>4
    <3>2. \A j \in Shards : leader'[j].ledger[a] = leader[j].ledger[a]
      BY Zenon, <1>17, <3>1
    <3> QED
      BY Zenon, <2>2, <2>3, <3>2
  <2>5. CASE home[a] = s
    <3>1. Holder(a, old) = s
      <4>1. CASE St(s) = 5
        BY Zenon, <1>13, <2>5, <4>1 DEF Holder
      <4>2. CASE St(s) = 0
        <5>1. St(modifiedMap[a]) # 5
          BY <2>1, <4>2 DEF Inv2, Behind
        <5> QED
          BY ZenonT(30), <1>13, <2>5, <4>2, <5>1 DEF Holder
      <4> QED
        BY Zenon, <1>4, <4>1, <4>2
    <3> QED
      BY <1>13, <1>16, <1>17, <2>2, <2>3, <3>1
  <2> QED
    BY Zenon, <2>4, <2>5
<1> QED
  BY Zenon, <1>20, <1>21, <1>23, <1>24, <1>26, <1>27, <1>29, <1>30, <1>31, <1>32, <1>33, <1>34 DEF Inv2, Messages

-----------------------------------------------------------------------------
\* No receipt of a message breaks the invariant.
LEMMA HandleTimed ==
    ASSUME Pigeonhole, Frame, OnTime, NEW old, Inv2(old), UNCHANGED <<scenario, died>>, NEW m \in net, Handle(m)
    PROVE  Inv2(old)'
BY Zenon, InjectTimed, RelayTimed, MapTimed, ReadyTimed, AccountsTimed, SupervisorTimed DEF Handle

\* No step of a partition breaks the invariant.
LEMMA PartitionTimed ==
    ASSUME Frame, NEW old, Inv2(old), UNCHANGED <<scenario, died>>, NEW s \in Shards, Partition(s)
    PROVE  Inv2(old)'
BY Zenon, SendReadyTimed, SendAccountsTimed, ProposeTimed, DoTimed DEF Partition

\* Where a main node dies, all else stays as it was.
LEMMA Death ==
    ASSUME Next, died' # died
    PROVE  UNCHANGED <<scenario, leader, net, committee, executed, panicked>>
<1>1. ASSUME NEW m, Handle(m) PROVE \E s : Dies(s)
  BY Zenon, <1>1 DEF Handle, handleInjectTx, handleRelay, handlePartitionMsg, handlePartitionReady,
     handleAccountStateAndTxMsg, handleBlockInfos, Receive
<1>2. ASSUME NEW s, Block(s) \/ Partition(s) PROVE \E i : Dies(i)
  BY Zenon, <1>2 DEF Block, HandleinCommit, Partition, sendPartitionReady, sendAccounts_and_Txs, proposePartition,
     accountTransfer_do
<1>3. \E s : Dies(s)
  BY Zenon, <1>1, <1>2 DEF Next, TxSending, clpaMapSend, SupervisorStop
<1> QED
  BY Zenon, <1>3 DEF Next, Dies

\* No step breaks the invariant of the partition that is under way.
LEMMA NextTimed ==
    ASSUME Pigeonhole, Frame, OnTime, NEW old \in [Accounts -> Shards], Inv2(old), [Next]_vars
    PROVE  \E new \in [Accounts -> Shards] : Inv2(new)'
<1>1. CASE UNCHANGED vars \/ (Next /\ died' # died)
  <2>1. UNCHANGED <<scenario, leader, net, unsent, sentMaps, modifiedMap, executed, panicked>>
    BY Zenon, <1>1, Death DEF vars, committee
  <2>2. MapsOK(old)' /\ panicked' = {} /\ Locals(old)' /\ Behind' /\ RelaysPast' /\ LedgerOK(old)'
    BY Zenon, <2>1 DEF Inv2, MapsOK, Locals, Behind, RelaysPast, LedgerOK, Holder, St, Maps, RecipientOf
  <2>6. Asides(old)'
    BY Zenon, <2>1 DEF Inv2, Asides, HandOver, St, Maps, RecipientOf
  <2>3. ReadyHeard' /\ Distinct'
    BY ZenonT(30), <2>1 DEF Inv2, Messages, ReadyHeard, NoRelay, St, Distinct
  <2>4. InjectOK' /\ MapOK' /\ ReadyOK'
    BY Zenon, <2>1 DEF Inv2, Messages, InjectOK, MapOK, ReadyOK, St
  <2>5. RelayOK(old)' /\ AccountsOK(old)'
    BY ZenonT(30), <2>1 DEF Inv2, Messages, RelayOK, AccountsOK, HandOver, St, Maps, RecipientOf
  <2> QED
    BY Zenon, <2>2, <2>3, <2>4, <2>5, <2>6 DEF Inv2, Messages
<1>2. CASE Next /\ died' = died
  <2>1. UNCHANGED <<scenario, died>>
    BY Zenon, <1>2 DEF Next
  <2>2. CASE \E t \in Txs : TxSending(t)
    BY Zenon, <2>1, <2>2, TxSendingTimed
  <2>3. CASE clpaMapSend
    BY Zenon, <2>1, <2>3, MapSendTimed
  <2>4. CASE SupervisorStop
    BY Zenon, <2>1, <2>4, SupervisorTimed
  <2>5. CASE \E m \in net : Handle(m)
    BY Zenon, <2>1, <2>5, HandleTimed
  <2>6. CASE \E s \in Shards : Block(s) \/ Partition(s)
    BY Zenon, <2>1, <2>6, BlockTimed, PartitionTimed
  <2> QED
    BY Zenon, <1>2, <2>2, <2>3, <2>4, <2>5, <2>6 DEF Next
<1> QED
  BY Zenon, <1>1, <1>2

\* Under the invariant what is sent on arrives.
LEMMA TimedKeeps ==
    ASSUME Frame, NEW old, Inv2(old)
    PROVE  /\ \A m \in net : m.type = "accounts" =>
                 leader[m.to].pc # "commit" /\ \A n \in leader[m.to].accts : n.from # m.from
           /\ \A s \in Shards : leader[s].map \in [Accounts -> Shards]
<1>1. ASSUME NEW m \in net, m.type = "accounts"
      PROVE  leader[m.to].pc # "commit" /\ \A n \in leader[m.to].accts : n.from # m.from
  <2>1. m.to \in Shards /\ St(m.to) \in {2, 3} /\ \A n \in leader[m.to].accts : n.from # m.from
    BY Zenon, <1>1 DEF Inv2, Messages, AccountsOK
  <2> QED
    BY Zenon, <2>1, Stages DEF Inv2
<1>2. ASSUME NEW s \in Shards PROVE leader[s].map \in [Accounts -> Shards]
  BY Zenon DEF Frame, Inv2, MapsOK, Locals, Local
<1> QED
  BY Zenon, <1>1, <1>2

\* Partitions are sound.
LEMMA TimedHandsOver ==
    ASSUME Frame, NEW old, Inv2(old)
    PROVE  HandOverSound
<1>2. NoPanic
  BY Zenon DEF Inv2, NoPanic
<1>3. RoundsCounted
  BY Zenon DEF Inv2, Locals, Local, RoundsCounted
<1>4. LastRoundsOver
  <2> SUFFICES ASSUME NEW s \in Shards, leader[s].pc = "collect", NEW m \in net, m.type = "relay", m.to = s,
                      leader[m.from].pc \in {"ready", "collect", "commit"}
               PROVE  FALSE
    BY Zenon DEF LastRoundsOver
  <2>1. m.from \in Shards /\ (St(m.from) \in 2 .. 4 => St(s) <= 2)
    BY Zenon DEF Inv2, Messages, RelayOK
  <2>2. St(s) = 3 /\ St(m.from) \in 2 .. 4
    <3>1. St(s) = 3
      BY Zenon, Stages DEF Inv2
    <3>2. St(m.from) \in {2, 3, 4}
      BY Zenon, <2>1, Stages DEF Inv2
    <3> QED
      BY Zenon, Numbers, <3>1, <3>2
  <2> QED
    BY Zenon, Numbers, <2>1, <2>2
<1>5. AccountsAtHome
  <2> SUFFICES ASSUME \A s \in Shards : Idle(s), NEW a \in Accounts, NEW s \in Shards
               PROVE  /\ leader[s].map[a] = modifiedMap[a]
                      /\ leader[s].ledger[a] \subseteq leader[modifiedMap[a]].ledger[a]
    BY Zenon DEF AccountsAtHome
  <2>1. \A i \in Shards : St(i) = 5
    BY Zenon, Stages DEF Inv2
  <2>2. leader[s].map = modifiedMap
    BY Zenon, <2>1 DEF Inv2, Locals, Local, St
  <2>3. Holder(a, old) = modifiedMap[a]
    BY Zenon, <2>1 DEF Holder, Frame
  <2> QED
    BY Zenon, <2>2, <2>3 DEF Inv2, LedgerOK
<1> QED
  BY Zenon, <1>2, <1>3, <1>4, <1>5 DEF HandOverSound
=============================================================================

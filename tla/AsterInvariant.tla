--------------------------- MODULE AsterInvariant ---------------------------
(***************************************************************************)
(* The inductive invariant behind the theorems of AsterProofs, and the     *)
(* proof that steps keep its conjuncts on types and membership, on the     *)
(* pipeline of an epoch and on the WaitGroup of SchedulingTxs.             *)
(***************************************************************************)
EXTENDS Aster, FiniteSetTheorems, TLAPS

\* One-line abbreviations of Aster that every proof may expand.
USE DEF Listening, Signalled, Counted, closeProposerNode, Waited, EpochFull,
        LeftInPool, Accepts, SignalAfterBlock, NewNodeId

-----------------------------------------------------------------------------
(* The inductive invariant.                                                *)

\* A copy of FollowerIDs is never longer than the joins that can have ended:
\* so an id handed to a joiner is in range, however the updates race.
Listed(ids) == Len(ids) >= N /\ Len(ids) + Cardinality(joining) <= N + joins
\* Every handler of a join has its number.
Tags ==
    /\ IsFiniteSet(joining) /\ \A j \in joining : j.join < joins
    /\ \A j, k \in joining : j.join = k.join => j = k
Lists ==
    /\ Listed(FollowerIDs)
    /\ \A j \in joining : j.pc = "list" => Listed(j.ids)
\* A handler that is about to list a follower has counted one.
Counts ==
    /\ FollowerNum >= N
    /\ \A j \in joining : /\ j.pc = "count" => j.num >= N
                          /\ j.pc = "list" => FollowerNum > N
\* The table is the initial one as long as FollowerNum is N.
FirstTable == FollowerNum = N => FollowerIDs = [i \in 1 .. N |-> i - 1]
JoinInv == Tags /\ Lists /\ Counts /\ FirstTable

\* The pipeline of an epoch, from TxAllocate to GatherMap.
Stage == <<starting, allocMsgs, working, replyMsgs, gathering, gathered>>
\* A follower has at most one item in it, in one stage.
OneEach ==
    \A k, l \in 1 .. 6 : \A x \in Stage[k], y \in Stage[l] :
        x.fid = y.fid => k = l /\ x = y
\* Items belong to the current epoch, are of followers that have been launched
\* and are not in its table yet.
OfEpoch ==
    \A k \in 1 .. 6 : \A x \in Stage[k] :
        /\ x.epoch = EpochId /\ x.fid \notin toLaunch
        /\ <<EpochId, x.fid>> \notin GatherMap
\* Past TxAllocate there are only followers of the initial table.
AtReady ==
    /\ \A k \in 2 .. 6 : \A x \in Stage[k] : x.fid \in ReadyMap
    /\ FollowerNum = N => /\ toLaunch \subseteq ReadyMap
                          /\ \A x \in starting : x.fid \in ReadyMap
\* The table is of this and of earlier epochs.
Table ==
    /\ \A f \in toLaunch : <<EpochId, f>> \notin GatherMap
    /\ \A p \in GatherMap : p[1] <= EpochId /\ p[2] \in ReadyMap
PipeInv == OneEach /\ OfEpoch /\ AtReady /\ Table

\* The token exists only while the pipeline is empty.
TokenInv ==
    /\ SingleToken
    /\ Token > 0 => Busy = {} /\ toLaunch = {}

\* The TxAllocate goroutines are finitely many, one for each follower.
WgItems ==
    /\ IsFiniteSet(starting) /\ IsFiniteSet(sent)
    /\ \A s \in sent : s.fid \notin toLaunch /\ s \notin starting
    /\ \A s, a \in sent \cup starting : s.fid = a.fid => s = a
\* The counter of the WaitGroup is their number, less the one whose Add is
\* still to come.
Due == IF main = "add" THEN 1 ELSE 0
WgCount == ~panicked => wg + Due = Cardinality(starting) + Cardinality(sent)
WgPlace ==
    /\ main \in {"select", "route", "closed"} => starting = {} /\ sent = {}
    /\ panicked => main = "add" /\ wg = 0
WgInv == WgItems /\ WgCount /\ WgPlace

\* Between two blocks there is nothing in ProcessedTxpool.
PoolInv ==
    /\ signals > 0 \/ building # <<>> \/ main \in {"route", "closed"}
         => ProcessedTxpool = <<>>
    /\ stop => main = "closed"

IInv == TypeOK /\ JoinInv /\ PipeInv /\ TokenInv /\ WgInv /\ PoolInv

-----------------------------------------------------------------------------
(* Facts used in all the proofs.                                           *)

\* Facts about sequences.
LEMMA NonEmpty ==
  ASSUME NEW S, NEW s \in Seq(S) PROVE s # <<>> <=> Len(s) > 0
OBVIOUS

\* The empty list is a list of whatever elements.
LEMMA EmptyList == \A S : <<>> \in Seq(S)
OBVIOUS

\* The elements of a sequence over S are in S.
LEMMA RangeType ==
  ASSUME NEW S, NEW s \in Seq(S) PROVE Range(s) \subseteq S
BY DEF Range

\* The stages by their numbers, in a state and in the next.
LEMMA Stages ==
  /\ Stage[1] = starting /\ Stage[2] = allocMsgs /\ Stage[3] = working
  /\ Stage[4] = replyMsgs /\ Stage[5] = gathering /\ Stage[6] = gathered
  /\ Stage'[1] = starting' /\ Stage'[2] = allocMsgs' /\ Stage'[3] = working'
  /\ Stage'[4] = replyMsgs' /\ Stage'[5] = gathering' /\ Stage'[6] = gathered'
  /\ \A k \in 1 .. 6 : k = 1 \/ k = 2 \/ k = 3 \/ k = 4 \/ k = 5 \/ k = 6
<1>1. /\ Stage[1] = starting /\ Stage[2] = allocMsgs /\ Stage[3] = working
      /\ Stage[4] = replyMsgs /\ Stage[5] = gathering /\ Stage[6] = gathered
  BY Zenon DEF Stage
<1>2. /\ Stage'[1] = starting' /\ Stage'[2] = allocMsgs'
      /\ Stage'[3] = working' /\ Stage'[4] = replyMsgs'
      /\ Stage'[5] = gathering' /\ Stage'[6] = gathered'
  BY Zenon DEF Stage
<1> QED BY <1>1, <1>2

\* An item under way is in a stage, so it is of the current epoch.
LEMMA InStage == \A x \in Busy : \E k \in 1 .. 6 : x \in Stage[k]
BY Stages DEF Busy, InFlight

\* What is under way is of the current epoch, with a follower that has been launched.
LEMMA BusyNow ==
  ASSUME OfEpoch, NEW x \in Busy PROVE x.epoch = EpochId /\ x.fid \notin toLaunch
<1>1. PICK k \in 1 .. 6 : x \in Stage[k] BY Zenon, InStage
<1> QED BY Zenon, <1>1 DEF OfEpoch

-----------------------------------------------------------------------------
(* Types and membership.                                                   *)

\* What a step leaves alone keeps its type.
LEMMA Kept ==
  /\ SchedType /\ UNCHANGED schedVars => SchedType'
  /\ AllocType /\ UNCHANGED allocVars => AllocType'
  /\ GatherType /\ UNCHANGED gatherVars => GatherType'
  /\ BlockType /\ UNCHANGED blockVars => BlockType'
  /\ JoinType /\ UNCHANGED joinVars => JoinType'
  /\ FollowerType /\ UNCHANGED followerVars => FollowerType'
  /\ NetType /\ UNCHANGED netVars => NetType'
<1>1. SchedType /\ UNCHANGED schedVars => SchedType'
  BY Zenon DEF SchedType, schedVars
<1>2. AllocType /\ UNCHANGED allocVars => AllocType'
  BY Zenon DEF AllocType, allocVars
<1>3. GatherType /\ UNCHANGED gatherVars => GatherType'
  BY Zenon DEF GatherType, gatherVars
<1>4. BlockType /\ UNCHANGED blockVars => BlockType'
  BY Zenon DEF BlockType, blockVars
<1>5. JoinType /\ UNCHANGED joinVars => JoinType'
  BY Zenon DEF JoinType, joinVars
<1>6. FollowerType /\ UNCHANGED followerVars => FollowerType'
  BY Zenon DEF FollowerType, followerVars
<1>7. NetType /\ UNCHANGED netVars => NetType'
  BY Zenon DEF NetType, netVars
<1> QED BY Zenon, <1>1, <1>2, <1>3, <1>4, <1>5, <1>6, <1>7

\* wg.Done keeps the types of the counter and of the panic flag.
LEMMA DoneType ==
  ASSUME wg \in Nat, panicked \in BOOLEAN, WgDone
  PROVE  wg' \in Nat /\ panicked' \in BOOLEAN
<1>1. CASE wg > 0 BY <1>1 DEF WgDone
<1>2. CASE ~(wg > 0) BY Zenon, <1>2 DEF WgDone
<1> QED BY Zenon, <1>1, <1>2

\* Executing a transaction that is not rejected keeps balances natural.
LEMMA LedgerType ==
  ASSUME NEW f, NEW t \in Tx, NEW st \in [Account -> Nat \cup {Absent}],
         ~Rejects(st, f, t)
  PROVE  Credit(Debit(st, f, t), f, t) \in [Account -> Nat \cup {Absent}]
<1>1. /\ Sender[t] \in Account /\ Recipient[t] \in Account
      /\ Value[t] \in Nat /\ InitBalance \in Nat
  BY Zenon, DataAssumption
<1>2. ASSUME NEW s \in [Account -> Nat \cup {Absent}], NEW a \in Account
      PROVE  Balance(s, a) \in Nat
  BY Zenon, <1>1 DEF Balance
<1>3. Debit(st, f, t) \in [Account -> Nat \cup {Absent}]
  <2>1. CASE Mine(f, Sender[t])
    <3>1. Balance(st, Sender[t]) \in Nat BY Zenon, <1>1, <1>2
    <3>2. Balance(st, Sender[t]) - Value[t] \in Nat
      BY <1>1, <2>1, <3>1 DEF Rejects
    <3> QED BY Zenon, <2>1, <3>2 DEF Debit
  <2>2. CASE ~Mine(f, Sender[t])
    BY Zenon, <2>2 DEF Debit
  <2> QED BY Zenon, <2>1, <2>2
<1> DEFINE s == Debit(st, f, t)
<1> HIDE DEF s
<1>4. Balance(s, Recipient[t]) + Value[t] \in Nat
  BY <1>1, <1>2, <1>3 DEF s
<1> QED BY Zenon, <1>3, <1>4 DEF Credit, s

\* The tables of members and the copies that joins hold are not too long.
LEMMA Lengths ==
  ASSUME JoinType, Tags, Lists
  PROVE  /\ Cardinality(joining) \in Nat
         /\ Len(FollowerIDs) \in 1 .. (N + joins)
         /\ \A j \in joining : j.pc = "list" => Len(j.ids) + 1 \in 1 .. (N + joins)
<1>1. N \in Nat \ {0} /\ joins \in Nat BY ParamsAssumption DEF JoinType
<1>2. IsFiniteSet(joining) BY Zenon DEF Tags
<1>3. Cardinality(joining) \in Nat BY Zenon, <1>2, FS_CardinalityType
<1>4. Len(FollowerIDs) \in Nat BY DEF JoinType
<1>5. Listed(FollowerIDs) BY Zenon DEF Lists
<1>6. Len(FollowerIDs) \in 1 .. (N + joins) BY <1>1, <1>3, <1>4, <1>5 DEF Listed
<1>7. ASSUME NEW j \in joining, j.pc = "list"
      PROVE  Len(j.ids) + 1 \in 1 .. (N + joins)
  <2>1. Cardinality(joining) # 0 BY Zenon, <1>2, FS_EmptySet
  <2>2. j.ids \in Seq(Fid) BY Zenon DEF JoinType, Joiner
  <2>3. Len(j.ids) \in Nat BY <2>2
  <2>4. Listed(j.ids) BY Zenon, <1>7 DEF Lists
  <2> QED BY <1>1, <1>3, <2>1, <2>3, <2>4 DEF Listed
<1> QED BY Zenon, <1>3, <1>6, <1>7

\* A batch is executed by a follower of the initial table.
LEMMA WorkingReady == ASSUME AtReady, NEW w \in working PROVE w.fid \in ReadyMap
<1>1. Stage[3] = working BY Zenon DEF Stage
<1>2. \A x \in Stage[3] : x.fid \in ReadyMap BY DEF AtReady
<1> QED BY Zenon, <1>1, <1>2

\* Every step keeps the types.
LEMMA TypeStep == ASSUME TypeOK, JoinInv, PipeInv, TokenInv, Next PROVE TypeOK'
<1> USE Kept DEF TypeOK
<1>0. /\ N \in Nat \ {0} /\ MaxJoin \in Nat /\ MaxFaults \in Nat
      /\ InjectSpeed \in Nat \ {0} /\ MaxBlockSize \in Nat \ {0}
      /\ ReadyMap \subseteq Fid
  BY ParamsAssumption DEF ReadyMap, Fid
<1>b. joins \in 0 .. MaxJoin BY Zenon DEF JoinType
<1>c. /\ Len(FollowerIDs) \in 1 .. (N + joins)
      /\ \A j \in joining : j.pc = "list" => Len(j.ids) + 1 \in 1 .. (N + joins)
  BY Zenon, Lengths DEF JoinInv
<1>d. \A w \in working : w.fid \in ReadyMap BY Zenon, WorkingReady DEF PipeInv
<1>1. CASE Inject
  <2> DEFINE n == Least(InjectSpeed, Len(txs))
  <2>1. n \in 0 .. Len(txs)
    BY <1>0 DEF Least, SchedType
  <2>2. SubSeq(txs, 1, n) \in Seq(Tx) /\ SubSeq(txs, n + 1, Len(txs)) \in Seq(Tx)
    BY SMTT(30), <2>1 DEF SchedType
  <2> HIDE DEF n
  <2>3. (PendingTxpool \o SubSeq(txs, 1, n)) \in Seq(Tx)
    BY <2>2 DEF SchedType
  <2> QED BY Zenon, <1>1, <2>2, <2>3 DEF Inject, SchedType, n
<1>2. CASE PollEmpty
  <2>1. CASE poollencount + 1 >= StopPolls
    BY <1>2, <2>1 DEF PollEmpty, SchedType
  <2>2. CASE ~(poollencount + 1 >= StopPolls)
    BY <1>2, <2>2 DEF PollEmpty, SchedType
  <2> QED BY Zenon, <2>1, <2>2
<1>3. CASE TakeBatch
  <2> DEFINE n == Least(MaxBlockSize, Len(PendingTxpool))
  <2>1. n \in 0 .. Len(PendingTxpool)
    BY <1>0 DEF Least, SchedType
  <2>2. /\ SubSeq(PendingTxpool, n + 1, Len(PendingTxpool)) \in Seq(Tx)
        /\ {PendingTxpool[i] : i \in 1 .. n} \subseteq Tx
    BY <2>1 DEF SchedType
  <2>3. NoBatches \in [Fid -> Seq(Tx)]
    BY DEF NoBatches
  <2>4. <<Len(FollowerIDs)>> \in Seq(1 .. (N + MaxJoin))
    <3>1. Len(FollowerIDs) \in 1 .. (N + MaxJoin) BY <1>0, <1>b, <1>c
    <3> QED BY <3>1
  <2> HIDE DEF n
  <2> QED BY <1>3, <2>2, <2>3, <2>4 DEF TakeBatch, SchedType, n
<1>4. CASE StartEpoch
  BY <1>4, RangeType DEF StartEpoch, SchedType, JoinType
<1>5. CASE WgAdd
  BY <1>5 DEF WgAdd, SchedType, AllocType
<1>6. CASE EndScheduling
  BY Zenon, <1>6 DEF EndScheduling, SchedType
<1>7. ASSUME NEW t \in localTxpool, RouteTx(t) PROVE TypeOK'
  <2>1. ASSUME NEW d1, NEW d2
    PROVE Routed(allocMap, t, d1, d2) \in [Fid -> Seq(Tx)]
    BY DEF Routed, SchedType
  <2> QED BY <1>7, <2>1 DEF RouteTx, SchedType
<1>8. ASSUME NEW f \in toLaunch, Launch(f) PROVE TypeOK'
  <2>1. [epoch |-> EpochId, fid |-> f, txs |-> allocMap[f]] \in AllocMsg
    BY Zenon DEF AllocMsg, SchedType
  <2> QED BY Zenon, <1>8, <2>1 DEF Launch, SchedType, AllocType
<1>9. ASSUME NEW a \in starting, AllocateNotReady(a) PROVE TypeOK'
  <2>1. AllocType' BY Zenon, <1>9, DoneType DEF AllocateNotReady, AllocType
  <2> QED BY Zenon, <1>9, <2>1 DEF AllocateNotReady
<1>10. ASSUME NEW a \in starting, AllocateSend(a) PROVE TypeOK'
  BY Zenon, <1>10 DEF AllocateSend, AllocType, NetType
<1>11. ASSUME NEW a \in sent, AllocateRecord(a) PROVE TypeOK'
  <2>1. Range(a.txs) \subseteq Tx
    BY Zenon, RangeType DEF AllocMsg, AllocType
  <2>2. AllocType' BY Zenon, <1>11, DoneType DEF AllocateRecord, AllocType
  <2>3. GatherType' BY Zenon, <1>11, <2>1 DEF AllocateRecord, GatherType
  <2> QED BY Zenon, <1>11, <2>2, <2>3 DEF AllocateRecord
<1>12. ASSUME NEW m \in allocMsgs, StartBatch(m) PROVE TypeOK'
  <2>1. Committable(m) \in BOOLEAN BY Zenon DEF Committable
  <2>2. m.epoch \in Nat /\ m.fid \in Fid /\ m.txs \in Seq(Tx)
    BY Zenon DEF AllocMsg, NetType
  <2>3. [epoch |-> m.epoch, fid |-> m.fid, todo |-> m.txs, hashes |-> <<>>,
         commits |-> Committable(m)] \in Batch
    BY <2>1, <2>2 DEF Batch
  <2> QED BY Zenon, <1>12, <2>3 DEF StartBatch, FollowerType, NetType
<1>13. ASSUME NEW w \in working, Reply(w) PROVE TypeOK'
  <2>1. [epoch |-> w.epoch, fid |-> w.fid, hashes |-> w.hashes] \in ReplyMsg
    BY Zenon DEF Batch, ReplyMsg, FollowerType
  <2> QED BY Zenon, <1>13, <2>1 DEF Reply, FollowerType, NetType
<1>14. ASSUME NEW m \in replyMsgs, GatherBegin(m) PROVE TypeOK'
  <2>1. [epoch |-> m.epoch, fid |-> m.fid, todo |-> m.hashes, hashes |-> m.hashes]
          \in Job
    BY Zenon DEF Job, ReplyMsg, NetType
  <2> QED BY Zenon, <1>14, <2>1 DEF GatherBegin, GatherType, NetType
<1>15. ASSUME NEW g \in gathering, GatherOne(g) PROVE TypeOK'
  <2>1. g.todo \in Seq(Tx) /\ g.todo # <<>>
    BY Zenon, <1>15 DEF Job, GatherOne, GatherType
  <2>2. Head(g.todo) \in Tx /\ Tail(g.todo) \in Seq(Tx)
    BY <2>1
  <2>3. [g EXCEPT !.todo = Tail(g.todo)] \in Job
    BY Zenon, <2>2 DEF Job, GatherType
  <2> QED BY <1>15, <2>2, <2>3 DEF GatherOne, GatherType
<1>16. ASSUME NEW g \in gathering, GatherEnd(g) PROVE TypeOK'
  <2>1. [epoch |-> g.epoch, fid |-> g.fid, hashes |-> g.hashes] \in ReplyMsg
    BY Zenon DEF Job, ReplyMsg, GatherType
  <2> QED BY Zenon, <1>16, <2>1 DEF GatherEnd, GatherType
<1>17. ASSUME NEW g \in gathered, Register(g) PROVE TypeOK'
  <2>1. <<g.epoch, g.fid>> \in Nat \X Fid
    BY Zenon DEF ReplyMsg, GatherType
  <2> QED BY <1>17, <2>1 DEF Register, GatherType, BlockType
<1>18. CASE GenerateNothing
  BY <1>18 DEF GenerateNothing, BlockType
<1>19. CASE GenerateBlock
  <2> DEFINE c == [parent |-> Len(chain), txs |-> ProcessedTxpool]
  <2>1. c \in Candidate /\ Len(chain) \in Nat
    BY DEF GatherType, BlockType, Candidate
  <2>2. BlockType'
    <3>1. building' = <<c>> BY Zenon, <1>19 DEF GenerateBlock
    <3> HIDE DEF c
    <3>2. building' \in Seq(Candidate) BY <2>1, <3>1
    <3> QED BY Zenon, <1>19, <2>1, <3>2 DEF GenerateBlock, BlockType
  <2>3. GatherType' BY <1>19 DEF GenerateBlock, GatherType
  <2> QED BY Zenon, <1>19, <2>2, <2>3 DEF GenerateBlock
<1>20. CASE AddBlock
  <2>1. building # <<>>
    BY Zenon, <1>20 DEF AddBlock
  <2>2. Len(building) > 0 /\ building[1] \in Candidate
    BY <2>1, NonEmpty DEF BlockType
  <2>3. gens - 1 \in Nat
    BY <2>2 DEF TokenInv, SingleToken, BlockType
  <2>4. Append(chain, building[1].txs) \in Seq(Seq(Tx))
    BY <2>2 DEF BlockType, Candidate
  <2>5. BlockType' BY <1>20, <2>3, <2>4 DEF AddBlock, BlockType
  <2>6. SchedType' BY <1>20 DEF AddBlock, SchedType
  <2> QED BY Zenon, <1>20, <2>5, <2>6 DEF AddBlock
<1>21. CASE JoinRead
  <2>1. Len(FollowerIDs) \in Fid
    <3>1. joins < MaxJoin BY Zenon, <1>21 DEF JoinRead
    <3> QED BY <1>0, <1>b, <1>c, <3>1 DEF Fid
  <2>2. [join |-> joins, id |-> Len(FollowerIDs), pc |-> "add", num |-> 0,
         ids |-> <<>>] \in Joiner
    BY <1>b, <2>1, EmptyList DEF Joiner
  <2>3. joins' \in 0 .. MaxJoin BY <1>0, <1>21, <1>b DEF JoinRead
  <2> QED BY Zenon, <1>21, <2>2, <2>3 DEF JoinRead, JoinType
<1>22. ASSUME NEW j \in joining, JoinLoad(j) PROVE TypeOK'
  <2>1. j \in Joiner /\ FollowerNum \in Nat BY Zenon DEF JoinType
  <2>2. [j EXCEPT !.pc = "count", !.num = FollowerNum] \in Joiner
    BY Zenon, <2>1 DEF Joiner
  <2> QED BY Zenon, <1>22, <2>2 DEF JoinLoad, JoinType
<1>28. ASSUME NEW j \in joining, JoinCount(j) PROVE TypeOK'
  <2>1. j \in Joiner /\ FollowerIDs \in Seq(Fid) BY Zenon DEF JoinType
  <2>2. [j EXCEPT !.pc = "list", !.ids = FollowerIDs] \in Joiner
    BY Zenon, <2>1 DEF Joiner
  <2>3. j.num + 1 \in Nat BY <2>1 DEF Joiner
  <2> QED BY Zenon, <1>28, <2>2, <2>3 DEF JoinCount, JoinType
<1>29. ASSUME NEW j \in joining, JoinList(j) PROVE TypeOK'
  <2>1. j.ids \in Seq(Fid) /\ j.id \in Fid BY Zenon DEF JoinType, Joiner
  <2>2. Append(j.ids, j.id) \in Seq(Fid) /\ Len(Append(j.ids, j.id)) = Len(j.ids) + 1
    BY <2>1
  <2>3. j.pc = "list" BY Zenon, <1>29 DEF JoinList
  <2>4. Len(j.ids) + 1 \in 1 .. (N + MaxJoin)
    BY <1>0, <1>b, <1>c, <2>3
  <2>5. lens \in Seq(1 .. (N + MaxJoin)) BY Zenon DEF SchedType
  <2>6. Append(lens, Len(j.ids) + 1) \in Seq(1 .. (N + MaxJoin)) BY <2>4, <2>5
  <2>7. lens' \in Seq(1 .. (N + MaxJoin))
    BY Zenon, <1>29, <2>2, <2>5, <2>6 DEF JoinList
  <2>8. SchedType' BY Zenon, <1>29, <2>7 DEF JoinList, SchedType
  <2>9. JoinType' BY Zenon, <1>29, <2>2 DEF JoinList, JoinType
  <2> QED BY Zenon, <1>29, <2>8, <2>9 DEF JoinList
<1>23. ASSUME NEW m \in allocMsgs \cup replyMsgs, Lose(m) PROVE TypeOK'
  <2>1. faults' \in 0 .. MaxFaults BY <1>0, <1>23 DEF Lose, NetType
  <2>2. NetType' BY Zenon, <1>23, <2>1 DEF Lose, NetType
  <2> QED BY Zenon, <1>23, <2>2 DEF Lose
<1>24. ASSUME NEW f \in ReadyMap, Crash(f) PROVE TypeOK'
  <2>1. faults' \in 0 .. MaxFaults BY <1>0, <1>24 DEF Crash, NetType
  <2>2. NetType' BY Zenon, <1>24, <2>1 DEF Crash, NetType
  <2>3. FollowerType' BY Zenon, <1>24 DEF Crash, FollowerType
  <2> QED BY Zenon, <1>24, <2>2, <2>3 DEF Crash
<1>25. ASSUME NEW m \in allocMsgs, DropAtDown(m) PROVE TypeOK'
  BY Zenon, <1>25 DEF DropAtDown, NetType
<1>26. ASSUME NEW f \in down, Restart(f) PROVE TypeOK'
  BY Zenon, <1>26 DEF Restart, FollowerType, NetType
<1>27. ASSUME NEW w \in working, ExecuteTx(w) PROVE TypeOK'
  <2> DEFINE t == Head(w.todo)
             rej == Rejects(trie[w.fid], w.fid, t)
             hs == Returned(w.hashes, t, rej)
  <2>1. /\ w \in Batch /\ w.todo \in Seq(Tx) /\ w.todo # <<>>
        /\ w.hashes \in Seq(Tx) /\ w.fid \in Fid
    BY Zenon, <1>27 DEF Batch, ExecuteTx, FollowerType
  <2>2. t \in Tx /\ Tail(w.todo) \in Seq(Tx) BY <2>1
  <2>3. hs \in Seq(Tx) BY <2>1, <2>2 DEF Returned
  <2>4. w.fid \in ReadyMap BY Zenon, <1>d
  <2>5. ~rej => Credit(Debit(trie[w.fid], w.fid, t), w.fid, t)
                  \in [Account -> Nat \cup {Absent}]
    BY Zenon, <2>2, <2>4, LedgerType DEF FollowerType
  <2> HIDE DEF t, rej, hs
  <2> DEFINE c == w.commits \/ trie' # trie
  <2>6. [w EXCEPT !.todo = Tail(w.todo), !.hashes = hs, !.commits = c] \in Batch
    BY Zenon, <2>1, <2>2, <2>3 DEF Batch
  <2>7. working' \subseteq Batch
    BY Zenon, <1>27, <2>6 DEF ExecuteTx, FollowerType, t, hs, rej
  <2>8. executed' \subseteq Tx \X Fid
    BY <1>27, <2>1, <2>2 DEF ExecuteTx, FollowerType, t
  <2>9. trie' \in [ReadyMap -> [Account -> Nat \cup {Absent}]]
    BY Zenon, <1>27, <2>4, <2>5 DEF ExecuteTx, FollowerType, t, rej
  <2> QED BY Zenon, <1>27, <2>7, <2>8, <2>9 DEF ExecuteTx, FollowerType
<1>30. ASSUME NEW w \in working, CommitPanic(w) PROVE TypeOK'
  <2>1. w.fid \in ReadyMap BY Zenon, <1>d
  <2> QED BY Zenon, <1>30, <2>1 DEF CommitPanic, FollowerType, NetType
<1> QED
  BY Zenon, <1>1, <1>2, <1>3, <1>4, <1>5, <1>6, <1>7, <1>8, <1>9, <1>10, <1>11,
     <1>12, <1>13, <1>14, <1>15, <1>16, <1>17, <1>18, <1>19, <1>20, <1>21,
     <1>22, <1>23, <1>24, <1>25, <1>26, <1>27, <1>28, <1>29, <1>30
  DEF Next, Schedule, Allocate, Follow, Gather, Generate, Join, Enlist,
       Fail

\* The ids handed to joiners and the counters of members.
LEMMA JoinStep == ASSUME TypeOK, JoinInv, Next PROVE JoinInv'
<1>0. /\ N \in Nat \ {0} /\ joins \in Nat /\ FollowerNum \in Nat
      /\ FollowerIDs \in Seq(Fid) /\ joining \subseteq Joiner
      /\ Cardinality(joining) \in Nat
  <2>1. N \in Nat \ {0} BY Zenon, ParamsAssumption
  <2>2. JoinType BY Zenon DEF TypeOK
  <2>3. IsFiniteSet(joining) BY Zenon DEF JoinInv, Tags
  <2>4. Cardinality(joining) \in Nat BY Zenon, <2>3, FS_CardinalityType
  <2> QED BY <2>1, <2>2, <2>4 DEF JoinType
<1>a. \A j \in joining : /\ j.num \in Nat /\ j.ids \in Seq(Fid) /\ j.id \in Fid
                         /\ j.join \in Nat
  BY Zenon, <1>0 DEF Joiner
<1>b. IsFiniteSet(joining) /\ \A j \in joining : j.join < joins
  BY Zenon DEF JoinInv, Tags
<1>c. \A j, k \in joining : j.join = k.join => j = k
  BY Zenon DEF JoinInv, Tags
<1>d. Lists /\ Counts /\ FirstTable BY Zenon DEF JoinInv
<1>1. CASE JoinRead
  <2> DEFINE j == [join |-> joins, id |-> Len(FollowerIDs), pc |-> "add",
                   num |-> 0, ids |-> <<>>]
  <2>1. j.join = joins /\ j.pc = "add" BY Zenon
  <2>2. joining' = joining \cup {j} BY Zenon, <1>1 DEF JoinRead
  <2> HIDE DEF j
  <2>3. j \notin joining BY <1>0, <1>b, <2>1
  <2>4. IsFiniteSet(joining') /\ Cardinality(joining') = Cardinality(joining) + 1
    BY Zenon, <1>b, <2>2, <2>3, FS_AddElement
  <2>5. joins' = joins + 1 /\ UNCHANGED <<FollowerIDs, FollowerNum>>
    BY Zenon, <1>1 DEF JoinRead
  <2>6. \A x : Listed(x) /\ Len(x) \in Nat => Listed(x)'
    BY <1>0, <2>4, <2>5 DEF Listed
  <2>7. \A k \in joining' : k.join < joins'
    BY <1>0, <1>a, <1>b, <2>1, <2>2, <2>5
  <2>8. Listed(FollowerIDs)' BY <1>0, <1>d, <2>4, <2>5 DEF Lists, Listed
  <2>9. \A k \in joining : k.pc = "list" => Listed(k.ids)
    BY Zenon, <1>d DEF Lists
  <2>10. \A k \in joining' : k.pc = "list" =>
             /\ Len(k.ids) >= N
             /\ Len(k.ids) + Cardinality(joining') <= N + joins'
    BY <1>0, <1>a, <2>1, <2>2, <2>4, <2>5, <2>9 DEF Listed
  <2>11. Counts' BY Zenon, <1>d, <2>1, <2>2, <2>5 DEF Counts
  <2>12. \A x, y \in joining' : x.join = y.join => x = y
    <3>1. \A x \in joining : x.join # j.join BY <1>0, <1>a, <1>b, <2>1
    <3> QED BY Zenon, <1>c, <2>2, <3>1
  <2>13. Tags' BY Zenon, <2>4, <2>7, <2>12 DEF Tags
  <2>14. Lists' BY Zenon, <2>8, <2>10 DEF Lists, Listed
  <2>15. FirstTable' BY Zenon, <1>d, <2>5 DEF FirstTable
  <2> QED BY Zenon, <2>11, <2>13, <2>14, <2>15 DEF JoinInv
<1>2. ASSUME NEW j \in joining, NEW k, k.join = j.join, k \in Joiner,
             joining' = (joining \ {j}) \cup {k}, k \notin joining \ {j},
             FollowerNum' \in Nat, FollowerNum' >= N,
             FollowerNum' = FollowerNum \/ FollowerNum' > N,
             UNCHANGED <<FollowerIDs, joins>>,
             k.pc = "count" => k.num >= N,
             k.pc = "list" => k.ids = FollowerIDs /\ FollowerNum' > N
      PROVE  JoinInv'
  <2>1. /\ IsFiniteSet(joining \ {j})
        /\ Cardinality(joining \ {j}) = Cardinality(joining) - 1
    BY Zenon, <1>b, FS_RemoveElement
  <2>2. /\ IsFiniteSet(joining')
        /\ Cardinality(joining') = Cardinality(joining \ {j}) + 1
    BY Zenon, <1>2, <2>1, FS_AddElement
  <2>3. Cardinality(joining') = Cardinality(joining) BY <1>0, <2>1, <2>2
  <2>4. \A x \in joining' : x = k \/ x \in joining BY Zenon, <1>2
  <2>5. Tags'
    <3>1. \A x \in joining' : x.join < joins' BY Zenon, <1>2, <1>b, <2>4
    <3>2. \A x \in joining \ {j} : x.join # k.join BY Zenon, <1>2, <1>c
    <3>3. \A x, y \in joining' : x.join = y.join => x = y
      BY Zenon, <1>2, <1>c, <3>2
    <3> QED BY Zenon, <2>2, <3>1, <3>3 DEF Tags
  <2>6. Listed(FollowerIDs) BY Zenon, <1>d DEF Lists
  <2>8. \A x \in joining' : x.pc = "list" => Listed(x.ids)
    BY Zenon, <1>2, <1>d, <2>4, <2>6 DEF Lists
  <2>9. Lists'
    <3>1. Listed(FollowerIDs)' BY Zenon, <1>2, <2>3, <2>6 DEF Listed
    <3>2. \A x \in joining' : x.pc = "list" =>
             /\ Len(x.ids) >= N
             /\ Len(x.ids) + Cardinality(joining') <= N + joins'
      BY Zenon, <1>2, <2>3, <2>8 DEF Listed
    <3> QED BY Zenon, <3>1, <3>2 DEF Lists, Listed
  <2>10. FollowerNum > N => FollowerNum' > N BY Zenon, <1>2
  <2>11. Counts' BY Zenon, <1>2, <1>d, <2>4, <2>10 DEF Counts
  <2>12. FollowerNum' # N \/ FollowerNum' = FollowerNum BY <1>0, <1>2
  <2>13. FirstTable' BY Zenon, <1>2, <1>d, <2>12 DEF FirstTable
  <2> QED BY Zenon, <2>5, <2>9, <2>11, <2>13 DEF JoinInv
<1>3. ASSUME NEW j \in joining, JoinLoad(j) PROVE JoinInv'
  <2> DEFINE k == [j EXCEPT !.pc = "count", !.num = FollowerNum]
  <2>1. /\ k.join = j.join /\ k.pc = "count" /\ k.num = FollowerNum
        /\ k \in Joiner
    BY Zenon, <1>0 DEF Joiner
  <2>2. joining' = (joining \ {j}) \cup {k} BY Zenon, <1>3 DEF JoinLoad
  <2> HIDE DEF k
  <2>3. k \notin joining \ {j} BY Zenon, <1>c, <2>1
  <2>4. FollowerNum >= N BY Zenon, <1>d DEF Counts
  <2>5. UNCHANGED <<FollowerIDs, FollowerNum, joins>> BY Zenon, <1>3 DEF JoinLoad
  <2> QED BY Zenon, <1>0, <1>2, <2>1, <2>2, <2>3, <2>4, <2>5
<1>10. ASSUME NEW j \in joining, JoinCount(j) PROVE JoinInv'
  <2> DEFINE k == [j EXCEPT !.pc = "list", !.ids = FollowerIDs]
  <2>1. /\ k.join = j.join /\ k.pc = "list" /\ k.ids = FollowerIDs
        /\ k \in Joiner
    BY Zenon, <1>0 DEF Joiner
  <2>2. joining' = (joining \ {j}) \cup {k} BY Zenon, <1>10 DEF JoinCount
  <2> HIDE DEF k
  <2>3. k \notin joining \ {j} BY Zenon, <1>c, <2>1
  <2>4. FollowerNum' \in Nat /\ FollowerNum' > N /\ FollowerNum' >= N
    BY <1>0, <1>a, <1>d, <1>10 DEF JoinCount, Counts
  <2>5. UNCHANGED <<FollowerIDs, joins>> BY Zenon, <1>10 DEF JoinCount
  <2> QED BY Zenon, <1>2, <2>1, <2>2, <2>3, <2>4, <2>5
<1>11. ASSUME NEW j \in joining, JoinList(j) PROVE JoinInv'
  <2>1. /\ joining' = joining \ {j} /\ UNCHANGED <<FollowerNum, joins>>
        /\ FollowerIDs' = Append(j.ids, j.id) /\ j.pc = "list"
    BY Zenon, <1>11 DEF JoinList
  <2>2. IsFiniteSet(joining') /\ Cardinality(joining') = Cardinality(joining) - 1
    BY Zenon, <1>b, <2>1, FS_RemoveElement
  <2>3. Len(FollowerIDs') = Len(j.ids) + 1 BY <1>a, <2>1
  <2>4. Listed(j.ids) /\ FollowerNum > N BY Zenon, <1>d, <2>1 DEF Lists, Counts
  <2>5. Listed(FollowerIDs)'
    BY <1>0, <1>a, <2>1, <2>2, <2>3, <2>4 DEF Listed
  <2>6. \A x \in joining : x.pc = "list" => Listed(x.ids) BY Zenon, <1>d DEF Lists
  <2>7. \A x \in joining' : x.pc = "list" =>
            /\ Len(x.ids) >= N
            /\ Len(x.ids) + Cardinality(joining') <= N + joins'
    BY SMTT(30), <1>0, <1>a, <2>1, <2>2, <2>6 DEF Listed
  <2>8. Tags' BY Zenon, <1>b, <1>c, <2>1, <2>2 DEF Tags
  <2>9. FollowerNum' > N /\ FollowerNum' >= N /\ FollowerNum' # N
    BY <1>0, <2>1, <2>4
  <2>10. Lists' BY Zenon, <2>5, <2>7 DEF Lists, Listed
  <2>11. Counts' BY Zenon, <1>d, <2>1, <2>9 DEF Counts
  <2>12. FirstTable' BY Zenon, <2>9 DEF FirstTable
  <2> QED BY Zenon, <2>8, <2>10, <2>11, <2>12 DEF JoinInv
<1>4. UNCHANGED joinVars => JoinInv'
  BY Zenon DEF joinVars, JoinInv, Tags, Lists, Counts, FirstTable, Listed
<1>5. CASE \/ Inject \/ PollEmpty \/ TakeBatch \/ StartEpoch \/ WgAdd
           \/ EndScheduling
  BY Zenon, <1>4, <1>5 DEF Inject, PollEmpty, TakeBatch, StartEpoch, WgAdd,
                    EndScheduling
<1>6. ASSUME NEW x, \/ RouteTx(x) \/ Launch(x) \/ AllocateNotReady(x)
                    \/ AllocateSend(x) \/ AllocateRecord(x)
      PROVE JoinInv'
  BY Zenon, <1>4, <1>6 DEF RouteTx, Launch, AllocateNotReady, AllocateSend,
                    AllocateRecord
<1>7. ASSUME NEW x, \/ StartBatch(x) \/ ExecuteTx(x) \/ Reply(x)
                    \/ GatherBegin(x) \/ GatherOne(x) \/ GatherEnd(x)
                    \/ Register(x)
      PROVE JoinInv'
  BY Zenon, <1>4, <1>7 DEF StartBatch, ExecuteTx, Reply, GatherBegin, GatherOne,
                    GatherEnd, Register
<1>8. CASE GenerateNothing \/ GenerateBlock \/ AddBlock
  BY Zenon, <1>4, <1>8 DEF GenerateNothing, GenerateBlock, AddBlock
<1>9. ASSUME NEW x, \/ Lose(x) \/ Crash(x) \/ CommitPanic(x)
                    \/ DropAtDown(x) \/ Restart(x)
      PROVE JoinInv'
  BY Zenon, <1>4, <1>9 DEF Lose, Crash, CommitPanic, DropAtDown, Restart
<1> QED
  BY Zenon, <1>1, <1>3, <1>5, <1>6, <1>7, <1>8, <1>9, <1>10, <1>11
  DEF Next, Schedule, Allocate, Follow, Gather, Generate, Join, Enlist,
       Fail

-----------------------------------------------------------------------------
\* The invariant survives a step that loses items of the pipeline.
LEMMA Shrink ==
  ASSUME PipeInv, \A k \in 1 .. 6 : Stage'[k] \subseteq Stage[k],
         UNCHANGED <<EpochId, toLaunch, GatherMap>>,
         FollowerNum' = N => FollowerNum = N
  PROVE  PipeInv'
<1>1. OneEach' BY DEF PipeInv, OneEach
<1>2. OfEpoch' BY Zenon DEF PipeInv, OfEpoch
<1>3. starting' \subseteq starting BY Stages
<1>4. \A k \in 2 .. 6 : Stage'[k] \subseteq Stage[k] OBVIOUS
<1>5. AtReady' BY Zenon, <1>3, <1>4 DEF PipeInv, AtReady
<1>6. Table' BY Zenon DEF PipeInv, Table
<1> QED BY Zenon, <1>1, <1>2, <1>5, <1>6 DEF PipeInv

\* It survives a step that moves an item on, or replaces it in its stage.
LEMMA Move ==
  ASSUME PipeInv, NEW i \in 1 .. 6, NEW j \in 2 .. 6, NEW x \in Stage[i], NEW y,
         y.fid = x.fid, y.epoch = x.epoch, x.fid \in ReadyMap,
         starting' \subseteq starting \ (IF i = 1 THEN {x} ELSE {}),
         allocMsgs' \subseteq (allocMsgs \ (IF i = 2 THEN {x} ELSE {}))
                                \cup (IF j = 2 THEN {y} ELSE {}),
         working' \subseteq (working \ (IF i = 3 THEN {x} ELSE {}))
                              \cup (IF j = 3 THEN {y} ELSE {}),
         replyMsgs' \subseteq (replyMsgs \ (IF i = 4 THEN {x} ELSE {}))
                                \cup (IF j = 4 THEN {y} ELSE {}),
         gathering' \subseteq (gathering \ (IF i = 5 THEN {x} ELSE {}))
                                \cup (IF j = 5 THEN {y} ELSE {}),
         gathered' \subseteq (gathered \ (IF i = 6 THEN {x} ELSE {}))
                               \cup (IF j = 6 THEN {y} ELSE {}),
         UNCHANGED <<EpochId, toLaunch, GatherMap, FollowerNum>>
  PROVE  PipeInv'
<1>0. ASSUME NEW k \in 1 .. 6, NEW z \in Stage'[k]
      PROVE  (z \in Stage[k] /\ ~(k = i /\ z = x)) \/ (k = j /\ z = y)
  <2>1. CASE k = 1 BY Zenon, <2>1, Stages
  <2>2. CASE k = 2 BY Zenon, <2>2, Stages
  <2>3. CASE k = 3 BY Zenon, <2>3, Stages
  <2>4. CASE k = 4 BY Zenon, <2>4, Stages
  <2>5. CASE k = 5 BY Zenon, <2>5, Stages
  <2>6. CASE k = 6 BY Zenon, <2>6, Stages
  <2> QED BY <2>1, <2>2, <2>3, <2>4, <2>5, <2>6
<1>1. \A k \in 1 .. 6 : \A z \in Stage[k] : z.fid = y.fid => k = i /\ z = x
  BY Zenon DEF PipeInv, OneEach
<1>2. ASSUME NEW k \in 1 .. 6, NEW l \in 1 .. 6, NEW u \in Stage'[k],
             NEW v \in Stage'[l], u.fid = v.fid
      PROVE  k = l /\ u = v
  <2>1. CASE u \in Stage[k] /\ v \in Stage[l]
    BY <1>2, <2>1 DEF PipeInv, OneEach
  <2>2. CASE k = j /\ u = y
    BY Zenon, <1>0, <1>1, <1>2, <2>2
  <2>3. CASE l = j /\ v = y
    BY Zenon, <1>0, <1>1, <1>2, <2>3
  <2> QED BY ZenonT(30), <1>0, <2>1, <2>2, <2>3
<1>3. OneEach' BY Zenon, <1>2 DEF OneEach
<1>4. OfEpoch'
  <2>1. ASSUME NEW k \in 1 .. 6, NEW z \in Stage'[k]
        PROVE  /\ z.epoch = EpochId /\ z.fid \notin toLaunch
               /\ <<EpochId, z.fid>> \notin GatherMap
    <3>1. CASE z \in Stage[k] BY Zenon, <3>1 DEF PipeInv, OfEpoch
    <3>2. CASE z = y BY Zenon, <3>2 DEF PipeInv, OfEpoch
    <3> QED BY Zenon, <1>0, <3>1, <3>2
  <2> QED BY Zenon, <2>1 DEF OfEpoch
<1>5. AtReady'
  <2>1. ASSUME NEW k \in 2 .. 6, NEW z \in Stage'[k] PROVE z.fid \in ReadyMap
    <3>1. CASE z \in Stage[k] BY Zenon, <3>1 DEF PipeInv, AtReady
    <3>2. CASE z = y BY Zenon, <3>2
    <3> QED BY <1>0, <3>1, <3>2
  <2>2. starting' \subseteq starting BY Zenon
  <2> QED BY Zenon, <2>1, <2>2 DEF PipeInv, AtReady
<1>6. Table' BY Zenon DEF PipeInv, Table
<1> QED BY Zenon, <1>3, <1>4, <1>5, <1>6 DEF PipeInv

\* Every stage of an epoch holds at most one item for each follower.
LEMMA PipeStep == ASSUME TypeOK, JoinInv, PipeInv, TokenInv, Next PROVE PipeInv'
<1> DEFINE epochVars == <<EpochId, toLaunch, GatherMap, FollowerNum>>
           pipeVars == <<starting, allocMsgs, working, replyMsgs, gathering,
                         gathered, epochVars>>
<1>0. ASSUME starting' \subseteq starting, allocMsgs' \subseteq allocMsgs,
             working' \subseteq working, replyMsgs' \subseteq replyMsgs,
             gathering' \subseteq gathering, gathered' \subseteq gathered,
             UNCHANGED epochVars
      PROVE  PipeInv'
  <2>1. \A k \in 1 .. 6 : Stage'[k] \subseteq Stage[k] BY Zenon, <1>0, Stages
  <2> QED BY Zenon, <1>0, <2>1, Shrink
<1>a. UNCHANGED pipeVars => PipeInv'
  BY Zenon, <1>0
<1>1. CASE Inject \/ PollEmpty \/ TakeBatch \/ WgAdd \/ EndScheduling
  <2>1. UNCHANGED pipeVars
    BY Zenon, <1>1 DEF Inject, PollEmpty, TakeBatch, WgAdd, EndScheduling,
                allocVars, gatherVars, joinVars, followerVars, netVars
  <2> QED BY Zenon, <1>a, <2>1
<1>2. ASSUME NEW x, RouteTx(x) \/ AllocateRecord(x) \/ Restart(x)
      PROVE PipeInv'
  <2>1. UNCHANGED pipeVars
    BY Zenon, <1>2 DEF RouteTx, AllocateRecord, Restart, schedVars,
                allocVars, gatherVars, joinVars, followerVars, netVars
  <2> QED BY Zenon, <1>a, <2>1
<1>3. CASE GenerateNothing \/ GenerateBlock \/ AddBlock \/ JoinRead
  <2>1. UNCHANGED pipeVars
    BY Zenon, <1>3 DEF GenerateNothing, GenerateBlock, AddBlock, JoinRead,
                schedVars, allocVars, gatherVars, joinVars, followerVars, netVars
  <2> QED BY Zenon, <1>a, <2>1
<1> USE DEF schedVars, allocVars, gatherVars, joinVars, followerVars, netVars
<1>4. CASE StartEpoch
  <2>1. Busy = {}
    BY <1>4 DEF StartEpoch, TokenInv, Token, SingleToken, TypeOK, SchedType,
                BlockType
  <2>2. \A k \in 1 .. 6 : Stage'[k] = {}
    BY Zenon, <1>4, <2>1, Stages DEF StartEpoch, Busy, InFlight
  <2>3. FollowerNum = N => Range(FollowerIDs) \subseteq ReadyMap
    BY ParamsAssumption DEF JoinInv, FirstTable, Range, ReadyMap
  <2>4. /\ EpochId' = EpochId + 1 /\ EpochId \in Nat
        /\ toLaunch' = Range(FollowerIDs)
        /\ UNCHANGED <<GatherMap, FollowerNum>>
    BY Zenon, <1>4 DEF StartEpoch, TypeOK, SchedType
  <2>5. \A q \in GatherMap : q[1] \in Nat /\ q[1] <= EpochId /\ q[2] \in ReadyMap
    BY Zenon DEF TypeOK, GatherType, PipeInv, Table
  <2>6. OneEach' /\ OfEpoch' BY Zenon, <2>2 DEF OneEach, OfEpoch
  <2>7. AtReady' BY <2>2, <2>3, <2>4, Stages DEF AtReady
  <2>8. Table' BY <2>4, <2>5 DEF Table
  <2> QED BY Zenon, <2>6, <2>7, <2>8 DEF PipeInv
<1>5. ASSUME NEW f \in toLaunch, Launch(f) PROVE PipeInv'
  <2> DEFINE y == [epoch |-> EpochId, fid |-> f, txs |-> allocMap[f]]
  <2>1. /\ starting' = starting \cup {y} /\ toLaunch' = toLaunch \ {f}
        /\ UNCHANGED <<allocMsgs, working, replyMsgs, gathering, gathered,
                       EpochId, GatherMap, FollowerNum>>
    BY Zenon, <1>5 DEF Launch
  <2>2. y.fid = f /\ y.epoch = EpochId BY Zenon
  <2> HIDE DEF y
  <2>3. ASSUME NEW k \in 1 .. 6, NEW z \in Stage'[k]
        PROVE  z \in Stage[k] \/ (k = 1 /\ z = y)
    <3>1. CASE k = 1 BY Zenon, <2>1, <3>1, Stages
    <3>2. CASE k > 1
      <4>1. Stage'[k] = Stage[k] BY Zenon, <2>1, <3>2, Stages
      <4> QED BY Zenon, <4>1
    <3> QED BY <3>1, <3>2
  <2>4. \A k \in 1 .. 6 : \A z \in Stage[k] : z.fid # f
    BY Zenon DEF PipeInv, OfEpoch
  <2>5. OfEpoch'
    <3>1. ASSUME NEW k \in 1 .. 6, NEW z \in Stage'[k]
          PROVE  /\ z.epoch = EpochId /\ z.fid \notin toLaunch'
                 /\ <<EpochId, z.fid>> \notin GatherMap
      <4>1. CASE z \in Stage[k] BY Zenon, <2>1, <4>1 DEF PipeInv, OfEpoch
      <4>2. CASE z = y BY Zenon, <2>1, <2>2, <4>2 DEF PipeInv, Table
      <4> QED BY Zenon, <2>3, <4>1, <4>2
    <3> QED BY Zenon, <2>1, <3>1 DEF OfEpoch
  <2>6. OneEach'
    <3>1. ASSUME NEW k \in 1 .. 6, NEW l \in 1 .. 6, NEW u \in Stage'[k],
                 NEW v \in Stage'[l], u.fid = v.fid
          PROVE  k = l /\ u = v
      <4>1. CASE u \in Stage[k] /\ v \in Stage[l]
        BY Zenon, <3>1, <4>1 DEF PipeInv, OneEach
      <4>2. CASE ~(u \in Stage[k] /\ v \in Stage[l])
        BY Zenon, <2>2, <2>3, <2>4, <3>1, <4>2
      <4> QED BY Zenon, <4>1, <4>2
    <3> QED BY Zenon, <3>1 DEF OneEach
  <2>7. AtReady'
    <3>1. \A k \in 2 .. 6 : \A z \in Stage'[k] : z \in Stage[k] BY <2>3
    <3> QED BY Zenon, <2>1, <2>2, <3>1 DEF PipeInv, AtReady
  <2>8. Table' BY Zenon, <2>1 DEF PipeInv, Table
  <2> QED BY Zenon, <2>5, <2>6, <2>7, <2>8 DEF PipeInv
<1>6. ASSUME NEW a \in starting, AllocateNotReady(a) PROVE PipeInv'
  BY Zenon, <1>0, <1>6 DEF AllocateNotReady
<1>7. ASSUME NEW a \in starting, AllocateSend(a) PROVE PipeInv'
  <2>1. /\ starting' = starting \ {a} /\ allocMsgs' = allocMsgs \cup {a}
        /\ a.fid \in ReadyMap
        /\ UNCHANGED <<working, replyMsgs, gathering, gathered, epochVars>>
    BY Zenon, <1>7 DEF AllocateSend
  <2>2. a \in Stage[1] BY Zenon, Stages
  <2> QED BY <2>1, <2>2, Move
<1>8. ASSUME NEW m \in allocMsgs, StartBatch(m) PROVE PipeInv'
  <2> DEFINE y == [epoch |-> m.epoch, fid |-> m.fid, todo |-> m.txs,
                  hashes |-> <<>>, commits |-> Committable(m)]
  <2>1. allocMsgs' = allocMsgs \ {m} /\ working' = working \cup {y}
    BY Zenon, <1>8 DEF StartBatch
  <2>2. UNCHANGED <<starting, replyMsgs, gathering, gathered, epochVars>>
    BY Zenon, <1>8 DEF StartBatch
  <2>3. y.fid = m.fid /\ y.epoch = m.epoch BY Zenon
  <2> HIDE DEF y
  <2>4. m \in Stage[2] BY Zenon, Stages
  <2>5. m.fid \in ReadyMap BY <2>4 DEF PipeInv, AtReady
  <2> QED BY SMTT(60), <2>1, <2>2, <2>3, <2>4, <2>5, Move
<1>9. ASSUME NEW w \in working, ExecuteTx(w) PROVE PipeInv'
  <2> DEFINE t == Head(w.todo)
             hs == Returned(w.hashes, t, Rejects(trie[w.fid], w.fid, t))
             y == [w EXCEPT !.todo = Tail(w.todo), !.hashes = hs,
                            !.commits = w.commits \/ trie' # trie]
  <2>1. working' = (working \ {w}) \cup {y}
    BY Zenon, <1>9 DEF ExecuteTx
  <2>2. UNCHANGED <<starting, allocMsgs, replyMsgs, gathering, gathered, epochVars>>
    BY Zenon, <1>9 DEF ExecuteTx
  <2>3. y.fid = w.fid /\ y.epoch = w.epoch BY Zenon DEF TypeOK, FollowerType, Batch
  <2> HIDE DEF y
  <2>4. w \in Stage[3] BY Zenon, Stages
  <2>5. w.fid \in ReadyMap BY <2>4 DEF PipeInv, AtReady
  <2> QED BY SMTT(60), <2>1, <2>2, <2>3, <2>4, <2>5, Move
<1>10. ASSUME NEW w \in working, Reply(w) PROVE PipeInv'
  <2> DEFINE y == [epoch |-> w.epoch, fid |-> w.fid, hashes |-> w.hashes]
  <2>1. working' = working \ {w} /\ replyMsgs' = replyMsgs \cup {y}
    BY Zenon, <1>10 DEF Reply
  <2>2. UNCHANGED <<starting, allocMsgs, gathering, gathered, epochVars>>
    BY Zenon, <1>10 DEF Reply
  <2>3. y.fid = w.fid /\ y.epoch = w.epoch BY Zenon
  <2> HIDE DEF y
  <2>4. w \in Stage[3] BY Zenon, Stages
  <2>5. w.fid \in ReadyMap BY <2>4 DEF PipeInv, AtReady
  <2> QED BY SMTT(60), <2>1, <2>2, <2>3, <2>4, <2>5, Move
<1>11. ASSUME NEW m \in replyMsgs, GatherBegin(m) PROVE PipeInv'
  <2> DEFINE y == [epoch |-> m.epoch, fid |-> m.fid, todo |-> m.hashes,
                  hashes |-> m.hashes]
  <2>1. replyMsgs' = replyMsgs \ {m} /\ gathering' = {y}
    BY Zenon, <1>11 DEF GatherBegin
  <2>2. UNCHANGED <<starting, allocMsgs, working, gathered, epochVars>>
    BY Zenon, <1>11 DEF GatherBegin
  <2>3. y.fid = m.fid /\ y.epoch = m.epoch BY Zenon
  <2> HIDE DEF y
  <2>4. m \in Stage[4] BY Zenon, Stages
  <2>5. m.fid \in ReadyMap BY <2>4 DEF PipeInv, AtReady
  <2> QED BY SMTT(60), <2>1, <2>2, <2>3, <2>4, <2>5, Move
<1>12. ASSUME NEW g \in gathering, GatherOne(g) PROVE PipeInv'
  <2> DEFINE y == [g EXCEPT !.todo = Tail(g.todo)]
  <2>1. gathering' = {y}
    BY Zenon, <1>12 DEF GatherOne
  <2>2. UNCHANGED <<starting, allocMsgs, working, replyMsgs, gathered, epochVars>>
    BY Zenon, <1>12 DEF GatherOne
  <2>3. y.fid = g.fid /\ y.epoch = g.epoch BY Zenon DEF TypeOK, GatherType, Job
  <2> HIDE DEF y
  <2>4. g \in Stage[5] BY Zenon, Stages
  <2>5. g.fid \in ReadyMap BY SMTT(30), <2>4 DEF PipeInv, AtReady
  <2> QED BY SMTT(60), <2>1, <2>2, <2>3, <2>4, <2>5, Move
<1>13. ASSUME NEW g \in gathering, GatherEnd(g) PROVE PipeInv'
  <2> DEFINE y == [epoch |-> g.epoch, fid |-> g.fid, hashes |-> g.hashes]
  <2>1. gathering' = {} /\ gathered' = gathered \cup {y}
    BY Zenon, <1>13 DEF GatherEnd
  <2>2. UNCHANGED <<starting, allocMsgs, working, replyMsgs, epochVars>>
    BY Zenon, <1>13 DEF GatherEnd
  <2>3. y.fid = g.fid /\ y.epoch = g.epoch BY Zenon
  <2> HIDE DEF y
  <2>4. g \in Stage[5] BY Zenon, Stages
  <2>5. g.fid \in ReadyMap BY <2>4 DEF PipeInv, AtReady
  <2> QED BY SMTT(60), <2>1, <2>2, <2>3, <2>4, <2>5, Move
<1>14. ASSUME NEW g \in gathered, Register(g) PROVE PipeInv'
  <2>1. /\ gathered' = gathered \ {g}
        /\ GatherMap' = GatherMap \cup {<<g.epoch, g.fid>>}
        /\ UNCHANGED <<starting, allocMsgs, working, replyMsgs, gathering,
                       EpochId, toLaunch, FollowerNum>>
    BY Zenon, <1>14 DEF Register
  <2>2. g \in Stage[6] BY Zenon, Stages
  <2>3. g.fid \in ReadyMap BY <2>2 DEF PipeInv, AtReady
  <2>4. g.epoch = EpochId /\ g.fid \notin toLaunch
    <3>1. \A k \in 1 .. 6 : \A z \in Stage[k] :
             z.epoch = EpochId /\ z.fid \notin toLaunch
      BY Zenon DEF PipeInv, OfEpoch
    <3> QED BY <2>2, <3>1
  <2>5. ASSUME NEW k \in 1 .. 6, NEW z \in Stage'[k]
        PROVE  z \in Stage[k] /\ z.fid # g.fid
    <3>1. CASE k = 6 BY SMTT(30), <2>1, <2>2, <3>1, Stages DEF PipeInv, OneEach
    <3>2. CASE k < 6
      <4>1. Stage'[k] = Stage[k] BY <2>1, <3>2, Stages
      <4> QED BY SMTT(30), <2>2, <3>2, <4>1 DEF PipeInv, OneEach
    <3> QED BY SMTT(30), <3>1, <3>2
  <2>6. \A f : f # g.fid /\ <<EpochId, f>> \notin GatherMap
                 => <<EpochId, f>> \notin GatherMap'
    BY Zenon, <2>1, <2>4
  <2>7. OneEach' BY <2>5 DEF PipeInv, OneEach
  <2>8. OfEpoch'
    <3>1. ASSUME NEW k \in 1 .. 6, NEW z \in Stage'[k]
          PROVE  /\ z.epoch = EpochId /\ z.fid \notin toLaunch
                 /\ <<EpochId, z.fid>> \notin GatherMap'
      <4>1. z \in Stage[k] /\ z.fid # g.fid BY Zenon, <2>5
      <4> QED BY Zenon, <2>6, <4>1 DEF PipeInv, OfEpoch
    <3> QED BY Zenon, <2>1, <3>1 DEF OfEpoch
  <2>9. AtReady'
    <3>1. \A k \in 2 .. 6 : \A z \in Stage'[k] : z \in Stage[k] BY <2>5
    <3> QED BY Zenon, <2>1, <3>1 DEF PipeInv, AtReady
  <2>10. Table'
    <3>1. \A f \in toLaunch' : <<EpochId', f>> \notin GatherMap'
      BY Zenon, <2>1, <2>4, <2>6 DEF PipeInv, Table
    <3>2. EpochId <= EpochId BY DEF TypeOK, SchedType
    <3>3. \A p \in GatherMap' : p[1] <= EpochId' /\ p[2] \in ReadyMap
      BY <2>1, <2>3, <2>4, <3>2 DEF PipeInv, Table
    <3> QED BY <3>1, <3>3 DEF Table
  <2> QED BY Zenon, <2>7, <2>8, <2>9, <2>10 DEF PipeInv
<1>15. ASSUME NEW j \in joining, JoinLoad(j) \/ JoinCount(j) \/ JoinList(j)
       PROVE  PipeInv'
  <2>1. FollowerNum' = N => FollowerNum = N
    <3>1. j.num \in Nat /\ N \in Nat /\ (j.pc = "count" => j.num >= N)
      BY Zenon, ParamsAssumption DEF TypeOK, JoinType, Joiner, JoinInv, Counts
    <3> QED BY <1>15, <3>1 DEF JoinLoad, JoinCount, JoinList
  <2>2. UNCHANGED <<starting, allocMsgs, working, replyMsgs, gathering,
                    gathered, EpochId, toLaunch, GatherMap>>
    BY Zenon, <1>15 DEF JoinLoad, JoinCount, JoinList
  <2>3. \A k \in 1 .. 6 : Stage'[k] \subseteq Stage[k] BY Zenon, <2>2, Stages
  <2> QED BY Zenon, <2>1, <2>2, <2>3, Shrink
<1>16. ASSUME NEW m \in allocMsgs \cup replyMsgs, Lose(m) PROVE PipeInv'
  BY Zenon, <1>0, <1>16 DEF Lose
<1>17. ASSUME NEW x, Crash(x) \/ CommitPanic(x) PROVE PipeInv'
  <2>1. /\ allocMsgs' \subseteq allocMsgs /\ working' \subseteq working
        /\ UNCHANGED <<starting, replyMsgs, gathering, gathered, epochVars>>
    BY Zenon, <1>17 DEF Crash, CommitPanic
  <2> QED BY Zenon, <1>0, <2>1
<1>18. ASSUME NEW m \in allocMsgs, DropAtDown(m) PROVE PipeInv'
  BY Zenon, <1>0, <1>18 DEF DropAtDown
<1> QED
  BY Zenon, <1>1, <1>2, <1>3, <1>4, <1>5, <1>6, <1>7, <1>8, <1>9, <1>10, <1>11,
     <1>12, <1>13, <1>14, <1>15, <1>16, <1>17, <1>18
  DEF Next, Schedule, Allocate, Follow, Gather, Generate, Join, Enlist, Fail

\* The WaitGroup counts the goroutines started, less the one not added yet.
LEMMA WgStep == ASSUME TypeOK, PipeInv, WgInv, Next PROVE WgInv'
<1> DEFINE wgVars == <<starting, sent, wg, panicked, main, toLaunch>>
<1>0. UNCHANGED wgVars => WgInv'
  BY DEF WgInv, WgItems, WgCount, WgPlace, Due
<1> HIDE DEF wgVars
<1>a. /\ wg \in Nat /\ Cardinality(starting) \in Nat /\ Cardinality(sent) \in Nat
      /\ main \in {"select", "route", "launch", "add", "closed"}
  <2>1. IsFiniteSet(starting) /\ IsFiniteSet(sent) BY Zenon DEF WgInv, WgItems
  <2>2. AllocType /\ SchedType BY Zenon DEF TypeOK
  <2>3. Cardinality(starting) \in Nat /\ Cardinality(sent) \in Nat
    BY Zenon, <2>1, FS_CardinalityType
  <2> QED BY Zenon, <2>2, <2>3 DEF AllocType, SchedType
<1>b. WgItems /\ WgCount /\ WgPlace BY Zenon DEF WgInv
<1>1. CASE Inject
  <2>1. UNCHANGED wgVars BY <1>1 DEF Inject, wgVars, allocVars
  <2> QED BY Zenon, <1>0, <2>1
<1>2. ASSUME NEW x, \/ RouteTx(x) \/ StartBatch(x) \/ ExecuteTx(x) \/ Reply(x)
                    \/ GatherBegin(x) \/ GatherOne(x) \/ GatherEnd(x)
                    \/ Register(x)
      PROVE WgInv'
  <2>1. UNCHANGED wgVars
    BY Zenon, <1>2 DEF wgVars, RouteTx, StartBatch, ExecuteTx, Reply, GatherBegin,
                GatherOne, GatherEnd, Register, schedVars, allocVars
  <2> QED BY Zenon, <1>0, <2>1
<1>3. ASSUME NEW x, \/ JoinLoad(x) \/ JoinCount(x) \/ JoinList(x)
                    \/ Lose(x) \/ Crash(x) \/ CommitPanic(x) \/ DropAtDown(x)
                    \/ Restart(x)
      PROVE WgInv'
  <2>1. UNCHANGED wgVars
    BY Zenon, <1>3 DEF wgVars, JoinLoad, JoinCount, JoinList, Lose, Crash, CommitPanic,
         DropAtDown, Restart,
                schedVars, allocVars
  <2> QED BY Zenon, <1>0, <2>1
<1>4. CASE GenerateNothing \/ GenerateBlock \/ AddBlock \/ JoinRead
  <2>1. UNCHANGED wgVars
    BY Zenon, <1>4 DEF wgVars, GenerateNothing, GenerateBlock, AddBlock, JoinRead,
                schedVars, allocVars
  <2> QED BY Zenon, <1>0, <2>1
<1>5. CASE PollEmpty \/ TakeBatch
  <2>1. /\ main = "select" /\ main' \in {"select", "route", "closed"}
        /\ UNCHANGED <<starting, sent, wg, panicked, toLaunch>>
    BY Zenon, <1>5 DEF PollEmpty, TakeBatch, allocVars
  <2> QED BY Zenon, <1>b, <2>1 DEF WgInv, WgItems, WgCount, WgPlace, Due
<1>6. CASE StartEpoch
  <2>1. /\ main = "route" /\ main' = "launch" /\ ~panicked
        /\ UNCHANGED <<starting, sent, wg, panicked>>
    BY Zenon, <1>6 DEF StartEpoch, allocVars
  <2>2. starting = {} /\ sent = {} BY Zenon, <1>b, <2>1 DEF WgPlace
  <2> QED BY Zenon, <1>b, <2>1, <2>2 DEF WgInv, WgItems, WgCount, WgPlace, Due
<1>7. CASE WgAdd
  <2>1. /\ main = "add" /\ main' = "launch" /\ ~panicked /\ wg' = wg + 1
        /\ UNCHANGED <<starting, sent, panicked, toLaunch>>
    BY Zenon, <1>7 DEF WgAdd
  <2>2. WgCount' BY <1>a, <1>b, <2>1 DEF WgCount, Due
  <2> QED BY Zenon, <1>b, <2>1, <2>2 DEF WgInv, WgItems, WgPlace
<1>8. CASE EndScheduling
  <2>1. /\ main = "launch" /\ main' = "select" /\ ~panicked /\ wg = 0
        /\ UNCHANGED <<starting, sent, wg, panicked, toLaunch>>
    BY Zenon, <1>8 DEF EndScheduling, allocVars
  <2>2. Cardinality(starting) = 0 /\ Cardinality(sent) = 0
    BY <1>a, <1>b, <2>1 DEF WgCount, Due
  <2>3. starting = {} /\ sent = {} BY Zenon, <1>b, <2>2, FS_EmptySet DEF WgItems
  <2>4. WgCount' BY Zenon, <1>b, <2>1 DEF WgCount, Due
  <2> QED BY Zenon, <1>b, <2>1, <2>3, <2>4 DEF WgInv, WgItems, WgPlace
<1>9. ASSUME NEW f \in toLaunch, Launch(f) PROVE WgInv'
  <2> DEFINE y == [epoch |-> EpochId, fid |-> f, txs |-> allocMap[f]]
  <2>1. /\ main = "launch" /\ main' = "add" /\ ~panicked
        /\ starting' = starting \cup {y} /\ toLaunch' = toLaunch \ {f}
        /\ UNCHANGED <<wg, panicked, sent>>
    BY Zenon, <1>9 DEF Launch
  <2>2. y.fid = f BY Zenon
  <2> HIDE DEF y
  <2>3. \A a \in sent \cup starting : a.fid # f
    <3>1. \A a \in starting : a.fid # f BY Zenon, BusyNow DEF Busy, PipeInv
    <3>2. \A a \in sent : a.fid # f BY Zenon, <1>b DEF WgItems
    <3> QED BY Zenon, <3>1, <3>2
  <2>4. IsFiniteSet(starting') /\ Cardinality(starting') = Cardinality(starting) + 1
    BY Zenon, <1>b, <2>1, <2>2, <2>3, FS_AddElement DEF WgItems
  <2>5. \A s \in sent' : s.fid \notin toLaunch' /\ s \notin starting'
    BY ZenonT(30), <1>b, <2>1, <2>2, <2>3 DEF WgItems
  <2>6. \A s, a \in sent' \cup starting' : s.fid = a.fid => s = a
    BY <1>b, <2>1, <2>2, <2>3 DEF WgItems
  <2>7. WgItems' BY Zenon, <1>b, <2>1, <2>4, <2>5, <2>6 DEF WgItems
  <2>8. WgCount' BY <1>a, <1>b, <2>1, <2>4 DEF WgCount, Due
  <2> QED BY Zenon, <2>1, <2>7, <2>8 DEF WgInv, WgPlace
<1>10. ASSUME NEW a \in starting, AllocateSend(a) PROVE WgInv'
  <2>1. /\ ~panicked /\ starting' = starting \ {a} /\ sent' = sent \cup {a}
        /\ UNCHANGED <<wg, panicked, main, toLaunch>>
    BY Zenon, <1>10 DEF AllocateSend, schedVars
  <2>2. a \notin sent /\ a.fid \notin toLaunch
    <3>1. a.fid \notin toLaunch BY Zenon, BusyNow DEF Busy, PipeInv
    <3> QED BY Zenon, <1>b, <3>1 DEF WgItems
  <2>3. IsFiniteSet(starting') /\ Cardinality(starting') = Cardinality(starting) - 1
    BY Zenon, <1>b, <2>1, FS_RemoveElement DEF WgItems
  <2>4. IsFiniteSet(sent') /\ Cardinality(sent') = Cardinality(sent) + 1
    BY Zenon, <1>b, <2>1, <2>2, FS_AddElement DEF WgItems
  <2>5. \A s, b \in sent' \cup starting' : s.fid = b.fid => s = b
    BY <1>b, <2>1 DEF WgItems
  <2>6. \A s \in sent' : s.fid \notin toLaunch' /\ s \notin starting'
    BY Zenon, <1>b, <2>1, <2>2 DEF WgItems
  <2>7. WgItems' BY Zenon, <2>3, <2>4, <2>5, <2>6 DEF WgItems
  <2>8. main' \notin {"select", "route", "closed"} BY Zenon, <1>b, <2>1 DEF WgPlace
  <2>9. wg + Due = Cardinality(starting) + Cardinality(sent)
    BY Zenon, <1>b, <2>1 DEF WgCount
  <2>10. Due' = Due /\ wg' = wg BY Zenon, <2>1 DEF Due
  <2>11. WgCount' BY <1>a, <2>3, <2>4, <2>9, <2>10 DEF WgCount
  <2> QED BY Zenon, <2>1, <2>7, <2>8, <2>11 DEF WgInv, WgPlace
<1>11. ASSUME NEW S, NEW a \in S, ~panicked, WgDone,
              UNCHANGED <<main, toLaunch>>,
              \/ S = starting /\ starting' = starting \ {a} /\ sent' = sent
              \/ S = sent /\ sent' = sent \ {a} /\ starting' = starting
       PROVE WgInv'
  <2>1. /\ IsFiniteSet(starting') /\ IsFiniteSet(sent')
        /\ Cardinality(starting') + Cardinality(sent')
             = Cardinality(starting) + Cardinality(sent) - 1
    <3>0. IsFiniteSet(starting) /\ IsFiniteSet(sent) BY Zenon, <1>b DEF WgItems
    <3>1. CASE S = starting /\ starting' = starting \ {a} /\ sent' = sent
      <4>1. /\ IsFiniteSet(starting')
            /\ Cardinality(starting') = Cardinality(starting) - 1
        BY Zenon, <3>0, <3>1, FS_RemoveElement
      <4> QED BY <1>a, <3>0, <3>1, <4>1
    <3>2. CASE S = sent /\ sent' = sent \ {a} /\ starting' = starting
      <4>1. /\ IsFiniteSet(sent') /\ Cardinality(sent') = Cardinality(sent) - 1
        BY Zenon, <3>0, <3>2, FS_RemoveElement
      <4> QED BY Zenon, <1>a, <3>0, <3>2, <4>1
    <3> QED BY Zenon, <1>11, <3>1, <3>2
  <2>2. starting' \subseteq starting /\ sent' \subseteq sent BY Zenon, <1>11
  <2>3. WgItems' BY Zenon, <1>11, <1>b, <2>1, <2>2 DEF WgItems
  <2>4. main' \notin {"select", "route", "closed"} BY Zenon, <1>11, <1>b DEF WgPlace
  <2>5. /\ Cardinality(starting') \in Nat /\ Cardinality(sent') \in Nat
        /\ wg + Due = Cardinality(starting) + Cardinality(sent)
    BY Zenon, <1>11, <1>b, <2>1, FS_CardinalityType DEF WgCount
  <2>6. Due' = Due /\ Due \in {0, 1} /\ (Due = 1 => main = "add")
    BY <1>11 DEF Due
  <2>7. CASE wg > 0
    <3>1. wg' = wg - 1 /\ panicked' = panicked BY Zenon, <1>11, <2>7 DEF WgDone
    <3>2. WgCount' BY <1>a, <2>1, <2>5, <2>6, <3>1 DEF WgCount
    <3> QED BY Zenon, <1>11, <2>3, <2>4, <3>1, <3>2 DEF WgInv, WgPlace
  <2>8. CASE ~(wg > 0)
    <3>1. wg' = 0 /\ wg = 0 /\ panicked' BY <1>a, <1>11, <2>8 DEF WgDone
    <3>2. Due = 1 BY <1>a, <2>1, <2>5, <2>6, <3>1
    <3>3. main' = "add" BY Zenon, <1>11, <2>6, <3>2
    <3> QED BY Zenon, <2>3, <2>4, <3>1, <3>3 DEF WgInv, WgCount, WgPlace
  <2> QED BY Zenon, <2>7, <2>8
<1>12. ASSUME NEW a \in starting, AllocateNotReady(a) PROVE WgInv'
  BY Zenon, <1>11, <1>12 DEF AllocateNotReady, schedVars
<1>13. ASSUME NEW a \in sent, AllocateRecord(a) PROVE WgInv'
  BY Zenon, <1>11, <1>13 DEF AllocateRecord, schedVars
<1> QED
  BY <1>1, <1>2, <1>3, <1>4, <1>5, <1>6, <1>7, <1>8, <1>9, <1>10, <1>12, <1>13
  DEF Next, Schedule, Allocate, Follow, Gather, Generate, Join, Enlist,
       Fail
=============================================================================

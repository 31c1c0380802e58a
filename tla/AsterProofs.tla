---------------------------- MODULE AsterProofs -----------------------------
(***************************************************************************)
(* Theorems about Aster for every number of followers, of joiners and of   *)
(* faults, every data set and every batch size.                            *)
(***************************************************************************)
EXTENDS AsterInvariant

\* One-line abbreviations of Aster that every proof may expand.
USE DEF Listening, Signalled, Counted, closeProposerNode, Waited, EpochFull,
        LeftInPool, Accepts, SignalAfterBlock, NewNodeId

\* When the last reply of the epoch is registered nothing else is under way:
\* the replies counted are from ready followers, and there are N of those.
LEMMA LastReply ==
  ASSUME TypeOK, JoinInv, PipeInv, PipeInv',
         NEW g \in gathered, Register(g),
         Cardinality(Registered(GatherMap', g.epoch)) = FollowerNum
  PROVE  Busy' = {} /\ toLaunch' = {}
<1> DEFINE R == Registered(GatherMap', g.epoch)
<1>1. R \subseteq ReadyMap BY Zenon DEF PipeInv, Table, Registered
<1>2. IsFiniteSet(ReadyMap) /\ Cardinality(ReadyMap) = N
  BY ParamsAssumption, FS_Interval DEF ReadyMap
<1>3. N \in Nat /\ FollowerNum \in Nat /\ N <= FollowerNum
  BY Zenon, ParamsAssumption DEF TypeOK, JoinType, JoinInv, Counts
<1>4. Cardinality(R) <= N /\ (Cardinality(R) = N => R = ReadyMap)
  BY Zenon, <1>1, <1>2, FS_Subset
<1>5. FollowerNum = N /\ R = ReadyMap
  BY <1>3, <1>4
<1>6. g.epoch = EpochId' /\ FollowerNum' = N
  <2>1. g.epoch = EpochId BY Zenon, BusyNow DEF Busy, InFlight, PipeInv
  <2> QED BY Zenon, <1>5, <2>1 DEF Register, schedVars, joinVars
<1>7. \A f \in ReadyMap : <<EpochId', f>> \in GatherMap'
  BY Zenon, <1>5, <1>6 DEF Registered
<1>8. \A k \in 1 .. 6 : Stage'[k] = {}
  <2>1. \A k \in 1 .. 6 : \A z \in Stage'[k] : z.fid \notin ReadyMap
    BY Zenon, <1>7 DEF PipeInv, OfEpoch
  <2>2. \A k \in 2 .. 6 : \A z \in Stage'[k] : z.fid \in ReadyMap
    BY Zenon DEF PipeInv, AtReady
  <2>3. \A z \in Stage'[1] : z.fid \in ReadyMap
    BY Zenon, <1>6, Stages DEF PipeInv, AtReady
  <2> QED BY <2>1, <2>2, <2>3
<1>9. toLaunch' = {} BY Zenon, <1>6, <1>7 DEF PipeInv, AtReady, Table
<1> QED BY <1>8, <1>9, Stages DEF Busy, InFlight

\* There is never a second token, and no token during an epoch.
LEMMA TokenStep ==
  ASSUME TypeOK, JoinInv, PipeInv, PipeInv', TokenInv, Next PROVE TokenInv'
<1>a. /\ signals \in Nat /\ gens \in Nat /\ Len(building) \in Nat
      /\ main \in {"select", "route", "launch", "add", "closed"}
      /\ building \in Seq(Candidate)
  BY DEF TypeOK, SchedType, BlockType
<1>b. Token \in Nat BY <1>a DEF Token
<1> DEFINE holder == <<signals, gens, building>>
<1>0. ASSUME UNCHANGED holder, main' = main, toLaunch' \subseteq toLaunch,
             Busy' \subseteq Busy
      PROVE  TokenInv'
  BY Zenon, <1>0 DEF TokenInv, SingleToken, Token
<1>1. ASSUME UNCHANGED holder, main' = main, Token = 0 PROVE TokenInv'
  BY <1>1 DEF TokenInv, SingleToken, Token
<1>2. Busy # {} \/ toLaunch # {} => Token = 0
  BY <1>b DEF TokenInv
<1>3. CASE Inject
  BY Zenon, <1>0, <1>3 DEF Inject, Busy, InFlight, allocVars, gatherVars, blockVars,
         netVars, followerVars
<1>4. CASE PollEmpty
  <2>1. UNCHANGED <<Busy, toLaunch, gens, building>> /\ main = "select" /\ signals > 0
    BY Zenon, <1>4 DEF PollEmpty, Busy, InFlight, allocVars, gatherVars, blockVars,
           netVars, followerVars
  <2>2. \/ main' = "closed" /\ signals' = signals - 1
        \/ main' = main /\ signals' = signals
    BY Zenon, <1>4 DEF PollEmpty
  <2> QED BY <1>a, <2>1, <2>2 DEF TokenInv, SingleToken, Token
<1>5. CASE TakeBatch
  <2>1. UNCHANGED <<Busy, toLaunch, gens, building>> /\ main = "select"
        /\ signals > 0 /\ main' = "route" /\ signals' = signals - 1
    BY Zenon, <1>5 DEF TakeBatch, Busy, InFlight, allocVars, gatherVars, blockVars,
           netVars, followerVars
  <2> QED BY <1>a, <2>1 DEF TokenInv, SingleToken, Token
<1>6. CASE StartEpoch
  <2>1. main = "route" /\ main' = "launch" /\ UNCHANGED holder
    BY Zenon, <1>6 DEF StartEpoch, blockVars
  <2>2. Token' = 0 BY <1>a, <2>1 DEF TokenInv, SingleToken, Token
  <2> QED BY <2>1, <2>2 DEF TokenInv, SingleToken
<1>7. CASE WgAdd \/ EndScheduling
  <2>1. UNCHANGED <<Busy, toLaunch, holder>> /\ main \in {"add", "launch"}
        /\ main' \in {"launch", "select"}
    BY Zenon, <1>7 DEF WgAdd, EndScheduling, Busy, InFlight, allocVars, gatherVars,
           blockVars, netVars, followerVars
  <2> QED BY Zenon, <1>a, <2>1 DEF TokenInv, SingleToken, Token
<1>8. ASSUME NEW f \in toLaunch, Launch(f) PROVE TokenInv'
  <2>1. main = "launch" /\ main' = "add" /\ UNCHANGED holder
    BY Zenon, <1>8 DEF Launch, blockVars
  <2> QED BY Zenon, <1>2, <2>1 DEF TokenInv, SingleToken, Token
<1>9. ASSUME NEW x, \/ RouteTx(x) \/ AllocateRecord(x) \/ JoinLoad(x)
                    \/ JoinCount(x) \/ JoinList(x) \/ Restart(x)
      PROVE  TokenInv'
  <2>1. UNCHANGED <<holder, main, toLaunch, Busy>>
    BY Zenon, <1>9 DEF RouteTx, AllocateRecord, JoinLoad, JoinCount, JoinList,
         Restart, Busy, InFlight,
        schedVars, allocVars, gatherVars, blockVars, netVars, followerVars
  <2> QED BY Zenon, <1>0, <2>1
<1>10. CASE JoinRead
  BY Zenon, <1>0, <1>10 DEF JoinRead, Busy, InFlight, schedVars, allocVars,
                     gatherVars, blockVars, netVars, followerVars
<1>11. ASSUME NEW x, \/ x \in starting /\ (AllocateNotReady(x) \/ AllocateSend(x))
                     \/ x \in allocMsgs /\ StartBatch(x)
                     \/ x \in working /\ (ExecuteTx(x) \/ Reply(x))
                     \/ x \in replyMsgs /\ GatherBegin(x)
                     \/ x \in gathering /\ (GatherOne(x) \/ GatherEnd(x))
       PROVE  TokenInv'
  <2>1. Busy # {} BY Zenon, <1>11 DEF Busy, InFlight
  <2>2. UNCHANGED holder /\ main' = main
    BY Zenon, <1>11 DEF AllocateNotReady, AllocateSend, StartBatch, ExecuteTx, Reply,
         GatherBegin, GatherOne, GatherEnd, schedVars, blockVars
  <2> QED BY Zenon, <1>1, <1>2, <2>1, <2>2
<1>12. ASSUME NEW g \in gathered, Register(g) PROVE TokenInv'
  <2>1. Token = 0 BY Zenon, <1>2 DEF Busy, InFlight
  <2>2. UNCHANGED <<signals, main, building>> BY Zenon, <1>12 DEF Register, schedVars
  <2>3. CASE gens' = gens
    BY Zenon, <1>1, <2>1, <2>2, <2>3
  <2>4. CASE gens' # gens
    <3>1. /\ Cardinality(Registered(GatherMap', g.epoch)) = FollowerNum
          /\ gens' = gens + 1
      BY Zenon, <1>12, <2>4 DEF Register
    <3>2. Busy' = {} /\ toLaunch' = {} BY Zenon, <1>12, <3>1, LastReply
    <3> QED BY <1>a, <2>1, <2>2, <3>1, <3>2 DEF TokenInv, SingleToken, Token
  <2> QED BY Zenon, <2>3, <2>4
<1>13. CASE GenerateNothing
  <2>1. gens > 0 /\ building = <<>> /\ gens' = gens - 1
        /\ UNCHANGED <<Busy, toLaunch, signals, main, building>>
    BY Zenon, <1>13 DEF GenerateNothing, Busy, InFlight, schedVars, allocVars,
           gatherVars, netVars, followerVars
  <2> QED BY <1>a, <2>1 DEF TokenInv, SingleToken, Token
<1>14. CASE GenerateBlock
  <2>1. gens > 0 /\ Len(building') = 1
        /\ UNCHANGED <<Busy, toLaunch, signals, main, gens>>
    BY Zenon, <1>14 DEF GenerateBlock, Busy, InFlight, schedVars, allocVars,
           gatherVars, netVars, followerVars
  <2> QED BY <1>a, <2>1 DEF TokenInv, SingleToken, Token
<1>15. CASE AddBlock
  <2>1. building # <<>> /\ building' = <<>> /\ gens' = gens - 1
        /\ signals' = signals + 1 /\ UNCHANGED <<Busy, toLaunch, main>>
    BY Zenon, <1>15 DEF AddBlock, Busy, InFlight, schedVars, allocVars, gatherVars,
           netVars, followerVars
  <2>2. Len(building) > 0 BY Zenon, <1>a, <2>1, NonEmpty
  <2>3. Len(building') = 0 BY Zenon, <2>1
  <2> QED BY <1>a, <2>1, <2>2, <2>3 DEF TokenInv, SingleToken, Token
<1>16. ASSUME NEW x, Lose(x) \/ Crash(x) \/ CommitPanic(x) \/ DropAtDown(x)
       PROVE  TokenInv'
  <2>1. UNCHANGED <<holder, main, toLaunch>> /\ Busy' \subseteq Busy
    BY Zenon, <1>16 DEF Lose, Crash, CommitPanic, DropAtDown, Busy, InFlight, schedVars,
                 allocVars, gatherVars, blockVars, followerVars
  <2> QED BY Zenon, <1>0, <2>1
<1> QED
  BY Zenon, <1>3, <1>4, <1>5, <1>6, <1>7, <1>8, <1>9, <1>10, <1>11, <1>12, <1>13,
     <1>14, <1>15, <1>16
  DEF Next, Schedule, Allocate, Follow, Gather, Generate, Join, Enlist,
       Fail

\* ProcessedTxpool is empty from the moment a block is taken out of it until
\* the next epoch's replies.
LEMMA PoolStep == ASSUME TypeOK, TokenInv, PoolInv, Next PROVE PoolInv'
<1>a. /\ signals \in Nat /\ gens \in Nat
      /\ main \in {"select", "route", "launch", "add", "closed"}
  BY Zenon DEF TypeOK, SchedType, BlockType
<1>0. ASSUME UNCHANGED <<signals, building, main, ProcessedTxpool, stop>>
      PROVE  PoolInv'
  BY Zenon, <1>0 DEF PoolInv
<1>1. CASE Inject
  BY Zenon, <1>0, <1>1 DEF Inject, gatherVars, blockVars
<1>2. CASE PollEmpty \/ TakeBatch
  <2>1. /\ signals > 0 /\ main = "select"
        /\ UNCHANGED <<building, ProcessedTxpool>>
        /\ stop' = stop \/ main' = "closed"
    BY Zenon, <1>2 DEF PollEmpty, TakeBatch, gatherVars, blockVars
  <2> QED BY <2>1 DEF PoolInv
<1>3. CASE StartEpoch \/ WgAdd \/ EndScheduling
  <2>1. /\ main' \in {"launch", "select"} /\ main # "closed"
        /\ UNCHANGED <<signals, building, ProcessedTxpool, stop>>
    BY Zenon, <1>3 DEF StartEpoch, WgAdd, EndScheduling, gatherVars, blockVars
  <2> QED BY Zenon, <2>1 DEF PoolInv
<1>4. ASSUME NEW x, Launch(x) PROVE PoolInv'
  <2>1. /\ main = "launch" /\ main' = "add"
        /\ UNCHANGED <<signals, building, ProcessedTxpool, stop>>
    BY Zenon, <1>4 DEF Launch, gatherVars, blockVars
  <2> QED BY Zenon, <2>1 DEF PoolInv
<1>5. ASSUME NEW x, \/ RouteTx(x) \/ AllocateNotReady(x) \/ AllocateSend(x)
                    \/ AllocateRecord(x) \/ StartBatch(x) \/ ExecuteTx(x)
                    \/ Reply(x) \/ GatherBegin(x) \/ GatherEnd(x)
                    \/ Register(x)
      PROVE PoolInv'
  BY Zenon, <1>0, <1>5 DEF RouteTx, AllocateNotReady, AllocateSend, AllocateRecord,
       StartBatch, ExecuteTx, Reply, GatherBegin, GatherEnd, Register,
       schedVars, gatherVars, blockVars
<1>6. ASSUME NEW g \in gathering, GatherOne(g) PROVE PoolInv'
  <2>1. Token = 0
    BY <1>a DEF TokenInv, Busy, InFlight, Token
  <2>2. signals = 0 /\ gens = 0 /\ main \notin {"route", "closed"}
    BY <1>a, <2>1 DEF Token
  <2>3. building = <<>>
    BY <2>2, NonEmpty DEF TokenInv, SingleToken, TypeOK, BlockType
  <2>4. UNCHANGED <<signals, building, main, stop>>
    BY Zenon, <1>6 DEF GatherOne, schedVars, blockVars
  <2> QED BY <2>2, <2>3, <2>4 DEF PoolInv
<1>7. CASE GenerateNothing \/ JoinRead
  BY Zenon, <1>0, <1>7 DEF GenerateNothing, JoinRead, schedVars, gatherVars,
         blockVars
<1>8. CASE GenerateBlock
  <2>1. ProcessedTxpool' = <<>> /\ UNCHANGED <<main, stop>>
    BY Zenon, <1>8 DEF GenerateBlock, schedVars
  <2> QED BY Zenon, <2>1 DEF PoolInv
<1>9. CASE AddBlock
  <2>1. building # <<>> /\ UNCHANGED <<main, stop, ProcessedTxpool>>
    BY Zenon, <1>9 DEF AddBlock, gatherVars
  <2> QED BY Zenon, <2>1 DEF PoolInv
<1>10. ASSUME NEW x, \/ JoinLoad(x) \/ JoinCount(x) \/ JoinList(x)
                     \/ Lose(x) \/ Crash(x) \/ CommitPanic(x)
                     \/ DropAtDown(x) \/ Restart(x)
       PROVE PoolInv'
    BY Zenon, <1>0, <1>10 DEF JoinLoad, JoinCount, JoinList, Lose, Crash, CommitPanic,
         DropAtDown, Restart, schedVars,
       gatherVars, blockVars
<1> QED
  BY <1>1, <1>2, <1>3, <1>4, <1>5, <1>6, <1>7, <1>8, <1>9, <1>10
  DEF Next, Schedule, Allocate, Follow, Gather, Generate, Join, Enlist,
       Fail

\* A fresh proposer satisfies the invariant.
LEMMA InitIInv == Init => IInv
<1> SUFFICES ASSUME Init PROVE IInv
  BY Zenon
<1> USE DEF Init
<1>0. N \in Nat \ {0} /\ MaxJoin \in Nat /\ MaxFaults \in Nat
  BY Zenon, ParamsAssumption
<1>1. SchedType
  <2>1. NoBatches \in [Fid -> Seq(Tx)] BY DEF NoBatches
  <2>2. lens \in Seq(1 .. (N + MaxJoin)) OBVIOUS
  <2>3. TxList \in Seq(Tx) BY Zenon, DataAssumption
  <2>4. /\ txs = TxList /\ PendingTxpool = <<>> /\ signals = 1
        /\ poollencount = 0 /\ stop = FALSE /\ main = "select"
        /\ localTxpool = {} /\ allocMap = NoBatches /\ EpochId = 1
        /\ toLaunch = {}
    BY Zenon
  <2> HIDE DEF Init
  <2>5. txs \in Seq(Tx) /\ PendingTxpool \in Seq(Tx) BY <2>3, <2>4
  <2>6. stop \in BOOLEAN BY Zenon, <2>4
  <2>7. signals \in Nat /\ poollencount \in Nat /\ EpochId \in Nat BY Zenon, <2>4
  <2>8. main \in {"select", "route", "launch", "add", "closed"} BY Zenon, <2>4
  <2>9. localTxpool \subseteq Tx /\ toLaunch \subseteq Fid BY Zenon, <2>4
  <2> QED BY Zenon, <2>1, <2>2, <2>4, <2>5, <2>6, <2>7, <2>8, <2>9 DEF SchedType
<1>2. AllocType /\ GatherType /\ BlockType
  <2>1. AllocType BY Zenon DEF AllocType
  <2>2. GatherType BY DEF GatherType
  <2>3. BlockType BY DEF BlockType
  <2> QED BY Zenon, <2>1, <2>2, <2>3
<1>3. FollowerIDs \in Seq(Fid) /\ Len(FollowerIDs) = N
  BY <1>0 DEF Fid
<1>4. JoinType BY <1>0, <1>3 DEF JoinType
<1>5. FollowerType /\ NetType
  BY <1>0 DEF FollowerType, NetType
<1>6. JoinInv
  BY <1>0, <1>3, FS_EmptySet
  DEF JoinInv, Tags, Lists, Counts, FirstTable, Listed
<1>7. PipeInv
  <2>1. \A k \in 1 .. 6 : Stage[k] = {} BY Zenon, Stages
  <2>2. \A k \in 2 .. 6 : Stage[k] = {} BY <2>1
  <2>3. OneEach /\ OfEpoch BY Zenon, <2>1 DEF OneEach, OfEpoch
  <2>4. AtReady BY Zenon, <2>2 DEF AtReady
  <2>5. Table BY Zenon DEF Table
  <2> QED BY Zenon, <2>3, <2>4, <2>5 DEF PipeInv
<1>8. TokenInv BY DEF TokenInv, SingleToken, Token, Busy, InFlight
<1>9. WgInv BY Zenon, FS_EmptySet DEF WgInv, WgItems, WgCount, WgPlace, Due
<1>10. PoolInv BY Zenon DEF PoolInv
<1> QED BY Zenon, <1>1, <1>2, <1>4, <1>5, <1>6, <1>7, <1>8, <1>9, <1>10
        DEF IInv, TypeOK

\* Every step preserves the invariant.
LEMMA NextIInv == IInv /\ [Next]_vars => IInv'
<1> SUFFICES ASSUME IInv, [Next]_vars PROVE IInv'
  BY Zenon
<1>1. CASE Next
  <2>1. TypeOK' BY Zenon, <1>1, TypeStep DEF IInv
  <2>2. JoinInv' BY Zenon, <1>1, JoinStep DEF IInv
  <2>3. PipeInv' BY Zenon, <1>1, PipeStep DEF IInv
  <2>4. TokenInv' BY Zenon, <1>1, <2>3, TokenStep DEF IInv
  <2>5. WgInv' BY Zenon, <1>1, WgStep DEF IInv
  <2>6. PoolInv' BY Zenon, <1>1, PoolStep DEF IInv
  <2> QED BY Zenon, <2>1, <2>2, <2>3, <2>4, <2>5, <2>6 DEF IInv
<1>2. CASE UNCHANGED vars
  <2>0. UNCHANGED <<schedVars, allocVars, gatherVars, blockVars, joinVars,
                    followerVars, netVars>>
    BY Zenon, <1>2 DEF vars
  <2>1. TypeOK' BY Zenon, <2>0, Kept DEF IInv, TypeOK
  <2> USE <2>0 DEF schedVars, allocVars, gatherVars, blockVars, joinVars,
                   followerVars, netVars
  <2>2. JoinInv' BY Zenon DEF IInv, JoinInv, Tags, Lists, Counts, FirstTable, Listed
  <2>3. PipeInv'
    <3>1. Stage' = Stage BY Zenon DEF Stage
    <3> QED BY Zenon, <3>1, Shrink DEF IInv
  <2>4. TokenInv'
    BY Zenon DEF IInv, TokenInv, SingleToken, Token, Busy, InFlight
  <2>5. WgInv' BY Zenon DEF IInv, WgInv, WgItems, WgCount, WgPlace, Due
  <2>6. PoolInv' BY Zenon DEF IInv, PoolInv
  <2> QED BY Zenon, <2>1, <2>2, <2>3, <2>4, <2>5, <2>6 DEF IInv
<1> QED BY Zenon, <1>1, <1>2

\* The invariant holds in every state of the proposer and its followers.
THEOREM Inductive == Spec => []IInv
BY InitIInv, NextIInv, PTL DEF Spec

\* Type correctness, for every instance.
THEOREM TypeCorrect == Spec => []TypeOK
BY Inductive, PTL DEF IInv

\* GatherTxs and blockGenerate share ProcessedTxpool but no lock; they never
\* overlap, however many followers there are and whatever is lost.
THEOREM NoPoolRace == Spec => []GatherExcludesGenerate
<1>1. IInv => GatherExcludesGenerate
  BY DEF IInv, TokenInv, Token, GatherExcludesGenerate, Busy, InFlight,
         TypeOK, SchedType, BlockType
<1> QED BY <1>1, Inductive, PTL

\* Two epochs never run at once and the signal channel never has two senders.
THEOREM OneToken == Spec => []SingleToken
BY Inductive, PTL DEF IInv, TokenInv

\* An epoch starts only after everything of the previous one has arrived.
THEOREM Barrier == Spec => []EpochBarrier
<1>1. IInv => EpochBarrier
  <2> SUFFICES ASSUME IInv PROVE EpochBarrier
    BY Zenon
  <2>1. Token > 0 => Busy = {} /\ toLaunch = {} BY Zenon DEF IInv, TokenInv
  <2>2. \A x \in Busy : x.epoch = EpochId
    BY Zenon, BusyNow DEF IInv, PipeInv
  <2>3. \A x, y \in Busy : x.fid = y.fid => x = y
    BY InStage DEF IInv, PipeInv, OneEach
  <2> QED BY Zenon, <2>1, <2>2, <2>3 DEF EpochBarrier
<1> QED BY <1>1, Inductive, PTL

\* wg.Wait never returns early, and the counter can go below zero only
\* between a go statement and the Add that follows it.
THEOREM WaitGroup == Spec => []WaitGroupSound
<1>1. IInv => WaitGroupSound
  <2> SUFFICES ASSUME IInv PROVE WaitGroupSound
    BY Zenon
  <2>1. ASSUME ~panicked, main \in {"select", "route", "closed"}
        PROVE  wg = 0 /\ starting = {} /\ sent = {}
    <3>1. starting = {} /\ sent = {} BY Zenon, <2>1 DEF IInv, WgInv, WgPlace
    <3>2. wg + (IF main = "add" THEN 1 ELSE 0) = 0
      BY <2>1, <3>1, FS_EmptySet
      DEF IInv, WgInv, WgCount, Due
    <3> QED BY <2>1, <3>1, <3>2 DEF IInv, TypeOK, AllocType
  <2>2. WgPlace BY Zenon DEF IInv, WgInv
  <2> QED BY Zenon, <2>1, <2>2 DEF WgPlace, WaitGroupSound
<1> QED BY <1>1, Inductive, PTL

\* closeProposerNode runs only when no reply is under way and everything
\* gathered is on the chain.
THEOREM StopsClean == Spec => []CleanStop
<1>1. IInv => CleanStop
  <2> SUFFICES ASSUME IInv, stop
    PROVE Busy = {} /\ gens = 0 /\ ProcessedTxpool = <<>>
    BY Zenon DEF CleanStop
  <2>1. main = "closed" /\ ProcessedTxpool = <<>> BY Zenon DEF IInv, PoolInv
  <2>2. signals \in Nat /\ gens \in Nat
    BY Zenon DEF IInv, TypeOK, SchedType, BlockType
  <2> QED BY <2>1, <2>2 DEF IInv, TokenInv, SingleToken, Token
<1> QED BY <1>1, Inductive, PTL

-----------------------------------------------------------------------------
(* Executed before it is packed.                                           *)

Did(f, s) == f \in ReadyMap /\ \A t \in Range(s) : <<t, f>> \in executed

ExecInv ==
    /\ \A w \in working : Did(w.fid, w.hashes)
    /\ \A m \in replyMsgs : Did(m.fid, m.hashes)
    /\ \A g \in gathering : Did(g.fid, g.todo) /\ Did(g.fid, g.hashes)
    /\ PackedWasExecuted

-----------------------------------------------------------------------------
(* Waiting, then under way, then on the chain.                             *)

Waiting(t) == t \in Range(txs) \/ t \in Range(PendingTxpool)
\* With the proposer: allocMap is that of the epoch from the routing to the last Launch.
Scheduled(t) ==
    \/ t \in localTxpool
    \/ (main = "route" \/ toLaunch # {}) /\ \E f \in Fid : t \in Range(allocMap[f])
    \/ \E a \in starting : t \in Range(a.txs)
\* With a follower, or on the way to it or back.
Away(t) ==
    \/ \E m \in allocMsgs : t \in Range(m.txs)
    \/ \E w \in working : t \in Range(w.todo) \/ t \in Range(w.hashes)
    \/ \E m \in replyMsgs : t \in Range(m.hashes)
\* Back at the proposer.
Returning(t) ==
    \/ \E g \in gathering : t \in Range(g.todo)
    \/ t \in Range(ProcessedTxpool)
    \/ \E i \in DOMAIN building : t \in Range(building[i].txs)
UnderWay(t) == Scheduled(t) \/ Away(t) \/ Returning(t)
OnChain(t) == \E i \in DOMAIN chain : t \in Range(chain[i])

\* No transaction is read from the file twice, so none waits twice.
Once(s) == \A i, j \in DOMAIN s : s[i] = s[j] => i = j
WaitsOnce ==
    /\ Once(txs) /\ Once(PendingTxpool)
    /\ \A t : ~(t \in Range(txs) /\ t \in Range(PendingTxpool))

Apart ==
    \A t : /\ ~(Waiting(t) /\ UnderWay(t))
           /\ ~(Waiting(t) /\ OnChain(t))
           /\ ~(UnderWay(t) /\ OnChain(t))

BlockInv == (main # "route" => localTxpool = {}) /\ WaitsOnce /\ Apart /\ OneBlockPerTx

-----------------------------------------------------------------------------
(* The elements of a list.                                                 *)

\* What a queue holds when its first element is taken off.
LEMMA RangeOfTail ==
  ASSUME NEW S, NEW s \in Seq(S), s # <<>>
  PROVE  Head(s) \in Range(s) /\ Range(Tail(s)) \subseteq Range(s)
<1>1. Len(s) \in Nat \ {0} BY NonEmpty
<1>2. 1 \in DOMAIN s /\ Head(s) = s[1] BY <1>1
<1>3. ASSUME NEW i \in DOMAIN Tail(s) PROVE Tail(s)[i] = s[i + 1] /\ i + 1 \in DOMAIN s
  BY <1>1
<1> QED BY <1>2, <1>3 DEF Range

\* What a queue holds when an element is put at its end.
LEMMA RangeOfAppend ==
  ASSUME NEW S, NEW s \in Seq(S), NEW e \in S
  PROVE  Range(Append(s, e)) = Range(s) \cup {e}
<1>1. /\ DOMAIN Append(s, e) = 1 .. Len(s) + 1 /\ Len(s) \in Nat
      /\ Append(s, e)[Len(s) + 1] = e
      /\ \A i \in 1 .. Len(s) : Append(s, e)[i] = s[i]
      /\ DOMAIN s = 1 .. Len(s)
  OBVIOUS
<1>2. Range(s) \subseteq Range(Append(s, e))
  BY <1>1 DEF Range
<1>3. e \in Range(Append(s, e))
  BY <1>1 DEF Range
<1>4. ASSUME NEW i \in DOMAIN Append(s, e) PROVE Append(s, e)[i] \in Range(s) \cup {e}
  <2>1. i \in 1 .. Len(s) \/ i = Len(s) + 1 BY <1>1
  <2> QED BY Zenon, <1>1, <2>1 DEF Range
<1> QED BY Zenon, <1>2, <1>3, <1>4 DEF Range

\* An empty queue holds nothing.
LEMMA RangeOfNothing == Range(<<>>) = {}
BY DEF Range

\* A list without repetitions, cut in two.
LEMMA RangeOfParts ==
  ASSUME NEW S, NEW s \in Seq(S), NEW n \in 0 .. Len(s), Once(s)
  PROVE  /\ Range(SubSeq(s, 1, n)) = {s[i] : i \in 1 .. n}
         /\ Range(SubSeq(s, n + 1, Len(s))) \subseteq Range(s)
         /\ {s[i] : i \in 1 .. n} \subseteq Range(s)
         /\ {s[i] : i \in 1 .. n} \cap Range(SubSeq(s, n + 1, Len(s))) = {}
         /\ Once(SubSeq(s, 1, n)) /\ Once(SubSeq(s, n + 1, Len(s)))
<1> DEFINE a == SubSeq(s, 1, n)
           b == SubSeq(s, n + 1, Len(s))
<1>1. Len(s) \in Nat /\ DOMAIN s = 1 .. Len(s) OBVIOUS
<1>2. /\ DOMAIN a = 1 .. n
      /\ \A i \in 1 .. n : a[i] = s[i]
  BY <1>1
<1>3. /\ DOMAIN b = 1 .. Len(s) - n
      /\ \A i \in 1 .. Len(s) - n : b[i] = s[i + n] /\ i + n \in 1 .. Len(s) /\ ~(i + n \in 1 .. n)
  BY <1>1
<1> HIDE DEF a, b
<1>4. Range(a) = {s[i] : i \in 1 .. n} BY Zenon, <1>2 DEF Range
<1>5. Range(b) \subseteq Range(s) BY Zenon, <1>1, <1>3 DEF Range
<1>6. 1 .. n \subseteq 1 .. Len(s) BY <1>1
<1>7. {s[i] : i \in 1 .. n} \subseteq Range(s) BY Zenon, <1>1, <1>6 DEF Range
<1>8. {s[i] : i \in 1 .. n} \cap Range(b) = {} BY SMTT(30), <1>1, <1>3, <1>6 DEF Range, Once
<1>9. Once(a) BY Zenon, <1>1, <1>2, <1>6 DEF Once
<1>10. Once(b)
  <2> SUFFICES ASSUME NEW i \in 1 .. Len(s) - n, NEW j \in 1 .. Len(s) - n, b[i] = b[j]
               PROVE  i = j
    BY Zenon, <1>3 DEF Once
  <2>1. i + n = j + n BY Zenon, <1>1, <1>3 DEF Once
  <2> QED BY <1>1, <2>1
<1> QED BY Zenon, <1>4, <1>5, <1>7, <1>8, <1>9, <1>10 DEF a, b

\* Two lists without repetitions and without common elements, one after the other.
LEMMA RangeOfBoth ==
  ASSUME NEW S, NEW s \in Seq(S), NEW r \in Seq(S), Once(s), Once(r),
         Range(s) \cap Range(r) = {}
  PROVE  Range(s \o r) = Range(s) \cup Range(r) /\ Once(s \o r)
<1> DEFINE c == s \o r
<1>1. /\ Len(s) \in Nat /\ Len(r) \in Nat /\ DOMAIN s = 1 .. Len(s) /\ DOMAIN r = 1 .. Len(r)
      /\ DOMAIN c = 1 .. Len(s) + Len(r)
  OBVIOUS
<1>2. \A i \in 1 .. Len(s) : i \in DOMAIN c /\ c[i] = s[i] BY <1>1
<1>3. \A i \in 1 .. Len(r) : i + Len(s) \in DOMAIN c /\ c[i + Len(s)] = r[i] BY <1>1
<1> HIDE DEF c
<1>4. ASSUME NEW i \in DOMAIN c
      PROVE  i \in 1 .. Len(s) \/ (i - Len(s) \in 1 .. Len(r) /\ i = (i - Len(s)) + Len(s))
  BY <1>1
<1>5. Range(s) \subseteq Range(c) /\ Range(r) \subseteq Range(c)
  BY Zenon, <1>1, <1>2, <1>3 DEF Range
<1>6. Range(c) \subseteq Range(s) \cup Range(r)
  <2> SUFFICES ASSUME NEW i \in DOMAIN c PROVE c[i] \in Range(s) \cup Range(r)
    BY Zenon DEF Range
  <2>1. CASE i \in 1 .. Len(s) BY Zenon, <1>1, <1>2, <2>1 DEF Range
  <2>2. CASE i - Len(s) \in 1 .. Len(r) /\ i = (i - Len(s)) + Len(s)
    <3>1. c[i] = r[i - Len(s)] BY Zenon, <1>3, <2>2
    <3> QED BY Zenon, <1>1, <2>2, <3>1 DEF Range
  <2> QED BY Zenon, <1>4, <2>1, <2>2
<1>7. Once(c)
  <2> SUFFICES ASSUME NEW i \in DOMAIN c, NEW j \in DOMAIN c, c[i] = c[j] PROVE i = j
    BY Zenon DEF Once
  <2>1. \A k \in DOMAIN c : \/ k \in 1 .. Len(s) /\ c[k] = s[k] /\ c[k] \in Range(s)
                            \/ /\ k - Len(s) \in 1 .. Len(r) /\ c[k] = r[k - Len(s)]
                               /\ c[k] \in Range(r)
    <3> SUFFICES ASSUME NEW k \in DOMAIN c
                 PROVE  \/ k \in 1 .. Len(s) /\ c[k] = s[k] /\ c[k] \in Range(s)
                        \/ /\ k - Len(s) \in 1 .. Len(r) /\ c[k] = r[k - Len(s)]
                           /\ c[k] \in Range(r)
      BY Zenon
    <3>1. CASE k \in 1 .. Len(s) BY Zenon, <1>1, <1>2, <3>1 DEF Range
    <3>2. CASE k - Len(s) \in 1 .. Len(r) /\ k = (k - Len(s)) + Len(s)
      <4>1. c[k] = r[k - Len(s)] BY Zenon, <1>3, <3>2
      <4> QED BY Zenon, <1>1, <3>2, <4>1 DEF Range
    <3> QED BY Zenon, <1>4, <3>1, <3>2
  <2>2. CASE i \in 1 .. Len(s) /\ j \in 1 .. Len(s) /\ s[i] = s[j]
    BY Zenon, <1>1, <2>2 DEF Once
  <2>3. CASE i - Len(s) \in 1 .. Len(r) /\ j - Len(s) \in 1 .. Len(r) /\ r[i - Len(s)] = r[j - Len(s)]
    <3>1. i - Len(s) = j - Len(s) BY Zenon, <1>1, <2>3 DEF Once
    <3> QED BY <1>1, <3>1
  <2> QED BY Zenon, <2>1, <2>2, <2>3
<1> QED BY Zenon, <1>5, <1>6, <1>7 DEF c

-----------------------------------------------------------------------------
(* The steps.                                                              *)

\* What is packed, element by element, in a state and in the next.
InBlocks(t, p, b, c) ==
    \/ t \in Range(p) \/ (\E i \in DOMAIN b : t \in Range(b[i].txs))
    \/ \E i \in DOMAIN c : t \in Range(c[i])

\* Packed by its elements, before and after a step.
LEMMA PackedElements ==
  /\ \A t : t \in Packed <=> InBlocks(t, ProcessedTxpool, building, chain)
  /\ \A t : t \in Packed' <=> InBlocks(t, ProcessedTxpool', building', chain')
<1>1. ASSUME NEW t, NEW p, NEW b, NEW c
      PROVE  t \in Range(p) \cup (UNION {Range(b[i].txs) : i \in DOMAIN b})
                            \cup (UNION {Range(c[i]) : i \in DOMAIN c})
             <=> InBlocks(t, p, b, c)
  <2> DEFINE B == UNION {Range(b[i].txs) : i \in DOMAIN b}
             C == UNION {Range(c[i]) : i \in DOMAIN c}
  <2>1. t \in B <=> \E i \in DOMAIN b : t \in Range(b[i].txs) BY Zenon
  <2>2. t \in C <=> \E i \in DOMAIN c : t \in Range(c[i]) BY Zenon
  <2> HIDE DEF B, C
  <2>3. t \in Range(p) \cup B \cup C <=> InBlocks(t, p, b, c)
    BY Zenon, <2>1, <2>2 DEF InBlocks
  <2> QED BY Zenon, <2>3 DEF B, C
<1>2. \A t : t \in Packed <=> InBlocks(t, ProcessedTxpool, building, chain)
  BY Zenon, <1>1 DEF Packed
<1>3. \A t : t \in Packed' <=> InBlocks(t, ProcessedTxpool', building', chain')
  BY Zenon, <1>1 DEF Packed
<1> QED BY Zenon, <1>2, <1>3

\* A follower in the pipeline is of the initial table.
LEMMA Followers ==
  ASSUME AtReady
  PROVE  /\ \A w \in working : w.fid \in ReadyMap
         /\ \A m \in allocMsgs : m.fid \in ReadyMap
BY Stages DEF AtReady

\* Every step keeps what replies and pools say of what was executed.
LEMMA ExecStep == ASSUME TypeOK, PipeInv, ExecInv, Next PROVE ExecInv'
<1> DEFINE packedVars == <<ProcessedTxpool, building, chain>>
           WasExecuted(t) == \E f \in ReadyMap : <<t, f>> \in executed
<1>0. ASSUME executed \subseteq executed', NEW f, NEW s, Did(f, s) PROVE Did(f, s)'
  BY Zenon, <1>0 DEF Did
<1>1. ASSUME executed \subseteq executed', \A t : t \in Packed' => t \in Packed \/ WasExecuted(t)
      PROVE  PackedWasExecuted'
  BY Zenon, <1>1 DEF ExecInv, PackedWasExecuted
<1>2. ASSUME UNCHANGED packedVars PROVE Packed' = Packed
  BY <1>2 DEF Packed
<1>3. ASSUME UNCHANGED <<executed, packedVars>>, working' \subseteq working,
             replyMsgs' \subseteq replyMsgs, gathering' \subseteq gathering
      PROVE  ExecInv'
  BY Zenon, <1>1, <1>2, <1>3 DEF ExecInv, Did
<1>4. CASE \/ Inject \/ PollEmpty \/ TakeBatch \/ StartEpoch \/ WgAdd \/ EndScheduling
           \/ GenerateNothing \/ JoinRead
  BY Zenon, <1>3, <1>4 DEF Inject, PollEmpty, TakeBatch, StartEpoch, WgAdd, EndScheduling,
       GenerateNothing, JoinRead, gatherVars, blockVars, followerVars, netVars
<1>5. ASSUME NEW x, \/ RouteTx(x) \/ Launch(x) \/ AllocateNotReady(x) \/ AllocateSend(x)
                    \/ AllocateRecord(x) \/ Register(x) \/ JoinLoad(x) \/ JoinCount(x)
                    \/ JoinList(x) \/ Restart(x) \/ Lose(x) \/ Crash(x) \/ CommitPanic(x)
                    \/ DropAtDown(x)
      PROVE  ExecInv'
  BY Zenon, <1>3, <1>5 DEF RouteTx, Launch, AllocateNotReady, AllocateSend, AllocateRecord,
       Register, JoinLoad, JoinCount, JoinList, Restart, Lose, Crash, CommitPanic, DropAtDown,
       gatherVars, blockVars, followerVars, netVars
<1>6. ASSUME NEW m \in allocMsgs, StartBatch(m) PROVE ExecInv'
  <2> DEFINE w == [epoch |-> m.epoch, fid |-> m.fid, todo |-> m.txs, hashes |-> <<>>,
                   commits |-> Committable(m)]
  <2>1. w.hashes = <<>> /\ w.fid = m.fid BY Zenon
  <2>2. /\ working' = working \cup {w}
        /\ UNCHANGED <<executed, packedVars, replyMsgs, gathering>>
    BY Zenon, <1>6 DEF StartBatch, gatherVars, blockVars
  <2> HIDE DEF w
  <2>3. Did(w.fid, w.hashes) BY Zenon, <2>1, Followers, RangeOfNothing DEF Did, PipeInv
  <2> QED BY Zenon, <1>1, <1>2, <2>2, <2>3 DEF ExecInv, Did
<1>7. ASSUME NEW w \in working, ExecuteTx(w) PROVE ExecInv'
  <2> DEFINE t == Head(w.todo)
             rej == Rejects(trie[w.fid], w.fid, t)
             v == [w EXCEPT !.todo = Tail(w.todo), !.hashes = Returned(w.hashes, t, rej),
                            !.commits = w.commits \/ trie' # trie]
  <2>1. /\ working' = (working \ {w}) \cup {v}
        /\ executed' = IF rej THEN executed ELSE executed \cup {<<t, w.fid>>}
        /\ UNCHANGED <<packedVars, replyMsgs, gathering>>
    BY Zenon, <1>7 DEF ExecuteTx, gatherVars, blockVars, netVars
  <2>2. /\ w \in Batch /\ w.todo # <<>> /\ w.todo \in Seq(Tx) /\ w.hashes \in Seq(Tx)
    BY Zenon, <1>7 DEF ExecuteTx, TypeOK, FollowerType, Batch
  <2>3. v.fid = w.fid /\ v.hashes = Returned(w.hashes, t, rej)
    BY Zenon, <2>2 DEF Batch
  <2>4. t \in Tx BY <2>2
  <2> HIDE DEF t, rej, v
  <2>5. executed \subseteq executed' /\ (~rej => <<t, w.fid>> \in executed') BY Zenon, <2>1
  <2>6. Range(v.hashes) \subseteq (IF rej THEN Range(w.hashes) ELSE Range(w.hashes) \cup {t})
    BY <2>2, <2>3, <2>4, RangeOfAppend DEF Returned
  <2>7. Did(w.fid, w.hashes) BY Zenon DEF ExecInv
  <2>8. v.fid \in ReadyMap /\ \A u \in Range(v.hashes) : <<u, v.fid>> \in executed'
    BY Zenon, <2>3, <2>5, <2>6, <2>7 DEF Did
  <2> QED BY Zenon, <1>1, <1>2, <2>1, <2>5, <2>8 DEF ExecInv, Did
<1>8. ASSUME NEW w \in working, Reply(w) PROVE ExecInv'
  <2> DEFINE m == [epoch |-> w.epoch, fid |-> w.fid, hashes |-> w.hashes]
  <2>1. m.fid = w.fid /\ m.hashes = w.hashes BY Zenon
  <2>2. /\ working' = working \ {w} /\ replyMsgs' = replyMsgs \cup {m}
        /\ UNCHANGED <<executed, packedVars, gathering>>
    BY Zenon, <1>8 DEF Reply, gatherVars, blockVars
  <2> HIDE DEF m
  <2> QED BY Zenon, <1>1, <1>2, <2>1, <2>2 DEF ExecInv, Did
<1>9. ASSUME NEW m \in replyMsgs, GatherBegin(m) PROVE ExecInv'
  <2> DEFINE g == [epoch |-> m.epoch, fid |-> m.fid, todo |-> m.hashes, hashes |-> m.hashes]
  <2>1. g.fid = m.fid /\ g.todo = m.hashes /\ g.hashes = m.hashes BY Zenon
  <2>2. /\ gathering' = {g} /\ replyMsgs' = replyMsgs \ {m}
        /\ UNCHANGED <<executed, packedVars, working>>
    BY Zenon, <1>9 DEF GatherBegin, blockVars, followerVars
  <2> HIDE DEF g
  <2> QED BY Zenon, <1>1, <1>2, <2>1, <2>2 DEF ExecInv, Did
<1>10. ASSUME NEW g \in gathering, GatherOne(g) PROVE ExecInv'
  <2> DEFINE h == [g EXCEPT !.todo = Tail(g.todo)]
  <2>1. g \in Job /\ g.todo # <<>> /\ g.todo \in Seq(Tx)
    BY Zenon, <1>10 DEF GatherOne, TypeOK, GatherType, Job
  <2>2. h.fid = g.fid /\ h.todo = Tail(g.todo) /\ h.hashes = g.hashes BY Zenon, <2>1 DEF Job
  <2>3. /\ gathering' = {h}
        /\ ProcessedTxpool' \in {ProcessedTxpool, Append(ProcessedTxpool, Head(g.todo))}
        /\ UNCHANGED <<executed, working, replyMsgs, building, chain>>
    BY Zenon, <1>10 DEF GatherOne, blockVars, followerVars, netVars
  <2> HIDE DEF h
  <2>4. Head(g.todo) \in Range(g.todo) /\ Range(Tail(g.todo)) \subseteq Range(g.todo)
    BY Zenon, <2>1, RangeOfTail
  <2>5. Head(g.todo) \in Tx /\ ProcessedTxpool \in Seq(Tx)
    BY <2>1 DEF TypeOK, GatherType
  <2>6. Range(ProcessedTxpool') \subseteq Range(ProcessedTxpool) \cup {Head(g.todo)}
    <3>1. Range(Append(ProcessedTxpool, Head(g.todo))) = Range(ProcessedTxpool) \cup {Head(g.todo)}
      BY <2>5, RangeOfAppend
    <3> QED BY Zenon, <2>3, <3>1
  <2>7. Did(g.fid, g.todo) /\ Did(g.fid, g.hashes) BY Zenon DEF ExecInv
  <2>8. WasExecuted(Head(g.todo)) BY Zenon, <2>4, <2>7 DEF Did
  <2>9. ASSUME NEW t \in Packed' PROVE t \in Packed \/ WasExecuted(t)
    <3>1. t \in Range(ProcessedTxpool') \/ InBlocks(t, ProcessedTxpool, building, chain)
      BY Zenon, <2>3, <2>9, PackedElements DEF InBlocks
    <3>2. t \in Range(ProcessedTxpool') => t = Head(g.todo) \/ InBlocks(t, ProcessedTxpool, building, chain)
      BY Zenon, <2>6 DEF InBlocks
    <3> QED BY Zenon, <2>8, <3>1, <3>2, PackedElements
  <2>10. PackedWasExecuted' BY Zenon, <1>1, <2>3, <2>9
  <2>11. Did(h.fid, h.todo) /\ Did(h.fid, h.hashes) BY Zenon, <2>2, <2>4, <2>7 DEF Did
  <2> QED BY Zenon, <2>3, <2>10, <2>11 DEF ExecInv, Did
<1>11. ASSUME NEW g \in gathering, GatherEnd(g) PROVE ExecInv'
  BY Zenon, <1>3, <1>11 DEF GatherEnd, blockVars, followerVars, netVars
<1>12. CASE GenerateBlock
  <2> DEFINE c == [parent |-> Len(chain), txs |-> ProcessedTxpool]
  <2>1. c.txs = ProcessedTxpool BY Zenon
  <2>2. /\ building' = <<c>> /\ ProcessedTxpool' = <<>>
        /\ UNCHANGED <<executed, working, replyMsgs, gathering, chain>>
    BY Zenon, <1>12 DEF GenerateBlock, followerVars, netVars
  <2> HIDE DEF c
  <2>3. DOMAIN building' = {1} /\ building'[1] = c BY <2>2
  <2>4. ASSUME NEW t \in Packed' PROVE t \in Packed
    <3>1. InBlocks(t, <<>>, building', chain) BY Zenon, <2>2, <2>4, PackedElements
    <3>2. InBlocks(t, ProcessedTxpool, building, chain)
      BY Zenon, <2>1, <2>3, <3>1, RangeOfNothing DEF InBlocks
    <3> QED BY Zenon, <3>2, PackedElements
  <2> QED BY Zenon, <1>1, <2>2, <2>4 DEF ExecInv, Did
<1>13. CASE AddBlock
  <2>1. /\ chain' \in {chain, Append(chain, building[1].txs)} /\ building' = <<>>
        /\ UNCHANGED <<executed, working, replyMsgs, gathering, ProcessedTxpool>>
        /\ building # <<>>
    BY Zenon, <1>13 DEF AddBlock, gatherVars, followerVars, netVars
  <2>2. 1 \in DOMAIN building /\ building[1].txs \in Seq(Tx) /\ chain \in Seq(Seq(Tx))
    <3>1. Len(building) > 0 /\ building \in Seq(Candidate)
      BY Zenon, <2>1, NonEmpty DEF TypeOK, BlockType
    <3>2. 1 \in DOMAIN building /\ building[1] \in Candidate BY <3>1
    <3> QED BY Zenon, <3>2 DEF TypeOK, BlockType, Candidate
  <2>3. \A i \in DOMAIN chain' : \/ i \in DOMAIN chain /\ chain'[i] = chain[i]
                                 \/ chain'[i] = building[1].txs
    <3> DEFINE b == building[1].txs
    <3>1. b \in Seq(Tx) /\ chain' \in {chain, Append(chain, b)} BY Zenon, <2>1, <2>2
    <3> HIDE DEF b
    <3>2. /\ DOMAIN Append(chain, b) = 1 .. Len(chain) + 1 /\ Len(chain) \in Nat
          /\ DOMAIN chain = 1 .. Len(chain) /\ Append(chain, b)[Len(chain) + 1] = b
          /\ \A i \in 1 .. Len(chain) : Append(chain, b)[i] = chain[i]
      BY <2>2, <3>1
    <3>3. \A i \in DOMAIN Append(chain, b) : i \in DOMAIN chain \/ i = Len(chain) + 1 BY <3>2
    <3>4. \A i \in DOMAIN chain' : (i \in DOMAIN chain /\ chain'[i] = chain[i]) \/ chain'[i] = b
      BY Zenon, <3>1, <3>2, <3>3
    <3> QED BY Zenon, <3>4 DEF b
  <2>4. ASSUME NEW t \in Packed' PROVE t \in Packed
    <3>1. InBlocks(t, ProcessedTxpool, <<>>, chain') BY Zenon, <2>1, <2>4, PackedElements
    <3>2. InBlocks(t, ProcessedTxpool, building, chain) BY <2>2, <2>3, <3>1 DEF InBlocks
    <3> QED BY Zenon, <3>2, PackedElements
  <2> QED BY Zenon, <1>1, <2>1, <2>4 DEF ExecInv, Did
<1> QED
  BY SMTT(30), <1>4, <1>5, <1>6, <1>7, <1>8, <1>9, <1>10, <1>11, <1>12, <1>13
  DEF Next, Schedule, Allocate, Follow, Gather, Generate, Join, Enlist, Fail

\* What is under way stays so, or drops out.
LEMMA Onward ==
  ASSUME BlockInv, \A t : UnderWay(t)' => UnderWay(t), UNCHANGED <<txs, PendingTxpool, chain>>,
         main' # "route" => localTxpool' = {}
  PROVE  BlockInv'
<1>1. \A t : (Waiting(t)' => Waiting(t)) /\ (OnChain(t)' => OnChain(t))
  BY Zenon DEF Waiting, OnChain
<1>2. Apart' BY Zenon, <1>1 DEF BlockInv, Apart
<1>3. WaitsOnce' BY Zenon DEF BlockInv, WaitsOnce, Once
<1>4. OneBlockPerTx' BY Zenon DEF BlockInv, OneBlockPerTx
<1> QED BY Zenon, <1>2, <1>3, <1>4 DEF BlockInv

\* Every step keeps the three sets of transactions apart.
LEMMA BlockStep == ASSUME TypeOK, TokenInv, PoolInv, BlockInv, Next PROVE BlockInv'
<1> DEFINE Same(t) == UnderWay(t)' => UnderWay(t)
<1>a. /\ main \in {"select", "route", "launch", "add", "closed"} /\ signals \in Nat /\ gens \in Nat
      /\ txs \in Seq(Tx) /\ PendingTxpool \in Seq(Tx) /\ localTxpool \subseteq Tx
      /\ allocMap \in [Fid -> Seq(Tx)] /\ ProcessedTxpool \in Seq(Tx)
      /\ building \in Seq(Candidate) /\ chain \in Seq(Seq(Tx))
  BY Zenon DEF TypeOK, SchedType, GatherType, BlockType
<1>0. ASSUME starting' \subseteq starting, allocMsgs' \subseteq allocMsgs,
             working' \subseteq working, replyMsgs' \subseteq replyMsgs,
             gathering' \subseteq gathering, localTxpool' \subseteq localTxpool,
             UNCHANGED <<txs, PendingTxpool, main, allocMap, ProcessedTxpool, building, chain>>,
             toLaunch' = toLaunch
      PROVE  BlockInv'
  <2>1. ASSUME NEW t PROVE Same(t)
    BY Zenon, <1>0 DEF UnderWay, Scheduled, Away, Returning
  <2> QED BY Zenon, <1>0, <2>1, Onward DEF BlockInv
<1>1. CASE Inject
  <2> DEFINE n == Least(InjectSpeed, Len(txs))
             a == SubSeq(txs, 1, n)
             b == SubSeq(txs, n + 1, Len(txs))
  <2>1. n \in 0 .. Len(txs) BY <1>a, ParamsAssumption DEF Least
  <2>2. /\ PendingTxpool' = PendingTxpool \o a /\ txs' = b
        /\ UNCHANGED <<main, localTxpool, allocMap, toLaunch, starting, allocMsgs, working,
                       replyMsgs, gathering, ProcessedTxpool, building, chain>>
    BY Zenon, <1>1 DEF Inject, allocVars, gatherVars, blockVars, followerVars, netVars
  <2>3. a \in Seq(Tx) /\ b \in Seq(Tx) BY <1>a, <2>1
  <2> HIDE DEF n
  <2>4. /\ Range(a) \subseteq Range(txs) /\ Range(b) \subseteq Range(txs)
        /\ Range(a) \cap Range(b) = {} /\ Once(a) /\ Once(b)
    BY <1>a, <2>1, RangeOfParts DEF BlockInv, WaitsOnce
  <2> HIDE DEF a, b
  <2>5. Range(PendingTxpool) \cap Range(a) = {} /\ Once(PendingTxpool)
    BY Zenon, <2>4 DEF BlockInv, WaitsOnce
  <2>6. Range(PendingTxpool') = Range(PendingTxpool) \cup Range(a) /\ Once(PendingTxpool')
    BY <1>a, <2>2, <2>3, <2>4, <2>5, RangeOfBoth
  <2>7. WaitsOnce'
    BY Zenon, <2>2, <2>4, <2>6 DEF BlockInv, WaitsOnce, Once
  <2>8. \A t : Waiting(t)' => Waiting(t)
    BY Zenon, <2>2, <2>4, <2>6 DEF Waiting
  <2>9. ASSUME NEW t PROVE Same(t) /\ (OnChain(t)' => OnChain(t))
    BY Zenon, <2>2 DEF UnderWay, Scheduled, Away, Returning, OnChain
  <2>10. Apart' BY Zenon, <2>8, <2>9 DEF BlockInv, Apart
  <2> QED BY Zenon, <2>2, <2>7, <2>10 DEF BlockInv, OneBlockPerTx
<1>2. CASE PollEmpty
  <2>1. /\ main = "select" /\ main' # "route"
        /\ UNCHANGED <<txs, PendingTxpool, localTxpool, allocMap, toLaunch, starting, allocMsgs,
                       working, replyMsgs, gathering, ProcessedTxpool, building, chain>>
    BY Zenon, <1>2 DEF PollEmpty, allocVars, gatherVars, blockVars, followerVars, netVars
  <2>2. ASSUME NEW t PROVE Same(t) BY Zenon, <2>1 DEF UnderWay, Scheduled, Away, Returning
  <2> QED BY Zenon, <2>1, <2>2, Onward DEF BlockInv
<1>3. CASE TakeBatch
  <2> DEFINE n == Least(MaxBlockSize, Len(PendingTxpool))
             a == {PendingTxpool[i] : i \in 1 .. n}
             b == SubSeq(PendingTxpool, n + 1, Len(PendingTxpool))
  <2>1. n \in 0 .. Len(PendingTxpool) BY <1>a, ParamsAssumption DEF Least
  <2>2. /\ main = "select" /\ signals > 0 /\ main' = "route"
        /\ localTxpool' = a /\ PendingTxpool' = b /\ allocMap' = NoBatches
        /\ UNCHANGED <<txs, toLaunch, starting, allocMsgs, working, replyMsgs, gathering,
                       ProcessedTxpool, building, chain>>
    BY Zenon, <1>3 DEF TakeBatch, allocVars, gatherVars, blockVars, followerVars, netVars
  <2> HIDE DEF n
  <2>3. /\ a \subseteq Range(PendingTxpool) /\ Range(b) \subseteq Range(PendingTxpool)
        /\ a \cap Range(b) = {} /\ Once(b)
    BY Zenon, <1>a, <2>1, RangeOfParts DEF BlockInv, WaitsOnce
  <2> HIDE DEF a, b
  <2>4. Token > 0 BY <1>a, <2>2 DEF Token
  <2>5. /\ starting = {} /\ allocMsgs = {} /\ working = {} /\ replyMsgs = {} /\ gathering = {}
        /\ toLaunch = {}
    BY Zenon, <2>4 DEF TokenInv, Busy, InFlight
  <2>6. ProcessedTxpool = <<>> BY Zenon, <2>2 DEF PoolInv
  <2>7. building = <<>>
    BY <1>a, <2>2, NonEmpty DEF TokenInv, SingleToken, Token
  <2>8. \A f \in Fid : Range(allocMap'[f]) = {}
    BY Zenon, <2>2, RangeOfNothing DEF NoBatches
  <2>9. \A t : UnderWay(t)' => t \in a
    BY <2>2, <2>5, <2>6, <2>7, <2>8, RangeOfNothing DEF UnderWay, Scheduled, Away, Returning
  <2>10. \A t : (Waiting(t)' => Waiting(t) /\ t \notin a) /\ (t \in a => Waiting(t))
    BY Zenon, <2>2, <2>3 DEF Waiting, BlockInv, WaitsOnce
  <2>11. \A t : OnChain(t)' => OnChain(t) BY Zenon, <2>2 DEF OnChain
  <2>12. Apart' BY Zenon, <2>9, <2>10, <2>11 DEF BlockInv, Apart
  <2>13. WaitsOnce' BY Zenon, <2>2, <2>3 DEF BlockInv, WaitsOnce, Once
  <2> QED BY Zenon, <2>2, <2>12, <2>13 DEF BlockInv, OneBlockPerTx
<1>4. CASE StartEpoch
  <2>1. /\ main = "route" /\ main' # "route" /\ localTxpool = {}
        /\ UNCHANGED <<txs, PendingTxpool, localTxpool, allocMap, starting, allocMsgs,
                       working, replyMsgs, gathering, ProcessedTxpool, building, chain>>
    BY Zenon, <1>4 DEF StartEpoch, allocVars, gatherVars, blockVars, followerVars, netVars
  <2>2. ASSUME NEW t PROVE Same(t) BY Zenon, <2>1 DEF UnderWay, Scheduled, Away, Returning
  <2> QED BY Zenon, <2>1, <2>2, Onward
<1>5. CASE WgAdd \/ EndScheduling
  <2>1. /\ main # "route" /\ main' # "route"
        /\ UNCHANGED <<txs, PendingTxpool, localTxpool, allocMap, toLaunch, starting, allocMsgs,
                       working, replyMsgs, gathering, ProcessedTxpool, building, chain>>
    BY Zenon, <1>5 DEF WgAdd, EndScheduling, allocVars, gatherVars, blockVars, followerVars, netVars
  <2>2. ASSUME NEW t PROVE Same(t) BY Zenon, <2>1 DEF UnderWay, Scheduled, Away, Returning
  <2> QED BY Zenon, <2>1, <2>2, Onward DEF BlockInv
<1>6. ASSUME NEW x \in localTxpool, RouteTx(x) PROVE BlockInv'
  <2>1. /\ main = "route" /\ main' = "route" /\ localTxpool' \subseteq localTxpool
        /\ UNCHANGED <<txs, PendingTxpool, toLaunch, starting, allocMsgs, working, replyMsgs,
                       gathering, ProcessedTxpool, building, chain>>
    BY Zenon, <1>6 DEF RouteTx, allocVars, gatherVars, blockVars, followerVars, netVars
  <2>2. \A f \in Fid : Range(Append(allocMap[f], x)) = Range(allocMap[f]) \cup {x}
    BY <1>a, RangeOfAppend
  <2>3. \A f \in Fid : allocMap'[f] = allocMap[f] \/ allocMap'[f] = Append(allocMap[f], x)
    BY Zenon, <1>6 DEF RouteTx, Routed
  <2>4. \A f \in Fid : Range(allocMap'[f]) \subseteq Range(allocMap[f]) \cup {x}
    BY Zenon, <2>2, <2>3
  <2>5. ASSUME NEW t PROVE Same(t)
    BY Zenon, <2>1, <2>4 DEF UnderWay, Scheduled, Away, Returning
  <2> QED BY Zenon, <2>1, <2>5, Onward
<1>7. ASSUME NEW f \in toLaunch, Launch(f) PROVE BlockInv'
  <2> DEFINE x == [epoch |-> EpochId, fid |-> f, txs |-> allocMap[f]]
  <2>1. x.txs = allocMap[f] /\ f \in Fid BY Zenon DEF TypeOK, SchedType
  <2>2. /\ main # "route" /\ main' # "route" /\ starting' = starting \cup {x}
        /\ toLaunch' \subseteq toLaunch
        /\ UNCHANGED <<txs, PendingTxpool, localTxpool, allocMap, allocMsgs, working, replyMsgs,
                       gathering, ProcessedTxpool, building, chain>>
    BY Zenon, <1>7 DEF Launch, allocVars, gatherVars, blockVars, followerVars, netVars
  <2> HIDE DEF x
  <2>3. ASSUME NEW t PROVE Same(t)
    BY ZenonT(30), <2>1, <2>2 DEF UnderWay, Scheduled, Away, Returning
  <2> QED BY Zenon, <2>2, <2>3, Onward DEF BlockInv
<1>8. ASSUME NEW x, \/ AllocateNotReady(x) \/ AllocateRecord(x) \/ Register(x) \/ JoinLoad(x)
                    \/ JoinCount(x) \/ JoinList(x) \/ Restart(x) \/ Lose(x) \/ Crash(x)
                    \/ CommitPanic(x) \/ DropAtDown(x)
      PROVE  BlockInv'
  BY <1>0, <1>8 DEF AllocateNotReady, AllocateRecord, Register, JoinLoad, JoinCount, JoinList,
       Restart, Lose, Crash, CommitPanic, DropAtDown, schedVars, allocVars, gatherVars,
       blockVars, followerVars, netVars
<1>9. CASE GenerateNothing \/ JoinRead
  BY Zenon, <1>0, <1>9 DEF GenerateNothing, JoinRead, schedVars, allocVars, gatherVars, blockVars,
       followerVars, netVars
<1>b. ASSUME UNCHANGED <<schedVars, blockVars>>, \A t : Away(t)' \/ Returning(t)' => UnderWay(t),
             starting' \subseteq starting
      PROVE  BlockInv'
  <2>1. ASSUME NEW t PROVE Same(t)
    BY Zenon, <1>b DEF UnderWay, Scheduled, schedVars
  <2> QED BY Zenon, <1>b, <2>1, Onward DEF schedVars, blockVars, BlockInv
<1>10. ASSUME NEW a \in starting, AllocateSend(a) PROVE BlockInv'
  <2>1. /\ UNCHANGED <<schedVars, gatherVars, blockVars, followerVars, replyMsgs>>
        /\ starting' \subseteq starting /\ allocMsgs' = allocMsgs \cup {a}
    BY Zenon, <1>10 DEF AllocateSend
  <2> QED BY Zenon, <1>b, <2>1
       DEF gatherVars, blockVars, followerVars, UnderWay, Scheduled, Away, Returning
<1>11. ASSUME NEW m \in allocMsgs, StartBatch(m) PROVE BlockInv'
  <2> DEFINE w == [epoch |-> m.epoch, fid |-> m.fid, todo |-> m.txs, hashes |-> <<>>,
                   commits |-> Committable(m)]
  <2>1. w.todo = m.txs /\ w.hashes = <<>> BY Zenon
  <2>2. /\ UNCHANGED <<schedVars, gatherVars, blockVars, allocVars, replyMsgs>>
        /\ allocMsgs' \subseteq allocMsgs /\ working' = working \cup {w}
    BY Zenon, <1>11 DEF StartBatch
  <2> HIDE DEF w
  <2> QED BY Zenon, <1>b, <2>1, <2>2, RangeOfNothing
       DEF gatherVars, blockVars, allocVars, UnderWay, Away, Returning
<1>12. ASSUME NEW w \in working, ExecuteTx(w) PROVE BlockInv'
  <2> DEFINE t == Head(w.todo)
             rej == Rejects(trie[w.fid], w.fid, t)
             v == [w EXCEPT !.todo = Tail(w.todo), !.hashes = Returned(w.hashes, t, rej),
                            !.commits = w.commits \/ trie' # trie]
  <2>1. /\ working' = (working \ {w}) \cup {v}
        /\ UNCHANGED <<schedVars, gatherVars, blockVars, allocVars, netVars>>
    BY Zenon, <1>12 DEF ExecuteTx
  <2>2. w \in Batch /\ w.todo # <<>> /\ w.todo \in Seq(Tx) /\ w.hashes \in Seq(Tx)
    BY Zenon, <1>12 DEF ExecuteTx, TypeOK, FollowerType, Batch
  <2>3. v.todo = Tail(w.todo) /\ v.hashes = Returned(w.hashes, t, rej)
    BY Zenon, <2>2 DEF Batch
  <2>4. t \in Tx /\ t \in Range(w.todo) /\ Range(Tail(w.todo)) \subseteq Range(w.todo)
    BY <2>2, RangeOfTail
  <2> HIDE DEF t, rej, v
  <2>5. Range(v.hashes) \subseteq Range(w.hashes) \cup {t}
    BY <2>2, <2>3, <2>4, RangeOfAppend DEF Returned
  <2>6. Range(v.todo) \cup Range(v.hashes) \subseteq Range(w.todo) \cup Range(w.hashes)
    BY Zenon, <2>3, <2>4, <2>5
  <2> QED BY Zenon, <1>b, <2>1, <2>6
       DEF gatherVars, blockVars, allocVars, netVars, UnderWay, Away, Returning
<1>13. ASSUME NEW w \in working, Reply(w) PROVE BlockInv'
  <2> DEFINE m == [epoch |-> w.epoch, fid |-> w.fid, hashes |-> w.hashes]
  <2>1. m.hashes = w.hashes BY Zenon
  <2>2. /\ working' \subseteq working /\ replyMsgs' = replyMsgs \cup {m}
        /\ UNCHANGED <<schedVars, gatherVars, blockVars, allocVars, allocMsgs>>
    BY Zenon, <1>13 DEF Reply
  <2> HIDE DEF m
  <2> QED BY Zenon, <1>b, <2>1, <2>2
       DEF gatherVars, blockVars, allocVars, UnderWay, Away, Returning
<1>14. ASSUME NEW m \in replyMsgs, GatherBegin(m) PROVE BlockInv'
  <2> DEFINE g == [epoch |-> m.epoch, fid |-> m.fid, todo |-> m.hashes, hashes |-> m.hashes]
  <2>1. g.todo = m.hashes BY Zenon
  <2>2. /\ gathering' = {g} /\ replyMsgs' \subseteq replyMsgs
        /\ UNCHANGED <<schedVars, allocVars, ProcessedTxpool, blockVars, followerVars, allocMsgs>>
    BY Zenon, <1>14 DEF GatherBegin
  <2> HIDE DEF g
  <2> QED BY Zenon, <1>b, <2>1, <2>2
       DEF blockVars, allocVars, followerVars, UnderWay, Away, Returning
<1>15. ASSUME NEW g \in gathering, GatherOne(g) PROVE BlockInv'
  <2> DEFINE h == [g EXCEPT !.todo = Tail(g.todo)]
  <2>1. g \in Job /\ g.todo # <<>> /\ g.todo \in Seq(Tx)
    BY Zenon, <1>15 DEF GatherOne, TypeOK, GatherType, Job
  <2>2. h.todo = Tail(g.todo) BY Zenon, <2>1 DEF Job
  <2>3. /\ gathering' = {h}
        /\ ProcessedTxpool' \in {ProcessedTxpool, Append(ProcessedTxpool, Head(g.todo))}
        /\ UNCHANGED <<schedVars, allocVars, blockVars, followerVars, netVars>>
    BY Zenon, <1>15 DEF GatherOne
  <2> HIDE DEF h
  <2>4. /\ Head(g.todo) \in Range(g.todo) /\ Range(Tail(g.todo)) \subseteq Range(g.todo)
        /\ Head(g.todo) \in Tx
    BY <2>1, RangeOfTail
  <2>5. Range(Append(ProcessedTxpool, Head(g.todo))) = Range(ProcessedTxpool) \cup {Head(g.todo)}
    BY <1>a, <2>4, RangeOfAppend
  <2>6. Range(ProcessedTxpool') \subseteq Range(ProcessedTxpool) \cup Range(g.todo)
    BY Zenon, <2>3, <2>4, <2>5
  <2> QED BY Zenon, <1>b, <2>2, <2>3, <2>4, <2>6
       DEF blockVars, allocVars, followerVars, netVars, UnderWay, Away, Returning
<1>16. ASSUME NEW g \in gathering, GatherEnd(g) PROVE BlockInv'
  BY Zenon, <1>0, <1>16 DEF GatherEnd, schedVars, allocVars, blockVars, followerVars, netVars
<1>17. CASE GenerateBlock
  <2> DEFINE c == [parent |-> Len(chain), txs |-> ProcessedTxpool]
  <2>1. c.txs = ProcessedTxpool BY Zenon
  <2>2. /\ building' = <<c>> /\ ProcessedTxpool' = <<>>
        /\ UNCHANGED <<schedVars, allocVars, chain, gathering, followerVars, netVars>>
    BY Zenon, <1>17 DEF GenerateBlock
  <2> HIDE DEF c
  <2>3. DOMAIN building' = {1} /\ building'[1] = c BY <2>2
  <2>4. ASSUME NEW t PROVE Same(t)
    BY Zenon, <2>1, <2>2, <2>3, RangeOfNothing
    DEF schedVars, allocVars, followerVars, netVars, UnderWay, Scheduled, Away, Returning
  <2> QED BY Zenon, <2>2, <2>4, Onward DEF schedVars, BlockInv
<1>18. CASE AddBlock
  <2> DEFINE b == building[1].txs
  <2>1. /\ chain' \in {chain, Append(chain, b)} /\ building' = <<>> /\ building # <<>>
        /\ UNCHANGED <<txs, PendingTxpool, main, localTxpool, allocMap, toLaunch, starting,
                       allocMsgs, working, replyMsgs, gathering, ProcessedTxpool>>
    BY Zenon, <1>18 DEF AddBlock, allocVars, gatherVars, followerVars, netVars
  <2>2. Len(building) > 0 /\ 1 \in DOMAIN building /\ building[1] \in Candidate
    BY <1>a, <2>1, NonEmpty
  <2>3. b \in Seq(Tx) BY Zenon, <2>2 DEF Candidate
  <2>4. \A t : t \in Range(b) => UnderWay(t)
    BY Zenon, <2>2 DEF UnderWay, Returning
  <2> HIDE DEF b
  <2>5. /\ DOMAIN Append(chain, b) = 1 .. Len(chain) + 1 /\ Len(chain) \in Nat
        /\ DOMAIN chain = 1 .. Len(chain) /\ Append(chain, b)[Len(chain) + 1] = b
        /\ \A i \in 1 .. Len(chain) : Append(chain, b)[i] = chain[i]
    BY <1>a, <2>3
  <2>6. \A i \in DOMAIN Append(chain, b) : i \in DOMAIN chain \/ i = Len(chain) + 1 BY <2>5
  <2>7. \A i \in DOMAIN chain' : \/ i \in DOMAIN chain /\ chain'[i] = chain[i]
                                 \/ i = Len(chain) + 1 /\ chain'[i] = b
    BY Zenon, <2>1, <2>5, <2>6
  <2>8. gens >= 1 BY <1>a, <2>2 DEF TokenInv, SingleToken
  <2>9. Token > 0 /\ main # "route" BY <1>a, <2>8 DEF TokenInv, SingleToken, Token
  <2>10. ProcessedTxpool = <<>> BY Zenon, <2>1 DEF PoolInv
  <2>11. Busy = {} /\ toLaunch = {} /\ localTxpool = {}
    BY Zenon, <2>9 DEF TokenInv, BlockInv
  <2>12. \A t : ~UnderWay(t)'
    BY <2>1, <2>9, <2>10, <2>11, RangeOfNothing
    DEF UnderWay, Scheduled, Away, Returning, Busy, InFlight
  <2>13. \A t : OnChain(t)' => OnChain(t) \/ t \in Range(b)
    BY Zenon, <2>7 DEF OnChain
  <2>14. \A t : Waiting(t)' => Waiting(t) BY Zenon, <2>1 DEF Waiting
  <2>15. Apart' BY Zenon, <2>4, <2>12, <2>13, <2>14 DEF BlockInv, Apart
  <2>16. OneBlockPerTx'
    <3>1. \A i \in DOMAIN chain : Range(chain[i]) \cap Range(b) = {}
      BY Zenon, <2>4 DEF BlockInv, Apart, OnChain
    <3> QED BY Zenon, <2>7, <3>1 DEF BlockInv, OneBlockPerTx
  <2>17. WaitsOnce' BY Zenon, <2>1 DEF BlockInv, WaitsOnce, Once
  <2> QED BY Zenon, <2>1, <2>15, <2>16, <2>17 DEF BlockInv
<1> QED
  BY ZenonT(30), <1>1, <1>2, <1>3, <1>4, <1>5, <1>6, <1>7, <1>8, <1>9, <1>10, <1>11, <1>12, <1>13, <1>14,
     <1>15, <1>16, <1>17, <1>18
  DEF Next, Schedule, Allocate, Follow, Gather, Generate, Join, Enlist, Fail

-----------------------------------------------------------------------------
(* The theorems.                                                           *)

\* Initially no transaction is executed or packed.
LEMMA InitBlocks == Init => ExecInv /\ BlockInv
<1> SUFFICES ASSUME Init PROVE ExecInv /\ BlockInv
  BY Zenon
<1>1. /\ working = {} /\ replyMsgs = {} /\ gathering = {} /\ starting = {} /\ allocMsgs = {}
      /\ ProcessedTxpool = <<>> /\ building = <<>> /\ chain = <<>> /\ localTxpool = {}
      /\ toLaunch = {} /\ main = "select" /\ txs = TxList /\ PendingTxpool = <<>>
  BY Zenon DEF Init
<1>2. DOMAIN <<>> = {} OBVIOUS
<1>3. \A t : ~UnderWay(t) /\ ~OnChain(t)
  BY Zenon, <1>1, <1>2, RangeOfNothing DEF UnderWay, Scheduled, Away, Returning, OnChain
<1>4. Packed = {}
  BY Zenon, <1>1, <1>2, PackedElements, RangeOfNothing DEF InBlocks
<1>5. ExecInv BY Zenon, <1>1, <1>4 DEF ExecInv, PackedWasExecuted
<1>6. WaitsOnce BY Zenon, <1>1, <1>2, RangeOfNothing, DataAssumption DEF WaitsOnce, Once
<1>7. OneBlockPerTx BY Zenon, <1>1, <1>2 DEF OneBlockPerTx
<1> QED BY Zenon, <1>1, <1>3, <1>5, <1>6, <1>7 DEF BlockInv, Apart

\* No step breaks either invariant.
LEMMA NextBlocks ==
  IInv /\ ExecInv /\ BlockInv /\ [Next]_vars => ExecInv' /\ BlockInv'
<1> SUFFICES ASSUME IInv, ExecInv, BlockInv, [Next]_vars PROVE ExecInv' /\ BlockInv'
  BY Zenon
<1>1. CASE Next
  BY Zenon, <1>1, ExecStep, BlockStep DEF IInv
<1>2. CASE UNCHANGED vars
  <2> USE <1>2 DEF vars, schedVars, allocVars, gatherVars, blockVars, followerVars, netVars
  <2>1. ExecInv' BY ZenonT(30) DEF ExecInv, Did, PackedWasExecuted, Packed
  <2>2. ASSUME NEW t PROVE UnderWay(t)' => UnderWay(t)
    BY Zenon DEF UnderWay, Scheduled, Away, Returning
  <2>3. BlockInv' BY Zenon, <2>2, Onward DEF BlockInv
  <2> QED BY ZenonT(30), <2>1, <2>3
<1> QED BY Zenon, <1>1, <1>2

\* GatherTxs never puts a transaction on the way to a block that no follower of the
\* initial table has executed, whatever is lost, crashes or joins.
THEOREM PackedExecuted == Spec => []PackedWasExecuted
<1>1. ExecInv => PackedWasExecuted BY Zenon DEF ExecInv
<1> QED BY <1>1, InitBlocks, NextBlocks, Inductive, PTL DEF Spec

\* No transaction is in two blocks of the chain, although one that two followers answer can
\* be in the same block twice and stay in AllocatedTxpool for ever.
THEOREM OneBlock == Spec => []OneBlockPerTx
<1>1. BlockInv => OneBlockPerTx BY Zenon DEF BlockInv
<1> QED BY <1>1, InitBlocks, NextBlocks, Inductive, PTL DEF Spec
=============================================================================

--------------------------- MODULE MigratorProofs ---------------------------
(***************************************************************************)
(* A join moves the accounts of its tasks, for every number of followers,  *)
(* tasks, accounts and batches: what the migrator, the followers and the   *)
(* batches can do to each other when messages come in any order.           *)
(***************************************************************************)
EXTENDS Migrator, FiniteSetTheorems, TLAPS

-----------------------------------------------------------------------------
(* The inductive invariant.                                                *)

\* The balances of a task's accounts, as its source has given them.
IsAnswerOf(v, u) == v \in [u.keys -> Nat] /\ \A k \in u.keys : v[k] >= Start[u.from][k]

\* What messages say: requests are those of tasks, answers are answers to them, and data
\* is for the new follower.
IsMessage(m) ==
    /\ m.type = "fid" => m.to = New
    /\ m.type = "request" => \E u \in Tasks : m.to = u.from /\ m.keys = u.keys
    /\ m.type = "response" => m.fid \in Follower /\ \E u \in Tasks : IsAnswerOf(m.values, u)
    /\ m.type = "data" => m.to = New /\ \E u \in Tasks : IsAnswerOf(m.values, u)
    /\ m.type = "ready" => m.fid \in Follower
    /\ m.type = "txs" => m.to \in Follower /\ m.key \in Key
MessagesOK == \A m \in net : IsMessage(m)

AnswersOK ==
    /\ ReceiveRequestDataMap = [f \in Follower |-> ReceiveRequestDataMap[f]]
    /\ \A f \in Follower : \/ ReceiveRequestDataMap[f] = NoAnswer
                           \/ \E u \in Tasks : IsAnswerOf(ReceiveRequestDataMap[f], u)

\* Only deposits change the accounts of the other followers.
SourcesGrow == \A f \in Follower \ {New} : \A k \in Key : state[f][k] >= Start[f][k]

TypeInv == scenario \in Scenarios /\ TypeOK /\ MessagesOK /\ AnswersOK /\ SourcesGrow

\* What a task forwards is there.
ReadInv ==
    OwnSources => /\ ~locked
                  /\ \A t \in Tasks : pc[t] = "read" => ReceiveRequestDataMap[t.from] # NoAnswer

\* A new follower that is ready, or has said so, has the accounts of a task.
ReadyInv ==
    (New \in ReadyMap \/ \E m \in net : m.type = "ready" /\ m.fid = New) =>
        \E t \in Tasks : \A k \in t.keys : state[New][k] # Missing

\* Where the accounts of a task are on their way: in its goroutine, in a message, or in
\* the table of answers, and in one place at a time.
Carries(m, u) ==
    \/ m.type = "request" /\ m.keys = u.keys
    \/ m.type \in {"response", "data"} /\ DOMAIN m.values = u.keys
Kept(f, u) == DOMAIN ReceiveRequestDataMap[f] = u.keys
OnItsWay(u) ==
    pc[u] = "request" \/ (\E m \in net : Carries(m, u)) \/ (\E f \in Follower : Kept(f, u))

Single(u) ==
    /\ pc[u] = "request" => (\A m \in net : ~Carries(m, u)) /\ (\A f \in Follower : ~Kept(f, u))
    /\ \A m \in net : Carries(m, u) => \A f \in Follower : ~Kept(f, u)
    /\ \A m, n \in net : Carries(m, u) /\ Carries(n, u) => m = n
    /\ \A f, g \in Follower : Kept(f, u) /\ Kept(g, u) => f = g

\* No account is in two tasks of this scenario.
OwnKeys == \A t, u \in Tasks : t # u => t.keys \cap u.keys = {}

SingleInv == OwnKeys => \A u \in Tasks : Single(u)

\* The new follower has not begun.
Fresh ==
    /\ New \notin ReadyMap
    /\ \A m \in net : ~(m.type = "ready" /\ m.fid = New) /\ ~(m.type = "txs" /\ m.to = New)
    /\ \A k \in Key : state[New][k] = Missing

FreshInv == Cardinality(Tasks) = 1 => \A u \in Tasks : OnItsWay(u) => Fresh

\* The goroutines that have ended are no more than the tasks whose accounts have been sent to
\* the new follower and are not waited for any more: each has forwarded another one's.
Over == {t \in Tasks : pc[t] = "over"}
Delivered(u) ==
    \/ \E m \in net : m.type = "data" /\ Carries(m, u)
    \/ \A k \in u.keys : state[New][k] >= Start[u.from][k]
Waited(u) ==
    \/ pc[u] = "request"
    \/ \E m \in net : m.type # "data" /\ Carries(m, u)
    \/ \E f \in Follower : Kept(f, u)
Done == {u \in Tasks : Delivered(u) /\ ~Waited(u)}

DoneInv ==
    /\ joined => Over = Tasks
    /\ OwnKeys /\ ~MayLose /\ ~locked => Cardinality(Over) <= Cardinality(Done)

IInv == TypeInv /\ ReadInv /\ ReadyInv /\ SingleInv /\ FreshInv /\ DoneInv

-----------------------------------------------------------------------------
(* What the scenarios are.                                                 *)

Facts ==
    /\ N \in Nat \ {0} /\ New \in Follower /\ Init_Balance \in Nat
    /\ Start \in [Follower -> [Key -> Nat \cup {Missing}]]
    /\ \A k \in Key : Start[New][k] = Missing
    /\ \A t \in Tasks : t.from \in Follower /\ t.to = New /\ t.keys \subseteq Key /\ t.keys # {}
    /\ IsFiniteSet(Tasks) /\ MaxDeposits \in Nat

\* What ScenarioTypes says of the scenario that is under way.
LEMMA ScenarioFacts ==
    ASSUME ScenarioTypes, scenario \in Scenarios
    PROVE  Facts
<1>1. N \in Nat \ {0} /\ New \in Follower /\ Init_Balance \in Nat
  BY DEF ScenarioTypes, New, Follower
<1>2. /\ scenario.start \in [Follower -> [Key -> Nat \cup {Missing}]]
      /\ \A k \in Key : scenario.start[New][k] = Missing
      /\ scenario.tasks \subseteq [from : Follower, to : {New}, keys : (SUBSET Key) \ {{}}]
      /\ IsFiniteSet(scenario.tasks) /\ scenario.deposits \in Nat
  BY Zenon DEF ScenarioTypes
<1>3. \A t \in Tasks : t.from \in Follower /\ t.to = New /\ t.keys \subseteq Key /\ t.keys # {}
  BY <1>2 DEF Tasks
<1> QED
  BY Zenon, <1>1, <1>2, <1>3 DEF Facts, Tasks, Start, MaxDeposits

\* An answer has entries, so that it is not the empty one.
LEMMA AnswerHasKeys ==
    ASSUME Facts, NEW u \in Tasks, NEW v, IsAnswerOf(v, u)
    PROVE  v # NoAnswer /\ DOMAIN v = u.keys /\ IsAnswer(v)
<1>1. DOMAIN v = u.keys /\ v \in [u.keys -> Nat]
  BY Zenon DEF IsAnswerOf
<1>2. DOMAIN NoAnswer = {}
  BY Zenon DEF NoAnswer
<1>3. u.keys # {} /\ u.keys \subseteq Key
  BY Zenon DEF Facts
<1> QED
  BY Zenon, <1>1, <1>2, <1>3 DEF IsAnswer

\* An empty table entry answers for no account.
LEMMA NoKeys == NoAnswer = [k \in {} |-> 0] /\ DOMAIN NoAnswer = {} /\ IsAnswer(NoAnswer)
BY Zenon DEF NoAnswer, IsAnswer

\* A task that is the only one shares no account.
LEMMA OneTask == ASSUME Facts, Cardinality(Tasks) = 1 PROVE OwnKeys
<1>1. PICK t : Tasks = {t}
  BY Zenon, FS_Singleton DEF Facts
<1> QED
  BY Zenon, <1>1 DEF OwnKeys

-----------------------------------------------------------------------------
(* Steps that leave parts of the state alone.                              *)

\* A step that sends no request, answer or data on and fills no entry.
Calm ==
    /\ UNCHANGED scenario
    /\ \A u \in Tasks : pc'[u] = "request" => pc[u] = "request"
    /\ \A m \in net' : m \in net \/ m.type = "ready" \/ m.type = "txs"
    /\ \A f \in Follower : \/ ReceiveRequestDataMap'[f] = ReceiveRequestDataMap[f]
                           \/ ReceiveRequestDataMap'[f] = NoAnswer

\* Nothing is put on its way by such a step.
LEMMA CalmSteps ==
    ASSUME Facts, SingleInv, Calm
    PROVE  /\ SingleInv'
           /\ \A u \in Tasks : (OnItsWay(u)' => OnItsWay(u)) /\ (Waited(u)' => Waited(u))
<1>1. \A u \in Tasks : \A m \in net' : Carries(m, u) => m \in net
  BY Zenon DEF Calm, Carries
<1>2. \A u \in Tasks : \A f \in Follower : Kept(f, u)' => Kept(f, u)
  BY Zenon, NoKeys DEF Calm, Kept, Facts
<1>3. Tasks' = Tasks /\ OwnKeys' = OwnKeys
  BY Zenon DEF Calm, Tasks, OwnKeys
<1>4. \A u \in Tasks : pc'[u] = "request" => pc[u] = "request"
  BY Zenon DEF Calm
<1>5. \A u \in Tasks : Single(u) => Single(u)'
  BY Zenon, <1>1, <1>2, <1>4 DEF Single
<1> QED
  BY Zenon, <1>1, <1>2, <1>3, <1>4, <1>5 DEF SingleInv, OnItsWay, Waited

\* The new follower stays as it is, and says nothing.
LEMMA NewUntouched ==
    ASSUME Facts, ReadyInv, FreshInv, UNCHANGED <<scenario, ReadyMap, state>>,
           \A m \in net' : m \in net \/ m.type \in {"request", "response", "data"},
           OwnKeys => \A u \in Tasks : OnItsWay(u)' => OnItsWay(u)
    PROVE  ReadyInv' /\ FreshInv'
<1>1. Tasks' = Tasks
  BY Zenon DEF Tasks
<1>2. \A m \in net' : m.type = "ready" \/ m.type = "txs" => m \in net
  BY Zenon
<1>3. Fresh => Fresh'
  BY Zenon, <1>2 DEF Fresh
<1>4. FreshInv'
  BY Zenon, <1>1, <1>3, OneTask DEF FreshInv
<1>5. ReadyInv'
  BY Zenon, <1>1, <1>2 DEF ReadyInv
<1> QED
  BY Zenon, <1>4, <1>5

\* No goroutine ends, and what has been delivered stays so.
LEMMA DoneKept ==
    ASSUME Facts, DoneInv, UNCHANGED scenario, Over' = Over, locked => locked',
           joined' => joined \/ Over = Tasks,
           OwnKeys => \A u \in Tasks : Waited(u)' => Waited(u),
           OwnKeys /\ ~MayLose => \A u \in Tasks : Delivered(u) => Delivered(u)'
    PROVE  DoneInv'
<1>1. Tasks' = Tasks /\ OwnKeys' = OwnKeys /\ MayLose' = MayLose
  BY Zenon DEF Tasks, OwnKeys, MayLose
<1>2. joined' => Over' = Tasks'
  BY Zenon, <1>1 DEF DoneInv
<1>3. ASSUME OwnKeys, ~MayLose, ~locked' PROVE Cardinality(Over') <= Cardinality(Done')
  <2>1. Done \subseteq Done'
    BY Zenon, <1>1, <1>3 DEF Done
  <2>2. IsFiniteSet(Done') /\ IsFiniteSet(Over)
    <3>1. Done' \subseteq Tasks /\ Over \subseteq Tasks
      BY Zenon, <1>1 DEF Done, Over
    <3> QED
      BY Zenon, <3>1, FS_Subset DEF Facts
  <2>3. Cardinality(Done) <= Cardinality(Done') /\ IsFiniteSet(Done)
    BY Zenon, <2>1, <2>2, FS_Subset
  <2>4. Cardinality(Over) <= Cardinality(Done)
    BY Zenon, <1>3 DEF DoneInv
  <2>5. Cardinality(Over) \in Nat /\ Cardinality(Done) \in Nat /\ Cardinality(Done') \in Nat
    BY Zenon, <2>2, <2>3, FS_CardinalityType
  <2>6. Cardinality(Over) <= Cardinality(Done')
    BY <2>3, <2>4, <2>5
  <2> QED
    BY Zenon, <2>6
<1> QED
  BY Zenon, <1>1, <1>2, <1>3 DEF DoneInv

-----------------------------------------------------------------------------
(* The goroutines of the tasks.                                            *)

\* Messages stay what they are, and so does a table that is left alone.
LEMMA TypesKept ==
    ASSUME TypeInv, UNCHANGED scenario, \A m \in net' : m \in net \/ IsMessage(m)
    PROVE  /\ MessagesOK'
           /\ UNCHANGED ReceiveRequestDataMap => AnswersOK'
           /\ UNCHANGED state => SourcesGrow'
<1>1. Tasks' = Tasks /\ Start' = Start
  BY Zenon DEF Tasks, Start
<1>2. \A v, u : IsAnswerOf(v, u)' <=> IsAnswerOf(v, u)
  BY Zenon, <1>1 DEF IsAnswerOf
<1>3. \A m : IsMessage(m) => IsMessage(m)'
  BY Zenon, <1>1, <1>2 DEF IsMessage
<1>4. MessagesOK'
  BY Zenon, <1>3 DEF TypeInv, MessagesOK
<1>5. ASSUME UNCHANGED ReceiveRequestDataMap PROVE AnswersOK'
  BY Zenon, <1>1, <1>2, <1>5 DEF TypeInv, AnswersOK
<1>6. ASSUME UNCHANGED state PROVE SourcesGrow'
  BY Zenon, <1>1, <1>6 DEF TypeInv, SourcesGrow
<1> QED
  BY Zenon, <1>4, <1>5, <1>6

\* A task asks for its accounts: they are on their way in the request and nowhere else.
LEMMA RequestStep ==
    ASSUME Facts, IInv, UNCHANGED scenario, NEW t \in Tasks, Request(t)
    PROVE  IInv'
<1> DEFINE q == [type |-> "request", to |-> t.from, keys |-> t.keys]
<1>1. /\ pc[t] = "request" /\ pc' = [pc EXCEPT ![t] = "poll"] /\ net' = net \cup {q}
      /\ UNCHANGED <<ReceiveRequestDataMap, locked, ReadyMap, joined, FollowerID, state, deposits>>
  BY Zenon DEF Request
<1>2. Tasks' = Tasks /\ OwnKeys' = OwnKeys /\ OwnSources' = OwnSources /\ MaxDeposits' = MaxDeposits
  BY Zenon DEF Tasks, OwnKeys, OwnSources, MaxDeposits
<1>3. pc \in [Tasks -> {"request", "poll", "read", "over"}]
  BY Zenon DEF IInv, TypeInv, TypeOK
<1>4. pc' \in [Tasks -> {"request", "poll", "read", "over"}] /\ pc'[t] = "poll"
      /\ \A u \in Tasks \ {t} : pc'[u] = pc[u]
  BY Zenon, <1>1, <1>3
<1>5. q.type = "request" /\ q.to = t.from /\ q.keys = t.keys
  BY Zenon
<1>6. IsMessage(q)
  BY <1>5 DEF IsMessage
<1> HIDE DEF q
<1>7. TypeInv'
  <2>1. \A m \in net' : m \in net \/ IsMessage(m)
    BY Zenon, <1>1, <1>6
  <2>2. MessagesOK' /\ AnswersOK' /\ SourcesGrow'
    BY Zenon, <1>1, <2>1, TypesKept DEF IInv
  <2>3. TypeOK'
    BY Zenon, <1>1, <1>2, <1>4 DEF IInv, TypeInv, TypeOK
  <2> QED
    BY Zenon, <2>2, <2>3 DEF IInv, TypeInv
<1>8. \A u : Carries(q, u) <=> t.keys = u.keys
  BY <1>5 DEF Carries
<1>9. \A u \in Tasks : \A f : Kept(f, u)' <=> Kept(f, u)
  BY Zenon, <1>1 DEF Kept
<1>10. ASSUME OwnKeys, NEW u \in Tasks, t.keys = u.keys PROVE u = t
  BY Zenon, <1>10 DEF OwnKeys, Facts
<1>11. ASSUME OwnKeys, NEW u \in Tasks
       PROVE  (OnItsWay(u)' => OnItsWay(u)) /\ (Waited(u)' => Waited(u)) /\ Single(u)'
  <2>1. Single(u)
    BY Zenon, <1>11 DEF IInv, SingleInv
  <2>2. \A m \in net' : m \in net \/ m = q
    BY Zenon, <1>1
  <2>3. CASE u = t
    BY Zenon, <1>1, <1>4, <1>9, <2>1, <2>2, <2>3 DEF Single, OnItsWay, Waited
  <2>4. CASE u # t
    <3>1. ~Carries(q, u) /\ pc'[u] = pc[u]
      BY Zenon, <1>4, <1>8, <1>10, <1>11, <2>4
    <3> QED
      BY Zenon, <1>9, <2>1, <2>2, <3>1 DEF Single, OnItsWay, Waited
  <2> QED
    BY Zenon, <2>3, <2>4
<1>12. SingleInv'
  BY Zenon, <1>2, <1>11 DEF SingleInv
<1>13. ReadInv'
  BY Zenon, <1>1, <1>2, <1>4 DEF IInv, ReadInv
<1>14. ReadyInv' /\ FreshInv'
  <2>1. \A m \in net' : m \in net \/ m.type \in {"request", "response", "data"}
    BY Zenon, <1>1, <1>5
  <2> QED
    BY Zenon, <1>1, <1>11, <2>1, NewUntouched DEF IInv
<1>15. DoneInv'
  <2>1. Over' = Over
    BY Zenon, <1>1, <1>2, <1>4 DEF Over
  <2>2. \A u \in Tasks : Delivered(u) => Delivered(u)'
    BY Zenon, <1>1 DEF Delivered, Start
  <2> QED
    BY Zenon, <1>1, <1>11, <2>1, <2>2, DoneKept DEF IInv
<1> QED
  BY Zenon, <1>7, <1>12, <1>13, <1>14, <1>15 DEF IInv

\* A step that sends nothing and leaves the followers and the answers alone.
LEMMA LittleChanges ==
    ASSUME Facts, IInv, UNCHANGED <<scenario, ReceiveRequestDataMap, ReadyMap, state>>, net' \subseteq net,
           \A u \in Tasks : pc'[u] = "request" => pc[u] = "request"
    PROVE  /\ MessagesOK' /\ AnswersOK' /\ SourcesGrow' /\ SingleInv' /\ ReadyInv' /\ FreshInv'
           /\ \A u \in Tasks : Waited(u)' => Waited(u)
<1>1. Calm
  BY Zenon DEF Calm
<1>2. SingleInv' /\ \A u \in Tasks : (OnItsWay(u)' => OnItsWay(u)) /\ (Waited(u)' => Waited(u))
  BY Zenon, <1>1, CalmSteps DEF IInv
<1>3. MessagesOK' /\ AnswersOK' /\ SourcesGrow'
  BY Zenon, TypesKept DEF IInv
<1>4. ReadyInv' /\ FreshInv'
  BY Zenon, <1>2, NewUntouched DEF IInv
<1> QED
  BY Zenon, <1>2, <1>3, <1>4

\* A task finds an entry, and will still find it.
LEMMA FoundStep ==
    ASSUME Facts, IInv, UNCHANGED scenario, NEW t \in Tasks, Found(t)
    PROVE  IInv'
<1>1. /\ pc[t] = "poll" /\ pc' = [pc EXCEPT ![t] = "read"] /\ ReceiveRequestDataMap[t.from] # NoAnswer
      /\ UNCHANGED <<ReceiveRequestDataMap, locked, ReadyMap, joined, FollowerID, state, deposits, net>>
  BY Zenon DEF Found, Answered
<1>2. Tasks' = Tasks /\ OwnSources' = OwnSources /\ MaxDeposits' = MaxDeposits
  BY Zenon DEF Tasks, OwnSources, MaxDeposits
<1>3. pc \in [Tasks -> {"request", "poll", "read", "over"}]
  BY Zenon DEF IInv, TypeInv, TypeOK
<1>4. pc' \in [Tasks -> {"request", "poll", "read", "over"}] /\ pc'[t] = "read"
      /\ \A u \in Tasks \ {t} : pc'[u] = pc[u]
  BY Zenon, <1>1, <1>3
<1>5. /\ MessagesOK' /\ AnswersOK' /\ SourcesGrow' /\ SingleInv' /\ ReadyInv' /\ FreshInv'
      /\ \A u \in Tasks : Waited(u)' => Waited(u)
  <2>1. \A u \in Tasks : pc'[u] = "request" => pc[u] = "request"
    BY Zenon, <1>4
  <2>2. net' \subseteq net
    BY Zenon, <1>1
  <2> QED
    BY Zenon, <1>1, <2>1, <2>2, LittleChanges
<1>6. TypeOK'
  BY Zenon, <1>1, <1>2, <1>4 DEF IInv, TypeInv, TypeOK
<1>7. ReadInv'
  BY Zenon, <1>1, <1>2, <1>4 DEF IInv, ReadInv
<1>8. DoneInv'
  <2>1. Over' = Over
    BY Zenon, <1>1, <1>2, <1>4 DEF Over
  <2>2. \A u \in Tasks : Delivered(u) => Delivered(u)'
    BY Zenon, <1>1 DEF Delivered, Start
  <2> QED
    BY Zenon, <1>1, <1>5, <2>1, <2>2, DoneKept DEF IInv
<1> QED
  BY Zenon, <1>5, <1>6, <1>7, <1>8 DEF IInv, TypeInv

\* A task that finds its entry gone has not a source of its own.
LEMMA ForwardNothingStep ==
    ASSUME Facts, IInv, UNCHANGED scenario, NEW t \in Tasks, ForwardNothing(t)
    PROVE  IInv'
<1>1. /\ pc[t] = "read" /\ pc' = [pc EXCEPT ![t] = "over"] /\ ReceiveRequestDataMap[t.from] = NoAnswer /\ locked'
      /\ locked' = TRUE
      /\ UNCHANGED <<ReceiveRequestDataMap, ReadyMap, joined, FollowerID, state, deposits, net>>
  BY Zenon DEF ForwardNothing
<1>2. Tasks' = Tasks /\ OwnSources' = OwnSources /\ MaxDeposits' = MaxDeposits
  BY Zenon DEF Tasks, OwnSources, MaxDeposits
<1>3. pc \in [Tasks -> {"request", "poll", "read", "over"}]
  BY Zenon DEF IInv, TypeInv, TypeOK
<1>4. pc' \in [Tasks -> {"request", "poll", "read", "over"}] /\ pc'[t] = "over"
      /\ \A u \in Tasks \ {t} : pc'[u] = pc[u]
  BY Zenon, <1>1, <1>3
<1>5. MessagesOK' /\ AnswersOK' /\ SourcesGrow' /\ SingleInv' /\ ReadyInv' /\ FreshInv'
  <2>1. \A u \in Tasks : pc'[u] = "request" => pc[u] = "request"
    BY Zenon, <1>4
  <2>2. net' \subseteq net
    BY Zenon, <1>1
  <2> QED
    BY Zenon, <1>1, <2>1, <2>2, LittleChanges
<1>6. TypeOK'
  BY Zenon, <1>1, <1>2, <1>4 DEF IInv, TypeInv, TypeOK
<1>7. ReadInv'
  BY Zenon, <1>1, <1>2 DEF IInv, ReadInv
<1>8. DoneInv'
  <2>1. ~joined
    BY Zenon, <1>1 DEF IInv, DoneInv, Over
  <2> QED
    BY Zenon, <1>1, <2>1 DEF DoneInv
<1> QED
  BY Zenon, <1>5, <1>6, <1>7, <1>8 DEF IInv, TypeInv

\* AddNode returns when all goroutines have ended.
LEMMA JoinReturnsStep ==
    ASSUME Facts, IInv, UNCHANGED scenario, JoinReturns
    PROVE  IInv'
<1>1. /\ joined' = TRUE /\ \A t \in Tasks : pc[t] = "over"
      /\ UNCHANGED <<pc, ReceiveRequestDataMap, locked, ReadyMap, FollowerID, state, deposits, net>>
  BY Zenon DEF JoinReturns
<1>2. Tasks' = Tasks /\ OwnSources' = OwnSources /\ MaxDeposits' = MaxDeposits
  BY Zenon DEF Tasks, OwnSources, MaxDeposits
<1>3. /\ MessagesOK' /\ AnswersOK' /\ SourcesGrow' /\ SingleInv' /\ ReadyInv' /\ FreshInv'
      /\ \A u \in Tasks : Waited(u)' => Waited(u)
  <2>1. net' \subseteq net /\ \A u \in Tasks : pc'[u] = "request" => pc[u] = "request"
    BY Zenon, <1>1
  <2> QED
    BY Zenon, <1>1, <2>1, LittleChanges
<1>4. TypeOK'
  BY Zenon, <1>1, <1>2 DEF IInv, TypeInv, TypeOK
<1>5. ReadInv'
  BY Zenon, <1>1, <1>2 DEF IInv, ReadInv
<1>6. DoneInv'
  <2>1. Over' = Over /\ Over = Tasks
    BY Zenon, <1>1, <1>2 DEF Over
  <2>2. \A u \in Tasks : Delivered(u) => Delivered(u)'
    BY Zenon, <1>1 DEF Delivered, Start
  <2> QED
    BY Zenon, <1>1, <1>3, <2>1, <2>2, DoneKept DEF IInv
<1> QED
  BY Zenon, <1>3, <1>4, <1>5, <1>6 DEF IInv, TypeInv

\* A task forwards what it finds, be it its own or another's: the accounts of one task more
\* have been sent to the new follower, for the one goroutine more that has ended.
LEMMA ForwardStep ==
    ASSUME Facts, IInv, UNCHANGED scenario, NEW t \in Tasks, Forward(t)
    PROVE  IInv'
<1> DEFINE v == ReceiveRequestDataMap[t.from]
           d == [type |-> "data", to |-> t.to, values |-> v]
<1>1. /\ pc[t] = "read" /\ pc' = [pc EXCEPT ![t] = "over"] /\ net' = net \cup {d} /\ v # NoAnswer
      /\ ReceiveRequestDataMap' = [ReceiveRequestDataMap EXCEPT ![t.from] = NoAnswer]
      /\ UNCHANGED <<locked, ReadyMap, joined, FollowerID, state, deposits>>
  BY Zenon DEF Forward
<1>2. Tasks' = Tasks /\ OwnKeys' = OwnKeys /\ OwnSources' = OwnSources /\ MaxDeposits' = MaxDeposits
      /\ MayLose' = MayLose
  BY Zenon DEF Tasks, OwnKeys, OwnSources, MaxDeposits, MayLose
<1>3. pc \in [Tasks -> {"request", "poll", "read", "over"}]
  BY Zenon DEF IInv, TypeInv, TypeOK
<1>4. pc' \in [Tasks -> {"request", "poll", "read", "over"}] /\ pc'[t] = "over"
      /\ \A u \in Tasks \ {t} : pc'[u] = pc[u]
  BY Zenon, <1>1, <1>3
<1>5. t.from \in Follower /\ t.to = New
  BY Zenon DEF Facts
<1>6. PICK u \in Tasks : IsAnswerOf(v, u)
  BY Zenon, <1>1, <1>5 DEF IInv, TypeInv, AnswersOK
<1>7. d.type = "data" /\ d.to = New /\ d.values = v
  BY Zenon, <1>5
<1>8. IsMessage(d)
  BY <1>6, <1>7 DEF IsMessage
<1>9. /\ ReceiveRequestDataMap' = [f \in Follower |-> ReceiveRequestDataMap'[f]]
      /\ ReceiveRequestDataMap'[t.from] = NoAnswer
      /\ \A f \in Follower \ {t.from} : ReceiveRequestDataMap'[f] = ReceiveRequestDataMap[f]
  BY Zenon, <1>1, <1>5 DEF IInv, TypeInv, AnswersOK
<1>10. DOMAIN v = u.keys
  BY Zenon, <1>6, AnswerHasKeys
<1>11. \A w : Carries(d, w) <=> Kept(t.from, w)
  BY <1>7 DEF Carries, Kept
<1> HIDE DEF d
<1>12. TypeInv'
  <2>1. \A m \in net' : m \in net \/ IsMessage(m)
    BY Zenon, <1>1, <1>8
  <2>2. MessagesOK' /\ SourcesGrow'
    BY Zenon, <1>1, <2>1, TypesKept DEF IInv
  <2>3. AnswersOK'
    BY Zenon, <1>2, <1>9 DEF IInv, TypeInv, AnswersOK, IsAnswerOf, Start
  <2>4. \A f \in Follower : IsAnswer(ReceiveRequestDataMap'[f])
    BY Zenon, <1>9, NoKeys DEF IInv, TypeInv, TypeOK
  <2>5. TypeOK'
    BY Zenon, <1>1, <1>2, <1>4, <2>4 DEF IInv, TypeInv, TypeOK, IsAnswer
  <2> QED
    BY Zenon, <2>2, <2>3, <2>5 DEF IInv, TypeInv
<1>13. \A w \in Tasks : \A f \in Follower : Kept(f, w)' <=> Kept(f, w) /\ f # t.from
  BY Zenon, <1>9, NoKeys DEF Kept, Facts
<1>14. \A m \in net' : m \in net \/ m = d
  BY Zenon, <1>1
<1>15. \A w \in Tasks : pc'[w] = "request" <=> pc[w] = "request"
  BY Zenon, <1>1, <1>4
<1>16. \A w \in Tasks : (OnItsWay(w)' => OnItsWay(w)) /\ (Waited(w)' => Waited(w))
  BY Zenon, <1>5, <1>7, <1>11, <1>13, <1>14, <1>15 DEF OnItsWay, Waited
<1>17. SingleInv'
  <2>1. ASSUME NEW w \in Tasks, Single(w) PROVE Single(w)'
    BY Zenon, <1>5, <1>11, <1>13, <1>14, <1>15, <2>1 DEF Single
  <2> QED
    BY Zenon, <1>2, <2>1 DEF IInv, SingleInv
<1>18. ReadInv'
  <2>1. ASSUME OwnSources, NEW w \in Tasks, pc'[w] = "read"
        PROVE  ReceiveRequestDataMap'[w.from] # NoAnswer
    <3>1. w # t /\ pc[w] = "read"
      BY Zenon, <1>4, <2>1
    <3>2. w.from # t.from /\ w.from \in Follower
      BY Zenon, <2>1, <3>1 DEF OwnSources, Facts
    <3> QED
      BY Zenon, <1>9, <2>1, <3>1, <3>2 DEF IInv, ReadInv
  <2> QED
    BY Zenon, <1>1, <1>2, <2>1 DEF IInv, ReadInv
<1>19. ReadyInv' /\ FreshInv'
  <2>1. \A m \in net' : m \in net \/ m.type \in {"request", "response", "data"}
    BY Zenon, <1>7, <1>14
  <2> QED
    BY Zenon, <1>1, <1>16, <2>1, NewUntouched DEF IInv
<1>20. ~joined'
  BY Zenon, <1>1 DEF IInv, DoneInv, Over
<1>21. ASSUME OwnKeys, ~MayLose, ~locked PROVE Cardinality(Over') <= Cardinality(Done')
  <2>1. Over' = Over \cup {t} /\ t \notin Over
    BY Zenon, <1>1, <1>2, <1>4 DEF Over
  <2>2. \A w \in Tasks : Delivered(w) => Delivered(w)'
    BY Zenon, <1>1 DEF Delivered, Start
  <2>3. Kept(t.from, u) /\ Single(u)
    BY Zenon, <1>10, <1>21 DEF Kept, IInv, SingleInv
  <2>4. u \notin Done
    BY Zenon, <1>5, <2>3 DEF Done, Waited
  <2>5. Delivered(u)'
    <3>1. d \in net' /\ Carries(d, u)
      BY Zenon, <1>1, <1>11, <2>3
    <3> QED
      BY Zenon, <1>7, <3>1 DEF Delivered
  <2>6. ~Waited(u)'
    BY Zenon, <1>5, <1>7, <1>13, <1>14, <1>15, <2>3 DEF Waited, Single
  <2>7. Done \cup {u} \subseteq Done'
    BY Zenon, <1>2, <1>16, <2>2, <2>5, <2>6 DEF Done
  <2>8. IsFiniteSet(Done') /\ IsFiniteSet(Over) /\ IsFiniteSet(Done)
    <3>1. Done' \subseteq Tasks /\ Over \subseteq Tasks /\ Done \subseteq Tasks
      BY Zenon, <1>2 DEF Done, Over
    <3> QED
      BY Zenon, <3>1, FS_Subset DEF Facts
  <2>9. Cardinality(Over') = Cardinality(Over) + 1 /\ Cardinality(Done \cup {u}) = Cardinality(Done) + 1
    BY Zenon, <2>1, <2>4, <2>8, FS_AddElement
  <2>10. Cardinality(Done \cup {u}) <= Cardinality(Done')
    BY Zenon, <2>7, <2>8, FS_Subset
  <2>11. Cardinality(Over) <= Cardinality(Done)
    BY Zenon, <1>21 DEF IInv, DoneInv
  <2>12. Cardinality(Over) \in Nat /\ Cardinality(Done) \in Nat /\ Cardinality(Done') \in Nat
    BY Zenon, <2>8, FS_CardinalityType
  <2> QED
    BY <2>9, <2>10, <2>11, <2>12
<1>22. DoneInv'
  BY Zenon, <1>1, <1>2, <1>20, <1>21 DEF DoneInv
<1> QED
  BY Zenon, <1>12, <1>17, <1>18, <1>19, <1>22 DEF IInv

-----------------------------------------------------------------------------
(* The handlers.                                                           *)

\* What a follower answers is no less than what it had before the join.
LEMMA BalanceGrows ==
    ASSUME Facts, TypeInv, NEW f \in Follower, NEW k \in Key
    PROVE  Balance(f, k) \in Nat /\ Balance(f, k) >= Start[f][k] /\ Balance(f, k) + 1 >= state[f][k]
<1>1. state[f][k] \in Nat \cup {Missing} /\ Start[f][k] \in Nat \cup {Missing} /\ Init_Balance \in Nat
  <2>1. state[f] \in [Key -> Nat \cup {Missing}] /\ Start[f] \in [Key -> Nat \cup {Missing}]
    BY Zenon DEF TypeInv, TypeOK, Facts
  <2>2. Init_Balance \in Nat
    BY Zenon DEF Facts
  <2> QED
    BY Zenon, <2>1, <2>2
<1>2. f = New => Start[f][k] = Missing
  BY Zenon DEF Facts
<1>3. f # New => state[f][k] >= Start[f][k]
  BY Zenon DEF TypeInv, SourcesGrow
<1> QED
  BY <1>1, <1>2, <1>3 DEF Balance, Missing

\* A follower's id is that of a follower, whether it has been told it or not.
LEMMA IdType == ASSUME TypeInv, NEW f \in Follower PROVE Id(f) \in Follower
BY Zenon DEF TypeInv, TypeOK, Id

\* A follower answers a request: the answer carries what the request did.
LEMMA ProposerRequestStep ==
    ASSUME Facts, IInv, UNCHANGED scenario, NEW m \in net, handleProposerRequest(m)
    PROVE  IInv'
<1> DEFINE v == [k \in m.keys |-> Balance(m.to, k)]
           r == [type |-> "response", fid |-> Id(m.to), values |-> v]
<1>1. /\ m.type = "request" /\ net' = (net \ {m}) \cup {r}
      /\ UNCHANGED <<pc, ReceiveRequestDataMap, locked, ReadyMap, joined, FollowerID, state, deposits>>
  BY Zenon DEF handleProposerRequest
<1>2. Tasks' = Tasks /\ OwnKeys' = OwnKeys /\ OwnSources' = OwnSources /\ MaxDeposits' = MaxDeposits
  BY Zenon DEF Tasks, OwnKeys, OwnSources, MaxDeposits
<1>3. PICK u \in Tasks : m.to = u.from /\ m.keys = u.keys
  BY Zenon, <1>1 DEF IInv, TypeInv, MessagesOK, IsMessage
<1>4. m.to \in Follower /\ m.keys \subseteq Key
  BY Zenon, <1>3 DEF Facts
<1>5. IsAnswerOf(v, u)
  <2>1. \A k \in m.keys : Balance(m.to, k) \in Nat /\ Balance(m.to, k) >= Start[m.to][k]
    BY Zenon, <1>4, BalanceGrows DEF IInv
  <2>2. v \in [u.keys -> Nat] /\ \A k \in u.keys : v[k] >= Start[u.from][k]
    BY Zenon, <1>3, <2>1
  <2> QED
    BY Zenon, <2>2 DEF IsAnswerOf
<1>6. Id(m.to) \in Follower
  BY Zenon, <1>4, IdType DEF IInv
<1>7. r.type = "response" /\ r.fid = Id(m.to) /\ r.values = v
  BY Zenon
<1>8. DOMAIN v = m.keys
  BY Zenon
<1>9. \A w : Carries(r, w) <=> Carries(m, w)
  BY <1>1, <1>7, <1>8 DEF Carries
<1> HIDE DEF r, v
<1>10. IsMessage(r)
  BY <1>5, <1>6, <1>7 DEF IsMessage
<1>11. TypeInv'
  <2>1. \A n \in net' : n \in net \/ IsMessage(n)
    BY Zenon, <1>1, <1>10
  <2>2. MessagesOK' /\ AnswersOK' /\ SourcesGrow'
    BY Zenon, <1>1, <2>1, TypesKept DEF IInv
  <2>3. TypeOK'
    BY Zenon, <1>1, <1>2 DEF IInv, TypeInv, TypeOK
  <2> QED
    BY Zenon, <2>2, <2>3 DEF IInv, TypeInv
<1>12. \A n \in net' : n = r \/ (n \in net /\ n # m)
  BY Zenon, <1>1
<1>13. \A w \in Tasks : \A f : Kept(f, w)' <=> Kept(f, w)
  BY Zenon, <1>1 DEF Kept
<1>14. \A w \in Tasks : (OnItsWay(w)' => OnItsWay(w)) /\ (Waited(w)' => Waited(w))
  <2>1. ASSUME NEW w \in Tasks, NEW n \in net', Carries(n, w)
        PROVE  \E o \in net : Carries(o, w) /\ (n.type # "data" => o.type # "data")
    <3>1. CASE n = r
      BY Zenon, <1>1, <1>9, <2>1, <3>1
    <3>2. CASE n # r
      BY Zenon, <1>12, <2>1, <3>2
    <3> QED
      BY Zenon, <3>1, <3>2
  <2>2. \A w \in Tasks : (\E n \in net' : Carries(n, w)) => (\E n \in net : Carries(n, w))
    BY Zenon, <2>1
  <2>3. \A w \in Tasks : (\E n \in net' : n.type # "data" /\ Carries(n, w))
                           => (\E n \in net : n.type # "data" /\ Carries(n, w))
    BY Zenon, <2>1
  <2> QED
    BY Zenon, <1>1, <1>13, <2>2, <2>3 DEF OnItsWay, Waited
<1>15. SingleInv'
  <2>1. ASSUME NEW w \in Tasks, Single(w) PROVE Single(w)'
    <3>1. CASE Carries(m, w)
      <4>1. \A n \in net' : Carries(n, w) => n = r
        BY Zenon, <1>12, <2>1, <3>1 DEF Single
      <4>2. pc[w] # "request" /\ \A f \in Follower : ~Kept(f, w)
        BY Zenon, <2>1, <3>1 DEF Single
      <4> QED
        BY Zenon, <1>1, <1>13, <4>1, <4>2 DEF Single
    <3>2. CASE ~Carries(m, w)
      <4>1. \A n \in net' : Carries(n, w) => n \in net
        BY Zenon, <1>9, <1>12, <3>2
      <4> QED
        BY Zenon, <1>1, <1>13, <2>1, <4>1 DEF Single
    <3> QED
      BY Zenon, <3>1, <3>2
  <2> QED
    BY Zenon, <1>2, <2>1 DEF IInv, SingleInv
<1>16. ReadInv'
  BY Zenon, <1>1, <1>2 DEF IInv, ReadInv
<1>17. ReadyInv' /\ FreshInv'
  <2>1. \A n \in net' : n \in net \/ n.type \in {"request", "response", "data"}
    BY Zenon, <1>7, <1>12
  <2> QED
    BY Zenon, <1>1, <1>14, <2>1, NewUntouched DEF IInv
<1>18. DoneInv'
  <2>1. Over' = Over
    BY Zenon, <1>1, <1>2 DEF Over
  <2>2. \A w \in Tasks : Delivered(w) => Delivered(w)'
    BY Zenon, <1>1 DEF Delivered, Start
  <2> QED
    BY Zenon, <1>1, <1>14, <2>1, <2>2, DoneKept DEF IInv
<1> QED
  BY Zenon, <1>11, <1>15, <1>16, <1>17, <1>18 DEF IInv

\* The proposer keeps an answer: it is in the table, and what was there is lost.
LEMMA FollowerResponseStep ==
    ASSUME Facts, IInv, UNCHANGED scenario, NEW m \in net, handleFollowerResponse(m)
    PROVE  IInv'
<1>1. /\ m.type = "response" /\ net' = net \ {m}
      /\ ReceiveRequestDataMap' = [ReceiveRequestDataMap EXCEPT ![m.fid] = m.values]
      /\ UNCHANGED <<pc, locked, ReadyMap, joined, FollowerID, state, deposits>>
  BY Zenon DEF handleFollowerResponse
<1>2. Tasks' = Tasks /\ OwnKeys' = OwnKeys /\ OwnSources' = OwnSources /\ MaxDeposits' = MaxDeposits
  BY Zenon DEF Tasks, OwnKeys, OwnSources, MaxDeposits
<1>3. m.fid \in Follower /\ \E u \in Tasks : IsAnswerOf(m.values, u)
  BY Zenon, <1>1 DEF IInv, TypeInv, MessagesOK, IsMessage
<1>4. m.values # NoAnswer /\ IsAnswer(m.values)
  BY Zenon, <1>3, AnswerHasKeys
<1>5. /\ ReceiveRequestDataMap' = [f \in Follower |-> ReceiveRequestDataMap'[f]]
      /\ ReceiveRequestDataMap'[m.fid] = m.values
      /\ \A f \in Follower \ {m.fid} : ReceiveRequestDataMap'[f] = ReceiveRequestDataMap[f]
  BY Zenon, <1>1, <1>3 DEF IInv, TypeInv, AnswersOK
<1>6. TypeInv'
  <2>1. MessagesOK' /\ SourcesGrow'
    BY Zenon, <1>1, TypesKept DEF IInv
  <2>2. AnswersOK'
    BY Zenon, <1>2, <1>3, <1>5 DEF IInv, TypeInv, AnswersOK, IsAnswerOf, Start
  <2>3. \A f \in Follower : IsAnswer(ReceiveRequestDataMap'[f])
    BY Zenon, <1>4, <1>5 DEF IInv, TypeInv, TypeOK
  <2>4. TypeOK'
    BY Zenon, <1>1, <1>2, <2>3 DEF IInv, TypeInv, TypeOK, IsAnswer
  <2> QED
    BY Zenon, <2>1, <2>2, <2>4 DEF IInv, TypeInv
<1>7. \A w \in Tasks : \A f \in Follower : Kept(f, w)' => (Kept(f, w) /\ f # m.fid) \/ (f = m.fid /\ Carries(m, w))
  BY Zenon, <1>1, <1>5 DEF Kept, Carries
<1>8. \A w \in Tasks : (OnItsWay(w)' => OnItsWay(w)) /\ (Waited(w)' => Waited(w))
  BY Zenon, <1>1, <1>7 DEF OnItsWay, Waited
<1>9. SingleInv'
  <2>1. ASSUME NEW w \in Tasks, Single(w) PROVE Single(w)'
    <3>1. \A n \in net' : n \in net /\ n # m
      BY Zenon, <1>1
    <3>2. CASE Carries(m, w)
      <4>1. (\A n \in net' : ~Carries(n, w)) /\ (\A f \in Follower : ~Kept(f, w)) /\ pc[w] # "request"
        BY Zenon, <2>1, <3>1, <3>2 DEF Single
      <4> QED
        BY Zenon, <1>1, <1>7, <4>1 DEF Single
    <3>3. CASE ~Carries(m, w)
      <4>1. \A f \in Follower : Kept(f, w)' => Kept(f, w)
        BY Zenon, <1>7, <3>3
      <4> QED
        BY Zenon, <1>1, <2>1, <3>1, <4>1 DEF Single
    <3> QED
      BY Zenon, <3>2, <3>3
  <2> QED
    BY Zenon, <1>2, <2>1 DEF IInv, SingleInv
<1>10. ReadInv'
  BY Zenon, <1>1, <1>2, <1>4, <1>5 DEF IInv, ReadInv, Facts
<1>11. ReadyInv' /\ FreshInv'
  BY Zenon, <1>1, <1>8, NewUntouched DEF IInv
<1>12. DoneInv'
  <2>1. Over' = Over
    BY Zenon, <1>1, <1>2 DEF Over
  <2>2. \A w \in Tasks : Delivered(w) => Delivered(w)'
    BY Zenon, <1>1 DEF Delivered, Start
  <2> QED
    BY Zenon, <1>1, <1>8, <2>1, <2>2, DoneKept DEF IInv
<1> QED
  BY Zenon, <1>6, <1>9, <1>10, <1>11, <1>12 DEF IInv

\* The new follower learns its id; a message is lost.
LEMMA IdAndLossSteps ==
    ASSUME Facts, IInv, UNCHANGED scenario, NEW m \in net, handleProposerAllocateFID(m) \/ Lose(m)
    PROVE  IInv'
<1>1. /\ net' = net \ {m} /\ (FollowerID' = FollowerID \/ FollowerID' = New)
      /\ m.type = "fid" \/ MayLose
      /\ UNCHANGED <<pc, ReceiveRequestDataMap, locked, ReadyMap, joined, state, deposits>>
  BY Zenon DEF handleProposerAllocateFID, Lose, IInv, TypeInv, MessagesOK, IsMessage
<1>2. Tasks' = Tasks /\ OwnSources' = OwnSources /\ MaxDeposits' = MaxDeposits
  BY Zenon DEF Tasks, OwnSources, MaxDeposits
<1>3. /\ MessagesOK' /\ AnswersOK' /\ SourcesGrow' /\ SingleInv' /\ ReadyInv' /\ FreshInv'
      /\ \A u \in Tasks : Waited(u)' => Waited(u)
  <2>1. net' \subseteq net /\ \A u \in Tasks : pc'[u] = "request" => pc[u] = "request"
    BY Zenon, <1>1
  <2> QED
    BY Zenon, <1>1, <2>1, LittleChanges
<1>4. TypeOK'
  BY Zenon, <1>1, <1>2 DEF IInv, TypeInv, TypeOK, Facts
<1>5. ReadInv'
  BY Zenon, <1>1, <1>2 DEF IInv, ReadInv
<1>6. DoneInv'
  <2>1. Over' = Over
    BY Zenon, <1>1, <1>2 DEF Over
  <2>2. ~MayLose => \A u \in Tasks : Delivered(u) => Delivered(u)'
    BY Zenon, <1>1 DEF Delivered, Start
  <2> QED
    BY Zenon, <1>1, <1>3, <2>1, <2>2, DoneKept DEF IInv
<1> QED
  BY Zenon, <1>3, <1>4, <1>5, <1>6 DEF IInv, TypeInv

\* The new follower stores data: the accounts of a task have arrived, and it says so.
LEMMA AllocateDataStep ==
    ASSUME Facts, IInv, UNCHANGED scenario, NEW m \in net, handleProposerAllocateData(m)
    PROVE  IInv'
<1> DEFINE r == [type |-> "ready", fid |-> Id(m.to)]
<1>1. /\ m.type = "data" /\ net' = (net \ {m}) \cup {r}
      /\ state' = [state EXCEPT ![m.to] = [k \in Key |-> IF k \in DOMAIN m.values THEN m.values[k] ELSE @[k]]]
      /\ UNCHANGED <<pc, ReceiveRequestDataMap, locked, ReadyMap, joined, FollowerID, deposits>>
  BY Zenon DEF handleProposerAllocateData
<1>2. /\ Tasks' = Tasks /\ OwnKeys' = OwnKeys /\ OwnSources' = OwnSources /\ MaxDeposits' = MaxDeposits
      /\ Start' = Start
  BY Zenon DEF Tasks, OwnKeys, OwnSources, MaxDeposits, Start
<1>3. m.to = New /\ \E u \in Tasks : IsAnswerOf(m.values, u)
  BY Zenon, <1>1 DEF IInv, TypeInv, MessagesOK, IsMessage
<1>4. PICK u \in Tasks : IsAnswerOf(m.values, u)
  BY Zenon, <1>3
<1>5. DOMAIN m.values = u.keys /\ m.values \in [u.keys -> Nat] /\ New \in Follower /\ u.keys \subseteq Key
      /\ \A k \in u.keys : m.values[k] >= Start[u.from][k]
  BY Zenon, <1>4, AnswerHasKeys DEF IsAnswerOf, Facts
<1>6. state \in [Follower -> [Key -> Nat \cup {Missing}]]
  BY Zenon DEF IInv, TypeInv, TypeOK
<1>7. /\ state' \in [Follower -> [Key -> Nat \cup {Missing}]]
      /\ \A f \in Follower \ {New} : state'[f] = state[f]
      /\ \A k \in Key : state'[New][k] = IF k \in u.keys THEN m.values[k] ELSE state[New][k]
  <2> DEFINE s == [k \in Key |-> IF k \in DOMAIN m.values THEN m.values[k] ELSE state[New][k]]
  <2>1. state' = [state EXCEPT ![New] = s]
    BY Zenon, <1>1, <1>3
  <2>2. \A k \in Key : s[k] = IF k \in u.keys THEN m.values[k] ELSE state[New][k]
    BY Zenon, <1>5
  <2>3. s \in [Key -> Nat \cup {Missing}]
    <3>1. state[New] \in [Key -> Nat \cup {Missing}]
      BY Zenon, <1>5, <1>6
    <3>2. \A k \in Key : s[k] \in Nat \cup {Missing}
      BY Zenon, <1>5, <2>2, <3>1
    <3> QED
      BY Zenon, <3>2
  <2> HIDE DEF s
  <2> QED
    BY Zenon, <1>5, <1>6, <2>1, <2>2, <2>3
<1>8. r.type = "ready" /\ r.fid = Id(m.to)
  BY Zenon
<1>9. Id(m.to) \in Follower
  BY Zenon, <1>3, <1>5, IdType DEF IInv
<1> HIDE DEF r
<1>10. IsMessage(r)
  BY <1>8, <1>9 DEF IsMessage
<1>11. TypeInv'
  <2>1. \A n \in net' : n \in net \/ IsMessage(n)
    BY Zenon, <1>1, <1>10
  <2>2. MessagesOK' /\ AnswersOK'
    BY Zenon, <1>1, <2>1, TypesKept DEF IInv
  <2>3. SourcesGrow'
    BY Zenon, <1>2, <1>7 DEF IInv, TypeInv, SourcesGrow
  <2>4. TypeOK'
    BY Zenon, <1>1, <1>2, <1>7 DEF IInv, TypeInv, TypeOK
  <2> QED
    BY Zenon, <2>2, <2>3, <2>4 DEF IInv, TypeInv
<1>12. \A n \in net' : n = r \/ (n \in net /\ n # m)
  BY Zenon, <1>1
<1>13. SingleInv' /\ \A w \in Tasks : Waited(w)' => Waited(w)
  <2>1. Calm
    BY Zenon, <1>1, <1>8, <1>12 DEF Calm
  <2> QED
    BY Zenon, <2>1, CalmSteps DEF IInv
<1>14. ReadInv'
  BY Zenon, <1>1, <1>2 DEF IInv, ReadInv
<1>15. ReadyInv'
  <2>1. \A k \in u.keys : state'[New][k] \in Nat
    BY Zenon, <1>5, <1>7
  <2>2. \A k \in u.keys : state'[New][k] # Missing
    BY <2>1 DEF Missing
  <2> QED
    BY Zenon, <1>2, <2>2 DEF ReadyInv
<1>16. FreshInv'
  <2> SUFFICES ASSUME Cardinality(Tasks) = 1, NEW w \in Tasks, OnItsWay(w)' PROVE FALSE
    BY Zenon, <1>2 DEF FreshInv
  <2>1. w = u
    <3>1. PICK t : Tasks = {t}
      BY Zenon, FS_Singleton DEF Facts
    <3> QED
      BY Zenon, <3>1
  <2>2. Single(u)
    BY Zenon, OneTask DEF IInv, SingleInv
  <2>3. Carries(m, u)
    BY Zenon, <1>1, <1>5 DEF Carries
  <2>4. ~Carries(r, u)
    BY Zenon, <1>8 DEF Carries
  <2>5. \A f \in Follower : Kept(f, u)' => Kept(f, u)
    BY Zenon, <1>1 DEF Kept
  <2> QED
    BY Zenon, <1>1, <1>12, <2>1, <2>2, <2>3, <2>4, <2>5 DEF Single, OnItsWay
<1>17. DoneInv'
  <2>1. Over' = Over
    BY Zenon, <1>1, <1>2 DEF Over
  <2>2. ASSUME OwnKeys, NEW w \in Tasks, Delivered(w) PROVE Delivered(w)'
    <3>1. CASE w = u
      <4>1. \A k \in u.keys : state'[New][k] >= Start[u.from][k]
        BY Zenon, <1>5, <1>7
      <4> QED
        BY Zenon, <1>2, <3>1, <4>1 DEF Delivered
    <3>2. CASE w # u
      <4>1. \A k \in w.keys : k \in Key /\ k \notin u.keys
        BY Zenon, <2>2, <3>2 DEF OwnKeys, Facts
      <4>2. w.keys # u.keys
        BY Zenon, <4>1 DEF Facts
      <4>3. ~Carries(m, w)
        BY Zenon, <1>1, <1>5, <4>2 DEF Carries
      <4>4. \A k \in w.keys : state'[New][k] = state[New][k]
        BY Zenon, <1>7, <4>1
      <4>5. \A n \in net : n # m => n \in net'
        BY Zenon, <1>1
      <4> QED
        BY Zenon, <1>2, <2>2, <4>3, <4>4, <4>5 DEF Delivered
    <3> QED
      BY Zenon, <3>1, <3>2
  <2> QED
    BY Zenon, <1>1, <1>13, <2>1, <2>2, DoneKept DEF IInv
<1> QED
  BY Zenon, <1>11, <1>13, <1>14, <1>15, <1>16, <1>17 DEF IInv

\* The proposer takes the new follower for ready, which has said so.
LEMMA FollowerReadyStep ==
    ASSUME Facts, IInv, UNCHANGED scenario, NEW m \in net, handleFollowerReady(m)
    PROVE  IInv'
<1>1. /\ m.type = "ready" /\ net' = net \ {m} /\ ReadyMap' = ReadyMap \cup {m.fid}
      /\ UNCHANGED <<pc, ReceiveRequestDataMap, locked, joined, FollowerID, state, deposits>>
  BY Zenon DEF handleFollowerReady
<1>2. Tasks' = Tasks /\ OwnSources' = OwnSources /\ MaxDeposits' = MaxDeposits
  BY Zenon DEF Tasks, OwnSources, MaxDeposits
<1>3. m.fid \in Follower
  BY Zenon, <1>1 DEF IInv, TypeInv, MessagesOK, IsMessage
<1>4. TypeInv'
  <2>1. MessagesOK' /\ AnswersOK' /\ SourcesGrow'
    BY Zenon, <1>1, TypesKept DEF IInv
  <2>2. TypeOK'
    BY Zenon, <1>1, <1>2, <1>3 DEF IInv, TypeInv, TypeOK
  <2> QED
    BY Zenon, <2>1, <2>2 DEF IInv, TypeInv
<1>5. SingleInv' /\ \A w \in Tasks : (OnItsWay(w)' => OnItsWay(w)) /\ (Waited(w)' => Waited(w))
  <2>1. Calm
    BY Zenon, <1>1 DEF Calm
  <2> QED
    BY Zenon, <2>1, CalmSteps DEF IInv
<1>6. ReadInv'
  BY Zenon, <1>1, <1>2 DEF IInv, ReadInv
<1>7. ReadyInv'
  BY Zenon, <1>1, <1>2 DEF IInv, ReadyInv
<1>8. FreshInv'
  <2>1. Fresh => Fresh'
    BY Zenon, <1>1 DEF Fresh
  <2> QED
    BY Zenon, <1>2, <1>5, <2>1 DEF IInv, FreshInv
<1>9. DoneInv'
  <2>1. Over' = Over
    BY Zenon, <1>1, <1>2 DEF Over
  <2>2. \A w \in Tasks : Delivered(w) => Delivered(w)'
    BY Zenon, <1>1 DEF Delivered, Start
  <2> QED
    BY Zenon, <1>1, <1>5, <2>1, <2>2, DoneKept DEF IInv
<1> QED
  BY Zenon, <1>4, <1>5, <1>6, <1>7, <1>8, <1>9 DEF IInv

-----------------------------------------------------------------------------
(* The batches.                                                            *)

\* A batch is for a follower that is ready.
LEMMA AllocateStep ==
    ASSUME Facts, IInv, UNCHANGED scenario, NEW k \in Key, TxAllocate(k)
    PROVE  IInv'
<1> DEFINE b == [type |-> "txs", to |-> Dest(k), key |-> k, no |-> deposits]
<1>1. /\ deposits < MaxDeposits /\ Dest(k) \in ReadyMap /\ deposits' = deposits + 1 /\ net' = net \cup {b}
      /\ UNCHANGED <<pc, ReceiveRequestDataMap, locked, ReadyMap, joined, FollowerID, state>>
  BY Zenon DEF TxAllocate, Allocatable
<1>2. Tasks' = Tasks /\ OwnSources' = OwnSources /\ MaxDeposits' = MaxDeposits
  BY Zenon DEF Tasks, OwnSources, MaxDeposits
<1>3. b.type = "txs" /\ b.to = Dest(k) /\ b.key = k
  BY Zenon
<1> HIDE DEF b
<1>4. Dest(k) \in Follower
  BY Zenon, <1>1 DEF IInv, TypeInv, TypeOK
<1>5. IsMessage(b)
  BY <1>3, <1>4 DEF IsMessage
<1>6. TypeInv'
  <2>1. \A n \in net' : n \in net \/ IsMessage(n)
    BY Zenon, <1>1, <1>5
  <2>2. MessagesOK' /\ AnswersOK' /\ SourcesGrow'
    BY Zenon, <1>1, <2>1, TypesKept DEF IInv
  <2>3. deposits \in 0 .. MaxDeposits /\ MaxDeposits \in Nat
    BY Zenon DEF IInv, TypeInv, TypeOK, Facts
  <2>4. deposits' \in 0 .. MaxDeposits'
    BY <1>1, <1>2, <2>3
  <2>5. TypeOK'
    BY Zenon, <1>1, <1>2, <2>4 DEF IInv, TypeInv, TypeOK
  <2> QED
    BY Zenon, <2>2, <2>5 DEF IInv, TypeInv
<1>7. SingleInv' /\ \A w \in Tasks : (OnItsWay(w)' => OnItsWay(w)) /\ (Waited(w)' => Waited(w))
  <2>1. Calm
    BY Zenon, <1>1, <1>3 DEF Calm
  <2> QED
    BY Zenon, <2>1, CalmSteps DEF IInv
<1>8. ReadInv'
  BY Zenon, <1>1, <1>2 DEF IInv, ReadInv
<1>9. ReadyInv'
  BY Zenon, <1>1, <1>2, <1>3 DEF IInv, ReadyInv
<1>10. FreshInv'
  <2>1. Fresh => Fresh'
    BY Zenon, <1>1, <1>3 DEF Fresh
  <2> QED
    BY Zenon, <1>2, <1>7, <2>1 DEF IInv, FreshInv
<1>11. DoneInv'
  <2>1. Over' = Over
    BY Zenon, <1>1, <1>2 DEF Over
  <2>2. \A w \in Tasks : Delivered(w) => Delivered(w)'
    BY Zenon, <1>1 DEF Delivered, Start
  <2> QED
    BY Zenon, <1>1, <1>7, <2>1, <2>2, DoneKept DEF IInv
<1> QED
  BY Zenon, <1>6, <1>7, <1>8, <1>9, <1>10, <1>11 DEF IInv

\* A follower executes a batch: balances only grow.
LEMMA ProcessStep ==
    ASSUME Facts, IInv, UNCHANGED scenario, NEW m \in net, ProcessTxs(m)
    PROVE  IInv'
<1>1. /\ m.type = "txs" /\ net' = net \ {m}
      /\ state' = IF Digit[m.key] % Num(m.to) # Id(m.to) THEN state
                  ELSE [state EXCEPT ![m.to][m.key] = Balance(m.to, m.key) + 1]
      /\ UNCHANGED <<pc, ReceiveRequestDataMap, locked, ReadyMap, joined, FollowerID, deposits>>
  BY Zenon DEF ProcessTxs
<1>2. Tasks' = Tasks /\ OwnSources' = OwnSources /\ MaxDeposits' = MaxDeposits /\ Start' = Start
  BY Zenon DEF Tasks, OwnSources, MaxDeposits, Start
<1>3. m.to \in Follower /\ m.key \in Key
  BY Zenon, <1>1 DEF IInv, TypeInv, MessagesOK, IsMessage
<1>4. state \in [Follower -> [Key -> Nat \cup {Missing}]] /\ Start \in [Follower -> [Key -> Nat \cup {Missing}]]
      /\ \A t \in Tasks : t.from \in Follower /\ t.keys \subseteq Key
  BY Zenon DEF IInv, TypeInv, TypeOK, Facts
<1>5. Balance(m.to, m.key) \in Nat /\ Balance(m.to, m.key) + 1 >= state[m.to][m.key]
  BY Zenon, <1>3, BalanceGrows DEF IInv
<1>6. /\ state' \in [Follower -> [Key -> Nat \cup {Missing}]]
      /\ \A f \in Follower, k \in Key :
            /\ state'[f][k] >= state[f][k] /\ (state[f][k] # Missing => state'[f][k] # Missing)
            /\ f # m.to => state'[f][k] = state[f][k]
  <2>1. CASE state' = state
    BY <1>4, <2>1 DEF Missing
  <2>2. CASE state' = [state EXCEPT ![m.to][m.key] = Balance(m.to, m.key) + 1]
    BY <1>3, <1>4, <1>5, <2>2 DEF Missing
  <2> QED
    BY Zenon, <1>1, <2>1, <2>2
<1>7. \A f, g \in Follower : \A k \in Key :
          state'[f][k] >= state[f][k] /\ state[f][k] >= Start[g][k] => state'[f][k] >= Start[g][k]
  <2> SUFFICES ASSUME NEW f \in Follower, NEW g \in Follower, NEW k \in Key,
                      state'[f][k] >= state[f][k], state[f][k] >= Start[g][k]
               PROVE  state'[f][k] >= Start[g][k]
    BY Zenon
  <2>1. /\ state'[f] \in [Key -> Nat \cup {Missing}] /\ state[f] \in [Key -> Nat \cup {Missing}]
        /\ Start[g] \in [Key -> Nat \cup {Missing}]
    BY Zenon, <1>4, <1>6
  <2>2. /\ state'[f][k] \in Nat \cup {Missing} /\ state[f][k] \in Nat \cup {Missing}
        /\ Start[g][k] \in Nat \cup {Missing}
    BY Zenon, <2>1
  <2> QED
    BY <2>2 DEF Missing
<1>8. TypeInv'
  <2>1. MessagesOK' /\ AnswersOK'
    BY Zenon, <1>1, TypesKept DEF IInv
  <2>2. TypeOK'
    BY Zenon, <1>1, <1>2, <1>6 DEF IInv, TypeInv, TypeOK
  <2>3. SourcesGrow'
    <3> SUFFICES ASSUME NEW f \in Follower \ {New}, NEW k \in Key PROVE state'[f][k] >= Start[f][k]
      BY Zenon, <1>2 DEF SourcesGrow
    <3>1. state[f][k] >= Start[f][k]
      BY Zenon DEF IInv, TypeInv, SourcesGrow
    <3>2. state'[f][k] >= state[f][k]
      BY Zenon, <1>6
    <3> QED
      BY Zenon, <1>7, <3>1, <3>2
  <2> QED
    BY Zenon, <2>1, <2>2, <2>3 DEF IInv, TypeInv
<1>9. SingleInv' /\ \A w \in Tasks : (OnItsWay(w)' => OnItsWay(w)) /\ (Waited(w)' => Waited(w))
  <2>1. Calm
    BY Zenon, <1>1 DEF Calm
  <2> QED
    BY Zenon, <2>1, CalmSteps DEF IInv
<1>10. ReadInv'
  BY Zenon, <1>1, <1>2 DEF IInv, ReadInv
<1>11. ReadyInv'
  <2>1. \A t \in Tasks : \A k \in t.keys : state[New][k] # Missing => state'[New][k] # Missing
    BY Zenon, <1>4, <1>6 DEF Facts
  <2> QED
    BY Zenon, <1>1, <1>2, <2>1 DEF IInv, ReadyInv
<1>12. FreshInv'
  <2>1. ASSUME Fresh PROVE Fresh'
    <3>1. m.to # New
      BY Zenon, <1>1, <2>1 DEF Fresh
    <3>2. \A k \in Key : state'[New][k] = state[New][k]
      BY Zenon, <1>6, <3>1 DEF Facts
    <3> QED
      BY Zenon, <1>1, <2>1, <3>2 DEF Fresh
  <2> QED
    BY Zenon, <1>2, <1>9, <2>1 DEF IInv, FreshInv
<1>13. DoneInv'
  <2>1. Over' = Over
    BY Zenon, <1>1, <1>2 DEF Over
  <2>2. ASSUME NEW w \in Tasks, NEW k \in w.keys, state[New][k] >= Start[w.from][k]
        PROVE  state'[New][k] >= Start[w.from][k]
    <3>1. New \in Follower
      BY Zenon DEF Facts
    <3>2. state'[New][k] >= state[New][k] /\ k \in Key /\ w.from \in Follower
      BY Zenon, <1>4, <1>6, <3>1
    <3> QED
      BY Zenon, <1>7, <2>2, <3>1, <3>2
  <2>3. \A w \in Tasks : Delivered(w) => Delivered(w)'
    <3>1. \A n \in net : n.type = "data" => n \in net'
      BY Zenon, <1>1
    <3> QED
      BY Zenon, <1>2, <2>2, <3>1 DEF Delivered
  <2> QED
    BY Zenon, <1>1, <1>9, <2>1, <2>3, DoneKept DEF IInv
<1> QED
  BY Zenon, <1>8, <1>9, <1>10, <1>11, <1>12, <1>13 DEF IInv

-----------------------------------------------------------------------------
(* The theorem.                                                            *)

\* The start.
LEMMA InitIInv == ASSUME ScenarioTypes, Init PROVE IInv
<1>1. /\ scenario \in Scenarios /\ pc = [t \in Tasks |-> "request"]
      /\ ReceiveRequestDataMap = [f \in Follower |-> NoAnswer]
      /\ locked = FALSE /\ joined = FALSE /\ ReadyMap = 0 .. N - 1 /\ FollowerID = 0
      /\ state = Start /\ deposits = 0 /\ net = {[type |-> "fid", to |-> New]}
  BY Zenon DEF Init
<1>2. Facts
  BY Zenon, <1>1, ScenarioFacts
<1>3. 0 \in Follower /\ ReadyMap \subseteq Follower /\ New \notin ReadyMap /\ 0 \in 0 .. MaxDeposits
  BY <1>1, <1>2 DEF Facts, Follower, New
<1>4. \A m \in net : m.type = "fid" /\ m.to = New
  BY <1>1
<1>5. \A f \in Follower : ReceiveRequestDataMap[f] = NoAnswer
  BY Zenon, <1>1
<1>6. TypeInv
  <2>1. TypeOK
    BY Zenon, <1>1, <1>2, <1>3, <1>5, NoKeys DEF TypeOK, Facts
  <2>2. MessagesOK
    BY <1>4 DEF MessagesOK, IsMessage
  <2>3. AnswersOK
    BY Zenon, <1>1, <1>5 DEF AnswersOK
  <2>4. SourcesGrow
    BY <1>1, <1>2 DEF SourcesGrow, Facts, Missing
  <2> QED
    BY Zenon, <1>1, <2>1, <2>2, <2>3, <2>4 DEF TypeInv
<1>7. ReadInv /\ ReadyInv
  <2>1. \A t \in Tasks : pc[t] = "request"
    BY Zenon, <1>1
  <2> QED
    BY Zenon, <1>1, <1>3, <1>4, <2>1 DEF ReadInv, ReadyInv
<1>8. \A u \in Tasks : Single(u)
  <2>1. \A u \in Tasks : \A f \in Follower : ~Kept(f, u)
    BY Zenon, <1>2, <1>5, NoKeys DEF Kept, Facts
  <2>2. \A u \in Tasks : \A m \in net : ~Carries(m, u)
    BY Zenon, <1>4 DEF Carries
  <2> QED
    BY Zenon, <2>1, <2>2 DEF Single
<1>9. Fresh
  <2>1. \A k \in Key : state[New][k] = Missing
    BY Zenon, <1>1, <1>2 DEF Facts
  <2> QED
    BY Zenon, <1>3, <1>4, <2>1 DEF Fresh
<1>10. DoneInv
  <2>1. Over = {}
    BY Zenon, <1>1 DEF Over
  <2>2. Cardinality(Over) = 0
    BY Zenon, <2>1, FS_EmptySet
  <2>3. Done \subseteq Tasks
    BY Zenon DEF Done
  <2>4. Cardinality(Done) \in Nat
    BY Zenon, <1>2, <2>3, FS_Subset, FS_CardinalityType DEF Facts
  <2>5. Cardinality(Over) <= Cardinality(Done)
    BY <2>2, <2>4
  <2> QED
    BY Zenon, <1>1, <2>5 DEF DoneInv
<1> QED
  BY Zenon, <1>6, <1>7, <1>8, <1>9, <1>10 DEF IInv, SingleInv, FreshInv

\* No step breaks the invariant.
LEMMA NextIInv == ASSUME ScenarioTypes, IInv, [Next]_vars PROVE IInv'
<1>1. Facts
  BY Zenon, ScenarioFacts DEF IInv, TypeInv
<1>2. CASE Next
  <2>1. UNCHANGED scenario
    BY Zenon, <1>2 DEF Next
  <2>2. CASE \E t \in Tasks : Goroutine(t)
    BY Zenon, <1>1, <2>1, <2>2, RequestStep, FoundStep, ForwardStep, ForwardNothingStep DEF Goroutine
  <2>3. CASE JoinReturns
    BY Zenon, <1>1, <2>1, <2>3, JoinReturnsStep
  <2>4. CASE \E m \in net : Handle(m)
    BY Zenon, <1>1, <2>1, <2>4, ProposerRequestStep, FollowerResponseStep, AllocateDataStep,
       IdAndLossSteps, FollowerReadyStep, ProcessStep DEF Handle
  <2>5. CASE \E k \in Key : TxAllocate(k)
    BY Zenon, <1>1, <2>1, <2>5, AllocateStep
  <2>6. CASE \E m \in net : Lose(m)
    BY Zenon, <1>1, <2>1, <2>6, IdAndLossSteps
  <2> QED
    BY Zenon, <1>2, <2>2, <2>3, <2>4, <2>5, <2>6 DEF Next
<1>3. CASE UNCHANGED vars
  <2>1. UNCHANGED <<scenario, pc, ReceiveRequestDataMap, locked, ReadyMap, joined, FollowerID, state,
                    deposits, net>>
    BY Zenon, <1>3 DEF vars
  <2>2. /\ MessagesOK' /\ AnswersOK' /\ SourcesGrow' /\ SingleInv' /\ ReadyInv' /\ FreshInv'
        /\ \A u \in Tasks : Waited(u)' => Waited(u)
    <3>1. net' \subseteq net /\ \A u \in Tasks : pc'[u] = "request" => pc[u] = "request"
      BY Zenon, <2>1
    <3> QED
      BY Zenon, <1>1, <2>1, <3>1, LittleChanges
  <2>3. TypeOK'
    BY Zenon, <2>1 DEF IInv, TypeInv, TypeOK, Tasks, MaxDeposits
  <2>4. ReadInv'
    BY Zenon, <2>1 DEF IInv, ReadInv, Tasks, OwnSources
  <2>5. DoneInv'
    <3>1. Over' = Over /\ \A w \in Tasks : Delivered(w) => Delivered(w)'
      BY Zenon, <2>1 DEF Over, Delivered, Tasks, Start
    <3> QED
      BY Zenon, <1>1, <2>1, <2>2, <3>1, DoneKept DEF IInv
  <2> QED
    BY Zenon, <2>1, <2>2, <2>3, <2>4, <2>5 DEF IInv, TypeInv
<1> QED
  BY Zenon, <1>2, <1>3

\* The invariant has what is promised of any tasks.
LEMMA IInvOrderly == ASSUME ScenarioTypes, IInv PROVE TypeOK /\ LockFree /\ NoOverwrite /\ ReadyHasData
<1>1. Facts
  BY Zenon, ScenarioFacts DEF IInv, TypeInv
<1>2. TypeOK /\ LockFree
  BY Zenon DEF IInv, TypeInv, ReadInv, LockFree
<1>3. ReadyHasData
  BY Zenon, <1>1 DEF IInv, ReadyInv, ReadyHasData, Facts
<1>4. NoOverwrite
  <2> SUFFICES ASSUME Cardinality(Tasks) = 1, NEW m \in net, m.type = "data", NEW k \in DOMAIN m.values
               PROVE  state[m.to][k] = Missing
    BY Zenon DEF NoOverwrite
  <2>1. m.to = New /\ \E u \in Tasks : IsAnswerOf(m.values, u)
    BY Zenon DEF IInv, TypeInv, MessagesOK, IsMessage
  <2>2. PICK u \in Tasks : IsAnswerOf(m.values, u)
    BY Zenon, <2>1
  <2>3. DOMAIN m.values = u.keys
    BY Zenon, <1>1, <2>2, AnswerHasKeys
  <2>4. Carries(m, u)
    BY Zenon, <2>3 DEF Carries
  <2>5. Fresh
    BY Zenon, <2>4 DEF IInv, FreshInv, OnItsWay
  <2> QED
    BY Zenon, <1>1, <2>1, <2>3, <2>5 DEF Fresh, Facts
<1> QED
  BY Zenon, <1>2, <1>3, <1>4

\* And of tasks that share no account.
LEMMA IInvMoved == ASSUME ScenarioTypes, KeysApart, IInv PROVE DataMoved
<1>1. Facts
  BY Zenon, ScenarioFacts DEF IInv, TypeInv
<1>2. OwnKeys
  BY Zenon DEF IInv, TypeInv, KeysApart, OwnKeys, Tasks
<1> SUFFICES ASSUME joined, ~DataInFlight, ~MayLose, ~locked, NEW t \in Tasks, NEW k \in t.keys
             PROVE  state[t.to][k] >= Start[t.from][k]
  BY Zenon DEF DataMoved
<1>3. Cardinality(Tasks) <= Cardinality(Done)
  BY Zenon, <1>2 DEF IInv, DoneInv
<1>4. Done \subseteq Tasks /\ IsFiniteSet(Tasks)
  BY Zenon, <1>1 DEF Done, Facts
<1>5. IsFiniteSet(Done) /\ Cardinality(Done) <= Cardinality(Tasks)
      /\ (Cardinality(Done) = Cardinality(Tasks) => Done = Tasks)
  BY Zenon, <1>4, FS_Subset
<1>6. Cardinality(Done) \in Nat /\ Cardinality(Tasks) \in Nat
  BY Zenon, <1>4, <1>5, FS_CardinalityType
<1>7. Cardinality(Done) = Cardinality(Tasks)
  BY <1>3, <1>5, <1>6
<1>8. Delivered(t)
  BY Zenon, <1>5, <1>7 DEF Done
<1>9. state[New][k] >= Start[t.from][k]
  BY Zenon, <1>8 DEF Delivered, DataInFlight
<1> QED
  BY Zenon, <1>1, <1>9 DEF Facts

\* A join is orderly with any number of followers, tasks, accounts and batches, whatever is
\* lost and in whichever order messages come: no goroutine of batchExecuteMigrator panics if
\* sources differ, the data of a single task overwrites nothing, and handleFollowerReady
\* lists the new follower only once it has the accounts of a task.
THEOREM JoinIsOrderly ==
    ASSUME ScenarioTypes
    PROVE  Spec => [](TypeOK /\ LockFree /\ NoOverwrite /\ ReadyHasData)
<1>1. Init => IInv
  BY Zenon, InitIInv
<1>2. IInv /\ [Next]_vars => IInv'
  BY Zenon, NextIInv
<1>3. IInv => TypeOK /\ LockFree /\ NoOverwrite /\ ReadyHasData
  BY Zenon, IInvOrderly
<1> QED
  BY <1>1, <1>2, <1>3, PTL DEF Spec

\* If no account is in two of AddNode's tasks, then moreover the accounts arrive: when AddNode
\* has returned and no data is on its way any more, each is at the new follower with no less
\* than its source had, unless a message can be lost or a goroutine has panicked.
THEOREM MigrationIsSound == ASSUME ScenarioTypes, KeysApart PROVE Spec => []MigrationSound
<1>1. Init => IInv
  BY Zenon, InitIInv
<1>2. IInv /\ [Next]_vars => IInv'
  BY Zenon, NextIInv
<1>3. IInv => MigrationSound
  BY Zenon, IInvOrderly, IInvMoved DEF MigrationSound
<1> QED
  BY <1>1, <1>2, <1>3, PTL DEF Spec
=============================================================================

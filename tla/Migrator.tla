------------------------------ MODULE Migrator ------------------------------
(****************************************************************************)
(* A follower joins a proposer: it is given its id, the migrator that the   *)
(* proposer hands to the consistent hash moves the accounts of the ring's   *)
(* tasks to it, one goroutine a task, and it takes part in the batches once *)
(* it is listed and has said it is ready.  HashRing computes the tasks; its *)
(* migrator is ideal, this one is the proposer's, with the followers'       *)
(* handlers.                                                                *)
(*                                                                          *)
(* Every message is sent by a goroutine of TcpDial and handled by one of    *)
(* the receiver: messages overtake each other.  A batch is one deposit.     *)
(* The lookups that give the ring its keys are commented out in             *)
(* SchedulingTxs: the tasks are those AddNode makes when they are made.     *)
(****************************************************************************)
EXTENDS Integers, FiniteSets

CONSTANTS
    N,             \* followers before the join, with the ids 0 .. N - 1
    Key,           \* accounts
    Digit,         \* the first hexadecimal digit of an account's address
    Init_Balance,
    Scenarios      \* see scenario

New == N
Follower == 0 .. N
Missing == -1
NoAnswer == [k \in {} |-> 0]

VARIABLES
    scenario,               \* rigid: the circumstances, see below
    pc,                     \* of the goroutine of every task
    ReceiveRequestDataMap,  \* the answer under a follower's id, or NoAnswer
    locked,                 \* a panic has left ReceiveRequestDataMapLock held
    ReadyMap,
    joined,                 \* FollowerIDs has the new follower
    FollowerID,             \* of the new follower
    state,                  \* the account tries
    deposits,
    net                     \* messages sent and not yet handled

vars == <<scenario, pc, ReceiveRequestDataMap, locked, ReadyMap, joined, FollowerID,
          state, deposits, net>>

Tasks == scenario.tasks        \* migrateTasks of AddNode
Start == scenario.start        \* the balances in the followers' tries before the join
MayLose == scenario.lossy      \* TcpDial may fail to connect
FidFirst == scenario.fidFirst  \* assumption: the id arrives before any data does
MaxDeposits == scenario.deposits  \* bound: batches during the join

OwnSources == \A t, u \in Tasks : t # u => t.from # u.from

AllTasks == UNION {x.tasks : x \in Scenarios}

\* AddNode moves accounts to the new follower, whose trie is empty.
ScenarioTypes ==
    /\ N \in Nat \ {0} /\ Init_Balance \in Nat /\ Digit \in [Key -> 0 .. 15]
    /\ \A x \in Scenarios :
          /\ x.start \in [Follower -> [Key -> Nat \cup {Missing}]]
          /\ \A k \in Key : x.start[New][k] = Missing
          /\ x.tasks \subseteq [from : Follower, to : {New}, keys : (SUBSET Key) \ {{}}]
          /\ IsFiniteSet(x.tasks) /\ x.deposits \in Nat

\* No account is in two tasks.  TasksStartAtData of HashRing has how one can be: the new
\* node gets a task from itself, and the default it answers with for an account that it
\* has not got yet may overwrite what another task brings.
KeysApart == \A x \in Scenarios : \A t, u \in x.tasks : t # u => t.keys \cap u.keys = {}

IsAnswer(a) == DOMAIN a \subseteq Key /\ \A k \in DOMAIN a : a[k] \in Nat

TypeOK ==
    /\ pc \in [Tasks -> {"request", "poll", "read", "over"}]
    /\ \A f \in Follower : IsAnswer(ReceiveRequestDataMap[f])
    /\ locked \in BOOLEAN /\ joined \in BOOLEAN
    /\ ReadyMap \subseteq Follower /\ FollowerID \in Follower
    /\ state \in [Follower -> [Key -> Nat \cup {Missing}]]
    /\ deposits \in 0 .. MaxDeposits

\* The id of a joining follower is the flag's default, 0, until it is given
\* one; handleFollowerJoin sends that before it calls AddNode.
Init ==
    /\ scenario \in Scenarios
    /\ pc = [t \in Tasks |-> "request"]
    /\ ReceiveRequestDataMap = [f \in Follower |-> NoAnswer]
    /\ locked = FALSE /\ joined = FALSE
    /\ ReadyMap = 0 .. N - 1
    /\ FollowerID = 0
    /\ state = Start
    /\ deposits = 0
    /\ net = {[type |-> "fid", to |-> New]}

-----------------------------------------------------------------------------
(* The migrator: one goroutine a task.                                      *)

Request(t) ==
    /\ pc[t] = "request"
    /\ pc' = [pc EXCEPT ![t] = "poll"]
    /\ net' = net \cup {[type |-> "request", to |-> t.from, keys |-> t.keys]}
    /\ UNCHANGED <<ReceiveRequestDataMap, locked, ReadyMap, joined, FollowerID,
                   state, deposits>>

Answered(t) == ReceiveRequestDataMap[t.from] # NoAnswer

\* The loop finds an entry and gives up the lock.
Found(t) ==
    /\ pc[t] = "poll" /\ ~locked
    /\ Answered(t)
    /\ pc' = [pc EXCEPT ![t] = "read"]
    /\ UNCHANGED <<ReceiveRequestDataMap, locked, ReadyMap, joined, FollowerID,
                   state, deposits, net>>

Forward(t) ==
    /\ pc[t] = "read" /\ ~locked
    /\ ReceiveRequestDataMap[t.from] # NoAnswer
    /\ net' = net \cup {[type |-> "data", to |-> t.to,
                         values |-> ReceiveRequestDataMap[t.from]]}
    /\ ReceiveRequestDataMap' = [ReceiveRequestDataMap EXCEPT ![t.from] = NoAnswer]
    /\ pc' = [pc EXCEPT ![t] = "over"]
    /\ UNCHANGED <<locked, ReadyMap, joined, FollowerID, state, deposits>>

\* The entry is gone: the nil answer is dereferenced, batchExecuteMigrator
\* recovers from the panic, and nobody unlocks.
ForwardNothing(t) ==
    /\ pc[t] = "read" /\ ~locked
    /\ ReceiveRequestDataMap[t.from] = NoAnswer
    /\ locked' = TRUE
    /\ pc' = [pc EXCEPT ![t] = "over"]
    /\ UNCHANGED <<ReceiveRequestDataMap, ReadyMap, joined, FollowerID, state,
                   deposits, net>>

\* AddNode returns to handleFollowerJoin, which lists the follower.
JoinReturns ==
    /\ ~joined /\ \A t \in Tasks : pc[t] = "over"
    /\ joined' = TRUE
    /\ UNCHANGED <<pc, ReceiveRequestDataMap, locked, ReadyMap, FollowerID, state,
                   deposits, net>>

-----------------------------------------------------------------------------
(* The handlers.                                                            *)

\* Mutant: the flag's default, for every follower.
FlagId(f) == 0

Id(f) == IF f = New THEN FollowerID ELSE f

\* Mutant: the account is taken for missing.
FreshBalance(f, k) == Init_Balance

Balance(f, k) == IF state[f][k] = Missing THEN Init_Balance ELSE state[f][k]

handleProposerRequest(m) ==
    /\ m.type = "request"
    /\ net' = (net \ {m}) \cup
              {[type |-> "response", fid |-> Id(m.to),
                values |-> [k \in m.keys |-> Balance(m.to, k)]]}
    /\ UNCHANGED <<pc, ReceiveRequestDataMap, locked, ReadyMap, joined, FollowerID,
                   state, deposits>>

handleFollowerResponse(m) ==
    /\ m.type = "response" /\ ~locked
    /\ ReceiveRequestDataMap' = [ReceiveRequestDataMap EXCEPT ![m.fid] = m.values]
    /\ net' = net \ {m}
    /\ UNCHANGED <<pc, locked, ReadyMap, joined, FollowerID, state, deposits>>

handleProposerAllocateData(m) ==
    /\ m.type = "data"
    /\ FidFirst /\ m.to = New => FollowerID = New
    /\ state' = [state EXCEPT ![m.to] = [k \in Key |->
           IF k \in DOMAIN m.values THEN m.values[k] ELSE @[k]]]
    /\ net' = (net \ {m}) \cup {[type |-> "ready", fid |-> Id(m.to)]}
    /\ UNCHANGED <<pc, ReceiveRequestDataMap, locked, ReadyMap, joined, FollowerID,
                   deposits>>

handleProposerAllocateFID(m) ==
    /\ m.type = "fid"
    /\ FollowerID' = m.to
    /\ net' = net \ {m}
    /\ UNCHANGED <<pc, ReceiveRequestDataMap, locked, ReadyMap, joined, state,
                   deposits>>

handleFollowerReady(m) ==
    /\ m.type = "ready"
    /\ ReadyMap' = ReadyMap \cup {m.fid}
    /\ net' = net \ {m}
    /\ UNCHANGED <<pc, ReceiveRequestDataMap, locked, joined, FollowerID, state,
                   deposits>>

-----------------------------------------------------------------------------
(* The batches, and the network.                                            *)

\* The scheduler's choice: by digit, whatever the ring says.
Dest(k) == Digit[k] % (IF joined THEN N + 1 ELSE N)

\* TxAllocate passes by a follower that is not ready.
Allocatable(f) == f \in ReadyMap

TxAllocate(k) ==
    /\ deposits < MaxDeposits
    /\ Allocatable(Dest(k))
    /\ deposits' = deposits + 1
    /\ net' = net \cup {[type |-> "txs", to |-> Dest(k), key |-> k, no |-> deposits]}
    /\ UNCHANGED <<pc, ReceiveRequestDataMap, locked, ReadyMap, joined, FollowerID,
                   state>>

\* A follower skips an account that is not its own by the number of followers
\* it was started with.
Num(f) == IF f = New THEN N + 1 ELSE N

ProcessTxs(m) ==
    /\ m.type = "txs"
    /\ state' = IF Digit[m.key] % Num(m.to) # Id(m.to) THEN state
                ELSE [state EXCEPT ![m.to][m.key] = Balance(m.to, m.key) + 1]
    /\ net' = net \ {m}
    /\ UNCHANGED <<pc, ReceiveRequestDataMap, locked, ReadyMap, joined, FollowerID,
                   deposits>>

Lose(m) ==
    /\ MayLose
    /\ net' = net \ {m}
    /\ UNCHANGED <<pc, ReceiveRequestDataMap, locked, ReadyMap, joined, FollowerID,
                   state, deposits>>

Goroutine(t) == Request(t) \/ Found(t) \/ Forward(t) \/ ForwardNothing(t)

Handle(m) ==
    \/ handleProposerRequest(m)
    \/ handleFollowerResponse(m)
    \/ handleProposerAllocateData(m)
    \/ handleProposerAllocateFID(m)
    \/ handleFollowerReady(m)
    \/ ProcessTxs(m)

Next ==
    /\ UNCHANGED scenario
    /\ \/ \E t \in Tasks : Goroutine(t)
       \/ JoinReturns
       \/ \E m \in net : Handle(m)
       \/ \E k \in Key : TxAllocate(k)
       \/ \E m \in net : Lose(m)

Spec == Init /\ [][Next]_vars

-----------------------------------------------------------------------------
(* Properties.                                                              *)

DataInFlight == \E m \in net : m.type = "data"

\* Once AddNode has returned and what its tasks sent has been handled, every
\* account of a task is at the task's destination with at least the balance it
\* had at the source when the join began (a batch only deposits): no answer is
\* lost, taken for another's or overtaken by the default of a missing account.
\* That is so if nothing is lost and no goroutine has panicked: AddNode does not
\* return with an account left behind in any other way.
DataMoved ==
    joined /\ ~DataInFlight /\ ~MayLose /\ ~locked =>
        \A t \in Tasks : \A k \in t.keys : state[t.to][k] >= Start[t.from][k]

\* With a source for each task, ReceiveRequestDataMapLock is never left held by a
\* panic that batchExecuteMigrator recovers from: an entry that the polling loop saw
\* is still there when the lock has been taken again.
LockFree == OwnSources => ~locked

\* Data that is still on its way to a follower never finds the account already
\* there: what the batches made of an account is not overwritten.  With one task
\* ReadyMap sees to it; with two, the first one's data makes the follower
\* ready.
NoOverwrite ==
    Cardinality(Tasks) = 1 => \A m \in net : m.type = "data" =>
        \A k \in DOMAIN m.values : state[m.to][k] = Missing

\* A joining follower that ReadyMap lists has the accounts of a task, whatever
\* was lost and whenever it learnt its id.
ReadyHasData ==
    New \in ReadyMap =>
        \E t \in Tasks : \A k \in t.keys : state[t.to][k] # Missing

\* What a joining follower is to get arrives, unless a goroutine panics, which none does if
\* each task has a source of its own; a follower is ready only with the accounts of a
\* task, and with one task no data overwrites what a batch has made of an account.
MigrationSound == TypeOK /\ DataMoved /\ LockFree /\ NoOverwrite /\ ReadyHasData

\* A source for each task, and nothing lost nor too early.
Regular == OwnSources /\ ~MayLose /\ FidFirst
=============================================================================

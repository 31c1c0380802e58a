# A verification project for Aster

Aster is a blockchain in which a *proposer* hands the execution of transactions
to *followers*, each of which keeps the part of the state that its addresses
belong to. The repository also holds the sharded emulator it grew out of (PBFT
shards, cross-shard relay, brokers, re-partitioning) and a Merkle Patricia trie.
This directory holds TLA+ modules translated from the Go code under `src/`, the
TLC configurations that check them on small instances, and theorems whose proofs
TLAPS checks for every instance.

`PROJECT.json` lists the components, the runs with a mutant for every property,
the definition-to-source map, the hazards and the theorems; this file explains
them.

## 1. The system and the modules

| part | code | modules | run |
|---|---|---|---|
| proposer and followers: an epoch from injection to block, joins, crashes | `consensus_shard/subMPT/` | `Aster` | `aster_safety`, `aster_faults`, `live` |
| migration of accounts to a follower that joins | `subMPT/proposer.go`, `proposerListen.go`, `followerListen.go` | `Migrator` | `live` |
| consistent hashing: virtual nodes, who holds which key | `local/consistent_hash.go`, `migration.go` | `HashRing` on `RingMap` | `local` |
| its skip list | `local/hash_ring.go` | `SkipList`, implements `OrderedRing` | `local` |
| its two locks with expiry | `local/hash_ring.go` | `RingLock`, `RingLockV2`, implement `Lease` | `local`, `live` |
| chain, block store, rollback | `chain/`, `storage/` | `Chain` | `storage` |
| transaction pool | `core/txpool.go` | `TxPool` | `storage` |
| trie database: counts, flush list, batches | `trie/database.go` | `TrieDB` | `storage` |
| trie: nodes, updates, tracer, hashing, commit | `trie/trie.go`, `node.go`, `tracer.go`, `hasher.go`, `committer.go`, `nodeset.go` | `TrieEncoding`, `Trie`; reference: `TrieReference` | `trie` |
| stack trie, proofs, iterators | `trie/stacktrie.go`, `proof.go`, `iterator.go` | `StackTrie`, `TrieProof`, `TrieIterator` | `trie` |
| PBFT of one shard: three phases, catch-up, stop | `consensus_shard/pbft_all/pbft.go`, `messageHandle.go` | `Pbft` | `pbft`, `pbft_live` |
| relay between shards, CLPA hand-over, supervisor | `pbft_all/*CLPA*`, `accountTransfer_module.go`, `supervisor/` | `Reshard` | `reshard`, `live` |
| CLPA, which finds the new map | `partition/` | `Partition` | `reshard` |
| brokers, with and without CLPA | `pbft_all/*Broker*`, `supervisor/committee/*broker*`, `broker/` | `Broker` | `broker`, `live` |
| network | `networks/p2pNetwork.go` | the message sets of the modules above | |

`main.go` starts only proposers and followers (`build.BuildNewPbftNode` and
`BuildSupervisor` have no caller there); they are the core; what is proved (section 10) is about
them, the locks of the ring, and the shards.

**The chain under a shard.** The modules of the shards use `CurChain.Txpool`. The
chain that `pbft.go:92` makes for them (`BlockChain`, `blockchain_MemoryMPT.go`)
never sets it: it makes `PrecessedTxpool`, from which `GenerateBlock` packs, and into
which nothing in `pbft_all` puts anything. So as the code stands blocks are empty, no
injected or relayed transaction gets into a pool, and a main node dies of the nil
pointer at its first use: when a transaction or a relay arrives
(`pbftOutside_moduleCLPA.go:44,57`, `pbftOutside_modCLPABroker.go:56`,
`pbftOutside_moduleBroker.go:47`), at the end of its first block
(`pbftInside_module.go:69`, `pbftInside_moduleCLPA.go:97`,
`pbftInside_modCLPABroker.go:174`, `pbftInside_moduleBroker.go:123`), or when it hands
accounts over (`accountTransfer_module.go:69`, `accountTransfermod_Broker.go:71`). The
chain the modules are written for is the one of `blockchain.go`, whose line 2 says
that each node maintains one: its constructor makes a `Txpool`, it packs from that, and
it updates the state by the transactions. `Pbft`, `Reshard` and `Broker` have both,
as a parameter (`"memory"` and `"dbMPT"`); all that they show of transactions that
move, of partitions that end and of accounts that arrive is shown of `"dbMPT"`, and of
`"memory"` what is left: the other nodes go on soundly, and no transaction gets anywhere.

How the parts use each other. The proposer's `handleFollowerJoin` calls `AddNode`
of the consistent hash, whose tasks (`HashRing`) the proposer's migrator carries
out (`Migrator`); the ring of `HashRing` is the ordered map `RingMap` that
`SkipList` is shown to implement. A chain keeps its blocks in the block store and
its states in tries over the trie database; `Chain` takes a state to be its root,
which `MapExact` of the trie justifies, and a committed state to be readable,
which `LiveTriesComplete` and `DiskClosed` justify. A main node of `Reshard` and `Broker`
treats a round of `Pbft` as one step, and its pool, where the chain has one, is that
of `TxPool`; the maps that arrive there are what `Partition` computes.

A run that has several parts (`live`, `local`, `storage`, `trie`, `reshard`) puts
them side by side: a variable `inst`, constant in a behaviour, says which one
runs, and the others stay as they were created.

## 2. Runs

| run | instance | checks | states |
|---|---|---|---|
| `aster_safety` | 3 followers, 4 transactions in two slices, batches of at most 3, no faults | `PackedWasExecuted`, `OneBlockPerTx` | 570,000 |
| `aster_faults` | 2 followers, 2 that join, 1 lost message or crash, restarts | `TypeOK`, `GatherExcludesGenerate`, `SingleToken`, `EpochBarrier`, `WaitGroupSound`, `CleanStop` | 840,000 |
| `live` | small instances of `Aster`, `Migrator`, `RingLock`, `Reshard`, `Broker`, with fairness | `EpochsComplete`, `ProposerSettles`, `JoinSucceeds`, `FiredEnds`, `PartitionEnds`, `AllExecuted`, and `MigrationSound` | 72,000 |
| `local` | 3 nodes with 2 virtual nodes each under every hash onto 4 scores; locks with 3 goroutines; skip lists | `RingSound`, `AreLeases`, `SearchesExact`, `IsOrderedRing` | 1,090,000 |
| `storage` | memory chain, disk chain, disk chain with accounts that change shards; pool; database of 3 tries that share nodes | `ChainSound`, `StatesOpen`, `PoolSound`, `LiveTriesComplete`, `DiskClosed` | 1,760,000 |
| `trie` | a few keys, one a prefix of another, values below and above 32 bytes | `MapExact`, `CommitsExact`, `EncodingsExact`, `StackExact`, `ProofsExact`, `IteratorsExact` | 135,000 |
| `pbft` | 4 nodes, 2 rounds, both chains, any delivery, or commits after their block | `RoundsSound`, `SameChainInOrder` | 1,420,000 |
| `pbft_live` | the same with messages of a round in order and a stop at any time, fair | `AllCommit`, `StopBetweenRounds` | 170,000 |
| `reshard` | 2 shards, 2 transactions, 2 maps; an account that comes back; any timing; no maps; no pool; and CLPA on graphs of 4 accounts and 3 shards | `TransactionsSound`, `HandOverSound`, `SupervisorSound`, `PartitionSound` | 1,370,000 |
| `broker` | 2 shards, 3 transactions, 2 maps; an account that comes back; any timing; no maps; no pool | `TransactionsSound`, `PaymentsInOrder` | 720,000 |
| `aster_gather_lost` | 2 followers, 4 transactions | `ExecutedIsGathered` is violated | |
| `aster_no_reassignment` | one fault, fair | `EpochsAlwaysComplete` is violated | |

Deadlock is not checked: every instance has a bounded supply of transactions,
rounds or calls and really comes to an end; where coming to an end too early would
be an error a liveness property says so. Symmetry is used in `pbft` only, for the
three nodes that are not the main node, and in no run with liveness.

## 3. Proposer and followers: `Aster`

### What one epoch does

1. The injector goroutine appends a slice of the data set to `PendingTxpool`
   every second.
2. The select loop receives from `schedulingTxsSignal` and runs `SchedulingTxs`:
   it takes up to `MaxBlockSize_global` transactions, starts one goroutine per
   transaction that routes it by the first hexadecimal digit of its sender and
   of its recipient, modulo `len(FollowerIDs)`, and starts one `TxAllocate` per
   follower.
3. `TxAllocate` sends the batch and *then* records it in `AllocatedTxpool`.
4. A follower executes its batch (it debits senders and credits recipients that
   are its own) and returns the hashes it executed.
5. `handleProcessedTxs` moves those hashes from `AllocatedTxpool` to
   `ProcessedTxpool` and registers the reply; the reply that makes the count
   equal to `FollowerNum` starts `blockGenerate`.
6. `blockGenerate` packs `ProcessedTxpool` into a block, adds it, and starts a
   goroutine that signals the scheduler: the next epoch.

There is no timeout and no retry. With nothing pending the scheduler polls; at
the tenth empty poll it closes the node.

### State and actions

A step is what one goroutine does between two points where another can interfere.

| variables | code |
|---|---|
| `txs`, `PendingTxpool` | the injector's slice and the pool |
| `signals` | goroutines about to send on `schedulingTxsSignal` (unbuffered) |
| `main`, `localTxpool`, `lens`, `allocMap`, `toLaunch` | where `SchedulingTxs` is and its locals; `lens` is the history of `len(FollowerIDs)` that a routing goroutine may have read |
| `wg`, `panicked` | counter of the `WaitGroup`; a negative one kills the process |
| `starting`, `sent` | `TxAllocate` goroutines before `TcpDial`, and between it and the record |
| `AllocatedTxpool`, `ProcessedTxpool` | the pools |
| `gathering`, `gathered` | `handleProcessedTxs` inside `GatherTxs` (under `AllocatedTxpoolLock`) and waiting for `GatherLock` |
| `GatherMap` | pairs of epoch and follower that have answered |
| `gens`, `building`, `blockHashGenDone`, `chain` | `blockGenerate` goroutines, the block under `chainLock`, the chain |
| `FollowerIDs`, `FollowerNum`, `joining`, `joins` | membership and the handlers of joins |
| `allocMsgs`, `replyMsgs`, `down`, `faults` | the network and the followers that are dead |
| `working`, `trie` | batches being executed, balances at each follower |
| `executed` | history: which follower applied which transaction |

Actions bear the names of functions where one action is one function
(`Inject`, `AddBlock`), or of the part of it they stand for (`AllocateSend`,
`AllocateRecord`). The three places where a step had to be split because
somebody can see the middle are `TxAllocate` (sent, not yet recorded), `Launch`
and `WgAdd` (a goroutine runs before it is counted), and
`handleFollowerJoin`, whose unlocked increment and append are a load and a
store each, so that concurrent joins can lose an update.

Abstractions. A transaction is its hash; an address is the digit it begins with
(-1 if it is not hexadecimal: `ParseInt` fails and the routing goroutine
returns). Balances are natural numbers; `-1` stands for an account that is not
in the trie. Time is left out: a sleeping goroutine may wake at any moment, so
the injector and the polls race more freely than one-second ticks let them.
`FollowerNum` of the proposer is the global `params.FollowerNum`; a follower
uses the value it was started with. `ReadyMap` is constant, because its only
later writer answers a data migration (see `Migrator`) and the ring never holds
data keys (`GetNode`, which stores them, has no caller). A join also updates
`ip_nodeTable`, a Go map that `SchedulingTxs` reads: if the runtime detects
that access it stops the process, which adds only behaviours that end earlier.
What a follower does when a batch changes nothing is modelled as the code does
it: `trie.Commit` then returns no node set, `trie.NewWithNodeSet` dereferences
it, and the process dies (`CommitPanic`), unless the batch was empty or the trie
still is.

### Properties

* `GatherExcludesGenerate`: `ProcessedTxpool` is appended to under one lock and
  cut under another. They do not overlap, because the last reply of an epoch has
  left `GatherTxs` before `blockGenerate` starts.
* `SingleToken`: signal, routing, block generation and close are one token.
* `EpochBarrier`: no message, batch or handler outlives its epoch.
* `WaitGroupSound`: `wg.Add` comes after `go`; the panic this can cause is the
  only harm, `wg.Wait` is never early.
* `PackedWasExecuted`, `OneBlockPerTx`: what is packed was executed by one of its
  followers, and is in one block only (it can be twice in *that* block).
* `CleanStop`: the close never abandons replies or gathered transactions.
* `EpochsComplete`: without faults, every batch taken is answered, unless the
  `WaitGroup` panics or a follower dies of a batch that changed nothing.
* `ProposerSettles`: the proposer ends, for good, closed, panicked, or without its
  signal, in the ways `Settled` lists.

Bounds. With three followers a transaction concerns two, one, or none of a
follower's addresses; four transactions make at least two epochs, so stale
replies, a second block and an empty batch occur; the balances let either of two
transactions of one sender be the rejected one, depending on the order of the
routing goroutines; with batches of one or two a batch can be rejected
altogether. Two joins are the smallest number that can race.

Fairness: weak fairness of the scheduler, `TxAllocate`, followers, handlers,
`blockGenerate` and started joins. The Go runtime runs every goroutine that can
run, locks are held for finite times, and a message that is not lost is read.
Faults, restarts and requests to join are never forced.

## 4. A follower joins: `Migrator`

One goroutine per task of the ring asks the source for the accounts, polls
`ReceiveRequestDataMap` for the answer and sends it to the new follower
(`Request`, `Found`, `Forward`, `ForwardNothing`); `JoinReturns` is the return of
`AddNode` and the listing in `FollowerIDs`; the handlers of proposer and followers
bear their own names. Messages overtake each other, since `TcpDial` has a
goroutine for each and so has the receiver. A scenario fixes the tasks, whether
messages may be lost, whether the id is known first, and how many deposits the
batches make meanwhile.

* `MigrationSound`: when `AddNode` has returned and nothing was lost, each account
  of a task is at its destination with no less than it had (`DataMoved`), unless a
  goroutine has panicked (the tasks of the run share no account; section 10); none
  panics if each task has its own source (`LockFree`);
  with one task no data overwrites what a batch made of an account
  (`NoOverwrite`); a follower is listed as ready only with the accounts of a task
  (`ReadyHasData`).
* `JoinSucceeds`: in the regular case the join ends and the follower stays ready.

The lookups by which keys get onto the ring are commented out in `SchedulingTxs`,
so that tasks arise only once they are restored; routing is by digit modulo the
number of followers, not by the ring. Deposits that the source makes after its
answer stay there. With two tasks `NoOverwrite` is not claimed: the data of the
first makes the follower ready for batches while that of the second is on its way.
Fairness: goroutines run and messages that are not lost are handled.

## 5. Package `local`: `HashRing`, `SkipList`, `RingLock`, `RingLockV2`

**The ring.** Nodes are put on a ring of scores as virtual nodes; a key belongs to
the first node at the next score at or after its own. The code keeps, for every
node, the list of the keys it holds (`nodeToDataKey`) and updates it by range
computations when a virtual node comes (`migrateIn`) or goes (`migrateOut`).

| variables | code |
|---|---|
| `ring` | the skip list, as the node keys at each score |
| `nodeToReplicas`, `nodeToDataKey` | the maps of the same names; 0 and the empty set for a missing entry |
| `op`, `tasks` | the operation that holds `Lock`, its loop counter, `migrateTasks` |
| `hash` | `Encrypt` of the node keys, any function, chosen at the start |
| `store` | where the data of a key really is (history of lookups and tasks) |

All operations hold the package's mutex `Lock`, so they do not overlap; one
iteration of the loop over the replicas is one step, which makes the intermediate
states visible. `AddNode2` repeats `AddNode`. Refused calls change nothing and are
not actions. The migrator is ideal here.

`RingSound`: the virtual nodes of a listed node are on the ring
(`ReplicasOnRing`: the error paths of `Node` and `Rem` are not taken); between
operations a key is listed, and its data is, exactly where a lookup finds it
(`KeysFollowRing`, `DataFollowsRing`); in the middle of a removal the lists are
ahead of the ring, at the node it will name at the end (`RemovalOnCourse`, the
strengthening that a proof of `KeysFollowRing` needs). Every hash up to the names
of the nodes is tried, so that ranges wrap round zero, end at the last score or
cover the whole ring, and virtual nodes share a score.

**The skip list.** `nexts` are the pointers of every node by level, `nodeIDs` what
is stored at it; `Add` draws any height. `SearchesExact`: each level is a sorted
sublist of the one below, and `Ceiling` and `Floor` down the levels find what a
search through all nodes finds. `IsOrderedRing`: the list implements
`OrderedRing`, whose operators `Add` and `Rem` (`RingMap`) are those `HashRing` is
built on. One instance has three levels, another two ids at a score.

**The locks.** `RingLock` has a thread step for every point at which `Lock` or
`Unlock` may wait, and a guard for every timed acquisition. A guard whose timer
and context are both ready may choose either, as a Go `select` does. `AreLeases`:
both locks implement `Lease` (one holder, who loses it only by giving it back or
by a timer it asked for itself), and the mutex is never unlocked when it is not
locked. `FiredEnds` (fair): a guard that fires comes to its end unless somebody waits
in `Lock`. Strong fairness is assumed for steps that take a mutex: `sync.Mutex`
hands itself to the longest waiter after a millisecond. The package calls neither
lock; the calls are commented out in favour of a plain mutex.

## 6. What a node keeps: `Chain`, `TxPool`, `TrieDB`

**`Chain`** is `BlockChain` (tries in memory, with rollback) or
`BlockChain_dbMPT` (tries in leveldb), by `setup.kind`. Actions: `GenerateBlock`,
`AddBlock` of one's own or a peer's block, deposits (`AddAccounts`), the rollback,
partition-map updates, the three bolt transactions of the store, death between any
two of them, and the restart, which forgets the partition map. A hash is any unused
number, since time and miner enter it. `AddAccounts` with an empty list leaves the
trie alone; otherwise a commit that changes nothing gives no node set, and the process
dies of it, as a follower does (section 3).

* `ChainSound`: whenever the process dies the store holds a chain that ends at the
  newest-block pointer; the two ways of choosing between forks agree; a
  transaction on the chain is found; a rollback puts a block with a smaller hash in
  the place of one of the same height and parent.
* `StatesOpen`: the current state can be opened as long as the process runs; a replay
  with the map of the block's maker comes to the root in its header, which `AddBlock`
  does not compare; a restart fails to open the state only after a block of deposits.
  Both exclude chains with a block that was replayed with another map than its
  maker's (`strayed`): its root need not exist (section 9).

**`TxPool`** is the pool as a value, one operator per method; all its methods hold
its lock. `PoolSound`: whatever is put in comes out once, through some method, and
`TransferTxs` leaves nothing of the account behind in any queue. Times stamped on
transactions are left out.

**`TrieDB`**: `Update` inserts nodes with a parent count and a place on the flush
list; `Dereference` drops them; `Cap` and `Commit` write batches of any size and
drop from memory only what is on disk; the process may die at any point.

* `LiveTriesComplete`: a trie that is referenced or just written can be read in
  full. It rests on the flush list going through all nodes in memory both ways, and
  on counts that are never above the references, which are checked with it. (Counts
  may be *below*: a node written again while an older parent on disk still names
  it; that it does no harm is what the property says.)
* `DiskClosed`: every node on disk has its children there.

## 7. The trie

`Trie` has the functions of `trie.go`, `hasher.go` and `committer.go` as operators
on immutable nodes; hashes are ideal (a hash names its content), caching of hashes
is modelled, because a stale one is the likely error. `TrieReference` builds the
trie of a map at once; the tries of the code are compared with it. Values are
numbers of bytes, so that nodes are embedded or hashed as in the code. Recursive
operators are used throughout; these modules have no theorems.

* `MapExact`: lookups give what was last put, and the root depends on the map
  alone, whatever the order of updates, deletions, hashings and commits.
* `CommitsExact`: a path-keyed store that is fed the node sets of commits has
  exactly the nodes of the committed trie; in the hash-keyed database nothing of it
  is missing. This is where the tracer's cancelling of insertions and deletions and
  nodes that change between embedded and stored matter.
* `EncodingsExact`: round trips between hex, compact and byte keys.
* `StackExact`: root, writes and absence of panics of the stack trie for keys in
  increasing order.
* `ProofsExact`: proofs of single keys and of ranges are complete and sound. Claims
  about ranges are those whose keys lie in [first, last].
* `IteratorsExact`: with nodes that cannot be loaded for a while, an iterator still
  reports every node once and in order; its leaf proofs verify; the difference and
  the union of two tries are exact.

## 8. The shards: `Pbft`, `Reshard`, `Partition`, `Broker`

**`Pbft`**: `Propose` under `sequenceLock`, the handlers of pre-prepare, prepare,
commit, of a request for old blocks and of its answer, and the stop. The view never
changes and only the main node proposes, so a block is its number and votes are
counts: handlers do not look at the sender, and the vote maps are keyed by pointers
that differ for each message, so that votes are not deduplicated; senders send one
each. `Broadcast` includes the sender, although its comment says otherwise
(`p2pNetwork.go:241`), and the quorums count on that. Messages arrive at any time
or never; one that is refused is as good as lost. `order` is an assumption on
deliveries: none (`"any"`), a block arrives before its commits (`"commits"`), or all
messages of a round in order (`"all"`). `chain` is the chain under the nodes: without a
pool `HandleinCommit` of the main node adds the block and dies (`dead`), the sequence
locked; the other nodes end the round.

* `RoundsSound`, for any delivery: the main node's sequence number, chain and lock
  agree and it never asks for blocks; a block on a chain is held by 2f nodes that
  broadcast a commit; no chain is ahead of its rounds.
* `SameChainInOrder`: if commits do not overtake their block, nodes that have ended
  as many rounds have the same blocks.
* `AllCommit`, `StopBetweenRounds` (fair, in order): every node gets every block there is,
  which without a pool is one; a stop that meets no round ends the proposer. `MaxSeq`
  bounds the rounds.

**`Reshard`**: the main nodes of the shards, the CLPA committee and the supervisor.
A round of consensus is one step for a block and two for a partition (proposed,
then committed); the other nodes of a shard only repeat `accountTransfer_do`. An
account's state is the set of transfers applied to it, so that what is lost or
doubled in a hand-over can be told. `log.Panic` at an incorrect transaction ends the
process (`panicked`); so does the missing pool, and a commit that changes nothing of a
trie (`died`). Values and balances are left out: a scenario names the transactions
whose sender has not the means (`short`), who pays nothing though the recipient is
credited, and a block or a hand-over that brings no account that is new to the trie
may or may not leave it as it was. A
scenario fixes also the chain, the maps, and the *timing relied on* (`Timely`): injected
transactions are in the pools before the next map, a map finds the last one done
with and a block after it, relays of a shard arrive in order, reports too. The code
enforces none of it; it sleeps (1 s after sending, 10 s around maps) and sends from
goroutines with random delay, so that this is what usually happens.

* `TransactionsSound`: with *any* timing no transaction is in two places or executed
  twice; with the timing relied on none is lost, whichever main nodes die; without a
  pool none is executed or in a pool, and no round ends (`NothingWithoutPool`).
* `HandOverSound`, with that timing: no main node finds an incorrect transaction, the last
  rounds of the others are over when accounts are handed over, every map is carried out
  and counted, and accounts are at home in one shard with all their transfers. It is
  about maps that find the last partition done with; section 9 has the others.
* `SupervisorSound`: the measures count each transaction once when all reports are
  in, and the stop comes only after a gap.
* `PartitionEnds` (fair, in `live`): no partition waits for ever, unless a main node
  dies, as one does without a pool.

**`Partition`** is CLPA step by step, a vertex at a time in any order, on every
graph of up to four edges, partitioned twice. `PartitionSound`: edge counts kept up
to date move by move are those of a recount, vertex counts too; the moves sent out
lead to the map arrived at; no shard loses its last vertex; a shard without edges
freezes every account.

**`Broker`** has the two threads of the supervisor, each of which decides what to
send and sends it later, and the broker modules of the main nodes, with CLPA or, in
a scenario without maps, plain. Chain, pool and deaths are as in `Reshard`, but for the
end of a block, where the main node of a broker system has sent its sequence number
before it uses the pool; any of these messages may get out (`DiesInCommit`).
`TransactionsSound`: at any timing a transaction waits in
one place at most; with the timing relied on none is lost, nobody finds one that is not
for its shard, and accounts arrive whole; without a pool none gets anywhere.
`PaymentsInOrder`, at any timing: the recipient gets nothing before a sender with the
means has paid, records and measures follow in that order, and at the end, if no main
node is down, all is counted. `AllExecuted` (fair): the transaction is executed in the end,
unless a main node dies, as one does without a pool. A
transaction of which the broker itself is a party has `HasBroker` set too, although
the comment at `core/transaction.go:31` reserves it for the two that a broker makes.

Fairness in `live`: messages arrive, threads and partitions that have begun go on,
and, for brokers, a pool with transactions is emptied.

## 9. Disagreements with what the repository says

Two have runs of their own:

* `aster_gather_lost`: a follower that answers before the batch is recorded has its
  reply dropped, against the comment of `GatherTxs` (`proposer.go:494`).
* `aster_no_reassignment`: after one lost message or dead follower no epoch
  completes; the readme speaks of timeouts and reassignment (`readme.md:52`).

The others were found by checking the named definition, which is kept in its module
(marked as not holding) or is one of the properties above without its proviso; TLC
refutes it when it is put into the configuration of the run in section 1.

| definition | what happens | what is said |
|---|---|---|
| `ChainIsValidated` | the recipient's follower credits and returns what the sender's rejects, and it is packed | `readme.md:11` |
| `EpochsAlwaysComplete`, `MaxJoin = 1` | a join raises `FollowerNum` but the new follower gets no batch | `readme.md:48` |
| `FollowersSurvive` | a batch that changes nothing yields a nil node set, and the follower dies | `trie/trie.go:571` |
| `DataMoved` without `~locked` | two tasks with one source: the second reads the entry the first deleted, panics, and its accounts stay | `consistent_hash.go:242` |
| `JoinSucceeds` without `Regular` | an answer overwrites another that was not read, and a goroutine polls for ever with the ring's `Lock` held | `consistent_hash.go:159` |
| `DataMoved` with a task from the new node to itself | the default of a missing account overwrites the balance just brought | `consistent_hash.go:146` |
| `ListedIfOnRing` | removing the last node with data fails after its entry is deleted; if it is then added with a smaller weight, virtual nodes stay behind | `consistent_hash.go:129` |
| `TasksStartAtData` | a node whose second virtual node precedes its first gets a task from itself to itself | `consistent_hash.go:146` |
| `ExpiryReleases` | `Lock` waits for the mutex holding what unlocking needs | `hash_ring.go:102` |
| `GuardEndsItsOwn` | a guard past its `select` ends a later acquisition of the same goroutine | `hash_ring.go:119` |
| `RestartOpens` | `AddAccounts` commits the root before the deposits; the next start cannot open the new one | `blockchain.go:300` |
| `FoundIsOnChain` | a proof of absence is taken for one of presence | `blockchain.go:386` |
| `TransfersModify` | the memory chain counts no update and returns the old root | `blockchain_MemoryMPT.go:60` |
| `CurrentStateOpens` without `strayed` | a block replayed with another map than its maker's, as after a restart, yields another root than its header has; the next block cannot open that one | `blockchain.go:264` |
| `LockComesBack` | without a pool the main node dies in `HandleinCommit`, and the round never ends | `blockchain.go:2` |
| `SenderPaysFirst` for `Short` too | `Deduct` refuses, nobody looks, and the recipient is credited, by broker2 too | `blockchain.go:149` |
| `AllExecuted` without deaths | no injected transaction gets into a pool of the chain that `pbft.go` makes | `blockchain.go:2` |
| `SameChain` | a node that gets commits before the block asks from the number after it and never gets it | `pbft.go:31` |
| `CommitQuorum` | 2f commits, the own one included, are enough | `messageHandle.go:163` |
| `FullAnswerTaken`, `Broker = TRUE` | the broker module subtracts the other way round | `pbftInside_moduleBroker.go:138` |
| `StopEnds` | the stop handler holds the lock that the commit the proposer waits for needs | `pbft.go:47` |
| `ParametersExact`, `SelfPayments = TRUE` | an edge from an account to itself is taken off twice | `partition_CLPA.go:144` |
| `LastRoundsOver` without `OnTime` | a shard whose first relay is still on its way counts as done | `pbftOutside_moduleCLPA.go:74` |
| `PartitionEnds` without `"relays"` | two relays in the wrong order leave a number that is waited for for ever | `pbftOutside_moduleCLPA.go:74` |
| `RoundsCounted` without `OnTime` | a map that arrives during a partition counts as done | `clpaData_Extra.go:11` |
| `StopAfterAll` | the stop comes after empty blocks, with transactions still on their way | `supervisor.go:125` |
| `MeasuresExact` without `"reports"` | reports out of order count a transaction as 1 and then 0.5 | `measure_avgTPS_relay.go:11` |
| `NoPanic` of `Broker` without `"deals"` | a map between decision and sending parts the parties | `pbftInside_modCLPABroker.go:123` |
| `LatenciesCounted` | latencies are added without the count they are divided by | `measure_TCL_Broker.go:12` |

## 10. The proofs

Proved with TLAPS, for every value of the constants that satisfies the named
assumptions of the modules. `*` marks the invariants and refinements that a run
checks too.

| module | theorems | about |
|---|---|---|
| `AsterInvariant`, `AsterProofs` | `TypeCorrect`\*, `NoPoolRace`\*, `OneToken`\*, `Barrier`\*, `WaitGroup`\*, `StopsClean`\*, `Inductive`, `PackedExecuted`\*, `OneBlock`\* | the epochs of the proposer, and what gets onto its chain |
| `PbftProofs` | `RoundsAreSound`\*, `SameChains`\* | one shard |
| `LockProofs` | `LockInvariant`, `LockIsLease`\*, `LockV2IsLease`\* | the locks of the ring |
| `MigratorProofs` | `JoinIsOrderly`, `MigrationIsSound`\* | a follower joins |
| `ReshardProofs`, `HandOverProofs`, `ReshardTheorems` | `NeverInTwoPlaces`, `NothingLost`\*, `PartitionsSound`\*, `SupervisorIsSound`\* | transactions and accounts between shards, stop and measures |

Each inductive invariant was an invariant of TLC runs on small instances before it
was proved.

### Epochs: `AsterInvariant`, `AsterProofs`

For every number of followers, joins and faults, every data set with distinct
transactions and every batch size (the two assumptions of `Aster`), from one
inductive invariant `IInv` (theorem `Inductive`; `AsterInvariant` has the
conjuncts on types, membership, the pipeline and the `WaitGroup`, `AsterProofs`
the token, the pools, the blocks and the theorems):

* `JoinInv`: `FollowerNum` is `N` only while the member table is the initial one,
  however the updates of concurrent joins race; ids stay in range.
* `PipeInv`: in an epoch a follower is in at most one of: to be launched,
  starting, batch under way, executing, reply under way, gathering, gathered,
  registered. Past `TxAllocate` there are only initial followers. The six stages
  are numbered (`Stage`), so that one lemma, `Move`, covers every step that hands
  an item on, and one, `Shrink`, every loss.
* `TokenInv`: the token exists only while that pipeline is empty.
* `WgInv`: the counter is the number of `TxAllocate` goroutines less the one
  whose `Add` is to come.
* `PoolInv`: `ProcessedTxpool` is empty whenever an epoch may start.

The heart of the argument is `LastReply`: registered followers are initial ones,
of which there are `N`, and `FollowerNum >= N`; so when their number equals
`FollowerNum` it is `N`, every initial follower has answered, and by `PipeInv`
nothing is left in the pipeline: the token may be created again. That the
equality test is against a variable which a join can change is harmless for
safety: a larger `FollowerNum` is never reached at all.

### Blocks: `AsterProofs`

`ExecInv` follows a batch from the follower that executed it through its reply to
the block. For `OneBlockPerTx`, `BlockInv` says that a transaction is waiting,
under way in the current epoch, or on the chain, and in only one of the three
(`Apart`), which uses `TokenInv` and `PipeInv`: a block is made when nothing else of
its epoch is under way any more. A transaction may be under way twice, since two
followers can answer it; it is then twice in the same block.

### One shard: `PbftProofs`

For every number of rounds, either module plugged in, either chain and with or without
a stop. `ShardAssumption` says what the constants are and that there are at least four
nodes: with fewer `malicious_nums` is 0 and any vote is enough. The invariant ties the
counted commits to the nodes that voted (`VotesSound`), the blocks of a chain to
commits that were counted, also those a catch-up adds several at once
(`ChainsSound`), and a catch-up under way to a decided block that its node lacks and
no round can bring any more (`AsksSound`).
`SameChains` is conditional on the order it names (`InStep`).

### Locks: `LockProofs`

Both locks implement `Lease`, with the refinement mapping of the run; the fairness
of `Lease` is not part of it. `LockEntity` needs that a user who is not the owner
any more has had a guard fire.

### Joins: `MigratorProofs`

For every number of followers, accounts, tasks and batches, lost messages or not, and
the id known first or not. `ScenarioTypes` says that tasks are finitely many, move
accounts to the new follower and that its trie is empty; `KeysApart`, that no account
is in two tasks, is assumed for `DataMoved` only: without it the code does overwrite an
account (section 9). A goroutine forwards whatever answer it finds under its source,
so that with two tasks from one source it may forward the other's. The invariant
therefore does not follow goroutines but the accounts of a task:

* `SingleInv`: they are in one place at a time, the goroutine that is still to ask, one
  message, or one entry of `ReceiveRequestDataMap`.
* `DoneInv`: the goroutines that have ended are no more than the tasks whose accounts
  were sent on to the new follower and are awaited nowhere else. When all have ended,
  the two numbers are equal, and the accounts of all tasks have been sent.
* `ReadInv`: with a source for each task, an entry that was seen is still there when it
  is read, so that no goroutine panics with the mutex held.
* `ReadyInv` and `FreshInv`: the new follower has begun only if it has the accounts of
  a task, which with one task means that nothing is on its way to it any more.

### Shards: `ReshardProofs`, `HandOverProofs`, `ReshardTheorems`

For every number of shards, accounts, transactions, maps and rounds, in every state
that the scenarios of `ScenarioAssumption` start from (finitely many transactions
between accounts, an initial map onto the shards), on either chain. A death changes
nothing but `died` (`Dying`, `Death`), and a step that is none is one of the code
(`Living`). That nothing gets anywhere without a pool is an invariant of its own
(`Bare`, lemma `BareNext`).

* `ReshardProofs` needs no timing. `Inv1` says that a transaction has one spot (an
  entry of a pool, of a message on its way or of the accounts a main node has put
  aside) or none, and none if it is unsent or executed. Every step moves spots,
  adds one for a transaction that had none, or removes some. `NeverInTwoPlaces` is
  that invariant, counted.
* `HandOverProofs` assumes the timing `OnTime` where the invariants of `Reshard` do
  (section 9 has what happens without it). A main node goes through stages from one
  map to the next: map on its way, arrived, ready, handed over, proposed,
  committed. `Inv2(old)` says for the map `old` that the last one replaced how far
  apart the main nodes are (`ReadyHeard`, `Behind`: none hands over before all are ready,
  and none proposes before all have handed over), by which of the two maps the
  contents of every pool, message and put-aside account go (`Locals`, `Messages`,
  `Asides`), that no relay of an earlier block can arrive once its receiver has
  handed over (`RelaysPast`), and where the full state of every account is
  (`LedgerOK`). The map `old` is no variable of the model: the invariant says that
  there is one, and a step has a witness for the next. It is independent of `Inv1`;
  `ReshardTheorems` puts the two together: that nothing is lost (`Somewhere`) follows,
  because whatever would lose a transaction is a pool or a message that goes by the
  wrong map (`TimedKeeps`).
* The second part of `ReshardProofs`, on the supervisor, needs no `OnTime` either. `Gap` bounds the reports of empty
  blocks by the shards that have reported, which makes a stop before the second
  round impossible; `Reported` says that reports on their way name different
  transactions, from which the sums of `Measured` follow (`CountsAdd`).

### What is only model-checked

* Liveness under fairness, out of the prover's reach.
* What recursive definitions compute, for which induction over data is needed: the
  six invariants of the tries, `LiveTriesComplete` and `DiskClosed` of the database,
  `ChainSound` and `StatesOpen` of the chain (a chain is read back by recursion), and
  the walks along the levels of the skip list (`SearchesExact`, `IsOrderedRing`).
* `RingSound`, `PoolSound`, `PartitionSound` and the two invariants of
  `Broker`, which have no proof yet.

## 11. Not modelled

* Start-up, flags, scripts, HTTP queries, CSV and result files, logging, latencies
  and rates: input and output without state that matters elsewhere.
* JSON and gob coding, block hashing, rate limits and bandwidth.
* The second proposer's verification (`blockBroadcast` is commented out at its only
  call; `handleBlockMsg` would leave `VerifyLock` held), measurement fields of
  replies (`proposer.go:501` copies those of another transaction after a rejection).
* The unsynchronised map access in `messageHandle.go:34`, which the Go runtime turns
  into an exit at worst.
* Of the trie: the download scheduler (`sync.go`) and the secure trie
  (`secure_trie.go`), which nothing in the repository calls, `GetNode`,
  deletion that meets a missing sibling, marshalling of stack tries and object
  pools, an iterator's `Parent`, union of more than two iterators, `VerifyRangeProof`
  for keys outside the claimed range. Of its database: clean cache, preimages,
  references between account and storage tries, sizes.
* Of the shards: messages of clients, the other nodes of a shard during a hand-over,
  a second broker address (only the first is used), the two initial partitions of
  `Partition`, which nothing calls.
* The light-weight node (`consensus_shard/light-weight/*.go2`), which is not compiled.

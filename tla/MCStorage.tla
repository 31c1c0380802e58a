----------------------------- MODULE MCStorage -----------------------------
(***************************************************************************)
(* What a node keeps: the chain with its tries in memory and on disk, the  *)
(* transaction pool and the trie database.  A behaviour is one of one of   *)
(* them; the others stay as they were created.                             *)
(*                                                                         *)
(* The chains have two accounts, one of them of another shard by default,  *)
(* and transactions that are plain, too large for their sender, relayed or *)
(* of no effect.  The database has three tries that share nodes, one of    *)
(* them a subtrie of another.                                              *)
(***************************************************************************)
EXTENDS Chain

CONSTANTS a, b

MCTransfer == [id |-> 1, from |-> a, to |-> b, value |-> 1, relayed |-> FALSE, broker |-> FALSE]
MCRelayed == [id |-> 2, from |-> b, to |-> a, value |-> 2, relayed |-> TRUE, broker |-> FALSE]
MCBroker == [id |-> 3, from |-> a, to |-> b, value |-> 3, relayed |-> FALSE, broker |-> TRUE]
MCZero == [id |-> 4, from |-> b, to |-> b, value |-> 0, relayed |-> FALSE, broker |-> TRUE]
MCTx == {MCTransfer, MCRelayed, MCBroker, MCZero}
MCBit == [tx \in MCTx |-> IF tx.id = 4 THEN 1 ELSE 0]
MCAccount == {a, b}
MCHome == {a}
MCBoth == <<<<a, 2>>, <<b, 2>>>>
MCForeign == <<<<b, 2>>>>
MCMemory == [kind |-> "memory", txs |-> {MCTransfer, MCRelayed}, movable |-> {},
             deposits |-> {<<>>, MCBoth}, size |-> 1, blocks |-> 3, waiting |-> 1]
MCDisk == [kind |-> "disk", txs |-> MCTx, movable |-> {},
           deposits |-> {MCBoth}, size |-> 2, blocks |-> 2, waiting |-> 2]
MCMoving == [kind |-> "disk", txs |-> {MCTransfer, MCZero}, movable |-> {b},
             deposits |-> {<<>>, MCForeign, MCBoth}, size |-> 1, blocks |-> 2, waiting |-> 1]
MCSetups == {MCMemory, MCDisk, MCMoving}

VARIABLES inst,   \* the one that runs: "chain", "pool" or "triedb"
          txpool, born, gone, panicked,
          dirties, oldest, youngest, held, saved, job, fresh

poolVars == <<txpool, born, gone, panicked>>
dbVars == <<dirties, oldest, youngest, held, saved, job, fresh>>
storageVars == <<inst, vars, poolVars, dbVars>>

Pool == INSTANCE MCTxPool WITH pool <- txpool, Shards <- {1, 2}, Senders <- {"a", "b"},
                               MaxTx <- 4, BlockSize <- 2, MinRelay <- 1, MaxRelay <- 1
\* 1 and 2 are leaves; 4 has the same child twice.
MCKids == << <<>>, <<>>, <<1, 2>>, <<1, 1>>, <<3, 2>> >>
DB == INSTANCE MCTrieDB WITH newest <- youngest, disk <- saved, Kids <- MCKids,
                             Roots <- {3, 4, 5}, MaxHeld <- 1
ASSUME DB!Dag

StorageInit ==
    /\ Init /\ Pool!Init /\ DB!Init
    /\ inst \in {"chain", "pool", "triedb"}
    /\ inst # "chain" => setup = MCMemory

StorageNext ==
    /\ UNCHANGED inst
    /\ \/ inst = "chain" /\ Next /\ UNCHANGED <<poolVars, dbVars>>
       \/ inst = "pool" /\ Pool!Next /\ UNCHANGED <<vars, dbVars>>
       \/ inst = "triedb" /\ DB!Next /\ UNCHANGED <<vars, poolVars>>

StorageSpec == StorageInit /\ [][StorageNext]_storageVars

----------------------------------------------------------------------------
(* The properties of the parts, whose modules say more of them.            *)

\* The store holds a chain, whenever the process dies; the two ways of choosing between
\* forks agree, a transaction on the chain is found there, and a rollback puts a block with
\* a smaller hash in the place of the old one.
ChainSound ==
    [](inst = "chain" => TypeOK /\ StoreIsChain /\ MapForkAgrees /\ OnChainFound) /\ RollbackLowers

\* The state of the current block can be opened as long as the process runs, a replay with
\* the map of the block's maker comes to the root the block names, and a restart fails only
\* after a block of deposits or one replayed with another map.
StatesOpen == inst = "chain" => CurrentStateOpens /\ ReplayAgrees /\ BrokenOnlyByAccounts

\* The methods of the pool lose nothing and hand nothing out twice, and a transfer leaves
\* nothing of the account behind.
PoolSound == [](inst = "pool" => Pool!Conserved) /\ [][inst = "pool" => Pool!TransferStep]_storageVars

\* A trie that is referenced or was just written can be read in full at any time: the
\* flush list goes through all nodes in memory, and no count is above the references.
LiveTriesComplete ==
    inst = "triedb" => DB!LiveTriesComplete /\ DB!FlushListSound /\ DB!NotOvercounted

\* On disk every node has its children, whenever the process dies.
DiskClosed == inst = "triedb" => DB!DiskClosed
=============================================================================

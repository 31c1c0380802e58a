------------------------------- MODULE Chain -------------------------------
(***************************************************************************)
(* The chain of one node: blocks made, received, stored and rolled back,   *)
(* account state executed and committed, crashes and restarts.             *)
(*                                                                         *)
(*   kind = "memory"  BlockChain (src/chain/blockchain_MemoryMPT.go, with  *)
(*                    blockchain_rollback.go), whose tries live in memory; *)
(*   kind = "disk"    BlockChain_dbMPT (src/chain/blockchain.go), whose    *)
(*                    tries are committed to leveldb.                      *)
(*                                                                         *)
(* The block store (src/storage/storage.go) writes a block in three bolt   *)
(* transactions; each is atomic and durable, and the process may die       *)
(* between two of them.  A state root is the state itself, and a hash is a *)
(* number: any that was not used, since a block's time and miner enter it. *)
(***************************************************************************)
EXTENDS Integers, Sequences, FiniteSets, SequencesExt

CONSTANTS Account,
          Home,         \* accounts that Addr2Shard assigns to this shard
          Tx,           \* [id, from, to, value, relayed, broker]
          Bit,          \* the bit of the bloom filter a transaction sets
          Init_Balance,
          MaxHash,      \* the largest hash
          Setups        \* see setup

Hash == 0 .. MaxHash
Genesis == 0
NoHash == -1
Absent == -1  \* no entry in the trie

State == [Account -> Int]
EmptyTrie == [a \in Account |-> Absent]

VARIABLES
    setup,     \* rigid: the kind of the chain, its block size, and what is done to it:
               \* the transactions txs, the accounts movable that Update_PartitionMap is
               \* called for, the lists deposits of <<account, balance>> that AddAccounts is
               \* given, and the bounds blocks and waiting on blocks and the pool
    block,     \* every block that was made here or by a peer, by its hash
    stored,    \* hashes in the block bucket
    headers,   \* hashes in the header bucket
    newest,    \* the value of "OnlyNewestBlock"
    current,   \* CurrentBlock
    status,    \* "up", "down", or "broken": it panics when started
    writing,   \* where Storage.AddBlock is: <<>>, or the next bucket and the hash
    disk,      \* states whose root node the database under triedb has
    dirty,     \* states whose root node is in triedb's memory only
    pool,      \* the queue of the transaction pool
    moved,     \* PartitionMap: accounts it assigns to this shard, and others
    strayed    \* history: blocks replayed here with another PartitionMap than their maker's

vars == <<setup, block, stored, headers, newest, current, status, writing, disk, dirty, pool, moved, strayed>>
diskVars == <<stored, headers, newest>>

InMemory == setup.kind = "memory"

PartitionMap == [in : SUBSET Account, out : SUBSET Account]
NoneMoved == [in |-> {}, out |-> {}]

Block == [num : Nat, parent : Hash \cup {NoHash}, root : State, txs : Seq(Tx),
          accounts : BOOLEAN,  \* made by AddAccounts, at every node for itself
          map : PartitionMap]  \* history: the map it was made with

TypeOK ==
    /\ DOMAIN block \subseteq Hash /\ \A h \in DOMAIN block : block[h] \in Block
    /\ stored \subseteq DOMAIN block /\ headers \subseteq stored
    /\ newest \in headers \cup {NoHash}
    /\ current \in DOMAIN block \cup {NoHash}
    /\ status \in {"up", "down", "broken"}
    /\ disk \subseteq State /\ dirty \subseteq State
    /\ pool \in Seq(Tx)
    /\ moved \in PartitionMap
    /\ strayed \subseteq DOMAIN block

GenesisBlock == [num |-> 0, parent |-> NoHash, root |-> EmptyTrie, txs |-> <<>>,
                 accounts |-> FALSE, map |-> NoneMoved]

Init ==
    /\ setup \in Setups
    /\ block = [h \in {Genesis} |-> GenesisBlock]
    /\ stored = {} /\ headers = {} /\ newest = NoHash
    /\ current = NoHash /\ status = "down" /\ writing = <<>>
    /\ disk = {} /\ dirty = {} /\ pool = <<>>
    /\ moved = NoneMoved /\ strayed = {}

Up == status = "up" /\ writing = <<>>

----------------------------------------------------------------------------
(* Executing transactions *)

Local(a) == a \in moved.in \/ (a \in Home /\ a \notin moved.out)

\* The empty root, and the zero hash of a block without one, need no node.
Resolvable(s) == s = EmptyTrie \/ s \in disk \cup dirty

BalanceOf(s, a) == IF s[a] = Absent THEN Init_Balance ELSE s[a]

\* One transaction in the second loop of BlockChain_dbMPT.GetUpdateStatusTrie: a sender
\* without the means is not debited, the recipient is credited all the same.
\* x.touched: some Update changed the trie, x.count: cnt.
Execute(x, tx) ==
    LET debits == ~tx.relayed /\ (Local(tx.from) \/ tx.broker)
        credits == Local(tx.to) \/ tx.broker
        from == BalanceOf(x.s, tx.from)
        s1 == IF debits
              THEN [x.s EXCEPT ![tx.from] = IF from < tx.value THEN from ELSE from - tx.value]
              ELSE x.s
        s2 == IF credits THEN [s1 EXCEPT ![tx.to] = BalanceOf(s1, tx.to) + tx.value] ELSE s1
    IN [s |-> s2,
        touched |-> x.touched \/ s1 # x.s \/ s2 # s1,
        count |-> x.count + (IF debits THEN 1 ELSE 0) + (IF credits THEN 1 ELSE 0)]

Executed(root, txs) == FoldLeft(Execute, [s |-> root, touched |-> FALSE, count |-> 0], txs)

\* GetUpdateStatusTrie.  The memory chain counts no modification and so keeps its root.
\* ok is FALSE where it panics: the root cannot be opened, or there is nothing to commit
\* and triedb.Update is given no node set.
GetUpdateStatusTrie(root, txs) ==
    LET x == Executed(root, txs)
        same == [root |-> root, stores |-> FALSE, ok |-> TRUE]
    IN IF txs = <<>> THEN same
       ELSE IF ~Resolvable(root) THEN [same EXCEPT !.ok = FALSE]
       ELSE IF InMemory \/ x.count = 0 THEN same
       ELSE IF ~x.touched THEN [same EXCEPT !.ok = FALSE]
       ELSE [root |-> x.s, stores |-> TRUE, ok |-> TRUE]

\* A panic or the death of the process: what is in memory is gone.
Die ==
    /\ status' = "down" /\ writing' = <<>> /\ current' = NoHash
    /\ dirty' = {} /\ disk' = IF InMemory THEN {} ELSE disk
    /\ pool' = <<>> /\ moved' = NoneMoved

----------------------------------------------------------------------------
(* Blocks *)

FreshHash == (0 .. setup.blocks) \ DOMAIN block

With(h, made) == [x \in DOMAIN block \cup {h} |-> IF x = h THEN made ELSE block[x]]

SendTx2Pool(tx) ==
    /\ Up /\ Len(pool) < setup.waiting
    /\ pool' = Append(pool, tx)
    /\ UNCHANGED <<block, diskVars, current, status, writing, disk, dirty, moved, strayed>>

Update_PartitionMap(a, here) ==
    /\ Up
    /\ moved' = IF here THEN [in |-> moved.in \cup {a}, out |-> moved.out \ {a}]
                ELSE [in |-> moved.in \ {a}, out |-> moved.out \cup {a}]
    /\ UNCHANGED <<block, diskVars, current, status, writing, disk, dirty, pool, strayed>>

Packed == SubSeq(pool, 1, IF Len(pool) < setup.size THEN Len(pool) ELSE setup.size)

\* The block is handed to the caller; its state is committed already.
GenerateBlock(h) ==
    LET r == GetUpdateStatusTrie(block[current].root, Packed)
        made == [num |-> block[current].num + 1, parent |-> current, root |-> r.root, txs |-> Packed,
                 accounts |-> FALSE, map |-> moved]
    IN /\ Up /\ h \in FreshHash
       /\ IF r.ok
          THEN /\ block' = With(h, made)
               /\ disk' = IF r.stores THEN disk \cup {r.root} ELSE disk
               /\ dirty' = IF r.stores THEN dirty \ {r.root} ELSE dirty
               /\ pool' = SubSeq(pool, Len(Packed) + 1, Len(pool))
               /\ UNCHANGED <<current, status, writing, moved>>
          ELSE Die /\ UNCHANGED block
       /\ UNCHANGED <<diskVars, strayed>>

\* A peer with the same partition map makes a block on any block there is.
PeerBlock(h, p, txs) ==
    LET x == Executed(block[p].root, txs)
        root == IF InMemory \/ x.count = 0 THEN block[p].root ELSE x.s
    IN /\ Up /\ h \in FreshHash /\ p \in DOMAIN block
       /\ block' = With(h, [num |-> block[p].num + 1, parent |-> p, root |-> root, txs |-> txs,
                              accounts |-> FALSE, map |-> moved])
       /\ UNCHANGED <<diskVars, current, status, writing, disk, dirty, pool, moved, strayed>>

\* Mutant: only the height is compared.
HeightOnly(h, cur) == block[h].num = block[cur].num + 1

Accepts(h, cur) == block[h].num = block[cur].num + 1 /\ block[h].parent = cur

\* What AddBlock executes: nothing in the memory chain, nor when the root can be opened.
Replays(h) == ~InMemory /\ ~Resolvable(block[h].root)

Replay(h, cur) ==
    IF ~Replays(h)
    THEN [root |-> block[h].root, stores |-> FALSE, ok |-> TRUE]
    ELSE GetUpdateStatusTrie(block[cur].root, block[h].txs)

\* AddBlock after its checks; the storage writes follow.
Append2Chain(h, cur) ==
    LET r == Replay(h, cur)
    IN IF r.ok
       THEN /\ current' = h /\ writing' = <<"block", h>>
            /\ strayed' = IF Replays(h) /\ block[h].map # moved THEN strayed \cup {h} ELSE strayed
            /\ disk' = IF r.stores THEN disk \cup {r.root} ELSE disk
            /\ dirty' = IF r.stores THEN dirty \ {r.root} ELSE dirty
            /\ UNCHANGED <<status, pool, moved>>
       ELSE Die /\ UNCHANGED strayed

AddBlock(h) ==
    /\ Up /\ h \in DOMAIN block /\ ~block[h].accounts
    /\ Accepts(h, current)
    /\ Append2Chain(h, current)
    /\ UNCHANGED <<block, diskVars>>

\* Mutant: the new nodes are not inserted into triedb.
NotUpdated(old, new) == dirty \ {old}

\* triedb.Update with the new nodes, and triedb.Commit of the root it is given.
UpdatedAndCommitted(old, new) == (dirty \cup {new}) \ {old}

\* AddAccounts: a block without transactions.  An empty list leaves the trie alone.
\* Otherwise the trie is opened and committed; a commit that changes nothing of a trie
\* that is not empty returns no node set, and triedb.Update panics on it.  triedb.Commit
\* is given the old root, so that the new state stays in memory.
AddAccounts(h, list) ==
    LET old == block[current].root
        put(s, e) == IF Local(e[1]) THEN [s EXCEPT ![e[1]] = e[2]] ELSE s
        new == FoldLeft(put, old, list)
        noNodes == new = old /\ old # EmptyTrie
        made == [num |-> block[current].num + 1, parent |-> current, root |-> new, txs |-> <<>>,
                 accounts |-> TRUE, map |-> moved]
    IN /\ Up /\ h \in FreshHash
       /\ IF list = <<>> \/ (Resolvable(old) /\ ~noNodes)
          THEN /\ block' = With(h, made)
               /\ current' = h /\ writing' = <<"block", h>>
               /\ dirty' = IF list = <<>> THEN dirty ELSE UpdatedAndCommitted(old, new)
               /\ disk' = IF list # <<>> /\ old \in dirty THEN disk \cup {old} ELSE disk
               /\ UNCHANGED <<status, pool, moved>>
          ELSE Die /\ UNCHANGED block
       /\ UNCHANGED <<diskVars, strayed>>

----------------------------------------------------------------------------
(* Rolling back (the memory chain only) *)

\* The chain from h down, as far as the store has it.
ChainFrom(h) ==
    LET down[n \in 0 .. MaxHash + 1, x \in Hash \cup {NoHash}] ==
            IF x \notin stored \/ n = 0 THEN <<>>
            ELSE <<x>> \o down[n - 1, block[x].parent]
    IN down[MaxHash + 1, h]

OnChain == Range(ChainFrom(current))

SmallerWins(h, same) == same > h

\* The block of b's height on the chain has the same parent and a larger hash.  A block
\* of height zero has no parent to be found and loses.
JudgeForkValid(h) ==
    /\ block[h].num <= block[current].num
    /\ \E same \in OnChain :
          /\ block[same].num = block[h].num
          /\ block[same].parent = block[h].parent
          /\ SmallerWins(h, same)
    /\ block[h].parent \in stored

JudgeForkValid_RollBack(h) ==
    /\ InMemory /\ Up /\ h \in DOMAIN block /\ ~block[h].accounts
    /\ JudgeForkValid(h)
    /\ Append2Chain(h, block[h].parent)
    /\ UNCHANGED <<block, diskVars>>

\* The same question with the caller's maps from heights to hashes and to blocks.
JudgeForkValid_withMap(h, height2Hash, known) ==
    /\ block[h].num <= block[current].num
    /\ block[h].num \in DOMAIN height2Hash
    /\ LET same == height2Hash[block[h].num]
       IN /\ same \in known
          /\ block[h].parent = block[same].parent
          /\ SmallerWins(h, same)
    /\ block[h].parent \in known

----------------------------------------------------------------------------
(* Storage.AddBlock, crashes and restarts *)

WriteBlock ==
    /\ writing # <<>> /\ writing[1] = "block"
    /\ stored' = stored \cup {writing[2]}
    /\ writing' = <<"header", writing[2]>>
    /\ UNCHANGED <<block, headers, newest, current, status, disk, dirty, pool, moved, strayed>>

AddBlockHeader ==
    /\ writing # <<>> /\ writing[1] = "header"
    /\ headers' = headers \cup {writing[2]}
    /\ writing' = <<"newest", writing[2]>>
    /\ UNCHANGED <<block, stored, newest, current, status, disk, dirty, pool, moved, strayed>>

UpdateNewestBlock ==
    /\ writing # <<>> /\ writing[1] = "newest"
    /\ newest' = writing[2]
    /\ writing' = <<>>
    /\ UNCHANGED <<block, stored, headers, current, status, disk, dirty, pool, moved, strayed>>

Store == WriteBlock \/ AddBlockHeader \/ UpdateNewestBlock

Crash == status = "up" /\ Die /\ UNCHANGED <<block, diskVars, strayed>>

\* NewBlockChain: the first start makes the genesis block, a later one opens the newest.
NewBlockChain ==
    /\ status = "down"
    /\ IF newest = NoHash
       THEN status' = "up" /\ current' = Genesis /\ writing' = <<"block", Genesis>>
       ELSE IF newest \in stored /\ Resolvable(block[newest].root)
       THEN status' = "up" /\ current' = newest /\ UNCHANGED writing
       ELSE status' = "broken" /\ UNCHANGED <<current, writing>>
    /\ UNCHANGED <<block, diskVars, disk, dirty, pool, moved, strayed>>

Next ==
    /\ UNCHANGED setup
    /\ \/ \E tx \in setup.txs : SendTx2Pool(tx)
       \/ \E a \in setup.movable, here \in BOOLEAN : Update_PartitionMap(a, here)
       \/ \E h \in Hash : GenerateBlock(h) \/ AddBlock(h) \/ JudgeForkValid_RollBack(h)
       \/ \E h, p \in Hash, tx \in setup.txs : PeerBlock(h, p, <<tx>>)
       \/ \E h \in Hash, list \in setup.deposits : AddAccounts(h, list)
       \/ Store \/ Crash \/ NewBlockChain

Spec == Init /\ [][Next]_vars

----------------------------------------------------------------------------
(* TxOnChainVerify *)

\* The block the search stops at, from the current block down to the first: Prove gives
\* a proof of absence as readily as one of presence and both verify, so that the first
\* block whose filter has the bit is taken for the one that holds the transaction.
TxOnChainVerify(tx) ==
    LET hits == SelectSeq(ChainFrom(current),
                          LAMBDA h : block[h].num > 0 /\ \E t \in Range(block[h].txs) : Bit[t] = Bit[tx])
    IN IF hits = <<>> THEN NoHash ELSE hits[1]

----------------------------------------------------------------------------
(* Properties *)

\* Whenever the process dies, the store it leaves is a chain: what the newest-block
\* pointer names is stored with its header, and so are its ancestors down to the genesis
\* block, one height each.
StoreIsChain ==
    newest # NoHash =>
        LET c == ChainFrom(newest)
        IN /\ c # <<>> /\ Last(c) = Genesis
           /\ Range(c) \subseteq headers
           /\ \A i \in DOMAIN c : block[c[i]].num = Len(c) - i

\* The state of the current block can be opened at any time, so that GenerateBlock,
\* AddAccounts and FetchAccounts do not panic on it.  The one exception is a chain with a
\* block that was replayed with another partition map than its maker's, as after a
\* restart, which forgets the map: AddBlock compares no root.
CurrentStateOpens == Up /\ OnChain \cap strayed = {} => Resolvable(block[current].root)

\* With the map of the block's maker, what a replay computes is the root that the block
\* names: the comparison that AddBlock leaves out would succeed.
ReplayAgrees ==
    Up => \A h \in DOMAIN block :
              /\ Accepts(h, current) /\ ~block[h].accounts
              /\ Replays(h) /\ block[h].map = moved
              => LET r == Replay(h, current) IN r.ok => r.root = block[h].root

\* A start panics only if the newest state is one that AddAccounts made, or stems from a
\* block replayed with another map: the state of every other block is in the database
\* before the block is stored.
BrokenOnlyByAccounts ==
    status = "broken" =>
        \E h \in Range(ChainFrom(newest)) :
            (block[h].accounts /\ block[h].root = block[newest].root) \/ h \in strayed

\* What a rollback replaces, it replaces by a block of the same height and parent with a
\* smaller hash, and the chain it leaves ends in that block.
RollbackLowers ==
    [][(status = "up" /\ status' = "up" /\ current # current' /\ block'[current'].parent # current)
          => \E old \in OnChain : /\ block[old].num = block'[current'].num
                                  /\ block[old].parent = block'[current'].parent
                                  /\ current' < old]_vars

\* Asked with maps that describe the current chain, the second form of the fork test gives
\* the answer of the first.
MapForkAgrees ==
    (InMemory /\ Up) =>
        LET c == ChainFrom(current)
            height2Hash == [n \in 0 .. Len(c) - 1 |-> c[Len(c) - n]]
        IN \A h \in DOMAIN block :
              JudgeForkValid(h) <=> JudgeForkValid_withMap(h, height2Hash, stored)

\* Every transaction in a block of the chain is found on it.
OnChainFound ==
    Up => \A h \in OnChain : \A tx \in Range(block[h].txs) : TxOnChainVerify(tx) # NoHash

\* The comment on TxOnChainVerify: it checks whether a transaction is on the chain.
\* It does not hold: the README says why.
FoundIsOnChain ==
    Up => \A tx \in setup.txs : TxOnChainVerify(tx) # NoHash
                            => \E h \in OnChain : tx \in Range(block[h].txs)

\* The comment in NewBlockChain: there is a chain in the storage, and it is opened.
\* It does not hold: the README says why.
RestartOpens == status # "broken"

\* The comment on GetUpdateStatusTrie: transactions are handled and the trie modified.
\* It does not hold: the README says why.
TransfersModify ==
    \A h \in DOMAIN block : block[h].txs # <<>> =>
        LET p == block[block[h].parent]
        IN Executed(p.root, block[h].txs).s # p.root => block[h].root # p.root
=============================================================================

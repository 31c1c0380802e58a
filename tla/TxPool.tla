------------------------------- MODULE TxPool -------------------------------
(***************************************************************************)
(* The transaction pool (src/core/txpool.go) as a value: a queue, and for  *)
(* each other shard the transactions to be relayed there.  Every method    *)
(* runs under the pool's lock, so that it is one step of its caller.       *)
(* Times stamped on transactions are left out, and a shard without an      *)
(* entry in the relay map is one whose entry is empty.                     *)
(***************************************************************************)
EXTENDS Naturals, Sequences, SequencesExt

CONSTANT Shards

NewTxPool == [queue |-> <<>>, relay |-> [s \in Shards |-> <<>>],
              nil |-> FALSE]  \* is RelayPool a nil map?

AddTxs2Pool(pool, txs) == [pool EXCEPT !.queue = @ \o txs]

AddTxs2Pool_Head(pool, txs) == [pool EXCEPT !.queue = txs \o @]

PackNum(seq, max) == IF Len(seq) < max THEN Len(seq) ELSE max

Packed(pool, max) == SubSeq(pool.queue, 1, PackNum(pool.queue, max))

\* Mutant: a transaction is cut off at the end of a block.
DropOne(pool, max) == [pool EXCEPT !.queue = SubSeq(@, PackNum(@, max) + 2, Len(@))]

PackTxs(pool, max) == [pool EXCEPT !.queue = SubSeq(@, PackNum(@, max) + 1, Len(@))]

\* The assignment to an entry of a nil map panics.
CanRelay(pool) == ~pool.nil

AddRelayTx(pool, tx, s) == [pool EXCEPT !.relay[s] = Append(@, tx)]

ClearRelayPool(pool) == [pool EXCEPT !.relay = [s \in Shards |-> <<>>], !.nil = TRUE]

\* What the commit handlers assign to RelayPool themselves before they use it.
MakeRelayPool(pool) == [pool EXCEPT !.relay = [s \in Shards |-> <<>>], !.nil = FALSE]

RelayReady(pool, s, min) == pool.relay[s] # <<>> /\ Len(pool.relay[s]) >= min

PackedRelay(pool, s, max) == SubSeq(pool.relay[s], 1, PackNum(pool.relay[s], max))

PackRelayTxs(pool, s, max) == [pool EXCEPT !.relay[s] = SubSeq(@, PackNum(@, max) + 1, Len(@))]

\* The transactions of an account that moves away, those of the queue first and those
\* of the relay pools in the order in which the map is ranged over.
Transferred(pool, addr, order) ==
    LET of(seq) == SelectSeq(seq, LAMBDA tx : tx.from = addr)
    IN of(pool.queue) \o FlattenSeq([i \in DOMAIN order |-> of(pool.relay[order[i]])])

\* The relay map is built anew, also when it was nil.
TransferTxs(pool, addr) ==
    LET rest(seq) == SelectSeq(seq, LAMBDA tx : tx.from # addr)
    IN [queue |-> rest(pool.queue), relay |-> [s \in Shards |-> rest(pool.relay[s])],
        nil |-> FALSE]
=============================================================================

------------------------------ MODULE MCTxPool ------------------------------
(***************************************************************************)
(* A pool that is used through every method, in any order, with a record   *)
(* of where every transaction has gone.                                    *)
(***************************************************************************)
EXTENDS TxPool, FiniteSets

CONSTANTS Senders, MaxTx, BlockSize, MinRelay, MaxRelay

VARIABLES pool, born, gone, panicked

vars == <<pool, born, gone, panicked>>

Init == pool = NewTxPool /\ born = 0 /\ gone = <<>> /\ panicked = FALSE

Fresh(from) == [id |-> born + 1, from |-> from]

Arrive(from, head) ==
    /\ born < MaxTx /\ born' = born + 1
    /\ pool' = IF head THEN AddTxs2Pool_Head(pool, <<Fresh(from)>>)
               ELSE AddTxs2Pool(pool, <<Fresh(from)>>)
    /\ UNCHANGED <<gone, panicked>>

Relay(from, s) ==
    /\ born < MaxTx /\ born' = born + 1
    /\ IF CanRelay(pool)
       THEN pool' = AddRelayTx(pool, Fresh(from), s) /\ UNCHANGED panicked
       ELSE panicked' = TRUE /\ UNCHANGED pool
    /\ UNCHANGED gone

Pack ==
    /\ gone' = gone \o Packed(pool, BlockSize)
    /\ pool' = PackTxs(pool, BlockSize)
    /\ UNCHANGED <<born, panicked>>

PackRelay(s) ==
    /\ RelayReady(pool, s, MinRelay)
    /\ gone' = gone \o PackedRelay(pool, s, MaxRelay)
    /\ pool' = PackRelayTxs(pool, s, MaxRelay)
    /\ UNCHANGED <<born, panicked>>

Transfer(from) ==
    /\ \E order \in SetToSeqs(Shards) : gone' = gone \o Transferred(pool, from, order)
    /\ pool' = TransferTxs(pool, from)
    /\ UNCHANGED <<born, panicked>>

\* A cleared pool is made again before it is used, as the commit handlers do; its
\* contents have been sent.
Clear ==
    /\ CanRelay(pool)
    /\ \E order \in SetToSeqs(Shards) :
          gone' = gone \o FlattenSeq([i \in DOMAIN order |-> pool.relay[order[i]]])
    /\ pool' = ClearRelayPool(pool) /\ UNCHANGED <<born, panicked>>

Remake == ~CanRelay(pool) /\ pool' = MakeRelayPool(pool) /\ UNCHANGED <<born, gone, panicked>>

Next ==
    /\ ~panicked
    /\ \/ \E f \in Senders : \/ \E head \in BOOLEAN : Arrive(f, head)
                             \/ \E s \in Shards : Relay(f, s)
                             \/ Transfer(f)
       \/ Pack \/ Clear \/ Remake
       \/ \E s \in Shards : PackRelay(s)

Spec == Init /\ [][Next]_vars

Everywhere ==
    gone \o pool.queue \o FlattenSeq([i \in 1 .. Cardinality(Shards) |->
                                         pool.relay[SetToSeq(Shards)[i]]])

\* Nothing is lost and nothing is packed twice: every transaction that entered is in the
\* queue, in one relay pool or has been handed out, exactly once.
Conserved ==
    ~panicked =>
        /\ \A i \in 1 .. born : Cardinality({k \in DOMAIN Everywhere : Everywhere[k].id = i}) = 1
        /\ Len(Everywhere) = born

\* A transfer leaves nothing of the account behind, in any pool.
TransferStep ==
    \A f \in Senders : Transfer(f) =>
        \A s \in Shards : \A tx \in Range(pool'.queue) \cup Range(pool'.relay[s]) : tx.from # f
=============================================================================

------------------------------ MODULE MCBroker ------------------------------
(***************************************************************************)
(* Two shards, the broker in the first.  Of the transactions, t1 is across *)
(* shards, t2 inside one and t3 to the broker.  The first map takes their  *)
(* sender to the second shard, so that t1 is inside it and t2 is not; the  *)
(* second takes the sender back, and the recipient of t1 with it.          *)
(*                                                                         *)
(* In the first scenario both maps are sent, on time, and the sender has   *)
(* not the means for t2; in the second the account moves and comes back as *)
(* it went.  In the third a map is sent with messages as late as can be;   *)
(* in the fourth no map is sent, and the sender has not the means for t3.  *)
(* In the last the chain has no pool.                                      *)
(***************************************************************************)
EXTENDS Broker

CONSTANTS a, b, c, br, t1, t2, t3

mcSender == [t \in Txs |-> a]
mcRecipient == [t \in Txs |-> CASE t = t1 -> b [] t = t2 -> c [] OTHER -> br]
mcAddr2Shard == [x \in Accounts |-> IF x = b THEN 1 ELSE 0]

mcOnTime == [txs |-> {t1, t2}, maps |-> <<(a :> 1), (a :> 0) @@ (b :> 0)>>,
             timely |-> {"seqs", "injects", "deals", "partitions"}, rounds |-> 2,
             short |-> {t2}, chain |-> "dbMPT"]
mcBack == [mcOnTime EXCEPT !.txs = {t1}, !.maps = <<(a :> 1), (a :> 0)>>, !.rounds = 3]
mcAnyTime == [txs |-> {t1, t2}, maps |-> <<(a :> 1)>>, timely |-> {}, rounds |-> 1,
              short |-> {}, chain |-> "dbMPT"]
mcPlain == [txs |-> {t1, t2, t3}, maps |-> <<>>, timely |-> {}, rounds |-> 0,
            short |-> {t3}, chain |-> "dbMPT"]
mcMemory == [txs |-> {t1, t2}, maps |-> <<(a :> 1)>>, timely |-> {}, rounds |-> 1,
             short |-> {}, chain |-> "memory"]
mcScenarios == {mcOnTime, mcBack, mcAnyTime, mcPlain, mcMemory}

ASSUME ScenarioTypes
=============================================================================

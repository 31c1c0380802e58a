------------------------------ MODULE MCLocal ------------------------------
(***************************************************************************)
(* Package local: the consistent hash, its two locks and the skip list     *)
(* under it.  A behaviour is one of one of them; the others stay as they   *)
(* were created.                                                           *)
(*                                                                         *)
(* The consistent hash has three nodes with two virtual nodes each, under  *)
(* every hash of them onto the ring up to the names of the nodes.          *)
(***************************************************************************)
EXTENDS HashRing

CONSTANTS Threads, NoThread

VARIABLES inst,  \* the part that runs: "ring", "lock", "lockV2", or a skip list,
                 \* "tall" with three levels or "wide" with two ids at a score
          pc, doubleLock, lock, owner, cancel, guards, using, timed,
          locked, expireAt, owner2, now, using2, ever,
          nexts, nodeIDs

lockVars == <<pc, doubleLock, lock, owner, cancel, guards, using, timed>>
lockV2Vars == <<locked, expireAt, owner2, now, using2, ever>>
skipVars == <<nexts, nodeIDs>>
localVars == <<inst, vars, lockVars, lockV2Vars, skipVars>>

\* A node's place in the order of names is that of its scores.  The virtual nodes from the
\* third on, which a weight of 1 never uses, have score 0.
First(f, n) == MaxInt * f[<<n, 0>>] + f[<<n, 1>>]
MCLayouts ==
    {[x \in Node \X Index |-> IF x[2] < 2 THEN f[x] ELSE 0] :
        f \in {f \in [Node \X (0 .. 1) -> Score] : First(f, "0") <= First(f, "1") /\ First(f, "1") <= First(f, "2")}}
MCKeyScore == [k \in Key |-> k]

Lock == INSTANCE RingLock WITH MaxGuards <- 2
LockV2 == INSTANCE RingLockV2 WITH owner <- owner2, using <- using2, Durations <- 0 .. 2, MaxTime <- 5
Tall == INSTANCE SkipList WITH NodeID <- {"n1"}, MaxLevel <- 2
Wide == INSTANCE SkipList WITH NodeID <- {"n1", "n2"}, MaxLevel <- 1

LocalInit ==
    /\ inst \in {"ring", "lock", "lockV2", "tall", "wide"}
    /\ Init /\ Lock!Init /\ LockV2!Init /\ Tall!Init
    /\ inst # "ring" => \A x \in DOMAIN hash : hash[x] = 0

LocalNext ==
    /\ UNCHANGED inst
    /\ \/ inst = "ring" /\ Next /\ UNCHANGED <<lockVars, lockV2Vars, skipVars>>
       \/ inst = "lock" /\ Lock!Next /\ UNCHANGED <<vars, lockV2Vars, skipVars>>
       \/ inst = "lockV2" /\ LockV2!Next /\ UNCHANGED <<vars, lockVars, skipVars>>
       \/ inst = "tall" /\ Tall!Next /\ UNCHANGED <<vars, lockVars, lockV2Vars>>
       \/ inst = "wide" /\ Wide!Next /\ UNCHANGED <<vars, lockVars, lockV2Vars>>

LocalSpec == LocalInit /\ [][LocalNext]_localVars

----------------------------------------------------------------------------
(* The properties of the parts, whose modules say more of them.            *)

\* The virtual nodes of a listed node are on the ring; keys are listed, and their data is,
\* where a lookup finds them, and in the middle of a removal where one will.
RingSound ==
    inst = "ring" => TypeOK /\ ReplicasOnRing /\ KeysFollowRing /\ RemovalOnCourse /\ DataFollowsRing

LeaseStep == Lock!LeaseOf!Next \/ UNCHANGED Lock!LeaseOf!vars
LeaseV2Step == LockV2!LeaseOf!Next \/ UNCHANGED LockV2!LeaseOf!vars

\* LockEntity is a lease, and so is LockEntityV2, which keeps a time instead of a goroutine.
\* LockEntity unlocks only a locked mutex, never leaves it locked without an owner, and has
\* two users at once only if the expiry of one has come.
AreLeases ==
    /\ Lock!LeaseOf!Init /\ LockV2!LeaseOf!Init
    /\ [](Lock!TypeOK /\ LockV2!TypeOK /\ Lock!OwnerHoldsLock /\ Lock!OneUser)
    /\ [][(inst = "lock" => LeaseStep) /\ (inst = "lockV2" => LeaseV2Step)]_localVars

\* Every level of the skip list is a sorted sublist of the one below, and searching down
\* the levels finds what a search through all nodes finds.
SearchesExact ==
    /\ inst = "tall" => Tall!TypeOK
    /\ inst = "wide" => Wide!TypeOK
    /\ inst \in {"tall", "wide"} => Tall!LevelsSound /\ Tall!SearchesAgree

OrderedStep == Wide!Map!Next \/ UNCHANGED Wide!Contents

\* The skip list is the ordered map that the consistent hash takes it for.
IsOrderedRing ==
    /\ Wide!Map!Init
    /\ [][(inst \in {"tall", "wide"}) => OrderedStep]_localVars
=============================================================================

----------------------------- MODULE RingLockV2 -----------------------------
(***************************************************************************)
(* LockEntityV2 (src/local/hash_ring.go): the second form of the ring's    *)
(* lock, without goroutines.  An acquisition is over when its expiry time  *)
(* lies before the time of the next call; nobody waits.                    *)
(***************************************************************************)
EXTENDS Integers

CONSTANTS Threads, NoThread,
          Durations,  \* the values of expireSeconds used
          MaxTime     \* bound on the clock

VARIABLES locked, expireAt, owner,  \* the fields of LockEntityV2
          now,                      \* the clock
          using,                    \* threads whose Lock returned nil, until their Unlock
          ever                      \* history: threads that have had the lock

vars == <<locked, expireAt, owner, now, using, ever>>

TypeOK ==
    /\ locked \in BOOLEAN /\ expireAt \in Nat /\ now \in 0 .. MaxTime
    /\ owner \in Threads \cup {NoThread}
    /\ using \subseteq ever /\ ever \subseteq Threads

Init == locked = FALSE /\ expireAt = 0 /\ owner = NoThread /\ now = 0 /\ using = {} /\ ever = {}

\* expireAt.Before(now)
Free == ~locked \/ expireAt < now

\* A call of Lock; one that fails changes nothing.
Lock(t, d) ==
    /\ t \notin using
    /\ Free
    /\ locked' = TRUE /\ expireAt' = now + d /\ owner' = t
    /\ using' = using \cup {t} /\ ever' = ever \cup {t}
    /\ UNCHANGED now

\* Unlock: "not locked" and "not your lock" leave everything as it is.
Unlock(t) ==
    /\ t \in using /\ using' = using \ {t}
    /\ locked' = (locked /\ (Free \/ owner # t))
    /\ UNCHANGED <<expireAt, owner, now, ever>>

Tick == now < MaxTime /\ now' = now + 1 /\ UNCHANGED <<locked, expireAt, owner, using, ever>>

Next == (\E t \in Threads : Unlock(t) \/ \E d \in Durations : Lock(t, d)) \/ Tick

Spec == Init /\ [][Next]_vars

----------------------------------------------------------------------------

Over == ~locked \/ expireAt < now

\* The lock is a lease: one holder at a time, until it unlocks or its time is up.
LeaseOf == INSTANCE Lease WITH holder <- IF Over THEN NoThread ELSE owner, timed <- ever
IsLease == LeaseOf!Spec
=============================================================================

------------------------------ MODULE RingLock ------------------------------
(***************************************************************************)
(* The lock of the hash ring (LockEntity, src/local/hash_ring.go): a mutex *)
(* `lock', a second mutex `doubleLock' that makes unlocking idempotent, an *)
(* owner token, and for every timed acquisition a goroutine, here a guard, *)
(* that unlocks on the owner's behalf after expireSeconds.                 *)
(*                                                                         *)
(* A guard's select may choose its timer although its context is already   *)
(* cancelled when both are ready, and a guard past its select no longer    *)
(* looks at the context.  Lock waits for `lock' with doubleLock held.      *)
(***************************************************************************)
EXTENDS Naturals, Sequences

CONSTANTS Threads,   \* goroutines that use the ring; a token names a goroutine
          NoThread,
          MaxGuards  \* bound on the timed acquisitions of a behaviour

VARIABLES pc,          \* where each thread is
          doubleLock,  \* the thread that holds doubleLock, or NoThread
          lock,        \* is the mutex locked?
          owner,       \* the stored token, NoThread for ""
          cancel,      \* the guard that s.cancel cancels, 0 for nil
          guards,      \* the guards started so far
          using,       \* threads whose Lock returned and whose Unlock did not
          timed        \* history: threads that have asked for an expiry

vars == <<pc, doubleLock, lock, owner, cancel, guards, using, timed>>

Guard == [token : Threads, state : {"armed", "fired", "done"}, cancelled : BOOLEAN]

TypeOK ==
    /\ pc \in [Threads -> {"idle", "enter", "wait", "leave"}]
    /\ doubleLock \in Threads \cup {NoThread}
    /\ lock \in BOOLEAN
    /\ owner \in Threads \cup {NoThread}
    /\ cancel \in 0 .. Len(guards)
    /\ guards \in Seq(Guard)
    /\ using \subseteq Threads /\ timed \subseteq Threads

Init ==
    /\ pc = [t \in Threads |-> "idle"]
    /\ doubleLock = NoThread /\ lock = FALSE /\ owner = NoThread
    /\ cancel = 0 /\ guards = <<>> /\ using = {} /\ timed = {}

----------------------------------------------------------------------------
(* Lock *)

CallLock(t) ==
    /\ pc[t] = "idle" /\ t \notin using
    /\ pc' = [pc EXCEPT ![t] = "enter"]
    /\ UNCHANGED <<doubleLock, lock, owner, cancel, guards, using, timed>>

TakeDouble(t) ==
    /\ pc[t] = "enter" /\ doubleLock = NoThread
    /\ pc' = [pc EXCEPT ![t] = "wait"] /\ doubleLock' = t
    /\ UNCHANGED <<lock, owner, cancel, guards, using, timed>>

\* A guard that is started watches the acquisition just made.
Acquire(t, expires) ==
    /\ pc[t] = "wait" /\ ~lock
    /\ lock' = TRUE /\ owner' = t
    /\ expires => Len(guards) < MaxGuards
    /\ guards' = IF expires
                 THEN Append(guards, [token |-> t, state |-> "armed", cancelled |-> FALSE])
                 ELSE guards
    /\ cancel' = IF expires THEN Len(guards') ELSE cancel
    /\ timed' = IF expires THEN timed \cup {t} ELSE timed
    /\ doubleLock' = NoThread
    /\ pc' = [pc EXCEPT ![t] = "idle"] /\ using' = using \cup {t}

----------------------------------------------------------------------------
(* unlock, by the owner or by a guard *)

\* Mutant: the token is not compared with the owner's.
OthersToo(token) == owner # NoThread

Owned(token) == owner = token

\* Mutant: doubleLock is not released when the token is another's.
DoubleKept(token, gs) ==
    /\ doubleLock = NoThread /\ guards' = gs
    /\ IF Owned(token)
       THEN owner' = NoThread /\ lock' = FALSE /\ doubleLock' = NoThread
       ELSE owner' = owner /\ lock' = lock /\ doubleLock' = token
    /\ UNCHANGED <<cancel, timed>>

\* What unlock does once it has doubleLock; gs are the guards as the caller leaves them.
unlock(token, gs) ==
    /\ doubleLock = NoThread
    /\ IF Owned(token)
       THEN /\ owner' = NoThread /\ lock' = FALSE
            /\ guards' = IF cancel = 0 THEN gs ELSE [gs EXCEPT ![cancel].cancelled = TRUE]
       ELSE owner' = owner /\ lock' = lock /\ guards' = gs
    /\ UNCHANGED <<doubleLock, cancel, timed>>

CallUnlock(t) ==
    /\ pc[t] = "idle" /\ t \in using
    /\ pc' = [pc EXCEPT ![t] = "leave"]
    /\ UNCHANGED <<doubleLock, lock, owner, cancel, guards, using, timed>>

Unlock(t) ==
    /\ pc[t] = "leave"
    /\ unlock(t, guards)
    /\ pc' = [pc EXCEPT ![t] = "idle"] /\ using' = using \ {t}

\* The select of a guard takes its timer ...
Fire(g) ==
    /\ guards[g].state = "armed"
    /\ guards' = [guards EXCEPT ![g].state = "fired"]
    /\ UNCHANGED <<pc, doubleLock, lock, owner, cancel, using, timed>>

\* ... or its context.
Stop(g) ==
    /\ guards[g].state = "armed" /\ guards[g].cancelled
    /\ guards' = [guards EXCEPT ![g].state = "done"]
    /\ UNCHANGED <<pc, doubleLock, lock, owner, cancel, using, timed>>

Expire(g) ==
    /\ guards[g].state = "fired"
    /\ unlock(guards[g].token, [guards EXCEPT ![g].state = "done"])
    /\ UNCHANGED <<pc, using>>

----------------------------------------------------------------------------

ThreadStep(t) == TakeDouble(t) \/ (\E e \in BOOLEAN : Acquire(t, e)) \/ Unlock(t)
GuardStep(g) == Fire(g) \/ Stop(g) \/ Expire(g)

Next ==
    \/ \E t \in Threads : CallLock(t) \/ CallUnlock(t) \/ ThreadStep(t)
    \/ \E g \in DOMAIN guards : GuardStep(g)

Spec == Init /\ [][Next]_vars

----------------------------------------------------------------------------
(* Properties *)

\* lock.Unlock is never called on a mutex that is not locked (a fatal error in Go), and
\* the mutex is never left locked without an owner who could unlock it.
OwnerHoldsLock == (owner # NoThread) <=> lock

\* Two threads are between Lock and Unlock at once only if a guard of one of them has
\* fired: without expiry the ring has one user.
OneUser ==
    \A t, u \in using : t # u =>
        \E g \in DOMAIN guards : guards[g].token \in {t, u} /\ guards[g].state # "armed"

\* The lock is a lease: it goes from holder to holder, and is taken only from a thread
\* that has asked for an expiry.
LeaseOf == INSTANCE Lease WITH holder <- owner
IsLease == LeaseOf!Spec

GuardIs(g, state) == g \in DOMAIN guards /\ guards[g].state = state

\* A guard that fires comes to its end, unless a thread waits in Lock for the mutex.
FiredEnds ==
    \A g \in 1 .. MaxGuards :
        GuardIs(g, "fired")
            ~> (GuardIs(g, "done") \/ \E t \in Threads : pc[t] = "wait" /\ lock)

\* The comment on Lock: when the time is up, the lock is released.
\* It does not hold: the README says why.
ExpiryReleases ==
    \A g \in 1 .. MaxGuards : GuardIs(g, "fired") ~> GuardIs(g, "done")

\* The comment on the guard: after an unlock it is terminated, so that it never ends
\* an acquisition other than the one it was started for.
\* It does not hold: the README says why.
GuardEndsItsOwn ==
    [][\A g \in DOMAIN guards :
          (guards[g].state = "fired" /\ guards'[g].state = "done" /\ lock /\ ~lock')
              => ~guards[g].cancelled]_vars
=============================================================================

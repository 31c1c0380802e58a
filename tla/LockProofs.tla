----------------------------- MODULE LockProofs -----------------------------
(***************************************************************************)
(* Both locks of the hash ring implement a lease, whatever the number of   *)
(* threads, of timed acquisitions and of seconds: the refinements that the *)
(* model checker shows for two threads, step by step.                      *)
(*                                                                         *)
(* For LockEntity one has to know that a guard's token is that of a thread *)
(* that asked for an expiry, that the mutex is locked exactly while there  *)
(* is an owner, that a thread on its way into Lock is not using the lock,  *)
(* and that a user who is no longer the owner has had a guard fire.        *)
(***************************************************************************)
EXTENDS RingLock, SequenceTheorems, TLAPS

Fired(t) == \E g \in DOMAIN guards : guards[g].token = t /\ guards[g].state # "armed"

IInv ==
    /\ TypeOK /\ OwnerHoldsLock
    /\ \A g \in DOMAIN guards : guards[g].token \in timed
    /\ \A t \in Threads : /\ pc[t] \in {"enter", "wait"} => t \notin using
                          /\ pc[t] = "leave" => t \in using
    /\ \A t \in using : t = owner \/ Fired(t)

-----------------------------------------------------------------------------
\* Guards that are the same but for their progress.
Kept(gs) ==
    /\ gs \in Seq(Guard) /\ Len(gs) = Len(guards)
    /\ \A g \in DOMAIN guards : /\ gs[g].token = guards[g].token
                                /\ guards[g].state # "armed" => gs[g].state # "armed"

\* A guard that moves on (its select, or the end of its unlock) is all that changes.
LEMMA MovedOn ==
    ASSUME guards \in Seq(Guard), NEW g \in DOMAIN guards, NEW s \in {"fired", "done"}
    PROVE  /\ Kept([guards EXCEPT ![g].state = s])
           /\ [guards EXCEPT ![g].state = s][g].state = s
<1>. DEFINE v == [guards[g] EXCEPT !.state = s]
<1>1. guards[g] \in Guard
  OBVIOUS
<1>2. v \in Guard /\ v.token = guards[g].token /\ v.state = s
  BY Zenon, <1>1 DEF Guard
<1>. HIDE DEF v
<1>. DEFINE gs == [guards EXCEPT ![g] = v]
<1>3. /\ gs \in Seq(Guard) /\ Len(gs) = Len(guards) /\ gs[g] = v
      /\ \A h \in DOMAIN guards : h # g => gs[h] = guards[h]
  BY <1>2
<1>4. Kept(gs) /\ gs[g].state = s
  BY Zenon, <1>2, <1>3 DEF Kept
<1>. QED
  BY Zenon, <1>4 DEF v

\* The cancel function that unlock calls changes only whether a guard is cancelled.
LEMMA CancelKeeps ==
    ASSUME guards \in Seq(Guard), NEW gs, Kept(gs), NEW c \in 0 .. Len(guards), c # 0
    PROVE  /\ Kept([gs EXCEPT ![c].cancelled = TRUE])
           /\ \A g \in DOMAIN guards : [gs EXCEPT ![c].cancelled = TRUE][g].state = gs[g].state
<1>. DEFINE v == [gs[c] EXCEPT !.cancelled = TRUE]
<1>1. c \in DOMAIN gs /\ c \in DOMAIN guards /\ DOMAIN gs = DOMAIN guards
  BY DEF Kept
<1>2. gs[c] \in Guard
  BY <1>1 DEF Kept
<1>3. v \in Guard /\ v.token = gs[c].token /\ v.state = gs[c].state
  BY Zenon, <1>2 DEF Guard
<1>. HIDE DEF v
<1>. DEFINE new == [gs EXCEPT ![c] = v]
<1>4. /\ new \in Seq(Guard) /\ Len(new) = Len(gs) /\ new[c] = v
      /\ \A h \in DOMAIN gs : h # c => new[h] = gs[h]
  BY <1>1, <1>3 DEF Kept
<1>5. Kept(new) /\ \A g \in DOMAIN guards : new[g].state = gs[g].state
  BY Zenon, <1>1, <1>3, <1>4 DEF Kept
<1>. QED
  BY Zenon, <1>5 DEF v

\* What unlock does to the lock and to the guards.
LEMMA UnlockEffect ==
    ASSUME IInv, NEW t \in Threads, NEW gs, Kept(gs), unlock(t, gs), NoThread \notin Threads
    PROVE  /\ Kept(guards') /\ UNCHANGED <<doubleLock, cancel, timed>>
           /\ \A g \in DOMAIN guards : guards'[g].state = gs[g].state
           /\ \/ owner = t /\ owner' = NoThread /\ lock' = FALSE
              \/ owner # t /\ UNCHANGED <<owner, lock>>
<1>1. CASE owner = t /\ cancel # 0
  <2>1. guards \in Seq(Guard) /\ cancel \in 0 .. Len(guards)
    BY Zenon DEF IInv, TypeOK
  <2>2. guards' = [gs EXCEPT ![cancel].cancelled = TRUE]
    BY Zenon, <1>1 DEF unlock, Owned
  <2>3. /\ Kept([gs EXCEPT ![cancel].cancelled = TRUE])
        /\ \A g \in DOMAIN guards : [gs EXCEPT ![cancel].cancelled = TRUE][g].state = gs[g].state
    BY ZenonT(30), <1>1, <2>1, CancelKeeps
  <2>4. Kept(guards') /\ \A g \in DOMAIN guards : guards'[g].state = gs[g].state
    BY Zenon, <2>2, <2>3 DEF Kept
  <2>. QED
    BY Zenon, <1>1, <2>4 DEF unlock, Owned
<1>2. CASE owner # t \/ cancel = 0
  <2>1. guards' = gs
    BY Zenon, <1>2 DEF unlock, Owned
  <2>2. Kept(guards')
    BY Zenon, <2>1 DEF Kept
  <2>. QED
    BY Zenon, <2>1, <2>2 DEF unlock, Owned
<1>. QED
  BY Zenon, <1>1, <1>2

\* A thread whose guard has fired stays one, and a guard keeps its token.
LEMMA KeptPreserves ==
    ASSUME IInv, Kept(guards'), UNCHANGED timed
    PROVE  /\ guards' \in Seq(Guard) /\ Len(guards') = Len(guards)
           /\ \A g \in DOMAIN guards' : guards'[g].token \in timed'
           /\ \A t : Fired(t) => Fired(t)'
<1>1. guards' \in Seq(Guard) /\ Len(guards') = Len(guards)
  BY Zenon DEF Kept
<1>2. \A g \in DOMAIN guards' : g \in DOMAIN guards /\ guards'[g].token = guards[g].token
  BY DEF IInv, TypeOK, Kept
<1>3. \A g \in DOMAIN guards' : guards'[g].token \in timed'
  BY Zenon, <1>2 DEF IInv
<1>4. \A t : Fired(t) => Fired(t)'
  BY DEF IInv, TypeOK, Kept, Fired
<1>. QED
  BY Zenon, <1>1, <1>3, <1>4

-----------------------------------------------------------------------------
\* The start.
LEMMA InitIInv == Init => IInv /\ LeaseOf!Init
<1>1. <<>> \in Seq(Guard) /\ Len(<<>>) = 0 /\ DOMAIN <<>> = {}
  OBVIOUS
<1>2. ASSUME Init PROVE TypeOK
  <2>1. guards \in Seq(Guard) /\ cancel \in 0 .. Len(guards)
    BY <1>1, <1>2 DEF Init
  <2>2. pc \in [Threads -> {"idle", "enter", "wait", "leave"}]
    BY Zenon, <1>2 DEF Init
  <2>. QED
    BY Zenon, <1>2, <2>1, <2>2 DEF Init, TypeOK
<1>3. Init => OwnerHoldsLock
  BY Zenon DEF Init, OwnerHoldsLock
<1>4. ASSUME Init, NEW t \in Threads PROVE pc[t] = "idle"
  BY Zenon, <1>4 DEF Init
<1>. QED
  BY Zenon, <1>1, <1>2, <1>3, <1>4 DEF Init, IInv, LeaseOf!Init

\* Steps that neither grant the lock nor give it back.
LEMMA QuietSteps ==
    ASSUME IInv, NoThread \notin Threads,
           \/ \E t \in Threads : CallLock(t) \/ CallUnlock(t) \/ TakeDouble(t)
           \/ \E g \in DOMAIN guards : Fire(g) \/ Stop(g)
    PROVE  IInv' /\ UNCHANGED LeaseOf!vars
<1>1. ASSUME NEW t \in Threads, CallLock(t) \/ CallUnlock(t) \/ TakeDouble(t)
      PROVE  IInv' /\ UNCHANGED LeaseOf!vars
  BY <1>1 DEF IInv, TypeOK, OwnerHoldsLock, Fired, CallLock, CallUnlock, TakeDouble, LeaseOf!vars
<1>2. ASSUME NEW g \in DOMAIN guards, Fire(g) \/ Stop(g)
      PROVE  IInv' /\ UNCHANGED LeaseOf!vars
  <2>1. UNCHANGED <<pc, doubleLock, lock, owner, cancel, using, timed>> /\ Kept(guards')
    BY Zenon, <1>2, MovedOn DEF Fire, Stop, IInv, TypeOK
  <2>. QED
    BY Zenon, <2>1, KeptPreserves DEF IInv, TypeOK, OwnerHoldsLock, LeaseOf!vars
<1>. QED
  BY Zenon, <1>1, <1>2

\* Lock returns: the lock is granted to a thread that does not use it, and nobody has it.
LEMMA AcquireStep ==
    ASSUME IInv, NoThread \notin Threads, NEW t \in Threads, NEW e \in BOOLEAN, Acquire(t, e)
    PROVE  IInv' /\ LeaseOf!Grant(t)
<1>. DEFINE new == [token |-> t, state |-> "armed", cancelled |-> FALSE]
<1>1. new \in Guard
  BY Zenon DEF Guard
<1>2. /\ guards' \in Seq(Guard) /\ cancel' \in 0 .. Len(guards') /\ timed' \subseteq Threads
      /\ \A g \in DOMAIN guards' : guards'[g].token \in timed'
      /\ \A u : Fired(u) => Fired(u)'
      /\ timed' \in {timed, timed \cup {t}}
  <2>1. CASE e
    <3>1. guards' = Append(guards, new) /\ cancel' = Len(guards') /\ timed' = timed \cup {t}
      BY Zenon, <2>1 DEF Acquire
    <3>2. /\ guards' \in Seq(Guard) /\ Len(guards') = Len(guards) + 1 /\ guards'[Len(guards) + 1] = new
          /\ \A g \in DOMAIN guards : guards'[g] = guards[g]
      BY <1>1, <3>1 DEF IInv, TypeOK
    <3>. QED
      BY <3>1, <3>2 DEF IInv, TypeOK, Fired
  <2>2. CASE ~e
    BY Zenon, <2>2 DEF Acquire, IInv, TypeOK, Fired
  <2>. QED
    BY Zenon, <2>1, <2>2
<1>3. owner = NoThread /\ t \notin using /\ owner' = t /\ using' = using \cup {t}
  BY Zenon DEF Acquire, IInv, OwnerHoldsLock
<1>4. IInv'
  BY Zenon, <1>2, <1>3 DEF Acquire, IInv, TypeOK, OwnerHoldsLock
<1>. QED
  BY Zenon, <1>2, <1>3, <1>4 DEF LeaseOf!Grant

\* Unlock returns: the thread gives back the lock, if it still has it.
LEMMA UnlockStep ==
    ASSUME IInv, NoThread \notin Threads, NEW t \in Threads, Unlock(t)
    PROVE  IInv' /\ LeaseOf!Release(t)
<1>1. Kept(guards)
  BY Zenon DEF Kept, IInv, TypeOK
<1>2. /\ Kept(guards') /\ UNCHANGED <<doubleLock, cancel, timed>>
      /\ \/ owner = t /\ owner' = NoThread /\ lock' = FALSE
         \/ owner # t /\ UNCHANGED <<owner, lock>>
  BY Zenon, <1>1, UnlockEffect DEF Unlock
<1>3. pc[t] = "leave" /\ pc' = [pc EXCEPT ![t] = "idle"] /\ using' = using \ {t} /\ t \in using
  BY Zenon DEF Unlock, IInv
<1>4. IInv'
  <2>1. /\ guards' \in Seq(Guard) /\ Len(guards') = Len(guards)
        /\ \A g \in DOMAIN guards' : guards'[g].token \in timed'
        /\ \A u : Fired(u) => Fired(u)'
    BY Zenon, <1>2, KeptPreserves
  <2>2. TypeOK'
    BY Zenon, <1>2, <1>3, <2>1 DEF IInv, TypeOK
  <2>5. OwnerHoldsLock'
    BY <1>2 DEF IInv, OwnerHoldsLock
  <2>3. \A u \in using' : u = owner' \/ Fired(u)'
    BY Zenon, <1>2, <1>3, <2>1 DEF IInv
  <2>4. \A u \in Threads : /\ pc'[u] \in {"enter", "wait"} => u \notin using'
                           /\ pc'[u] = "leave" => u \in using'
    BY Zenon, <1>3 DEF IInv, TypeOK
  <2>. QED
    BY Zenon, <2>1, <2>2, <2>3, <2>4, <2>5 DEF IInv
<1>. QED
  BY Zenon, <1>2, <1>3, <1>4 DEF LeaseOf!Release

\* A guard unlocks: the lease of its thread lapses, unless it is over already.
LEMMA ExpireStep ==
    ASSUME IInv, NoThread \notin Threads, NEW g \in DOMAIN guards, Expire(g)
    PROVE  IInv' /\ ((\E t \in Threads : LeaseOf!Lapse(t)) \/ UNCHANGED LeaseOf!vars)
<1>. PICK t \in Threads : t = guards[g].token
  BY Zenon DEF IInv, TypeOK, Guard
<1>. PICK gs : gs = [guards EXCEPT ![g].state = "done"]
  BY Zenon
<1>1. t \in timed /\ Kept(gs) /\ gs[g].state = "done" /\ unlock(t, gs)
  BY Zenon, MovedOn DEF IInv, TypeOK, Expire
<1>2. /\ Kept(guards') /\ UNCHANGED <<doubleLock, cancel, timed>> /\ guards'[g].state = "done"
      /\ \/ owner = t /\ owner' = NoThread /\ lock' = FALSE
         \/ owner # t /\ UNCHANGED <<owner, lock>>
  <2>1. Kept(gs) /\ unlock(t, gs)
    BY Zenon, <1>1
  <2>2. /\ Kept(guards') /\ UNCHANGED <<doubleLock, cancel, timed>>
        /\ \A h \in DOMAIN guards : guards'[h].state = gs[h].state
        /\ \/ owner = t /\ owner' = NoThread /\ lock' = FALSE
           \/ owner # t /\ UNCHANGED <<owner, lock>>
    BY ZenonT(60), <2>1, UnlockEffect
  <2>. QED
    BY Zenon, <1>1, <2>2
<1>3. UNCHANGED <<pc, using>>
  BY Zenon DEF Expire
<1>4. Fired(t)'
  BY <1>2 DEF Fired, Kept, IInv, TypeOK
<1>5. IInv'
  <2>1. /\ guards' \in Seq(Guard) /\ Len(guards') = Len(guards)
        /\ \A h \in DOMAIN guards' : guards'[h].token \in timed'
        /\ \A u : Fired(u) => Fired(u)'
    BY Zenon, <1>2, KeptPreserves
  <2>2. TypeOK'
    BY Zenon, <1>2, <1>3, <2>1 DEF IInv, TypeOK
  <2>4. OwnerHoldsLock'
    BY <1>2 DEF IInv, OwnerHoldsLock
  <2>3. \A u \in using' : u = owner' \/ Fired(u)'
    BY Zenon, <1>2, <1>3, <1>4, <2>1 DEF IInv
  <2>. QED
    BY Zenon, <1>3, <2>1, <2>2, <2>3, <2>4 DEF IInv
<1>. QED
  BY Zenon, <1>1, <1>2, <1>3, <1>5 DEF LeaseOf!Lapse, LeaseOf!vars

\* Every step keeps the invariant and is a step of the lease or none.
LEMMA StepOfLease ==
    ASSUME NoThread \notin Threads
    PROVE  IInv /\ [Next]_vars => IInv' /\ [LeaseOf!Next]_(LeaseOf!vars)
<1>1. ASSUME IInv, Next PROVE IInv' /\ [LeaseOf!Next]_(LeaseOf!vars)
  BY Zenon, <1>1, QuietSteps, AcquireStep, UnlockStep, ExpireStep
  DEF Next, ThreadStep, GuardStep, LeaseOf!Next
<1>2. ASSUME IInv, UNCHANGED vars PROVE IInv' /\ [LeaseOf!Next]_(LeaseOf!vars)
  BY <1>2 DEF vars, IInv, TypeOK, OwnerHoldsLock, Fired, LeaseOf!vars
<1>. QED
  BY Zenon, <1>1, <1>2

\* The invariant of LockEntity: among other things its mutex is locked exactly while there
\* is an owner, so that unlock never unlocks a free mutex, and of two users one has had a
\* guard fire.
THEOREM LockInvariant ==
    ASSUME NoThread \notin Threads
    PROVE  Spec => [](OwnerHoldsLock /\ OneUser)
<1>1. Init => IInv
  BY Zenon, InitIInv
<1>2. IInv /\ [Next]_vars => IInv'
  BY Zenon, StepOfLease
<1>3. IInv => OwnerHoldsLock /\ OneUser
  BY DEF IInv, OneUser, Fired
<1>. QED
  BY <1>1, <1>2, <1>3, PTL DEF Spec

\* LockEntity is a lease: Lock, Unlock and the goroutine of a timed Lock together never
\* grant the ring to a thread while another has it, and never take it from a thread that
\* did not ask for an expiry.
THEOREM LockIsLease ==
    ASSUME NoThread \notin Threads
    PROVE  Spec => IsLease
<1>1. Init => IInv /\ LeaseOf!Init
  BY Zenon, InitIInv
<1>2. IInv /\ [Next]_vars => IInv' /\ [LeaseOf!Next]_(LeaseOf!vars)
  BY Zenon, StepOfLease
<1>. QED
  BY <1>1, <1>2, PTL DEF Spec, IsLease, LeaseOf!Spec

-----------------------------------------------------------------------------
(* LockEntityV2 *)

CONSTANTS Durations, MaxTime

VARIABLES locked, expireAt, owner2, now, using2, ever

V2 == INSTANCE RingLockV2 WITH owner <- owner2, using <- using2

\* Whoever has the lock has asked for an expiry: Lock of LockEntityV2 always sets one.
IInv2 ==
    /\ locked \in BOOLEAN /\ expireAt \in Nat /\ now \in Nat
    /\ locked => owner2 \in ever
    /\ using2 \subseteq ever /\ ever \subseteq Threads

\* Every call of LockEntityV2, and the passing of a second, keeps this and is a step of
\* the lease or none.
LEMMA StepOfLease2 ==
    ASSUME NoThread \notin Threads, Durations \subseteq Nat
    PROVE  IInv2 /\ [V2!Next]_(V2!vars) => IInv2' /\ [V2!LeaseOf!Next]_(V2!LeaseOf!vars)
<1>. SUFFICES ASSUME IInv2, [V2!Next]_(V2!vars)
              PROVE  IInv2' /\ [V2!LeaseOf!Next]_(V2!LeaseOf!vars)
  BY Zenon
<1>1. ASSUME NEW t \in Threads, NEW d \in Durations, V2!Lock(t, d)
      PROVE  IInv2' /\ V2!LeaseOf!Grant(t)
  BY <1>1 DEF IInv2, V2!Lock, V2!Free, V2!Over, V2!LeaseOf!Grant
<1>2. ASSUME NEW t \in Threads, V2!Unlock(t)
      PROVE  IInv2' /\ V2!LeaseOf!Release(t)
  BY Zenon, <1>2 DEF IInv2, V2!Unlock, V2!Free, V2!Over, V2!LeaseOf!Release
<1>3. ASSUME V2!Tick
      PROVE  IInv2' /\ ((\E t \in Threads : V2!LeaseOf!Lapse(t)) \/ UNCHANGED V2!LeaseOf!vars)
  BY <1>3 DEF IInv2, V2!Tick, V2!Over, V2!LeaseOf!Lapse, V2!LeaseOf!vars
<1>4. ASSUME UNCHANGED V2!vars
      PROVE  IInv2' /\ UNCHANGED V2!LeaseOf!vars
  BY Zenon, <1>4 DEF IInv2, V2!vars, V2!Over, V2!LeaseOf!vars
<1>. QED
  BY Zenon, <1>1, <1>2, <1>3, <1>4 DEF V2!Next, V2!LeaseOf!Next

\* LockEntityV2 is a lease as well: an acquisition whose time is up is over for everybody at
\* once, and an Unlock that comes later takes the lock from nobody.
THEOREM LockV2IsLease ==
    ASSUME NoThread \notin Threads, Durations \subseteq Nat
    PROVE  V2!Spec => V2!IsLease
<1>1. V2!Init => IInv2 /\ V2!LeaseOf!Init
  <2>1. ASSUME V2!Init PROVE ~locked /\ locked \in BOOLEAN
    BY <2>1, Zenon DEF V2!Init
  <2>2. ASSUME V2!Init PROVE IInv2
    BY Zenon, <2>1, <2>2 DEF V2!Init, IInv2
  <2>3. ASSUME V2!Init PROVE V2!LeaseOf!Init
    BY <2>1, <2>3, Zenon DEF V2!Init, V2!LeaseOf!Init, V2!Over
  <2>. QED
    BY Zenon, <2>2, <2>3
<1>2. IInv2 /\ [V2!Next]_(V2!vars) => IInv2' /\ [V2!LeaseOf!Next]_(V2!LeaseOf!vars)
  BY Zenon, StepOfLease2
<1>. QED
  BY <1>1, <1>2, PTL DEF V2!Spec, V2!IsLease, V2!LeaseOf!Spec
=============================================================================

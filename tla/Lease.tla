------------------------------- MODULE Lease -------------------------------
(***************************************************************************)
(* What a lock with an expiry promises: one holder at a time, who keeps it *)
(* until it gives it back or until a timer that the holder itself asked    *)
(* for runs out.  RingLock and RingLockV2 are shown to implement it.       *)
(***************************************************************************)
CONSTANTS Threads, NoThread

VARIABLES holder,  \* the thread that has the lock, or NoThread
          using,   \* the threads that were granted it and have not given it back
          timed    \* the threads that have ever asked for an expiry

vars == <<holder, using, timed>>

Init == holder = NoThread /\ using = {} /\ timed = {}

Grant(t) == /\ holder = NoThread /\ t \notin using
            /\ holder' = t /\ using' = using \cup {t}
            /\ timed' \in {timed, timed \cup {t}}

\* A thread gives back what it has, which is nothing when its lease is over: it never
\* takes the lock from another.
Release(t) == /\ t \in using /\ using' = using \ {t}
              /\ holder' = IF holder = t THEN NoThread ELSE holder
              /\ UNCHANGED timed

\* The lock is taken away only from a thread that asked for an expiry.
Lapse(t) == holder = t /\ t \in timed /\ holder' = NoThread /\ UNCHANGED <<using, timed>>

Next == \E t \in Threads : Grant(t) \/ Release(t) \/ Lapse(t)

Spec == Init /\ [][Next]_vars
=============================================================================

---------------------------- MODULE AbstractMutex ----------------------------
(***************************************************************************)
(* What every lock of src/zsim/src/locks.h and mutex.h promises its        *)
(* callers: a thread takes the lock only when nobody has it, and keeps it  *)
(* until it releases it.  The modules that use futex_lock/futex_unlock     *)
(* (the coherence controllers, the scheduler, the barrier) model the lock  *)
(* by these two steps; FutexLock shows that the code implements them.      *)
(***************************************************************************)
CONSTANT Threads

VARIABLE owner    \* the set of threads that have the lock

Init == owner = {}

Acquire(t) == /\ owner = {}
              /\ owner' = {t}

Release(t) == /\ owner = {t}
              /\ owner' = {}

Next == \E t \in Threads : Acquire(t) \/ Release(t)

Spec == Init /\ [][Next]_owner
=============================================================================

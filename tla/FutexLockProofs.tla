--------------------------- MODULE FutexLockProofs ---------------------------
(***************************************************************************)
(* The futex lock of locks.h is a mutex, for any number of threads: the    *)
(* invariant IInv of FutexLock is inductive, and every step of the code is *)
(* a step of AbstractMutex or leaves its state alone.                      *)
(***************************************************************************)
EXTENDS FutexLock, TLAPS

\* IInv holds when the lock word has been zeroed by futex_init.
LEMMA InitIInv == Init => IInv
  BY SpinsAssumption
  DEF Init, IInv, TypeOK, MutualExclusion, LockWordInv, NoLostWakeup, Owners, Sleepers,
      OwnerPCs, TryingPCs, Modes

\* Every atomic step of the lock and unlock functions preserves IInv.
LEMMA NextIInv == IInv /\ [Next]_vars => IInv'
  <1> SUFFICES ASSUME IInv, [Next]_vars PROVE IInv'
    OBVIOUS
  <1> USE SpinsAssumption DEF IInv, TypeOK, OwnerPCs, TryingPCs, Modes, Goto
  <1>1. CASE UNCHANGED vars
    BY <1>1 DEF vars, MutualExclusion, LockWordInv, NoLostWakeup, Owners, Sleepers
  <1>2. ASSUME NEW t \in Threads, Start(t) PROVE IInv'
    BY <1>2 DEF Start, MutualExclusion, LockWordInv, NoLostWakeup, Owners, Sleepers
  <1>3. ASSUME NEW t \in Threads, Test(t) PROVE IInv'
    BY <1>3 DEF Test, Retry, Attempts, MutualExclusion, LockWordInv, NoLostWakeup, Owners, Sleepers
  <1>4. ASSUME NEW t \in Threads, Cas(t) PROVE IInv'
    BY <1>4 DEF Cas, Retry, Attempts, MutualExclusion, LockWordInv, NoLostWakeup, Owners, Sleepers
  <1>5. ASSUME NEW t \in Threads, Xchg(t) PROVE IInv'
    BY <1>5 DEF Xchg, MutualExclusion, LockWordInv, NoLostWakeup, Owners, Sleepers
  <1>6. ASSUME NEW t \in Threads, FutexWait(t) PROVE IInv'
    BY <1>6 DEF FutexWait, MutualExclusion, LockWordInv, NoLostWakeup, Owners, Sleepers
  <1>7. ASSUME NEW t \in Threads, Timeout(t) PROVE IInv'
    BY <1>7 DEF Timeout, MutualExclusion, LockWordInv, NoLostWakeup, Owners, Sleepers
  <1>8. ASSUME NEW t \in Threads, Interrupt(t) PROVE IInv'
    BY <1>8 DEF Interrupt, MutualExclusion, LockWordInv, NoLostWakeup, Owners, Sleepers
  <1>9. ASSUME NEW t \in Threads, Rexchg(t) PROVE IInv'
    BY <1>9 DEF Rexchg, MutualExclusion, LockWordInv, NoLostWakeup, Owners, Sleepers
  <1>10. ASSUME NEW t \in Threads, Unlock(t) PROVE IInv'
    BY <1>10 DEF Unlock, MutualExclusion, LockWordInv, NoLostWakeup, Owners, Sleepers
  <1>11. ASSUME NEW t \in Threads, Store(t) PROVE IInv'
    BY <1>11 DEF Store, MutualExclusion, LockWordInv, NoLostWakeup, Owners, Sleepers
  <1>12. ASSUME NEW t \in Threads, NEW u \in Threads, WakeOne(t, u) PROVE IInv'
    BY <1>12 DEF WakeOne, MutualExclusion, LockWordInv, NoLostWakeup, Owners, Sleepers
  <1>13. ASSUME NEW t \in Threads, WakeNone(t) PROVE IInv'
    BY <1>13 DEF WakeNone, MutualExclusion, LockWordInv, NoLostWakeup, Owners, Sleepers
  <1>14. QED
    BY <1>1, <1>2, <1>3, <1>4, <1>5, <1>6, <1>7, <1>8, <1>9, <1>10, <1>11, <1>12, <1>13
    DEF Next, LockStep, UnlockStep

\* IInv holds in every state the lock can reach.
THEOREM Invariance == Spec => []IInv
  BY InitIInv, NextIInv, PTL DEF Spec

\* Mutual exclusion of futex_lock, futex_lock_nospin and
\* futex_trylock_nospin_timeout against futex_unlock.
THEOREM FutexMutualExclusion == Spec => []MutualExclusion
  <1>1. IInv => MutualExclusion
    BY DEF IInv
  <1>2. QED
    BY <1>1, Invariance, PTL

\* No sleeper is left behind a word whose unlock will not wake it.
THEOREM FutexNoLostWakeup == Spec => []NoLostWakeup
  <1>1. IInv => NoLostWakeup
    BY DEF IInv
  <1>2. QED
    BY <1>1, Invariance, PTL

-----------------------------------------------------------------------------
(* Refinement *)

\* A thread takes the lock by leaving the owners empty-handed before it.
LEMMA OwnersStep == IInv /\ IInv' /\ [Next]_vars => [Mutex!Next]_Owners
  <1> SUFFICES ASSUME IInv, IInv', [Next]_vars PROVE [Mutex!Next]_Owners
    OBVIOUS
  <1> USE DEF IInv, TypeOK, MutualExclusion, LockWordInv, OwnerPCs, TryingPCs, Goto
  <1>a. ASSUME NEW t \in Threads, Owners = {}, Owners' = {t} PROVE Mutex!Next
    BY <1>a DEF Mutex!Next, Mutex!Acquire
  <1>r. ASSUME NEW t \in Threads, Owners = {t}, Owners' = {} PROVE Mutex!Next
    BY <1>r DEF Mutex!Next, Mutex!Release
  <1>1. CASE UNCHANGED vars
    BY <1>1 DEF vars, Owners
  <1>2. ASSUME NEW t \in Threads,
               Start(t) \/ Test(t) \/ FutexWait(t) \/ Timeout(t) \/ Interrupt(t) \/ WakeNone(t)
        PROVE UNCHANGED Owners
    BY <1>2 DEF Start, Test, Retry, FutexWait, Timeout, Interrupt, WakeNone, Owners
  <1>3. ASSUME NEW t \in Threads, Cas(t) \/ Xchg(t) \/ Rexchg(t)
        PROVE [Mutex!Next]_Owners
    <2>1. CASE lock = 0
      <3>1. Owners = {} /\ Owners' = {t}
        BY <1>3, <2>1 DEF Cas, Xchg, Rexchg, Owners
      <3>2. QED
        BY <1>a, <3>1
    <2>2. CASE lock # 0
      BY <1>3, <2>2 DEF Cas, Retry, Xchg, Rexchg, Owners
    <2>3. QED
      BY <2>1, <2>2
  <1>4. ASSUME NEW t \in Threads, Unlock(t)
        PROVE [Mutex!Next]_Owners
    <2>1. CASE lock = 1
      <3>1. Owners = {t} /\ Owners' = {}
        BY <1>4, <2>1 DEF Unlock, Owners
      <3>2. QED
        BY <1>r, <3>1
    <2>2. CASE lock # 1
      BY <1>4, <2>2 DEF Unlock, Owners
    <2>3. QED
      BY <2>1, <2>2
  <1>5. ASSUME NEW t \in Threads, Store(t)
        PROVE [Mutex!Next]_Owners
    <2>1. Owners = {t} /\ Owners' = {}
      BY <1>5 DEF Store, Owners
    <2>2. QED
      BY <1>r, <2>1
  <1>6. ASSUME NEW t \in Threads, NEW u \in Threads, WakeOne(t, u)
        PROVE UNCHANGED Owners
    BY <1>6 DEF WakeOne, Owners, Sleepers
  <1>7. QED
    BY <1>1, <1>2, <1>3, <1>4, <1>5, <1>6 DEF Next, LockStep, UnlockStep

\* The code implements the abstract mutex that the other modules use for it.
THEOREM FutexImplementsMutex == Spec => ImplementsMutex
  <1>1. Init => Mutex!Init
    BY DEF Init, Mutex!Init, Owners, OwnerPCs
  <1>2. QED
    BY <1>1, Invariance, OwnersStep, PTL DEF Spec, ImplementsMutex, Mutex!Spec
=============================================================================

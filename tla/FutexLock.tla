------------------------------ MODULE FutexLock ------------------------------
(***************************************************************************)
(* The futex lock of src/zsim/src/locks.h, one step per atomic access to   *)
(* the lock word and one per futex system call.  The word is 0 (free),     *)
(* 1 (taken) or 2 (taken, perhaps with sleepers).  futex_lock,             *)
(* futex_lock_nospin and futex_trylock_nospin_timeout share their steps;   *)
(* mode tells them apart.                                                  *)
(*                                                                         *)
(* The kernel side of FUTEX_WAIT and FUTEX_WAKE is external: WAIT sleeps   *)
(* only if the word still has the expected value, WAKE wakes one sleeper,  *)
(* any one, and a signal may end a wait.                                   *)
(***************************************************************************)
EXTENDS Integers

CONSTANTS Threads,
          Spins     \* attempts futex_lock makes before it blocks (5 in the code)

ASSUME SpinsAssumption == Spins \in Nat \ {0}

VARIABLES lock,   \* the lock word
          pc,     \* where each thread is
          mode,   \* which of the three lock functions it called
          spin    \* i, the loop counter of futex_lock

vars == <<lock, pc, mode, spin>>

Modes == {"spin", "nospin", "timed"}

\* The pc values at which the thread has the lock: inside its critical
\* section, and between the two writes of futex_unlock's contended path.
OwnerPCs  == {"held", "store"}
\* The pc values inside the lock functions.
TryingPCs == {"test", "cas", "xchg", "wait", "sleep", "rexchg"}

Sleepers == {t \in Threads : pc[t] = "sleep"}
Owners   == {t \in Threads : pc[t] \in OwnerPCs}

Attempts(m) == IF m = "spin" THEN Spins ELSE 1

TypeOK ==
    /\ lock \in 0..2
    /\ pc   \in [Threads -> {"idle", "wake"} \cup OwnerPCs \cup TryingPCs]
    /\ mode \in [Threads -> Modes]
    /\ spin \in [Threads -> 0..Spins]

Init ==
    /\ lock = 0
    /\ pc   = [t \in Threads |-> "idle"]
    /\ mode = [t \in Threads |-> "spin"]
    /\ spin = [t \in Threads |-> 0]

Goto(t, label) == pc' = [pc EXCEPT ![t] = label]

-----------------------------------------------------------------------------
(* Taking the lock *)

\* A thread outside the lock calls one of the three lock functions.
Start(t) ==
    /\ pc[t] = "idle"
    /\ \E m \in Modes : mode' = [mode EXCEPT ![t] = m]
    /\ spin' = [spin EXCEPT ![t] = 0]
    /\ Goto(t, "test")
    /\ UNCHANGED lock

\* An attempt has failed: spin again, or go on to block.
Retry(t) ==
    IF spin[t] + 1 < Attempts(mode[t])
    THEN spin' = [spin EXCEPT ![t] = @ + 1] /\ Goto(t, "test")
    ELSE Goto(t, "xchg") /\ UNCHANGED spin

\* The plain read of *lock in front of the compare-and-swap.
Test(t) ==
    /\ pc[t] = "test"
    /\ IF lock = 0 THEN Goto(t, "cas") /\ UNCHANGED spin ELSE Retry(t)
    /\ UNCHANGED <<lock, mode>>

\* Mutant: a plain store in place of the compare-and-swap.
CasPlainStore(t) ==
    /\ pc[t] = "cas"
    /\ lock' = 1
    /\ Goto(t, "held")
    /\ UNCHANGED <<mode, spin>>

\* __sync_bool_compare_and_swap(lock, 0, 1)
Cas(t) ==
    /\ pc[t] = "cas"
    /\ IF lock = 0
       THEN lock' = 1 /\ Goto(t, "held") /\ UNCHANGED spin
       ELSE Retry(t) /\ UNCHANGED lock
    /\ UNCHANGED mode

\* The first __sync_lock_test_and_set(lock, 2).
Xchg(t) ==
    /\ pc[t] = "xchg"
    /\ lock' = 2
    /\ Goto(t, IF lock = 0 THEN "held" ELSE "wait")
    /\ UNCHANGED <<mode, spin>>

\* FUTEX_WAIT with expected value 2: the kernel compares and sleeps atomically.
FutexWait(t) ==
    /\ pc[t] = "wait"
    /\ Goto(t, IF lock = 2 THEN "sleep" ELSE "rexchg")
    /\ UNCHANGED <<lock, mode, spin>>

\* The wait ends without a wake: the timeout of the timed variant.
Timeout(t) ==
    /\ pc[t] = "sleep"
    /\ mode[t] = "timed"
    /\ Goto(t, "rexchg")
    /\ UNCHANGED <<lock, mode, spin>>

\* The wait ends without a wake: a signal (EINTR), whose result no caller checks.
Interrupt(t) ==
    /\ pc[t] = "sleep"
    /\ Goto(t, "rexchg")
    /\ UNCHANGED <<lock, mode, spin>>

\* Mutant: the woken thread takes the word with 1 and forgets other sleepers.
RexchgOne(t) ==
    /\ pc[t] = "rexchg"
    /\ lock' = IF lock = 0 THEN 1 ELSE 2
    /\ spin' = [spin EXCEPT ![t] = 0]
    /\ Goto(t, IF lock = 0 THEN "held"
               ELSE IF mode[t] = "timed" THEN "idle" ELSE "test")
    /\ UNCHANGED mode

\* The second __sync_lock_test_and_set(lock, 2) and the test of the do-while.
Rexchg(t) ==
    /\ pc[t] = "rexchg"
    /\ lock' = 2
    /\ spin' = [spin EXCEPT ![t] = 0]
    /\ Goto(t, IF lock = 0 THEN "held"
               ELSE IF mode[t] = "timed" THEN "idle" ELSE "test")
    /\ UNCHANGED mode

-----------------------------------------------------------------------------
(* Releasing it *)

\* Mutant: the contended path returns before it has released the word.
UnlockReturnsEarly(t) ==
    /\ pc[t] = "held"
    /\ lock' = IF lock = 1 THEN 0 ELSE lock
    /\ Goto(t, "idle")
    /\ UNCHANGED <<mode, spin>>

\* __sync_fetch_and_add(lock, -1)
Unlock(t) ==
    /\ pc[t] = "held"
    /\ lock' = lock - 1
    /\ Goto(t, IF lock = 1 THEN "idle" ELSE "store")
    /\ UNCHANGED <<mode, spin>>

\* *lock = 0, on the path with possible sleepers
Store(t) ==
    /\ pc[t] = "store"
    /\ lock' = 0
    /\ Goto(t, "wake")
    /\ UNCHANGED <<mode, spin>>

\* FUTEX_WAKE of one sleeper ...
WakeOne(t, u) ==
    /\ pc[t] = "wake"
    /\ u \in Sleepers
    /\ pc' = [pc EXCEPT ![t] = "idle", ![u] = "rexchg"]
    /\ UNCHANGED <<lock, mode, spin>>

\* ... or of none
WakeNone(t) ==
    /\ pc[t] = "wake"
    /\ Sleepers = {}
    /\ Goto(t, "idle")
    /\ UNCHANGED <<lock, mode, spin>>

-----------------------------------------------------------------------------
LockStep(t) == Test(t) \/ Cas(t) \/ Xchg(t) \/ FutexWait(t) \/ Timeout(t) \/ Rexchg(t)

UnlockStep(t) == Unlock(t) \/ Store(t) \/ WakeNone(t) \/ (\E u \in Threads : WakeOne(t, u))

Next == \E t \in Threads : Start(t) \/ Interrupt(t) \/ LockStep(t) \/ UnlockStep(t)

Spec == Init /\ [][Next]_vars

\* Every thread that is inside a lock function or a critical section keeps
\* running; nobody is obliged to call lock, and no signal need arrive.  The
\* kernel wakes sleepers in the order of their arrival, so no sleeper is
\* passed over for ever: strong fairness of being the one that is woken.
Fairness ==
    \A t \in Threads :
        /\ WF_vars(LockStep(t))
        /\ WF_vars(UnlockStep(t))
        /\ SF_vars(\E w \in Threads : WakeOne(w, t))

FairSpec == Spec /\ Fairness

-----------------------------------------------------------------------------
(* Properties *)

\* At most one thread is between the return of a lock function and the end
\* of futex_unlock's writes: the two separate writes of the contended unlock
\* never overlap another thread's acquisition.
MutualExclusion == \A t, u \in Owners : t = u

\* The word is 0 exactly when nobody has the lock.
LockWordInv == lock = 0 <=> Owners = {}

\* No lost wakeup: while a thread sleeps in the kernel, either the word is 2,
\* so that the unlock will call FUTEX_WAKE, or some thread is already on its
\* way to a wake or to writing 2 again.  (A thread that takes the lock through
\* the compare-and-swap leaves 1 behind, and its unlock wakes nobody.)
NoLostWakeup ==
    Sleepers # {} => \/ lock = 2
                     \/ \E t \in Threads : pc[t] \in {"store", "wake", "rexchg"}

\* The inductive invariant.
IInv == TypeOK /\ MutualExclusion /\ LockWordInv /\ NoLostWakeup

\* The lock implements the abstract mutex.
Mutex == INSTANCE AbstractMutex WITH owner <- Owners
ImplementsMutex == Mutex!Spec

\* "avoids completely starving processes that are sleeping on this"
\* (locks.h:207): whoever sleeps in FUTEX_WAIT is woken up.
SleeperWoken == \A t \in Threads : pc[t] = "sleep" ~> pc[t] # "sleep"

\* futex_haswaiters: "No false positives (if true, for sure there's someone)"
\* (locks.h:218).  For a holder that sees 2, some other thread is inside a
\* lock function.
HasWaitersSound ==
    \A t \in Threads :
        pc[t] = "held" /\ lock = 2 => \E u \in Threads \ {t} : pc[u] \in TryingPCs
=============================================================================

------------------------------- MODULE Barrier -------------------------------
(***************************************************************************)
(* The phase barrier of src/zsim/src/barrier.h: join-leave semantics and   *)
(* at most Parallel threads running at a time.                             *)
(*                                                                         *)
(* join, leave and sync run under schedLock (AbstractMutex; see FutexLock),*)
(* but three things happen outside it and interleave with the holder: a    *)
(* thread reads its own state after the unlock, it compares its futexWord  *)
(* and sleeps in the kernel, and it resumes.  So the holder's work is one  *)
(* step per loop iteration, and waking a thread is three: state, word,     *)
(* FUTEX_WAKE.                                                             *)
(*                                                                         *)
(* A thread here is a barrier slot (a core's context).  A process may be   *)
(* killed; its slots stay in the barrier until the scheduler's watchdog    *)
(* calls leave for them (Scheduler::processCleanup).                       *)
(***************************************************************************)
EXTENDS Integers, Sequences, FiniteSets

CONSTANTS Threads,
          Parallel,       \* parallelThreads
          CleanupPeriod,  \* phases between two passes over the list (32 in the code)
          KillJoiners,    \* whether a thread may be killed before its join wakes up
          MaxLeaves       \* bound: departures (calls of leave, kills) in a behaviour

ASSUME ParallelAssumption == Parallel \in Nat \ {0}
ASSUME CleanupAssumption == CleanupPeriod \in Nat \ {0}
ASSUME KillAssumption == KillJoiners \in BOOLEAN
ASSUME ThreadsAssumption == IsFiniteSet(Threads)
ASSUME MaxLeavesAssumption == MaxLeaves \in Nat

VARIABLES state,           \* threadList[t].state
          futexWord,       \* threadList[t].futexWord
          lastIdx,         \* threadList[t].lastIdx
          runList,         \* runList[0 .. runListSize-1], here from 1
          curThreadIdx,    \* the number of entries already visited in this phase
          runningThreads,
          leftThreads,
          phaseCount,      \* modulo CleanupPeriod
          pc,              \* where each thread is; one of HolderPCs: it has schedLock
          op,              \* the barrier function a thread last called
          i,               \* loop index of the holder (cleanup pass, shuffle)
          leaves           \* departures so far

data == <<state, futexWord, lastIdx, runList, curThreadIdx, runningThreads,
          leftThreads, phaseCount>>
vars == <<data, pc, op, i, leaves>>

States == {"OFFLINE", "WAITING", "RUNNING", "LEFT"}

\* Inside tryWakeNext: checkRunList before and after checkEndPhase ("scan1",
\* "scan2", each with the two later steps of a wakeup) and checkEndPhase.
HolderPCs == {"scan1", "cas1", "wake1", "end", "clean", "shuffle", "scan2", "cas2", "wake2"}
\* Blocked, or about to block, after the unlock.
WaitPCs == {"check", "wait", "sleep"}

runListSize == Len(runList)

In(s) == {t \in Threads : state[t] \in s}

LockFree == \A t \in Threads : pc[t] \notin HolderPCs

TypeOK ==
    /\ state \in [Threads -> States]
    /\ futexWord \in [Threads -> 0..1]
    /\ lastIdx \in [Threads -> Nat]
    /\ runList \in Seq(Threads)
    /\ curThreadIdx \in Nat
    /\ runningThreads \in Nat
    /\ leftThreads \in Nat
    /\ phaseCount \in 0..CleanupPeriod-1
    /\ pc \in [Threads -> {"out", "run", "resume", "dead"} \cup WaitPCs \cup HolderPCs]
    /\ op \in [Threads -> {"join", "leave", "sync"}]
    /\ i \in Nat
    /\ leaves \in 0..MaxLeaves

\* lastIdx is not initialised; the segment it lives in starts out zeroed.
Init ==
    /\ state = [t \in Threads |-> "OFFLINE"]
    /\ futexWord = [t \in Threads |-> 0]
    /\ lastIdx = [t \in Threads |-> 0]
    /\ runList = <<>>
    /\ curThreadIdx = 0
    /\ runningThreads = 0
    /\ leftThreads = 0
    /\ phaseCount = 0
    /\ pc = [t \in Threads |-> "out"]
    /\ op = [t \in Threads |-> "leave"]
    /\ i = 0
    /\ leaves = 0

Goto(t, label) == pc' = [pc EXCEPT ![t] = label]

-----------------------------------------------------------------------------
(* The entry points, up to their call of tryWakeNext *)

\* Mutant: the entry of the other thread is not moved.
RescheduleLosesOther(t) ==
    IF curThreadIdx > lastIdx[t]
    THEN /\ runList' = [runList EXCEPT ![curThreadIdx] = t]
         /\ lastIdx' = [lastIdx EXCEPT ![t] = curThreadIdx - 1]
         /\ curThreadIdx' = curThreadIdx - 1
    ELSE UNCHANGED <<runList, lastIdx, curThreadIdx>>

\* Mutant: the other thread is not told its new place.
RescheduleForgetsOther(t) ==
    LET other == runList[curThreadIdx]
    IN  IF curThreadIdx > lastIdx[t]
        THEN /\ runList' = [runList EXCEPT ![lastIdx[t] + 1] = other, ![curThreadIdx] = t]
             /\ lastIdx' = [lastIdx EXCEPT ![t] = curThreadIdx - 1]
             /\ curThreadIdx' = curThreadIdx - 1
        ELSE UNCHANGED <<runList, lastIdx, curThreadIdx>>

\* Mutant: a thread that has run in this phase waits for the next one.
RescheduleNot(t) == UNCHANGED <<runList, lastIdx, curThreadIdx>>

\* join of a slot that is on the list: if it has run in this phase, swap it
\* with the last visited entry and step back, so that it is visited next.
Reschedule(t) ==
    LET other == runList[curThreadIdx]
    IN  IF curThreadIdx > lastIdx[t]
        THEN /\ runList' = [runList EXCEPT ![lastIdx[t] + 1] = other, ![curThreadIdx] = t]
             /\ lastIdx' = [lastIdx EXCEPT ![other] = lastIdx[t], ![t] = curThreadIdx - 1]
             /\ curThreadIdx' = curThreadIdx - 1
        ELSE UNCHANGED <<runList, lastIdx, curThreadIdx>>

join(t) ==
    /\ pc[t] = "out"
    /\ LockFree
    /\ IF state[t] = "OFFLINE"
       THEN /\ runList' = Append(runList, t)
            /\ UNCHANGED <<leftThreads, lastIdx, curThreadIdx>>
       ELSE /\ leftThreads' = leftThreads - 1
            /\ Reschedule(t)
    /\ state' = [state EXCEPT ![t] = "WAITING"]
    /\ futexWord' = [futexWord EXCEPT ![t] = 1]
    /\ op' = [op EXCEPT ![t] = "join"]
    /\ Goto(t, "scan1")
    /\ UNCHANGED <<runningThreads, phaseCount, i, leaves>>

\* Mutant: leave does not call tryWakeNext.
leaveWithoutWake(t) ==
    /\ pc[t] \in {"run", "dead"}
    /\ LockFree
    /\ IF pc[t] = "run"
       THEN leaves < MaxLeaves /\ leaves' = leaves + 1
       ELSE UNCHANGED leaves
    /\ state' = [state EXCEPT ![t] = "LEFT"]
    /\ leftThreads' = leftThreads + 1
    /\ runningThreads' = IF state[t] = "RUNNING" THEN runningThreads - 1 ELSE runningThreads
    /\ Goto(t, "out")
    /\ op' = [op EXCEPT ![t] = "leave"]
    /\ UNCHANGED <<futexWord, lastIdx, runList, curThreadIdx, phaseCount, i>>

\* Called by the thread itself, or by the watchdog for a dead one.
leave(t) ==
    /\ pc[t] \in {"run", "dead"}
    /\ LockFree
    /\ IF pc[t] = "run"
       THEN leaves < MaxLeaves /\ leaves' = leaves + 1
       ELSE UNCHANGED leaves
    /\ state' = [state EXCEPT ![t] = "LEFT"]
    /\ leftThreads' = leftThreads + 1
    /\ IF state[t] = "RUNNING"
       THEN /\ runningThreads' = runningThreads - 1
            /\ Goto(t, "scan1")
       ELSE /\ Goto(t, "out")
            /\ UNCHANGED runningThreads
    /\ op' = [op EXCEPT ![t] = "leave"]
    /\ UNCHANGED <<futexWord, lastIdx, runList, curThreadIdx, phaseCount, i>>

sync(t) ==
    /\ pc[t] = "run"
    /\ LockFree
    /\ futexWord' = [futexWord EXCEPT ![t] = 1]
    /\ state' = [state EXCEPT ![t] = "WAITING"]
    /\ runningThreads' = runningThreads - 1
    /\ op' = [op EXCEPT ![t] = "sync"]
    /\ Goto(t, "scan1")
    /\ UNCHANGED <<lastIdx, runList, curThreadIdx, leftThreads, phaseCount, i, leaves>>

-----------------------------------------------------------------------------
(* tryWakeNext, by the holder of schedLock *)

\* The holder releases schedLock.
Unlock(t) == Goto(t, IF op[t] = "leave" THEN "out" ELSE "check")

\* The condition of checkRunList's loop.
CanWake == runningThreads < Parallel /\ curThreadIdx < runListSize

\* One iteration of checkRunList up to the write of state, or its end.
Scan(t) ==
    /\ pc[t] \in {"scan1", "scan2"}
    /\ LET idx == curThreadIdx
           nxt == runList[idx + 1]
       IN  IF CanWake
           THEN /\ curThreadIdx' = idx + 1
                /\ IF state[nxt] = "WAITING"
                   THEN /\ state' = [state EXCEPT ![nxt] = "RUNNING"]
                        /\ lastIdx' = [lastIdx EXCEPT ![nxt] = idx]
                        /\ Goto(t, IF pc[t] = "scan1" THEN "cas1" ELSE "cas2")
                   ELSE UNCHANGED <<state, lastIdx, pc>>
           ELSE /\ IF pc[t] = "scan1" THEN Goto(t, "end") ELSE Unlock(t)
                /\ UNCHANGED <<state, lastIdx, curThreadIdx>>
    /\ UNCHANGED <<futexWord, runList, runningThreads, leftThreads, phaseCount, op, i, leaves>>

\* The thread that the holder is waking up.
wtid == runList[curThreadIdx]

Cas(t) ==
    /\ pc[t] \in {"cas1", "cas2"}
    /\ futexWord' = [futexWord EXCEPT ![wtid] = 0]
    /\ Goto(t, IF pc[t] = "cas1" THEN "wake1" ELSE "wake2")
    /\ UNCHANGED <<state, lastIdx, runList, curThreadIdx, runningThreads, leftThreads,
                   phaseCount, op, i, leaves>>

\* Mutant: the wakeup ends without FUTEX_WAKE.
WakeNobody(t) ==
    /\ pc[t] \in {"wake1", "wake2"}
    /\ runningThreads' = runningThreads + 1
    /\ Goto(t, IF pc[t] = "wake1" THEN "scan1" ELSE "scan2")
    /\ UNCHANGED <<state, futexWord, lastIdx, runList, curThreadIdx, leftThreads,
                   phaseCount, op, i, leaves>>

\* FUTEX_WAKE, which finds the thread asleep or not, and the end of the iteration.
Wake(t) ==
    /\ pc[t] \in {"wake1", "wake2"}
    /\ runningThreads' = runningThreads + 1
    /\ LET next == IF pc[t] = "wake1" THEN "scan1" ELSE "scan2"
       IN  pc' = [pc EXCEPT ![t] = next, ![wtid] = IF @ = "sleep" THEN "resume" ELSE @]
    /\ UNCHANGED <<state, futexWord, lastIdx, runList, curThreadIdx, leftThreads,
                   phaseCount, op, i, leaves>>

\* The head of the shuffle: only when not everybody can run at once.
ToShuffle(t, size) ==
    IF Parallel < size
    THEN i' = size - 1 /\ Goto(t, "shuffle")
    ELSE i' = 0 /\ Goto(t, "scan2")

PhaseOver == curThreadIdx = runListSize /\ runningThreads = 0 /\ leftThreads # runListSize

\* checkEndPhase up to the cleanup pass; sched->callback() is in Scheduler.
EndPhase(t) ==
    /\ pc[t] = "end"
    /\ IF PhaseOver
       THEN /\ curThreadIdx' = 0
            /\ phaseCount' = (phaseCount + 1) % CleanupPeriod
            /\ IF phaseCount = 0
               THEN i' = 0 /\ Goto(t, "clean")
               ELSE ToShuffle(t, runListSize)
       ELSE Goto(t, "scan2") /\ UNCHANGED <<curThreadIdx, phaseCount, i>>
    /\ UNCHANGED <<state, futexWord, lastIdx, runList, runningThreads, leftThreads, op, leaves>>

\* Mutant: leftThreads is not reset by the cleanup pass.
CleanKeepsLeft(t) ==
    /\ pc[t] = "clean"
    /\ LET stid == runList[runListSize]
           gone == runList[i + 1]
       IN  IF i < runListSize
           THEN /\ IF state[gone] = "LEFT"
                   THEN /\ state' = [state EXCEPT ![gone] = "OFFLINE"]
                        /\ runList' = [k \in 1..runListSize - 1 |->
                                          IF k = i + 1 THEN stid ELSE runList[k]]
                        /\ lastIdx' = [lastIdx EXCEPT ![stid] = i]
                        /\ UNCHANGED i
                   ELSE i' = i + 1 /\ UNCHANGED <<state, runList, lastIdx>>
                /\ UNCHANGED pc
           ELSE ToShuffle(t, runListSize) /\ UNCHANGED <<state, runList, lastIdx>>
    /\ UNCHANGED <<futexWord, curThreadIdx, runningThreads, leftThreads, phaseCount, op, leaves>>

\* One iteration of the cleanup pass: a thread that left goes offline and the
\* last entry takes its place.  Its end: leftThreads and the shuffle.
Clean(t) ==
    /\ pc[t] = "clean"
    /\ LET stid == runList[runListSize]
           gone == runList[i + 1]
       IN  IF i < runListSize
           THEN /\ IF state[gone] = "LEFT"
                   THEN /\ state' = [state EXCEPT ![gone] = "OFFLINE"]
                        /\ runList' = [k \in 1..runListSize - 1 |->
                                          IF k = i + 1 THEN stid ELSE runList[k]]
                        /\ lastIdx' = [lastIdx EXCEPT ![stid] = i]
                        /\ UNCHANGED i
                   ELSE i' = i + 1 /\ UNCHANGED <<state, runList, lastIdx>>
                /\ UNCHANGED <<leftThreads, pc>>
           ELSE /\ leftThreads' = 0
                /\ ToShuffle(t, runListSize)
                /\ UNCHANGED <<state, runList, lastIdx>>
    /\ UNCHANGED <<futexWord, curThreadIdx, runningThreads, phaseCount, op, leaves>>

\* One iteration of the Fisher-Yates shuffle.
Shuffle(t) ==
    /\ pc[t] = "shuffle"
    /\ IF i > 0
       THEN /\ \E j \in 0..i :
                 /\ runList' = [runList EXCEPT ![i + 1] = runList[j + 1], ![j + 1] = runList[i + 1]]
                 /\ lastIdx' = [lastIdx EXCEPT ![runList[i + 1]] = j, ![runList[j + 1]] = i]
            /\ i' = i - 1
            /\ UNCHANGED pc
       ELSE Goto(t, "scan2") /\ UNCHANGED <<runList, lastIdx, i>>
    /\ UNCHANGED <<state, futexWord, curThreadIdx, runningThreads, leftThreads, phaseCount,
                   op, leaves>>

HolderStep(t) == Scan(t) \/ Cas(t) \/ Wake(t) \/ EndPhase(t) \/ Clean(t) \/ Shuffle(t)

-----------------------------------------------------------------------------
(* Outside the lock *)

\* The test of state after the unlock, a plain read.
Check(t) ==
    /\ pc[t] = "check"
    /\ Goto(t, IF state[t] = "WAITING" THEN "wait" ELSE "run")
    /\ UNCHANGED <<data, op, i, leaves>>

\* FUTEX_WAIT: sleeps if the word is still 1, else returns and the loop ends.
FutexWait(t) ==
    /\ pc[t] = "wait"
    /\ Goto(t, IF futexWord[t] = 1 THEN "sleep" ELSE "resume")
    /\ UNCHANGED <<data, op, i, leaves>>

\* A signal ends the wait; the loop goes on if the word is still 1.
Interrupt(t) ==
    /\ pc[t] = "sleep"
    /\ Goto(t, IF futexWord[t] = 1 THEN "wait" ELSE "resume")
    /\ UNCHANGED <<data, op, i, leaves>>

\* Back from the wait, where the code asserts that the state is RUNNING.
Resume(t) ==
    /\ pc[t] = "resume"
    /\ Goto(t, "run")
    /\ UNCHANGED <<data, op, i, leaves>>

\* The process of t is killed.
Die(t) ==
    /\ pc[t] \in {"run", "resume"} \cup WaitPCs
    /\ KillJoiners \/ op[t] # "join" \/ state[t] = "RUNNING"
    /\ leaves < MaxLeaves
    /\ leaves' = leaves + 1
    /\ Goto(t, "dead")
    /\ UNCHANGED <<data, op, i>>

WaitStep(t) == Check(t) \/ FutexWait(t) \/ Resume(t)

-----------------------------------------------------------------------------
Next == \E t \in Threads :
          \/ join(t) \/ leave(t) \/ sync(t)
          \/ HolderStep(t) \/ WaitStep(t)
          \/ Interrupt(t) \/ Die(t)

Spec == Init /\ [][Next]_vars

\* The holder of the lock and the woken threads keep running, a running
\* thread finishes its phase or leaves, the watchdog removes the dead.
\* Nobody need join, leave or die.
Fairness ==
    \A t \in Threads :
        /\ WF_vars(HolderStep(t))
        /\ WF_vars(WaitStep(t))
        /\ WF_vars(sync(t))
        /\ WF_vars(pc[t] = "dead" /\ leave(t))

FairSpec == Spec /\ Fairness

-----------------------------------------------------------------------------
(* Properties *)

\* The threads on the run list.
Entries == {runList[k] : k \in 1..runListSize}

\* The holder is between its write of a thread's state and the end of the wakeup.
Waking == \E t \in Threads : pc[t] \in {"cas1", "wake1", "cas2", "wake2"}

\* The run list holds each thread that is not OFFLINE exactly once, through
\* every append, swap, cleanup pass and shuffle: nobody is visited twice in a
\* phase and nobody is lost.
RunListInv ==
    /\ Entries = In({"WAITING", "RUNNING", "LEFT"})
    /\ \A j, k \in 1..runListSize : runList[j] = runList[k] => j = k
    /\ curThreadIdx <= runListSize

\* "runListSize - runningThreads - leftThreads == waitingThreads" (barrier.h:87):
\* the counters agree with the states, up to the wakeup in progress and the
\* cleanup pass in progress, and its assertion holds when it ends.
CounterInv ==
    /\ Cardinality(In({"RUNNING"})) = runningThreads + (IF Waking THEN 1 ELSE 0)
    /\ leftThreads = Cardinality(In({"LEFT"})) \/ \E t \in Threads : pc[t] = "clean"
    /\ \A t \in Threads :
         pc[t] = "clean" /\ i = runListSize => In({"LEFT"}) = {}

\* Parallelism control: no more than Parallel threads run at a time.
ParallelBound == Cardinality(In({"RUNNING"})) <= Parallel

\* The compare-and-swap of a wakeup succeeds: no panic("Wakeup race in barrier?").
NoWakeupRace ==
    \A t \in Threads : pc[t] \in {"cas1", "cas2"} => futexWord[wtid] = 1

\* A thread that passes join or sync is RUNNING (the assertions at the end of
\* both), whichever way it got past the unlocked test and the futex.
ResumeRunning ==
    \A t \in Threads : pc[t] \in {"resume", "run"} => state[t] = "RUNNING"

\* A thread that has been given its turn does not sleep on: it is awake, or
\* the holder is about to wake it.
NoLostWakeup ==
    \A t \in Threads : pc[t] = "sleep" /\ state[t] = "RUNNING" => Waking /\ wtid = t

\* "NOTE: You can't cause a phase to end here" (barrier.h:151), in join.
JoinEndsNoPhase ==
    \A t \in Threads : pc[t] = "end" /\ op[t] = "join" => ~PhaseOver

\* The assertion of the same-phase join: the slot is where lastIdx says.
RescheduleAssert ==
    \A t \in Threads :
        LockFree /\ pc[t] = "out" /\ state[t] = "LEFT" /\ curThreadIdx > lastIdx[t]
            => runList[lastIdx[t] + 1] = t

\* No assertion of barrier.h fails and no wakeup panics, whatever order threads
\* join, leave, sync, sleep and are woken in.
AssertionsHold == NoWakeupRace /\ ResumeRunning /\ JoinEndsNoPhase /\ RescheduleAssert

\* The barrier implements AbstractBarrier.  A member has arrived when it
\* waits and its entry has been visited in this phase.
members == In({"WAITING", "RUNNING"})
arrived == {t \in In({"WAITING"}) : \E k \in 1..curThreadIdx : runList[k] = t}
Abstract == INSTANCE AbstractBarrier
ImplementsBarrier == Abstract!Spec

\* Every thread that waits, after join or sync, gets to run (or is removed
\* because its process died).
WaiterRuns == \A t \in Threads : state[t] = "WAITING" ~> state[t] # "WAITING"
=============================================================================

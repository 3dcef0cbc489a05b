---------------------------- MODULE BarrierProofs ----------------------------
(***************************************************************************)
(* The safety of the phase barrier for any set of threads, any bound on    *)
(* the running ones and any cleanup period, provided that no process is    *)
(* killed while a thread of it waits in join (~KillJoiners; the run with   *)
(* KillJoiners shows what happens otherwise); and, at the end, that it     *)
(* implements AbstractBarrier.                                             *)
(***************************************************************************)
EXTENDS Barrier, FiniteSetTheorems, SequenceTheorems, TLAPS

\* schedLock has one holder.
HolderInv ==
    \A t, u \in Threads : pc[t] \in HolderPCs /\ pc[u] \in HolderPCs => t = u

\* The part of RunListInv the provers use: the list against the states.
ListInv ==
    /\ \A k \in 1..Len(runList) : state[runList[k]] # "OFFLINE"
    /\ \A t \in Threads : state[t] # "OFFLINE" => \E k \in 1..Len(runList) : runList[k] = t
    /\ \A j, k \in 1..Len(runList) : runList[j] = runList[k] => j = k
    /\ curThreadIdx <= Len(runList)

\* lastIdx is the place of every thread that has been woken since it joined.
LastIdxInv ==
    \A t \in Threads :
        state[t] \in {"RUNNING", "LEFT"} \/ (state[t] = "WAITING" /\ op[t] = "sync")
            => lastIdx[t] + 1 \in 1..Len(runList) /\ runList[lastIdx[t] + 1] = t

\* What a thread's position in the code says of its state.
PcInv ==
    \A t \in Threads :
        /\ pc[t] = "out" => state[t] \in {"OFFLINE", "LEFT"}
        /\ pc[t] \in {"run", "resume"} => state[t] = "RUNNING"
        /\ pc[t] \in WaitPCs => state[t] \in {"WAITING", "RUNNING"} /\ op[t] # "leave"
        /\ pc[t] = "dead" => state[t] = "RUNNING" \/ (state[t] = "WAITING" /\ op[t] = "sync")
        /\ pc[t] \in HolderPCs =>
             IF op[t] = "leave" THEN state[t] \in {"OFFLINE", "LEFT"}
                                ELSE state[t] \in {"WAITING", "RUNNING"}

CasPCs == {"cas1", "cas2"}
WakingPCs == {"cas1", "wake1", "cas2", "wake2"}

\* The futex word is armed while the thread waits, and until the holder's cas.
WordInv ==
    \A t \in Threads :
        /\ state[t] = "WAITING" => futexWord[t] = 1
        /\ state[t] = "RUNNING" /\ futexWord[t] = 1
             => \E u \in Threads : pc[u] \in CasPCs /\ wtid = t

\* The wakeup in progress.
WakeInv ==
    \A t \in Threads :
        /\ pc[t] \in WakingPCs =>
             curThreadIdx >= 1 /\ state[wtid] = "RUNNING" /\ runningThreads < Parallel
        /\ pc[t] \in CasPCs => futexWord[wtid] = 1

SleepInv ==
    \A t \in Threads :
        pc[t] = "sleep" /\ state[t] = "RUNNING"
            => \E u \in Threads : pc[u] \in WakingPCs /\ wtid = t

\* The loops of checkEndPhase.
LoopInv ==
    \A t \in Threads :
        /\ pc[t] = "clean" =>
             /\ curThreadIdx = 0
             /\ i <= Len(runList)
             /\ \A k \in 1..i : state[runList[k]] # "LEFT"
        /\ pc[t] = "shuffle" => i < Len(runList)

\* The number of threads in a state.
Count(f, x) == Cardinality({t \in Threads : f[t] = x})

\* The counters, with the wakeup in progress told apart.
CountInv ==
    /\ runningThreads <= Parallel
    /\ (\E t \in Threads : pc[t] \in WakingPCs) =>
         Count(state, "RUNNING") = runningThreads + 1
    /\ (\A t \in Threads : pc[t] \notin WakingPCs) =>
         Count(state, "RUNNING") = runningThreads
    /\ (\A t \in Threads : pc[t] # "clean") => leftThreads = Count(state, "LEFT")

\* A joining thread has its turn ahead of it, or has it already.
JoinInv ==
    \A t \in Threads :
        pc[t] \in {"scan1", "cas1", "wake1", "end"} /\ op[t] = "join" =>
            \/ state[t] = "RUNNING"
            \/ \E k \in curThreadIdx + 1..Len(runList) : runList[k] = t

IInv == /\ TypeOK /\ HolderInv /\ ListInv /\ LastIdxInv /\ PcInv /\ WordInv /\ WakeInv
        /\ SleepInv /\ LoopInv /\ CountInv /\ JoinInv

-----------------------------------------------------------------------------
(* Counting *)

\* Counts are natural numbers, zero for a state nobody is in, and change by at
\* most one when one thread's state changes.
LEMMA CountFacts ==
  ASSUME NEW f \in [Threads -> States], NEW x
  PROVE  /\ Count(f, x) \in Nat
         /\ Count(f, x) = 0 <=> \A t \in Threads : f[t] # x
  <1> DEFINE A == {t \in Threads : f[t] = x}
  <1>1. IsFiniteSet(A)
    BY ThreadsAssumption, FS_Subset, A \in SUBSET Threads
  <1>2. Cardinality(A) \in Nat
    BY <1>1, FS_CardinalityType
  <1>3. Cardinality(A) = 0 <=> A = {}
    BY <1>1, FS_EmptySet
  <1>4. QED
    BY <1>2, <1>3 DEF Count

LEMMA CountChange ==
  ASSUME NEW f \in [Threads -> States], NEW g \in [Threads -> States], NEW t \in Threads,
         \A u \in Threads \ {t} : g[u] = f[u], NEW x
  PROVE  /\ Count(f, x) \in Nat /\ Count(g, x) \in Nat
         /\ f[t] = x => Count(f, x) # 0
         /\ g[t] = x /\ f[t] # x => Count(g, x) = Count(f, x) + 1
         /\ g[t] # x /\ f[t] = x => Count(g, x) = Count(f, x) - 1
         /\ ((g[t] = x) <=> (f[t] = x)) => Count(g, x) = Count(f, x)
  <1> DEFINE A == {u \in Threads : f[u] = x}
             B == {u \in Threads : g[u] = x}
  <1>1. IsFiniteSet(A) /\ Cardinality(A) \in Nat
    BY ThreadsAssumption, FS_Subset, A \in SUBSET Threads, FS_CardinalityType
  <1>a. Count(f, x) \in Nat /\ Count(g, x) \in Nat /\ (f[t] = x => Count(f, x) # 0)
    BY CountFacts
  <1>2. CASE g[t] = x
    <2>1. B = A \cup {t}
      BY <1>2
    <2>2. Cardinality(B) = IF t \in A THEN Cardinality(A) ELSE Cardinality(A) + 1
      BY <2>1, <1>1, FS_AddElement, SMTT(30)
    <2>3. QED
      BY <1>1, <1>a, <1>2, <2>2 DEF Count
  <1>3. CASE g[t] # x
    <2>1. B = A \ {t}
      BY <1>3
    <2>2. Cardinality(B) = IF t \in A THEN Cardinality(A) - 1 ELSE Cardinality(A)
      BY <2>1, <1>1, FS_RemoveElement, SMTT(30)
    <2>3. QED
      BY <1>1, <1>a, <1>3, <2>2 DEF Count
  <1>4. QED
    BY <1>2, <1>3

-----------------------------------------------------------------------------
\* The barrier starts empty.
LEMMA InitIInv == Init => IInv
  <1> SUFFICES ASSUME Init PROVE IInv
    OBVIOUS
  <1> USE DEF Init, States, HolderPCs, WaitPCs, WakingPCs, CasPCs
  <1>1. TypeOK
    BY ParallelAssumption, CleanupAssumption, MaxLeavesAssumption DEF TypeOK
  <1>2. Count(state, "RUNNING") = 0 /\ Count(state, "LEFT") = 0
    BY CountFacts
  <1>3. CountInv
    BY <1>2, ParallelAssumption DEF CountInv
  <1>4. HolderInv /\ LastIdxInv /\ PcInv /\ WordInv /\ WakeInv /\ SleepInv /\ LoopInv /\ JoinInv
    BY DEF HolderInv, LastIdxInv, PcInv, WordInv, WakeInv, SleepInv, LoopInv, JoinInv
  <1>5. ListInv
    BY DEF ListInv
  <1>6. QED
    BY <1>1, <1>3, <1>4, <1>5 DEF IInv

\* The steps outside the lock change no data: a thread moves between places
\* that are not the holder's.
LEMMA UnlockedStep ==
  ASSUME IInv, NEW t \in Threads, ~KillJoiners,
         WaitStep(t) \/ Interrupt(t) \/ Die(t)
  PROVE  IInv'
  <1> USE DEF IInv, TypeOK, HolderPCs, WaitPCs, WakingPCs, CasPCs, data
  <1>1. PICK l \in {"wait", "sleep", "resume", "run", "dead"} :
          /\ pc' = [pc EXCEPT ![t] = l]
          /\ UNCHANGED <<data, op, i>>
          /\ pc[t] \in {"run", "resume"} \cup WaitPCs
          /\ l \in {"resume", "run"} => state[t] = "RUNNING"
          /\ l = "dead" => state[t] = "RUNNING" \/ (state[t] = "WAITING" /\ op[t] = "sync")
          /\ l \in {"wait", "sleep"} => pc[t] \in WaitPCs
          /\ l = "sleep" => futexWord[t] = 1
    BY DEF WaitStep, Interrupt, Die, Check, FutexWait, Resume, Goto, PcInv, WordInv
  <1>2. leaves' \in 0..MaxLeaves
    BY MaxLeavesAssumption DEF WaitStep, Interrupt, Die, Check, FutexWait, Resume
  <1>3. TypeOK'
    BY <1>1, <1>2
  <1>4. HolderInv' /\ ListInv' /\ LastIdxInv' /\ LoopInv' /\ JoinInv'
    BY <1>1 DEF HolderInv, ListInv, LastIdxInv, LoopInv, JoinInv
  <1>5. PcInv'
    BY <1>1 DEF PcInv
  <1>w. wtid' = wtid
    BY <1>1 DEF wtid
  <1>6. WordInv' /\ WakeInv' /\ SleepInv'
    <2>1. WordInv'
      BY <1>1, <1>w DEF WordInv
    <2>2. WakeInv'
      BY <1>1, <1>w DEF WakeInv
    <2>3. ASSUME NEW u \in Threads, pc'[u] = "sleep", state'[u] = "RUNNING"
          PROVE  \E v \in Threads : pc'[v] \in WakingPCs /\ wtid' = u
      <3>1. PICK v \in Threads : pc[v] \in WakingPCs /\ wtid = u
        BY <1>1, <2>3 DEF SleepInv, WordInv
      <3>2. pc'[v] = pc[v]
        BY <1>1, <3>1
      <3>3. QED
        BY <1>w, <3>1, <3>2
    <2>c. SleepInv'
      BY <2>3 DEF SleepInv
    <2>4. QED
      BY <2>1, <2>2, <2>c
  <1>7. CountInv'
    BY <1>1 DEF CountInv
  <1>8. QED
    BY <1>3, <1>4, <1>5, <1>6, <1>7

\* sync: a running thread waits; the list does not change.
LEMMA SyncStep ==
  ASSUME IInv, NEW t \in Threads, sync(t)
  PROVE  IInv'
  <1> USE DEF IInv, TypeOK, States, HolderPCs, WaitPCs, WakingPCs, CasPCs
  <1>1. state[t] = "RUNNING" /\ \A u \in Threads : pc[u] \notin HolderPCs
    BY DEF sync, LockFree, PcInv
  <1>2. /\ state' = [state EXCEPT ![t] = "WAITING"]
        /\ futexWord' = [futexWord EXCEPT ![t] = 1]
        /\ runningThreads' = runningThreads - 1
        /\ op' = [op EXCEPT ![t] = "sync"]
        /\ pc' = [pc EXCEPT ![t] = "scan1"]
        /\ UNCHANGED <<lastIdx, runList, curThreadIdx, leftThreads, phaseCount, i, leaves>>
    BY DEF sync, Goto
  <1>3. /\ Count(state, "RUNNING") \in Nat \ {0}
        /\ Count(state', "RUNNING") = Count(state, "RUNNING") - 1
        /\ Count(state', "LEFT") = Count(state, "LEFT")
        /\ Count(state, "LEFT") \in Nat
    <2>1. /\ state \in [Threads -> States] /\ state' \in [Threads -> States]
          /\ \A u \in Threads \ {t} : state'[u] = state[u]
          /\ state'[t] = "WAITING"
      BY <1>2
    <2> HIDE DEF IInv, TypeOK, States
    <2>2. QED
      BY <1>1, <2>1, CountChange
  <1>4. runningThreads = Count(state, "RUNNING") /\ leftThreads = Count(state, "LEFT")
    BY <1>1 DEF CountInv
  <1>5. TypeOK'
    BY <1>2, <1>3, <1>4
  <1>6. CountInv'
    BY <1>1, <1>2, <1>3, <1>4, ParallelAssumption DEF CountInv
  <1>7. HolderInv' /\ ListInv' /\ LastIdxInv' /\ LoopInv' /\ JoinInv' /\ PcInv'
    BY <1>1, <1>2 DEF HolderInv, ListInv, LastIdxInv, LoopInv, JoinInv, PcInv
  <1>8. WordInv' /\ WakeInv' /\ SleepInv'
    BY <1>1, <1>2 DEF WordInv, WakeInv, SleepInv
  <1>9. QED
    BY <1>5, <1>6, <1>7, <1>8

\* leave, of a running thread or of a dead one.
LEMMA LeaveStep ==
  ASSUME IInv, NEW t \in Threads, leave(t)
  PROVE  IInv'
  <1> USE DEF IInv, TypeOK, States, HolderPCs, WaitPCs, WakingPCs, CasPCs
  <1>1. /\ state[t] = "RUNNING" \/ (state[t] = "WAITING" /\ op[t] = "sync")
        /\ pc[t] \in {"run", "dead"}
        /\ \A u \in Threads : pc[u] \notin HolderPCs
    BY DEF leave, LockFree, PcInv
  <1>2. /\ state' = [state EXCEPT ![t] = "LEFT"]
        /\ leftThreads' = leftThreads + 1
        /\ runningThreads' = IF state[t] = "RUNNING" THEN runningThreads - 1 ELSE runningThreads
        /\ op' = [op EXCEPT ![t] = "leave"]
        /\ pc' = [pc EXCEPT ![t] = IF state[t] = "RUNNING" THEN "scan1" ELSE "out"]
        /\ UNCHANGED <<futexWord, lastIdx, runList, curThreadIdx, phaseCount, i>>
        /\ leaves' \in 0..MaxLeaves
    BY MaxLeavesAssumption DEF leave, Goto
  <1>3. /\ Count(state, "RUNNING") \in Nat
        /\ state[t] = "RUNNING" => Count(state, "RUNNING") # 0
        /\ Count(state', "RUNNING") = Count(state, "RUNNING") - IF state[t] = "RUNNING" THEN 1 ELSE 0
        /\ Count(state', "LEFT") = Count(state, "LEFT") + 1
        /\ Count(state, "LEFT") \in Nat
    <2>1. /\ state \in [Threads -> States] /\ state' \in [Threads -> States]
          /\ \A u \in Threads \ {t} : state'[u] = state[u]
          /\ state'[t] = "LEFT"
      BY <1>2
    <2> HIDE DEF IInv, TypeOK, States
    <2>2. QED
      BY <1>1, <2>1, CountChange
  <1>4. runningThreads = Count(state, "RUNNING") /\ leftThreads = Count(state, "LEFT")
    BY <1>1 DEF CountInv
  <1>5. TypeOK'
    BY <1>2, <1>3, <1>4
  <1>6. CountInv'
    BY <1>1, <1>2, <1>3, <1>4, ParallelAssumption, SMTT(30) DEF CountInv
  <1>7. HolderInv' /\ ListInv' /\ LastIdxInv' /\ LoopInv' /\ JoinInv' /\ PcInv'
    <2>1. HolderInv' /\ LoopInv' /\ JoinInv'
      BY <1>1, <1>2 DEF HolderInv, LoopInv, JoinInv
    <2>2. ListInv' /\ LastIdxInv'
      BY <1>1, <1>2 DEF ListInv, LastIdxInv
    <2>3. PcInv'
      BY <1>1, <1>2 DEF PcInv
    <2>4. QED
      BY <2>1, <2>2, <2>3
  <1>8. WordInv' /\ WakeInv' /\ SleepInv'
    BY <1>1, <1>2 DEF WordInv, WakeInv, SleepInv
  <1>9. QED
    BY <1>5, <1>6, <1>7, <1>8

\* The compare-and-swap of a wakeup.
LEMMA CasStep ==
  ASSUME IInv, NEW t \in Threads, Cas(t)
  PROVE  IInv'
  <1> USE DEF IInv, TypeOK, States, HolderPCs, WaitPCs, WakingPCs, CasPCs
  <1>1. PICK l \in {"wake1", "wake2"} :
        /\ pc[t] \in CasPCs
        /\ l = "wake1" => pc[t] = "cas1"
        /\ pc' = [pc EXCEPT ![t] = l]
        /\ futexWord' = [futexWord EXCEPT ![wtid] = 0]
        /\ UNCHANGED <<state, lastIdx, runList, curThreadIdx, runningThreads, leftThreads,
                       phaseCount, op, i, leaves>>
    BY DEF Cas, Goto
  <1>2. wtid \in Threads /\ wtid' = wtid /\ state[wtid] = "RUNNING"
    BY <1>1, ElementOfSeq DEF WakeInv, ListInv, wtid
  <1>3. \A u \in Threads : u # t => pc[u] \notin HolderPCs
    BY <1>1 DEF HolderInv
  <1>4. TypeOK'
    BY <1>1, <1>2
  <1>5. HolderInv' /\ ListInv' /\ LastIdxInv' /\ LoopInv' /\ JoinInv' /\ PcInv'
    BY <1>1, <1>3 DEF HolderInv, ListInv, LastIdxInv, LoopInv, JoinInv, PcInv
  <1>6. CountInv'
    BY <1>1, <1>3 DEF CountInv
  <1>7. WordInv' /\ WakeInv'
    BY <1>1, <1>2, <1>3 DEF WordInv, WakeInv
  <1>8. SleepInv'
    BY <1>1, <1>2, <1>3 DEF SleepInv
  <1>9. QED
    BY <1>4, <1>5, <1>6, <1>7, <1>8

\* FUTEX_WAKE: a sleeper resumes, and the thread counts as running.
LEMMA WakeStep ==
  ASSUME IInv, NEW t \in Threads, Wake(t)
  PROVE  IInv'
  <1> USE DEF IInv, TypeOK, States, HolderPCs, WaitPCs, WakingPCs, CasPCs
  <1>1. wtid \in Threads /\ wtid' = wtid /\ state[wtid] = "RUNNING" /\ runningThreads < Parallel
    BY ElementOfSeq DEF Wake, WakeInv, ListInv, wtid
  <1>2. PICK l \in {"scan1", "scan2"} :
        /\ pc[t] \in {"wake1", "wake2"}
        /\ l = "scan1" => pc[t] = "wake1"
        /\ \A u \in Threads : pc'[u] = IF u = t THEN l
                                       ELSE IF u = wtid /\ pc[u] = "sleep" THEN "resume"
                                       ELSE pc[u]
        /\ pc' \in [Threads -> {"out", "run", "resume", "dead"} \cup WaitPCs \cup HolderPCs]
        /\ runningThreads' = runningThreads + 1
        /\ UNCHANGED <<state, futexWord, lastIdx, runList, curThreadIdx, leftThreads,
                       phaseCount, op, i, leaves>>
    <2> DEFINE l == IF pc[t] = "wake1" THEN "scan1" ELSE "scan2"
    <2>1. pc' = [pc EXCEPT ![t] = l, ![wtid] = IF @ = "sleep" THEN "resume" ELSE @]
      BY DEF Wake
    <2>2. ASSUME NEW u \in Threads
          PROVE  pc'[u] = IF u = t THEN l ELSE IF u = wtid /\ pc[u] = "sleep" THEN "resume" ELSE pc[u]
      BY <1>1, <2>1
    <2>3. QED
      BY <1>1, <2>1, <2>2 DEF Wake
  <1>3. \A u \in Threads : u # t => pc[u] \notin HolderPCs
    BY <1>2 DEF HolderInv
  <1>4. TypeOK'
    BY <1>2
  <1>a. \A u \in Threads : u # t => pc'[u] \notin HolderPCs
    BY <1>2, <1>3
  <1>b. pc'[t] \in {"scan1", "scan2"} /\ (pc'[t] = "scan1" => pc[t] = "wake1")
    BY <1>2
  <1>5. HolderInv' /\ ListInv' /\ LastIdxInv' /\ LoopInv' /\ JoinInv' /\ PcInv'
    <2>1. HolderInv' /\ LoopInv'
      BY <1>a, <1>b DEF HolderInv, LoopInv
    <2>2. ListInv' /\ LastIdxInv'
      BY <1>2 DEF ListInv, LastIdxInv
    <2>3. JoinInv'
      BY <1>2, <1>a, <1>b DEF JoinInv
    <2>4. PcInv'
      BY <1>1, <1>2 DEF PcInv
    <2>5. QED
      BY <2>1, <2>2, <2>3, <2>4
  <1>6. CountInv'
    <2>1. Count(state, "RUNNING") = runningThreads + 1 /\ leftThreads = Count(state, "LEFT")
      BY <1>2, <1>3 DEF CountInv
    <2>2. QED
      BY <1>1, <1>2, <1>a, <1>b, <2>1, ParallelAssumption DEF CountInv
  <1>7. WordInv' /\ WakeInv'
    BY <1>1, <1>2, <1>3, ZenonT(40) DEF WordInv, WakeInv
  <1>8. SleepInv'
    BY <1>1, <1>2, <1>3 DEF SleepInv
  <1>9. QED
    BY <1>4, <1>5, <1>6, <1>7, <1>8

\* checkEndPhase's decision, and the start of its loops.
LEMMA EndPhaseStep ==
  ASSUME IInv, NEW t \in Threads, EndPhase(t)
  PROVE  IInv'
  <1> USE DEF IInv, TypeOK, States, HolderPCs, WaitPCs, WakingPCs, CasPCs
  <1>1. PICK l \in {"clean", "shuffle", "scan2"} :
        /\ pc[t] = "end"
        /\ pc' = [pc EXCEPT ![t] = l]
        /\ l = "clean" => curThreadIdx' = 0 /\ i' = 0
        /\ l = "shuffle" => i' = Len(runList) - 1 /\ Parallel < Len(runList)
        /\ i' \in Nat
        /\ curThreadIdx' \in {0, curThreadIdx}
        /\ phaseCount' \in {phaseCount, (phaseCount + 1) % CleanupPeriod}
        /\ UNCHANGED <<state, futexWord, lastIdx, runList, runningThreads, leftThreads, op, leaves>>
    BY ParallelAssumption, LenProperties DEF EndPhase, ToShuffle, Goto, runListSize
  <1>2. \A u \in Threads : u # t => pc[u] \notin HolderPCs
    BY <1>1 DEF HolderInv
  <1>3. TypeOK'
    <2>1. phaseCount' \in 0..CleanupPeriod-1
      BY <1>1, CleanupAssumption
    <2>2. QED
      BY <1>1, <2>1
  <1>4. HolderInv' /\ ListInv' /\ LastIdxInv' /\ LoopInv' /\ JoinInv' /\ PcInv'
    <2>a. HolderInv' /\ PcInv'
      BY <1>1, <1>2 DEF HolderInv, PcInv
    <2>b. \A u \in Threads : pc'[u] \notin {"scan1", "cas1", "wake1", "end"}
      BY <1>1, <1>2
    <2>1. JoinInv'
      BY <2>b DEF JoinInv
    <2>2. ListInv'
      BY <1>1, LenProperties DEF ListInv
    <2>3. LastIdxInv'
      BY <1>1 DEF LastIdxInv
    <2>4. LoopInv'
      BY <1>1, <1>2, ParallelAssumption, LenProperties DEF LoopInv
    <2>5. QED
      BY <2>a, <2>1, <2>2, <2>3, <2>4
  <1>5. CountInv'
    BY <1>1, <1>2 DEF CountInv
  <1>6. WordInv' /\ WakeInv' /\ SleepInv'
    BY <1>1, <1>2 DEF WordInv, WakeInv, SleepInv
  <1>7. QED
    BY <1>3, <1>4, <1>5, <1>6

\* One iteration of checkRunList.
LEMMA ScanStep ==
  ASSUME IInv, NEW t \in Threads, Scan(t)
  PROVE  IInv'
  <1> USE DEF IInv, TypeOK, States, HolderPCs, WaitPCs, WakingPCs, CasPCs
  <1> DEFINE nxt == runList[curThreadIdx + 1]
  <1>1. \A u \in Threads : u # t => pc[u] \notin HolderPCs
    BY DEF HolderInv, Scan
  <1>2. CASE ~CanWake
    <2>1. PICK l \in {"end", "out", "check"} :
          /\ pc[t] \in {"scan1", "scan2"}
          /\ pc' = [pc EXCEPT ![t] = l]
          /\ l = "end" => pc[t] = "scan1"
          /\ l = "out" => op[t] = "leave"
          /\ l = "check" => op[t] # "leave"
          /\ UNCHANGED <<data, op, i, leaves>>
      BY <1>2 DEF Scan, Unlock, Goto, data
    <2>2. TypeOK' /\ HolderInv' /\ ListInv' /\ LastIdxInv' /\ LoopInv' /\ JoinInv' /\ PcInv'
      BY <1>1, <2>1, SMTT(30) DEF HolderInv, ListInv, LastIdxInv, LoopInv, JoinInv, PcInv, data
    <2>3. CountInv'
      BY <1>1, <2>1 DEF CountInv, data
    <2>4. WordInv' /\ WakeInv' /\ SleepInv'
      BY <1>1, <2>1, ZenonT(40) DEF WordInv, WakeInv, SleepInv, data
    <2>5. QED
      BY <2>2, <2>3, <2>4
  <1>3. CASE CanWake
    <2>1. /\ curThreadIdx + 1 \in 1..Len(runList) /\ nxt \in Threads
          /\ pc[t] \in {"scan1", "scan2"}
          /\ curThreadIdx' = curThreadIdx + 1
          /\ runningThreads < Parallel
          /\ wtid' = nxt
          /\ UNCHANGED <<futexWord, runList, runningThreads, leftThreads, phaseCount, op, i, leaves>>
      BY <1>3, ElementOfSeq, LenProperties DEF Scan, CanWake, runListSize, wtid
    <2>2. CASE state[nxt] # "WAITING"
      <3>1. UNCHANGED <<state, lastIdx, pc>>
        BY <1>3, <2>2 DEF Scan
      <3>2. TypeOK' /\ HolderInv' /\ ListInv' /\ LastIdxInv' /\ LoopInv' /\ PcInv' /\ CountInv'
        <4>1. TypeOK' /\ HolderInv' /\ PcInv'
          BY <2>1, <3>1 DEF HolderInv, PcInv
        <4>2. ListInv' /\ LastIdxInv'
          BY <2>1, <3>1 DEF ListInv, LastIdxInv
        <4>3. LoopInv' /\ CountInv'
          BY <1>1, <2>1, <3>1 DEF LoopInv, CountInv
        <4>4. QED
          BY <4>1, <4>2, <4>3
      <3>3. JoinInv'
        BY <1>1, <2>1, <2>2, <3>1 DEF JoinInv, PcInv
      <3>4. WordInv' /\ WakeInv' /\ SleepInv'
        BY <1>1, <2>1, <3>1 DEF WordInv, WakeInv, SleepInv
      <3>5. QED
        BY <3>2, <3>3, <3>4
    <2>3. CASE state[nxt] = "WAITING"
      <3>1. PICK l \in {"cas1", "cas2"} :
            /\ state' = [state EXCEPT ![nxt] = "RUNNING"]
            /\ lastIdx' = [lastIdx EXCEPT ![nxt] = curThreadIdx]
            /\ pc' = [pc EXCEPT ![t] = l]
            /\ l = "cas1" => pc[t] = "scan1"
        BY <1>3, <2>3 DEF Scan, Goto
      <3>2. TypeOK' /\ HolderInv'
        BY <1>1, <2>1, <3>1 DEF HolderInv
      <3>3. ListInv' /\ LastIdxInv' /\ LoopInv'
        BY <1>1, <2>1, <2>3, <3>1, SMTT(30) DEF ListInv, LastIdxInv, LoopInv
      <3>4. PcInv' /\ JoinInv'
        BY <1>1, <2>1, <2>3, <3>1, SMTT(30) DEF PcInv, JoinInv
      <3>5. WordInv' /\ WakeInv' /\ SleepInv'
        <4>1. pc'[t] \in CasPCs /\ \A u \in Threads : u # t => pc'[u] \notin HolderPCs
          BY <1>1, <3>1
        <4>2. /\ \A u \in Threads : u # nxt => state'[u] = state[u]
              /\ state'[nxt] = "RUNNING" /\ futexWord'[nxt] = 1
          BY <2>1, <2>3, <3>1 DEF WordInv
        <4>3. \A u \in Threads : pc[u] \notin WakingPCs
          BY <1>1, <2>1
        <4>4. WordInv'
          BY <2>1, <4>1, <4>2, <4>3 DEF WordInv
        <4>5. WakeInv'
          BY <2>1, <4>1, <4>2 DEF WakeInv
        <4>6. SleepInv'
          BY <2>1, <3>1, <4>1, <4>2, <4>3 DEF SleepInv
        <4>7. QED
          BY <4>4, <4>5, <4>6
      <3>6. CountInv'
        <4>1. /\ state \in [Threads -> States] /\ state' \in [Threads -> States]
              /\ \A u \in Threads \ {nxt} : state'[u] = state[u]
              /\ state'[nxt] = "RUNNING"
          BY <2>1, <3>1
        <4>2. /\ Count(state', "RUNNING") = Count(state, "RUNNING") + 1
              /\ Count(state', "LEFT") = Count(state, "LEFT")
          <5> HIDE DEF IInv, TypeOK, States, nxt
          <5>1. QED
            BY <2>1, <2>3, <4>1, CountChange, SMTT(30)
        <4>3. runningThreads = Count(state, "RUNNING") /\ leftThreads = Count(state, "LEFT")
          BY <1>1, <2>1 DEF CountInv
        <4>4. pc'[t] \in WakingPCs /\ \A u \in Threads : pc'[u] # "clean"
          BY <1>1, <3>1
        <4>5. QED
          BY <2>1, <4>2, <4>3, <4>4 DEF CountInv
      <3>7. QED
        BY <3>2, <3>3, <3>4, <3>5, <3>6
    <2>4. QED
      BY <2>2, <2>3
  <1>4. QED
    BY <1>2, <1>3

-----------------------------------------------------------------------------
(* Reordering the list *)

\* Two entries of a sequence change places.
LEMMA SwapSeq ==
  ASSUME NEW s \in Seq(Threads), NEW a \in 1..Len(s), NEW b \in 1..Len(s),
         NEW r, r = [s EXCEPT ![a] = s[b], ![b] = s[a]]
  PROVE  /\ r \in Seq(Threads) /\ Len(r) = Len(s)
         /\ r[a] = s[b] /\ r[b] = s[a]
         /\ \A k \in 1..Len(s) : k # a /\ k # b => r[k] = s[k]
  <1>1. s[a] \in Threads /\ s[b] \in Threads
    BY ElementOfSeq
  <1> DEFINE q == [s EXCEPT ![a] = s[b]]
  <1>2. /\ q \in Seq(Threads) /\ Len(q) = Len(s)
        /\ \A k \in 1..Len(s) : q[k] = IF k = a THEN s[b] ELSE s[k]
    BY <1>1, ExceptSeq
  <1>3. r = [q EXCEPT ![b] = s[a]]
    OBVIOUS
  <1> HIDE DEF q
  <1>4. /\ r \in Seq(Threads) /\ Len(r) = Len(q)
        /\ \A k \in 1..Len(q) : r[k] = IF k = b THEN s[a] ELSE q[k]
    BY <1>1, <1>2, <1>3, ExceptSeq
  <1>5. QED
    BY <1>2, <1>4

\* Two updates of a function at once.
LEMMA TwoUpdates ==
  ASSUME NEW f \in [Threads -> Nat], NEW x \in Threads, NEW y \in Threads,
         NEW m \in Nat, NEW n \in Nat, x = y => m = n,
         NEW g, g = [f EXCEPT ![x] = m, ![y] = n]
  PROVE  /\ g \in [Threads -> Nat] /\ g[x] = m /\ g[y] = n
         /\ \A u \in Threads : u # x /\ u # y => g[u] = f[u]
  OBVIOUS

\* A swap of two entries that updates their lastIdx keeps the list a
\* permutation of the same threads, each of them where lastIdx says.
LEMMA SwapKeepsList ==
  ASSUME TypeOK, ListInv,
         NEW a \in 1..Len(runList), NEW b \in 1..Len(runList),
         runList' = [runList EXCEPT ![a] = runList[b], ![b] = runList[a]],
         lastIdx' \in [Threads -> Nat],
         lastIdx'[runList[a]] = b - 1, lastIdx'[runList[b]] = a - 1,
         \A u \in Threads : u # runList[a] /\ u # runList[b] => lastIdx'[u] = lastIdx[u],
         \A u \in Threads : state'[u] = "OFFLINE" <=> state[u] = "OFFLINE",
         curThreadIdx' <= Len(runList)
  PROVE  /\ runList' \in Seq(Threads) /\ Len(runList') = Len(runList)
         /\ runList'[a] = runList[b] /\ runList'[b] = runList[a]
         /\ ListInv'
         /\ \A u \in Threads :
              lastIdx[u] + 1 \in 1..Len(runList) /\ runList[lastIdx[u] + 1] = u
                => lastIdx'[u] + 1 \in 1..Len(runList) /\ runList'[lastIdx'[u] + 1] = u
  <1>1. runList \in Seq(Threads) /\ Len(runList) \in Nat
    BY LenProperties DEF TypeOK
  <1>2. /\ runList' \in Seq(Threads) /\ Len(runList') = Len(runList)
        /\ runList'[a] = runList[b] /\ runList'[b] = runList[a]
        /\ \A k \in 1..Len(runList) : k # a /\ k # b => runList'[k] = runList[k]
    BY <1>1, SwapSeq
  <1>3. \A j, k \in 1..Len(runList) : runList'[j] = runList'[k] => j = k
    BY <1>2, SMTT(30) DEF ListInv
  <1>4. \A k \in 1..Len(runList) : \E j \in 1..Len(runList) : runList'[j] = runList[k]
    BY <1>2
  <1>5. \A k \in 1..Len(runList) : \E j \in 1..Len(runList) : runList'[k] = runList[j]
    BY <1>2
  <1>6. lastIdx'[runList[a]] + 1 = b /\ lastIdx'[runList[b]] + 1 = a
    BY <1>1
  <1>7. ASSUME NEW u \in Threads,
               lastIdx[u] + 1 \in 1..Len(runList), runList[lastIdx[u] + 1] = u
        PROVE  lastIdx'[u] + 1 \in 1..Len(runList) /\ runList'[lastIdx'[u] + 1] = u
    <2>1. CASE u = runList[a] \/ u = runList[b]
      BY <2>1, <1>2, <1>6
    <2>2. CASE u # runList[a] /\ u # runList[b]
      BY <2>2, <1>2, <1>7
    <2>3. QED
      BY <2>1, <2>2
  <1>8. ListInv'
    <2>1. ASSUME NEW k \in 1..Len(runList) PROVE state'[runList'[k]] # "OFFLINE"
      <3>1. PICK j \in 1..Len(runList) : runList'[k] = runList[j]
        BY <1>5
      <3>2. runList[j] \in Threads /\ state[runList[j]] # "OFFLINE"
        BY <1>1, ElementOfSeq DEF ListInv
      <3>3. QED
        BY <3>1, <3>2
    <2>2. ASSUME NEW u \in Threads, state'[u] # "OFFLINE"
          PROVE  \E k \in 1..Len(runList) : runList'[k] = u
      <3>1. PICK k \in 1..Len(runList) : runList[k] = u
        BY <2>2 DEF ListInv
      <3>2. QED
        BY <1>4, <3>1
    <2>3. QED
      BY <1>2, <1>3, <2>1, <2>2, ZenonT(40) DEF ListInv
  <1>9. QED
    BY <1>2, <1>7, <1>8

\* Appending a thread that is not on the list.
LEMMA AppendKeepsList ==
  ASSUME TypeOK, ListInv, NEW t \in Threads, state[t] = "OFFLINE",
         runList' = Append(runList, t), UNCHANGED curThreadIdx,
         state' = [state EXCEPT ![t] = "WAITING"]
  PROVE  /\ runList' \in Seq(Threads) /\ Len(runList') = Len(runList) + 1
         /\ \A k \in 1..Len(runList) : runList'[k] = runList[k]
         /\ runList'[Len(runList) + 1] = t
         /\ ListInv'
  <1>1. runList \in Seq(Threads) /\ Len(runList) \in Nat
    BY LenProperties DEF TypeOK
  <1>2. /\ runList' \in Seq(Threads) /\ Len(runList') = Len(runList) + 1
        /\ \A k \in 1..Len(runList) : runList'[k] = runList[k]
        /\ runList'[Len(runList) + 1] = t
    BY <1>1, AppendProperties
  <1>3. \A k \in 1..Len(runList) : runList[k] \in Threads /\ runList[k] # t
    BY <1>1, ElementOfSeq DEF ListInv
  <1>4. \A k \in 1..Len(runList') : k = Len(runList) + 1 \/ k \in 1..Len(runList)
    BY <1>1, <1>2
  <1>5. \A u \in Threads : IF u = t THEN state'[u] = "WAITING" ELSE state'[u] = state[u]
    BY DEF TypeOK
  <1>6. ASSUME NEW k \in 1..Len(runList') PROVE state'[runList'[k]] # "OFFLINE"
    <2>1. CASE k = Len(runList) + 1
      BY <2>1, <1>2, <1>5
    <2>2. CASE k \in 1..Len(runList)
      BY <2>2, <1>2, <1>3, <1>5 DEF ListInv
    <2>3. QED
      BY <1>4, <2>1, <2>2
  <1>7. ASSUME NEW u \in Threads, state'[u] # "OFFLINE"
        PROVE  \E k \in 1..Len(runList') : runList'[k] = u
    <2>1. CASE u = t
      BY <2>1, <1>1, <1>2
    <2>2. CASE u # t
      <3>1. PICK k \in 1..Len(runList) : runList[k] = u
        BY <2>2, <1>5, <1>7 DEF ListInv
      <3>2. k \in 1..Len(runList') /\ runList'[k] = u
        BY <1>1, <1>2, <3>1
      <3>3. QED
        BY <3>2
    <2>3. QED
      BY <2>1, <2>2
  <1>8. ASSUME NEW j \in 1..Len(runList'), NEW k \in 1..Len(runList'), runList'[j] = runList'[k]
        PROVE  j = k
    BY <1>2, <1>3, <1>4, <1>8 DEF ListInv
  <1>9. curThreadIdx' <= Len(runList')
    BY <1>1, <1>2 DEF ListInv, TypeOK
  <1>10. ListInv'
    BY <1>6, <1>7, <1>8, <1>9 DEF ListInv
  <1>11. QED
    BY <1>2, <1>10

\* One iteration of the shuffle.
LEMMA ShuffleStep ==
  ASSUME IInv, NEW t \in Threads, Shuffle(t)
  PROVE  IInv'
  <1> USE DEF IInv, TypeOK, States, HolderPCs, WaitPCs, WakingPCs, CasPCs
  <1>1. /\ pc[t] = "shuffle" /\ i < Len(runList) /\ Len(runList) \in Nat
        /\ UNCHANGED <<state, futexWord, curThreadIdx, runningThreads, leftThreads, phaseCount,
                       op, leaves>>
    BY LenProperties DEF Shuffle, LoopInv
  <1>2. \A u \in Threads : u # t => pc[u] \notin HolderPCs
    BY <1>1 DEF HolderInv
  <1>3. i' \in Nat /\ i' <= i
    <2>1. (i > 0 /\ i' = i - 1) \/ (~(i > 0) /\ i' = i)
      BY DEF Shuffle
    <2>2. i \in Nat
      OBVIOUS
    <2>3. QED
      BY <2>1, <2>2
  <1>4. /\ \A u \in Threads : IF u = t THEN pc'[u] \in {"shuffle", "scan2"} ELSE pc'[u] = pc[u]
        /\ pc' \in [Threads -> {"out", "run", "resume", "dead"} \cup WaitPCs \cup HolderPCs]
    <2>1. pc' = pc \/ pc' = [pc EXCEPT ![t] = "scan2"]
      BY <1>1 DEF Shuffle, Goto
    <2>2. QED
      BY <1>1, <2>1
  <1>5. /\ runList' \in Seq(Threads) /\ lastIdx' \in [Threads -> Nat]
        /\ Len(runList') = Len(runList)
        /\ ListInv' /\ LastIdxInv'
    <2>1. CASE i = 0
      BY <1>1, <2>1 DEF Shuffle, ListInv, LastIdxInv
    <2>2. CASE i > 0
      <3>1. PICK j \in 0..i :
              /\ runList' = [runList EXCEPT ![i + 1] = runList[j + 1], ![j + 1] = runList[i + 1]]
              /\ lastIdx' = [lastIdx EXCEPT ![runList[i + 1]] = j, ![runList[j + 1]] = i]
        BY <2>2 DEF Shuffle
      <3> DEFINE a == i + 1
                 b == j + 1
      <3>2. a \in 1..Len(runList) /\ b \in 1..Len(runList)
        BY <1>1
      <3>3. runList[a] \in Threads /\ runList[b] \in Threads
        BY <3>2, ElementOfSeq
      <3>4. /\ lastIdx' \in [Threads -> Nat]
            /\ lastIdx'[runList[a]] = b - 1 /\ lastIdx'[runList[b]] = a - 1
            /\ \A u \in Threads : u # runList[a] /\ u # runList[b] => lastIdx'[u] = lastIdx[u]
        <4> DEFINE x == runList[a]
                   y == runList[b]
        <4>1. x \in Threads /\ y \in Threads /\ (x = y => i = j)
          BY <3>2, <3>3 DEF ListInv
        <4>2. i \in Nat /\ j \in Nat /\ lastIdx \in [Threads -> Nat] /\ a - 1 = i /\ b - 1 = j
          OBVIOUS
        <4>3. lastIdx' = [lastIdx EXCEPT ![x] = j, ![y] = i]
          BY <3>1
        <4> HIDE DEF x, y, a, b, IInv, TypeOK
        <4>4. /\ lastIdx' \in [Threads -> Nat] /\ lastIdx'[x] = j /\ lastIdx'[y] = i
              /\ \A u \in Threads : u # x /\ u # y => lastIdx'[u] = lastIdx[u]
          BY <4>1, <4>2, <4>3, TwoUpdates
        <4>5. QED
          BY <4>2, <4>4 DEF x, y
      <3>5. runList' = [runList EXCEPT ![a] = runList[b], ![b] = runList[a]]
        BY <3>1
      <3> HIDE DEF a, b, IInv, TypeOK
      <3>6. TypeOK /\ ListInv /\ curThreadIdx' <= Len(runList)
        BY <1>1 DEF IInv, ListInv
      <3>7. /\ runList' \in Seq(Threads) /\ Len(runList') = Len(runList) /\ ListInv'
            /\ \A u \in Threads :
                 lastIdx[u] + 1 \in 1..Len(runList) /\ runList[lastIdx[u] + 1] = u
                   => lastIdx'[u] + 1 \in 1..Len(runList) /\ runList'[lastIdx'[u] + 1] = u
        BY <1>1, <3>2, <3>4, <3>5, <3>6, SwapKeepsList
      <3>9. LastIdxInv'
        BY <1>1, <3>7 DEF LastIdxInv, IInv
      <3>10. QED
        BY <3>4, <3>7, <3>9
    <2>3. QED
      BY <2>1, <2>2
  <1>6. TypeOK'
    <2>1. /\ pc' \in [Threads -> {"out", "run", "resume", "dead"} \cup WaitPCs \cup HolderPCs]
          /\ runList' \in Seq(Threads) /\ lastIdx' \in [Threads -> Nat] /\ i' \in Nat
      BY <1>3, <1>4, <1>5
    <2>2. QED
      BY <1>1, <2>1
  <1>7. HolderInv' /\ PcInv' /\ LoopInv'
    <2>1. HolderInv'
      BY <1>2, <1>4 DEF HolderInv
    <2>2. PcInv'
      BY <1>1, <1>2, <1>4 DEF PcInv
    <2>a. Len(runList') = Len(runList) /\ i \in Nat
      BY <1>5
    <2>3. i' < Len(runList')
      BY <1>1, <1>3, <2>a
    <2>b. \A u \in Threads : pc'[u] # "clean"
      BY <1>1, <1>2, <1>4
    <2>4. LoopInv'
      BY <2>3, <2>b DEF LoopInv
    <2>5. QED
      BY <2>1, <2>2, <2>4
  <1>8. CountInv'
    BY <1>1, <1>2, <1>4 DEF CountInv
  <1>9. WordInv' /\ WakeInv' /\ SleepInv' /\ JoinInv'
    <2>1. \A u \in Threads : pc'[u] \notin {"scan1", "cas1", "wake1", "end", "cas2", "wake2"}
      BY <1>1, <1>2, <1>4
    <2>2. \A u \in Threads : pc[u] \notin WakingPCs /\ (pc'[u] = "sleep" => pc[u] = "sleep")
      BY <1>1, <1>2, <1>4
    <2>3. QED
      BY <1>1, <2>1, <2>2 DEF WordInv, WakeInv, SleepInv, JoinInv
  <1>10. QED
    BY <1>5, <1>6, <1>7, <1>8, <1>9

\* join: a new slot is appended; one that is on the list is rescheduled.
LEMMA JoinStep ==
  ASSUME IInv, NEW t \in Threads, join(t)
  PROVE  IInv'
  <1> USE DEF IInv, TypeOK, States, HolderPCs, WaitPCs, WakingPCs, CasPCs
  <1>1. /\ pc[t] = "out" /\ \A u \in Threads : pc[u] \notin HolderPCs
        /\ state[t] \in {"OFFLINE", "LEFT"}
        /\ Len(runList) \in Nat
        /\ leftThreads' = IF state[t] = "OFFLINE" THEN leftThreads ELSE leftThreads - 1
        /\ state' = [state EXCEPT ![t] = "WAITING"]
        /\ futexWord' = [futexWord EXCEPT ![t] = 1]
        /\ op' = [op EXCEPT ![t] = "join"]
        /\ pc' = [pc EXCEPT ![t] = "scan1"]
        /\ UNCHANGED <<runningThreads, phaseCount, i, leaves>>
    BY LenProperties DEF join, LockFree, PcInv, Goto
  <1>2. /\ runList' \in Seq(Threads) /\ lastIdx' \in [Threads -> Nat] /\ curThreadIdx' \in Nat
        /\ ListInv' /\ LastIdxInv'
        /\ \E k \in curThreadIdx' + 1..Len(runList') : runList'[k] = t
    <2>1. CASE state[t] = "OFFLINE"
      <3>1. runList' = Append(runList, t) /\ UNCHANGED <<lastIdx, curThreadIdx>>
        BY <2>1 DEF join
      <3>2. /\ runList' \in Seq(Threads) /\ Len(runList') = Len(runList) + 1
            /\ \A k \in 1..Len(runList) : runList'[k] = runList[k]
            /\ runList'[Len(runList) + 1] = t
            /\ ListInv'
        <4> HIDE DEF TypeOK
        <4>1. QED
          BY <1>1, <2>1, <3>1, AppendKeepsList
      <3>4. LastIdxInv'
        BY <1>1, <3>1, <3>2 DEF LastIdxInv
      <3>5. \E k \in curThreadIdx' + 1..Len(runList') : runList'[k] = t
        BY <1>1, <3>1, <3>2 DEF ListInv
      <3>6. QED
        BY <3>1, <3>2, <3>4, <3>5
    <2>2. CASE state[t] = "LEFT"
      <3>1. Reschedule(t) /\ lastIdx[t] + 1 \in 1..Len(runList) /\ runList[lastIdx[t] + 1] = t
        BY <2>2 DEF join, LastIdxInv
      <3>2. CASE ~(curThreadIdx > lastIdx[t])
        <4>1. UNCHANGED <<runList, lastIdx, curThreadIdx>>
          BY <3>1, <3>2 DEF Reschedule
        <4>2. ListInv' /\ LastIdxInv'
          BY <1>1, <2>2, <4>1 DEF ListInv, LastIdxInv
        <4>3. QED
          BY <3>1, <3>2, <4>1, <4>2
      <3>3. CASE curThreadIdx > lastIdx[t]
        <4> DEFINE a == lastIdx[t] + 1
                   b == curThreadIdx
        <4>1. /\ runList' = [runList EXCEPT ![a] = runList[b], ![b] = t]
              /\ lastIdx' = [lastIdx EXCEPT ![runList[b]] = lastIdx[t], ![t] = b - 1]
              /\ curThreadIdx' = b - 1
          BY <3>1, <3>3 DEF Reschedule
        <4>2. a \in 1..Len(runList) /\ b \in 1..Len(runList) /\ runList[a] = t /\ runList[b] \in Threads
          BY <1>1, <3>1, <3>3, ElementOfSeq DEF ListInv
        <4>3. runList[b] = t => a = b
          BY <4>2 DEF ListInv
        <4>4. /\ lastIdx' \in [Threads -> Nat]
              /\ lastIdx'[runList[a]] = b - 1 /\ lastIdx'[runList[b]] = a - 1
              /\ \A u \in Threads : u # runList[a] /\ u # runList[b] => lastIdx'[u] = lastIdx[u]
          <5>1. b - 1 \in Nat /\ lastIdx[t] \in Nat /\ lastIdx \in [Threads -> Nat]
                /\ a - 1 = lastIdx[t]
            BY <4>2
          <5> DEFINE y == runList[b]
                     m == lastIdx[t]
                     n == b - 1
          <5>2. lastIdx' = [lastIdx EXCEPT ![y] = m, ![t] = n] /\ y \in Threads /\ (y = t => m = n)
            BY <4>1, <4>2, <4>3, <5>1
          <5> HIDE DEF a, b, y, m, n, IInv, TypeOK
          <5>3. m \in Nat /\ n \in Nat
            BY <5>1 DEF m, n
          <5>4. /\ lastIdx' \in [Threads -> Nat] /\ lastIdx'[y] = m /\ lastIdx'[t] = n
                /\ \A u \in Threads : u # y /\ u # t => lastIdx'[u] = lastIdx[u]
            BY <5>1, <5>2, <5>3, TwoUpdates
          <5>5. QED
            BY <4>2, <5>1, <5>4 DEF y, m, n
        <4>5. runList' = [runList EXCEPT ![a] = runList[b], ![b] = runList[a]]
          BY <4>1, <4>2
        <4> HIDE DEF a, b, IInv, TypeOK
        <4>8. curThreadIdx' \in Nat /\ curThreadIdx' + 1 = b /\ curThreadIdx' <= Len(runList)
          BY <1>1, <4>1, <4>2
        <4>9. /\ \A u \in Threads : u # t => state'[u] = state[u] /\ op'[u] = op[u]
              /\ state'[t] = "WAITING" /\ op'[t] = "join"
          BY <1>1 DEF IInv, TypeOK
        <4>6. TypeOK /\ ListInv /\ \A u \in Threads : state'[u] = "OFFLINE" <=> state[u] = "OFFLINE"
          BY <2>2, <4>9 DEF IInv
        <4>7. /\ runList' \in Seq(Threads) /\ Len(runList') = Len(runList) /\ runList'[b] = runList[a]
              /\ ListInv'
              /\ \A u \in Threads :
                   lastIdx[u] + 1 \in 1..Len(runList) /\ runList[lastIdx[u] + 1] = u
                     => lastIdx'[u] + 1 \in 1..Len(runList) /\ runList'[lastIdx'[u] + 1] = u
          BY <4>2, <4>4, <4>5, <4>6, <4>8, SwapKeepsList, ZenonT(40)
        <4>11. LastIdxInv'
          BY <4>7, <4>9 DEF LastIdxInv, IInv
        <4>12. QED
          BY <1>1, <4>2, <4>4, <4>7, <4>8, <4>11
      <3>4. QED
        BY <3>2, <3>3
    <2>3. QED
      BY <1>1, <2>1, <2>2
  <1>3. /\ Count(state', "RUNNING") = Count(state, "RUNNING")
        /\ state[t] = "LEFT" => Count(state', "LEFT") = Count(state, "LEFT") - 1
        /\ state[t] = "LEFT" => Count(state, "LEFT") # 0
        /\ state[t] = "OFFLINE" => Count(state', "LEFT") = Count(state, "LEFT")
        /\ Count(state, "LEFT") \in Nat
    <2>1. /\ state \in [Threads -> States] /\ state' \in [Threads -> States]
          /\ \A u \in Threads \ {t} : state'[u] = state[u]
          /\ state'[t] = "WAITING"
      BY <1>1
    <2>2. state[t] = "OFFLINE" \/ state[t] = "LEFT"
      BY <1>1
    <2> HIDE DEF IInv, TypeOK, States
    <2>3. QED
      BY <2>1, <2>2, CountChange
  <1>4. runningThreads = Count(state, "RUNNING") /\ leftThreads = Count(state, "LEFT")
    BY <1>1 DEF CountInv
  <1>5. TypeOK'
    <2>1. leftThreads' \in Nat
      BY <1>1, <1>3, <1>4
    <2>2. runList' \in Seq(Threads) /\ lastIdx' \in [Threads -> Nat] /\ curThreadIdx' \in Nat
      BY <1>2
    <2>3. /\ state' \in [Threads -> States]
          /\ futexWord' \in [Threads -> 0..1]
          /\ op' \in [Threads -> {"join", "leave", "sync"}]
          /\ pc' \in [Threads -> {"out", "run", "resume", "dead"} \cup WaitPCs \cup HolderPCs]
      BY <1>1
    <2>4. QED
      BY <1>1, <2>1, <2>2, <2>3
  <1>6. CountInv'
    BY <1>1, <1>3, <1>4 DEF CountInv
  <1>7. HolderInv' /\ PcInv' /\ LoopInv'
    BY <1>1 DEF HolderInv, PcInv, LoopInv
  <1>8. JoinInv'
    <2>1. \A u \in Threads : u # t => pc'[u] \notin HolderPCs
      BY <1>1
    <2>2. \E k \in (curThreadIdx + 1..Len(runList))' : runList'[k] = t
      BY <1>2
    <2>3. QED
      BY <2>1, <2>2 DEF JoinInv
  <1>9. WordInv' /\ WakeInv' /\ SleepInv'
    BY <1>1 DEF WordInv, WakeInv, SleepInv
  <1>10. QED
    BY <1>2, <1>5, <1>6, <1>7, <1>8, <1>9

\* One iteration of the cleanup pass removes the entry i + 1, which is LEFT.
LEMMA CleanRemoves ==
  ASSUME TypeOK, ListInv, LastIdxInv, LoopInv, NEW t \in Threads, pc[t] = "clean", UNCHANGED op,
         i < Len(runList), state[runList[i + 1]] = "LEFT",
         state' = [state EXCEPT ![runList[i + 1]] = "OFFLINE"],
         runList' = [k \in 1..Len(runList) - 1 |->
                       IF k = i + 1 THEN runList[Len(runList)] ELSE runList[k]],
         lastIdx' = [lastIdx EXCEPT ![runList[Len(runList)]] = i],
         UNCHANGED <<curThreadIdx, i>>
  PROVE  /\ runList' \in Seq(Threads) /\ Len(runList') = Len(runList) - 1
         /\ lastIdx' \in [Threads -> Nat]
         /\ ListInv' /\ LastIdxInv'
         /\ i' <= Len(runList') /\ \A k \in 1..i' : state'[runList'[k]] # "LEFT"
  <1> DEFINE n == Len(runList)
             gone == runList[i + 1]
             stid == runList[n]
  <1>1. n \in Nat /\ n # 0 /\ i \in Nat /\ i + 1 \in 1..n /\ n \in 1..n /\ n - 1 \in Nat
    BY LenProperties DEF TypeOK
  <1>2. \A k \in 1..n : runList[k] \in Threads
    BY ElementOfSeq DEF TypeOK
  <1>3. \A k \in 1..n - 1 : (IF k = i + 1 THEN stid ELSE runList[k]) \in Threads
    BY <1>1, <1>2, SMTT(30)
  <1>4. runList' \in Seq(Threads) /\ Len(runList') = n - 1
    BY <1>1, <1>3, IsASeq, LenProperties
  <1>5. \A k \in 1..n - 1 : runList'[k] = IF k = i + 1 THEN stid ELSE runList[k]
    OBVIOUS
  <1>6. \A u \in Threads : IF u = gone THEN state'[u] = "OFFLINE" ELSE state'[u] = state[u]
    BY <1>1, <1>2 DEF TypeOK
  <1>7. \A u \in Threads : IF u = stid THEN lastIdx'[u] = i ELSE lastIdx'[u] = lastIdx[u]
    BY <1>1, <1>2 DEF TypeOK
  <1>8. lastIdx' \in [Threads -> Nat]
    BY <1>1, <1>2 DEF TypeOK
  <1>9. \A j, k \in 1..n : runList[j] = runList[k] => j = k
    BY DEF ListInv
  <1>10. ListInv'
    <2>1. ASSUME NEW k \in 1..n - 1 PROVE state'[runList'[k]] # "OFFLINE"
      <3>1. CASE k = i + 1
        <4>1. n # i + 1 /\ stid # gone
          BY <3>1, <1>1, <1>9
        <4>2. runList'[k] = stid /\ state[stid] # "OFFLINE" /\ stid \in Threads
          BY <3>1, <1>1, <1>2, <1>5 DEF ListInv
        <4>3. QED
          BY <4>1, <4>2, <1>6
      <3>2. CASE k # i + 1
        <4>1. k \in 1..n /\ runList[k] # gone
          BY <3>2, <1>1, <1>9
        <4>2. runList'[k] = runList[k] /\ state[runList[k]] # "OFFLINE" /\ runList[k] \in Threads
          BY <3>2, <4>1, <1>2, <1>5 DEF ListInv
        <4>3. QED
          BY <4>1, <4>2, <1>6
      <3>3. QED
        BY <3>1, <3>2
    <2>2. ASSUME NEW u \in Threads, state'[u] # "OFFLINE"
          PROVE  \E k \in 1..n - 1 : runList'[k] = u
      <3>1. u # gone /\ state[u] # "OFFLINE"
        BY <2>2, <1>6
      <3>2. PICK k \in 1..n : runList[k] = u
        BY <3>1 DEF ListInv
      <3>3. CASE k = n
        <4>1. i + 1 # n /\ i + 1 \in 1..n - 1
          BY <3>1, <3>2, <3>3, <1>1
        <4>2. runList'[i + 1] = u
          BY <3>2, <3>3, <4>1, <1>5
        <4>3. QED
          BY <4>1, <4>2
      <3>4. CASE k # n
        <4>1. k \in 1..n - 1 /\ k # i + 1
          BY <3>1, <3>2, <3>4, <1>1
        <4>2. runList'[k] = u
          BY <3>2, <4>1, <1>5
        <4>3. QED
          BY <4>1, <4>2
      <3>5. QED
        BY <3>3, <3>4
    <2>3. ASSUME NEW j \in 1..n - 1, NEW k \in 1..n - 1, runList'[j] = runList'[k]
          PROVE  j = k
      <3>1. j \in 1..n /\ k \in 1..n /\ j # n /\ k # n
        BY <1>1
      <3>2. QED
        BY <2>3, <3>1, <1>1, <1>5, <1>9
    <2>4. curThreadIdx' <= Len(runList')
      BY <1>1, <1>4 DEF LoopInv
    <2>5. QED
      BY <1>4, <2>1, <2>2, <2>3, <2>4, ZenonT(40) DEF ListInv
  <1>11. LastIdxInv'
    <2> SUFFICES ASSUME NEW u \in Threads,
                        state'[u] \in {"RUNNING", "LEFT"} \/ (state'[u] = "WAITING" /\ op'[u] = "sync")
                 PROVE  lastIdx'[u] + 1 \in 1..Len(runList') /\ runList'[lastIdx'[u] + 1] = u
      BY DEF LastIdxInv
    <2>1. u # gone /\ state'[u] = state[u]
      BY <1>6
    <2>2. lastIdx[u] + 1 \in 1..n /\ runList[lastIdx[u] + 1] = u /\ lastIdx[u] \in Nat
      BY <2>1 DEF LastIdxInv, TypeOK
    <2>3. CASE u = stid
      <3>1. i + 1 # n /\ i + 1 \in 1..n - 1
        BY <2>1, <2>3, <1>1
      <3>2. QED
        BY <2>3, <3>1, <1>4, <1>5, <1>7
    <2>4. CASE u # stid
      <3>1. lastIdx[u] + 1 \in 1..n - 1 /\ lastIdx[u] + 1 # i + 1
        BY <2>1, <2>2, <2>4, <1>1
      <3>2. QED
        BY <2>2, <2>4, <3>1, <1>4, <1>5, <1>7
    <2>5. QED
      BY <2>3, <2>4
  <1>12. i' <= Len(runList')
    BY <1>1, <1>4
  <1>13. ASSUME NEW k \in 1..i' PROVE state'[runList'[k]] # "LEFT"
    <2>1. k \in 1..n - 1 /\ k # i + 1 /\ k \in 1..i /\ k \in 1..n
      BY <1>1
    <2>2. runList'[k] = runList[k] /\ state[runList[k]] # "LEFT" /\ runList[k] \in Threads
      BY <2>1, <1>2, <1>5 DEF LoopInv
    <2>3. QED
      BY <2>2, <1>6
  <1>14. QED
    BY <1>4, <1>8, <1>10, <1>11, <1>12, <1>13

\* One iteration of the cleanup pass, or its end.
LEMMA CleanStep ==
  ASSUME IInv, NEW t \in Threads, Clean(t)
  PROVE  IInv'
  <1> USE DEF IInv, TypeOK, States, HolderPCs, WaitPCs, WakingPCs, CasPCs
  <1>1. /\ pc[t] = "clean" /\ curThreadIdx = 0 /\ i <= Len(runList) /\ Len(runList) \in Nat
        /\ UNCHANGED <<futexWord, curThreadIdx, runningThreads, phaseCount, op, leaves>>
    BY LenProperties DEF Clean, LoopInv
  <1>2. \A u \in Threads : u # t => pc[u] \notin HolderPCs
    BY <1>1 DEF HolderInv
  <1>3. \A u \in Threads : pc[u] \notin WakingPCs
    BY <1>1, <1>2
  <1>4. runningThreads = Count(state, "RUNNING") /\ runningThreads <= Parallel
    BY <1>3 DEF CountInv
  <1>5. CASE i < Len(runList) /\ state[runList[i + 1]] = "LEFT"
    <2> DEFINE gone == runList[i + 1]
    <2>1. /\ state' = [state EXCEPT ![gone] = "OFFLINE"]
          /\ runList' = [k \in 1..Len(runList) - 1 |->
                            IF k = i + 1 THEN runList[Len(runList)] ELSE runList[k]]
          /\ lastIdx' = [lastIdx EXCEPT ![runList[Len(runList)]] = i]
          /\ UNCHANGED <<i, leftThreads, pc>>
      BY <1>5 DEF Clean, runListSize
    <2>2. /\ runList' \in Seq(Threads) /\ Len(runList') = Len(runList) - 1
          /\ lastIdx' \in [Threads -> Nat]
          /\ ListInv' /\ LastIdxInv'
          /\ i' <= Len(runList') /\ \A k \in 1..i' : state'[runList'[k]] # "LEFT"
      <3> HIDE DEF TypeOK
      <3>1. QED
        BY <1>1, <1>5, <2>1, CleanRemoves
    <2>3. gone \in Threads /\ state[gone] = "LEFT"
      BY <1>1, <1>5, ElementOfSeq
    <2>4. /\ state' \in [Threads -> States] /\ state'[gone] = "OFFLINE"
          /\ \A u \in Threads : u # gone => state'[u] = state[u]
      BY <2>1, <2>3
    <2>5. TypeOK'
      BY <1>1, <2>1, <2>2, <2>4
    <2>6. HolderInv'
      BY <2>1 DEF HolderInv
    <2>7. LoopInv'
      BY <1>1, <1>2, <2>1, <2>2 DEF LoopInv
    <2>8. PcInv'
      BY <1>1, <2>1, <2>3, <2>4 DEF PcInv
    <2>9. WordInv' /\ WakeInv'
      BY <1>1, <1>3, <2>1, <2>3, <2>4 DEF WordInv, WakeInv
    <2>10. SleepInv' /\ JoinInv'
      BY <1>1, <1>2, <1>3, <2>1, <2>3, <2>4 DEF SleepInv, JoinInv
    <2>11. CountInv'
      <3>1. Count(state', "RUNNING") = Count(state, "RUNNING")
        <4>1. state \in [Threads -> States] /\ \A u \in Threads \ {gone} : state'[u] = state[u]
          BY <2>4
        <4> HIDE DEF IInv, TypeOK, States, gone
        <4>2. QED
          BY <2>3, <2>4, <4>1, CountChange
      <3>2. QED
        BY <1>1, <1>3, <1>4, <2>1, <3>1 DEF CountInv
    <2>12. QED
      BY <2>2, <2>5, <2>6, <2>7, <2>8, <2>9, <2>10, <2>11
  <1>6. CASE i < Len(runList) /\ state[runList[i + 1]] # "LEFT"
    <2>1. i' = i + 1 /\ UNCHANGED <<state, runList, lastIdx, leftThreads, pc>>
      BY <1>6 DEF Clean, runListSize
    <2>2. LoopInv'
      <3>1. \A k \in 1..i + 1 : k = i + 1 \/ k \in 1..i
        OBVIOUS
      <3>2. \A k \in 1..i' : state[runList[k]] # "LEFT"
        BY <1>1, <1>6, <2>1, <3>1 DEF LoopInv
      <3>3. QED
        BY <1>1, <1>2, <1>6, <2>1, <3>2 DEF LoopInv
    <2>3. TypeOK' /\ HolderInv' /\ ListInv' /\ LastIdxInv' /\ PcInv' /\ JoinInv'
      BY <1>1, <2>1 DEF HolderInv, ListInv, LastIdxInv, PcInv, JoinInv
    <2>4. WordInv' /\ WakeInv' /\ SleepInv'
      BY <1>1, <1>3, <2>1 DEF WordInv, WakeInv, SleepInv
    <2>5. CountInv'
      BY <1>1, <2>1 DEF CountInv
    <2>6. QED
      BY <2>2, <2>3, <2>4, <2>5
  <1>7. CASE i = Len(runList)
    <2>1. PICK l \in {"shuffle", "scan2"} :
          /\ pc' = [pc EXCEPT ![t] = l]
          /\ l = "shuffle" => i' = Len(runList) - 1 /\ Parallel < Len(runList)
          /\ i' \in Nat
          /\ leftThreads' = 0
          /\ UNCHANGED <<state, runList, lastIdx>>
      BY <1>1, <1>7, ParallelAssumption DEF Clean, ToShuffle, Goto, runListSize
    <2>2. Count(state, "LEFT") = 0
      <3>1. ASSUME NEW u \in Threads PROVE state[u] # "LEFT"
        <4>1. state[u] # "OFFLINE" => \E k \in 1..Len(runList) : runList[k] = u
          BY DEF ListInv
        <4>2. \A k \in 1..Len(runList) : state[runList[k]] # "LEFT"
          BY <1>1, <1>7 DEF LoopInv
        <4>3. QED
          BY <4>1, <4>2
      <3>2. state \in [Threads -> States]
        OBVIOUS
      <3> HIDE DEF IInv, TypeOK, States
      <3>3. QED
        BY <3>1, <3>2, CountFacts
    <2>3. \A u \in Threads : pc'[u] \notin {"clean", "scan1", "cas1", "wake1", "end", "cas2", "wake2"}
      BY <1>1, <1>2, <2>1
    <2>4. TypeOK' /\ HolderInv' /\ PcInv'
      BY <1>1, <1>2, <2>1 DEF HolderInv, PcInv
    <2>5. ListInv' /\ LastIdxInv'
      BY <1>1, <2>1 DEF ListInv, LastIdxInv
    <2>6. LoopInv'
      BY <1>1, <1>2, <2>1, <2>3, ParallelAssumption DEF LoopInv
    <2>7. CountInv'
      BY <1>1, <1>4, <2>1, <2>2, <2>3 DEF CountInv
    <2>8. \A u \in Threads : pc'[u] = "sleep" => pc[u] = "sleep"
      BY <2>1
    <2>9. WordInv' /\ WakeInv' /\ SleepInv' /\ JoinInv'
      BY <1>1, <1>3, <2>1, <2>3, <2>8 DEF WordInv, WakeInv, SleepInv, JoinInv
    <2>10. QED
      BY <2>4, <2>5, <2>6, <2>7, <2>9
  <1>8. i < Len(runList) \/ i = Len(runList)
    BY <1>1
  <1>9. QED
    BY <1>5, <1>6, <1>7, <1>8

-----------------------------------------------------------------------------
\* Every step of the barrier preserves IInv.
LEMMA NextIInv == ~KillJoiners /\ IInv /\ [Next]_vars => IInv'
  <1> SUFFICES ASSUME ~KillJoiners, IInv, [Next]_vars PROVE IInv'
    OBVIOUS
  <1>1. CASE UNCHANGED vars
    <2> USE <1>1 DEF vars, data, wtid
    <2>1. TypeOK' /\ HolderInv' /\ ListInv' /\ LastIdxInv' /\ PcInv'
      BY DEF IInv, TypeOK, HolderInv, ListInv, LastIdxInv, PcInv
    <2>2. WordInv' /\ WakeInv' /\ SleepInv' /\ LoopInv' /\ JoinInv' /\ CountInv'
      BY DEF IInv, WordInv, WakeInv, SleepInv, LoopInv, JoinInv, CountInv
    <2>3. QED
      BY <2>1, <2>2 DEF IInv
  <1>2. CASE Next
    BY <1>2, JoinStep, LeaveStep, SyncStep, ScanStep, CasStep, WakeStep, EndPhaseStep, CleanStep,
       ShuffleStep, UnlockedStep DEF Next, HolderStep
  <1>3. QED
    BY <1>1, <1>2

\* The inductive invariant holds in every reachable state.
THEOREM Invariance == ASSUME ~KillJoiners PROVE Spec => []IInv
  <1>1. ~KillJoiners
    OBVIOUS
  <1>2. IInv /\ [Next]_vars => IInv'
    BY <1>1, NextIInv
  <1>3. QED
    BY <1>2, InitIInv, PTL DEF Spec

\* Type correctness: no counter and no index of barrier.h goes below zero.
THEOREM BarrierTypeOK == ASSUME ~KillJoiners PROVE Spec => []TypeOK
  <1>1. IInv => TypeOK
    BY DEF IInv
  <1>2. QED
    BY <1>1, Invariance, PTL

\* The run list holds each thread that takes part exactly once.
THEOREM BarrierRunList == ASSUME ~KillJoiners PROVE Spec => []RunListInv
  <1>1. ASSUME IInv PROVE RunListInv
    <2>1. \A k \in 1..Len(runList) : runList[k] \in Threads
      BY <1>1, ElementOfSeq DEF IInv, TypeOK
    <2>2. Entries = In({"WAITING", "RUNNING", "LEFT"})
      BY <1>1, <2>1, SMTT(30) DEF IInv, TypeOK, States, ListInv, Entries, In, runListSize
    <2>3. QED
      BY <1>1, <2>2 DEF IInv, ListInv, RunListInv, runListSize
  <1>2. QED
    BY <1>1, Invariance, PTL

\* The counters of the barrier agree with the states of its threads.
THEOREM BarrierCounters == ASSUME ~KillJoiners PROVE Spec => []CounterInv
  <1>1. ASSUME IInv PROVE CounterInv
    <2>1. /\ Cardinality(In({"RUNNING"})) = Count(state, "RUNNING")
          /\ Cardinality(In({"LEFT"})) = Count(state, "LEFT")
      <3>1. In({"RUNNING"}) = {t \in Threads : state[t] = "RUNNING"}
        BY DEF In
      <3>2. In({"LEFT"}) = {t \in Threads : state[t] = "LEFT"}
        BY DEF In
      <3>3. QED
        BY <3>1, <3>2 DEF Count
    <2>2. Cardinality(In({"RUNNING"})) = runningThreads + (IF Waking THEN 1 ELSE 0)
      BY <1>1, <2>1 DEF IInv, TypeOK, CountInv, Waking, WakingPCs
    <2>3. leftThreads = Cardinality(In({"LEFT"})) \/ \E t \in Threads : pc[t] = "clean"
      BY <1>1, <2>1 DEF IInv, CountInv
    <2>4. ASSUME NEW t \in Threads, pc[t] = "clean", i = runListSize PROVE In({"LEFT"}) = {}
      BY <1>1, <2>4 DEF IInv, LoopInv, ListInv, In, runListSize
    <2>5. QED
      BY <2>2, <2>3, <2>4 DEF CounterInv
  <1>2. QED
    BY <1>1, Invariance, PTL

\* No more than parallelThreads threads run at a time.
THEOREM BarrierParallelBound == ASSUME ~KillJoiners PROVE Spec => []ParallelBound
  <1>1. ASSUME IInv PROVE ParallelBound
    <2>1. In({"RUNNING"}) = {t \in Threads : state[t] = "RUNNING"}
      BY DEF In
    <2>2. Cardinality(In({"RUNNING"})) = Count(state, "RUNNING")
      BY <2>1 DEF Count
    <2>3. CASE \E t \in Threads : pc[t] \in WakingPCs
      BY <1>1, <2>2, <2>3, ParallelAssumption DEF IInv, TypeOK, CountInv, WakeInv, ParallelBound
    <2>4. CASE \A t \in Threads : pc[t] \notin WakingPCs
      BY <1>1, <2>2, <2>4 DEF IInv, CountInv, ParallelBound
    <2>5. QED
      BY <2>3, <2>4
  <1>2. QED
    BY <1>1, Invariance, PTL

\* "You can't cause a phase to end here": join ends no phase.
LEMMA JoinLemma == ASSUME IInv PROVE JoinEndsNoPhase
  <1> SUFFICES ASSUME NEW t \in Threads, pc[t] = "end", op[t] = "join", PhaseOver PROVE FALSE
    BY DEF JoinEndsNoPhase
  <1>1. state[t] = "RUNNING"
    BY LenProperties DEF IInv, TypeOK, JoinInv, PhaseOver, runListSize
  <1>2. \A u \in Threads : pc[u] \notin WakingPCs
    BY DEF IInv, HolderInv, HolderPCs, WakingPCs
  <1>3. Count(state, "RUNNING") = 0
    BY <1>2 DEF IInv, CountInv, PhaseOver
  <1>4. state \in [Threads -> States]
    BY DEF IInv, TypeOK
  <1>5. QED
    BY <1>1, <1>3, <1>4, CountFacts

\* The panic("Wakeup race in barrier?") is unreachable, and so are the
\* assertions of RUNNING after the waits and of lastIdx in join; join ends no phase.
THEOREM BarrierAssertions == ASSUME ~KillJoiners PROVE Spec => []AssertionsHold
  <1>1. ASSUME IInv PROVE AssertionsHold
    <2>1. NoWakeupRace
      BY <1>1 DEF IInv, WakeInv, CasPCs, NoWakeupRace
    <2>2. ResumeRunning
      BY <1>1 DEF IInv, PcInv, ResumeRunning
    <2>3. RescheduleAssert
      BY <1>1 DEF IInv, LastIdxInv, RescheduleAssert
    <2>4. JoinEndsNoPhase
      BY <1>1, JoinLemma
    <2>5. QED
      BY <2>1, <2>2, <2>3, <2>4 DEF AssertionsHold
  <1>2. QED
    BY <1>1, Invariance, PTL

\* A thread that has been given its turn does not sleep on.
THEOREM BarrierNoLostWakeup == ASSUME ~KillJoiners PROVE Spec => []NoLostWakeup
  <1>1. IInv => NoLostWakeup
    BY DEF IInv, SleepInv, WakingPCs, Waking, NoLostWakeup
  <1>2. QED
    BY <1>1, Invariance, PTL

-----------------------------------------------------------------------------
(* The refinement: the barrier of barrier.h implements AbstractBarrier.  No *)
(* phase ends before every member has run in it, although entries of the    *)
(* run list are swapped, removed and shuffled.                              *)

\* The entry of t has been visited in this phase.
Visited(t) == \E k \in 1..curThreadIdx : runList[k] = t

\* A thread that runs has been visited, and the list is shuffled before the
\* first visit of a phase.
VisitInv ==
    /\ \A t \in Threads : state[t] = "RUNNING" => Visited(t)
    /\ \A t \in Threads : pc[t] = "shuffle" => curThreadIdx = 0

\* What a step of the barrier does to the members and to those that arrived.
AbstractStep == VisitInv' /\ (Abstract!Next \/ UNCHANGED <<members, arrived>>)

-----------------------------------------------------------------------------
(* The refinement mapping *)

\* Who is a member, and who has arrived.
LEMMA MappingFacts ==
  ASSUME NEW t \in Threads
  PROVE  /\ t \in members <=> state[t] \in {"WAITING", "RUNNING"}
         /\ t \in arrived <=> state[t] = "WAITING" /\ Visited(t)
  BY DEF members, arrived, In, Visited

\* An entry is visited or it is not: it has one place in the list.
LEMMA VisitedPlace ==
  ASSUME TypeOK, ListInv, NEW k \in 1..Len(runList)
  PROVE  /\ runList[k] \in Threads
         /\ Visited(runList[k]) <=> k <= curThreadIdx
  <1>1. Len(runList) \in Nat /\ curThreadIdx \in Nat /\ curThreadIdx <= Len(runList)
    BY LenProperties DEF TypeOK, ListInv
  <1>2. \A j \in 1..curThreadIdx : j \in 1..Len(runList)
    BY <1>1
  <1>3. \A j \in 1..curThreadIdx : runList[j] = runList[k] => j = k
    BY <1>2 DEF ListInv
  <1>4. QED
    BY <1>1, <1>3, ElementOfSeq DEF TypeOK, Visited

\* Both views change together with the states and the visits.
LEMMA MappingSame ==
  ASSUME \A t \in Threads : state'[t] = state[t] /\ (Visited(t)' <=> Visited(t))
  PROVE  UNCHANGED <<members, arrived>>
  BY DEF members, arrived, In, Visited

LEMMA MappingUnchanged ==
  ASSUME VisitInv, UNCHANGED <<state, runList, curThreadIdx>>,
         \A t \in Threads : pc'[t] = "shuffle" => pc[t] = "shuffle" \/ curThreadIdx = 0
  PROVE  AbstractStep
  <1>1. \A t \in Threads : state'[t] = state[t] /\ (Visited(t)' <=> Visited(t))
    BY DEF Visited
  <1>2. VisitInv'
    BY <1>1 DEF VisitInv
  <1>3. QED
    BY <1>1, <1>2, MappingSame DEF AbstractStep

-----------------------------------------------------------------------------
(* The actions *)

\* join is Join: the thread has its turn in this phase ahead of it.
LEMMA JoinImplements ==
  ASSUME IInv, VisitInv, NEW t \in Threads, join(t)
  PROVE  AbstractStep
  <1> DEFINE n == Len(runList)
  <1>1. /\ TypeOK /\ ListInv /\ LastIdxInv
        /\ n \in Nat /\ curThreadIdx \in Nat /\ curThreadIdx <= n /\ state \in [Threads -> States]
    BY LenProperties DEF IInv, TypeOK, ListInv
  <1>2. /\ state' = [state EXCEPT ![t] = "WAITING"]
        /\ pc' = [pc EXCEPT ![t] = "scan1"]
        /\ state[t] \in {"OFFLINE", "LEFT"}
        /\ LockFree
    BY DEF IInv, PcInv, join, Goto
  <1>3. /\ state'[t] = "WAITING"
        /\ \A u \in Threads \ {t} : state'[u] = state[u]
    BY <1>1, <1>2
  <1>4. /\ \A u \in Threads \ {t} : state[u] # "OFFLINE" => (Visited(u)' <=> Visited(u))
        /\ ~Visited(t)'
    <2>1. CASE state[t] = "OFFLINE"
      <3>1. runList' = Append(runList, t) /\ UNCHANGED curThreadIdx
        BY <2>1 DEF join
      <3>2. \A k \in 1..n : runList'[k] = runList[k]
        BY <1>1, <3>1 DEF TypeOK
      <3>3. \A k \in 1..curThreadIdx : k \in 1..n
        BY <1>1
      <3>4. \A k \in 1..curThreadIdx : runList'[k] = runList[k] /\ runList[k] # t
        BY <1>1, <2>1, <3>2, <3>3 DEF ListInv
      <3>5. QED
        BY <3>1, <3>4 DEF Visited
    <2>2. CASE state[t] = "LEFT" /\ curThreadIdx > lastIdx[t]
      <3> DEFINE other == runList[curThreadIdx]
                 m == lastIdx[t] + 1
      <3>1. /\ runList' = [runList EXCEPT ![m] = other, ![curThreadIdx] = t]
            /\ curThreadIdx' = curThreadIdx - 1
        BY <2>2 DEF join, Reschedule
      <3>2. m \in 1..n /\ runList[m] = t /\ lastIdx[t] \in Nat /\ m <= curThreadIdx
        BY <1>1, <2>2 DEF LastIdxInv, TypeOK
      <3>3. curThreadIdx \in 1..n /\ DOMAIN runList = 1..n
        BY <1>1, <3>2 DEF TypeOK
      <3>4. \A k \in 1..n : runList'[k] = IF k = curThreadIdx THEN t
                                          ELSE IF k = m THEN other ELSE runList[k]
        BY <3>1, <3>2, <3>3
      <3>5. \A j, k \in 1..n : runList[j] = runList[k] => j = k
        BY <1>1 DEF ListInv
      <3>6. ~Visited(t)'
        <4>1. \A k \in 1..curThreadIdx - 1 : k \in 1..n /\ k # curThreadIdx
          BY <3>3, <1>1
        <4>2. \A k \in 1..curThreadIdx - 1 : runList'[k] # t
          BY <4>1, <3>2, <3>3, <3>4, <3>5
        <4>3. QED
          BY <4>2, <3>1 DEF Visited
      <3>7. ASSUME NEW u \in Threads \ {t} PROVE Visited(u)' <=> Visited(u)
        <4>1. ASSUME NEW k \in 1..curThreadIdx, runList[k] = u
              PROVE  \E j \in 1..curThreadIdx - 1 : runList'[j] = u
          <5>1. CASE k = curThreadIdx
            <6>1. m # curThreadIdx /\ m \in 1..curThreadIdx - 1
              BY <5>1, <4>1, <3>2, <1>1
            <6>2. runList'[m] = u
              BY <6>1, <5>1, <4>1, <3>2, <3>4
            <6>3. QED
              BY <6>1, <6>2
          <5>2. CASE k # curThreadIdx
            <6>1. k \in 1..curThreadIdx - 1 /\ k \in 1..n /\ k # m
              BY <5>2, <4>1, <3>2, <1>1
            <6>2. runList'[k] = u
              BY <6>1, <5>2, <4>1, <3>4
            <6>3. QED
              BY <6>1, <6>2
          <5>3. QED
            BY <5>1, <5>2
        <4>2. ASSUME NEW k \in 1..curThreadIdx - 1, runList'[k] = u
              PROVE  \E j \in 1..curThreadIdx : runList[j] = u
          <5>1. k \in 1..n /\ k \in 1..curThreadIdx /\ k # curThreadIdx /\ curThreadIdx \in 1..curThreadIdx
            BY <3>3, <1>1
          <5>2. QED
            BY <5>1, <4>2, <3>4
        <4>3. QED
          BY <4>1, <4>2, <3>1 DEF Visited
      <3>8. QED
        BY <3>6, <3>7
    <2>3. CASE state[t] = "LEFT" /\ ~(curThreadIdx > lastIdx[t])
      <3>1. UNCHANGED <<runList, curThreadIdx>>
        BY <2>3 DEF join, Reschedule
      <3>2. lastIdx[t] + 1 \in 1..n /\ runList[lastIdx[t] + 1] = t /\ lastIdx[t] \in Nat
        BY <1>1, <2>3 DEF LastIdxInv, TypeOK
      <3>3. ~Visited(t)
        BY <1>1, <2>3, <3>2, VisitedPlace
      <3>4. QED
        BY <3>1, <3>3 DEF Visited
    <2>4. QED
      BY <1>2, <2>1, <2>2, <2>3
  <1>5. \A u \in Threads : u \in members' <=> u = t \/ u \in members
    BY <1>3, MappingFacts DEF members, In
  <1>6. \A u \in Threads : u \in arrived' <=> u \in arrived
    BY <1>2, <1>3, <1>4 DEF arrived, In, Visited
  <1>7. t \notin members /\ members' = members \cup {t} /\ arrived' = arrived
    <2>1. members \subseteq Threads /\ members' \subseteq Threads /\ arrived \subseteq Threads /\ arrived' \subseteq Threads
      BY DEF members, arrived, In
    <2>2. QED
      BY <2>1, <1>2, <1>5, <1>6, MappingFacts
  <1>8. VisitInv'
    <2>1. \A u \in Threads : state'[u] = "RUNNING" => Visited(u)'
      BY <1>3, <1>4 DEF VisitInv
    <2>2. \A u \in Threads : pc'[u] # "shuffle"
      BY <1>2 DEF LockFree, HolderPCs, IInv, TypeOK
    <2>3. QED
      BY <2>1, <2>2 DEF VisitInv
  <1>9. QED
    BY <1>7, <1>8 DEF AbstractStep, Abstract!Next, Abstract!Join

\* leave is Leave, of a thread that ran or of a dead one.
LEMMA LeaveImplements ==
  ASSUME IInv, VisitInv, NEW t \in Threads, leave(t)
  PROVE  AbstractStep
  <1>1. /\ state' = [state EXCEPT ![t] = "LEFT"] /\ state \in [Threads -> States]
        /\ state[t] \in {"RUNNING", "WAITING"}
        /\ UNCHANGED <<runList, curThreadIdx>>
        /\ \A u \in Threads : pc'[u] # "shuffle"
    BY DEF IInv, TypeOK, PcInv, leave, Goto, LockFree, HolderPCs
  <1>2. \A u \in Threads : Visited(u)' <=> Visited(u)
    BY <1>1 DEF Visited
  <1>3. t \in members /\ members' = members \ {t} /\ arrived' = arrived \ {t}
    BY <1>1, <1>2 DEF members, arrived, In, Visited
  <1>4. VisitInv'
    BY <1>1, <1>2 DEF VisitInv
  <1>5. QED
    BY <1>3, <1>4 DEF AbstractStep, Abstract!Next, Abstract!Leave

\* sync is Arrive: the thread that calls it has been visited.
LEMMA SyncImplements ==
  ASSUME IInv, VisitInv, NEW t \in Threads, sync(t)
  PROVE  AbstractStep
  <1>1. /\ state' = [state EXCEPT ![t] = "WAITING"] /\ state \in [Threads -> States]
        /\ state[t] = "RUNNING"
        /\ UNCHANGED <<runList, curThreadIdx>>
        /\ \A u \in Threads : pc'[u] # "shuffle"
    BY DEF IInv, TypeOK, PcInv, sync, Goto, LockFree, HolderPCs
  <1>2. \A u \in Threads : Visited(u)' <=> Visited(u)
    BY <1>1 DEF Visited
  <1>3. Visited(t) /\ t \in members \ arrived
    BY <1>1 DEF VisitInv, members, arrived, In
  <1>4. members' = members /\ arrived' = arrived \cup {t}
    BY <1>1, <1>2, <1>3 DEF members, arrived, In, Visited
  <1>5. VisitInv'
    BY <1>1, <1>2 DEF VisitInv
  <1>6. QED
    BY <1>3, <1>4, <1>5 DEF AbstractStep, Abstract!Next, Abstract!Arrive

\* A step of the scan visits one entry, whose thread had not arrived.
LEMMA ScanImplements ==
  ASSUME IInv, VisitInv, NEW t \in Threads, Scan(t)
  PROVE  AbstractStep
  <1> DEFINE nxt == runList[curThreadIdx + 1]
  <1>1. /\ TypeOK /\ ListInv /\ pc[t] \in {"scan1", "scan2"} /\ UNCHANGED runList
        /\ Len(runList) \in Nat /\ curThreadIdx \in Nat /\ state \in [Threads -> States]
    BY LenProperties DEF IInv, TypeOK, Scan
  <1>2. /\ \A u \in Threads : pc[u] # "shuffle"
        /\ \A u \in Threads : pc'[u] # "shuffle"
    BY <1>1 DEF IInv, HolderInv, HolderPCs, TypeOK, Scan, Goto, Unlock
  <1>3. CASE ~CanWake
    BY <1>2, <1>3, MappingUnchanged DEF Scan
  <1>4. CASE CanWake
    <2>1. curThreadIdx + 1 \in 1..Len(runList) /\ curThreadIdx' = curThreadIdx + 1
      BY <1>1, <1>4 DEF CanWake, runListSize, Scan
    <2>2. nxt \in Threads /\ ~Visited(nxt)
      BY <1>1, <2>1, VisitedPlace
    <2>3. \A u \in Threads : Visited(u)' <=> Visited(u) \/ u = nxt
      <3>1. \A k : k \in 1..curThreadIdx + 1 <=> k \in 1..curThreadIdx \/ k = curThreadIdx + 1
        BY <1>1
      <3>2. QED
        BY <1>1, <2>1, <3>1 DEF Visited
    <2>4. \/ state[nxt] = "WAITING" /\ state' = [state EXCEPT ![nxt] = "RUNNING"]
          \/ state[nxt] # "WAITING" /\ UNCHANGED state
      BY <1>4 DEF Scan
    <2>5. UNCHANGED <<members, arrived>>
      BY <1>1, <2>2, <2>3, <2>4 DEF members, arrived, In, Visited
    <2>6. VisitInv'
      BY <1>1, <1>2, <2>2, <2>3, <2>4 DEF VisitInv
    <2>7. QED
      BY <2>5, <2>6 DEF AbstractStep
  <1>5. QED
    BY <1>3, <1>4

\* The end of a phase is NewPhase: everybody has been visited and nobody runs.
LEMMA EndPhaseImplements ==
  ASSUME IInv, VisitInv, NEW t \in Threads, EndPhase(t)
  PROVE  AbstractStep
  <1>1. /\ TypeOK /\ ListInv /\ pc[t] = "end" /\ UNCHANGED <<state, runList>>
        /\ Len(runList) \in Nat /\ curThreadIdx \in Nat /\ state \in [Threads -> States]
    BY LenProperties DEF IInv, TypeOK, EndPhase
  <1>2. \A u \in Threads : u # t => pc[u] \notin HolderPCs
    BY <1>1 DEF IInv, HolderInv, HolderPCs
  <1>3. CASE ~PhaseOver
    <2>1. pc' = [pc EXCEPT ![t] = "scan2"] /\ UNCHANGED curThreadIdx
      BY <1>3 DEF EndPhase, Goto
    <2>2. QED
      BY <1>1, <2>1, MappingUnchanged DEF TypeOK
  <1>4. CASE PhaseOver
    <2>1. curThreadIdx' = 0 /\ curThreadIdx = Len(runList)
      BY <1>4 DEF EndPhase, PhaseOver, runListSize
    <2>2. \A u \in Threads : state[u] # "RUNNING"
      <3>1. \A u \in Threads : pc[u] \notin WakingPCs
        BY <1>1, <1>2 DEF HolderPCs, WakingPCs
      <3>2. Count(state, "RUNNING") = 0
        BY <1>4, <3>1 DEF IInv, CountInv, PhaseOver
      <3>3. QED
        BY <1>1, <3>2, CountFacts
    <2>3. \A u \in Threads : state[u] # "OFFLINE" => Visited(u)
      BY <1>1, <2>1 DEF ListInv, Visited
    <2>4. arrived = members
      BY <2>2, <2>3 DEF members, arrived, In, Visited
    <2>5. \A u \in Threads : ~Visited(u)'
      BY <2>1 DEF Visited
    <2>6. arrived' = {} /\ members' = members
      BY <1>1, <2>5 DEF members, arrived, In, Visited
    <2>7. members # {}
      <3> SUFFICES ASSUME members = {} PROVE FALSE
        OBVIOUS
      <3> DEFINE L == {u \in Threads : state[u] = "LEFT"}
      <3>1. \A u \in Threads : state[u] \in {"OFFLINE", "LEFT"}
        BY <1>1 DEF members, In, States
      <3>2. \A k \in 1..Len(runList) : runList[k] \in Threads
        BY <1>1, ElementOfSeq DEF TypeOK
      <3>3. \A k \in 1..Len(runList) : runList[k] \in L
        BY <1>1, <3>1, <3>2 DEF ListInv
      <3>4. \A u \in L : \E k \in 1..Len(runList) : runList[k] = u
        BY <1>1 DEF ListInv
      <3>5. runList \in Bijection(1..Len(runList), L)
        <4>1. runList \in [1..Len(runList) -> L]
          BY <1>1, <3>3, LenProperties DEF TypeOK
        <4>2. \A j, k \in 1..Len(runList) : runList[j] = runList[k] => j = k
          BY <1>1 DEF ListInv
        <4>3. QED
          BY <4>1, <4>2, <3>4 DEF Bijection, Injection, Surjection, IsInjective
      <3>6. IsFiniteSet(L)
        BY ThreadsAssumption, FS_Subset, L \in SUBSET Threads
      <3>7. Cardinality(L) = Len(runList)
        <4>1. ExistsBijection(1..Len(runList), L)
          BY <3>5 DEF ExistsBijection
        <4>2. QED
          BY <4>1, <1>1, FS_CountingElements
      <3>8. leftThreads = Len(runList)
        BY <1>1, <1>2, <3>7 DEF IInv, CountInv, Count, HolderPCs
      <3>9. QED
        BY <3>8, <1>4 DEF PhaseOver, runListSize
    <2>8. VisitInv'
      <3>1. \A u \in Threads : state'[u] # "RUNNING"
        BY <1>1, <2>2
      <3>2. QED
        BY <2>1, <3>1 DEF VisitInv
    <2>9. QED
      BY <2>4, <2>6, <2>7, <2>8 DEF AbstractStep, Abstract!Next, Abstract!NewPhase
  <1>5. QED
    BY <1>3, <1>4

\* The cleanup pass takes out threads that are no members, before any visit.
LEMMA CleanImplements ==
  ASSUME IInv, VisitInv, NEW t \in Threads, Clean(t)
  PROVE  AbstractStep
  <1>1. /\ TypeOK /\ pc[t] = "clean" /\ curThreadIdx = 0 /\ UNCHANGED curThreadIdx
        /\ state \in [Threads -> States] /\ i \in Nat /\ i <= Len(runList) /\ Len(runList) \in Nat
    BY LenProperties DEF IInv, TypeOK, Clean, LoopInv
  <1>2. \A u \in Threads : ~Visited(u) /\ ~Visited(u)'
    BY <1>1 DEF Visited
  <1>3. \/ UNCHANGED state
        \/ \E g \in Threads : state[g] = "LEFT" /\ state' = [state EXCEPT ![g] = "OFFLINE"]
    <2>1. CASE i < Len(runList) /\ state[runList[i + 1]] = "LEFT"
      <3>1. runList[i + 1] \in Threads
        BY <1>1, <2>1, ElementOfSeq DEF TypeOK
      <3>2. QED
        BY <2>1, <3>1 DEF Clean, runListSize
    <2>2. CASE ~(i < Len(runList) /\ state[runList[i + 1]] = "LEFT")
      BY <2>2 DEF Clean, runListSize
    <2>3. QED
      BY <2>1, <2>2
  <1>4. UNCHANGED <<members, arrived>>
    BY <1>1, <1>2, <1>3 DEF members, arrived, In, Visited
  <1>5. VisitInv'
    BY <1>1, <1>2, <1>3 DEF VisitInv
  <1>6. QED
    BY <1>4, <1>5 DEF AbstractStep

\* So does the shuffle.
LEMMA ShuffleImplements ==
  ASSUME IInv, VisitInv, NEW t \in Threads, Shuffle(t)
  PROVE  AbstractStep
  <1>1. pc[t] = "shuffle" /\ curThreadIdx = 0 /\ UNCHANGED <<state, curThreadIdx>>
    BY DEF VisitInv, Shuffle
  <1>2. \A u \in Threads : ~Visited(u) /\ ~Visited(u)'
    BY <1>1 DEF Visited
  <1>3. UNCHANGED <<members, arrived>>
    BY <1>1, <1>2, MappingSame
  <1>4. VisitInv'
    BY <1>1, <1>2 DEF VisitInv
  <1>5. QED
    BY <1>3, <1>4 DEF AbstractStep

\* The other steps touch neither the states nor the list.
LEMMA OtherImplements ==
  ASSUME IInv, VisitInv, NEW t \in Threads,
         Cas(t) \/ Wake(t) \/ WaitStep(t) \/ Interrupt(t) \/ Die(t)
  PROVE  AbstractStep
  <1>1. UNCHANGED <<state, runList, curThreadIdx>>
    BY DEF Cas, Wake, WaitStep, Check, FutexWait, Resume, Interrupt, Die, data
  <1>2. \A u \in Threads : pc'[u] = "shuffle" => pc[u] = "shuffle"
    BY DEF IInv, TypeOK, Cas, Wake, WaitStep, Check, FutexWait, Resume, Interrupt, Die, Goto
  <1>3. QED
    BY <1>1, <1>2, MappingUnchanged

-----------------------------------------------------------------------------
\* Every step of the barrier is a step of AbstractBarrier or none.
LEMMA NextImplements == IInv /\ VisitInv /\ [Next]_vars => AbstractStep
  <1> SUFFICES ASSUME IInv, VisitInv, [Next]_vars PROVE AbstractStep
    OBVIOUS
  <1>1. CASE UNCHANGED vars
    BY <1>1, MappingUnchanged DEF vars, data
  <1>2. CASE Next
    BY <1>2, JoinImplements, LeaveImplements, SyncImplements, ScanImplements, EndPhaseImplements,
       CleanImplements, ShuffleImplements, OtherImplements DEF Next, HolderStep
  <1>3. QED
    BY <1>1, <1>2

\* Every thread that runs has been visited in the phase, so that nobody is
\* woken twice in a phase and nobody runs on into the next one.
THEOREM BarrierVisits == ASSUME ~KillJoiners PROVE Spec => []VisitInv
  <1>1. Init => VisitInv
    BY DEF Init, VisitInv
  <1>2. IInv /\ VisitInv /\ [Next]_vars => VisitInv'
    BY NextImplements DEF AbstractStep
  <1>3. QED
    BY <1>1, <1>2, Invariance, PTL DEF Spec

\* The barrier implements AbstractBarrier: a phase ends only when every thread
\* that takes part has arrived, however threads join, leave and die around it.
THEOREM BarrierImplements == ASSUME ~KillJoiners PROVE Spec => ImplementsBarrier
  <1>1. Init => Abstract!Init
    BY DEF Init, Abstract!Init, members, arrived, In
  <1>2. IInv /\ VisitInv /\ [Next]_vars => [Abstract!Next]_<<members, arrived>>
    BY NextImplements DEF AbstractStep
  <1>3. Abstract!avars = <<members, arrived>>
    BY DEF Abstract!avars
  <1>4. QED
    BY <1>1, <1>2, BarrierVisits, Invariance, PTL DEF Spec, ImplementsBarrier, Abstract!Spec, Abstract!avars
=============================================================================

------------------------------ MODULE Scheduler ------------------------------
(***************************************************************************)
(* The round-robin scheduler of src/zsim/src/scheduler.{h,cpp}: simulated  *)
(* threads share the cores' contexts, a thread that makes a system call    *)
(* leaves the phase barrier or pretends to (a fake leave), a sleeping      *)
(* thread is woken at the phase it asked for, and at the end of a quantum  *)
(* queued threads take contexts over from running ones.                    *)
(*                                                                         *)
(* Everything schedLock protects is one record, S; a member function of    *)
(* the class is an operator from a record to a record (to a set of records *)
(* where it may end a phase, since schedTick draws random numbers), and a  *)
(* section between futex_lock and futex_unlock is one step, as             *)
(* AbstractMutex allows.  What a function does after it releases the lock, *)
(* and every second section of the same function, is a step of its own.    *)
(* The barrier is AbstractBarrier's state, members and arrived.            *)
(***************************************************************************)
EXTENDS Integers, Sequences, FiniteSets

CONSTANTS Threads,
          numCores,
          mask,            \* the cores each thread may run on
          schedQuantum,    \* in phases
          MaxSleep,        \* bound: phases a sleep asks for
          FakeLeaveRace,   \* whether a system call may return between the two lock
                           \* sections in which the watchdog ends its fake leave
          None

Cores == 0..numCores-1

ASSUME ThreadsAssumption == IsFiniteSet(Threads)
ASSUME CoresAssumption == numCores \in Nat \ {0}
ASSUME QuantumAssumption == schedQuantum \in Nat \ {0}
ASSUME MaskAssumption == mask \in [Threads -> (SUBSET Cores) \ {{}}]
ASSUME SleepAssumption == MaxSleep \in Nat \ {0, 1}
ASSUME RaceAssumption == FakeLeaveRace \in BOOLEAN
ASSUME NoneAssumption == None \notin Threads \cup Cores

VARIABLES S,      \* the state schedLock protects
          pc,     \* where each thread is
          evict   \* the thread whose fake leave the watchdog is turning into a leave

vars == <<S, pc, evict>>

States == {"STARTED", "RUNNING", "OUT", "BLOCKED", "SLEEPING", "QUEUED", "DELETED"}

\* none: not created; out: outside the simulation or in a fake leave, will call
\* join; run: executing on its context; markNano, markTimed: marked for sleep,
\* about to leave; nano, timed: in the patched system call; notify: about to call
\* notifySleepEnd; sync: in bar.sync; handoff: saw its handoffThread; ctx: in
\* waitForContext; finleave, finish: in finish, unlocked; dead, reap, reaped: the
\* process was killed, and how far processCleanup is.
PCs == {"none", "out", "run", "markNano", "markTimed", "nano", "timed", "notify", "sync",
        "handoff", "ctx", "finleave", "finish", "dead", "reap", "reaped"}

\* What schedLock protects.
SchedState == [state : [Threads -> States],
               cid : [Threads -> Cores],
               handoffThread : [Threads -> Threads \cup {None}],
               futexWord : [Threads -> 0..1],
               marked : SUBSET Threads,
               left : [Threads -> Int],
               curThread : [Cores -> Threads \cup {None}],
               freeList : Seq(Cores),
               runQueue : Seq(Threads),
               outQueue : Seq(Threads),
               sleepQueue : Seq(Threads),
               fakeLeaves : Seq(Threads),
               scheduledThreads : Int,
               phase : 0..schedQuantum-1,
               members : SUBSET Cores,
               arrived : SUBSET Cores,
               ok : BOOLEAN]

\* phase is curPhase modulo schedQuantum; left[t] is wakeupPhase - curPhase of a
\* thread that sleeps or is marked for it; ok turns false when an assertion or a
\* panic fires.
Init ==
    /\ S = [state |-> [t \in Threads |-> "DELETED"],
            cid |-> [t \in Threads |-> 0],
            handoffThread |-> [t \in Threads |-> None],
            futexWord |-> [t \in Threads |-> 0],
            marked |-> {},
            left |-> [t \in Threads |-> 0],
            curThread |-> [c \in Cores |-> None],
            freeList |-> [i \in 1..numCores |-> i - 1],
            runQueue |-> <<>>,
            outQueue |-> <<>>,
            sleepQueue |-> <<>>,
            fakeLeaves |-> <<>>,
            scheduledThreads |-> 0,
            phase |-> 0,
            members |-> {},
            arrived |-> {},
            ok |-> TRUE]
    /\ pc = [t \in Threads |-> "none"]
    /\ evict = None

Goto(t, label) == pc' = [pc EXCEPT ![t] = label]

\* The intrusive lists are sequences without repetition.
Elems(q) == {q[i] : i \in DOMAIN q}

\* q without the members of A: what SelectSeq returns, stated without recursion.
Without(q, A) ==
    LET keep == {i \in DOMAIN q : q[i] \notin A}
    IN  [n \in 1..Cardinality(keep) |->
            q[CHOOSE i \in keep : Cardinality({j \in keep : j <= i}) = n]]

Remove(q, x) == Without(q, {x})

FirstIn(q, A) == q[CHOOSE i \in DOMAIN q : q[i] \in A /\ \A j \in 1..i-1 : q[j] \notin A]

\* An assertion (or a panic) of the code.
Checked(s, holds) == [s EXCEPT !.ok = @ /\ holds]

-----------------------------------------------------------------------------
(* Threads and contexts *)

schedule(s, t, c) ==
    Checked([s EXCEPT !.state[t] = "RUNNING", !.cid[t] = c, !.curThread[c] = t,
                     !.scheduledThreads = @ + 1],
           s.state[t] \in {"STARTED", "BLOCKED", "QUEUED"} /\ s.curThread[c] = None)

deschedule(s, t, c, target) ==
    Checked([s EXCEPT !.state[t] = target, !.curThread[c] = None, !.scheduledThreads = @ - 1],
           s.state[t] \in {"RUNNING", "OUT"} /\ s.cid[t] = c /\ s.curThread[c] = t)

\* Mutant: the futex word is not armed before the wait.
waitForContextUnarmed(s, t) == s

\* waitForContext up to the unlock.
waitForContext(s, t) == [s EXCEPT !.futexWord[t] = 1]

wakeup(s, t) == Checked([s EXCEPT !.futexWord[t] = 0], s.futexWord[t] = 1)

\* The context schedThread chooses: the one t had last, the first free one, or
\* that of the first thread that is out; None if there is none in the mask.
ContextFor(s, t) ==
    LET last == s.curThread[s.cid[t]] = None /\ s.cid[t] \in mask[t]
        free == mask[t] \cap Elems(s.freeList)
        out  == {o \in Elems(s.outQueue) : s.cid[o] \in mask[t]}
    IN  CASE last -> s.cid[t]
          [] ~last /\ free # {} -> FirstIn(s.freeList, mask[t])
          [] ~last /\ free = {} /\ out # {} -> s.cid[FirstIn(s.outQueue, out)]
          [] OTHER -> None

\* Mutant: the context of a thread that is out is taken, but it stays in outQueue.
ClaimLeavesOut(s, c) ==
    LET o == s.curThread[c]
    IN  IF o = None
        THEN [s EXCEPT !.freeList = Remove(@, c)]
        ELSE deschedule(s, o, c, "BLOCKED")

\* schedThread's removals: a free context leaves freeList, a thread that is out
\* loses its context.
Claim(s, c) ==
    LET o == s.curThread[c]
    IN  IF o = None
        THEN [s EXCEPT !.freeList = Remove(@, c)]
        ELSE deschedule([s EXCEPT !.outQueue = Remove(@, o)], o, c, "BLOCKED")

\* Mutant: the last queued thread is taken.
schedContextLast(s, c) ==
    LET fit == {t \in Elems(s.runQueue) : c \in mask[t]}
    IN  IF fit = {}
        THEN None
        ELSE s.runQueue[CHOOSE i \in DOMAIN s.runQueue :
                            s.runQueue[i] \in fit /\ \A j \in i+1..Len(s.runQueue) : s.runQueue[j] \notin fit]

\* The first queued thread that may run on context c.
schedContext(s, c) ==
    LET fit == {t \in Elems(s.runQueue) : c \in mask[t]}
    IN  IF fit = {} THEN None ELSE FirstIn(s.runQueue, fit)

\* A context that was just given up goes to inTh; the barrier does not notice.
GiveTo(s, inTh, c) ==
    wakeup(schedule([s EXCEPT !.runQueue = Remove(@, inTh)], inTh, c), inTh)

\* The contexts that schedTick may give to queued threads: each thread in turn
\* takes a core of its mask that is not taken, in an order shuffled at random.
Assignments(s) ==
    LET Taken(f, i) == {f[s.runQueue[j]] : j \in {k \in 1..i-1 : s.runQueue[k] \in DOMAIN f}}
    IN  {f \in UNION {[D -> Cores] : D \in SUBSET Elems(s.runQueue)} :
            /\ \A t \in DOMAIN f : f[t] \in mask[t]
            /\ \A t, u \in DOMAIN f : t # u => f[t] # f[u]
            /\ \A i \in DOMAIN s.runQueue :
                 s.runQueue[i] \notin DOMAIN f => mask[s.runQueue[i]] \subseteq Taken(f, i)}

\* The running thread of each such context is told whom to hand it to.
schedTick(s) ==
    {Checked([s EXCEPT !.handoffThread =
                 [v \in Threads |-> IF \E t \in DOMAIN f : s.curThread[f[t]] = v
                                    THEN CHOOSE t \in DOMAIN f : s.curThread[f[t]] = v
                                    ELSE @[v]],
                     !.runQueue = Without(@, DOMAIN f)],
            \A t \in DOMAIN f : s.curThread[f[t]] # None)
     : f \in Assignments(s)}

-----------------------------------------------------------------------------
(* The end of a phase *)

\* callback up to the rescheduling: a phase passes, and the threads at the head
\* of sleepQueue whose deadline has come are blocked and woken.
WakeSleepers(s) ==
    LET due == {t \in Elems(s.sleepQueue) :
                    \E i \in DOMAIN s.sleepQueue :
                        /\ s.sleepQueue[i] = t
                        /\ \A j \in 1..i : s.left[s.sleepQueue[j]] <= 1}
    IN  Checked([s EXCEPT !.state = [t \in Threads |-> IF t \in due THEN "BLOCKED" ELSE @[t]],
                         !.futexWord = [t \in Threads |-> IF t \in due THEN 0 ELSE @[t]],
                         !.left = [t \in Threads |->
                                      IF t \in Elems(s.sleepQueue) \ due THEN @[t] - 1 ELSE 0],
                         !.sleepQueue = Without(@, due)],
               \A t \in due : s.left[t] = 1 /\ s.futexWord[t] = 1)

PassPhase(s) == [s EXCEPT !.phase = (@ + 1) % schedQuantum]

\* Mutant: the quantum never ends.
callbackNoTick(s) == {WakeSleepers(PassPhase(s))}

callback(s) ==
    LET w == WakeSleepers(PassPhase(Checked(s, s.scheduledThreads <= numCores)))
    IN  IF w.runQueue # <<>> /\ w.phase = 0 THEN schedTick(w) ELSE {w}

\* Barrier::checkEndPhase
EndPhase(s) ==
    IF s.members # {} /\ s.arrived = s.members
    THEN callback([s EXCEPT !.arrived = {}])
    ELSE {s}

barJoin(s, c) == Checked([s EXCEPT !.members = @ \cup {c}], c \notin s.members)

barLeave(s, c) ==
    LET l == Checked([s EXCEPT !.members = @ \ {c}, !.arrived = @ \ {c}], c \in s.members)
    IN  IF c \in s.arrived THEN {l} ELSE EndPhase(l)

barSync(s, c) ==
    EndPhase(Checked([s EXCEPT !.arrived = @ \cup {c}], c \in s.members \ s.arrived))

-----------------------------------------------------------------------------
(* The entry points of the class *)

\* Mutant: a sleeper goes to the end of the queue.
SleepInsertBack(s, t) == Append(s.sleepQueue, t)

\* sleepQueue with t behind the leading threads that wake up no later than t.
SleepInsert(s, t) ==
    LET q == s.sleepQueue
        k == CHOOSE n \in 0..Len(q) :
                /\ \A j \in 1..n : s.left[q[j]] <= s.left[t]
                /\ n = Len(q) \/ s.left[q[n + 1]] > s.left[t]
    IN  SubSeq(q, 1, k) \o <<t>> \o SubSeq(q, k + 1, Len(q))

\* Mutant: the context of a thread that goes to sleep is not offered to the queue.
leaveFreesContext(s, t) ==
    LET c    == s.cid[t]
        s1   == Checked(s, s.curThread[c] = t /\ s.state[t] = "RUNNING")
        inTh == schedContext(s1, c)
        s2   == [deschedule(s1, t, c, "SLEEPING")
                    EXCEPT !.marked = @ \ {t}, !.sleepQueue = SleepInsert(s1, t)]
        s3   == [s1 EXCEPT !.state[t] = "OUT", !.outQueue = Append(@, t)]
    IN  CASE t \in s.marked ->
               barLeave([s2 EXCEPT !.freeList = Append(@, c)], c)
          [] t \notin s.marked /\ inTh # None -> {GiveTo(deschedule(s1, t, c, "BLOCKED"), inTh, c)}
          [] OTHER -> barLeave(s3, c)

\* A thread marked for sleep gives its context up; any other keeps it while
\* nobody is queued for it.
leave(s, t) ==
    LET c    == s.cid[t]
        s1   == Checked(s, s.curThread[c] = t /\ s.state[t] = "RUNNING")
        inTh == schedContext(s1, c)
        s2   == [deschedule(s1, t, c, "SLEEPING")
                    EXCEPT !.marked = @ \ {t}, !.sleepQueue = SleepInsert(s1, t)]
        s3   == [s1 EXCEPT !.state[t] = "OUT", !.outQueue = Append(@, t)]
    IN  CASE t \in s.marked /\ inTh # None -> {GiveTo(s2, inTh, c)}
          [] t \in s.marked /\ inTh = None ->
               barLeave([s2 EXCEPT !.freeList = Append(@, c)], c)
          [] t \notin s.marked /\ inTh # None -> {GiveTo(deschedule(s1, t, c, "BLOCKED"), inTh, c)}
          [] OTHER -> barLeave(s3, c)

\* A blocked, new or handed-off thread asks for a context: it joins the barrier
\* with one, or queues up.
Acquire(s, t) ==
    LET c == ContextFor(s, t)
    IN  IF c # None
        THEN /\ S' = barJoin(schedule(Claim(s, c), t, c), c)
             /\ Goto(t, "run")
        ELSE /\ S' = waitForContext([s EXCEPT !.state[t] = "QUEUED", !.runQueue = Append(@, t)], t)
             /\ Goto(t, "ctx")

start(t) ==
    /\ pc[t] = "none"
    /\ S' = [S EXCEPT !.state[t] = "STARTED"]
    /\ Goto(t, "out")
    /\ UNCHANGED evict

\* The thread comes back from its system call, or is new.
join(t) ==
    /\ pc[t] = "out"
    /\ evict = t => FakeLeaveRace
    /\ LET s1 == Checked(S, t \notin S.marked)
           s2 == IF S.state[t] = "SLEEPING"   \* early sleep termination
                 THEN [s1 EXCEPT !.sleepQueue = Remove(@, t), !.state[t] = "BLOCKED", !.left[t] = 0]
                 ELSE s1
       IN  CASE t \in Elems(S.fakeLeaves) ->
                  /\ S' = [S EXCEPT !.fakeLeaves = Remove(@, t), !.ok = @ /\ S.state[t] = "RUNNING"]
                  /\ Goto(t, "run")
             [] t \notin Elems(S.fakeLeaves) /\ S.state[t] = "OUT" ->
                  /\ S' = barJoin([s1 EXCEPT !.state[t] = "RUNNING", !.outQueue = Remove(@, t)], S.cid[t])
                  /\ Goto(t, "run")
             [] OTHER -> Acquire(Checked(s2, s2.state[t] \in {"BLOCKED", "STARTED"}), t)
    /\ UNCHANGED evict

\* syscallLeave: a blacklisted system call leaves, any other only pretends to.
syscallLeave(t) ==
    /\ pc[t] = "run"
    /\ \/ S' \in leave(S, t)
       \/ S' = [S EXCEPT !.fakeLeaves = Append(@, t)]
    /\ Goto(t, "out")
    /\ UNCHANGED evict

\* A patched sleep lasts at least one phase, a patched timeout at least two.
markForSleep(t) ==
    /\ pc[t] = "run"
    /\ \E n \in 1..MaxSleep :
         /\ S' = [S EXCEPT !.marked = @ \cup {t}, !.left[t] = n, !.futexWord[t] = 1,
                           !.ok = @ /\ t \notin S.marked]
         /\ \/ Goto(t, "markNano")
            \/ n >= 2 /\ Goto(t, "markTimed")
    /\ UNCHANGED evict

\* syscallLeave of a marked thread
SleepLeave(t) ==
    /\ pc[t] \in {"markNano", "markTimed"}
    /\ S' \in leave(S, t)
    /\ Goto(t, IF pc[t] = "markNano" THEN "nano" ELSE "timed")
    /\ UNCHANGED evict

\* The patched sleep waits for the futex word to change.
SleepReturn(t) ==
    /\ pc[t] = "nano"
    /\ S.futexWord[t] # 1
    /\ Goto(t, "out")
    /\ UNCHANGED <<S, evict>>

\* A signal ends the patched sleep (EINTR).
SleepInterrupted(t) ==
    /\ pc[t] = "nano"
    /\ Goto(t, "out")
    /\ UNCHANGED <<S, evict>>

\* A patched system call with a timeout returns; isSleeping tells whether the
\* scheduler still counts the thread among the sleepers.  A host timeout of a
\* thread that sleeps is a retry, which changes nothing.
TimedReturn(t) ==
    /\ pc[t] = "timed"
    /\ Goto(t, IF S.state[t] = "SLEEPING" THEN "notify" ELSE "out")
    /\ UNCHANGED <<S, evict>>

\* notifySleepEnd, by the thread or for a dead one.
notifySleepEnd(t) ==
    /\ pc[t] \in {"notify", "reap"}
    /\ LET s1 == Checked(S, t \notin S.marked /\ S.state[t] \in {"SLEEPING", "BLOCKED"})
       IN  S' = IF S.state[t] = "BLOCKED"
                THEN s1
                ELSE [s1 EXCEPT !.sleepQueue = Remove(@, t), !.state[t] = "BLOCKED", !.left[t] = 0]
    /\ Goto(t, IF pc[t] = "notify" THEN "out" ELSE "reaped")
    /\ UNCHANGED evict

sync(t) ==
    /\ pc[t] = "run"
    /\ S' \in barSync(Checked(S, t \notin S.marked), S.cid[t])
    /\ Goto(t, "sync")
    /\ UNCHANGED evict

\* The barrier lets the thread run its next phase; handoffThread is read unlocked.
SyncReturn(t) ==
    /\ pc[t] = "sync"
    /\ S.cid[t] \notin S.arrived
    /\ Goto(t, IF S.handoffThread[t] = None THEN "run" ELSE "handoff")
    /\ UNCHANGED <<S, evict>>

\* The rest of sync: hand the context over and look for another one.
Handoff(t) ==
    /\ pc[t] = "handoff"
    /\ LET dst == S.handoffThread[t]
           c   == S.cid[t]
           s1  == deschedule([S EXCEPT !.handoffThread[t] = None], t, c, "QUEUED")
       IN  Acquire(wakeup(schedule(s1, dst, c), dst), t)
    /\ UNCHANGED evict

\* waitForContext after the unlock, and the assertion at the end of sync.
ContextReturn(t) ==
    /\ pc[t] = "ctx"
    /\ S.futexWord[t] # 1
    /\ S' = Checked(S, S.state[t] = "RUNNING")
    /\ Goto(t, "run")
    /\ UNCHANGED evict

\* The end of finish: the thread leaves its queue and is deleted.
Delete(s, t) ==
    LET c  == s.cid[t]
        s1 == Checked(s, /\ s.state[t] \in {"STARTED", "OUT", "BLOCKED", "QUEUED"}
                        /\ s.state[t] = "QUEUED" => t \in Elems(s.runQueue))
        s2 == [s1 EXCEPT !.runQueue = Remove(@, t)]
        s3 == [deschedule([s1 EXCEPT !.outQueue = Remove(@, t)], t, c, "BLOCKED")
                  EXCEPT !.freeList = Append(@, c)]
        s4 == IF s.state[t] = "QUEUED" THEN s2 ELSE IF s.state[t] = "OUT" THEN s3 ELSE s1
    IN  [s4 EXCEPT !.state[t] = "DELETED", !.cid[t] = 0, !.futexWord[t] = 0]

\* A thread ends, or processCleanup ends a dead one.  A thread that is still in
\* the simulation leaves first, in a lock section of its own.
finish(t) ==
    /\ \/ pc[t] = "out" /\ S.state[t] # "SLEEPING" /\ (evict = t => FakeLeaveRace)
       \/ pc[t] = "reaped"
    /\ IF S.state[t] = "RUNNING"
       THEN /\ S' = [S EXCEPT !.fakeLeaves = Remove(@, t)]
            /\ Goto(t, "finleave")
       ELSE S' = Delete(S, t) /\ Goto(t, "none")
    /\ UNCHANGED evict

FinishLeave(t) ==
    /\ pc[t] = "finleave"
    /\ S' \in leave(S, t)
    /\ Goto(t, "finish")
    /\ UNCHANGED evict

FinishDelete(t) ==
    /\ pc[t] = "finish"
    /\ S' = Delete(S, t)
    /\ Goto(t, "none")
    /\ UNCHANGED evict

-----------------------------------------------------------------------------
(* Killed processes and the watchdog *)

\* A fatal signal while the thread is in a system call or executing.
Die(t) ==
    /\ pc[t] \in {"out", "run", "nano", "timed"}
    /\ Goto(t, "dead")
    /\ UNCHANGED <<S, evict>>

\* processCleanup of a dead thread, up to isSleeping, by the watchdog.
processCleanup(t) ==
    /\ pc[t] = "dead"
    /\ evict = None
    /\ Goto(t, IF S.state[t] = "SLEEPING" THEN "reap" ELSE "reaped")
    /\ UNCHANGED <<S, evict>>

\* The watchdog has seen no progress: it ends the oldest fake leave ...
EndFakeLeave ==
    /\ evict = None
    /\ \A t \in Threads : pc[t] \notin {"reap", "reaped"}
    /\ S.fakeLeaves # <<>>
    /\ evict' = Head(S.fakeLeaves)
    /\ S' = [S EXCEPT !.fakeLeaves = Tail(@)]
    /\ UNCHANGED pc

\* ... releases the lock, and calls leave for that thread.
EvictLeave ==
    /\ evict # None
    /\ S' \in leave(S, evict)
    /\ evict' = None
    /\ UNCHANGED pc

\* Mutant: time is driven forward only when every context is idle.
DriveForwardIdle ==
    /\ evict = None
    /\ S.scheduledThreads = 0
    /\ S.sleepQueue # <<>>
    /\ S' \in callback(S)
    /\ UNCHANGED <<pc, evict>>

\* Nobody runs and somebody sleeps: the watchdog ends the phase itself.
DriveForward ==
    /\ evict = None
    /\ S.scheduledThreads = Len(S.outQueue)
    /\ S.sleepQueue # <<>>
    /\ S' \in callback(S)
    /\ UNCHANGED <<pc, evict>>

-----------------------------------------------------------------------------

Step(t) ==
    \/ SleepLeave(t) \/ SleepReturn(t) \/ notifySleepEnd(t)
    \/ SyncReturn(t) \/ Handoff(t) \/ ContextReturn(t)
    \/ FinishLeave(t) \/ FinishDelete(t)
    \/ pc[t] = "reaped" /\ finish(t)

Next ==
    \/ \E t \in Threads :
         \/ start(t) \/ join(t) \/ syscallLeave(t) \/ markForSleep(t) \/ SleepLeave(t)
         \/ SleepReturn(t) \/ SleepInterrupted(t) \/ TimedReturn(t) \/ notifySleepEnd(t)
         \/ sync(t) \/ SyncReturn(t) \/ Handoff(t) \/ ContextReturn(t)
         \/ finish(t) \/ FinishLeave(t) \/ FinishDelete(t)
         \/ Die(t) \/ processCleanup(t)
    \/ EndFakeLeave
    \/ EvictLeave
    \/ DriveForward

Spec == Init /\ [][Next]_vars

\* A step that waits for nothing is eventually taken, and so are the watchdog's:
\* every turn of its loop looks at the fake leaves, the sleepers and the dead.
\* A thread that keeps executing reaches the end of its phase even if it makes
\* system calls on the way: its simulated cycles advance.  Nothing makes a
\* blocked system call return, a thread end or a process die.
Fairness ==
    /\ \A t \in Threads : WF_vars(Step(t)) /\ SF_vars(sync(t)) /\ SF_vars(processCleanup(t))
    /\ SF_vars(EndFakeLeave)
    /\ WF_vars(EvictLeave)
    /\ WF_vars(DriveForward)

FairSpec == Spec /\ Fairness

-----------------------------------------------------------------------------
(* Properties *)

In(A) == {t \in Threads : S.state[t] \in A}

NoRepeats(q) == \A i, j \in DOMAIN q : q[i] = q[j] => i = j

\* Every part of the scheduler's state has its type; contexts are not overcommitted.
TypeOK ==
    /\ S \in SchedState
    /\ S.left \in [Threads -> 0..MaxSleep]
    /\ S.scheduledThreads \in 0..numCores
    /\ S.arrived \subseteq S.members
    /\ pc \in [Threads -> PCs]
    /\ evict \in Threads \cup {None}

\* A context and its thread agree on each other whatever was stolen, handed over
\* or cleaned up; the free list holds exactly the idle contexts, once each, and
\* scheduledThreads, on which the watchdog decides, counts the others.
ContextsExact ==
    /\ \A t \in Threads, c \in Cores :
         S.curThread[c] = t <=> t \in In({"RUNNING", "OUT"}) /\ S.cid[t] = c
    /\ NoRepeats(S.freeList)
    /\ Elems(S.freeList) = {c \in Cores : S.curThread[c] = None}
    /\ S.scheduledThreads = Cardinality(In({"RUNNING", "OUT"}))

\* Each queue holds exactly the threads in its state, once each; a queued thread
\* that is in no queue is the target of exactly one pending handoff, so that no
\* thread waits for a context that nobody will give it.
QueuesExact ==
    LET targets == {S.handoffThread[v] : v \in Threads} \ {None}
    IN  /\ \A q \in {S.runQueue, S.outQueue, S.sleepQueue, S.fakeLeaves} : NoRepeats(q)
        /\ Elems(S.outQueue) = In({"OUT"})
        /\ Elems(S.sleepQueue) = In({"SLEEPING"})
        /\ Elems(S.runQueue) = In({"QUEUED"}) \ targets
        /\ targets \subseteq In({"QUEUED"})
        /\ \A u, v \in Threads : u # v /\ S.handoffThread[u] = S.handoffThread[v]
                                    => S.handoffThread[u] = None

\* schedTick's NOTE: a queued thread finds no free context in its mask, nor that of
\* a thread that is out, since schedThread and schedContext would have matched it.
NoIdleWhileQueued ==
    \A t \in Elems(S.runQueue) : \A c \in mask[t] :
        S.curThread[c] # None /\ S.state[S.curThread[c]] = "RUNNING"

\* The barrier waits for exactly the contexts that run a thread: a thread that
\* took a context over without a join is waited for, one that left is not.
BarrierMembers == S.members = {S.cid[t] : t \in In({"RUNNING"})}

\* The sleep queue is in order of deadline and nobody in it is overdue.
SleepersOnTime ==
    \A i, j \in DOMAIN S.sleepQueue :
        /\ S.left[S.sleepQueue[i]] >= 1
        /\ i < j => S.left[S.sleepQueue[i]] <= S.left[S.sleepQueue[j]]

\* A handoff is pending only at a thread that is still inside sync, and its context
\* is in the mask of the thread it is meant for.
HandoffPending ==
    \A v \in Threads : S.handoffThread[v] # None =>
        /\ pc[v] \in {"sync", "handoff"}
        /\ S.state[v] = "RUNNING"
        /\ S.cid[v] \in mask[S.handoffThread[v]]

\* A thread runs, and keeps a context while it is out, only on a core of its mask.
RunsInMask == \A t \in In({"RUNNING", "OUT"}) : S.cid[t] \in mask[t]

\* The scheduler's views of a thread agree: its state, its context, its queue and
\* the barrier's membership, after any mix of steals, handoffs, sleeps and cleanups;
\* and every way to a context, those still pending included, respects the masks.
StructuresAgree ==
    ContextsExact /\ QueuesExact /\ BarrierMembers /\ RunsInMask /\ HandoffPending

\* No assertion of the scheduler or of the barrier fails, and no wakeup panics.
NoAssertionFails == S.ok

\* A queued thread is not overtaken: one behind it that can run only where it can
\* run too does not leave the queue first.
NoOvertaking ==
    [][\A i, j \in DOMAIN S.runQueue :
          LET t == S.runQueue[i]
              u == S.runQueue[j]
          IN  i < j /\ mask[u] \subseteq mask[t] /\ t \in Elems(S'.runQueue)
                => u \in Elems(S'.runQueue)]_vars

\* A thread that waits for a context gets one, although the threads that hold the
\* contexts never offer them.
QueuedRuns == \A t \in Threads : pc[t] = "ctx" ~> pc[t] # "ctx"

\* A thread that sleeps is woken up, although every other thread may be blocked.
SleeperWakes == \A t \in Threads : S.state[t] = "SLEEPING" ~> S.state[t] # "SLEEPING"
=============================================================================

---------------------------- MODULE FastForward ----------------------------
(***************************************************************************)
(* Fast-forwarding, the event queue and the life of simulated processes:   *)
(* process_tree.{h,cpp}, event_queue.h, fftoggle.cpp and the parts of      *)
(* zsim.cpp that tie them to the end of a phase.                           *)
(*                                                                         *)
(* Each process p has an application thread (app[p]), an internal thread   *)
(* that serves fast-forward toggles (ffpc[p], FFThread) and, once one of   *)
(* the two has called SimEnd, an exit in progress (fin[p]).  The thread    *)
(* that ends a phase, by arriving last at the barrier or by leaving it     *)
(* when everyone else has arrived, runs EndOfPhaseActions with schedLock   *)
(* held: the simulator's single end-of-phase activity, phase.              *)
(*                                                                         *)
(* The phases of events are kept relative to numPhases (due), so there is  *)
(* no bound on the number of phases.                                       *)
(***************************************************************************)
EXTENDS Integers, FiniteSets

CONSTANTS Procs,     \* procIdx of every process, 0..n
          Envs,      \* the configurations and the users' behaviours to consider
          None

(* An environment: the configured processes, which of them start in fast-  *)
(* forward, their syncedFastForward mode and restarts; who is toggled by   *)
(* the user, executes ROI hooks, has ffiPoints, sends heartbeats that dump *)
(* stats, exits, forks, makes system calls; whether the simulation may be  *)
(* paused or terminated; and whether the windows that nothing in the code  *)
(* closes may be hit: an event inserted after tick and before numPhases++, *)
(* a process that exits while its thread ends a phase or while its other   *)
(* threads go on entering and leaving fast-forward (notifyEnd does not     *)
(* take ffLock), and one that exits before another that is configured or   *)
(* forked has started ("You should serialize process creation and          *)
(* termination through the harness", process_tree.cpp).                    *)
Environment ==
    [configured : SUBSET Procs, startFF : SUBSET Procs,
     mode : [Procs -> {"ALWAYS", "MULTIPROCESS", "NEVER"}], restarts : [Procs -> Nat],
     toggled : SUBSET Procs, hooks : SUBSET Procs, ffi : SUBSET Procs, beats : SUBSET Procs,
     ends : SUBSET Procs, forks : SUBSET Procs, syscalls : SUBSET Procs, pauses : BOOLEAN,
     terminates : BOOLEAN, windows : BOOLEAN]

ASSUME ProcsAssumption ==
    0 \in Procs /\ Procs \subseteq Nat /\ IsFiniteSet(Procs) /\ None \notin Procs
ASSUME EnvsAssumption == \A e \in Envs : e \in Environment /\ 0 \in e.configured

VARIABLES
    env,
    app,     \* where the application's thread is
    ffpc,    \* where FFThread is
    fin,     \* where SimEnd is
    node,    \* node[p]: the process tree node
    glob,    \* zinfo: FFProcs, syncedFFProcs, activeProcs, numProcs
    toggle,  \* toggle[p]: ffToggleLocks[p] is unlocked
    ffLock, qLock,   \* who holds the lock, or None
    events,  \* the event queue
    phase,   \* the end of phase under way
    flags,   \* pause, term (terminationConditionMet), dumped, panicked
    fresh    \* history: who entered synced fast-forward since the last phase ended

vars == <<env, app, ffpc, fin, node, glob, toggle, ffLock, qLock, events, phase, flags, fresh>>

AppPC == {"out", "join", "track", "run", "arrived", "released", "leaveFF", "leaveEnd", "sys",
          "ff", "end"}
FFPC == {"none", "init", "wait", "lock", "insert", "sync", "relock", "end"}
FinPC == {"no", "check", "exitFF", "notify", "wait0", "done"}
PhasePC == {"none", "pause", "synced", "term", "tick", "fire", "callback", "ffi", "count"}

FFTypeOK ==
    /\ env \in Envs
    /\ app \in [Procs -> AppPC] /\ ffpc \in [Procs -> FFPC] /\ fin \in [Procs -> FinPC]
    /\ node \in [Procs -> [inFF : BOOLEAN, started : BOOLEAN, restarts : Nat,
                           exited : {"RUNNING", "EXITED", "RESTARTME"}]]
    /\ glob \in [FF : Int, synced : Int, active : Int, procs : Nat]
    /\ toggle \in [Procs -> BOOLEAN]
    /\ ffLock \in Procs \cup {None} /\ qLock \in {None, "tick"}
    /\ events \subseteq [kind : {"sync", "beat", "ffi"}, p : Procs, due : -1..1]
    /\ phase \in [pc : PhasePC, ender : Procs \cup {None}, p : Procs \cup {None}]
    /\ flags \in [pause : BOOLEAN, term : BOOLEAN, dumped : BOOLEAN, panicked : BOOLEAN]
    /\ fresh \subseteq Procs

\* getSyncedFastForward when there are n processes
SyncedAmong(p, n) ==
    \/ env.mode[p] = "ALWAYS"
    \/ env.mode[p] = "MULTIPROCESS" /\ n > 1

\* Process 0 has been started by SimInit; the harness starts the others.
Init ==
    /\ env \in Envs
    /\ app = [p \in Procs |-> IF p # 0 THEN "out"
                              ELSE IF 0 \in env.startFF THEN "ff"
                              ELSE IF 0 \in env.ffi THEN "track" ELSE "join"]
    /\ ffpc = [p \in Procs |-> IF p = 0 THEN "init" ELSE "none"]
    /\ fin = [p \in Procs |-> "no"]
    /\ node = [p \in Procs |-> [inFF |-> p \in env.startFF, started |-> p = 0,
                                restarts |-> env.restarts[p], exited |-> "RUNNING"]]
    /\ glob = [FF |-> IF node[0].inFF THEN 1 ELSE 0,
               synced |-> IF node[0].inFF /\ SyncedAmong(0, Cardinality(env.configured)) THEN 1 ELSE 0,
               active |-> 1, procs |-> Cardinality(env.configured)]
    /\ toggle = [p \in Procs |-> TRUE]
    /\ ffLock = None /\ qLock = None
    /\ events = {}
    /\ phase = [pc |-> "none", ender |-> None, p |-> None]
    /\ flags = [pause |-> FALSE, term |-> FALSE, dumped |-> FALSE, panicked |-> FALSE]
    /\ fresh = IF glob.synced = 1 THEN {0} ELSE {}

-----------------------------------------------------------------------------
(* ProcessTreeNode *)

\* getSyncedFastForward, which looks at the number of processes of the moment
Synced(p) == SyncedAmong(p, glob.procs)

\* Mutant: the synced count forgets the process.
enterFastForwardUncounted(p) ==
    /\ node' = [node EXCEPT ![p].inFF = TRUE]
    /\ glob' = [glob EXCEPT !.FF = @ + 1]
    /\ fresh' = fresh \cup {p}

enterFastForward(p) ==
    /\ node' = [node EXCEPT ![p].inFF = TRUE]
    /\ glob' = [glob EXCEPT !.FF = @ + 1, !.synced = IF Synced(p) THEN @ + 1 ELSE @]
    /\ fresh' = fresh \cup {p}

exitFastForward(p) ==
    /\ node' = [node EXCEPT ![p].inFF = FALSE]
    /\ glob' = [glob EXCEPT !.FF = @ - 1, !.synced = IF Synced(p) THEN @ - 1 ELSE @]
    /\ fresh' = fresh \ {p}

panic == flags' = [flags EXCEPT !.panicked = TRUE]

\* The process's threads run; without the windows, not while it exits.
Alive(p) == fin[p] # "done" /\ (fin[p] # "no" => env.windows) /\ ~flags.panicked

\* The application's thread can act: it is not busy ending a phase.
Acts(p) == Alive(p) /\ phase.ender # p

\* schedLock is free.
schedLockFree == phase.ender = None

\* The event queue can be entered; without the first window, not between the
\* end of tick and numPhases++.
qLockFree == qLock = None /\ (phase.pc = "count" => env.windows)

\* notifyStart, on the first start
notifyStart(p) ==
    \/ /\ glob.active = 0
       /\ panic
       /\ UNCHANGED <<node, glob, fresh>>
    \/ /\ glob.active > 0
       /\ node' = [node EXCEPT ![p].started = TRUE]
       /\ glob' = [glob EXCEPT !.active = @ + 1,
                               !.FF = IF node[p].inFF THEN @ + 1 ELSE @,
                               !.synced = IF node[p].inFF /\ Synced(p) THEN @ + 1 ELSE @]
       /\ fresh' = IF node[p].inFF THEN fresh \cup {p} ELSE fresh
       /\ UNCHANGED flags

\* main and ThreadStart: the harness launches a configured process.
Start(p) ==
    /\ ~flags.panicked
    /\ p \in env.configured /\ app[p] = "out" /\ ~node[p].started /\ fin[p] = "no"
    /\ notifyStart(p)
    /\ app' = [app EXCEPT ![p] = IF node[p].inFF THEN "ff"
                                 ELSE IF p \in env.ffi THEN "track" ELSE "join"]
    /\ ffpc' = [ffpc EXCEPT ![p] = "init"]
    /\ UNCHANGED <<env, fin, toggle, ffLock, qLock, events, phase>>

\* The harness launches a process again that asked for it (chldSigHandler).
\* The node and the toggle lock are those the previous run left.
Restart(p) ==
    /\ ~flags.panicked
    /\ fin[p] = "done" /\ node[p].exited = "RESTARTME"
    /\ node' = [node EXCEPT ![p].exited = "RUNNING"]
    /\ app' = [app EXCEPT ![p] = IF node[p].inFF THEN "ff"
                                 ELSE IF p \in env.ffi THEN "track" ELSE "join"]
    /\ ffpc' = [ffpc EXCEPT ![p] = "init"]
    /\ fin' = [fin EXCEPT ![p] = "no"]
    /\ UNCHANGED <<env, glob, toggle, ffLock, qLock, events, phase, flags, fresh>>

\* BeforeFork: getNextChild makes a node for a new process, a copy of ours.
BeforeFork(p) ==
    /\ Acts(p) /\ p \in env.forks /\ app[p] \in {"run", "ff"}
    /\ \E c \in Procs \ env.configured :
         /\ glob.procs = c
         /\ node' = [node EXCEPT ![c] = [node[p] EXCEPT !.started = FALSE, !.exited = "RUNNING"]]
         /\ glob' = [glob EXCEPT !.procs = @ + 1]
    /\ UNCHANGED <<env, app, ffpc, fin, toggle, ffLock, qLock, events, phase, flags, fresh>>

\* AfterForkInChild and ThreadStart
AfterForkInChild(c) ==
    /\ ~flags.panicked
    /\ c \notin env.configured /\ c < glob.procs /\ ~node[c].started
    /\ notifyStart(c)
    /\ app' = [app EXCEPT ![c] = IF node[c].inFF THEN "ff" ELSE "join"]
    /\ ffpc' = [ffpc EXCEPT ![c] = "init"]
    /\ UNCHANGED <<env, fin, toggle, ffLock, qLock, events, phase>>

-----------------------------------------------------------------------------
(* The application's thread *)

Members == {p \in Procs : app[p] \in {"run", "arrived", "released", "leaveFF", "leaveEnd"}
                          /\ fin[p] # "done"}

\* The barrier: the phase ends when everyone in it has arrived.
Ends(ps, p) ==
    phase' = IF ps # {} /\ \A q \in ps : app'[q] = "arrived"
             THEN [phase EXCEPT !.pc = "pause", !.ender = p] ELSE phase

\* Mutant: a thread that joins does not look at the termination condition.
JoinUnchecked(p) ==
    /\ Acts(p) /\ app[p] = "join" /\ schedLockFree
    /\ app' = [app EXCEPT ![p] = "run"]
    /\ UNCHANGED <<env, ffpc, fin, node, glob, toggle, ffLock, qLock, events, phase, flags, fresh>>

\* Join: into the phase, or out again if the simulation is over
Join(p) ==
    /\ Acts(p) /\ app[p] = "join" /\ schedLockFree
    /\ app' = [app EXCEPT ![p] = IF flags.term THEN "leaveEnd" ELSE "run"]
    /\ UNCHANGED <<env, ffpc, fin, node, glob, toggle, ffLock, qLock, events, phase, flags, fresh>>

\* TakeBarrier: sched->sync, up to the barrier
Arrive(p) ==
    /\ Acts(p) /\ app[p] = "run" /\ schedLockFree
    /\ app' = [app EXCEPT ![p] = "arrived"]
    /\ Ends(Members, p)
    /\ UNCHANGED <<env, ffpc, fin, node, glob, toggle, ffLock, qLock, events, flags, fresh>>

\* TakeBarrier: after the barrier
TakeBarrier(p) ==
    /\ Acts(p) /\ app[p] = "released"
    /\ app' = [app EXCEPT ![p] = IF node[p].inFF THEN "leaveFF"
                                 ELSE IF flags.term THEN "leaveEnd" ELSE "run"]
    /\ UNCHANGED <<env, ffpc, fin, node, glob, toggle, ffLock, qLock, events, phase, flags, fresh>>

\* sched->leave, which ends the phase if everyone else has arrived
Leave(p) ==
    /\ Acts(p) /\ app[p] \in {"leaveFF", "leaveEnd"} /\ schedLockFree
    /\ app' = [app EXCEPT ![p] = IF @ = "leaveFF" THEN "ff" ELSE "end"]
    /\ Ends(Members \ {p}, p)
    /\ UNCHANGED <<env, ffpc, fin, node, glob, toggle, ffLock, qLock, events, flags, fresh>>

\* SyscallEnter: the thread leaves the phase.
SyscallEnter(p) ==
    /\ Acts(p) /\ p \in env.syscalls /\ app[p] = "run" /\ schedLockFree
    /\ app' = [app EXCEPT ![p] = "sys"]
    /\ Ends(Members \ {p}, p)
    /\ UNCHANGED <<env, ffpc, fin, node, glob, toggle, ffLock, qLock, events, flags, fresh>>

\* SyscallExit, of a thread that was simulated or fast-forwarded
SyscallExit(p) ==
    /\ Acts(p)
    /\ app[p] = "sys" \/ (app[p] = "ff" /\ p \in env.syscalls)
    /\ app' = [app EXCEPT ![p] = IF flags.term THEN "end"
                                 ELSE IF @ = "ff" \/ node[p].inFF THEN "ff" ELSE "join"]
    /\ UNCHANGED <<env, ffpc, fin, node, glob, toggle, ffLock, qLock, events, phase, flags, fresh>>

\* FFBasicBlock: the process is no longer in fast-forward.
FFBasicBlock(p) ==
    /\ Acts(p) /\ app[p] = "ff" /\ p \notin env.ffi /\ ~node[p].inFF
    /\ app' = [app EXCEPT ![p] = "join"]
    /\ UNCHANGED <<env, ffpc, fin, node, glob, toggle, ffLock, qLock, events, phase, flags, fresh>>

\* FFIEntryBasicBlock and FFIBasicBlock, at the instruction that reaches the
\* next point: the last one ends the process.
FFIBasicBlock(p) ==
    /\ Acts(p) /\ app[p] = "ff" /\ p \in env.ffi
    /\ \/ /\ ffLock = None
          /\ node[p].inFF
          /\ exitFastForward(p)
          /\ app' = [app EXCEPT ![p] = "track"]
          /\ UNCHANGED flags
       \/ /\ ~node[p].inFF
          /\ panic
          /\ UNCHANGED <<app, node, glob, fresh>>
       \/ /\ app' = [app EXCEPT ![p] = "end"]
          /\ UNCHANGED <<node, glob, flags, fresh>>
    /\ UNCHANGED <<env, ffpc, fin, toggle, ffLock, qLock, events, phase>>

\* FFITrackNFFInterval: queue the event that counts the instructions up to
\* the next fast-forward, a period of at least one phase.
FFITrackNFFInterval(p) ==
    /\ Acts(p) /\ app[p] = "track" /\ qLockFree
    /\ events' = events \cup {[kind |-> "ffi", p |-> p, due |-> 1]}
    /\ app' = [app EXCEPT ![p] = "join"]
    /\ UNCHANGED <<env, ffpc, fin, node, glob, toggle, ffLock, qLock, phase, flags, fresh>>

\* HandleMagicOp, ROI_BEGIN
ROIBegin(p) ==
    /\ Acts(p) /\ p \in env.hooks /\ app[p] \in {"run", "ff"}
    /\ ffLock = None
    /\ node[p].inFF
    /\ exitFastForward(p)
    /\ UNCHANGED <<env, app, ffpc, fin, toggle, ffLock, qLock, events, phase, flags>>

\* HandleMagicOp, ROI_END
ROIEnd(p) ==
    /\ Acts(p) /\ p \in env.hooks /\ app[p] \in {"run", "ff"}
    /\ ffLock = None
    /\ ~Synced(p) /\ ~node[p].inFF
    /\ enterFastForward(p)
    /\ UNCHANGED <<env, app, ffpc, fin, toggle, ffLock, qLock, events, phase, flags>>

\* HandleMagicOp, HEARTBEAT: the beat that reaches the target dumps stats at
\* the end of the phase.
Heartbeat(p) ==
    /\ Acts(p) /\ p \in env.beats /\ app[p] = "run" /\ qLockFree
    /\ events' = events \cup {[kind |-> "beat", p |-> p, due |-> 0]}
    /\ UNCHANGED <<env, app, ffpc, fin, node, glob, toggle, ffLock, qLock, phase, flags, fresh>>

\* The program exits: the exit system call leaves the phase.
Exit(p) ==
    /\ Acts(p) /\ p \in env.ends /\ app[p] \in {"run", "ff"}
    /\ app' = [app EXCEPT ![p] = IF @ = "run" THEN "leaveEnd" ELSE "end"]
    /\ UNCHANGED <<env, ffpc, fin, node, glob, toggle, ffLock, qLock, events, phase, flags, fresh>>

-----------------------------------------------------------------------------
(* SimEnd *)

\* The thread that wins perProcessEndFlag ends the process; the other waits
\* to be ended.  The callers are the application's thread, FFThread when it
\* finds the simulation over, and in process 0 the scheduler's watchdog.
SimEnd(p) ==
    /\ fin[p] = "no" /\ ~flags.panicked
    /\ \/ /\ app[p] = "end" /\ Acts(p)
          /\ UNCHANGED ffpc
       \/ /\ ffpc[p] = "wait" /\ ~toggle[p] /\ flags.term
          /\ phase.ender = p => env.windows
          /\ ffpc' = [ffpc EXCEPT ![p] = "end"]
       \/ /\ p = 0 /\ flags.term /\ schedLockFree
          /\ UNCHANGED ffpc
    /\ fin' = [fin EXCEPT ![p] = "check"]
    /\ UNCHANGED <<env, app, node, glob, toggle, ffLock, qLock, events, phase, flags, fresh>>

\* notifyEnd: if (inFastForward) exitFastForward(), which takes no lock
NotifyEndCheck(p) ==
    /\ fin[p] = "check" /\ ~flags.panicked
    /\ fin' = [fin EXCEPT ![p] = IF node[p].inFF THEN "exitFF" ELSE "notify"]
    /\ UNCHANGED <<env, app, ffpc, node, glob, toggle, ffLock, qLock, events, phase, flags, fresh>>

NotifyEndExitFF(p) ==
    /\ fin[p] = "exitFF" /\ ~flags.panicked
    /\ \/ /\ node[p].inFF
          /\ exitFastForward(p)
          /\ fin' = [fin EXCEPT ![p] = "notify"]
          /\ UNCHANGED flags
       \/ /\ ~node[p].inFF
          /\ panic
          /\ UNCHANGED <<node, glob, fresh, fin>>
    /\ UNCHANGED <<env, app, ffpc, toggle, ffLock, qLock, events, phase>>

\* Mutant: whoever has restarts left is not counted out, at a termination either.
RemainingRestarts(p) == IF node[p].restarts > 0 THEN glob.active ELSE glob.active - 1

\* Everything that was to be started has been, or the third window is open.
Serialised ==
    env.windows \/ \A q \in Procs : q \in env.configured \/ q < glob.procs => node[q].started

\* The processes left when p ends.
Remaining(p) ==
    IF node[p].restarts > 0 /\ ~flags.term THEN glob.active ELSE glob.active - 1

\* notifyEnd: restart, or one process fewer
NotifyEnd(p) ==
    /\ fin[p] = "notify" /\ ~flags.panicked
    /\ Serialised
    /\ LET again == node[p].restarts > 0 /\ ~flags.term
       IN  node' = [node EXCEPT ![p].exited = IF again THEN "RESTARTME" ELSE "EXITED",
                                ![p].restarts = IF again THEN @ - 1 ELSE @]
    /\ glob' = [glob EXCEPT !.active = Remaining(p)]
    /\ fin' = [fin EXCEPT ![p] = IF p = 0 THEN "wait0" ELSE "done"]
    /\ UNCHANGED <<env, app, ffpc, toggle, ffLock, qLock, events, phase, flags, fresh>>

\* Process 0 waits for all others, then dumps the statistics.
DumpStats ==
    /\ fin[0] = "wait0" /\ glob.active = 0 /\ ~flags.panicked
    /\ fin' = [fin EXCEPT ![0] = "done"]
    /\ flags' = [flags EXCEPT !.dumped = TRUE]
    /\ UNCHANGED <<env, app, ffpc, node, glob, toggle, ffLock, qLock, events, phase, fresh>>

-----------------------------------------------------------------------------
(* FFThread and fftoggle *)

\* fftoggle ff: toggles that FFThread has not taken yet are one.
Toggle(p) ==
    /\ p \in env.toggled /\ ~flags.panicked
    /\ ~toggle[p]
    /\ toggle' = [toggle EXCEPT ![p] = TRUE]
    /\ UNCHANGED <<env, app, ffpc, fin, node, glob, ffLock, qLock, events, phase, flags, fresh>>

\* fftoggle globpause
GlobPause ==
    /\ env.pauses /\ ~flags.panicked
    /\ flags' = [flags EXCEPT !.pause = ~@]
    /\ UNCHANGED <<env, app, ffpc, fin, node, glob, toggle, ffLock, qLock, events, phase, fresh>>

FFActs(p, pc) == ffpc[p] = pc /\ Alive(p)

\* The first lock is for initialisation; every other one is a toggle.
FFTake(p) ==
    /\ FFActs(p, "init") \/ FFActs(p, "wait")
    /\ toggle[p]
    /\ toggle' = [toggle EXCEPT ![p] = FALSE]
    /\ ffpc' = [ffpc EXCEPT ![p] = IF @ = "init" THEN "wait" ELSE "lock"]
    /\ UNCHANGED <<env, app, fin, node, glob, ffLock, qLock, events, phase, flags, fresh>>

\* In fast-forward the toggle is an exit, at once.
FFExit(p) ==
    /\ FFActs(p, "lock")
    /\ ffLock = None
    /\ node[p].inFF
    /\ exitFastForward(p)
    /\ ffpc' = [ffpc EXCEPT ![p] = "wait"]
    /\ UNCHANGED <<env, app, fin, toggle, ffLock, qLock, events, phase, flags>>

\* Otherwise it queues an event, with ffLock held.
FFLock(p) ==
    /\ FFActs(p, "lock")
    /\ ffLock = None
    /\ ~node[p].inFF
    /\ ffLock' = p
    /\ ffpc' = [ffpc EXCEPT ![p] = "insert"]
    /\ UNCHANGED <<env, app, fin, node, glob, toggle, qLock, events, phase, flags, fresh>>

\* Mutant: ffLock is kept until the event has been served.
FFInsertLocked(p) ==
    /\ FFActs(p, "insert")
    /\ qLockFree
    /\ events' = events \cup {[kind |-> "sync", p |-> p, due |-> 0]}
    /\ ffpc' = [ffpc EXCEPT ![p] = "sync"]
    /\ UNCHANGED <<env, app, fin, node, glob, toggle, ffLock, qLock, phase, flags, fresh>>

FFInsert(p) ==
    /\ FFActs(p, "insert")
    /\ qLockFree
    /\ events' = events \cup {[kind |-> "sync", p |-> p, due |-> 0]}
    /\ ffLock' = None
    /\ ffpc' = [ffpc EXCEPT ![p] = "sync"]
    /\ UNCHANGED <<env, app, fin, node, glob, toggle, qLock, phase, flags, fresh>>

\* syncEv->wait returns
FFWait(p) ==
    /\ FFActs(p, "sync")
    /\ phase.pc = "callback" /\ phase.p = p
    /\ ffpc' = [ffpc EXCEPT ![p] = "relock"]
    /\ UNCHANGED <<env, app, fin, node, glob, toggle, ffLock, qLock, events, phase, flags, fresh>>

\* Mutant: a process that is in fast-forward already lets the phase wait.
FFEnterNoSignal(p) ==
    /\ FFActs(p, "relock")
    /\ ffLock = None
    /\ IF node[p].inFF THEN UNCHANGED <<node, glob, fresh, phase>>
       ELSE enterFastForward(p) /\ phase' = [phase EXCEPT !.pc = "fire", !.p = None]
    /\ ffpc' = [ffpc EXCEPT ![p] = "wait"]
    /\ UNCHANGED <<env, app, fin, toggle, ffLock, qLock, events, flags>>

\* Enter fast-forward, unless the program has, and let the phase go on.
FFEnter(p) ==
    /\ FFActs(p, "relock")
    /\ ffLock = None
    /\ IF node[p].inFF THEN UNCHANGED <<node, glob, fresh>> ELSE enterFastForward(p)
    /\ phase' = [phase EXCEPT !.pc = "fire", !.p = None]
    /\ ffpc' = [ffpc EXCEPT ![p] = "wait"]
    /\ UNCHANGED <<env, app, fin, toggle, ffLock, qLock, events, flags>>

-----------------------------------------------------------------------------
(* EndOfPhaseActions and EventQueue::tick *)

\* The thread that ends the phase is alive.
Ending(pc) ==
    phase.pc = pc /\ fin[phase.ender] # "done" /\ ~flags.panicked

WaitPause ==
    /\ Ending("pause")
    /\ ~flags.pause
    /\ phase' = [phase EXCEPT !.pc = "synced"]
    /\ UNCHANGED <<env, app, ffpc, fin, node, glob, toggle, ffLock, qLock, events, flags, fresh>>

\* Mutant: synced fast-forwarding does not hold the phase.
WaitSyncedNot ==
    /\ Ending("synced")
    /\ phase' = [phase EXCEPT !.pc = "term"]
    /\ UNCHANGED <<env, app, ffpc, fin, node, glob, toggle, ffLock, qLock, events, flags, fresh>>

WaitSynced ==
    /\ Ending("synced")
    /\ glob.synced = 0
    /\ phase' = [phase EXCEPT !.pc = "term"]
    /\ UNCHANGED <<env, app, ffpc, fin, node, glob, toggle, ffLock, qLock, events, flags, fresh>>

\* CheckForTermination, whose limits may be reached in any phase; then
\* simulatePhase, which shares no state with the rest.
CheckForTermination ==
    /\ Ending("term")
    /\ \/ flags.term /\ panic
       \/ ~flags.term /\ UNCHANGED flags
       \/ ~flags.term /\ env.terminates /\ flags' = [flags EXCEPT !.term = TRUE]
    /\ phase' = [phase EXCEPT !.pc = "tick"]
    /\ UNCHANGED <<env, app, ffpc, fin, node, glob, toggle, ffLock, qLock, events, fresh>>

tick ==
    /\ Ending("tick")
    /\ qLock = None
    /\ qLock' = "tick"
    /\ phase' = [phase EXCEPT !.pc = "fire"]
    /\ UNCHANGED <<env, app, ffpc, fin, node, glob, toggle, ffLock, events, flags, fresh>>

\* The first event of the map, if it is due.  One of an earlier phase is a
\* panic; among those of this phase the order is the order of insertion.
Fire ==
    /\ Ending("fire")
    /\ \E ev \in events :
         /\ ev.due <= 0
         /\ \A o \in events : ev.due <= o.due
         /\ events' = events \ {ev}
         /\ \/ /\ ev.due < 0
               /\ panic
               /\ UNCHANGED phase
            \/ /\ ev.due = 0 /\ ev.kind = "sync"
               /\ phase' = [phase EXCEPT !.pc = "callback", !.p = ev.p]
               /\ UNCHANGED flags
            \/ /\ ev.due = 0 /\ ev.kind = "beat"
               /\ \/ UNCHANGED flags
                  \/ env.terminates /\ flags' = [flags EXCEPT !.term = TRUE]
               /\ UNCHANGED phase
            \/ /\ ev.due = 0 /\ ev.kind = "ffi"
               /\ phase' = [phase EXCEPT !.pc = "ffi", !.p = ev.p]
               /\ UNCHANGED flags
    /\ UNCHANGED <<env, app, ffpc, fin, node, glob, toggle, ffLock, qLock, fresh>>

\* AdaptiveEvent::callback: the point is reached and ffiFire enters fast-
\* forward under ffLock, or the event is queued again for a later phase.
FireFFI ==
    LET p == phase.p
    IN  /\ Ending("ffi")
        /\ \/ /\ ffLock = None
              /\ \/ ~node[p].inFF /\ enterFastForward(p) /\ UNCHANGED flags
                 \/ node[p].inFF /\ panic /\ UNCHANGED <<node, glob, fresh>>
              /\ UNCHANGED events
           \/ /\ events' = events \cup {[kind |-> "ffi", p |-> p, due |-> 1]}
              /\ UNCHANGED <<node, glob, fresh, flags>>
        /\ phase' = [phase EXCEPT !.pc = "fire", !.p = None]
        /\ UNCHANGED <<env, app, ffpc, fin, toggle, ffLock, qLock>>

\* tick is done when no event is due.
TickDone ==
    /\ Ending("fire")
    /\ \A ev \in events : ev.due > 0
    /\ qLock' = None
    /\ phase' = [phase EXCEPT !.pc = "count"]
    /\ UNCHANGED <<env, app, ffpc, fin, node, glob, toggle, ffLock, events, flags, fresh>>

\* Scheduler::callback after EndOfPhaseActions: numPhases++, and the barrier
\* lets everyone go.
CountPhase ==
    /\ Ending("count")
    /\ events' = {[ev EXCEPT !.due = @ - 1] : ev \in events}
    /\ app' = [p \in Procs |-> IF app[p] = "arrived" THEN "released" ELSE app[p]]
    /\ phase' = [pc |-> "none", ender |-> None, p |-> None]
    /\ fresh' = {}
    /\ UNCHANGED <<env, ffpc, fin, node, glob, toggle, ffLock, qLock, flags>>

-----------------------------------------------------------------------------
EndOfPhaseActions ==
    WaitPause \/ WaitSynced \/ CheckForTermination \/ tick \/ Fire \/ FireFFI \/ TickDone \/ CountPhase

FFThread(p) == FFTake(p) \/ FFExit(p) \/ FFLock(p) \/ FFInsert(p) \/ FFWait(p) \/ FFEnter(p)

\* What the application's thread does without the program's choosing to.
AppStep(p) == Join(p) \/ Arrive(p) \/ TakeBarrier(p) \/ Leave(p) \/ FFBasicBlock(p)
              \/ FFITrackNFFInterval(p)

EndStep(p) == SimEnd(p) \/ NotifyEndCheck(p) \/ NotifyEndExitFF(p) \/ NotifyEnd(p)

\* What programs, users and the harness choose to do.
Choice(p) ==
    \/ Start(p) \/ Restart(p) \/ BeforeFork(p) \/ AfterForkInChild(p) \/ FFIBasicBlock(p)
    \/ SyscallEnter(p) \/ SyscallExit(p) \/ ROIBegin(p) \/ ROIEnd(p) \/ Heartbeat(p)
    \/ Exit(p) \/ Toggle(p)

Next ==
    \/ EndOfPhaseActions \/ DumpStats \/ GlobPause
    \/ \E p \in Procs : FFThread(p) \/ AppStep(p) \/ EndStep(p) \/ Choice(p)

\* When the threads can take a step.
FFReady(p) ==
    /\ Alive(p)
    /\ CASE ffpc[p] \in {"init", "wait"} -> toggle[p]
         [] ffpc[p] \in {"lock", "relock"} -> ffLock = None
         [] ffpc[p] = "insert" -> qLockFree
         [] ffpc[p] = "sync" -> phase.pc = "callback" /\ phase.p = p
         [] OTHER -> FALSE

\* qLock is taken by the end of every phase.
InsertReady == \E p \in Procs : FFActs(p, "insert") /\ qLockFree

AppReady(p) ==
    /\ Acts(p)
    /\ CASE app[p] \in {"join", "run", "leaveFF", "leaveEnd"} -> schedLockFree
         [] app[p] = "track" -> qLockFree
         [] app[p] = "ff" -> p \notin env.ffi /\ ~node[p].inFF
         [] OTHER -> app[p] = "released"

EndReady(p) ==
    /\ ~flags.panicked
    /\ CASE fin[p] = "no" -> \/ app[p] = "end" /\ Acts(p)
                             \/ ffpc[p] = "wait" /\ ~toggle[p] /\ flags.term /\ phase.ender # p
         [] fin[p] = "notify" -> Serialised
         [] fin[p] = "wait0" -> glob.active = 0
         [] fin[p] = "done" -> node[p].exited = "RESTARTME"
         [] OTHER -> TRUE

StartReady(p) == ~flags.panicked /\ ~node[p].started /\ (p \in env.configured \/ p < glob.procs)

PhaseReady ==
    /\ phase.pc # "none" /\ Ending(phase.pc)
    /\ CASE phase.pc = "pause" -> ~flags.pause
         [] phase.pc = "synced" -> glob.synced = 0
         [] phase.pc = "tick" -> qLock = None
         [] phase.pc = "ffi" -> ffLock = None
         [] OTHER -> phase.pc # "callback"

\* The simulator's threads keep running, a thread that waits for qLock gets it
\* if it is free again and again, and the harness launches what it has to;
\* programs and users choose freely.
Fairness ==
    /\ []<>~PhaseReady \/ []<><<TRUE>>_<<phase, qLock, IF qLock = None THEN {} ELSE events>>
    /\ <>[]~InsertReady \/ []<><<TRUE>>_ffpc
    /\ \A p \in Procs :
         /\ []<>~FFReady(p) \/ []<><<TRUE>>_(ffpc[p])
         /\ []<>~AppReady(p) \/ []<><<TRUE>>_(app[p])
         /\ []<>~EndReady(p) \/ []<><<TRUE>>_(fin[p])
         /\ []<>~StartReady(p) \/ []<><<TRUE>>_(node[p].started)

Spec == Init /\ [][Next]_vars /\ Fairness

-----------------------------------------------------------------------------
(* Properties *)

\* No panic and no failed assertion: no event is left for an earlier phase
\* ("First event should have ticked on phase"), fast-forward is entered from
\* outside and left from inside it only, no phase ends after the one that met
\* the termination condition (CheckForTermination), and no process starts
\* after all others have ended.
NoPanic == ~flags.panicked

\* The processes the counters are about: started, and not yet ended.
Counted == {p \in Procs : node[p].started}

\* "count of processes that are in synced FF", "in either synced or unsynced
\* FF" (zsim.h), globalActiveProcs "used for termination": the counters that
\* the end of a phase and process 0 wait for are exact, although they are
\* updated by the programs, the toggle threads, the end of phase and exits.
CountsExact ==
    /\ glob.FF = Cardinality({p \in Counted : node[p].inFF})
    /\ glob.synced = Cardinality({p \in Counted : node[p].inFF /\ Synced(p)})
    /\ glob.active = Cardinality({p \in Counted : node[p].exited # "EXITED"})

\* Synced fast-forwarding holds the simulation: when a phase ends, whoever is
\* in synced fast-forward entered it at the end of that very phase.
SyncedHoldsPhase ==
    [][phase.pc = "count" /\ phase'.pc = "none" =>
         \A p \in Counted : node[p].inFF /\ Synced(p) => p \in fresh]_vars

\* The end of a phase completes unless the user pauses it or synced fast-
\* forwarding holds it: the event queue's and the fast-forward lock and the
\* hand-shake of SyncEvent leave nobody waiting.
PhaseCompletes ==
    phase.ender # None ~> (phase.ender = None \/ flags.pause \/ glob.synced > 0)

\* A toggle that FFThread has taken is carried out, at the end of a phase at
\* the latest: as long as someone is simulated and nothing holds the phase.
ToggleServed ==
    \A p \in Procs :
        ffpc[p] \in {"lock", "insert", "sync", "relock"} ~>
            (ffpc[p] = "wait" \/ fin[p] = "done" \/ Members = {} \/ flags.pause \/ glob.synced > 0)

\* A simulation whose termination condition is met ends every process,
\* wherever it is, and dumps its statistics.
TerminationCompletes == flags.term ~> flags.dumped
=============================================================================

-------------------------- MODULE FastForwardProofs --------------------------
(***************************************************************************)
(* Safety of fast-forwarding and of process life cycles, for any finite    *)
(* set of processes and any environment, with the hypotheses on the        *)
(* environment that the code needs named where they are needed.            *)
(***************************************************************************)
EXTENDS FastForward, FiniteSetTheorems, TLAPS

Node == [inFF : BOOLEAN, started : BOOLEAN, restarts : Nat,
         exited : {"RUNNING", "EXITED", "RESTARTME"}]

\* A process that has not started does nothing, one that has was configured or
\* forked, and one that has not been counted out is running; events and the
\* callbacks of the end of a phase are about started processes.
LifeInv ==
    /\ node[0].started
    /\ ~flags.panicked =>
           \A p \in Procs : ~node[p].started => app[p] = "out" /\ ffpc[p] = "none" /\ fin[p] = "no"
    /\ \A p \in Procs : node[p].started => p \in env.configured \/ p < glob.procs
    /\ \A p \in Procs : fin[p] \notin {"wait0", "done"} => node[p].exited = "RUNNING"
    /\ \A ev \in events : node[ev.p].started
    /\ phase.pc \in {"callback", "ffi"} => phase.p \in Procs /\ node[phase.p].started
    /\ phase.pc # "none" => phase.ender \in Procs
    /\ Cardinality(env.configured) <= glob.procs

\* Between tick and numPhases++ no event is overdue.
DueInv == phase.pc = "count" => \A ev \in events : ev.due >= 0

TInv == FFTypeOK /\ LifeInv /\ DueInv

\* Whoever SyncEvent has woken is the one the end of the phase waits for.
Handshake == \A p \in Procs : ffpc[p] = "relock" => phase.pc = "callback" /\ phase.p = p

-----------------------------------------------------------------------------
(* Types and lives *)

LEMMA EnvFacts ==
  ASSUME env \in Envs
  PROVE  /\ env \in Environment /\ 0 \in env.configured
         /\ env.configured \subseteq Procs
         /\ env.restarts \in [Procs -> Nat]
         /\ Cardinality(env.configured) \in Nat
         /\ env.windows \in BOOLEAN
  <1>1. env \in Environment /\ 0 \in env.configured
    BY EnvsAssumption
  <1>2. env.configured \subseteq Procs /\ env.restarts \in [Procs -> Nat] /\ env.windows \in BOOLEAN
    BY <1>1 DEF Environment
  <1>3. Cardinality(env.configured) \in Nat
    BY <1>2, ProcsAssumption, FS_Subset, FS_CardinalityType
  <1>4. QED
    BY <1>1, <1>2, <1>3

LEMMA InitTInv == Init => TInv
  <1> SUFFICES ASSUME Init PROVE TInv
    OBVIOUS
  <1>1. /\ env \in Envs /\ env.restarts \in [Procs -> Nat] /\ Cardinality(env.configured) \in Nat
        /\ 0 \in env.configured
    BY EnvFacts DEF Init
  <1>2. FFTypeOK
    <2>1. app \in [Procs -> AppPC] /\ ffpc \in [Procs -> FFPC] /\ fin \in [Procs -> FinPC]
      BY DEF Init, AppPC, FFPC, FinPC
    <2>2. node \in [Procs -> Node]
      BY <1>1 DEF Init, Node
    <2>3. glob \in [FF : Int, synced : Int, active : Int, procs : Nat]
      BY <1>1 DEF Init
    <2>4. fresh \subseteq Procs
      BY ProcsAssumption DEF Init
    <2>5. QED
      BY <1>1, <2>1, <2>2, <2>3, <2>4 DEF Init, FFTypeOK, Node, PhasePC
  <1>3. LifeInv
    <2>1. \A p \in Procs : (node[p].started <=> p = 0) /\ node[p].exited = "RUNNING"
      BY DEF Init
    <2>2. \A p \in Procs : p # 0 => app[p] = "out" /\ ffpc[p] = "none" /\ fin[p] = "no"
      BY DEF Init
    <2>3. phase.pc = "none" /\ events = {} /\ glob.procs = Cardinality(env.configured)
      BY DEF Init
    <2>4. QED
      BY <1>1, <2>1, <2>2, <2>3, ProcsAssumption DEF LifeInv
  <1>4. QED
    BY <1>2, <1>3 DEF TInv, DueInv, Init

\* What the updates of a node and of the counters have in common: they concern
\* one process, and the counters follow it.
Glob == [FF : Int, synced : Int, active : Int, procs : Nat]
Bit(b) == IF b THEN 1 ELSE 0
InFF(p) == node[p].started /\ node[p].inFF
Active(p) == node[p].started /\ node[p].exited # "EXITED"

Recounts(p) ==
    /\ node' \in [Procs -> Node] /\ \A q \in Procs \ {p} : node'[q] = node[q]
    /\ glob' \in Glob /\ glob'.procs = glob.procs
    /\ glob'.FF = glob.FF + Bit(InFF(p)') - Bit(InFF(p))
    /\ glob'.synced = glob.synced + Bit(InFF(p)' /\ Synced(p)) - Bit(InFF(p) /\ Synced(p))
    /\ glob'.active = glob.active + Bit(Active(p)') - Bit(Active(p))

\* Who enters fast-forward is fresh, and stays it until the phase ends.
Freshens(p) ==
    /\ fresh' \subseteq Procs /\ \A q \in Procs \ {p} : q \in fresh => q \in fresh'
    /\ InFF(p)' => p \in fresh' \/ (InFF(p) /\ p \notin fresh)

LEMMA GlobUpdate ==
  ASSUME glob \in Glob, NEW x \in Int, NEW y \in Int, NEW z \in Int,
         glob' = [glob EXCEPT !.active = z, !.FF = x, !.synced = y]
  PROVE  /\ glob' \in Glob /\ glob'.procs = glob.procs
         /\ glob'.FF = x /\ glob'.synced = y /\ glob'.active = z
  <1> DEFINE g == [glob EXCEPT !.active = z]
             h == [g EXCEPT !.FF = x]
  <1>1. g \in Glob /\ g.procs = glob.procs /\ g.active = z
    BY DEF Glob
  <1> HIDE DEF g
  <1>2. h \in Glob /\ h.procs = glob.procs /\ h.active = z /\ h.FF = x
    BY <1>1 DEF Glob
  <1>3. glob' = [h EXCEPT !.synced = y]
    BY DEF g
  <1> HIDE DEF h
  <1>4. QED
    BY <1>2, <1>3 DEF Glob

LEMMA Entering ==
  ASSUME FFTypeOK, NEW p \in Procs, node[p].started, ~node[p].inFF, enterFastForward(p)
  PROVE  Recounts(p) /\ Freshens(p) /\ node'[p] = [node[p] EXCEPT !.inFF = TRUE]
  <1>1. node \in [Procs -> Node] /\ glob \in Glob /\ fresh \subseteq Procs
    BY DEF FFTypeOK, Node, Glob
  <1>2. node' = [node EXCEPT ![p].inFF = TRUE]
    BY DEF enterFastForward
  <1>3. node'[p] = [node[p] EXCEPT !.inFF = TRUE] /\ node'[p] \in Node
    BY <1>1, <1>2 DEF Node
  <1>4. node' \in [Procs -> Node] /\ \A q \in Procs \ {p} : node'[q] = node[q]
    BY <1>1, <1>2, <1>3
  <1>5. InFF(p)' /\ ~InFF(p) /\ (Active(p)' <=> Active(p))
    BY <1>1, <1>3 DEF InFF, Active, Node
  <1>6. /\ glob' \in Glob /\ glob'.procs = glob.procs
        /\ glob'.FF = glob.FF + 1 /\ glob'.active = glob.active
        /\ glob'.synced = glob.synced + Bit(Synced(p))
    <2>1. CASE Synced(p)
      <3>1. glob' = [FF |-> glob.FF + 1, synced |-> glob.synced + 1,
                     active |-> glob.active, procs |-> glob.procs]
        BY <1>1, <2>1 DEF enterFastForward, Glob
      <3>2. QED
        BY <1>1, <2>1, <3>1 DEF Glob, Bit
    <2>2. CASE ~Synced(p)
      <3>1. glob' = [FF |-> glob.FF + 1, synced |-> glob.synced,
                     active |-> glob.active, procs |-> glob.procs]
        BY <1>1, <2>2 DEF enterFastForward, Glob
      <3>2. QED
        BY <1>1, <2>2, <3>1 DEF Glob, Bit
    <2>3. QED
      BY <2>1, <2>2
  <1>7. Recounts(p)
    BY <1>1, <1>4, <1>5, <1>6 DEF Recounts, Bit, Glob
  <1>8. QED
    BY <1>1, <1>3, <1>5, <1>7 DEF Freshens, enterFastForward

LEMMA Exiting ==
  ASSUME FFTypeOK, NEW p \in Procs, node[p].started, node[p].inFF, exitFastForward(p)
  PROVE  Recounts(p) /\ Freshens(p) /\ node'[p] = [node[p] EXCEPT !.inFF = FALSE]
  <1>1. node \in [Procs -> Node] /\ glob \in Glob /\ fresh \subseteq Procs
    BY DEF FFTypeOK, Node, Glob
  <1>2. node' = [node EXCEPT ![p].inFF = FALSE]
    BY DEF exitFastForward
  <1>3. node'[p] = [node[p] EXCEPT !.inFF = FALSE] /\ node'[p] \in Node
    BY <1>1, <1>2 DEF Node
  <1>4. node' \in [Procs -> Node] /\ \A q \in Procs \ {p} : node'[q] = node[q]
    BY <1>1, <1>2, <1>3
  <1>5. ~InFF(p)' /\ InFF(p) /\ (Active(p)' <=> Active(p))
    BY <1>1, <1>3 DEF InFF, Active, Node
  <1>6. /\ glob' \in Glob /\ glob'.procs = glob.procs
        /\ glob'.FF = glob.FF - 1 /\ glob'.active = glob.active
        /\ glob'.synced = glob.synced - Bit(Synced(p))
    <2>1. CASE Synced(p)
      <3>1. glob' = [FF |-> glob.FF - 1, synced |-> glob.synced - 1,
                     active |-> glob.active, procs |-> glob.procs]
        BY <1>1, <2>1 DEF exitFastForward, Glob
      <3>2. QED
        BY <1>1, <2>1, <3>1 DEF Glob, Bit
    <2>2. CASE ~Synced(p)
      <3>1. glob' = [FF |-> glob.FF - 1, synced |-> glob.synced,
                     active |-> glob.active, procs |-> glob.procs]
        BY <1>1, <2>2 DEF exitFastForward, Glob
      <3>2. QED
        BY <1>1, <2>2, <3>1 DEF Glob, Bit
    <2>3. QED
      BY <2>1, <2>2
  <1>7. Recounts(p)
    BY <1>1, <1>4, <1>5, <1>6 DEF Recounts, Bit, Glob
  <1>8. QED
    BY <1>1, <1>3, <1>5, <1>7 DEF Freshens, exitFastForward

LEMMA Starting ==
  ASSUME FFTypeOK, NEW p \in Procs, ~node[p].started, node[p].exited = "RUNNING", glob.active > 0,
         notifyStart(p)
  PROVE  Recounts(p) /\ Freshens(p) /\ node'[p] = [node[p] EXCEPT !.started = TRUE] /\ UNCHANGED flags
  <1>1. node \in [Procs -> Node] /\ glob \in Glob /\ fresh \subseteq Procs
    BY DEF FFTypeOK, Node, Glob
  <1>2. node' = [node EXCEPT ![p].started = TRUE]
    BY <1>1 DEF notifyStart, Glob
  <1>3. node'[p] = [node[p] EXCEPT !.started = TRUE] /\ node'[p] \in Node
    BY <1>1, <1>2 DEF Node
  <1>4. node' \in [Procs -> Node] /\ \A q \in Procs \ {p} : node'[q] = node[q]
    BY <1>1, <1>2, <1>3
  <1>5. /\ InFF(p)' <=> node[p].inFF
        /\ ~InFF(p) /\ Active(p)' /\ ~Active(p)
    BY <1>1, <1>3 DEF InFF, Active, Node
  <1>6. /\ glob' \in Glob /\ glob'.procs = glob.procs
        /\ glob'.FF = glob.FF + Bit(node[p].inFF) /\ glob'.active = glob.active + 1
        /\ glob'.synced = glob.synced + Bit(node[p].inFF /\ Synced(p))
    <2> DEFINE x == IF node[p].inFF THEN glob.FF + 1 ELSE glob.FF
               y == IF node[p].inFF /\ Synced(p) THEN glob.synced + 1 ELSE glob.synced
               z == glob.active + 1
    <2>1. glob' = [glob EXCEPT !.active = @ + 1,
                               !.FF = IF node[p].inFF THEN @ + 1 ELSE @,
                               !.synced = IF node[p].inFF /\ Synced(p) THEN @ + 1 ELSE @]
      BY <1>1 DEF notifyStart, Glob
    <2>2. glob' = [glob EXCEPT !.active = z, !.FF = x, !.synced = y]
      BY <1>1, <2>1 DEF Glob
    <2>3. x \in Int /\ y \in Int /\ z \in Int
      BY <1>1 DEF Glob
    <2>4. x = glob.FF + Bit(node[p].inFF) /\ y = glob.synced + Bit(node[p].inFF /\ Synced(p))
      BY <1>1 DEF Bit, Glob
    <2> HIDE DEF x, y, z
    <2>5. /\ glob' \in Glob /\ glob'.procs = glob.procs
          /\ glob'.FF = x /\ glob'.synced = y /\ glob'.active = z
      BY <1>1, <2>2, <2>3, GlobUpdate
    <2>6. QED
      BY <2>4, <2>5 DEF z
  <1>7. Recounts(p)
    BY <1>1, <1>4, <1>5, <1>6 DEF Recounts, Bit, Glob
  <1>8. fresh' = (IF node[p].inFF THEN fresh \cup {p} ELSE fresh) /\ UNCHANGED flags
    BY <1>1 DEF notifyStart, Glob
  <1>9. QED
    BY <1>1, <1>3, <1>5, <1>7, <1>8 DEF Freshens

LEMMA Still ==
  ASSUME FFTypeOK, NEW p \in Procs, UNCHANGED <<node, glob, fresh>>
  PROVE  Recounts(p) /\ Freshens(p)
  <1>1. node \in [Procs -> Node] /\ glob \in Glob /\ fresh \subseteq Procs
    BY DEF FFTypeOK, Node, Glob
  <1>2. (InFF(p)' <=> InFF(p)) /\ (Active(p)' <=> Active(p))
    BY DEF InFF, Active
  <1>3. Recounts(p)
    BY <1>1, <1>2 DEF Recounts, Bit, Glob
  <1>4. QED
    BY <1>1, <1>2, <1>3 DEF Freshens

\* notifyEnd counts out a process that will not be restarted.
LEMMA CountingOut ==
  ASSUME FFTypeOK, NEW p \in Procs, node[p].started, node[p].exited = "RUNNING", NotifyEnd(p)
  PROVE  Recounts(p) /\ Freshens(p) /\ node'[p].started /\ (node'[p].inFF <=> node[p].inFF)
  <1> DEFINE again == node[p].restarts > 0 /\ ~flags.term
  <1>1. /\ node \in [Procs -> Node] /\ glob \in Glob /\ fresh \subseteq Procs
        /\ glob.active \in Int /\ UNCHANGED fresh
    BY DEF FFTypeOK, Node, Glob, NotifyEnd
  <1>2. node' = [node EXCEPT ![p].exited = IF again THEN "RESTARTME" ELSE "EXITED",
                            ![p].restarts = IF again THEN @ - 1 ELSE @]
    BY DEF NotifyEnd
  <1> DEFINE x == IF again THEN "RESTARTME" ELSE "EXITED"
             y == IF again THEN node[p].restarts - 1 ELSE node[p].restarts
             g == [node EXCEPT ![p].exited = x]
  <1>3. node' = [g EXCEPT ![p].restarts = y]
    BY <1>1, <1>2 DEF Node
  <1>4. x \in {"RESTARTME", "EXITED"} /\ y \in Nat /\ (x = "EXITED" <=> ~again)
    BY <1>1 DEF Node
  <1> HIDE DEF x, y
  <1>5. /\ g \in [Procs -> Node] /\ \A q \in Procs \ {p} : g[q] = node[q]
        /\ g[p].exited = x /\ (g[p].started <=> node[p].started) /\ (g[p].inFF <=> node[p].inFF)
    BY <1>1, <1>4 DEF Node
  <1> HIDE DEF g
  <1>6. node' \in [Procs -> Node] /\ \A q \in Procs \ {p} : node'[q] = node[q]
    BY <1>3, <1>4, <1>5 DEF Node
  <1>7. /\ node'[p].started /\ (node'[p].inFF <=> node[p].inFF)
        /\ node'[p].exited = x
    BY <1>3, <1>4, <1>5 DEF Node
  <1>8. InFF(p)' <=> InFF(p)
    BY <1>7 DEF InFF
  <1>9. Active(p) /\ (Active(p)' <=> again)
    BY <1>4, <1>7 DEF Active
  <1>10. glob' = [glob EXCEPT !.active = IF again THEN glob.active ELSE glob.active - 1]
    BY DEF NotifyEnd, Remaining
  <1>11. Recounts(p)
    <2>1. CASE again
      BY <1>1, <1>6, <1>8, <1>9, <1>10, <2>1 DEF Recounts, Bit, Glob
    <2>2. CASE ~again
      BY <1>1, <1>6, <1>8, <1>9, <1>10, <2>2 DEF Recounts, Bit, Glob
    <2>3. QED
      BY <2>1, <2>2
  <1>12. QED
    BY <1>1, <1>7, <1>8, <1>11 DEF Freshens

\* A restarted process was never counted out.
LEMMA Relaunching ==
  ASSUME FFTypeOK, NEW p \in Procs, Restart(p)
  PROVE  /\ Recounts(p) /\ Freshens(p)
         /\ node'[p] = [node[p] EXCEPT !.exited = "RUNNING"]
  <1>1. /\ node \in [Procs -> Node] /\ glob \in Glob /\ fresh \subseteq Procs
        /\ node[p].exited = "RESTARTME" /\ UNCHANGED <<fresh, glob>>
    BY DEF FFTypeOK, Node, Glob, Restart
  <1>2. node' = [node EXCEPT ![p].exited = "RUNNING"]
    BY DEF Restart
  <1>3. node'[p] = [node[p] EXCEPT !.exited = "RUNNING"] /\ node'[p] \in Node
    BY <1>1, <1>2 DEF Node
  <1>4. node' \in [Procs -> Node] /\ \A q \in Procs \ {p} : node'[q] = node[q]
    BY <1>1, <1>2, <1>3
  <1>5. (InFF(p)' <=> InFF(p)) /\ (Active(p)' <=> Active(p))
    BY <1>1, <1>3 DEF InFF, Active, Node
  <1>6. Recounts(p)
    BY <1>1, <1>4, <1>5 DEF Recounts, Bit, Glob
  <1>7. QED
    BY <1>1, <1>3, <1>5, <1>6 DEF Freshens

-----------------------------------------------------------------------------
(* Types and lives, step by step *)

Event == [kind : {"sync", "beat", "ffi"}, p : Procs, due : -1..1]
Phase == [pc : PhasePC, ender : Procs \cup {None}, p : Procs \cup {None}]

\* The types of what no counter depends on.
Types ==
    /\ app \in [Procs -> AppPC] /\ ffpc \in [Procs -> FFPC] /\ fin \in [Procs -> FinPC]
    /\ toggle \in [Procs -> BOOLEAN]
    /\ ffLock \in Procs \cup {None} /\ qLock \in {None, "tick"}
    /\ flags \in [pause : BOOLEAN, term : BOOLEAN, dumped : BOOLEAN, panicked : BOOLEAN]

\* The threads of a process other than p do not move.
OthersStay(p) ==
    \A q \in Procs \ {p} : app'[q] = app[q] /\ ffpc'[q] = ffpc[q] /\ fin'[q] = fin[q]

PhaseOK ==
    /\ phase \in Phase
    /\ phase.pc # "none" => phase.ender \in Procs
    /\ phase.pc \in {"callback", "ffi"} => phase.p \in Procs /\ node[phase.p].started

LEMMA TInvParts == TInv => Types /\ PhaseOK /\ events \subseteq Event /\ glob \in Glob
                           /\ node \in [Procs -> Node] /\ env \in Envs /\ fresh \subseteq Procs
  BY DEF TInv, FFTypeOK, LifeInv, Types, PhaseOK, Phase, Event, Glob, Node

LEMMA TInvStep ==
  ASSUME TInv, ~flags.panicked, NEW p \in Procs, Recounts(p), fresh' \subseteq Procs, UNCHANGED env,
         Types', OthersStay(p), node'[p].started, p \in env.configured \/ p < glob.procs,
         fin'[p] \notin {"wait0", "done"} => node'[p].exited = "RUNNING",
         events' \subseteq Event, \A ev \in events' : node'[ev.p].started,
         PhaseOK', DueInv'
  PROVE  TInv'
  <1>1. FFTypeOK'
    BY DEF TInv, FFTypeOK, Types, PhaseOK, Phase, Event, Recounts, Glob, Node
  <1>2. LifeInv'
    <2>1. /\ \A q \in Procs \ {p} : node'[q] = node[q] /\ app'[q] = app[q] /\ ffpc'[q] = ffpc[q]
                                   /\ fin'[q] = fin[q]
          /\ glob'.procs = glob.procs
      BY DEF Recounts, OthersStay
    <2>2. node'[0].started
      BY <2>1, ProcsAssumption DEF TInv, LifeInv
    <2>3. \A q \in Procs : ~node'[q].started => app'[q] = "out" /\ ffpc'[q] = "none" /\ fin'[q] = "no"
      BY <2>1 DEF TInv, LifeInv
    <2>4. \A q \in Procs : node'[q].started => q \in env'.configured \/ q < glob'.procs
      BY <2>1 DEF TInv, LifeInv
    <2>5. \A q \in Procs : fin'[q] \notin {"wait0", "done"} => node'[q].exited = "RUNNING"
      BY <2>1 DEF TInv, LifeInv
    <2>6. Cardinality(env'.configured) <= glob'.procs
      BY <2>1 DEF TInv, LifeInv
    <2>7. QED
      BY <2>2, <2>3, <2>4, <2>5, <2>6 DEF LifeInv, PhaseOK
  <1>3. QED
    BY <1>1, <1>2 DEF TInv

Recounted == \E p \in Procs : Recounts(p) /\ Freshens(p)

\* Steps that change no node, counter, event or phase.
LEMMA QuietStep ==
  ASSUME TInv, ~flags.panicked, NEW p \in Procs, node[p].started, Types', OthersStay(p),
         \/ fin'[p] = fin[p]
         \/ fin[p] \notin {"wait0", "done"}
         \/ fin'[p] \in {"wait0", "done"},
         UNCHANGED <<env, node, glob, events, phase, fresh>>
  PROVE  TInv' /\ Recounted
  <1>1. Recounts(p) /\ Freshens(p)
    BY Still DEF TInv
  <1>2. PhaseOK' /\ events' \subseteq Event /\ fresh' \subseteq Procs
    BY TInvParts DEF PhaseOK
  <1>3. DueInv'
    BY DEF TInv, DueInv
  <1>4. fin'[p] \notin {"wait0", "done"} => node'[p].exited = "RUNNING"
    BY DEF TInv, LifeInv
  <1>5. /\ node'[p].started /\ (p \in env.configured \/ p < glob.procs)
        /\ \A ev \in events' : node'[ev.p].started
    BY DEF TInv, LifeInv
  <1>6. TInv'
    BY <1>1, <1>2, <1>3, <1>4, <1>5, TInvStep
  <1>7. QED
    BY <1>1, <1>6 DEF Recounted

LEMMA ThreadSteps ==
  ASSUME TInv, NEW p \in Procs,
         \/ Join(p) \/ TakeBarrier(p) \/ SyscallExit(p) \/ FFBasicBlock(p) \/ Exit(p)
         \/ SimEnd(p) \/ NotifyEndCheck(p) \/ FFTake(p) \/ FFLock(p) \/ FFWait(p)
  PROVE  TInv' /\ Recounted
  <1>1. Types
    BY TInvParts
  <1>2. UNCHANGED <<env, node, glob, events, phase, fresh, flags, qLock>>
    BY DEF Join, TakeBarrier, SyscallExit, FFBasicBlock, Exit, SimEnd, NotifyEndCheck, FFTake, FFLock, FFWait
  <1>3. node[p].started /\ ~flags.panicked
    <2>1. /\ app[p] # "out" \/ ffpc[p] # "none" \/ fin[p] # "no" \/ p = 0
          /\ ~flags.panicked
      BY DEF Join, TakeBarrier, SyscallExit, FFBasicBlock, Exit, SimEnd, NotifyEndCheck, FFTake,
             FFLock, FFWait, FFActs, Acts, Alive
    <2>2. QED
      BY <2>1 DEF TInv, LifeInv
  <1>4. Types' /\ OthersStay(p)
    <2>1. CASE Join(p) \/ TakeBarrier(p) \/ SyscallExit(p) \/ FFBasicBlock(p) \/ Exit(p)
      BY <1>1, <2>1 DEF Types, OthersStay, Join, TakeBarrier, SyscallExit, FFBasicBlock, Exit, AppPC
    <2>2. CASE SimEnd(p) \/ NotifyEndCheck(p)
      BY <1>1, <2>2 DEF Types, OthersStay, SimEnd, NotifyEndCheck, FFPC, FinPC
    <2>3. CASE FFTake(p) \/ FFLock(p) \/ FFWait(p)
      BY <1>1, <2>3 DEF Types, OthersStay, FFTake, FFLock, FFWait, FFPC
    <2>4. QED
      BY <2>1, <2>2, <2>3
  <1>5. fin'[p] = fin[p] \/ fin[p] \notin {"wait0", "done"}
    BY DEF Join, TakeBarrier, SyscallExit, FFBasicBlock, Exit, SimEnd, NotifyEndCheck, FFTake, FFLock, FFWait
  <1>6. QED
    BY <1>2, <1>3, <1>4, <1>5, QuietStep

LEMMA OtherSteps ==
  ASSUME TInv, DumpStats \/ GlobPause \/ \E p \in Procs : Toggle(p)
  PROVE  TInv' /\ Recounted
  <1>1. Types /\ 0 \in Procs
    BY TInvParts, ProcsAssumption
  <1>2. UNCHANGED <<env, node, glob, events, phase, fresh, app, ffpc, qLock, ffLock>>
    BY DEF DumpStats, GlobPause, Toggle
  <1>3. node[0].started /\ ~flags.panicked
    BY DEF TInv, LifeInv, DumpStats, GlobPause, Toggle
  <1>4. Types' /\ OthersStay(0)
    BY <1>1 DEF Types, OthersStay, DumpStats, GlobPause, Toggle, FinPC
  <1>5. fin'[0] = fin[0] \/ fin'[0] \in {"wait0", "done"}
    BY <1>1 DEF Types, DumpStats, GlobPause, Toggle
  <1>6. QED
    BY <1>1, <1>2, <1>3, <1>4, <1>5, QuietStep

\* Steps that touch the queue or the phase, and no node.
LEMMA QueueStep ==
  ASSUME TInv, ~flags.panicked, NEW p \in Procs, node[p].started, Types', OthersStay(p), UNCHANGED <<env, node, glob, fin, fresh>>,
         events' \subseteq Event, \A ev \in events' : node[ev.p].started, PhaseOK', DueInv'
  PROVE  TInv' /\ Recounted
  <1>1. Recounts(p) /\ Freshens(p)
    BY Still DEF TInv
  <1>2. fresh' \subseteq Procs
    BY TInvParts
  <1>3. /\ fin'[p] \notin {"wait0", "done"} => node'[p].exited = "RUNNING"
        /\ node'[p].started /\ (p \in env.configured \/ p < glob.procs)
        /\ \A ev \in events' : node'[ev.p].started
    BY DEF TInv, LifeInv
  <1>4. TInv'
    BY <1>1, <1>2, <1>3, TInvStep
  <1>5. QED
    BY <1>1, <1>4 DEF Recounted

LEMMA BarrierSteps ==
  ASSUME TInv, NEW p \in Procs, Arrive(p) \/ Leave(p) \/ SyscallEnter(p)
  PROVE  TInv' /\ Recounted
  <1>1. Types /\ PhaseOK /\ events \subseteq Event
    BY TInvParts
  <1>2. node[p].started /\ phase.ender = None /\ ~flags.panicked
    BY DEF TInv, LifeInv, Arrive, Leave, SyscallEnter, schedLockFree, Acts, Alive
  <1>3. UNCHANGED <<env, node, glob, events, fresh, fin>>
    BY DEF Arrive, Leave, SyscallEnter
  <1>4. Types' /\ OthersStay(p)
    BY <1>1 DEF Types, OthersStay, Arrive, Leave, SyscallEnter, AppPC
  <1>5. phase' = phase \/ phase' = [phase EXCEPT !.pc = "pause", !.ender = p]
    BY DEF Arrive, Leave, SyscallEnter, Ends
  <1>6. PhaseOK' /\ (phase'.pc = "count" => phase.pc = "count")
    BY <1>1, <1>3, <1>5 DEF PhaseOK, Phase, PhasePC
  <1>7. DueInv' /\ \A ev \in events' : node[ev.p].started
    BY <1>3, <1>6 DEF TInv, LifeInv, DueInv
  <1>8. QED
    BY <1>1, <1>2, <1>3, <1>4, <1>6, <1>7, QueueStep

LEMMA InsertSteps ==
  ASSUME TInv, NEW p \in Procs, FFITrackNFFInterval(p) \/ Heartbeat(p) \/ FFInsert(p)
  PROVE  TInv' /\ Recounted
  <1>1. Types /\ PhaseOK /\ events \subseteq Event
    BY TInvParts
  <1>2. node[p].started /\ ~flags.panicked
    BY DEF TInv, LifeInv, FFITrackNFFInterval, Heartbeat, FFInsert, FFActs, Acts, Alive
  <1>3. UNCHANGED <<env, node, glob, fresh, fin, phase>>
    BY DEF FFITrackNFFInterval, Heartbeat, FFInsert
  <1>4. Types' /\ OthersStay(p)
    BY <1>1 DEF Types, OthersStay, FFITrackNFFInterval, Heartbeat, FFInsert, AppPC, FFPC
  <1>5. PICK e \in Event : events' = events \cup {e} /\ e.p = p /\ e.due >= 0
    <2>1. /\ [kind |-> "ffi", p |-> p, due |-> 1] \in Event
          /\ [kind |-> "beat", p |-> p, due |-> 0] \in Event
          /\ [kind |-> "sync", p |-> p, due |-> 0] \in Event
      BY DEF Event
    <2>2. QED
      BY <2>1 DEF FFITrackNFFInterval, Heartbeat, FFInsert
  <1>6. /\ events' \subseteq Event /\ (\A ev \in events' : node[ev.p].started)
        /\ DueInv' /\ PhaseOK'
    BY <1>1, <1>2, <1>3, <1>5 DEF TInv, LifeInv, DueInv, PhaseOK
  <1>7. QED
    BY <1>1, <1>2, <1>3, <1>4, <1>6, QueueStep

LEMMA PhaseSteps ==
  ASSUME TInv, WaitPause \/ WaitSynced \/ CheckForTermination \/ tick \/ Fire \/ TickDone
  PROVE  TInv' /\ Recounted
  <1>1. Types /\ PhaseOK /\ events \subseteq Event /\ 0 \in Procs
    BY TInvParts, ProcsAssumption
  <1>2. node[0].started /\ ~flags.panicked
    BY DEF TInv, LifeInv, WaitPause, WaitSynced, CheckForTermination, tick, Fire, TickDone, Ending
  <1>3. UNCHANGED <<env, node, glob, fresh, fin, app, ffpc, toggle, ffLock>>
    BY DEF WaitPause, WaitSynced, CheckForTermination, tick, Fire, TickDone
  <1>4. Types' /\ OthersStay(0)
    <2>1. flags' \in [pause : BOOLEAN, term : BOOLEAN, dumped : BOOLEAN, panicked : BOOLEAN]
      BY <1>1 DEF Types, WaitPause, WaitSynced, CheckForTermination, tick, Fire, TickDone, panic
    <2>2. qLock' \in {None, "tick"}
      BY <1>1 DEF Types, WaitPause, WaitSynced, CheckForTermination, tick, Fire, TickDone
    <2>3. QED
      BY <1>1, <1>3, <2>1, <2>2 DEF Types, OthersStay
  <1>5. events' \subseteq events
    BY DEF WaitPause, WaitSynced, CheckForTermination, tick, Fire, TickDone
  <1>6. PhaseOK'
    <2>1. CASE WaitPause \/ WaitSynced \/ CheckForTermination \/ tick \/ TickDone
      BY <1>1, <1>3, <2>1 DEF PhaseOK, Phase, PhasePC, WaitPause, WaitSynced, CheckForTermination,
                              tick, TickDone, Ending
    <2>2. CASE Fire
      <3>1. PICK ev \in events : phase' = phase \/ phase' = [phase EXCEPT !.pc = "callback", !.p = ev.p]
                                 \/ phase' = [phase EXCEPT !.pc = "ffi", !.p = ev.p]
        BY <2>2 DEF Fire
      <3>2. ev.p \in Procs /\ node[ev.p].started /\ phase.ender \in Procs
        BY <1>1, <2>2 DEF Event, TInv, LifeInv, Fire, Ending
      <3>3. QED
        BY <1>1, <1>3, <3>1, <3>2 DEF PhaseOK, Phase, PhasePC
    <2>3. QED
      BY <2>1, <2>2
  <1>7. DueInv'
    <2>1. CASE TickDone
      BY <1>1, <2>1 DEF DueInv, TickDone, Event
    <2>2. CASE ~TickDone
      BY <1>1, <2>2 DEF DueInv, WaitPause, WaitSynced, CheckForTermination, tick, Fire, Ending, PhaseOK, Phase
    <2>3. QED
      BY <2>1, <2>2
  <1>8. events' \subseteq Event /\ \A ev \in events' : node[ev.p].started
    BY <1>1, <1>5 DEF TInv, LifeInv
  <1>9. QED
    BY <1>1, <1>2, <1>3, <1>4, <1>6, <1>7, <1>8, QueueStep

\* Steps that enter or leave fast-forward, and no event.
LEMMA FFStep ==
  ASSUME TInv, ~flags.panicked, NEW p \in Procs, node[p].started,
         \/ ~node[p].inFF /\ enterFastForward(p)
         \/ node[p].inFF /\ exitFastForward(p)
         \/ UNCHANGED <<node, glob, fresh>>,
         Types', OthersStay(p), UNCHANGED env,
         fin[p] \notin {"wait0", "done"} \/ fin'[p] \in {"wait0", "done"},
         events' \subseteq Event, \A ev \in events' : node[ev.p].started,
         phase' \in Phase, phase'.pc # "none" => phase'.ender \in Procs,
         phase'.pc \notin {"callback", "ffi"} \/ phase' = phase, DueInv'
  PROVE  TInv' /\ Recounted
  <1>1. /\ FFTypeOK /\ node \in [Procs -> Node] /\ fresh \subseteq Procs /\ PhaseOK
    BY TInvParts DEF TInv
  <1>2. /\ Recounts(p) /\ Freshens(p)
        /\ node'[p].started /\ node'[p].exited = node[p].exited
    <2>1. CASE UNCHANGED <<node, glob, fresh>>
      BY <1>1, <2>1, Still
    <2>2. CASE ~node[p].inFF /\ enterFastForward(p)
      BY <1>1, <2>2, Entering DEF Node
    <2>3. CASE node[p].inFF /\ exitFastForward(p)
      BY <1>1, <2>3, Exiting DEF Node
    <2>4. QED
      BY <2>1, <2>2, <2>3
  <1>3. fresh' \subseteq Procs /\ \A q \in Procs : node[q].started => node'[q].started
    BY <1>2 DEF Freshens, Recounts
  <1>4. PhaseOK' /\ \A ev \in events' : node'[ev.p].started
    BY <1>1, <1>3 DEF PhaseOK, Event
  <1>5. /\ p \in env.configured \/ p < glob.procs
        /\ fin'[p] \notin {"wait0", "done"} => node'[p].exited = "RUNNING"
    BY <1>2 DEF TInv, LifeInv
  <1>6. TInv'
    BY <1>2, <1>3, <1>4, <1>5, TInvStep
  <1>7. QED
    BY <1>2, <1>6 DEF Recounted

LEMMA FFSteps ==
  ASSUME TInv, Handshake, NEW p \in Procs,
         FFEnter(p) \/ FFExit(p) \/ ROIBegin(p) \/ ROIEnd(p) \/ FFIBasicBlock(p) \/ NotifyEndExitFF(p)
  PROVE  TInv' /\ Recounted
  <1>1. Types /\ PhaseOK /\ events \subseteq Event /\ \A ev \in events : node[ev.p].started
    BY TInvParts DEF TInv, LifeInv
  <1>2. /\ ~flags.panicked
        /\ ffpc[p] # "none" \/ app[p] # "out" \/ fin[p] # "no"
    BY DEF FFEnter, FFExit, ROIBegin, ROIEnd, FFIBasicBlock, NotifyEndExitFF, FFActs, Acts, Alive
  <1>3. node[p].started
    BY <1>2 DEF TInv, LifeInv
  <1>4. \/ ~node[p].inFF /\ enterFastForward(p)
        \/ node[p].inFF /\ exitFastForward(p)
        \/ UNCHANGED <<node, glob, fresh>>
    BY DEF FFEnter, FFExit, ROIBegin, ROIEnd, FFIBasicBlock, NotifyEndExitFF
  <1>5. UNCHANGED <<env, events, toggle, ffLock, qLock>>
    BY DEF FFEnter, FFExit, ROIBegin, ROIEnd, FFIBasicBlock, NotifyEndExitFF
  <1>6. flags' \in [pause : BOOLEAN, term : BOOLEAN, dumped : BOOLEAN, panicked : BOOLEAN]
    BY <1>1 DEF Types, FFEnter, FFExit, ROIBegin, ROIEnd, FFIBasicBlock, NotifyEndExitFF, panic
  <1>7. Types' /\ OthersStay(p)
    BY <1>1, <1>5, <1>6 DEF Types, OthersStay, FFEnter, FFExit, ROIBegin, ROIEnd, FFIBasicBlock,
                            NotifyEndExitFF, AppPC, FFPC, FinPC
  <1>8. fin[p] \notin {"wait0", "done"} \/ fin'[p] \in {"wait0", "done"}
    BY DEF FFEnter, FFExit, ROIBegin, ROIEnd, FFIBasicBlock, NotifyEndExitFF, FFActs, Acts, Alive
  <1>9. phase' = phase \/ (phase.ender \in Procs /\ phase' = [phase EXCEPT !.pc = "fire", !.p = None])
    <2>1. CASE FFEnter(p)
      <3>1. phase.pc = "callback"
        BY <2>1 DEF FFEnter, FFActs, Handshake
      <3>2. QED
        BY <1>1, <2>1, <3>1 DEF FFEnter, PhaseOK
    <2>2. CASE ~FFEnter(p)
      BY <2>2 DEF FFExit, ROIBegin, ROIEnd, FFIBasicBlock, NotifyEndExitFF
    <2>3. QED
      BY <2>1, <2>2
  <1>10. /\ phase' \in Phase /\ (phase'.pc # "none" => phase'.ender \in Procs)
         /\ phase'.pc \notin {"callback", "ffi"} \/ phase' = phase
         /\ phase'.pc = "count" => phase.pc = "count"
    BY <1>1, <1>9 DEF Phase, PhasePC, PhaseOK
  <1>11. DueInv'
    BY <1>5, <1>10 DEF TInv, DueInv
  <1>12. QED
    BY <1>1, <1>2, <1>3, <1>4, <1>5, <1>7, <1>8, <1>10, <1>11, FFStep

LEMMA FireFFIStep ==
  ASSUME TInv, FireFFI
  PROVE  TInv' /\ Recounted
  <1> DEFINE p == phase.p
  <1>1. Types /\ PhaseOK /\ events \subseteq Event /\ \A ev \in events : node[ev.p].started
    BY TInvParts DEF TInv, LifeInv
  <1>2. /\ ~flags.panicked /\ phase.pc = "ffi" /\ p \in Procs /\ node[p].started
        /\ phase.ender \in Procs /\ fin[phase.ender] # "done"
    BY <1>1 DEF FireFFI, Ending, PhaseOK
  <1>3. /\ phase' = [phase EXCEPT !.pc = "fire", !.p = None]
        /\ UNCHANGED <<env, app, ffpc, fin, toggle, ffLock, qLock>>
    BY DEF FireFFI
  <1>4. \/ ~node[p].inFF /\ enterFastForward(p)
        \/ UNCHANGED <<node, glob, fresh>>
    BY DEF FireFFI
  <1>5. flags' \in [pause : BOOLEAN, term : BOOLEAN, dumped : BOOLEAN, panicked : BOOLEAN]
    BY <1>1 DEF Types, FireFFI, panic
  <1>6. Types' /\ OthersStay(p)
    BY <1>1, <1>3, <1>5 DEF Types, OthersStay
  <1>7. events' \subseteq Event /\ \A ev \in events' : node[ev.p].started
    <2>1. [kind |-> "ffi", p |-> p, due |-> 1] \in Event
      BY <1>2 DEF Event
    <2>2. QED
      BY <1>1, <1>2, <2>1 DEF FireFFI
  <1>8. /\ phase' \in Phase /\ phase'.ender \in Procs /\ phase'.pc = "fire"
    BY <1>1, <1>2, <1>3 DEF Phase, PhasePC, PhaseOK
  <1>9. DueInv'
    BY <1>8 DEF DueInv
  <1>10. /\ FFTypeOK /\ node \in [Procs -> Node]
    BY TInvParts DEF TInv
  <1> HIDE DEF p
  <1>11. /\ Recounts(p) /\ Freshens(p)
         /\ node'[p].started /\ node'[p].exited = node[p].exited
    <2>1. CASE UNCHANGED <<node, glob, fresh>>
      BY <1>2, <1>10, <2>1, Still
    <2>2. CASE ~node[p].inFF /\ enterFastForward(p)
      BY <1>2, <1>10, <2>2, Entering DEF Node
    <2>3. QED
      BY <1>4, <2>1, <2>2
  <1>12. fresh' \subseteq Procs /\ \A q \in Procs : node[q].started => node'[q].started
    BY <1>11 DEF Freshens, Recounts
  <1>13. PhaseOK' /\ \A ev \in events' : node'[ev.p].started
    BY <1>7, <1>8, <1>12 DEF PhaseOK, Event
  <1>14. /\ p \in env.configured \/ p < glob.procs
         /\ fin'[p] \notin {"wait0", "done"} => node'[p].exited = "RUNNING"
    BY <1>2, <1>3, <1>11 DEF TInv, LifeInv
  <1>15. TInv'
    BY <1>2, <1>3, <1>6, <1>7, <1>9, <1>11, <1>12, <1>13, <1>14, TInvStep
  <1>16. QED
    BY <1>2, <1>11, <1>15 DEF Recounted

LEMMA EndSteps ==
  ASSUME TInv, NEW p \in Procs, NotifyEnd(p) \/ Restart(p)
  PROVE  TInv' /\ Recounted
  <1>1. Types /\ PhaseOK /\ events \subseteq Event /\ FFTypeOK /\ node \in [Procs -> Node]
    BY TInvParts DEF TInv
  <1>2. node[p].started /\ ~flags.panicked /\ (NotifyEnd(p) => node[p].exited = "RUNNING")
    BY DEF TInv, LifeInv, NotifyEnd, Restart
  <1>3. Recounts(p) /\ Freshens(p) /\ node'[p].started
    <2>1. CASE NotifyEnd(p)
      BY <1>1, <1>2, <2>1, CountingOut
    <2>2. CASE Restart(p)
      BY <1>1, <1>2, <2>2, Relaunching DEF Node
    <2>3. QED
      BY <2>1, <2>2
  <1>4. fin'[p] \notin {"wait0", "done"} => node'[p].exited = "RUNNING"
    <2>1. CASE NotifyEnd(p)
      BY <1>1, <2>1 DEF NotifyEnd, Types
    <2>2. CASE Restart(p)
      BY <1>1, <2>2, Relaunching DEF Node
    <2>3. QED
      BY <2>1, <2>2
  <1>5. UNCHANGED <<env, events, phase, toggle, ffLock, qLock, flags>>
    BY DEF NotifyEnd, Restart
  <1>6. Types' /\ OthersStay(p)
    BY <1>1, <1>5 DEF Types, OthersStay, NotifyEnd, Restart, AppPC, FFPC, FinPC
  <1>7. fresh' \subseteq Procs /\ \A q \in Procs : node[q].started => node'[q].started
    BY <1>3 DEF Freshens, Recounts
  <1>8. /\ PhaseOK' /\ DueInv' /\ events' \subseteq Event
        /\ \A ev \in events' : node'[ev.p].started
    BY <1>1, <1>5, <1>7 DEF PhaseOK, Event, TInv, LifeInv, DueInv
  <1>9. p \in env.configured \/ p < glob.procs
    BY <1>2 DEF TInv, LifeInv
  <1>10. TInv'
    BY <1>2, <1>3, <1>4, <1>5, <1>6, <1>7, <1>8, <1>9, TInvStep
  <1>11. QED
    BY <1>3, <1>10 DEF Recounted

LEMMA StartSteps ==
  ASSUME TInv, NEW p \in Procs, Start(p) \/ AfterForkInChild(p)
  PROVE  TInv' /\ Recounted
  <1>1. Types /\ PhaseOK /\ events \subseteq Event /\ FFTypeOK /\ node \in [Procs -> Node] /\ glob \in Glob
    BY TInvParts DEF TInv
  <1>2. /\ ~node[p].started /\ ~flags.panicked /\ fin[p] = "no" /\ node[p].exited = "RUNNING"
        /\ p \in env.configured \/ p < glob.procs
        /\ notifyStart(p)
    BY DEF TInv, LifeInv, Start, AfterForkInChild
  <1>3. UNCHANGED <<env, fin, events, phase, toggle, ffLock, qLock>>
    BY DEF Start, AfterForkInChild
  <1>4. flags' \in [pause : BOOLEAN, term : BOOLEAN, dumped : BOOLEAN, panicked : BOOLEAN]
    BY <1>1, <1>2 DEF Types, notifyStart, panic
  <1>5. Types' /\ OthersStay(p)
    BY <1>1, <1>3, <1>4 DEF Types, OthersStay, Start, AfterForkInChild, AppPC, FFPC
  <1>6. CASE glob.active > 0
    <2>1. Recounts(p) /\ Freshens(p) /\ node'[p].started /\ node'[p].exited = "RUNNING"
      BY <1>1, <1>2, <1>6, Starting DEF Node
    <2>2. fresh' \subseteq Procs /\ \A q \in Procs : node[q].started => node'[q].started
      BY <2>1 DEF Freshens, Recounts
    <2>3. /\ PhaseOK' /\ DueInv' /\ events' \subseteq Event
          /\ \A ev \in events' : node'[ev.p].started
      BY <1>1, <1>3, <2>2 DEF PhaseOK, Event, TInv, LifeInv, DueInv
    <2>4. TInv'
      BY <1>2, <1>3, <1>5, <2>1, <2>2, <2>3, TInvStep
    <2>5. QED
      BY <2>1, <2>4 DEF Recounted
  <1>7. CASE ~(glob.active > 0)
    <2>1. flags'.panicked /\ UNCHANGED <<node, glob, fresh>>
      BY <1>1, <1>2, <1>7 DEF notifyStart, panic, Types, Glob
    <2>2. Recounted
      BY <1>1, <2>1, Still DEF Recounted
    <2>3. FFTypeOK'
      BY <1>1, <1>3, <1>5, <2>1 DEF FFTypeOK, Types
    <2>4. LifeInv'
      BY <1>3, <2>1 DEF TInv, LifeInv
    <2>5. QED
      BY <1>3, <2>2, <2>3, <2>4 DEF TInv, DueInv
  <1>8. QED
    BY <1>6, <1>7

\* A fork makes a node that is not counted before its process starts.
LEMMA ForkStep ==
  ASSUME TInv, NEW p \in Procs, BeforeFork(p)
  PROVE  /\ TInv'
         /\ UNCHANGED <<env, fresh, flags, phase>> /\ glob' \in Glob
         /\ glob'.FF = glob.FF /\ glob'.synced = glob.synced /\ glob'.active = glob.active
         /\ glob'.procs = glob.procs + 1
         /\ \A q \in Procs : /\ node'[q].started <=> node[q].started
                             /\ node[q].started => node'[q] = node[q]
  <1>1. /\ FFTypeOK /\ node \in [Procs -> Node] /\ glob \in Glob /\ env \in Envs
        /\ ~flags.panicked /\ node[p] \in Node
    BY TInvParts DEF TInv, BeforeFork, Acts, Alive
  <1>2. PICK c \in Procs \ env.configured :
           /\ glob.procs = c
           /\ node' = [node EXCEPT ![c] = [node[p] EXCEPT !.started = FALSE, !.exited = "RUNNING"]]
           /\ glob' = [glob EXCEPT !.procs = @ + 1]
    BY DEF BeforeFork
  <1>3. UNCHANGED <<env, app, ffpc, fin, toggle, ffLock, qLock, events, phase, flags, fresh>>
    BY DEF BeforeFork
  <1>4. ~node[c].started
    BY <1>1, <1>2 DEF TInv, LifeInv, Glob
  <1>5. /\ glob' \in Glob /\ glob'.procs = glob.procs + 1
        /\ glob'.FF = glob.FF /\ glob'.synced = glob.synced /\ glob'.active = glob.active
    BY <1>1, <1>2 DEF Glob
  <1> DEFINE x == [node[p] EXCEPT !.started = FALSE, !.exited = "RUNNING"]
  <1>6. x \in Node /\ ~x.started /\ x.exited = "RUNNING"
    BY <1>1 DEF Node
  <1>7. node' = [node EXCEPT ![c] = x]
    BY <1>2
  <1> HIDE DEF x
  <1>8. /\ node' \in [Procs -> Node] /\ node'[c] = x
        /\ \A q \in Procs \ {c} : node'[q] = node[q]
    BY <1>1, <1>6, <1>7
  <1>9. \A q \in Procs : /\ node'[q].started <=> node[q].started
                         /\ node[q].started => node'[q] = node[q]
    BY <1>4, <1>6, <1>8
  <1>10. FFTypeOK'
    BY <1>1, <1>3, <1>5, <1>8 DEF FFTypeOK, Node, Glob
  <1>11. LifeInv'
    <2>1. \A q \in Procs : node'[q].started => q \in env'.configured \/ q < glob'.procs
      BY <1>1, <1>3, <1>5, <1>9, ProcsAssumption DEF TInv, LifeInv, Glob
    <2>2. \A q \in Procs : fin'[q] \notin {"wait0", "done"} => node'[q].exited = "RUNNING"
      BY <1>3, <1>6, <1>8 DEF TInv, LifeInv
    <2>3. Cardinality(env'.configured) <= glob'.procs
      BY <1>1, <1>3, <1>5, EnvFacts DEF TInv, LifeInv, Glob
    <2>4. \A ev \in events' : node'[ev.p].started
      BY <1>1, <1>3, <1>9 DEF TInv, LifeInv, FFTypeOK
    <2>5. phase'.pc \in {"callback", "ffi"} => phase'.p \in Procs /\ node'[phase'.p].started
      BY <1>3, <1>9 DEF TInv, LifeInv
    <2>6. /\ node'[0].started
          /\ \A q \in Procs : ~flags'.panicked /\ ~node'[q].started => app'[q] = "out" /\ ffpc'[q] = "none" /\ fin'[q] = "no"
      BY <1>3, <1>9, ProcsAssumption DEF TInv, LifeInv
    <2>7. QED
      BY <1>3, <2>1, <2>2, <2>3, <2>4, <2>5, <2>6 DEF TInv, LifeInv
  <1>12. QED
    BY <1>3, <1>5, <1>9, <1>10, <1>11 DEF TInv, DueInv

LEMMA CountPhaseStep ==
  ASSUME TInv, CountPhase
  PROVE  TInv' /\ UNCHANGED <<env, node, glob, flags>> /\ fresh' = {}
  <1>1. Types /\ PhaseOK /\ events \subseteq Event /\ FFTypeOK
    BY TInvParts DEF TInv
  <1>2. /\ UNCHANGED <<env, ffpc, fin, node, glob, toggle, ffLock, qLock, flags>>
        /\ fresh' = {} /\ phase' = [pc |-> "none", ender |-> None, p |-> None]
        /\ app' = [p \in Procs |-> IF app[p] = "arrived" THEN "released" ELSE app[p]]
        /\ events' = {[ev EXCEPT !.due = @ - 1] : ev \in events}
        /\ phase.pc = "count"
    BY DEF CountPhase, Ending
  <1>3. app' \in [Procs -> AppPC] /\ \A p \in Procs : app[p] = "out" => app'[p] = "out"
    BY <1>1, <1>2 DEF Types, AppPC
  <1>4. \A ev \in events : [ev EXCEPT !.due = @ - 1] \in Event /\ node[[ev EXCEPT !.due = @ - 1].p].started
    <2>1. SUFFICES ASSUME NEW ev \in events
                   PROVE  [ev EXCEPT !.due = @ - 1] \in Event /\ node[[ev EXCEPT !.due = @ - 1].p].started
      OBVIOUS
    <2>2. ev \in Event /\ ev.due \in 0..1 /\ node[ev.p].started
      BY <1>1, <1>2 DEF TInv, DueInv, LifeInv, Event
    <2>3. QED
      BY <2>2 DEF Event
  <1>5. events' \subseteq Event /\ \A ev \in events' : node[ev.p].started
    BY <1>2, <1>4
  <1>6. phase' \in Phase /\ phase'.pc = "none"
    BY <1>2 DEF Phase, PhasePC
  <1>7. FFTypeOK'
    BY <1>1, <1>2, <1>3, <1>5, <1>6 DEF FFTypeOK, Phase, Event
  <1>8. LifeInv'
    BY <1>2, <1>3, <1>5, <1>6 DEF TInv, LifeInv
  <1>9. QED
    BY <1>2, <1>6, <1>7, <1>8 DEF TInv, DueInv

LEMMA NextTInv ==
  ASSUME TInv, Handshake, Next
  PROVE  TInv' /\ (Recounted \/ CountPhase \/ \E p \in Procs : BeforeFork(p))
  <1>1. CASE EndOfPhaseActions
    BY <1>1, PhaseSteps, FireFFIStep, CountPhaseStep DEF EndOfPhaseActions
  <1>2. CASE DumpStats \/ GlobPause
    BY <1>2, OtherSteps
  <1>3. ASSUME NEW p \in Procs, FFThread(p)
        PROVE  TInv' /\ Recounted
    BY <1>3, ThreadSteps, InsertSteps, FFSteps DEF FFThread
  <1>4. ASSUME NEW p \in Procs, AppStep(p) \/ EndStep(p)
        PROVE  TInv' /\ Recounted
    BY <1>4, ThreadSteps, BarrierSteps, InsertSteps, FFSteps, EndSteps DEF AppStep, EndStep
  <1>5. ASSUME NEW p \in Procs, Choice(p)
        PROVE  TInv' /\ (Recounted \/ BeforeFork(p))
    BY <1>5, StartSteps, EndSteps, ForkStep, FFSteps, BarrierSteps, ThreadSteps, InsertSteps,
       OtherSteps DEF Choice
  <1>6. QED
    BY <1>1, <1>2, <1>3, <1>4, <1>5 DEF Next

\* How the end of a phase moves on: nothing but the wait for synced processes
\* leads into its second half, and nothing but the answer ends a callback.
Late == {"term", "tick", "fire", "callback", "ffi", "count"}

LEMMA PhaseMoves ==
  ASSUME TInv, Handshake, Next
  PROVE  /\ Handshake'
         /\ phase'.pc \in Late =>
               \/ phase.pc \in Late
               \/ glob.synced = 0 /\ UNCHANGED <<env, node, glob, fresh>>
  <1> DEFINE NoNew == \A q \in Procs : ffpc'[q] = "relock" => ffpc[q] = "relock"
             Goal == /\ Handshake'
                     /\ phase'.pc \in Late =>
                          \/ phase.pc \in Late
                          \/ glob.synced = 0 /\ UNCHANGED <<env, node, glob, fresh>>
  <1>1. Types /\ PhaseOK
    BY TInvParts
  <1>2. ASSUME NoNew, phase' = phase
        PROVE  Goal
    BY <1>2 DEF Handshake
  <1>3. CASE EndOfPhaseActions
    <2>1. NoNew
      BY <1>3 DEF EndOfPhaseActions, WaitPause, WaitSynced, CheckForTermination, tick, Fire, FireFFI,
                  TickDone, CountPhase
    <2>2. phase.pc \notin {"none", "callback"}
      BY <1>3 DEF EndOfPhaseActions, WaitPause, WaitSynced, CheckForTermination, tick, Fire, FireFFI,
                  TickDone, CountPhase, Ending
    <2>3. Handshake'
      BY <2>1, <2>2 DEF Handshake
    <2>4. phase'.pc \in Late =>
             \/ phase.pc \in Late
             \/ glob.synced = 0 /\ UNCHANGED <<env, node, glob, fresh>>
      <3>1. CASE WaitPause
        BY <1>1, <3>1 DEF WaitPause, PhaseOK, Phase, Late
      <3>2. CASE WaitSynced
        BY <3>2 DEF WaitSynced
      <3>3. CASE CheckForTermination \/ tick \/ Fire \/ FireFFI \/ TickDone \/ CountPhase
        <4>1. phase.pc \in Late
          BY <3>3 DEF CheckForTermination, tick, Fire, FireFFI, TickDone, CountPhase, Ending, Late
        <4>2. QED
          BY <4>1
      <3>4. QED
        BY <1>3, <3>1, <3>2, <3>3 DEF EndOfPhaseActions
    <2>5. QED
      BY <2>3, <2>4
  <1>4. CASE DumpStats \/ GlobPause
    BY <1>2, <1>4 DEF DumpStats, GlobPause
  <1>5. ASSUME NEW p \in Procs, FFThread(p)
        PROVE  Goal
    <2>1. CASE FFWait(p)
      <3>1. phase' = phase /\ phase.pc = "callback" /\ phase.p = p
        BY <2>1 DEF FFWait
      <3>2. \A q \in Procs : ffpc'[q] = "relock" => ffpc[q] = "relock" \/ q = p
        BY <1>1, <2>1 DEF FFWait, Types
      <3>3. QED
        BY <3>1, <3>2 DEF Handshake
    <2>2. CASE FFEnter(p)
      <3>1. phase.pc = "callback" /\ phase.p = p
        BY <2>2 DEF FFEnter, FFActs, Handshake
      <3>2. \A q \in Procs : ffpc'[q] = "relock" => ffpc[q] = "relock" /\ q # p
        BY <1>1, <2>2 DEF FFEnter, Types
      <3>3. QED
        BY <3>1, <3>2 DEF Handshake, Late
    <2>3. CASE FFTake(p) \/ FFExit(p) \/ FFLock(p) \/ FFInsert(p)
      <3>1. NoNew /\ phase' = phase
        BY <1>1, <2>3 DEF FFTake, FFExit, FFLock, FFInsert, Types
      <3>2. QED
        BY <1>2, <3>1
    <2>4. QED
      BY <1>5, <2>1, <2>2, <2>3 DEF FFThread
  <1>6. ASSUME NEW p \in Procs, AppStep(p) \/ EndStep(p) \/ Choice(p)
        PROVE  Goal
    <2>1. CASE Arrive(p) \/ Leave(p) \/ SyscallEnter(p)
      <3>1. phase.pc = "none" /\ UNCHANGED ffpc
        BY <1>1, <2>1, ProcsAssumption DEF Arrive, Leave, SyscallEnter, schedLockFree, PhaseOK
      <3>2. phase'.pc \in {"none", "pause"}
        BY <1>1, <2>1, <3>1 DEF Arrive, Leave, SyscallEnter, Ends, PhaseOK, Phase
      <3>3. QED
        BY <3>1, <3>2 DEF Handshake, Late
    <2>2. CASE ~(Arrive(p) \/ Leave(p) \/ SyscallEnter(p))
      <3>1. phase' = phase
        BY <1>6, <2>2 DEF AppStep, EndStep, Choice, Join, TakeBarrier, FFBasicBlock, FFITrackNFFInterval,
             SimEnd, NotifyEndCheck, NotifyEndExitFF, NotifyEnd, Start, Restart, BeforeFork,
             AfterForkInChild, FFIBasicBlock, SyscallExit, ROIBegin, ROIEnd, Heartbeat, Exit, Toggle
      <3>2. \/ UNCHANGED ffpc
            \/ ffpc' = [ffpc EXCEPT ![p] = "end"]
            \/ ffpc' = [ffpc EXCEPT ![p] = "init"]
        BY <1>6, <2>2 DEF AppStep, EndStep, Choice, Join, TakeBarrier, FFBasicBlock, FFITrackNFFInterval,
             SimEnd, NotifyEndCheck, NotifyEndExitFF, NotifyEnd, Start, Restart, BeforeFork,
             AfterForkInChild, FFIBasicBlock, SyscallExit, ROIBegin, ROIEnd, Heartbeat, Exit, Toggle
      <3>3. NoNew
        BY <1>1, <3>2 DEF Types
      <3>4. QED
        BY <1>2, <3>1, <3>3
    <2>3. QED
      BY <2>1, <2>2
  <1>7. QED
    BY <1>3, <1>4, <1>5, <1>6 DEF Next

LEMMA EnvFixed == Next => UNCHANGED env
  <1>1. EndOfPhaseActions \/ DumpStats \/ GlobPause => UNCHANGED env
    BY DEF EndOfPhaseActions, WaitPause, WaitSynced, CheckForTermination, tick, Fire, FireFFI, TickDone,
           CountPhase, DumpStats, GlobPause
  <1>2. \A p \in Procs : FFThread(p) \/ AppStep(p) \/ EndStep(p) => UNCHANGED env
    BY DEF FFThread, FFTake, FFExit, FFLock, FFInsert, FFWait, FFEnter, AppStep, EndStep, Join, Arrive,
           TakeBarrier, Leave, FFBasicBlock, FFITrackNFFInterval, SimEnd, NotifyEndCheck,
           NotifyEndExitFF, NotifyEnd
  <1>3. \A p \in Procs : Choice(p) => UNCHANGED env
    BY DEF Choice, Start, Restart, BeforeFork, AfterForkInChild, FFIBasicBlock, SyscallEnter,
           SyscallExit, ROIBegin, ROIEnd, Heartbeat, Exit, Toggle
  <1>4. QED
    BY <1>1, <1>2, <1>3 DEF Next

LEMMA FastForwardTypes == Spec => [](TInv /\ Handshake)
  <1>1. Init => TInv /\ Handshake
    BY InitTInv DEF Init, Handshake
  <1>2. TInv /\ Handshake /\ [Next]_vars => (TInv /\ Handshake)'
    <2> SUFFICES ASSUME TInv, Handshake, [Next]_vars PROVE (TInv /\ Handshake)'
      OBVIOUS
    <2>1. CASE Next
      BY <2>1, NextTInv, PhaseMoves
    <2>2. CASE UNCHANGED vars
      BY <2>2 DEF vars, TInv, FFTypeOK, LifeInv, DueInv, Handshake
    <2>3. QED
      BY <2>1, <2>2
  <1>3. QED
    BY <1>1, <1>2, PTL DEF Spec

\* Type correctness: every variable keeps to the values the code can give it,
\* an event's phase to within one of numPhases.
THEOREM FastForwardTypeOK == Spec => []FFTypeOK
  BY FastForwardTypes, PTL DEF TInv

-----------------------------------------------------------------------------
(* The counters *)

\* Whether a process is synced does not change while the simulation runs: the
\* mode that looks at the number of processes is not used by a lone process
\* that forks (run fork shows what happens otherwise).
ModesFixed ==
    \A e \in Envs : \/ e.forks = {} \/ Cardinality(e.configured) > 1
                    \/ \A p \in Procs : e.mode[p] # "MULTIPROCESS"

LEMMA CardinalityStep ==
  ASSUME NEW A \in SUBSET Procs, NEW B \in SUBSET Procs, NEW p \in Procs,
         \A q \in Procs \ {p} : q \in A <=> q \in B
  PROVE  Cardinality(B) = Cardinality(A) + Bit(p \in B) - Bit(p \in A)
  <1>1. IsFiniteSet(A) /\ IsFiniteSet(B) /\ IsFiniteSet(A \ {p})
    BY ProcsAssumption, FS_Subset
  <1>2. Cardinality(A) \in Nat /\ Cardinality(B) \in Nat /\ Cardinality(A \ {p}) \in Nat
    BY <1>1, FS_CardinalityType
  <1>3. A \ {p} = B \ {p}
    OBVIOUS
  <1>4. Cardinality(A \ {p}) = Cardinality(A) - Bit(p \in A)
    <2>1. Cardinality(A \ {p}) = IF p \in A THEN Cardinality(A) - 1 ELSE Cardinality(A)
      BY <1>1, FS_RemoveElement
    <2>2. QED
      BY <1>2, <2>1 DEF Bit
  <1>5. Cardinality(B \ {p}) = Cardinality(B) - Bit(p \in B)
    <2>1. Cardinality(B \ {p}) = IF p \in B THEN Cardinality(B) - 1 ELSE Cardinality(B)
      BY <1>1, FS_RemoveElement
    <2>2. QED
      BY <1>2, <2>1 DEF Bit
  <1>6. QED
    BY <1>2, <1>3, <1>4, <1>5 DEF Bit

FFSet == {p \in Procs : InFF(p)}
SyncedSet == {p \in Procs : InFF(p) /\ Synced(p)}
ActiveSet == {p \in Procs : Active(p)}

\* The counters, in terms of the sets they count
LEMMA CountsSets ==
  CountsExact <=> /\ glob.FF = Cardinality(FFSet) /\ glob.synced = Cardinality(SyncedSet)
                  /\ glob.active = Cardinality(ActiveSet)
  <1>1. {p \in Counted : node[p].inFF} = FFSet
    BY DEF Counted, FFSet, InFF
  <1>2. {p \in Counted : node[p].inFF /\ Synced(p)} = SyncedSet
    BY DEF Counted, SyncedSet, InFF
  <1>3. {p \in Counted : node[p].exited # "EXITED"} = ActiveSet
    BY DEF Counted, ActiveSet, Active
  <1>4. QED
    BY <1>1, <1>2, <1>3 DEF CountsExact

\* Where procs and env are what they were, so is Synced.
LEMMA SyncedStays ==
  ASSUME TInv, ModesFixed, TInv', UNCHANGED env,
         \/ glob'.procs = glob.procs
         \/ \E p \in Procs : BeforeFork(p) /\ glob'.procs = glob.procs + 1
  PROVE  \A q \in Procs : Synced(q)' <=> Synced(q)
  <1>1. CASE glob'.procs = glob.procs
    BY <1>1 DEF Synced, SyncedAmong
  <1>2. CASE \E p \in Procs : BeforeFork(p) /\ glob'.procs = glob.procs + 1
    <2>1. env \in Envs /\ env.forks # {} /\ glob.procs \in Nat /\ Cardinality(env.configured) \in Nat
      BY <1>2, TInvParts, EnvFacts DEF BeforeFork, Glob
    <2>2. Cardinality(env.configured) <= glob.procs /\ glob'.procs = glob.procs + 1
      BY <1>2 DEF TInv, LifeInv
    <2>3. glob.procs > 1 \/ \A p \in Procs : env.mode[p] # "MULTIPROCESS"
      BY <2>1, <2>2 DEF ModesFixed
    <2>4. QED
      BY <2>1, <2>2, <2>3 DEF Synced, SyncedAmong
  <1>3. QED
    BY <1>1, <1>2

LEMMA NextCounts ==
  ASSUME ModesFixed, TInv, Handshake, CountsExact, Next
  PROVE  CountsExact'
  <1>1. /\ glob.FF = Cardinality(FFSet) /\ glob.synced = Cardinality(SyncedSet)
        /\ glob.active = Cardinality(ActiveSet)
    BY CountsSets
  <1>2. SUFFICES /\ glob'.FF = Cardinality(FFSet') /\ glob'.synced = Cardinality(SyncedSet')
                 /\ glob'.active = Cardinality(ActiveSet')
    <2>1. (CountsExact <=> /\ glob.FF = Cardinality(FFSet) /\ glob.synced = Cardinality(SyncedSet)
                           /\ glob.active = Cardinality(ActiveSet))'
      BY CountsSets, PTL
    <2>2. QED
      BY <2>1
  <1>3. TInv' /\ UNCHANGED env
    BY NextTInv, EnvFixed
  <1>4. ASSUME NEW p \in Procs, Recounts(p)
        PROVE  /\ glob'.FF = Cardinality(FFSet') /\ glob'.synced = Cardinality(SyncedSet')
               /\ glob'.active = Cardinality(ActiveSet')
    <2>1. \A q \in Procs : Synced(q)' <=> Synced(q)
      BY <1>3, <1>4, SyncedStays DEF Recounts
    <2>2. \A q \in Procs \ {p} : (InFF(q)' <=> InFF(q)) /\ (Active(q)' <=> Active(q))
      BY <1>4 DEF Recounts, InFF, Active
    <2>3. Cardinality(FFSet') = Cardinality(FFSet) + Bit(InFF(p)') - Bit(InFF(p))
      <3>1. /\ FFSet \in SUBSET Procs /\ FFSet' \in SUBSET Procs
            /\ \A q \in Procs \ {p} : q \in FFSet <=> q \in FFSet'
            /\ (p \in FFSet <=> InFF(p)) /\ (p \in FFSet' <=> InFF(p)')
        BY <2>2 DEF FFSet
      <3>2. Cardinality(FFSet') = Cardinality(FFSet) + Bit(p \in FFSet') - Bit(p \in FFSet)
        BY <3>1, CardinalityStep
      <3>3. QED
        BY <3>1, <3>2 DEF Bit
    <2>4. Cardinality(SyncedSet') = Cardinality(SyncedSet) + Bit(InFF(p)' /\ Synced(p))
                                      - Bit(InFF(p) /\ Synced(p))
      <3>1. /\ SyncedSet \in SUBSET Procs /\ SyncedSet' \in SUBSET Procs
            /\ \A q \in Procs \ {p} : q \in SyncedSet <=> q \in SyncedSet'
            /\ (p \in SyncedSet <=> InFF(p) /\ Synced(p)) /\ (p \in SyncedSet' <=> InFF(p)' /\ Synced(p))
        BY <2>1, <2>2 DEF SyncedSet
      <3>2. Cardinality(SyncedSet') = Cardinality(SyncedSet) + Bit(p \in SyncedSet') - Bit(p \in SyncedSet)
        BY <3>1, CardinalityStep
      <3>3. QED
        BY <3>1, <3>2 DEF Bit
    <2>5. Cardinality(ActiveSet') = Cardinality(ActiveSet) + Bit(Active(p)') - Bit(Active(p))
      <3>1. /\ ActiveSet \in SUBSET Procs /\ ActiveSet' \in SUBSET Procs
            /\ \A q \in Procs \ {p} : q \in ActiveSet <=> q \in ActiveSet'
            /\ (p \in ActiveSet <=> Active(p)) /\ (p \in ActiveSet' <=> Active(p)')
        BY <2>2 DEF ActiveSet
      <3>2. Cardinality(ActiveSet') = Cardinality(ActiveSet) + Bit(p \in ActiveSet') - Bit(p \in ActiveSet)
        BY <3>1, CardinalityStep
      <3>3. QED
        BY <3>1, <3>2 DEF Bit
    <2>6. QED
      BY <1>1, <1>4, <2>3, <2>4, <2>5 DEF Recounts
  <1>5. CASE CountPhase
    <2>1. UNCHANGED <<env, node, glob>>
      BY <1>5, CountPhaseStep
    <2>2. /\ \A q \in Procs : Synced(q)' <=> Synced(q)
          /\ \A q \in Procs : (InFF(q)' <=> InFF(q)) /\ (Active(q)' <=> Active(q))
      BY <2>1 DEF Synced, SyncedAmong, InFF, Active
    <2>3. FFSet' = FFSet /\ SyncedSet' = SyncedSet /\ ActiveSet' = ActiveSet
      BY <2>2 DEF FFSet, SyncedSet, ActiveSet
    <2>4. QED
      BY <1>1, <2>1, <2>3
  <1>6. ASSUME NEW p \in Procs, BeforeFork(p)
        PROVE  /\ glob'.FF = Cardinality(FFSet') /\ glob'.synced = Cardinality(SyncedSet')
               /\ glob'.active = Cardinality(ActiveSet')
    <2>1. /\ glob'.FF = glob.FF /\ glob'.synced = glob.synced /\ glob'.active = glob.active
          /\ glob'.procs = glob.procs + 1
          /\ \A q \in Procs : /\ node'[q].started <=> node[q].started
                              /\ node[q].started => node'[q] = node[q]
      BY <1>6, ForkStep
    <2>2. \A q \in Procs : (InFF(q)' <=> InFF(q)) /\ (Active(q)' <=> Active(q))
      BY <2>1 DEF InFF, Active
    <2>3. \A q \in Procs : Synced(q)' <=> Synced(q)
      BY <1>3, <1>6, <2>1, SyncedStays
    <2>4. FFSet' = FFSet /\ SyncedSet' = SyncedSet /\ ActiveSet' = ActiveSet
      BY <2>2, <2>3 DEF FFSet, SyncedSet, ActiveSet
    <2>5. QED
      BY <1>1, <2>1, <2>4
  <1>7. QED
    BY <1>4, <1>5, <1>6, NextTInv DEF Recounted

LEMMA InitCounts == Init => CountsExact
  <1> SUFFICES ASSUME Init PROVE CountsExact
    OBVIOUS
  <1>1. 0 \in Procs /\ (\A p \in Procs : node[p].started <=> p = 0) /\ node[0].exited = "RUNNING"
    BY ProcsAssumption DEF Init
  <1>2. /\ Synced(0) <=> SyncedAmong(0, Cardinality(env.configured))
        /\ glob.FF = Bit(node[0].inFF) /\ glob.active = 1
        /\ glob.synced = IF node[0].inFF /\ SyncedAmong(0, Cardinality(env.configured)) THEN 1 ELSE 0
    BY DEF Init, Synced, Bit
  <1>3. glob.synced = Bit(InFF(0) /\ Synced(0)) /\ glob.FF = Bit(InFF(0)) /\ glob.active = Bit(Active(0))
    BY <1>1, <1>2 DEF Bit, InFF, Active
  <1>4. \A A \in SUBSET {0} : Cardinality(A) = Bit(0 \in A)
    <2>1. \A A \in SUBSET {0} : A = {} \/ A = {0}
      OBVIOUS
    <2>2. Cardinality({}) = 0 /\ Cardinality({0}) = 1
      BY FS_EmptySet, FS_Singleton
    <2>3. 0 \in {0} /\ 0 \notin {}
      OBVIOUS
    <2>4. QED
      <3>1. SUFFICES ASSUME NEW A \in SUBSET {0} PROVE Cardinality(A) = Bit(0 \in A)
        OBVIOUS
      <3>2. CASE A = {}
        BY <2>2, <2>3, <3>2 DEF Bit
      <3>3. CASE A = {0}
        BY <2>2, <2>3, <3>3 DEF Bit
      <3>4. QED
        BY <2>1, <3>2, <3>3
  <1>5. /\ FFSet \in SUBSET {0} /\ SyncedSet \in SUBSET {0} /\ ActiveSet \in SUBSET {0}
        /\ (0 \in FFSet <=> InFF(0)) /\ (0 \in SyncedSet <=> InFF(0) /\ Synced(0))
        /\ (0 \in ActiveSet <=> Active(0))
    BY <1>1 DEF FFSet, SyncedSet, ActiveSet, InFF, Active
  <1>6. QED
    BY <1>3, <1>4, <1>5, CountsSets DEF Bit

\* The counters that the end of a phase and process 0 wait for are exact,
\* whoever updates them, in every environment in which Synced is fixed: with
\* the windows open too.
THEOREM FastForwardCounts == ASSUME ModesFixed PROVE Spec => []CountsExact
  <1>1. CountsExact /\ UNCHANGED vars => CountsExact'
    BY DEF vars, CountsExact, Counted, Synced, SyncedAmong
  <1>2. TInv /\ Handshake /\ CountsExact /\ [Next]_vars => CountsExact'
    BY <1>1, NextCounts
  <1>3. QED
    BY <1>2, InitCounts, FastForwardTypes, PTL DEF Spec

-----------------------------------------------------------------------------
(* Synced fast-forwarding holds the phase *)

\* Past the wait for the synced processes, whoever is one entered since.
FreshInv == phase.pc \in Late => SyncedSet \subseteq fresh

LEMMA NextFresh ==
  ASSUME ModesFixed, TInv, Handshake, CountsExact, FreshInv, Next
  PROVE  FreshInv'
  <1> SUFFICES ASSUME phase'.pc \in Late PROVE SyncedSet' \subseteq fresh'
    BY DEF FreshInv
  <1>1. TInv' /\ UNCHANGED env
    BY NextTInv, EnvFixed
  <1>2. SyncedSet \subseteq fresh
    <2>1. CASE phase.pc \in Late
      BY <2>1 DEF FreshInv
    <2>2. CASE phase.pc \notin Late
      <3>1. glob.synced = 0
        BY <2>2, PhaseMoves
      <3>2. Cardinality(SyncedSet) = 0 /\ IsFiniteSet(SyncedSet)
        BY <3>1, CountsSets, ProcsAssumption, FS_Subset DEF SyncedSet
      <3>3. QED
        BY <3>2, FS_EmptySet
    <2>3. QED
      BY <2>1, <2>2
  <1>3. ASSUME NEW p \in Procs, Recounts(p), Freshens(p)
        PROVE  SyncedSet' \subseteq fresh'
    <2>1. \A q \in Procs : Synced(q)' <=> Synced(q)
      BY <1>1, <1>3, SyncedStays DEF Recounts
    <2>2. \A q \in Procs \ {p} : InFF(q)' <=> InFF(q)
      BY <1>3 DEF Recounts, InFF
    <2>3. QED
      BY <1>2, <1>3, <2>1, <2>2 DEF SyncedSet, Freshens
  <1>4. ~CountPhase
    BY DEF CountPhase, Late
  <1>5. ASSUME NEW p \in Procs, BeforeFork(p)
        PROVE  SyncedSet' \subseteq fresh'
    <2>1. /\ glob'.procs = glob.procs + 1 /\ fresh' = fresh
          /\ \A q \in Procs : /\ node'[q].started <=> node[q].started
                              /\ node[q].started => node'[q] = node[q]
      BY <1>5, ForkStep
    <2>2. \A q \in Procs : InFF(q)' <=> InFF(q)
      BY <2>1 DEF InFF
    <2>3. \A q \in Procs : Synced(q)' <=> Synced(q)
      BY <1>1, <1>5, <2>1, SyncedStays
    <2>4. QED
      BY <1>2, <2>1, <2>2, <2>3 DEF SyncedSet
  <1>6. QED
    BY <1>3, <1>4, <1>5, NextTInv DEF Recounted

\* Synced fast-forwarding holds the simulation: when a phase ends, whoever is
\* in synced fast-forward entered it after the wait for synced processes.
THEOREM FastForwardSyncedHoldsPhase == ASSUME ModesFixed PROVE Spec => SyncedHoldsPhase
  <1>1. Init => FreshInv
    BY DEF Init, FreshInv, Late
  <1>2. TInv /\ Handshake /\ CountsExact /\ FreshInv /\ [Next]_vars => FreshInv'
    <2>1. FreshInv /\ UNCHANGED vars => FreshInv'
      BY DEF vars, FreshInv, SyncedSet, InFF, Synced, SyncedAmong
    <2>2. QED
      BY <2>1, NextFresh
  <1>3. FreshInv => (phase.pc = "count" /\ phase'.pc = "none" =>
                       \A p \in Counted : node[p].inFF /\ Synced(p) => p \in fresh)
    BY DEF FreshInv, Late, SyncedSet, Counted, InFF
  <1>4. QED
    BY <1>1, <1>2, <1>3, FastForwardTypes, FastForwardCounts, PTL DEF Spec, SyncedHoldsPhase

-----------------------------------------------------------------------------
(* No panic *)

\* The environments the code copes with: the windows stay closed, a process
\* with ffiPoints is not switched by anyone else, and is not started again.
Orderly ==
    \A e \in Envs :
        /\ ~e.windows
        /\ e.ffi \cap (e.toggled \cup e.hooks) = {} /\ e.ffi \subseteq e.configured
        /\ \A p \in e.ffi : e.restarts[p] = 0

\* No event is overdue, and past tick none is due.
EventsInv == \A ev \in events : ev.due >= 0 /\ (phase.pc = "count" => ev.due > 0)

\* While a process is still to be started, another one is active.
StartInv ==
    (\E q \in Procs : (q \in env.configured \/ q < glob.procs) /\ ~node[q].started)
        => \E q \in Procs : Active(q)

\* Before the termination condition is met a process ends from "end" only; while
\* a phase ends nobody runs; and no phase ends once the condition has been met.
TermInv ==
    /\ \A q \in Procs : ~flags.term /\ fin[q] # "no" => app[q] = "end"
    /\ phase.pc # "none" => \A q \in Procs : app[q] \notin {"run", "released"}
    /\ flags.term /\ phase.pc = "none" => \A q \in Procs : app[q] \notin {"run", "arrived"}
    /\ flags.term => phase.pc \notin {"pause", "synced", "term"}

\* What notifyEnd has seen is still so.
ExitInv == \A q \in Procs : fin[q] = "exitFF" => node[q].inFF

\* The three stages of a count of instructions up to the next fast-forward
Tracks(p) == app[p] = "track"
Queued(p) == \E ev \in events : ev.kind = "ffi" /\ ev.p = p
Firing(p) == phase.pc = "ffi" /\ phase.p = p

\* A process with ffiPoints counts once, and outside fast-forward.
TokenInv ==
    /\ \A p \in Procs : Tracks(p) \/ Queued(p) \/ Firing(p) => p \in env.ffi /\ ~node[p].inFF
    /\ \A p \in Procs : Tracks(p) => ~Queued(p) /\ ~Firing(p)
    /\ \A p \in Procs : Firing(p) => ~Queued(p)
    /\ \A e, f \in events : e.kind = "ffi" /\ f.kind = "ffi" /\ e.p = f.p => e = f

\* It is inside where it skips instructions; its toggle thread never gets a
\* toggle, and it is not started again.
Undisturbed(p) ==
    /\ fin[p] = "no" /\ app[p] \in {"ff", "leaveFF"} => node[p].inFF
    /\ node[p].restarts = 0 /\ node[p].exited # "RESTARTME"
    /\ ffpc[p] \in {"none", "init", "wait", "end"} /\ (toggle[p] => ffpc[p] \in {"none", "init"})

FFIInv == TokenInv /\ \A p \in env.ffi : Undisturbed(p)

LEMMA OrderlyEnv ==
  ASSUME Orderly, TInv
  PROVE  /\ ~env.windows /\ env.ffi \subseteq env.configured /\ env.ffi \subseteq Procs
         /\ \A p \in env.ffi : p \notin env.toggled /\ p \notin env.hooks /\ env.restarts[p] = 0
  BY TInvParts, EnvFacts DEF Orderly

LEMMA NextEvents ==
  ASSUME TInv, Handshake, ~env.windows, EventsInv, Next
  PROVE  EventsInv'
  <1>1. Types /\ PhaseOK /\ events \subseteq Event
    BY TInvParts
  <1>2. ASSUME events' = events, phase'.pc = "count" => phase.pc = "count"
        PROVE  EventsInv'
    BY <1>2 DEF EventsInv
  <1>3. CASE EndOfPhaseActions
    <2>1. CASE WaitPause \/ WaitSynced \/ CheckForTermination \/ tick
      BY <1>1, <1>2, <2>1 DEF WaitPause, WaitSynced, CheckForTermination, tick, PhaseOK, Phase
    <2>2. CASE Fire
      <3>1. events' \subseteq events /\ phase'.pc # "count"
        BY <1>1, <2>2 DEF Fire, Ending, PhaseOK, Phase
      <3>2. QED
        BY <3>1 DEF EventsInv
    <2>3. CASE FireFFI
      <3>1. phase'.pc # "count"
        BY <1>1, <2>3 DEF FireFFI, PhaseOK, Phase
      <3>2. events' = events \/ events' = events \cup {[kind |-> "ffi", p |-> phase.p, due |-> 1]}
        BY <2>3 DEF FireFFI
      <3>3. QED
        BY <3>1, <3>2 DEF EventsInv
    <2>4. CASE TickDone
      <3>1. \A ev \in events' : ev.due \in -1..1 /\ ev.due > 0
        BY <1>1, <2>4 DEF TickDone, Event
      <3>2. QED
        BY <3>1 DEF EventsInv
    <2>5. CASE CountPhase
      <3>1. /\ events' = {[ev EXCEPT !.due = @ - 1] : ev \in events} /\ phase'.pc = "none"
            /\ phase.pc = "count"
        BY <2>5 DEF CountPhase, Ending
      <3>2. \A ev \in events : [ev EXCEPT !.due = @ - 1].due >= 0
        <4>1. SUFFICES ASSUME NEW ev \in events PROVE [ev EXCEPT !.due = @ - 1].due >= 0
          OBVIOUS
        <4>2. ev \in Event /\ ev.due \in 1..1
          BY <1>1, <3>1 DEF EventsInv, Event
        <4>3. QED
          BY <4>2 DEF Event
      <3>3. QED
        BY <3>1, <3>2 DEF EventsInv
    <2>6. QED
      BY <1>3, <2>1, <2>2, <2>3, <2>4, <2>5 DEF EndOfPhaseActions
  <1>4. CASE DumpStats \/ GlobPause
    BY <1>2, <1>4 DEF DumpStats, GlobPause
  <1>5. ASSUME NEW p \in Procs, FFThread(p) \/ AppStep(p) \/ EndStep(p) \/ Choice(p)
        PROVE  EventsInv'
    <2>1. CASE FFInsert(p) \/ FFITrackNFFInterval(p) \/ Heartbeat(p)
      <3>1. phase'.pc # "count"
        BY <2>1 DEF FFInsert, FFITrackNFFInterval, Heartbeat, qLockFree
      <3>2. \/ events' = events \cup {[kind |-> "ffi", p |-> p, due |-> 1]}
            \/ events' = events \cup {[kind |-> "beat", p |-> p, due |-> 0]}
            \/ events' = events \cup {[kind |-> "sync", p |-> p, due |-> 0]}
        BY <2>1 DEF FFInsert, FFITrackNFFInterval, Heartbeat
      <3>3. QED
        BY <3>1, <3>2 DEF EventsInv
    <2>2. CASE FFEnter(p) \/ Arrive(p) \/ Leave(p) \/ SyscallEnter(p)
      <3>1. events' = events /\ (phase' = phase \/ phase'.pc \in {"fire", "pause"})
        BY <1>1, <2>2 DEF FFEnter, Arrive, Leave, SyscallEnter, Ends, PhaseOK, Phase
      <3>2. QED
        BY <1>2, <3>1
    <2>3. CASE FFTake(p) \/ FFExit(p) \/ FFLock(p) \/ FFWait(p) \/ Join(p) \/ TakeBarrier(p)
               \/ FFBasicBlock(p) \/ EndStep(p)
      BY <1>2, <2>3 DEF FFTake, FFExit, FFLock, FFWait, Join, TakeBarrier, FFBasicBlock, EndStep,
             SimEnd, NotifyEndCheck, NotifyEndExitFF, NotifyEnd
    <2>4. CASE Choice(p) /\ ~Heartbeat(p) /\ ~SyscallEnter(p)
      BY <1>2, <2>4 DEF Choice, Start, Restart, BeforeFork, AfterForkInChild, FFIBasicBlock, SyscallExit,
             ROIBegin, ROIEnd, Exit, Toggle
    <2>5. QED
      BY <1>5, <2>1, <2>2, <2>3, <2>4 DEF FFThread, AppStep, Choice
  <1>6. QED
    BY <1>3, <1>4, <1>5 DEF Next

\* Nobody but notifyEnd makes a process inactive, nobody but a fork makes one
\* that is to be started.
LEMMA NodeMoves ==
  ASSUME TInv, Handshake, Next, \A p \in Procs : ~NotifyEnd(p) /\ ~BeforeFork(p)
  PROVE  /\ glob'.procs = glob.procs
         /\ \A q \in Procs : /\ node[q].started => node'[q].started
                             /\ Active(q) => Active(q)'
  <1> DEFINE Goal == /\ glob'.procs = glob.procs
                     /\ \A q \in Procs : /\ node[q].started => node'[q].started
                                         /\ Active(q) => Active(q)'
  <1>1. FFTypeOK /\ node \in [Procs -> Node] /\ PhaseOK /\ glob \in Glob
    BY TInvParts DEF TInv
  <1>2. ASSUME UNCHANGED <<node, glob>> PROVE Goal
    BY <1>2 DEF Active
  <1>3. ASSUME NEW p \in Procs, node[p].started, ~node[p].inFF, enterFastForward(p) PROVE Goal
    <2>1. Recounts(p) /\ node'[p].started /\ node'[p].exited = node[p].exited
      BY <1>1, <1>3, Entering DEF Node
    <2>2. QED
      BY <1>3, <2>1 DEF Recounts, Active
  <1>4. ASSUME NEW p \in Procs, node[p].started, node[p].inFF, exitFastForward(p) PROVE Goal
    <2>1. Recounts(p) /\ node'[p].started /\ node'[p].exited = node[p].exited
      BY <1>1, <1>4, Exiting DEF Node
    <2>2. QED
      BY <1>4, <2>1 DEF Recounts, Active
  <1>5. CASE EndOfPhaseActions
    <2>1. CASE FireFFI
      <3>1. phase.p \in Procs /\ node[phase.p].started
        BY <1>1, <2>1 DEF FireFFI, Ending, PhaseOK
      <3>2. UNCHANGED <<node, glob>> \/ (~node[phase.p].inFF /\ enterFastForward(phase.p))
        BY <2>1 DEF FireFFI
      <3>3. QED
        BY <1>2, <1>3, <3>1, <3>2
    <2>2. CASE ~FireFFI
      BY <1>2, <1>5, <2>2 DEF EndOfPhaseActions, WaitPause, WaitSynced, CheckForTermination, tick,
           Fire, TickDone, CountPhase
    <2>3. QED
      BY <2>1, <2>2
  <1>6. CASE DumpStats \/ GlobPause
    BY <1>2, <1>6 DEF DumpStats, GlobPause
  <1>7. ASSUME NEW p \in Procs, FFThread(p) \/ AppStep(p) \/ EndStep(p) \/ Choice(p)
        PROVE  Goal
    <2>1. CASE FFEnter(p) \/ FFExit(p) \/ ROIBegin(p) \/ ROIEnd(p) \/ FFIBasicBlock(p) \/ NotifyEndExitFF(p)
      <3>1. node[p].started
        BY <2>1 DEF TInv, LifeInv, FFEnter, FFExit, ROIBegin, ROIEnd, FFIBasicBlock, NotifyEndExitFF,
                    FFActs, Acts, Alive
      <3>2. \/ UNCHANGED <<node, glob>>
            \/ ~node[p].inFF /\ enterFastForward(p)
            \/ node[p].inFF /\ exitFastForward(p)
        BY <2>1 DEF FFEnter, FFExit, ROIBegin, ROIEnd, FFIBasicBlock, NotifyEndExitFF
      <3>3. QED
        BY <1>2, <1>3, <1>4, <3>1, <3>2
    <2>2. CASE Start(p) \/ AfterForkInChild(p)
      <3>1. ~node[p].started /\ node[p].exited = "RUNNING" /\ notifyStart(p)
        BY <2>2 DEF TInv, LifeInv, Start, AfterForkInChild
      <3>2. CASE glob.active > 0
        BY <1>1, <3>1, <3>2, Starting DEF Recounts, Active, Node
      <3>3. CASE ~(glob.active > 0)
        BY <1>1, <1>2, <3>1, <3>3 DEF notifyStart, Glob
      <3>4. QED
        BY <3>2, <3>3
    <2>3. CASE Restart(p)
      BY <1>1, <2>3, Relaunching DEF Recounts, Active, Node
    <2>4. CASE FFTake(p) \/ FFLock(p) \/ FFInsert(p) \/ FFWait(p) \/ AppStep(p) \/ SimEnd(p)
               \/ NotifyEndCheck(p)
      BY <1>2, <2>4 DEF FFTake, FFLock, FFInsert, FFWait, AppStep, SimEnd, NotifyEndCheck, Join, Arrive,
           TakeBarrier, Leave, FFBasicBlock, FFITrackNFFInterval
    <2>5. CASE SyscallEnter(p) \/ SyscallExit(p) \/ Heartbeat(p) \/ Exit(p) \/ Toggle(p)
      BY <1>2, <2>5 DEF SyscallEnter, SyscallExit, Heartbeat, Exit, Toggle
    <2>6. QED
      BY <1>7, <2>1, <2>2, <2>3, <2>4, <2>5 DEF FFThread, EndStep, Choice
  <1>8. QED
    BY <1>5, <1>6, <1>7 DEF Next

LEMMA NextStart ==
  ASSUME TInv, Handshake, ~env.windows, StartInv, Next
  PROVE  StartInv'
  <1>1. UNCHANGED env /\ node \in [Procs -> Node] /\ FFTypeOK /\ glob \in Glob
    BY EnvFixed, TInvParts DEF TInv
  <1>2. ASSUME NEW p \in Procs, NotifyEnd(p)
        PROVE  StartInv'
    <2>1. /\ node[p].started /\ node[p].exited = "RUNNING"
          /\ \A q \in Procs : q \in env.configured \/ q < glob.procs => node[q].started
      BY <1>2 DEF TInv, LifeInv, NotifyEnd, Serialised
    <2>2. Recounts(p) /\ node'[p].started
      BY <1>1, <1>2, <2>1, CountingOut
    <2>3. QED
      BY <1>1, <2>1, <2>2 DEF Recounts, StartInv
  <1>3. ASSUME NEW p \in Procs, BeforeFork(p)
        PROVE  StartInv'
    <2>1. fin[p] = "no" /\ app[p] # "out" /\ ~flags.panicked
      BY <1>3 DEF BeforeFork, Acts, Alive
    <2>2. node[p].started /\ node[p].exited = "RUNNING"
      BY <2>1 DEF TInv, LifeInv
    <2>3. node'[p] = node[p]
      BY <1>3, <2>2, ForkStep
    <2>4. Active(p)'
      BY <2>2, <2>3 DEF Active
    <2>5. QED
      BY <2>4 DEF StartInv
  <1>4. CASE \A p \in Procs : ~NotifyEnd(p) /\ ~BeforeFork(p)
    BY <1>1, <1>4, NodeMoves DEF StartInv
  <1>5. QED
    BY <1>2, <1>3, <1>4

LEMMA NextTerm ==
  ASSUME TInv, Handshake, ~env.windows, TermInv, Next
  PROVE  TermInv'
  <1>1. Types /\ PhaseOK
    BY TInvParts
  <1>2. ASSUME (flags'.term <=> flags.term), phase' = phase,
               \A q \in Procs : \/ app'[q] = app[q] /\ fin'[q] = fin[q]
                                \/ app'[q] = app[q] /\ (flags.term \/ app[q] = "end")
                                \/ /\ fin'[q] = "no"
                                   /\ \/ app'[q] \notin {"run", "released", "arrived"}
                                      \/ app'[q] = "run" /\ phase.pc = "none" /\ ~flags.term
        PROVE  TermInv'
    BY <1>1, <1>2 DEF TermInv, PhaseOK
  <1>3. CASE EndOfPhaseActions
    <2>1. CASE WaitPause \/ WaitSynced \/ tick \/ FireFFI \/ TickDone
      <3>1. /\ UNCHANGED <<app, fin>> /\ (flags'.term <=> flags.term) /\ phase.pc # "none" /\ phase'.pc # "none"
            /\ phase'.pc \in {"pause", "synced", "term"} => phase.pc \in {"pause", "synced", "term"}
        BY <1>1, <2>1 DEF WaitPause, WaitSynced, tick, FireFFI, TickDone, Ending, PhaseOK, Phase, panic, Types
      <3>2. QED
        BY <3>1 DEF TermInv
    <2>2. CASE CheckForTermination \/ Fire
      <3>1. /\ UNCHANGED <<app, fin>> /\ (flags.term => flags'.term) /\ phase.pc # "none"
            /\ phase'.pc \in {"tick", "callback", "fire", "ffi"}
        BY <1>1, <2>2 DEF CheckForTermination, Fire, Ending, PhaseOK, Phase, panic, Types
      <3>2. QED
        BY <3>1 DEF TermInv
    <2>3. CASE CountPhase
      <3>1. /\ UNCHANGED <<fin, flags>> /\ phase'.pc = "none" /\ phase.pc = "count"
            /\ \A q \in Procs : app'[q] = IF app[q] = "arrived" THEN "released" ELSE app[q]
        BY <2>3 DEF CountPhase, Ending
      <3>2. QED
        BY <3>1 DEF TermInv
    <2>4. QED
      BY <1>3, <2>1, <2>2, <2>3 DEF EndOfPhaseActions
  <1>4. CASE DumpStats \/ GlobPause
    <2>1. /\ app' = app /\ phase' = phase /\ (flags'.term <=> flags.term)
          /\ \A q \in Procs : fin'[q] = "no" <=> fin[q] = "no"
      BY <1>1, <1>4 DEF DumpStats, GlobPause, Types
    <2>2. QED
      BY <2>1 DEF TermInv
  <1>5. ASSUME NEW p \in Procs, FFThread(p) \/ AppStep(p) \/ EndStep(p) \/ Choice(p)
        PROVE  TermInv'
    <2>1. CASE Arrive(p) \/ Leave(p) \/ SyscallEnter(p)
      <3>1. /\ phase.pc = "none" /\ UNCHANGED <<fin, flags>> /\ fin[p] = "no"
            /\ \A q \in Procs \ {p} : app'[q] = app[q]
            /\ app'[p] \notin {"run", "released"}
            /\ app'[p] = "arrived" => app[p] = "run"
        BY <1>1, <2>1, ProcsAssumption DEF Arrive, Leave, SyscallEnter, schedLockFree, PhaseOK, Acts, Alive, Types
      <3>2. CASE phase' = phase
        BY <3>1, <3>2 DEF TermInv
      <3>3. CASE phase' # phase
        <4>1. /\ phase' = [phase EXCEPT !.pc = "pause", !.ender = p]
              /\ \A q \in Members \ {p} : app'[q] = "arrived"
              /\ Arrive(p) \/ SyscallEnter(p) \/ Members \ {p} # {}
          BY <2>1, <3>3 DEF Arrive, Leave, SyscallEnter, Ends
        <4>2. phase'.pc = "pause"
          BY <1>1, <4>1 DEF PhaseOK, Phase
        <4>3. ~flags.term
          <5>1. CASE Arrive(p) \/ SyscallEnter(p)
            BY <3>1, <5>1 DEF TermInv, Arrive, SyscallEnter
          <5>2. CASE Members \ {p} # {}
            <6>1. PICK q \in Procs \ {p} : q \in Members
              BY <5>2 DEF Members
            <6>2. QED
              BY <3>1, <4>1, <6>1 DEF TermInv
          <5>3. QED
            BY <4>1, <5>1, <5>2
        <4>4. \A q \in Procs : app'[q] \notin {"run", "released"}
          <5>1. SUFFICES ASSUME NEW q \in Procs, q # p, app[q] \in {"run", "released"}
                         PROVE  FALSE
            BY <3>1
          <5>2. fin[q] = "no"
            BY <4>3, <5>1 DEF TermInv
          <5>3. q \in Members \ {p}
            BY <5>1, <5>2 DEF Members
          <5>4. QED
            BY <3>1, <4>1, <5>1, <5>3
        <4>5. QED
          BY <3>1, <4>2, <4>3, <4>4 DEF TermInv
      <3>4. QED
        BY <3>2, <3>3
    <2>2. CASE FFEnter(p)
      <3>1. /\ UNCHANGED <<app, fin, flags>> /\ phase.pc = "callback" /\ phase'.pc = "fire"
        BY <1>1, <2>2 DEF FFEnter, FFActs, Handshake, PhaseOK, Phase
      <3>2. QED
        BY <3>1 DEF TermInv
    <2>3. CASE FFTake(p) \/ FFExit(p) \/ FFLock(p) \/ FFInsert(p) \/ FFWait(p)
      BY <1>2, <2>3 DEF FFTake, FFExit, FFLock, FFInsert, FFWait
    <2>4. CASE Join(p)
      <3>1. /\ phase.pc = "none" /\ UNCHANGED <<fin, flags, phase>> /\ fin[p] = "no"
            /\ \A q \in Procs \ {p} : app'[q] = app[q]
            /\ app'[p] = IF flags.term THEN "leaveEnd" ELSE "run"
        BY <1>1, <2>4, ProcsAssumption DEF Join, schedLockFree, PhaseOK, Acts, Alive, Types
      <3>2. QED
        BY <1>2, <3>1
    <2>5. CASE TakeBarrier(p)
      <3>1. /\ phase.pc = "none" /\ UNCHANGED <<fin, flags, phase>> /\ fin[p] = "no"
            /\ \A q \in Procs \ {p} : app'[q] = app[q]
            /\ app'[p] \in {"leaveFF", "leaveEnd"} \/ (app'[p] = "run" /\ ~flags.term)
        BY <1>1, <2>5 DEF TakeBarrier, Acts, Alive, Types, TermInv
      <3>2. QED
        BY <1>2, <3>1
    <2>6. CASE FFBasicBlock(p) \/ FFITrackNFFInterval(p) \/ SyscallExit(p) \/ Exit(p) \/ FFIBasicBlock(p)
               \/ ROIBegin(p) \/ ROIEnd(p) \/ Heartbeat(p) \/ BeforeFork(p)
      <3>1. /\ UNCHANGED <<fin, phase>> /\ fin[p] = "no" /\ (flags'.term <=> flags.term)
            /\ \A q \in Procs \ {p} : app'[q] = app[q]
            /\ app'[p] = app[p] \/ app'[p] \in {"join", "ff", "end", "leaveEnd", "track"}
        BY <1>1, <2>6 DEF FFBasicBlock, FFITrackNFFInterval, SyscallExit, Exit, FFIBasicBlock, ROIBegin, ROIEnd,
             Heartbeat, BeforeFork, Acts, Alive, Types, panic
      <3>2. QED
        BY <1>2, <3>1
    <2>7. CASE SimEnd(p)
      <3>1. /\ UNCHANGED <<app, phase, flags>> /\ (flags.term \/ app[p] = "end")
            /\ \A q \in Procs \ {p} : fin'[q] = fin[q]
        BY <1>1, <2>7 DEF SimEnd, Types
      <3>2. QED
        BY <1>2, <3>1
    <2>8. CASE NotifyEndCheck(p) \/ NotifyEndExitFF(p) \/ NotifyEnd(p)
      <3>1. /\ UNCHANGED <<app, phase>> /\ (flags'.term <=> flags.term) /\ fin[p] # "no"
            /\ \A q \in Procs \ {p} : fin'[q] = fin[q]
        BY <1>1, <2>8 DEF NotifyEndCheck, NotifyEndExitFF, NotifyEnd, Types, panic
      <3>2. flags.term \/ app[p] = "end"
        BY <3>1 DEF TermInv
      <3>3. QED
        BY <1>2, <3>1, <3>2
    <2>9. CASE Start(p) \/ AfterForkInChild(p) \/ Restart(p)
      <3>1. /\ UNCHANGED phase /\ (flags'.term <=> flags.term) /\ fin'[p] = "no"
            /\ \A q \in Procs \ {p} : app'[q] = app[q] /\ fin'[q] = fin[q]
            /\ app'[p] \in {"ff", "track", "join"}
        BY <1>1, <2>9 DEF Start, AfterForkInChild, Restart, notifyStart, panic, Types, TInv, LifeInv
      <3>2. QED
        BY <1>2, <3>1
    <2>10. CASE Toggle(p)
      BY <1>2, <2>10 DEF Toggle
    <2>11. QED
      BY <1>5, <2>1, <2>2, <2>3, <2>4, <2>5, <2>6, <2>7, <2>8, <2>9, <2>10
         DEF FFThread, AppStep, EndStep, Choice
  <1>6. QED
    BY <1>3, <1>4, <1>5 DEF Next

\* What a step leaves alone of a process other than its own
Apart(q) ==
    /\ app'[q] = app[q] /\ ffpc'[q] = ffpc[q] /\ fin'[q] = fin[q] /\ node'[q] = node[q]
    /\ toggle'[q] = toggle[q]

LEMMA StepsApart ==
  ASSUME TInv, Next, ~EndOfPhaseActions
  PROVE  \/ \E p \in Procs :
              /\ FFThread(p) \/ AppStep(p) \/ EndStep(p) \/ Choice(p)
              /\ \A q \in Procs \ {p} : (q \in env.configured \/ ~BeforeFork(p)) => Apart(q)
         \/ /\ DumpStats \/ GlobPause
            /\ \A q \in Procs : q # 0 => Apart(q)
            /\ UNCHANGED <<node, app, ffpc, toggle, events, phase>>
  <1>1. Types /\ node \in [Procs -> Node]
    BY TInvParts
  <1>2. CASE DumpStats \/ GlobPause
    BY <1>1, <1>2 DEF DumpStats, GlobPause, Apart, Types
  <1>3. ASSUME NEW p \in Procs, FFThread(p) \/ AppStep(p) \/ EndStep(p) \/ Choice(p),
               NEW q \in Procs \ {p}, q \in env.configured \/ ~BeforeFork(p)
        PROVE  Apart(q)
    <2>1. app'[q] = app[q] /\ fin'[q] = fin[q]
      <3>1. CASE FFThread(p)
        BY <3>1 DEF FFThread, FFTake, FFExit, FFLock, FFInsert, FFWait, FFEnter
      <3>2. CASE AppStep(p) \/ EndStep(p)
        BY <1>1, <3>2 DEF AppStep, EndStep, Join, Arrive, TakeBarrier, Leave, FFBasicBlock,
             FFITrackNFFInterval, SimEnd, NotifyEndCheck, NotifyEndExitFF, NotifyEnd, Types
      <3>3. CASE Choice(p)
        BY <1>1, <3>3 DEF Choice, Start, Restart, BeforeFork, AfterForkInChild, FFIBasicBlock, SyscallEnter,
             SyscallExit, ROIBegin, ROIEnd, Heartbeat, Exit, Toggle, Types
      <3>4. QED
        BY <1>3, <3>1, <3>2, <3>3
    <2>2. ffpc'[q] = ffpc[q] /\ toggle'[q] = toggle[q]
      <3>1. CASE FFThread(p)
        BY <1>1, <3>1 DEF FFThread, FFTake, FFExit, FFLock, FFInsert, FFWait, FFEnter, Types
      <3>2. CASE AppStep(p) \/ EndStep(p)
        BY <1>1, <3>2 DEF AppStep, EndStep, Join, Arrive, TakeBarrier, Leave, FFBasicBlock,
             FFITrackNFFInterval, SimEnd, NotifyEndCheck, NotifyEndExitFF, NotifyEnd, Types
      <3>3. CASE Choice(p)
        BY <1>1, <3>3 DEF Choice, Start, Restart, BeforeFork, AfterForkInChild, FFIBasicBlock, SyscallEnter,
             SyscallExit, ROIBegin, ROIEnd, Heartbeat, Exit, Toggle, Types
      <3>4. QED
        BY <1>3, <3>1, <3>2, <3>3
    <2>3. node'[q] = node[q]
      <3>1. enterFastForward(p) \/ exitFastForward(p) \/ notifyStart(p) => node'[q] = node[q]
        BY <1>1 DEF enterFastForward, exitFastForward, notifyStart
      <3>2. CASE FFThread(p)
        BY <3>1, <3>2 DEF FFThread, FFTake, FFExit, FFLock, FFInsert, FFWait, FFEnter
      <3>3. CASE AppStep(p)
        BY <3>3 DEF AppStep, Join, Arrive, TakeBarrier, Leave, FFBasicBlock, FFITrackNFFInterval
      <3>4. CASE EndStep(p)
        BY <1>1, <3>1, <3>4 DEF EndStep, SimEnd, NotifyEndCheck, NotifyEndExitFF, NotifyEnd
      <3>5. CASE BeforeFork(p)
        BY <1>1, <1>3, <3>5 DEF BeforeFork
      <3>6. CASE Choice(p) /\ ~BeforeFork(p)
        BY <1>1, <3>1, <3>6 DEF Choice, Start, Restart, AfterForkInChild, FFIBasicBlock, SyscallEnter,
             SyscallExit, ROIBegin, ROIEnd, Heartbeat, Exit, Toggle
      <3>7. QED
        BY <1>3, <3>2, <3>3, <3>4, <3>5, <3>6
    <2>4. QED
      BY <2>1, <2>2, <2>3 DEF Apart
  <1>4. QED
    BY <1>2, <1>3 DEF Next

LEMMA NextExit ==
  ASSUME TInv, Handshake, ~env.windows, ExitInv, Next
  PROVE  ExitInv'
  <1>1. Types /\ PhaseOK /\ node \in [Procs -> Node]
    BY TInvParts
  <1>2. CASE EndOfPhaseActions
    <2>1. /\ fin' = fin
          /\ node' = node \/ (phase.p \in Procs /\ enterFastForward(phase.p))
      BY <1>1, <1>2 DEF EndOfPhaseActions, WaitPause, WaitSynced, CheckForTermination, tick, Fire, FireFFI,
           TickDone, CountPhase, Ending, PhaseOK
    <2>2. \A q \in Procs : node[q].inFF => node'[q].inFF
      BY <1>1, <2>1 DEF enterFastForward, Node
    <2>3. QED
      BY <2>1, <2>2 DEF ExitInv
  <1>3. CASE ~EndOfPhaseActions
    <2>1. CASE DumpStats \/ GlobPause
      BY <1>1, <2>1 DEF DumpStats, GlobPause, ExitInv, Types
    <2>2. ASSUME NEW p \in Procs, FFThread(p) \/ AppStep(p) \/ EndStep(p) \/ Choice(p),
                 \A q \in Procs \ {p} : (q \in env.configured \/ ~BeforeFork(p)) => Apart(q)
          PROVE  ExitInv'
      <3>1. SUFFICES ASSUME NEW q \in Procs, fin'[q] = "exitFF" PROVE node'[q].inFF
        BY DEF ExitInv
      <3>2. CASE q # p /\ (q \in env.configured \/ ~BeforeFork(p))
        BY <2>2, <3>1, <3>2 DEF ExitInv, Apart
      <3>3. CASE BeforeFork(p)
        <4>1. fin[q] = "exitFF" /\ ~flags.panicked
          BY <3>1, <3>3 DEF BeforeFork, Acts, Alive
        <4>2. node[q].started
          BY <4>1 DEF TInv, LifeInv
        <4>3. QED
          BY <3>3, <4>1, <4>2, ForkStep DEF ExitInv
      <3>4. CASE q = p /\ ~BeforeFork(p)
        <4>1. CASE FFThread(p) \/ AppStep(p)
          <5>1. fin'[p] = fin[p] /\ fin[p] = "no"
            BY <4>1 DEF FFThread, AppStep, FFTake, FFExit, FFLock, FFInsert, FFWait, FFEnter, FFActs, Join,
                 Arrive, TakeBarrier, Leave, FFBasicBlock, FFITrackNFFInterval, Acts, Alive
          <5>2. QED
            BY <3>1, <3>4, <5>1
        <4>2. CASE EndStep(p)
          <5>1. CASE SimEnd(p) \/ NotifyEndCheck(p)
            BY <1>1, <3>1, <3>4, <5>1 DEF SimEnd, NotifyEndCheck, Types
          <5>2. CASE NotifyEndExitFF(p) \/ NotifyEnd(p)
            <6>1. fin'[p] # "exitFF"
              BY <1>1, <5>2 DEF NotifyEndExitFF, NotifyEnd, Types, ExitInv
            <6>2. QED
              BY <3>1, <3>4, <6>1
          <5>3. QED
            BY <4>2, <5>1, <5>2 DEF EndStep
        <4>3. CASE Toggle(p)
          BY <3>1, <3>4, <4>3 DEF Toggle, ExitInv
        <4>4. CASE Choice(p) /\ ~Toggle(p)
          <5>1. fin'[p] = "no"
            BY <1>1, <3>4, <4>4 DEF Choice, Start, Restart, AfterForkInChild, FFIBasicBlock, SyscallEnter,
                 SyscallExit, ROIBegin, ROIEnd, Heartbeat, Exit, Acts, Alive, Types, TInv, LifeInv
          <5>2. QED
            BY <3>1, <3>4, <5>1
        <4>5. QED
          BY <2>2, <4>1, <4>2, <4>3, <4>4
      <3>5. QED
        BY <3>2, <3>3, <3>4
    <2>3. QED
      BY <1>3, <2>1, <2>2, StepsApart
  <1>4. QED
    BY <1>2, <1>3

LEMMA NextUndisturbed ==
  ASSUME Orderly, TInv, Handshake, FFIInv, Next
  PROVE  \A q \in env.ffi : Undisturbed(q)'
  <1>1. /\ Types /\ PhaseOK /\ node \in [Procs -> Node]
        /\ ~env.windows /\ env.ffi \subseteq env.configured /\ env.ffi \subseteq Procs
        /\ \A p \in env.ffi : p \notin env.toggled /\ p \notin env.hooks
    BY TInvParts, OrderlyEnv
  <1> SUFFICES ASSUME NEW q \in env.ffi PROVE Undisturbed(q)'
    OBVIOUS
  <1>2. Undisturbed(q) /\ q \in Procs
    BY <1>1 DEF FFIInv
  <1>3. ASSUME Apart(q) PROVE Undisturbed(q)'
    BY <1>2, <1>3 DEF Apart, Undisturbed
  <1>4. CASE EndOfPhaseActions
    <2>1. CASE FireFFI
      <3>1. /\ UNCHANGED <<app, fin, ffpc, toggle>>
            /\ node' = node \/ (phase.p \in Procs /\ enterFastForward(phase.p))
        BY <1>1, <2>1 DEF FireFFI, Ending, PhaseOK
      <3>2. /\ node[q].inFF => node'[q].inFF
            /\ node'[q].restarts = node[q].restarts /\ node'[q].exited = node[q].exited
        BY <1>1, <1>2, <3>1 DEF enterFastForward, Node
      <3>3. QED
        BY <1>2, <3>1, <3>2 DEF Undisturbed
    <2>2. CASE CountPhase
      BY <1>2, <2>2 DEF CountPhase, Undisturbed
    <2>3. CASE WaitPause \/ WaitSynced \/ CheckForTermination \/ tick \/ Fire \/ TickDone
      BY <1>3, <2>3 DEF WaitPause, WaitSynced, CheckForTermination, tick, Fire, TickDone, Apart
    <2>4. QED
      BY <1>4, <2>1, <2>2, <2>3 DEF EndOfPhaseActions
  <1>5. CASE DumpStats \/ GlobPause
    BY <1>1, <1>2, <1>5 DEF DumpStats, GlobPause, Undisturbed, Types
  <1>6. ASSUME NEW p \in Procs, FFThread(p) \/ AppStep(p) \/ EndStep(p) \/ Choice(p),
               \A r \in Procs \ {p} : (r \in env.configured \/ ~BeforeFork(p)) => Apart(r)
        PROVE  Undisturbed(q)'
    <2>1. CASE p # q
      BY <1>1, <1>2, <1>3, <1>6, <2>1
    <2>2. CASE p = q
      <3>1. CASE FFThread(p)
        <4>1. FFTake(p)
          BY <1>2, <2>2, <3>1 DEF FFThread, FFExit, FFLock, FFInsert, FFWait, FFEnter, FFActs, Undisturbed
        <4>2. QED
          BY <1>1, <1>2, <2>2, <4>1 DEF FFTake, FFActs, Undisturbed, Types
      <3>2. CASE AppStep(p)
        <4>1. UNCHANGED <<node, ffpc, fin, toggle>> /\ fin[p] = "no"
          BY <1>1, <3>2 DEF AppStep, Join, Arrive, TakeBarrier, Leave, FFBasicBlock, FFITrackNFFInterval,
               Acts, Alive
        <4>2. app'[p] \in {"ff", "leaveFF"} => app[p] = "leaveFF" \/ node[p].inFF
          BY <1>1, <3>2 DEF AppStep, Join, Arrive, TakeBarrier, Leave, FFBasicBlock, FFITrackNFFInterval, Types
        <4>3. QED
          BY <1>2, <2>2, <4>1, <4>2 DEF Undisturbed
      <3>3. CASE SimEnd(p) \/ NotifyEndCheck(p)
        BY <1>1, <1>2, <2>2, <3>3 DEF SimEnd, NotifyEndCheck, Undisturbed, Types
      <3>4. CASE NotifyEndExitFF(p)
        <4>1. /\ UNCHANGED <<app, ffpc, toggle>> /\ fin'[p] # "no"
              /\ node' = node \/ exitFastForward(p)
          BY <1>1, <3>4 DEF NotifyEndExitFF, Types
        <4>2. node'[q].restarts = node[q].restarts /\ node'[q].exited = node[q].exited
          BY <1>1, <1>2, <4>1 DEF exitFastForward, Node
        <4>3. QED
          BY <1>2, <2>2, <4>1, <4>2 DEF Undisturbed
      <3>5. CASE NotifyEnd(p)
        <4>1. node[p].restarts = 0
          BY <1>2, <2>2 DEF Undisturbed
        <4>2. /\ UNCHANGED <<app, ffpc, toggle>> /\ fin'[p] # "no"
              /\ node' = [node EXCEPT ![p].exited = "EXITED", ![p].restarts = node[p].restarts]
          BY <1>1, <3>5, <4>1 DEF NotifyEnd, Types, Node
        <4>3. node'[p].restarts = 0 /\ node'[p].exited = "EXITED"
          BY <1>1, <4>1, <4>2 DEF Node
        <4>4. QED
          BY <1>2, <2>2, <4>2, <4>3 DEF Undisturbed
      <3>6. CASE Start(p)
        <4>1. /\ app'[p] = "ff" => node[p].inFF
              /\ app'[p] # "leaveFF" /\ ffpc'[p] = "init" /\ UNCHANGED toggle
          BY <1>1, <3>6 DEF Start, Types
        <4>2. /\ node[p].inFF => node'[p].inFF
              /\ node'[p].restarts = node[p].restarts /\ node'[p].exited = node[p].exited
          BY <1>1, <3>6 DEF Start, notifyStart, Node
        <4>3. QED
          BY <1>2, <2>2, <4>1, <4>2 DEF Undisturbed
      <3>7. CASE FFIBasicBlock(p)
        <4>1. node[p].inFF /\ UNCHANGED <<fin, ffpc, toggle>>
          BY <1>1, <1>2, <2>2, <3>7 DEF FFIBasicBlock, Acts, Alive, Undisturbed
        <4>2. \/ exitFastForward(p) /\ app'[p] = "track"
              \/ UNCHANGED node /\ app'[p] = "end"
          BY <1>1, <3>7, <4>1 DEF FFIBasicBlock, Types
        <4>3. /\ node'[p].restarts = node[p].restarts /\ node'[p].exited = node[p].exited
          BY <1>1, <4>2 DEF exitFastForward, Node
        <4>4. QED
          BY <1>2, <2>2, <4>1, <4>2, <4>3 DEF Undisturbed
      <3>8. CASE SyscallEnter(p) \/ SyscallExit(p) \/ Heartbeat(p) \/ Exit(p)
        <4>1. UNCHANGED <<node, ffpc, fin, toggle>> /\ fin[p] = "no"
          BY <1>1, <3>8 DEF SyscallEnter, SyscallExit, Heartbeat, Exit, Acts, Alive
        <4>2. app'[p] \in {"ff", "leaveFF"} => app[p] \in {"ff", "leaveFF"} \/ node[p].inFF
          BY <1>1, <3>8 DEF SyscallEnter, SyscallExit, Heartbeat, Exit, Types
        <4>3. QED
          BY <1>2, <2>2, <4>1, <4>2 DEF Undisturbed
      <3>9. CASE BeforeFork(p)
        <4>1. UNCHANGED <<app, ffpc, fin, toggle>> /\ fin[p] = "no" /\ app[p] # "out" /\ ~flags.panicked
          BY <1>1, <3>9 DEF BeforeFork, Acts, Alive
        <4>2. node'[p] = node[p]
          BY <3>9, <4>1, ForkStep DEF TInv, LifeInv
        <4>3. QED
          BY <1>2, <2>2, <4>1, <4>2 DEF Undisturbed
      <3>10. ~Restart(p) /\ ~AfterForkInChild(p) /\ ~ROIBegin(p) /\ ~ROIEnd(p) /\ ~Toggle(p)
        BY <1>1, <1>2, <2>2 DEF Restart, AfterForkInChild, ROIBegin, ROIEnd, Toggle, Undisturbed
      <3>11. QED
        BY <1>6, <3>1, <3>2, <3>3, <3>4, <3>5, <3>6, <3>7, <3>8, <3>9, <3>10 DEF EndStep, Choice
    <2>3. QED
      BY <2>1, <2>2
  <1>7. QED
    BY <1>4, <1>5, <1>6, StepsApart

\* Steps that make no new count and let nobody in.
LEMMA TokensStay ==
  ASSUME TokenInv, UNCHANGED env, events \subseteq Event, env.ffi \subseteq Procs,
         \A q \in env.ffi : app'[q] = "track" => app[q] = "track",
         \A q \in Procs : app'[q] = "track" => q \in env.ffi,
         \A ev \in events' : ev.kind = "ffi" => ev \in events,
         phase'.pc = "ffi" => phase' = phase,
         \A q \in env.ffi : node'[q].inFF => node[q].inFF
  PROVE  TokenInv'
  <1>1. \A q \in Procs : /\ Queued(q)' => Queued(q)
                         /\ Firing(q)' => Firing(q)
                         /\ Tracks(q)' => q \in env.ffi /\ Tracks(q)
    BY DEF Queued, Firing, Tracks
  <1>2. \A q \in Procs : Tracks(q)' \/ Queued(q)' \/ Firing(q)' => q \in env'.ffi /\ ~node'[q].inFF
    BY <1>1 DEF TokenInv
  <1>3. /\ \A q \in Procs : Tracks(q)' => ~Queued(q)' /\ ~Firing(q)'
        /\ \A q \in Procs : Firing(q)' => ~Queued(q)'
    BY <1>1 DEF TokenInv
  <1>4. \A e, f \in events' : e.kind = "ffi" /\ f.kind = "ffi" /\ e.p = f.p => e = f
    BY DEF TokenInv
  <1>5. QED
    BY <1>2, <1>3, <1>4 DEF TokenInv

LEMMA QueueFFI ==
  ASSUME NEW p \in Procs, events' = events \cup {[kind |-> "ffi", p |-> p, due |-> 1]}
  PROVE  \A q \in Procs : Queued(q)' <=> Queued(q) \/ q = p
  <1> DEFINE e == [kind |-> "ffi", p |-> p, due |-> 1]
  <1>1. e.kind = "ffi" /\ e.p = p /\ events' = events \cup {e}
    OBVIOUS
  <1> HIDE DEF e
  <1>2. QED
    BY <1>1 DEF Queued

LEMMA NextTokens ==
  ASSUME Orderly, TInv, Handshake, FFIInv, Next
  PROVE  TokenInv'
  <1>1. /\ Types /\ PhaseOK /\ node \in [Procs -> Node] /\ events \subseteq Event /\ UNCHANGED env
        /\ ~env.windows /\ env.ffi \subseteq env.configured /\ env.ffi \subseteq Procs
        /\ \A p \in env.ffi : p \notin env.toggled /\ p \notin env.hooks
        /\ TokenInv /\ \A q \in env.ffi : Undisturbed(q)
    BY TInvParts, OrderlyEnv, EnvFixed DEF FFIInv
  <1>2. \A q \in Procs : app[q] = "track" => q \in env.ffi
    BY <1>1 DEF TokenInv, Tracks
  <1>3. CASE EndOfPhaseActions
    <2>1. CASE WaitPause \/ WaitSynced \/ CheckForTermination \/ tick \/ TickDone
      <3>1. UNCHANGED <<app, events, node>> /\ phase'.pc # "ffi"
        BY <1>1, <2>1 DEF WaitPause, WaitSynced, CheckForTermination, tick, TickDone, PhaseOK, Phase
      <3>2. QED
        BY <1>1, <1>2, <3>1, TokensStay
    <2>2. CASE Fire
      <3>1. PICK ev \in events :
               /\ events' = events \ {ev}
               /\ \/ phase'.pc # "ffi"
                  \/ ev.kind = "ffi" /\ phase' = [phase EXCEPT !.pc = "ffi", !.p = ev.p]
        <4>1. phase.pc # "ffi"
          BY <2>2 DEF Fire, Ending
        <4>2. QED
          BY <1>1, <2>2, <4>1 DEF Fire, PhaseOK, Phase
      <3>2. UNCHANGED <<app, node>>
        BY <2>2 DEF Fire
      <3>3. CASE phase'.pc # "ffi"
        BY <1>1, <1>2, <3>1, <3>2, <3>3, TokensStay
      <3>4. CASE phase'.pc = "ffi"
        <4>1. ev.kind = "ffi" /\ phase'.p = ev.p /\ ev.p \in Procs
          BY <1>1, <3>1, <3>4 DEF PhaseOK, Phase, Event
        <4>2. \A q \in Procs : /\ Queued(q)' => Queued(q) /\ q # ev.p
                               /\ Firing(q)' <=> q = ev.p
                               /\ Tracks(q)' <=> Tracks(q)
          BY <1>1, <3>1, <3>2, <3>4, <4>1 DEF Queued, Firing, Tracks, TokenInv
        <4>3. Queued(ev.p) /\ ~Tracks(ev.p)
          BY <1>1, <4>1 DEF Queued, TokenInv
        <4>4. \A q \in Procs : Tracks(q)' \/ Queued(q)' \/ Firing(q)' => q \in env'.ffi /\ ~node'[q].inFF
          BY <1>1, <3>2, <4>2, <4>3 DEF TokenInv
        <4>5. /\ \A q \in Procs : Tracks(q)' => ~Queued(q)' /\ ~Firing(q)'
              /\ \A q \in Procs : Firing(q)' => ~Queued(q)'
          BY <1>1, <4>2, <4>3 DEF TokenInv
        <4>6. \A e, f \in events' : e.kind = "ffi" /\ f.kind = "ffi" /\ e.p = f.p => e = f
          BY <1>1, <3>1 DEF TokenInv
        <4>7. QED
          BY <4>4, <4>5, <4>6 DEF TokenInv
      <3>5. QED
        BY <3>3, <3>4
    <2>3. CASE FireFFI
      <3> DEFINE p == phase.p
      <3>1. /\ p \in Procs /\ Firing(p) /\ phase'.pc = "fire" /\ app' = app
        BY <1>1, <2>3 DEF FireFFI, Ending, PhaseOK, Phase, Firing
      <3>2. p \in env.ffi /\ ~node[p].inFF /\ ~Queued(p) /\ ~Tracks(p)
        BY <1>1, <3>1 DEF TokenInv
      <3>3. \/ events' = events /\ enterFastForward(p)
            \/ events' = events \cup {[kind |-> "ffi", p |-> p, due |-> 1]} /\ node' = node
        BY <2>3, <3>2 DEF FireFFI
      <3> HIDE DEF p
      <3>4. \A q \in Procs : ~Firing(q)' /\ (Tracks(q)' <=> Tracks(q))
        BY <3>1 DEF Firing, Tracks
      <3>5. CASE events' = events /\ enterFastForward(p)
        <4>1. \A q \in Procs : q # p => node'[q] = node[q]
          BY <1>1, <3>1, <3>5 DEF enterFastForward
        <4>2. \A q \in Procs : Queued(q)' <=> Queued(q)
          BY <3>5 DEF Queued
        <4>3. \A q \in Procs : Tracks(q)' \/ Queued(q)' \/ Firing(q)' => q \in env'.ffi /\ ~node'[q].inFF
          BY <1>1, <3>2, <3>4, <4>1, <4>2 DEF TokenInv
        <4>4. QED
          BY <1>1, <3>4, <3>5, <4>2, <4>3 DEF TokenInv
      <3>6. CASE events' = events \cup {[kind |-> "ffi", p |-> p, due |-> 1]} /\ node' = node
        <4>1. \A q \in Procs : Queued(q)' <=> Queued(q) \/ q = p
          BY <3>1, <3>6, QueueFFI
        <4>2. \A q \in Procs : Tracks(q)' \/ Queued(q)' \/ Firing(q)' => q \in env'.ffi /\ ~node'[q].inFF
          BY <1>1, <3>2, <3>4, <3>6, <4>1 DEF TokenInv
        <4>3. \A e, f \in events' : e.kind = "ffi" /\ f.kind = "ffi" /\ e.p = f.p => e = f
          BY <1>1, <3>2, <3>6 DEF TokenInv, Queued
        <4>4. QED
          BY <1>1, <3>2, <3>4, <4>1, <4>2, <4>3 DEF TokenInv
      <3>7. QED
        BY <3>3, <3>5, <3>6
    <2>4. CASE CountPhase
      <3>1. /\ events' = {[ev EXCEPT !.due = @ - 1] : ev \in events} /\ phase'.pc = "none" /\ node' = node
            /\ app' = [p \in Procs |-> IF app[p] = "arrived" THEN "released" ELSE app[p]]
        BY <2>4 DEF CountPhase
      <3>2. \A q \in Procs : ~Firing(q)' /\ (Tracks(q)' => Tracks(q))
        BY <1>1, <3>1 DEF Firing, Tracks
      <3>3. \A ev \in events : [ev EXCEPT !.due = @ - 1].kind = ev.kind /\ [ev EXCEPT !.due = @ - 1].p = ev.p
        BY <1>1 DEF Event
      <3>4. \A q \in Procs : Queued(q)' => Queued(q)
        <4>1. SUFFICES ASSUME NEW q \in Procs, NEW e \in events', e.kind = "ffi", e.p = q
                       PROVE  Queued(q)
          BY DEF Queued
        <4>2. PICK x \in events : e = [x EXCEPT !.due = @ - 1]
          BY <3>1
        <4>3. QED
          BY <3>3, <4>1, <4>2 DEF Queued
      <3>5. \A e, f \in events' : e.kind = "ffi" /\ f.kind = "ffi" /\ e.p = f.p => e = f
        <4>1. SUFFICES ASSUME NEW e \in events', NEW f \in events', e.kind = "ffi", f.kind = "ffi", e.p = f.p
                       PROVE  e = f
          OBVIOUS
        <4>2. PICK x \in events : e = [x EXCEPT !.due = @ - 1]
          BY <3>1
        <4>3. PICK y \in events : f = [y EXCEPT !.due = @ - 1]
          BY <3>1
        <4>4. x = y
          BY <1>1, <3>3, <4>1, <4>2, <4>3 DEF TokenInv
        <4>5. QED
          BY <4>2, <4>3, <4>4
      <3>6. \A q \in Procs : Tracks(q)' \/ Queued(q)' \/ Firing(q)' => q \in env'.ffi /\ ~node'[q].inFF
        BY <1>1, <3>1, <3>2, <3>4 DEF TokenInv
      <3>7. QED
        BY <1>1, <3>2, <3>4, <3>5, <3>6 DEF TokenInv
    <2>5. QED
      BY <1>3, <2>1, <2>2, <2>3, <2>4 DEF EndOfPhaseActions
  <1>4. CASE DumpStats \/ GlobPause
    <2>1. UNCHANGED <<app, events, node, phase>>
      BY <1>4 DEF DumpStats, GlobPause
    <2>2. QED
      BY <1>1, <1>2, <2>1, TokensStay
  <1>5. ASSUME NEW p \in Procs, FFThread(p) \/ AppStep(p) \/ EndStep(p) \/ Choice(p)
        PROVE  TokenInv'
    <2>1. CASE FFThread(p)
      <3>1. UNCHANGED app /\ (phase' = phase \/ phase'.pc = "fire")
        BY <1>1, <2>1 DEF FFThread, FFTake, FFExit, FFLock, FFInsert, FFWait, FFEnter, PhaseOK, Phase
      <3>2. \A ev \in events' : ev.kind = "ffi" => ev \in events
        BY <2>1 DEF FFThread, FFTake, FFExit, FFLock, FFInsert, FFWait, FFEnter
      <3>3. \A q \in env.ffi : node'[q].inFF => node[q].inFF
        <4>1. CASE FFEnter(p) \/ FFExit(p)
          <5>1. p \notin env.ffi
            BY <1>1, <4>1 DEF FFEnter, FFExit, FFActs, Undisturbed
          <5>2. QED
            BY <1>1, <4>1, <5>1 DEF FFEnter, FFExit, enterFastForward, exitFastForward
        <4>2. CASE FFTake(p) \/ FFLock(p) \/ FFInsert(p) \/ FFWait(p)
          BY <4>2 DEF FFTake, FFLock, FFInsert, FFWait
        <4>3. QED
          BY <2>1, <4>1, <4>2 DEF FFThread
      <3>4. QED
        BY <1>1, <1>2, <3>1, <3>2, <3>3, TokensStay
    <2>2. CASE FFITrackNFFInterval(p)
      <3>1. /\ events' = events \cup {[kind |-> "ffi", p |-> p, due |-> 1]}
            /\ UNCHANGED <<node, phase>> /\ app[p] = "track"
            /\ \A q \in Procs : app'[q] = "track" <=> app[q] = "track" /\ q # p
        BY <1>1, <2>2 DEF FFITrackNFFInterval, Types
      <3>2. p \in env.ffi /\ ~node[p].inFF /\ ~Queued(p) /\ ~Firing(p)
        BY <1>1, <3>1 DEF TokenInv, Tracks
      <3>3. \A q \in Procs : /\ Queued(q)' <=> Queued(q) \/ q = p
                             /\ Firing(q)' <=> Firing(q)
                             /\ Tracks(q)' <=> Tracks(q) /\ q # p
        <4>1. \A q \in Procs : Queued(q)' <=> Queued(q) \/ q = p
          BY <3>1, QueueFFI
        <4>2. QED
          BY <3>1, <4>1 DEF Firing, Tracks
      <3>4. \A q \in Procs : Tracks(q)' \/ Queued(q)' \/ Firing(q)' => q \in env'.ffi /\ ~node'[q].inFF
        BY <1>1, <3>1, <3>2, <3>3 DEF TokenInv
      <3>5. \A e, f \in events' : e.kind = "ffi" /\ f.kind = "ffi" /\ e.p = f.p => e = f
        BY <1>1, <3>1, <3>2 DEF TokenInv, Queued
      <3>6. QED
        BY <1>1, <3>2, <3>3, <3>4, <3>5 DEF TokenInv
    <2>3. CASE Join(p) \/ Arrive(p) \/ TakeBarrier(p) \/ Leave(p) \/ FFBasicBlock(p)
               \/ SyscallEnter(p) \/ SyscallExit(p) \/ Exit(p) \/ Heartbeat(p)
      <3>1. UNCHANGED node /\ (phase' = phase \/ phase'.pc = "pause")
        BY <1>1, <2>3 DEF Join, Arrive, TakeBarrier, Leave, FFBasicBlock, SyscallEnter, SyscallExit, Exit,
             Heartbeat, Ends, PhaseOK, Phase
      <3>2. \A ev \in events' : ev.kind = "ffi" => ev \in events
        BY <2>3 DEF Join, Arrive, TakeBarrier, Leave, FFBasicBlock, SyscallEnter, SyscallExit, Exit, Heartbeat
      <3>3. \A q \in Procs : app'[q] = "track" => app[q] = "track"
        BY <1>1, <2>3 DEF Join, Arrive, TakeBarrier, Leave, FFBasicBlock, SyscallEnter, SyscallExit, Exit,
             Heartbeat, Types
      <3>4. QED
        BY <1>1, <1>2, <3>1, <3>2, <3>3, TokensStay
    <2>4. CASE EndStep(p) \/ ROIBegin(p) \/ ROIEnd(p) \/ BeforeFork(p) \/ Toggle(p)
      <3>1. UNCHANGED <<app, events, phase>>
        BY <2>4 DEF EndStep, SimEnd, NotifyEndCheck, NotifyEndExitFF, NotifyEnd, ROIBegin, ROIEnd,
             BeforeFork, Toggle
      <3>2. \A q \in env.ffi : node'[q].inFF => node[q].inFF
        <4>1. CASE SimEnd(p) \/ NotifyEndCheck(p) \/ Toggle(p)
          BY <4>1 DEF SimEnd, NotifyEndCheck, Toggle
        <4>2. CASE NotifyEndExitFF(p) \/ ROIBegin(p)
          BY <1>1, <4>2 DEF NotifyEndExitFF, ROIBegin, exitFastForward, Node
        <4>3. CASE NotifyEnd(p)
          <5>1. /\ node[p].started /\ node[p].exited = "RUNNING" /\ FFTypeOK
            BY <4>3 DEF TInv, LifeInv, NotifyEnd
          <5>2. QED
            BY <1>1, <4>3, <5>1, CountingOut DEF Recounts
        <4>4. CASE ROIEnd(p)
          BY <1>1, <4>4 DEF ROIEnd, enterFastForward
        <4>5. CASE BeforeFork(p)
          BY <1>1, <4>5 DEF BeforeFork
        <4>6. QED
          BY <2>4, <4>1, <4>2, <4>3, <4>4, <4>5 DEF EndStep
      <3>3. QED
        BY <1>1, <1>2, <3>1, <3>2, TokensStay
    <2>5. CASE Restart(p) \/ AfterForkInChild(p)
      <3>1. p \notin env.ffi
        BY <1>1, <2>5 DEF Restart, AfterForkInChild, Undisturbed
      <3>2. /\ UNCHANGED <<events, phase>> /\ \A q \in Procs \ {p} : app'[q] = app[q] /\ node'[q] = node[q]
            /\ app'[p] # "track"
        BY <1>1, <2>5, <3>1 DEF Restart, AfterForkInChild, notifyStart, Types
      <3>3. QED
        BY <1>1, <1>2, <3>1, <3>2, TokensStay
    <2>6. CASE Start(p) \/ FFIBasicBlock(p)
      <3>1. /\ UNCHANGED <<events, phase>> /\ \A q \in Procs \ {p} : app'[q] = app[q] /\ node'[q] = node[q]
        BY <1>1, <2>6 DEF Start, FFIBasicBlock, notifyStart, exitFastForward, Types
      <3>2. app'[p] = "track" => p \in env.ffi /\ ~node'[p].inFF /\ ~Queued(p) /\ ~Firing(p)
        <4>1. CASE Start(p)
          <5>1. ~Queued(p) /\ ~Firing(p)
            BY <4>1 DEF Start, Queued, Firing, TInv, LifeInv
          <5>2. app'[p] = "track" => p \in env.ffi /\ ~node[p].inFF
            BY <1>1, <4>1 DEF Start, Types
          <5>3. node'[p].inFF <=> node[p].inFF
            BY <1>1, <4>1 DEF Start, notifyStart, Node
          <5>4. QED
            BY <5>1, <5>2, <5>3
        <4>2. CASE FFIBasicBlock(p)
          <5>1. p \in env.ffi /\ app[p] = "ff" /\ node[p].inFF
            BY <1>1, <4>2 DEF FFIBasicBlock, Undisturbed, Acts, Alive
          <5>2. ~Queued(p) /\ ~Firing(p)
            BY <1>1, <5>1 DEF TokenInv
          <5>3. app'[p] = "track" => ~node'[p].inFF
            BY <1>1, <4>2, <5>1 DEF FFIBasicBlock, exitFastForward, Types, Node
          <5>4. QED
            BY <5>1, <5>2, <5>3
        <4>3. QED
          BY <2>6, <4>1, <4>2
      <3>3. Queued(p) \/ Firing(p) => ~node'[p].inFF
        <4>1. CASE Start(p)
          BY <4>1 DEF Start, Queued, Firing, TInv, LifeInv
        <4>2. CASE FFIBasicBlock(p)
          <5>1. node[p].inFF
            BY <1>1, <4>2 DEF FFIBasicBlock, Undisturbed, Acts, Alive
          <5>2. QED
            BY <1>1, <5>1 DEF TokenInv
        <4>3. QED
          BY <2>6, <4>1, <4>2
      <3>4. \A q \in Procs : /\ Queued(q)' <=> Queued(q)
                             /\ Firing(q)' <=> Firing(q)
                             /\ q # p => (Tracks(q)' <=> Tracks(q))
        BY <3>1 DEF Queued, Firing, Tracks
      <3>5. \A q \in Procs : Tracks(q)' \/ Queued(q)' \/ Firing(q)' => q \in env'.ffi /\ ~node'[q].inFF
        BY <1>1, <3>1, <3>2, <3>3, <3>4 DEF TokenInv, Tracks
      <3>6. /\ \A q \in Procs : Tracks(q)' => ~Queued(q)' /\ ~Firing(q)'
            /\ \A q \in Procs : Firing(q)' => ~Queued(q)'
        BY <1>1, <3>2, <3>4 DEF TokenInv, Tracks
      <3>7. QED
        BY <1>1, <3>1, <3>5, <3>6 DEF TokenInv
    <2>7. QED
      BY <1>5, <2>1, <2>2, <2>3, <2>4, <2>5, <2>6 DEF AppStep, Choice
  <1>6. QED
    BY <1>3, <1>4, <1>5 DEF Next

-----------------------------------------------------------------------------

ActiveExact == glob.active = Cardinality(ActiveSet)

PanicInv == EventsInv /\ StartInv /\ TermInv /\ ExitInv /\ FFIInv /\ ActiveExact

LEMMA NextActive ==
  ASSUME TInv, Handshake, ActiveExact, Next
  PROVE  ActiveExact'
  <1>1. ASSUME NEW p \in Procs, Recounts(p)
        PROVE  ActiveExact'
    <2>1. \A q \in Procs \ {p} : Active(q)' <=> Active(q)
      BY <1>1 DEF Recounts, Active
    <2>2. /\ ActiveSet \in SUBSET Procs /\ ActiveSet' \in SUBSET Procs
          /\ \A q \in Procs \ {p} : q \in ActiveSet <=> q \in ActiveSet'
          /\ (p \in ActiveSet <=> Active(p)) /\ (p \in ActiveSet' <=> Active(p)')
      BY <2>1 DEF ActiveSet
    <2>3. Cardinality(ActiveSet') = Cardinality(ActiveSet) + Bit(p \in ActiveSet') - Bit(p \in ActiveSet)
      BY <2>2, CardinalityStep
    <2>4. glob'.active = glob.active + Bit(Active(p)') - Bit(Active(p))
      BY <1>1 DEF Recounts
    <2>5. QED
      BY <2>2, <2>3, <2>4 DEF ActiveExact, Bit
  <1>2. ASSUME glob'.active = glob.active, \A q \in Procs : Active(q)' <=> Active(q)
        PROVE  ActiveExact'
    <2>1. ActiveSet' = ActiveSet
      BY <1>2 DEF ActiveSet
    <2>2. QED
      BY <1>2, <2>1 DEF ActiveExact
  <1>3. CASE CountPhase
    BY <1>2, <1>3, CountPhaseStep DEF Active
  <1>4. ASSUME NEW p \in Procs, BeforeFork(p)
        PROVE  ActiveExact'
    <2>1. /\ glob'.active = glob.active
          /\ \A q \in Procs : /\ node'[q].started <=> node[q].started
                              /\ node[q].started => node'[q] = node[q]
      BY <1>4, ForkStep
    <2>2. \A q \in Procs : Active(q)' <=> Active(q)
      BY <2>1 DEF Active
    <2>3. QED
      BY <1>2, <2>1, <2>2
  <1>5. QED
    BY <1>1, <1>3, <1>4, NextTInv DEF Recounted

LEMMA InitPanic == ASSUME Orderly PROVE Init => NoPanic /\ PanicInv
  <1> SUFFICES ASSUME Init PROVE NoPanic /\ PanicInv
    OBVIOUS
  <1>1. TInv
    BY InitTInv
  <1>2. /\ ~env.windows /\ env.ffi \subseteq env.configured /\ env.ffi \subseteq Procs
        /\ \A p \in env.ffi : env.restarts[p] = 0
    BY <1>1, OrderlyEnv
  <1>3. /\ 0 \in Procs /\ events = {} /\ phase.pc = "none" /\ ~flags.term /\ ~flags.panicked
        /\ \A p \in Procs : /\ fin[p] = "no" /\ node[p].exited = "RUNNING"
                            /\ node[p].restarts = env.restarts[p]
                            /\ ffpc[p] \in {"none", "init"}
                            /\ app[p] \notin {"run", "released", "arrived", "leaveFF"}
                            /\ app[p] = "track" => p \in env.ffi /\ ~node[p].inFF
                            /\ app[p] = "ff" => node[p].inFF
        /\ node[0].started
    BY ProcsAssumption DEF Init
  <1>4. EventsInv /\ TermInv /\ ExitInv /\ NoPanic
    BY <1>3 DEF EventsInv, TermInv, ExitInv, NoPanic
  <1>5. StartInv
    BY <1>3 DEF StartInv, Active
  <1>6. FFIInv
    BY <1>2, <1>3 DEF FFIInv, TokenInv, Undisturbed, Tracks, Queued, Firing
  <1>7. ActiveExact
    BY InitCounts, CountsSets DEF ActiveExact
  <1>8. QED
    BY <1>4, <1>5, <1>6, <1>7 DEF PanicInv

LEMMA NextNoPanic ==
  ASSUME Orderly, TInv, Handshake, NoPanic, PanicInv, Next
  PROVE  NoPanic'
  <1>1. Types /\ PhaseOK /\ events \subseteq Event /\ glob \in Glob
    BY TInvParts
  <1>2. ~flags.panicked /\ EventsInv /\ StartInv /\ TermInv /\ ExitInv /\ FFIInv /\ ActiveExact
        /\ ~env.windows
    BY OrderlyEnv DEF NoPanic, PanicInv
  <1>3. ASSUME UNCHANGED flags PROVE NoPanic'
    BY <1>2, <1>3 DEF NoPanic
  <1>4. CASE EndOfPhaseActions
    <2>1. CASE CheckForTermination
      <3>1. ~flags.term
        BY <1>2, <2>1 DEF CheckForTermination, Ending, TermInv
      <3>2. flags' = flags \/ flags' = [flags EXCEPT !.term = TRUE]
        BY <2>1, <3>1 DEF CheckForTermination
      <3>3. QED
        BY <1>1, <1>2, <3>2 DEF NoPanic, Types
    <2>2. CASE Fire
      <3>1. \A ev \in events : ~(ev.due < 0)
        BY <1>1, <1>2 DEF EventsInv, Event
      <3>2. flags' = flags \/ flags' = [flags EXCEPT !.term = TRUE]
        BY <2>2, <3>1 DEF Fire
      <3>3. QED
        BY <1>1, <1>2, <3>2 DEF NoPanic, Types
    <2>3. CASE FireFFI
      <3>1. phase.p \in Procs /\ Firing(phase.p)
        BY <1>1, <2>3 DEF FireFFI, Ending, PhaseOK, Firing
      <3>2. ~node[phase.p].inFF
        BY <1>2, <3>1 DEF FFIInv, TokenInv
      <3>3. QED
        BY <1>3, <2>3, <3>2 DEF FireFFI
    <2>4. CASE WaitPause \/ WaitSynced \/ tick \/ TickDone \/ CountPhase
      BY <1>3, <2>4 DEF WaitPause, WaitSynced, tick, TickDone, CountPhase
    <2>5. QED
      BY <1>4, <2>1, <2>2, <2>3, <2>4 DEF EndOfPhaseActions
  <1>5. CASE DumpStats \/ GlobPause
    BY <1>1, <1>2, <1>5 DEF DumpStats, GlobPause, NoPanic, Types
  <1>6. ASSUME NEW p \in Procs, FFThread(p) \/ AppStep(p) \/ EndStep(p) \/ Choice(p)
        PROVE  NoPanic'
    <2>1. CASE FFThread(p) \/ AppStep(p)
      BY <1>3, <2>1 DEF FFThread, FFTake, FFExit, FFLock, FFInsert, FFWait, FFEnter, AppStep, Join, Arrive,
           TakeBarrier, Leave, FFBasicBlock, FFITrackNFFInterval
    <2>2. CASE NotifyEndExitFF(p)
      BY <1>2, <1>3, <2>2 DEF NotifyEndExitFF, ExitInv
    <2>3. CASE SimEnd(p) \/ NotifyEndCheck(p) \/ NotifyEnd(p)
      BY <1>3, <2>3 DEF SimEnd, NotifyEndCheck, NotifyEnd
    <2>4. CASE Start(p) \/ AfterForkInChild(p)
      <3>1. /\ ~node[p].started /\ (p \in env.configured \/ p < glob.procs) /\ notifyStart(p)
        BY <2>4 DEF Start, AfterForkInChild
      <3>2. ActiveSet # {}
        BY <1>2, <3>1 DEF StartInv, ActiveSet
      <3>3. IsFiniteSet(ActiveSet)
        BY ProcsAssumption, FS_Subset DEF ActiveSet
      <3>4. Cardinality(ActiveSet) # 0
        BY <3>2, <3>3, FS_EmptySet
      <3>5. QED
        BY <1>2, <1>3, <3>1, <3>4 DEF notifyStart, ActiveExact
    <2>5. CASE FFIBasicBlock(p)
      <3>1. node[p].inFF
        BY <1>2, <2>5 DEF FFIBasicBlock, Acts, Alive, FFIInv, Undisturbed
      <3>2. QED
        BY <1>3, <2>5, <3>1 DEF FFIBasicBlock
    <2>6. CASE Choice(p) /\ ~Start(p) /\ ~AfterForkInChild(p) /\ ~FFIBasicBlock(p)
      BY <1>3, <2>6 DEF Choice, Restart, BeforeFork, SyscallEnter, SyscallExit, ROIBegin, ROIEnd, Heartbeat,
           Exit, Toggle
    <2>7. QED
      BY <1>6, <2>1, <2>2, <2>3, <2>4, <2>5, <2>6 DEF EndStep
  <1>7. QED
    BY <1>4, <1>5, <1>6 DEF Next

\* None of the code's panics and assertions on fast-forwarding, events and
\* process lives is reached in an orderly environment, however many processes
\* there are.
THEOREM FastForwardNoPanic == ASSUME Orderly PROVE Spec => []NoPanic
  <1>1. Init => NoPanic /\ PanicInv
    BY InitPanic
  <1>2. TInv /\ Handshake /\ NoPanic /\ PanicInv /\ [Next]_vars => (NoPanic /\ PanicInv)'
    <2> SUFFICES ASSUME TInv, Handshake, NoPanic, PanicInv, [Next]_vars PROVE (NoPanic /\ PanicInv)'
      OBVIOUS
    <2>1. CASE Next
      <3>1. ~env.windows /\ UNCHANGED env
        BY <2>1, OrderlyEnv, EnvFixed
      <3>2. EventsInv' /\ StartInv' /\ TermInv' /\ ExitInv' /\ ActiveExact'
        BY <2>1, <3>1, NextEvents, NextStart, NextTerm, NextExit, NextActive DEF PanicInv
      <3>3. TokenInv' /\ \A q \in env.ffi : Undisturbed(q)'
        BY <2>1, NextTokens, NextUndisturbed DEF PanicInv
      <3>4. FFIInv'
        BY <3>1, <3>3 DEF FFIInv
      <3>5. NoPanic'
        BY <2>1, NextNoPanic
      <3>6. QED
        BY <3>2, <3>4, <3>5 DEF PanicInv
    <2>2. CASE UNCHANGED vars
      BY <2>2 DEF vars, NoPanic, PanicInv, EventsInv, StartInv, TermInv, ExitInv, FFIInv, TokenInv,
           Undisturbed, Tracks, Queued, Firing, ActiveExact, ActiveSet, Active
    <2>3. QED
      BY <2>1, <2>2
  <1>3. QED
    BY <1>1, <1>2, FastForwardTypes, PTL DEF Spec
=============================================================================

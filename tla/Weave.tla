------------------------------- MODULE Weave -------------------------------
(***************************************************************************)
(* The weave phase of zsim.  In the bound phase every core runs without    *)
(* contention and its recorder (core_recorder.cpp) builds a graph of       *)
(* timing events (timing_event.h); at the end of the phase the contention  *)
(* simulator (contention_sim.cpp) runs the events of the phase, every      *)
(* domain from its own priority queue, on one thread per domain or on one  *)
(* thread for all of them.  An edge between two domains is a crossing: the *)
(* target domain polls the source's clock until the source has been done.  *)
(*                                                                         *)
(* The cores share one last-level TimingCache (timing_cache.cpp) and one   *)
(* weave memory controller (weave_md1_mem.h), each in a domain of its own. *)
(***************************************************************************)
EXTENDS Integers, PrioQueue
LOCAL INSTANCE Functions

CONSTANTS
  Cores,          \* cores, each with its recorder and its slab allocator
  NumDomains,     \* zinfo->numDomains
  CoreDomain,     \* the domain of each core
  Systems,        \* the systems a behaviour may start with: oneThread, whether one
                  \* thread simulates all domains; llc and mem, the domains of the
                  \* cache and the controller; shapes, the accesses that happen;
                  \* gaps, the cycles a core may run before an access; and the
                  \* bound ops on the joins, leaves and accesses of each core
  PhaseLength,    \* zinfo->phaseLength
  MaxPhase,       \* bound: weave phases simulated
  AccLat,         \* accLat of the cache
  NetLat,         \* the cache's round trip to the controller
  InvLat,         \* what invalidating a victim in the caches below takes
  MemPre, MemPost,\* zeroLoadLatency, split in two
  ExtraLats,      \* latency above zero load that MD1 may compute
  NumMSHRs        \* numMSHRs of the cache

Domains == 0 .. NumDomains - 1

ASSUME WeaveAssumption ==
  /\ NumDomains \in Nat \ {0}
  /\ CoreDomain \in [Cores -> Domains] 
  /\ Systems \subseteq [oneThread : BOOLEAN, llc : Domains, mem : Domains,
                        shapes : SUBSET {"hit", "miss", "missInv", "missWb", "missInvWb", "stitch"},
                        gaps : SUBSET (1 .. 10 * PhaseLength), ops : [Cores -> 0 .. 5]]
  /\ {PhaseLength, MaxPhase, NumMSHRs, AccLat, InvLat} \subseteq Nat \ {0}
  /\ ExtraLats \subseteq Nat /\ {NetLat, MemPre, MemPost} \subseteq Nat

VARIABLES
  sys,      \* the system, fixed
  phase,    \* phases simulated: globPhaseCycles = lastLimit = phase * PhaseLength
  mpc,      \* the thread in simulatePhase: "bound", "waking", "waiting"
  woken,    \* the simulation threads it has woken in this phase
  ev,       \* per core, the events its recorder has allocated, in order
  rec,      \* per core, the recorder and the clock of the core
  live,     \* per core, liveElems of its slab
  last,     \* per core, lastCrossing, by source and target domain
  pq,       \* per domain, its queue
  cur,      \* per domain, curCycle
  prio,     \* per domain, prio
  qprio,    \* per domain, queuePrio
  llc,      \* the cache: last slots, active misses and the events it holds
  slots,    \* history: the lookup slots of the cache
  th,       \* per simulation thread, its program counter and locals
  wake,     \* per simulation thread: its wakeLock is free
  waitFree, \* waitLock is free
  threadsDone,
  failed    \* the assertions of the code that have failed

vars == <<sys, phase, mpc, woken, ev, rec, live, last, pq, cur, prio, qprio, llc,
          slots, th, wake, waitFree, threadsDone, failed>>

\* What the operators below thread through one step.
World == [ev |-> ev, rec |-> rec, live |-> live, last |-> last, pq |-> pq,
          prio |-> prio, llc |-> llc, slots |-> slots, failed |-> failed,
          stack |-> <<>>]

Become(s) ==
  /\ ev' = s.ev /\ rec' = s.rec /\ live' = s.live /\ last' = s.last /\ pq' = s.pq
  /\ prio' = s.prio /\ llc' = s.llc /\ slots' = s.slots /\ failed' = s.failed

Check(s, holds, name) == IF holds THEN s ELSE [s EXCEPT !.failed = @ \cup {name}]

lastLimit == phase * PhaseLength
limit     == (phase + 1) * PhaseLength

MaxOf(a, b) == IF a >= b THEN a ELSE b
MinOf(a, b) == IF a <= b THEN a ELSE b
-----------------------------------------------------------------------------
(***************************************************************************)
(* Events.  An event is named by its core and its place in the core's      *)
(* allocations; the source half of a crossing, a part of the same object,  *)
(* is named by the negated place.  A freed event keeps nothing.            *)
(***************************************************************************)
Null  == <<>>
NoMin == -1
Freed == [kind |-> "freed"]

Blank == [kind |-> "core", st |-> "NONE", cycle |-> 0, priv |-> 0, min |-> NoMin,
          dom |-> -1, parents |-> 0, pre |-> 0, post |-> 0, kids |-> <<>>,
          lat |-> 0, orig |-> 0, src |-> -1, called |-> FALSE, done |-> 0,
          preSlack |-> 0, postSlack |-> 0, parentEv |-> Null]

E(s, e)       == s.ev[e[1]][e[2]]
IsSrcHalf(e)  == e[2] < 0
SrcHalf(x)    == <<x[1], -x[2]>>
WholeOf(e)    == <<e[1], -e[2]>>
IsLive(s, e)  == E(s, e) # Freed
NewId(s, c, n) == <<c, Len(s.ev[c]) + n>>

\* Slab::alloc and new (evRec)
Alloc(s, c, x) == [s EXCEPT !.ev[c] = Append(@, x), !.live[c] = @ + 1]

\* The blocks that n children take, three to a block, one child in place.
ChildBlocks(n) == IF n < 2 THEN 0 ELSE (n + 2) \div 3

\* visitChildren: the newest block first.
VisitOrder(kids) ==
  LET head == IF kids = <<>> THEN 0 ELSE (Len(kids) - 1) \div 3
      block(b) == SubSeq(kids, 3 * b + 1, MinOf(3 * b + 3, Len(kids)))
      upTo[b \in Nat] == IF b = 0 THEN block(0) ELSE block(b) \o upTo[b - 1]
  IN upTo[head]

\* freeEvent: the event and its blocks
FreeEvent(s, e) ==
  [s EXCEPT !.live[e[1]] = @ - 1 - ChildBlocks(Len(E(s, e).kids)),
            !.ev[e[1]][e[2]] = Freed]

\* propagateDomain, for a list of events: each takes the domain, and with it
\* those of its descendants that have none.
RECURSIVE PropagateDomain(_, _, _)
PropagateDomain(s, list, d) ==
  IF list = <<>> THEN s
  ELSE LET e == Head(list)
       IN PropagateDomain(IF E(s, e).dom # -1 THEN s
                          ELSE PropagateDomain([s EXCEPT !.ev[e[1]][e[2]].dom = d],
                                               VisitOrder(E(s, e).kids), d),
                          Tail(list), d)

\* TimingEvent::addChild
AddChild(s, p, k) ==
  LET ok == IsLive(s, p) /\ E(s, p).st \in {"NONE", "QUEUED"}
      n  == Len(E(s, p).kids)
      linked == [s EXCEPT !.ev[p[1]][p[2]].kids = Append(@, k),
                          !.ev[k[1]][k[2]].parents = @ + 1,
                          !.live[k[1]] = @ + ChildBlocks(n + 1) - ChildBlocks(n)]
  IN IF ~ok THEN Check(s, FALSE, "addChild")
     ELSE Check(IF E(s, p).dom # -1 /\ E(s, k).dom = -1
                THEN PropagateDomain(linked, <<k>>, E(s, p).dom) ELSE linked,
                E(s, k).st = "NONE", "addChild")
\* new (evRec) of several events, and several edges
RECURSIVE AllocAll(_, _, _)
AllocAll(s, c, xs) ==
  IF xs = <<>> THEN s ELSE AllocAll(Alloc(s, c, Head(xs)), c, Tail(xs))

RECURSIVE LinkAll(_, _)
LinkAll(s, edges) ==
  IF edges = <<>> THEN s
  ELSE LinkAll(AddChild(s, Head(edges)[1], Head(edges)[2]), Tail(edges))

EdgesAlong(path) == [i \in 1 .. Len(path) - 1 |-> <<path[i], path[i + 1]>>]
-----------------------------------------------------------------------------
(***************************************************************************)
(* Queueing: ContentionSim::enqueue in the weave phase, enqueueSynced in   *)
(* the bound phase (under pqLock, one step).                               *)
(***************************************************************************)
PutInQueue(s, e, cycle) ==
  LET d == E(s, e).dom
  IN Check([s EXCEPT !.ev[e[1]][e[2]].priv = cycle, !.pq[d] = Enqueue(@, e, cycle)],
           /\ cycle >= lastLimit
           /\ E(s, e).parents = 0
           /\ EnqueueAllowed(s.pq[d], cycle),
           "enqueue")

EnqueueWeave(s, e, cycle) ==
  Check(PutInQueue(s, e, cycle), cycle >= cur[E(s, e).dom], "goes back in time")

\* TimingEvent::requeue
Requeue(s, e, cycle) ==
  EnqueueWeave(Check([s EXCEPT !.ev[e[1]][e[2]].st = "QUEUED"],
                     E(s, e).st \in {"RUNNING", "HELD"}, "requeue"), e, cycle)

\* TimingEvent::queue
Queue(s, e, cycle) ==
  PutInQueue([s EXCEPT !.ev[e[1]][e[2]].st = "QUEUED"], e, cycle)

\* TimingEvent::parentDone
GenericParentDone(s, e, cycle) ==
  LET x == E(s, e)
      y == [x EXCEPT !.cycle = MaxOf(@, cycle), !.parents = @ - 1]
      t == Check([s EXCEPT !.ev[e[1]][e[2]] = y], x.parents > 0, "parentDone")
  IN IF y.parents # 0 THEN t
     ELSE EnqueueWeave(Check([t EXCEPT !.ev[e[1]][e[2]].st = "QUEUED"],
                             x.st = "NONE", "parentDone"), e, y.cycle + y.pre)

\* CrossingEvent::parentDone: a chained crossing may not start before its
\* minStartCycle, nor let the child go before it.
CrossingParentDone(s, e, cycle) ==
  LET c == MaxOf(cycle, E(s, e).min)
      late == E(s, e).called /\ E(s, e).done < c
  IN GenericParentDone(IF late THEN [s EXCEPT !.ev[e[1]][e[2]].done = c] ELSE s, e, c)

\* CrossingSrcEvent::parentDone and markSrcEventDone; the half frees an
\* element of the slab although it was never allocated by itself.
SrcHalfDone(s, x, cycle) ==
  Check([s EXCEPT !.ev[x[1]][x[2]].done = cycle,
                  !.ev[x[1]][x[2]].called = TRUE,
                  !.live[x[1]] = @ - 1],
        ~E(s, x).called /\ cycle >= cur[E(s, x).src], "markSrcEventDone")

RECURSIVE WakeAll(_, _, _)

\* TimingEvent::done
Done(s, e, cycle) ==
  LET x == E(s, e)
      marked == Check([s EXCEPT !.ev[e[1]][e[2]].st = "DONE"], x.st = "RUNNING", "done")
  IN FreeEvent(WakeAll(marked, VisitOrder(x.kids), cycle + x.post), e)

\* DelayEvent::parentDone: its children are woken directly.
DelayParentDone(s, e, cycle) ==
  LET y == [E(s, e) EXCEPT !.cycle = MaxOf(@, cycle), !.parents = @ - 1]
      t == [s EXCEPT !.ev[e[1]][e[2]] = y]
  IN IF y.parents # 0 THEN t
     ELSE Done([t EXCEPT !.ev[e[1]][e[2]].st = "RUNNING"], e, y.cycle + y.pre)

\* The virtual parentDone of an event
ParentDone(s, e, cycle) ==
  CASE IsSrcHalf(e)               -> SrcHalfDone(s, WholeOf(e), cycle)
    [] E(s, e).kind = "delay"     -> DelayParentDone(s, e, cycle)
    [] E(s, e).kind = "crossing"  -> CrossingParentDone(s, e, cycle)
    [] OTHER                      -> GenericParentDone(s, e, cycle)

\* visitChildren of done(): one child after the other
WakeAll(s, kids, cycle) ==
  IF kids = <<>> THEN s
  ELSE WakeAll(ParentDone(s, Head(kids), cycle), Tail(kids), cycle)
-----------------------------------------------------------------------------
(***************************************************************************)
(* Crossings, made in the bound phase.                                     *)
(***************************************************************************)

\* ContentionSim::enqueueCrossing.  A crossing that answers the one on top of
\* the crossing stack waits for that one's parent; any other is chained to
\* the last crossing of this core between the two domains when that one
\* cannot have been simulated yet, and is queued directly otherwise.
EnqueueCrossing(s, c, xe, cycle) ==
  LET x   == E(s, xe)
      top == Last(s.stack)
      isResp == /\ s.stack # <<>>
                /\ E(s, top).src = x.dom
                /\ E(s, top).dom = x.src
      l       == s.last[c][x.src][x.dom]
      chained == l.cycle > cur[x.src] /\ l.cycle <= cycle
      pushed  == [s EXCEPT !.stack = Append(@, xe),
                           !.last[c][x.src][x.dom] = [cycle |-> cycle, ev |-> xe]]
  IN IF isResp THEN AddChild([s EXCEPT !.stack = Front(@)], E(s, top).parentEv, xe)
     ELSE IF chained THEN AddChild(pushed, l.ev, xe)
     ELSE PutInQueue(Check(pushed, cycle >= cur[x.src], "enqueueCrossing"), xe, cycle)

\* Delay stealing: the slack of a crossing whose parent has no postDelay is
\* one cycle, so that no two domains wait for each other at one cycle.
PreSlack(post) == IF post = 0 THEN 1 ELSE post

\* handleCrossing unlinks the child from its parent: the crossing is its parent.
\* Mutant: the child goes on waiting for both.
KeepParent(s, k) == s

DropParent(s, k) == [s EXCEPT !.ev[k[1]][k[2]].parents = @ - 1]

\* TimingEvent::handleCrossing and the constructor of CrossingEvent: the edge
\* from p to its child at place i goes through a new crossing.
HandleCrossing(s, c, p, i) ==
  LET k  == E(s, p).kids[i]
      xe == NewId(s, c, 1)
      ms == E(s, p).min + PreSlack(E(s, p).post)
      new == [Blank EXCEPT !.kind = "crossing", !.dom = E(s, k).dom, !.src = E(s, p).dom,
                !.preSlack = PreSlack(E(s, p).post), !.postSlack = E(s, k).pre,
                !.min = ms, !.orig = ms - s.rec[c].gap, !.parentEv = p]
      unlinked == Check(DropParent(s, k),
                        E(s, k).parents > 0 /\ E(s, p).min # NoMin, "handleCrossing")
      made == EnqueueCrossing(AddChild(Alloc(unlinked, c, new), xe, k), c, xe,
                              MaxOf(lastLimit, ms))
  IN [made EXCEPT !.ev[p[1]][p[2]].kids[i] = SrcHalf(xe)]

RECURSIVE ProduceCrossings(_, _, _)

\* The body of produceCrossings for the child at place i.
CrossChild(s, c, e, i) ==
  LET k == E(s, e).kids[i]
  IN IF IsSrcHalf(k) THEN s
     ELSE ProduceCrossings(IF E(s, k).dom # E(s, e).dom THEN HandleCrossing(s, c, e, i)
                           ELSE s, c, k)

\* visitChildren block by block, from place i of block b, while the walk
\* itself may add children to the event it visits.
RECURSIVE VisitBlocks(_, _, _, _, _, _)
VisitBlocks(s, c, e, b, i, visited) ==
  CASE b < 0 -> Check(s, visited = Len(E(s, e).kids), "visitChildren")
    [] b >= 0 /\ i < 3 /\ 3 * b + i < Len(E(s, e).kids) ->
         VisitBlocks(CrossChild(s, c, e, 3 * b + i + 1), c, e, b, i + 1, visited + 1)
    [] OTHER -> VisitBlocks(s, c, e, b - 1, 0, visited)

\* TimingEvent::produceCrossings
ProduceCrossings(s, c, e) ==
  LET n == Len(E(s, e).kids)
  IN CASE n = 0 -> s
       [] n = 1 -> CrossChild(s, c, e, 1)
       [] n > 1 -> VisitBlocks(s, c, e, (n - 1) \div 3, 0, 0)
-----------------------------------------------------------------------------
(***************************************************************************)
(* Records: the events an access leaves behind, as <<world, first event,   *)
(* last event, response cycle>>.                                           *)
(***************************************************************************)
MemEvent(min, lat) ==
  [Blank EXCEPT !.kind = "mem", !.dom = sys.mem, !.min = min,
                !.pre = MemPre, !.post = MemPost, !.lat = lat]

CacheEvent(kind, min, post) ==
  [Blank EXCEPT !.kind = kind, !.dom = sys.llc, !.min = min, !.post = post]

DelayEvent(delay, min) ==
  [Blank EXCEPT !.kind = "delay", !.pre = delay, !.min = min]

\* TimingCache::access, a hit.
HitRecord(s, c, r) ==
  <<Alloc(s, c, CacheEvent("hit", r, AccLat)), NewId(s, c, 1), NewId(s, c, 1), r + AccLat>>

\* TimingCache::access, a miss: the lookup starts the controller's access,
\* whose response frees the core; the line is written to the array last, when
\* the victim is gone too.  The eviction has a path from the lookup to the
\* writeback for every victim: an edge for one that is invalid or clean, a delay
\* (inv) for one that had to be invalidated in the caches below, and the
\* controller's access for a dirty one (wb).
MissRecord(s, c, r, lat, inv, wb) ==
  LET start   == r + AccLat
      getDone == start + MemPre + MemPost + NetLat
      evDone  == start + inv + (IF wb THEN MemPre + MemPost ELSE 0)
      delay(n, min) == IF n = 0 THEN <<>> ELSE <<DelayEvent(n, min)>>
      down  == delay(NetLat, getDone - NetLat)
      evict == delay(inv, start) \o (IF wb THEN <<MemEvent(start + inv, lat)>> ELSE <<>>)
      id(n) == NewId(s, c, n)
      mem == id(1)  mse == id(2)  mre == id(3)  mwe == id(4)
      idsFrom(n, xs) == [i \in DOMAIN xs |-> id(n + i)]
      new == AllocAll(s, c,
               <<MemEvent(start, lat), CacheEvent("mstart", r, AccLat),
                 CacheEvent("mresp", getDone, 0),
                 CacheEvent("mwb", MaxOf(evDone, getDone), AccLat)>> \o down \o evict)
      getPath   == <<mse, mem>> \o idsFrom(4, down) \o <<mre>>
      evictPath == <<mse>> \o idsFrom(4 + Len(down), evict) \o <<mwe>>
  IN <<LinkAll(new, EdgesAlong(getPath) \o <<<<mre, mwe>>>> \o EdgesAlong(evictPath)),
       mse, mre, getDone>>

\* Cache::access of a private cache that evicts a dirty line: the record of
\* the writeback and that of the access, both hits, are stitched together.
StitchRecord(s, c, r) ==
  LET wb  == HitRecord(s, c, r + AccLat)
      acc == HitRecord(wb[1], c, r + AccLat)
      id(n) == NewId(acc[1], c, n)
      new == AllocAll(acc[1], c, <<DelayEvent(0, r), DelayEvent(AccLat, r),
                                   DelayEvent(AccLat, r)>>)
      edges == <<<<id(1), id(2)>>, <<id(2), wb[2]>>, <<id(1), id(3)>>, <<id(3), acc[2]>>>>
  IN <<LinkAll(new, edges), id(1), acc[3], acc[4]>>

RecordOf(s, c, shape, r, lat) ==
  CASE shape = "hit"       -> HitRecord(s, c, r)
    [] shape = "miss"      -> MissRecord(s, c, r, lat, 0, FALSE)
    [] shape = "missInv"   -> MissRecord(s, c, r, lat, InvLat, FALSE)
    [] shape = "missWb"    -> MissRecord(s, c, r, lat, 0, TRUE)
    [] shape = "missInvWb" -> MissRecord(s, c, r, lat, InvLat, TRUE)
    [] shape = "stitch"    -> StitchRecord(s, c, r)
-----------------------------------------------------------------------------
(***************************************************************************)
(* The bound phase: cores and their recorders.                             *)
(***************************************************************************)

\* A new TimingCoreEvent with the given delay after the last response.
Follow(s, c, delay) ==
  LET r == s.rec[c]
      e == NewId(s, c, 1)
      new == [Blank EXCEPT !.post = delay, !.min = r.prevRespCycle,
                           !.orig = r.prevRespCycle - r.gap]
  IN [AddChild(Alloc(s, c, new), r.prevRespEvent, e) EXCEPT !.rec[c].prevRespEvent = e]

CanAct(c) == mpc = "bound" /\ rec[c].ops < sys.ops[c]

UnchangedByCores ==
  UNCHANGED <<sys, phase, mpc, woken, cur, qprio, th, wake, waitFree, threadsDone>>

\* TimingCore::join, CoreRecorder::notifyJoin
Join(c) ==
  LET r == rec[c]
      e == NewId(World, c, 1)
      start == [Blank EXCEPT !.dom = CoreDomain[c], !.min = lastLimit, !.orig = lastLimit]
      fresh == Queue(Alloc(World, c, start), e, lastLimit)
      s == IF r.st = "HALTED"
           THEN Check([fresh EXCEPT !.rec[c] =
                         [@ EXCEPT !.cur = lastLimit, !.gap = 0, !.slack = 0,
                                   !.prevRespEvent = e, !.prevRespCycle = lastLimit]],
                      r.prevRespEvent = Null /\ r.lastStart <= lastLimit, "join")
           ELSE Check(World, r.cur >= lastLimit, "join")
  IN /\ CanAct(c) /\ r.st # "RUNNING"
     /\ Become([s EXCEPT !.rec[c].st = "RUNNING", !.rec[c].ops = @ + 1,
                         !.rec[c].arrived = FALSE])
     /\ UnchangedByCores

\* TimingCore::leave, CoreRecorder::notifyLeave: the delay up to now, then an
\* event of no delay that ends the sequence.
Leave(c) ==
  LET r == rec[c]
      tapered == [Follow(World, c, r.cur - r.prevRespCycle)
                    EXCEPT !.rec[c].prevRespCycle = r.cur]
  IN /\ CanAct(c) /\ r.st = "RUNNING" /\ ~r.arrived
     /\ Become([Follow(tapered, c, 0) EXCEPT !.rec[c].st = "DRAINING",
                                             !.rec[c].ops = @ + 1])
     /\ UnchangedByCores

\* loadAndRecord, CoreRecorder::recordAccess of a GET
Access(c) ==
  \E g \in sys.gaps, shape \in sys.shapes, lat \in ExtraLats :
    LET r    == rec[c]
        req  == r.cur + g
        tr   == RecordOf(World, c, shape, req, lat)
        asked == Follow(tr[1], c, req - r.prevRespCycle)
        linked == AddChild(asked, asked.rec[c].prevRespEvent, tr[2])
        s == [linked EXCEPT !.rec[c] = [@ EXCEPT !.prevRespEvent = tr[3],
                !.prevRespCycle = tr[4], !.cur = tr[4], !.ops = @ + 1]]
    IN /\ CanAct(c) /\ r.st = "RUNNING" /\ ~r.arrived
       /\ Become(Check(IF NumDomains > 1 THEN ProduceCrossings(s, c, r.prevRespEvent) ELSE s,
                       r.cur >= r.prevRespCycle, "recordAccess"))
       /\ UnchangedByCores

\* BblAndRecordFunc: the core runs past the end of the phase and takes the
\* barrier.
Arrive(c) ==
  /\ mpc = "bound" /\ rec[c].st = "RUNNING" /\ ~rec[c].arrived
  /\ rec' = [rec EXCEPT ![c].arrived = TRUE, ![c].cur = MaxOf(@, limit + 1)]
  /\ UNCHANGED <<ev, live, last, pq, prio, llc, slots, failed>>
  /\ UnchangedByCores
-----------------------------------------------------------------------------
(***************************************************************************)
(* simulatePhase, on the thread that ends the phase.                       *)
(***************************************************************************)
Threads == IF sys.oneThread THEN {0} ELSE Domains
DomainsOf(t) == IF sys.oneThread THEN Domains ELSE {t}

\* Mutant: a running core gets no event in the next phase.
CSimStartNoTail(s, c) ==
  LET r == s.rec[c]
  IN CASE r.st = "HALTED"   -> s
       [] r.st = "RUNNING"  -> [Follow(s, c, r.cur - r.prevRespCycle)
                                  EXCEPT !.rec[c].prevRespCycle = r.cur]
       [] r.st = "DRAINING" -> [s EXCEPT !.rec[c].cur = MaxOf(@, limit)]

\* CoreRecorder::cSimStart: a running core gets an event up to its clock and
\* one that starts in the next phase, so that its sequence never runs dry.
CSimStart(s, c) ==
  LET r == s.rec[c]
      covered == IF r.prevRespCycle < r.cur
                 THEN [Follow(s, c, r.cur - r.prevRespCycle) EXCEPT !.rec[c].prevRespCycle = r.cur]
                 ELSE s
  IN CASE r.st = "HALTED"   -> s
       [] r.st = "RUNNING"  -> Check(Follow(covered, c, 0), r.cur >= limit, "cSimStart")
       [] r.st = "DRAINING" -> [s EXCEPT !.rec[c].cur = MaxOf(@, limit)]

\* CoreRecorder::cSimEnd: what contention delayed the core's last simulated
\* event by is added to its clock; a drained core halts.
CSimEnd(s, c) ==
  LET r    == s.rec[c]
      skew == r.lastStart - (r.lastOrig + r.gap)
      moved == [r EXCEPT !.cur = @ + skew, !.gap = @ + skew, !.prevRespCycle = @ + skew,
                         !.st = IF r.prevRespEvent = Null THEN "HALTED" ELSE @]
      ok == /\ r.lastOrig + r.gap <= r.cur /\ r.lastStart <= r.cur
            /\ skew >= 0
            /\ r.prevRespEvent = Null => r.st = "DRAINING"
  IN IF r.st = "HALTED" THEN s ELSE Check([s EXCEPT !.rec[c] = moved], ok, "cSimEnd")

\* The loops of simulatePhase over the cores
RECURSIVE CSimStartAll(_, _)
CSimStartAll(s, cs) ==
  IF cs = {} THEN s
  ELSE LET c == CHOOSE c \in cs : TRUE IN CSimStartAll(CSimStart(s, c), cs \ {c})

RECURSIVE CSimEndAll(_, _)
CSimEndAll(s, cs) ==
  IF cs = {} THEN s
  ELSE LET c == CHOOSE c \in cs : TRUE IN CSimEndAll(CSimEnd(s, c), cs \ {c})

\* All cores are at the barrier: their recorders taper off, inCSim is set.
StartWeave ==
  /\ mpc = "bound" /\ phase < MaxPhase
  /\ \A c \in Cores : rec[c].st = "RUNNING" => rec[c].arrived
  /\ mpc' = "waking"
  /\ Become(CSimStartAll(World, Cores))
  /\ UNCHANGED <<sys, phase, woken, cur, qprio, th, wake, waitFree, threadsDone>>

\* futex_unlock of a wakeLock, one thread after the other
WakeThread(t) ==
  /\ mpc = "waking" /\ t = woken
  /\ wake' = [wake EXCEPT ![t] = TRUE]
  /\ woken' = woken + 1
  /\ mpc' = IF woken' = Cardinality(Threads) THEN "waiting" ELSE mpc
  /\ UNCHANGED <<sys, phase, ev, rec, live, last, pq, cur, prio, qprio, llc,
                 slots, th, waitFree, threadsDone, failed>>

\* futex_lock_nospin(&waitLock) returns; the phase is over, and every core
\* whose clock is already past the next phase stays at the barrier.
FinishWeave ==
  LET s == CSimEndAll(World, Cores)
  IN /\ mpc = "waiting" /\ waitFree
     /\ waitFree' = FALSE
     /\ mpc' = "bound"
     /\ phase' = phase + 1
     /\ woken' = 0
     /\ Become([s EXCEPT !.rec = [c \in Cores |->
                  [s.rec[c] EXCEPT !.arrived = s.rec[c].st = "RUNNING"
                                     /\ s.rec[c].cur > limit + PhaseLength]]])
     /\ UNCHANGED <<sys, cur, qprio, th, wake, threadsDone>>
-----------------------------------------------------------------------------
(***************************************************************************)
(* The cache in the weave phase: one lookup per cycle, misses hold an MSHR *)
(* from their lookup to their writeback, and what finds no MSHR is held.   *)
(* slots is a history variable: the lookup slots taken, and whether one    *)
(* was taken twice.                                                        *)
(***************************************************************************)
TakeSlot(h, slot) == [used |-> h.used \cup {slot}, twice |-> h.twice \/ slot \in h.used]

\* Mutant: a lookup is served at once.
HighPrioSlotAtOnce(cycle) == cycle

HighPrioSlot(cycle) == MaxOf(cycle, llc.lastAcc + 1)

\* TimingCache::highPrioAccess
HighPrioAccess(s, cycle) ==
  Check([s EXCEPT !.llc = [@ EXCEPT
           !.lastFree = IF llc.lastAcc < cycle - 1 THEN cycle - 1 ELSE @,
           !.lastAcc = HighPrioSlot(cycle)],
           !.slots = TakeSlot(@, HighPrioSlot(cycle))],
        cycle >= llc.lastFree, "highPrioAccess")

\* TimingCache::tryLowPrioAccess: granted if the previous cycle's slot is free.
LowPrioGranted(cycle) == llc.lastAcc < cycle - 1 \/ llc.lastFree = cycle - 1

LowPrioAccess(s, cycle) ==
  [s EXCEPT !.llc = [@ EXCEPT !.lastFree = 0, !.lastAcc = MaxOf(cycle - 1, @)],
            !.slots = TakeSlot(@, cycle - 1)]

\* ev->hold() and pendingQueue.push_back
Hold(s, e) ==
  [s EXCEPT !.ev[e[1]][e[2]].st = "HELD", !.llc.pending = Append(@, e)]

\* Mutant: one MSHR too many is given out.
SimulateLookupOneMore(s, e, cycle, miss) ==
  IF llc.activeMisses <= NumMSHRs
  THEN Done(HighPrioAccess([s EXCEPT !.llc.activeMisses = @ + miss], cycle),
            e, HighPrioSlot(cycle))
  ELSE Hold(s, e)

\* simulateHit, simulateMissStart
SimulateLookup(s, e, cycle, miss) ==
  IF llc.activeMisses < NumMSHRs
  THEN Done(HighPrioAccess([s EXCEPT !.llc.activeMisses = @ + miss], cycle),
            e, HighPrioSlot(cycle))
  ELSE Hold(s, e)

RECURSIVE RequeueAll(_, _, _)
RequeueAll(s, held, cycle) ==
  IF held = <<>> THEN s ELSE RequeueAll(Requeue(s, Head(held), cycle), Tail(held), cycle)

\* simulateMissWriteback: with the writeback done the MSHR is free, and all
\* that was held tries again in the next cycle.
SimulateMissWriteback(s, e, cycle) ==
  LET freed == [LowPrioAccess(s, cycle) EXCEPT !.llc.activeMisses = @ - 1]
      retry == RequeueAll(freed, llc.pending, cycle + 1)
  IN IF LowPrioGranted(cycle)
     THEN Done(Check([retry EXCEPT !.llc.pending = <<>>],
                     llc.activeMisses > 0, "simulateMissWriteback"), e, cycle)
     ELSE Requeue(s, e, cycle + 1)

\* TimingCoreEvent::simulate and reportEventSimulated
SimulateCore(s, e, cycle) ==
  LET c == e[1]
      isLast == s.rec[c].prevRespEvent = e
      reported == [s EXCEPT !.rec[c] = [@ EXCEPT !.lastStart = cycle,
                     !.lastOrig = E(s, e).orig, !.slack = cycle - E(s, e).orig,
                     !.prevRespEvent = IF isLast THEN Null ELSE @]]
  IN Done(Check(reported, isLast => s.rec[c].st = "DRAINING", "reportEventSimulated"),
          e, cycle)

\* CrossingEvent::simulate once the source is done
SimulateCrossing(s, e, cycle) ==
  Done([s EXCEPT !.prio[E(s, e).dom] = 0], e, MaxOf(cycle, E(s, e).done))

\* The virtual simulate of an event
Simulate(s, e, cycle) ==
  CASE E(s, e).kind = "core"     -> SimulateCore(s, e, cycle)
    [] E(s, e).kind = "mem"      -> Done(s, e, cycle + E(s, e).lat)
    [] E(s, e).kind = "hit"      -> SimulateLookup(s, e, cycle, 0)
    [] E(s, e).kind = "mstart"   -> SimulateLookup(s, e, cycle, 1)
    [] E(s, e).kind = "mresp"    -> Done(s, e, cycle)
    [] E(s, e).kind = "mwb"      -> SimulateMissWriteback(s, e, cycle)
    [] E(s, e).kind = "crossing" -> SimulateCrossing(s, e, cycle)
    [] E(s, e).kind = "delay"    -> Check(s, FALSE, "DelayEvent::simulate")
-----------------------------------------------------------------------------
(***************************************************************************)
(* The simulation threads (simThreadLoop, simulatePhaseThread).            *)
(***************************************************************************)
UnchangedByThreads == UNCHANGED <<sys, phase, mpc, woken>>

\* futex_lock_nospin(&wakeLock) returns.
ThreadWakes(t) ==
  /\ th[t].pc = "sleep" /\ wake[t]
  /\ wake' = [wake EXCEPT ![t] = FALSE]
  /\ th' = [th EXCEPT ![t] = [@ EXCEPT !.pc = "pick", !.ready = DomainsOf(t),
                                       !.stalled = <<>>, !.nextStalled = <<>>,
                                       !.numFinished = 0]]
  /\ UNCHANGED <<ev, rec, live, last, pq, cur, prio, qprio, llc, slots, waitFree,
                 threadsDone, failed>>
  /\ UnchangedByThreads

\* Dequeue the first event of domain d and move the domain's clock to it; x
\* is the thread without d.
StartEvent(t, d, x, fromStalled) ==
  LET q == Dequeue(pq[d])
  IN /\ pq' = [pq EXCEPT ![d] = q.queue]
     /\ cur' = [cur EXCEPT ![d] = q.cycle]
     /\ th' = [th EXCEPT ![t] = [x EXCEPT !.pc = "run", !.dom = d, !.ev = q.obj,
                                   !.cycle = q.cycle, !.fromStalled = fromStalled]]

UnchangedByPick ==
  /\ UNCHANGED <<ev, rec, live, last, prio, qprio, llc, slots, wake, waitFree, threadsDone>>
  /\ UnchangedByThreads

\* The loop of a thread with one domain: events before the limit.
PickSingle(t) ==
  /\ th[t].pc = "pick" /\ DomainsOf(t) = {t}
  /\ IF ~IsEmpty(pq[t]) /\ FirstCycle(pq[t]) < limit
     THEN /\ StartEvent(t, t, th[t], FALSE)
          /\ failed' = IF cur'[t] >= cur[t] THEN failed ELSE failed \cup {"dequeue"}
     ELSE /\ cur' = [cur EXCEPT ![t] = limit]
          /\ th' = [th EXCEPT ![t].pc = "done"]
          /\ UNCHANGED <<pq, failed>>
  /\ UnchangedByPick

\* if (!stalledQueue.size()) swap
SwapIfEmpty(x) ==
  IF x.stalled # <<>> THEN x
  ELSE [x EXCEPT !.stalled = x.nextStalled, !.nextStalled = <<>>]

\* One domain of a thread with several: it runs its first event, or it has
\* none up to the limit, the limit included, and is finished.
RunOrFinish(t, d, x, fromStalled) ==
  IF ~IsEmpty(pq[d]) /\ FirstCycle(pq[d]) <= limit
  THEN StartEvent(t, d, x, fromStalled) /\ UNCHANGED failed
  ELSE /\ cur' = [cur EXCEPT ![d] = limit]
       /\ th' = [th EXCEPT ![t] =
                   LET y == [x EXCEPT !.numFinished = @ + 1]
                   IN IF fromStalled THEN SwapIfEmpty(y) ELSE y]
       /\ UNCHANGED <<pq, failed>>

\* domPq: a domain with the least queuePrio
PickReady(t) ==
  /\ th[t].pc = "pick" /\ DomainsOf(t) # {t} /\ th[t].ready # {}
  /\ \E d \in th[t].ready :
       /\ \A o \in th[t].ready : qprio[d] <= qprio[o]
       /\ RunOrFinish(t, d, [th[t] EXCEPT !.ready = @ \ {d}], FALSE)
  /\ UnchangedByPick

\* stalledQueue, from the back
PickStalled(t) ==
  /\ th[t].pc = "pick" /\ DomainsOf(t) # {t}
  /\ th[t].ready = {} /\ th[t].stalled # <<>>
  /\ RunOrFinish(t, Last(th[t].stalled), [th[t] EXCEPT !.stalled = Front(@)], TRUE)
  /\ UnchangedByPick

AllFinished(t) ==
  /\ th[t].pc = "pick" /\ DomainsOf(t) # {t}
  /\ th[t].numFinished = Cardinality(DomainsOf(t))
  /\ th' = [th EXCEPT ![t].pc = "done"]
  /\ UNCHANGED <<pq, cur, failed>>
  /\ UnchangedByPick

\* run(), with its assertions, or simulate() directly from the stalled queue.
\* A crossing whose source is not done goes on to poll.
RunEvent(t) ==
  LET e == th[t].ev
      x == E(World, e)
      ok == th[t].fromStalled \/ (x.st \in {"NONE", "QUEUED"} /\ th[t].cycle >= x.min)
      s == Check([World EXCEPT !.ev[e[1]][e[2]].st = "RUNNING"], ok, "run")
      polls == x.kind = "crossing" /\ ~x.called
  IN /\ th[t].pc = "run"
     /\ Become(IF polls THEN s ELSE Simulate(s, e, th[t].cycle))
     /\ th' = [th EXCEPT ![t].pc = IF polls THEN "poll" ELSE "post"]
     /\ UNCHANGED <<cur, qprio, wake, waitFree, threadsDone>>
     /\ UnchangedByThreads

\* CrossingEvent::simulate reads the clock of the source domain, ...
PollSource(t) ==
  LET x == E(World, th[t].ev)
  IN /\ th[t].pc = "poll"
     /\ th' = [th EXCEPT ![t].pc = "recheck",
                         ![t].next = cur[x.src] + x.preSlack + x.postSlack]
     /\ UNCHANGED <<ev, rec, live, last, pq, cur, prio, qprio, llc, slots, wake,
                    waitFree, threadsDone, failed>>
     /\ UnchangedByThreads

\* Mutant: the flag is not read again.
CalledOnce(x) == FALSE

\* "Check again!": the flag as it is after the clock was read
CalledNow(x) == x.called

\* ... then the core's slack, and the flag again, after the clocks; if still not
\* called the crossing is requeued, as far ahead as the source leaves room for.
Recheck(t) ==
  LET e == th[t].ev
      x == E(World, e)
      coreRel == x.orig + rec[e[1]].slack + x.postSlack
      next    == MaxOf(coreRel, MaxOf(th[t].next, th[t].cycle))
      stalls  == [World EXCEPT !.prio[x.dom] = IF next = th[t].cycle THEN 1 ELSE 2,
                               !.ev[e[1]][e[2]].parents = 0]
  IN /\ th[t].pc = "recheck"
     /\ Become(IF CalledNow(x) THEN SimulateCrossing(World, e, th[t].cycle)
               ELSE Requeue(stalls, e, next))
     /\ th' = [th EXCEPT ![t].pc = "post", ![t].next = 0]
     /\ UNCHANGED <<cur, qprio, wake, waitFree, threadsDone>>
     /\ UnchangedByThreads

\* After the event: the domain's clock moves to its next event.
PostEvent(t) ==
  LET d == th[t].dom
      newCycle == IF IsEmpty(pq[d]) THEN limit ELSE FirstCycle(pq[d])
      x == [th[t] EXCEPT !.pc = "pick", !.ev = Null, !.cycle = 0, !.fromStalled = FALSE]
      multi == DomainsOf(t) # {t}
  IN /\ th[t].pc = "post"
     /\ cur' = [cur EXCEPT ![d] = newCycle]
     /\ failed' = IF multi \/ newCycle >= th[t].cycle THEN failed
                  ELSE failed \cup {"newCycle"}
     /\ qprio' = IF multi THEN [qprio EXCEPT ![d] = newCycle] ELSE qprio
     /\ th' = [th EXCEPT ![t] =
          CASE ~multi -> x
            [] multi /\ ~th[t].fromStalled /\ prio[d] = 0 -> [x EXCEPT !.ready = @ \cup {d}]
            [] multi /\ ~th[t].fromStalled /\ prio[d] # 0 -> [x EXCEPT !.stalled = Append(@, d)]
            [] multi /\ th[t].fromStalled /\ prio[d] = 0 ->
                 SwapIfEmpty([x EXCEPT !.ready = @ \cup {d}])
            [] multi /\ th[t].fromStalled /\ prio[d] # 0 ->
                 SwapIfEmpty([x EXCEPT !.nextStalled = Append(@, d)])]
     /\ UNCHANGED <<ev, rec, live, last, pq, prio, llc, slots, wake, waitFree, threadsDone>>
     /\ UnchangedByThreads

\* Mutant: the first thread that is done ends the phase.
ThreadDoneFirst(t) ==
  /\ th[t].pc = "done"
  /\ th' = [th EXCEPT ![t].pc = IF threadsDone = 0 THEN "unblock" ELSE "sleep"]
  /\ threadsDone' = (threadsDone + 1) % Cardinality(Threads)
  /\ UNCHANGED <<ev, rec, live, last, pq, cur, prio, qprio, llc, slots, wake,
                 waitFree, failed>>
  /\ UnchangedByThreads

\* Mutant: threadsDone is not reset.
ThreadDoneNoReset(t) ==
  /\ th[t].pc = "done"
  /\ threadsDone' = threadsDone + 1
  /\ th' = [th EXCEPT ![t].pc = IF threadsDone' = Cardinality(Threads) THEN "unblock"
                                ELSE "sleep"]
  /\ UNCHANGED <<ev, rec, live, last, pq, cur, prio, qprio, llc, slots, wake,
                 waitFree, failed>>
  /\ UnchangedByThreads

\* __sync_add_and_fetch(&threadsDone, 1): the last thread resets the count ...
ThreadDone(t) ==
  LET isLast == threadsDone + 1 = Cardinality(Threads)
  IN /\ th[t].pc = "done"
     /\ threadsDone' = IF isLast THEN 0 ELSE threadsDone + 1
     /\ th' = [th EXCEPT ![t].pc = IF isLast THEN "unblock" ELSE "sleep"]
     /\ UNCHANGED <<ev, rec, live, last, pq, cur, prio, qprio, llc, slots, wake,
                    waitFree, failed>>
     /\ UnchangedByThreads

\* ... and unblocks simulatePhase.
UnblockCaller(t) ==
  /\ th[t].pc = "unblock"
  /\ waitFree' = TRUE
  /\ th' = [th EXCEPT ![t].pc = "sleep"]
  /\ UNCHANGED <<ev, rec, live, last, pq, cur, prio, qprio, llc, slots, wake,
                 threadsDone, failed>>
  /\ UnchangedByThreads
-----------------------------------------------------------------------------
Init ==
  /\ sys \in Systems
  /\ phase = 0 /\ mpc = "bound" /\ woken = 0
  /\ ev = [c \in Cores |-> <<>>]
  /\ rec = [c \in Cores |-> [st |-> "HALTED", cur |-> 0, arrived |-> FALSE, gap |-> 0,
              slack |-> 0, prevRespEvent |-> Null, prevRespCycle |-> 0,
              lastStart |-> 0, lastOrig |-> 0, ops |-> 0]]
  /\ live = [c \in Cores |-> 0]
  /\ last = [c \in Cores |-> [s \in Domains |-> [d \in Domains |->
               [cycle |-> 0, ev |-> Null]]]]
  /\ pq = [d \in Domains |-> EmptyQueue]
  /\ cur = [d \in Domains |-> 0]
  /\ prio = [d \in Domains |-> 0] /\ qprio = [d \in Domains |-> 0]
  /\ llc = [lastAcc |-> 0, lastFree |-> 0, activeMisses |-> 0, pending |-> <<>>]
  /\ slots = [used |-> {}, twice |-> FALSE]
  /\ th = [t \in Domains |-> [pc |-> "sleep", dom |-> 0, ev |-> Null,
             cycle |-> 0, next |-> 0, fromStalled |-> FALSE, ready |-> {},
             stalled |-> <<>>, nextStalled |-> <<>>, numFinished |-> 0]]
  /\ wake = [t \in Domains |-> FALSE]
  /\ waitFree = FALSE /\ threadsDone = 0
  /\ failed = {}

\* The bound on phases has been reached.
Over == mpc = "bound" /\ phase = MaxPhase /\ UNCHANGED vars

CoreStep(c) == Join(c) \/ Leave(c) \/ Access(c) \/ Arrive(c)

ThreadStep(t) ==
  \/ ThreadWakes(t) \/ PickSingle(t) \/ PickReady(t) \/ PickStalled(t) \/ AllFinished(t)
  \/ RunEvent(t) \/ PollSource(t) \/ Recheck(t) \/ PostEvent(t) \/ ThreadDone(t) \/ UnblockCaller(t)

CallerStep == StartWeave \/ (\E t \in Threads : WakeThread(t)) \/ FinishWeave

Next == (\E c \in Cores : CoreStep(c)) \/ CallerStep \/ (\E t \in Threads : ThreadStep(t)) \/ Over

\* The threads of the simulator are ordinary threads of the host: none of them
\* is kept from running for ever.  Nothing is assumed of the cores.  This is
\* weak fairness with the enabling guards written out: th[t] changes exactly
\* when thread t steps, mpc or woken exactly when simulatePhase does.
ThreadReady(t) == t \in Threads /\ (th[t].pc # "sleep" \/ wake[t])
CallerReady    == mpc = "waking" \/ (mpc = "waiting" /\ waitFree)

Fairness ==
  /\ []<>~CallerReady \/ []<><<TRUE>>_<<mpc, woken>>
  /\ \A t \in Domains : []<>~ThreadReady(t) \/ []<><<TRUE>>_(th[t])

Spec == Init /\ [][Next]_vars /\ Fairness
-----------------------------------------------------------------------------
(***************************************************************************)
(* Properties                                                              *)
(***************************************************************************)
At(e)      == ev[e[1]][e[2]]
LiveEvents == UNION {{<<c, n>> : n \in {m \in DOMAIN ev[c] : ev[c][m] # Freed}} : c \in Cores}
EdgesOf(events) == UNION {{<<e, At(e).kids[i]>> : i \in DOMAIN At(e).kids} : e \in events}

\* The lookup of a dirty miss has two children in the controller's domain: the
\* second response to it opens a block that the walk has already passed.
LookupCrossesTwice == "missWb" \in sys.shapes /\ sys.llc # sys.mem

\* No assertion or panic of the modelled code fails: events are queued neither
\* before the last limit nor before their domain's clock, start no earlier than
\* in the bound phase, get children only while they wait, a crossing is chained
\* only to one that still waits, a core's sequence never runs dry while it runs,
\* contention never moves a core back (cSimEnd's negative skew), and the walk of
\* produceCrossings visits all children of an event although responses are added
\* to it on the way.  Only where two accesses of one lookup cross at once does that
\* walk miss one: WalkVisitsAll fails there (README, section 5).
NoAssertionFails ==
  failed \subseteq (IF LookupCrossesTwice THEN {"visitChildren"} ELSE {})

\* timing_event.h:248, "assert(visitedChildren == numChildren)": visitChildren
\* visits each child of an event, those that produceCrossings adds included.
WalkVisitsAll == "visitChildren" \notin failed

\* The queue of a domain gives its earliest event, wherever it is kept: what
\* firstCycle says and what dequeue returns is the least cycle (privCycle) an
\* event was queued at, although far events move into the array only every
\* half array.
QueueLeast ==
  \A d \in Domains : ~IsEmpty(pq[d]) =>
    LET q == Dequeue(pq[d])
        least == Min({At(o).priv : o \in Objects(pq[d])})
    IN FirstCycle(pq[d]) = least /\ q.cycle = least /\ At(q.obj).priv = least

\* The event graph is sound in every state: an event counts exactly the parents
\* that are still to be done, a crossing has been called exactly when the source
\* event it stands behind is done, and an event that waits for no parent is
\* queued, held by the cache or being simulated, so none is lost or run twice.
GraphExact ==
  LET alive == LiveEvents
      edges == EdgesOf(alive)
  IN \A e \in alive :
       /\ At(e).parents = Cardinality({x \in edges : x[2] = e})
       /\ At(e).kind = "crossing" =>
            (At(e).called <=> \A x \in edges : x[2] # SrcHalf(e))
       /\ \/ At(e).parents > 0
          \/ \E d \in Domains : e \in Objects(pq[d])
          \/ e \in Range(llc.pending)
          \/ \E t \in Threads : th[t].ev = e

\* The cache's MSHR count is exactly the number of misses between their lookup
\* and their writeback, never more than there are MSHRs; and an access is held
\* only while all are taken, so that a writeback is still to come that wakes it.
\* The lookup of a miss is allocated two places before its writeback.
MSHRsExact ==
  /\ llc.activeMisses = Cardinality({e \in LiveEvents :
        At(e).kind = "mwb" /\ At(<<e[1], e[2] - 2>>) = Freed})
  /\ llc.activeMisses <= NumMSHRs
  /\ llc.pending # <<>> => llc.activeMisses = NumMSHRs

\* The array of the cache serves one lookup a cycle: no slot is given both to a
\* high-priority lookup and to a low-priority writeback, nor twice to either.
SlotsUsedOnce == ~slots.twice

\* While the cores run, every simulation thread sleeps on its lock, with no
\* wakeup left over; the clock of every domain is at the limit of the last phase
\* and no event before that limit is left in a queue.
PhaseHandover ==
  mpc = "bound" =>
    /\ \A t \in Threads : th[t].pc = "sleep" /\ ~wake[t]
    /\ threadsDone = 0 /\ ~waitFree
    /\ \A d \in Domains :
         /\ cur[d] = lastLimit
         /\ \A e \in Objects(pq[d]) : At(e).priv >= lastLimit

\* Polling never oversleeps: once its source is done, a queued crossing comes up
\* no later than the source's completion plus the slack it may steal from its
\* child, although it reads the source's clock without a lock.
CrossingOnTime ==
  \A d \in Domains : \A e \in Objects(pq[d]) :
    At(e).kind = "crossing" /\ At(e).called => At(e).priv <= At(e).done + At(e).postSlack

\* Every weave phase ends: domains that wait for each other's crossings, stalled
\* domains and the hand-over between the threads never keep simulatePhase asleep.
PhaseEnds == mpc # "bound" ~> mpc = "bound"

\* slab_alloc.h: "Slabs are garbage-collected once all their events are done."
\* A slab whose count of live elements is zero, and which is cleared for reuse,
\* holds no live event.
SlabKeptWhileLive ==
  \A c \in Cores : live[c] = 0 => \A n \in DOMAIN ev[c] : ev[c][n] = Freed
=============================================================================

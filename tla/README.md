# A TLA+ verification of zsim's core

`src/zsim` is an execution-driven multicore simulator. Pin instruments the
simulated programs; each of their threads is a simulator thread that runs a
simulated core for a *phase* of some thousand cycles (the bound phase), then
waits for the others in a barrier; the last one to arrive simulates contention
(the weave phase), ticks events, lets the scheduler act and starts the next
phase. All simulator state sits in shared memory, and during the bound phase
the threads of several processes walk it concurrently. This fork adds the
Mockingjay replacement policy.

The modules here are translated from the C++ under `src/zsim/src`. TLC checks
them on small instances, and TLAPS proves the most important properties for
every instance. `PROJECT.json` maps every definition to the lines it models and
lists runs, mutants, findings, hazards and theorems.

## 1. Inventory

| part | state | operations | interacts with | hard | correct when |
|---|---|---|---|---|---|
| Futex lock (`locks.h`) | the lock word 0/1/2 | lock, lock without spinning, timed lock, unlock, haswaiters | everything | two writes in unlock, wakes against sleeps, timeouts | mutual exclusion, no lost wake, timed lock returns |
| Readers-writer lock (`mutex.h`) | two locks, a reader counter | rdLock, wrLock, upgrade, downgrade | nobody yet: no code of the simulator uses it | downgrade against the first reader | writers exclude everybody, a downgrade admits no writer |
| Phase barrier (`barrier.h`) | a state, word and list index per slot; the run list, a cursor, three counters | join, leave, sync | scheduler (whose lock it shares) | waking outside the lock, joining twice in a phase, killed processes | nobody runs ahead by a phase, at most `parallelThreads` run, every waiter runs |
| Scheduler (`scheduler.*`) | thread and context tables, free list, run, out and sleep queues, fake leaves | start, finish, join, leave, sync, sleep marking, end-of-phase callback, process cleanup, watchdog | barrier, Pin tool, system-call patches | several lock sections per operation, watchdog against threads, death anywhere | contexts, queues and barrier agree, nobody waits for ever, sleepers wake on time |
| Caches and coherence (`cache.*`, `coherence_ctrls.*`) | array, MESI state and directory per cache, two locks per cache | access, invalidate | cores, memory, replacement policies | locks released on the way up, invalidations overtaking requests | single writer, inclusion, exact directory, no store lost, no deadlock |
| Mockingjay (`mockingjay_repl.h`) | estimates, set clocks, predictor, sampled cache | update, replaced, rank | cache array | clock wrap, saturation, shared sample indices | bounded estimates, unique samples, the intended victim |
| Other policies, partitioning | counters per line | update, replaced, rank; allocation | cache array | truncation, ties | the documented order |
| Filter cache, prefetcher | a line buffer without the cache's locks; stream table | load, store, invalidate; access | L1, coherence | unlocked reads, second unlock of the child | no hit on a line the cache lost |
| Timing events, slabs, contention simulator | event graphs, live counts, a queue per domain | queue, requeue, done, crossing; alloc, free; simulate a phase | cores, timing caches, memory | cross-domain flags without locks, immediate frees | events run once, in order, after their parents; memory is live while used |
| Event queue, process tree, fast-forward | events by phase; counters of active and fast-forwarding processes | insert, tick; start, end, enter, exit, heartbeat | Pin tool, harness | counters that depend on when they are read, callbacks under a lock | events fire in their phase, counts return to zero |
| System-call virtualisation | port maps, clock offsets | pre- and post-patches | scheduler, kernel | locks held across a system call | the program sees simulated time and its own ports |
| Cores, memory controllers, decoder, statistics, configuration, heap, harness, traces | timing state, counters | — | — | mostly sequential arithmetic and I/O | — |

The hazards, each with its line and the properties that would catch it going
wrong, are in `PROJECT.json`; it keeps the weightiest. Others: the lock-free
exit from fast-forward in `notifyEnd` (`process_tree.cpp:87`), an exit by the
toggle thread that, unlike the watchdog's, does not wait for the end of the phase
(`zsim.cpp:1333` against the comment at `scheduler.cpp:104`), the heartbeat
counter's reset (`process_tree.cpp:138`), a 64-bit LRU score cut to 32 bits
(`repl_policies.h:125`), counts reset next to unlocked increments
(`mem_ctrls.cpp:104`), the port lock held across a system call
(`virt/ports.cpp:60`) and a remaining time in phases converted as cycles
(`virt/time.cpp:257`). Vendored code (`g_heap/dlmalloc.h.c`, Pin, SCons)
and data (`outputs`, `configs`) are no part of the inventory; they are nearly
all of the repository's lines.

## 2. Modules and how they correspond to the code

| module | models | composes |
|---|---|---|
| `AbstractMutex` | what a lock promises: acquire when free, release | |
| `FutexLock` | `futex_lock`, `futex_lock_nospin`, `futex_trylock_nospin_timeout`, `futex_unlock`, one step per atomic access or system call | implements `AbstractMutex` |
| `AbstractBarrier` | what a barrier promises: join, leave, arrive, new phase when all have arrived | |
| `Barrier` | `barrier.h`; a section under `schedLock` is one step per loop iteration, since waiters act between them | its lock is `AbstractMutex`; implements `AbstractBarrier` |
| `Scheduler` | `scheduler.{h,cpp}` with the calls `zsim.cpp` and the sleep patches make | its lock sections are steps (`AbstractMutex`), its barrier is `AbstractBarrier`'s state |
| `MESI` | `Cache::access`/`invalidate` with both controllers and the memory's answers, for any inclusive tree of caches | its locks are `AbstractMutex` |
| `FilterCache` | `filter_cache.h` in front of the terminal caches, with `MESITerminalCC` | extends `MESI` |
| `Mockingjay` | the policy and the set-associative array that calls it | |
| `PrioQueue` | `prio_queue.h` as operators on a record | |
| `Weave` | a bound and a weave phase: core recorders, timing events and crossings, slabs, the timing cache's MSHRs, the memory's events, the contention simulator's threads | extends `PrioQueue`, one queue per domain |
| `FastForward` | `EndOfPhaseActions`, the event queue, the process tree, the toggle threads, `SimEnd`, restarts and forks | its barrier is `AbstractBarrier`'s state, its locks `AbstractMutex` |
| `*Proofs` | theorems about the module they extend | `FilterCacheProofs` extends `MESIProofs` |
| `MC*` | instances for TLC | |

The levels stack: `FutexLock` justifies the atomic lock sections of `Barrier`,
`Scheduler`, `MESI` and `FastForward`; `Barrier` justifies the small barrier
inside `Scheduler` and `FastForward`; `FastForward` and `Weave` are two views of
the end of a phase, which share no state: `simulatePhase` is one step there and
the whole module here.

**FutexLock.** `pc[t]` is the place in the lock functions, `mode[t]` which
function, `spin[t]` the loop counter. `FUTEX_WAIT` and `FUTEX_WAKE` are external:
wait compares and sleeps atomically, wake wakes some sleeper, signals end waits.

**Barrier.** State variables have the code's names. A wakeup is three steps (the
state, the compare-and-swap on the word, `FUTEX_WAKE`) because the woken thread
reads the first two without the lock. `Die` and `leave` of a dead slot model a
killed process that the watchdog cleans up. `KillJoiners` says whether a process
may be killed while its thread still waits in `join`; see section 5.

**Scheduler.** One record `S` holds what `schedLock` protects; each member
function is an operator on it. `pc` has a value for each place where a thread is
between two lock sections, and `evict` is the watchdog between the two sections
in which it turns a fake leave into a real one. `left[t]` is the wakeup phase
relative to the current phase, so the state space is finite although phases
count up for ever. Processes have one thread. A process may die while its thread
executes, sleeps or is in a system call. `FakeLeaveRace` says whether a system
call may return inside the watchdog's gap; see section 5.

**MESI.** A core's thread has a stack of activations of `access` and
`invalidate`, the innermost last; each step ends where the code may wait for a
lock. `Parent` is any tree under one last-level cache, which is how `init.cpp:477`
builds the hierarchy (`TreeAssumption`: every cache is reached from the root).
`tcc` and `bcc` are the two controllers of a cache, `array` the addresses, `unsaved` a history
variable for `NoLostStore`. `CheckForMESIRace` is `SkipAccess` and `RacedType`.
The victim of an eviction is any line, so the result does not depend on a
replacement policy; a banked cache is one bank.

**Mockingjay.** One step per `lookup` that hits, per `preinsert`/`postinsert`, per
invalidation. Hashes are constants (`SetOf`, `IndexOf`, `TagOf`), so any collision
can be configured; the widths of counters are constants too. `1/16` is
`TEMP_DIVISOR`. `ScanVictim` is `rank`'s loop, `Victim` says which line it gives. `is_sampled_set` follows what the shift instructions of the
x86 build compute for the code's out-of-range shift amounts: every set is sampled.

**FilterCache.** `rdAddr`, `wrAddr` are the filter entry of each core (one set),
`filterLock` who holds the lock, `filling` the access that has come back from the
cache and is about to enter its line. `ReplaceStart` takes the lock and, in
`startAccess`, gives it up; `EndTerminal` takes it back before the cache's lock
goes. A hit needs no lock and only a store that hits changes anything (it makes
the line dirty). `Process` gives cores and addresses their process, for the
comparison with `procMask`.

**Weave.** An event is named by the core that allocated it and its number; the
source half of a crossing by the negated number, because it is a part of the same
object. `ev` holds every event with its children, parent count, cycles and state,
`live` what the slab counts. The bound phase (`Join`, `Leave`, `Access`,
`Arrive`) builds the graph: an access is a hit, a miss, or a record of a cache
above stitched to one of its own. A miss has a path from the lookup to the
controller and back to the response, and one from the lookup to the writeback for
its victim: an edge when the victim is invalid or clean, a delay (`InvLat`) when
it had to be invalidated below, the controller's access when it is dirty, with or
without the delay. Crossings are
added when an edge joins two domains, with the request and the response
chained as in `enqueueCrossing`. In the weave phase a thread picks an event
(`PickSingle` with one domain per thread; `PickReady`, `PickStalled` with
several), runs it, and posts its domain's cycle; a crossing is simulated in
two reads without a lock, `PollSource` and `Recheck`. `RunEvent` includes what
`done` does to the children. An assertion that fails puts its name into `failed`.

**FastForward.** Every process has one application thread (`app`), the toggle
thread (`ffpc`) and an exit in progress (`fin`). `phase` is the thread inside
`EndOfPhaseActions`, at its two waits, its check, `tick`, a callback or the gap
before `numPhases++`; `events` keeps phases relative to the current one. A
configuration is a constant: `env`, chosen in `Init` from `Envs`, says who does
what. Three windows that nothing in the code closes are off unless
`env.windows`: an event inserted between `tick` and `numPhases++`, an exit that
races the process's own other threads, and a process that exits before another
one that is still to be launched has started.

## 3. Runs

| run | instance | shows |
|---|---|---|
| `futex_lock` | 3 threads, all three functions, 2 spins | `NoLostWakeup`, refinement of `AbstractMutex`, every sleeper is woken |
| `barrier_phase` | 3 slots, 2 in parallel, cleanup every 2 phases, 2 departures | list and counters stay exact, no assertion fails, no lost wake, refinement of `AbstractBarrier`, every waiter runs |
| `mesi_evict` | a data and an instruction cache, 3 levels, 2 addresses, unbounded | inclusion, exact directory, unique lines, single writer, no assertion, no deadlock |
| `filter_hits` | 2 cores with filters, 2 levels, 2 addresses, 2 misses per core, any number of hits | a filter hit is a cache hit with the right permission, no store is lost, every access completes |
| `mockingjay_policy` | 2 sets of 2 ways, 4 addresses on one sample index, clocks modulo 4 | unique lines and samples, the oldest sample is the one given up, the victim is the one the loop finds |
| `sched_threads` | 3 threads on 2 cores, two of them pinned to core 0, quantum 2, sleeps of up to 2 phases | the structures agree and respect the masks, no context idles while a thread that may use it is queued, sleepers on time, assertions, first come first served |
| `sched_live` | 2 threads on 1 core, sleeps of up to 3 phases | queued threads run, sleepers wake |
| `weave_phases` | 2 cores and 2 domains, 6 systems (one or two simulation threads, controller in either domain, hits, misses on every kind of victim, stitched records), 2 weave phases, 1 MSHR | no assertion, but for the one of section 5, item 6, in the two systems where it fails; the queue gives the least cycle; the event graph is exact and loses nothing; MSHRs and cache slots are accounted for; crossings come up on time; phases are handed over clean and end |
| `ff_toggle` | 2 processes, 10 environments of toggles, hooks, intervals, heartbeats, pauses, system calls, exits, restarts, forks, termination | no panic, exact counters, synced fast-forwarding holds the phase, every end of phase, toggle and termination completes |
| `mockingjay_everyline`, `weave_slab`, `ff_fork` | | violations, section 5 |

**Bounds.** Three lock users are the fewest in which one holds, one sleeps and
one steals the word; spins only delay. Three slots with two in parallel make the
phase run in slices, shuffle and clean up; `MaxLeaves` bounds departures because
each may interleave with every step of a wakeup, and two suffice for a same-phase
rejoin next to a stale entry. The phase counter is kept modulo the cleanup
period. One line per cache makes every second access evict; the `mesi_evict` tree
has an L2 with two lines under an LLC with one, so that an LLC eviction
invalidates below a cache that keeps other lines. `filter_hits` bounds misses
(`Limit`) because liveness needs the whole graph; it has no deadlock check as the
cores stop, and `FilterAccessCompletes` covers it. Its shared cache has two lines,
so that downgrades happen as well as evictions. The Mockingjay clocks wrap within a
run. Three threads on two cores with unequal masks are the fewest in which a
steal, a handoff and a queue can conflict.

In `weave_phases`, `ops` bounds the joins, leaves and accesses of a core. With a
phase of 6 cycles and blocks of 2, an array of 4 blocks makes events far, migrates
them and wraps within the two phases; one MSHR makes the second miss wait; a gap
of 11 cycles makes a core skip a phase. A system per interesting placement keeps
the product small: plain misses across domains with both numbers of threads, a
long gap, dirty misses within a domain, and misses on victims that are dirty,
invalidated below or both across domains. In the last two `NoAssertionFails`
exempts the assertion that ends `visitChildren` (`LookupCrossesTwice`; section 5,
item 6), and no other; that all else holds there, `GraphExact` and
`CrossingOnTime` included, says that the child the walk misses does no harm: it is
a response, already in the lookup's own domain. The clock is not abstracted, so phases are bounded
(`MaxPhase`): two are needed for a crossing whose source is in the earlier phase
and for a core that leaves in one and joins in the next. `ff_toggle` has no bound
on phases, toggles or hooks; restarts and forks are one. Neither it nor
`filter_hits` checks deadlock: a simulation ends, and may stay paused for ever.

**Fairness.** A thread inside a lock function, a barrier wait, an access or a
scheduler function keeps executing (weak fairness of its steps): the host
schedules it. The kernel wakes futex waiters in order of arrival, so being the
one woken is strongly fair. Threads need not call anything, system calls need
not return, signals need not arrive, nobody need die. In `Scheduler` the end of a phase (`sync`) is strongly fair: a
thread that runs accumulates cycles, also across system calls, and reaches the
end of its phase. The watchdog's visits (`EndFakeLeave`, `processCleanup`) are
strongly fair because each turn of its endless loop makes them. In `Weave` and
`FastForward` fairness is written with explicit ready conditions, which say the
same as weak fairness of a thread's steps: the simulation threads, the caller of
`simulatePhase`, the thread that ends a phase, the toggle threads, exits and the
harness keep running when they can. A toggle thread that waits for `qLock`, which
the end of every phase takes, gets it in the end (strong): the futex serves its
waiters in order. Users, hooks, programs and cores choose freely.

Each property has a mutant: a plausible bug in the code for which TLC finds a
violation under the same configuration.

## 4. Theorems

Proved by TLAPS for all values of the constants that satisfy the named
assumptions of the modules.

**FutexLockProofs.** `IInv` = type, mutual exclusion, "the word is 0 iff nobody
owns it" and `NoLostWakeup`. Mutual exclusion alone is not inductive: a thread
enters when it reads 0, so the word must tell who owns the lock, including
between the two writes of a contended unlock. From it follow
`FutexMutualExclusion`, `FutexNoLostWakeup` and `FutexImplementsMutex`: each step
is an `Acquire`, a `Release` or leaves the owners alone.

**BarrierProofs.** `IInv` has ten parts besides the type: one lock holder; the
list holds each member once and the cursor is inside it; `lastIdx` is right for
every thread that has been visited; the place of each thread fits its state, its
word and the wakeup in progress; the loop index fits the cleanup pass or the
shuffle; the counters count; a join in progress waits ahead of the cursor. The
counts are cardinalities, handled by two lemmas on how a count changes when one
thread's state does; the list by lemmas on appending, swapping and removing.
`BarrierTypeOK`, `BarrierRunList`, `BarrierCounters`, `BarrierParallelBound`,
`BarrierNoLostWakeup` and `BarrierAssertions` follow. All assume `~KillJoiners`:
without it the assertion about `lastIdx` is false (section 5).

The refinement, at the end of the module, is `BarrierImplements`: every step of `Barrier` is a step of
`AbstractBarrier` under the mapping "a member is WAITING or RUNNING, it has
arrived when it waits behind the cursor", or changes neither set. `IInv` does not
suffice: that a RUNNING thread arrives when its state becomes WAITING needs it to
be behind the cursor, and that a new phase starts with nobody arrived needs the
shuffle to be over before the first visit. `BarrierVisits` adds both.

**FastForwardProofs.** Four theorems, each from what the one before needs and
more. `FastForwardTypeOK` holds of every environment; its invariant adds how a
process's life (`LifeInv`) and the handling of a due event (`DueInv`) fit
together. `FastForwardCounts` says that the three global counters are exact. The
counters change in steps of four different actors, and a step of one is licensed
by what another said before (a toggle thread that inserted a `SyncEvent` may act
when the callback has set it off, a `notifyEnd` that saw `inFastForward` exits
later): `Handshake` states that. Hypothesis `ModesFixed`: no lone process in the
mode `Multiprocess` forks; `ff_fork` shows what happens then. The windows of
section 2 may be open. `FastForwardSyncedHoldsPhase` follows with `FreshInv`, which
says when somebody can be in synced fast-forward past the wait.
`FastForwardNoPanic` needs six more parts (`PanicInv`): no event is overdue; a
process that is still to start leaves another one active; who still runs when the
termination condition is met; what `notifyEnd` saw is still so; a process with
`ffiPoints` has at most one count of instructions under way, queued or firing, and
is outside fast-forward then; the active processes are those neither ended nor
exiting. Hypothesis `Orderly`: the windows are closed, and a process with
`ffiPoints` is not toggled, has no hooks and does not restart; the code has no
protection against either (section 5, item 8, for the windows). All environments
of `ff_toggle` satisfy both hypotheses.

**SchedulerProofs.** All five properties of `sched_threads`, for every finite set
of threads, number of cores, assignment of masks, quantum and bound on sleeps.
`IInv` has two halves. `SInv` is about the record `schedLock` protects: contexts
and threads name each other (`Ctx`), the free list and the count are exact, each
queue is the threads in its state, the barrier's members are the contexts that run
a thread, a pending handoff goes from a running thread past the barrier to a queued
thread of its own, no context a queued thread may use is idle, the sleepers are in
order, and whoever waits has armed its futex word. `PInv` says how the place of each
thread in the code fits that record. `StructuresAgree` is not inductive without
the rest: that `leave` finds a thread with a context needs `Place`; that
`schedTick` finds a victim needs `Idle`; that nobody is marked for sleep or has a
handoff pending when a phase ends, so that deadlines count down and no handoff is
overwritten, needs to know which threads are in the barrier. A lock section is a
chain of moves (claim, schedule, give up, go to sleep, wake, tick); each move keeps
`SInv(s, F)`, where `F` is a thread that is QUEUED but in no queue, as between the
two halves of a handoff, and a relation `Calm` says what a section may do to the
threads it is not about. The counts are cardinalities of sets of threads; the
lists rest on lemmas about `Without`, `Append`, `Tail` and `SleepInsert`.
`SchedulerNoOvertaking` is an action property: `leave` serves the first queued
thread that may have the context, `schedTick` passes a thread over only when those
before it took its whole mask, and a thread that is deleted is never queued. All
theorems assume `~FakeLeaveRace`: without it `StructuresAgree` and
`NoAssertionFails` are false (section 5, item 5).

**MESIProofs.** `Hierarchy`, `SingleWriter` and `RaceFree` (and `TypeCorrect`) for
every tree of caches, number of lines and set of addresses, with any number of
accesses, evictions and invalidations under way. `IInv` has ten parts. `Types`.
`Locks`: an activation past its acquisition of `tcc` or `bcc` is the one that
`tccLock` or `bccLock` names, except that an access that has called the parent has
given up `bcc`. `Order`: a stack climbs the tree with accesses and then
descends with invalidations, so a thread never meets a line it is working on
itself, and with `Locks` at most one activation has a cache's `bcc`. `Linked`: what an
activation was called for and where its caller waits. `Content`: what each
activation knows about its line, above all which states of the child a request may
find between its start and its answer: these are the races that
`CheckForMESIRace` admits. `UniqueLines` and `EmptyLines` are about the arrays.
`Entries`: a directory entry counts its sharers, except while somebody invalidates
them one by one. `Pairs` and `Present`: a child's line and its parent's line and
entry agree, except that an upgrade has taken the child out of the entry before the
child's state changes. No part is inductive
without the others: that the parent still has the line when a PUT arrives needs
the locks, that the lock is the right one needs the order of the stacks, and that
an invalidation finds what the directory promised needs the content of the
request it may have overtaken. `HierarchyConsistent` then follows from
the parts. `SWMR` follows by walking the tree: the paths of two leaves to the root
meet in two different children of one cache, validity and exclusiveness go up
along a path, and the directory of that cache excludes the combination. For
`NoAssertionFails` each assertion of the two controllers is read off `Content`.

**FilterCacheProofs.** `StoresSafe` is about `MESI`: `NoLostStore` becomes inductive
when "dirty" includes the writebacks that an invalidation has collected and not
yet recorded (`SInv`: a line stored to and not yet written back is dirty
somewhere, and who processes the writeback of a dirty child is itself dirty
before it answers). `FiltersCoherent` and `StoreHitsSafe` are about the filters in
front of that hierarchy. `FInv` adds who may hold `filterLock` (the core itself, about to
fill its entry with the line it still has locked in the cache, or an invalidation
that has already found the entry to be of another line) and what `replace` may fill
in (a line that the cache has, with the permission asked for). What it rests on is
that only the core's own accesses and invalidations write a terminal cache's
lines, and that invalidations take the filter lock. Hypothesis `OneProcess`: all
cores run threads of one process, because the code compares the invalidated
address with the invalidating process's `procMask` (the FIXME at
`filter_cache.h:155`; section 5, item 7, shows what two processes do). Every
filter step is a step of `MESI` or leaves its variables alone, so `IInv` and `SInv`
carry over.

**MockingjayProofs.** `IInv` is the type with `UniqueSamples` and `UniqueLines`;
lemmas bound the arithmetic of training, detraining and the penalty, and show
that `rank` returns a line of the set. `MockingjayTypeOK`,
`MockingjayUniqueSamples`, `MockingjayUniqueLines`, `MockingjayDistanceBounded`.
`MockingjayVictim` says that `rank`'s loop gives the line `Victim` describes: the
loop is a recursive function over the candidates, and after `n` of them it holds
the best of the first `n`, of which a least counterexample would be the step of
one candidate. `MockingjayOldestGivenUp` follows one access through the sampled
index (match, scans detrained, oldest way detrained, new sample). Its hypothesis
is `kMaxTimestamp > 1`: with a single value of the clock an access is not seen to
advance it. The code's clocks count modulo 256 (`mockingjay_repl.h:33`).

**PrioQueueProofs.** The event queue of a domain, for every even number of blocks
and every width of a block (the code has 1024 and 64). `Holds(q, c, o)` says that
object `o` is queued for cycle `c`: on the stack of that cycle in the array, when
its block is one of the `B` from the current one on, or in the map. `QInv` is the
type, the order of the map, and `Far`: an element of the map is past the window the
array had at the last multiple of `B/2`. The empty queue has `QInv` and holds
nothing (`EmptyHolds`). `EnqueueAdds`: enqueueing adds exactly the pair, if the
cycle is not before the current block, as the code asserts. `DequeueLeast`:
dequeueing a queue that is not empty gives an object with the cycle it was enqueued
for, no other element is earlier, and nothing else is lost or added; and if no
object was queued twice for a cycle (`Once`, which enqueueing keeps for a pair that
is not in the queue), the pair given is gone. So the cycle `dequeue` reports, which
it computes from the block and the offset, is the event's own. `FirstCycleLeast`:
what `firstCycle` peeks at is the least cycle too, by its four cases. `QInv` is all
the three assume and the first two keep it, so they hold of every queue made by such
calls. The argument: two blocks of a window have different places in the array; one
turn of dequeue's loop (`NextBlockKeeps`) moves a prefix of the map (`MovedPrefix`),
which lies in the new window, so that the loop's own assertions hold; the elements
of one cycle are a run of that prefix and go to one stack; the loop is a recursive
function that stops at the latest at the block of the last element, and a block it
leaves is empty. `QueueLeast` in `Weave` is the checked counterpart, which also ties
the cycles in the queue to the events.

Type invariants, the bound on parallelism and `DistanceBounded` are proved and
not repeated in a run. Only model-checked: all liveness (fairness and ENABLED are
outside the prover) and everything about `Weave` but its queue: it walks event
graphs with mutually recursive operators, so that nothing about the module can be
proved as it stands.

## 5. Where code and comments disagree

Shown by runs:

1. `mockingjay_everyline`: `update` stores the prediction only for `id < llc_ways`,
   but `id` is a global line number; lines outside set 0 never get one.
2. `weave_slab`: the source half of a crossing is a member of the crossing, and
   both free an element of the slab (`timing_event.h:337`); the slab's live count
   reaches zero, and the slab is cleared for reuse, with events in it.
3. `ff_fork`: in the default mode whether a process counts as synced depends on
   the number of processes when it is asked (`process_tree.h:114`); a fork between
   entering and leaving fast-forward makes the counter go below zero, and the end
   of the phase waits for it (`zsim.cpp:487`).

Reproduced by giving a constant another value, or checking another invariant, in
the configuration named:

4. `KillJoiners = TRUE` in `Barrier_phase.cfg`: a process killed while its thread
   waits in its first `join` leaves a slot whose `lastIdx` was never written; the
   next join of that slot in the same phase fails `assert(tid == runList[lastIdx])`
   (`barrier.h:137`, `AssertionsHold`).
5. `FakeLeaveRace = TRUE` in `Scheduler_threads.cfg`: the watchdog releases
   `schedLock` between ending a fake leave and leaving for the thread; a system
   call that returns in between fails the assertion of `join` (`scheduler.h:313`),
   and the structures no longer agree (TLC reports `StructuresAgree` first; with
   `NoAssertionFails` alone it reports the assertion).
6. `WalkVisitsAll` as an invariant in `Weave_phases.cfg`: `produceCrossings` walks
   the children of an event while `enqueueCrossing` adds to them
   (`contention_sim.cpp:236`). The lookup of a miss on a dirty victim, with the
   controller in another domain, gets two responses; the second opens a block
   before the one being walked, and the assertion at the end of the walk
   (`timing_event.h:248`, "visitedChildren == numChildren") fails. The run keeps
   these misses and exempts this one assertion there.
7. `Process <- TwoProcesses` and `Lines <- OneLine` in `FilterCache_hits.cfg`: an
   eviction run by another process leaves the filter entry, as the FIXME at
   `filter_cache.h:155` says.
8. In `FastForward_toggle.cfg`: `Envs <- Window`, a toggle between `tick` and
   `numPhases++` is a panic at the next tick, although `zsim.cpp:1350` says "will
   run on next phase"; `Envs <- TwoToggled`, two processes toggled in a phase wait
   for each other through `ffLock`, `qLock` and `SyncEvent`; `Envs <- ToggledExits`,
   the end of a phase waits for the toggle thread of a process that has exited.
9. `HasWaitersSound` as an invariant in `FutexLock_lock.cfg`: `locks.h:218` says
   "No false positives"; a holder that came through the exchange sees 2 with
   nobody waiting.

And by reading: a Mockingjay set ages every `GRANULARITY + 1` accesses
(`mockingjay_repl.h:253`, the clock is reset to 0 and tested before it counts); a
restarted process takes its first toggle for the initialisation of the toggle
lock, which the previous run left locked (`zsim.cpp:1325`).

Release builds define NASSERT, so findings 4 and 5 silently corrupt the run
list or the context table there; finding 6 does no harm, as `weave_phases` shows.

## 6. Not modelled, and the plan

Left out of the modelled parts: futex wake matching, the syscall blacklist,
back-to-back system calls and processes of several threads in `Scheduler`; a kill
while a thread waits for a context; `nonInclusiveHack`, the PREFETCH flag and banks
in `MESI`; Z-array events and out-of-order cores in `Weave`; per-process pauses,
`exec` and several threads per process in `FastForward`; latencies of the bound
phase and statistics everywhere. Components with status `not_modelled` in
`PROJECT.json` say why: most of them are sequential arithmetic, I/O or start-up
code.

Theorems to come: `Weave`, once its walks over the event graph are recursive
functions; `QueueLeast` would then follow from the theorems about the queue.

Modelling to come: the stream prefetcher with the PREFETCH flag; LRU, NRU, LFU,
SRRIP and the Z-array against reference orders; lookahead partitioning against an
exhaustive allocation; futex wake matching; port virtualisation; DDR command
scheduling.

---------------------------- MODULE FilterCache ----------------------------
(***************************************************************************)
(* The filter cache (filter_cache.h) in front of the terminal caches of    *)
(* MESI: a core's loads and stores first look at a filter array that holds *)
(* the most recently used line of each set, without any lock.  A miss in   *)
(* the filter goes through the cache under filterLock, which the access    *)
(* gives up while it runs and takes back before it gives up the cache's    *)
(* lock; an invalidation of the cache clears the filter entry under the    *)
(* same lock.  The terminal caches have one set, so one filter entry.      *)
(***************************************************************************)
EXTENDS MESI

CONSTANT Process   \* the simulated process that a core runs, and that an address is of (procMask)

\* None is not an access.
ASSUME NoneAssumption == None \notin AccFrame

VARIABLES rdAddr,     \* rdAddr[t]: the line that loads of core t hit on, or None
          wrAddr,     \* wrAddr[t]: the line that stores hit on, or None
          filterLock, \* the core whose thread holds the lock, or None
          filling     \* filling[t]: the access whose line replace is about to enter

fvars == <<rdAddr, wrAddr, filterLock, filling>>
allVars == <<vars, fvars>>

FilterTypeOK ==
    /\ TypeOK
    /\ rdAddr \in [Cores -> Addrs \cup {None}]
    /\ wrAddr \in [Cores -> Addrs \cup {None}]
    /\ filterLock \in [Cores -> Cores \cup {None}]
    /\ \A t \in Cores : filling[t] = None \/ filling[t].fn = "access"

FilterInit ==
    /\ Init
    /\ rdAddr = [t \in Cores |-> None]
    /\ wrAddr = [t \in Cores |-> None]
    /\ filterLock = [t \in Cores |-> None]
    /\ filling = [t \in Cores |-> None]

\* The thread of core t is between two accesses.
Idle(t) == ~Busy(t) /\ filling[t] = None

-----------------------------------------------------------------------------
\* FilterCache::load and store: a hit, without a lock.  A load that hits
\* changes nothing; a store that hits makes the line newer than memory.
StoreHit(t) ==
    /\ Idle(t)
    /\ wrAddr[t] # None
    /\ unsaved' = unsaved \cup {wrAddr[t]}
    /\ UNCHANGED <<array, bcc, tcc, bccLock, tccLock, stack, issued>>
    /\ UNCHANGED fvars

\* replace: a miss on a line of the core's process takes filterLock, which
\* startAccess gives up again before it waits for the cache.
ReplaceStart(t) ==
    /\ Idle(t)
    /\ filterLock[t] = None
    /\ CoreAccess(t)
    /\ LET f == stack'[t][1]
       IN  /\ f.a # IF f.type = "GETS" THEN rdAddr[t] ELSE wrAddr[t]
           /\ Process[f.a] = Process[t]
    /\ UNCHANGED fvars

\* Mutant: the cache's lock is given up without taking filterLock back.
EndTerminalUnlocked(t) ==
    /\ At(t, "access", "end") /\ Top(t).child = None
    /\ EndAccess(t)
    /\ filling' = [filling EXCEPT ![t] = Top(t)]
    /\ UNCHANGED <<rdAddr, wrAddr, filterLock>>

\* MESITerminalCC::endAccess: filterLock first, then the cache's lock goes.
EndTerminal(t) ==
    /\ At(t, "access", "end") /\ Top(t).child = None
    /\ filterLock[t] = None
    /\ EndAccess(t)
    /\ filterLock' = [filterLock EXCEPT ![t] = t]
    /\ filling' = [filling EXCEPT ![t] = Top(t)]
    /\ UNCHANGED <<rdAddr, wrAddr>>

\* Mutant: a load leaves the line writable.
WritableAfterAny(f) == f.a

\* The line that stores may hit on after access f.
Writable(f) == IF f.type = "GETX" THEN f.a ELSE None

\* replace enters the line and gives up filterLock.
ReplaceEnd(t) ==
    /\ filling[t] # None
    /\ wrAddr' = [wrAddr EXCEPT ![t] = Writable(filling[t])]
    /\ rdAddr' = [rdAddr EXCEPT ![t] = filling[t].a]
    /\ filling' = [filling EXCEPT ![t] = None]
    /\ filterLock' = [filterLock EXCEPT ![t] = None]
    /\ UNCHANGED vars

\* contextSwitch, when the core's thread is descheduled
ContextSwitch(t) ==
    /\ Idle(t) /\ filterLock[t] = None
    /\ rdAddr' = [rdAddr EXCEPT ![t] = None]
    /\ wrAddr' = [wrAddr EXCEPT ![t] = None]
    /\ UNCHANGED <<filterLock, filling>> /\ UNCHANGED vars

\* (filterArray[idx].rdAddr | procMask) == req.lineAddr, with the procMask of
\* the process whose thread runs the invalidation
Matches(t, c, a) == rdAddr[c] = a /\ Process[t] = Process[c]

\* Mutant: filterLock is taken before the cache's lock.
FilterInvalidateEarly(t) ==
    LET f == Top(t)
    IN  /\ At(t, "inv", "bcc") /\ f.c \in Leaves
        /\ filterLock[f.c] = None
        /\ filterLock' = [filterLock EXCEPT ![f.c] = t]
        /\ rdAddr' = [rdAddr EXCEPT ![f.c] = IF Matches(t, f.c, f.a) THEN None ELSE @]
        /\ wrAddr' = [wrAddr EXCEPT ![f.c] = IF Matches(t, f.c, f.a) THEN None ELSE @]
        /\ UNCHANGED filling /\ UNCHANGED vars

\* FilterCache::invalidate, which has the cache's lock (StartInvalidate): the
\* entry goes before the line does.
FilterInvalidate(t) ==
    LET f == Top(t)
    IN  /\ At(t, "inv", "down") /\ f.c \in Leaves
        /\ filterLock[f.c] = None
        /\ filterLock' = [filterLock EXCEPT ![f.c] = t]
        /\ rdAddr' = [rdAddr EXCEPT ![f.c] = IF Matches(t, f.c, f.a) THEN None ELSE @]
        /\ wrAddr' = [wrAddr EXCEPT ![f.c] = IF Matches(t, f.c, f.a) THEN None ELSE @]
        /\ UNCHANGED filling /\ UNCHANGED vars

\* Cache::finishInvalidate, then filterLock
FinishTerminal(t) ==
    /\ At(t, "inv", "down") /\ Top(t).c \in Leaves
    /\ filterLock[Top(t).c] = t
    /\ FinishInvalidate(t)
    /\ filterLock' = [filterLock EXCEPT ![Top(t).c] = None]
    /\ UNCHANGED <<rdAddr, wrAddr, filling>>

\* The steps of MESI that the filter has no part in
HierarchyStep(t) ==
    /\ \/ LockTop(t) \/ LockBottom(t) \/ EvictBottom(t) \/ Inserted(t) \/ Bottom(t)
       \/ TopUpgrade(t) \/ TopAccess(t) \/ SendInvalidate(t) \/ StartInvalidate(t)
       \/ Busy(t) /\ Top(t).fn = "access" /\ Top(t).child # None /\ EndAccess(t)
       \/ Busy(t) /\ Top(t).fn = "inv" /\ Top(t).c \notin Leaves /\ FinishInvalidate(t)
    /\ UNCHANGED fvars

FilterStep(t) ==
    HierarchyStep(t) \/ EndTerminal(t) \/ ReplaceEnd(t) \/ FilterInvalidate(t) \/ FinishTerminal(t)

FilterNext ==
    \E t \in Cores : StoreHit(t) \/ ReplaceStart(t) \/ ContextSwitch(t) \/ FilterStep(t)

\* A thread inside an access keeps running.
FilterSpec ==
    FilterInit /\ [][FilterNext]_allVars /\ \A t \in Cores : WF_allVars(FilterStep(t))

-----------------------------------------------------------------------------
(* Properties *)

\* The filter "holds the most recently used line in each set" (filter_cache.h):
\* whenever a core may look at its filter, the line that loads hit on is valid
\* in the cache behind it, and the line that stores hit on is modified there,
\* although hits take no lock and other cores evict, downgrade and invalidate.
FilterCoherent ==
    \A t \in Cores : Idle(t) =>
        /\ rdAddr[t] # None => Valid(t, rdAddr[t])
        /\ wrAddr[t] # None => wrAddr[t] = rdAddr[t] /\ StateOf(t, wrAddr[t]) = "M"

\* Every access completes, filterLock and the cache's locks taken in either
\* direction: nobody waits for a lock for ever.
FilterAccessCompletes == \A t \in Cores : ~Idle(t) ~> Idle(t)
=============================================================================

-------------------------------- MODULE MESI --------------------------------
(***************************************************************************)
(* The cache hierarchy of zsim: Cache::access and invalidate (cache.cpp)   *)
(* with the MESI coherence controllers (coherence_ctrls.h/.cpp), for any   *)
(* inclusive tree of caches.  Each core runs a thread of the simulator,    *)
(* and the threads walk the same tree concurrently: an access goes up from *)
(* a terminal cache, an invalidation goes down.                            *)
(*                                                                         *)
(* Each cache has two locks, the top controller's (tcc) and the bottom     *)
(* controller's (bcc).  On its way up a thread releases the child's bcc    *)
(* lock before it waits for the parent's two locks, so that invalidations  *)
(* can pass it; this opens the races CheckForMESIRace deals with.  A       *)
(* thread's activations of access and invalidate are a stack of frames;    *)
(* every step ends where the code may wait for a lock.  futex_lock and     *)
(* futex_unlock are the steps of AbstractMutex.                            *)
(***************************************************************************)
EXTENDS Integers, Sequences, FiniteSets

CONSTANTS Caches,
          Mem,        \* the memory controller (SimpleMemory), parent of the root
          Parent,     \* Parent[c]: the cache above c, or Mem
          Lines,      \* Lines[c]: the number of lines of c's array
          Addrs,      \* line addresses
          ICaches,    \* the terminal caches of instruction fetches (NOEXCL requests)
          Limit,      \* bound: accesses per core, 0 for no bound
          None

Children(c) == {k \in Caches : Parent[k] = c}
Leaves == {c \in Caches : Children(c) = {}}
\* A core and its simulator thread go by the name of its terminal cache.
Cores == Leaves
Slots(c) == 1..Lines[c]

ASSUME ConstantsAssumption ==
    /\ IsFiniteSet(Caches)
    /\ Lines \in [Caches -> Nat \ {0}]
    /\ ICaches \subseteq Leaves
    /\ Limit \in Nat
    /\ Mem \notin Caches /\ None \notin Caches /\ None \notin Addrs

\* The caches are a tree with a single last-level cache (init.cpp:477): they are
\* built from it downwards, and every cache is reached.
ASSUME TreeAssumption ==
    /\ Parent \in [Caches -> Caches \cup {Mem}]
    /\ \E llc \in Caches :
         /\ Parent[llc] = Mem
         /\ \A built \in SUBSET Caches :
              llc \in built /\ (\A c \in Caches : Parent[c] \in built => c \in built)
                => built = Caches

VARIABLES array,     \* array[c][s]: the address in line s of cache c
          bcc,       \* bcc[c][s]: its MESI state
          tcc,       \* tcc[c][s]: its directory entry
          bccLock,   \* the core whose thread holds the lock, or None
          tccLock,
          stack,     \* stack[t]: the activations of core t's thread, innermost last
          issued,    \* issued[t]: accesses so far, when bounded
          unsaved    \* history: lines stored to since memory last received them

vars == <<array, bcc, tcc, bccLock, tccLock, stack, issued, unsaved>>

MESIState == {"I", "S", "E", "M"}
Puts == {"PUTS", "PUTX"}

Entry == [sharers : SUBSET Caches, numSharers : Nat, exclusive : BOOLEAN]
isExclusive(e) == e.numSharers = 1 /\ e.exclusive

\* An activation of Cache::access at cache c, for line childSlot of child.
AccFrame == [fn : {"access"}, c : Caches, child : Caches \cup {None}, childSlot : Nat,
             a : Addrs, type : {"GETS", "GETX"} \cup Puts, initialState : MESIState,
             pc : {"tcc", "bcc", "evict", "evput", "bottom", "top", "end"},
             slot : Nat, wb : BOOLEAN]
\* An activation of Cache::invalidate at cache c.
InvFrame == [fn : {"inv"}, c : Caches, a : Addrs, type : {"INV", "INVX"},
             pc : {"bcc", "down"}, slot : Nat, wb : BOOLEAN]

TypeOK ==
    /\ \A c \in Caches :
         /\ array[c] \in [Slots(c) -> Addrs \cup {None}]
         /\ bcc[c] \in [Slots(c) -> MESIState]
         /\ tcc[c] \in [Slots(c) -> Entry]
    /\ bccLock \in [Caches -> Cores \cup {None}]
    /\ tccLock \in [Caches -> Cores \cup {None}]
    /\ \A t \in Cores : \A n \in 1..Len(stack[t]) : stack[t][n] \in AccFrame \cup InvFrame
    /\ issued \in [Cores -> 0..Limit]
    /\ unsaved \subseteq Addrs

Init ==
    /\ array = [c \in Caches |-> [s \in Slots(c) |-> None]]
    /\ bcc = [c \in Caches |-> [s \in Slots(c) |-> "I"]]
    /\ tcc = [c \in Caches |-> [s \in Slots(c) |->
                 [sharers |-> {}, numSharers |-> 0, exclusive |-> FALSE]]]
    /\ bccLock = [c \in Caches |-> None]
    /\ tccLock = [c \in Caches |-> None]
    /\ stack = [t \in Cores |-> <<>>]
    /\ issued = [t \in Cores |-> 0]
    /\ unsaved = {}

-----------------------------------------------------------------------------
(* Frames *)

Busy(t) == stack[t] # <<>>
Top(t) == stack[t][Len(stack[t])]
At(t, fn, pc) == Busy(t) /\ Top(t).fn = fn /\ Top(t).pc = pc

\* A stack without its top frame, and one whose top frame became f
Popped(s) == SubSeq(s, 1, Len(s) - 1)
Replaced(s, f) == [s EXCEPT ![Len(s)] = f]

\* The top frame becomes f.
Become(t, f) == stack' = [stack EXCEPT ![t] = Replaced(@, f)]
\* The top frame becomes f and calls g.
Call(t, f, g) == stack' = [stack EXCEPT ![t] = Append(Replaced(@, f), g)]

\* The frame's entry in the directory and its state.
Dir(f) == tcc[f.c][f.slot]
State(f) == bcc[f.c][f.slot]

\* array->lookup
Holding(c, a) == {s \in Slots(c) : array[c][s] = a}

\* The call parents[..]->access(req) made by cache f.c for its line f.slot.
Request(f, a, type, state) ==
    [fn |-> "access", c |-> Parent[f.c], child |-> f.c, childSlot |-> f.slot, a |-> a,
     type |-> type, initialState |-> state, pc |-> "tcc", slot |-> 0, wb |-> FALSE]

-----------------------------------------------------------------------------
(* Cache::access *)

\* A core's load, store or instruction fetch reaches its terminal cache.
CoreAccess(t) ==
    /\ ~Busy(t)
    /\ Limit > 0 => issued[t] < Limit
    /\ issued' = [issued EXCEPT ![t] = IF Limit > 0 THEN @ + 1 ELSE @]
    /\ \E a \in Addrs, type \in IF t \in ICaches THEN {"GETS"} ELSE {"GETS", "GETX"} :
         stack' = [stack EXCEPT ![t] = <<[fn |-> "access", c |-> t, child |-> None,
                      childSlot |-> 0, a |-> a, type |-> type, initialState |-> "I",
                      pc |-> "bcc", slot |-> 0, wb |-> FALSE]>>]
    /\ UNCHANGED <<array, bcc, tcc, bccLock, tccLock, unsaved>>

\* startAccess: the parent's tcc lock, first
LockTop(t) ==
    /\ At(t, "access", "tcc")
    /\ tccLock[Top(t).c] = None
    /\ tccLock' = [tccLock EXCEPT ![Top(t).c] = t]
    /\ Become(t, [Top(t) EXCEPT !.pc = "bcc"])
    /\ UNCHANGED <<array, bcc, tcc, bccLock, issued, unsaved>>

\* The state of the line in the child, *req.state.
ChildState(f) == IF f.child = None THEN "I" ELSE bcc[f.child][f.childSlot]

\* CheckForMESIRace: an invalidation overtook this request.  A PUT of a line
\* that is gone is skipped, a PUTX of a downgraded line becomes a PUTS.
SkipAccess(f) == f.type \in Puts /\ ChildState(f) # f.initialState /\ ChildState(f) = "I"

\* Mutant: a PUTX stays one after a downgrade.
RacedTypeSame(f) == f.type

RacedType(f) ==
    IF f.type = "PUTX" /\ ChildState(f) # f.initialState THEN "PUTS" ELSE f.type

\* startAccess: the bcc lock and the race check; then lookup and, on a miss,
\* preinsert, where the replacement policy may choose any line.
LockBottom(t) ==
    LET f == Top(t)
    IN  /\ At(t, "access", "bcc")
        /\ bccLock[f.c] = None
        /\ bccLock' = [bccLock EXCEPT ![f.c] = t]
        /\ \/ /\ SkipAccess(f)
              /\ Become(t, [f EXCEPT !.pc = "end"])
           \/ /\ ~SkipAccess(f)
              /\ \E s \in Holding(f.c, f.a) :
                   Become(t, [f EXCEPT !.pc = "bottom", !.slot = s, !.type = RacedType(f)])
           \/ /\ ~SkipAccess(f)
              /\ Holding(f.c, f.a) = {}
              /\ \E s \in Slots(f.c) :
                   Become(t, [f EXCEPT !.pc = "evict", !.slot = s, !.type = RacedType(f)])
        /\ UNCHANGED <<array, bcc, tcc, tccLock, issued, unsaved>>

\* Mutant: the children keep the line that is evicted.
EvictBottomOnly(t) ==
    LET f == Top(t)
        state == IF f.wb THEN "M" ELSE State(f)
        next == [f EXCEPT !.wb = FALSE, !.pc = "bottom"]
    IN  /\ At(t, "access", "evict")
        /\ IF state # "I" /\ Parent[f.c] # Mem
           THEN /\ bcc' = [bcc EXCEPT ![f.c][f.slot] = state]
                /\ Call(t, [next EXCEPT !.pc = "evput"],
                        Request(f, array[f.c][f.slot], IF state = "M" THEN "PUTX" ELSE "PUTS", state))
                /\ bccLock' = [bccLock EXCEPT ![f.c] = None]
                /\ UNCHANGED <<array, unsaved>>
           ELSE /\ bcc' = [bcc EXCEPT ![f.c][f.slot] = "I"]
                /\ unsaved' = IF state = "M" THEN unsaved \ {array[f.c][f.slot]} ELSE unsaved
                /\ array' = [array EXCEPT ![f.c][f.slot] = f.a]
                /\ Become(t, next)
                /\ UNCHANGED bccLock
        /\ UNCHANGED <<tcc, tccLock, issued>>

\* bcc->processEviction, once tcc->processEviction has invalidated the
\* children: write the victim back to the parent, if there is anything to
\* write back, and insert the new line (postinsert).
EvictBottom(t) ==
    LET f == Top(t)
        state == IF f.wb THEN "M" ELSE State(f)
        next == [f EXCEPT !.wb = FALSE, !.pc = "bottom"]
    IN  /\ At(t, "access", "evict")
        /\ Dir(f).sharers = {}
        /\ IF state # "I" /\ Parent[f.c] # Mem
           THEN /\ bcc' = [bcc EXCEPT ![f.c][f.slot] = state]
                /\ Call(t, [next EXCEPT !.pc = "evput"],
                        Request(f, array[f.c][f.slot], IF state = "M" THEN "PUTX" ELSE "PUTS", state))
                /\ bccLock' = [bccLock EXCEPT ![f.c] = None]
                /\ UNCHANGED <<array, unsaved>>
           ELSE /\ bcc' = [bcc EXCEPT ![f.c][f.slot] = "I"]
                /\ unsaved' = IF state = "M" THEN unsaved \ {array[f.c][f.slot]} ELSE unsaved
                /\ array' = [array EXCEPT ![f.c][f.slot] = f.a]
                /\ Become(t, next)
                /\ UNCHANGED bccLock
        /\ UNCHANGED <<tcc, tccLock, issued>>

\* The parent has returned from the PUT.
Inserted(t) ==
    LET f == Top(t)
    IN  /\ At(t, "access", "evput")
        /\ array' = [array EXCEPT ![f.c][f.slot] = f.a]
        /\ Become(t, [f EXCEPT !.pc = "bottom"])
        /\ UNCHANGED <<bcc, tcc, bccLock, tccLock, issued, unsaved>>

\* What memory answers to a GETS.
MemGETS(t) == IF t \in ICaches THEN "S" ELSE "E"

\* bcc->processAccess: fetch the line or the permission from the parent.
Bottom(t) ==
    LET f == Top(t)
        next == [f EXCEPT !.pc = IF f.c \in Leaves THEN "end" ELSE "top"]
        miss == \/ f.type = "GETS" /\ State(f) = "I"
                \/ f.type = "GETX" /\ State(f) \in {"I", "S"}
    IN  /\ At(t, "access", "bottom")
        /\ IF miss /\ Parent[f.c] # Mem
           THEN /\ Call(t, next, Request(f, f.a, f.type, State(f)))
                /\ bccLock' = [bccLock EXCEPT ![f.c] = None]
                /\ UNCHANGED bcc
           ELSE /\ bcc' = [bcc EXCEPT ![f.c][f.slot] =
                             CASE f.type = "PUTS" -> @
                               [] f.type = "PUTX" -> "M"
                               [] f.type = "GETS" -> IF miss THEN MemGETS(t) ELSE @
                               [] f.type = "GETX" -> "M"]
                /\ Become(t, next)
                /\ UNCHANGED bccLock
        /\ UNCHANGED <<array, tcc, tccLock, issued, unsaved>>

\* Mutant: a GETS does not downgrade the exclusive sharer.
MustInvalidateGETX(t, f) == f.type = "GETX" /\ f.child \notin Dir(f).sharers /\ Dir(f).sharers # {}

\* Has tcc->processAccess children to invalidate or downgrade first?
MustInvalidate(t, f) ==
    \/ f.type = "GETX" /\ f.child \notin Dir(f).sharers /\ Dir(f).sharers # {}
    \/ f.type = "GETS" /\ isExclusive(Dir(f))

\* tcc->processAccess, GETX by a child that has the line (an upgrade miss)
TopUpgrade(t) ==
    LET f == Top(t)
    IN  /\ At(t, "access", "top")
        /\ f.type = "GETX"
        /\ f.child \in Dir(f).sharers
        /\ tcc' = [tcc EXCEPT ![f.c][f.slot].sharers = @ \ {f.child},
                              ![f.c][f.slot].numSharers = @ - 1]
        /\ UNCHANGED <<array, bcc, bccLock, tccLock, stack, issued, unsaved>>

\* A GETS is answered with E if nobody else has the line and we have it exclusively.
GiveE(t, f) ==
    Dir(f).numSharers = 0 /\ State(f) \in {"E", "M"} /\ t \notin ICaches

\* The directory entry after the access.
NewEntry(t, f) ==
    LET e == Dir(f)
    IN  CASE f.type \in Puts -> [e EXCEPT !.sharers = @ \ {f.child}, !.numSharers = @ - 1]
          [] f.type = "GETS" ->
               [sharers    |-> e.sharers \cup {f.child},
                numSharers |-> IF GiveE(t, f) THEN 1 ELSE e.numSharers + 1,
                exclusive  |-> GiveE(t, f)]
          [] f.type = "GETX" ->
               [sharers |-> e.sharers \cup {f.child}, numSharers |-> e.numSharers + 1,
                exclusive |-> TRUE]

\* tcc->processAccess: update the directory and the child's state; a
\* writeback that the invalidations induced makes this cache's copy dirty.
TopAccess(t) ==
    LET f == Top(t)
        e == Dir(f)
    IN  /\ At(t, "access", "top")
        /\ ~MustInvalidate(t, f)
        /\ f.type = "GETX" => f.child \notin e.sharers
        /\ tcc' = [tcc EXCEPT ![f.c][f.slot] = NewEntry(t, f)]
        /\ bcc' = [bcc EXCEPT
             ![f.child][f.childSlot] = CASE f.type \in Puts -> "I"
                                         [] f.type = "GETS" -> IF GiveE(t, f) THEN "E" ELSE "S"
                                         [] f.type = "GETX" -> "M",
             ![f.c][f.slot] = IF f.wb THEN "M" ELSE @]
        /\ Become(t, [f EXCEPT !.pc = "end"])
        /\ UNCHANGED <<array, bccLock, tccLock, issued, unsaved>>

\* endAccess: the child's lock first, then this cache's are released.
EndAccess(t) ==
    LET f == Top(t)
    IN  /\ At(t, "access", "end")
        /\ f.child # None => bccLock[f.child] = None
        /\ bccLock' = [c \in Caches |-> CASE c = f.c -> None
                                          [] c = f.child -> t
                                          [] OTHER -> bccLock[c]]
        /\ tccLock' = [tccLock EXCEPT ![f.c] = None]
        /\ stack' = [stack EXCEPT ![t] = Popped(@)]
        /\ unsaved' = IF f.c \in Leaves /\ f.type = "GETX" THEN unsaved \cup {f.a} ELSE unsaved
        /\ UNCHANGED <<array, bcc, tcc, issued>>

-----------------------------------------------------------------------------
(* MESITopCC::sendInvalidates and Cache::invalidate *)

\* Does the frame still have children to invalidate or downgrade?
Sending(t, f) ==
    \/ f.fn = "access" /\ f.pc = "evict" /\ Dir(f).sharers # {}
    \/ f.fn = "access" /\ f.pc = "top" /\ MustInvalidate(t, f)
    \/ f.fn = "inv" /\ f.pc = "down" /\ f.type = "INV" /\ Dir(f).sharers # {}
    \/ f.fn = "inv" /\ f.pc = "down" /\ f.type = "INVX" /\ isExclusive(Dir(f))

InvTypeSent(f) == IF f.fn = "inv" THEN f.type
                  ELSE IF f.pc = "top" /\ f.type = "GETS" THEN "INVX" ELSE "INV"

SendInvalidate(t) ==
    LET f == Top(t)
    IN  /\ Busy(t)
        /\ Sending(t, f)
        /\ \E k \in Dir(f).sharers :
             Call(t, f, [fn |-> "inv", c |-> k, a |-> array[f.c][f.slot], type |-> InvTypeSent(f),
                         pc |-> "bcc", slot |-> 0, wb |-> FALSE])
        /\ UNCHANGED <<array, bcc, tcc, bccLock, tccLock, issued, unsaved>>

\* startInv takes the bcc lock only; then the lookup.
StartInvalidate(t) ==
    LET f == Top(t)
    IN  /\ At(t, "inv", "bcc")
        /\ bccLock[f.c] = None
        /\ bccLock' = [bccLock EXCEPT ![f.c] = t]
        /\ \E s \in Holding(f.c, f.a) : Become(t, [f EXCEPT !.pc = "down", !.slot = s])
        /\ UNCHANGED <<array, bcc, tcc, tccLock, issued, unsaved>>

\* *reqWriteback after processInval.
Writeback(f) == f.wb \/ State(f) = "M"

\* bcc->processInval and the return to the sender, whose entry it updates.
FinishInvalidate(t) ==
    LET f == Top(t)
        g == stack[t][Len(stack[t]) - 1]
        left == Dir(g).sharers \ {f.c}
    IN  /\ At(t, "inv", "down")
        /\ ~Sending(t, f)
        /\ bcc' = [bcc EXCEPT ![f.c][f.slot] = IF f.type = "INV" THEN "I" ELSE "S"]
        /\ bccLock' = [bccLock EXCEPT ![f.c] = None]
        /\ stack' = [stack EXCEPT ![t] =
             Replaced(Popped(@), [g EXCEPT !.wb = @ \/ Writeback(f)])]
        /\ tcc' = IF f.type = "INV"
                  THEN [tcc EXCEPT ![g.c][g.slot].sharers = left,
                                   ![g.c][g.slot].numSharers = IF left = {} THEN 0 ELSE @]
                  ELSE [tcc EXCEPT ![g.c][g.slot].exclusive = FALSE]
        /\ UNCHANGED <<array, tccLock, issued, unsaved>>

-----------------------------------------------------------------------------
Step(t) ==
    \/ LockTop(t) \/ LockBottom(t) \/ EvictBottom(t) \/ Inserted(t) \/ Bottom(t)
    \/ TopUpgrade(t) \/ TopAccess(t) \/ EndAccess(t)
    \/ SendInvalidate(t) \/ StartInvalidate(t) \/ FinishInvalidate(t)

Next == \E t \in Cores : CoreAccess(t) \/ Step(t)

Spec == Init /\ [][Next]_vars

-----------------------------------------------------------------------------
(* Properties *)

\* The state of an address in a cache.
StateOf(c, a) ==
    IF Holding(c, a) = {} THEN "I" ELSE bcc[c][CHOOSE s \in Holding(c, a) : TRUE]

Valid(c, a) == StateOf(c, a) # "I"
Exclusive(c, a) == StateOf(c, a) \in {"E", "M"}

\* No address occupies two lines of a cache, although the victim stays in the
\* array, and the bcc lock is released, while its PUT is under way.
UniqueLines ==
    \A c \in Caches : \A s1, s2 \in Slots(c) :
        array[c][s1] = array[c][s2] /\ array[c][s1] # None => s1 = s2

\* Single writer or many readers: an exclusive copy in a terminal cache is
\* the only copy among the terminal caches.
SWMR ==
    \A a \in Addrs : \A c, d \in Leaves :
        c # d /\ Exclusive(c, a) => ~Valid(d, a)

\* Inclusion and permission: what a cache has, every cache above it has, and
\* exclusively if it has it exclusively.
Inclusion ==
    \A c \in Caches, a \in Addrs :
        Parent[c] # Mem =>
            /\ Valid(c, a) => Valid(Parent[c], a)
            /\ Exclusive(c, a) => Exclusive(Parent[c], a)

\* A child whose upgrade is being processed has been taken out of the entry.
Upgrading(p, c, a) ==
    \E t \in Cores : \E n \in 1..Len(stack[t]) :
        LET f == stack[t][n]
        IN  f.fn = "access" /\ f.c = p /\ f.child = c /\ f.a = a /\ f.type = "GETX" /\ f.pc = "top"

\* The directory is exact: a child is in the entry's sharers exactly when it
\* has the line, and the counter and the exclusive flag agree with that.
DirectoryExact ==
    \A p \in Caches, a \in Addrs : \A s \in Holding(p, a) :
        LET e == tcc[p][s]
        IN  /\ \A c \in Children(p) :
                 /\ c \in e.sharers => Valid(c, a)
                 /\ Valid(c, a) => c \in e.sharers \/ Upgrading(p, c, a)
                 /\ Exclusive(c, a) => e.exclusive
            /\ e.numSharers = 0 <=> e.sharers = {}
            /\ bccLock[p] = None => e.numSharers = Cardinality(e.sharers)
            /\ isExclusive(e) => Cardinality(e.sharers) = 1

\* The hierarchy is consistent between and during transactions: parents include
\* their children, no address has two lines, and the directories are exact.
HierarchyConsistent == Inclusion /\ UniqueLines /\ DirectoryExact

\* A writeback is on its way from the child to the frame's cache.
WritebackInFlight(a) ==
    \E t \in Cores : \E n \in 1..Len(stack[t]) :
        /\ stack[t][n].wb /\ stack[t][n].pc # "end"
        /\ array[stack[t][n].c][stack[t][n].slot] = a

\* No store is lost: until memory receives the line, some cache knows that it
\* is dirty, or the controller that collected the writeback is about to.
NoLostStore ==
    \A a \in unsaved : WritebackInFlight(a) \/ \E c \in Caches : StateOf(c, a) = "M"

\* The assertions and panics of the controllers.
RaceAssertions(f) ==
    ChildState(f) # f.initialState =>
        \/ f.type \in Puts /\ ChildState(f) \in {"I", "S"}
        \/ f.type = "GETX" /\ f.initialState = "S" /\ ChildState(f) = "I"

AccessAssertions(f) ==
    CASE f.pc = "evict" -> f.type \notin Puts /\ (f.wb => State(f) \in {"E", "M"})
      [] f.pc = "evput" -> State(f) = "I"
      [] f.pc = "bottom" -> (f.type = "PUTS" => State(f) # "I")
                            /\ (f.type = "PUTX" => State(f) \in {"E", "M"})
      [] f.pc = "top" /\ f.type \in Puts ->
            f.child \in Dir(f).sharers /\ (f.type = "PUTX" => isExclusive(Dir(f)))
      [] f.pc = "top" /\ f.type = "GETS" -> f.child \notin Dir(f).sharers /\ State(f) # "I"
      [] f.pc = "top" /\ f.type = "GETX" ->
            State(f) = "M" /\ (f.child \in Dir(f).sharers => ~isExclusive(Dir(f)))
      [] f.pc = "end" /\ f.type = "GETX" /\ f.c \in Leaves -> State(f) = "M"
      [] OTHER -> TRUE

InvalidateAssertions(f) ==
    CASE f.pc = "down" /\ f.type = "INV" -> State(f) # "I"
      [] f.pc = "down" /\ f.type = "INVX" -> State(f) \in {"E", "M"}
      [] f.pc = "bcc" -> Holding(f.c, f.a) # {}
      [] OTHER -> TRUE

\* "THIS IS THE ONLY CODE THAT SHOULD DEAL WITH RACES. tcc, bcc et al should
\* be written as if they were race-free" (coherence_ctrls.h:248): after the
\* check in startAccess no interleaving reaches an assertion of theirs.
NoAssertionFails ==
    \A t \in Cores : Busy(t) =>
        LET f == Top(t)
        IN  IF f.fn = "inv" THEN InvalidateAssertions(f)
            ELSE /\ AccessAssertions(f)
                 /\ f.pc = "top" /\ f.wb => State(f) \in {"E", "M"}
                 /\ f.pc = "bcc" /\ bccLock[f.c] = None => RaceAssertions(f)

=============================================================================

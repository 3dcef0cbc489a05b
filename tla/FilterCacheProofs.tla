------------------------- MODULE FilterCacheProofs -------------------------
(***************************************************************************)
(* No store is lost on its way to memory, and a filter cache never holds a *)
(* line that the cache behind it no longer has, for every tree of caches   *)
(* and every number of cores.                                              *)
(***************************************************************************)
EXTENDS FilterCache, MESIProofs

-----------------------------------------------------------------------------
(* Stores *)

\* The cache of frame n of core t is about to learn that its line is dirty.
Pending(t, n) == stack[t][n].wb /\ stack[t][n].pc # "end"

\* The cache knows that line s of c is newer than memory, or is about to.
DirtyLine(c, s) ==
    \/ bcc[c][s] = "M"
    \/ \E t \in Cores : \E n \in Frames(t) :
         Pending(t, n) /\ stack[t][n].c = c /\ stack[t][n].slot = s

Dirty(a) == \E c \in Caches : \E s \in Slots(c) : array[c][s] = a /\ DirtyLine(c, s)

\* A cache that processes the writeback of a child's dirty line is dirty itself.
PutsDirty ==
    \A t \in Cores : At(t, "access", "top") /\ Top(t).type = "PUTX" => State(Top(t)) = "M"

\* Whoever holds dirty data knows it.
StoresKept == \A a \in unsaved : Dirty(a)

SInv == IInv /\ PutsDirty /\ StoresKept

-----------------------------------------------------------------------------
(* The filters *)

\* Line a may be read in terminal cache c, and written if it is asked for.
Granted(c, a, type) == Valid(c, a) /\ (type = "GETX" => StateOf(c, a) = "M")

FilterTypes ==
    /\ rdAddr \in [Cores -> Addrs \cup {None}]
    /\ wrAddr \in [Cores -> Addrs \cup {None}]
    /\ filterLock \in [Cores -> Cores \cup {None}]
    /\ filling \in [Cores -> AccFrame \cup {None}]
    /\ \A t \in Cores : wrAddr[t] # None => wrAddr[t] = rdAddr[t]

\* An access that is about to enter its line has filterLock, and the line is there.
FillAt(t) ==
    filling[t] # None =>
        /\ filterLock[t] = t /\ ~Busy(t)
        /\ Granted(t, filling[t].a, filling[t].type)

Fills == \A t \in Cores : FillAt(t)

\* Whoever has filterLock fills the entry, or invalidates a line that is not in it.
HolderAt(c, u) ==
    filterLock[c] = u =>
        \/ filling[c] # None /\ u = c
        \/ At(u, "inv", "down") /\ Top(u).c = c /\ rdAddr[c] # Top(u).a

Holders == \A c, u \in Cores : HolderAt(c, u)

\* What core t may find in its filter between two accesses
CoherentAt(t) ==
    Idle(t) =>
        /\ rdAddr[t] # None => Valid(t, rdAddr[t])
        /\ wrAddr[t] # None => wrAddr[t] = rdAddr[t] /\ StateOf(t, wrAddr[t]) = "M"

FInv == FilterTypes /\ Fills /\ Holders /\ FilterCoherent

\* All cores run threads of one process: an invalidation that another process's thread
\* runs does not recognise the line in the filter (the FIXME of FilterCache::invalidate).
OneProcess == \A t, u \in Cores : Process[t] = Process[u]

-----------------------------------------------------------------------------
(* Effects of the steps *)

\* A stack whose top was replaced by anything
LEMMA ReplacedAny ==
  ASSUME NEW s \in Seq(Frame), s # <<>>, NEW f
  PROVE  /\ Replaced(s, f) \in Seq(Frame \cup {f})
         /\ Len(Replaced(s, f)) = Len(s) /\ Len(s) \in Nat /\ Len(s) > 0
         /\ Replaced(s, f)[Len(s)] = f
         /\ \A m \in 1..Len(s) : m # Len(s) => Replaced(s, f)[m] = s[m]
  <1>1. Len(s) \in 1..Len(s) /\ Len(s) \in Nat /\ Len(s) > 0
    BY EmptySeq, LenProperties
  <1>2. s \in Seq(Frame \cup {f})
    BY <1>1, ElementOfSeq, LenProperties, SeqDef
  <1>3. Replaced(s, f) \in Seq(Frame \cup {f}) /\ Len(Replaced(s, f)) = Len(s)
    BY ExceptSeq, <1>1, <1>2 DEF Replaced
  <1>4. \A m \in 1..Len(s) : Replaced(s, f)[m] = IF m = Len(s) THEN f ELSE s[m]
    BY ExceptSeq, <1>1, <1>2 DEF Replaced
  <1>5. QED
    BY <1>1, <1>3, <1>4

\* The other threads' frames, and those of core t below the top, stay as they are.
Below(t) ==
    /\ \A u \in Cores : u # t => stack'[u] = stack[u]
    /\ \A m \in Frames(t) : m # Len(stack[t]) => m \in Frames(t)' /\ stack'[t][m] = stack[t][m]

\* Become replaces the top frame.
LEMMA BecomeAny ==
  ASSUME Types, NEW t \in Cores, Busy(t), NEW f, Become(t, f)
  PROVE  /\ Below(t)
         /\ Len(stack'[t]) = Len(stack[t])
         /\ Frames(t)' = Frames(t)
         /\ stack'[t][Len(stack[t])] = f
  <1>1. stack \in [Cores -> Seq(Frame)] /\ stack[t] \in Seq(Frame) /\ stack[t] # <<>>
    BY DEF Types, Frame, Busy
  <1>2. stack' = [stack EXCEPT ![t] = Replaced(stack[t], f)]
    BY DEF Become
  <1>3. stack'[t] = Replaced(stack[t], f) /\ \A u \in Cores : u # t => stack'[u] = stack[u]
    BY <1>1, <1>2
  <1>4. /\ Len(stack'[t]) = Len(stack[t]) /\ Len(stack[t]) \in Nat
        /\ stack'[t][Len(stack[t])] = f
        /\ \A m \in 1..Len(stack[t]) : m # Len(stack[t]) => stack'[t][m] = stack[t][m]
    <2>1. \A x \in Seq(Frame) : x # <<>> =>
            /\ Replaced(x, f) \in Seq(Frame \cup {f})
            /\ Len(Replaced(x, f)) = Len(x) /\ Len(x) \in Nat /\ Len(x) > 0
            /\ Replaced(x, f)[Len(x)] = f
            /\ \A m \in 1..Len(x) : m # Len(x) => Replaced(x, f)[m] = x[m]
      BY ReplacedAny
    <2>2. QED
      BY <2>1, <1>1, <1>3
  <1>5. QED
    BY <1>3, <1>4 DEF Below, Frames

\* Call replaces the top frame and adds one.
LEMMA CallAny ==
  ASSUME Types, NEW t \in Cores, Busy(t), NEW f, NEW g, Call(t, f, g)
  PROVE  /\ Below(t)
         /\ Len(stack'[t]) = Len(stack[t]) + 1
         /\ Len(stack[t]) \in Frames(t)'
         /\ stack'[t][Len(stack[t])] = f
         /\ stack'[t][Len(stack[t]) + 1] = g
  <1>1. stack \in [Cores -> Seq(Frame)] /\ stack[t] \in Seq(Frame) /\ stack[t] # <<>>
    BY DEF Types, Frame, Busy
  <1>2. PICK s : s = Replaced(stack[t], f)
    OBVIOUS
  <1>3. stack' = [stack EXCEPT ![t] = Append(s, g)]
    BY <1>2 DEF Call
  <1>4. stack'[t] = Append(s, g) /\ \A u \in Cores : u # t => stack'[u] = stack[u]
    BY <1>1, <1>3
  <1>5. /\ s \in Seq(Frame \cup {f})
        /\ Len(s) = Len(stack[t]) /\ Len(stack[t]) \in Nat /\ Len(stack[t]) > 0
        /\ s[Len(stack[t])] = f
        /\ \A m \in 1..Len(stack[t]) : m # Len(stack[t]) => s[m] = stack[t][m]
    <2>1. \A x \in Seq(Frame) : x # <<>> =>
            /\ Replaced(x, f) \in Seq(Frame \cup {f})
            /\ Len(Replaced(x, f)) = Len(x) /\ Len(x) \in Nat /\ Len(x) > 0
            /\ Replaced(x, f)[Len(x)] = f
            /\ \A m \in 1..Len(x) : m # Len(x) => Replaced(x, f)[m] = x[m]
      BY ReplacedAny
    <2>2. QED
      BY <2>1, <1>1, <1>2
  <1>6. s \in Seq(Frame \cup {f, g})
    BY <1>5, ElementOfSeq, LenProperties, SeqDef
  <1>7. /\ Len(stack'[t]) = Len(s) + 1 /\ stack'[t][Len(s) + 1] = g
        /\ \A m \in 1..Len(s) : stack'[t][m] = s[m]
    BY <1>4, <1>6, AppendProperties, LenProperties
  <1>8. QED
    BY <1>4, <1>5, <1>7 DEF Below, Frames

\* The top frame returns, and its caller becomes g.
Answers(t, g) == stack' = [stack EXCEPT ![t] = Replaced(Popped(@), g)]

\* The frames of core t after a return from frame n to a caller that became g
AnsweredTo(t, n, g) ==
    /\ \A u \in Cores : u # t => stack'[u] = stack[u]
    /\ Len(stack'[t]) = n - 1
    /\ \A m \in Frames(t) : m # n => m \in Frames(t)'
    /\ \A m \in Frames(t) : m # n /\ m # n-1 => stack'[t][m] = stack[t][m]
    /\ n-1 \in Frames(t)' /\ stack'[t][n-1] = g

\* A return with an answer leaves the frames below the caller.
LEMMA ReturnAny ==
  ASSUME Types, NEW t \in Cores, Busy(t), NEW n, n = Len(stack[t]), n > 1, NEW g, Answers(t, g)
  PROVE  AnsweredTo(t, n, g)
  <1>1. stack \in [Cores -> Seq(Frame)] /\ stack[t] \in Seq(Frame) /\ stack[t] # <<>>
    BY DEF Types, Frame, Busy
  <1>2. PICK s : s = Popped(stack[t])
    OBVIOUS
  <1>3. /\ s \in Seq(Frame) /\ n \in Nat /\ Len(s) = n - 1
        /\ \A m \in 1..n-1 : s[m] = stack[t][m]
    BY <1>1, <1>2, PoppedFacts
  <1>4. s # <<>>
    BY <1>3, EmptySeq
  <1>5. stack'[t] = Replaced(s, g) /\ \A u \in Cores : u # t => stack'[u] = stack[u]
    BY <1>1, <1>2 DEF Answers
  <1>6. /\ Len(stack'[t]) = n - 1 /\ stack'[t][n-1] = g
        /\ \A m \in 1..n-1 : m # n-1 => stack'[t][m] = s[m]
    <2>1. \A x \in Seq(Frame) : x # <<>> =>
            /\ Replaced(x, g) \in Seq(Frame \cup {g})
            /\ Len(Replaced(x, g)) = Len(x) /\ Len(x) \in Nat /\ Len(x) > 0
            /\ Replaced(x, g)[Len(x)] = g
            /\ \A m \in 1..Len(x) : m # Len(x) => Replaced(x, g)[m] = x[m]
      BY ReplacedAny
    <2>2. QED
      BY <2>1, <1>3, <1>4, <1>5
  <1>7. QED
    BY <1>3, <1>5, <1>6 DEF Frames, AnsweredTo

\* A step of core t replaces its top frame, calls, returns, or leaves the stack alone.
LEMMA StepShapes ==
  ASSUME NEW t \in Cores, Step(t)
  PROVE  /\ Busy(t)
         /\ \/ \E f : Become(t, f)
            \/ \E f, g : Call(t, f, g)
            \/ stack' = stack
            \/ EndAccess(t) /\ stack' = [stack EXCEPT ![t] = Popped(@)]
            \/ FinishInvalidate(t)
  <1>1. CASE LockTop(t)
    BY <1>1 DEF LockTop, At
  <1>2. CASE LockBottom(t)
    <2>1. Busy(t)
      BY <1>2 DEF LockBottom, At
    <2>2. PICK f : f = Top(t)
      OBVIOUS
    <2>3. \/ Become(t, [f EXCEPT !.pc = "end"])
          \/ \E s \in Holding(f.c, f.a) :
               Become(t, [f EXCEPT !.pc = "bottom", !.slot = s, !.type = RacedType(f)])
          \/ \E s \in Slots(f.c) :
               Become(t, [f EXCEPT !.pc = "evict", !.slot = s, !.type = RacedType(f)])
      BY <1>2, <2>2 DEF LockBottom
    <2>4. QED
      BY <2>1, <2>3
  <1>3. CASE EvictBottom(t)
    BY <1>3 DEF EvictBottom, At
  <1>4. CASE Inserted(t)
    BY <1>4 DEF Inserted, At
  <1>5. CASE Bottom(t)
    BY <1>5 DEF Bottom, At
  <1>6. CASE TopUpgrade(t)
    BY <1>6 DEF TopUpgrade, At
  <1>7. CASE TopAccess(t)
    BY <1>7 DEF TopAccess, At
  <1>8. CASE EndAccess(t)
    BY <1>8 DEF EndAccess, At
  <1>9. CASE SendInvalidate(t)
    BY <1>9 DEF SendInvalidate
  <1>10. CASE StartInvalidate(t)
    BY <1>10, Zenon DEF StartInvalidate, At
  <1>11. CASE FinishInvalidate(t)
    BY <1>11 DEF FinishInvalidate, At
  <1>12. QED
    BY <1>1, <1>2, <1>3, <1>4, <1>5, <1>6, <1>7, <1>8, <1>9, <1>10, <1>11 DEF Step

\* Frame m of core u stays in its cache and at its line, and forgets no writeback.
Stays(u, m) ==
    /\ m \in Frames(u)'
    /\ stack'[u][m].fn = stack[u][m].fn /\ stack'[u][m].c = stack[u][m].c
    /\ stack'[u][m].slot = stack[u][m].slot /\ stack'[u][m].pc = stack[u][m].pc
    /\ stack[u][m].wb => stack'[u][m].wb

\* The caller of an invalidation, which hears of a writeback
LEMMA Answered ==
  ASSUME Types, Linked, NEW t \in Cores, FinishInvalidate(t), NEW n, n = Len(stack[t])
  PROVE  /\ Busy(t) /\ n \in Frames(t) /\ n \in Nat /\ n > 1 /\ n-1 \in Frames(t)
         /\ Top(t) = stack[t][n] /\ Top(t).fn = "inv"
         /\ InvCall(t, stack[t][n-1], Top(t)) /\ Owns(t, n-1) /\ stack[t][n-1] \in Frame
         /\ Len(stack'[t]) = n - 1
         /\ \A u \in Cores : u # t => stack'[u] = stack[u]
         /\ \A m \in Frames(t) : m # n => m \in Frames(t)'
         /\ \A m \in Frames(t) : m # n /\ m # n-1 => stack'[t][m] = stack[t][m]
         /\ stack'[t][n-1] = [stack[t][n-1] EXCEPT !.wb = @ \/ Writeback(Top(t))]
  <1>1. /\ Busy(t) /\ Top(t).fn = "inv"
        /\ stack' = [stack EXCEPT ![t] =
             Replaced(Popped(@), [stack[t][n-1] EXCEPT !.wb = @ \/ Writeback(Top(t))])]
    BY DEF FinishInvalidate, At
  <1>2. n \in Frames(t) /\ n \in Nat /\ n > 0 /\ Top(t) = stack[t][n]
    BY <1>1, TopFacts, InStack
  <1>3. n # 1
    <2>1. LinkedAt(t, n)
      BY <1>2 DEF Linked
    <2>2. QED
      BY <1>1, <1>2, <2>1 DEF LinkedAt, FirstFrame
  <1>4. n > 1
    BY <1>2, <1>3, NatOne
  <1>5. /\ n-1 \in Frames(t) /\ stack[t][n-1] \in Frame
        /\ InvCall(t, stack[t][n-1], Top(t)) /\ Owns(t, n-1)
    BY <1>1, <1>2, <1>4, CallerFacts
  <1>6. PICK g : g = [stack[t][n-1] EXCEPT !.wb = @ \/ Writeback(Top(t))]
    OBVIOUS
  <1>7. stack' = [stack EXCEPT ![t] = Replaced(Popped(@), g)]
    BY <1>1, <1>6
  <1>8. /\ \A u \in Cores : u # t => stack'[u] = stack[u]
        /\ Len(stack'[t]) = n - 1
        /\ \A m \in Frames(t) : m # n => m \in Frames(t)'
        /\ \A m \in Frames(t) : m # n /\ m # n-1 => stack'[t][m] = stack[t][m]
        /\ stack'[t][n-1] = g
    <2>1. Answers(t, g)
      BY <1>7 DEF Answers
    <2>2. AnsweredTo(t, n, g)
      BY <1>1, <1>4, <2>1, ReturnAny
    <2>3. QED
      BY <2>2 DEF AnsweredTo
  <1>9. QED
    BY <1>1, <1>2, <1>4, <1>5, <1>6, <1>8, SMTT(30)

\* The frames but for the top one stay.
LEMMA OthersStay ==
  ASSUME Types, Linked, NEW t \in Cores, Step(t),
         NEW u \in Cores, NEW m \in Frames(u), u # t \/ m # Len(stack[t])
  PROVE  Stays(u, m)
  <1>1. Busy(t)
    BY StepShapes
  <1>2. ASSUME Below(t)
        PROVE  m \in Frames(u)' /\ stack'[u][m] = stack[u][m]
    BY <1>2 DEF Below, Frames
  <1>3. ASSUME m \in Frames(u)', stack'[u][m] = stack[u][m]
        PROVE  Stays(u, m)
    BY <1>3 DEF Stays
  <1>4. CASE \E f : Become(t, f)
    <2>1. PICK f : Become(t, f)
      BY <1>4
    <2>2. Below(t)
      BY <1>1, <2>1, BecomeAny
    <2>3. QED
      BY <1>2, <1>3, <2>2
  <1>5. CASE \E f, g : Call(t, f, g)
    <2>1. PICK f, g : Call(t, f, g)
      BY <1>5
    <2>2. Below(t)
      BY <1>1, <2>1, CallAny
    <2>3. QED
      BY <1>2, <1>3, <2>2
  <1>6. CASE stack' = stack
    BY <1>3, <1>6 DEF Frames
  <1>7. CASE stack' = [stack EXCEPT ![t] = Popped(@)]
    <2>1. /\ \A v \in Cores : v # t => stack'[v] = stack[v]
          /\ Len(stack'[t]) = Len(stack[t]) - 1
          /\ \A k \in 1..Len(stack[t])-1 : stack'[t][k] = stack[t][k]
      BY <1>1, <1>7, PopEffect
    <2>2. Len(stack[t]) \in Nat
      BY <1>1, TopFacts
    <2>3. m \in Frames(u)' /\ stack'[u][m] = stack[u][m]
      <3>1. CASE u # t
        BY <2>1, <3>1 DEF Frames
      <3>2. CASE u = t
        <4>1. m \in 1..Len(stack[t])-1
          BY <2>2, <3>2 DEF Frames
        <4>2. QED
          BY <2>1, <3>2, <4>1 DEF Frames
      <3>3. QED
        BY <3>1, <3>2
    <2>4. QED
      BY <1>3, <2>3
  <1>8. CASE FinishInvalidate(t)
    <2>1. PICK n, g : n = Len(stack[t]) /\ g = stack[t][n-1]
      OBVIOUS
    <2>2. /\ n \in Nat /\ n-1 \in Frames(t) /\ g \in Frame
          /\ \A v \in Cores : v # t => stack'[v] = stack[v]
          /\ \A k \in Frames(t) : k # n => k \in Frames(t)'
          /\ \A k \in Frames(t) : k # n /\ k # n-1 => stack'[t][k] = stack[t][k]
          /\ stack'[t][n-1] = [g EXCEPT !.wb = @ \/ Writeback(Top(t))]
      BY <1>8, <2>1, Answered
    <2>3. CASE u = t /\ m = n-1
      <3>1. PICK g1 : g1 = [g EXCEPT !.wb = @ \/ Writeback(Top(t))]
        OBVIOUS
      <3>2. /\ g1.fn = g.fn /\ g1.c = g.c /\ g1.slot = g.slot /\ g1.pc = g.pc
            /\ g.wb => g1.wb
        BY <2>2, <3>1 DEF Frame, AccFrame, InvFrame
      <3>3. m \in Frames(u)' /\ stack[u][m] = g /\ stack'[u][m] = g1
        BY <2>1, <2>2, <2>3, <3>1
      <3>4. QED
        BY <3>2, <3>3 DEF Stays
    <2>4. CASE ~(u = t /\ m = n-1)
      <3>1. m \in Frames(u)' /\ stack'[u][m] = stack[u][m]
        BY <2>1, <2>2, <2>4 DEF Frames
      <3>2. QED
        BY <1>3, <3>1
    <2>5. QED
      BY <2>3, <2>4
  <1>9. QED
    BY <1>4, <1>5, <1>6, <1>7, <1>8, StepShapes

-----------------------------------------------------------------------------
(* Who writes a line *)

\* No other thread has the bcc lock of a cache whose lines a step may write.
LEMMA ChildUnowned ==
  ASSUME IInv, NEW t \in Cores, At(t, "access", "top"), NEW u \in Cores, NEW m \in Frames(u),
         Owns(u, m)
  PROVE  /\ Len(stack[t]) > 1
         /\ stack[u][m].c # Top(t).child
  <1>1. PICK n, f : n = Len(stack[t]) /\ f = Top(t)
    OBVIOUS
  <1>2. /\ Consistent /\ Directory /\ Types /\ Linked
    BY InvParts DEF Consistent
  <1>3. Busy(t) /\ f.fn = "access" /\ f.pc = "top" /\ Working(t)
    BY <1>1 DEF At, Working
  <1>4. n \in Frames(t) /\ f = stack[t][n] /\ n \in Nat /\ n > 0
    BY <1>1, <1>2, <1>3, TopFacts, InStack
  <1>5. f.c \notin Leaves
    BY <1>2, <1>3, <1>4 DEF Consistent, Content, ContentAt, FrameLine
  <1>6. n > 1
    BY <1>2, <1>3, <1>4, <1>5, AccessFacts, NatOne
  <1>7. Alone(t, n, f.child)
    BY <1>1, <1>2, <1>3, <1>6, ChildAlone
  <1>8. QED
    BY <1>1, <1>6, <1>7 DEF Alone

\* A step writes the lines of the top frame's cache, whose bcc lock the thread has, or the
\* state of the child's line that the top frame's access is about.
LEMMA Writes ==
  ASSUME IInv, NEW t \in Cores, Step(t), NEW c \in Caches
  PROVE  \/ array'[c] = array[c] /\ bcc'[c] = bcc[c]
         \/ Top(t).c = c /\ Owns(t, Len(stack[t]))
         \/ At(t, "access", "top") /\ Top(t).child = c
  <1>1. PICK f : f = Top(t)
    OBVIOUS
  <1>2. Types /\ Busy(t)
    BY StepShapes DEF IInv
  <1>3. /\ Len(stack[t]) \in Frames(t) /\ f = stack[t][Len(stack[t])] /\ f \in Frame
        /\ ~Waiting(t, Len(stack[t]))
    BY <1>1, <1>2, TopFacts
  <1>4. f.pc \notin {"tcc", "bcc"} => Owns(t, Len(stack[t]))
    BY <1>3 DEF Owns
  <1>5. array = [d \in Caches |-> array[d]] /\ bcc = [d \in Caches |-> bcc[d]]
    BY <1>2 DEF Types
  <1>6. ASSUME ~TopAccess(t), f.c # c
        PROVE  array'[c] = array[c] /\ bcc'[c] = bcc[c]
    <2>1. CASE EvictBottom(t)
      <3>1. (\E v : bcc' = [bcc EXCEPT ![f.c][f.slot] = v])
            /\ (array' = array \/ array' = [array EXCEPT ![f.c][f.slot] = f.a])
        BY <1>1, <2>1 DEF EvictBottom
      <3>2. QED
        BY <1>5, <1>6, <3>1
    <2>2. CASE Inserted(t)
      <3>1. bcc' = bcc /\ array' = [array EXCEPT ![f.c][f.slot] = f.a]
        BY <1>1, <2>2 DEF Inserted
      <3>2. QED
        BY <1>5, <1>6, <3>1
    <2>3. CASE Bottom(t)
      <3>1. array' = array /\ (bcc' = bcc \/ \E v : bcc' = [bcc EXCEPT ![f.c][f.slot] = v])
        BY <1>1, <2>3 DEF Bottom
      <3>2. QED
        BY <1>5, <1>6, <3>1
    <2>4. CASE FinishInvalidate(t)
      <3>1. array' = array /\ \E v : bcc' = [bcc EXCEPT ![f.c][f.slot] = v]
        BY <1>1, <2>4, ZenonT(60) DEF FinishInvalidate
      <3>2. QED
        BY <1>5, <1>6, <3>1, SMTT(30)
    <2>5. CASE ~EvictBottom(t) /\ ~Inserted(t) /\ ~Bottom(t) /\ ~FinishInvalidate(t)
      BY <1>6, <2>5 DEF Step, LockTop, LockBottom, TopUpgrade, EndAccess, SendInvalidate,
         StartInvalidate
    <2>6. QED
      BY <2>1, <2>2, <2>3, <2>4, <2>5
  <1>7. ASSUME TopAccess(t), f.c # c, f.child # c
        PROVE  array'[c] = array[c] /\ bcc'[c] = bcc[c]
    <2>1. array' = array
          /\ \E v, w : bcc' = [bcc EXCEPT ![f.child][f.childSlot] = v, ![f.c][f.slot] = w]
      BY <1>1, <1>7 DEF TopAccess
    <2>2. QED
      BY <1>5, <1>7, <2>1
  <1>8. ASSUME f.pc \in {"tcc", "bcc"}
        PROVE  array' = array /\ bcc' = bcc
    BY <1>1, <1>8 DEF Step, LockTop, LockBottom, TopUpgrade, EndAccess, SendInvalidate,
       StartInvalidate, EvictBottom, Inserted, Bottom, TopAccess, FinishInvalidate, At
  <1>9. TopAccess(t) => At(t, "access", "top")
    BY DEF TopAccess
  <1>10. QED
    BY <1>1, <1>4, <1>6, <1>7, <1>8, <1>9

\* What a thread has locked, the steps of others leave alone.
LEMMA Undisturbed ==
  ASSUME IInv, NEW t \in Cores, Step(t), NEW u \in Cores, NEW m \in Frames(u), Owns(u, m),
         u # t \/ m # Len(stack[t])
  PROVE  /\ array'[stack[u][m].c] = array[stack[u][m].c]
         /\ bcc'[stack[u][m].c] = bcc[stack[u][m].c]
  <1>1. PICK c, n : c = stack[u][m].c /\ n = Len(stack[t])
    OBVIOUS
  <1>2. Types /\ Locks /\ Order /\ Busy(t)
    BY StepShapes DEF IInv
  <1>3. n \in Frames(t) /\ Top(t) = stack[t][n]
    BY <1>1, <1>2, TopFacts
  <1>4. c \in Caches
    BY <1>1, <1>2, InStack, FrameTypes
  <1>5. ~(Top(t).c = c /\ Owns(t, n))
    BY <1>1, <1>2, <1>3, OneOwner
  <1>6. ~(At(t, "access", "top") /\ Top(t).child = c)
    BY <1>1, ChildUnowned
  <1>7. QED
    BY <1>1, <1>4, <1>5, <1>6, Writes

\* Line s of c gets state v.
Becomes(c, s, v) == bcc' = [bcc EXCEPT ![c][s] = v]

\* Setting the state of one line
LEMMA StateIs ==
  ASSUME Types, NEW c \in Caches, NEW s \in Slots(c), NEW v, Becomes(c, s, v)
  PROVE  /\ bcc'[c][s] = v
         /\ \A r \in Slots(c) : r # s => bcc'[c][r] = bcc[c][r]
         /\ \A d \in Caches : d # c => bcc'[d] = bcc[d]
  <1>1. PICK F, G : F = bcc /\ G = bcc'
    OBVIOUS
  <1>2. F = [d \in Caches |-> F[d]] /\ F[c] \in [Slots(c) -> MESIState]
    BY <1>1 DEF Types, TypeOK
  <1>3. G = [F EXCEPT ![c][s] = v]
    BY <1>1 DEF Becomes
  <1>4. G[c] = [F[c] EXCEPT ![s] = v] /\ \A d \in Caches : d # c => G[d] = F[d]
    BY <1>2, <1>3
  <1>5. QED
    BY <1>1, <1>2, <1>4

\* The top frame after a return is the caller's.
LEMMA AfterEnd ==
  ASSUME Types, NEW t \in Cores, EndAccess(t), Busy(t)'
  PROVE  /\ Len(stack[t]) > 1 /\ Len(stack[t])-1 \in Frames(t)
         /\ Len(stack'[t]) = Len(stack[t]) - 1
         /\ Top(t)' = stack[t][Len(stack[t])-1]
  <1>1. Busy(t) /\ stack' = [stack EXCEPT ![t] = Popped(@)]
    BY DEF EndAccess, At
  <1>2. /\ Len(stack'[t]) = Len(stack[t]) - 1
        /\ \A m \in 1..Len(stack[t])-1 : stack'[t][m] = stack[t][m]
        /\ stack' \in [Cores -> Seq(Frame)]
    BY <1>1, PopEffect
  <1>3. Len(stack[t]) \in Nat /\ Len(stack[t]) \in Frames(t)
    BY <1>1, TopFacts
  <1>4. Len(stack'[t]) # 0
    <2>1. stack'[t] \in Seq(Frame) /\ stack'[t] # <<>>
      BY <1>2 DEF Busy
    <2>2. QED
      BY <2>1, EmptySeq
  <1>5. Len(stack[t]) > 1 /\ Len(stack[t])-1 \in 1..Len(stack[t])-1
    <2>1. PICK n : n = Len(stack[t])
      OBVIOUS
    <2>2. n \in Nat /\ n > 0 /\ n - 1 # 0
      BY <1>2, <1>3, <1>4, <2>1 DEF Frames
    <2>3. n > 1 /\ n-1 \in 1..n-1
      BY <2>2
    <2>4. QED
      BY <2>1, <2>3
  <1>6. Top(t)' = stack[t][Len(stack[t])-1]
    BY <1>2, <1>5 DEF Top
  <1>7. QED
    BY <1>2, <1>3, <1>5, <1>6 DEF Frames

\* A cache below a dirty child's writeback stays dirty until it has processed it.
LEMMA PutsDirtyStep ==
  ASSUME IInv, PutsDirty, NEW t \in Cores, CoreAccess(t) \/ Step(t)
  PROVE  PutsDirty'
  <1>1. Types /\ Linked
    BY DEF IInv
  <1>2. SUFFICES ASSUME NEW u \in Cores, At(u, "access", "top")', Top(u)'.type = "PUTX"
                 PROVE  State(Top(u))' = "M"
    BY DEF PutsDirty
  <1>3. Busy(u)' /\ Top(u)'.fn = "access" /\ Top(u)'.pc = "top"
    BY <1>2 DEF At
  <1>4. PICK f, n : f = Top(t) /\ n = Len(stack[t])
    OBVIOUS
  <1>5. CASE u # t /\ stack'[u] = stack[u] /\ Step(t)
    <2>1. Busy(u) /\ Top(u)' = Top(u)
      BY <1>3, <1>5 DEF Busy, Top
    <2>2. /\ Len(stack[u]) \in Frames(u) /\ Top(u) = stack[u][Len(stack[u])] /\ Top(u) \in Frame
          /\ ~Waiting(u, Len(stack[u]))
      BY <1>1, <2>1, TopFacts
    <2>3. Owns(u, Len(stack[u]))
      BY <1>3, <2>1, <2>2 DEF Owns
    <2>4. bcc'[Top(u).c] = bcc[Top(u).c]
      BY <1>5, <2>2, <2>3, Undisturbed
    <2>5. State(Top(u)) = "M"
      BY <1>2, <1>3, <2>1 DEF PutsDirty, At
    <2>6. QED
      BY <2>1, <2>4, <2>5 DEF State
  <1>6. CASE CoreAccess(t)
    <2>1. /\ bcc' = bcc
          /\ \E a, type : stack' = [stack EXCEPT ![t] = <<[fn |-> "access", c |-> t,
                child |-> None, childSlot |-> 0, a |-> a, type |-> type, initialState |-> "I",
                pc |-> "bcc", slot |-> 0, wb |-> FALSE]>>]
      BY <1>6 DEF CoreAccess
    <2>2. PICK g : g.pc = "bcc" /\ stack' = [stack EXCEPT ![t] = <<g>>]
      BY <2>1
    <2>3. stack'[t] = <<g>> /\ \A v \in Cores : v # t => stack'[v] = stack[v]
      BY <1>1, <2>2 DEF Types
    <2>4. u # t
      BY <1>3, <2>2, <2>3 DEF Top
    <2>5. Busy(u) /\ Top(u)' = Top(u)
      BY <1>3, <2>3, <2>4 DEF Busy, Top
    <2>6. State(Top(u)) = "M"
      BY <1>2, <1>3, <2>5 DEF PutsDirty, At
    <2>7. QED
      BY <2>1, <2>5, <2>6 DEF State
  <1>7. CASE \E g : Become(t, g) /\ g.pc # "top" /\ Step(t)
    <2>1. PICK g : Become(t, g) /\ g.pc # "top"
      BY <1>7
    <2>2. Busy(t)
      BY <1>7, StepShapes
    <2>3. Below(t) /\ Len(stack'[t]) = Len(stack[t]) /\ stack'[t][Len(stack[t])] = g
      BY <1>1, <2>1, <2>2, BecomeAny
    <2>4. u # t /\ stack'[u] = stack[u]
      BY <1>3, <2>1, <2>3 DEF Top, Below
    <2>5. QED
      BY <1>5, <1>7, <2>4
  <1>8. CASE \E e, g : Call(t, e, g) /\ g.pc # "top" /\ Step(t)
    <2>1. PICK e, g : Call(t, e, g) /\ g.pc # "top"
      BY <1>8
    <2>2. Busy(t)
      BY <1>8, StepShapes
    <2>3. Below(t) /\ Len(stack'[t]) = Len(stack[t]) + 1 /\ stack'[t][Len(stack[t]) + 1] = g
      BY <1>1, <2>1, <2>2, CallAny
    <2>4. u # t /\ stack'[u] = stack[u]
      BY <1>3, <2>1, <2>3 DEF Top, Below
    <2>5. QED
      BY <1>5, <1>8, <2>4
  <1>9. CASE Step(t) /\ (LockTop(t) \/ LockBottom(t) \/ Inserted(t) \/ TopAccess(t)
                         \/ StartInvalidate(t))
    <2>1. f \in Frame
      BY <1>1, <1>4, <1>9, StepShapes, TopFacts
    <2>2. ASSUME NEW pc, NEW slot, NEW type
          PROVE  /\ [f EXCEPT !.pc = pc].pc = pc /\ [f EXCEPT !.pc = pc, !.slot = slot].pc = pc
                 /\ [f EXCEPT !.pc = pc, !.slot = slot, !.type = type].pc = pc
      BY <2>1 DEF Frame, AccFrame, InvFrame
    <2>3. CASE LockTop(t)
      <3>1. Become(t, [f EXCEPT !.pc = "bcc"])
        BY <1>4, <2>3 DEF LockTop
      <3>2. QED
        BY <1>7, <1>9, <2>2, <3>1
    <2>4. CASE LockBottom(t)
      <3>1. \/ Become(t, [f EXCEPT !.pc = "end"])
            \/ \E s : Become(t, [f EXCEPT !.pc = "bottom", !.slot = s, !.type = RacedType(f)])
            \/ \E s : Become(t, [f EXCEPT !.pc = "evict", !.slot = s, !.type = RacedType(f)])
        BY <1>4, <2>4 DEF LockBottom
      <3>2. PICK s, g : /\ Become(t, g)
                        /\ \/ g = [f EXCEPT !.pc = "end"]
                           \/ g = [f EXCEPT !.pc = "bottom", !.slot = s, !.type = RacedType(f)]
                           \/ g = [f EXCEPT !.pc = "evict", !.slot = s, !.type = RacedType(f)]
        BY <3>1
      <3>3. g.pc \in {"end", "bottom", "evict"}
        <4>1. CASE g = [f EXCEPT !.pc = "end"]
          BY <2>2, <4>1
        <4>2. CASE g = [f EXCEPT !.pc = "bottom", !.slot = s, !.type = RacedType(f)]
          BY <2>1, <4>2 DEF Frame, AccFrame, InvFrame
        <4>3. CASE g = [f EXCEPT !.pc = "evict", !.slot = s, !.type = RacedType(f)]
          BY <2>1, <4>3 DEF Frame, AccFrame, InvFrame
        <4>4. QED
          BY <3>2, <4>1, <4>2, <4>3
      <3>4. QED
        BY <1>7, <1>9, <3>2, <3>3
    <2>5. CASE Inserted(t)
      <3>1. Become(t, [f EXCEPT !.pc = "bottom"])
        BY <1>4, <2>5 DEF Inserted
      <3>2. QED
        BY <1>7, <1>9, <2>2, <3>1
    <2>6. CASE TopAccess(t)
      <3>1. Become(t, [f EXCEPT !.pc = "end"])
        BY <1>4, <2>6 DEF TopAccess
      <3>2. QED
        BY <1>7, <1>9, <2>2, <3>1
    <2>7. CASE StartInvalidate(t)
      <3>1. \E s : Become(t, [f EXCEPT !.pc = "down", !.slot = s])
        BY <1>4, <2>7 DEF StartInvalidate
      <3>2. PICK s, g : Become(t, g) /\ g = [f EXCEPT !.pc = "down", !.slot = s]
        BY <3>1
      <3>3. g.pc # "top"
        BY <2>2, <3>2
      <3>4. QED
        BY <1>7, <1>9, <3>2, <3>3
    <2>8. QED
      BY <1>9, <2>3, <2>4, <2>5, <2>6, <2>7
  <1>10. CASE SendInvalidate(t)
    <2>1. \E e, g : Call(t, e, g) /\ g.pc # "top"
      BY <1>10 DEF SendInvalidate
    <2>2. QED
      BY <1>8, <1>10, <2>1 DEF Step
  <1>11. CASE EvictBottom(t)
    <2>1. f \in AccFrame
      BY <1>1, <1>4, <1>11, TopFacts, FrameTypes DEF EvictBottom, At
    <2>2. (\E e, g : Call(t, e, g) /\ g.pc # "top") \/ \E g : Become(t, g) /\ g.pc # "top"
      <3>1. PICK g : g = [f EXCEPT !.wb = FALSE, !.pc = "bottom"]
        OBVIOUS
      <3>2. g.pc = "bottom"
        BY <2>1, <3>1 DEF AccFrame
      <3>3. \/ \E a, type, state, e : Call(t, e, Request(f, a, type, state))
            \/ Become(t, g)
        BY <1>4, <1>11, <3>1, Zenon DEF EvictBottom
      <3>4. \A a, type, state : Request(f, a, type, state).pc = "tcc"
        BY DEF Request
      <3>5. QED
        BY <3>2, <3>3, <3>4
    <2>3. QED
      BY <1>7, <1>8, <1>11, <2>2 DEF Step
  <1>12. CASE Bottom(t)
    <2>1. Busy(t) /\ f.fn = "access" /\ f.pc = "bottom"
      BY <1>4, <1>12 DEF Bottom, At
    <2>2. /\ n \in Frames(t) /\ f = stack[t][n] /\ f \in AccFrame /\ f.c \in Caches
      BY <1>1, <1>4, <2>1, TopFacts, FrameTypes
    <2>3. f.slot \in Slots(f.c)
      BY <2>1, <2>2 DEF IInv, Content, ContentAt, FrameLine
    <2>4. PICK g : g = [f EXCEPT !.pc = IF f.c \in Leaves THEN "end" ELSE "top"]
      OBVIOUS
    <2>5. g.type = f.type /\ g.c = f.c /\ g.slot = f.slot
      BY <2>2, <2>4 DEF AccFrame
    <2>6. CASE \E e, h : Call(t, e, h) /\ h.pc # "top"
      BY <1>8, <1>12, <2>6 DEF Step
    <2>7. CASE /\ Become(t, g)
               /\ f.type = "PUTX" => bcc' = [bcc EXCEPT ![f.c][f.slot] = "M"]
      <3>1. Below(t) /\ Len(stack'[t]) = Len(stack[t]) /\ stack'[t][Len(stack[t])] = g
        BY <1>1, <2>1, <2>7, BecomeAny
      <3>2. CASE u # t
        BY <1>5, <1>12, <3>1, <3>2 DEF Below, Step
      <3>3. CASE u = t
        <4>1. Top(u)' = g
          BY <3>1, <3>3 DEF Top
        <4>2. bcc' = [bcc EXCEPT ![f.c][f.slot] = "M"]
          BY <1>2, <2>5, <2>7, <4>1
        <4>3. bcc'[f.c][f.slot] = "M"
          <5>1. Becomes(f.c, f.slot, "M")
            BY <4>2 DEF Becomes
          <5>2. QED
            BY <1>1, <2>2, <2>3, <5>1, StateIs
        <4>4. QED
          BY <2>5, <4>1, <4>3 DEF State
      <3>4. QED
        BY <3>2, <3>3
    <2>8. QED
      BY <1>4, <1>12, <2>4, <2>6, <2>7 DEF Bottom, Request
  <1>13. CASE TopUpgrade(t)
    <2>1. stack' = stack /\ f.type = "GETX"
      BY <1>4, <1>13 DEF TopUpgrade
    <2>2. u # t
      BY <1>2, <1>4, <2>1 DEF Top
    <2>3. QED
      BY <1>5, <1>13, <2>1, <2>2 DEF Step
  <1>14. CASE EndAccess(t)
    <2>1. Busy(t) /\ f.fn = "access" /\ f.pc = "end" /\ stack' = [stack EXCEPT ![t] = Popped(@)]
      BY <1>4, <1>14 DEF EndAccess, At
    <2>2. n \in Frames(t) /\ f = stack[t][n]
      BY <1>1, <1>4, <2>1, TopFacts
    <2>3. CASE u # t
      <3>1. stack'[u] = stack[u]
        BY <1>1, <2>1, <2>3, PopEffect
      <3>2. QED
        BY <1>5, <1>14, <2>3, <3>1 DEF Step
    <2>4. CASE u = t
      <3>1. n > 1 /\ Top(t)' = stack[t][n-1]
        BY <1>1, <1>3, <1>4, <1>14, <2>4, AfterEnd
      <3>2. AccessCall(stack[t][n-1], f)
        BY <1>1, <2>1, <2>2, <3>1, CallerFacts
      <3>3. QED
        BY <1>2, <1>3, <2>4, <3>1, <3>2 DEF AccessCall, Puts
    <2>5. QED
      BY <2>3, <2>4
  <1>15. CASE FinishInvalidate(t)
    <2>1. PICK g, w : g = stack[t][n-1] /\ w = (g.wb \/ Writeback(f))
      OBVIOUS
    <2>2. /\ InvCall(t, g, f) /\ g \in Frame
          /\ Len(stack'[t]) = n - 1
          /\ \A v \in Cores : v # t => stack'[v] = stack[v]
          /\ stack'[t][n-1] = [g EXCEPT !.wb = w]
      BY <1>1, <1>4, <1>15, <2>1, Answered
    <2>3. CASE u # t
      BY <1>5, <1>15, <2>2, <2>3 DEF Step
    <2>4. CASE u = t
      <3>1. Top(t)' = [g EXCEPT !.wb = w]
        BY <2>2 DEF Top
      <3>2. g.fn = "access" /\ g.pc = "top" /\ g.type = "PUTX"
        BY <1>2, <1>3, <2>2, <2>4, <3>1 DEF Frame, AccFrame, InvFrame
      <3>3. Sending(t, g)
        BY <2>2 DEF InvCall
      <3>4. QED
        BY <3>2, <3>3 DEF Sending, MustInvalidate
    <2>5. QED
      BY <2>3, <2>4
  <1>16. QED
    BY <1>6, <1>9, <1>10, <1>11, <1>12, <1>13, <1>14, <1>15 DEF Step

-----------------------------------------------------------------------------
(* No step loses a store *)

\* A frame that has a writeback for its cache has the bcc lock.
LEMMA PendingFacts ==
  ASSUME Types, Content, NEW u \in Cores, NEW m \in Frames(u), Pending(u, m)
  PROVE  LET f == stack[u][m]
         IN  /\ Owns(u, m) /\ f.pc \in {"evict", "top", "down"} /\ f.c \in Caches
             /\ f.slot \in Slots(f.c) /\ State(f) \in {"E", "M"}
  <1>1. PICK f : f = stack[u][m]
    OBVIOUS
  <1>2. f \in Frame /\ f.c \in Caches /\ f.fn \in {"access", "inv"} /\ ContentAt(u, m)
    BY <1>1, InStack, FrameTypes DEF Content
  <1>3. /\ FrameLine(f) /\ Owns(u, m) /\ f.pc \in {"evict", "top", "down"}
        /\ State(f) \in {"E", "M"}
    BY <1>1, <1>2 DEF ContentAt, Pending
  <1>4. f.fn = "inv" => f.pc = "down"
    BY <1>2, <1>3, FrameTypes
  <1>5. f.fn = "access" => f.pc \in {"evict", "top"}
    BY <1>2, <1>3, FrameTypes
  <1>6. f.slot \in Slots(f.c)
    BY <1>2, <1>3, <1>4, <1>5 DEF FrameLine
  <1>7. QED
    BY <1>1, <1>2, <1>3, <1>6

\* A line stays dirty if its state does, and the top frame hands on what it has for it.
LEMMA LineStaysDirty ==
  ASSUME IInv, NEW t \in Cores, Step(t), NEW c \in Caches, NEW s \in Slots(c), DirtyLine(c, s),
         bcc[c][s] = "M" => DirtyLine(c, s)',
         Pending(t, Len(stack[t])) /\ Top(t).c = c /\ Top(t).slot = s => DirtyLine(c, s)'
  PROVE  DirtyLine(c, s)'
  <1>1. CASE bcc[c][s] = "M"
    BY <1>1
  <1>2. CASE \E u \in Cores : \E m \in Frames(u) :
               Pending(u, m) /\ stack[u][m].c = c /\ stack[u][m].slot = s
    <2>0. PICK u \in Cores : \E m \in Frames(u) :
            Pending(u, m) /\ stack[u][m].c = c /\ stack[u][m].slot = s
      BY <1>2
    <2>1. PICK m \in Frames(u) : Pending(u, m) /\ stack[u][m].c = c /\ stack[u][m].slot = s
      BY <2>0
    <2>2. CASE u = t /\ m = Len(stack[t])
      BY <2>1, <2>2 DEF Top
    <2>3. CASE u # t \/ m # Len(stack[t])
      <3>1. Types /\ Linked
        BY DEF IInv
      <3>2. Stays(u, m)
        BY <2>3, <3>1, OthersStay
      <3>3. /\ m \in Frames(u)' /\ Pending(u, m)'
            /\ stack'[u][m].c = c /\ stack'[u][m].slot = s
        BY <2>1, <3>2 DEF Stays, Pending
      <3>4. QED
        BY <3>3 DEF DirtyLine
    <2>4. QED
      BY <2>2, <2>3
  <1>3. QED
    BY <1>1, <1>2 DEF DirtyLine

\* An address stays dirty if its line stays where it is and stays dirty.
LEMMA StaysDirty ==
  ASSUME NEW a, NEW c \in Caches, NEW s \in Slots(c), array'[c][s] = a, DirtyLine(c, s)'
  PROVE  Dirty(a)'
  BY DEF Dirty

\* Whoever owns the line of a cache knows whether it is dirty.
LEMMA OwnerKnows ==
  ASSUME IInv, NEW t \in Cores, NEW n \in Frames(t), Owns(t, n),
         stack[t][n].slot \in Slots(stack[t][n].c)
  PROVE  LET f == stack[t][n]
         IN  DirtyLine(f.c, f.slot) <=> State(f) = "M" \/ Pending(t, n)
  <1>1. PICK f : f = stack[t][n]
    OBVIOUS
  <1>2. Types /\ Locks /\ Order /\ Content
    BY DEF IInv
  <1>3. ASSUME NEW u \in Cores, NEW m \in Frames(u), Pending(u, m), stack[u][m].c = f.c
        PROVE  u = t /\ m = n
    <2>1. Owns(u, m)
      BY <1>2, <1>3, PendingFacts
    <2>2. QED
      BY <1>1, <1>2, <1>3, <2>1, OneOwner
  <1>4. QED
    BY <1>1, <1>3 DEF DirtyLine, State

\* The steps that write no line
LEMMA QuietStep ==
  ASSUME IInv, NEW t \in Cores, Step(t), UNCHANGED <<array, bcc>>,
         NEW n, n = Len(stack[t]),
         Busy(t) /\ Pending(t, n) =>
           /\ n \in Frames(t)' /\ Pending(t, n)'
           /\ stack'[t][n].c = Top(t).c /\ stack'[t][n].slot = Top(t).slot,
         NEW a, Dirty(a)
  PROVE  Dirty(a)'
  <1>0. PICK c \in Caches : \E s \in Slots(c) : array[c][s] = a /\ DirtyLine(c, s)
    BY DEF Dirty
  <1>1. PICK s \in Slots(c) : array[c][s] = a /\ DirtyLine(c, s)
    BY <1>0
  <1>2. bcc[c][s] = "M" => DirtyLine(c, s)'
    BY DEF DirtyLine
  <1>3. Busy(t)
    BY StepShapes
  <1>4. Pending(t, Len(stack[t])) /\ Top(t).c = c /\ Top(t).slot = s => DirtyLine(c, s)'
    BY <1>3 DEF DirtyLine, Frames
  <1>5. DirtyLine(c, s)'
    BY <1>1, <1>2, <1>4, LineStaysDirty
  <1>6. array'[c][s] = a
    BY <1>1
  <1>7. QED
    BY <1>5, <1>6, StaysDirty

\* Eviction: a dirty victim is in the state M when its PUT starts, or has reached memory.
LEMMA EvictKeeps ==
  ASSUME IInv, NEW t \in Cores, EvictBottom(t), NEW a \in unsaved', a \in unsaved, Dirty(a)
  PROVE  Dirty(a)'
  <1>1. PICK f, n, state : /\ f = Top(t) /\ n = Len(stack[t])
                           /\ state = IF f.wb THEN "M" ELSE State(f)
    OBVIOUS
  <1>2. /\ Types /\ Content /\ Busy(t) /\ f.fn = "access" /\ f.pc = "evict" /\ Step(t)
    BY <1>1 DEF IInv, EvictBottom, At, Step
  <1>3. n \in Frames(t) /\ f = stack[t][n] /\ ~Waiting(t, n) /\ f.c \in Caches
    BY <1>1, <1>2, TopFacts, FrameTypes
  <1>4. Owns(t, n)
    BY <1>2, <1>3 DEF Owns
  <1>5. f.slot \in Slots(f.c)
    BY <1>2, <1>3 DEF Content, ContentAt, FrameLine
  <1>6. \/ Becomes(f.c, f.slot, state) /\ array' = array
        \/ /\ state = "I" \/ Parent[f.c] = Mem
           /\ Becomes(f.c, f.slot, "I")
           /\ unsaved' = IF state = "M" THEN unsaved \ {array[f.c][f.slot]} ELSE unsaved
           /\ array' = [array EXCEPT ![f.c][f.slot] = f.a]
    BY <1>1 DEF EvictBottom, Becomes
  <1>0. PICK c \in Caches : \E s \in Slots(c) : array[c][s] = a /\ DirtyLine(c, s)
    BY DEF Dirty
  <1>7. PICK s \in Slots(c) : array[c][s] = a /\ DirtyLine(c, s)
    BY <1>0
  <1>8. CASE c = f.c /\ s = f.slot
    <2>1. State(f) = "M" \/ Pending(t, n)
      BY <1>3, <1>4, <1>5, <1>7, <1>8, OwnerKnows
    <2>2. state = "M"
      BY <1>1, <1>3, <2>1 DEF Pending
    <2>3. Becomes(f.c, f.slot, "M") /\ array' = array
      BY <1>6, <1>7, <1>8, <2>2
    <2>4. bcc'[c][s] = "M" /\ array'[c][s] = a
      BY <1>2, <1>7, <1>8, <2>3, StateIs
    <2>5. QED
      BY <2>4 DEF Dirty, DirtyLine
  <1>9. CASE ~(c = f.c /\ s = f.slot)
    <2>1. \E v : Becomes(f.c, f.slot, v)
      BY <1>6
    <2>2. bcc'[c][s] = bcc[c][s]
      BY <1>2, <1>3, <1>5, <1>9, <2>1, StateIs
    <2>3. array'[c][s] = a
      <3>1. array = [d \in Caches |-> array[d]] /\ array[c] \in [Slots(c) -> Addrs \cup {None}]
        BY <1>2 DEF Types, TypeOK
      <3>2. CASE array' = array
        BY <1>7, <3>2
      <3>3. CASE array' = [array EXCEPT ![f.c][f.slot] = f.a]
        BY <1>7, <1>9, <3>1, <3>3
      <3>4. QED
        BY <1>6, <3>2, <3>3
    <2>4. ~(Top(t).c = c /\ Top(t).slot = s)
      BY <1>1, <1>9
    <2>5. DirtyLine(c, s)'
      <3>1. bcc[c][s] = "M" => DirtyLine(c, s)'
        BY <2>2 DEF DirtyLine
      <3>2. QED
        BY <1>2, <1>7, <2>4, <3>1, LineStaysDirty
    <2>6. QED
      BY <2>3, <2>5, StaysDirty
  <1>10. QED
    BY <1>8, <1>9

\* Insertion: the line that is replaced is invalid, and therefore clean.
LEMMA InsertKeeps ==
  ASSUME IInv, NEW t \in Cores, Inserted(t), NEW a, Dirty(a)
  PROVE  Dirty(a)'
  <1>1. PICK f, n : f = Top(t) /\ n = Len(stack[t])
    OBVIOUS
  <1>2. /\ Types /\ Content /\ Busy(t) /\ f.fn = "access" /\ f.pc = "evput" /\ Step(t)
        /\ bcc' = bcc /\ array' = [array EXCEPT ![f.c][f.slot] = f.a]
    BY <1>1 DEF IInv, Inserted, At, Step
  <1>3. n \in Frames(t) /\ f = stack[t][n] /\ ~Waiting(t, n) /\ f.c \in Caches
    BY <1>1, <1>2, TopFacts, FrameTypes
  <1>4. Owns(t, n)
    BY <1>2, <1>3 DEF Owns
  <1>5. f.slot \in Slots(f.c) /\ State(f) = "I" /\ ~Pending(t, n)
    BY <1>2, <1>3, <1>4 DEF Content, ContentAt, FrameLine, OwnState, Pending
  <1>0. PICK c \in Caches : \E s \in Slots(c) : array[c][s] = a /\ DirtyLine(c, s)
    BY DEF Dirty
  <1>6. PICK s \in Slots(c) : array[c][s] = a /\ DirtyLine(c, s)
    BY <1>0
  <1>7. ~(c = f.c /\ s = f.slot)
    BY <1>3, <1>4, <1>5, <1>6, OwnerKnows
  <1>8. array'[c][s] = a
    BY <1>2, <1>6, <1>7 DEF Types
  <1>9. DirtyLine(c, s)'
    <2>1. bcc[c][s] = "M" => DirtyLine(c, s)'
      BY <1>2 DEF DirtyLine
    <2>2. ~(Top(t).c = c /\ Top(t).slot = s)
      BY <1>1, <1>7
    <2>3. QED
      BY <1>2, <1>6, <2>1, <2>2, LineStaysDirty
  <1>10. QED
    BY <1>8, <1>9, StaysDirty

\* A hit or a fetch makes no dirty line clean.
LEMMA BottomKeeps ==
  ASSUME IInv, NEW t \in Cores, Bottom(t), NEW a, Dirty(a)
  PROVE  Dirty(a)'
  <1>1. PICK f, n : f = Top(t) /\ n = Len(stack[t])
    OBVIOUS
  <1>2. /\ Types /\ Content /\ Busy(t) /\ f.fn = "access" /\ f.pc = "bottom" /\ Step(t)
        /\ array' = array
    BY <1>1 DEF IInv, Bottom, At, Step
  <1>3. n \in Frames(t) /\ f = stack[t][n] /\ f.c \in Caches /\ f \in AccFrame
    BY <1>1, <1>2, TopFacts, FrameTypes
  <1>4. f.slot \in Slots(f.c) /\ ~Pending(t, n)
    <2>1. ~Pending(t, n)
      BY <1>2, <1>3, PendingFacts
    <2>2. QED
      BY <1>2, <1>3, <2>1 DEF Content, ContentAt, FrameLine
  <1>5. bcc' = bcc \/ \E v : Becomes(f.c, f.slot, v) /\ (State(f) = "M" => v = "M")
    <2>1. f.type \in {"GETS", "GETX", "PUTS", "PUTX"}
      BY <1>3 DEF AccFrame, Puts
    <2>2. PICK v : v = CASE f.type = "PUTS" -> State(f)
                         [] f.type = "PUTX" -> "M"
                         [] f.type = "GETS" -> IF State(f) = "I" THEN MemGETS(t) ELSE State(f)
                         [] f.type = "GETX" -> "M"
      OBVIOUS
    <2>3. State(f) = "M" => v = "M"
      BY <2>1, <2>2
    <2>4. bcc' = bcc \/ bcc' = [bcc EXCEPT ![f.c][f.slot] = v]
      BY <1>1, <2>1, <2>2 DEF Bottom, State
    <2>5. QED
      BY <2>3, <2>4 DEF Becomes
  <1>0. PICK c \in Caches : \E s \in Slots(c) : array[c][s] = a /\ DirtyLine(c, s)
    BY DEF Dirty
  <1>6. PICK s \in Slots(c) : array[c][s] = a /\ DirtyLine(c, s)
    BY <1>0
  <1>7. bcc[c][s] = "M" => bcc'[c][s] = "M"
    <2>1. CASE bcc' = bcc
      BY <2>1
    <2>2. CASE bcc' # bcc
      <3>1. PICK v : Becomes(f.c, f.slot, v) /\ (State(f) = "M" => v = "M")
        BY <1>5, <2>2
      <3>2. /\ bcc'[f.c][f.slot] = v
            /\ \A r \in Slots(f.c) : r # f.slot => bcc'[f.c][r] = bcc[f.c][r]
            /\ \A d \in Caches : d # f.c => bcc'[d] = bcc[d]
        BY <1>2, <1>3, <1>4, <3>1, StateIs
      <3>3. QED
        BY <3>1, <3>2 DEF State
    <2>3. QED
      BY <2>1, <2>2
  <1>8. DirtyLine(c, s)'
    <2>1. bcc[c][s] = "M" => DirtyLine(c, s)'
      BY <1>7 DEF DirtyLine
    <2>2. QED
      BY <1>1, <1>2, <1>4, <1>6, <2>1, LineStaysDirty
  <1>9. array'[c][s] = a
    BY <1>2, <1>6
  <1>10. QED
    BY <1>8, <1>9, StaysDirty

\* An access in the directory: the child's writeback makes the parent's line dirty, before
\* the child loses its own.
LEMMA TopKeeps ==
  ASSUME IInv, PutsDirty, NEW t \in Cores, TopAccess(t), NEW a, Dirty(a)
  PROVE  Dirty(a)'
  <1>1. PICK n, f, e : n = Len(stack[t]) /\ f = Top(t) /\ e = Dir(f)
    OBVIOUS
  <1>2. PICK v, w : v = StateAfter(t, f) /\ w = IF f.wb THEN "M" ELSE State(f)
    OBVIOUS
  <1>3. /\ Consistent /\ Directory /\ At(t, "access", "top") /\ array' = array /\ Step(t)
        /\ Types /\ Content
    BY InvParts DEF TopAccess, Step, Consistent
  <1>4. /\ Working(t) /\ Busy(t) /\ n \in Frames(t) /\ n \in Nat /\ n > 1 /\ f = stack[t][n]
        /\ f.fn = "access" /\ f.pc = "top" /\ f \in AccFrame /\ f \in Frame /\ ~Waiting(t, n)
        /\ f.type \in {"GETS", "GETX", "PUTS", "PUTX"}
        /\ f.c \in Caches /\ f.slot \in Slots(f.c) /\ array[f.c][f.slot] = f.a
        /\ RequestState(f) /\ (f.wb => State(f) \in {"E", "M"})
    BY <1>1, <1>3, TopLine
  <1>5. /\ f.child \in Caches /\ f.child # f.c /\ f.childSlot \in Slots(f.child)
        /\ array[f.child][f.childSlot] = f.a
        /\ ChildState(f) = bcc[f.child][f.childSlot]
    BY <1>1, <1>3, <1>4, ChildLine
  <1>6. v \in MESIState /\ (f.type = "GETX" => v = "M")
    BY <1>2, <1>4 DEF StateAfter, MESIState, Puts
  <1>7. State(f) = bcc[f.c][f.slot] /\ Owns(t, n)
    BY <1>4 DEF State, Owns
  <1>8. StatesAre(f.child, f.childSlot, v, f.c, f.slot, w)
    <2>0. PICK F : F = [bcc EXCEPT ![f.child][f.childSlot] = StateAfter(t, f)]
      OBVIOUS
    <2>1. F = [bcc EXCEPT ![f.child][f.childSlot] = v]
      BY <1>2, <2>0, Zenon
    <2>2. bcc' = [F EXCEPT ![f.c][f.slot] = IF f.wb THEN "M" ELSE bcc[f.c][f.slot]]
      <3>1. bcc' = [bcc EXCEPT ![f.child][f.childSlot] = StateAfter(t, f),
                               ![f.c][f.slot] = IF f.wb THEN "M" ELSE @]
        BY <1>1, Zenon DEF TopAccess, StateAfter
      <3>2. QED
        BY <1>5, <2>0, <3>1, Zenon
    <2>3. StatesSet(f.child, f.childSlot, v, f.c, f.slot, w, F)
      BY <1>2, <1>7, <2>1, <2>2, Zenon DEF StatesSet
    <2>4. w \in MESIState
      BY <1>2, <1>3, <1>4, <1>7 DEF Types, TypeOK, MESIState
    <2>5. QED
      BY <1>3, <1>4, <1>5, <1>6, <2>3, <2>4, StateFields
  <1>9. /\ bcc'[f.child][f.childSlot] = v /\ bcc'[f.c][f.slot] = w
        /\ \A d \in Caches : \A z \in Slots(d) :
             (d # f.c \/ z # f.slot) /\ (d # f.child \/ z # f.childSlot) => bcc'[d][z] = bcc[d][z]
    BY <1>8 DEF StatesAre
  <1>0. PICK c \in Caches : \E s \in Slots(c) : array[c][s] = a /\ DirtyLine(c, s)
    BY DEF Dirty
  <1>10. PICK s \in Slots(c) : array[c][s] = a /\ DirtyLine(c, s)
    BY <1>0
  <1>11. CASE c = f.c /\ s = f.slot
    <2>1. State(f) = "M" \/ Pending(t, n)
      BY <1>3, <1>4, <1>7, <1>10, <1>11, OwnerKnows
    <2>2. bcc'[c][s] = "M"
      BY <1>2, <1>4, <1>9, <1>11, <2>1 DEF Pending
    <2>3. QED
      BY <1>3, <1>10, <2>2 DEF Dirty, DirtyLine
  <1>12. CASE c = f.child /\ s = f.childSlot
    <2>1. \A u \in Cores : \A m \in Frames(u) : Pending(u, m) => stack[u][m].c # f.child
      BY <1>1, <1>3, PendingFacts, ChildUnowned
    <2>2. ChildState(f) = "M"
      BY <1>5, <1>10, <1>12, <2>1 DEF DirtyLine
    <2>3. f.type = "PUTX"
      BY <1>4, <2>2 DEF RequestState
    <2>4. State(f) = "M"
      BY <1>1, <1>3, <2>3 DEF PutsDirty
    <2>5. bcc'[f.c][f.slot] = "M" /\ array'[f.c][f.slot] = a
      BY <1>2, <1>3, <1>4, <1>5, <1>9, <1>10, <1>12, <2>4
    <2>6. QED
      BY <1>4, <2>5 DEF Dirty, DirtyLine
  <1>13. CASE ~(c = f.c /\ s = f.slot) /\ ~(c = f.child /\ s = f.childSlot)
    <2>1. bcc'[c][s] = bcc[c][s]
      BY <1>9, <1>13
    <2>2. bcc[c][s] = "M" => DirtyLine(c, s)'
      BY <2>1 DEF DirtyLine
    <2>3. DirtyLine(c, s)'
      BY <1>1, <1>3, <1>10, <1>13, <2>2, LineStaysDirty
    <2>4. QED
      BY <1>3, <1>10, <2>3, StaysDirty
  <1>14. QED
    BY <1>11, <1>12, <1>13

\* An invalidation or a downgrade: the sender hears of the dirty line.
LEMMA FinishKeeps ==
  ASSUME IInv, NEW t \in Cores, FinishInvalidate(t), NEW a, Dirty(a)
  PROVE  Dirty(a)'
  <1>1. PICK n, f, g, e : n = Len(stack[t]) /\ f = Top(t) /\ g = stack[t][n-1] /\ e = Dir(g)
    OBVIOUS
  <1>2. /\ Consistent /\ Directory /\ At(t, "inv", "down") /\ Types /\ Content /\ Linked
        /\ array' = array /\ Step(t) /\ \E v : Becomes(f.c, f.slot, v)
    BY <1>1, InvParts DEF FinishInvalidate, Consistent, Becomes, Step
  <1>3. /\ Busy(t) /\ n \in Frames(t) /\ n-1 \in Frames(t) /\ f = stack[t][n] /\ g \in Frame
        /\ f.c \in Caches /\ f.slot \in Slots(f.c) /\ g.c \in Caches /\ g.slot \in Slots(g.c)
        /\ array[f.c][f.slot] = array[g.c][g.slot] /\ Sending(t, g) /\ Owns(t, n)
    BY <1>1, <1>2, InvalidateLine
  <1>0. PICK c \in Caches : \E s \in Slots(c) : array[c][s] = a /\ DirtyLine(c, s)
    BY DEF Dirty
  <1>4. PICK s \in Slots(c) : array[c][s] = a /\ DirtyLine(c, s)
    BY <1>0
  <1>5. CASE c = f.c /\ s = f.slot
    <2>1. State(f) = "M" \/ Pending(t, n)
      BY <1>3, <1>4, <1>5, OwnerKnows
    <2>2. Writeback(f)
      BY <1>3, <2>1 DEF Writeback, Pending
    <2>3. n-1 \in Frames(t)' /\ stack'[t][n-1] = [g EXCEPT !.wb = @ \/ Writeback(f)]
      <3>1. /\ \A m \in Frames(t) : m # n => m \in Frames(t)'
            /\ stack'[t][n-1] = [stack[t][n-1] EXCEPT !.wb = @ \/ Writeback(Top(t))]
            /\ n \in Nat
        BY <1>1, <1>2, Answered
      <3>2. n-1 # n
        BY <3>1
      <3>3. QED
        BY <1>1, <1>3, <3>1, <3>2
    <2>4. PICK g1 : g1 = [g EXCEPT !.wb = TRUE]
      OBVIOUS
    <2>5. stack'[t][n-1] = g1
      BY <2>2, <2>3, <2>4
    <2>6. g1.wb /\ g1.c = g.c /\ g1.slot = g.slot /\ g1.pc = g.pc
      BY <1>3, <2>4 DEF Frame, AccFrame, InvFrame
    <2>7. g.pc # "end"
      BY <1>3 DEF Sending
    <2>8. DirtyLine(g.c, g.slot)'
      BY <2>3, <2>5, <2>6, <2>7 DEF DirtyLine, Pending
    <2>9. array'[g.c][g.slot] = a
      BY <1>2, <1>3, <1>4, <1>5
    <2>10. QED
      BY <1>3, <2>8, <2>9, StaysDirty
  <1>6. CASE ~(c = f.c /\ s = f.slot)
    <2>1. bcc'[c][s] = bcc[c][s]
      BY <1>2, <1>3, <1>6, StateIs
    <2>2. bcc[c][s] = "M" => DirtyLine(c, s)'
      BY <2>1 DEF DirtyLine
    <2>3. DirtyLine(c, s)'
      BY <1>1, <1>2, <1>4, <1>6, <2>2, LineStaysDirty
    <2>4. QED
      BY <1>2, <1>4, <2>3, StaysDirty
  <1>7. QED
    BY <1>5, <1>6

\* The core's access begins with a stack of one frame.
LEMMA CoreAccessKeeps ==
  ASSUME IInv, NEW t \in Cores, CoreAccess(t), NEW a, Dirty(a)
  PROVE  Dirty(a)'
  <1>1. /\ Types /\ ~Busy(t) /\ array' = array /\ bcc' = bcc
        /\ \E f : stack' = [stack EXCEPT ![t] = <<f>>]
    BY DEF IInv, CoreAccess
  <1>2. \A u \in Cores : u # t => stack'[u] = stack[u]
    BY <1>1 DEF Types
  <1>3. Frames(t) = {}
    BY <1>1 DEF Busy, Frames
  <1>0. PICK c \in Caches : \E s \in Slots(c) : array[c][s] = a /\ DirtyLine(c, s)
    BY DEF Dirty
  <1>4. PICK s \in Slots(c) : array[c][s] = a /\ DirtyLine(c, s)
    BY <1>0
  <1>5. CASE bcc[c][s] = "M"
    BY <1>1, <1>4, <1>5 DEF Dirty, DirtyLine
  <1>6. CASE \E u \in Cores : \E m \in Frames(u) :
               Pending(u, m) /\ stack[u][m].c = c /\ stack[u][m].slot = s
    <2>1. PICK u \in Cores : \E m \in Frames(u) :
            Pending(u, m) /\ stack[u][m].c = c /\ stack[u][m].slot = s
      BY <1>6
    <2>2. PICK m \in Frames(u) : Pending(u, m) /\ stack[u][m].c = c /\ stack[u][m].slot = s
      BY <2>1
    <2>3. stack'[u] = stack[u]
      BY <1>2, <1>3
    <2>4. m \in Frames(u)' /\ Pending(u, m)' /\ stack'[u][m].c = c /\ stack'[u][m].slot = s
      BY <2>2, <2>3 DEF Frames, Pending
    <2>5. DirtyLine(c, s)'
      BY <2>4 DEF DirtyLine
    <2>6. QED
      BY <1>1, <1>4, <2>5, StaysDirty
  <1>7. QED
    BY <1>4, <1>5, <1>6 DEF DirtyLine

\* The steps that only take a lock, send or return keep every line dirty.
LEMMA QuietKeeps ==
  ASSUME IInv, NEW t \in Cores, NEW a, Dirty(a),
         LockTop(t) \/ LockBottom(t) \/ TopUpgrade(t) \/ EndAccess(t) \/ SendInvalidate(t)
         \/ StartInvalidate(t)
  PROVE  Dirty(a)'
  <1>1. PICK n, f : n = Len(stack[t]) /\ f = Top(t)
    OBVIOUS
  <1>2. Types /\ Content /\ Step(t) /\ UNCHANGED <<array, bcc>>
    BY DEF IInv, Step, LockTop, LockBottom, TopUpgrade, EndAccess, SendInvalidate, StartInvalidate
  <1>3. Busy(t) => n \in Frames(t) /\ f = stack[t][n]
    BY <1>1, <1>2, TopFacts
  <1>4. ASSUME ~Pending(t, n)
        PROVE  Dirty(a)'
    BY <1>1, <1>2, <1>4, QuietStep
  <1>5. CASE f.pc \in {"tcc", "bcc", "end"}
    <2>1. Busy(t)
      BY <1>2, StepShapes
    <2>2. ~Pending(t, n)
      BY <1>2, <1>3, <1>5, <2>1, PendingFacts
    <2>3. QED
      BY <1>4, <2>2
  <1>6. CASE TopUpgrade(t)
    <2>1. stack' = stack
      BY <1>6 DEF TopUpgrade
    <2>2. Busy(t) /\ Pending(t, n) =>
            /\ n \in Frames(t)' /\ Pending(t, n)'
            /\ stack'[t][n].c = Top(t).c /\ stack'[t][n].slot = Top(t).slot
      BY <1>1, <1>3, <2>1 DEF Frames, Pending
    <2>3. QED
      BY <1>1, <1>2, <2>2, QuietStep
  <1>7. CASE SendInvalidate(t)
    <2>1. Busy(t) /\ \E g : Call(t, f, g)
      BY <1>1, <1>7 DEF SendInvalidate
    <2>2. PICK g : Call(t, f, g)
      BY <2>1
    <2>3. n \in Frames(t)' /\ stack'[t][n] = f
      BY <1>1, <1>2, <2>1, <2>2, CallAny
    <2>4. Busy(t) /\ Pending(t, n) =>
            /\ n \in Frames(t)' /\ Pending(t, n)'
            /\ stack'[t][n].c = Top(t).c /\ stack'[t][n].slot = Top(t).slot
      BY <1>1, <1>3, <2>3 DEF Pending
    <2>5. QED
      BY <1>1, <1>2, <2>4, QuietStep
  <1>8. LockTop(t) \/ LockBottom(t) \/ EndAccess(t) \/ StartInvalidate(t)
          => f.pc \in {"tcc", "bcc", "end"}
    <2>1. LockTop(t) => f.pc = "tcc"
      BY <1>1 DEF LockTop, At
    <2>2. LockBottom(t) => f.pc = "bcc"
      BY <1>1 DEF LockBottom, At
    <2>3. EndAccess(t) => f.pc = "end"
      BY <1>1 DEF EndAccess, At
    <2>4. StartInvalidate(t) => f.pc = "bcc"
      BY <1>1 DEF StartInvalidate, At
    <2>5. QED
      BY <2>1, <2>2, <2>3, <2>4
  <1>9. QED
    BY <1>5, <1>6, <1>7, <1>8

\* A store has the line modified when it ends.
LEMMA StoreDirty ==
  ASSUME IInv, NEW t \in Cores, EndAccess(t), Top(t).c \in Leaves, Top(t).type = "GETX",
         NEW a, a = Top(t).a
  PROVE  Dirty(a)'
  <1>1. PICK n, f : n = Len(stack[t]) /\ f = Top(t)
    OBVIOUS
  <1>2. /\ Types /\ Content /\ UniqueLines /\ Busy(t) /\ f.fn = "access" /\ f.pc = "end"
        /\ array' = array /\ bcc' = bcc
    BY <1>1 DEF IInv, EndAccess, At
  <1>3. /\ n \in Frames(t) /\ f = stack[t][n] /\ ~Waiting(t, n) /\ f.c \in Caches /\ f.a \in Addrs
        /\ f \in Frame
    BY <1>1, <1>2, TopFacts, FrameTypes
  <1>4. Owns(t, n) /\ ContentAt(t, n)
    BY <1>2, <1>3 DEF Owns, Content
  <1>5. State(f) = "M"
    BY <1>1, <1>2, <1>3, <1>4 DEF ContentAt, OwnState
  <1>6. f.slot \in Slots(f.c) /\ array[f.c][f.slot] = f.a
    BY <1>1, <1>2, <1>3, <1>4 DEF ContentAt, FrameLine, Puts
  <1>7. DirtyLine(f.c, f.slot)'
    BY <1>2, <1>5 DEF DirtyLine, State
  <1>8. Dirty(f.a)'
    BY <1>2, <1>3, <1>6, <1>7, StaysDirty
  <1>9. QED
    BY <1>1, <1>8

\* Stored lines stay dirty until memory has them.
LEMMA StoresKeptStep ==
  ASSUME IInv, PutsDirty, StoresKept, NEW t \in Cores, CoreAccess(t) \/ Step(t)
  PROVE  StoresKept'
  <1> SUFFICES ASSUME NEW a \in unsaved' PROVE Dirty(a)'
    BY DEF StoresKept
  <1>1. CASE a \in unsaved
    <2>1. Dirty(a)
      BY <1>1 DEF StoresKept
    <2>2. CASE CoreAccess(t)
      BY <2>1, <2>2, CoreAccessKeeps
    <2>3. CASE EvictBottom(t)
      BY <1>1, <2>1, <2>3, EvictKeeps
    <2>4. CASE Inserted(t)
      BY <2>1, <2>4, InsertKeeps
    <2>5. CASE Bottom(t)
      BY <2>1, <2>5, BottomKeeps
    <2>6. CASE TopAccess(t)
      BY <2>1, <2>6, TopKeeps
    <2>7. CASE FinishInvalidate(t)
      BY <2>1, <2>7, FinishKeeps
    <2>8. QED
      BY <2>1, <2>2, <2>3, <2>4, <2>5, <2>6, <2>7, QuietKeeps DEF Step
  <1>2. CASE a \notin unsaved
    <2>1. EndAccess(t)
      BY <1>2 DEF CoreAccess, Step, LockTop, LockBottom, EvictBottom, Inserted, Bottom, TopUpgrade,
         TopAccess, SendInvalidate, StartInvalidate, FinishInvalidate
    <2>2. Top(t).c \in Leaves /\ Top(t).type = "GETX" /\ a = Top(t).a
      BY <1>2, <2>1 DEF EndAccess
    <2>3. QED
      BY <2>1, <2>2, StoreDirty, SMTT(30)
  <1>3. QED
    BY <1>1, <1>2

\* What is dirty can be found.
LEMMA StoresFound ==
  ASSUME SInv
  PROVE  NoLostStore
  <1>1. Types /\ Content /\ UniqueLines /\ StoresKept /\ unsaved \subseteq Addrs
    BY DEF SInv, IInv, Types, TypeOK
  <1> SUFFICES ASSUME NEW a \in unsaved
               PROVE  WritebackInFlight(a) \/ \E c \in Caches : StateOf(c, a) = "M"
    BY DEF NoLostStore
  <1>2. a \in Addrs /\ Dirty(a)
    BY <1>1 DEF StoresKept
  <1>3. PICK c \in Caches : \E s \in Slots(c) : array[c][s] = a /\ DirtyLine(c, s)
    BY <1>2 DEF Dirty
  <1>4. PICK s \in Slots(c) : array[c][s] = a /\ DirtyLine(c, s)
    BY <1>3
  <1>5. CASE bcc[c][s] = "M"
    BY <1>1, <1>2, <1>4, <1>5, StateOfLine
  <1>6. CASE \E u \in Cores : \E m \in Frames(u) :
               Pending(u, m) /\ stack[u][m].c = c /\ stack[u][m].slot = s
    BY <1>4, <1>6 DEF WritebackInFlight, Pending, Frames
  <1>7. QED
    BY <1>4, <1>5, <1>6 DEF DirtyLine

\* Nothing is stored, and no access under way, in the beginning.
LEMMA InitStores ==
  ASSUME Init
  PROVE  SInv
  <1>1. IInv
    BY InitInvariant
  <1>2. PutsDirty /\ StoresKept
    BY DEF Init, PutsDirty, StoresKept, At, Busy
  <1>3. QED
    BY <1>1, <1>2 DEF SInv

\* SInv holds of every state.
LEMMA StoresInvariant == Spec => []SInv
  <1>1. Init => SInv
    BY InitStores
  <1>2. SInv /\ [Next]_vars => SInv'
    <2>1. SUFFICES ASSUME SInv, [Next]_vars PROVE SInv'
      OBVIOUS
    <2>2. IInv'
      BY <2>1, NextInvariant DEF SInv
    <2>3. CASE Next
      <3>1. PICK t \in Cores : CoreAccess(t) \/ Step(t)
        BY <2>3 DEF Next
      <3>2. IInv /\ PutsDirty /\ StoresKept
        BY <2>1 DEF SInv
      <3>3. PutsDirty'
        BY <3>1, <3>2, PutsDirtyStep
      <3>4. StoresKept'
        BY <3>1, <3>2, StoresKeptStep
      <3>5. QED
        BY <2>2, <3>3, <3>4 DEF SInv
    <2>4. CASE UNCHANGED vars
      <3>1. PutsDirty' /\ StoresKept'
        BY <2>1, <2>4 DEF SInv, PutsDirty, StoresKept, Dirty, DirtyLine, Pending, Frames, At, Busy,
           Top, State, vars
      <3>2. QED
        BY <2>2, <3>1 DEF SInv
    <2>5. QED
      BY <2>1, <2>3, <2>4
  <1>3. QED
    BY <1>1, <1>2, PTL DEF Spec

\* A store reaches memory: until the controller of the last level has written the line
\* back, some cache has it modified, or has collected the writeback of an invalidated child.
THEOREM StoresSafe == Spec => []NoLostStore
  BY StoresFound, StoresInvariant, PTL

-----------------------------------------------------------------------------
(* The lines behind the filters *)

\* The states of the lines of a cache that no step writes
LEMMA SameLines ==
  ASSUME NEW c, NEW a, array'[c] = array[c], bcc'[c] = bcc[c]
  PROVE  StateOf(c, a)' = StateOf(c, a) /\ (Valid(c, a)' <=> Valid(c, a))
  BY DEF StateOf, Valid, Holding

\* The states of the other lines when one line's state is set
LEMMA OtherLines ==
  ASSUME Types, NEW c \in Caches, NEW s \in Slots(c), NEW v, Becomes(c, s, v), array' = array,
         NEW a, array[c][s] # a
  PROVE  StateOf(c, a)' = StateOf(c, a) /\ (Valid(c, a)' <=> Valid(c, a))
  <1>1. \A r \in Slots(c) : r # s => bcc'[c][r] = bcc[c][r]
    BY StateIs
  <1>2. Holding(c, a)' = Holding(c, a) /\ s \notin Holding(c, a) /\ Holding(c, a) \subseteq Slots(c)
    BY DEF Holding
  <1>3. CASE Holding(c, a) = {}
    BY <1>2, <1>3 DEF StateOf, Valid
  <1>4. CASE Holding(c, a) # {}
    <2>1. PICK r : r = CHOOSE x \in Holding(c, a) : TRUE
      OBVIOUS
    <2>2. r \in Holding(c, a)
      BY <1>4, <2>1
    <2>3. bcc'[c][r] = bcc[c][r]
      BY <1>1, <1>2, <2>2
    <2>4. StateOf(c, a) = bcc[c][r] /\ StateOf(c, a)' = bcc'[c][r]
      BY <1>2, <1>4, <2>1 DEF StateOf
    <2>5. QED
      BY <2>3, <2>4 DEF Valid
  <1>5. QED
    BY <1>3, <1>4

\* A core whose thread, lines and filter a step leaves alone
LEMMA Untouched ==
  ASSUME NEW u \in Cores, stack'[u] = stack[u], array'[u] = array[u], bcc'[u] = bcc[u],
         filling'[u] = filling[u]
  PROVE  /\ FillAt(u) /\ filterLock'[u] = filterLock[u] => FillAt(u)'
         /\ CoherentAt(u) /\ rdAddr'[u] = rdAddr[u] /\ wrAddr'[u] = wrAddr[u] => CoherentAt(u)'
  <1>1. \A a : StateOf(u, a)' = StateOf(u, a) /\ (Valid(u, a)' <=> Valid(u, a))
    BY SameLines
  <1>2. Busy(u)' <=> Busy(u)
    BY DEF Busy
  <1>3. ASSUME FillAt(u), filterLock'[u] = filterLock[u]
        PROVE  FillAt(u)'
    <2>1. PICK f : f = filling[u] /\ f = filling'[u]
      OBVIOUS
    <2>2. Granted(u, f.a, f.type)' <=> Granted(u, f.a, f.type)
      BY <1>1 DEF Granted
    <2>3. QED
      BY <1>2, <1>3, <2>1, <2>2 DEF FillAt
  <1>4. ASSUME CoherentAt(u), rdAddr'[u] = rdAddr[u], wrAddr'[u] = wrAddr[u]
        PROVE  CoherentAt(u)'
    <2>1. PICK r, w : r = rdAddr[u] /\ r = rdAddr'[u] /\ w = wrAddr[u] /\ w = wrAddr'[u]
      BY <1>4
    <2>2. StateOf(u, w)' = StateOf(u, w) /\ (Valid(u, r)' <=> Valid(u, r))
      BY <1>1
    <2>3. QED
      BY <1>2, <1>4, <2>1, <2>2 DEF CoherentAt, Idle
  <1>5. QED
    BY <1>3, <1>4

\* Only a core's own accesses and invalidations write the lines of its terminal cache.
LEMMA LeafWrites ==
  ASSUME IInv, NEW t \in Cores, Step(t), NEW c \in Cores, c # t
  PROVE  \/ array'[c] = array[c] /\ bcc'[c] = bcc[c]
         \/ At(t, "inv", "down") /\ Top(t).c = c
  <1>1. PICK n, f : n = Len(stack[t]) /\ f = Top(t)
    OBVIOUS
  <1>2. Types /\ Linked /\ Busy(t) /\ c \in Caches /\ c \in Leaves
    BY StepShapes, CoreFacts DEF IInv, Cores
  <1>3. /\ n \in Frames(t) /\ f = stack[t][n] /\ f \in Frame /\ n \in Nat /\ n > 0
        /\ f.fn \in {"access", "inv"} /\ (f.fn = "inv" => f.pc \in {"bcc", "down"})
    BY <1>1, <1>2, TopFacts, InStack, FrameTypes
  <1>4. CASE f.c = c /\ Owns(t, n)
    <2>1. f.fn # "access"
      BY <1>2, <1>3, <1>4, AccessFacts, NatOne
    <2>2. f.pc = "down"
      BY <1>3, <1>4, <2>1 DEF Owns
    <2>3. QED
      BY <1>1, <1>2, <1>3, <1>4, <2>1, <2>2 DEF At
  <1>5. CASE At(t, "access", "top") /\ f.child = c
    <2>1. f.fn = "access" /\ f.pc = "top" /\ Content
      BY <1>1, <1>5 DEF At, IInv
    <2>2. f.c \notin Leaves
      BY <1>3, <2>1 DEF Content, ContentAt, FrameLine
    <2>3. n > 1
      BY <1>2, <1>3, <2>1, <2>2, AccessFacts, NatOne
    <2>4. PICK m, e : m = n-1 /\ e = stack[t][m]
      OBVIOUS
    <2>5. m \in Frames(t) /\ AccessCall(e, f)
      BY <1>2, <1>3, <2>1, <2>3, <2>4, CallerFacts
    <2>6. e.fn = "access" /\ e.c = c
      BY <1>5, <2>5 DEF AccessCall
    <2>7. m \in Nat /\ m > 0
      BY <1>2, <2>5, InStack
    <2>8. QED
      BY <1>2, <2>4, <2>5, <2>6, <2>7, AccessFacts, NatOne
  <1>6. QED
    BY <1>1, <1>2, <1>4, <1>5, Writes

\* A step of one thread leaves the stacks of the others alone.
LEMMA OthersStack ==
  ASSUME Types, Linked, NEW t \in Cores, Step(t), NEW u \in Cores, u # t
  PROVE  stack'[u] = stack[u]
  <1>1. Busy(t)
    BY StepShapes
  <1>2. CASE \E f : Become(t, f)
    <2>1. PICK f : Become(t, f)
      BY <1>2
    <2>2. QED
      BY <1>1, <2>1, BecomeAny DEF Below
  <1>3. CASE \E f, g : Call(t, f, g)
    <2>1. PICK f, g : Call(t, f, g)
      BY <1>3
    <2>2. QED
      BY <1>1, <2>1, CallAny DEF Below
  <1>4. CASE stack' = [stack EXCEPT ![t] = Popped(@)]
    BY <1>1, <1>4, PopEffect
  <1>5. CASE FinishInvalidate(t)
    BY <1>5, Answered
  <1>6. QED
    BY <1>2, <1>3, <1>4, <1>5, StepShapes

\* A stack with frames
LEMMA LongStack ==
  ASSUME NEW t, Len(stack'[t]) > 0
  PROVE  Busy(t)'
  <1>1. Len(<<>>) = 0
    OBVIOUS
  <1>2. QED
    BY <1>1 DEF Busy

\* The thread of an access that has not come to its end stays in it.
LEMMA StillBusy ==
  ASSUME IInv, NEW t \in Cores, Step(t), ~(At(t, "access", "end") /\ Top(t).child = None)
  PROVE  Busy(t)'
  <1>1. PICK n, f : n = Len(stack[t]) /\ f = Top(t)
    OBVIOUS
  <1>2. Types /\ Linked /\ Busy(t)
    BY StepShapes DEF IInv
  <1>3. n \in Frames(t) /\ n \in Nat /\ n > 0 /\ f = stack[t][n]
    BY <1>1, <1>2, TopFacts, InStack
  <1>4. CASE EndAccess(t)
    <2>1. At(t, "access", "end") /\ f.fn = "access" /\ stack' = [stack EXCEPT ![t] = Popped(@)]
      BY <1>1, <1>4 DEF EndAccess, At
    <2>2. n > 1
      BY <1>1, <1>2, <1>3, <2>1, AccessFacts, NatOne
    <2>3. Len(stack'[t]) = n - 1
      BY <1>1, <1>2, <2>1, PopEffect
    <2>4. Len(stack'[t]) > 0
      BY <1>3, <2>2, <2>3
    <2>5. QED
      BY <2>4, LongStack
  <1>5. CASE FinishInvalidate(t)
    <2>1. n > 1 /\ Len(stack'[t]) = n - 1
      BY <1>1, <1>2, <1>5, Answered
    <2>2. Len(stack'[t]) > 0
      BY <1>3, <2>1
    <2>3. QED
      BY <2>2, LongStack
  <1>6. CASE \E f1 : Become(t, f1)
    <2>1. PICK f1 : Become(t, f1)
      BY <1>6
    <2>2. Len(stack'[t]) > 0
      BY <1>1, <1>2, <1>3, <2>1, BecomeAny
    <2>3. QED
      BY <2>2, LongStack
  <1>7. CASE \E f1, g : Call(t, f1, g)
    <2>1. PICK f1, g : Call(t, f1, g)
      BY <1>7
    <2>2. Len(stack'[t]) > 0
      BY <1>1, <1>2, <1>3, <2>1, CallAny
    <2>3. QED
      BY <2>2, LongStack
  <1>8. CASE stack' = stack
    BY <1>2, <1>8 DEF Busy
  <1>9. QED
    BY <1>4, <1>5, <1>6, <1>7, <1>8, StepShapes

\* A terminal cache has nobody to invalidate.
LEMMA LeafSends ==
  ASSUME IInv, NEW t \in Cores, At(t, "inv", "down"), Top(t).c \in Leaves
  PROVE  ~Sending(t, Top(t))
  <1>1. PICK f : f = Top(t)
    OBVIOUS
  <1>2. Consistent /\ Directory /\ Types /\ Busy(t) /\ f.fn = "inv"
    BY <1>1, InvParts DEF Consistent, At
  <1>3. f.c \in Caches /\ f.slot \in Slots(f.c)
    BY <1>1, <1>2, InvalidateLine
  <1>4. EntryAt(f.c, f.slot) /\ Children(f.c) = {}
    BY <1>1, <1>2, <1>3 DEF Directory, Entries, Leaves
  <1>5. Dir(f).sharers = {} /\ Dir(f).numSharers = 0
    BY <1>4 DEF EntryAt, Dir
  <1>6. ~isExclusive(Dir(f))
    BY <1>5 DEF isExclusive
  <1>7. QED
    BY <1>1, <1>2, <1>5, <1>6 DEF Sending

\* A step that the filters have no part in is not the end of a core's access, and writes no
\* line of another core's terminal cache.
LEMMA HierarchyFacts ==
  ASSUME IInv, NEW t \in Cores, HierarchyStep(t)
  PROVE  /\ Step(t) /\ Busy(t) /\ Busy(t)' /\ UNCHANGED fvars
         /\ ~(At(t, "inv", "down") /\ Top(t).c \in Leaves)
         /\ \A u \in Cores : u # t =>
              stack'[u] = stack[u] /\ array'[u] = array[u] /\ bcc'[u] = bcc[u]
  <1>1. Step(t) /\ UNCHANGED fvars /\ Types /\ Linked
    BY DEF HierarchyStep, Step, IInv
  <1>2. Busy(t)
    BY <1>1, StepShapes
  <1>3. ~(At(t, "inv", "down") /\ Top(t).c \in Leaves)
    <2>1. SUFFICES ASSUME At(t, "inv", "down"), Top(t).c \in Leaves PROVE FALSE
      OBVIOUS
    <2>2. ~Sending(t, Top(t))
      BY <2>1, LeafSends
    <2>3. ~SendInvalidate(t)
      BY <2>2 DEF SendInvalidate
    <2>4. Top(t).fn = "inv" /\ Top(t).pc = "down"
      BY <2>1 DEF At
    <2>5. /\ ~LockTop(t) /\ ~LockBottom(t) /\ ~EvictBottom(t) /\ ~Inserted(t) /\ ~Bottom(t)
          /\ ~TopUpgrade(t) /\ ~TopAccess(t) /\ ~StartInvalidate(t)
      BY <2>4 DEF LockTop, LockBottom, EvictBottom, Inserted, Bottom, TopUpgrade, TopAccess,
         StartInvalidate, At
    <2>6. QED
      BY <2>1, <2>3, <2>4, <2>5 DEF HierarchyStep
  <1>4. ~(At(t, "access", "end") /\ Top(t).child = None)
    <2>1. SUFFICES ASSUME At(t, "access", "end"), Top(t).child = None PROVE FALSE
      OBVIOUS
    <2>2. Top(t).fn = "access" /\ Top(t).pc = "end"
      BY <2>1 DEF At
    <2>3. ~SendInvalidate(t)
      BY <2>2 DEF SendInvalidate, Sending
    <2>4. /\ ~LockTop(t) /\ ~LockBottom(t) /\ ~EvictBottom(t) /\ ~Inserted(t) /\ ~Bottom(t)
          /\ ~TopUpgrade(t) /\ ~TopAccess(t) /\ ~StartInvalidate(t)
      BY <2>2 DEF LockTop, LockBottom, EvictBottom, Inserted, Bottom, TopUpgrade, TopAccess,
         StartInvalidate, At
    <2>5. QED
      BY <2>1, <2>2, <2>3, <2>4 DEF HierarchyStep
  <1>5. Busy(t)'
    BY <1>1, <1>4, StillBusy
  <1>6. ASSUME NEW u \in Cores, u # t
        PROVE  stack'[u] = stack[u] /\ array'[u] = array[u] /\ bcc'[u] = bcc[u]
    <2>1. stack'[u] = stack[u]
      BY <1>1, <1>6, OthersStack
    <2>2. u \in Leaves
      BY DEF Cores
    <2>3. QED
      BY <1>1, <1>3, <1>6, <2>1, <2>2, LeafWrites
  <1>7. QED
    BY <1>1, <1>2, <1>3, <1>5, <1>6

-----------------------------------------------------------------------------
(* The steps of the filters *)

\* The parts of the filters' invariant
LEMMA FilterParts ==
  /\ FInv <=> FilterTypes /\ Fills /\ Holders /\ \A u \in Cores : CoherentAt(u)
  /\ FInv' <=> FilterTypes' /\ Fills' /\ Holders' /\ \A u \in Cores : CoherentAt(u)'
  BY DEF FInv, FilterCoherent, CoherentAt

\* The lock of a filter that neither it nor its holder leaves
LEMMA UntouchedHolder ==
  ASSUME NEW c \in Cores, NEW u \in Cores, HolderAt(c, u), stack'[u] = stack[u],
         filterLock'[c] = filterLock[c], filling'[c] = filling[c], rdAddr'[c] = rdAddr[c]
  PROVE  HolderAt(c, u)'
  <1>1. At(u, "inv", "down")' <=> At(u, "inv", "down")
    BY DEF At, Busy, Top
  <1>2. Top(u)' = Top(u)
    BY DEF Top
  <1>3. QED
    BY <1>1, <1>2 DEF HolderAt

\* A step that neither the filters nor the cores' lines and threads notice
LEMMA FiltersSame ==
  ASSUME FInv, UNCHANGED <<array, bcc, stack>>, UNCHANGED fvars
  PROVE  FInv'
  <1>1. rdAddr' = rdAddr /\ wrAddr' = wrAddr /\ filterLock' = filterLock /\ filling' = filling
    BY DEF fvars
  <1>2. FilterTypes /\ Fills /\ Holders /\ \A u \in Cores : CoherentAt(u)
    BY FilterParts
  <1>3. FilterTypes'
    BY <1>1, <1>2 DEF FilterTypes
  <1>4. \A u \in Cores : FillAt(u)' /\ CoherentAt(u)'
    BY <1>1, <1>2, Untouched DEF Fills
  <1>5. \A c, u \in Cores : HolderAt(c, u)'
    BY <1>1, <1>2, UntouchedHolder DEF Holders
  <1>6. QED
    BY <1>3, <1>4, <1>5, FilterParts DEF Fills, Holders

\* A step between two steps of the hierarchy
LEMMA StoresSame ==
  ASSUME SInv, UNCHANGED <<array, bcc, tcc, bccLock, tccLock, stack, issued>>,
         unsaved' \subseteq Addrs, \A a \in unsaved' : a \in unsaved \/ Dirty(a)
  PROVE  SInv'
  <1>1. IInv'
    BY HistoryStep DEF SInv
  <1>2. PutsDirty'
    BY DEF SInv, PutsDirty, At, Busy, Top, State
  <1>3. \A a : Dirty(a) => Dirty(a)'
    BY DEF Dirty, DirtyLine, Pending, Frames
  <1>4. StoresKept'
    BY <1>3 DEF SInv, StoresKept
  <1>5. QED
    BY <1>1, <1>2, <1>4 DEF SInv

\* A step of the hierarchy keeps what the stores rely on.
LEMMA StoresStep ==
  ASSUME SInv, NEW t \in Cores, CoreAccess(t) \/ Step(t)
  PROVE  SInv'
  <1>1. IInv /\ PutsDirty /\ StoresKept
    BY DEF SInv
  <1>2. IInv'
    BY <1>1, NextInvariant DEF Next
  <1>3. QED
    BY <1>1, <1>2, PutsDirtyStep, StoresKeptStep DEF SInv

\* A store that hits in the filter finds the line modified in the cache behind it.
LEMMA StoreHitStep ==
  ASSUME SInv, FInv, NEW t \in Cores, StoreHit(t)
  PROVE  SInv' /\ FInv'
  <1>1. /\ Idle(t) /\ wrAddr[t] # None /\ unsaved' = unsaved \cup {wrAddr[t]}
        /\ UNCHANGED <<array, bcc, tcc, bccLock, tccLock, stack, issued>> /\ UNCHANGED fvars
    BY DEF StoreHit
  <1>2. IInv /\ Types /\ UniqueLines /\ unsaved \subseteq Addrs /\ t \in Caches
    BY CoreFacts DEF SInv, IInv, Types, TypeOK
  <1>3. PICK a : a = wrAddr[t]
    OBVIOUS
  <1>4. a \in Addrs /\ StateOf(t, a) = "M"
    BY <1>1, <1>3, FilterParts DEF FilterTypes, CoherentAt
  <1>5. PICK s \in Slots(t) : array[t][s] = a
    BY <1>2, <1>4, StateOfLine DEF Valid
  <1>6. bcc[t][s] = "M"
    BY <1>2, <1>4, <1>5, StateOfLine
  <1>7. Dirty(a)
    BY <1>2, <1>5, <1>6 DEF Dirty, DirtyLine
  <1>8. SInv'
    BY <1>1, <1>2, <1>3, <1>4, <1>7, StoresSame
  <1>9. FInv'
    BY <1>1, FiltersSame
  <1>10. QED
    BY <1>8, <1>9

\* A miss of the filter starts an access, and the core is no longer idle.
LEMMA ReplaceStartStep ==
  ASSUME SInv, FInv, NEW t \in Cores, ReplaceStart(t)
  PROVE  SInv' /\ FInv'
  <1>1. Idle(t) /\ CoreAccess(t) /\ UNCHANGED fvars
    BY DEF ReplaceStart
  <1>2. SInv'
    BY <1>1, StoresStep
  <1>3. /\ ~Busy(t) /\ array' = array /\ bcc' = bcc /\ Types
        /\ \E f : stack' = [stack EXCEPT ![t] = <<f>>]
    BY <1>1 DEF CoreAccess, SInv, IInv
  <1>4. Busy(t)' /\ \A u \in Cores : u # t => stack'[u] = stack[u]
    BY <1>3 DEF Types, Busy
  <1>5. rdAddr' = rdAddr /\ wrAddr' = wrAddr /\ filterLock' = filterLock /\ filling' = filling
    BY <1>1 DEF fvars
  <1>6. FilterTypes /\ Fills /\ Holders /\ \A u \in Cores : CoherentAt(u)
    BY FilterParts
  <1>7. FilterTypes'
    BY <1>5, <1>6 DEF FilterTypes
  <1>8. ASSUME NEW u \in Cores
        PROVE  FillAt(u)' /\ CoherentAt(u)'
    <2>1. CASE u # t
      BY <1>3, <1>4, <1>5, <1>6, <2>1, Untouched DEF Fills
    <2>2. CASE u = t
      BY <1>1, <1>4, <1>5, <2>2 DEF FillAt, CoherentAt, Idle
    <2>3. QED
      BY <2>1, <2>2
  <1>9. ASSUME NEW c \in Cores, NEW u \in Cores
        PROVE  HolderAt(c, u)'
    <2>1. CASE u # t
      BY <1>4, <1>5, <1>6, <2>1, UntouchedHolder DEF Holders
    <2>2. CASE u = t
      <3>1. HolderAt(c, t) /\ ~At(t, "inv", "down")
        BY <1>3, <1>6 DEF Holders, At
      <3>2. QED
        BY <1>5, <2>2, <3>1 DEF HolderAt
    <2>3. QED
      BY <2>1, <2>2
  <1>10. QED
    BY <1>2, <1>7, <1>8, <1>9, FilterParts DEF Fills, Holders

\* A context switch empties a filter that nobody holds.
LEMMA ContextSwitchStep ==
  ASSUME SInv, FInv, NEW t \in Cores, ContextSwitch(t)
  PROVE  SInv' /\ FInv'
  <1>1. /\ rdAddr' = [rdAddr EXCEPT ![t] = None] /\ wrAddr' = [wrAddr EXCEPT ![t] = None]
        /\ filterLock[t] = None /\ filterLock' = filterLock /\ filling' = filling
        /\ UNCHANGED vars
    BY DEF ContextSwitch
  <1>2. array' = array /\ bcc' = bcc /\ stack' = stack
    BY <1>1 DEF vars
  <1>3. SInv'
    BY <1>1, StoresSame DEF SInv, IInv, Types, TypeOK, vars
  <1>4. FilterTypes /\ Fills /\ Holders /\ \A u \in Cores : CoherentAt(u)
    BY FilterParts
  <1>5. /\ rdAddr'[t] = None /\ wrAddr'[t] = None
        /\ \A u \in Cores : u # t => rdAddr'[u] = rdAddr[u] /\ wrAddr'[u] = wrAddr[u]
    BY <1>1, <1>4 DEF FilterTypes
  <1>6. FilterTypes'
    <2>1. rdAddr' \in [Cores -> Addrs \cup {None}] /\ wrAddr' \in [Cores -> Addrs \cup {None}]
      BY <1>1, <1>4 DEF FilterTypes
    <2>2. QED
      BY <1>1, <1>4, <1>5, <2>1 DEF FilterTypes
  <1>7. ASSUME NEW u \in Cores
        PROVE  FillAt(u)' /\ CoherentAt(u)'
    <2>1. FillAt(u)'
      BY <1>1, <1>2, <1>4, Untouched DEF Fills
    <2>2. CoherentAt(u)'
      <3>1. CASE u # t
        BY <1>1, <1>2, <1>4, <1>5, <3>1, Untouched
      <3>2. CASE u = t
        BY <1>5, <3>2 DEF CoherentAt
      <3>3. QED
        BY <3>1, <3>2
    <2>3. QED
      BY <2>1, <2>2
  <1>8. ASSUME NEW c \in Cores, NEW u \in Cores
        PROVE  HolderAt(c, u)'
    <2>1. CASE c # t
      BY <1>1, <1>2, <1>4, <1>5, <2>1, UntouchedHolder DEF Holders
    <2>2. CASE c = t
      BY <1>1, <2>2, CoreFacts DEF HolderAt
    <2>3. QED
      BY <2>1, <2>2
  <1>9. QED
    BY <1>3, <1>6, <1>7, <1>8, FilterParts DEF Fills, Holders

\* The steps that the filters have no part in leave idle cores alone.
LEMMA HierarchyKeeps ==
  ASSUME SInv, FInv, NEW t \in Cores, HierarchyStep(t)
  PROVE  SInv' /\ FInv'
  <1>1. /\ Step(t) /\ Busy(t) /\ Busy(t)' /\ UNCHANGED fvars
        /\ ~(At(t, "inv", "down") /\ Top(t).c \in Leaves)
        /\ \A u \in Cores : u # t =>
             stack'[u] = stack[u] /\ array'[u] = array[u] /\ bcc'[u] = bcc[u]
    BY HierarchyFacts DEF SInv
  <1>2. SInv'
    BY <1>1, StoresStep
  <1>3. rdAddr' = rdAddr /\ wrAddr' = wrAddr /\ filterLock' = filterLock /\ filling' = filling
    BY <1>1 DEF fvars
  <1>4. FilterTypes /\ Fills /\ Holders /\ \A u \in Cores : CoherentAt(u)
    BY FilterParts
  <1>5. FilterTypes'
    BY <1>3, <1>4 DEF FilterTypes
  <1>6. ASSUME NEW u \in Cores
        PROVE  FillAt(u)' /\ CoherentAt(u)'
    <2>1. CASE u # t
      BY <1>1, <1>3, <1>4, <2>1, Untouched DEF Fills
    <2>2. CASE u = t
      <3>1. FillAt(u)'
        BY <1>1, <1>3, <1>4, <2>2 DEF Fills, FillAt
      <3>2. CoherentAt(u)'
        BY <1>1, <2>2 DEF CoherentAt, Idle
      <3>3. QED
        BY <3>1, <3>2
    <2>3. QED
      BY <2>1, <2>2
  <1>7. ASSUME NEW c \in Cores, NEW u \in Cores
        PROVE  HolderAt(c, u)'
    <2>1. CASE u # t
      BY <1>1, <1>3, <1>4, <2>1, UntouchedHolder DEF Holders
    <2>2. CASE u = t
      <3>1. HolderAt(c, t) /\ c \in Leaves
        BY <1>4 DEF Holders, Cores
      <3>2. filterLock[c] = t => filling[c] # None /\ t = c
        BY <1>1, <3>1 DEF HolderAt
      <3>3. QED
        BY <1>3, <2>2, <3>2 DEF HolderAt
    <2>3. QED
      BY <2>1, <2>2
  <1>8. QED
    BY <1>2, <1>5, <1>6, <1>7, FilterParts DEF Fills, Holders

\* An access that ends in its terminal cache leaves its line there, as it asked for it.
LEMMA Ended ==
  ASSUME IInv, NEW t \in Cores, At(t, "access", "end"), Top(t).child = None, EndAccess(t),
         NEW f, f = Top(t)
  PROVE  /\ f \in AccFrame /\ f.a \in Addrs /\ Granted(t, f.a, f.type)' /\ ~Busy(t)'
         /\ array' = array /\ bcc' = bcc
         /\ \A u \in Cores : u # t => stack'[u] = stack[u]
  <1>1. PICK n : n = Len(stack[t])
    OBVIOUS
  <1>2. /\ Types /\ Linked /\ Content /\ UniqueLines /\ Busy(t) /\ f.fn = "access" /\ f.pc = "end"
    BY DEF IInv, At
  <1>3. /\ n \in Frames(t) /\ f = stack[t][n] /\ f \in AccFrame /\ ~Waiting(t, n) /\ n \in Nat
        /\ n > 0 /\ f.a \in Addrs /\ f.c \in Caches
    BY <1>1, <1>2, TopFacts, InStack, FrameTypes
  <1>4. n = 1
    BY <1>2, <1>3, AccessFacts, NatOne, CoreFacts
  <1>5. f.c = t /\ f.c \in Leaves /\ f.type \in {"GETS", "GETX"}
    BY <1>2, <1>3, <1>4, AccessFacts
  <1>6. Owns(t, n) /\ ContentAt(t, n)
    BY <1>2, <1>3 DEF Owns, Content
  <1>7. /\ f.slot \in Slots(t) /\ array[t][f.slot] = f.a
        /\ f.type = "GETS" => bcc[t][f.slot] # "I"
        /\ f.type = "GETX" => bcc[t][f.slot] = "M"
    BY <1>2, <1>3, <1>5, <1>6 DEF ContentAt, FrameLine, OwnState, State, Puts
  <1>8. Granted(t, f.a, f.type)
    <2>1. StateOf(t, f.a) = bcc[t][f.slot]
      BY <1>2, <1>3, <1>5, <1>7, StateOfLine
    <2>2. QED
      BY <1>5, <1>7, <2>1 DEF Granted, Valid
  <1>9. array' = array /\ bcc' = bcc /\ stack' = [stack EXCEPT ![t] = Popped(@)]
    BY DEF EndAccess
  <1>10. Granted(t, f.a, f.type)'
    BY <1>8, <1>9, SameLines DEF Granted
  <1>11. /\ Len(stack'[t]) = 0 /\ stack' \in [Cores -> Seq(Frame)]
         /\ \A u \in Cores : u # t => stack'[u] = stack[u]
    <2>1. Len(stack'[t]) = n - 1
      BY <1>1, <1>2, <1>9, PopEffect
    <2>2. n - 1 = 0
      BY <1>4
    <2>3. QED
      BY <1>2, <1>9, <2>1, <2>2, PopEffect
  <1>12. ~Busy(t)'
    BY <1>11, EmptySeq DEF Busy
  <1>13. QED
    BY <1>3, <1>9, <1>10, <1>11, <1>12

\* An access takes filterLock before it gives up the cache's lock.
LEMMA EndTerminalStep ==
  ASSUME SInv, FInv, NEW t \in Cores, EndTerminal(t)
  PROVE  SInv' /\ FInv'
  <1>1. PICK f : f = Top(t)
    OBVIOUS
  <1>2. /\ At(t, "access", "end") /\ f.child = None /\ filterLock[t] = None /\ EndAccess(t)
        /\ filterLock' = [filterLock EXCEPT ![t] = t] /\ filling' = [filling EXCEPT ![t] = f]
        /\ rdAddr' = rdAddr /\ wrAddr' = wrAddr
    BY <1>1 DEF EndTerminal
  <1>3. SInv'
    BY <1>2, StoresStep DEF Step
  <1>4. /\ f \in AccFrame /\ f.a \in Addrs /\ Granted(t, f.a, f.type)' /\ ~Busy(t)'
        /\ array' = array /\ bcc' = bcc
        /\ \A u \in Cores : u # t => stack'[u] = stack[u]
    BY <1>1, <1>2, Ended DEF SInv
  <1>5. f # None
    BY <1>4, NoneAssumption
  <1>6. FilterTypes /\ Fills /\ Holders /\ \A u \in Cores : CoherentAt(u)
    BY FilterParts
  <1>7. /\ filterLock'[t] = t /\ filling'[t] = f
        /\ \A u \in Cores : u # t => filterLock'[u] = filterLock[u] /\ filling'[u] = filling[u]
    BY <1>2, <1>6 DEF FilterTypes
  <1>8. FilterTypes'
    BY <1>2, <1>4, <1>6 DEF FilterTypes
  <1>9. ASSUME NEW u \in Cores
        PROVE  FillAt(u)' /\ CoherentAt(u)'
    <2>1. CASE u # t
      BY <1>2, <1>4, <1>6, <1>7, <2>1, Untouched DEF Fills
    <2>2. CASE u = t
      <3>1. FillAt(u)'
        BY <1>4, <1>7, <2>2 DEF FillAt
      <3>2. CoherentAt(u)'
        BY <1>5, <1>7, <2>2 DEF CoherentAt, Idle
      <3>3. QED
        BY <3>1, <3>2
    <2>3. QED
      BY <2>1, <2>2
  <1>10. ASSUME NEW c \in Cores, NEW u \in Cores
         PROVE  HolderAt(c, u)'
    <2>1. CASE c = t
      BY <1>5, <1>7, <2>1 DEF HolderAt
    <2>2. CASE c # t /\ u # t
      BY <1>2, <1>4, <1>6, <1>7, <2>2, UntouchedHolder DEF Holders
    <2>3. CASE c # t /\ u = t
      <3>1. HolderAt(c, t) /\ ~At(t, "inv", "down")
        BY <1>2, <1>6 DEF Holders, At
      <3>2. filterLock[c] # t
        BY <2>3, <3>1 DEF HolderAt
      <3>3. QED
        BY <1>7, <2>3, <3>2 DEF HolderAt
    <2>4. QED
      BY <2>1, <2>2, <2>3
  <1>11. QED
    BY <1>3, <1>8, <1>9, <1>10, FilterParts DEF Fills, Holders

\* replace enters a line that the cache behind the filter still has.
LEMMA ReplaceEndStep ==
  ASSUME SInv, FInv, NEW t \in Cores, ReplaceEnd(t)
  PROVE  SInv' /\ FInv'
  <1>1. PICK f : f = filling[t]
    OBVIOUS
  <1>2. /\ f # None
        /\ wrAddr' = [wrAddr EXCEPT ![t] = Writable(f)] /\ rdAddr' = [rdAddr EXCEPT ![t] = f.a]
        /\ filling' = [filling EXCEPT ![t] = None] /\ filterLock' = [filterLock EXCEPT ![t] = None]
        /\ UNCHANGED vars
    BY <1>1 DEF ReplaceEnd
  <1>3. array' = array /\ bcc' = bcc /\ stack' = stack
    BY <1>2 DEF vars
  <1>4. SInv'
    BY <1>2, StoresSame DEF SInv, IInv, Types, TypeOK, vars
  <1>5. FilterTypes /\ Fills /\ Holders /\ \A u \in Cores : CoherentAt(u)
    BY FilterParts
  <1>6. f \in AccFrame /\ Granted(t, f.a, f.type) /\ f.a \in Addrs
    <2>1. f \in AccFrame
      BY <1>1, <1>2, <1>5 DEF FilterTypes
    <2>2. QED
      BY <1>1, <1>2, <1>5, <2>1 DEF Fills, FillAt, AccFrame
  <1>7. /\ rdAddr'[t] = f.a /\ wrAddr'[t] = Writable(f) /\ filling'[t] = None
        /\ filterLock'[t] = None
        /\ \A u \in Cores : u # t =>
             /\ rdAddr'[u] = rdAddr[u] /\ wrAddr'[u] = wrAddr[u]
             /\ filterLock'[u] = filterLock[u] /\ filling'[u] = filling[u]
    BY <1>2, <1>5 DEF FilterTypes
  <1>8. Writable(f) \in {f.a, None}
    BY DEF Writable
  <1>9. FilterTypes'
    <2>1. /\ rdAddr' \in [Cores -> Addrs \cup {None}] /\ wrAddr' \in [Cores -> Addrs \cup {None}]
          /\ filterLock' \in [Cores -> Cores \cup {None}]
          /\ filling' \in [Cores -> AccFrame \cup {None}]
      BY <1>2, <1>5, <1>6, <1>8 DEF FilterTypes
    <2>2. QED
      BY <1>5, <1>7, <1>8, <2>1 DEF FilterTypes
  <1>10. ASSUME NEW u \in Cores
         PROVE  FillAt(u)' /\ CoherentAt(u)'
    <2>1. CASE u # t
      BY <1>3, <1>5, <1>7, <2>1, Untouched DEF Fills
    <2>2. CASE u = t
      <3>1. FillAt(u)'
        BY <1>7, <2>2 DEF FillAt
      <3>2. Valid(t, f.a)' /\ (f.type = "GETX" => StateOf(t, f.a)' = "M")
        BY <1>3, <1>6, SameLines DEF Granted
      <3>3. CASE f.type = "GETX"
        <4>1. wrAddr'[t] = f.a
          BY <1>7, <3>3 DEF Writable
        <4>2. QED
          BY <1>7, <2>2, <3>1, <3>2, <3>3, <4>1 DEF CoherentAt
      <3>4. CASE f.type # "GETX"
        <4>1. wrAddr'[t] = None
          BY <1>7, <3>4 DEF Writable
        <4>2. QED
          BY <1>7, <2>2, <3>1, <3>2, <4>1 DEF CoherentAt
      <3>5. QED
        BY <3>3, <3>4
    <2>3. QED
      BY <2>1, <2>2
  <1>11. ASSUME NEW c \in Cores, NEW u \in Cores
         PROVE  HolderAt(c, u)'
    <2>1. CASE c # t
      BY <1>3, <1>5, <1>7, <2>1, UntouchedHolder DEF Holders
    <2>2. CASE c = t
      BY <1>7, <2>2, CoreFacts DEF HolderAt
    <2>3. QED
      BY <2>1, <2>2
  <1>12. QED
    BY <1>4, <1>9, <1>10, <1>11, FilterParts DEF Fills, Holders

\* An invalidation clears the entry before the line goes; with one process it always matches.
LEMMA FilterInvalidateStep ==
  ASSUME OneProcess, SInv, FInv, NEW t \in Cores, FilterInvalidate(t)
  PROVE  SInv' /\ FInv'
  <1>1. PICK f, k : f = Top(t) /\ k = f.c
    OBVIOUS
  <1>2. /\ At(t, "inv", "down") /\ k \in Cores /\ filterLock[k] = None
        /\ filterLock' = [filterLock EXCEPT ![k] = t]
        /\ rdAddr' = [rdAddr EXCEPT ![k] = IF Matches(t, k, f.a) THEN None ELSE @]
        /\ wrAddr' = [wrAddr EXCEPT ![k] = IF Matches(t, k, f.a) THEN None ELSE @]
        /\ filling' = filling /\ UNCHANGED vars
    BY <1>1 DEF FilterInvalidate, Cores
  <1>3. array' = array /\ bcc' = bcc /\ stack' = stack
    BY <1>2 DEF vars
  <1>4. SInv'
    BY <1>2, StoresSame DEF SInv, IInv, Types, TypeOK, vars
  <1>5. FilterTypes /\ Fills /\ Holders /\ \A u \in Cores : CoherentAt(u)
    BY FilterParts
  <1>6. f.a \in Addrs /\ Top(t)' = f /\ At(t, "inv", "down")'
    <2>1. Types /\ Busy(t)
      BY <1>2 DEF SInv, IInv, At
    <2>2. f.a \in Addrs
      BY <1>1, <2>1, TopFacts, FrameTypes
    <2>3. QED
      BY <1>1, <1>2, <1>3, <2>2 DEF At, Busy, Top
  <1>7. Matches(t, k, f.a) <=> rdAddr[k] = f.a
    BY <1>2 DEF Matches, OneProcess
  <1>8. /\ filterLock'[k] = t
        /\ rdAddr'[k] = IF rdAddr[k] = f.a THEN None ELSE rdAddr[k]
        /\ wrAddr'[k] = IF rdAddr[k] = f.a THEN None ELSE wrAddr[k]
        /\ \A u \in Cores : u # k =>
             rdAddr'[u] = rdAddr[u] /\ wrAddr'[u] = wrAddr[u] /\ filterLock'[u] = filterLock[u]
    BY <1>2, <1>5, <1>7 DEF FilterTypes
  <1>9. FilterTypes'
    <2>1. /\ rdAddr' \in [Cores -> Addrs \cup {None}] /\ wrAddr' \in [Cores -> Addrs \cup {None}]
          /\ filterLock' \in [Cores -> Cores \cup {None}]
      BY <1>2, <1>5 DEF FilterTypes
    <2>2. \A u \in Cores : wrAddr'[u] # None => wrAddr'[u] = rdAddr'[u]
      BY <1>5, <1>8 DEF FilterTypes
    <2>3. QED
      BY <1>2, <1>5, <2>1, <2>2 DEF FilterTypes
  <1>10. filling[k] = None
    BY <1>2, <1>5, CoreFacts DEF Fills, FillAt
  <1>11. ASSUME NEW u \in Cores
         PROVE  FillAt(u)' /\ CoherentAt(u)'
    <2>1. CASE u # k
      BY <1>2, <1>3, <1>5, <1>8, <2>1, Untouched DEF Fills
    <2>2. CASE u = k
      <3>1. FillAt(u)'
        BY <1>2, <1>10, <2>2 DEF FillAt
      <3>2. CASE rdAddr[k] = f.a
        BY <1>8, <2>2, <3>1, <3>2 DEF CoherentAt
      <3>3. CASE rdAddr[k] # f.a
        BY <1>2, <1>3, <1>5, <1>8, <2>2, <3>1, <3>3, Untouched
      <3>4. QED
        BY <3>2, <3>3
    <2>3. QED
      BY <2>1, <2>2
  <1>12. ASSUME NEW c \in Cores, NEW u \in Cores
         PROVE  HolderAt(c, u)'
    <2>1. CASE c # k
      BY <1>2, <1>3, <1>5, <1>8, <2>1, UntouchedHolder DEF Holders
    <2>2. CASE c = k /\ u = t
      <3>1. rdAddr'[k] # f.a
        BY <1>6, <1>8, CoreFacts
      <3>2. QED
        BY <1>1, <1>6, <2>2, <3>1 DEF HolderAt
    <2>3. CASE c = k /\ u # t
      BY <1>8, <2>3 DEF HolderAt
    <2>4. QED
      BY <2>1, <2>2, <2>3
  <1>13. QED
    BY <1>4, <1>9, <1>11, <1>12, FilterParts DEF Fills, Holders

\* The line that an invalidation takes from a terminal cache is not in the filter.
LEMMA FinishTerminalStep ==
  ASSUME SInv, FInv, NEW t \in Cores, FinishTerminal(t)
  PROVE  SInv' /\ FInv'
  <1>1. PICK f, k, n : f = Top(t) /\ k = f.c /\ n = Len(stack[t])
    OBVIOUS
  <1>2. /\ At(t, "inv", "down") /\ k \in Cores /\ filterLock[k] = t /\ FinishInvalidate(t)
        /\ filterLock' = [filterLock EXCEPT ![k] = None]
        /\ rdAddr' = rdAddr /\ wrAddr' = wrAddr /\ filling' = filling
    BY <1>1 DEF FinishTerminal, Cores
  <1>3. IInv /\ Step(t) /\ Types /\ Linked /\ Consistent /\ Directory /\ Busy(t)
    BY <1>2, InvParts DEF SInv, IInv, Step, At
  <1>4. SInv'
    BY <1>3, StoresStep
  <1>5. FilterTypes /\ Fills /\ Holders /\ \A u \in Cores : CoherentAt(u)
    BY FilterParts
  <1>6. filterLock'[k] = None /\ \A u \in Cores : u # k => filterLock'[u] = filterLock[u]
    BY <1>2, <1>5 DEF FilterTypes
  <1>7. FilterTypes'
    BY <1>2, <1>5 DEF FilterTypes
  <1>8. Busy(t)' /\ \A u \in Cores : u # t => stack'[u] = stack[u]
    <2>1. ~(At(t, "access", "end") /\ Top(t).child = None)
      BY <1>2 DEF At
    <2>2. QED
      BY <1>3, <2>1, StillBusy, OthersStack
  <1>9. \A u \in Cores : u # t /\ u # k => array'[u] = array[u] /\ bcc'[u] = bcc[u]
    BY <1>1, <1>3, LeafWrites, SMTT(30)
  <1>10. /\ k \in Caches /\ f.slot \in Slots(k) /\ array[k][f.slot] = f.a
         /\ array' = array /\ \E v : Becomes(k, f.slot, v)
    <2>1. k \in Caches /\ f.slot \in Slots(k) /\ n \in Frames(t) /\ f = stack[t][n] /\ f.fn = "inv"
          /\ f.pc = "down"
      BY <1>1, <1>2, <1>3, InvalidateLine
    <2>2. array[k][f.slot] = f.a
      BY <1>1, <1>3, <2>1 DEF Consistent, Content, ContentAt, FrameLine
    <2>3. QED
      BY <1>1, <1>2, <2>1, <2>2 DEF FinishInvalidate, Becomes
  <1>11. \A a : a # f.a => StateOf(k, a)' = StateOf(k, a) /\ (Valid(k, a)' <=> Valid(k, a))
    BY <1>3, <1>10, OtherLines
  <1>12. ASSUME NEW u \in Cores
         PROVE  FillAt(u)' /\ CoherentAt(u)'
    <2>1. CASE u # t /\ u # k
      BY <1>2, <1>5, <1>6, <1>8, <1>9, <2>1, Untouched DEF Fills
    <2>2. CASE u = t
      <3>1. FillAt(u)'
        BY <1>2, <1>3, <1>5, <2>2 DEF Fills, FillAt
      <3>2. CoherentAt(u)'
        BY <1>8, <2>2 DEF CoherentAt, Idle
      <3>3. QED
        BY <3>1, <3>2
    <2>3. CASE u = k /\ u # t
      <3>1. filling[k] = None
        BY <1>2, <1>5, <2>3 DEF Fills, FillAt
      <3>2. FillAt(u)'
        BY <1>2, <2>3, <3>1 DEF FillAt
      <3>3. rdAddr[k] # f.a
        BY <1>1, <1>2, <1>5, <3>1 DEF Holders, HolderAt
      <3>4. PICK r, w : r = rdAddr[k] /\ r = rdAddr'[k] /\ w = wrAddr[k] /\ w = wrAddr'[k]
        BY <1>2
      <3>5. w # None => w = r
        BY <1>2, <1>5, <3>4 DEF FilterTypes
      <3>6. /\ Valid(k, r)' <=> Valid(k, r)
            /\ w # None => StateOf(k, w)' = StateOf(k, w)
        BY <1>11, <3>3, <3>4, <3>5
      <3>7. Idle(k)' <=> Idle(k)
        BY <1>2, <1>8, <2>3 DEF Idle, Busy
      <3>8. CoherentAt(k)
        BY <1>2, <1>5
      <3>9. CoherentAt(k)'
        BY <3>4, <3>6, <3>7, <3>8 DEF CoherentAt
      <3>10. QED
        BY <2>3, <3>2, <3>9
    <2>4. QED
      BY <2>1, <2>2, <2>3
  <1>13. ASSUME NEW c \in Cores, NEW u \in Cores
         PROVE  HolderAt(c, u)'
    <2>1. CASE c = k
      BY <1>6, <2>1, CoreFacts DEF HolderAt
    <2>2. CASE c # k /\ u # t
      BY <1>2, <1>5, <1>6, <1>8, <2>2, UntouchedHolder DEF Holders
    <2>3. CASE c # k /\ u = t
      <3>1. HolderAt(c, t)
        BY <1>5 DEF Holders
      <3>2. filterLock[c] = t => filling[c] # None /\ t = c
        BY <1>1, <2>3, <3>1 DEF HolderAt
      <3>3. QED
        BY <1>2, <1>6, <2>3, <3>2 DEF HolderAt
    <2>4. QED
      BY <2>1, <2>2, <2>3
  <1>14. QED
    BY <1>4, <1>7, <1>12, <1>13, FilterParts DEF Fills, Holders

\* The filters start empty.
LEMMA FilterInitInvariant ==
  ASSUME FilterInit
  PROVE  SInv /\ FInv
  <1>1. /\ Init /\ rdAddr = [t \in Cores |-> None] /\ wrAddr = [t \in Cores |-> None]
        /\ filterLock = [t \in Cores |-> None] /\ filling = [t \in Cores |-> None]
    BY DEF FilterInit
  <1>2. SInv
    BY <1>1, InitStores
  <1>3. FilterTypes
    BY <1>1 DEF FilterTypes
  <1>4. \A u \in Cores : FillAt(u) /\ CoherentAt(u)
    BY <1>1 DEF FillAt, CoherentAt
  <1>5. \A c, u \in Cores : HolderAt(c, u)
    BY <1>1, CoreFacts DEF HolderAt
  <1>6. QED
    BY <1>2, <1>3, <1>4, <1>5, FilterParts DEF Fills, Holders

\* Every step of a core preserves the invariant of the stores and that of the filters.
LEMMA FilterNextInvariant ==
  ASSUME OneProcess, SInv, FInv, [FilterNext]_allVars
  PROVE  SInv' /\ FInv'
  <1>1. CASE UNCHANGED allVars
    <2>1. UNCHANGED vars /\ UNCHANGED fvars
      BY <1>1 DEF allVars
    <2>2. UNCHANGED <<array, bcc, tcc, bccLock, tccLock, stack, issued>> /\ unsaved' = unsaved
      BY <2>1 DEF vars
    <2>3. SInv'
      BY <2>2, StoresSame DEF SInv, IInv, Types, TypeOK
    <2>4. FInv'
      BY <2>1, <2>2, FiltersSame
    <2>5. QED
      BY <2>3, <2>4
  <1>2. ASSUME NEW t \in Cores, StoreHit(t) \/ ReplaceStart(t) \/ ContextSwitch(t) \/ FilterStep(t)
        PROVE  SInv' /\ FInv'
    BY <1>2, StoreHitStep, ReplaceStartStep, ContextSwitchStep, HierarchyKeeps, EndTerminalStep,
       ReplaceEndStep, FilterInvalidateStep, FinishTerminalStep DEF FilterStep
  <1>3. QED
    BY <1>1, <1>2 DEF FilterNext

\* SInv and FInv hold of every state, when all cores run one process.
LEMMA FilterInvariant ==
  ASSUME OneProcess
  PROVE  FilterSpec => [](SInv /\ FInv)
  <1>1. FilterInit => SInv /\ FInv
    BY FilterInitInvariant
  <1>2. SInv /\ FInv /\ [FilterNext]_allVars => (SInv /\ FInv)'
    BY FilterNextInvariant
  <1>3. QED
    BY <1>1, <1>2, PTL DEF FilterSpec

\* The filter "holds the most recently used line in each set" (filter_cache.h): with threads
\* of one process, a core that looks at its filter without a lock finds there only lines that
\* the cache behind it has, and to store to only modified ones.
THEOREM FiltersCoherent ==
  ASSUME OneProcess
  PROVE  FilterSpec => []FilterCoherent
  BY FilterInvariant, PTL DEF FInv

\* No store is lost although stores hit in the filters, without a lock and without a word to
\* the caches (FilterCache::store).
THEOREM StoreHitsSafe ==
  ASSUME OneProcess
  PROVE  FilterSpec => []NoLostStore
  BY FilterInvariant, StoresFound, PTL
=============================================================================

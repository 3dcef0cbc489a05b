----------------------------- MODULE MESIProofs -----------------------------
(***************************************************************************)
(* The cache hierarchy keeps its directories exact, a single writer and    *)
(* every assertion of the controllers, for every tree of caches, every     *)
(* number of lines and every set of addresses.                             *)
(***************************************************************************)
EXTENDS MESI, TLAPS, FiniteSetTheorems, SequenceTheorems

-----------------------------------------------------------------------------
(* The tree *)

\* q is c or one of the caches above c: it is in every set that holds c and the
\* parents of its members.
Above(q, c) ==
    /\ q \in Caches
    /\ \A D \in SUBSET Caches :
         c \in D /\ (\A x \in D : Parent[x] # Mem => Parent[x] \in D) => q \in D

-----------------------------------------------------------------------------
(* Frames *)

Frames(t) == 1..Len(stack[t])

\* The frame has called the parent and not returned.
Waiting(t, n) == n < Len(stack[t]) /\ stack[t][n+1].fn = "access"

\* The frame's access has the cache's tcc lock, in a terminal cache the core itself.
Accessing(t, n) == stack[t][n].fn = "access" /\ stack[t][n].pc # "tcc"

\* The frame has the cache's bcc lock.
Owns(t, n) ==
    /\ ~Waiting(t, n)
    /\ stack[t][n].pc \notin {"tcc", "bcc"}

Types ==
    /\ TypeOK
    /\ array = [c \in Caches |-> array[c]]
    /\ bcc = [c \in Caches |-> bcc[c]]
    /\ tcc = [c \in Caches |-> tcc[c]]
    /\ stack \in [Cores -> Seq(AccFrame \cup InvFrame)]

\* The locks that the frames say they have.
Locks ==
    \A t \in Cores : \A n \in Frames(t) :
        LET f == stack[t][n]
        IN  /\ Owns(t, n) => bccLock[f.c] = t
            /\ Accessing(t, n) /\ n > 1 => tccLock[f.c] = t

\* A stack goes up the tree, and then down.
Order ==
    \A t \in Cores : \A m, n \in Frames(t) : m < n =>
        LET e == stack[t][m]
            f == stack[t][n]
        IN  /\ f.fn = "access" => e.fn = "access" /\ e.c # f.c /\ Above(f.c, e.c)
            /\ ~Waiting(t, m) => f.fn = "inv" /\ e.c # f.c /\ Above(e.c, f.c)

\* The first frame is the core's access.
FirstFrame(t, f) ==
    /\ f.fn = "access" /\ f.c = t /\ f.child = None /\ f.type \in {"GETS", "GETX"}
    /\ f.pc # "tcc" /\ f.initialState = "I"

\* Frame f is a call of the parent's access by frame e.
AccessCall(e, f) ==
    /\ e.fn = "access"
    /\ e.slot \in Slots(e.c)
    /\ Parent[e.c] # Mem /\ f.c = Parent[e.c] /\ f.child = e.c /\ f.childSlot = e.slot
    /\ array[e.c][e.slot] = f.a
    /\ IF f.type \in Puts THEN e.pc = "evput"
       ELSE /\ e.pc = IF e.c \in Leaves THEN "end" ELSE "top"
            /\ f.type = e.type /\ f.a = e.a

\* Frame f is a call of a child's invalidate by frame e of core t.
InvCall(t, e, f) ==
    /\ e.slot \in Slots(e.c)
    /\ Sending(t, e)
    /\ f.c \in Dir(e).sharers
    /\ f.type = InvTypeSent(e)
    /\ f.a = array[e.c][e.slot]

\* How frame n of core t was called
LinkedAt(t, n) ==
    LET f == stack[t][n]
    IN  IF n = 1 THEN FirstFrame(t, f)
        ELSE IF f.fn = "access" THEN AccessCall(stack[t][n-1], f)
        ELSE InvCall(t, stack[t][n-1], f)

Linked == \A t \in Cores : \A n \in Frames(t) : LinkedAt(t, n)

\* The line of a frame.
FrameLine(f) ==
    IF f.fn = "access"
    THEN /\ f.pc \in {"tcc", "bcc"} => f.slot = 0
         /\ f.pc \in {"evict", "evput", "bottom", "top"} => f.slot \in Slots(f.c)
         /\ f.pc \in {"evict", "evput"} => Holding(f.c, f.a) = {} /\ f.type \notin Puts
         /\ f.pc \in {"bottom", "top"} => array[f.c][f.slot] = f.a
         /\ f.pc = "end" =>
              \/ f.slot \in Slots(f.c) /\ array[f.c][f.slot] = f.a
              \/ f.slot = 0 /\ f.type \in Puts
         /\ f.pc = "evput" => Dir(f).sharers = {}
         /\ f.pc = "top" => f.c \notin Leaves
    ELSE f.pc = "down" => f.slot \in Slots(f.c) /\ array[f.c][f.slot] = f.a

\* What the child has of the line of a request, from the request to the answer.
RequestState(f) ==
    LET s == ChildState(f)
    IN  IF f.pc \in {"tcc", "bcc"}
        THEN CASE f.type = "GETS" -> s = "I" /\ f.initialState = "I"
               [] f.type = "GETX" -> f.initialState \in {"I", "S"} /\ s \in {"I", f.initialState}
               [] f.type = "PUTS" -> f.initialState \in {"S", "E"}
                                     /\ s \in {"I", "S", f.initialState}
               [] f.type = "PUTX" -> f.initialState = "M" /\ s \in {"I", "S", "M"}
        ELSE IF f.pc = "end"
        THEN CASE f.type \in Puts -> s = "I"
               [] f.type = "GETS" -> s \in {"S", "E"}
               [] f.type = "GETX" -> s = "M"
        ELSE CASE f.type = "GETS" -> s = "I"
               [] f.type = "GETX" -> s \in {"I", "S"}
               [] f.type = "PUTS" -> s \in {"S", "E"}
               [] f.type = "PUTX" -> s = "M"

\* What the frame's cache has of the line while the frame has the bcc lock.
OwnState(f) ==
    /\ f.pc = "evput" => State(f) = "I"
    /\ f.pc = "top" \/ (f.pc = "end" /\ f.c \in Leaves) =>
         /\ f.type = "GETS" => State(f) # "I"
         /\ f.type = "GETX" => State(f) = "M"
    /\ f.pc = "top" /\ f.type = "GETX" /\ f.child \notin Dir(f).sharers /\ ChildState(f) = "S"
         => ~isExclusive(Dir(f))

\* What frame n of core t knows
ContentAt(t, n) ==
    LET f == stack[t][n]
    IN  /\ FrameLine(f)
        /\ n > 1 /\ f.fn = "access" => RequestState(f)
        /\ f.fn = "access" /\ Owns(t, n) => OwnState(f)
        /\ f.wb /\ f.pc # "end" => Owns(t, n) /\ f.pc \in {"evict", "top", "down"}
                                   /\ State(f) \in {"E", "M"}

Content == \A t \in Cores : \A n \in Frames(t) : ContentAt(t, n)

-----------------------------------------------------------------------------
(* Lines *)

EmptyLines ==
    \A c \in Caches : \A s \in Slots(c) :
        array[c][s] = None => bcc[c][s] = "I" /\ tcc[c][s].sharers = {}

\* Frame n of core t invalidates the sharers of line r of p.
Invalidating(t, n, p, r) ==
    LET f == stack[t][n]
    IN  /\ f.c = p /\ f.slot = r /\ Owns(t, n)
        /\ \/ f.fn = "access" /\ f.pc = "evict"
           \/ f.fn = "access" /\ f.pc = "top" /\ f.type = "GETX" /\ f.child \notin Dir(f).sharers
           \/ f.fn = "inv" /\ f.type = "INV"

\* The directory entry of line r of p counts its sharers, but while they are
\* invalidated.
EntryAt(p, r) ==
    LET e == tcc[p][r]
    IN  /\ e.sharers \subseteq Children(p)
        /\ e.numSharers = 0 <=> e.sharers = {}
        /\ e.exclusive => e.numSharers \in {0, 1} /\ \A c, d \in e.sharers : c = d
        /\ \/ e.numSharers = Cardinality(e.sharers)
           \/ \E t \in Cores : \E n \in Frames(t) : Invalidating(t, n, p, r)

Entries == \A p \in Caches : \A r \in Slots(p) : EntryAt(p, r)

\* Frame n of core t is an upgrade of line s of c, taken out of the entry of line r
\* of its parent.
Upgrades(t, n, c, s, r) ==
    LET f == stack[t][n]
    IN  /\ f.fn = "access" /\ f.c = Parent[c] /\ f.child = c /\ f.slot = r /\ f.childSlot = s
        /\ f.pc = "top" /\ f.type = "GETX" /\ Owns(t, n) /\ bcc[c][s] = "S"

\* Line s of cache c and line r of its parent, which hold the same address.
Agree(c, s, r) ==
    LET p == Parent[c]
        e == tcc[p][r]
    IN  /\ c \in e.sharers => bcc[c][s] # "I" /\ (isExclusive(e) => bcc[c][s] \in {"E", "M"})
        /\ bcc[c][s] # "I" =>
             /\ bcc[p][r] # "I"
             /\ c \in e.sharers \/ \E t \in Cores : \E n \in Frames(t) : Upgrades(t, n, c, s, r)
        /\ bcc[c][s] \in {"E", "M"} =>
             bcc[p][r] \in {"E", "M"} /\ isExclusive(e) /\ c \in e.sharers

Pairs ==
    \A c \in Caches : Parent[c] # Mem =>
        \A s \in Slots(c), r \in Slots(Parent[c]) :
            array[c][s] = array[Parent[c]][r] /\ array[c][s] # None => Agree(c, s, r)

\* A valid line has a line in the parent, and a listed child has the line.
Present ==
    /\ \A c \in Caches : \A s \in Slots(c) :
         bcc[c][s] # "I" /\ Parent[c] # Mem =>
            \E r \in Slots(Parent[c]) : array[Parent[c]][r] = array[c][s]
    /\ \A p \in Caches : \A r \in Slots(p) : \A c \in tcc[p][r].sharers :
         \E s \in Slots(c) : array[c][s] = array[p][r]

IInv == /\ Types /\ Locks /\ Order /\ Linked /\ Content
        /\ UniqueLines /\ EmptyLines /\ Entries /\ Pairs /\ Present

-----------------------------------------------------------------------------
(* Facts about the tree *)

\* A cache is among the caches above it.
LEMMA AboveSelf ==
  ASSUME NEW c \in Caches
  PROVE  Above(c, c)
  BY DEF Above

\* The parent of a cache above c is above c.
LEMMA AboveParent ==
  ASSUME NEW q, NEW c, Above(q, c), Parent[q] # Mem
  PROVE  Above(Parent[q], c)
  BY TreeAssumption DEF Above

\* What is above the parent is above the child.
LEMMA AboveChild ==
  ASSUME NEW q, NEW c \in Caches, Parent[c] # Mem, Above(q, Parent[c])
  PROVE  Above(q, c)
  BY TreeAssumption DEF Above

\* A cache above c is c or above c's parent.
LEMMA AboveSplit ==
  ASSUME NEW q, NEW c \in Caches, Above(q, c), q # c
  PROVE  Parent[c] # Mem /\ Above(q, Parent[c])
  <1> DEFINE D == {c} \cup {x \in Caches : Parent[c] # Mem /\ Above(x, Parent[c])}
  <1>1. D \in SUBSET Caches /\ c \in D
    OBVIOUS
  <1>2. ASSUME NEW x \in D, Parent[x] # Mem
        PROVE  Parent[x] \in D
    <2>1. Parent[x] \in Caches
      BY <1>2, TreeAssumption
    <2>2. CASE x = c
      BY <2>1, <2>2, <1>2, AboveSelf
    <2>3. CASE x # c
      BY <2>1, <2>3, <1>2, AboveParent
    <2>4. QED
      BY <2>2, <2>3
  <1>3. q \in D
    BY <1>1, <1>2 DEF Above
  <1>4. QED
    BY <1>3

\* The path from q down to c starts at a child of q.
LEMMA AboveStep ==
  ASSUME NEW q, NEW c \in Caches, Above(q, c), q # c
  PROVE  \E k \in Children(q) : Above(k, c)
  <1> DEFINE D == {c} \cup {x \in Caches : \E k \in Children(x) : Above(k, c)}
  <1>1. D \in SUBSET Caches /\ c \in D
    OBVIOUS
  <1>2. ASSUME NEW x \in D, Parent[x] # Mem
        PROVE  Parent[x] \in D
    <2>1. Parent[x] \in Caches /\ x \in Caches /\ x \in Children(Parent[x])
      BY <1>2, TreeAssumption DEF Children
    <2>2. Above(x, c)
      <3>1. CASE x = c
        BY <3>1, AboveSelf
      <3>2. CASE x # c
        <4>1. PICK k \in Children(x) : Above(k, c)
          BY <3>2
        <4>2. Parent[k] = x /\ x # Mem
          BY <2>1, ConstantsAssumption DEF Children
        <4>3. QED
          BY <4>1, <4>2, AboveParent
      <3>3. QED
        BY <3>1, <3>2
    <2>3. QED
      BY <2>1, <2>2
  <1>3. q \in D
    BY <1>1, <1>2 DEF Above
  <1>4. QED
    BY <1>3

\* The last-level cache is above every cache.
LEMMA OneRoot ==
  \E llc \in Caches : Parent[llc] = Mem /\ \A c \in Caches : Above(llc, c)
  <1>1. PICK llc \in Caches :
          /\ Parent[llc] = Mem
          /\ \A built \in SUBSET Caches :
               llc \in built /\ (\A c \in Caches : Parent[c] \in built => c \in built)
                 => built = Caches
    BY TreeAssumption
  <1> DEFINE B == {c \in Caches : Above(llc, c)}
  <1>2. llc \in B
    BY AboveSelf
  <1>3. ASSUME NEW c \in Caches, Parent[c] \in B
        PROVE  c \in B
    BY <1>3, AboveChild, ConstantsAssumption
  <1>4. B = Caches
    BY <1>1, <1>2, <1>3
  <1>5. QED
    BY <1>1, <1>4

\* No cache is its own parent.
LEMMA NoLoop ==
  ASSUME NEW c \in Caches
  PROVE  Parent[c] # c
  <1>1. PICK llc \in Caches :
          /\ Parent[llc] = Mem
          /\ \A built \in SUBSET Caches :
               llc \in built /\ (\A x \in Caches : Parent[x] \in built => x \in built)
                 => built = Caches
    BY TreeAssumption
  <1>2. SUFFICES ASSUME Parent[c] = c PROVE FALSE
    OBVIOUS
  <1> DEFINE B == Caches \ {c}
  <1>3. llc \in B
    BY <1>1, <1>2, ConstantsAssumption
  <1>4. \A x \in Caches : Parent[x] \in B => x \in B
    BY <1>2
  <1>5. B = Caches
    BY <1>1, <1>3, <1>4
  <1>6. QED
    BY <1>5

\* Two caches are not above each other.
LEMMA AboveAntisymmetric ==
  ASSUME NEW c \in Caches, NEW d \in Caches, Above(c, d), Above(d, c)
  PROVE  c = d
  <1>1. PICK llc \in Caches :
          /\ Parent[llc] = Mem
          /\ \A built \in SUBSET Caches :
               llc \in built /\ (\A x \in Caches : Parent[x] \in built => x \in built)
                 => built = Caches
    BY TreeAssumption
  <1> DEFINE B == {x \in Caches : \A y \in Caches : Above(y, x) /\ Above(x, y) => y = x}
  <1>2. llc \in B
    BY <1>1, AboveSplit
  <1>3. ASSUME NEW x \in Caches, Parent[x] \in B
        PROVE  x \in B
    <2> DEFINE p == Parent[x]
    <2>1. p \in Caches /\ p # Mem /\ p # x
      BY <1>3, NoLoop, ConstantsAssumption
    <2>2. Above(p, x)
      BY <2>1, AboveSelf, AboveChild
    <2>3. SUFFICES ASSUME NEW y \in Caches, Above(y, x), Above(x, y), y # x
                   PROVE  FALSE
      OBVIOUS
    <2>4. Above(y, p) /\ Above(p, y)
      BY <2>1, <2>3, AboveSplit, AboveParent
    <2>5. y = p
      BY <1>3, <2>4
    <2>6. Above(x, p) /\ Above(p, x)
      BY <2>2, <2>3, <2>5
    <2>7. QED
      BY <1>3, <2>1, <2>6
  <1>4. B = Caches
    BY <1>1, <1>2, <1>3
  <1>5. QED
    BY <1>4

\* The parent is another cache, above c and not below it.
LEMMA ParentAbove ==
  ASSUME NEW c \in Caches, Parent[c] # Mem
  PROVE  /\ Parent[c] \in Caches /\ Parent[c] # c /\ Above(Parent[c], c)
         /\ \A d \in Caches : Above(c, d) => Parent[c] # d
         /\ \A d \in Caches : Above(d, Parent[c]) => c # d
  <1>1. Parent[c] \in Caches /\ Parent[c] # c /\ Above(Parent[c], c)
    BY TreeAssumption, NoLoop, AboveSelf, AboveParent
  <1>2. QED
    BY <1>1, AboveAntisymmetric

-----------------------------------------------------------------------------
(* Facts about stacks *)

Frame == AccFrame \cup InvFrame

\* The first frame, or one that another has called
LEMMA NatOne ==
  ASSUME NEW n \in Nat, n > 0
  PROVE  n = 1 \/ n > 1
  OBVIOUS

\* The frames of a stack whose top was replaced
LEMMA ReplacedFacts ==
  ASSUME NEW s \in Seq(Frame), s # <<>>, NEW f \in Frame
  PROVE  /\ Replaced(s, f) \in Seq(Frame)
         /\ Len(Replaced(s, f)) = Len(s)
         /\ Len(s) \in Nat /\ Len(s) > 0
         /\ Replaced(s, f)[Len(s)] = f
         /\ \A m \in 1..Len(s) : m # Len(s) => Replaced(s, f)[m] = s[m]
  <1>1. Len(s) \in 1..Len(s) /\ Len(s) \in Nat
    BY EmptySeq, LenProperties
  <1>2. Replaced(s, f) \in Seq(Frame) /\ Len(Replaced(s, f)) = Len(s)
    BY ExceptSeq, <1>1 DEF Replaced
  <1>3. \A m \in 1..Len(s) : Replaced(s, f)[m] = IF m = Len(s) THEN f ELSE s[m]
    BY ExceptSeq, <1>1 DEF Replaced
  <1>4. QED
    BY <1>1, <1>2, <1>3

\* The frames of a stack without its top
LEMMA PoppedFacts ==
  ASSUME NEW s \in Seq(Frame), s # <<>>
  PROVE  /\ Popped(s) \in Seq(Frame)
         /\ Len(s) \in Nat /\ Len(s) > 0
         /\ Len(Popped(s)) = Len(s) - 1
         /\ \A m \in 1..Len(s)-1 : Popped(s)[m] = s[m]
  <1>1. Len(s) \in Nat /\ Len(s) > 0
    BY EmptySeq, LenProperties
  <1>2. QED
    BY <1>1, SubSeqProperties, SMTT(30) DEF Popped

\* The frames of a stack with a new top
LEMMA AppendFacts ==
  ASSUME NEW s \in Seq(Frame), NEW g \in Frame
  PROVE  /\ Append(s, g) \in Seq(Frame)
         /\ Len(s) \in Nat
         /\ Len(Append(s, g)) = Len(s) + 1
         /\ Append(s, g)[Len(s) + 1] = g
         /\ \A m \in 1..Len(s) : Append(s, g)[m] = s[m]
  BY AppendProperties, LenProperties

\* The fields of frames
LEMMA FrameTypes ==
  ASSUME NEW f \in Frame
  PROVE  /\ f.fn \in {"access", "inv"} /\ f.c \in Caches /\ f.a \in Addrs /\ f.slot \in Nat
         /\ f.wb \in BOOLEAN
         /\ f.fn = "access" =>
              /\ f \in AccFrame
              /\ f.child \in Caches \cup {None} /\ f.childSlot \in Nat
              /\ f.type \in {"GETS", "GETX", "PUTS", "PUTX"} /\ f.initialState \in MESIState
              /\ f.pc \in {"tcc", "bcc", "evict", "evput", "bottom", "top", "end"}
         /\ f.fn = "inv" =>
              f \in InvFrame /\ f.type \in {"INV", "INVX"} /\ f.pc \in {"bcc", "down"}
  BY DEF Frame, AccFrame, InvFrame, Puts

\* A frame in a stack
LEMMA InStack ==
  ASSUME Types, NEW t \in Cores, NEW n \in Frames(t)
  PROVE  /\ stack[t][n] \in Frame
         /\ stack[t] \in Seq(Frame) /\ stack[t] # <<>> /\ Len(stack[t]) \in Nat
         /\ n \in Nat /\ n > 0 /\ n <= Len(stack[t])
         /\ n > 1 => n-1 \in Frames(t)
         /\ n < Len(stack[t]) => n+1 \in Frames(t)
  <1>1. stack[t] \in Seq(Frame)
    BY DEF Types, Frame
  <1>2. Len(stack[t]) \in Nat
    BY <1>1, LenProperties
  <1>3. stack[t] # <<>>
    BY <1>1, <1>2, EmptySeq DEF Frames
  <1>4. QED
    BY <1>1, <1>2, <1>3, ElementOfSeq DEF Frames

\* The top frame of a busy thread
LEMMA TopFacts ==
  ASSUME Types, NEW t \in Cores, Busy(t)
  PROVE  /\ Len(stack[t]) \in Frames(t)
         /\ Top(t) = stack[t][Len(stack[t])] /\ Top(t) \in Frame
         /\ stack[t] \in Seq(Frame) /\ Len(stack[t]) \in Nat
         /\ ~Waiting(t, Len(stack[t]))
  <1>1. stack[t] \in Seq(Frame)
    BY DEF Types, Frame
  <1>2. Len(stack[t]) \in Nat /\ Len(stack[t]) > 0
    BY <1>1, LenProperties, EmptySeq DEF Busy
  <1>3. Len(stack[t]) \in Frames(t)
    BY <1>2 DEF Frames
  <1>4. QED
    BY <1>1, <1>2, <1>3, InStack DEF Top, Waiting

-----------------------------------------------------------------------------
(* Effects of the steps on the stacks *)

\* Core t's stack has m frames more, up to the old top the same ones but for the top,
\* which is f; the others keep theirs.
Changed(t, f) ==
    /\ \A u \in Cores : u # t => stack'[u] = stack[u]
    /\ \A m \in Frames(t) : m # Len(stack[t]) => stack'[t][m] = stack[t][m]
    /\ stack'[t][Len(stack[t])] = f
    /\ stack' \in [Cores -> Seq(Frame)]

\* Become leaves all frames alone but the top.
LEMMA BecomeEffect ==
  ASSUME Types, NEW t \in Cores, Busy(t), NEW f \in Frame, Become(t, f)
  PROVE  Changed(t, f) /\ Len(stack'[t]) = Len(stack[t])
  <1>1. stack \in [Cores -> Seq(Frame)] /\ stack[t] \in Seq(Frame) /\ stack[t] # <<>>
    BY DEF Types, Frame, Busy
  <1>2. stack' = [stack EXCEPT ![t] = Replaced(stack[t], f)]
    BY DEF Become
  <1>3. QED
    BY <1>1, <1>2, ReplacedFacts DEF Changed, Frames

\* Call leaves the frames alone and adds one.
LEMMA CallEffect ==
  ASSUME Types, NEW t \in Cores, Busy(t), NEW f \in Frame, NEW g \in Frame, Call(t, f, g)
  PROVE  /\ Changed(t, f) /\ Len(stack'[t]) = Len(stack[t]) + 1
         /\ stack'[t][Len(stack[t]) + 1] = g
  <1>1. stack \in [Cores -> Seq(Frame)] /\ stack[t] \in Seq(Frame) /\ stack[t] # <<>>
    BY DEF Types, Frame, Busy
  <1> DEFINE s == Replaced(stack[t], f)
  <1>2. stack' = [stack EXCEPT ![t] = Append(s, g)]
    BY DEF Call
  <1>0. \A x \in Seq(Frame) : x # <<>> =>
          /\ Replaced(x, f) \in Seq(Frame)
          /\ Len(Replaced(x, f)) = Len(x)
          /\ Len(x) \in Nat /\ Len(x) > 0
          /\ Replaced(x, f)[Len(x)] = f
          /\ \A m \in 1..Len(x) : m # Len(x) => Replaced(x, f)[m] = x[m]
    BY ReplacedFacts
  <1>3. /\ s \in Seq(Frame) /\ Len(s) = Len(stack[t]) /\ Len(s) \in Nat /\ Len(s) > 0
        /\ s[Len(s)] = f /\ \A m \in 1..Len(s) : m # Len(s) => s[m] = stack[t][m]
    BY <1>0, <1>1
  <1> HIDE DEF s
  <1>4. /\ Append(s, g) \in Seq(Frame) /\ Len(Append(s, g)) = Len(s) + 1
        /\ Append(s, g)[Len(s) + 1] = g
        /\ \A m \in 1..Len(s) : Append(s, g)[m] = s[m]
    BY <1>3, AppendFacts
  <1>5. stack'[t] = Append(s, g) /\ \A u \in Cores : u # t => stack'[u] = stack[u]
    BY <1>1, <1>2
  <1>6. stack' \in [Cores -> Seq(Frame)]
    BY <1>1, <1>2, <1>4
  <1>7. QED
    BY <1>3, <1>4, <1>5, <1>6 DEF Changed, Frames

\* A return removes the top frame.
LEMMA PopEffect ==
  ASSUME Types, NEW t \in Cores, Busy(t), stack' = [stack EXCEPT ![t] = Popped(@)]
  PROVE  /\ \A u \in Cores : u # t => stack'[u] = stack[u]
         /\ Len(stack'[t]) = Len(stack[t]) - 1
         /\ \A m \in 1..Len(stack[t])-1 : stack'[t][m] = stack[t][m]
         /\ stack' \in [Cores -> Seq(Frame)]
  <1>1. stack \in [Cores -> Seq(Frame)] /\ stack[t] \in Seq(Frame) /\ stack[t] # <<>>
    BY DEF Types, Frame, Busy
  <1>2. QED
    BY <1>1, PoppedFacts

\* A return that hands something to its caller changes the caller's frame.
LEMMA ReturnEffect ==
  ASSUME Types, NEW t \in Cores, Busy(t), Len(stack[t]) > 1, NEW g \in Frame,
         stack' = [stack EXCEPT ![t] = Replaced(Popped(@), g)]
  PROVE  /\ \A u \in Cores : u # t => stack'[u] = stack[u]
         /\ Len(stack'[t]) = Len(stack[t]) - 1
         /\ stack'[t][Len(stack[t]) - 1] = g
         /\ \A m \in 1..Len(stack[t])-1 : m # Len(stack[t]) - 1 => stack'[t][m] = stack[t][m]
         /\ stack' \in [Cores -> Seq(Frame)]
  <1>1. stack \in [Cores -> Seq(Frame)] /\ stack[t] \in Seq(Frame) /\ stack[t] # <<>>
    BY DEF Types, Frame, Busy
  <1> DEFINE s == Popped(stack[t])
  <1>2. /\ s \in Seq(Frame) /\ Len(stack[t]) \in Nat /\ Len(s) = Len(stack[t]) - 1
        /\ \A m \in 1..Len(stack[t])-1 : s[m] = stack[t][m]
    BY <1>1, PoppedFacts
  <1>3. stack' = [stack EXCEPT ![t] = Replaced(s, g)]
    OBVIOUS
  <1> HIDE DEF s
  <1>4. s # <<>>
    BY <1>2, EmptySeq
  <1>5. /\ Replaced(s, g) \in Seq(Frame) /\ Len(Replaced(s, g)) = Len(s)
        /\ Replaced(s, g)[Len(s)] = g
        /\ \A m \in 1..Len(s) : m # Len(s) => Replaced(s, g)[m] = s[m]
    BY <1>2, <1>4, ReplacedFacts
  <1>6. stack'[t] = Replaced(s, g) /\ \A u \in Cores : u # t => stack'[u] = stack[u]
    BY <1>1, <1>3
  <1>7. stack' \in [Cores -> Seq(Frame)]
    BY <1>1, <1>3, <1>5
  <1>8. QED
    BY <1>2, <1>5, <1>6, <1>7

-----------------------------------------------------------------------------
(* Who may touch a cache *)

\* Cores are caches, and a core's name is not the name of a parent.
LEMMA CoreFacts ==
  /\ Cores \subseteq Caches
  /\ \A c \in Caches : Parent[c] \notin Cores
  /\ \A c \in Caches : Parent[c] # Mem => Parent[c] \in Caches /\ c \in Children(Parent[c])
  /\ None \notin Caches /\ Mem \notin Caches /\ None \notin Cores /\ None \notin Addrs
  <1>1. \A c \in Caches : Parent[c] # Mem => Parent[c] \in Caches /\ c \in Children(Parent[c])
    BY TreeAssumption DEF Children
  <1>2. QED
    BY <1>1, TreeAssumption, ConstantsAssumption DEF Cores, Leaves, Children

\* The frame below a call
LEMMA CallerFacts ==
  ASSUME Types, Linked, NEW t \in Cores, NEW n \in Frames(t), n > 1
  PROVE  LET f == stack[t][n]
             e == stack[t][n-1]
         IN  /\ n-1 \in Frames(t) /\ e \in Frame /\ f \in Frame
             /\ f.fn = "access" => AccessCall(e, f) /\ Waiting(t, n-1) /\ Accessing(t, n-1)
             /\ f.fn = "inv" => InvCall(t, e, f) /\ Owns(t, n-1)
  <1>1. /\ n-1 \in Frames(t) /\ stack[t][n-1] \in Frame /\ stack[t][n] \in Frame
        /\ n \in Nat /\ n <= Len(stack[t]) /\ Len(stack[t]) \in Nat /\ (n-1)+1 = n
    BY InStack
  <1>2. LinkedAt(t, n)
    BY DEF Linked
  <1>3. stack[t][n].fn \in {"access", "inv"}
    BY <1>1, FrameTypes
  <1>4. CASE stack[t][n].fn = "access"
    <2>1. AccessCall(stack[t][n-1], stack[t][n])
      BY <1>1, <1>2, <1>4 DEF LinkedAt
    <2>2. Waiting(t, n-1)
      BY <1>1, <1>4 DEF Waiting
    <2>3. Accessing(t, n-1)
      BY <2>1 DEF AccessCall, Accessing
    <2>4. QED
      BY <1>1, <1>4, <2>1, <2>2, <2>3
  <1>5. CASE stack[t][n].fn = "inv"
    <2>1. InvCall(t, stack[t][n-1], stack[t][n])
      BY <1>1, <1>2, <1>5 DEF LinkedAt
    <2>2. ~Waiting(t, n-1)
      BY <1>1, <1>5 DEF Waiting
    <2>3. stack[t][n-1].pc \notin {"tcc", "bcc"}
      BY <2>1 DEF InvCall, Sending
    <2>4. QED
      BY <1>1, <1>5, <2>1, <2>2, <2>3 DEF Owns
  <1>6. QED
    BY <1>3, <1>4, <1>5

\* An access has a child exactly if it is not the core's own.
LEMMA AccessFacts ==
  ASSUME Types, Linked, NEW t \in Cores, NEW n \in Frames(t), stack[t][n].fn = "access"
  PROVE  LET f == stack[t][n]
         IN  /\ n = 1 => f.c = t /\ f.child = None /\ f.c \in Leaves /\ f.pc # "tcc"
                         /\ f.type \in {"GETS", "GETX"}
             /\ n > 1 => /\ f.child \in Caches /\ Parent[f.child] = f.c /\ f.child # f.c
                         /\ f.c \notin Leaves /\ f.childSlot \in Slots(f.child)
                         /\ array[f.child][f.childSlot] = f.a
  <1>1. stack[t][n] \in Frame /\ n \in Nat
    BY InStack
  <1>2. CASE n = 1
    <2>1. LinkedAt(t, n)
      BY DEF Linked
    <2>2. QED
      BY <1>2, <2>1 DEF LinkedAt, FirstFrame, Cores
  <1>3. CASE n > 1
    <2>1. AccessCall(stack[t][n-1], stack[t][n]) /\ stack[t][n-1] \in Frame
      BY <1>3, CallerFacts
    <2>2. stack[t][n-1].c \in Caches
      BY <2>1, FrameTypes
    <2>3. QED
      BY <1>3, <2>1, <2>2, CoreFacts, NoLoop DEF AccessCall, Cores
  <1>4. QED
    BY <1>1, <1>2, <1>3, InStack

\* One access at a time is at work in a cache: it has the tcc lock.
LEMMA OneAccessor ==
  ASSUME Types, Locks, Order, Linked,
         NEW t \in Cores, NEW n \in Frames(t), NEW u \in Cores, NEW m \in Frames(u),
         Accessing(t, n), Accessing(u, m), stack[t][n].c = stack[u][m].c
  PROVE  t = u /\ n = m
  <1>0. /\ stack[t][n].fn = "access" /\ stack[u][m].fn = "access"
        /\ stack[t][n] \in Frame /\ stack[u][m] \in Frame
        /\ n \in Nat /\ m \in Nat /\ n > 0 /\ m > 0
    BY InStack DEF Accessing
  <1>1. n = 1 <=> m = 1
    BY <1>0, AccessFacts
  <1>2. CASE n = 1
    BY <1>0, <1>1, <1>2, AccessFacts
  <1>3. CASE n > 1
    <2>1. tccLock[stack[t][n].c] = t /\ tccLock[stack[u][m].c] = u
      BY <1>0, <1>1, <1>3 DEF Locks
    <2>2. t = u
      BY <2>1
    <2>3. ~(n < m) /\ ~(m < n)
      BY <1>0, <2>2 DEF Order
    <2>4. QED
      BY <1>0, <2>2, <2>3
  <1>4. QED
    BY <1>0, <1>2, <1>3

\* One frame at a time has the bcc lock of a cache.
LEMMA OneOwner ==
  ASSUME Types, Locks, Order,
         NEW t \in Cores, NEW n \in Frames(t), NEW u \in Cores, NEW m \in Frames(u),
         Owns(t, n), Owns(u, m), stack[t][n].c = stack[u][m].c
  PROVE  t = u /\ n = m
  <1>0. n \in Nat /\ m \in Nat
    BY InStack
  <1>1. bccLock[stack[t][n].c] = t /\ bccLock[stack[u][m].c] = u
    BY DEF Locks
  <1>2. t = u
    BY <1>1
  <1>3. ~(n < m) /\ ~(m < n)
    BY <1>2 DEF Order, Owns
  <1>4. QED
    BY <1>0, <1>2, <1>3

\* Whoever works on a cache at the top of its stack works there alone.
LEMMA Isolated ==
  ASSUME Types, Locks, Order, Linked, NEW t \in Cores, Busy(t),
         Top(t).fn = "access", Top(t).pc \notin {"tcc", "bcc"},
         NEW u \in Cores, NEW m \in Frames(u), u # t \/ m # Len(stack[t])
  PROVE  LET f == Top(t)
             g == stack[u][m]
         IN  /\ g.c = f.c => g.pc \in {"tcc", "bcc"} /\ (g.fn = "access" => g.pc = "tcc")
             /\ g.c = f.c => ~Owns(u, m)
             /\ g.fn = "access" /\ m > 1 => g.child # f.c
             /\ m > 1 => stack[u][m-1].c # f.c
  <1> DEFINE n == Len(stack[t])
  <1>0. /\ n \in Frames(t) /\ Top(t) = stack[t][n] /\ ~Waiting(t, n) /\ Len(stack[t]) \in Nat
        /\ stack[u][m] \in Frame /\ m \in Nat /\ m <= Len(stack[u]) /\ m > 0
    BY TopFacts, InStack
  <1>1. Accessing(t, n) /\ Owns(t, n)
    BY <1>0 DEF Accessing, Owns
  <1>2. stack[u][m].c = Top(t).c => ~Owns(u, m) /\ ~Accessing(u, m)
    BY <1>0, <1>1, OneAccessor, OneOwner
  <1>3. ASSUME stack[u][m].c = Top(t).c
        PROVE  /\ stack[u][m].pc \in {"tcc", "bcc"}
               /\ stack[u][m].fn = "access" => stack[u][m].pc = "tcc"
    <2>1. CASE stack[u][m].fn = "access"
      BY <1>2, <1>3, <2>1 DEF Accessing
    <2>2. CASE stack[u][m].fn = "inv"
      <3>1. SUFFICES ASSUME stack[u][m].pc = "down" PROVE FALSE
        BY <1>0, <2>2, FrameTypes
      <3>2. Waiting(u, m)
        BY <1>2, <1>3, <3>1 DEF Owns
      <3>3. m+1 \in Frames(u) /\ m+1 > 1 /\ stack[u][m+1].fn = "access" /\ (m+1)-1 = m
        BY <1>0, <3>2 DEF Waiting, Frames
      <3>4. AccessCall(stack[u][m], stack[u][m+1])
        BY <3>3, CallerFacts
      <3>5. QED
        BY <2>2, <3>4 DEF AccessCall
    <2>3. QED
      BY <1>0, <2>1, <2>2, FrameTypes
  <1>4. ASSUME m > 1
        PROVE  stack[u][m-1].c # Top(t).c
    <2>1. SUFFICES ASSUME stack[u][m-1].c = Top(t).c PROVE FALSE
      OBVIOUS
    <2>2. /\ m-1 \in Frames(u)
          /\ stack[u][m].fn = "access" => Waiting(u, m-1) /\ Accessing(u, m-1)
          /\ stack[u][m].fn = "inv" => Owns(u, m-1)
      BY <1>4, CallerFacts
    <2>3. CASE stack[u][m].fn = "access"
      <3>1. u = t /\ m-1 = n
        BY <1>0, <1>1, <2>1, <2>2, <2>3, OneAccessor
      <3>2. QED
        BY <1>0, <2>2, <2>3, <3>1
    <2>4. CASE stack[u][m].fn = "inv"
      <3>1. u = t /\ m-1 = n
        BY <1>0, <1>1, <2>1, <2>2, <2>4, OneOwner
      <3>2. QED
        BY <1>0, <3>1
    <2>5. QED
      BY <1>0, <2>3, <2>4, FrameTypes
  <1>5. ASSUME stack[u][m].fn = "access", m > 1
        PROVE  stack[u][m].child # Top(t).c
    <2>1. stack[u][m].child = stack[u][m-1].c
      BY <1>5, CallerFacts DEF AccessCall
    <2>2. QED
      BY <1>4, <1>5, <2>1
  <1>6. QED
    BY <1>2, <1>3, <1>4, <1>5

\* A frame that a step leaves alone, with what it looks at
LEMMA Stable ==
  ASSUME NEW u \in Cores, NEW m \in Nat, m > 0, NEW f \in Frame,
         f = stack[u][m], f = stack'[u][m],
         m > 1 => stack'[u][m-1] = stack[u][m-1],
         Waiting(u, m)' <=> Waiting(u, m),
         LinkedAt(u, m), ContentAt(u, m),
         m > 1 => array'[stack[u][m-1].c] = array[stack[u][m-1].c],
         m > 1 /\ f.fn = "inv" => tcc'[stack[u][m-1].c] = tcc[stack[u][m-1].c],
         f.fn = "access" => f.child = None \/ bcc'[f.child][f.childSlot] = bcc[f.child][f.childSlot],
         f.pc \notin {"tcc", "bcc"} => array'[f.c] = array[f.c],
         Owns(u, m) => /\ bcc'[f.c][f.slot] = bcc[f.c][f.slot]
                       /\ tcc'[f.c][f.slot] = tcc[f.c][f.slot],
         f.fn = "access" /\ f.pc = "evput" => tcc'[f.c][f.slot].sharers = {}
  PROVE  LinkedAt(u, m)' /\ ContentAt(u, m)'
  <1>1. LinkedAt(u, m)'
    <2>1. CASE m = 1
      BY <2>1 DEF LinkedAt, FirstFrame
    <2>2. CASE m # 1 /\ f.fn = "access"
      BY <2>2, SMTT(60) DEF LinkedAt, AccessCall
    <2>3. CASE m # 1 /\ f.fn # "access"
      <3>1. PICK e : e = stack[u][m-1]
        OBVIOUS
      <3>2. InvCall(u, e, f) /\ m > 1 /\ e = stack'[u][m-1]
        BY <2>3, <3>1 DEF LinkedAt
      <3>3. f.fn = "inv"
        BY <2>3, FrameTypes
      <3>4. Dir(e)' = Dir(e) /\ array'[e.c] = array[e.c]
        BY <3>1, <3>2, <3>3 DEF Dir
      <3>5. InvCall(u, e, f)'
        BY <3>2, <3>4 DEF InvCall, Sending, MustInvalidate
      <3>6. QED
        BY <2>3, <3>2, <3>5 DEF LinkedAt
    <2>4. QED
      BY <2>1, <2>2, <2>3
  <1>2. ContentAt(u, m)'
    <2>1. Owns(u, m)' <=> Owns(u, m)
      BY DEF Owns
    <2>2. FrameLine(f)'
      BY DEF ContentAt, FrameLine, Holding, Dir
    <2>3. f.fn = "access" => ChildState(f)' = ChildState(f)
      BY DEF ChildState
    <2>4. m > 1 /\ f.fn = "access" => RequestState(f)'
      BY <2>3 DEF ContentAt, RequestState
    <2>5. f.fn = "access" /\ Owns(u, m) => OwnState(f)'
      BY <2>3 DEF ContentAt, OwnState, State, Dir
    <2>6. f.wb /\ f.pc # "end" => Owns(u, m) /\ f.pc \in {"evict", "top", "down"}
                                  /\ State(f)' \in {"E", "M"}
      BY DEF ContentAt, State
    <2>7. QED
      BY <2>1, <2>2, <2>4, <2>5, <2>6 DEF ContentAt
  <1>3. QED
    BY <1>1, <1>2

-----------------------------------------------------------------------------
(* Steps that change a stack, and the locks, but no line *)

\* A step that writes no line keeps the types of the lines.
LEMMA TypesSame ==
  ASSUME Types, UNCHANGED <<array, bcc, tcc>>,
         bccLock' \in [Caches -> Cores \cup {None}], tccLock' \in [Caches -> Cores \cup {None}],
         stack' \in [Cores -> Seq(Frame)], issued' \in [Cores -> 0..Limit], unsaved' \subseteq Addrs
  PROVE  Types'
  <1>1. \A t \in Cores : \A n \in 1..Len(stack'[t]) : stack'[t][n] \in Frame
    BY ElementOfSeq
  <1>2. QED
    BY <1>1 DEF Types, TypeOK, Frame

\* A frame that a step leaves alone, when no line is written
LEMMA StableData ==
  ASSUME Types, Content, Linked, UNCHANGED <<array, bcc, tcc>>,
         NEW u \in Cores, NEW m \in Frames(u), stack'[u][m] = stack[u][m],
         m > 1 => stack'[u][m-1] = stack[u][m-1],
         Waiting(u, m)' <=> Waiting(u, m)
  PROVE  LinkedAt(u, m)' /\ ContentAt(u, m)'
  <1>1. PICK f : f = stack[u][m]
    OBVIOUS
  <1>2. f \in Frame /\ m \in Nat /\ m > 0 /\ LinkedAt(u, m) /\ ContentAt(u, m)
    BY <1>1, InStack DEF Linked, Content
  <1>3. f.fn = "access" /\ f.pc = "evput" => tcc'[f.c][f.slot].sharers = {}
    BY <1>1, <1>2 DEF ContentAt, FrameLine, Dir
  <1>4. QED
    BY <1>1, <1>2, <1>3, Stable

\* The owners that send invalidations or hold an upgrade stay where they are.
Remain ==
    \A u \in Cores : \A m \in Frames(u) :
        Owns(u, m) /\ stack[u][m].pc \in {"evict", "top", "down"} =>
            m \in Frames(u)' /\ stack'[u][m] = stack[u][m] /\ Owns(u, m)'

\* A step that writes no line, and after which those at work on lines go on
\* with them, keeps what the lines say.
LEMMA LinesSame ==
  ASSUME Types, UNCHANGED <<array, bcc, tcc>>, Remain,
         UniqueLines, EmptyLines, Entries, Pairs, Present
  PROVE  UniqueLines' /\ EmptyLines' /\ Entries' /\ Pairs' /\ Present'
  <1>1. UniqueLines' /\ EmptyLines' /\ Present'
    BY DEF UniqueLines, EmptyLines, Present
  <1>2. ASSUME NEW u \in Cores, NEW m \in Frames(u), NEW p, NEW r, Invalidating(u, m, p, r)
        PROVE  m \in Frames(u)' /\ Invalidating(u, m, p, r)'
    <2>1. PICK f : f = stack[u][m]
      OBVIOUS
    <2>2. f.pc \in {"evict", "top", "down"} /\ Owns(u, m)
      <3>1. f \in Frame
        BY <2>1, InStack
      <3>2. f.fn = "inv" => f.pc \in {"bcc", "down"}
        BY <3>1, FrameTypes
      <3>3. QED
        BY <1>2, <2>1, <3>2 DEF Invalidating, Owns
    <2>3. m \in Frames(u)' /\ stack'[u][m] = f /\ Owns(u, m)'
      BY <2>1, <2>2 DEF Remain
    <2>4. QED
      BY <1>2, <2>1, <2>3 DEF Invalidating, Dir
  <1>3. Entries'
    <2> SUFFICES ASSUME NEW p \in Caches, NEW r \in Slots(p)
                 PROVE  LET e == tcc[p][r]
                        IN  /\ e.sharers \subseteq Children(p)
                            /\ e.numSharers = 0 <=> e.sharers = {}
                            /\ e.exclusive => e.numSharers \in {0, 1} /\ \A c, d \in e.sharers : c = d
                            /\ \/ e.numSharers = Cardinality(e.sharers)
                               \/ \E t \in Cores : \E n \in Frames(t)' : Invalidating(t, n, p, r)'
      BY DEF Entries, EntryAt
    <2>1. \A u \in Cores : \A m \in Frames(u) : Invalidating(u, m, p, r) =>
            m \in Frames(u)' /\ Invalidating(u, m, p, r)'
      BY <1>2
    <2>2. QED
      BY <2>1 DEF Entries, EntryAt
  <1>4. ASSUME NEW u \in Cores, NEW m \in Frames(u), NEW c, NEW s, NEW r, Upgrades(u, m, c, s, r)
        PROVE  m \in Frames(u)' /\ Upgrades(u, m, c, s, r)'
    <2>1. PICK f : f = stack[u][m]
      OBVIOUS
    <2>2. m \in Frames(u)' /\ stack'[u][m] = f /\ Owns(u, m)'
      BY <1>4, <2>1 DEF Remain, Upgrades
    <2>3. QED
      BY <1>4, <2>1, <2>2 DEF Upgrades
  <1>5. Pairs'
    <2>1. ASSUME NEW c \in Caches, NEW s, NEW r, Agree(c, s, r)
          PROVE  Agree(c, s, r)'
      <3>1. \A u \in Cores : \A m \in Frames(u) : Upgrades(u, m, c, s, r) =>
              m \in Frames(u)' /\ Upgrades(u, m, c, s, r)'
        BY <1>4
      <3>2. (\E u \in Cores : \E m \in Frames(u) : Upgrades(u, m, c, s, r)) =>
              \E u \in Cores : \E m \in Frames(u)' : Upgrades(u, m, c, s, r)'
        BY <3>1
      <3>3. QED
        BY <2>1, <3>2 DEF Agree
    <2>2. QED
      BY <2>1 DEF Pairs
  <1>6. QED
    BY <1>1, <1>3, <1>5

\* A step that changes the top frame only, in place
LEMMA InPlace ==
  ASSUME Types, Order, NEW t \in Cores, Busy(t), NEW f \in Frame, Changed(t, f),
         Len(stack'[t]) = Len(stack[t]), f.fn = Top(t).fn, f.c = Top(t).c
  PROVE  /\ Order'
         /\ \A u \in Cores : Frames(u)' = Frames(u)
         /\ \A u \in Cores : \A m \in Frames(u) : Waiting(u, m)' <=> Waiting(u, m)
         /\ \A u \in Cores : \A m \in Frames(u) : u # t \/ m # Len(stack[t]) =>
              /\ stack'[u][m] = stack[u][m]
              /\ m > 1 => stack'[u][m-1] = stack[u][m-1]
         /\ Len(stack[t]) > 1 => stack'[t][Len(stack[t])-1] = stack[t][Len(stack[t])-1]
         /\ ~Waiting(t, Len(stack[t]))'
  <1>1. /\ Len(stack[t]) \in Frames(t) /\ Top(t) = stack[t][Len(stack[t])] /\ Len(stack[t]) \in Nat
        /\ ~Waiting(t, Len(stack[t]))
    BY TopFacts
  <1>2. \A u \in Cores : Len(stack'[u]) = Len(stack[u])
    BY DEF Changed
  <1>3. \A u \in Cores : Frames(u)' = Frames(u)
    BY <1>2 DEF Frames
  <1>4. \A u \in Cores : \A m \in Frames(u) :
          stack'[u][m].fn = stack[u][m].fn /\ stack'[u][m].c = stack[u][m].c
    BY <1>1 DEF Changed
  <1>5. \A u \in Cores : \A m \in Frames(u) : Waiting(u, m)' <=> Waiting(u, m)
    <2>1. ASSUME NEW u \in Cores, NEW m \in Frames(u)
          PROVE  Waiting(u, m)' <=> Waiting(u, m)
      <3>1. m < Len(stack[u]) => m+1 \in Frames(u)
        BY InStack
      <3>2. QED
        BY <1>2, <1>4, <3>1 DEF Waiting
    <2>2. QED
      BY <2>1
  <1>6. Order'
    <2> SUFFICES ASSUME NEW u \in Cores, NEW m \in Frames(u), NEW n \in Frames(u), m < n
                 PROVE  LET e == stack'[u][m]
                            f1 == stack'[u][n]
                        IN  /\ f1.fn = "access" => e.fn = "access" /\ e.c # f1.c /\ Above(f1.c, e.c)
                            /\ ~Waiting(u, m)' => f1.fn = "inv" /\ e.c # f1.c /\ Above(e.c, f1.c)
      BY <1>3 DEF Order, Above
    <2>1. QED
      BY <1>4, <1>5 DEF Order
  <1>7. \A u \in Cores : \A m \in Frames(u) : u # t \/ m # Len(stack[t]) =>
              /\ stack'[u][m] = stack[u][m]
              /\ m > 1 => stack'[u][m-1] = stack[u][m-1]
    <2>1. ASSUME NEW u \in Cores, NEW m \in Frames(u), u # t \/ m # Len(stack[t])
          PROVE  /\ stack'[u][m] = stack[u][m]
                 /\ m > 1 => stack'[u][m-1] = stack[u][m-1]
      <3>1. m > 1 => m-1 \in Frames(u) /\ m-1 # Len(stack[u])
        BY InStack
      <3>2. QED
        BY <2>1, <3>1 DEF Changed
    <2>2. QED
      BY <2>1
  <1>8. Len(stack[t]) > 1 => stack'[t][Len(stack[t])-1] = stack[t][Len(stack[t])-1]
    BY <1>1 DEF Changed, Frames
  <1>9. QED
    BY <1>1, <1>3, <1>5, <1>6, <1>7, <1>8

\* startAccess takes the tcc lock.
LEMMA LockTopStep ==
  ASSUME IInv, NEW t \in Cores, LockTop(t)
  PROVE  IInv'
  <1>1. PICK n, f : n = Len(stack[t]) /\ f = Top(t)
    OBVIOUS
  <1>2. PICK g : g = [f EXCEPT !.pc = "bcc"]
    OBVIOUS
  <1>3. /\ Types /\ Locks /\ Order /\ Linked /\ Content /\ Busy(t)
        /\ f.fn = "access" /\ f.pc = "tcc" /\ UNCHANGED <<array, bcc, tcc, bccLock, issued, unsaved>>
        /\ tccLock[f.c] = None /\ tccLock' = [tccLock EXCEPT ![f.c] = t] /\ Become(t, g)
    BY <1>1, <1>2 DEF IInv, LockTop, At
  <1>4. /\ n = Len(stack[t]) /\ n \in Frames(t) /\ f = stack[t][n] /\ f \in Frame /\ n \in Nat /\ n > 0 /\ n <= Len(stack[t])
    BY <1>1, <1>3, TopFacts, InStack
  <1>5. f \in AccFrame /\ f.c \in Caches
    BY <1>3, <1>4, FrameTypes
  <1>6. /\ g \in Frame /\ g.fn = "access" /\ g.c = f.c /\ g.child = f.child /\ g.a = f.a
        /\ g.childSlot = f.childSlot /\ g.type = f.type /\ g.initialState = f.initialState
        /\ g.pc = "bcc" /\ g.slot = f.slot /\ g.wb = f.wb
    BY <1>2, <1>3, <1>5 DEF AccFrame, Frame
  <1>7. Changed(t, g) /\ Len(stack'[t]) = n
    BY <1>1, <1>3, <1>6, BecomeEffect
  <1>8. /\ Order'
        /\ \A u \in Cores : Frames(u)' = Frames(u)
        /\ \A u \in Cores : \A m \in Frames(u) : Waiting(u, m)' <=> Waiting(u, m)
        /\ \A u \in Cores : \A m \in Frames(u) : u # t \/ m # n =>
              /\ stack'[u][m] = stack[u][m]
              /\ m > 1 => stack'[u][m-1] = stack[u][m-1]
        /\ n > 1 => stack'[t][n-1] = stack[t][n-1]
        /\ ~Waiting(t, n)'
    BY <1>1, <1>3, <1>6, <1>7, InPlace
  <1>9. stack'[t][n] = g /\ stack' \in [Cores -> Seq(Frame)]
    BY <1>1, <1>7 DEF Changed
  <1>10. n > 1
    BY <1>3, <1>4, AccessFacts
  <1>11. Types'
    <2>1. /\ tccLock' \in [Caches -> Cores \cup {None}] /\ bccLock' \in [Caches -> Cores \cup {None}]
          /\ issued' \in [Cores -> 0..Limit] /\ unsaved' \subseteq Addrs
      BY <1>3, <1>5 DEF Types, TypeOK
    <2>2. QED
      BY <1>3, <1>9, <2>1, TypesSame
  <1>12. Locks'
    <2> SUFFICES ASSUME NEW u \in Cores, NEW m \in Frames(u)
                 PROVE  /\ Owns(u, m)' => bccLock'[stack'[u][m].c] = u
                        /\ Accessing(u, m)' /\ m > 1 => tccLock'[stack'[u][m].c] = u
      BY <1>8 DEF Locks
    <2>1. CASE u = t /\ m = n
      BY <1>3, <1>5, <1>6, <1>9, <2>1 DEF Owns, Types, TypeOK
    <2>2. CASE u # t \/ m # n
      <3>1. stack'[u][m] = stack[u][m] /\ (Waiting(u, m)' <=> Waiting(u, m))
        BY <1>8, <2>2
      <3>2. /\ Owns(u, m) => bccLock[stack[u][m].c] = u
            /\ Accessing(u, m) /\ m > 1 => tccLock[stack[u][m].c] = u
        BY <1>3 DEF Locks
      <3>3. stack[u][m].c \in Caches
        BY <1>3, InStack, FrameTypes
      <3>4. QED
        BY <1>3, <3>1, <3>2, <3>3, CoreFacts DEF Owns, Accessing, Types, TypeOK
    <2>3. QED
      BY <2>1, <2>2
  <1>13. ASSUME NEW u \in Cores, NEW m \in Frames(u)
         PROVE  LinkedAt(u, m)' /\ ContentAt(u, m)'
    <2>1. CASE u # t \/ m # n
      BY <1>3, <1>8, <2>1, StableData
    <2>2. CASE u = t /\ m = n
      <3>0. LinkedAt(t, n) /\ ContentAt(t, n)
        BY <1>3, <1>4 DEF Linked, Content
      <3>1. PICK e : e = stack[t][n-1]
        OBVIOUS
      <3>2. AccessCall(e, f)
        BY <1>3, <1>4, <1>10, <3>0, <3>1 DEF LinkedAt
      <3>3. AccessCall(e, g)'
        BY <1>3, <1>6, <3>2 DEF AccessCall
      <3>4. LinkedAt(t, n)'
        BY <1>6, <1>8, <1>9, <1>10, <3>1, <3>3 DEF LinkedAt
      <3>5. f.slot = 0 /\ ~f.wb /\ RequestState(f)
        BY <1>3, <1>4, <1>10, <3>0, FrameTypes DEF ContentAt, FrameLine
      <3>6. RequestState(g)'
        BY <1>3, <1>6, <3>5 DEF RequestState, ChildState
      <3>7. ContentAt(t, n)'
        BY <1>6, <1>9, <3>5, <3>6 DEF ContentAt, FrameLine, OwnState, Owns
      <3>8. QED
        BY <2>2, <3>4, <3>7
    <2>3. QED
      BY <2>1, <2>2
  <1>14. Linked' /\ Content'
    BY <1>8, <1>13 DEF Linked, Content
  <1>15. Remain
    <2> SUFFICES ASSUME NEW u \in Cores, NEW m \in Frames(u), Owns(u, m)
                 PROVE  m \in Frames(u)' /\ stack'[u][m] = stack[u][m] /\ Owns(u, m)'
      BY DEF Remain
    <2>1. u # t \/ m # n
      BY <1>3, <1>4 DEF Owns
    <2>2. QED
      BY <1>8, <2>1 DEF Owns
  <1>16. UniqueLines' /\ EmptyLines' /\ Entries' /\ Pairs' /\ Present'
    BY <1>3, <1>15, LinesSame DEF IInv
  <1>17. QED
    BY <1>8, <1>11, <1>12, <1>14, <1>16 DEF IInv

\* The locks, when the top frame stays in its cache and may take a free lock of it
LEMMA InPlaceLocks ==
  ASSUME Types, Locks, Order, NEW t \in Cores, Busy(t), NEW f, f = Top(t), NEW g \in Frame,
         Changed(t, g), Len(stack'[t]) = Len(stack[t]), g.fn = f.fn, g.c = f.c,
         bccLock' = bccLock \/ (bccLock[f.c] = None /\ bccLock' = [bccLock EXCEPT ![f.c] = t]),
         tccLock' = tccLock,
         g.pc \notin {"tcc", "bcc"} => f.pc \notin {"tcc", "bcc"} \/ bccLock'[f.c] = t,
         f.pc = "tcc" => g.pc = "tcc"
  PROVE  Locks'
  <1>1. PICK n : n = Len(stack[t])
    OBVIOUS
  <1>2. n \in Frames(t) /\ f = stack[t][n] /\ f \in Frame /\ n \in Nat /\ f.c \in Caches
    BY <1>1, TopFacts, InStack, FrameTypes
  <1>3. /\ \A u \in Cores : Frames(u)' = Frames(u)
        /\ \A u \in Cores : \A m \in Frames(u) : Waiting(u, m)' <=> Waiting(u, m)
        /\ \A u \in Cores : \A m \in Frames(u) : u # t \/ m # n => stack'[u][m] = stack[u][m]
    BY <1>1, InPlace
  <1>4. stack'[t][n] = g
    BY <1>1 DEF Changed
  <1>5. bccLock' \in [Caches -> Cores \cup {None}]
    BY <1>2 DEF Types, TypeOK
  <1> SUFFICES ASSUME NEW u \in Cores, NEW m \in Frames(u)
               PROVE  /\ Owns(u, m)' => bccLock'[stack'[u][m].c] = u
                      /\ Accessing(u, m)' /\ m > 1 => tccLock'[stack'[u][m].c] = u
    BY <1>3 DEF Locks
  <1>6. /\ Owns(u, m) => bccLock[stack[u][m].c] = u
        /\ Accessing(u, m) /\ m > 1 => tccLock[stack[u][m].c] = u
        /\ stack[u][m].c \in Caches /\ (Waiting(u, m)' <=> Waiting(u, m))
    BY <1>3, InStack, FrameTypes DEF Locks
  <1>7. CASE u = t /\ m = n
    <2>1. Owns(t, n)' => bccLock'[f.c] = t
      <3>1. CASE f.pc \in {"tcc", "bcc"}
        BY <1>4, <3>1 DEF Owns
      <3>2. CASE f.pc \notin {"tcc", "bcc"}
        <4>1. Owns(t, n)' => Owns(t, n)
          BY <1>2, <1>6, <1>7, <3>2 DEF Owns
        <4>2. Owns(t, n) => bccLock[f.c] = t
          BY <1>2, <1>6, <1>7
        <4>3. bccLock[f.c] = t => bccLock'[f.c] = t
          BY <1>2 DEF Types, TypeOK
        <4>4. QED
          BY <4>1, <4>2, <4>3
      <3>3. QED
        BY <3>1, <3>2
    <2>2. Accessing(t, n)' => Accessing(t, n)
      BY <1>2, <1>4 DEF Accessing
    <2>3. QED
      BY <1>2, <1>4, <1>6, <1>7, <2>1, <2>2
  <1>8. CASE u # t \/ m # n
    <2>1. stack'[u][m] = stack[u][m]
      BY <1>3, <1>8
    <2>2. bccLock[stack[u][m].c] = u => bccLock'[stack[u][m].c] = u
      BY <1>2, <1>6, CoreFacts DEF Types, TypeOK
    <2>3. QED
      BY <1>6, <2>1, <2>2 DEF Owns, Accessing
  <1>9. QED
    BY <1>7, <1>8

\* A frame's call, when the frame changes neither its cache nor its request
LEMMA LinkedStays ==
  ASSUME Types, Linked, NEW t \in Cores, NEW n \in Frames(t), NEW f, f = stack[t][n],
         NEW g \in Frame, stack'[t][n] = g, n > 1 => stack'[t][n-1] = stack[t][n-1],
         g.fn = f.fn, g.c = f.c,
         f.fn = "access" =>
             /\ g.child = f.child /\ g.childSlot = f.childSlot /\ g.a = f.a
             /\ g.initialState = f.initialState /\ (g.type \in Puts <=> f.type \in Puts)
             /\ f.type \notin Puts => g.type = f.type
             /\ f.pc # "tcc" => g.pc # "tcc",
         f.fn = "inv" => g.type = f.type /\ g.a = f.a,
         n > 1 => LET e == stack[t][n-1]
                  IN  /\ array'[e.c][e.slot] = array[e.c][e.slot]
                      /\ f.fn = "inv" => tcc'[e.c] = tcc[e.c]
  PROVE  LinkedAt(t, n)'
  <1>1. f \in Frame /\ n \in Nat /\ n > 0
    BY InStack
  <1>3. LinkedAt(t, n)
    BY <1>1 DEF Linked
  <1>4. CASE n = 1
    BY <1>1, <1>3, <1>4 DEF LinkedAt, FirstFrame, Puts
  <1>5. CASE n > 1 /\ f.fn = "access"
    <2>1. PICK e : e = stack[t][n-1]
      OBVIOUS
    <2>2. AccessCall(e, f)
      BY <1>1, <1>3, <1>5, <2>1 DEF LinkedAt
    <2>3. AccessCall(e, g)'
      BY <1>5, <2>1, <2>2 DEF AccessCall
    <2>4. QED
      BY <1>5, <2>1, <2>3 DEF LinkedAt
  <1>6. CASE n > 1 /\ f.fn = "inv"
    <2>1. PICK e : e = stack[t][n-1]
      OBVIOUS
    <2>2. InvCall(t, e, f)
      BY <1>1, <1>3, <1>6, <2>1 DEF LinkedAt
    <2>3. Dir(e)' = Dir(e)
      BY <1>6, <2>1 DEF Dir
    <2>4. InvCall(t, e, g)'
      BY <1>6, <2>1, <2>2, <2>3 DEF InvCall, Sending, MustInvalidate
    <2>5. QED
      BY <1>6, <2>1, <2>4 DEF LinkedAt
  <1>7. f.fn \in {"access", "inv"}
    BY <1>1, FrameTypes
  <1>8. n = 1 \/ n > 1
    BY <1>1, NatOne
  <1>9. QED
    BY <1>4, <1>5, <1>6, <1>7, <1>8

\* startInvalidate takes the bcc lock and finds the line.
LEMMA StartInvalidateStep ==
  ASSUME IInv, NEW t \in Cores, StartInvalidate(t)
  PROVE  IInv'
  <1>1. PICK n, f : n = Len(stack[t]) /\ f = Top(t)
    OBVIOUS
  <1>2. /\ Types /\ Locks /\ Order /\ Linked /\ Content /\ Busy(t)
        /\ f.fn = "inv" /\ f.pc = "bcc" /\ UNCHANGED <<array, bcc, tcc, tccLock, issued, unsaved>>
        /\ bccLock[f.c] = None /\ bccLock' = [bccLock EXCEPT ![f.c] = t]
    BY <1>1 DEF IInv, StartInvalidate, At
  <1>3. PICK s, g : s \in Holding(f.c, f.a) /\ g = [f EXCEPT !.pc = "down", !.slot = s] /\ Become(t, g)
    BY <1>1 DEF StartInvalidate
  <1>4. /\ n = Len(stack[t]) /\ n \in Frames(t) /\ f = stack[t][n] /\ f \in Frame
        /\ n \in Nat /\ n > 0 /\ ~Waiting(t, n)
    BY <1>1, <1>2, TopFacts, InStack
  <1>5. f \in InvFrame /\ f.c \in Caches
    BY <1>2, <1>4, FrameTypes
  <1>6. s \in Slots(f.c) /\ array[f.c][s] = f.a /\ s \in Nat
    BY <1>3, <1>5, ConstantsAssumption DEF Holding, Slots
  <1>7. /\ g \in Frame /\ g.fn = "inv" /\ g.c = f.c /\ g.a = f.a /\ g.type = f.type
        /\ g.pc = "down" /\ g.slot = s /\ g.wb = f.wb
    BY <1>2, <1>3, <1>5, <1>6 DEF InvFrame, Frame
  <1>8. Changed(t, g) /\ Len(stack'[t]) = n
    BY <1>1, <1>2, <1>3, <1>7, BecomeEffect
  <1>9. /\ Order'
        /\ \A u \in Cores : Frames(u)' = Frames(u)
        /\ \A u \in Cores : \A m \in Frames(u) : Waiting(u, m)' <=> Waiting(u, m)
        /\ \A u \in Cores : \A m \in Frames(u) : u # t \/ m # n =>
              /\ stack'[u][m] = stack[u][m]
              /\ m > 1 => stack'[u][m-1] = stack[u][m-1]
    BY <1>1, <1>2, <1>7, <1>8, InPlace
  <1>10. stack'[t][n] = g /\ stack' \in [Cores -> Seq(Frame)]
    BY <1>1, <1>8 DEF Changed
  <1>11. Types'
    <2>1. /\ tccLock' \in [Caches -> Cores \cup {None}] /\ bccLock' \in [Caches -> Cores \cup {None}]
          /\ issued' \in [Cores -> 0..Limit] /\ unsaved' \subseteq Addrs
      BY <1>2, <1>5 DEF Types, TypeOK
    <2>2. QED
      BY <1>2, <1>10, <2>1, TypesSame
  <1>12. Locks'
    <2>1. bccLock'[f.c] = t
      BY <1>2, <1>5 DEF Types, TypeOK
    <2>2. QED
      BY <1>1, <1>2, <1>7, <1>8, <2>1, InPlaceLocks
  <1>13. ASSUME NEW u \in Cores, NEW m \in Frames(u)
         PROVE  LinkedAt(u, m)' /\ ContentAt(u, m)'
    <2>1. CASE u # t \/ m # n
      BY <1>2, <1>9, <2>1, StableData
    <2>2. CASE u = t /\ m = n
      <3>1. LinkedAt(t, n)'
        <4>1. n > 1 => stack'[t][n-1] = stack[t][n-1]
          BY <1>1, <1>2, <1>7, <1>8, InPlace
        <4>2. QED
          BY <1>2, <1>4, <1>7, <1>10, <4>1, LinkedStays
      <3>2. ContentAt(t, n)
        BY <1>2, <1>4 DEF Content
      <3>3. ~f.wb
        BY <1>2, <1>4, <3>2 DEF ContentAt
      <3>4. FrameLine(g)'
        BY <1>2, <1>6, <1>7 DEF FrameLine
      <3>5. ContentAt(t, n)'
        BY <1>7, <1>10, <3>3, <3>4 DEF ContentAt
      <3>6. QED
        BY <2>2, <3>1, <3>5
    <2>3. QED
      BY <2>1, <2>2
  <1>14. Linked' /\ Content'
    BY <1>9, <1>13 DEF Linked, Content
  <1>15. Remain
    <2> SUFFICES ASSUME NEW u \in Cores, NEW m \in Frames(u), Owns(u, m)
                 PROVE  m \in Frames(u)' /\ stack'[u][m] = stack[u][m] /\ Owns(u, m)'
      BY DEF Remain
    <2>1. u # t \/ m # n
      BY <1>2, <1>4 DEF Owns
    <2>2. QED
      BY <1>9, <2>1 DEF Owns
  <1>16. UniqueLines' /\ EmptyLines' /\ Entries' /\ Pairs' /\ Present'
    BY <1>2, <1>15, LinesSame DEF IInv
  <1>17. QED
    BY <1>9, <1>11, <1>12, <1>14, <1>16 DEF IInv

\* Frame g is f after the race check.
Checked(f, g) ==
    \/ g.pc = "end" /\ SkipAccess(f) /\ g.type = f.type
    \/ g.pc \in {"evict", "bottom"} /\ ~SkipAccess(f) /\ g.type = RacedType(f)

\* After CheckForMESIRace the request is as the child's state is now.
LEMMA RaceChecked ==
  ASSUME NEW f \in AccFrame, f.pc = "bcc", RequestState(f), NEW g \in AccFrame,
         g.child = f.child, g.childSlot = f.childSlot, Checked(f, g)
  PROVE  /\ RequestState(g)
         /\ g.type \in Puts <=> f.type \in Puts
         /\ f.type \notin Puts => g.type = f.type
         /\ g.type \in Puts /\ g.pc # "end" => ChildState(g) # "I"
  <1>1. ChildState(g) = ChildState(f)
    BY DEF ChildState
  <1>2. f.type \in {"GETS", "GETX", "PUTS", "PUTX"}
    BY DEF AccFrame, Puts
  <1>3. PICK s : s = ChildState(f)
    OBVIOUS
  <1>4. CASE g.pc = "end" /\ SkipAccess(f) /\ g.type = f.type
    BY <1>1, <1>2, <1>3, <1>4 DEF RequestState, SkipAccess, Puts
  <1>5. CASE g.pc \in {"evict", "bottom"} /\ ~SkipAccess(f) /\ g.type = RacedType(f)
    <2>1. CASE f.type = "GETS"
      BY <1>1, <1>3, <1>5, <2>1 DEF RequestState, SkipAccess, RacedType, Puts
    <2>2. CASE f.type = "GETX"
      BY <1>1, <1>3, <1>5, <2>2 DEF RequestState, SkipAccess, RacedType, Puts
    <2>3. CASE f.type = "PUTS"
      BY <1>1, <1>3, <1>5, <2>3 DEF RequestState, SkipAccess, RacedType, Puts
    <2>4. CASE f.type = "PUTX"
      BY <1>1, <1>3, <1>5, <2>4 DEF RequestState, SkipAccess, RacedType, Puts
    <2>5. QED
      BY <1>2, <2>1, <2>2, <2>3, <2>4
  <1>6. QED
    BY <1>4, <1>5 DEF Checked

\* startAccess takes the bcc lock, checks for a race and finds the line or a victim.
LEMMA LockBottomStep ==
  ASSUME IInv, NEW t \in Cores, LockBottom(t)
  PROVE  IInv'
  <1>1. PICK n, f : n = Len(stack[t]) /\ f = Top(t)
    OBVIOUS
  <1>2. /\ Types /\ Locks /\ Order /\ Linked /\ Content /\ Busy(t)
        /\ f.fn = "access" /\ f.pc = "bcc" /\ UNCHANGED <<array, bcc, tcc, tccLock, issued, unsaved>>
        /\ bccLock[f.c] = None /\ bccLock' = [bccLock EXCEPT ![f.c] = t]
    BY <1>1 DEF IInv, LockBottom, At
  <1>4. /\ n = Len(stack[t]) /\ n \in Frames(t) /\ f = stack[t][n] /\ f \in Frame
        /\ n \in Nat /\ n > 0 /\ ~Waiting(t, n) /\ (n = 1 \/ n > 1)
    BY <1>1, <1>2, TopFacts, InStack, NatOne
  <1>5. f \in AccFrame /\ f.c \in Caches /\ f.type \in {"GETS", "GETX", "PUTS", "PUTX"}
    BY <1>2, <1>4, FrameTypes
  <1>6. /\ n = 1 => f.child = None /\ f.c \in Leaves /\ f.type \in {"GETS", "GETX"}
        /\ n > 1 => /\ f.child \in Caches /\ Parent[f.child] = f.c /\ f.c \notin Leaves
                    /\ f.childSlot \in Slots(f.child) /\ array[f.child][f.childSlot] = f.a
    BY <1>2, <1>4, AccessFacts
  <1>7. ContentAt(t, n) /\ ~f.wb /\ f.slot = 0 /\ (n > 1 => RequestState(f))
    <2>1. ContentAt(t, n)
      BY <1>2, <1>4 DEF Content
    <2>2. QED
      BY <1>2, <1>4, <2>1 DEF ContentAt, FrameLine
  <1>8. PICK g : /\ \/ SkipAccess(f) /\ g = [f EXCEPT !.pc = "end"]
                    \/ /\ ~SkipAccess(f)
                       /\ \E s \in Holding(f.c, f.a) :
                            g = [f EXCEPT !.pc = "bottom", !.slot = s, !.type = RacedType(f)]
                    \/ /\ ~SkipAccess(f) /\ Holding(f.c, f.a) = {}
                       /\ \E s \in Slots(f.c) :
                            g = [f EXCEPT !.pc = "evict", !.slot = s, !.type = RacedType(f)]
                 /\ Become(t, g)
    BY <1>1 DEF LockBottom
  <1>9. /\ g \in AccFrame /\ g.fn = "access" /\ g.c = f.c /\ g.child = f.child /\ g.a = f.a
        /\ g.childSlot = f.childSlot /\ g.initialState = f.initialState /\ g.wb = f.wb
        /\ \/ g.pc = "end" /\ g.slot = 0 /\ SkipAccess(f) /\ g.type = f.type
           \/ /\ g.pc = "bottom" /\ g.slot \in Slots(f.c) /\ array[f.c][g.slot] = f.a
              /\ ~SkipAccess(f) /\ g.type = RacedType(f)
           \/ /\ g.pc = "evict" /\ g.slot \in Slots(f.c) /\ Holding(f.c, f.a) = {}
              /\ ~SkipAccess(f) /\ g.type = RacedType(f)
    <2>1. RacedType(f) \in {"GETS", "GETX"} \cup Puts /\ f.slot \in Nat
      BY <1>5 DEF RacedType, Puts, AccFrame
    <2>2. /\ Slots(f.c) \subseteq Nat
          /\ \A x \in Holding(f.c, f.a) : x \in Slots(f.c) /\ array[f.c][x] = f.a
      BY <1>5, ConstantsAssumption DEF Slots, Holding
    <2>3. CASE g = [f EXCEPT !.pc = "end"] /\ SkipAccess(f)
      BY <1>2, <1>5, <1>7, <2>3 DEF AccFrame
    <2>4. ASSUME NEW s \in Slots(f.c), NEW p \in {"bottom", "evict"},
                 g = [f EXCEPT !.pc = p, !.slot = s, !.type = RacedType(f)]
          PROVE  /\ g \in AccFrame /\ g.fn = "access" /\ g.c = f.c /\ g.child = f.child /\ g.a = f.a
                 /\ g.childSlot = f.childSlot /\ g.initialState = f.initialState /\ g.wb = f.wb
                 /\ g.pc = p /\ g.slot = s /\ g.type = RacedType(f)
      BY <1>2, <1>5, <2>1, <2>2, <2>4 DEF AccFrame
    <2>5. ASSUME NEW s \in Holding(f.c, f.a), ~SkipAccess(f),
                 g = [f EXCEPT !.pc = "bottom", !.slot = s, !.type = RacedType(f)]
          PROVE  /\ g \in AccFrame /\ g.fn = "access" /\ g.c = f.c /\ g.child = f.child /\ g.a = f.a
                 /\ g.childSlot = f.childSlot /\ g.initialState = f.initialState /\ g.wb = f.wb
                 /\ g.pc = "bottom" /\ g.slot \in Slots(f.c) /\ array[f.c][g.slot] = f.a
                 /\ g.type = RacedType(f)
      BY <2>2, <2>4, <2>5
    <2>6. ASSUME NEW s \in Slots(f.c), ~SkipAccess(f), Holding(f.c, f.a) = {},
                 g = [f EXCEPT !.pc = "evict", !.slot = s, !.type = RacedType(f)]
          PROVE  /\ g \in AccFrame /\ g.fn = "access" /\ g.c = f.c /\ g.child = f.child /\ g.a = f.a
                 /\ g.childSlot = f.childSlot /\ g.initialState = f.initialState /\ g.wb = f.wb
                 /\ g.pc = "evict" /\ g.slot \in Slots(f.c) /\ g.type = RacedType(f)
      BY <2>4, <2>6
    <2>7. CASE ~SkipAccess(f) /\ \E s \in Holding(f.c, f.a) :
                 g = [f EXCEPT !.pc = "bottom", !.slot = s, !.type = RacedType(f)]
      <3>1. PICK s \in Holding(f.c, f.a) :
                 g = [f EXCEPT !.pc = "bottom", !.slot = s, !.type = RacedType(f)]
        BY <2>7
      <3>2. QED
        BY <2>7, <3>1, <2>5
    <2>8. CASE ~SkipAccess(f) /\ Holding(f.c, f.a) = {} /\ \E s \in Slots(f.c) :
                 g = [f EXCEPT !.pc = "evict", !.slot = s, !.type = RacedType(f)]
      <3>1. PICK s \in Slots(f.c) :
                 g = [f EXCEPT !.pc = "evict", !.slot = s, !.type = RacedType(f)]
        BY <2>8
      <3>2. QED
        BY <2>8, <3>1, <2>6
    <2>9. QED
      BY <1>8, <2>3, <2>7, <2>8
  <1>10. g \in Frame
    BY <1>9 DEF Frame
  <1>11. Changed(t, g) /\ Len(stack'[t]) = n
    BY <1>1, <1>2, <1>8, <1>10, BecomeEffect
  <1>12. /\ Order'
         /\ \A u \in Cores : Frames(u)' = Frames(u)
         /\ \A u \in Cores : \A m \in Frames(u) : Waiting(u, m)' <=> Waiting(u, m)
         /\ \A u \in Cores : \A m \in Frames(u) : u # t \/ m # n =>
              /\ stack'[u][m] = stack[u][m]
              /\ m > 1 => stack'[u][m-1] = stack[u][m-1]
    BY <1>1, <1>2, <1>9, <1>10, <1>11, InPlace
  <1>13. stack'[t][n] = g /\ stack' \in [Cores -> Seq(Frame)]
    BY <1>1, <1>11 DEF Changed
  <1>14. Types'
    <2>1. /\ tccLock' \in [Caches -> Cores \cup {None}] /\ bccLock' \in [Caches -> Cores \cup {None}]
          /\ issued' \in [Cores -> 0..Limit] /\ unsaved' \subseteq Addrs
      BY <1>2, <1>5 DEF Types, TypeOK
    <2>2. QED
      BY <1>2, <1>13, <2>1, TypesSame
  <1>15. Locks'
    <2>1. bccLock'[f.c] = t
      BY <1>2, <1>5 DEF Types, TypeOK
    <2>2. QED
      BY <1>1, <1>2, <1>9, <1>10, <1>11, <2>1, InPlaceLocks
  <1>16. /\ n > 1 => RequestState(g)
         /\ g.type \in Puts <=> f.type \in Puts
         /\ f.type \notin Puts => g.type = f.type
         /\ g.type \in Puts => n > 1
         /\ n > 1 /\ g.type \in Puts /\ g.pc # "end" => ChildState(g) # "I"
    <2>1. CASE n = 1
      BY <1>5, <1>6, <1>9, <2>1 DEF RacedType, Puts, SkipAccess
    <2>2. CASE n > 1
      <3>1. Checked(f, g)
        BY <1>9 DEF Checked
      <3>2. QED
        BY <1>2, <1>5, <1>7, <1>9, <2>2, <3>1, RaceChecked
    <2>3. QED
      BY <1>4, <2>1, <2>2
  <1>17. g.pc = "evict" => g.type \notin Puts
    <2>1. SUFFICES ASSUME g.pc = "evict", g.type \in Puts PROVE FALSE
      OBVIOUS
    <2>2. n > 1 /\ ChildState(g) # "I"
      BY <1>16, <2>1
    <2>3. /\ f.child \in Caches /\ Parent[f.child] = f.c /\ f.childSlot \in Slots(f.child)
          /\ bcc[f.child][f.childSlot] # "I" /\ array[f.child][f.childSlot] = f.a
      BY <1>6, <1>9, <2>2, CoreFacts DEF ChildState
    <2>4. PICK r \in Slots(f.c) : array[f.c][r] = f.a
      BY <1>5, <2>3, CoreFacts DEF IInv, Present
    <2>5. QED
      BY <1>9, <2>1, <2>4 DEF Holding
  <1>18. ASSUME NEW u \in Cores, NEW m \in Frames(u)
         PROVE  LinkedAt(u, m)' /\ ContentAt(u, m)'
    <2>1. CASE u # t \/ m # n
      BY <1>2, <1>12, <2>1, StableData
    <2>2. CASE u = t /\ m = n
      <3>1. LinkedAt(t, n)'
        <4>1. n > 1 => stack'[t][n-1] = stack[t][n-1]
          BY <1>1, <1>2, <1>9, <1>10, <1>11, InPlace
        <4>2. g.pc # "tcc"
          BY <1>9
        <4>3. QED
          BY <1>2, <1>4, <1>9, <1>10, <1>13, <1>16, <4>1, <4>2, LinkedStays, ZenonT(60)
      <3>2. FrameLine(g)'
        BY <1>2, <1>5, <1>9, <1>16, <1>17 DEF FrameLine, Holding, SkipAccess
      <3>3. n > 1 => RequestState(g)'
        BY <1>2, <1>16 DEF RequestState, ChildState
      <3>4. OwnState(g)'
        <4>1. ~(g.pc = "end" /\ g.c \in Leaves)
          BY <1>4, <1>6, <1>9 DEF SkipAccess, Puts
        <4>2. QED
          BY <1>9, <4>1 DEF OwnState
      <3>5. ContentAt(t, n)'
        BY <1>7, <1>9, <1>13, <3>2, <3>3, <3>4 DEF ContentAt
      <3>6. QED
        BY <2>2, <3>1, <3>5
    <2>3. QED
      BY <2>1, <2>2
  <1>19. Linked' /\ Content'
    BY <1>12, <1>18 DEF Linked, Content
  <1>20. Remain
    <2> SUFFICES ASSUME NEW u \in Cores, NEW m \in Frames(u), Owns(u, m)
                 PROVE  m \in Frames(u)' /\ stack'[u][m] = stack[u][m] /\ Owns(u, m)'
      BY DEF Remain
    <2>1. u # t \/ m # n
      BY <1>2, <1>4 DEF Owns
    <2>2. QED
      BY <1>12, <2>1 DEF Owns
  <1>21. UniqueLines' /\ EmptyLines' /\ Entries' /\ Pairs' /\ Present'
    BY <1>2, <1>20, LinesSame DEF IInv
  <1>22. QED
    BY <1>12, <1>14, <1>15, <1>19, <1>21 DEF IInv

-----------------------------------------------------------------------------
(* Calls *)

\* Frame f may call frame g: the access of the parent, or a child's invalidate.
CallUp(f, g) == g.fn = "access" /\ f.fn = "access" /\ Parent[f.c] # Mem /\ g.c = Parent[f.c]
CallDown(f, g) == g.fn = "inv" /\ Parent[g.c] = f.c

\* The stacks after a call of g by the top frame, which becomes f
LEMMA Pushed ==
  ASSUME Types, Order, NEW t \in Cores, Busy(t), NEW n, n = Len(stack[t]),
         NEW f \in Frame, NEW g \in Frame, Call(t, f, g), f.fn = Top(t).fn, f.c = Top(t).c,
         CallUp(f, g) \/ CallDown(f, g)
  PROVE  /\ n \in Nat /\ n > 0 /\ n \in Frames(t)
         /\ \A u \in Cores : u # t => Frames(u)' = Frames(u)
         /\ Frames(t)' = 1..n+1
         /\ stack'[t][n+1] = g /\ stack'[t][n] = f
         /\ stack' \in [Cores -> Seq(Frame)]
         /\ \A u \in Cores : \A m \in Frames(u) : u # t \/ m # n =>
              /\ stack'[u][m] = stack[u][m]
              /\ m > 1 => stack'[u][m-1] = stack[u][m-1]
              /\ Waiting(u, m)' <=> Waiting(u, m)
         /\ n > 1 => stack'[t][n-1] = stack[t][n-1]
         /\ Waiting(t, n)' <=> g.fn = "access"
         /\ ~Waiting(t, n+1)'
         /\ Order'
  <1>1. /\ n \in Frames(t) /\ Top(t) = stack[t][n] /\ n \in Nat /\ n > 0 /\ ~Waiting(t, n)
    BY TopFacts, InStack
  <1>2. Changed(t, f) /\ Len(stack'[t]) = n + 1 /\ stack'[t][n+1] = g
    BY CallEffect
  <1>3. /\ stack'[t][n] = f /\ stack' \in [Cores -> Seq(Frame)]
        /\ \A u \in Cores : u # t => stack'[u] = stack[u]
        /\ \A m \in Frames(t) : m # n => stack'[t][m] = stack[t][m]
    BY <1>2 DEF Changed
  <1>4. /\ \A u \in Cores : u # t => Frames(u)' = Frames(u)
        /\ Frames(t)' = 1..n+1 /\ Frames(t) = 1..n
    BY <1>2, <1>3 DEF Frames
  <1>5. ASSUME NEW u \in Cores, NEW m \in Frames(u), u # t \/ m # n
        PROVE  /\ stack'[u][m] = stack[u][m]
               /\ m > 1 => stack'[u][m-1] = stack[u][m-1]
               /\ Waiting(u, m)' <=> Waiting(u, m)
    <2>1. CASE u # t
      BY <1>3, <2>1 DEF Waiting
    <2>2. CASE u = t
      <3>1. m \in Nat /\ m < n /\ m > 0
        BY <1>1, <1>4, <1>5, <2>2
      <3>2. m+1 \in Frames(t) /\ (m > 1 => m-1 \in Frames(t) /\ m-1 # n)
        BY <1>1, <1>4, <3>1
      <3>3. stack'[t][m+1].fn = stack[t][m+1].fn
        BY <1>1, <1>3, <3>2
      <3>4. Waiting(t, m)' <=> Waiting(t, m)
        BY <1>1, <1>2, <3>1, <3>3 DEF Waiting
      <3>5. QED
        BY <1>3, <1>5, <2>2, <3>2, <3>4
    <2>3. QED
      BY <2>1, <2>2
  <1>6. n > 1 => stack'[t][n-1] = stack[t][n-1]
    BY <1>1, <1>3, <1>4
  <1>7. (Waiting(t, n)' <=> g.fn = "access") /\ ~Waiting(t, n+1)'
    BY <1>1, <1>2 DEF Waiting
  <1>8. Order'
    <2> SUFFICES ASSUME NEW u \in Cores, NEW m \in Frames(u)', NEW k \in Frames(u)', m < k
                 PROVE  LET e == stack'[u][m]
                            h == stack'[u][k]
                        IN  /\ h.fn = "access" => e.fn = "access" /\ e.c # h.c /\ Above(h.c, e.c)
                            /\ ~Waiting(u, m)' => h.fn = "inv" /\ e.c # h.c /\ Above(e.c, h.c)
      BY DEF Order, Above
    <2>1. CASE u # t
      <3>1. m \in Frames(u) /\ k \in Frames(u) /\ stack'[u] = stack[u] /\ (Waiting(u, m)' <=> Waiting(u, m))
        BY <1>3, <1>4, <1>5, <2>1
      <3>2. QED
        BY <3>1 DEF Order
    <2>2. CASE u = t /\ k < n+1
      <3>1. m \in Frames(t) /\ k \in Frames(t) /\ m # n
        BY <1>1, <1>4, <2>2
      <3>2. /\ stack'[t][m].fn = stack[t][m].fn /\ stack'[t][m].c = stack[t][m].c
            /\ stack'[t][k].fn = stack[t][k].fn /\ stack'[t][k].c = stack[t][k].c
            /\ Waiting(t, m)' <=> Waiting(t, m)
        BY <1>1, <1>3, <1>5, <3>1
      <3>3. QED
        BY <2>2, <3>1, <3>2 DEF Order
    <2>3. CASE u = t /\ k = n+1
      <3>1. m \in Frames(t) /\ m \in Nat /\ (m = n \/ m < n)
        BY <1>1, <1>4, <2>3
      <3>2. PICK e : e = stack'[t][m]
        OBVIOUS
      <3>3. e \in Frame /\ e.c \in Caches /\ f.c \in Caches /\ g.c \in Caches
        BY <1>1, <1>3, <3>1, <3>2, InStack, FrameTypes
      <3>4. m < n => e = stack[t][m] /\ (Waiting(t, m)' <=> Waiting(t, m))
        BY <1>1, <1>5, <3>1, <3>2
      <3>5. m < n =>
              /\ f.fn = "access" => e.fn = "access" /\ e.c # f.c /\ Above(f.c, e.c)
              /\ ~Waiting(t, m) => f.fn = "inv" /\ e.c # f.c /\ Above(e.c, f.c)
        BY <1>1, <3>1, <3>4 DEF Order
      <3>6. m = n => e = f
        BY <1>3, <3>2
      <3>7. CASE g.fn = "access"
        <4>1. f.fn = "access" /\ Parent[f.c] # Mem /\ g.c = Parent[f.c]
          BY <3>7 DEF CallUp, CallDown
        <4>2. e.fn = "access" /\ Above(f.c, e.c)
          BY <3>1, <3>3, <3>5, <3>6, <4>1, AboveSelf
        <4>3. e.c # g.c /\ Above(g.c, e.c)
          BY <3>3, <4>1, <4>2, ParentAbove, AboveParent
        <4>4. Waiting(t, m)'
          BY <1>7, <3>1, <3>4, <3>5, <3>7, <4>1
        <4>5. QED
          BY <1>2, <2>3, <3>2, <4>2, <4>3, <4>4
      <3>8. CASE g.fn = "inv"
        <4>1. Parent[g.c] = f.c /\ Parent[g.c] # Mem
          BY <3>3, <3>8, CoreFacts DEF CallUp, CallDown
        <4>2. ~Waiting(t, m)' => Above(e.c, f.c)
          BY <3>1, <3>3, <3>4, <3>5, <3>6, AboveSelf
        <4>3. ~Waiting(t, m)' => e.c # g.c /\ Above(e.c, g.c)
          BY <3>3, <4>1, <4>2, ParentAbove, AboveChild
        <4>4. QED
          BY <1>2, <2>3, <3>2, <3>8, <4>3
      <3>9. QED
        BY <3>7, <3>8, FrameTypes
    <2>4. QED
      BY <1>1, <1>4, <2>1, <2>2, <2>3
  <1>9. QED
    BY <1>1, <1>2, <1>3, <1>4, <1>5, <1>6, <1>7, <1>8

\* A core starts an access of its terminal cache.
LEMMA CoreAccessStep ==
  ASSUME IInv, NEW t \in Cores, CoreAccess(t)
  PROVE  IInv'
  <1>1. /\ Types /\ Locks /\ Order /\ Linked /\ Content /\ ~Busy(t)
        /\ UNCHANGED <<array, bcc, tcc, bccLock, tccLock, unsaved>>
        /\ t \in Caches
    BY CoreFacts DEF IInv, CoreAccess
  <1>2. PICK a \in Addrs, type \in {"GETS", "GETX"} :
          stack' = [stack EXCEPT ![t] = <<[fn |-> "access", c |-> t, child |-> None,
                      childSlot |-> 0, a |-> a, type |-> type, initialState |-> "I",
                      pc |-> "bcc", slot |-> 0, wb |-> FALSE]>>]
    BY DEF CoreAccess
  <1>3. PICK g : g = [fn |-> "access", c |-> t, child |-> None,
                      childSlot |-> 0, a |-> a, type |-> type, initialState |-> "I",
                      pc |-> "bcc", slot |-> 0, wb |-> FALSE]
    OBVIOUS
  <1>4. /\ g \in Frame /\ g.fn = "access" /\ g.c = t /\ g.child = None /\ g.type = type
        /\ g.pc = "bcc" /\ g.slot = 0 /\ g.wb = FALSE /\ g.initialState = "I"
    BY <1>1, <1>3 DEF Frame, AccFrame, MESIState
  <1>5. stack \in [Cores -> Seq(Frame)]
    BY <1>1 DEF Types, Frame
  <1>6. /\ stack' \in [Cores -> Seq(Frame)] /\ stack'[t] = <<g>>
        /\ \A u \in Cores : u # t => stack'[u] = stack[u]
    <2>1. PICK s : s = <<g>>
      OBVIOUS
    <2>2. s \in Seq(Frame)
      BY <1>4, <2>1
    <2>3. stack' = [stack EXCEPT ![t] = s]
      BY <1>2, <1>3, <2>1
    <2>4. QED
      BY <1>5, <2>1, <2>2, <2>3
  <1>7. /\ Frames(t) = {} /\ Frames(t)' = {1} /\ stack'[t][1] = g /\ ~Waiting(t, 1)'
        /\ \A u \in Cores : u # t => Frames(u)' = Frames(u)
    BY <1>1, <1>6 DEF Frames, Busy, Waiting
  <1>8. \A u \in Cores : \A m \in Frames(u) :
           /\ u # t /\ m \in Frames(u)' /\ stack'[u] = stack[u]
           /\ (Waiting(u, m)' <=> Waiting(u, m)) /\ (Owns(u, m)' <=> Owns(u, m))
    BY <1>6, <1>7 DEF Waiting, Owns
  <1>9. Types'
    <2>1. issued' \in [Cores -> 0..Limit]
      BY <1>1, ConstantsAssumption DEF CoreAccess, Types, TypeOK
    <2>2. QED
      BY <1>1, <1>6, <2>1, TypesSame DEF Types, TypeOK
  <1>10. Locks'
    <2> SUFFICES ASSUME NEW u \in Cores, NEW m \in Frames(u)'
                 PROVE  /\ Owns(u, m)' => bccLock'[stack'[u][m].c] = u
                        /\ Accessing(u, m)' /\ m > 1 => tccLock'[stack'[u][m].c] = u
      BY DEF Locks
    <2>1. CASE u = t
      BY <1>4, <1>7, <2>1 DEF Owns
    <2>2. CASE u # t
      BY <1>1, <1>7, <1>8, <2>2 DEF Locks, Accessing
    <2>3. QED
      BY <2>1, <2>2
  <1>11. Order'
    <2> SUFFICES ASSUME NEW u \in Cores, NEW m \in Frames(u)', NEW k \in Frames(u)', m < k
                 PROVE  LET e == stack'[u][m]
                            h == stack'[u][k]
                        IN  /\ h.fn = "access" => e.fn = "access" /\ e.c # h.c /\ Above(h.c, e.c)
                            /\ ~Waiting(u, m)' => h.fn = "inv" /\ e.c # h.c /\ Above(e.c, h.c)
      BY DEF Order, Above
    <2>1. u # t
      BY <1>7
    <2>2. QED
      BY <1>1, <1>7, <1>8, <2>1 DEF Order
  <1>12. ASSUME NEW u \in Cores, NEW m \in Frames(u)'
         PROVE  LinkedAt(u, m)' /\ ContentAt(u, m)'
    <2>1. CASE u = t
      <3>1. LinkedAt(t, 1)'
        BY <1>4, <1>7 DEF LinkedAt, FirstFrame
      <3>2. ContentAt(t, 1)'
        BY <1>4, <1>7 DEF ContentAt, FrameLine, Owns
      <3>3. QED
        BY <1>7, <2>1, <3>1, <3>2
    <2>2. CASE u # t
      BY <1>1, <1>7, <1>8, <2>2, StableData
    <2>3. QED
      BY <2>1, <2>2
  <1>13. Linked' /\ Content'
    BY <1>12 DEF Linked, Content
  <1>14. Remain
    BY <1>8 DEF Remain
  <1>15. UniqueLines' /\ EmptyLines' /\ Entries' /\ Pairs' /\ Present'
    BY <1>1, <1>14, LinesSame DEF IInv
  <1>16. QED
    BY <1>9, <1>10, <1>11, <1>13, <1>15 DEF IInv

\* The locks after a call: a frame that calls the parent leaves its bcc lock.
LEMMA PushedLocks ==
  ASSUME Types, Locks, Order, NEW t \in Cores, Busy(t), NEW n, n = Len(stack[t]),
         NEW f \in Frame, NEW g \in Frame, Call(t, f, g), f.fn = Top(t).fn, f.c = Top(t).c,
         f.pc \notin {"tcc", "bcc"}, Top(t).pc \notin {"tcc", "bcc"}, tccLock' = tccLock,
         \/ CallUp(f, g) /\ g.pc = "tcc" /\ bccLock' = [bccLock EXCEPT ![f.c] = None]
         \/ CallDown(f, g) /\ g.pc = "bcc" /\ bccLock' = bccLock
  PROVE  Locks'
  <1>1. /\ n \in Nat /\ n > 0 /\ n \in Frames(t)
        /\ \A u \in Cores : u # t => Frames(u)' = Frames(u)
        /\ Frames(t)' = 1..n+1
        /\ stack'[t][n+1] = g /\ stack'[t][n] = f
        /\ \A u \in Cores : \A m \in Frames(u) : u # t \/ m # n =>
              /\ stack'[u][m] = stack[u][m]
              /\ Waiting(u, m)' <=> Waiting(u, m)
        /\ Waiting(t, n)' <=> g.fn = "access"
    <2>1. CallUp(f, g) \/ CallDown(f, g)
      OBVIOUS
    <2>2. QED
      BY <2>1, Pushed
  <1>2. Top(t) = stack[t][n] /\ Frames(t) = 1..n /\ f.c \in Caches /\ ~Waiting(t, n)
    BY TopFacts, FrameTypes DEF Frames
  <1>3. Owns(t, n) /\ (Accessing(t, n) <=> f.fn = "access")
    BY <1>2 DEF Owns, Accessing
  <1>4. /\ bccLock[f.c] = t
        /\ f.fn = "access" /\ n > 1 => tccLock[f.c] = t
    BY <1>1, <1>2, <1>3 DEF Locks
  <1>5. \A c \in Caches : c # f.c => bccLock'[c] = bccLock[c]
    BY DEF Types, TypeOK
  <1> SUFFICES ASSUME NEW u \in Cores, NEW m \in Frames(u)'
               PROVE  /\ Owns(u, m)' => bccLock'[stack'[u][m].c] = u
                      /\ Accessing(u, m)' /\ m > 1 => tccLock'[stack'[u][m].c] = u
    BY DEF Locks
  <1>6. CASE u = t /\ m = n+1
    BY <1>1, <1>6 DEF Owns, Accessing, CallDown
  <1>7. CASE u = t /\ m = n
    <2>1. Owns(t, n)' => bccLock'[f.c] = t
      BY <1>1, <1>4 DEF Owns, CallUp, CallDown
    <2>2. QED
      BY <1>1, <1>4, <1>7, <2>1 DEF Accessing
  <1>8. CASE u # t \/ (m # n /\ m # n+1)
    <2>1. m \in Frames(u) /\ (u # t \/ m # n)
      BY <1>1, <1>2, <1>8
    <2>2. stack'[u][m] = stack[u][m] /\ (Waiting(u, m)' <=> Waiting(u, m))
      BY <1>1, <2>1
    <2>3. /\ Owns(u, m) => bccLock[stack[u][m].c] = u
          /\ Accessing(u, m) /\ m > 1 => tccLock[stack[u][m].c] = u
      BY <2>1 DEF Locks
    <2>4. Owns(u, m) => stack[u][m].c # f.c
      BY <1>1, <1>2, <1>3, <2>1, OneOwner
    <2>5. Owns(u, m) => bccLock'[stack[u][m].c] = u
      BY <1>5, <2>1, <2>3, <2>4, InStack, FrameTypes
    <2>6. QED
      BY <2>2, <2>3, <2>5 DEF Owns, Accessing
  <1>9. QED
    BY <1>6, <1>7, <1>8

\* sendInvalidates calls a child.
LEMMA SendInvalidateStep ==
  ASSUME IInv, NEW t \in Cores, SendInvalidate(t)
  PROVE  IInv'
  <1>1. PICK n, f : n = Len(stack[t]) /\ f = Top(t)
    OBVIOUS
  <1>2. /\ Types /\ Locks /\ Order /\ Linked /\ Content /\ Busy(t) /\ Entries /\ EmptyLines
        /\ Sending(t, f) /\ UNCHANGED <<array, bcc, tcc, bccLock, tccLock, issued, unsaved>>
    BY <1>1 DEF IInv, SendInvalidate
  <1>3. PICK k, g :
          /\ k \in Dir(f).sharers
          /\ g = [fn |-> "inv", c |-> k, a |-> array[f.c][f.slot], type |-> InvTypeSent(f),
                  pc |-> "bcc", slot |-> 0, wb |-> FALSE]
          /\ Call(t, f, g)
    BY <1>1 DEF SendInvalidate
  <1>4. /\ n \in Frames(t) /\ f = stack[t][n] /\ f \in Frame /\ n \in Nat /\ n > 0 /\ ~Waiting(t, n)
        /\ f.c \in Caches /\ ContentAt(t, n)
    BY <1>1, <1>2, TopFacts, InStack, FrameTypes DEF Content
  <1>5. f.slot \in Slots(f.c) /\ f.pc \notin {"tcc", "bcc"}
    BY <1>2, <1>4 DEF ContentAt, FrameLine, Sending
  <1>6. k \in Caches /\ Parent[k] = f.c
    BY <1>2, <1>3, <1>4, <1>5 DEF Entries, EntryAt, Dir, Children
  <1>7. array[f.c][f.slot] \in Addrs
    <2>1. array[f.c][f.slot] \in Addrs \cup {None}
      BY <1>2, <1>4, <1>5 DEF Types, TypeOK
    <2>2. array[f.c][f.slot] # None
      BY <1>2, <1>3, <1>4, <1>5 DEF EmptyLines, Dir
    <2>3. QED
      BY <2>1, <2>2
  <1>8. InvTypeSent(f) \in {"INV", "INVX"}
    BY <1>4, FrameTypes DEF InvTypeSent
  <1>9. /\ g \in Frame /\ g.fn = "inv" /\ g.c = k /\ g.a = array[f.c][f.slot]
        /\ g.type = InvTypeSent(f) /\ g.pc = "bcc" /\ g.slot = 0 /\ g.wb = FALSE
    BY <1>3, <1>6, <1>7, <1>8 DEF Frame, InvFrame
  <1>0. /\ Call(t, f, g) /\ f.fn = Top(t).fn /\ f.c = Top(t).c /\ CallDown(f, g)
        /\ Types /\ Order /\ Busy(t) /\ n = Len(stack[t]) /\ f \in Frame /\ g \in Frame
    BY <1>1, <1>2, <1>3, <1>4, <1>6, <1>9 DEF CallDown
  <1>10. /\ \A u \in Cores : u # t => Frames(u)' = Frames(u)
         /\ Frames(t)' = 1..n+1
         /\ stack'[t][n+1] = g /\ stack'[t][n] = f
         /\ stack' \in [Cores -> Seq(Frame)]
         /\ \A u \in Cores : \A m \in Frames(u) : u # t \/ m # n =>
              /\ stack'[u][m] = stack[u][m]
              /\ m > 1 => stack'[u][m-1] = stack[u][m-1]
              /\ Waiting(u, m)' <=> Waiting(u, m)
         /\ n > 1 => stack'[t][n-1] = stack[t][n-1]
         /\ ~Waiting(t, n)'
         /\ ~Waiting(t, n+1)'
         /\ Order'
    <2>1. Waiting(t, n)' <=> g.fn = "access"
      BY <1>0, Pushed
    <2>2. QED
      BY <1>0, <1>9, <2>1, Pushed
  <1>11. Frames(t) = 1..n
    BY <1>1 DEF Frames
  <1>12. Types'
    BY <1>2, <1>10, TypesSame DEF Types, TypeOK
  <1>13. Locks'
    BY <1>0, <1>1, <1>2, <1>5, <1>9, PushedLocks
  <1>14. ASSUME NEW u \in Cores, NEW m \in Frames(u)
         PROVE  /\ m \in Frames(u)' /\ stack'[u][m] = stack[u][m]
                /\ m > 1 => stack'[u][m-1] = stack[u][m-1]
                /\ Waiting(u, m)' <=> Waiting(u, m)
    BY <1>4, <1>10, <1>11
  <1>15. ASSUME NEW u \in Cores, NEW m \in Frames(u)'
         PROVE  LinkedAt(u, m)' /\ ContentAt(u, m)'
    <2>1. CASE m \in Frames(u)
      BY <1>2, <1>14, <2>1, StableData
    <2>2. CASE m \notin Frames(u)
      <3>1. u = t /\ m = n+1
        BY <1>4, <1>10, <1>11, <2>2
      <3>2. InvCall(t, f, g)'
        BY <1>2, <1>3, <1>5, <1>9 DEF InvCall, Dir, Sending, MustInvalidate
      <3>3. (n+1)-1 = n /\ n+1 # 1
        BY <1>4
      <3>4. LinkedAt(t, n+1)'
        BY <1>9, <1>10, <3>2, <3>3 DEF LinkedAt
      <3>5. ContentAt(t, n+1)'
        BY <1>9, <1>10 DEF ContentAt, FrameLine
      <3>6. QED
        BY <3>1, <3>4, <3>5
    <2>3. QED
      BY <2>1, <2>2
  <1>16. Linked' /\ Content'
    BY <1>15 DEF Linked, Content
  <1>17. Remain
    BY <1>14 DEF Remain, Owns
  <1>18. UniqueLines' /\ EmptyLines' /\ Entries' /\ Pairs' /\ Present'
    BY <1>2, <1>17, LinesSame DEF IInv
  <1>19. QED
    BY <1>10, <1>12, <1>13, <1>16, <1>18 DEF IInv

\* endAccess relocks the child and gives up the locks.
LEMMA EndAccessStep ==
  ASSUME IInv, NEW t \in Cores, EndAccess(t)
  PROVE  IInv'
  <1>1. PICK n, f : n = Len(stack[t]) /\ f = Top(t)
    OBVIOUS
  <1>2. /\ Types /\ Locks /\ Order /\ Linked /\ Content /\ Busy(t) /\ Entries /\ EmptyLines /\ Pairs
        /\ f.fn = "access" /\ f.pc = "end" /\ UNCHANGED <<array, bcc, tcc, issued>>
        /\ f.child # None => bccLock[f.child] = None
        /\ bccLock' = [c \in Caches |-> CASE c = f.c -> None
                                          [] c = f.child -> t
                                          [] OTHER -> bccLock[c]]
        /\ tccLock' = [tccLock EXCEPT ![f.c] = None]
        /\ stack' = [stack EXCEPT ![t] = Popped(@)]
        /\ unsaved' = IF f.c \in Leaves /\ f.type = "GETX" THEN unsaved \cup {f.a} ELSE unsaved
    BY <1>1 DEF IInv, EndAccess, At
  <1>3. /\ n \in Frames(t) /\ f = stack[t][n] /\ f \in Frame /\ n \in Nat /\ n > 0 /\ ~Waiting(t, n)
        /\ f.c \in Caches /\ f.a \in Addrs /\ (n = 1 \/ n > 1) /\ Frames(t) = 1..n
    BY <1>1, <1>2, TopFacts, InStack, FrameTypes, NatOne DEF Frames
  <1>4. /\ \A u \in Cores : u # t => stack'[u] = stack[u]
        /\ Len(stack'[t]) = n - 1
        /\ \A m \in 1..n-1 : stack'[t][m] = stack[t][m]
        /\ stack' \in [Cores -> Seq(Frame)]
    BY <1>1, <1>2, PopEffect
  <1>5. /\ \A u \in Cores : u # t => Frames(u)' = Frames(u)
        /\ Frames(t)' = 1..n-1
    BY <1>4 DEF Frames
  <1>6. \A u \in Cores : \A m \in Frames(u)' :
          /\ m \in Frames(u) /\ m \in Nat /\ m > 0
          /\ u # t \/ m < n
          /\ stack'[u][m] = stack[u][m]
          /\ m > 1 => stack'[u][m-1] = stack[u][m-1]
    <2>1. ASSUME NEW u \in Cores, NEW m \in Frames(u)', u # t
          PROVE  m \in Frames(u) /\ stack'[u] = stack[u]
      BY <1>4, <1>5, <2>1
    <2>2. ASSUME NEW m \in Frames(t)'
          PROVE  /\ m \in Frames(t) /\ m < n /\ stack'[t][m] = stack[t][m]
                 /\ m > 1 => stack'[t][m-1] = stack[t][m-1]
      <3>1. m \in Nat /\ m <= n-1 /\ m > 0
        BY <1>3, <1>5, <2>2
      <3>2. m \in 1..n /\ m \in 1..n-1 /\ (m > 1 => m-1 \in 1..n-1)
        BY <1>3, <3>1
      <3>3. QED
        BY <1>3, <1>4, <3>1, <3>2
    <2>3. QED
      BY <1>2, <2>1, <2>2, InStack
  <1>7. ASSUME NEW u \in Cores, NEW m \in Frames(u)', u # t \/ m # n-1
        PROVE  Waiting(u, m)' <=> Waiting(u, m)
    <2>1. CASE u # t
      BY <1>4, <2>1 DEF Waiting
    <2>2. CASE u = t
      <3>1. m < n-1 /\ m < n /\ m+1 \in 1..n-1
        BY <1>3, <1>5, <1>7, <2>2
      <3>2. QED
        BY <1>1, <1>4, <2>2, <3>1 DEF Waiting
    <2>3. QED
      BY <2>1, <2>2
  <1>8. ~Waiting(t, n-1)'
    BY <1>3, <1>4 DEF Waiting
  <1>9. n > 1 => /\ f.child \in Caches /\ Parent[f.child] = f.c /\ f.child # f.c
                 /\ AccessCall(stack[t][n-1], f) /\ Waiting(t, n-1) /\ n-1 \in Frames(t)'
    <2>1. SUFFICES ASSUME n > 1 PROVE
                 /\ f.child \in Caches /\ Parent[f.child] = f.c /\ f.child # f.c
                 /\ AccessCall(stack[t][n-1], f) /\ Waiting(t, n-1) /\ n-1 \in Frames(t)'
      OBVIOUS
    <2>2. n-1 \in Frames(t)'
      BY <1>3, <1>5, <2>1
    <2>3. f.child \in Caches /\ Parent[f.child] = f.c /\ f.child # f.c
      BY <1>2, <1>3, <2>1, AccessFacts
    <2>4. AccessCall(stack[t][n-1], f) /\ Waiting(t, n-1)
      BY <1>2, <1>3, <2>1, CallerFacts
    <2>5. QED
      BY <2>2, <2>3, <2>4
  <1>10. n = 1 => f.child = None
    BY <1>2, <1>3, AccessFacts
  <1>11. ASSUME NEW u \in Cores, NEW m \in Frames(u), u # t \/ m # n
         PROVE  /\ stack[u][m].c = f.c => ~Owns(u, m) /\ ~Accessing(u, m)
                /\ stack[u][m].c = f.child => ~Owns(u, m)
    <2>1. Top(t).fn = "access" /\ Top(t).pc \notin {"tcc", "bcc"}
      BY <1>1, <1>2
    <2>2. stack[u][m].c = f.c => ~Owns(u, m) /\ (stack[u][m].fn = "access" => stack[u][m].pc = "tcc")
      BY <1>1, <1>2, <1>11, <2>1, Isolated
    <2>3. stack[u][m].c = f.child => ~Owns(u, m)
      BY <1>2, <1>11, CoreFacts, InStack, FrameTypes DEF Locks
    <2>4. QED
      BY <2>2, <2>3 DEF Accessing
  <1>12. Types'
    <2>1. bccLock' \in [Caches -> Cores \cup {None}] /\ tccLock' \in [Caches -> Cores \cup {None}]
      BY <1>2 DEF Types, TypeOK
    <2>2. unsaved' \subseteq Addrs /\ issued' \in [Cores -> 0..Limit]
      BY <1>2, <1>3 DEF Types, TypeOK
    <2>3. QED
      BY <1>2, <1>4, <2>1, <2>2, TypesSame
  <1>13. Locks'
    <2> SUFFICES ASSUME NEW u \in Cores, NEW m \in Frames(u)'
                 PROVE  /\ Owns(u, m)' => bccLock'[stack'[u][m].c] = u
                        /\ Accessing(u, m)' /\ m > 1 => tccLock'[stack'[u][m].c] = u
      BY DEF Locks
    <2>1. /\ m \in Frames(u) /\ (u # t \/ m # n) /\ stack'[u][m] = stack[u][m]
          /\ stack[u][m].c \in Caches
      BY <1>2, <1>6, InStack, FrameTypes
    <2>2. /\ Owns(u, m) => bccLock[stack[u][m].c] = u
          /\ Accessing(u, m) /\ m > 1 => tccLock[stack[u][m].c] = u
      BY <1>2, <2>1 DEF Locks
    <2>3. Accessing(u, m)' /\ m > 1 => tccLock'[stack'[u][m].c] = u
      <3>1. Accessing(u, m) => stack[u][m].c # f.c
        BY <1>11, <2>1
      <3>2. Accessing(u, m)' <=> Accessing(u, m)
        BY <2>1 DEF Accessing
      <3>3. QED
        BY <1>2, <2>1, <2>2, <3>1, <3>2 DEF Types, TypeOK
    <2>4. CASE u = t /\ m = n-1
      <3>1. n > 1 /\ stack[u][m].c = f.child
        BY <1>3, <1>5, <1>9, <2>4 DEF AccessCall
      <3>2. bccLock'[f.child] = t
        BY <1>2, <1>9, <3>1
      <3>3. QED
        BY <2>1, <2>3, <2>4, <3>1, <3>2
    <2>5. CASE u # t \/ m # n-1
      <3>1. Owns(u, m)' <=> Owns(u, m)
        BY <1>7, <2>1, <2>5 DEF Owns
      <3>2. Owns(u, m) => stack[u][m].c # f.c /\ stack[u][m].c # f.child
        BY <1>11, <2>1
      <3>3. Owns(u, m) => bccLock'[stack[u][m].c] = bccLock[stack[u][m].c]
        BY <1>2, <2>1, <3>2
      <3>4. QED
        BY <2>1, <2>2, <2>3, <3>1, <3>3
    <2>6. QED
      BY <2>4, <2>5
  <1>14. Order'
    <2> SUFFICES ASSUME NEW u \in Cores, NEW m \in Frames(u)', NEW k \in Frames(u)', m < k
                 PROVE  LET e == stack'[u][m]
                            h == stack'[u][k]
                        IN  /\ h.fn = "access" => e.fn = "access" /\ e.c # h.c /\ Above(h.c, e.c)
                            /\ ~Waiting(u, m)' => h.fn = "inv" /\ e.c # h.c /\ Above(e.c, h.c)
      BY DEF Order, Above
    <2>1. /\ m \in Frames(u) /\ k \in Frames(u)
          /\ stack'[u][m] = stack[u][m] /\ stack'[u][k] = stack[u][k]
      BY <1>6
    <2>2. u # t \/ m # n-1
      BY <1>3, <1>5
    <2>3. Waiting(u, m)' <=> Waiting(u, m)
      BY <1>7, <2>2
    <2>4. QED
      BY <1>2, <2>1, <2>3 DEF Order
  <1>15. ASSUME n > 1, NEW e, e = stack[t][n-1]
         PROVE  OwnState(e)
    <2>1. /\ e.fn = "access" /\ e.slot \in Slots(e.c)
          /\ f.child = e.c /\ f.childSlot = e.slot /\ e.c \in Caches
          /\ IF f.type \in Puts THEN e.pc = "evput"
             ELSE f.type = e.type /\ e.pc \in {"end", "top"}
      BY <1>9, <1>15 DEF AccessCall
    <2>2. RequestState(f) /\ ChildState(f) = State(e) /\ f.type \in {"GETS", "GETX", "PUTS", "PUTX"}
      <3>1. ContentAt(t, n)
        BY <1>2, <1>3 DEF Content
      <3>2. QED
        BY <1>2, <1>3, <1>15, <2>1, <3>1, CoreFacts, FrameTypes DEF ContentAt, ChildState, State
    <2>3. e.pc = "evput" => State(e) = "I"
      BY <1>2, <2>1, <2>2 DEF RequestState, Puts
    <2>4. e.pc = "top" \/ (e.pc = "end" /\ e.c \in Leaves) =>
            /\ e.type = "GETS" => State(e) # "I"
            /\ e.type = "GETX" => State(e) = "M"
      BY <1>2, <2>1, <2>2 DEF RequestState, Puts
    <2>5. ASSUME e.pc = "top", e.type = "GETX", e.child \notin Dir(e).sharers, ChildState(e) = "S"
          PROVE  FALSE
      <3>1. n-1 \in Frames(t) /\ n-1 \in Nat /\ n-1 > 0 /\ ContentAt(t, n-1)
        BY <1>2, <1>3, <1>6, <1>9, <1>15 DEF Content
      <3>2. n-1 > 1
        BY <1>2, <1>15, <2>1, <2>5, <3>1, AccessFacts, NatOne DEF ChildState
      <3>3. /\ e.child \in Caches /\ Parent[e.child] = e.c /\ e.childSlot \in Slots(e.child)
            /\ array[e.child][e.childSlot] = e.a
        BY <1>2, <1>15, <2>1, <3>1, <3>2, AccessFacts
      <3>4. array[e.c][e.slot] = e.a /\ e.a \in Addrs /\ Parent[e.child] # Mem
        <4>1. e \in Frame /\ FrameLine(e)
          BY <1>2, <1>15, <3>1, InStack DEF ContentAt
        <4>2. QED
          BY <2>1, <2>5, <3>3, <4>1, FrameTypes, CoreFacts DEF FrameLine
      <3>5. Agree(e.child, e.childSlot, e.slot)
        BY <1>2, <2>1, <3>3, <3>4, CoreFacts DEF Pairs
      <3>6. PICK u \in Cores : \E m \in Frames(u) : Upgrades(u, m, e.child, e.childSlot, e.slot)
        BY <2>5, <3>3, <3>5, CoreFacts DEF Agree, ChildState, Dir
      <3>7. bccLock[e.c] = u
        BY <1>2, <3>3, <3>6 DEF Upgrades, Locks
      <3>8. QED
        BY <1>2, <2>1, <3>7, CoreFacts
    <2>6. QED
      BY <2>3, <2>4, <2>5 DEF OwnState
  <1>16. ASSUME NEW u \in Cores, NEW m \in Frames(u)'
         PROVE  LinkedAt(u, m)' /\ ContentAt(u, m)'
    <2>1. CASE u # t \/ m # n-1
      BY <1>2, <1>6, <1>7, <2>1, StableData
    <2>2. CASE u = t /\ m = n-1
      <3>1. n > 1 /\ Waiting(t, n-1) /\ n-1 \in Frames(t)
        BY <1>3, <1>5, <1>6, <1>9, <2>2
      <3>2. PICK e : e = stack[t][n-1]
        OBVIOUS
      <3>3. /\ e \in Frame /\ stack'[t][n-1] = e /\ (n-1 > 1 => stack'[t][(n-1)-1] = stack[t][(n-1)-1])
        BY <1>2, <1>6, <2>2, <3>1, <3>2, InStack
      <3>4. LinkedAt(t, n-1)'
        BY <1>2, <3>1, <3>2, <3>3, LinkedStays
      <3>5. ContentAt(t, n-1)
        BY <1>2, <3>1 DEF Content
      <3>6. OwnState(e)
        BY <3>1, <3>2, <1>15
      <3>7. ~(e.wb /\ e.pc # "end")
        BY <3>1, <3>2, <3>5 DEF ContentAt, Owns
      <3>8. ChildState(e)' = ChildState(e) /\ Dir(e)' = Dir(e) /\ State(e)' = State(e)
        BY <1>2 DEF ChildState, Dir, State
      <3>9. FrameLine(e)' /\ (n-1 > 1 /\ e.fn = "access" => RequestState(e)') /\ OwnState(e)'
        BY <1>2, <3>2, <3>5, <3>6, <3>8 DEF ContentAt, FrameLine, Holding, RequestState, OwnState
      <3>10. ContentAt(t, n-1)'
        BY <3>3, <3>7, <3>9 DEF ContentAt
      <3>11. QED
        BY <2>2, <3>4, <3>10
    <2>3. QED
      BY <2>1, <2>2
  <1>17. Linked' /\ Content'
    BY <1>16 DEF Linked, Content
  <1>18. Remain
    <2> SUFFICES ASSUME NEW u \in Cores, NEW m \in Frames(u), Owns(u, m),
                        stack[u][m].pc \in {"evict", "top", "down"}
                 PROVE  m \in Frames(u)' /\ stack'[u][m] = stack[u][m] /\ Owns(u, m)'
      BY DEF Remain
    <2>1. ~(u = t /\ m = n)
      BY <1>2, <1>3
    <2>2. m \in Frames(u)'
      BY <1>3, <1>5, <2>1
    <2>3. ~(u = t /\ m = n-1)
      BY <1>3, <1>5, <1>9, <2>2 DEF Owns
    <2>4. QED
      BY <1>6, <1>7, <2>2, <2>3 DEF Owns
  <1>19. UniqueLines' /\ EmptyLines' /\ Entries' /\ Pairs' /\ Present'
    BY <1>2, <1>18, LinesSame DEF IInv
  <1>20. QED
    BY <1>12, <1>13, <1>14, <1>17, <1>19 DEF IInv

-----------------------------------------------------------------------------
(* Steps of an access that change the lines of its cache *)

\* Only cache c changes.
OnlyAt(c) ==
    \A d \in Caches : d # c => array'[d] = array[d] /\ bcc'[d] = bcc[d] /\ tcc'[d] = tcc[d]

\* The frames but for the top frame of core t stay.
Kept(t) ==
    \A u \in Cores : \A m \in Frames(u) : u # t \/ m # Len(stack[t]) =>
        /\ m \in Frames(u)' /\ stack'[u][m] = stack[u][m]
        /\ m > 1 => stack'[u][m-1] = stack[u][m-1]
        /\ Waiting(u, m)' <=> Waiting(u, m)

\* The top frame of core t is an access that has its cache's locks.
Working(t) == Busy(t) /\ Top(t).fn = "access" /\ Top(t).pc \notin {"tcc", "bcc"}

Consistent == Types /\ Locks /\ Order /\ Linked /\ Content

\* What the frames of others know when one thread writes lines of one cache
LEMMA OthersStable ==
  ASSUME Consistent, NEW t \in Cores, Working(t), OnlyAt(Top(t).c), Kept(t),
         NEW u \in Cores, NEW m \in Frames(u), u # t \/ m # Len(stack[t])
  PROVE  LinkedAt(u, m)' /\ ContentAt(u, m)'
  <1>1. PICK f, g : f = Top(t) /\ g = stack[u][m]
    OBVIOUS
  <1>2. /\ g \in Frame /\ m \in Nat /\ m > 0 /\ LinkedAt(u, m) /\ ContentAt(u, m) /\ g.c \in Caches
        /\ g = stack'[u][m] /\ (m > 1 => stack'[u][m-1] = stack[u][m-1])
        /\ Waiting(u, m)' <=> Waiting(u, m)
    BY <1>1, InStack, FrameTypes DEF Consistent, Linked, Content, Kept
  <1>3. /\ g.c = f.c => g.pc \in {"tcc", "bcc"} /\ ~Owns(u, m)
        /\ g.fn = "access" /\ m > 1 => g.child # f.c
        /\ m > 1 => stack[u][m-1].c # f.c
    BY <1>1, Isolated DEF Consistent, Working
  <1>4. m > 1 => stack[u][m-1].c \in Caches
    BY InStack, FrameTypes DEF Consistent
  <1>5. m > 1 => array'[stack[u][m-1].c] = array[stack[u][m-1].c]
                 /\ tcc'[stack[u][m-1].c] = tcc[stack[u][m-1].c]
    BY <1>1, <1>3, <1>4 DEF OnlyAt
  <1>6. g.fn = "access" => g.child = None \/ bcc'[g.child] = bcc[g.child]
    <2>1. SUFFICES ASSUME g.fn = "access", g.child # None PROVE bcc'[g.child] = bcc[g.child]
      OBVIOUS
    <2>2. m > 1 /\ g.child \in Caches
      <3>1. Types /\ Linked /\ stack[u][m].fn = "access" /\ stack[u][m].child # None
        BY <1>1, <2>1 DEF Consistent
      <3>2. /\ m = 1 => stack[u][m].child = None
            /\ m > 1 => stack[u][m].child \in Caches
        BY <3>1, AccessFacts
      <3>3. QED
        BY <1>1, <1>2, <3>1, <3>2, NatOne
    <2>3. QED
      BY <1>1, <1>3, <2>1, <2>2 DEF OnlyAt
  <1>7. g.c # f.c => array'[g.c] = array[g.c] /\ bcc'[g.c] = bcc[g.c] /\ tcc'[g.c] = tcc[g.c]
    BY <1>1, <1>2 DEF OnlyAt
  <1>8. g.fn = "access" /\ g.pc = "evput" => tcc'[g.c][g.slot].sharers = {}
    BY <1>1, <1>2, <1>3, <1>7 DEF ContentAt, FrameLine, Dir
  <1>9. /\ g.pc \notin {"tcc", "bcc"} => array'[g.c] = array[g.c]
        /\ Owns(u, m) => bcc'[g.c][g.slot] = bcc[g.c][g.slot] /\ tcc'[g.c][g.slot] = tcc[g.c][g.slot]
    BY <1>1, <1>3, <1>7
  <1>10. QED
    BY <1>1, <1>2, <1>5, <1>6, <1>8, <1>9, Stable

\* Upgrades and the frame at work
LEMMA UpgradeFacts ==
  ASSUME Consistent, NEW t \in Cores, Working(t),
         NEW c \in Caches, Parent[c] # Mem, NEW s, NEW r,
         NEW u \in Cores, NEW m \in Frames(u), Upgrades(u, m, c, s, r)
  PROVE  /\ c # Top(t).c
         /\ Parent[c] = Top(t).c =>
              /\ u = t /\ m = Len(stack[t]) /\ Top(t).pc = "top" /\ Top(t).type = "GETX"
              /\ Top(t).child = c /\ Top(t).childSlot = s /\ Top(t).slot = r
         /\ Parent[c] # Top(t).c => u # t \/ m # Len(stack[t])
  <1>1. PICK f, g, n : f = Top(t) /\ g = stack[u][m] /\ n = Len(stack[t])
    OBVIOUS
  <1>2. n \in Frames(t) /\ f = stack[t][n] /\ ~Waiting(t, n)
    BY <1>1, TopFacts DEF Consistent, Working
  <1>3. /\ g.fn = "access" /\ g.c = Parent[c] /\ g.child = c /\ g.slot = r /\ g.childSlot = s
        /\ g.pc = "top" /\ g.type = "GETX" /\ Owns(u, m)
    BY <1>1 DEF Upgrades
  <1>4. m > 1
    BY <1>1, <1>3, AccessFacts, InStack, NatOne, CoreFacts DEF Consistent
  <1>5. Owns(t, n)
    BY <1>1, <1>2 DEF Working, Owns
  <1>6. u # t \/ m # n => g.c # f.c /\ g.child # f.c
    BY <1>1, <1>3, <1>4, Isolated DEF Consistent, Working
  <1>7. u = t /\ m = n => g = f
    BY <1>1, <1>2
  <1>8. c # Parent[c]
    BY NoLoop
  <1>9. QED
    BY <1>1, <1>3, <1>6, <1>7, <1>8

\* The upgrades of others go on when one thread writes lines of one cache.
LEMMA OthersUpgrade ==
  ASSUME Consistent, NEW t \in Cores, Working(t), OnlyAt(Top(t).c), Kept(t),
         NEW c \in Caches, Parent[c] # Mem, Parent[c] # Top(t).c, NEW s, NEW r,
         NEW u \in Cores, NEW m \in Frames(u), Upgrades(u, m, c, s, r)
  PROVE  m \in Frames(u)' /\ Upgrades(u, m, c, s, r)'
  <1>1. c # Top(t).c /\ (u # t \/ m # Len(stack[t]))
    BY UpgradeFacts
  <1>2. /\ m \in Frames(u)' /\ stack'[u][m] = stack[u][m] /\ (Waiting(u, m)' <=> Waiting(u, m))
        /\ bcc'[c] = bcc[c]
    BY <1>1 DEF Kept, OnlyAt
  <1>3. QED
    BY <1>2 DEF Upgrades, Owns

\* The entries of other lines when one thread writes lines of one cache
LEMMA EntriesElsewhere ==
  ASSUME Consistent, NEW t \in Cores, Working(t), OnlyAt(Top(t).c), Kept(t), Entries,
         NEW p \in Caches, p # Top(t).c, NEW r \in Slots(p)
  PROVE  EntryAt(p, r)'
  <1>1. tcc'[p] = tcc[p] /\ EntryAt(p, r)
    BY DEF OnlyAt, Entries
  <1>2. ASSUME NEW u \in Cores, NEW m \in Frames(u), Invalidating(u, m, p, r)
        PROVE  m \in Frames(u)' /\ Invalidating(u, m, p, r)'
    <2>1. stack[u][m].c = p
      BY <1>2 DEF Invalidating
    <2>2. u # t \/ m # Len(stack[t])
      BY <2>1 DEF Top
    <2>3. m \in Frames(u)' /\ stack'[u][m] = stack[u][m] /\ (Waiting(u, m)' <=> Waiting(u, m))
      BY <2>2 DEF Kept
    <2>4. QED
      BY <1>1, <1>2, <2>1, <2>3 DEF Invalidating, Owns, Dir
  <1>3. (\E u \in Cores : \E m \in Frames(u) : Invalidating(u, m, p, r)) =>
           \E u \in Cores : \E m \in Frames(u)' : Invalidating(u, m, p, r)'
    BY <1>2
  <1>4. QED
    BY <1>1, <1>3 DEF EntryAt

\* The pairs of other lines when one thread writes lines of one cache
LEMMA PairsElsewhere ==
  ASSUME Consistent, NEW t \in Cores, Working(t), OnlyAt(Top(t).c), Kept(t), Pairs,
         NEW c \in Caches, Parent[c] # Mem, Parent[c] # Top(t).c, c # Top(t).c,
         NEW s \in Slots(c), NEW r \in Slots(Parent[c]),
         array'[c][s] = array'[Parent[c]][r], array'[c][s] # None
  PROVE  Agree(c, s, r)'
  <1>1. Parent[c] \in Caches
    BY CoreFacts
  <1>2. /\ array'[c] = array[c] /\ bcc'[c] = bcc[c]
        /\ array'[Parent[c]] = array[Parent[c]] /\ bcc'[Parent[c]] = bcc[Parent[c]]
        /\ tcc'[Parent[c]] = tcc[Parent[c]]
    BY <1>1 DEF OnlyAt
  <1>3. Agree(c, s, r)
    BY <1>2 DEF Pairs
  <1>4. (\E u \in Cores : \E m \in Frames(u) : Upgrades(u, m, c, s, r)) =>
           \E u \in Cores : \E m \in Frames(u)' : Upgrades(u, m, c, s, r)'
    BY OthersUpgrade
  <1>5. QED
    BY <1>2, <1>3, <1>4 DEF Agree

\* What the directory knows of a child, where the frame at work owns the entry and
\* is no upgrade
LEMMA Listed ==
  ASSUME Consistent, Pairs, NEW t \in Cores, Working(t), Top(t).slot \in Slots(Top(t).c),
         NEW c \in Caches, Parent[c] # Mem, NEW s \in Slots(c), NEW r \in Slots(Parent[c]),
         array[c][s] = array[Parent[c]][r], array[c][s] # None,
         \/ c = Top(t).c
         \/ Parent[c] = Top(t).c /\ ~(Top(t).pc = "top" /\ Top(t).type = "GETX" /\ Top(t).child = c)
  PROVE  LET e == tcc[Parent[c]][r]
         IN  /\ c \in e.sharers => bcc[c][s] # "I" /\ (isExclusive(e) => bcc[c][s] \in {"E", "M"})
             /\ bcc[c][s] # "I" => bcc[Parent[c]][r] # "I" /\ c \in e.sharers
             /\ bcc[c][s] \in {"E", "M"} => bcc[Parent[c]][r] \in {"E", "M"} /\ isExclusive(e)
  <1>1. Agree(c, s, r)
    BY DEF Pairs
  <1>2. ASSUME NEW u \in Cores, NEW m \in Frames(u), Upgrades(u, m, c, s, r)
        PROVE  FALSE
    BY <1>2, UpgradeFacts
  <1>3. QED
    BY <1>1, <1>2 DEF Agree

\* A change of one line
LEMMA TableSet ==
  ASSUME NEW V, NEW F, F = [c \in Caches |-> F[c]], \A c \in Caches : F[c] \in [Slots(c) -> V],
         NEW c \in Caches, NEW s \in Slots(c), NEW x \in V, NEW G, G = [F EXCEPT ![c][s] = x]
  PROVE  /\ G = [d \in Caches |-> G[d]]
         /\ \A d \in Caches : G[d] \in [Slots(d) -> V]
         /\ G[c][s] = x
         /\ \A z \in Slots(c) : z # s => G[c][z] = F[c][z]
         /\ \A d \in Caches : d # c => G[d] = F[d]
  <1>1. DOMAIN F = Caches
    OBVIOUS
  <1>2. G = [F EXCEPT ![c] = [F[c] EXCEPT ![s] = x]]
    OBVIOUS
  <1>3. G[c] = [F[c] EXCEPT ![s] = x] /\ \A d \in Caches : d # c => G[d] = F[d]
    BY <1>1, <1>2
  <1>4. F[c] \in [Slots(c) -> V]
    OBVIOUS
  <1>5. G[c] \in [Slots(c) -> V] /\ G[c][s] = x /\ \A z \in Slots(c) : z # s => G[c][z] = F[c][z]
    BY <1>3, <1>4
  <1>6. \A d \in Caches : G[d] \in [Slots(d) -> V]
    BY <1>3, <1>5
  <1>7. G = [d \in Caches |-> G[d]]
    BY <1>1, <1>2
  <1>8. QED
    BY <1>3, <1>5, <1>6, <1>7

\* The state of the line at work changes to v.
LEMMA StateSet ==
  ASSUME Types, NEW c \in Caches, NEW s \in Slots(c), NEW v \in MESIState,
         bcc' = [bcc EXCEPT ![c][s] = v], UNCHANGED <<array, tcc>>
  PROVE  /\ bcc' = [d \in Caches |-> bcc'[d]]
         /\ \A d \in Caches : bcc'[d] \in [Slots(d) -> MESIState]
         /\ bcc'[c][s] = v
         /\ \A z \in Slots(c) : z # s => bcc'[c][z] = bcc[c][z]
         /\ OnlyAt(c)
  <1>1. PICK F, G : F = bcc /\ G = bcc'
    OBVIOUS
  <1>2. F = [d \in Caches |-> F[d]] /\ \A d \in Caches : F[d] \in [Slots(d) -> MESIState]
    BY <1>1 DEF Types, TypeOK
  <1>3. G = [F EXCEPT ![c][s] = v]
    BY <1>1
  <1>4. /\ G = [d \in Caches |-> G[d]]
        /\ \A d \in Caches : G[d] \in [Slots(d) -> MESIState]
        /\ G[c][s] = v
        /\ \A z \in Slots(c) : z # s => G[c][z] = F[c][z]
        /\ \A d \in Caches : d # c => G[d] = F[d]
    BY <1>2, <1>3, TableSet
  <1>5. QED
    BY <1>1, <1>4 DEF OnlyAt

Directory == UniqueLines /\ EmptyLines /\ Entries /\ Pairs /\ Present

\* The directories after processAccess or processEviction changed a line's state
LEMMA StateChanged ==
  ASSUME Consistent, Directory, NEW t \in Cores, Working(t), Kept(t),
         NEW f, f = Top(t), f.slot \in Slots(f.c), array[f.c][f.slot] # None,
         NEW v \in MESIState \ {"I"}, bcc' = [bcc EXCEPT ![f.c][f.slot] = v],
         UNCHANGED <<array, tcc>>,
         v = State(f) \/ Parent[f.c] = Mem \/ {v, State(f)} \subseteq {"E", "M"},
         State(f) \in {"E", "M"} => v \in {"E", "M"},
         f.pc = "bottom" \/ (f.pc = "evict" /\ Dir(f).sharers = {})
  PROVE  Directory'
  <1>1. PICK n : n = Len(stack[t])
    OBVIOUS
  <1>2. n \in Frames(t) /\ f = stack[t][n] /\ f \in Frame /\ f.c \in Caches /\ ~Waiting(t, n)
    BY <1>1, TopFacts, FrameTypes DEF Consistent, Working
  <1>3. /\ \A d \in Caches : bcc'[d] \in [Slots(d) -> MESIState]
        /\ bcc'[f.c][f.slot] = v
        /\ \A z \in Slots(f.c) : z # f.slot => bcc'[f.c][z] = bcc[f.c][z]
        /\ OnlyAt(f.c)
    BY <1>2, StateSet, ZenonT(60) DEF Consistent
  <1>4. UniqueLines' /\ EmptyLines'
    <2>1. UniqueLines'
      BY DEF Directory, UniqueLines
    <2>2. ASSUME NEW c \in Caches, NEW s \in Slots(c), array[c][s] = None
          PROVE  bcc'[c][s] = "I" /\ tcc'[c][s].sharers = {}
      <3>1. bcc[c][s] = "I" /\ tcc[c][s].sharers = {}
        BY <2>2 DEF Directory, EmptyLines
      <3>2. CASE c # f.c
        BY <1>3, <3>1, <3>2 DEF OnlyAt
      <3>3. CASE c = f.c
        BY <1>3, <2>2, <3>1, <3>3
      <3>4. QED
        BY <3>2, <3>3
    <2>3. QED
      BY <2>1, <2>2 DEF EmptyLines
  <1>5. ASSUME NEW u \in Cores, NEW m \in Frames(u), NEW r, Invalidating(u, m, f.c, r)
        PROVE  f.pc = "evict" /\ r = f.slot
    <2>1. stack[u][m].c = f.c /\ Owns(u, m)
      BY <1>5 DEF Invalidating
    <2>2. u = t /\ m = n
      BY <1>1, <2>1, Isolated DEF Consistent, Working
    <2>3. QED
      BY <1>2, <1>5, <2>2 DEF Invalidating, Working
  <1>6. Entries'
    <2> SUFFICES ASSUME NEW p \in Caches, NEW r \in Slots(p)
                 PROVE  EntryAt(p, r)'
      BY DEF Entries
    <2>1. CASE p # f.c
      BY <1>3, <2>1, EntriesElsewhere DEF Directory
    <2>2. CASE p = f.c
      <3>1. EntryAt(p, r)
        BY DEF Directory, Entries
      <3>2. tcc[p][r].numSharers = Cardinality(tcc[p][r].sharers)
        <4>1. CASE f.pc = "evict" /\ r = f.slot
          BY <2>2, <3>1, <4>1, FS_EmptySet DEF EntryAt, Dir
        <4>2. CASE ~(f.pc = "evict" /\ r = f.slot)
          BY <1>5, <2>2, <3>1, <4>2 DEF EntryAt
        <4>3. QED
          BY <4>1, <4>2
      <3>3. QED
        BY <3>1, <3>2 DEF EntryAt
    <2>3. QED
      BY <2>1, <2>2
  <1>7. Pairs'
    <2> SUFFICES ASSUME NEW c \in Caches, Parent[c] # Mem,
                        NEW s \in Slots(c), NEW r \in Slots(Parent[c]),
                        array[c][s] = array[Parent[c]][r], array[c][s] # None
                 PROVE  Agree(c, s, r)'
      BY DEF Pairs
    <2>0. Parent[c] \in Caches /\ Parent[c] # c
      BY CoreFacts, NoLoop
    <2> DEFINE e == tcc[Parent[c]][r]
    <2>1. CASE c # f.c /\ Parent[c] # f.c
      BY <1>3, <2>1, PairsElsewhere DEF Directory
    <2>2. ASSUME c = f.c \/ Parent[c] = f.c
          PROVE  /\ c \in e.sharers => bcc[c][s] # "I" /\ (isExclusive(e) => bcc[c][s] \in {"E", "M"})
                 /\ bcc[c][s] # "I" => bcc[Parent[c]][r] # "I" /\ c \in e.sharers
                 /\ bcc[c][s] \in {"E", "M"} => bcc[Parent[c]][r] \in {"E", "M"} /\ isExclusive(e)
      BY <2>2, Listed DEF Directory
    <2>3. CASE c = f.c
      <3>1. bcc'[Parent[c]] = bcc[Parent[c]]
        BY <1>3, <2>0, <2>3 DEF OnlyAt
      <3>2. CASE s = f.slot
        <4>1. bcc'[c][s] = v /\ bcc[c][s] = State(f) /\ (v = State(f) \/ {v, State(f)} \subseteq {"E", "M"})
          BY <1>3, <2>3, <3>2 DEF State
        <4>2. QED
          BY <2>2, <2>3, <3>1, <4>1 DEF Agree
      <3>3. CASE s # f.slot
        <4>1. bcc'[c][s] = bcc[c][s]
          BY <1>3, <2>3, <3>3
        <4>2. QED
          BY <2>2, <2>3, <3>1, <4>1 DEF Agree
      <3>4. QED
        BY <3>2, <3>3
    <2>4. CASE Parent[c] = f.c
      <3>1. bcc'[c] = bcc[c]
        BY <1>3, <2>0, <2>4 DEF OnlyAt
      <3>2. CASE r = f.slot
        <4>1. bcc'[f.c][r] = v /\ bcc[f.c][r] = State(f)
          BY <1>3, <3>2 DEF State
        <4>2. QED
          BY <2>2, <2>4, <3>1, <4>1 DEF Agree
      <3>3. CASE r # f.slot
        <4>1. bcc'[f.c][r] = bcc[f.c][r]
          BY <1>3, <2>4, <3>3
        <4>2. QED
          BY <2>2, <2>4, <3>1, <4>1 DEF Agree
      <3>4. QED
        BY <3>2, <3>3
    <2>5. QED
      BY <2>1, <2>3, <2>4
  <1>8. Present'
    <2>1. ASSUME NEW c \in Caches, NEW s \in Slots(c), bcc'[c][s] # "I", Parent[c] # Mem
          PROVE  bcc[c][s] # "I"
      <3>1. CASE c = f.c /\ s = f.slot
        BY <2>1, <3>1, <1>3 DEF State
      <3>2. CASE c = f.c /\ s # f.slot
        BY <2>1, <3>2, <1>3
      <3>3. CASE c # f.c
        BY <2>1, <3>3, <1>3 DEF OnlyAt
      <3>4. QED
        BY <3>1, <3>2, <3>3
    <2>2. QED
      BY <2>1 DEF Present, Directory
  <1>9. QED
    BY <1>4, <1>6, <1>7, <1>8 DEF Directory

\* The frame at work moves on in its cache.
LEMMA WorkOn ==
  ASSUME Consistent, NEW t \in Cores, Working(t), NEW f, f = Top(t), NEW n, n = Len(stack[t]),
         NEW g \in Frame, Become(t, g), g.fn = "access", g.c = f.c, g.pc \notin {"tcc", "bcc"},
         UNCHANGED <<bccLock, tccLock>>
  PROVE  /\ Locks' /\ Order' /\ Kept(t)
         /\ stack' \in [Cores -> Seq(Frame)] /\ stack'[t][n] = g
         /\ n > 1 => stack'[t][n-1] = stack[t][n-1]
         /\ \A u \in Cores : Frames(u)' = Frames(u)
         /\ Owns(t, n)'
  <1>1. Types /\ Locks /\ Order /\ Busy(t) /\ f.fn = "access" /\ f.pc \notin {"tcc", "bcc"}
    BY DEF Consistent, Working
  <1>2. Changed(t, g) /\ Len(stack'[t]) = Len(stack[t])
    BY <1>1, BecomeEffect
  <1>3. /\ Order'
        /\ \A u \in Cores : Frames(u)' = Frames(u)
        /\ \A u \in Cores : \A m \in Frames(u) : Waiting(u, m)' <=> Waiting(u, m)
        /\ \A u \in Cores : \A m \in Frames(u) : u # t \/ m # n =>
              /\ stack'[u][m] = stack[u][m]
              /\ m > 1 => stack'[u][m-1] = stack[u][m-1]
        /\ n > 1 => stack'[t][n-1] = stack[t][n-1]
        /\ ~Waiting(t, n)'
    BY <1>1, <1>2, InPlace
  <1>4. stack'[t][n] = g /\ stack' \in [Cores -> Seq(Frame)]
    BY <1>2 DEF Changed
  <1>5. Locks'
    <2>0. bccLock' = bccLock
      OBVIOUS
    <2>1. bccLock' = bccLock \/ (bccLock[f.c] = None /\ bccLock' = [bccLock EXCEPT ![f.c] = t])
      BY ONLY <2>0
    <2>2. tccLock' = tccLock /\ g.fn = f.fn /\ g.c = f.c /\ f.pc # "tcc" /\ f.pc \notin {"tcc", "bcc"}
      BY <1>1
    <2>3. g.pc \notin {"tcc", "bcc"} => f.pc \notin {"tcc", "bcc"} \/ bccLock'[f.c] = t
      BY <2>2
    <2>4. f.pc = "tcc" => g.pc = "tcc"
      BY <2>2
    <2>5. QED
      BY <1>1, <1>2, <2>1, <2>2, <2>3, <2>4, InPlaceLocks
  <1>6. Kept(t)
    BY <1>3 DEF Kept
  <1>7. Owns(t, n)'
    BY <1>3, <1>4 DEF Owns
  <1>8. QED
    BY <1>3, <1>4, <1>5, <1>6, <1>7

\* The frames at work, when only the top frame and its cache change
LEMMA OneStep ==
  ASSUME Consistent, NEW t \in Cores, Working(t), NEW f, f = Top(t), NEW n, n = Len(stack[t]),
         OnlyAt(f.c), Kept(t), \A u \in Cores : Frames(u)' = Frames(u),
         LinkedAt(t, n)', ContentAt(t, n)'
  PROVE  Linked' /\ Content'
  <1>1. ASSUME NEW u \in Cores, NEW m \in Frames(u)
        PROVE  LinkedAt(u, m)' /\ ContentAt(u, m)'
    <2>1. CASE u = t /\ m = n
      BY <2>1
    <2>2. CASE u # t \/ m # n
      BY <2>2, OthersStable
    <2>3. QED
      BY <2>1, <2>2
  <1>2. QED
    BY <1>1 DEF Linked, Content

\* A call of the parent keeps everybody else at work.
LEMMA CallKept ==
  ASSUME Types, Order, NEW t \in Cores, Busy(t), NEW f \in Frame, NEW g \in Frame, Call(t, f, g),
         f.fn = Top(t).fn, f.c = Top(t).c, CallUp(f, g)
  PROVE  Kept(t)
  <1>1. PICK n : n = Len(stack[t])
    OBVIOUS
  <1>2. /\ n \in Nat /\ n \in Frames(t)
        /\ \A u \in Cores : u # t => Frames(u)' = Frames(u)
        /\ Frames(t)' = 1..n+1
        /\ \A u \in Cores : \A m \in Frames(u) : u # t \/ m # n =>
              /\ stack'[u][m] = stack[u][m]
              /\ m > 1 => stack'[u][m-1] = stack[u][m-1]
              /\ Waiting(u, m)' <=> Waiting(u, m)
    BY <1>1, Pushed
  <1>3. \A u \in Cores : \A m \in Frames(u) : m \in Frames(u)'
    BY <1>1, <1>2 DEF Frames
  <1>4. QED
    BY <1>1, <1>2, <1>3 DEF Kept

\* The frame at work calls the parent.
LEMMA CallParent ==
  ASSUME Consistent, Directory, NEW t \in Cores, Working(t), NEW n, n = Len(stack[t]),
         NEW f, f = Top(t), NEW f1 \in Frame, NEW g \in Frame, Call(t, f1, g),
         f.pc = "bottom" \/ (f.pc = "evict" /\ Dir(f).sharers = {}),
         f1.fn = f.fn, f1.c = f.c, f1.child = f.child, f1.childSlot = f.childSlot, f1.a = f.a,
         f1.type = f.type, f1.initialState = f.initialState, f1.slot = f.slot,
         f1.pc \in {"evput", "end", "top"}, f1.wb = FALSE,
         CallUp(f1, g), g.pc = "tcc", g.slot = 0, g.wb = FALSE,
         f.slot \in Slots(f.c), array[f.c][f.slot] # None,
         bcc' = [d \in Caches |-> bcc'[d]], \A d \in Caches : bcc'[d] \in [Slots(d) -> MESIState],
         OnlyAt(f.c), Directory',
         bccLock' = [bccLock EXCEPT ![f.c] = None],
         UNCHANGED <<array, tcc, tccLock, issued, unsaved>>,
         FrameLine(f1), n > 1 => RequestState(f1), AccessCall(f1, g), RequestState(g)'
  PROVE  Consistent'
  <1>1. /\ Types /\ Locks /\ Order /\ Linked /\ Content /\ Busy(t)
        /\ f.fn = "access" /\ f.pc \notin {"tcc", "bcc"}
        /\ g.fn = "access" /\ g.c = Parent[f.c] /\ Parent[f.c] # Mem
    BY DEF Consistent, Working, CallUp
  <1>2. /\ n \in Frames(t) /\ f = stack[t][n] /\ f \in Frame /\ f.c \in Caches /\ n \in Nat /\ n > 0
        /\ Frames(t) = 1..n /\ ~Waiting(t, n)
    BY <1>1, TopFacts, InStack, FrameTypes DEF Frames
  <1>3. /\ \A u \in Cores : u # t => Frames(u)' = Frames(u)
        /\ Frames(t)' = 1..n+1
        /\ stack'[t][n+1] = g /\ stack'[t][n] = f1
        /\ stack' \in [Cores -> Seq(Frame)]
        /\ \A u \in Cores : \A m \in Frames(u) : u # t \/ m # n =>
              /\ stack'[u][m] = stack[u][m]
              /\ m > 1 => stack'[u][m-1] = stack[u][m-1]
              /\ Waiting(u, m)' <=> Waiting(u, m)
        /\ n > 1 => stack'[t][n-1] = stack[t][n-1]
        /\ Waiting(t, n)'
        /\ ~Waiting(t, n+1)'
        /\ Order'
    BY <1>1, Pushed
  <1>4. Kept(t)
    BY <1>2, <1>3 DEF Kept
  <1>7. Types'
    <2>1. \A u \in Cores : \A m \in 1..Len(stack'[u]) : stack'[u][m] \in AccFrame \cup InvFrame
      BY <1>3, ElementOfSeq DEF Frame
    <2>2. bccLock' \in [Caches -> Cores \cup {None}]
      BY <1>1, <1>2 DEF Types, TypeOK
    <2>3. QED
      BY <1>1, <1>3, <2>1, <2>2 DEF Types, TypeOK, Frame
  <1>8. Locks'
    BY <1>1, <1>2, PushedLocks
  <1>9. LinkedAt(t, n)'
    BY <1>1, <1>2, <1>3, LinkedStays
  <1>10. ContentAt(t, n)'
    <2>1. FrameLine(f1)'
      BY DEF FrameLine, Holding, Dir
    <2>2. n > 1 => RequestState(f1)'
      <3>1. SUFFICES ASSUME n > 1 PROVE RequestState(f1)'
        OBVIOUS
      <3>2. f.child \in Caches /\ f.child # f.c
        BY <1>1, <1>2, <3>1, AccessFacts, SMTT(60)
      <3>3. bcc'[f.child] = bcc[f.child]
        BY <3>2 DEF OnlyAt
      <3>4. ChildState(f1)' = ChildState(f1)
        BY <3>3 DEF ChildState
      <3>5. QED
        BY <3>1, <3>4 DEF RequestState
    <2>3. ~Owns(t, n)'
      BY <1>3 DEF Owns
    <2>4. QED
      BY <1>3, <2>1, <2>2, <2>3 DEF ContentAt
  <1>11. LinkedAt(t, n+1)'
    <2>1. AccessCall(f1, g)'
      BY DEF AccessCall
    <2>2. n+1 # 1 /\ (n+1)-1 = n
      BY <1>2
    <2>3. QED
      BY <1>1, <1>3, <2>1, <2>2 DEF LinkedAt
  <1>12. ContentAt(t, n+1)'
    BY <1>3 DEF ContentAt, FrameLine, Owns
  <1>13. ASSUME NEW u \in Cores, NEW m \in Frames(u)'
         PROVE  LinkedAt(u, m)' /\ ContentAt(u, m)'
    <2>1. CASE u = t /\ m = n+1
      BY <1>11, <1>12, <2>1
    <2>2. CASE u = t /\ m = n
      BY <1>9, <1>10, <2>2
    <2>3. CASE u # t \/ (m # n /\ m # n+1)
      <3>1. m \in Frames(u) /\ (u # t \/ m # n)
        BY <1>2, <1>3, <2>3
      <3>2. QED
        BY <1>4, <3>1, OthersStable
    <2>4. QED
      BY <2>1, <2>2, <2>3
  <1>14. Linked' /\ Content'
    BY <1>13 DEF Linked, Content
  <1>15. QED
    BY <1>3, <1>7, <1>8, <1>14 DEF Consistent

\* The invariant in two parts: what frames know, and what lines say
LEMMA InvParts ==
  /\ IInv <=> Consistent /\ Directory
  /\ IInv' <=> Consistent' /\ Directory'
  BY DEF IInv, Consistent, Directory

\* The child's line and the line that the frame at work has found
LEMMA ChildLine ==
  ASSUME Consistent, Directory, NEW t \in Cores, Working(t), NEW n, n = Len(stack[t]), n > 1,
         NEW f, f = Top(t), f.pc \in {"bottom", "top"}
  PROVE  /\ f.child \in Caches /\ Parent[f.child] = f.c /\ f.child # f.c /\ Parent[f.child] # Mem
         /\ f.childSlot \in Slots(f.child) /\ f.slot \in Slots(f.c)
         /\ array[f.child][f.childSlot] = f.a /\ array[f.c][f.slot] = f.a /\ f.a # None
         /\ ChildState(f) = bcc[f.child][f.childSlot]
         /\ Agree(f.child, f.childSlot, f.slot)
         /\ ~(f.pc = "top" /\ f.type = "GETX") =>
              /\ f.child \in Dir(f).sharers =>
                   ChildState(f) # "I" /\ (isExclusive(Dir(f)) => ChildState(f) \in {"E", "M"})
              /\ ChildState(f) # "I" => State(f) # "I" /\ f.child \in Dir(f).sharers
              /\ ChildState(f) \in {"E", "M"} => State(f) \in {"E", "M"} /\ isExclusive(Dir(f))
  <1>1. /\ Types /\ Linked /\ Busy(t) /\ f.fn = "access"
    BY DEF Consistent, Working
  <1>2. n \in Frames(t) /\ f = stack[t][n] /\ f \in Frame /\ f.c \in Caches
    BY <1>1, TopFacts, FrameTypes
  <1>3. /\ f.child \in Caches /\ Parent[f.child] = f.c /\ f.child # f.c
        /\ f.childSlot \in Slots(f.child) /\ array[f.child][f.childSlot] = f.a
    BY <1>1, <1>2, AccessFacts
  <1>4. f.slot \in Slots(f.c) /\ array[f.c][f.slot] = f.a
    <2>1. FrameLine(f)
      BY <1>2 DEF Consistent, Content, ContentAt
    <2>2. QED
      BY <1>1, <2>1 DEF FrameLine
  <1>5. Parent[f.child] # Mem /\ f.a # None /\ f.child # None
    BY <1>2, <1>3, CoreFacts, FrameTypes
  <1>6. ChildState(f) = bcc[f.child][f.childSlot]
    BY <1>5 DEF ChildState
  <1>7. Agree(f.child, f.childSlot, f.slot)
    BY <1>3, <1>4, <1>5 DEF Directory, Pairs
  <1>8. ASSUME ~(f.pc = "top" /\ f.type = "GETX")
        PROVE  LET e == tcc[f.c][f.slot]
                   s == bcc[f.child][f.childSlot]
               IN  /\ f.child \in e.sharers => s # "I" /\ (isExclusive(e) => s \in {"E", "M"})
                   /\ s # "I" => bcc[f.c][f.slot] # "I" /\ f.child \in e.sharers
                   /\ s \in {"E", "M"} => bcc[f.c][f.slot] \in {"E", "M"} /\ isExclusive(e)
    BY <1>3, <1>4, <1>5, <1>8, Listed DEF Directory
  <1>9. QED
    BY <1>3, <1>4, <1>5, <1>6, <1>7, <1>8 DEF Dir, State

\* processAccess of the bottom controller: a hit, a fetch from memory or from the parent.
LEMMA BottomStep ==
  ASSUME IInv, NEW t \in Cores, Bottom(t)
  PROVE  IInv'
  <1>1. PICK n, f, f1, miss :
          /\ n = Len(stack[t]) /\ f = Top(t)
          /\ f1 = [f EXCEPT !.pc = IF f.c \in Leaves THEN "end" ELSE "top"]
          /\ miss = (\/ f.type = "GETS" /\ State(f) = "I"
                     \/ f.type = "GETX" /\ State(f) \in {"I", "S"})
    OBVIOUS
  <1>2. /\ Consistent /\ Directory /\ Busy(t) /\ Working(t)
        /\ f.fn = "access" /\ f.pc = "bottom"
        /\ UNCHANGED <<array, tcc, tccLock, issued, unsaved>>
    BY <1>1, InvParts DEF Bottom, At, Working
  <1>3. /\ n \in Frames(t) /\ f = stack[t][n] /\ f \in Frame /\ f.c \in Caches /\ n \in Nat /\ n > 0
        /\ (n = 1 \/ n > 1) /\ ~Waiting(t, n) /\ ContentAt(t, n)
    BY <1>1, <1>2, TopFacts, InStack, FrameTypes, NatOne DEF Consistent, Content
  <1>4. f \in AccFrame /\ f.type \in {"GETS", "GETX", "PUTS", "PUTX"} /\ f.a \in Addrs
    BY <1>2, <1>3, FrameTypes
  <1>5. /\ f.slot \in Slots(f.c) /\ array[f.c][f.slot] = f.a /\ ~f.wb
        /\ n > 1 => RequestState(f)
    BY <1>2, <1>3 DEF ContentAt, FrameLine
  <1>6. State(f) \in MESIState /\ array[f.c][f.slot] # None
    BY <1>2, <1>3, <1>4, <1>5, CoreFacts DEF Consistent, Types, TypeOK, State
  <1>7. /\ f1 \in Frame /\ f1.fn = "access" /\ f1.c = f.c /\ f1.child = f.child /\ f1.a = f.a
        /\ f1.childSlot = f.childSlot /\ f1.initialState = f.initialState /\ f1.wb = FALSE
        /\ f1.type = f.type /\ f1.slot = f.slot
        /\ f1.pc = IF f.c \in Leaves THEN "end" ELSE "top"
    BY <1>1, <1>2, <1>4, <1>5 DEF AccFrame, Frame
  <1>8. /\ n = 1 => f.c \in Leaves /\ f.type \in {"GETS", "GETX"} /\ f.child = None
        /\ n > 1 => f.c \notin Leaves
    BY <1>2, <1>3, AccessFacts DEF Consistent
  <1>9. /\ FrameLine(f1) /\ FrameLine(f1)'
        /\ n > 1 => RequestState(f1)
    BY <1>2, <1>5, <1>7, <1>8 DEF FrameLine, RequestState, ChildState
  <1>10. /\ f.type = "PUTS" => State(f) # "I"
         /\ f.type = "PUTX" => State(f) \in {"E", "M"}
    <2>1. SUFFICES ASSUME f.type \in {"PUTS", "PUTX"}
                   PROVE  n > 1 /\ ChildState(f) \in {"S", "E", "M"}
                          /\ (f.type = "PUTX" => ChildState(f) = "M")
      BY <1>1, <1>2, <1>3, ChildLine
    <2>2. QED
      BY <1>2, <1>3, <1>5, <1>8, <2>1 DEF RequestState
  <1>11. CASE miss /\ Parent[f.c] # Mem
    <2>1. PICK g : g = Request(f, f.a, f.type, State(f))
      OBVIOUS
    <2>2. /\ Call(t, f1, g) /\ bccLock' = [bccLock EXCEPT ![f.c] = None] /\ bcc' = bcc
      BY <1>1, <1>11, <2>1 DEF Bottom
    <2>3. /\ g \in Frame /\ g.fn = "access" /\ g.c = Parent[f.c] /\ g.child = f.c
          /\ g.childSlot = f.slot /\ g.a = f.a /\ g.type = f.type /\ g.initialState = State(f)
          /\ g.pc = "tcc" /\ g.slot = 0 /\ g.wb = FALSE
      <3>1. Parent[f.c] \in Caches /\ f.slot \in Nat
        BY <1>3, <1>4, <1>11, CoreFacts DEF AccFrame
      <3>2. QED
        BY <1>3, <1>4, <1>6, <2>1, <3>1 DEF Request, Frame, AccFrame, Puts
    <2>0. CallUp(f1, g)
      BY <1>7, <1>11, <2>3 DEF CallUp
    <2>4. AccessCall(f1, g)
      BY <1>1, <1>5, <1>7, <1>11, <2>3 DEF AccessCall, Puts
    <2>5. RequestState(g)
      BY <1>1, <1>3, <1>11, <2>3, CoreFacts DEF RequestState, ChildState, State
    <2>6. Kept(t)
      <3>1. f1.fn = Top(t).fn /\ f1.c = Top(t).c
        BY <1>1, <1>2, <1>7
      <3>2. QED
        BY <1>2, <1>7, <2>0, <2>2, <2>3, <3>1, CallKept DEF Consistent
    <2>7. Directory'
      <3>1. Remain
        <4> SUFFICES ASSUME NEW u \in Cores, NEW m \in Frames(u), Owns(u, m),
                            stack[u][m].pc \in {"evict", "top", "down"}
                     PROVE  m \in Frames(u)' /\ stack'[u][m] = stack[u][m] /\ Owns(u, m)'
          BY DEF Remain
        <4>1. u # t \/ m # n
          BY <1>2, <1>3
        <4>2. QED
          BY <1>1, <2>6, <4>1 DEF Kept, Owns
      <3>2. QED
        BY <1>2, <2>2, <3>1, LinesSame DEF Directory, Consistent
    <2>8. OnlyAt(f.c)
      BY <1>2, <2>2 DEF OnlyAt
    <2>9. RequestState(g)'
      BY <1>2, <2>2, <2>5 DEF RequestState, ChildState
    <2>10. bcc' = [d \in Caches |-> bcc'[d]] /\ \A d \in Caches : bcc'[d] \in [Slots(d) -> MESIState]
      BY <1>2, <2>2 DEF Consistent, Types, TypeOK
    <2>11. /\ f1.fn = f.fn /\ f1.c = f.c /\ f1.child = f.child /\ f1.childSlot = f.childSlot /\ f1.a = f.a
           /\ f1.type = f.type /\ f1.initialState = f.initialState /\ f1.slot = f.slot
           /\ f1.pc \in {"evput", "end", "top"}
      BY <1>2, <1>7
    <2>12. Consistent'
      <3>1. f.pc = "bottom" \/ (f.pc = "evict" /\ Dir(f).sharers = {})
        BY <1>2
      <3>2. CallUp(f1, g)
        BY <2>0
      <3>3. f1 \in Frame /\ f1.wb = FALSE /\ FrameLine(f1) /\ (n > 1 => RequestState(f1))
        BY <1>7, <1>9
      <3>4. f.slot \in Slots(f.c) /\ array[f.c][f.slot] # None
        BY <1>5, <1>6
      <3>5. Consistent /\ Directory /\ Working(t) /\ n = Len(stack[t]) /\ f = Top(t)
        BY <1>1, <1>2
      <3>6. UNCHANGED <<array, tcc, tccLock, issued, unsaved>>
        BY <1>2
      <3>7. QED
        BY <2>2, <2>3, <2>4, <2>7, <2>8, <2>9, <2>10, <2>11, <3>1, <3>2, <3>3, <3>4, <3>5, <3>6, CallParent
    <2>13. QED
      BY <2>7, <2>12, InvParts
  <1>12. CASE ~(miss /\ Parent[f.c] # Mem)
    <2>1. PICK v : v = CASE f.type = "PUTS" -> State(f)
                         [] f.type = "PUTX" -> "M"
                         [] f.type = "GETS" -> IF miss THEN MemGETS(t) ELSE State(f)
                         [] f.type = "GETX" -> "M"
      OBVIOUS
    <2>2. Become(t, f1) /\ UNCHANGED bccLock /\ bcc' = [bcc EXCEPT ![f.c][f.slot] = v]
      <3>1. bcc' = [bcc EXCEPT ![f.c][f.slot] =
                             CASE f.type = "PUTS" -> @
                               [] f.type = "PUTX" -> "M"
                               [] f.type = "GETS" -> IF miss THEN MemGETS(t) ELSE @
                               [] f.type = "GETX" -> "M"]
            /\ Become(t, f1) /\ UNCHANGED bccLock
        BY <1>1, <1>12 DEF Bottom
      <3>2. QED
        BY <2>1, <3>1 DEF State
    <2>3. /\ v \in MESIState \ {"I"}
          /\ f.type = "GETX" => v = "M"
          /\ State(f) \in {"E", "M"} => v \in {"E", "M"}
          /\ v = State(f) \/ Parent[f.c] = Mem \/ {v, State(f)} \subseteq {"E", "M"}
      <3>1. CASE f.type = "PUTS"
        BY <1>6, <1>10, <2>1, <3>1
      <3>2. CASE f.type = "PUTX"
        BY <1>6, <1>10, <2>1, <3>2 DEF MESIState
      <3>3. CASE f.type = "GETS"
        BY <1>1, <1>6, <1>12, <2>1, <3>3 DEF MESIState, MemGETS
      <3>4. CASE f.type = "GETX"
        BY <1>1, <1>6, <1>12, <2>1, <3>4 DEF MESIState
      <3>5. QED
        BY <1>4, <3>1, <3>2, <3>3, <3>4
    <2>4. /\ Locks' /\ Order' /\ Kept(t)
          /\ stack' \in [Cores -> Seq(Frame)] /\ stack'[t][n] = f1
          /\ n > 1 => stack'[t][n-1] = stack[t][n-1]
          /\ \A u \in Cores : Frames(u)' = Frames(u)
      <3>1. /\ f1.pc \notin {"tcc", "bcc"} /\ f1.fn = "access" /\ f1.c = f.c /\ f1 \in Frame
            /\ bccLock' = bccLock /\ tccLock' = tccLock /\ Consistent /\ Working(t)
            /\ n = Len(stack[t]) /\ f = Top(t) /\ Become(t, f1)
        BY <1>1, <1>2, <1>7, <2>2
      <3>2. QED
        BY <3>1, WorkOn
    <2>5. Directory'
      BY <1>1, <1>2, <1>5, <1>6, <2>2, <2>3, <2>4, StateChanged
    <2>6. /\ bcc' = [d \in Caches |-> bcc'[d]]
          /\ \A d \in Caches : bcc'[d] \in [Slots(d) -> MESIState]
          /\ bcc'[f.c][f.slot] = v
          /\ OnlyAt(f.c)
      BY <1>2, <1>3, <1>5, <2>2, <2>3, StateSet, ZenonT(60) DEF Consistent
    <2>7. Types'
      <3>1. \A u \in Cores : \A m \in 1..Len(stack'[u]) : stack'[u][m] \in AccFrame \cup InvFrame
        BY <2>4, ElementOfSeq DEF Frame
      <3>2. QED
        BY <1>2, <2>2, <2>4, <2>6, <3>1 DEF Consistent, Types, TypeOK, Frame
    <2>8. LinkedAt(t, n)'
      BY <1>2, <1>3, <1>7, <2>4, LinkedStays DEF Consistent
    <2>9. n > 1 => ChildState(f1)' = ChildState(f1)
      BY <1>1, <1>2, <1>7, <2>6, ChildLine DEF OnlyAt, ChildState
    <2>10. OwnState(f1)'
      <3>1. State(f1)' = v
        BY <1>7, <2>6 DEF State
      <3>2. ASSUME f1.pc = "top", f1.type = "GETX", f1.child \notin Dir(f1)'.sharers, ChildState(f1)' = "S"
            PROVE  FALSE
        <4>1. n > 1
          BY <1>3, <1>7, <1>8, <3>2
        <4>2. ChildState(f) = "S" /\ f.child \notin Dir(f).sharers
          BY <1>2, <1>7, <2>9, <3>2, <4>1 DEF ChildState, Dir
        <4>3. QED
          BY <1>1, <1>2, <4>1, <4>2, ChildLine
      <3>3. QED
        BY <1>7, <2>3, <3>1, <3>2 DEF OwnState
    <2>11. ContentAt(t, n)'
      <3>1. n > 1 => RequestState(f1)'
        BY <1>9, <2>9 DEF RequestState
      <3>2. QED
        BY <1>7, <1>9, <2>4, <2>10, <3>1 DEF ContentAt
    <2>12. Linked' /\ Content'
      BY <1>1, <1>2, <2>4, <2>6, <2>8, <2>11, OneStep
    <2>13. QED
      BY <2>4, <2>5, <2>7, <2>12, InvParts DEF Consistent
  <1>13. QED
    BY <1>11, <1>12

\* The line at work, which no child has, becomes the new one's.
LEMMA LineReplaced ==
  ASSUME Consistent, Directory, NEW t \in Cores, Working(t), Kept(t), NEW f, f = Top(t),
         f.pc \in {"evict", "evput"}, Dir(f).sharers = {}, f.slot \in Slots(f.c),
         Holding(f.c, f.a) = {}, f.a \in Addrs, State(f) = "I" \/ Parent[f.c] = Mem,
         array'[f.c][f.slot] = f.a, bcc'[f.c][f.slot] = "I", tcc' = tcc, OnlyAt(f.c),
         \A z \in Slots(f.c) : z # f.slot => array'[f.c][z] = array[f.c][z] /\ bcc'[f.c][z] = bcc[f.c][z]
  PROVE  Directory'
  <1>1. PICK n : n = Len(stack[t])
    OBVIOUS
  <1>2. n \in Frames(t) /\ f = stack[t][n] /\ f \in Frame /\ f.c \in Caches /\ ~Waiting(t, n)
    BY <1>1, TopFacts, FrameTypes DEF Consistent, Working
  <1>3. \A z \in Slots(f.c) : array[f.c][z] # f.a
    BY DEF Holding
  <1>4. f.a # None
    BY CoreFacts
  <1>5. \A c \in Caches : c # f.c => array'[c] = array[c] /\ bcc'[c] = bcc[c]
    BY DEF OnlyAt
  <1>6. UniqueLines'
    <2> SUFFICES ASSUME NEW c \in Caches, NEW s1 \in Slots(c), NEW s2 \in Slots(c),
                        array'[c][s1] = array'[c][s2], array'[c][s1] # None
                 PROVE  s1 = s2
      BY DEF UniqueLines
    <2>1. CASE c # f.c
      BY <1>5, <2>1 DEF Directory, UniqueLines
    <2>2. CASE c = f.c
      BY <1>2, <1>3, <2>2, SMTT(60) DEF Directory, UniqueLines
    <2>3. QED
      BY <2>1, <2>2
  <1>7. EmptyLines'
    <2> SUFFICES ASSUME NEW c \in Caches, NEW s \in Slots(c), array'[c][s] = None
                 PROVE  bcc'[c][s] = "I" /\ tcc'[c][s].sharers = {}
      BY DEF EmptyLines
    <2>1. CASE c # f.c
      BY <1>5, <2>1 DEF Directory, EmptyLines
    <2>2. CASE c = f.c
      BY <1>2, <1>4, <2>2 DEF Directory, EmptyLines
    <2>3. QED
      BY <2>1, <2>2
  <1>8. ASSUME NEW u \in Cores, NEW m \in Frames(u), NEW r, Invalidating(u, m, f.c, r)
        PROVE  r = f.slot
    <2>1. stack[u][m].c = f.c /\ Owns(u, m)
      BY <1>8 DEF Invalidating
    <2>2. u = t /\ m = n
      BY <1>1, <2>1, Isolated DEF Consistent, Working
    <2>3. QED
      BY <1>2, <1>8, <2>2 DEF Invalidating
  <1>9. Entries'
    <2> SUFFICES ASSUME NEW p \in Caches, NEW r \in Slots(p)
                 PROVE  EntryAt(p, r)'
      BY DEF Entries
    <2>1. CASE p # f.c
      BY <2>1, EntriesElsewhere DEF Directory
    <2>2. CASE p = f.c
      <3>1. EntryAt(p, r)
        BY DEF Directory, Entries
      <3>2. tcc[p][r].numSharers = Cardinality(tcc[p][r].sharers)
        <4>1. CASE r = f.slot
          BY <2>2, <3>1, <4>1, FS_EmptySet DEF EntryAt, Dir
        <4>2. CASE r # f.slot
          BY <1>8, <2>2, <3>1, <4>2 DEF EntryAt
        <4>3. QED
          BY <4>1, <4>2
      <3>3. QED
        BY <3>1, <3>2 DEF EntryAt
    <2>3. QED
      BY <2>1, <2>2
  <1>10. ASSUME NEW c \in Caches, Parent[c] = f.c, NEW s \in Slots(c),
                array[c][s] = array[f.c][f.slot] \/ array[c][s] = f.a
         PROVE  bcc[c][s] = "I"
    <2>1. SUFFICES ASSUME bcc[c][s] # "I" PROVE FALSE
      OBVIOUS
    <2>2. Parent[c] # Mem /\ array[c][s] # None
      BY <1>2, <1>10, <2>1, CoreFacts DEF Directory, EmptyLines
    <2>3. CASE array[c][s] = f.a
      BY <1>3, <1>10, <2>1, <2>2, <2>3 DEF Directory, Present
    <2>4. CASE array[c][s] = array[f.c][f.slot]
      <3>1. c \in tcc[Parent[c]][f.slot].sharers
        BY <1>10, <2>1, <2>2, <2>4, Listed DEF Directory
      <3>2. QED
        BY <1>10, <3>1 DEF Dir
    <2>5. QED
      BY <1>10, <2>3, <2>4
  <1>11. Pairs'
    <2> SUFFICES ASSUME NEW c \in Caches, Parent[c] # Mem,
                        NEW s \in Slots(c), NEW r \in Slots(Parent[c]),
                        array'[c][s] = array'[Parent[c]][r], array'[c][s] # None
                 PROVE  Agree(c, s, r)'
      BY DEF Pairs
    <2>0. Parent[c] \in Caches /\ Parent[c] # c
      BY CoreFacts, NoLoop
    <2> DEFINE e == tcc[Parent[c]][r]
    <2>1. CASE c # f.c /\ Parent[c] # f.c
      BY <2>1, PairsElsewhere DEF Directory
    <2>2. ASSUME c = f.c \/ Parent[c] = f.c, array[c][s] = array[Parent[c]][r], array[c][s] # None
          PROVE  /\ c \in e.sharers => bcc[c][s] # "I" /\ (isExclusive(e) => bcc[c][s] \in {"E", "M"})
                 /\ bcc[c][s] # "I" => bcc[Parent[c]][r] # "I" /\ c \in e.sharers
                 /\ bcc[c][s] \in {"E", "M"} => bcc[Parent[c]][r] \in {"E", "M"} /\ isExclusive(e)
      BY <2>2, Listed DEF Directory
    <2>3. CASE c = f.c
      <3>1. bcc'[Parent[c]] = bcc[Parent[c]] /\ array'[Parent[c]] = array[Parent[c]]
        BY <1>5, <2>0, <2>3
      <3>2. CASE s = f.slot
        <4>1. c \notin e.sharers
          <5>1. array[Parent[c]][r] = f.a
            BY <2>3, <3>1, <3>2
          <5>2. SUFFICES ASSUME c \in e.sharers PROVE FALSE
            OBVIOUS
          <5>3. PICK s1 \in Slots(c) : array[c][s1] = array[Parent[c]][r]
            BY <2>0, <5>2 DEF Directory, Present
          <5>4. QED
            BY <1>3, <2>3, <5>1, <5>3
        <4>2. bcc'[c][s] = "I"
          BY <2>3, <3>2
        <4>3. QED
          BY <4>1, <4>2 DEF Agree
      <3>3. CASE s # f.slot
        <4>1. bcc'[c][s] = bcc[c][s] /\ array'[c][s] = array[c][s]
          BY <2>3, <3>3
        <4>2. QED
          BY <2>2, <2>3, <3>1, <4>1 DEF Agree
      <3>4. QED
        BY <3>2, <3>3
    <2>4. CASE Parent[c] = f.c
      <3>1. bcc'[c] = bcc[c] /\ array'[c] = array[c]
        BY <1>5, <2>0, <2>4
      <3>2. CASE r = f.slot
        <4>1. c \notin e.sharers
          BY <2>4, <3>2 DEF Dir
        <4>2. bcc'[c][s] = "I"
          BY <1>10, <2>4, <3>1, <3>2
        <4>3. QED
          BY <4>1, <4>2 DEF Agree
      <3>3. CASE r # f.slot
        <4>1. bcc'[f.c][r] = bcc[f.c][r] /\ array'[f.c][r] = array[f.c][r]
          BY <2>4, <3>3
        <4>2. QED
          BY <2>2, <2>4, <3>1, <4>1 DEF Agree
      <3>4. QED
        BY <3>2, <3>3
    <2>5. QED
      BY <2>1, <2>3, <2>4
  <1>12. ASSUME NEW c \in Caches, NEW s \in Slots(c), bcc'[c][s] # "I", Parent[c] # Mem
         PROVE  \E r \in Slots(Parent[c]) : array'[Parent[c]][r] = array'[c][s]
    <2>0. Parent[c] \in Caches /\ Parent[c] # c
      BY <1>12, CoreFacts, NoLoop
    <2>1. bcc[c][s] # "I" /\ array'[c][s] = array[c][s]
      <3>1. CASE c = f.c
        BY <1>12, <3>1
      <3>2. CASE c # f.c
        BY <1>5, <1>12, <3>2
      <3>3. QED
        BY <3>1, <3>2
    <2>2. PICK r \in Slots(Parent[c]) : array[Parent[c]][r] = array[c][s]
      BY <1>12, <2>1 DEF Directory, Present
    <2>3. ~(Parent[c] = f.c /\ r = f.slot)
      BY <1>10, <2>1, <2>2
    <2>4. array'[Parent[c]][r] = array[Parent[c]][r]
      BY <1>5, <2>0, <2>2, <2>3
    <2>5. QED
      BY <2>1, <2>2, <2>4
  <1>13. ASSUME NEW p \in Caches, NEW r \in Slots(p), NEW c \in tcc[p][r].sharers
         PROVE  \E s \in Slots(c) : array'[c][s] = array'[p][r]
    <2>1. EntryAt(p, r)
      BY DEF Directory, Entries
    <2>2. c \in Caches /\ Parent[c] = p /\ p # c /\ p # Mem
      BY <2>1, NoLoop, CoreFacts DEF EntryAt, Children
    <2>3. PICK s \in Slots(c) : array[c][s] = array[p][r]
      BY DEF Directory, Present
    <2>4. array[p][r] # None
      BY DEF Directory, EmptyLines
    <2>5. array'[p][r] = array[p][r]
      <3>1. p = f.c => r # f.slot
        BY DEF Dir
      <3>2. QED
        BY <1>5, <3>1
    <2>6. ~(c = f.c /\ s = f.slot)
      <3>1. SUFFICES ASSUME c = f.c, s = f.slot PROVE FALSE
        OBVIOUS
      <3>2. bcc[c][s] # "I"
        BY <2>2, <2>3, <2>4, <3>1, Listed DEF Directory
      <3>3. QED
        BY <2>2, <3>1, <3>2 DEF State
    <2>7. array'[c][s] = array[c][s]
      BY <1>5, <2>2, <2>6
    <2>8. QED
      BY <2>3, <2>5, <2>7
  <1>14. Present'
    BY <1>12, <1>13 DEF Present
  <1>15. QED
    BY <1>6, <1>7, <1>9, <1>11, <1>14 DEF Directory

\* Frame f replaces its line, whose state is I in the end, and goes on as g.
InsertLine(f, g) ==
    /\ g = [f EXCEPT !.wb = FALSE, !.pc = "bottom"]
    /\ array' = [array EXCEPT ![f.c][f.slot] = f.a]
    /\ (bcc' = bcc /\ State(f) = "I") \/ bcc' = [bcc EXCEPT ![f.c][f.slot] = "I"]

\* The frame at work inserts its line.
LEMMA Insert ==
  ASSUME Consistent, Directory, NEW t \in Cores, Working(t), NEW f, f = Top(t), NEW n, n = Len(stack[t]),
         f.pc \in {"evict", "evput"}, Dir(f).sharers = {},
         State(f) = "I" \/ Parent[f.c] = Mem,
         NEW g, Become(t, g), InsertLine(f, g), tcc' = tcc,
         UNCHANGED <<bccLock, tccLock, issued>>, unsaved' \subseteq Addrs
  PROVE  Consistent' /\ Directory'
  <1>1. /\ Types /\ Locks /\ Order /\ Linked /\ Content /\ Busy(t)
        /\ f.fn = "access" /\ f.pc \notin {"tcc", "bcc"}
    BY DEF Consistent, Working
  <1>2. /\ n \in Frames(t) /\ f = stack[t][n] /\ f \in Frame /\ f \in AccFrame /\ f.c \in Caches
        /\ f.a \in Addrs /\ ~Waiting(t, n) /\ n \in Nat /\ ContentAt(t, n)
    BY <1>1, TopFacts, InStack, FrameTypes DEF Content
  <1>3. /\ f.slot \in Slots(f.c) /\ Holding(f.c, f.a) = {} /\ f.type \notin Puts
        /\ n > 1 => RequestState(f)
    BY <1>1, <1>2 DEF ContentAt, FrameLine
  <1>4. /\ g \in Frame /\ g.fn = "access" /\ g.c = f.c /\ g.child = f.child /\ g.a = f.a
        /\ g.childSlot = f.childSlot /\ g.initialState = f.initialState /\ g.wb = FALSE
        /\ g.type = f.type /\ g.slot = f.slot /\ g.pc = "bottom"
    BY <1>2 DEF AccFrame, Frame, InsertLine
  <1>5. /\ Locks' /\ Order' /\ Kept(t)
        /\ stack' \in [Cores -> Seq(Frame)] /\ stack'[t][n] = g
        /\ n > 1 => stack'[t][n-1] = stack[t][n-1]
        /\ \A u \in Cores : Frames(u)' = Frames(u)
    <2>1. /\ g.pc \notin {"tcc", "bcc"} /\ g.fn = "access" /\ g.c = f.c /\ g \in Frame
          /\ bccLock' = bccLock /\ tccLock' = tccLock /\ Consistent /\ Working(t)
          /\ n = Len(stack[t]) /\ f = Top(t) /\ Become(t, g)
      BY <1>4
    <2>2. QED
      BY <2>1, WorkOn
  <1>6. /\ array' = [d \in Caches |-> array'[d]]
        /\ \A d \in Caches : array'[d] \in [Slots(d) -> Addrs \cup {None}]
        /\ array'[f.c][f.slot] = f.a
        /\ \A z \in Slots(f.c) : z # f.slot => array'[f.c][z] = array[f.c][z]
        /\ \A d \in Caches : d # f.c => array'[d] = array[d]
    <2>1. PICK F, G : F = array /\ G = array'
      OBVIOUS
    <2>2. F = [d \in Caches |-> F[d]] /\ \A d \in Caches : F[d] \in [Slots(d) -> Addrs \cup {None}]
      BY <1>1, <2>1 DEF Types, TypeOK
    <2>3. G = [F EXCEPT ![f.c][f.slot] = f.a]
      BY <2>1 DEF InsertLine
    <2>4. /\ G = [d \in Caches |-> G[d]]
          /\ \A d \in Caches : G[d] \in [Slots(d) -> Addrs \cup {None}]
          /\ G[f.c][f.slot] = f.a
          /\ \A z \in Slots(f.c) : z # f.slot => G[f.c][z] = F[f.c][z]
          /\ \A d \in Caches : d # f.c => G[d] = F[d]
      BY <1>2, <1>3, <2>2, <2>3, TableSet
    <2>5. QED
      BY <2>1, <2>4
  <1>7. /\ bcc' = [d \in Caches |-> bcc'[d]]
        /\ \A d \in Caches : bcc'[d] \in [Slots(d) -> MESIState]
        /\ bcc'[f.c][f.slot] = "I"
        /\ \A z \in Slots(f.c) : z # f.slot => bcc'[f.c][z] = bcc[f.c][z]
        /\ \A d \in Caches : d # f.c => bcc'[d] = bcc[d]
    <2>1. PICK F, G : F = bcc /\ G = bcc'
      OBVIOUS
    <2>2. F = [d \in Caches |-> F[d]] /\ \A d \in Caches : F[d] \in [Slots(d) -> MESIState]
      BY <1>1, <2>1 DEF Types, TypeOK
    <2>3. CASE bcc' = bcc /\ State(f) = "I"
      BY <2>1, <2>2, <2>3 DEF State
    <2>4. CASE bcc' = [bcc EXCEPT ![f.c][f.slot] = "I"]
      <3>1. G = [F EXCEPT ![f.c][f.slot] = "I"] /\ "I" \in MESIState
        BY <2>1, <2>4 DEF MESIState
      <3>2. /\ G = [d \in Caches |-> G[d]]
            /\ \A d \in Caches : G[d] \in [Slots(d) -> MESIState]
            /\ G[f.c][f.slot] = "I"
            /\ \A z \in Slots(f.c) : z # f.slot => G[f.c][z] = F[f.c][z]
            /\ \A d \in Caches : d # f.c => G[d] = F[d]
        BY <1>2, <1>3, <2>2, <3>1, TableSet, ZenonT(60)
      <3>3. QED
        BY <2>1, <3>2
    <2>5. QED
      BY <2>3, <2>4 DEF InsertLine
  <1>8. OnlyAt(f.c)
    BY <1>6, <1>7 DEF OnlyAt
  <1>9. Directory'
    BY <1>2, <1>3, <1>5, <1>6, <1>7, <1>8, LineReplaced
  <1>10. Types'
    <2>1. \A u \in Cores : \A m \in 1..Len(stack'[u]) : stack'[u][m] \in AccFrame \cup InvFrame
      BY <1>5, ElementOfSeq DEF Frame
    <2>2. QED
      BY <1>1, <1>5, <1>6, <1>7, <2>1 DEF Types, TypeOK, Frame
  <1>11. n > 1 => f.child \in Caches /\ f.child # f.c /\ f.child = stack[t][n-1].c
    BY <1>1, <1>2, AccessFacts, CallerFacts DEF AccessCall
  <1>12. LinkedAt(t, n)'
    <2>1. n > 1 => array'[stack[t][n-1].c] = array[stack[t][n-1].c]
      BY <1>6, <1>11
    <2>2. QED
      BY <1>1, <1>2, <1>4, <1>5, <2>1, LinkedStays
  <1>13. ContentAt(t, n)'
    <2>1. FrameLine(g)'
      BY <1>3, <1>4, <1>6 DEF FrameLine
    <2>2. n > 1 => RequestState(g)'
      <3>1. SUFFICES ASSUME n > 1 PROVE RequestState(g)'
        OBVIOUS
      <3>2. ChildState(g)' = ChildState(f)
        BY <1>4, <1>7, <1>11, <3>1 DEF ChildState
      <3>3. RequestState(f)
        BY <1>3, <3>1
      <3>4. QED
        BY <1>4, <3>2, <3>3 DEF RequestState
    <2>3. OwnState(g)'
      BY <1>4 DEF OwnState
    <2>4. QED
      BY <1>4, <1>5, <2>1, <2>2, <2>3 DEF ContentAt
  <1>14. Linked' /\ Content'
    BY <1>5, <1>8, <1>12, <1>13, OneStep
  <1>15. QED
    BY <1>5, <1>9, <1>10, <1>14 DEF Consistent

\* The victim's PUT is answered and the new line is inserted.
LEMMA InsertedStep ==
  ASSUME IInv, NEW t \in Cores, Inserted(t)
  PROVE  IInv'
  <1>1. PICK n, f, g : n = Len(stack[t]) /\ f = Top(t) /\ g = [f EXCEPT !.pc = "bottom"]
    OBVIOUS
  <1>2. /\ Consistent /\ Directory /\ Working(t) /\ Busy(t) /\ f.fn = "access" /\ f.pc = "evput"
        /\ array' = [array EXCEPT ![f.c][f.slot] = f.a] /\ Become(t, g)
        /\ UNCHANGED <<bcc, tcc, bccLock, tccLock, issued, unsaved>>
    BY <1>1, InvParts DEF Inserted, At, Working
  <1>3. n \in Frames(t) /\ f = stack[t][n] /\ f \in Frame /\ ~Waiting(t, n) /\ ContentAt(t, n)
    BY <1>1, <1>2, TopFacts DEF Consistent, Content
  <1>4. Owns(t, n)
    BY <1>2, <1>3 DEF Owns
  <1>5. Dir(f).sharers = {} /\ State(f) = "I" /\ f.wb = FALSE
    BY <1>2, <1>3, <1>4, FrameTypes DEF ContentAt, FrameLine, OwnState
  <1>6. g = [f EXCEPT !.wb = FALSE, !.pc = "bottom"]
    BY <1>1, <1>2, <1>3, <1>5, FrameTypes DEF AccFrame
  <1>7. unsaved' \subseteq Addrs /\ bcc' = bcc /\ tcc' = tcc
    BY <1>2 DEF Consistent, Types, TypeOK
  <1>8. Consistent' /\ Directory'
    BY <1>1, <1>2, <1>5, <1>6, <1>7, Insert DEF InsertLine
  <1>9. QED
    BY <1>8, InvParts

\* An eviction either calls the parent for a PUT or inserts the line.
LEMMA EvictBottomStep ==
  ASSUME IInv, NEW t \in Cores, EvictBottom(t)
  PROVE  IInv'
  <1>1. PICK n, f, v, f1 :
          /\ n = Len(stack[t]) /\ f = Top(t)
          /\ v = IF f.wb THEN "M" ELSE State(f)
          /\ f1 = [f EXCEPT !.wb = FALSE, !.pc = "evput"]
    OBVIOUS
  <1>2. /\ Consistent /\ Directory /\ Busy(t) /\ Working(t)
        /\ f.fn = "access" /\ f.pc = "evict" /\ Dir(f).sharers = {}
        /\ UNCHANGED <<tcc, tccLock, issued>>
    BY <1>1, InvParts DEF EvictBottom, At, Working
  <1>3. /\ n \in Frames(t) /\ f = stack[t][n] /\ f \in Frame /\ f.c \in Caches /\ n \in Nat /\ n > 0
        /\ ~Waiting(t, n) /\ ContentAt(t, n)
    BY <1>1, <1>2, TopFacts, InStack, FrameTypes DEF Consistent, Content
  <1>4. f \in AccFrame /\ f.type \in {"GETS", "GETX", "PUTS", "PUTX"} /\ f.a \in Addrs
    BY <1>2, <1>3, FrameTypes
  <1>5. /\ f.slot \in Slots(f.c) /\ Holding(f.c, f.a) = {} /\ f.type \notin Puts
        /\ n > 1 => RequestState(f)
        /\ f.wb => State(f) \in {"E", "M"}
    BY <1>2, <1>3 DEF ContentAt, FrameLine
  <1>6. State(f) \in MESIState /\ v \in MESIState
    BY <1>1, <1>2, <1>3, <1>5 DEF Consistent, Types, TypeOK, State, MESIState
  <1>7. v = "I" => State(f) = "I"
    BY <1>1
  <1>8. CASE v # "I" /\ Parent[f.c] # Mem
    <2>1. PICK type, g : /\ type = IF v = "M" THEN "PUTX" ELSE "PUTS"
                         /\ g = Request(f, array[f.c][f.slot], type, v)
      OBVIOUS
    <2>2. /\ Call(t, f1, g) /\ bccLock' = [bccLock EXCEPT ![f.c] = None]
          /\ bcc' = [bcc EXCEPT ![f.c][f.slot] = v] /\ UNCHANGED <<array, unsaved>>
      <3>1. f1 = [[f EXCEPT !.wb = FALSE, !.pc = "bottom"] EXCEPT !.pc = "evput"]
        BY <1>1, <1>4 DEF AccFrame
      <3>2. QED
        BY <1>1, <1>8, <2>1, <3>1 DEF EvictBottom
    <2>3. State(f) # "I" /\ array[f.c][f.slot] # None /\ array[f.c][f.slot] \in Addrs
      <3>1. State(f) # "I"
        BY <1>1, <1>5, <1>8
      <3>2. array[f.c][f.slot] # None
        BY <1>2, <1>3, <1>5, <3>1 DEF Directory, EmptyLines, State
      <3>3. QED
        BY <1>2, <1>3, <1>5, <3>1, <3>2 DEF Consistent, Types, TypeOK
    <2>4. /\ g \in Frame /\ g.fn = "access" /\ g.c = Parent[f.c] /\ g.child = f.c
          /\ g.childSlot = f.slot /\ g.a = array[f.c][f.slot] /\ g.type = type /\ g.initialState = v
          /\ g.pc = "tcc" /\ g.slot = 0 /\ g.wb = FALSE
      <3>1. Parent[f.c] \in Caches /\ f.slot \in Nat /\ type \in Puts
        BY <1>3, <1>4, <1>8, <2>1, CoreFacts DEF AccFrame, Puts
      <3>2. QED
        BY <1>3, <1>6, <2>1, <2>3, <3>1 DEF Request, Frame, AccFrame, Puts
    <2>5. /\ f1 \in Frame /\ f1.fn = "access" /\ f1.c = f.c /\ f1.child = f.child /\ f1.a = f.a
          /\ f1.childSlot = f.childSlot /\ f1.initialState = f.initialState /\ f1.wb = FALSE
          /\ f1.type = f.type /\ f1.slot = f.slot /\ f1.pc = "evput"
      BY <1>1, <1>4 DEF AccFrame, Frame
    <2>6. CallUp(f1, g)
      BY <1>8, <2>4, <2>5 DEF CallUp
    <2>7. Kept(t)
      <3>1. f1.fn = Top(t).fn /\ f1.c = Top(t).c
        BY <1>1, <1>2, <2>5
      <3>2. QED
        BY <1>2, <2>2, <2>4, <2>5, <2>6, <3>1, CallKept DEF Consistent
    <2>8. Directory'
      <3>1. v = State(f) \/ {v, State(f)} \subseteq {"E", "M"}
        BY <1>1, <1>5
      <3>2. State(f) \in {"E", "M"} => v \in {"E", "M"}
        BY <1>1
      <3>3. v \in MESIState \ {"I"}
        BY <1>6, <1>8
      <3>4. QED
        BY <1>1, <1>2, <1>5, <2>2, <2>3, <2>7, <3>1, <3>2, <3>3, StateChanged
    <2>9. /\ bcc' = [d \in Caches |-> bcc'[d]]
          /\ \A d \in Caches : bcc'[d] \in [Slots(d) -> MESIState]
          /\ bcc'[f.c][f.slot] = v
          /\ OnlyAt(f.c)
      <3>1. Types /\ UNCHANGED <<array, tcc>> /\ bcc' = [bcc EXCEPT ![f.c][f.slot] = v]
            /\ f.c \in Caches /\ f.slot \in Slots(f.c) /\ v \in MESIState
        BY <1>2, <1>3, <1>5, <1>6, <2>2 DEF Consistent
      <3>2. QED
        BY <3>1, StateSet
    <2>10. AccessCall(f1, g)
      BY <1>5, <1>8, <2>1, <2>4, <2>5 DEF AccessCall, Puts
    <2>11. RequestState(g)'
      <3>1. ChildState(g)' = v
        BY <1>3, <2>4, <2>9, CoreFacts DEF ChildState
      <3>2. v \in {"S", "E", "M"}
        BY <1>6, <1>8 DEF MESIState
      <3>3. QED
        BY <2>1, <2>4, <3>1, <3>2 DEF RequestState
    <2>12. FrameLine(f1) /\ (n > 1 => RequestState(f1))
      <3>1. FrameLine(f1)
        BY <1>2, <1>5, <2>5 DEF FrameLine, Dir
      <3>2. n > 1 => RequestState(f1)
        BY <1>2, <1>5, <2>5 DEF RequestState, ChildState
      <3>3. QED
        BY <3>1, <3>2
    <2>13. Consistent'
      <3>1. f.pc = "bottom" \/ (f.pc = "evict" /\ Dir(f).sharers = {})
        BY <1>2
      <3>2. Consistent /\ Directory /\ Working(t) /\ n = Len(stack[t]) /\ f = Top(t)
        BY <1>1, <1>2
      <3>3. UNCHANGED <<array, tcc, tccLock, issued, unsaved>>
        BY <1>2, <2>2
      <3>4. /\ f1.fn = f.fn /\ f1.c = f.c /\ f1.child = f.child /\ f1.childSlot = f.childSlot
            /\ f1.a = f.a /\ f1.type = f.type /\ f1.initialState = f.initialState
            /\ f1.slot = f.slot /\ f1.pc \in {"evput", "end", "top"} /\ f1.wb = FALSE
        BY <1>2, <2>5
      <3>5. f1 \in Frame /\ g \in Frame /\ Call(t, f1, g) /\ CallUp(f1, g)
            /\ g.pc = "tcc" /\ g.slot = 0 /\ g.wb = FALSE
        BY <2>2, <2>4, <2>5, <2>6
      <3>6. f.slot \in Slots(f.c) /\ array[f.c][f.slot] # None
            /\ bccLock' = [bccLock EXCEPT ![f.c] = None]
        BY <1>5, <2>2, <2>3
      <3>7. QED
        BY <2>8, <2>9, <2>10, <2>11, <2>12, <3>1, <3>2, <3>3, <3>4, <3>5, <3>6, CallParent
    <2>14. QED
      BY <2>8, <2>13, InvParts
  <1>9. CASE ~(v # "I" /\ Parent[f.c] # Mem)
    <2>1. PICK g : g = [f EXCEPT !.wb = FALSE, !.pc = "bottom"]
      OBVIOUS
    <2>2. /\ bcc' = [bcc EXCEPT ![f.c][f.slot] = "I"]
          /\ array' = [array EXCEPT ![f.c][f.slot] = f.a]
          /\ Become(t, g) /\ UNCHANGED bccLock
          /\ unsaved' \in {unsaved, unsaved \ {array[f.c][f.slot]}}
      BY <1>1, <1>9, <2>1 DEF EvictBottom
    <2>3. InsertLine(f, g)
      BY <2>1, <2>2 DEF InsertLine
    <2>4. unsaved' \subseteq Addrs /\ tcc' = tcc /\ UNCHANGED <<bccLock, tccLock, issued>>
      BY <1>2, <2>2 DEF Consistent, Types, TypeOK
    <2>5. State(f) = "I" \/ Parent[f.c] = Mem
      BY <1>7, <1>9
    <2>6. Become(t, g) /\ f.pc \in {"evict", "evput"}
      BY <1>2, <2>2
    <2>7. Consistent' /\ Directory'
      BY <1>1, <1>2, <2>3, <2>4, <2>5, <2>6, Insert
    <2>8. QED
      BY <2>7, InvParts
  <1>10. QED
    BY <1>8, <1>9

\* Only line s of cache c and line r of its parent change, and not their addresses.
LinkOnly(c, s, r) ==
    /\ array' = array
    /\ \A d \in Caches : \A z \in Slots(d) :
         (d # Parent[c] \/ z # r) => tcc'[d][z] = tcc[d][z]
    /\ \A d \in Caches : \A z \in Slots(d) :
         (d # Parent[c] \/ z # r) /\ (d # c \/ z # s) => bcc'[d][z] = bcc[d][z]

\* The upgrades of all lines but line ks of k go on.
UpgradesStay(k, ks) ==
    \A c \in Caches : \A s \in Slots(c) : \A x \in Slots(Parent[c]) : (c # k \/ s # ks) =>
        \A u \in Cores : \A m \in Frames(u) :
            Upgrades(u, m, c, s, x) => m \in Frames(u)' /\ Upgrades(u, m, c, s, x)'

\* What line ks of k must still allow the caches below it.
Allows(k, ks) ==
    \A c \in Caches : \A s \in Slots(c) :
        Parent[c] = k /\ array[c][s] = array[k][ks] =>
            /\ bcc[c][s] # "I" => bcc'[k][ks] # "I"
            /\ bcc[c][s] \in {"E", "M"} => bcc'[k][ks] \in {"E", "M"}

\* What line r of p's directory must still say of the other children.
OthersListed(k, p, r) ==
    \A c \in Caches : \A s \in Slots(c) :
        Parent[c] = p /\ c # k /\ array[c][s] = array[p][r] =>
            /\ c \in tcc'[p][r].sharers <=> c \in tcc[p][r].sharers
            /\ c \in tcc'[p][r].sharers /\ isExclusive(tcc'[p][r]) => isExclusive(tcc[p][r])
            /\ bcc[c][s] \in {"E", "M"} => isExclusive(tcc'[p][r])

\* A transaction between a line of a cache and the same line of its parent keeps
\* the directories exact if the two lines, the caches below and the other children agree.
LEMMA LinkChanged ==
  ASSUME Types, Directory, NEW k \in Caches, NEW p, p = Parent[k], p # Mem,
         NEW ks \in Slots(k), NEW r \in Slots(p), array[k][ks] = array[p][r], array[p][r] # None,
         LinkOnly(k, ks, r), UpgradesStay(k, ks), Entries', Agree(k, ks, r)',
         Allows(k, ks), OthersListed(k, p, r),
         bcc'[p][r] = bcc[p][r] \/ (bcc[p][r] \in {"E", "M"} /\ bcc'[p][r] = "M"),
         tcc'[p][r].sharers \subseteq tcc[p][r].sharers \cup {k}
  PROVE  Directory'
  <1>1. p \in Caches /\ p # k
    BY CoreFacts, NoLoop
  <1>2. array' = array
    BY DEF LinkOnly
  <1>3. \A c \in Caches : \A s1, s2 \in Slots(c) :
          array[c][s1] = array[c][s2] /\ array[c][s1] # None => s1 = s2
    BY DEF Directory, UniqueLines
  <1>4. UniqueLines'
    BY <1>2, <1>3 DEF UniqueLines
  <1>5. ASSUME NEW d \in Caches, NEW z \in Slots(d), d # p \/ z # r
        PROVE  tcc'[d][z] = tcc[d][z]
    BY <1>5 DEF LinkOnly
  <1>6. ASSUME NEW d \in Caches, NEW z \in Slots(d), d # p \/ z # r, d # k \/ z # ks
        PROVE  bcc'[d][z] = bcc[d][z]
    BY <1>6 DEF LinkOnly
  <1>7. EmptyLines'
    <2> SUFFICES ASSUME NEW c \in Caches, NEW s \in Slots(c), array'[c][s] = None
                 PROVE  bcc'[c][s] = "I" /\ tcc'[c][s].sharers = {}
      BY DEF EmptyLines
    <2>1. (c # p \/ s # r) /\ (c # k \/ s # ks) /\ array[c][s] = None
      BY <1>2
    <2>2. bcc'[c][s] = bcc[c][s] /\ tcc'[c][s] = tcc[c][s]
      BY <1>5, <1>6, <2>1
    <2>3. QED
      BY <2>1, <2>2 DEF Directory, EmptyLines
  <1>8. ASSUME NEW c \in Caches, NEW s \in Slots(c), c # k \/ s # ks
        PROVE  /\ bcc'[c][s] = "I" <=> bcc[c][s] = "I"
               /\ bcc'[c][s] \in {"E", "M"} <=> bcc[c][s] \in {"E", "M"}
    <2>1. CASE c = p /\ s = r
      BY <2>1
    <2>2. CASE c # p \/ s # r
      BY <1>6, <1>8, <2>2
    <2>3. QED
      BY <2>1, <2>2
  <1>9. Pairs'
    <2> SUFFICES ASSUME NEW c \in Caches, Parent[c] # Mem,
                        NEW s \in Slots(c), NEW x \in Slots(Parent[c]),
                        array'[c][s] = array'[Parent[c]][x], array'[c][s] # None
                 PROVE  Agree(c, s, x)'
      BY DEF Pairs
    <2>1. array[c][s] = array[Parent[c]][x] /\ array[c][s] # None
      BY <1>2
    <2>2. Parent[c] \in Caches /\ Parent[c] # c
      BY CoreFacts, NoLoop
    <2>3. CASE c = k /\ s = ks
      <3>1. x = r
        BY <1>1, <1>3, <2>1, <2>3
      <3>2. QED
        BY <2>3, <3>1
    <2>4. CASE c # k \/ s # ks
      <3>1. PICK q, e, e1 : q = Parent[c] /\ e = tcc[q][x] /\ e1 = tcc'[q][x]
        OBVIOUS
      <3>2. /\ c \in e.sharers => bcc[c][s] # "I" /\ (isExclusive(e) => bcc[c][s] \in {"E", "M"})
            /\ bcc[c][s] # "I" =>
                 /\ bcc[q][x] # "I"
                 /\ c \in e.sharers \/ \E t \in Cores : \E n \in Frames(t) : Upgrades(t, n, c, s, x)
            /\ bcc[c][s] \in {"E", "M"} =>
                 bcc[q][x] \in {"E", "M"} /\ isExclusive(e) /\ c \in e.sharers
        <4>1. Agree(c, s, x)
          BY <2>1 DEF Directory, Pairs
        <4>2. QED
          BY <3>1, <4>1 DEF Agree
      <3>3. /\ bcc'[c][s] = "I" <=> bcc[c][s] = "I"
            /\ bcc'[c][s] \in {"E", "M"} <=> bcc[c][s] \in {"E", "M"}
        BY <1>8, <2>4
      <3>4. /\ bcc[c][s] # "I" => bcc'[q][x] # "I"
            /\ bcc[c][s] \in {"E", "M"} => bcc'[q][x] \in {"E", "M"}
        <4>1. CASE q = k /\ x = ks
          BY <2>1, <3>1, <4>1 DEF Allows
        <4>2. CASE q # k \/ x # ks
          BY <1>8, <2>2, <3>1, <3>2, <4>2
        <4>3. QED
          BY <4>1, <4>2
      <3>5. (\E t \in Cores : \E n \in Frames(t) : Upgrades(t, n, c, s, x))
               => (\E t \in Cores : \E n \in Frames(t) : Upgrades(t, n, c, s, x))'
        BY <2>4 DEF UpgradesStay
      <3>6. /\ c \in e1.sharers <=> c \in e.sharers
            /\ c \in e1.sharers /\ isExclusive(e1) => isExclusive(e)
            /\ bcc[c][s] \in {"E", "M"} => isExclusive(e1)
        <4>1. CASE q = p /\ x = r
          <5>1. c # k
            BY <1>3, <2>1, <2>4, <3>1, <4>1
          <5>2. QED
            BY <2>1, <3>1, <4>1, <5>1 DEF OthersListed
        <4>2. CASE q # p \/ x # r
          <5>1. e1 = e
            BY <1>5, <2>2, <3>1, <4>2
          <5>2. QED
            BY <3>2, <5>1
        <4>3. QED
          BY <4>1, <4>2
      <3>7. QED
        BY <3>1, <3>2, <3>3, <3>4, <3>5, <3>6 DEF Agree
    <2>5. QED
      BY <2>3, <2>4
  <1>10. ASSUME NEW c \in Caches, NEW s \in Slots(c), bcc'[c][s] # "I", Parent[c] # Mem
         PROVE  \E x \in Slots(Parent[c]) : array[Parent[c]][x] = array[c][s]
    <2>1. CASE c = k /\ s = ks
      BY <2>1
    <2>2. CASE c # k \/ s # ks
      <3>1. bcc[c][s] # "I"
        BY <1>8, <1>10, <2>2
      <3>2. QED
        BY <1>10, <3>1 DEF Directory, Present
    <2>3. QED
      BY <2>1, <2>2
  <1>11. ASSUME NEW q \in Caches, NEW x \in Slots(q), NEW c \in tcc'[q][x].sharers
         PROVE  \E s \in Slots(c) : array[c][s] = array[q][x]
    <2>1. CASE c \in tcc[q][x].sharers
      BY <2>1 DEF Directory, Present
    <2>2. CASE c \notin tcc[q][x].sharers
      <3>1. q = p /\ x = r
        BY <1>5, <2>2
      <3>2. c = k
        BY <1>11, <2>2, <3>1
      <3>3. QED
        BY <3>1, <3>2
    <2>3. QED
      BY <2>1, <2>2
  <1>12. Present'
    BY <1>2, <1>10, <1>11 DEF Present
  <1>13. QED
    BY <1>4, <1>7, <1>9, <1>12 DEF Directory

\* The directory after one entry has changed.
EntryIs(p, r, e) ==
    /\ tcc' = [d \in Caches |-> tcc'[d]]
    /\ \A d \in Caches : tcc'[d] \in [Slots(d) -> Entry]
    /\ tcc'[p][r] = e
    /\ \A d \in Caches : \A z \in Slots(d) : d # p \/ z # r => tcc'[d][z] = tcc[d][z]
    /\ \A d \in Caches : d # p => tcc'[d] = tcc[d]

\* Writing one entry leaves the others alone.
LEMMA EntrySet ==
  ASSUME Types, NEW p \in Caches, NEW r \in Slots(p), NEW e \in Entry,
         tcc' = [tcc EXCEPT ![p][r] = e]
  PROVE  EntryIs(p, r, e)
  <1>1. PICK F, G : F = tcc /\ G = tcc'
    OBVIOUS
  <1>2. F = [d \in Caches |-> F[d]] /\ \A d \in Caches : F[d] \in [Slots(d) -> Entry]
    BY <1>1 DEF Types, TypeOK
  <1>3. G = [F EXCEPT ![p][r] = e]
    BY <1>1
  <1>4. /\ G = [d \in Caches |-> G[d]]
        /\ \A d \in Caches : G[d] \in [Slots(d) -> Entry]
        /\ G[p][r] = e
        /\ \A z \in Slots(p) : z # r => G[p][z] = F[p][z]
        /\ \A d \in Caches : d # p => G[d] = F[d]
    BY <1>2, <1>3, TableSet
  <1>5. QED
    BY <1>1, <1>4 DEF EntryIs

\* Two fields of an entry are set, by way of F.
FieldsSet(p, r, X, y, F) ==
    F = [tcc EXCEPT ![p][r].sharers = X] /\ tcc' = [F EXCEPT ![p][r].numSharers = y]

\* Writing two fields of an entry leaves the third and the other entries alone.
LEMMA EntryFields ==
  ASSUME Types, NEW p \in Caches, NEW r \in Slots(p), NEW X \in SUBSET Caches, NEW y \in Nat,
         NEW F, FieldsSet(p, r, X, y, F)
  PROVE  /\ F[p][r].numSharers = tcc[p][r].numSharers
         /\ EntryIs(p, r, [sharers |-> X, numSharers |-> y, exclusive |-> tcc[p][r].exclusive])
  <1>1. PICK E, G : E = tcc /\ G = tcc'
    OBVIOUS
  <1>2. E = [d \in Caches |-> E[d]] /\ \A d \in Caches : E[d] \in [Slots(d) -> Entry]
    BY <1>1 DEF Types, TypeOK
  <1>3. PICK e, e1, e2 :
          /\ e = E[p][r]
          /\ e1 = [sharers |-> X, numSharers |-> e.numSharers, exclusive |-> e.exclusive]
          /\ e2 = [sharers |-> X, numSharers |-> y, exclusive |-> e.exclusive]
    OBVIOUS
  <1>4. e \in Entry /\ e1 \in Entry /\ e2 \in Entry
    BY <1>2, <1>3 DEF Entry
  <1>5. e1 = [e EXCEPT !.sharers = X] /\ e2 = [e1 EXCEPT !.numSharers = y]
    BY <1>3, <1>4 DEF Entry
  <1>6. F = [E EXCEPT ![p][r] = e1]
    <2>1. F = [E EXCEPT ![p] = [E[p] EXCEPT ![r] = [E[p][r] EXCEPT !.sharers = X]]]
      BY <1>1, Zenon DEF FieldsSet
    <2>2. [E[p][r] EXCEPT !.sharers = X] = e1
      BY <1>3, <1>5, Zenon
    <2>3. QED
      BY <2>1, <2>2, Zenon
  <1>7. /\ F = [d \in Caches |-> F[d]]
        /\ \A d \in Caches : F[d] \in [Slots(d) -> Entry]
        /\ F[p][r] = e1
        /\ \A z \in Slots(p) : z # r => F[p][z] = E[p][z]
        /\ \A d \in Caches : d # p => F[d] = E[d]
    BY <1>2, <1>4, <1>6, TableSet
  <1>8. G = [F EXCEPT ![p][r] = e2]
    <2>1. G = [F EXCEPT ![p] = [F[p] EXCEPT ![r] = [F[p][r] EXCEPT !.numSharers = y]]]
      BY <1>1, Zenon DEF FieldsSet
    <2>2. [F[p][r] EXCEPT !.numSharers = y] = e2
      BY <1>5, <1>7, Zenon
    <2>3. QED
      BY <2>1, <2>2, Zenon
  <1>9. /\ G = [d \in Caches |-> G[d]]
        /\ \A d \in Caches : G[d] \in [Slots(d) -> Entry]
        /\ G[p][r] = e2
        /\ \A z \in Slots(p) : z # r => G[p][z] = F[p][z]
        /\ \A d \in Caches : d # p => G[d] = F[d]
    BY <1>4, <1>7, <1>8, TableSet
  <1>10. F[p][r].numSharers = tcc[p][r].numSharers
    BY <1>1, <1>3, <1>7
  <1>11. EntryIs(p, r, e2)
    <2>1. \A z \in Slots(p) : z # r => G[p][z] = E[p][z]
      BY <1>7, <1>9, Zenon
    <2>2. \A d \in Caches : d # p => G[d] = E[d]
      BY <1>7, <1>9, Zenon
    <2>3. \A d \in Caches : \A z \in Slots(d) : d # p \/ z # r => G[d][z] = E[d][z]
      BY <2>1, <2>2, Zenon
    <2>4. QED
      BY <1>1, <1>9, <2>2, <2>3 DEF EntryIs
  <1>12. QED
    BY <1>1, <1>3, <1>10, <1>11

\* Only the frame at work invalidates the sharers of a line of its cache.
LEMMA OwnInvalidation ==
  ASSUME Consistent, NEW t \in Cores, Working(t), NEW r,
         NEW u \in Cores, NEW m \in Frames(u), Invalidating(u, m, Top(t).c, r)
  PROVE  u = t /\ m = Len(stack[t]) /\ r = Top(t).slot
  <1>1. stack[u][m].c = Top(t).c /\ stack[u][m].slot = r /\ Owns(u, m)
    BY DEF Invalidating
  <1>2. u = t /\ m = Len(stack[t])
    BY <1>1, Isolated DEF Consistent, Working
  <1>3. QED
    BY <1>1, <1>2 DEF Top

\* The other entries are exact when the frame at work has changed the one of its line.
LEMMA OtherEntries ==
  ASSUME Consistent, Entries, NEW t \in Cores, Working(t), Kept(t), NEW f, f = Top(t), NEW e,
         EntryIs(f.c, f.slot, e),
         NEW p \in Caches, NEW r \in Slots(p), p # f.c \/ r # f.slot
  PROVE  EntryAt(p, r)'
  <1>1. tcc'[p][r] = tcc[p][r]
    BY DEF EntryIs
  <1>2. EntryAt(p, r)
    BY DEF Entries
  <1>3. ASSUME NEW u \in Cores, NEW m \in Frames(u), Invalidating(u, m, p, r)
        PROVE  m \in Frames(u)' /\ Invalidating(u, m, p, r)'
    <2>1. u # t \/ m # Len(stack[t])
      BY <1>3 DEF Invalidating, Top
    <2>2. /\ m \in Frames(u)' /\ stack'[u][m] = stack[u][m]
          /\ Waiting(u, m)' <=> Waiting(u, m)
      BY <2>1 DEF Kept
    <2>3. Dir(stack[u][m])' = Dir(stack[u][m])
      BY <1>1, <1>3, <2>2 DEF Invalidating, Dir
    <2>4. QED
      BY <1>3, <2>2, <2>3 DEF Invalidating, Owns
  <1>4. QED
    BY <1>1, <1>2, <1>3 DEF EntryAt

\* A frame that has come to the directory of its cache.
LEMMA TopLine ==
  ASSUME Consistent, Directory, NEW t \in Cores, NEW n, n = Len(stack[t]), NEW f, f = Top(t),
         At(t, "access", "top"), NEW e, e = Dir(f)
  PROVE  /\ Working(t) /\ Busy(t) /\ n \in Frames(t) /\ n \in Nat /\ n > 1 /\ f = stack[t][n]
         /\ f.fn = "access" /\ f.pc = "top" /\ f \in AccFrame /\ f \in Frame /\ ~Waiting(t, n)
         /\ f.type \in {"GETS", "GETX", "PUTS", "PUTX"} /\ f.c \in Caches /\ f.a \in Addrs
         /\ f.c \notin Leaves /\ f.slot \in Slots(f.c) /\ array[f.c][f.slot] = f.a
         /\ RequestState(f) /\ OwnState(f)
         /\ f.wb => State(f) \in {"E", "M"}
         /\ e \in Entry /\ IsFiniteSet(e.sharers) /\ e.sharers \subseteq Children(f.c)
         /\ e.numSharers = 0 <=> e.sharers = {}
         /\ e.exclusive => e.numSharers \in {0, 1} /\ \A c, d \in e.sharers : c = d
         /\ (f.type = "GETX" /\ f.child \notin e.sharers) \/ e.numSharers = Cardinality(e.sharers)
  <1>1. Working(t) /\ Busy(t) /\ f.fn = "access" /\ f.pc = "top"
    BY DEF At, Working
  <1>2. /\ n \in Frames(t) /\ n \in Nat /\ n > 0 /\ f = stack[t][n] /\ f \in Frame
        /\ ~Waiting(t, n) /\ ContentAt(t, n) /\ f \in AccFrame /\ f.c \in Caches /\ f.a \in Addrs
        /\ f.type \in {"GETS", "GETX", "PUTS", "PUTX"}
    BY <1>1, TopFacts, InStack, FrameTypes DEF Consistent, Content
  <1>3. Owns(t, n)
    BY <1>1, <1>2 DEF Owns
  <1>4. /\ f.c \notin Leaves /\ f.slot \in Slots(f.c) /\ array[f.c][f.slot] = f.a
        /\ OwnState(f) /\ (f.wb => State(f) \in {"E", "M"}) /\ (n > 1 => RequestState(f))
    BY <1>1, <1>2, <1>3 DEF ContentAt, FrameLine
  <1>5. n > 1
    BY <1>1, <1>2, <1>4, AccessFacts, NatOne DEF Consistent
  <1>6. EntryAt(f.c, f.slot) /\ e = tcc[f.c][f.slot]
    BY <1>2, <1>4 DEF Directory, Entries, Dir
  <1>7. e \in Entry
    BY <1>2, <1>4, <1>6 DEF Consistent, Types, TypeOK
  <1>8. IsFiniteSet(e.sharers)
    <2>1. e.sharers \subseteq Caches /\ IsFiniteSet(Caches)
      BY <1>7, ConstantsAssumption DEF Entry
    <2>2. QED
      BY <2>1, FS_Subset
  <1>9. (f.type = "GETX" /\ f.child \notin e.sharers) \/ e.numSharers = Cardinality(e.sharers)
    <2>1. SUFFICES ASSUME e.numSharers # Cardinality(e.sharers)
                   PROVE  f.type = "GETX" /\ f.child \notin e.sharers
      OBVIOUS
    <2>2. PICK u \in Cores : \E m \in Frames(u) : Invalidating(u, m, f.c, f.slot)
      BY <1>6, <2>1 DEF EntryAt
    <2>3. PICK m \in Frames(u) : Invalidating(u, m, f.c, f.slot)
      BY <2>2
    <2>4. u = t /\ m = n
      BY <1>1, <2>3, OwnInvalidation
    <2>5. QED
      BY <1>1, <1>2, <2>3, <2>4 DEF Invalidating
  <1>10. QED
    BY <1>1, <1>2, <1>4, <1>5, <1>6, <1>7, <1>8, <1>9 DEF EntryAt

\* tcc->processAccess takes an upgrading child out of the entry.
LEMMA TopUpgradeStep ==
  ASSUME IInv, NEW t \in Cores, TopUpgrade(t)
  PROVE  IInv'
  <1>1. PICK n, f, e, k, ks, p, r :
          /\ n = Len(stack[t]) /\ f = Top(t) /\ e = Dir(f)
          /\ k = f.child /\ ks = f.childSlot /\ p = f.c /\ r = f.slot
    OBVIOUS
  <1>2. /\ Consistent /\ Directory /\ At(t, "access", "top") /\ f.type = "GETX" /\ k \in e.sharers
        /\ UNCHANGED <<array, bcc, bccLock, tccLock, stack, issued, unsaved>>
    BY <1>1, InvParts DEF TopUpgrade
  <1>3. /\ Working(t) /\ Busy(t) /\ n \in Frames(t) /\ n \in Nat /\ n > 1 /\ f = stack[t][n]
        /\ f.fn = "access" /\ f.pc = "top" /\ f \in AccFrame /\ f \in Frame /\ ~Waiting(t, n)
        /\ p \in Caches /\ p \notin Leaves /\ r \in Slots(p) /\ array[p][r] = f.a
        /\ RequestState(f) /\ OwnState(f) /\ (f.wb => State(f) \in {"E", "M"})
        /\ e \in Entry /\ IsFiniteSet(e.sharers) /\ e.sharers \subseteq Children(p)
        /\ e.numSharers = 0 <=> e.sharers = {}
        /\ e.exclusive => e.numSharers \in {0, 1} /\ \A c, d \in e.sharers : c = d
        /\ e.numSharers = Cardinality(e.sharers)
    BY <1>1, <1>2, TopLine
  <1>4. /\ k \in Caches /\ Parent[k] = p /\ k # p /\ p # Mem
        /\ ks \in Slots(k)
        /\ array[k][ks] = f.a /\ f.a # None
        /\ ChildState(f) = bcc[k][ks]
        /\ Agree(k, ks, r)
    BY <1>1, <1>2, <1>3, ChildLine
  <1>5. e = tcc[p][r]
    BY <1>1 DEF Dir
  <1>6. bcc[k][ks] = "S" /\ ~isExclusive(e) /\ State(f) = "M"
    BY <1>2, <1>3, <1>4, <1>5 DEF RequestState, Agree, OwnState
  <1>7. e.exclusive = FALSE
    BY <1>2, <1>3, <1>6 DEF isExclusive, Entry
  <1>8. PICK e1 : e1 = [sharers |-> e.sharers \ {k}, numSharers |-> e.numSharers - 1, exclusive |-> FALSE]
    OBVIOUS
  <1>9. e.numSharers - 1 \in Nat /\ e1 \in Entry
    BY <1>2, <1>3, <1>8 DEF Entry
  <1>10. EntryIs(p, r, e1)
    <2>1. PICK F : F = [tcc EXCEPT ![p][r].sharers = e.sharers \ {k}]
      OBVIOUS
    <2>2. tcc' = [F EXCEPT ![p][r].numSharers = F[p][r].numSharers - 1]
      <3>1. tcc' = [tcc EXCEPT ![p][r].sharers = @ \ {k}, ![p][r].numSharers = @ - 1]
        BY <1>1, Zenon DEF TopUpgrade
      <3>2. F = [tcc EXCEPT ![p][r].sharers = @ \ {k}]
        BY <1>5, <2>1, Zenon
      <3>3. QED
        BY <3>1, <3>2, Zenon
    <2>3. e.sharers \ {k} \in SUBSET Caches /\ Types
      BY <1>2, <1>3 DEF Entry, Consistent
    <2>4. F[p][r].numSharers = e.numSharers
      <3>1. PICK E : E = tcc
        OBVIOUS
      <3>2. E = [d \in Caches |-> E[d]] /\ E[p] \in [Slots(p) -> Entry]
        BY <1>3, <2>3, <3>1 DEF Types, TypeOK
      <3>3. F = [E EXCEPT ![p] = [E[p] EXCEPT ![r] = [E[p][r] EXCEPT !.sharers = e.sharers \ {k}]]]
        BY <2>1, <3>1, Zenon
      <3>4. F[p][r] = [e EXCEPT !.sharers = e.sharers \ {k}]
        BY <1>3, <1>5, <3>1, <3>2, <3>3
      <3>5. QED
        BY <1>3, <3>4 DEF Entry
    <2>5. FieldsSet(p, r, e.sharers \ {k}, e.numSharers - 1, F)
      BY <2>1, <2>2, <2>4, Zenon DEF FieldsSet
    <2>6. EntryIs(p, r, [sharers |-> e.sharers \ {k}, numSharers |-> e.numSharers - 1,
                         exclusive |-> tcc[p][r].exclusive])
      BY <1>3, <1>9, <2>3, <2>5, EntryFields
    <2>7. QED
      BY <1>5, <1>7, <1>8, <2>6
  <1>11. tcc'[p][r] = e1 /\ \A d \in Caches : d # p => tcc'[d] = tcc[d]
    BY <1>10 DEF EntryIs
  <1>12. Kept(t)
    BY <1>2 DEF Kept, Waiting, Frames
  <1>13. OnlyAt(p)
    BY <1>2, <1>11 DEF OnlyAt
  <1>14. EntryAt(p, r)'
    <2>1. e1.sharers \subseteq Children(p) /\ e1.exclusive = FALSE
      BY <1>3, <1>8
    <2>2. e1.numSharers = Cardinality(e1.sharers) /\ IsFiniteSet(e1.sharers)
      BY <1>2, <1>3, <1>8, FS_RemoveElement
    <2>3. e1.numSharers = 0 <=> e1.sharers = {}
      BY <2>2, FS_EmptySet
    <2>4. QED
      BY <1>11, <2>1, <2>2, <2>3 DEF EntryAt
  <1>15. Entries'
    <2> SUFFICES ASSUME NEW q \in Caches, NEW x \in Slots(q)
                 PROVE  EntryAt(q, x)'
      BY DEF Entries
    <2>1. CASE q = p /\ x = r
      BY <1>14, <2>1
    <2>2. CASE q # p \/ x # r
      BY <1>1, <1>2, <1>3, <1>10, <1>12, <2>2, OtherEntries DEF Directory
    <2>3. QED
      BY <2>1, <2>2
  <1>16. Upgrades(t, n, k, ks, r)'
    <2>1. Owns(t, n)'
      BY <1>2, <1>3 DEF Owns, Waiting
    <2>2. QED
      BY <1>1, <1>2, <1>3, <1>4, <1>6, <2>1 DEF Upgrades
  <1>17. Agree(k, ks, r)'
    <2>1. k \notin tcc'[p][r].sharers /\ ~isExclusive(tcc'[p][r])
      BY <1>8, <1>11 DEF isExclusive
    <2>2. n \in Frames(t)'
      BY <1>2, <1>3 DEF Frames
    <2>3. bcc'[k][ks] = "S" /\ bcc'[p][r] # "I"
      BY <1>1, <1>2, <1>6 DEF State
    <2>4. QED
      BY <1>4, <1>16, <2>1, <2>2, <2>3 DEF Agree
  <1>18. UpgradesStay(k, ks)
    BY <1>2 DEF UpgradesStay, Upgrades, Owns, Waiting, Frames
  <1>19. Allows(k, ks)
    <2> SUFFICES ASSUME NEW c \in Caches, NEW s \in Slots(c), Parent[c] = k,
                        array[c][s] = array[k][ks]
                 PROVE  /\ bcc[c][s] # "I" => bcc'[k][ks] # "I"
                        /\ bcc[c][s] \in {"E", "M"} => bcc'[k][ks] \in {"E", "M"}
      BY DEF Allows
    <2>1. Agree(c, s, ks)
      BY <1>4, CoreFacts, <1>2 DEF Directory, Pairs
    <2>2. QED
      BY <1>2, <2>1 DEF Agree
  <1>20. OthersListed(k, p, r)
    <2> SUFFICES ASSUME NEW c \in Caches, NEW s \in Slots(c), Parent[c] = p, c # k,
                        array[c][s] = array[p][r]
                 PROVE  /\ c \in e1.sharers <=> c \in e.sharers
                        /\ c \in e1.sharers /\ isExclusive(e1) => isExclusive(e)
                        /\ bcc[c][s] \in {"E", "M"} => isExclusive(e1)
      BY <1>5, <1>11 DEF OthersListed
    <2>1. Agree(c, s, r)
      BY <1>2, <1>3, <1>4 DEF Directory, Pairs
    <2>2. QED
      BY <1>5, <1>6, <1>8, <2>1 DEF Agree, isExclusive
  <1>21. LinkOnly(k, ks, r)
    BY <1>2, <1>4, <1>10 DEF LinkOnly, EntryIs
  <1>22. Directory'
    <2>1. /\ array[k][ks] = array[p][r] /\ array[p][r] # None
          /\ bcc'[p][r] = bcc[p][r]
          /\ tcc'[p][r].sharers \subseteq tcc[p][r].sharers \cup {k}
      BY <1>2, <1>3, <1>4, <1>5, <1>8, <1>11
    <2>2. p = Parent[k] /\ p # Mem /\ k \in Caches /\ ks \in Slots(k) /\ r \in Slots(p)
      BY <1>3, <1>4
    <2>3. Types /\ Directory
      BY <1>2 DEF Consistent
    <2>4. QED
      BY <1>15, <1>17, <1>18, <1>19, <1>20, <1>21, <2>1, <2>2, <2>3, LinkChanged
  <1>23. Types' /\ Locks' /\ Order'
    <2>1. Types'
      BY <1>2, <1>10 DEF EntryIs, Types, TypeOK, Consistent
    <2>2. Locks' /\ Order'
      BY <1>2 DEF Consistent, Locks, Order, Owns, Accessing, Waiting, Frames
    <2>3. QED
      BY <2>1, <2>2
  <1>24. LinkedAt(t, n)'
    <2>1. AccessCall(stack[t][n-1], f)
      BY <1>2, <1>3, CallerFacts DEF Consistent
    <2>2. QED
      BY <1>2, <1>3, <2>1 DEF LinkedAt, AccessCall
  <1>25. ContentAt(t, n)'
    <2>1. ContentAt(t, n)
      BY <1>2, <1>3 DEF Consistent, Content
    <2>2. OwnState(f)'
      <3>1. ~isExclusive(Dir(f)')
        BY <1>1, <1>8, <1>11 DEF Dir, isExclusive
      <3>2. State(f)' = State(f)
        BY <1>2 DEF State
      <3>3. QED
        BY <1>3, <3>1, <3>2 DEF OwnState
    <2>3. RequestState(f)'
      BY <1>2, <1>3 DEF RequestState, ChildState
    <2>4. FrameLine(f)'
      BY <1>2, <1>3, <2>1 DEF ContentAt, FrameLine
    <2>5. QED
      BY <1>2, <1>3, <2>1, <2>2, <2>3, <2>4 DEF ContentAt, Owns, Waiting, State
  <1>26. Linked' /\ Content'
    <2>1. \A u \in Cores : Frames(u)' = Frames(u)
      BY <1>2 DEF Frames
    <2>2. OnlyAt(f.c)
      BY <1>1, <1>13
    <2>3. QED
      BY <1>1, <1>2, <1>3, <1>12, <1>24, <1>25, <2>1, <2>2, OneStep
  <1>27. QED
    BY <1>22, <1>23, <1>26, InvParts DEF Consistent

\* The state that an access leaves in the child
StateAfter(t, f) == CASE f.type \in Puts -> "I"
                      [] f.type = "GETS" -> IF GiveE(t, f) THEN "E" ELSE "S"
                      [] f.type = "GETX" -> "M"

\* The directory entry and the child's state after an access
LEMMA NewEntryFacts ==
  ASSUME Consistent, Directory, NEW t \in Cores, NEW n, n = Len(stack[t]), NEW f, f = Top(t),
         At(t, "access", "top"), NEW e, e = Dir(f), NEW k, k = f.child,
         ~MustInvalidate(t, f), f.type = "GETX" => k \notin e.sharers,
         NEW e1, e1 = NewEntry(t, f),
         NEW v, v = StateAfter(t, f)
  PROVE  /\ e1 \in Entry /\ v \in MESIState
         /\ e1.sharers \subseteq Children(f.c)
         /\ e1.numSharers = 0 <=> e1.sharers = {}
         /\ e1.exclusive => e1.numSharers \in {0, 1} /\ \A c, d \in e1.sharers : c = d
         /\ e1.numSharers = Cardinality(e1.sharers)
         /\ k \in e1.sharers => v # "I" /\ (isExclusive(e1) => v \in {"E", "M"})
         /\ v # "I" => State(f) # "I" /\ k \in e1.sharers
         /\ v \in {"E", "M"} => State(f) \in {"E", "M"} /\ isExclusive(e1)
         /\ \A c : c # k =>
              /\ c \in e1.sharers <=> c \in e.sharers
              /\ c \in e1.sharers => ~isExclusive(e1) /\ ~isExclusive(e)
         /\ e1.sharers \subseteq e.sharers \cup {k}
         /\ f.type \in Puts => v = "I"
         /\ f.type = "GETS" => v \in {"S", "E"} /\ ChildState(f) = "I"
         /\ f.type = "GETX" => v = "M"
  <1>1. /\ Working(t) /\ n > 1 /\ f.fn = "access" /\ f.pc = "top" /\ f.c \in Caches
        /\ f.type \in {"GETS", "GETX", "PUTS", "PUTX"}
        /\ RequestState(f) /\ OwnState(f)
        /\ e \in Entry /\ IsFiniteSet(e.sharers) /\ e.sharers \subseteq Children(f.c)
        /\ e.numSharers = 0 <=> e.sharers = {}
        /\ e.exclusive => e.numSharers \in {0, 1} /\ \A c, d \in e.sharers : c = d
        /\ (f.type = "GETX" /\ f.child \notin e.sharers) \/ e.numSharers = Cardinality(e.sharers)
    BY TopLine
  <1>2. /\ k \in Caches /\ Parent[k] = f.c /\ k \in Children(f.c)
        /\ f.type # "GETX" =>
              /\ k \in e.sharers =>
                   ChildState(f) # "I" /\ (isExclusive(e) => ChildState(f) \in {"E", "M"})
              /\ ChildState(f) # "I" => State(f) # "I" /\ k \in e.sharers
    BY <1>1, ChildLine DEF Children
  <1>3. Cardinality({}) = 0 /\ e.numSharers \in Nat /\ e.sharers \subseteq Caches /\ e.exclusive \in BOOLEAN
    BY <1>1, FS_EmptySet DEF Entry
  <1>4. CASE f.type \in Puts
    <2>1. k \in e.sharers
      BY <1>1, <1>2, <1>4 DEF RequestState, Puts
    <2>2. e1 = [e EXCEPT !.sharers = @ \ {k}, !.numSharers = @ - 1] /\ v = "I"
      BY <1>4 DEF NewEntry, StateAfter, Puts
    <2>3. e.numSharers = Cardinality(e.sharers) /\ e.numSharers # 0
      BY <1>1, <1>4, <2>1 DEF Puts
    <2>4. /\ e1.sharers = e.sharers \ {k} /\ e1.numSharers = e.numSharers - 1
          /\ e1.exclusive = e.exclusive /\ e1 \in Entry
      <3>1. e \in Entry /\ e.numSharers \in Nat /\ e.numSharers - 1 \in Nat
        BY <1>1, <1>3, <2>3
      <3>2. e1 = [e EXCEPT !.sharers = e.sharers \ {k}, !.numSharers = e.numSharers - 1]
        BY <2>2, <3>1 DEF Entry
      <3>3. e1 = [sharers |-> e.sharers \ {k}, numSharers |-> e.numSharers - 1,
                  exclusive |-> e.exclusive]
        BY <3>1, <3>2 DEF Entry
      <3>4. e1 \in Entry
        BY <1>3, <3>1, <3>3 DEF Entry
      <3>5. QED
        BY <3>3, <3>4
    <2>5. e1.numSharers = Cardinality(e1.sharers) /\ IsFiniteSet(e1.sharers)
      <3>1. IsFiniteSet(e.sharers)
        BY <1>1
      <3>2. IsFiniteSet(e.sharers \ {k}) /\ Cardinality(e.sharers \ {k}) = Cardinality(e.sharers) - 1
        BY <2>1, <3>1, FS_RemoveElement
      <3>3. QED
        BY <2>3, <2>4, <3>2
    <2>6. e1.numSharers = 0 <=> e1.sharers = {}
      BY <2>5, FS_EmptySet
    <2>7. e1.exclusive => e1.numSharers = 0 /\ e1.sharers = {} /\ \A c \in e.sharers : c = k
      BY <1>1, <1>3, <2>1, <2>3, <2>4, <2>6
    <2>8. \A c : c # k =>
              /\ c \in e1.sharers <=> c \in e.sharers
              /\ c \in e1.sharers => ~isExclusive(e1) /\ ~isExclusive(e)
      BY <2>4, <2>7 DEF isExclusive
    <2>9. k \notin e1.sharers /\ e1.sharers \subseteq e.sharers \cup {k}
      BY <2>4
    <2>10. /\ e1.sharers \subseteq Children(f.c)
           /\ e1.exclusive => e1.numSharers \in {0, 1} /\ \A c, d \in e1.sharers : c = d
      BY <1>1, <2>4, <2>7
    <2>11. QED
      BY <1>4, <2>2, <2>4, <2>5, <2>6, <2>8, <2>9, <2>10 DEF MESIState, Puts
  <1>5. CASE f.type = "GETS"
    <2>1. ChildState(f) = "I" /\ k \notin e.sharers
      BY <1>1, <1>2, <1>5 DEF RequestState
    <2>2. State(f) # "I" /\ ~isExclusive(e)
      BY <1>1, <1>5 DEF OwnState, MustInvalidate
    <2>3. /\ e1 = [sharers    |-> e.sharers \cup {k},
                   numSharers |-> IF GiveE(t, f) THEN 1 ELSE e.numSharers + 1,
                   exclusive  |-> GiveE(t, f)]
          /\ v = IF GiveE(t, f) THEN "E" ELSE "S"
      BY <1>5 DEF NewEntry, StateAfter, Puts
    <2>4. e.numSharers = Cardinality(e.sharers)
      BY <1>1, <1>5
    <2>5. GiveE(t, f) => e.numSharers = 0 /\ e.sharers = {} /\ State(f) \in {"E", "M"}
      BY <1>1 DEF GiveE
    <2>6. Cardinality(e.sharers \cup {k}) = e.numSharers + 1
      <3>1. IsFiniteSet(e.sharers)
        BY <1>1
      <3>2. Cardinality(e.sharers \cup {k}) = Cardinality(e.sharers) + 1
        BY <2>1, <3>1, FS_AddElement
      <3>3. QED
        BY <2>4, <3>2
    <2>7. e1.numSharers = e.numSharers + 1 /\ e1.sharers = e.sharers \cup {k}
      BY <1>3, <2>3, <2>5
    <2>8. e1.exclusive = GiveE(t, f) /\ GiveE(t, f) \in BOOLEAN
      BY <2>3 DEF GiveE
    <2>9. e1 \in Entry
      BY <1>2, <1>3, <2>3, <2>7, <2>8 DEF Entry
    <2>10. isExclusive(e1) <=> GiveE(t, f)
      BY <1>3, <2>5, <2>7, <2>8 DEF isExclusive
    <2>11. e1.numSharers # 0 /\ e1.numSharers = Cardinality(e1.sharers) /\ k \in e1.sharers
      BY <1>3, <2>6, <2>7
    <2>12. e1.exclusive => e1.numSharers \in {0, 1} /\ \A c, d \in e1.sharers : c = d
      BY <2>5, <2>7, <2>8
    <2>13. \A c : c # k =>
              /\ c \in e1.sharers <=> c \in e.sharers
              /\ c \in e1.sharers => ~isExclusive(e1) /\ ~isExclusive(e)
      BY <2>2, <2>5, <2>7, <2>10
    <2>14. /\ v \in {"S", "E"} /\ v \in MESIState
           /\ isExclusive(e1) => v \in {"E", "M"}
           /\ v \in {"E", "M"} => State(f) \in {"E", "M"} /\ isExclusive(e1)
      BY <2>3, <2>5, <2>10 DEF MESIState
    <2>15. QED
      BY <1>1, <1>2, <1>5, <2>1, <2>2, <2>7, <2>9, <2>11, <2>12, <2>13, <2>14 DEF Puts
  <1>6. CASE f.type = "GETX"
    <2>1. e.sharers = {} /\ e.numSharers = 0 /\ k \notin e.sharers
      BY <1>1, <1>6 DEF MustInvalidate
    <2>2. State(f) = "M"
      BY <1>1, <1>6 DEF OwnState
    <2>3. e1 = [sharers |-> {k}, numSharers |-> 1, exclusive |-> TRUE] /\ v = "M"
      BY <1>6, <2>1 DEF NewEntry, StateAfter, Puts
    <2>4. Cardinality({k}) = 1
      BY FS_Singleton
    <2>5. e1 \in Entry /\ isExclusive(e1) /\ e1.sharers = {k} /\ e1.numSharers = 1
      BY <1>2, <2>3 DEF Entry, isExclusive
    <2>6. QED
      BY <1>2, <1>6, <2>1, <2>2, <2>3, <2>4, <2>5 DEF MESIState, Puts
  <1>7. QED
    BY <1>1, <1>4, <1>5, <1>6 DEF Puts

\* Frame n of core t is the only call for its child: its caller is the only access
\* there, and nobody has the child's bcc lock.
Alone(t, n, k) ==
    \A u \in Cores : \A m \in Frames(u) :
        /\ Accessing(u, m) /\ stack[u][m].c = k => u = t /\ m = n-1
        /\ Owns(u, m) => stack[u][m].c # k
        /\ (u # t \/ m # n) /\ m > 1 /\ stack[u][m].fn = "access" => stack[u][m].child # k

\* While a frame is in the parent's directory the child is left alone.
LEMMA ChildAlone ==
  ASSUME Consistent, Directory, NEW t \in Cores, NEW n, n = Len(stack[t]), n > 1, NEW f, f = Top(t), Working(t)
  PROVE  /\ n-1 \in Frames(t) /\ AccessCall(stack[t][n-1], f) /\ Waiting(t, n-1)
         /\ stack[t][n-1].c = f.child /\ stack[t][n-1].slot = f.childSlot
         /\ f.type \in Puts => stack[t][n-1].pc = "evput" /\ tcc[f.child][f.childSlot].sharers = {}
         /\ Alone(t, n, f.child)
  <1>1. /\ n \in Frames(t) /\ f = stack[t][n] /\ f.fn = "access" /\ n \in Nat
        /\ f.pc \notin {"tcc", "bcc"} /\ Busy(t)
    BY TopFacts DEF Consistent, Working
  <1>2. PICK e : e = stack[t][n-1]
    OBVIOUS
  <1>3. /\ n-1 \in Frames(t) /\ e \in Frame /\ AccessCall(e, f) /\ Waiting(t, n-1) /\ Accessing(t, n-1)
    BY <1>1, <1>2, CallerFacts DEF Consistent
  <1>4. e.c = f.child /\ e.slot = f.childSlot /\ (f.type \in Puts => e.pc = "evput")
    BY <1>3 DEF AccessCall
  <1>5. f.type \in Puts => tcc[f.child][f.childSlot].sharers = {}
    <2>1. ContentAt(t, n-1)
      BY <1>3 DEF Consistent, Content
    <2>2. e.fn = "access"
      BY <1>3 DEF AccessCall
    <2>3. FrameLine(e)
      BY <1>2, <2>1 DEF ContentAt
    <2>4. QED
      BY <1>4, <2>2, <2>3 DEF FrameLine, Dir
  <1>6. ASSUME NEW u \in Cores, NEW m \in Frames(u), Accessing(u, m), stack[u][m].c = f.child
        PROVE  u = t /\ m = n-1
    BY <1>2, <1>3, <1>4, <1>6, OneAccessor DEF Consistent
  <1>7. ASSUME NEW u \in Cores, NEW m \in Frames(u), Owns(u, m), stack[u][m].c = f.child
        PROVE  FALSE
    <2>1. stack[u][m] \in Frame /\ m \in Nat /\ m > 0
      BY InStack DEF Consistent
    <2>2. CASE stack[u][m].fn = "access"
      <3>1. Accessing(u, m)
        BY <1>7, <2>2 DEF Accessing, Owns
      <3>2. Waiting(u, m)
        BY <1>3, <1>6, <1>7, <3>1
      <3>3. QED
        BY <1>7, <3>2 DEF Owns
    <2>3. CASE stack[u][m].fn = "inv"
      <3>1. m > 1
        BY <2>1, <2>3, NatOne DEF Consistent, Linked, LinkedAt, FirstFrame
      <3>2. stack[u][m].c \in Dir(stack[u][m-1]).sharers /\ stack[u][m-1].slot \in Slots(stack[u][m-1].c)
            /\ m-1 \in Frames(u) /\ stack[u][m-1] \in Frame /\ Owns(u, m-1)
        BY <2>3, <3>1, CallerFacts DEF Consistent, InvCall
      <3>3. u # t \/ m # n
        BY <1>1, <2>3
      <3>4. stack[u][m-1].c # f.c
        BY <1>1, <3>1, <3>3, Isolated DEF Consistent
      <3>5. stack[u][m-1].c \in Caches
        BY <3>2, FrameTypes
      <3>6. EntryAt(stack[u][m-1].c, stack[u][m-1].slot)
        BY <3>2, <3>5 DEF Directory, Entries
      <3>7. Parent[f.child] = stack[u][m-1].c
        BY <1>7, <3>2, <3>6 DEF EntryAt, Children, Dir
      <3>8. Parent[f.child] = f.c
        BY <1>3, <1>4 DEF AccessCall
      <3>9. QED
        BY <3>4, <3>7, <3>8
    <2>4. QED
      BY <2>1, <2>2, <2>3, FrameTypes
  <1>8. ASSUME NEW u \in Cores, NEW m \in Frames(u), u # t \/ m # n, m > 1,
               stack[u][m].fn = "access", stack[u][m].child = f.child
        PROVE  FALSE
    <2>1. m-1 \in Frames(u) /\ AccessCall(stack[u][m-1], stack[u][m]) /\ Accessing(u, m-1)
      BY <1>8, CallerFacts DEF Consistent
    <2>2. stack[u][m-1].c = f.child
      BY <1>8, <2>1 DEF AccessCall
    <2>3. u = t /\ m-1 = n-1
      BY <1>6, <2>1, <2>2
    <2>4. m \in Nat
      BY InStack DEF Consistent
    <2>5. QED
      BY <1>1, <1>8, <2>3, <2>4
  <1>9. Alone(t, n, f.child)
    BY <1>6, <1>7, <1>8 DEF Alone
  <1>10. QED
    BY <1>2, <1>3, <1>4, <1>5, <1>9

\* The states after two lines have changed.
StatesAre(k, ks, v, p, r, w) ==
    /\ bcc' = [d \in Caches |-> bcc'[d]]
    /\ \A d \in Caches : bcc'[d] \in [Slots(d) -> MESIState]
    /\ bcc'[k][ks] = v /\ bcc'[p][r] = w
    /\ \A d \in Caches : \A z \in Slots(d) :
         (d # p \/ z # r) /\ (d # k \/ z # ks) => bcc'[d][z] = bcc[d][z]
    /\ \A d \in Caches : d # p /\ d # k => bcc'[d] = bcc[d]

\* Two lines are set, by way of F.
StatesSet(k, ks, v, p, r, w, F) ==
    F = [bcc EXCEPT ![k][ks] = v] /\ bcc' = [F EXCEPT ![p][r] = w]

\* Writing the child's and the parent's state leaves the other states alone.
LEMMA StateFields ==
  ASSUME Types, NEW k \in Caches, NEW ks \in Slots(k), NEW v \in MESIState,
         NEW p \in Caches, NEW r \in Slots(p), NEW w \in MESIState, k # p,
         NEW F, StatesSet(k, ks, v, p, r, w, F)
  PROVE  F[p][r] = bcc[p][r] /\ StatesAre(k, ks, v, p, r, w)
  <1>1. PICK E, G : E = bcc /\ G = bcc'
    OBVIOUS
  <1>2. E = [d \in Caches |-> E[d]] /\ \A d \in Caches : E[d] \in [Slots(d) -> MESIState]
    BY <1>1 DEF Types, TypeOK
  <1>3. F = [E EXCEPT ![k][ks] = v]
    BY <1>1, Zenon DEF StatesSet
  <1>0. G = [F EXCEPT ![p][r] = w]
    BY <1>1, Zenon DEF StatesSet
  <1>4. /\ F = [d \in Caches |-> F[d]]
        /\ \A d \in Caches : F[d] \in [Slots(d) -> MESIState]
        /\ F[k][ks] = v
        /\ \A z \in Slots(k) : z # ks => F[k][z] = E[k][z]
        /\ \A d \in Caches : d # k => F[d] = E[d]
    BY <1>2, <1>3, TableSet
  <1>5. /\ G = [d \in Caches |-> G[d]]
        /\ \A d \in Caches : G[d] \in [Slots(d) -> MESIState]
        /\ G[p][r] = w
        /\ \A z \in Slots(p) : z # r => G[p][z] = F[p][z]
        /\ \A d \in Caches : d # p => G[d] = F[d]
    <2>1. F = [d \in Caches |-> F[d]] /\ \A d \in Caches : F[d] \in [Slots(d) -> MESIState]
      BY <1>4
    <2>2. QED
      BY <1>0, <2>1, TableSet
  <1>6. F[p] = E[p] /\ G[k] = F[k]
    BY <1>4, <1>5
  <1>7. \A d \in Caches : d # p /\ d # k => G[d] = E[d]
    BY <1>4, <1>5, Zenon
  <1>8. ASSUME NEW d \in Caches, NEW z \in Slots(d), d # p \/ z # r, d # k \/ z # ks
        PROVE  G[d][z] = E[d][z]
    <2>1. CASE d = p
      BY <1>5, <1>6, <1>8, <2>1
    <2>2. CASE d = k
      BY <1>4, <1>6, <1>8, <2>2
    <2>3. CASE d # p /\ d # k
      BY <1>7, <2>3
    <2>4. QED
      BY <2>1, <2>2, <2>3
  <1>9. QED
    BY <1>1, <1>4, <1>5, <1>6, <1>7, <1>8 DEF StatesAre

\* tcc->processAccess gives or takes the line, and the child's state follows.
LEMMA TopAccessStep ==
  ASSUME IInv, NEW t \in Cores, TopAccess(t)
  PROVE  IInv'
  <1>1. PICK n, f, e, k, ks, p, r :
          /\ n = Len(stack[t]) /\ f = Top(t) /\ e = Dir(f)
          /\ k = f.child /\ ks = f.childSlot /\ p = f.c /\ r = f.slot
    OBVIOUS
  <1>2. PICK f1, e1, v, w :
          /\ f1 = [f EXCEPT !.pc = "end"] /\ e1 = NewEntry(t, f)
          /\ v = StateAfter(t, f)
          /\ w = IF f.wb THEN "M" ELSE State(f)
    OBVIOUS
  <1>3. /\ Consistent /\ Directory /\ At(t, "access", "top")
        /\ ~MustInvalidate(t, f) /\ (f.type = "GETX" => k \notin e.sharers)
        /\ Become(t, f1) /\ UNCHANGED <<array, bccLock, tccLock, issued, unsaved>>
        /\ tcc' = [tcc EXCEPT ![p][r] = e1]
    BY <1>1, <1>2, InvParts DEF TopAccess
  <1>4. /\ Working(t) /\ Busy(t) /\ n \in Frames(t) /\ n \in Nat /\ n > 1 /\ f = stack[t][n]
        /\ f.fn = "access" /\ f.pc = "top" /\ f \in AccFrame /\ f \in Frame /\ ~Waiting(t, n)
        /\ f.type \in {"GETS", "GETX", "PUTS", "PUTX"}
        /\ p \in Caches /\ p \notin Leaves /\ r \in Slots(p) /\ array[p][r] = f.a
        /\ RequestState(f) /\ OwnState(f) /\ (f.wb => State(f) \in {"E", "M"})
    BY <1>1, <1>3, TopLine
  <1>5. /\ k \in Caches /\ Parent[k] = p /\ k # p /\ p # Mem
        /\ ks \in Slots(k)
        /\ array[k][ks] = f.a /\ f.a # None
        /\ ChildState(f) = bcc[k][ks]
        /\ Agree(k, ks, r)
    BY <1>1, <1>3, <1>4, ChildLine
  <1>6. e = tcc[p][r] /\ State(f) = bcc[p][r]
    BY <1>1 DEF Dir, State
  <1>7. /\ e1 \in Entry /\ v \in MESIState
        /\ e1.sharers \subseteq Children(p)
        /\ e1.numSharers = 0 <=> e1.sharers = {}
        /\ e1.exclusive => e1.numSharers \in {0, 1} /\ \A c, d \in e1.sharers : c = d
        /\ e1.numSharers = Cardinality(e1.sharers)
        /\ k \in e1.sharers => v # "I" /\ (isExclusive(e1) => v \in {"E", "M"})
        /\ v # "I" => State(f) # "I" /\ k \in e1.sharers
        /\ v \in {"E", "M"} => State(f) \in {"E", "M"} /\ isExclusive(e1)
        /\ \A c : c # k =>
             /\ c \in e1.sharers <=> c \in e.sharers
             /\ c \in e1.sharers => ~isExclusive(e1) /\ ~isExclusive(e)
        /\ e1.sharers \subseteq e.sharers \cup {k}
        /\ f.type \in Puts => v = "I"
        /\ f.type = "GETS" => v \in {"S", "E"} /\ ChildState(f) = "I"
        /\ f.type = "GETX" => v = "M"
    <2>1. /\ Consistent /\ Directory /\ n = Len(stack[t]) /\ f = Top(t) /\ At(t, "access", "top")
          /\ e = Dir(f) /\ k = f.child /\ ~MustInvalidate(t, f) /\ (f.type = "GETX" => k \notin e.sharers)
          /\ e1 = NewEntry(t, f) /\ v = StateAfter(t, f)
      BY <1>1, <1>2, <1>3
    <2>2. e1.sharers \subseteq Children(f.c)
      BY <2>1, NewEntryFacts
    <2>3. e1.sharers \subseteq Children(p)
      BY <1>1, <2>2
    <2>4. QED
      BY <2>1, <2>3, NewEntryFacts
  <1>8. EntryIs(p, r, e1)
    BY <1>3, <1>4, <1>7, EntrySet DEF Consistent
  <1>9. StatesAre(k, ks, v, p, r, w)
    <2>0. PICK F : F = [bcc EXCEPT ![k][ks] = StateAfter(t, f)]
      OBVIOUS
    <2>1. F = [bcc EXCEPT ![k][ks] = v]
      BY <1>2, <2>0, Zenon
    <2>2. bcc' = [F EXCEPT ![p][r] = IF f.wb THEN "M" ELSE bcc[p][r]]
      <3>1. bcc' = [bcc EXCEPT ![k][ks] = StateAfter(t, f), ![p][r] = IF f.wb THEN "M" ELSE @]
        BY <1>1, Zenon DEF TopAccess, StateAfter
      <3>2. QED
        BY <2>0, <3>1, Zenon
    <2>4. StatesSet(k, ks, v, p, r, w, F)
      BY <1>2, <1>6, <2>1, <2>2, Zenon DEF StatesSet
    <2>5. w \in MESIState /\ Types
      BY <1>2, <1>3, <1>4, <1>6 DEF Types, TypeOK, Consistent, MESIState
    <2>6. QED
      BY <1>4, <1>5, <1>7, <2>4, <2>5, StateFields
  <1>10. /\ tcc'[p][r] = e1 /\ \A d \in Caches : d # p => tcc'[d] = tcc[d]
         /\ bcc'[k][ks] = v /\ bcc'[p][r] = w
         /\ \A d \in Caches : d # p /\ d # k => bcc'[d] = bcc[d]
         /\ array' = array
    BY <1>3, <1>8, <1>9 DEF EntryIs, StatesAre
  <1>11. w = State(f) \/ (State(f) \in {"E", "M"} /\ w = "M")
    BY <1>2, <1>4
  <1>12. /\ f1 \in Frame /\ f1.fn = "access" /\ f1.c = p /\ f1.child = k /\ f1.a = f.a
         /\ f1.childSlot = ks /\ f1.initialState = f.initialState /\ f1.wb = f.wb
         /\ f1.type = f.type /\ f1.slot = r /\ f1.pc = "end"
    BY <1>1, <1>2, <1>4 DEF AccFrame, Frame
  <1>13. /\ Locks' /\ Order' /\ Kept(t)
         /\ stack' \in [Cores -> Seq(Frame)] /\ stack'[t][n] = f1
         /\ n > 1 => stack'[t][n-1] = stack[t][n-1]
         /\ \A u \in Cores : Frames(u)' = Frames(u)
    <2>1. /\ f1.pc \notin {"tcc", "bcc"} /\ f1.fn = "access" /\ f1.c = f.c /\ f1 \in Frame
          /\ bccLock' = bccLock /\ tccLock' = tccLock /\ Consistent /\ Working(t)
          /\ n = Len(stack[t]) /\ f = Top(t) /\ Become(t, f1)
      BY <1>1, <1>3, <1>4, <1>12
    <2>2. QED
      BY <2>1, WorkOn
  <1>14. /\ n-1 \in Frames(t)
         /\ f.type \in Puts => tcc[k][ks].sharers = {} /\ stack[t][n-1].pc = "evput"
         /\ \A u \in Cores : \A m \in Frames(u) :
              /\ Accessing(u, m) /\ stack[u][m].c = k => u = t /\ m = n-1
              /\ Owns(u, m) => stack[u][m].c # k
              /\ (u # t \/ m # n) /\ m > 1 /\ stack[u][m].fn = "access"
                   => stack[u][m].child # k
    <2>1. /\ Consistent /\ Directory /\ n = Len(stack[t]) /\ n > 1 /\ f = Top(t) /\ Working(t)
      BY <1>1, <1>3, <1>4
    <2>2. /\ n-1 \in Frames(t)
          /\ f.type \in Puts => stack[t][n-1].pc = "evput" /\ tcc[f.child][f.childSlot].sharers = {}
          /\ Alone(t, n, f.child)
      BY <2>1, ChildAlone
    <2>3. QED
      BY <1>1, <2>2 DEF Alone
  <1>15. Entries'
    <2> SUFFICES ASSUME NEW q \in Caches, NEW x \in Slots(q)
                 PROVE  EntryAt(q, x)'
      BY DEF Entries
    <2>1. CASE q = p /\ x = r
      BY <1>7, <1>10, <2>1 DEF EntryAt
    <2>2. CASE q # p \/ x # r
      BY <1>1, <1>3, <1>4, <1>8, <1>13, <2>2, OtherEntries DEF Directory
    <2>3. QED
      BY <2>1, <2>2
  <1>16. Agree(k, ks, r)'
    <2>1. v # "I" => w # "I"
      BY <1>7, <1>11
    <2>2. v \in {"E", "M"} => w \in {"E", "M"}
      BY <1>7, <1>11
    <2>3. QED
      BY <1>5, <1>7, <1>10, <2>1, <2>2 DEF Agree
  <1>17. UpgradesStay(k, ks)
    <2> SUFFICES ASSUME NEW c \in Caches, NEW s \in Slots(c), NEW x \in Slots(Parent[c]),
                        c # k \/ s # ks, NEW u \in Cores, NEW m \in Frames(u),
                        Upgrades(u, m, c, s, x)
                 PROVE  m \in Frames(u)' /\ Upgrades(u, m, c, s, x)'
      BY DEF UpgradesStay
    <2>1. u # t \/ m # n
      BY <1>1, <1>4 DEF Upgrades
    <2>2. /\ m \in Frames(u)' /\ stack'[u][m] = stack[u][m]
          /\ Waiting(u, m)' <=> Waiting(u, m)
      BY <1>1, <1>13, <2>1 DEF Kept
    <2>3. bcc'[c][s] = "S"
      <3>1. bcc[c][s] = "S"
        BY DEF Upgrades
      <3>2. CASE c = p /\ s = r
        BY <1>6, <1>10, <1>11, <3>1, <3>2
      <3>3. CASE c # p \/ s # r
        BY <1>9, <3>1, <3>3 DEF StatesAre
      <3>4. QED
        BY <3>2, <3>3
    <2>4. QED
      BY <2>2, <2>3 DEF Upgrades, Owns
  <1>18. Allows(k, ks)
    <2> SUFFICES ASSUME NEW c \in Caches, NEW s \in Slots(c), Parent[c] = k,
                        array[c][s] = array[k][ks]
                 PROVE  /\ bcc[c][s] # "I" => v # "I"
                        /\ bcc[c][s] \in {"E", "M"} => v \in {"E", "M"}
      BY <1>10 DEF Allows
    <2>1. Agree(c, s, ks)
      BY <1>3, <1>5, CoreFacts DEF Directory, Pairs
    <2>2. CASE f.type \in Puts
      <3>1. SUFFICES ASSUME bcc[c][s] # "I" PROVE FALSE
        OBVIOUS
      <3>2. c \notin tcc[k][ks].sharers
        BY <1>14, <2>2
      <3>3. PICK u \in Cores : \E m \in Frames(u) : Upgrades(u, m, c, s, ks)
        BY <2>1, <3>1, <3>2 DEF Agree
      <3>4. PICK m \in Frames(u) : Upgrades(u, m, c, s, ks)
        BY <3>3
      <3>5. Accessing(u, m) /\ stack[u][m].c = k /\ stack[u][m].pc = "top"
        BY <3>4 DEF Upgrades, Accessing
      <3>6. u = t /\ m = n-1
        BY <1>14, <3>5
      <3>7. QED
        BY <1>14, <2>2, <3>5, <3>6
    <2>3. CASE f.type = "GETS"
      BY <1>5, <1>7, <2>1, <2>3 DEF Agree
    <2>4. CASE f.type = "GETX"
      BY <1>7, <2>4
    <2>5. QED
      BY <1>4, <2>2, <2>3, <2>4 DEF Puts
  <1>19. OthersListed(k, p, r)
    <2> SUFFICES ASSUME NEW c \in Caches, NEW s \in Slots(c), Parent[c] = p, c # k,
                        array[c][s] = array[p][r]
                 PROVE  /\ c \in e1.sharers <=> c \in e.sharers
                        /\ c \in e1.sharers /\ isExclusive(e1) => isExclusive(e)
                        /\ bcc[c][s] \in {"E", "M"} => isExclusive(e1)
      BY <1>6, <1>10 DEF OthersListed
    <2>1. Agree(c, s, r)
      BY <1>3, <1>4, <1>5 DEF Directory, Pairs
    <2>2. bcc[c][s] \in {"E", "M"} => c \in e.sharers /\ isExclusive(e)
      BY <1>5, <1>6, <2>1 DEF Agree
    <2>3. QED
      BY <1>7, <2>2
  <1>20. LinkOnly(k, ks, r)
    BY <1>5, <1>8, <1>9, <1>10 DEF LinkOnly, EntryIs, StatesAre
  <1>21. Directory'
    <2>1. /\ array[k][ks] = array[p][r] /\ array[p][r] # None
          /\ bcc'[p][r] = bcc[p][r] \/ (bcc[p][r] \in {"E", "M"} /\ bcc'[p][r] = "M")
          /\ tcc'[p][r].sharers \subseteq tcc[p][r].sharers \cup {k}
      BY <1>4, <1>5, <1>6, <1>7, <1>10, <1>11
    <2>2. p = Parent[k] /\ p # Mem /\ k \in Caches /\ ks \in Slots(k) /\ r \in Slots(p)
      BY <1>4, <1>5
    <2>3. Types /\ Directory
      BY <1>3 DEF Consistent
    <2>4. QED
      BY <1>15, <1>16, <1>17, <1>18, <1>19, <1>20, <2>1, <2>2, <2>3, LinkChanged
  <1>22. Types'
    <2>1. \A u \in Cores : \A m \in 1..Len(stack'[u]) : stack'[u][m] \in AccFrame \cup InvFrame
      BY <1>13, ElementOfSeq DEF Frame
    <2>2. /\ \A d \in Caches : bcc'[d] \in [Slots(d) -> MESIState]
          /\ \A d \in Caches : tcc'[d] \in [Slots(d) -> Entry]
          /\ bcc' = [d \in Caches |-> bcc'[d]] /\ tcc' = [d \in Caches |-> tcc'[d]]
      BY <1>8, <1>9 DEF EntryIs, StatesAre
    <2>3. QED
      BY <1>3, <1>13, <2>1, <2>2 DEF Types, TypeOK, Consistent, Frame
  <1>23. ASSUME NEW u \in Cores, NEW m \in Frames(u), u # t \/ m # n
         PROVE  LinkedAt(u, m)' /\ ContentAt(u, m)'
    <2>1. PICK g : g = stack[u][m]
      OBVIOUS
    <2>2. /\ stack'[u][m] = g /\ g \in Frame /\ m \in Nat /\ m > 0
          /\ m > 1 => stack'[u][m-1] = stack[u][m-1] /\ m-1 \in Frames(u)
          /\ Waiting(u, m)' <=> Waiting(u, m)
          /\ LinkedAt(u, m) /\ ContentAt(u, m)
      BY <1>1, <1>3, <1>13, <1>23, <2>1, InStack DEF Kept, Consistent, Linked, Content
    <2>3. /\ g.c = p => g.pc \in {"tcc", "bcc"} /\ (g.fn = "access" => g.pc = "tcc")
          /\ g.c = p => ~Owns(u, m)
          /\ g.fn = "access" /\ m > 1 => g.child # p
          /\ m > 1 => stack[u][m-1].c # p
      <3>1. /\ Types /\ Locks /\ Order /\ Linked /\ Busy(t) /\ (u # t \/ m # Len(stack[t]))
            /\ Top(t).fn = "access" /\ Top(t).pc \notin {"tcc", "bcc"} /\ Top(t).c = p
        BY <1>1, <1>3, <1>4, <1>23 DEF Consistent
      <3>2. QED
        BY <2>1, <3>1, Isolated
    <2>4. /\ Owns(u, m) => g.c # k
          /\ m > 1 /\ g.fn = "access" => g.child # k
      BY <1>14, <1>23, <2>1
    <2>5. m > 1 => stack[u][m-1].c \in Caches
      BY <1>3, <2>2, InStack, FrameTypes DEF Consistent
    <2>6. g.fn = "access" => g.child = None \/ bcc'[g.child] = bcc[g.child]
      <3>1. SUFFICES ASSUME g.fn = "access" PROVE g.child = None \/ bcc'[g.child] = bcc[g.child]
        OBVIOUS
      <3>2. CASE m = 1
        BY <1>3, <2>1, <3>1, <3>2, AccessFacts DEF Consistent
      <3>3. CASE m > 1
        <4>1. g.child \in Caches
          BY <1>3, <2>1, <3>1, <3>3, AccessFacts DEF Consistent
        <4>2. QED
          BY <1>10, <2>3, <2>4, <3>1, <3>3, <4>1
      <3>4. QED
        BY <2>2, <3>2, <3>3, NatOne
    <2>7. Owns(u, m) => bcc'[g.c] = bcc[g.c] /\ tcc'[g.c] = tcc[g.c]
      BY <1>10, <2>2, <2>3, <2>4, FrameTypes
    <2>8. m > 1 => tcc'[stack[u][m-1].c] = tcc[stack[u][m-1].c]
      BY <1>10, <2>3, <2>5
    <2>9. g.fn = "access" /\ g.pc = "evput" => tcc'[g.c][g.slot].sharers = {}
      <3>1. SUFFICES ASSUME g.fn = "access", g.pc = "evput" PROVE tcc'[g.c][g.slot].sharers = {}
        OBVIOUS
      <3>2. tcc[g.c][g.slot].sharers = {}
        BY <2>1, <2>2, <3>1 DEF ContentAt, FrameLine, Dir
      <3>3. g.c # p /\ g.c \in Caches
        BY <2>2, <2>3, <3>1, FrameTypes
      <3>4. QED
        BY <1>10, <3>2, <3>3
    <2>10. QED
      BY <1>10, <2>1, <2>2, <2>6, <2>7, <2>8, <2>9, Stable
  <1>24. LinkedAt(t, n)'
    <2>1. array' = array /\ n \in Frames(t) /\ f = stack[t][n] /\ stack'[t][n] = f1 /\ Types /\ Linked
      BY <1>3, <1>4, <1>13 DEF Consistent
    <2>2. QED
      BY <1>1, <1>4, <1>12, <1>13, <2>1, LinkedStays, ZenonT(60)
  <1>25. ContentAt(t, n)'
    <2>1. FrameLine(f1)'
      BY <1>4, <1>10, <1>12 DEF FrameLine
    <2>2. RequestState(f1)'
      <3>1. ChildState(f1)' = v
        BY <1>5, <1>10, <1>12, CoreFacts DEF ChildState
      <3>2. QED
        BY <1>4, <1>7, <1>12, <3>1 DEF RequestState, Puts
    <2>3. OwnState(f1)'
      BY <1>4, <1>12 DEF OwnState
    <2>4. QED
      BY <1>12, <1>13, <2>1, <2>2, <2>3 DEF ContentAt
  <1>26. Linked' /\ Content'
    BY <1>13, <1>23, <1>24, <1>25 DEF Linked, Content
  <1>27. QED
    BY <1>13, <1>21, <1>22, <1>26, InvParts DEF Consistent

\* The top frame has invalidated its line, or may: what it and the frame that
\* called it know.
LEMMA InvalidateLine ==
  ASSUME Consistent, Directory, NEW t \in Cores, At(t, "inv", "down"), NEW n, n = Len(stack[t]),
         NEW f, f = Top(t), NEW g, g = stack[t][n-1], NEW e, e = Dir(g)
  PROVE  /\ Busy(t) /\ n \in Frames(t) /\ n \in Nat /\ n > 1 /\ n-1 \in Frames(t)
         /\ f = stack[t][n] /\ f \in Frame /\ g \in Frame /\ f.fn = "inv" /\ f.pc = "down"
         /\ f.type \in {"INV", "INVX"} /\ Owns(t, n) /\ Owns(t, n-1)
         /\ f.c \in Caches /\ f.slot \in Slots(f.c) /\ g.c \in Caches /\ g.slot \in Slots(g.c)
         /\ Parent[f.c] = g.c /\ f.c # g.c /\ g.c # Mem /\ g.c \notin Leaves
         /\ array[f.c][f.slot] = array[g.c][g.slot] /\ array[g.c][g.slot] # None
         /\ Sending(t, g) /\ f.type = InvTypeSent(g) /\ f.c \in e.sharers /\ EntryAt(g.c, g.slot)
         /\ e = tcc[g.c][g.slot] /\ e \in Entry
         /\ Agree(f.c, f.slot, g.slot) /\ State(f) # "I"
         /\ f.type = "INVX" => isExclusive(e) /\ State(f) \in {"E", "M"}
         /\ f.wb => State(f) \in {"E", "M"}
  <1>1. /\ Busy(t) /\ f.fn = "inv" /\ f.pc = "down" /\ n \in Frames(t) /\ f = stack[t][n]
        /\ f \in Frame /\ n \in Nat /\ n > 0 /\ ~Waiting(t, n) /\ ContentAt(t, n)
        /\ f.type \in {"INV", "INVX"} /\ f.c \in Caches /\ f.a \in Addrs
    BY TopFacts, InStack, FrameTypes DEF At, Consistent, Content
  <1>2. n > 1
    BY <1>1, NatOne DEF Consistent, Linked, LinkedAt, FirstFrame
  <1>3. n-1 \in Frames(t) /\ g \in Frame /\ InvCall(t, g, f) /\ Owns(t, n-1)
    BY <1>1, <1>2, CallerFacts DEF Consistent
  <1>4. /\ g.c \in Caches /\ g.slot \in Slots(g.c) /\ Sending(t, g) /\ f.c \in e.sharers
        /\ f.type = InvTypeSent(g) /\ f.a = array[g.c][g.slot]
    BY <1>3, FrameTypes DEF InvCall
  <1>5. Owns(t, n)
    BY <1>1 DEF Owns
  <1>6. f.slot \in Slots(f.c) /\ array[f.c][f.slot] = f.a /\ (f.wb => State(f) \in {"E", "M"})
    BY <1>1 DEF ContentAt, FrameLine
  <1>7. EntryAt(g.c, g.slot) /\ e = tcc[g.c][g.slot]
    BY <1>4 DEF Directory, Entries, Dir
  <1>8. e \in Entry
    BY <1>4, <1>7, SMTT(60) DEF Consistent, Types, TypeOK
  <1>9. Parent[f.c] = g.c
    BY <1>4, <1>7 DEF EntryAt, Children
  <1>10. f.c # g.c /\ g.c # Mem /\ g.c \notin Leaves /\ f.a # None
    BY <1>1, <1>4, <1>9, NoLoop, CoreFacts DEF Cores
  <1>11. Agree(f.c, f.slot, g.slot)
    BY <1>1, <1>4, <1>6, <1>9, <1>10 DEF Directory, Pairs
  <1>12. State(f) # "I" /\ (isExclusive(e) => State(f) \in {"E", "M"})
    BY <1>4, <1>7, <1>9, <1>11 DEF Agree, State
  <1>13. f.type = "INVX" => isExclusive(e)
    BY <1>4 DEF Sending, InvTypeSent, MustInvalidate
  <1>14. QED
    BY <1>1, <1>2, <1>3, <1>4, <1>5, <1>6, <1>7, <1>8, <1>9, <1>10, <1>11, <1>12, <1>13

\* The top frame has returned to frame n - 1, which became g.
Returned(t, n, g) ==
    /\ \A u \in Cores : u # t => Frames(u)' = Frames(u)
    /\ Frames(t)' = 1..n-1
    /\ \A u \in Cores : \A m \in Frames(u)' :
         /\ m \in Frames(u) /\ m \in Nat /\ m > 0
         /\ u # t \/ m < n
         /\ u # t \/ m # n-1 =>
              /\ stack'[u][m] = stack[u][m]
              /\ m > 1 => stack'[u][m-1] = stack[u][m-1]
              /\ Waiting(u, m)' <=> Waiting(u, m)
    /\ n-1 \in Frames(t)' /\ stack'[t][n-1] = g
    /\ n-1 > 1 => stack'[t][(n-1)-1] = stack[t][(n-1)-1]
    /\ ~Waiting(t, n-1)'

\* An invalidation returns to its sender.
LEMMA ReturnSteps ==
  ASSUME Types, Order, NEW t \in Cores, Busy(t), NEW n, n = Len(stack[t]), n > 1,
         NEW g \in Frame, g.fn = stack[t][n-1].fn, g.c = stack[t][n-1].c,
         stack' = [stack EXCEPT ![t] = Replaced(Popped(@), g)]
  PROVE  Returned(t, n, g) /\ Order' /\ stack' \in [Cores -> Seq(Frame)]
  <1>1. n \in Nat /\ n \in Frames(t) /\ Frames(t) = 1..n
    BY TopFacts DEF Frames
  <1>2. /\ \A u \in Cores : u # t => stack'[u] = stack[u]
        /\ Len(stack'[t]) = n - 1
        /\ stack'[t][n-1] = g
        /\ \A m \in 1..n-1 : m # n-1 => stack'[t][m] = stack[t][m]
        /\ stack' \in [Cores -> Seq(Frame)]
    BY ReturnEffect
  <1>3. /\ \A u \in Cores : u # t => Frames(u)' = Frames(u)
        /\ Frames(t)' = 1..n-1
    BY <1>2 DEF Frames
  <1>4. n-1 \in Nat /\ n-1 > 0 /\ n-1 \in Frames(t)' /\ n-1 \in Frames(t)
    BY <1>1, <1>3
  <1>5. ASSUME NEW m \in Frames(t)'
        PROVE  /\ m \in Frames(t) /\ m \in Nat /\ m > 0 /\ m < n
               /\ m # n-1 => /\ stack'[t][m] = stack[t][m]
                             /\ m > 1 => stack'[t][m-1] = stack[t][m-1]
    <2>1. m \in Nat /\ m <= n-1 /\ m > 0
      BY <1>1, <1>3, <1>5
    <2>2. m \in 1..n /\ m \in 1..n-1 /\ m < n /\ (m > 1 => m-1 \in 1..n-1 /\ m-1 # n-1)
      BY <1>1, <2>1
    <2>3. QED
      BY <1>1, <1>2, <2>1, <2>2
  <1>6. stack'[t][n-1].fn = stack[t][n-1].fn /\ stack'[t][n-1].c = stack[t][n-1].c
    BY <1>2
  <1>7. ASSUME NEW m \in Frames(t)', m # n-1
        PROVE  Waiting(t, m)' <=> Waiting(t, m)
    <2>1. m \in Nat /\ m < n
      BY <1>5
    <2>2. m < n-1 /\ m+1 \in 1..n-1
      BY <1>1, <1>7, <2>1
    <2>3. stack'[t][m+1].fn = stack[t][m+1].fn
      BY <1>2, <1>6, <2>2
    <2>4. QED
      BY <1>1, <1>2, <2>1, <2>2, <2>3 DEF Waiting
  <1>8. ASSUME NEW u \in Cores, NEW m \in Frames(u)', u # t
        PROVE  /\ m \in Frames(u) /\ m \in Nat /\ m > 0
               /\ stack'[u][m] = stack[u][m]
               /\ m > 1 => stack'[u][m-1] = stack[u][m-1]
               /\ Waiting(u, m)' <=> Waiting(u, m)
    <2>1. stack'[u] = stack[u] /\ m \in Frames(u)
      BY <1>2, <1>3, <1>8
    <2>2. m \in Nat /\ m > 0
      BY <2>1, InStack
    <2>3. QED
      BY <2>1, <2>2 DEF Waiting
  <1>9. ~Waiting(t, n-1)'
    BY <1>1, <1>2 DEF Waiting
  <1>10. n-1 > 1 => stack'[t][(n-1)-1] = stack[t][(n-1)-1]
    <2>1. n-1 > 1 => (n-1)-1 \in 1..n-1 /\ (n-1)-1 # n-1
      BY <1>1
    <2>2. QED
      BY <1>2, <2>1
  <1>11. Returned(t, n, g)
    <2>1. ASSUME NEW u \in Cores, NEW m \in Frames(u)'
          PROVE  /\ m \in Frames(u) /\ m \in Nat /\ m > 0
                 /\ u # t \/ m < n
                 /\ u # t \/ m # n-1 =>
                      /\ stack'[u][m] = stack[u][m]
                      /\ m > 1 => stack'[u][m-1] = stack[u][m-1]
                      /\ Waiting(u, m)' <=> Waiting(u, m)
      <3>1. CASE u = t
        BY <1>5, <1>7, <2>1, <3>1
      <3>2. CASE u # t
        BY <1>8, <2>1, <3>2
      <3>3. QED
        BY <3>1, <3>2
    <2>2. QED
      BY <1>2, <1>3, <1>4, <1>9, <1>10, <2>1 DEF Returned
  <1>12. Order'
    <2> SUFFICES ASSUME NEW u \in Cores, NEW m \in Frames(u)', NEW k \in Frames(u)', m < k
                 PROVE  LET e == stack'[u][m]
                            h == stack'[u][k]
                        IN  /\ h.fn = "access" => e.fn = "access" /\ e.c # h.c /\ Above(h.c, e.c)
                            /\ ~Waiting(u, m)' => h.fn = "inv" /\ e.c # h.c /\ Above(e.c, h.c)
      BY DEF Order, Above
    <2>1. ASSUME NEW x \in Frames(u)'
          PROVE  /\ x \in Frames(u)
                 /\ stack'[u][x].fn = stack[u][x].fn /\ stack'[u][x].c = stack[u][x].c
      <3>1. CASE u = t /\ x = n-1
        BY <1>4, <1>6, <3>1
      <3>2. CASE u = t /\ x # n-1
        BY <1>5, <2>1, <3>2
      <3>3. CASE u # t
        BY <1>8, <2>1, <3>3
      <3>4. QED
        BY <3>1, <3>2, <3>3
    <2>2. Waiting(u, m)' <=> Waiting(u, m)
      <3>1. CASE u = t
        <4>1. k \in Nat /\ k < n /\ m \in Nat
          BY <1>5, <3>1
        <4>2. m # n-1
          BY <1>1, <4>1
        <4>3. QED
          BY <1>7, <3>1, <4>2
      <3>2. CASE u # t
        BY <1>8, <3>2
      <3>3. QED
        BY <3>1, <3>2
    <2>3. QED
      BY <2>1, <2>2 DEF Order
  <1>13. QED
    BY <1>2, <1>11, <1>12

\* A request stays right when its line is invalidated or downgraded in the child.
LEMMA Downgraded ==
  ASSUME Consistent, Directory, NEW t \in Cores, At(t, "inv", "down"), NEW f, f = Top(t),
         NEW u \in Cores, NEW m \in Frames(u), m > 1, NEW h, h = stack[u][m],
         h.fn = "access", h.child = f.c, h.childSlot = f.slot,
         bcc'[f.c][f.slot] = IF f.type = "INV" THEN "I" ELSE "S"
  PROVE  RequestState(h)'
  <1>1. PICK n, g, e : n = Len(stack[t]) /\ g = stack[t][n-1] /\ e = Dir(g)
    OBVIOUS
  <1>2. /\ n-1 \in Frames(t) /\ f.type \in {"INV", "INVX"} /\ Owns(t, n-1) /\ f.c \in Caches
        /\ Parent[f.c] = g.c /\ g.c \notin Leaves /\ Sending(t, g) /\ State(f) # "I"
        /\ f.type = "INVX" => State(f) \in {"E", "M"}
    BY <1>1, InvalidateLine
  <1>3. /\ h \in Frame /\ m \in Nat /\ ContentAt(u, m) /\ h.type \in {"GETS", "GETX", "PUTS", "PUTX"}
        /\ h.pc \in {"tcc", "bcc", "evict", "evput", "bottom", "top", "end"}
        /\ h.initialState \in MESIState
    BY InStack, FrameTypes DEF Consistent, Content
  <1>4. RequestState(h) /\ FrameLine(h)
    BY <1>3 DEF ContentAt
  <1>5. h.c = g.c /\ h.child # None
    BY <1>2, AccessFacts, CoreFacts DEF Consistent
  <1>6. ChildState(h) = State(f) /\ ChildState(h)' = IF f.type = "INV" THEN "I" ELSE "S"
    BY <1>5 DEF ChildState, State
  <1>7. h.pc \in {"tcc", "bcc"} \/ (h.pc # "end" /\ h.type \notin Puts)
    <2>1. SUFFICES ASSUME h.pc \notin {"tcc", "bcc"} PROVE h.pc # "end" /\ h.type \notin Puts
      OBVIOUS
    <2>2. CASE Owns(u, m)
      <3>1. u = t /\ m = n-1
        BY <1>1, <1>2, <1>5, <2>2, OneOwner DEF Consistent
      <3>2. h = g
        BY <1>1, <3>1
      <3>3. h.pc \in {"evict", "top"} /\ (h.pc = "top" => h.type \in {"GETX", "GETS"})
        BY <1>2, <3>2 DEF Sending, MustInvalidate
      <3>4. QED
        BY <1>4, <3>3 DEF FrameLine, Puts
    <2>3. CASE ~Owns(u, m)
      <3>1. Waiting(u, m)
        BY <2>1, <2>3 DEF Owns
      <3>2. /\ m+1 \in Frames(u) /\ m+1 > 1 /\ stack[u][m+1].fn = "access" /\ (m+1)-1 = m
        BY <1>3, <3>1, InStack DEF Waiting, Consistent
      <3>3. AccessCall(h, stack[u][m+1])
        BY <3>2, CallerFacts DEF Consistent
      <3>4. CASE stack[u][m+1].type \in Puts
        BY <1>4, <3>3, <3>4 DEF AccessCall, FrameLine
      <3>5. CASE stack[u][m+1].type \notin Puts
        BY <1>2, <1>5, <3>3, <3>5 DEF AccessCall
      <3>6. QED
        BY <3>4, <3>5
    <2>4. QED
      BY <2>2, <2>3
  <1>8. PICK s, z : s = ChildState(h) /\ z = IF f.type = "INV" THEN "I" ELSE "S"
    OBVIOUS
  <1>9. CASE h.pc \in {"tcc", "bcc"}
    <2>1. CASE h.type = "GETS"
      BY <1>2, <1>4, <1>6, <1>9, <2>1 DEF RequestState
    <2>2. CASE h.type = "GETX"
      BY <1>2, <1>4, <1>6, <1>9, <2>2 DEF RequestState
    <2>3. CASE h.type = "PUTS"
      BY <1>2, <1>4, <1>6, <1>9, <2>3 DEF RequestState
    <2>4. CASE h.type = "PUTX"
      BY <1>2, <1>4, <1>6, <1>9, <2>4 DEF RequestState
    <2>5. QED
      BY <1>3, <2>1, <2>2, <2>3, <2>4
  <1>10. CASE h.pc \notin {"tcc", "bcc"} /\ h.pc # "end" /\ h.type \notin Puts
    <2>1. CASE h.type = "GETS"
      BY <1>2, <1>4, <1>6, <1>10, <2>1 DEF RequestState
    <2>2. CASE h.type = "GETX"
      BY <1>2, <1>4, <1>6, <1>10, <2>2 DEF RequestState
    <2>3. QED
      BY <1>3, <1>10, <2>1, <2>2 DEF Puts
  <1>11. QED
    BY <1>7, <1>9, <1>10

\* The entry of a line after one of its sharers was invalidated or downgraded
InvalidatedEntry(e, c, type) ==
    IF type = "INV"
    THEN [sharers    |-> e.sharers \ {c},
          numSharers |-> IF e.sharers \ {c} = {} THEN 0 ELSE e.numSharers,
          exclusive  |-> e.exclusive]
    ELSE [sharers |-> e.sharers, numSharers |-> e.numSharers, exclusive |-> FALSE]

\* Entry e1 of a line of p is entry e with sharer k taken out, or no longer exclusive.
Reduced(p, e, k, type, e1) ==
    /\ e1 \in Entry
    /\ e1.sharers \subseteq Children(p)
    /\ e1.numSharers = 0 <=> e1.sharers = {}
    /\ e1.exclusive => e1.numSharers \in {0, 1} /\ \A c, d \in e1.sharers : c = d
    /\ ~isExclusive(e1)
    /\ e1.sharers = IF type = "INV" THEN e.sharers \ {k} ELSE e.sharers
    /\ e1.sharers = {} => e1.numSharers = Cardinality(e1.sharers)
    /\ type = "INVX" => e1.numSharers = e.numSharers
    /\ \A c : c # k =>
         /\ c \in e1.sharers <=> c \in e.sharers
         /\ ~(c \in e.sharers /\ isExclusive(e))

\* The sender's entry after an answer
LEMMA InvalidatedEntryFacts ==
  ASSUME NEW p \in Caches, NEW r \in Slots(p), NEW e \in Entry, e = tcc[p][r], EntryAt(p, r),
         NEW k \in e.sharers, NEW type \in {"INV", "INVX"}, type = "INVX" => isExclusive(e),
         NEW e1, e1 = InvalidatedEntry(e, k, type)
  PROVE  Reduced(p, e, k, type, e1)
  <1>1. /\ e.sharers \subseteq Children(p)
        /\ e.numSharers = 0 <=> e.sharers = {}
        /\ e.exclusive => e.numSharers \in {0, 1} /\ \A c, d \in e.sharers : c = d
    BY DEF EntryAt
  <1>2. Cardinality({}) = 0 /\ e.numSharers \in Nat /\ e.sharers \subseteq Caches /\ e.exclusive \in BOOLEAN
    BY FS_EmptySet DEF Entry
  <1>3. \A c : c # k => ~(c \in e.sharers /\ isExclusive(e))
    BY <1>1 DEF isExclusive
  <1>4. CASE type = "INV"
    <2>1. e1 = [sharers    |-> e.sharers \ {k},
                numSharers |-> IF e.sharers \ {k} = {} THEN 0 ELSE e.numSharers,
                exclusive  |-> e.exclusive]
      BY <1>4 DEF InvalidatedEntry
    <2>2. /\ e1.sharers = e.sharers \ {k} /\ e1.exclusive = e.exclusive
          /\ e1.numSharers = IF e.sharers \ {k} = {} THEN 0 ELSE e.numSharers
      BY <2>1
    <2>3. e1 \in Entry
      <3>1. (IF e.sharers \ {k} = {} THEN 0 ELSE e.numSharers) \in Nat /\ e.sharers \ {k} \in SUBSET Caches
        BY <1>2
      <3>2. QED
        BY <1>2, <2>1, <3>1 DEF Entry
    <2>4. e1.exclusive => e1.sharers = {} /\ e1.numSharers = 0
      BY <1>1, <2>2
    <2>5. e1.numSharers = 0 <=> e1.sharers = {}
      BY <1>1, <2>2
    <2>6. ~isExclusive(e1)
      BY <1>2, <2>2, <2>4 DEF isExclusive
    <2>7. e1.sharers = {} => e1.numSharers = Cardinality(e1.sharers)
      BY <1>2, <2>5
    <2>8. QED
      BY <1>1, <1>3, <1>4, <2>2, <2>3, <2>4, <2>5, <2>6, <2>7 DEF Reduced
  <1>5. CASE type = "INVX"
    <2>1. e1 = [sharers |-> e.sharers, numSharers |-> e.numSharers, exclusive |-> FALSE]
      BY <1>5 DEF InvalidatedEntry
    <2>2. e1 \in Entry /\ e1.sharers = e.sharers /\ e1.numSharers = e.numSharers /\ e1.exclusive = FALSE
      BY <1>2, <2>1 DEF Entry
    <2>3. e1.sharers # {} /\ ~isExclusive(e1)
      BY <2>2 DEF isExclusive
    <2>4. QED
      BY <1>1, <1>3, <1>5, <2>2, <2>3 DEF Reduced
  <1>6. QED
    BY <1>4, <1>5 DEF Reduced

\* An entry that is not exclusive any more.
LEMMA NotExclusive ==
  ASSUME NEW e \in Entry
  PROVE  [e EXCEPT !.exclusive = FALSE] =
           [sharers |-> e.sharers, numSharers |-> e.numSharers, exclusive |-> FALSE]
  <1>1. ASSUME NEW x \in BOOLEAN
        PROVE  [e EXCEPT !.exclusive = x] =
                 [sharers |-> e.sharers, numSharers |-> e.numSharers, exclusive |-> x]
    <2>1. PICK e1 : e1 = [sharers |-> e.sharers, numSharers |-> e.numSharers, exclusive |-> x]
      OBVIOUS
    <2>2. e1 \in Entry
      BY <2>1 DEF Entry
    <2>3. e1 = [e EXCEPT !.exclusive = x]
      BY <2>1, <2>2 DEF Entry
    <2>4. QED
      BY <2>1, <2>3
  <1>2. QED
    BY <1>1

\* A frame that has heard of a writeback
LEMMA WritebackSet ==
  ASSUME NEW g \in Frame, NEW b \in BOOLEAN
  PROVE  LET g1 == [g EXCEPT !.wb = b]
         IN  /\ g1.fn = g.fn /\ g1.c = g.c /\ g1.a = g.a /\ g1.type = g.type /\ g1.pc = g.pc
             /\ g1.slot = g.slot
             /\ g.fn = "access" => g1.child = g.child /\ g1.childSlot = g.childSlot
                                   /\ g1.initialState = g.initialState
  BY DEF Frame, AccFrame, InvFrame

\* A cache has invalidated or downgraded its line, and the sender takes note of it.
LEMMA FinishInvalidateStep ==
  ASSUME IInv, NEW t \in Cores, FinishInvalidate(t)
  PROVE  IInv'
  <1>1. PICK n, f, g, e, k, ks, p, r :
          /\ n = Len(stack[t]) /\ f = Top(t) /\ g = stack[t][n-1] /\ e = Dir(g)
          /\ k = f.c /\ ks = f.slot /\ p = g.c /\ r = g.slot
    OBVIOUS
  <1>2. PICK g1, e1, v :
          /\ g1 = [g EXCEPT !.wb = @ \/ Writeback(f)]
          /\ e1 = InvalidatedEntry(e, k, f.type)
          /\ v = IF f.type = "INV" THEN "I" ELSE "S"
    OBVIOUS
  <1>3. /\ Consistent /\ Directory /\ At(t, "inv", "down") /\ ~Sending(t, f)
        /\ bcc' = [bcc EXCEPT ![k][ks] = v] /\ bccLock' = [bccLock EXCEPT ![k] = None]
        /\ stack' = [stack EXCEPT ![t] = Replaced(Popped(@), g1)]
        /\ UNCHANGED <<array, tccLock, issued, unsaved>>
    BY <1>1, <1>2, InvParts DEF FinishInvalidate
  <1>4. /\ Busy(t) /\ n \in Frames(t) /\ n \in Nat /\ n > 1 /\ n-1 \in Frames(t)
        /\ f = stack[t][n] /\ f \in Frame /\ g \in Frame /\ f.fn = "inv" /\ f.pc = "down"
        /\ f.type \in {"INV", "INVX"} /\ Owns(t, n) /\ Owns(t, n-1)
        /\ k \in Caches /\ ks \in Slots(k) /\ p \in Caches /\ r \in Slots(p)
        /\ Parent[k] = p /\ k # p /\ p # Mem /\ p \notin Leaves
        /\ array[k][ks] = array[p][r] /\ array[p][r] # None
        /\ Sending(t, g) /\ f.type = InvTypeSent(g) /\ k \in e.sharers /\ EntryAt(p, r)
        /\ e = tcc[p][r] /\ e \in Entry
        /\ Agree(k, ks, r) /\ State(f) # "I"
        /\ f.type = "INVX" => isExclusive(e) /\ State(f) \in {"E", "M"}
        /\ f.wb => State(f) \in {"E", "M"}
    BY <1>1, <1>3, InvalidateLine
  <1>5. /\ e1 \in Entry
        /\ e1.sharers \subseteq Children(p)
        /\ e1.numSharers = 0 <=> e1.sharers = {}
        /\ e1.exclusive => e1.numSharers \in {0, 1} /\ \A c, d \in e1.sharers : c = d
        /\ ~isExclusive(e1)
        /\ e1.sharers = IF f.type = "INV" THEN e.sharers \ {k} ELSE e.sharers
        /\ e1.sharers = {} => e1.numSharers = Cardinality(e1.sharers)
        /\ f.type = "INVX" => e1.numSharers = e.numSharers
        /\ \A c : c # k =>
             /\ c \in e1.sharers <=> c \in e.sharers
             /\ ~(c \in e.sharers /\ isExclusive(e))
    <2>1. PICK type : type = f.type
      OBVIOUS
    <2>2. /\ p \in Caches /\ r \in Slots(p) /\ e \in Entry /\ e = tcc[p][r] /\ EntryAt(p, r)
          /\ k \in e.sharers /\ type \in {"INV", "INVX"} /\ (type = "INVX" => isExclusive(e))
          /\ e1 = InvalidatedEntry(e, k, type)
      BY <1>2, <1>4, <2>1
    <2>3. Reduced(p, e, k, type, e1)
      BY <2>2, InvalidatedEntryFacts
    <2>4. QED
      BY <2>1, <2>3 DEF Reduced
  <1>6. EntryIs(p, r, e1)
    <2>1. CASE f.type = "INV"
      <3>1. PICK left, y : left = e.sharers \ {k} /\ y = IF left = {} THEN 0 ELSE e.numSharers
        OBVIOUS
      <3>2. PICK F : F = [tcc EXCEPT ![p][r].sharers = left]
        OBVIOUS
      <3>3. tcc' = [tcc EXCEPT ![p][r].sharers = left,
                               ![p][r].numSharers = IF left = {} THEN 0 ELSE @]
        BY <1>1, <2>1, <3>1, Zenon DEF FinishInvalidate
      <3>4. tcc' = [F EXCEPT ![p][r].numSharers = y]
        BY <1>4, <3>1, <3>2, <3>3, Zenon
      <3>5. FieldsSet(p, r, left, y, F)
        BY <3>2, <3>4, Zenon DEF FieldsSet
      <3>6. left \in SUBSET Caches /\ y \in Nat /\ Types
        BY <1>3, <1>4, <3>1 DEF Entry, Consistent
      <3>7. EntryIs(p, r, [sharers |-> left, numSharers |-> y, exclusive |-> tcc[p][r].exclusive])
        BY <1>4, <3>5, <3>6, EntryFields
      <3>8. e1 = [sharers |-> left, numSharers |-> y, exclusive |-> tcc[p][r].exclusive]
        BY <1>2, <1>4, <2>1, <3>1 DEF InvalidatedEntry
      <3>9. QED
        BY <3>7, <3>8
    <2>2. CASE f.type = "INVX"
      <3>1. tcc' = [tcc EXCEPT ![p][r].exclusive = FALSE]
        <4>1. f.type # "INV"
          BY <2>2
        <4>2. QED
          BY <1>1, <4>1, Zenon DEF FinishInvalidate
      <3>2. [tcc[p][r] EXCEPT !.exclusive = FALSE] = e1
        <4>1. e \in Entry /\ e = tcc[p][r]
          BY <1>4
        <4>2. e1 = [sharers |-> e.sharers, numSharers |-> e.numSharers, exclusive |-> FALSE]
          BY <1>2, <2>2 DEF InvalidatedEntry
        <4>3. [e EXCEPT !.exclusive = FALSE] =
                [sharers |-> e.sharers, numSharers |-> e.numSharers, exclusive |-> FALSE]
          BY <4>1, NotExclusive
        <4>4. QED
          BY <4>1, <4>2, <4>3
      <3>3. tcc' = [tcc EXCEPT ![p][r] = e1]
        BY <3>1, <3>2, Zenon
      <3>4. QED
        BY <1>3, <1>4, <1>5, <3>3, EntrySet DEF Consistent
    <2>3. QED
      BY <1>4, <2>1, <2>2
  <1>7. /\ bcc' = [d \in Caches |-> bcc'[d]]
        /\ \A d \in Caches : bcc'[d] \in [Slots(d) -> MESIState]
        /\ bcc'[k][ks] = v
        /\ \A z \in Slots(k) : z # ks => bcc'[k][z] = bcc[k][z]
        /\ \A d \in Caches : d # k => bcc'[d] = bcc[d]
    <2>1. PICK F, G : F = bcc /\ G = bcc'
      OBVIOUS
    <2>2. F = [d \in Caches |-> F[d]] /\ \A d \in Caches : F[d] \in [Slots(d) -> MESIState]
      BY <1>3, <2>1 DEF Types, TypeOK, Consistent
    <2>3. G = [F EXCEPT ![k][ks] = v] /\ v \in MESIState
      BY <1>2, <1>3, <2>1 DEF MESIState
    <2>4. /\ G = [d \in Caches |-> G[d]]
          /\ \A d \in Caches : G[d] \in [Slots(d) -> MESIState]
          /\ G[k][ks] = v
          /\ \A z \in Slots(k) : z # ks => G[k][z] = F[k][z]
          /\ \A d \in Caches : d # k => G[d] = F[d]
      BY <1>4, <2>2, <2>3, TableSet
    <2>5. QED
      BY <2>1, <2>4
  <1>8. /\ tcc'[p][r] = e1 /\ \A d \in Caches : d # p => tcc'[d] = tcc[d]
        /\ \A d \in Caches : \A z \in Slots(d) : d # p \/ z # r => tcc'[d][z] = tcc[d][z]
        /\ array' = array /\ bcc'[p][r] = bcc[p][r] /\ bcc[k][ks] = State(f)
    BY <1>1, <1>3, <1>4, <1>6, <1>7 DEF EntryIs, State
  <1>9. g1 \in Frame /\ g1.wb = (g.wb \/ Writeback(f)) /\ g1 = [g EXCEPT !.wb = g1.wb]
    <2>1. (g.wb \/ Writeback(f)) \in BOOLEAN
      BY <1>4, FrameTypes DEF Writeback
    <2>2. QED
      BY <1>2, <1>4, <2>1 DEF Frame, AccFrame, InvFrame
  <1>10. /\ g1.fn = g.fn /\ g1.c = p /\ g1.a = g.a /\ g1.type = g.type /\ g1.pc = g.pc /\ g1.slot = r
         /\ g.fn = "access" => g1.child = g.child /\ g1.childSlot = g.childSlot
                               /\ g1.initialState = g.initialState
    <2>1. PICK b : b = g1.wb
      OBVIOUS
    <2>2. g \in Frame /\ b \in BOOLEAN
      BY <1>4, <1>9, <2>1, FrameTypes
    <2>3. g1 = [g EXCEPT !.wb = b]
      BY <1>9, <2>1
    <2>4. QED
      BY <1>1, <2>2, <2>3, WritebackSet
  <1>11. Returned(t, n, g1) /\ Order' /\ stack' \in [Cores -> Seq(Frame)]
    <2>1. /\ Types /\ Order /\ Busy(t) /\ n = Len(stack[t]) /\ n > 1
          /\ g1 \in Frame /\ g1.fn = stack[t][n-1].fn /\ g1.c = stack[t][n-1].c
      BY <1>1, <1>3, <1>4, <1>9, <1>10 DEF Consistent
    <2>2. stack' = [stack EXCEPT ![t] = Replaced(Popped(@), g1)]
      BY <1>3
    <2>3. QED
      BY <2>1, <2>2, ReturnSteps
  <1>12. /\ \A u \in Cores : u # t => Frames(u)' = Frames(u)
         /\ Frames(t)' = 1..n-1
         /\ n-1 \in Frames(t)' /\ stack'[t][n-1] = g1 /\ ~Waiting(t, n-1)'
         /\ n-1 > 1 => stack'[t][(n-1)-1] = stack[t][(n-1)-1]
    BY <1>11 DEF Returned
  <1>13. ASSUME NEW u \in Cores, NEW m \in Frames(u)'
         PROVE  /\ m \in Frames(u) /\ m \in Nat /\ m > 0 /\ (u # t \/ m # n)
                /\ u # t \/ m # n-1 =>
                     /\ stack'[u][m] = stack[u][m]
                     /\ m > 1 => stack'[u][m-1] = stack[u][m-1]
                     /\ Waiting(u, m)' <=> Waiting(u, m)
    <2>1. u # t \/ m < n
      BY <1>11, <1>13 DEF Returned
    <2>2. QED
      BY <1>4, <1>11, <1>13, <2>1 DEF Returned
  <1>14. ASSUME NEW u \in Cores, NEW m \in Frames(u), u # t \/ m # n
         PROVE  m \in Frames(u)'
    <2>1. CASE u # t
      BY <1>12, <1>14, <2>1
    <2>2. CASE u = t
      <3>1. m \in 1..n /\ m # n /\ n \in Nat
        BY <1>1, <1>4, <1>14, <2>2 DEF Frames
      <3>2. m \in 1..n-1
        BY <3>1
      <3>3. QED
        BY <1>12, <2>2, <3>2
    <2>3. QED
      BY <2>1, <2>2
  <1>15. Owns(t, n-1)'
    <2>1. g.pc \notin {"tcc", "bcc"} /\ g1.pc = g.pc /\ stack'[t][n-1] = g1 /\ ~Waiting(t, n-1)'
      <3>1. g.pc \notin {"tcc", "bcc"}
        BY <1>4 DEF Sending
      <3>2. QED
        BY <1>10, <1>12, <3>1
    <2>2. QED
      BY <2>1 DEF Owns
  <1>16. ASSUME NEW u \in Cores, NEW m \in Frames(u), Owns(u, m)
         PROVE  /\ stack[u][m].c = k => u = t /\ m = n
                /\ stack[u][m].c = p => u = t /\ m = n-1
    BY <1>1, <1>3, <1>4, <1>16, OneOwner DEF Consistent
  <1>17. Locks'
    <2> SUFFICES ASSUME NEW u \in Cores, NEW m \in Frames(u)'
                 PROVE  /\ Owns(u, m)' => bccLock'[stack'[u][m].c] = u
                        /\ Accessing(u, m)' /\ m > 1 => tccLock'[stack'[u][m].c] = u
      BY DEF Locks
    <2>1. /\ m \in Frames(u) /\ (u # t \/ m # n) /\ stack'[u][m].c = stack[u][m].c
          /\ stack'[u][m].fn = stack[u][m].fn /\ stack'[u][m].pc = stack[u][m].pc
          /\ stack[u][m].c \in Caches
          /\ Owns(u, m)' <=> Owns(u, m)
      <3>1. m \in Frames(u) /\ (u # t \/ m # n)
        BY <1>13
      <3>2. stack[u][m].c \in Caches
        BY <1>3, <3>1, InStack, FrameTypes DEF Consistent
      <3>3. CASE u = t /\ m = n-1
        BY <1>1, <1>4, <1>10, <1>12, <1>15, <3>1, <3>2, <3>3
      <3>4. CASE u # t \/ m # n-1
        BY <1>13, <3>1, <3>2, <3>4 DEF Owns
      <3>5. QED
        BY <3>3, <3>4
    <2>2. /\ Owns(u, m) => bccLock[stack[u][m].c] = u
          /\ Accessing(u, m) /\ m > 1 => tccLock[stack[u][m].c] = u
      BY <1>3, <2>1 DEF Locks, Consistent
    <2>3. Owns(u, m) => stack[u][m].c # k
      BY <1>16, <2>1
    <2>4. QED
      BY <1>3, <2>1, <2>2, <2>3 DEF Types, TypeOK, Accessing, Consistent
  <1>18. Types'
    <2>1. \A u \in Cores : \A m \in 1..Len(stack'[u]) : stack'[u][m] \in AccFrame \cup InvFrame
      BY <1>11, ElementOfSeq DEF Frame
    <2>2. tcc' = [d \in Caches |-> tcc'[d]] /\ \A d \in Caches : tcc'[d] \in [Slots(d) -> Entry]
      BY <1>6 DEF EntryIs
    <2>3. bccLock' \in [Caches -> Cores \cup {None}]
      BY <1>3 DEF Types, TypeOK, Consistent
    <2>4. QED
      BY <1>3, <1>7, <1>11, <2>1, <2>2, <2>3 DEF Types, TypeOK, Consistent, Frame
  <1>19. EntryAt(p, r)'
    <2>1. e1.numSharers = Cardinality(e1.sharers) \/ Invalidating(t, n-1, p, r)'
      <3>1. CASE e1.sharers = {}
        BY <1>5, <3>1
      <3>2. CASE f.type = "INV" /\ e1.sharers # {}
        <4>1. Dir(g1)' = e1
          BY <1>8, <1>10 DEF Dir
        <4>2. \/ g.fn = "access" /\ g.pc = "evict"
              \/ g.fn = "access" /\ g.pc = "top" /\ g.type = "GETX" /\ g.child \notin e.sharers
              \/ g.fn = "inv" /\ g.type = "INV"
          BY <1>1, <1>4, <3>2 DEF Sending, InvTypeSent, MustInvalidate
        <4>3. e1.sharers \subseteq e.sharers
          BY <1>5
        <4>4. QED
          BY <1>10, <1>12, <1>15, <4>1, <4>2, <4>3 DEF Invalidating
      <3>3. CASE f.type = "INVX"
        <4>1. ~Invalidating(t, n-1, p, r)
          BY <1>1, <1>4, <3>3 DEF Invalidating, Sending, InvTypeSent
        <4>2. \A u \in Cores : \A m \in Frames(u) : ~Invalidating(u, m, p, r)
          BY <1>16, <4>1 DEF Invalidating
        <4>3. e.numSharers = Cardinality(e.sharers)
          BY <1>4, <4>2 DEF EntryAt
        <4>4. QED
          BY <1>5, <3>3, <4>3
      <3>4. QED
        BY <1>4, <3>1, <3>2, <3>3
    <2>2. QED
      BY <1>5, <1>8, <1>12, <2>1 DEF EntryAt
  <1>20. ASSUME NEW q \in Caches, NEW x \in Slots(q), q # p \/ x # r
         PROVE  EntryAt(q, x)'
    <2>1. tcc'[q][x] = tcc[q][x] /\ EntryAt(q, x)
      BY <1>3, <1>8, <1>20 DEF Directory, Entries
    <2>2. \/ tcc[q][x].numSharers = Cardinality(tcc[q][x].sharers)
          \/ \E u \in Cores : \E m \in Frames(u)' : Invalidating(u, m, q, x)'
      <3>1. CASE tcc[q][x].numSharers = Cardinality(tcc[q][x].sharers)
        BY <3>1
      <3>2. CASE tcc[q][x].numSharers # Cardinality(tcc[q][x].sharers)
        <4>1. PICK u \in Cores : \E m \in Frames(u) : Invalidating(u, m, q, x)
          BY <2>1, <3>2 DEF EntryAt
        <4>2. PICK m \in Frames(u) : Invalidating(u, m, q, x)
          BY <4>1
        <4>3. u # t \/ m # n-1
          BY <1>1, <1>20, <4>2 DEF Invalidating
        <4>4. u # t \/ m # n
          <5>1. SUFFICES ASSUME u = t, m = n PROVE FALSE
            OBVIOUS
          <5>2. q = k /\ x = ks /\ f.type = "INV"
            BY <1>1, <1>4, <4>2, <5>1 DEF Invalidating
          <5>3. tcc[q][x].sharers = {}
            BY <1>1, <1>3, <1>4, <5>2 DEF Sending, Dir
          <5>4. QED
            BY <2>1, <3>2, <5>3, FS_EmptySet DEF EntryAt
        <4>5. /\ m \in Frames(u)' /\ stack'[u][m] = stack[u][m]
              /\ Waiting(u, m)' <=> Waiting(u, m)
          BY <1>13, <1>14, <4>3, <4>4
        <4>6. Dir(stack[u][m])' = Dir(stack[u][m])
          <5>1. stack[u][m].c = q /\ stack[u][m].slot = x
            BY <4>2 DEF Invalidating
          <5>2. Dir(stack[u][m]) = tcc[q][x] /\ Dir(stack[u][m])' = tcc'[q][x]
            BY <4>5, <5>1 DEF Dir
          <5>3. QED
            BY <2>1, <5>2
        <4>7. Invalidating(u, m, q, x)'
          BY <4>2, <4>5, <4>6 DEF Invalidating, Owns
        <4>8. QED
          BY <4>5, <4>7
      <3>3. QED
        BY <3>1, <3>2
    <2>3. QED
      BY <2>1, <2>2 DEF EntryAt
  <1>21. Entries'
    BY <1>19, <1>20 DEF Entries
  <1>22. Agree(k, ks, r)'
    <2>1. bcc[p][r] # "I"
      BY <1>4, <1>8 DEF Agree
    <2>2. f.type = "INV" => k \notin e1.sharers /\ v = "I"
      BY <1>2, <1>5
    <2>3. f.type = "INVX" => k \in e1.sharers /\ v = "S"
      BY <1>2, <1>4, <1>5
    <2>4. QED
      BY <1>4, <1>5, <1>7, <1>8, <2>1, <2>2, <2>3 DEF Agree
  <1>23. UpgradesStay(k, ks)
    <2> SUFFICES ASSUME NEW c \in Caches, NEW s \in Slots(c), NEW x \in Slots(Parent[c]),
                        c # k \/ s # ks, NEW u \in Cores, NEW m \in Frames(u),
                        Upgrades(u, m, c, s, x)
                 PROVE  m \in Frames(u)' /\ Upgrades(u, m, c, s, x)'
      BY DEF UpgradesStay
    <2>1. u # t \/ m # n
      BY <1>1, <1>4 DEF Upgrades
    <2>2. m \in Frames(u)'
      BY <1>14, <2>1
    <2>3. bcc'[c][s] = bcc[c][s]
      BY <1>7
    <2>4. CASE u = t /\ m = n-1
      BY <1>1, <1>10, <1>12, <1>15, <2>2, <2>3, <2>4 DEF Upgrades
    <2>5. CASE u # t \/ m # n-1
      BY <1>13, <2>2, <2>3, <2>5 DEF Upgrades, Owns
    <2>6. QED
      BY <2>4, <2>5
  <1>24. Allows(k, ks)
    <2> SUFFICES ASSUME NEW c \in Caches, NEW s \in Slots(c), Parent[c] = k,
                        array[c][s] = array[k][ks]
                 PROVE  /\ bcc[c][s] # "I" => v # "I"
                        /\ bcc[c][s] \in {"E", "M"} => v \in {"E", "M"}
      BY <1>7 DEF Allows
    <2>1. Agree(c, s, ks)
      BY <1>3, <1>4, CoreFacts DEF Directory, Pairs
    <2>2. CASE f.type = "INV"
      <3>1. SUFFICES ASSUME bcc[c][s] # "I" PROVE FALSE
        BY <1>2
      <3>2. c \notin tcc[k][ks].sharers
        BY <1>1, <1>3, <1>4, <2>2 DEF Sending, Dir
      <3>3. PICK u \in Cores : \E m \in Frames(u) : Upgrades(u, m, c, s, ks)
        BY <2>1, <3>1, <3>2 DEF Agree
      <3>4. PICK m \in Frames(u) : Upgrades(u, m, c, s, ks)
        BY <3>3
      <3>5. Owns(u, m) /\ stack[u][m].c = k /\ stack[u][m].fn = "access"
        BY <3>4 DEF Upgrades
      <3>6. QED
        BY <1>4, <1>16, <3>5
    <2>3. CASE f.type = "INVX"
      <3>1. ~isExclusive(tcc[k][ks])
        BY <1>1, <1>3, <1>4, <2>3 DEF Sending, Dir
      <3>2. bcc[c][s] \notin {"E", "M"}
        BY <2>1, <3>1 DEF Agree
      <3>3. QED
        BY <1>2, <2>3, <3>2
    <2>4. QED
      BY <1>4, <2>2, <2>3
  <1>25. OthersListed(k, p, r)
    <2> SUFFICES ASSUME NEW c \in Caches, NEW s \in Slots(c), Parent[c] = p, c # k,
                        array[c][s] = array[p][r]
                 PROVE  /\ c \in e1.sharers <=> c \in e.sharers
                        /\ c \in e1.sharers /\ isExclusive(e1) => isExclusive(e)
                        /\ bcc[c][s] \in {"E", "M"} => isExclusive(e1)
      BY <1>4, <1>8 DEF OthersListed
    <2>1. Agree(c, s, r)
      BY <1>3, <1>4 DEF Directory, Pairs
    <2>2. bcc[c][s] \in {"E", "M"} => c \in e.sharers /\ isExclusive(e)
      BY <1>4, <2>1 DEF Agree
    <2>3. QED
      BY <1>5, <2>2
  <1>26. LinkOnly(k, ks, r)
    BY <1>4, <1>7, <1>8 DEF LinkOnly
  <1>27. Directory'
    <2>1. /\ array[k][ks] = array[p][r] /\ array[p][r] # None
          /\ bcc'[p][r] = bcc[p][r] \/ (bcc[p][r] \in {"E", "M"} /\ bcc'[p][r] = "M")
          /\ tcc'[p][r].sharers \subseteq tcc[p][r].sharers \cup {k}
      BY <1>4, <1>5, <1>8
    <2>2. p = Parent[k] /\ p # Mem /\ k \in Caches /\ ks \in Slots(k) /\ r \in Slots(p)
      BY <1>4
    <2>3. Types /\ Directory
      BY <1>3 DEF Consistent
    <2>4. QED
      BY <1>21, <1>22, <1>23, <1>24, <1>25, <1>26, <2>1, <2>2, <2>3, LinkChanged
  <1>28. ASSUME NEW u \in Cores, NEW m \in Frames(u)', u # t \/ m # n-1
         PROVE  LinkedAt(u, m)' /\ ContentAt(u, m)'
    <2>1. PICK h : h = stack[u][m]
      OBVIOUS
    <2>2. /\ m \in Frames(u) /\ m \in Nat /\ m > 0 /\ (u # t \/ m # n)
          /\ stack'[u][m] = h /\ (m > 1 => stack'[u][m-1] = stack[u][m-1])
          /\ Waiting(u, m)' <=> Waiting(u, m)
      BY <1>13, <1>28, <2>1
    <2>3. h \in Frame /\ LinkedAt(u, m) /\ ContentAt(u, m) /\ Types /\ Linked
      BY <1>3, <2>1, <2>2, InStack DEF Consistent, Linked, Content
    <2>4. h.c \in Caches /\ h.fn \in {"access", "inv"} /\ (h.fn = "access" => h.child \in Caches \cup {None})
      BY <2>3, FrameTypes
    <2>5. m > 1 /\ h.fn = "inv" => tcc'[stack[u][m-1].c] = tcc[stack[u][m-1].c]
      <3>1. SUFFICES ASSUME m > 1, h.fn = "inv"
                     PROVE  tcc'[stack[u][m-1].c] = tcc[stack[u][m-1].c]
        OBVIOUS
      <3>2. m-1 \in Frames(u) /\ Owns(u, m-1) /\ stack[u][m-1] \in Frame
        BY <2>1, <2>2, <2>3, <3>1, CallerFacts
      <3>3. stack[u][m-1].c # p
        BY <1>4, <1>16, <2>2, <3>2
      <3>4. stack[u][m-1].c \in Caches
        BY <3>2, FrameTypes
      <3>5. QED
        BY <1>8, <3>3, <3>4
    <2>6. Owns(u, m) => h.c # k /\ h.c # p
      BY <1>16, <1>28, <2>1, <2>2
    <2>7. Owns(u, m) => bcc'[h.c][h.slot] = bcc[h.c][h.slot] /\ tcc'[h.c][h.slot] = tcc[h.c][h.slot]
      BY <1>7, <1>8, <2>4, <2>6
    <2>8. h.fn = "access" /\ h.pc = "evput" => tcc'[h.c][h.slot].sharers = {}
      <3>1. SUFFICES ASSUME h.fn = "access", h.pc = "evput"
                     PROVE  tcc'[h.c][h.slot].sharers = {}
        OBVIOUS
      <3>2. h.slot \in Slots(h.c) /\ tcc[h.c][h.slot].sharers = {}
        BY <2>1, <2>3, <3>1 DEF ContentAt, FrameLine, Dir
      <3>3. h.c # p \/ h.slot # r
        BY <1>4, <3>2
      <3>4. QED
        BY <1>8, <2>4, <3>2, <3>3
    <2>9. CASE h.fn = "access" /\ h.child = k /\ h.childSlot = ks
      <3>1. m > 1 /\ h.c = p
        BY <1>4, <2>1, <2>2, <2>3, <2>9, AccessFacts, CoreFacts, NatOne
      <3>2. ~Owns(u, m)
        BY <2>6, <3>1
      <3>3. RequestState(h)'
        <4>1. /\ Consistent /\ Directory /\ At(t, "inv", "down") /\ f = Top(t)
              /\ m \in Frames(u) /\ m > 1 /\ h = stack[u][m]
              /\ h.fn = "access" /\ h.child = f.c /\ h.childSlot = f.slot
              /\ bcc'[f.c][f.slot] = IF f.type = "INV" THEN "I" ELSE "S"
          BY <1>1, <1>2, <1>3, <1>7, <2>1, <2>2, <2>9, <3>1
        <4>2. QED
          BY <4>1, Downgraded
      <3>4. LinkedAt(u, m)'
        <4>1. array' = array /\ stack'[u][m] = h
          BY <1>8, <2>2
        <4>2. QED
          BY <2>1, <2>2, <2>3, <2>5, <2>9, <4>1, LinkedStays
      <3>5. FrameLine(h)'
        <4>1. FrameLine(h) /\ array' = array
          BY <1>8, <2>1, <2>3 DEF ContentAt
        <4>2. QED
          BY <2>8, <2>9, <4>1 DEF FrameLine, Dir, Holding
      <3>6. ~(h.wb /\ h.pc # "end")
        BY <2>1, <2>3, <3>2 DEF ContentAt
      <3>7. ~Owns(u, m)'
        BY <2>1, <2>2, <3>2 DEF Owns
      <3>8. ContentAt(u, m)'
        BY <2>2, <3>3, <3>5, <3>6, <3>7 DEF ContentAt
      <3>9. QED
        BY <3>4, <3>8
    <2>10. CASE h.fn = "access" => h.child # k \/ h.childSlot # ks
      <3>1. h.fn = "access" => h.child = None \/ bcc'[h.child][h.childSlot] = bcc[h.child][h.childSlot]
        <4>1. SUFFICES ASSUME h.fn = "access", h.child # None
                       PROVE  bcc'[h.child][h.childSlot] = bcc[h.child][h.childSlot]
          OBVIOUS
        <4>2. h.child \in Caches /\ h.childSlot \in Slots(h.child)
          BY <2>1, <2>2, <2>3, <2>4, <4>1, AccessFacts, NatOne
        <4>3. QED
          BY <1>7, <2>10, <4>1, <4>2
      <3>2. array' = array /\ h = stack[u][m] /\ h = stack'[u][m]
        BY <1>8, <2>1, <2>2
      <3>3. QED
        BY <2>2, <2>3, <2>5, <2>7, <2>8, <3>1, <3>2, Stable
    <2>11. QED
      BY <2>9, <2>10
  <1>29. LinkedAt(t, n-1)'
    <2>1. /\ Types /\ Linked /\ n-1 \in Frames(t) /\ n-1 \in Nat /\ n-1 > 0
          /\ g = stack[t][n-1] /\ stack'[t][n-1] = g1
      <3>1. Types /\ Linked
        BY <1>3 DEF Consistent
      <3>2. n-1 \in Nat /\ n-1 > 0
        BY <1>4, <3>1, InStack
      <3>3. g = stack[t][n-1] /\ stack'[t][n-1] = g1
        BY <1>1, <1>12
      <3>4. QED
        BY <1>4, <3>1, <3>2, <3>3
    <2>2. n-1 > 1 /\ g.fn = "inv" => tcc'[stack[t][(n-1)-1].c] = tcc[stack[t][(n-1)-1].c]
      <3>1. SUFFICES ASSUME n-1 > 1, g.fn = "inv"
                     PROVE  tcc'[stack[t][(n-1)-1].c] = tcc[stack[t][(n-1)-1].c]
        OBVIOUS
      <3>2. (n-1)-1 \in Frames(t) /\ Owns(t, (n-1)-1) /\ stack[t][(n-1)-1] \in Frame
        BY <2>1, <3>1, CallerFacts
      <3>3. stack[t][(n-1)-1].c # p
        BY <1>4, <1>16, <3>2
      <3>4. stack[t][(n-1)-1].c \in Caches
        BY <3>2, FrameTypes
      <3>5. QED
        BY <1>8, <3>3, <3>4
    <2>3. array' = array /\ g1.c = g.c
      BY <1>1, <1>8, <1>10
    <2>4. g.fn = "access" =>
             /\ g1.child = g.child /\ g1.childSlot = g.childSlot /\ g1.a = g.a
             /\ g1.initialState = g.initialState /\ (g1.type \in Puts <=> g.type \in Puts)
             /\ g.type \notin Puts => g1.type = g.type
             /\ g.pc # "tcc" => g1.pc # "tcc"
      BY <1>10
    <2>5. QED
      BY <1>9, <1>10, <1>12, <2>1, <2>2, <2>3, <2>4, LinkedStays
  <1>30. ContentAt(t, n-1)'
    <2>1. ContentAt(t, n-1) /\ g = stack[t][n-1]
      BY <1>1, <1>3, <1>4 DEF Consistent, Content
    <2>2. State(g1)' = State(g) /\ State(g) = bcc[p][r]
      BY <1>1, <1>8, <1>10 DEF State
    <2>3. FrameLine(g1)'
      <3>1. FrameLine(g) /\ array' = array /\ g.pc # "evput" /\ g.c = p /\ g.slot = r
        BY <1>1, <1>4, <1>8, <2>1 DEF ContentAt, Sending
      <3>2. QED
        BY <1>10, <3>1 DEF FrameLine, Holding
    <2>4. n-1 > 1 /\ g.fn = "access" => RequestState(g1)'
      <3>1. SUFFICES ASSUME n-1 > 1, g.fn = "access" PROVE RequestState(g1)'
        OBVIOUS
      <3>2. /\ g.child \in Caches /\ g.childSlot \in Slots(g.child)
            /\ Types /\ Linked
        BY <1>3, <1>4, <2>1, <3>1, AccessFacts DEF Consistent
      <3>3. CASE g.child = k /\ g.childSlot = ks
        <4>1. /\ Consistent /\ Directory /\ At(t, "inv", "down") /\ f = Top(t)
              /\ n-1 \in Frames(t) /\ n-1 > 1 /\ g = stack[t][n-1]
              /\ g.fn = "access" /\ g.child = f.c /\ g.childSlot = f.slot
              /\ bcc'[f.c][f.slot] = IF f.type = "INV" THEN "I" ELSE "S"
          BY <1>1, <1>2, <1>3, <1>4, <1>7, <2>1, <3>1, <3>3
        <4>2. RequestState(g)'
          BY <4>1, Downgraded
        <4>3. QED
          BY <1>10, <3>1, <4>2 DEF RequestState, ChildState
      <3>4. CASE g.child # k \/ g.childSlot # ks
        <4>1. bcc'[g.child][g.childSlot] = bcc[g.child][g.childSlot]
          BY <1>7, <3>2, <3>4
        <4>2. RequestState(g)
          BY <2>1, <3>1 DEF ContentAt
        <4>3. QED
          BY <1>10, <3>1, <4>1, <4>2 DEF RequestState, ChildState
      <3>5. QED
        BY <3>3, <3>4
    <2>5. g.fn = "access" => OwnState(g1)'
      <3>1. SUFFICES ASSUME g.fn = "access" PROVE OwnState(g1)'
        OBVIOUS
      <3>2. OwnState(g)
        BY <1>4, <2>1, <3>1 DEF ContentAt
      <3>3. ~isExclusive(Dir(g1)')
        BY <1>5, <1>8, <1>10 DEF Dir
      <3>4. QED
        BY <1>1, <1>10, <2>2, <3>1, <3>2, <3>3 DEF OwnState
    <2>6. g1.wb => State(g) \in {"E", "M"} /\ g1.pc \in {"evict", "top", "down"}
      <3>1. SUFFICES ASSUME g1.wb
                     PROVE  State(g) \in {"E", "M"} /\ g1.pc \in {"evict", "top", "down"}
        OBVIOUS
      <3>2. g.pc \in {"evict", "top", "down"}
        BY <1>4 DEF Sending
      <3>3. CASE g.wb
        BY <1>10, <2>1, <3>2, <3>3 DEF ContentAt
      <3>4. CASE Writeback(f)
        <4>1. State(f) \in {"E", "M"}
          BY <1>4, <3>4 DEF Writeback
        <4>2. QED
          BY <1>4, <1>8, <1>10, <2>2, <3>2, <4>1 DEF Agree
      <3>5. QED
        BY <1>9, <3>1, <3>3, <3>4
    <2>7. /\ stack'[t][n-1] = g1 /\ Owns(t, n-1)'
          /\ State(g1)' = State(g)
      BY <1>12, <1>15, <2>2
    <2>8. QED
      BY <1>10, <2>3, <2>4, <2>5, <2>6, <2>7 DEF ContentAt
  <1>31. ASSUME NEW u \in Cores, NEW m \in Frames(u)'
         PROVE  LinkedAt(u, m)' /\ ContentAt(u, m)'
    <2>1. CASE u = t /\ m = n-1
      BY <1>29, <1>30, <2>1
    <2>2. CASE u # t \/ m # n-1
      BY <1>28, <1>31, <2>2
    <2>3. QED
      BY <2>1, <2>2
  <1>32. Linked' /\ Content'
    BY <1>31 DEF Linked, Content
  <1>33. QED
    BY <1>11, <1>17, <1>18, <1>27, <1>32, InvParts DEF Consistent

-----------------------------------------------------------------------------
(* The invariant *)

\* Nothing is in the caches at first, and no access under way.
LEMMA InitInvariant ==
  ASSUME Init
  PROVE  IInv
  <1>1. \A u \in Cores : stack[u] = <<>> /\ Frames(u) = {}
    BY DEF Init, Frames
  <1>2. \A c \in Caches : \A s \in Slots(c) :
          /\ array[c][s] = None /\ bcc[c][s] = "I"
          /\ tcc[c][s] = [sharers |-> {}, numSharers |-> 0, exclusive |-> FALSE]
    BY DEF Init
  <1>3. Types
    <2>1. [sharers |-> {}, numSharers |-> 0, exclusive |-> FALSE] \in Entry
      BY DEF Entry
    <2>2. \A c \in Caches :
            /\ array[c] \in [Slots(c) -> Addrs \cup {None}]
            /\ bcc[c] \in [Slots(c) -> MESIState]
            /\ tcc[c] \in [Slots(c) -> Entry]
      BY <2>1 DEF Init, MESIState
    <2>3. /\ array = [c \in Caches |-> array[c]] /\ bcc = [c \in Caches |-> bcc[c]]
          /\ tcc = [c \in Caches |-> tcc[c]]
      BY DEF Init
    <2>4. stack \in [Cores -> Seq(AccFrame \cup InvFrame)]
      BY DEF Init
    <2>5. issued \in [Cores -> 0..Limit]
      BY ConstantsAssumption DEF Init
    <2>6. /\ bccLock \in [Caches -> Cores \cup {None}] /\ tccLock \in [Caches -> Cores \cup {None}]
          /\ unsaved \subseteq Addrs
      BY DEF Init
    <2>7. \A u \in Cores : \A n \in 1..Len(stack[u]) : stack[u][n] \in AccFrame \cup InvFrame
      BY <1>1 DEF Frames
    <2>8. QED
      BY <2>2, <2>3, <2>4, <2>5, <2>6, <2>7 DEF Types, TypeOK
  <1>4. Locks /\ Order /\ Linked /\ Content
    BY <1>1 DEF Locks, Order, Linked, Content
  <1>5. EmptyLines /\ UniqueLines
    BY <1>2 DEF EmptyLines, UniqueLines
  <1>6. Entries
    <2> SUFFICES ASSUME NEW p \in Caches, NEW r \in Slots(p) PROVE EntryAt(p, r)
      BY DEF Entries
    <2>1. PICK e : e = tcc[p][r]
      OBVIOUS
    <2>2. e.sharers = {} /\ e.numSharers = 0 /\ e.exclusive = FALSE /\ Cardinality(e.sharers) = 0
      <3>1. e = [sharers |-> {}, numSharers |-> 0, exclusive |-> FALSE]
        BY <1>2, <2>1
      <3>2. e.sharers = {} /\ e.numSharers = 0 /\ e.exclusive = FALSE
        BY <3>1
      <3>3. QED
        BY <3>2, FS_EmptySet
    <2>3. QED
      BY <2>1, <2>2 DEF EntryAt
  <1>7. Pairs
    BY <1>2 DEF Pairs
  <1>8. Present
    <2>1. \A p \in Caches : \A r \in Slots(p) : tcc[p][r].sharers = {}
      BY <1>2
    <2>2. \A p \in Caches : \A r \in Slots(p) : \A c \in tcc[p][r].sharers :
            \E s \in Slots(c) : array[c][s] = array[p][r]
      BY <2>1
    <2>3. \A c \in Caches : \A s \in Slots(c) : bcc[c][s] = "I"
      BY <1>2
    <2>4. QED
      BY <2>2, <2>3 DEF Present
  <1>9. QED
    BY <1>3, <1>4, <1>5, <1>6, <1>7, <1>8 DEF IInv

\* A step that changes nothing but the history leaves the invariant alone.
LEMMA HistoryStep ==
  ASSUME IInv, UNCHANGED <<array, bcc, tcc, bccLock, tccLock, stack, issued>>,
         unsaved' \subseteq Addrs
  PROVE  IInv'
  <1>1. /\ array' = array /\ bcc' = bcc /\ tcc' = tcc /\ bccLock' = bccLock /\ tccLock' = tccLock
        /\ stack' = stack /\ issued' = issued /\ unsaved' \subseteq Addrs
    OBVIOUS
  <1>2. /\ Types /\ Locks /\ Order /\ Linked /\ Content
        /\ UniqueLines /\ EmptyLines /\ Entries /\ Pairs /\ Present
    BY DEF IInv
  <1>3. /\ \A u \in Cores : Frames(u)' = Frames(u)
        /\ \A u \in Cores : \A m \in Frames(u) :
             /\ Waiting(u, m)' <=> Waiting(u, m)
             /\ Owns(u, m)' <=> Owns(u, m)
             /\ Accessing(u, m)' <=> Accessing(u, m)
    BY <1>1 DEF Frames, Waiting, Owns, Accessing
  <1>4. Types'
    <2>1. /\ stack \in [Cores -> Seq(Frame)] /\ issued \in [Cores -> 0..Limit]
          /\ bccLock \in [Caches -> Cores \cup {None}] /\ tccLock \in [Caches -> Cores \cup {None}]
      BY <1>2 DEF Types, TypeOK, Frame
    <2>2. QED
      BY <1>1, <1>2, <2>1, TypesSame
  <1>5. Locks' /\ Order'
    BY <1>1, <1>2, <1>3 DEF Locks, Order
  <1>6. Linked' /\ Content'
    <2>1. ASSUME NEW u \in Cores, NEW m \in Frames(u)
          PROVE  LinkedAt(u, m)' /\ ContentAt(u, m)'
      BY <1>1, <1>2, <1>3, StableData
    <2>2. QED
      BY <1>3, <2>1 DEF Linked, Content
  <1>7. Remain
    BY <1>1, <1>3 DEF Remain
  <1>8. UniqueLines' /\ EmptyLines' /\ Entries' /\ Pairs' /\ Present'
    BY <1>1, <1>2, <1>7, LinesSame
  <1>9. QED
    BY <1>4, <1>5, <1>6, <1>8 DEF IInv

\* A step of the world outside leaves the invariant alone.
LEMMA Stuttering ==
  ASSUME IInv, UNCHANGED vars
  PROVE  IInv'
  BY HistoryStep DEF vars, IInv, Types, TypeOK

\* Every step of a thread preserves the invariant.
LEMMA NextInvariant ==
  ASSUME IInv, [Next]_vars
  PROVE  IInv'
  <1>1. ASSUME NEW t \in Cores, CoreAccess(t)
        PROVE  IInv'
    BY <1>1, CoreAccessStep
  <1>2. ASSUME NEW t \in Cores, Step(t)
        PROVE  IInv'
    <2>1. CASE LockTop(t)
      BY <2>1, LockTopStep
    <2>2. CASE LockBottom(t)
      BY <2>2, LockBottomStep
    <2>3. CASE EvictBottom(t)
      BY <2>3, EvictBottomStep
    <2>4. CASE Inserted(t)
      BY <2>4, InsertedStep
    <2>5. CASE Bottom(t)
      BY <2>5, BottomStep
    <2>6. CASE TopUpgrade(t)
      BY <2>6, TopUpgradeStep
    <2>7. CASE TopAccess(t)
      BY <2>7, TopAccessStep
    <2>8. CASE EndAccess(t)
      BY <2>8, EndAccessStep
    <2>9. CASE SendInvalidate(t)
      BY <2>9, SendInvalidateStep
    <2>10. CASE StartInvalidate(t)
      BY <2>10, StartInvalidateStep
    <2>11. CASE FinishInvalidate(t)
      BY <2>11, FinishInvalidateStep
    <2>12. QED
      BY <1>2, <2>1, <2>2, <2>3, <2>4, <2>5, <2>6, <2>7, <2>8, <2>9, <2>10, <2>11 DEF Step
  <1>3. CASE UNCHANGED vars
    BY <1>3, Stuttering
  <1>4. QED
    BY <1>1, <1>2, <1>3 DEF Next

\* The invariant of the hierarchy (Cache::access, Cache::invalidate, and MESITopCC and
\* MESIBottomCC): locks, calls and lines agree with each other in every reachable state.
THEOREM Invariant == Spec => []IInv
  <1>1. Init => IInv
    BY InitInvariant
  <1>2. IInv /\ [Next]_vars => IInv'
    BY NextInvariant
  <1>3. QED
    BY <1>1, <1>2, PTL DEF Spec

\* Every variable has its type: no access leaves an entry, a state or an activation of
\* another form.
THEOREM TypeCorrect == Spec => []TypeOK
  <1>1. IInv => TypeOK
    BY DEF IInv, Types
  <1>2. QED
    BY <1>1, Invariant, PTL

-----------------------------------------------------------------------------
(* What the invariant says of the hierarchy *)

\* An address that a cache holds has one line there, and the state of that line.
LEMMA StateOfLine ==
  ASSUME UniqueLines, NEW c \in Caches, NEW a \in Addrs
  PROVE  /\ \A s \in Slots(c) : array[c][s] = a => StateOf(c, a) = bcc[c][s]
         /\ Valid(c, a) => \E s \in Slots(c) : array[c][s] = a
  <1>1. a # None
    BY ConstantsAssumption
  <1>2. ASSUME NEW s \in Slots(c), array[c][s] = a
        PROVE  StateOf(c, a) = bcc[c][s]
    <2>1. \A x \in Holding(c, a) : x = s
      BY <1>1, <1>2 DEF Holding, UniqueLines
    <2>2. s \in Holding(c, a)
      BY <1>2 DEF Holding
    <2>3. (CHOOSE x \in Holding(c, a) : TRUE) = s
      BY <2>1, <2>2
    <2>4. QED
      BY <2>2, <2>3 DEF StateOf
  <1>3. Valid(c, a) => \E s \in Slots(c) : array[c][s] = a
    <2>1. SUFFICES ASSUME Valid(c, a) PROVE \E s \in Slots(c) : array[c][s] = a
      OBVIOUS
    <2>2. Holding(c, a) # {}
      BY <2>1 DEF Valid, StateOf
    <2>3. QED
      BY <2>2 DEF Holding
  <1>4. QED
    BY <1>2, <1>3

\* A valid line and the line of the same address in the parent, where they agree
LEMMA ParentLine ==
  ASSUME Directory, NEW c \in Caches, Parent[c] # Mem, NEW a \in Addrs, Valid(c, a)
  PROVE  /\ Parent[c] \in Caches
         /\ \E s \in Slots(c), r \in Slots(Parent[c]) :
              /\ array[c][s] = a /\ array[Parent[c]][r] = a
              /\ StateOf(c, a) = bcc[c][s] /\ StateOf(Parent[c], a) = bcc[Parent[c]][r]
              /\ bcc[c][s] # "I"
              /\ Agree(c, s, r)
  <1>1. UniqueLines /\ Present /\ Pairs /\ Parent[c] \in Caches /\ a # None
    BY CoreFacts, ConstantsAssumption DEF Directory
  <1>2. PICK s \in Slots(c) : array[c][s] = a
    BY <1>1, StateOfLine
  <1>3. StateOf(c, a) = bcc[c][s]
    BY <1>1, <1>2, StateOfLine
  <1>4. bcc[c][s] # "I"
    BY <1>3 DEF Valid
  <1>5. PICK r \in Slots(Parent[c]) : array[Parent[c]][r] = a
    BY <1>1, <1>2, <1>4 DEF Present
  <1>6. StateOf(Parent[c], a) = bcc[Parent[c]][r]
    BY <1>1, <1>5, StateOfLine
  <1>7. Agree(c, s, r)
    BY <1>1, <1>2, <1>5 DEF Pairs
  <1>8. QED
    BY <1>1, <1>2, <1>3, <1>4, <1>5, <1>6, <1>7

\* What a cache has, the cache above it has.
LEMMA InclusionHolds ==
  ASSUME Directory
  PROVE  Inclusion
  <1> SUFFICES ASSUME NEW c \in Caches, NEW a \in Addrs, Parent[c] # Mem
               PROVE  /\ Valid(c, a) => Valid(Parent[c], a)
                      /\ Exclusive(c, a) => Exclusive(Parent[c], a)
    BY DEF Inclusion
  <1>1. Exclusive(c, a) => Valid(c, a)
    BY DEF Exclusive, Valid
  <1>2. ASSUME Valid(c, a)
        PROVE  Valid(Parent[c], a) /\ (Exclusive(c, a) => Exclusive(Parent[c], a))
    <2>1. PICK s \in Slots(c), r \in Slots(Parent[c]) :
              /\ array[c][s] = a /\ array[Parent[c]][r] = a
              /\ StateOf(c, a) = bcc[c][s] /\ StateOf(Parent[c], a) = bcc[Parent[c]][r]
              /\ bcc[c][s] # "I"
              /\ Agree(c, s, r)
      BY <1>2, ParentLine
    <2>2. QED
      BY <2>1 DEF Agree, Valid, Exclusive
  <1>3. QED
    BY <1>1, <1>2

\* What upgrades a line is the access of that line's address.
LEMMA UpgradesAddress ==
  ASSUME Consistent, NEW c \in Caches, NEW s \in Slots(c), NEW r, Parent[c] \in Caches,
         NEW u \in Cores, NEW m \in Frames(u), Upgrades(u, m, c, s, r)
  PROVE  /\ Upgrading(Parent[c], c, array[Parent[c]][r])
         /\ Parent[c] # Mem
         /\ c \notin tcc[Parent[c]][r].sharers => ~isExclusive(tcc[Parent[c]][r])
  <1>1. PICK f : f = stack[u][m]
    OBVIOUS
  <1>2. /\ f.fn = "access" /\ f.c = Parent[c] /\ f.child = c /\ f.slot = r /\ f.childSlot = s
        /\ f.pc = "top" /\ f.type = "GETX" /\ Owns(u, m) /\ bcc[c][s] = "S"
    BY <1>1 DEF Upgrades
  <1>3. ContentAt(u, m)
    BY DEF Consistent, Content
  <1>4. FrameLine(f) /\ OwnState(f)
    BY <1>1, <1>2, <1>3 DEF ContentAt
  <1>5. f.a = array[Parent[c]][r]
    BY <1>2, <1>4 DEF FrameLine
  <1>6. Upgrading(Parent[c], c, array[Parent[c]][r])
    BY <1>1, <1>2, <1>5 DEF Upgrading, Frames
  <1>7. ChildState(f) = "S"
    BY <1>2, CoreFacts DEF ChildState
  <1>8. c \notin tcc[Parent[c]][r].sharers => ~isExclusive(tcc[Parent[c]][r])
    BY <1>2, <1>4, <1>7 DEF OwnState, Dir
  <1>9. QED
    BY <1>6, <1>8, ConstantsAssumption

\* A directory entry lists the children that have the line, and counts them.
LEMMA DirectoryExactHolds ==
  ASSUME Consistent, Directory
  PROVE  DirectoryExact
  <1> SUFFICES ASSUME NEW p \in Caches, NEW a \in Addrs, NEW s \in Holding(p, a),
                      NEW e, e = tcc[p][s]
               PROVE  /\ \A c \in Children(p) :
                           /\ c \in e.sharers => Valid(c, a)
                           /\ Valid(c, a) => c \in e.sharers \/ Upgrading(p, c, a)
                           /\ Exclusive(c, a) => e.exclusive
                      /\ e.numSharers = 0 <=> e.sharers = {}
                      /\ bccLock[p] = None => e.numSharers = Cardinality(e.sharers)
                      /\ isExclusive(e) => Cardinality(e.sharers) = 1
    BY DEF DirectoryExact
  <1>1. s \in Slots(p) /\ array[p][s] = a /\ a # None
    BY ConstantsAssumption DEF Holding
  <1>2. EntryAt(p, s) /\ UniqueLines /\ Present /\ Pairs
    BY <1>1 DEF Directory, Entries
  <1>3. ASSUME NEW c \in Children(p)
        PROVE  /\ c \in e.sharers => Valid(c, a)
               /\ Valid(c, a) => c \in e.sharers \/ Upgrading(p, c, a)
               /\ Exclusive(c, a) => e.exclusive
    <2>1. c \in Caches /\ Parent[c] = p /\ Parent[c] # Mem
      BY ConstantsAssumption DEF Children
    <2>2. ASSUME NEW x \in Slots(c), array[c][x] = a
          PROVE  Agree(c, x, s) /\ StateOf(c, a) = bcc[c][x]
      BY <1>1, <1>2, <2>1, <2>2, StateOfLine DEF Pairs
    <2>3. c \in e.sharers => Valid(c, a)
      <3>1. SUFFICES ASSUME c \in e.sharers PROVE Valid(c, a)
        OBVIOUS
      <3>2. PICK x \in Slots(c) : array[c][x] = a
        BY <1>1, <1>2, <3>1 DEF Present
      <3>3. QED
        BY <2>1, <2>2, <3>1, <3>2 DEF Agree, Valid
    <2>4. ASSUME Valid(c, a)
          PROVE  /\ c \in e.sharers \/ Upgrading(p, c, a)
                 /\ Exclusive(c, a) => e.exclusive
      <3>1. PICK x \in Slots(c) : array[c][x] = a
        BY <1>2, <2>1, <2>4, StateOfLine
      <3>2. Agree(c, x, s) /\ StateOf(c, a) = bcc[c][x] /\ bcc[c][x] # "I"
        BY <2>2, <2>4, <3>1 DEF Valid
      <3>3. Exclusive(c, a) => e.exclusive
        BY <2>1, <3>2 DEF Agree, Exclusive, isExclusive
      <3>4. CASE c \in e.sharers
        BY <3>3, <3>4
      <3>5. CASE c \notin e.sharers
        <4>1. PICK u \in Cores : \E m \in Frames(u) : Upgrades(u, m, c, x, s)
          BY <2>1, <3>2, <3>5 DEF Agree
        <4>2. PICK m \in Frames(u) : Upgrades(u, m, c, x, s)
          BY <4>1
        <4>3. Upgrading(Parent[c], c, array[Parent[c]][s])
          BY <2>1, <4>2, UpgradesAddress
        <4>4. QED
          BY <1>1, <2>1, <3>3, <4>3
      <3>6. QED
        BY <3>4, <3>5
    <2>5. Exclusive(c, a) => Valid(c, a)
      BY DEF Exclusive, Valid
    <2>6. QED
      BY <2>3, <2>4, <2>5
  <1>4. /\ e.numSharers = 0 <=> e.sharers = {}
        /\ e.exclusive => e.numSharers \in {0, 1} /\ \A c, d \in e.sharers : c = d
        /\ \/ e.numSharers = Cardinality(e.sharers)
           \/ \E u \in Cores : \E m \in Frames(u) : Invalidating(u, m, p, s)
    BY <1>2 DEF EntryAt
  <1>5. bccLock[p] = None => e.numSharers = Cardinality(e.sharers)
    <2>1. SUFFICES ASSUME NEW u \in Cores, NEW m \in Frames(u), Invalidating(u, m, p, s)
                   PROVE  bccLock[p] # None
      BY <1>4
    <2>2. bccLock[p] = u
      BY <2>1 DEF Invalidating, Locks, Consistent
    <2>3. QED
      BY <2>2, CoreFacts
  <1>6. isExclusive(e) => Cardinality(e.sharers) = 1
    <2>1. SUFFICES ASSUME isExclusive(e) PROVE Cardinality(e.sharers) = 1
      OBVIOUS
    <2>2. e.sharers # {} /\ \A c, d \in e.sharers : c = d
      BY <1>4, <2>1 DEF isExclusive
    <2>3. PICK c : c \in e.sharers
      BY <2>2
    <2>4. e.sharers = {c}
      BY <2>2, <2>3
    <2>5. QED
      BY <2>4, FS_Singleton
  <1>7. QED
    BY <1>3, <1>4, <1>5, <1>6

\* Parents include their children, no address has two lines in a cache, although a
\* victim stays in the array while its PUT is under way (Cache::access), and the
\* directories of MESITopCC are exact.
THEOREM Hierarchy == Spec => []HierarchyConsistent
  <1>1. IInv => HierarchyConsistent
    BY InvParts, InclusionHolds, DirectoryExactHolds DEF HierarchyConsistent, Directory
  <1>2. QED
    BY <1>1, Invariant, PTL

\* Two children of a cache: if one has a line exclusively the other does not have it.
LEMMA Siblings ==
  ASSUME Consistent, Directory, NEW c \in Caches, NEW d \in Caches, c # d,
         Parent[c] = Parent[d], Parent[c] # Mem, NEW a \in Addrs, Exclusive(c, a), Valid(d, a)
  PROVE  FALSE
  <1>1. PICK p : p = Parent[c]
    OBVIOUS
  <1>2. Valid(c, a) /\ UniqueLines /\ p \in Caches /\ a # None
    BY <1>1, CoreFacts DEF Exclusive, Valid, Directory
  <1>3. PICK s \in Slots(c), r \in Slots(p) :
          /\ array[c][s] = a /\ array[p][r] = a
          /\ StateOf(c, a) = bcc[c][s] /\ Agree(c, s, r)
    BY <1>1, <1>2, ParentLine
  <1>4. PICK x \in Slots(d), y \in Slots(p) :
          /\ array[d][x] = a /\ array[p][y] = a
          /\ bcc[d][x] # "I" /\ Agree(d, x, y)
    BY <1>1, <1>2, ParentLine
  <1>5. y = r
    BY <1>2, <1>3, <1>4 DEF UniqueLines
  <1>6. PICK e : e = tcc[p][r]
    OBVIOUS
  <1>7. isExclusive(e) /\ c \in e.sharers
    BY <1>1, <1>3, <1>6 DEF Agree, Exclusive
  <1>8. EntryAt(p, r)
    BY <1>2, <1>3 DEF Directory, Entries
  <1>9. d \notin e.sharers
    BY <1>6, <1>7, <1>8 DEF EntryAt, isExclusive
  <1>10. PICK u \in Cores : \E m \in Frames(u) : Upgrades(u, m, d, x, r)
    BY <1>1, <1>4, <1>5, <1>6, <1>9 DEF Agree
  <1>11. PICK m \in Frames(u) : Upgrades(u, m, d, x, r)
    BY <1>10
  <1>12. ~isExclusive(tcc[Parent[d]][r])
    BY <1>1, <1>2, <1>6, <1>9, <1>11, UpgradesAddress
  <1>13. QED
    BY <1>1, <1>6, <1>7, <1>12

\* Nothing is below a terminal cache.
LEMMA LeafBelow ==
  ASSUME NEW c \in Leaves, NEW d \in Caches, Above(c, d)
  PROVE  c = d
  BY AboveStep DEF Leaves

\* The paths from two terminal caches to the root meet in two children of a cache.
LEMMA Meet ==
  ASSUME NEW c \in Leaves, NEW d \in Leaves, c # d
  PROVE  \E x, y \in Caches :
            x # y /\ Parent[x] = Parent[y] /\ Parent[x] # Mem /\ Above(x, c) /\ Above(y, d)
  <1>1. c \in Caches /\ d \in Caches
    BY DEF Leaves
  <1> DEFINE D == {x \in Caches : Above(x, c) /\ ~Above(x, d)}
  <1>2. c \in D
    BY <1>1, AboveSelf, LeafBelow
  <1>3. PICK llc \in Caches : \A z \in Caches : Above(llc, z)
    BY OneRoot
  <1>4. Above(llc, c) /\ llc \notin D
    BY <1>1, <1>3
  <1>5. PICK x \in D : Parent[x] # Mem /\ Parent[x] \notin D
    BY <1>2, <1>4 DEF Above
  <1>6. PICK p : p = Parent[x]
    OBVIOUS
  <1>7. p \in Caches /\ x \in Caches /\ x \in Children(p) /\ Above(x, c) /\ ~Above(x, d)
    BY <1>5, <1>6, CoreFacts
  <1>8. Above(p, c)
    BY <1>5, <1>6, <1>7, AboveParent
  <1>9. Above(p, d)
    BY <1>5, <1>6, <1>7, <1>8
  <1>10. p # d
    BY <1>7 DEF Leaves
  <1>11. PICK y \in Children(p) : Above(y, d)
    BY <1>1, <1>7, <1>9, <1>10, AboveStep
  <1>12. y \in Caches /\ Parent[y] = p /\ y # x
    BY <1>7, <1>11 DEF Children
  <1>13. QED
    BY <1>5, <1>6, <1>7, <1>11, <1>12

\* A line that a cache has, exclusively or not, the caches above it have in that way.
LEMMA Upwards ==
  ASSUME Directory, NEW a \in Addrs, NEW c \in Caches, NEW q, Above(q, c)
  PROVE  /\ Valid(c, a) => Valid(q, a)
         /\ Exclusive(c, a) => Exclusive(q, a)
  <1>1. ASSUME NEW x \in Caches, Parent[x] # Mem
        PROVE  /\ Parent[x] \in Caches
               /\ Valid(x, a) => Valid(Parent[x], a)
               /\ Exclusive(x, a) => Exclusive(Parent[x], a)
    BY <1>1, InclusionHolds, CoreFacts DEF Inclusion
  <1> DEFINE V == {x \in Caches : Valid(x, a)}
             E == {x \in Caches : Exclusive(x, a)}
  <1>2. V \in SUBSET Caches /\ \A x \in V : Parent[x] # Mem => Parent[x] \in V
    BY <1>1
  <1>3. E \in SUBSET Caches /\ \A x \in E : Parent[x] # Mem => Parent[x] \in E
    BY <1>1
  <1>4. c \in V => q \in V
    BY <1>2 DEF Above
  <1>5. c \in E => q \in E
    BY <1>3 DEF Above
  <1>6. QED
    BY <1>4, <1>5

\* Single writer or many readers: whatever accesses, invalidations and upgrades of the
\* cores overlap, a terminal cache that has a line in E or M is the only one that has it.
THEOREM SingleWriter == Spec => []SWMR
  <1>1. ASSUME IInv
        PROVE  SWMR
    <2>1. Consistent /\ Directory
      BY <1>1, InvParts
    <2> SUFFICES ASSUME NEW a \in Addrs, NEW c \in Leaves, NEW d \in Leaves, c # d,
                        Exclusive(c, a), Valid(d, a)
                 PROVE  FALSE
      BY DEF SWMR
    <2>2. PICK x, y \in Caches :
            x # y /\ Parent[x] = Parent[y] /\ Parent[x] # Mem /\ Above(x, c) /\ Above(y, d)
      BY Meet
    <2>3. c \in Caches /\ d \in Caches
      BY DEF Leaves
    <2>4. Exclusive(x, a) /\ Valid(y, a)
      BY <2>1, <2>2, <2>3, Upwards
    <2>5. QED
      BY <2>1, <2>2, <2>4, Siblings
  <1>2. QED
    BY <1>1, Invariant, PTL

-----------------------------------------------------------------------------
(* The assertions of the controllers *)

\* What processAccess of the bottom controller asserts of a line that was found.
LEMMA BottomAssertions ==
  ASSUME Consistent, Directory, NEW t \in Cores, NEW f, f = Top(t), At(t, "access", "bottom")
  PROVE  /\ f.type = "PUTS" => State(f) # "I"
         /\ f.type = "PUTX" => State(f) \in {"E", "M"}
  <1>1. PICK n : n = Len(stack[t])
    OBVIOUS
  <1>2. Working(t) /\ Busy(t) /\ f.fn = "access" /\ f.pc = "bottom" /\ Types /\ Linked /\ Content
    BY DEF Working, At, Consistent
  <1>3. n \in Frames(t) /\ f = stack[t][n] /\ n \in Nat /\ (n = 1 \/ n > 1)
    BY <1>1, <1>2, TopFacts, InStack, NatOne
  <1>4. CASE n = 1
    BY <1>2, <1>3, <1>4, AccessFacts
  <1>5. CASE n > 1
    <2>1. ContentAt(t, n)
      BY <1>2, <1>3 DEF Content
    <2>2. RequestState(f)
      BY <1>2, <1>3, <1>5, <2>1 DEF ContentAt
    <2>3. /\ ChildState(f) # "I" => State(f) # "I"
          /\ ChildState(f) \in {"E", "M"} => State(f) \in {"E", "M"}
      BY <1>1, <1>2, <1>5, ChildLine
    <2>4. /\ f.type = "PUTS" => ChildState(f) \in {"S", "E"}
          /\ f.type = "PUTX" => ChildState(f) = "M"
      BY <1>2, <2>2 DEF RequestState, Puts
    <2>5. QED
      BY <2>3, <2>4
  <1>6. QED
    BY <1>3, <1>4, <1>5

\* What processAccess of the top controller asserts of the entry and the child.
LEMMA TopAssertions ==
  ASSUME Consistent, Directory, NEW t \in Cores, NEW f, f = Top(t), At(t, "access", "top")
  PROVE  /\ f.type \in Puts =>
              f.child \in Dir(f).sharers /\ (f.type = "PUTX" => isExclusive(Dir(f)))
         /\ f.type = "GETS" => f.child \notin Dir(f).sharers /\ State(f) # "I"
         /\ f.type = "GETX" =>
              State(f) = "M" /\ (f.child \in Dir(f).sharers => ~isExclusive(Dir(f)))
         /\ f.wb => State(f) \in {"E", "M"}
  <1>1. PICK n, e : n = Len(stack[t]) /\ e = Dir(f)
    OBVIOUS
  <1>2. /\ Working(t) /\ n > 1 /\ f.pc = "top" /\ f.fn = "access" /\ RequestState(f) /\ OwnState(f)
        /\ f.wb => State(f) \in {"E", "M"}
    BY <1>1, TopLine
  <1>3. /\ ChildState(f) = bcc[f.child][f.childSlot] /\ Agree(f.child, f.childSlot, f.slot)
        /\ Parent[f.child] = f.c
        /\ ~(f.pc = "top" /\ f.type = "GETX") =>
              /\ f.child \in Dir(f).sharers =>
                   ChildState(f) # "I" /\ (isExclusive(Dir(f)) => ChildState(f) \in {"E", "M"})
              /\ ChildState(f) # "I" => State(f) # "I" /\ f.child \in Dir(f).sharers
              /\ ChildState(f) \in {"E", "M"} => State(f) \in {"E", "M"} /\ isExclusive(Dir(f))
    BY <1>1, <1>2, ChildLine
  <1>4. /\ f.type = "GETS" => ChildState(f) = "I"
        /\ f.type = "GETX" => ChildState(f) \in {"I", "S"}
        /\ f.type = "PUTS" => ChildState(f) \in {"S", "E"}
        /\ f.type = "PUTX" => ChildState(f) = "M"
    BY <1>2 DEF RequestState, Puts
  <1>5. /\ f.type = "GETS" => State(f) # "I"
        /\ f.type = "GETX" => State(f) = "M"
    BY <1>2 DEF OwnState
  <1>6. f.child \in Dir(f).sharers /\ isExclusive(Dir(f)) => ChildState(f) \in {"E", "M"}
    BY <1>3 DEF Agree, Dir
  <1>7. QED
    BY <1>2, <1>3, <1>4, <1>5, <1>6 DEF Puts

\* What access asserts while it has the locks.
LEMMA AccessAsserted ==
  ASSUME Consistent, Directory, NEW t \in Cores, Busy(t), NEW f, f = Top(t), f.fn = "access"
  PROVE  AccessAssertions(f) /\ (f.pc = "top" /\ f.wb => State(f) \in {"E", "M"})
  <1>1. PICK n : n = Len(stack[t])
    OBVIOUS
  <1>2. /\ n \in Frames(t) /\ f = stack[t][n] /\ f \in Frame /\ ~Waiting(t, n)
        /\ Types /\ Content
    BY <1>1, TopFacts DEF Consistent
  <1>3. ContentAt(t, n)
    BY <1>2 DEF Content
  <1>4. /\ FrameLine(f)
        /\ f.pc \notin {"tcc", "bcc"} => OwnState(f)
        /\ f.wb /\ f.pc # "end" => State(f) \in {"E", "M"}
    BY <1>2, <1>3 DEF ContentAt, Owns
  <1>5. /\ f.pc \in {"tcc", "bcc", "evict", "evput", "bottom", "top", "end"}
        /\ f.type \in {"GETS", "GETX", "PUTS", "PUTX"}
    BY <1>2, FrameTypes
  <1>6. CASE f.pc = "evict"
    BY <1>4, <1>6 DEF AccessAssertions, FrameLine
  <1>7. CASE f.pc = "evput"
    BY <1>4, <1>7 DEF AccessAssertions, OwnState
  <1>8. CASE f.pc = "bottom"
    <2>1. At(t, "access", "bottom")
      BY <1>8 DEF At
    <2>2. QED
      BY <1>8, <2>1, BottomAssertions DEF AccessAssertions
  <1>9. CASE f.pc = "top"
    <2>1. At(t, "access", "top")
      BY <1>9 DEF At
    <2>2. /\ f.type \in Puts =>
               f.child \in Dir(f).sharers /\ (f.type = "PUTX" => isExclusive(Dir(f)))
          /\ f.type = "GETS" => f.child \notin Dir(f).sharers /\ State(f) # "I"
          /\ f.type = "GETX" =>
               State(f) = "M" /\ (f.child \in Dir(f).sharers => ~isExclusive(Dir(f)))
          /\ f.wb => State(f) \in {"E", "M"}
      BY <2>1, TopAssertions
    <2>3. CASE f.type \in Puts
      BY <1>9, <2>2, <2>3 DEF AccessAssertions, Puts
    <2>4. CASE f.type = "GETS"
      BY <1>9, <2>2, <2>4 DEF AccessAssertions, Puts
    <2>5. CASE f.type = "GETX"
      BY <1>9, <2>2, <2>5 DEF AccessAssertions, Puts
    <2>6. QED
      BY <1>5, <2>3, <2>4, <2>5 DEF Puts
  <1>10. CASE f.pc = "end"
    BY <1>4, <1>10 DEF AccessAssertions, OwnState
  <1>11. CASE f.pc \in {"tcc", "bcc"}
    BY <1>11 DEF AccessAssertions
  <1>12. QED
    BY <1>5, <1>6, <1>7, <1>8, <1>9, <1>10, <1>11

\* What CheckForMESIRace asserts when it finds that the child's state has changed.
LEMMA RaceAsserted ==
  ASSUME Consistent, Directory, NEW t \in Cores, Busy(t), NEW f, f = Top(t), f.fn = "access",
         f.pc = "bcc"
  PROVE  RaceAssertions(f)
  <1>1. PICK n : n = Len(stack[t])
    OBVIOUS
  <1>2. /\ n \in Frames(t) /\ f = stack[t][n] /\ f \in Frame /\ n \in Nat /\ (n = 1 \/ n > 1)
        /\ Types /\ Content /\ Linked
    BY <1>1, TopFacts, InStack, NatOne DEF Consistent
  <1>3. CASE n = 1
    <2>1. FirstFrame(t, f)
      BY <1>2, <1>3 DEF Linked, LinkedAt
    <2>2. ChildState(f) = f.initialState
      BY <2>1 DEF FirstFrame, ChildState
    <2>3. QED
      BY <2>2 DEF RaceAssertions
  <1>4. CASE n > 1
    <2>1. RequestState(f) /\ f.type \in {"GETS", "GETX", "PUTS", "PUTX"}
      BY <1>2, <1>4, FrameTypes DEF Content, ContentAt
    <2>2. PICK s : s = ChildState(f)
      OBVIOUS
    <2>3. /\ f.type = "GETS" => s = "I" /\ f.initialState = "I"
          /\ f.type = "GETX" => f.initialState \in {"I", "S"} /\ s \in {"I", f.initialState}
          /\ f.type = "PUTS" => s \in {"I", "S", f.initialState}
          /\ f.type = "PUTX" => f.initialState = "M" /\ s \in {"I", "S", "M"}
      BY <2>1, <2>2 DEF RequestState
    <2>4. s # f.initialState =>
            \/ f.type \in Puts /\ s \in {"I", "S"}
            \/ f.type = "GETX" /\ f.initialState = "S" /\ s = "I"
      BY <2>1, <2>3 DEF Puts
    <2>5. QED
      BY <2>2, <2>4 DEF RaceAssertions
  <1>5. QED
    BY <1>2, <1>3, <1>4

\* What invalidate asserts: the line is there, and in a state to be given up.
LEMMA InvalidateAsserted ==
  ASSUME Consistent, Directory, NEW t \in Cores, Busy(t), NEW f, f = Top(t), f.fn = "inv"
  PROVE  InvalidateAssertions(f)
  <1>1. PICK n, g, e : n = Len(stack[t]) /\ g = stack[t][n-1] /\ e = Dir(g)
    OBVIOUS
  <1>2. n \in Frames(t) /\ f = stack[t][n] /\ f \in Frame /\ Types /\ Linked /\ n \in Nat /\ (n = 1 \/ n > 1)
    BY <1>1, TopFacts, InStack, NatOne DEF Consistent
  <1>3. f.pc \in {"bcc", "down"} /\ f.type \in {"INV", "INVX"}
    BY <1>2, FrameTypes
  <1>4. CASE f.pc = "down"
    <2>1. At(t, "inv", "down")
      BY <1>4 DEF At
    <2>2. State(f) # "I" /\ (f.type = "INVX" => State(f) \in {"E", "M"})
      BY <1>1, <2>1, InvalidateLine
    <2>3. QED
      BY <1>3, <1>4, <2>2 DEF InvalidateAssertions
  <1>5. CASE f.pc = "bcc"
    <2>1. n > 1
      BY <1>2 DEF Linked, LinkedAt, FirstFrame
    <2>2. InvCall(t, g, f) /\ g \in Frame
      BY <1>1, <1>2, <2>1, CallerFacts
    <2>3. g.c \in Caches /\ g.slot \in Slots(g.c) /\ f.c \in tcc[g.c][g.slot].sharers
          /\ f.a = array[g.c][g.slot]
      BY <2>2, FrameTypes DEF InvCall, Dir
    <2>4. PICK s \in Slots(f.c) : array[f.c][s] = f.a
      BY <2>3 DEF Directory, Present
    <2>5. Holding(f.c, f.a) # {}
      BY <2>4 DEF Holding
    <2>6. QED
      BY <1>5, <2>5 DEF InvalidateAssertions
  <1>6. QED
    BY <1>3, <1>4, <1>5

\* "THIS IS THE ONLY CODE THAT SHOULD DEAL WITH RACES" (coherence_ctrls.h:248): after
\* the check in startAccess no interleaving reaches an assertion of the controllers.
THEOREM RaceFree == Spec => []NoAssertionFails
  <1>1. ASSUME IInv
        PROVE  NoAssertionFails
    <2>1. Consistent /\ Directory
      BY <1>1, InvParts
    <2> SUFFICES ASSUME NEW t \in Cores, Busy(t), NEW f, f = Top(t)
                 PROVE  IF f.fn = "inv" THEN InvalidateAssertions(f)
                        ELSE /\ AccessAssertions(f)
                             /\ f.pc = "top" /\ f.wb => State(f) \in {"E", "M"}
                             /\ f.pc = "bcc" /\ bccLock[f.c] = None => RaceAssertions(f)
      BY DEF NoAssertionFails
    <2>2. f.fn \in {"access", "inv"}
      BY <2>1, TopFacts, FrameTypes DEF Consistent
    <2>3. CASE f.fn = "inv"
      BY <2>1, <2>3, InvalidateAsserted
    <2>4. CASE f.fn = "access"
      BY <2>1, <2>4, AccessAsserted, RaceAsserted
    <2>5. QED
      BY <2>2, <2>3, <2>4
  <1>2. QED
    BY <1>1, Invariant, PTL
=============================================================================

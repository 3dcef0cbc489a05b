--------------------------- MODULE SchedulerProofs ---------------------------
(***************************************************************************)
(* The scheduler's invariants for every set of threads, cores and masks.   *)
(*                                                                         *)
(* SInv is what the record S satisfies between two lock sections, PInv how *)
(* each thread's place in the code fits it.  A lock section is made of     *)
(* moves (taking a context, giving one up, going to sleep, ...), and SInv  *)
(* is shown for each move: its parameter F is a thread that is QUEUED and  *)
(* in no queue, which is so between the two halves of a handoff, else      *)
(* None.                                                                   *)
(***************************************************************************)
EXTENDS Scheduler, FunctionTheorems, FiniteSetTheorems, SequenceTheorems,
        WellFoundedInduction, TLAPS

Holds(s, t) == s.state[t] \in {"RUNNING", "OUT"}

\* A context and the thread that holds it name each other.
Ctx(s) == \A t \in Threads, c \in Cores : s.curThread[c] = t <=> Holds(s, t) /\ s.cid[t] = c

\* The free list is the idle contexts.
Free(s) ==
    /\ NoRepeats(s.freeList)
    /\ \A c \in Cores : c \in Elems(s.freeList) <=> s.curThread[c] = None

Count(s) == s.scheduledThreads = Cardinality({t \in Threads : Holds(s, t)})

\* Each queue is the threads in its state.
Queues(s, F) ==
    /\ NoRepeats(s.runQueue)
    /\ NoRepeats(s.outQueue)
    /\ NoRepeats(s.sleepQueue)
    /\ NoRepeats(s.fakeLeaves)
    /\ \A t \in Threads : t \in Elems(s.outQueue) <=> s.state[t] = "OUT"
    /\ \A t \in Threads : t \in Elems(s.sleepQueue) <=> s.state[t] = "SLEEPING"
    /\ \A t \in Threads : t \in Elems(s.runQueue) <=>
           s.state[t] = "QUEUED" /\ t # F /\ \A v \in Threads : s.handoffThread[v] # t
    /\ \A t \in Elems(s.fakeLeaves) : s.state[t] = "RUNNING"

\* The barrier's members are the contexts that run a thread.
Bar(s) ==
    /\ \A c \in Cores : c \in s.members <=>
           s.curThread[c] # None /\ s.state[s.curThread[c]] = "RUNNING"
    /\ s.arrived \subseteq s.members

InMask(s) == \A t \in Threads : Holds(s, t) => s.cid[t] \in mask[t]

\* A pending handoff: from a thread that runs and is past the barrier to a queued
\* one, which nobody else is to hand a context to.
Hand(s, F) ==
    \A v \in Threads : s.handoffThread[v] # None =>
        /\ s.state[v] = "RUNNING"
        /\ s.cid[v] \notin s.arrived
        /\ s.state[s.handoffThread[v]] = "QUEUED"
        /\ s.handoffThread[v] # F
        /\ s.cid[v] \in mask[s.handoffThread[v]]
        /\ \A u \in Threads : s.handoffThread[u] = s.handoffThread[v] => u = v

Idle(s) ==
    \A t \in Elems(s.runQueue) : \A c \in mask[t] :
        s.curThread[c] # None /\ s.state[s.curThread[c]] = "RUNNING"

\* The sleepers are in order of deadline, and none is overdue.
Sleep(s) ==
    /\ \A i \in DOMAIN s.sleepQueue : s.left[s.sleepQueue[i]] >= 1
    /\ \A i, j \in DOMAIN s.sleepQueue :
           i < j => s.left[s.sleepQueue[i]] <= s.left[s.sleepQueue[j]]

\* Whoever waits, or is about to, has armed its futex word.
Words(s, F) ==
    /\ \A t \in Threads : s.state[t] = "SLEEPING" => s.futexWord[t] = 1
    /\ \A t \in Threads : s.state[t] = "QUEUED" /\ t # F => s.futexWord[t] = 1
    /\ \A t \in s.marked : s.state[t] = "RUNNING" /\ s.futexWord[t] = 1 /\ s.left[t] >= 1
    /\ \A t \in Threads : s.left[t] \in 0..MaxSleep

SInv(s, F) ==
    /\ s \in SchedState
    /\ Ctx(s) /\ Free(s) /\ Count(s)
    /\ Queues(s, F)
    /\ Bar(s) /\ InMask(s) /\ Hand(s, F) /\ Idle(s)
    /\ Sleep(s) /\ Words(s, F)
    /\ s.ok

\* How the place of a thread in the code fits its state.
Faking(t) == t \in Elems(S.fakeLeaves) \/ evict = t

Place(t) ==
    /\ pc[t] = "none" => S.state[t] = "DELETED"
    /\ pc[t] = "out" => S.state[t] \in {"STARTED", "BLOCKED", "SLEEPING", "OUT", "RUNNING"}
    /\ pc[t] = "out" /\ S.state[t] = "RUNNING" => Faking(t)
    /\ pc[t] \in {"run", "markNano", "markTimed", "sync", "handoff", "finleave"}
           => S.state[t] = "RUNNING"
    /\ pc[t] \in {"nano", "timed", "notify", "reap"} => S.state[t] \in {"SLEEPING", "BLOCKED"}
    /\ pc[t] = "ctx" => \/ S.state[t] = "QUEUED"
                        \/ S.state[t] = "RUNNING" /\ S.futexWord[t] = 0
    /\ pc[t] = "finish" => S.state[t] \in {"OUT", "BLOCKED"}
    /\ pc[t] = "dead" => S.state[t] \in {"STARTED", "BLOCKED", "SLEEPING", "OUT", "RUNNING"}
    /\ pc[t] = "reaped" => S.state[t] \in {"STARTED", "BLOCKED", "OUT", "RUNNING"}
    /\ t \in Elems(S.fakeLeaves) => pc[t] \in {"out", "dead", "reaped"}
    /\ evict = t => /\ pc[t] \in {"out", "dead"}
                    /\ S.state[t] = "RUNNING"
                    /\ t \notin Elems(S.fakeLeaves)
    /\ t \in S.marked <=> pc[t] \in {"markNano", "markTimed"}
    /\ S.state[t] = "RUNNING" /\ S.cid[t] \in S.arrived => pc[t] = "sync"
    /\ S.handoffThread[t] # None => pc[t] \in {"sync", "handoff"}
    /\ pc[t] = "handoff" => S.handoffThread[t] # None

PInv ==
    /\ pc \in [Threads -> PCs]
    /\ evict \in Threads \cup {None}
    /\ \A t \in Threads : Place(t)

IInv == SInv(S, None) /\ PInv

-----------------------------------------------------------------------------
(* Lists *)

LEMMA NatMin ==
  ASSUME NEW T \in SUBSET Nat, T # {}
  PROVE  \E x \in T : \A y \in T : x <= y
  <1> DEFINE R == OpToRel(<, Nat)
  <1>1. IsWellFoundedOn(R, Nat)
    BY NatLessThanWellFounded
  <1>2. \A x, y \in Nat : y < x => <<y, x>> \in R
    BY DEF OpToRel
  <1> HIDE DEF R
  <1>3. PICK x \in T : \A y \in T : ~(<<y, x>> \in R)
    BY <1>1, WFMin
  <1>4. \A y \in T : x <= y
    <2>1. TAKE y \in T
    <2>2. x \in Nat /\ y \in Nat /\ ~(y < x)
      BY <1>2, <1>3
    <2>3. QED
      BY <2>2
  <1>5. QED
    BY <1>4

\* The position of the first member of A in q
LEMMA FirstInFacts ==
  ASSUME NEW T, NEW q \in Seq(T), NEW A, Elems(q) \cap A # {}
  PROVE  \E i \in DOMAIN q : /\ FirstIn(q, A) = q[i]
                             /\ q[i] \in A
                             /\ \A j \in 1..i-1 : q[j] \notin A
  <1> DEFINE I == {i \in DOMAIN q : q[i] \in A}
  <1>1. I \in SUBSET Nat /\ I # {} /\ DOMAIN q = 1..Len(q) /\ Len(q) \in Nat
    BY LenProperties DEF Elems
  <1>2. PICK i \in I : \A j \in I : i <= j
    BY <1>1, NatMin
  <1>3. \A j \in 1..i-1 : q[j] \notin A
    BY <1>1, <1>2
  <1>4. \E k \in DOMAIN q : q[k] \in A /\ \A j \in 1..k-1 : q[j] \notin A
    BY <1>2, <1>3
  <1>5. QED
    BY <1>4 DEF FirstIn

\* What is left of a list keeps its order.
LEMMA WithoutFacts ==
  ASSUME NEW T, NEW q \in Seq(T), NEW A
  PROVE  LET w == Without(q, A)
         IN  /\ w \in Seq(T)
             /\ Elems(w) = Elems(q) \ A
             /\ \E p \in [DOMAIN w -> DOMAIN q] :
                   /\ \A n \in DOMAIN w : w[n] = q[p[n]]
                   /\ \A m, n \in DOMAIN w : m < n => p[m] < p[n]
  <1> DEFINE keep == {i \in DOMAIN q : q[i] \notin A}
             upto(i) == {j \in keep : j <= i}
             rank == [i \in keep |-> Cardinality(upto(i))]
             N == Cardinality(keep)
             p == [n \in 1..N |-> CHOOSE i \in keep : Cardinality(upto(i)) = n]
             w == Without(q, A)
  <1>1. DOMAIN q = 1..Len(q) /\ Len(q) \in Nat /\ keep \subseteq 1..Len(q) /\ keep \subseteq Nat
    BY LenProperties
  <1>2. IsFiniteSet(keep) /\ N \in Nat
    <2>1. IsFiniteSet(1..Len(q)) /\ keep \in SUBSET (1..Len(q))
      BY <1>1, FS_Interval
    <2>2. QED
      BY <2>1, FS_Subset, FS_CardinalityType
  <1>3. \A i \in keep : upto(i) \in SUBSET keep /\ i \in upto(i)
    BY <1>1
  <1>4. \A i, j \in keep : i < j => upto(i) \in SUBSET upto(j) /\ upto(i) # upto(j)
    BY <1>1
  <1> HIDE DEF upto, keep
  <1>5. \A i \in keep : IsFiniteSet(upto(i)) /\ Cardinality(upto(i)) \in 1..N
    <2>1. TAKE i \in keep
    <2>2. IsFiniteSet(upto(i)) /\ Cardinality(upto(i)) <= N
      BY <1>2, <1>3, FS_Subset
    <2>3. Cardinality(upto(i)) \in Nat /\ Cardinality(upto(i)) # 0
      BY <1>3, <2>2, FS_CardinalityType, FS_EmptySet
    <2>4. QED
      BY <1>2, <2>2, <2>3
  <1>6. rank \in Injection(keep, 1..N) /\ \A i, j \in keep : i < j => rank[i] < rank[j]
    <2>1. rank \in [keep -> 1..N]
      BY <1>5
    <2>2. ASSUME NEW i \in keep, NEW j \in keep, i < j
          PROVE  rank[i] < rank[j]
      <3>1. Cardinality(upto(i)) <= Cardinality(upto(j)) /\ Cardinality(upto(i)) # Cardinality(upto(j))
        BY <1>4, <1>5, <2>2, FS_Subset
      <3>2. rank[i] \in Nat /\ rank[j] \in Nat
        BY <1>2, <2>1
      <3>3. QED
        BY <3>1, <3>2
    <2>3. ASSUME NEW i \in keep, NEW j \in keep, rank[i] = rank[j]
          PROVE  i = j
      <3>1. i \in Nat /\ j \in Nat /\ rank[i] \in Nat
        BY <1>1, <1>2, <2>1
      <3>2. ~(i < j) /\ ~(j < i)
        BY <2>2, <2>3, <3>1
      <3>3. QED
        BY <3>1, <3>2
    <2>4. QED
      BY <2>1, <2>2, <2>3 DEF Injection, IsInjective
  <1>7. rank \in Surjection(keep, 1..N)
    <2>1. IsFiniteSet(1..N) /\ Cardinality(1..N) = N
      BY <1>2, FS_Interval
    <2>2. QED
      BY <1>6, <2>1, FS_Injection
  <1>8. \A n \in 1..N : p[n] \in keep /\ rank[p[n]] = n
    <2>1. TAKE n \in 1..N
    <2>2. \E i \in keep : rank[i] = n
      BY <1>7 DEF Surjection
    <2>3. \E i \in keep : Cardinality(upto(i)) = n
      BY <2>2
    <2>4. QED
      BY <2>3
  <1>9. w = [n \in 1..N |-> q[p[n]]]
    BY DEF Without, keep, upto
  <1>10. \A i \in keep : rank[i] \in 1..N /\ p[rank[i]] = i
    BY <1>5, <1>6, <1>8 DEF Injection, IsInjective
  <1>11. p \in [1..N -> keep]
    BY <1>8
  <1> HIDE DEF p, w, N, rank
  <1>12. DOMAIN w = 1..N /\ \A n \in 1..N : w[n] = q[p[n]]
    BY <1>9
  <1>13. w \in Seq(T)
    <2>1. \A n \in 1..N : q[p[n]] \in T
      BY <1>1, <1>8, ElementOfSeq
    <2>2. w \in [1..N -> T]
      BY <1>9, <2>1
    <2>3. QED
      BY <1>2, <2>2, SeqDef
  <1>14. p \in [DOMAIN w -> DOMAIN q]
    BY <1>1, <1>11, <1>12
  <1>15. \A m, n \in 1..N : m < n => p[m] < p[n]
    <2>1. SUFFICES ASSUME NEW m \in 1..N, NEW n \in 1..N, m < n
                   PROVE  p[m] < p[n]
      OBVIOUS
    <2>2. p[m] \in Nat /\ p[n] \in Nat /\ p[m] \in keep /\ p[n] \in keep
      BY <1>1, <1>8
    <2>3. ~(p[n] < p[m]) /\ p[n] # p[m]
      BY <1>2, <1>6, <1>8, <2>1, <2>2
    <2>4. QED
      BY <2>2, <2>3
  <1>16. Elems(w) = Elems(q) \ A
    <2>1. ASSUME NEW i \in keep
          PROVE  q[i] \in Elems(w)
      BY <1>10, <1>12 DEF Elems
    <2>2. \A i \in DOMAIN q : i \in keep <=> q[i] \notin A
      BY DEF keep
    <2>3. Elems(w) \subseteq Elems(q) \ A
      BY <1>8, <1>12, <2>2 DEF Elems, keep
    <2>4. QED
      BY <2>1, <2>2, <2>3 DEF Elems
  <1>17. QED
    BY <1>12, <1>13, <1>14, <1>15, <1>16 DEF w

\* The same for one element, and for lists without repetition.
LEMMA RemoveFacts ==
  ASSUME NEW T, NEW q \in Seq(T), NEW A, NoRepeats(q)
  PROVE  /\ Without(q, A) \in Seq(T)
         /\ NoRepeats(Without(q, A))
         /\ Elems(Without(q, A)) = Elems(q) \ A
  <1> DEFINE w == Without(q, A)
  <1>1. PICK p \in [DOMAIN w -> DOMAIN q] :
             /\ \A n \in DOMAIN w : w[n] = q[p[n]]
             /\ \A m, n \in DOMAIN w : m < n => p[m] < p[n]
    BY WithoutFacts
  <1>2. w \in Seq(T) /\ Elems(w) = Elems(q) \ A
    BY WithoutFacts
  <1> HIDE DEF w
  <1>3. DOMAIN w \subseteq Nat /\ DOMAIN q \subseteq Nat
    BY <1>2, LenProperties
  <1>4. ASSUME NEW m \in DOMAIN w, NEW n \in DOMAIN w, w[m] = w[n]
        PROVE  m = n
    <2>1. p[m] = p[n] /\ p[m] \in Nat
      BY <1>1, <1>3, <1>4 DEF NoRepeats
    <2>2. ~(m < n) /\ ~(n < m)
      BY <1>1, <2>1
    <2>3. QED
      BY <1>3, <2>2
  <1>5. NoRepeats(w)
    BY <1>4 DEF NoRepeats
  <1>6. QED
    BY <1>2, <1>5 DEF w

\* A list that is ordered by f stays ordered by g if that orders what is left like f.
LEMMA WithoutOrder ==
  ASSUME NEW T, NEW q \in Seq(T), NEW A, NEW f, NEW g,
         \A i, j \in DOMAIN q : i < j => f[q[i]] <= f[q[j]],
         \A u, v \in Elems(q) \ A : f[u] <= f[v] => g[u] <= g[v]
  PROVE  LET w == Without(q, A)
         IN  \A i, j \in DOMAIN w : i < j => g[w[i]] <= g[w[j]]
  <1> DEFINE w == Without(q, A)
  <1>1. PICK p \in [DOMAIN w -> DOMAIN q] :
             /\ \A n \in DOMAIN w : w[n] = q[p[n]]
             /\ \A m, n \in DOMAIN w : m < n => p[m] < p[n]
    BY WithoutFacts
  <1>2. Elems(w) = Elems(q) \ A
    BY WithoutFacts
  <1> HIDE DEF w
  <1>3. \A i \in DOMAIN w : w[i] \in Elems(q) \ A
    BY <1>2 DEF Elems
  <1>4. \A i, j \in DOMAIN w : i < j => g[w[i]] <= g[w[j]]
    BY <1>1, <1>3
  <1>5. QED
    BY <1>4 DEF w

LEMMA AppendFacts ==
  ASSUME NEW T, NEW q \in Seq(T), NEW x \in T
  PROVE  /\ Append(q, x) \in Seq(T)
         /\ Elems(Append(q, x)) = Elems(q) \cup {x}
         /\ NoRepeats(q) /\ x \notin Elems(q) => NoRepeats(Append(q, x))
  <1> DEFINE w == Append(q, x)
  <1>1. /\ w \in Seq(T) /\ Len(w) = Len(q) + 1 /\ Len(q) \in Nat
        /\ DOMAIN w = 1..Len(q)+1 /\ DOMAIN q = 1..Len(q)
        /\ \A i \in 1..Len(q) : w[i] = q[i]
        /\ w[Len(q)+1] = x
    BY AppendProperties, LenProperties
  <1> HIDE DEF w
  <1>2. Elems(w) = Elems(q) \cup {x}
    <2>1. \A i \in DOMAIN w : i \in DOMAIN q \/ i = Len(q) + 1
      BY <1>1
    <2>2. DOMAIN q \subseteq DOMAIN w /\ Len(q) + 1 \in DOMAIN w
      BY <1>1
    <2>3. QED
      BY <1>1, <2>1, <2>2 DEF Elems
  <1>3. ASSUME NoRepeats(q), x \notin Elems(q)
        PROVE  NoRepeats(w)
    BY <1>1, <1>3 DEF NoRepeats, Elems
  <1>4. QED
    BY <1>1, <1>2, <1>3 DEF w

LEMMA TailFacts ==
  ASSUME NEW T, NEW q \in Seq(T), q # <<>>, NoRepeats(q)
  PROVE  /\ Tail(q) \in Seq(T)
         /\ NoRepeats(Tail(q))
         /\ Head(q) \in Elems(q)
         /\ Elems(Tail(q)) = Elems(q) \ {Head(q)}
  <1> DEFINE w == Tail(q)
  <1>1. /\ w \in Seq(T) /\ Len(w) = Len(q) - 1 /\ Len(q) \in Nat \ {0}
        /\ DOMAIN w = 1..Len(q)-1 /\ DOMAIN q = 1..Len(q)
        /\ \A i \in 1..Len(q)-1 : w[i] = q[i+1]
        /\ Head(q) = q[1]
    BY HeadTailProperties, LenProperties, EmptySeq
  <1> HIDE DEF w
  <1>2. NoRepeats(w)
    <2>1. SUFFICES ASSUME NEW i \in DOMAIN w, NEW j \in DOMAIN w, w[i] = w[j]
                   PROVE  i = j
      BY DEF NoRepeats
    <2>2. i + 1 \in DOMAIN q /\ j + 1 \in DOMAIN q /\ q[i+1] = q[j+1]
      BY <1>1, <2>1
    <2>3. i + 1 = j + 1
      BY <2>2 DEF NoRepeats
    <2>4. QED
      BY <1>1, <2>3
  <1>3. Elems(w) = Elems(q) \ {q[1]}
    <2>1. ASSUME NEW i \in 2..Len(q)
          PROVE  q[i] \in Elems(w) /\ q[i] # q[1]
      <3>1. i - 1 \in DOMAIN w /\ w[i - 1] = q[i]
        BY <1>1
      <3>2. QED
        BY <1>1, <3>1 DEF Elems, NoRepeats
    <2>2. \A i \in DOMAIN w : i + 1 \in 2..Len(q) /\ w[i] = q[i + 1]
      BY <1>1
    <2>3. DOMAIN q = {1} \cup 2..Len(q)
      BY <1>1
    <2>4. QED
      BY <2>1, <2>2, <2>3 DEF Elems
  <1>4. q[1] \in Elems(q)
    BY <1>1 DEF Elems
  <1>5. QED
    BY <1>1, <1>2, <1>3, <1>4 DEF w

LEMMA ElemsType ==
  ASSUME NEW T, NEW q \in Seq(T)
  PROVE  Elems(q) \subseteq T
  BY ElementOfSeq, LenProperties DEF Elems

\* A sleeper goes where its deadline belongs.
LEMMA SleepInsertFacts ==
  ASSUME NEW s \in SchedState, NEW t \in Threads, Sleep(s), NoRepeats(s.sleepQueue),
         t \notin Elems(s.sleepQueue), s.left[t] >= 1
  PROVE  LET w == SleepInsert(s, t)
         IN  /\ w \in Seq(Threads)
             /\ NoRepeats(w)
             /\ Elems(w) = Elems(s.sleepQueue) \cup {t}
             /\ \A i \in DOMAIN w : s.left[w[i]] >= 1
             /\ \A i, j \in DOMAIN w : i < j => s.left[w[i]] <= s.left[w[j]]
  <1> DEFINE q == s.sleepQueue
             L == Len(q)
             At(n) == /\ \A j \in 1..n : s.left[q[j]] <= s.left[t]
                      /\ n = L \/ s.left[q[n + 1]] > s.left[t]
             k == CHOOSE n \in 0..L : At(n)
             w == SleepInsert(s, t)
  <1>1. q \in Seq(Threads) /\ L \in Nat /\ DOMAIN q = 1..L /\ (\A i \in 1..L : q[i] \in Threads)
    BY LenProperties, ElementOfSeq DEF SchedState
  <1>2. \A u \in Threads : s.left[u] \in Int
    BY DEF SchedState
  <1>3. \E n \in 0..L : At(n)
    <2> DEFINE I == {n \in 0..L : n = L \/ s.left[q[n + 1]] > s.left[t]}
    <2>1. I \in SUBSET Nat /\ L \in I
      BY <1>1
    <2>2. PICK n \in I : \A m \in I : n <= m
      BY <2>1, NatMin
    <2>3. ASSUME NEW j \in 1..n
          PROVE  s.left[q[j]] <= s.left[t]
      <3>1. j \in 1..L /\ j - 1 \in 0..L /\ j - 1 < n /\ n <= L /\ (j - 1) + 1 = j
        BY <1>1, <2>2
      <3>2. j - 1 \notin I
        BY <2>2, <3>1
      <3>3. ~(s.left[q[j]] > s.left[t])
        BY <3>1, <3>2
      <3>4. QED
        BY <1>1, <1>2, <3>1, <3>3
    <2>4. QED
      BY <2>2, <2>3
  <1>4. k \in 0..L /\ At(k)
    BY <1>3
  <1>5. w = SubSeq(q, 1, k) \o <<t>> \o SubSeq(q, k + 1, L)
    BY DEF SleepInsert
  <1> HIDE DEF k, w, q, L, At
  <1>K. k \in Nat /\ L \in Nat /\ k <= L
    BY <1>1, <1>4
  <1>6. /\ SubSeq(q, 1, k) \in Seq(Threads) /\ Len(SubSeq(q, 1, k)) = k
        /\ \A i \in 1..k : SubSeq(q, 1, k)[i] = q[i]
    BY <1>1, <1>K, SubSeqProperties
  <1>7. /\ SubSeq(q, k + 1, L) \in Seq(Threads) /\ Len(SubSeq(q, k + 1, L)) = L - k
        /\ \A i \in 1..L-k : SubSeq(q, k + 1, L)[i] = q[k + i]
    <2>1. k + 1 \in Int /\ L \in Int /\ \A i \in k+1..L : q[i] \in Threads
      BY <1>1, <1>K
    <2>2. /\ SubSeq(q, k + 1, L) \in Seq(Threads)
          /\ Len(SubSeq(q, k + 1, L)) = IF k + 1 <= L THEN L - (k + 1) + 1 ELSE 0
          /\ \A i \in 1..L-(k+1)+1 : SubSeq(q, k + 1, L)[i] = q[k + 1 + i - 1]
      BY <2>1, SubSeqProperties
    <2>3. QED
      BY <1>1, <1>K, <2>2
  <1>8. /\ w \in Seq(Threads) /\ Len(w) = L + 1 /\ DOMAIN w = 1..L+1
        /\ \A i \in 1..k : w[i] = q[i]
        /\ w[k + 1] = t
        /\ \A i \in k+2..L+1 : w[i] = q[i - 1]
    <2> DEFINE a == SubSeq(q, 1, k)
               b == SubSeq(q, k + 1, L)
               d == a \o <<t>>
    <2>1. <<t>> \in Seq(Threads) /\ Len(<<t>>) = 1 /\ <<t>>[1] = t
      OBVIOUS
    <2> HIDE DEF a, b
    <2>2. /\ d \in Seq(Threads) /\ Len(d) = k + 1
          /\ \A i \in 1..k : d[i] = q[i]
          /\ d[k + 1] = t
      <3>1. a \in Seq(Threads) /\ Len(a) = k /\ \A i \in 1..k : a[i] = q[i]
        BY <1>6 DEF a
      <3>2. /\ d \in Seq(Threads) /\ Len(d) = k + 1
            /\ \A i \in 1..k+1 : d[i] = IF i <= k THEN a[i] ELSE <<t>>[i - k]
        BY <2>1, <3>1, ConcatProperties
      <3> HIDE DEF d
      <3>3. \A i \in 1..k : i \in 1..k+1 /\ i <= k
        BY <1>K
      <3>4. k + 1 \in 1..k+1 /\ ~(k + 1 <= k) /\ (k + 1) - k = 1
        BY <1>K
      <3>5. QED
        BY <2>1, <3>1, <3>2, <3>3, <3>4
    <2> HIDE DEF d
    <2>3. /\ w \in Seq(Threads) /\ Len(w) = L + 1
          /\ \A i \in 1..L+1 : w[i] = IF i <= k + 1 THEN d[i] ELSE b[i - (k + 1)]
      <3>1. w = d \o b
        BY <1>5 DEF a, b, d
      <3>2. b \in Seq(Threads) /\ Len(b) = L - k
        BY <1>7 DEF b
      <3>3. /\ w \in Seq(Threads) /\ Len(w) = (k + 1) + (L - k)
            /\ \A i \in 1..(k+1)+(L-k) : w[i] = IF i <= k + 1 THEN d[i] ELSE b[i - (k + 1)]
        <4>1. /\ d \o b \in Seq(Threads) /\ Len(d \o b) = Len(d) + Len(b)
              /\ \A i \in 1..Len(d)+Len(b) : (d \o b)[i] = IF i <= Len(d) THEN d[i] ELSE b[i - Len(d)]
          BY <2>2, <3>2, ConcatProperties
        <4>2. QED
          BY <2>2, <3>1, <3>2, <4>1
      <3>4. (k + 1) + (L - k) = L + 1
        BY <1>1, <1>K
      <3>5. QED
        BY <3>3, <3>4
    <2>4. ASSUME NEW i \in k+2..L+1
          PROVE  w[i] = q[i - 1]
      <3>1. i \in 1..L+1 /\ ~(i <= k + 1) /\ i - (k + 1) \in 1..L-k /\ k + (i - (k + 1)) = i - 1
        BY <1>1, <1>K
      <3>2. b[i - (k + 1)] = q[i - 1]
        BY <1>7, <3>1 DEF b
      <3>3. QED
        BY <2>3, <3>1, <3>2
    <2>5. \A i \in 1..k+1 : i \in 1..L+1 /\ w[i] = d[i]
      BY <1>K, <2>3
    <2>6. k + 1 \in 1..k+1 /\ \A i \in 1..k : i \in 1..k+1
      BY <1>K
    <2>7. DOMAIN w = 1..L+1
      BY <2>3, LenProperties
    <2>8. QED
      BY <2>2, <2>3, <2>4, <2>5, <2>6, <2>7
  <1>9. \A i \in DOMAIN w : i \in 1..k \/ i = k + 1 \/ (i \in k+2..L+1 /\ i - 1 \in k+1..L)
    BY <1>1, <1>K, <1>8
  <1>10. Elems(w) = Elems(q) \cup {t}
    <2>1. Elems(w) \subseteq Elems(q) \cup {t}
      <3>1. SUFFICES ASSUME NEW i \in DOMAIN w
                     PROVE  w[i] \in Elems(q) \cup {t}
        BY DEF Elems
      <3>2. CASE i \in 1..k
        BY <1>1, <1>K, <1>8, <3>2 DEF Elems
      <3>3. CASE i = k + 1
        BY <1>8, <3>3
      <3>4. CASE i \in k+2..L+1 /\ i - 1 \in k+1..L
        <4>1. i - 1 \in DOMAIN q /\ w[i] = q[i - 1]
          BY <1>1, <1>K, <1>8, <3>4
        <4>2. QED
          BY <4>1 DEF Elems
      <3>5. QED
        BY <1>9, <3>2, <3>3, <3>4
    <2>2. ASSUME NEW i \in DOMAIN q
          PROVE  q[i] \in Elems(w)
      <3>1. CASE i <= k
        BY <1>1, <1>K, <1>8, <3>1 DEF Elems
      <3>2. CASE i > k
        <4>1. i + 1 \in k+2..L+1 /\ i + 1 \in DOMAIN w /\ (i + 1) - 1 = i
          BY <1>1, <1>K, <1>8, <3>2
        <4>2. w[i + 1] = q[i]
          BY <1>8, <4>1
        <4>3. QED
          BY <4>1, <4>2 DEF Elems
      <3>3. QED
        BY <1>1, <1>K, <3>1, <3>2
    <2>3. t \in Elems(w)
      <3>1. k + 1 \in DOMAIN w
        BY <1>1, <1>K, <1>8
      <3>2. QED
        BY <1>8, <3>1 DEF Elems
    <2>4. Elems(q) \subseteq Elems(w)
      BY <2>2 DEF Elems
    <2>5. QED
      BY <2>1, <2>3, <2>4
  <1> DEFINE g(i) == IF i <= k THEN i ELSE i - 1
  <1>11. \A i \in DOMAIN w : i # k + 1 => g(i) \in DOMAIN q /\ w[i] = q[g(i)]
    BY <1>1, <1>K, <1>8, <1>9
  <1>12. \A i, j \in DOMAIN w : i # k + 1 /\ j # k + 1 /\ i < j => g(i) < g(j)
    BY <1>1, <1>K, <1>8
  <1>13. \A i \in DOMAIN w : i \in Int /\ (i < k + 1 => g(i) = i) /\ (i > k + 1 => g(i) >= k + 1)
    BY <1>1, <1>K, <1>8
  <1>14. /\ \A i \in DOMAIN q : s.left[q[i]] \in Int /\ s.left[q[i]] >= 1
         /\ \A i, j \in DOMAIN q : i < j => s.left[q[i]] <= s.left[q[j]]
         /\ DOMAIN q \subseteq Int
    BY <1>1, <1>2 DEF Sleep, q
  <1> HIDE DEF g
  <1>15. NoRepeats(w)
    <2>1. SUFFICES ASSUME NEW i \in DOMAIN w, NEW j \in DOMAIN w, w[i] = w[j]
                   PROVE  i = j
      BY DEF NoRepeats
    <2>2. CASE i = k + 1 \/ j = k + 1
      BY <1>8, <1>11, <2>1, <2>2 DEF Elems, q
    <2>3. CASE i # k + 1 /\ j # k + 1
      <3>1. g(i) = g(j) /\ g(i) \in Int
        BY <1>11, <1>14, <2>1, <2>3 DEF NoRepeats, q
      <3>2. ~(i < j) /\ ~(j < i)
        BY <1>12, <2>3, <3>1
      <3>3. QED
        BY <1>13, <3>2
    <2>4. QED
      BY <2>2, <2>3
  <1>16. \A i \in DOMAIN w : s.left[w[i]] >= 1
    BY <1>8, <1>11, <1>14
  <1>17. \A i, j \in DOMAIN w : i < j => s.left[w[i]] <= s.left[w[j]]
    <2>1. SUFFICES ASSUME NEW i \in DOMAIN w, NEW j \in DOMAIN w, i < j
                   PROVE  s.left[w[i]] <= s.left[w[j]]
      OBVIOUS
    <2>2. CASE i # k + 1 /\ j # k + 1
      BY <1>11, <1>12, <1>14, <2>1, <2>2
    <2>3. CASE j = k + 1
      <3>1. i \in 1..k
        BY <1>1, <1>K, <1>8, <2>1, <2>3
      <3>2. QED
        BY <1>4, <1>8, <2>3, <3>1 DEF At
    <2>4. CASE i = k + 1
      <3>1. j > k + 1 /\ j # k + 1 /\ k # L /\ k + 1 \in DOMAIN q
        BY <1>1, <1>K, <1>8, <2>1, <2>4
      <3>2. g(j) \in DOMAIN q /\ w[j] = q[g(j)] /\ g(j) >= k + 1 /\ g(j) \in Int
        BY <1>11, <1>13, <1>14, <3>1
      <3>3. s.left[q[k + 1]] > s.left[t] /\ s.left[t] \in Int
        BY <1>2, <1>4, <3>1 DEF At
      <3>4. s.left[q[k + 1]] <= s.left[q[g(j)]]
        <4>1. CASE g(j) = k + 1
          BY <1>14, <3>1, <4>1
        <4>2. CASE g(j) > k + 1
          BY <1>14, <3>1, <3>2, <4>2
        <4>3. QED
          BY <1>K, <3>2, <4>1, <4>2
      <3>5. QED
        BY <1>8, <1>14, <2>4, <3>1, <3>2, <3>3, <3>4
    <2>5. QED
      BY <2>2, <2>3, <2>4
  <1>18. QED
    BY <1>8, <1>10, <1>15, <1>16, <1>17 DEF w, q

-----------------------------------------------------------------------------
(* Counting *)

LEMMA CountAdd ==
  ASSUME NEW A \in SUBSET Threads, NEW t \in Threads \ A
  PROVE  Cardinality(A \cup {t}) = Cardinality(A) + 1
  BY ThreadsAssumption, FS_Subset, FS_AddElement

LEMMA CountRemove ==
  ASSUME NEW A \in SUBSET Threads, NEW t \in A
  PROVE  Cardinality(A \ {t}) = Cardinality(A) - 1
  BY ThreadsAssumption, FS_Subset, FS_RemoveElement

LEMMA CountType ==
  ASSUME NEW A \in SUBSET Threads
  PROVE  Cardinality(A) \in Nat
  BY ThreadsAssumption, FS_Subset, FS_CardinalityType

LEMMA CountSwap ==
  ASSUME NEW A \in SUBSET Threads, NEW t \in A, NEW u \in Threads \ A
  PROVE  Cardinality((A \ {t}) \cup {u}) = Cardinality(A)
  <1>1. Cardinality(A \ {t}) = Cardinality(A) - 1 /\ Cardinality(A) \in Nat
    BY CountRemove, CountType
  <1>2. A \ {t} \in SUBSET Threads /\ u \in Threads \ (A \ {t})
    OBVIOUS
  <1>3. Cardinality((A \ {t}) \cup {u}) = Cardinality(A \ {t}) + 1
    BY <1>2, CountAdd
  <1>4. QED
    BY <1>1, <1>3

Holding(s) == {t \in Threads : Holds(s, t)}

\* There are at most as many threads with a context as contexts.
LEMMA HoldingBound ==
  ASSUME NEW s \in SchedState, Ctx(s), Count(s)
  PROVE  s.scheduledThreads \in 0..numCores
  <1> DEFINE f == [t \in Holding(s) |-> s.cid[t]]
  <1>1. f \in Injection(Holding(s), Cores)
    <2>1. f \in [Holding(s) -> Cores]
      BY DEF SchedState, Holding
    <2>2. ASSUME NEW t \in Holding(s), NEW u \in Holding(s), f[t] = f[u]
          PROVE  t = u
      BY <2>2 DEF Ctx, Holding, SchedState
    <2>3. QED
      BY <2>1, <2>2 DEF Injection, IsInjective
  <1>2. IsFiniteSet(Cores) /\ Cardinality(Cores) = numCores
    <2>1. 0 \in Int /\ numCores - 1 \in Int /\ ~(0 > numCores - 1) /\ (numCores - 1) - 0 + 1 = numCores
      BY CoresAssumption
    <2>2. QED
      BY <2>1, FS_Interval DEF Cores
  <1>3. Cardinality(Holding(s)) <= numCores
    BY <1>1, <1>2, FS_Injection
  <1>4. Cardinality(Holding(s)) \in Nat
    BY CountType DEF Holding
  <1>5. QED
    BY <1>3, <1>4, CoresAssumption DEF Count, Holding

\* The threads that are out are counted by their queue: when there are as many as
\* threads with a context, nobody runs.
LEMMA AllOut ==
  ASSUME NEW s \in SchedState, NEW F, Count(s), Queues(s, F), s.scheduledThreads = Len(s.outQueue)
  PROVE  \A t \in Threads : s.state[t] # "RUNNING"
  <1> DEFINE q == s.outQueue
             O == {t \in Threads : s.state[t] = "OUT"}
  <1>1. q \in Seq(Threads) /\ Len(q) \in Nat /\ q \in [1..Len(q) -> Threads] /\ DOMAIN q = 1..Len(q)
    BY LenProperties DEF SchedState
  <1>2. Elems(q) = O /\ NoRepeats(q)
    BY <1>1, ElemsType DEF Queues
  <1>3. q \in Bijection(1..Len(q), O)
    <2>1. q \in [1..Len(q) -> O]
      BY <1>1, <1>2 DEF Elems
    <2>2. \A i, j \in 1..Len(q) : q[i] = q[j] => i = j
      BY <1>1, <1>2 DEF NoRepeats
    <2>3. \A t \in O : \E i \in 1..Len(q) : q[i] = t
      BY <1>1, <1>2 DEF Elems
    <2> HIDE DEF q, O
    <2>4. QED
      BY <2>1, <2>2, <2>3 DEF Bijection, Injection, Surjection, IsInjective
  <1>4. Cardinality(O) = Len(q)
    BY <1>1, <1>3, FS_CountingElements DEF ExistsBijection
  <1>5. O \in SUBSET Holding(s) /\ IsFiniteSet(Holding(s))
    BY ThreadsAssumption, FS_Subset DEF Holding, Holds
  <1>6. Cardinality(Holding(s)) = Cardinality(O)
    BY <1>4 DEF Count, Holding
  <1>7. O = Holding(s)
    BY <1>5, <1>6, FS_Subset
  <1>8. QED
    BY <1>7 DEF Holding, Holds

-----------------------------------------------------------------------------
(* What the member functions do to the record *)

Fields == {"state", "cid", "handoffThread", "futexWord", "marked", "left", "curThread",
           "freeList", "runQueue", "outQueue", "sleepQueue", "fakeLeaves",
           "scheduledThreads", "phase", "members", "arrived", "ok"}

\* r differs from s in the fields C at most.
Keeps(s, r, C) == \A f \in Fields \ C : r[f] = s[f]

LEMMA CheckedFacts ==
  ASSUME NEW s \in SchedState, NEW b \in BOOLEAN
  PROVE  /\ Checked(s, b) \in SchedState
         /\ Keeps(s, Checked(s, b), {"ok"})
         /\ Checked(s, b).ok <=> s.ok /\ b
  BY DEF Checked, SchedState, Keeps, Fields

LEMMA ScheduleFacts ==
  ASSUME NEW s \in SchedState, NEW t \in Threads, NEW c \in Cores
  PROVE  LET r == schedule(s, t, c)
         IN  /\ r \in SchedState
             /\ r.state = [s.state EXCEPT ![t] = "RUNNING"]
             /\ r.cid = [s.cid EXCEPT ![t] = c]
             /\ r.curThread = [s.curThread EXCEPT ![c] = t]
             /\ r.scheduledThreads = s.scheduledThreads + 1
             /\ r.ok <=> s.ok /\ s.state[t] \in {"STARTED", "BLOCKED", "QUEUED"} /\ s.curThread[c] = None
             /\ Keeps(s, r, {"state", "cid", "curThread", "scheduledThreads", "ok"})
  <1> DEFINE u == [s EXCEPT !.state[t] = "RUNNING", !.cid[t] = c, !.curThread[c] = t,
                            !.scheduledThreads = @ + 1]
             b == s.state[t] \in {"STARTED", "BLOCKED", "QUEUED"} /\ s.curThread[c] = None
             r == schedule(s, t, c)
  <1>1. /\ u.state = [s.state EXCEPT ![t] = "RUNNING"]
        /\ u.cid = [s.cid EXCEPT ![t] = c]
        /\ u.curThread = [s.curThread EXCEPT ![c] = t]
        /\ u.scheduledThreads = s.scheduledThreads + 1
        /\ Keeps(s, u, {"state", "cid", "curThread", "scheduledThreads"})
    BY DEF SchedState, Keeps, Fields
  <1>2. DOMAIN u = DOMAIN s /\ u = [x \in DOMAIN u |-> u[x]]
    OBVIOUS
  <1>3. r = Checked(u, b) /\ b \in BOOLEAN
    BY DEF schedule
  <1> HIDE DEF u, b
  <1>4. u \in SchedState
    <2>1. /\ u.state \in [Threads -> States] /\ u.cid \in [Threads -> Cores]
          /\ u.curThread \in [Cores -> Threads \cup {None}] /\ u.scheduledThreads \in Int
      BY <1>1 DEF SchedState, States
    <2>2. QED
      BY <1>1, <1>2, <2>1 DEF SchedState, Keeps, Fields
  <1> HIDE DEF r
  <1>5. r \in SchedState /\ Keeps(u, r, {"ok"}) /\ (r.ok <=> u.ok /\ b)
    BY <1>3, <1>4, CheckedFacts
  <1>6. /\ r.state = u.state /\ r.cid = u.cid /\ r.curThread = u.curThread
        /\ r.scheduledThreads = u.scheduledThreads
        /\ Keeps(s, r, {"state", "cid", "curThread", "scheduledThreads", "ok"})
        /\ u.ok = s.ok
    BY <1>1, <1>5 DEF Keeps, Fields
  <1>7. QED
    BY <1>1, <1>5, <1>6 DEF r, b

LEMMA DescheduleFacts ==
  ASSUME NEW s \in SchedState, NEW t \in Threads, NEW c \in Cores, NEW target \in States
  PROVE  LET r == deschedule(s, t, c, target)
         IN  /\ r \in SchedState
             /\ r.state = [s.state EXCEPT ![t] = target]
             /\ r.curThread = [s.curThread EXCEPT ![c] = None]
             /\ r.scheduledThreads = s.scheduledThreads - 1
             /\ r.ok <=> s.ok /\ s.state[t] \in {"RUNNING", "OUT"} /\ s.cid[t] = c /\ s.curThread[c] = t
             /\ Keeps(s, r, {"state", "curThread", "scheduledThreads", "ok"})
  <1> DEFINE u == [s EXCEPT !.state[t] = target, !.curThread[c] = None, !.scheduledThreads = @ - 1]
             b == s.state[t] \in {"RUNNING", "OUT"} /\ s.cid[t] = c /\ s.curThread[c] = t
             r == deschedule(s, t, c, target)
  <1>1. /\ u.state = [s.state EXCEPT ![t] = target]
        /\ u.curThread = [s.curThread EXCEPT ![c] = None]
        /\ u.scheduledThreads = s.scheduledThreads - 1
        /\ Keeps(s, u, {"state", "curThread", "scheduledThreads"})
    BY DEF SchedState, Keeps, Fields
  <1>2. DOMAIN u = DOMAIN s /\ u = [x \in DOMAIN u |-> u[x]]
    OBVIOUS
  <1>3. r = Checked(u, b) /\ b \in BOOLEAN
    BY DEF deschedule
  <1> HIDE DEF u, b
  <1>4. u \in SchedState
    <2>1. /\ u.state \in [Threads -> States]
          /\ u.curThread \in [Cores -> Threads \cup {None}] /\ u.scheduledThreads \in Int
      BY <1>1 DEF SchedState
    <2>2. QED
      BY <1>1, <1>2, <2>1 DEF SchedState, Keeps, Fields
  <1> HIDE DEF r
  <1>5. r \in SchedState /\ Keeps(u, r, {"ok"}) /\ (r.ok <=> u.ok /\ b)
    BY <1>3, <1>4, CheckedFacts
  <1>6. /\ r.state = u.state /\ r.curThread = u.curThread
        /\ r.scheduledThreads = u.scheduledThreads
        /\ Keeps(s, r, {"state", "curThread", "scheduledThreads", "ok"})
        /\ u.ok = s.ok
    BY <1>1, <1>5 DEF Keeps, Fields
  <1>7. QED
    BY <1>1, <1>5, <1>6 DEF r, b

LEMMA WordFacts ==
  ASSUME NEW s \in SchedState, NEW t \in Threads, NEW n \in 0..1
  PROVE  LET r == [s EXCEPT !.futexWord[t] = n]
         IN  /\ r \in SchedState
             /\ r.futexWord = [s.futexWord EXCEPT ![t] = n]
             /\ Keeps(s, r, {"futexWord"})
  <1> DEFINE r == [s EXCEPT !.futexWord[t] = n]
  <1>1. r.futexWord = [s.futexWord EXCEPT ![t] = n] /\ Keeps(s, r, {"futexWord"})
    BY DEF SchedState, Keeps, Fields
  <1>2. DOMAIN r = DOMAIN s /\ r = [x \in DOMAIN r |-> r[x]]
    OBVIOUS
  <1> HIDE DEF r
  <1>3. r.futexWord \in [Threads -> 0..1]
    BY <1>1 DEF SchedState
  <1>4. r \in SchedState
    BY <1>1, <1>2, <1>3 DEF SchedState, Keeps, Fields
  <1>5. QED
    BY <1>1, <1>4 DEF r

LEMMA WaitFacts ==
  ASSUME NEW s \in SchedState, NEW t \in Threads
  PROVE  LET r == waitForContext(s, t)
         IN  /\ r \in SchedState
             /\ r.futexWord = [s.futexWord EXCEPT ![t] = 1]
             /\ Keeps(s, r, {"futexWord"})
  <1>1. 1 \in 0..1
    OBVIOUS
  <1>2. QED
    BY <1>1, WordFacts DEF waitForContext

LEMMA WakeupFacts ==
  ASSUME NEW s \in SchedState, NEW t \in Threads
  PROVE  LET r == wakeup(s, t)
         IN  /\ r \in SchedState
             /\ r.futexWord = [s.futexWord EXCEPT ![t] = 0]
             /\ r.ok <=> s.ok /\ s.futexWord[t] = 1
             /\ Keeps(s, r, {"futexWord", "ok"})
  <1> DEFINE u == [s EXCEPT !.futexWord[t] = 0]
             b == s.futexWord[t] = 1
             r == wakeup(s, t)
  <1>1. u \in SchedState /\ u.futexWord = [s.futexWord EXCEPT ![t] = 0] /\ Keeps(s, u, {"futexWord"})
    <2>1. 0 \in 0..1
      OBVIOUS
    <2>2. QED
      BY <2>1, WordFacts
  <1>2. r = Checked(u, b) /\ b \in BOOLEAN
    BY DEF wakeup
  <1> HIDE DEF u, b, r
  <1>3. r \in SchedState /\ Keeps(u, r, {"ok"}) /\ (r.ok <=> u.ok /\ b)
    BY <1>1, <1>2, CheckedFacts
  <1>4. QED
    BY <1>1, <1>3 DEF Keeps, Fields, r, b

LEMMA JoinFacts ==
  ASSUME NEW s \in SchedState, NEW c \in Cores
  PROVE  LET r == barJoin(s, c)
         IN  /\ r \in SchedState
             /\ r.members = s.members \cup {c}
             /\ r.ok <=> s.ok /\ c \notin s.members
             /\ Keeps(s, r, {"members", "ok"})
  <1> DEFINE u == [s EXCEPT !.members = @ \cup {c}]
             b == c \notin s.members
             r == barJoin(s, c)
  <1>1. u \in SchedState /\ u.members = s.members \cup {c} /\ Keeps(s, u, {"members"})
    BY DEF SchedState, Keeps, Fields
  <1>2. r = Checked(u, b) /\ b \in BOOLEAN
    BY DEF barJoin
  <1> HIDE DEF u, b, r
  <1>3. r \in SchedState /\ Keeps(u, r, {"ok"}) /\ (r.ok <=> u.ok /\ b)
    BY <1>1, <1>2, CheckedFacts
  <1>4. QED
    BY <1>1, <1>3 DEF Keeps, Fields, r, b

-----------------------------------------------------------------------------
(* Taking a context *)

LEMMA MaskFacts ==
  ASSUME NEW t \in Threads
  PROVE  mask[t] \subseteq Cores /\ mask[t] # {} /\ t # None /\ None \notin Cores
  BY MaskAssumption, NoneAssumption

\* The types of the fields, one by one.
LEMMA FieldTypes ==
  ASSUME NEW s \in SchedState
  PROVE  /\ s.state \in [Threads -> States] /\ s.cid \in [Threads -> Cores]
         /\ s.handoffThread \in [Threads -> Threads \cup {None}]
         /\ s.futexWord \in [Threads -> 0..1] /\ s.marked \subseteq Threads
         /\ s.left \in [Threads -> Int]
         /\ s.curThread \in [Cores -> Threads \cup {None}]
         /\ s.freeList \in Seq(Cores) /\ s.runQueue \in Seq(Threads)
         /\ s.outQueue \in Seq(Threads) /\ s.sleepQueue \in Seq(Threads)
         /\ s.fakeLeaves \in Seq(Threads)
         /\ s.members \subseteq Cores /\ s.arrived \subseteq Cores
         /\ s.scheduledThreads \in Int /\ s.phase \in 0..schedQuantum-1 /\ s.ok \in BOOLEAN
         /\ None \notin Threads /\ None \notin Cores
  BY NoneAssumption DEF SchedState

\* The lists hold threads and contexts.
LEMMA ElemsTypes ==
  ASSUME NEW s \in SchedState
  PROVE  /\ Elems(s.runQueue) \subseteq Threads /\ Elems(s.outQueue) \subseteq Threads
         /\ Elems(s.sleepQueue) \subseteq Threads /\ Elems(s.fakeLeaves) \subseteq Threads
         /\ Elems(s.freeList) \subseteq Cores
         /\ s.marked \subseteq Threads
         /\ \A t \in Elems(s.runQueue) : \A c \in mask[t] : c \in Cores
  <1>1. /\ Elems(s.runQueue) \subseteq Threads /\ Elems(s.outQueue) \subseteq Threads
        /\ Elems(s.sleepQueue) \subseteq Threads /\ Elems(s.fakeLeaves) \subseteq Threads
        /\ Elems(s.freeList) \subseteq Cores
        /\ s.marked \subseteq Threads
    BY ElemsType DEF SchedState
  <1>2. QED
    BY <1>1, MaskFacts

\* t may ask for a context; F is t if it comes from a handoff.
Asks(s, F, t) ==
    \/ F = None /\ s.state[t] \in {"STARTED", "BLOCKED"}
    \/ F = t /\ s.state[t] = "QUEUED"

LEMMA TakeFree ==
  ASSUME NEW s, NEW F, SInv(s, F), NEW t \in Threads, Asks(s, F, t),
         NEW c \in mask[t], s.curThread[c] = None
  PROVE  LET r == barJoin(schedule(Claim(s, c), t, c), c)
         IN  /\ SInv(r, None)
             /\ r.state = [s.state EXCEPT ![t] = "RUNNING"]
             /\ r.cid = [s.cid EXCEPT ![t] = c]
             /\ c \notin s.arrived
             /\ Keeps(s, r, {"state", "cid", "curThread", "freeList", "scheduledThreads", "members", "ok"})
  <1> DEFINE a == Claim(s, c)
             b == schedule(a, t, c)
             r == barJoin(b, c)
  <1>0. s \in SchedState /\ c \in Cores /\ t # None /\ None \notin Threads
    BY MaskFacts, NoneAssumption DEF SInv
  <1>1. /\ s.freeList \in Seq(Cores) /\ NoRepeats(s.freeList)
        /\ Remove(s.freeList, c) \in Seq(Cores)
        /\ NoRepeats(Remove(s.freeList, c))
        /\ Elems(Remove(s.freeList, c)) = Elems(s.freeList) \ {c}
    BY <1>0, RemoveFacts DEF SInv, SchedState, Free, Remove
  <1>2. a \in SchedState /\ a.freeList = Remove(s.freeList, c) /\ Keeps(s, a, {"freeList"})
    BY <1>0, <1>1 DEF Claim, SchedState, Keeps, Fields
  <1> HIDE DEF a
  <1>3. /\ b \in SchedState
        /\ b.state = [a.state EXCEPT ![t] = "RUNNING"]
        /\ b.cid = [a.cid EXCEPT ![t] = c]
        /\ b.curThread = [a.curThread EXCEPT ![c] = t]
        /\ b.scheduledThreads = a.scheduledThreads + 1
        /\ b.ok <=> a.ok /\ a.state[t] \in {"STARTED", "BLOCKED", "QUEUED"} /\ a.curThread[c] = None
        /\ Keeps(a, b, {"state", "cid", "curThread", "scheduledThreads", "ok"})
    BY <1>0, <1>2, ScheduleFacts
  <1> HIDE DEF b
  <1>4. /\ r \in SchedState
        /\ r.members = b.members \cup {c}
        /\ r.ok <=> b.ok /\ c \notin b.members
        /\ Keeps(b, r, {"members", "ok"})
    BY <1>0, <1>3, JoinFacts
  <1> HIDE DEF r
  <1>5. c \notin s.members /\ c \notin s.arrived /\ s.ok
    BY <1>0 DEF SInv, Bar
  <1>6. /\ r.state = [s.state EXCEPT ![t] = "RUNNING"]
        /\ r.cid = [s.cid EXCEPT ![t] = c]
        /\ r.curThread = [s.curThread EXCEPT ![c] = t]
        /\ r.scheduledThreads = s.scheduledThreads + 1
        /\ r.freeList = Remove(s.freeList, c)
        /\ r.members = s.members \cup {c}
        /\ r.ok
        /\ Keeps(s, r, {"state", "cid", "curThread", "freeList", "scheduledThreads", "members", "ok"})
    BY <1>2, <1>3, <1>4, <1>5 DEF Keeps, Fields, Asks
  <1>7. /\ r.runQueue = s.runQueue /\ r.outQueue = s.outQueue /\ r.sleepQueue = s.sleepQueue
        /\ r.fakeLeaves = s.fakeLeaves /\ r.handoffThread = s.handoffThread
        /\ r.arrived = s.arrived /\ r.left = s.left /\ r.futexWord = s.futexWord /\ r.marked = s.marked
    BY <1>6 DEF Keeps, Fields
  <1>8. /\ s.state \in [Threads -> States] /\ s.cid \in [Threads -> Cores]
        /\ s.curThread \in [Cores -> Threads \cup {None}]
        /\ s.handoffThread \in [Threads -> Threads \cup {None}]
        /\ s.state[t] \in {"STARTED", "BLOCKED", "QUEUED"}
        /\ \A v \in Threads : s.handoffThread[v] # t
    BY <1>0 DEF SchedState, Asks, SInv, Hand
  <1>9. Ctx(r)
    BY <1>0, <1>6, <1>8 DEF SInv, Ctx, Holds
  <1>10. Free(r)
    BY <1>0, <1>1, <1>6, <1>8 DEF SInv, Free
  <1>11. Count(r)
    <2>1. Holding(r) = Holding(s) \cup {t} /\ t \in Threads \ Holding(s)
      BY <1>6, <1>8 DEF Holding, Holds
    <2>2. Cardinality(Holding(r)) = Cardinality(Holding(s)) + 1
      BY <2>1, CountAdd DEF Holding
    <2>3. QED
      BY <1>6, <2>2 DEF SInv, Count, Holding
  <1>12. Queues(r, None)
    BY <1>0, <1>6, <1>7, <1>8 DEF SInv, Queues, Asks
  <1>13. Bar(r)
    BY <1>0, <1>6, <1>7, <1>8 DEF SInv, Bar, Ctx, Holds
  <1>14. InMask(r)
    BY <1>0, <1>6, <1>8 DEF SInv, InMask, Holds
  <1>15. Hand(r, None)
    BY <1>0, <1>6, <1>7, <1>8 DEF SInv, Hand
  <1>16. Idle(r)
    BY <1>0, <1>6, <1>7, <1>8 DEF SInv, Idle
  <1>17. Sleep(r) /\ Words(r, None)
    BY <1>0, <1>6, <1>7, <1>8 DEF SInv, Sleep, Words, Asks
  <1>18. SInv(r, None)
    BY <1>4, <1>6, <1>9, <1>10, <1>11, <1>12, <1>13, <1>14, <1>15, <1>16, <1>17 DEF SInv
  <1>19. QED
    BY <1>5, <1>6, <1>18 DEF r, b, a

\* The same for a context whose thread is out.
LEMMA TakeOut ==
  ASSUME NEW s, NEW F, SInv(s, F), NEW t \in Threads, Asks(s, F, t),
         NEW c \in mask[t], NEW o \in Threads, s.curThread[c] = o, s.state[o] = "OUT"
  PROVE  LET r == barJoin(schedule(Claim(s, c), t, c), c)
         IN  /\ SInv(r, None)
             /\ r.state = [s.state EXCEPT ![o] = "BLOCKED", ![t] = "RUNNING"]
             /\ r.cid = [s.cid EXCEPT ![t] = c]
             /\ c \notin s.arrived
             /\ Keeps(s, r, {"state", "cid", "curThread", "outQueue", "scheduledThreads", "members", "ok"})
  <1> DEFINE z == [s EXCEPT !.outQueue = Remove(@, o)]
             a == Claim(s, c)
             b == schedule(a, t, c)
             r == barJoin(b, c)
  <1>0. s \in SchedState /\ c \in Cores /\ t # None /\ o # None /\ None \notin Threads /\ o # t
    BY MaskFacts, NoneAssumption DEF SInv, Asks
  <1>1. /\ s.outQueue \in Seq(Threads) /\ NoRepeats(s.outQueue)
        /\ Remove(s.outQueue, o) \in Seq(Threads)
        /\ NoRepeats(Remove(s.outQueue, o))
        /\ Elems(Remove(s.outQueue, o)) = Elems(s.outQueue) \ {o}
    BY <1>0, RemoveFacts DEF SInv, SchedState, Queues, Remove
  <1>2. /\ z \in SchedState /\ z.outQueue = Remove(s.outQueue, o) /\ Keeps(s, z, {"outQueue"})
        /\ a = deschedule(z, o, c, "BLOCKED")
    BY <1>0, <1>1 DEF Claim, SchedState, Keeps, Fields
  <1> HIDE DEF a, z
  <1>3. /\ a \in SchedState
        /\ a.state = [z.state EXCEPT ![o] = "BLOCKED"]
        /\ a.curThread = [z.curThread EXCEPT ![c] = None]
        /\ a.scheduledThreads = z.scheduledThreads - 1
        /\ a.ok <=> z.ok /\ z.state[o] \in {"RUNNING", "OUT"} /\ z.cid[o] = c /\ z.curThread[c] = o
        /\ Keeps(z, a, {"state", "curThread", "scheduledThreads", "ok"})
    <2>1. "BLOCKED" \in States
      BY DEF States
    <2>2. QED
      BY <1>0, <1>2, <2>1, DescheduleFacts
  <1>4. /\ b \in SchedState
        /\ b.state = [a.state EXCEPT ![t] = "RUNNING"]
        /\ b.cid = [a.cid EXCEPT ![t] = c]
        /\ b.curThread = [a.curThread EXCEPT ![c] = t]
        /\ b.scheduledThreads = a.scheduledThreads + 1
        /\ b.ok <=> a.ok /\ a.state[t] \in {"STARTED", "BLOCKED", "QUEUED"} /\ a.curThread[c] = None
        /\ Keeps(a, b, {"state", "cid", "curThread", "scheduledThreads", "ok"})
    BY <1>0, <1>3, ScheduleFacts
  <1> HIDE DEF b
  <1>5. /\ r \in SchedState
        /\ r.members = b.members \cup {c}
        /\ r.ok <=> b.ok /\ c \notin b.members
        /\ Keeps(b, r, {"members", "ok"})
    BY <1>0, <1>4, JoinFacts
  <1> HIDE DEF r
  <1>6. c \notin s.members /\ c \notin s.arrived /\ s.ok /\ s.cid[o] = c
    BY <1>0 DEF SInv, Bar, Ctx
  <1>7. /\ s.state \in [Threads -> States] /\ s.cid \in [Threads -> Cores]
        /\ s.curThread \in [Cores -> Threads \cup {None}]
        /\ s.handoffThread \in [Threads -> Threads \cup {None}]
        /\ s.scheduledThreads \in Int
        /\ s.state[t] \in {"STARTED", "BLOCKED", "QUEUED"}
        /\ \A v \in Threads : s.handoffThread[v] # t
    BY <1>0 DEF SchedState, Asks, SInv, Hand
  <1>8. /\ r.cid = [s.cid EXCEPT ![t] = c]
        /\ r.outQueue = Remove(s.outQueue, o)
        /\ r.members = s.members \cup {c}
        /\ Keeps(s, r, {"state", "cid", "curThread", "outQueue", "scheduledThreads", "members", "ok"})
    BY <1>2, <1>3, <1>4, <1>5 DEF Keeps, Fields
  <1>9. /\ z.state = s.state /\ z.curThread = s.curThread /\ z.scheduledThreads = s.scheduledThreads
        /\ z.cid = s.cid /\ z.ok = s.ok /\ z.members = s.members
        /\ b.members = a.members /\ a.members = z.members
        /\ r.state = b.state /\ r.curThread = b.curThread /\ r.scheduledThreads = b.scheduledThreads
    BY <1>2, <1>3, <1>4, <1>5 DEF Keeps, Fields
  <1>10. r.state = [s.state EXCEPT ![o] = "BLOCKED", ![t] = "RUNNING"]
    BY <1>3, <1>4, <1>9
  <1>11. r.curThread = [s.curThread EXCEPT ![c] = t] /\ r.scheduledThreads = s.scheduledThreads
    BY <1>0, <1>3, <1>4, <1>7, <1>9
  <1>12. a.state[t] = s.state[t] /\ a.curThread[c] = None
    BY <1>0, <1>3, <1>7, <1>9
  <1>13. r.ok
    BY <1>3, <1>4, <1>5, <1>6, <1>7, <1>9, <1>12
  <1>14. /\ r.runQueue = s.runQueue /\ r.freeList = s.freeList /\ r.sleepQueue = s.sleepQueue
        /\ r.fakeLeaves = s.fakeLeaves /\ r.handoffThread = s.handoffThread
        /\ r.arrived = s.arrived /\ r.left = s.left /\ r.futexWord = s.futexWord /\ r.marked = s.marked
    BY <1>8 DEF Keeps, Fields
  <1>15. Ctx(r)
    BY <1>0, <1>6, <1>7, <1>8, <1>10, <1>11 DEF SInv, Ctx, Holds
  <1>16. Free(r)
    BY <1>0, <1>7, <1>11, <1>14 DEF SInv, Free
  <1>17. Count(r)
    <2>1. Holding(r) = (Holding(s) \ {o}) \cup {t} /\ t \in Threads \ Holding(s) /\ o \in Holding(s)
      BY <1>0, <1>7, <1>10 DEF Holding, Holds
    <2>2. Cardinality(Holding(r)) = Cardinality(Holding(s))
      BY <2>1, CountSwap DEF Holding
    <2>3. QED
      BY <1>11, <2>2 DEF SInv, Count, Holding
  <1>18. Queues(r, None)
    <2>1. /\ NoRepeats(r.runQueue) /\ NoRepeats(r.outQueue) /\ NoRepeats(r.sleepQueue) /\ NoRepeats(r.fakeLeaves)
      BY <1>1, <1>8, <1>14 DEF SInv, Queues
    <2>2. \A u \in Threads : u \in Elems(r.outQueue) <=> r.state[u] = "OUT"
      BY <1>0, <1>1, <1>7, <1>8, <1>10 DEF SInv, Queues
    <2>3. \A u \in Threads : u \in Elems(r.sleepQueue) <=> r.state[u] = "SLEEPING"
      BY <1>0, <1>7, <1>14, <1>10 DEF SInv, Queues
    <2>4. \A u \in Threads : u \in Elems(r.runQueue) <=>
               r.state[u] = "QUEUED" /\ u # None /\ \A v \in Threads : r.handoffThread[v] # u
      BY <1>0, <1>7, <1>14, <1>10 DEF SInv, Queues, Asks
    <2>5. \A u \in Elems(r.fakeLeaves) : r.state[u] = "RUNNING"
      <3>1. Elems(s.fakeLeaves) \subseteq Threads
        BY <1>0, ElemsType DEF SchedState
      <3>2. QED
        BY <1>0, <1>7, <1>14, <1>10, <3>1 DEF SInv, Queues
    <2>6. QED
      BY <2>1, <2>2, <2>3, <2>4, <2>5 DEF Queues
  <1>19. Bar(r)
    BY <1>0, <1>6, <1>7, <1>8, <1>10, <1>11, <1>14 DEF SInv, Bar, Ctx, Holds
  <1>20. InMask(r)
    BY <1>0, <1>7, <1>8, <1>10 DEF SInv, InMask, Holds
  <1>21. Hand(r, None)
    BY <1>0, <1>7, <1>8, <1>10, <1>14 DEF SInv, Hand
  <1>22. Idle(r)
    <2>1. SUFFICES ASSUME NEW u \in Elems(s.runQueue), NEW d \in mask[u]
                   PROVE  r.curThread[d] # None /\ r.state[r.curThread[d]] = "RUNNING"
      BY <1>14 DEF Idle
    <2>2. d \in Cores /\ s.curThread[d] # None /\ s.state[s.curThread[d]] = "RUNNING"
      BY <1>0, ElemsTypes DEF SInv, Idle
    <2>3. QED
      BY <1>0, <1>7, <1>10, <1>11, <2>2
  <1>23. Sleep(r) /\ Words(r, None)
    <2>1. Sleep(r)
      BY <1>14 DEF SInv, Sleep
    <2>2. s.marked \subseteq Threads
      BY <1>0, ElemsTypes
    <2>3. QED
      BY <1>0, <1>7, <1>10, <1>14, <2>1, <2>2 DEF SInv, Words, Asks
  <1>24. SInv(r, None)
    BY <1>5, <1>13, <1>15, <1>16, <1>17, <1>18, <1>19, <1>20, <1>21, <1>22, <1>23 DEF SInv
  <1>25. QED
    BY <1>6, <1>8, <1>10, <1>24 DEF r, b, a

\* No context for t: it waits.
LEMMA Enqueue ==
  ASSUME NEW s, NEW F, SInv(s, F), NEW t \in Threads, Asks(s, F, t),
         \A c \in mask[t] : s.curThread[c] # None /\ s.state[s.curThread[c]] = "RUNNING"
  PROVE  LET r == waitForContext([s EXCEPT !.state[t] = "QUEUED", !.runQueue = Append(@, t)], t)
         IN  /\ SInv(r, None)
             /\ r.state = [s.state EXCEPT ![t] = "QUEUED"]
             /\ r.futexWord = [s.futexWord EXCEPT ![t] = 1]
             /\ Keeps(s, r, {"state", "futexWord", "runQueue"})
  <1> DEFINE z == [s EXCEPT !.state[t] = "QUEUED", !.runQueue = Append(@, t)]
             r == waitForContext(z, t)
  <1>0. s \in SchedState /\ t # None /\ None \notin Threads
    BY MaskFacts, NoneAssumption DEF SInv
  <1>1. /\ s.state \in [Threads -> States] /\ s.cid \in [Threads -> Cores]
        /\ s.curThread \in [Cores -> Threads \cup {None}]
        /\ s.handoffThread \in [Threads -> Threads \cup {None}]
        /\ s.futexWord \in [Threads -> 0..1]
        /\ s.state[t] \in {"STARTED", "BLOCKED", "QUEUED"}
        /\ \A v \in Threads : s.handoffThread[v] # t
    BY <1>0 DEF SchedState, Asks, SInv, Hand
  <1>2. /\ s.runQueue \in Seq(Threads) /\ NoRepeats(s.runQueue) /\ t \notin Elems(s.runQueue)
        /\ Append(s.runQueue, t) \in Seq(Threads)
        /\ NoRepeats(Append(s.runQueue, t))
        /\ Elems(Append(s.runQueue, t)) = Elems(s.runQueue) \cup {t}
    BY <1>0, AppendFacts DEF SInv, SchedState, Queues, Asks
  <1>3. /\ z \in SchedState /\ z.state = [s.state EXCEPT ![t] = "QUEUED"]
        /\ z.runQueue = Append(s.runQueue, t) /\ Keeps(s, z, {"state", "runQueue"})
    <2>1. /\ z.state = [s.state EXCEPT ![t] = "QUEUED"]
          /\ z.runQueue = Append(s.runQueue, t) /\ Keeps(s, z, {"state", "runQueue"})
      BY <1>0 DEF SchedState, Keeps, Fields
    <2>2. DOMAIN z = DOMAIN s /\ z = [x \in DOMAIN z |-> z[x]]
      OBVIOUS
    <2> HIDE DEF z
    <2>3. z.state \in [Threads -> States]
      BY <1>1, <2>1 DEF States
    <2>4. z \in SchedState
      BY <1>0, <1>2, <2>1, <2>2, <2>3 DEF SchedState, Keeps, Fields
    <2>5. QED
      BY <2>1, <2>4
  <1> HIDE DEF z
  <1>5. r \in SchedState /\ r.futexWord = [z.futexWord EXCEPT ![t] = 1] /\ Keeps(z, r, {"futexWord"})
    BY <1>3, WaitFacts
  <1> HIDE DEF r
  <1>6. /\ r.state = [s.state EXCEPT ![t] = "QUEUED"]
        /\ r.futexWord = [s.futexWord EXCEPT ![t] = 1]
        /\ r.runQueue = Append(s.runQueue, t)
        /\ Keeps(s, r, {"state", "futexWord", "runQueue"})
    BY <1>3, <1>5 DEF Keeps, Fields
  <1>7. /\ r.cid = s.cid /\ r.outQueue = s.outQueue /\ r.sleepQueue = s.sleepQueue
        /\ r.fakeLeaves = s.fakeLeaves /\ r.handoffThread = s.handoffThread
        /\ r.curThread = s.curThread /\ r.freeList = s.freeList
        /\ r.scheduledThreads = s.scheduledThreads /\ r.members = s.members
        /\ r.arrived = s.arrived /\ r.left = s.left /\ r.marked = s.marked /\ r.ok = s.ok
    BY <1>6 DEF Keeps, Fields
  <1>8. Ctx(r) /\ Free(r)
    BY <1>0, <1>1, <1>6, <1>7 DEF SInv, Ctx, Holds, Free
  <1>9. Count(r)
    <2>1. Holding(r) = Holding(s)
      BY <1>1, <1>6 DEF Holding, Holds
    <2>2. QED
      BY <1>7, <2>1 DEF SInv, Count, Holding
  <1>10. Queues(r, None)
    <2>1. /\ NoRepeats(r.runQueue) /\ NoRepeats(r.outQueue) /\ NoRepeats(r.sleepQueue) /\ NoRepeats(r.fakeLeaves)
      BY <1>2, <1>6, <1>7 DEF SInv, Queues
    <2>2. /\ \A u \in Threads : u \in Elems(r.outQueue) <=> r.state[u] = "OUT"
          /\ \A u \in Threads : u \in Elems(r.sleepQueue) <=> r.state[u] = "SLEEPING"
      BY <1>1, <1>6, <1>7 DEF SInv, Queues
    <2>3. \A u \in Threads : u \in Elems(r.runQueue) <=>
               r.state[u] = "QUEUED" /\ u # None /\ \A v \in Threads : r.handoffThread[v] # u
      BY <1>0, <1>1, <1>2, <1>6, <1>7 DEF SInv, Queues, Asks
    <2>4. \A u \in Elems(r.fakeLeaves) : r.state[u] = "RUNNING"
      BY <1>0, <1>1, <1>6, <1>7, ElemsTypes DEF SInv, Queues
    <2>5. QED
      BY <2>1, <2>2, <2>3, <2>4 DEF Queues
  <1>11. Bar(r)
    BY <1>0, <1>1, <1>6, <1>7 DEF SInv, Bar
  <1>12. InMask(r)
    BY <1>1, <1>6, <1>7 DEF SInv, InMask, Holds
  <1>13. Hand(r, None)
    BY <1>0, <1>1, <1>6, <1>7 DEF SInv, Hand
  <1>14. Idle(r)
    <2>1. SUFFICES ASSUME NEW u \in Elems(s.runQueue) \cup {t}, NEW d \in mask[u]
                   PROVE  r.curThread[d] # None /\ r.state[r.curThread[d]] = "RUNNING"
      BY <1>2, <1>6 DEF Idle
    <2>2. d \in Cores /\ s.curThread[d] # None /\ s.state[s.curThread[d]] = "RUNNING"
      BY <1>0, ElemsTypes, MaskFacts DEF SInv, Idle
    <2>3. QED
      BY <1>1, <1>6, <1>7, <2>2
  <1>15. Sleep(r)
    BY <1>7 DEF SInv, Sleep
  <1>16. Words(r, None)
    BY <1>0, <1>1, <1>6, <1>7, ElemsTypes DEF SInv, Words, Asks
  <1>17. SInv(r, None)
    BY <1>5, <1>7, <1>8, <1>9, <1>10, <1>11, <1>12, <1>13, <1>14, <1>15, <1>16 DEF SInv
  <1>18. QED
    BY <1>6, <1>17 DEF r, z

\* schedThread: a context of the mask that is idle or whose thread is out, or
\* else every context of the mask runs a thread.
LEMMA ContextForFacts ==
  ASSUME NEW s, NEW F, SInv(s, F), NEW t \in Threads
  PROVE  LET c == ContextFor(s, t)
         IN  /\ c = None => \A d \in mask[t] :
                                s.curThread[d] # None /\ s.state[s.curThread[d]] = "RUNNING"
             /\ c # None => /\ c \in mask[t]
                            /\ \/ s.curThread[c] = None
                               \/ s.curThread[c] \in Threads /\ s.state[s.curThread[c]] = "OUT"
  <1> DEFINE last == s.curThread[s.cid[t]] = None /\ s.cid[t] \in mask[t]
             free == mask[t] \cap Elems(s.freeList)
             out  == {o \in Elems(s.outQueue) : s.cid[o] \in mask[t]}
             c == ContextFor(s, t)
  <1>0. s \in SchedState /\ mask[t] \subseteq Cores /\ None \notin Cores /\ None \notin Threads
    BY MaskFacts, NoneAssumption DEF SInv
  <1>1. /\ s.curThread \in [Cores -> Threads \cup {None}] /\ s.cid \in [Threads -> Cores]
        /\ s.freeList \in Seq(Cores) /\ s.outQueue \in Seq(Threads)
        /\ s.state \in [Threads -> States]
    BY <1>0 DEF SchedState
  <1>2. CASE last
    <2>1. c = s.cid[t]
      BY <1>2 DEF ContextFor
    <2>2. QED
      BY <1>0, <1>2, <2>1
  <1>3. CASE ~last /\ free # {}
    <2>1. c = FirstIn(s.freeList, mask[t])
      BY <1>3 DEF ContextFor
    <2>2. PICK i \in DOMAIN s.freeList : /\ FirstIn(s.freeList, mask[t]) = s.freeList[i]
                                         /\ s.freeList[i] \in mask[t]
      <3>1. Elems(s.freeList) \cap mask[t] # {} /\ s.freeList \in Seq(Cores)
        BY <1>1, <1>3
      <3>2. QED
        BY <3>1, FirstInFacts, Zenon
    <2>3. c \in mask[t] /\ c \in Elems(s.freeList)
      BY <2>1, <2>2 DEF Elems
    <2>4. QED
      BY <1>0, <2>3 DEF SInv, Free
  <1>4. CASE ~last /\ free = {} /\ out # {}
    <2>1. c = s.cid[FirstIn(s.outQueue, out)]
      BY <1>4 DEF ContextFor
    <2>2. PICK i \in DOMAIN s.outQueue : /\ FirstIn(s.outQueue, out) = s.outQueue[i]
                                         /\ s.outQueue[i] \in out
      <3>1. Elems(s.outQueue) \cap out # {} /\ s.outQueue \in Seq(Threads)
        BY <1>1, <1>4
      <3> HIDE DEF out
      <3>2. QED
        BY <3>1, FirstInFacts, Zenon
    <2> DEFINE o == s.outQueue[i]
    <2>3. o \in Threads /\ s.state[o] = "OUT" /\ c = s.cid[o] /\ c \in mask[t]
      <3>1. o \in Elems(s.outQueue) /\ s.cid[o] \in mask[t] /\ o = FirstIn(s.outQueue, out)
        BY <2>2
      <3>2. o \in Threads /\ s.state[o] = "OUT"
        BY <1>0, <3>1, ElemsTypes DEF SInv, Queues
      <3>3. QED
        BY <2>1, <3>1, <3>2
    <2>4. s.curThread[c] = o
      BY <1>0, <2>3 DEF SInv, Ctx, Holds
    <2>5. QED
      BY <1>0, <2>3, <2>4
  <1>5. CASE ~last /\ free = {} /\ out = {}
    <2>1. c = None
      BY <1>5 DEF ContextFor
    <2>2. ASSUME NEW d \in mask[t]
          PROVE  s.curThread[d] # None /\ s.state[s.curThread[d]] = "RUNNING"
      <3>1. d \in Cores /\ d \notin Elems(s.freeList)
        BY <1>0, <1>5
      <3>2. s.curThread[d] # None
        BY <3>1 DEF SInv, Free
      <3>3. s.curThread[d] \in Threads
        BY <1>1, <3>1, <3>2
      <3>4. Holds(s, s.curThread[d]) /\ s.cid[s.curThread[d]] = d
        BY <3>1, <3>3 DEF SInv, Ctx
      <3>5. s.state[s.curThread[d]] # "OUT"
        BY <1>5, <3>3, <3>4 DEF SInv, Queues
      <3>6. QED
        BY <3>2, <3>4, <3>5 DEF Holds
    <2>3. QED
      BY <2>1, <2>2
  <1>6. QED
    BY <1>2, <1>3, <1>4, <1>5

\* What may happen to a thread u in a step of somebody else.
Calm(s, r, u) ==
    /\ u \in r.marked <=> u \in s.marked
    /\ u \in Elems(r.fakeLeaves) <=> u \in Elems(s.fakeLeaves)
    /\ \/ r.handoffThread[u] = s.handoffThread[u]
       \/ s.state[u] = "RUNNING" /\ s.cid[u] \in s.arrived
    /\ \/ /\ r.state[u] = s.state[u]
          /\ r.state[u] = "RUNNING" => r.futexWord[u] = s.futexWord[u] /\ r.cid[u] = s.cid[u]
          /\ r.cid[u] \in r.arrived /\ r.state[u] = "RUNNING" => s.cid[u] \in s.arrived
       \/ s.state[u] \in {"OUT", "SLEEPING"} /\ r.state[u] = "BLOCKED"
       \/ /\ s.state[u] = "QUEUED" /\ r.state[u] = "RUNNING"
          /\ r.futexWord[u] = 0 /\ r.cid[u] \notin r.arrived

LEMMA CalmTrans ==
  ASSUME NEW s, NEW l, NEW r, NEW u, Calm(s, l, u), Calm(l, r, u)
  PROVE  Calm(s, r, u)
  BY DEF Calm

LEMMA CalmKeeps ==
  ASSUME NEW s, NEW r, NEW u,
         Keeps(s, r, {"left", "curThread", "freeList", "runQueue", "outQueue", "sleepQueue",
                      "scheduledThreads", "phase", "members", "ok"})
  PROVE  Calm(s, r, u)
  BY DEF Calm, Keeps, Fields

\* t has a context, or waits for one.
Settled(s, r, t) ==
    /\ SInv(r, None)
    /\ \A u \in Threads \ {t} : Calm(s, r, u)
    /\ r.marked = s.marked /\ r.fakeLeaves = s.fakeLeaves /\ r.handoffThread = s.handoffThread

LEMMA AcquireStep ==
  ASSUME NEW s, NEW F, SInv(s, F), NEW t \in Threads, Asks(s, F, t), Acquire(s, t)
  PROVE  /\ Settled(s, S', t)
         /\ \/ S'.state[t] = "RUNNING" /\ S'.cid[t] \notin S'.arrived /\ Goto(t, "run")
            \/ S'.state[t] = "QUEUED" /\ Goto(t, "ctx")
  <1> DEFINE c == ContextFor(s, t)
             r == S'
  <1>0. /\ s \in SchedState /\ s.state \in [Threads -> States] /\ s.cid \in [Threads -> Cores]
        /\ s.futexWord \in [Threads -> 0..1]
    BY DEF SInv, SchedState
  <1>1. /\ c = None => \A d \in mask[t] : s.curThread[d] # None /\ s.state[s.curThread[d]] = "RUNNING"
        /\ c # None => /\ c \in mask[t]
                       /\ \/ s.curThread[c] = None
                          \/ s.curThread[c] \in Threads /\ s.state[s.curThread[c]] = "OUT"
    BY ContextForFacts
  <1>2. CASE c = None
    <2>1. r = waitForContext([s EXCEPT !.state[t] = "QUEUED", !.runQueue = Append(@, t)], t) /\ Goto(t, "ctx")
      BY <1>2 DEF Acquire
    <2>2. /\ SInv(r, None)
          /\ r.state = [s.state EXCEPT ![t] = "QUEUED"]
          /\ r.futexWord = [s.futexWord EXCEPT ![t] = 1]
          /\ Keeps(s, r, {"state", "futexWord", "runQueue"})
      BY <1>1, <1>2, <2>1, Enqueue
    <2> HIDE DEF r, c
    <2>3. /\ r.marked = s.marked /\ r.fakeLeaves = s.fakeLeaves /\ r.handoffThread = s.handoffThread
          /\ r.cid = s.cid /\ r.arrived = s.arrived
      BY <2>2 DEF Keeps, Fields
    <2>4. \A u \in Threads \ {t} : Calm(s, r, u)
      BY <1>0, <2>2, <2>3 DEF Calm
    <2>5. r.state[t] = "QUEUED"
      BY <1>0, <2>2
    <2>6. QED
      BY <2>1, <2>2, <2>3, <2>4, <2>5 DEF Settled, r
  <1>3. CASE c # None
    <2>1. r = barJoin(schedule(Claim(s, c), t, c), c) /\ Goto(t, "run")
      BY <1>3 DEF Acquire
    <2>2. CASE s.curThread[c] = None
      <3>1. /\ SInv(r, None)
            /\ r.state = [s.state EXCEPT ![t] = "RUNNING"]
            /\ r.cid = [s.cid EXCEPT ![t] = c]
            /\ c \notin s.arrived
            /\ Keeps(s, r, {"state", "cid", "curThread", "freeList", "scheduledThreads", "members", "ok"})
        <4>1. c \in mask[t]
          BY <1>1, <1>3
        <4> HIDE DEF c
        <4>2. QED
          BY <2>1, <2>2, <4>1, TakeFree
      <3> HIDE DEF r, c
      <3>2. /\ r.marked = s.marked /\ r.fakeLeaves = s.fakeLeaves /\ r.handoffThread = s.handoffThread
            /\ r.futexWord = s.futexWord /\ r.arrived = s.arrived
        BY <3>1 DEF Keeps, Fields
      <3>3. \A u \in Threads \ {t} : Calm(s, r, u)
        BY <1>0, <3>1, <3>2 DEF Calm
      <3>4. r.state[t] = "RUNNING" /\ r.cid[t] \notin r.arrived
        BY <1>0, <3>1, <3>2
      <3>5. QED
        BY <2>1, <3>1, <3>2, <3>3, <3>4 DEF Settled, r
    <2>3. CASE s.curThread[c] \in Threads /\ s.state[s.curThread[c]] = "OUT"
      <3> DEFINE o == s.curThread[c]
      <3>1. /\ SInv(r, None)
            /\ r.state = [s.state EXCEPT ![o] = "BLOCKED", ![t] = "RUNNING"]
            /\ r.cid = [s.cid EXCEPT ![t] = c]
            /\ c \notin s.arrived
            /\ Keeps(s, r, {"state", "cid", "curThread", "outQueue", "scheduledThreads", "members", "ok"})
        <4>1. c \in mask[t]
          BY <1>1, <1>3
        <4> HIDE DEF c
        <4>2. QED
          BY <2>1, <2>3, <4>1, TakeOut
      <3> HIDE DEF r, c
      <3>2. /\ r.marked = s.marked /\ r.fakeLeaves = s.fakeLeaves /\ r.handoffThread = s.handoffThread
            /\ r.futexWord = s.futexWord /\ r.arrived = s.arrived
        BY <3>1 DEF Keeps, Fields
      <3>3. \A u \in Threads \ {t} : Calm(s, r, u)
        BY <1>0, <2>3, <3>1, <3>2 DEF Calm
      <3>4. r.state[t] = "RUNNING" /\ r.cid[t] \notin r.arrived
        BY <1>0, <3>1, <3>2
      <3>5. QED
        BY <2>1, <3>1, <3>2, <3>3, <3>4 DEF Settled, r
    <2>4. QED
      BY <1>1, <1>3, <2>2, <2>3
  <1>4. QED
    BY <1>2, <1>3

-----------------------------------------------------------------------------
(* Giving a context to a queued thread *)

\* t, which goes to the state X, gives its context to u.
Gives(s, r, t, u, X) ==
    /\ r \in SchedState
    /\ r.state = [s.state EXCEPT ![t] = X, ![u] = "RUNNING"]
    /\ r.cid = [s.cid EXCEPT ![u] = s.cid[t]]
    /\ r.curThread = [s.curThread EXCEPT ![s.cid[t]] = u]
    /\ r.futexWord = [s.futexWord EXCEPT ![u] = 0]
    /\ r.scheduledThreads = s.scheduledThreads
    /\ r.ok
    /\ Keeps(s, r, {"state", "cid", "curThread", "futexWord", "scheduledThreads", "ok",
                    "runQueue", "handoffThread", "marked", "sleepQueue"})

\* u comes from the run queue, or t was told to hand its context to it.
FromQueue(s, r, t, u) ==
    /\ u \in Elems(s.runQueue)
    /\ r.runQueue = Remove(s.runQueue, u)
    /\ r.handoffThread = s.handoffThread
    /\ s.handoffThread[t] = None

FromHandoff(s, r, t, u) ==
    /\ s.handoffThread[t] = u
    /\ r.runQueue = s.runQueue
    /\ r.handoffThread = [s.handoffThread EXCEPT ![t] = None]

\* A thread marked for sleep goes to the sleep queue, no other does.
GoesToSleep(s, r, t) ==
    /\ t \in s.marked
    /\ r.marked = s.marked \ {t}
    /\ r.sleepQueue = SleepInsert(s, t)

StaysAwake(s, r, t) ==
    /\ t \notin s.marked
    /\ r.marked = s.marked
    /\ r.sleepQueue = s.sleepQueue

LEMMA GivesInv ==
  ASSUME NEW s, SInv(s, None), NEW r, NEW t \in Threads, NEW u \in Threads, NEW X,
         Gives(s, r, t, u, X),
         s.state[t] = "RUNNING", t \notin Elems(s.fakeLeaves), s.cid[t] \notin s.arrived,
         s.cid[t] \in mask[u],
         \/ FromQueue(s, r, t, u) /\ X = "BLOCKED" /\ StaysAwake(s, r, t)
         \/ FromQueue(s, r, t, u) /\ X = "SLEEPING" /\ GoesToSleep(s, r, t)
         \/ FromHandoff(s, r, t, u) /\ X = "QUEUED" /\ StaysAwake(s, r, t)
  PROVE  /\ SInv(r, IF X = "QUEUED" THEN t ELSE None)
         /\ \A v \in Threads \ {t} : Calm(s, r, v)
         /\ r.state[t] = X
         /\ r.handoffThread[t] = None
         /\ t \notin r.marked
  <1> DEFINE c == s.cid[t]
             F == IF X = "QUEUED" THEN t ELSE None
  <1>0. s \in SchedState /\ r \in SchedState /\ None \notin Threads /\ t # None /\ u # None /\ None \notin Cores
    BY MaskFacts, NoneAssumption DEF SInv, Gives
  <1>1. /\ s.state \in [Threads -> States] /\ s.cid \in [Threads -> Cores]
        /\ s.curThread \in [Cores -> Threads \cup {None}]
        /\ s.handoffThread \in [Threads -> Threads \cup {None}]
        /\ s.futexWord \in [Threads -> 0..1] /\ c \in Cores
        /\ s.runQueue \in Seq(Threads) /\ s.sleepQueue \in Seq(Threads)
        /\ s.left \in [Threads -> Int]
    BY <1>0 DEF SchedState
  <1>2. s.state[u] = "QUEUED" /\ u # t
    BY <1>0, <1>1 DEF SInv, Queues, Hand, FromQueue, FromHandoff
  <1>3. s.curThread[c] = t
    BY <1>1 DEF SInv, Ctx, Holds
  <1>4. /\ r.state = [s.state EXCEPT ![t] = X, ![u] = "RUNNING"]
        /\ r.cid = [s.cid EXCEPT ![u] = c]
        /\ r.curThread = [s.curThread EXCEPT ![c] = u]
        /\ r.futexWord = [s.futexWord EXCEPT ![u] = 0]
        /\ r.scheduledThreads = s.scheduledThreads
        /\ r.ok
        /\ X \in {"BLOCKED", "SLEEPING", "QUEUED"}
    BY DEF Gives
  <1>5. /\ r.left = s.left /\ r.freeList = s.freeList /\ r.outQueue = s.outQueue
        /\ r.fakeLeaves = s.fakeLeaves /\ r.phase = s.phase /\ r.members = s.members /\ r.arrived = s.arrived
    BY DEF Gives, Keeps, Fields
  <1>6. /\ NoRepeats(r.runQueue)
        /\ FromQueue(s, r, t, u) => Elems(r.runQueue) = Elems(s.runQueue) \ {u}
        /\ FromHandoff(s, r, t, u) => r.runQueue = s.runQueue /\ u \notin Elems(s.runQueue)
        /\ Elems(r.runQueue) = Elems(s.runQueue) \ {u}
    <2>1. NoRepeats(s.runQueue)
      BY DEF SInv, Queues
    <2>2. CASE FromQueue(s, r, t, u)
      <3>1. r.runQueue = Without(s.runQueue, {u})
        BY <2>2 DEF FromQueue, Remove
      <3>2. NoRepeats(r.runQueue) /\ Elems(r.runQueue) = Elems(s.runQueue) \ {u}
        BY <1>1, <2>1, <3>1, RemoveFacts
      <3>3. ~FromHandoff(s, r, t, u)
        BY <1>0, <2>2 DEF FromQueue, FromHandoff
      <3>4. QED
        BY <3>2, <3>3
    <2>3. CASE FromHandoff(s, r, t, u)
      <3>1. u \notin Elems(s.runQueue) /\ r.runQueue = s.runQueue
        BY <2>3 DEF FromHandoff, SInv, Queues
      <3>2. ~FromQueue(s, r, t, u)
        BY <3>1 DEF FromQueue
      <3>3. QED
        BY <2>1, <3>1, <3>2
    <2>4. QED
      BY <2>2, <2>3
  <1>7. /\ r.handoffThread[t] = None
        /\ \A v \in Threads \ {t} : r.handoffThread[v] = s.handoffThread[v]
        /\ \A v \in Threads : r.handoffThread[v] # t /\ r.handoffThread[v] # u
    <2>1. \A v \in Threads : s.handoffThread[v] # t
      BY <1>0 DEF SInv, Hand
    <2>2. CASE FromQueue(s, r, t, u)
      BY <1>0, <2>1, <2>2 DEF FromQueue, SInv, Queues
    <2>3. CASE FromHandoff(s, r, t, u)
      BY <1>0, <1>1, <2>1, <2>3 DEF FromHandoff, SInv, Hand
    <2>4. QED
      BY <2>2, <2>3
  <1>8. /\ NoRepeats(r.sleepQueue) /\ Sleep(r)
        /\ \A v \in Threads : v \in Elems(r.sleepQueue) <=> v \in Elems(s.sleepQueue) \/ (v = t /\ X = "SLEEPING")
        /\ r.marked = s.marked \ {t}
    <2>1. NoRepeats(s.sleepQueue) /\ Sleep(s) /\ t \notin Elems(s.sleepQueue)
      BY DEF SInv, Queues
    <2>2. CASE X = "SLEEPING"
      <3>1. t \in s.marked /\ r.marked = s.marked \ {t} /\ r.sleepQueue = SleepInsert(s, t)
        BY <2>2 DEF GoesToSleep
      <3>2. s.left[t] >= 1
        BY <3>1 DEF SInv, Words
      <3>3. /\ NoRepeats(r.sleepQueue)
            /\ Elems(r.sleepQueue) = Elems(s.sleepQueue) \cup {t}
            /\ \A i \in DOMAIN r.sleepQueue : s.left[r.sleepQueue[i]] >= 1
            /\ \A i, j \in DOMAIN r.sleepQueue : i < j => s.left[r.sleepQueue[i]] <= s.left[r.sleepQueue[j]]
        BY <1>0, <2>1, <3>1, <3>2, SleepInsertFacts
      <3>4. QED
        BY <1>5, <2>2, <3>1, <3>3 DEF Sleep
    <2>3. CASE X # "SLEEPING"
      BY <1>5, <2>1, <2>3 DEF StaysAwake, Sleep
    <2>4. QED
      BY <2>2, <2>3
  <1> HIDE DEF F
  <1>9. Ctx(r)
    BY <1>0, <1>1, <1>2, <1>3, <1>4 DEF SInv, Ctx, Holds
  <1>10. Free(r)
    BY <1>0, <1>1, <1>3, <1>4, <1>5 DEF SInv, Free
  <1>11. Count(r)
    <2>1. Holding(r) = (Holding(s) \ {t}) \cup {u} /\ u \in Threads \ Holding(s) /\ t \in Holding(s)
      BY <1>1, <1>2, <1>4 DEF Holding, Holds
    <2>2. Cardinality(Holding(r)) = Cardinality(Holding(s))
      BY <2>1, CountSwap DEF Holding
    <2>3. QED
      BY <1>4, <2>2 DEF SInv, Count, Holding
  <1>12. Queues(r, F)
    <2>1. /\ NoRepeats(r.runQueue) /\ NoRepeats(r.outQueue) /\ NoRepeats(r.sleepQueue) /\ NoRepeats(r.fakeLeaves)
      BY <1>5, <1>6, <1>8 DEF SInv, Queues
    <2>2. \A v \in Threads : v \in Elems(r.outQueue) <=> r.state[v] = "OUT"
      BY <1>1, <1>2, <1>4, <1>5 DEF SInv, Queues
    <2>3. \A v \in Threads : v \in Elems(r.sleepQueue) <=> r.state[v] = "SLEEPING"
      BY <1>1, <1>2, <1>4, <1>8 DEF SInv, Queues
    <2>4. ASSUME NEW v \in Threads
          PROVE  v \in Elems(r.runQueue) <=>
                   r.state[v] = "QUEUED" /\ v # F /\ \A w \in Threads : r.handoffThread[w] # v
      <3>1. v \in Elems(s.runQueue) <=> s.state[v] = "QUEUED" /\ \A w \in Threads : s.handoffThread[w] # v
        BY <1>0 DEF SInv, Queues
      <3>2. CASE v = t
        BY <1>1, <1>2, <1>4, <1>6, <3>1, <3>2 DEF F
      <3>3. CASE v = u
        BY <1>1, <1>2, <1>4, <1>6, <3>3
      <3>4. CASE v # t /\ v # u
        <4>1. r.state[v] = s.state[v] /\ v # F
          BY <1>0, <1>1, <1>4, <3>4 DEF F
        <4>2. s.handoffThread[t] # v /\ r.handoffThread[t] # v
          BY <1>0, <1>7, <3>4 DEF FromQueue, FromHandoff
        <4>3. QED
          BY <1>6, <1>7, <3>1, <3>4, <4>1, <4>2
      <3>5. QED
        BY <3>2, <3>3, <3>4
    <2>5. \A v \in Elems(r.fakeLeaves) : r.state[v] = "RUNNING"
      <3>1. SUFFICES ASSUME NEW v \in Elems(s.fakeLeaves)
                     PROVE  r.state[v] = "RUNNING"
        BY <1>5
      <3>2. v \in Threads /\ s.state[v] = "RUNNING" /\ v # t /\ v # u
        BY <1>0, <1>2, ElemsTypes DEF SInv, Queues
      <3>3. QED
        BY <1>1, <1>4, <3>2
    <2>6. QED
      BY <2>1, <2>2, <2>3, <2>4, <2>5 DEF Queues
  <1>13. Bar(r)
    <2>1. \A d \in Cores \ {c} : s.curThread[d] # t /\ s.curThread[d] # u
      BY <1>2 DEF SInv, Ctx, Holds
    <2>2. \A d \in Cores \ {c} :
             /\ r.curThread[d] = s.curThread[d]
             /\ s.curThread[d] # None => r.state[s.curThread[d]] = s.state[s.curThread[d]]
      BY <1>0, <1>1, <1>4, <2>1
    <2>3. r.curThread[c] = u /\ r.state[u] = "RUNNING" /\ c \in s.members
      BY <1>0, <1>1, <1>3, <1>4 DEF SInv, Bar
    <2>4. \A d \in Cores : d \in s.members <=> s.curThread[d] # None /\ s.state[s.curThread[d]] = "RUNNING"
      BY DEF SInv, Bar
    <2>5. \A d \in Cores : d \in r.members <=> r.curThread[d] # None /\ r.state[r.curThread[d]] = "RUNNING"
      BY <1>0, <1>5, <2>2, <2>3, <2>4
    <2>6. QED
      BY <1>5, <2>5 DEF SInv, Bar
  <1>14. InMask(r)
    BY <1>1, <1>2, <1>4 DEF SInv, InMask, Holds
  <1>15. Hand(r, F)
    <2>1. SUFFICES ASSUME NEW v \in Threads, r.handoffThread[v] # None
                   PROVE  /\ r.state[v] = "RUNNING"
                          /\ r.cid[v] \notin r.arrived
                          /\ r.state[r.handoffThread[v]] = "QUEUED"
                          /\ r.handoffThread[v] # F
                          /\ r.cid[v] \in mask[r.handoffThread[v]]
                          /\ \A w \in Threads : r.handoffThread[w] = r.handoffThread[v] => w = v
      BY DEF Hand
    <2>2. v # t /\ r.handoffThread[v] = s.handoffThread[v] /\ s.handoffThread[v] \in Threads
      BY <1>1, <1>7, <2>1
    <2>3. /\ s.state[v] = "RUNNING" /\ s.cid[v] \notin s.arrived
          /\ s.state[s.handoffThread[v]] = "QUEUED"
          /\ s.cid[v] \in mask[s.handoffThread[v]]
          /\ \A w \in Threads : s.handoffThread[w] = s.handoffThread[v] => w = v
      BY <2>1, <2>2 DEF SInv, Hand
    <2>4. s.handoffThread[v] # t /\ s.handoffThread[v] # u /\ v # u
      BY <1>2, <1>7, <2>2, <2>3
    <2>5. /\ r.state[v] = s.state[v] /\ r.cid[v] = s.cid[v]
          /\ r.state[s.handoffThread[v]] = s.state[s.handoffThread[v]]
      BY <1>1, <1>4, <2>2, <2>4
    <2>6. s.handoffThread[v] # F
      BY <1>0, <2>2, <2>4 DEF F
    <2>7. ASSUME NEW w \in Threads, r.handoffThread[w] = r.handoffThread[v]
          PROVE  w = v
      BY <1>7, <2>1, <2>2, <2>3, <2>7
    <2>8. QED
      BY <1>5, <2>2, <2>3, <2>5, <2>6, <2>7
  <1>16. Idle(r)
    <2>1. SUFFICES ASSUME NEW v \in Elems(s.runQueue), NEW d \in mask[v]
                   PROVE  r.curThread[d] # None /\ r.state[r.curThread[d]] = "RUNNING"
      BY <1>6 DEF Idle
    <2>2. d \in Cores /\ s.curThread[d] # None /\ s.state[s.curThread[d]] = "RUNNING"
      BY <1>0, ElemsTypes DEF SInv, Idle
    <2>3. d # c => s.curThread[d] # t /\ s.curThread[d] # u
      BY <1>1, <1>2, <2>2 DEF SInv, Ctx
    <2>4. QED
      BY <1>0, <1>1, <1>2, <1>4, <2>2, <2>3
  <1>17. Words(r, F)
    <2>1. s.marked \subseteq Threads
      BY <1>0, ElemsTypes
    <2>2. \A v \in Threads : r.state[v] = "SLEEPING" => r.futexWord[v] = 1
      BY <1>1, <1>2, <1>4 DEF SInv, Words, GoesToSleep
    <2>3. \A v \in Threads : r.state[v] = "QUEUED" /\ v # F => r.futexWord[v] = 1
      BY <1>0, <1>1, <1>2, <1>4 DEF SInv, Words, F
    <2>4. \A v \in r.marked : r.state[v] = "RUNNING" /\ r.futexWord[v] = 1 /\ r.left[v] >= 1
      BY <1>1, <1>2, <1>4, <1>5, <1>8, <2>1 DEF SInv, Words
    <2>5. QED
      BY <1>5, <2>2, <2>3, <2>4 DEF SInv, Words
  <1>18. SInv(r, F)
    BY <1>0, <1>4, <1>8, <1>9, <1>10, <1>11, <1>12, <1>13, <1>14, <1>15, <1>16, <1>17 DEF SInv
  <1>19. \A v \in Threads \ {t} : Calm(s, r, v)
    BY <1>0, <1>1, <1>2, <1>4, <1>5, <1>7, <1>8 DEF Calm
  <1>20. r.state[t] = X /\ t \notin r.marked
    BY <1>1, <1>2, <1>4, <1>8
  <1>21. QED
    BY <1>7, <1>18, <1>19, <1>20 DEF F

-----------------------------------------------------------------------------
(* Giving a context up *)

\* Nobody in the run queue may use context c.
Unwanted(s, c) == \A v \in Elems(s.runQueue) : c \notin mask[v]

\* A thread leaves the barrier and keeps its context.
LEMMA OutInv ==
  ASSUME NEW s, SInv(s, None), NEW r \in SchedState, NEW t \in Threads,
         s.state[t] = "RUNNING", t \notin Elems(s.fakeLeaves), t \notin s.marked,
         s.cid[t] \notin s.arrived, s.handoffThread[t] = None, Unwanted(s, s.cid[t]),
         r.state = [s.state EXCEPT ![t] = "OUT"],
         r.outQueue = Append(s.outQueue, t),
         r.members = s.members \ {s.cid[t]},
         r.ok,
         Keeps(s, r, {"state", "outQueue", "members", "ok"})
  PROVE  SInv(r, None) /\ \A v \in Threads \ {t} : Calm(s, r, v)
  <1> DEFINE c == s.cid[t]
  <1>0. s \in SchedState /\ None \notin Threads /\ None \notin Cores
    BY NoneAssumption DEF SInv
  <1>1. /\ s.state \in [Threads -> States] /\ s.cid \in [Threads -> Cores]
        /\ s.curThread \in [Cores -> Threads \cup {None}]
        /\ s.handoffThread \in [Threads -> Threads \cup {None}]
        /\ c \in Cores /\ s.outQueue \in Seq(Threads)
    BY <1>0, FieldTypes
  <1>2. s.curThread[c] = t /\ \A d \in Cores \ {c} : s.curThread[d] # t
    BY <1>1 DEF SInv, Ctx, Holds
  <1>3. /\ r.cid = s.cid /\ r.curThread = s.curThread /\ r.freeList = s.freeList /\ r.runQueue = s.runQueue
        /\ r.sleepQueue = s.sleepQueue /\ r.fakeLeaves = s.fakeLeaves /\ r.handoffThread = s.handoffThread
        /\ r.arrived = s.arrived /\ r.left = s.left /\ r.futexWord = s.futexWord /\ r.marked = s.marked
        /\ r.scheduledThreads = s.scheduledThreads
    BY DEF Keeps, Fields
  <1>4. /\ NoRepeats(r.outQueue) /\ Elems(r.outQueue) = Elems(s.outQueue) \cup {t}
    <2>1. NoRepeats(s.outQueue) /\ t \notin Elems(s.outQueue)
      BY DEF SInv, Queues
    <2>2. QED
      BY <1>1, <2>1, AppendFacts
  <1>5. \A v \in Threads : s.handoffThread[v] # t
    BY <1>0 DEF SInv, Hand
  <1>6. Ctx(r) /\ Free(r) /\ InMask(r)
    BY <1>1, <1>3 DEF SInv, Ctx, Free, InMask, Holds
  <1>7. Count(r)
    <2>1. Holding(r) = Holding(s)
      BY <1>1 DEF Holding, Holds
    <2>2. QED
      BY <1>3, <2>1 DEF SInv, Count, Holding
  <1>8. Queues(r, None)
    <2>1. /\ NoRepeats(r.runQueue) /\ NoRepeats(r.outQueue) /\ NoRepeats(r.sleepQueue) /\ NoRepeats(r.fakeLeaves)
      BY <1>3, <1>4 DEF SInv, Queues
    <2>2. /\ \A u \in Threads : u \in Elems(r.outQueue) <=> r.state[u] = "OUT"
          /\ \A u \in Threads : u \in Elems(r.sleepQueue) <=> r.state[u] = "SLEEPING"
      BY <1>1, <1>3, <1>4 DEF SInv, Queues
    <2>3. \A u \in Threads : u \in Elems(r.runQueue) <=>
               r.state[u] = "QUEUED" /\ u # None /\ \A v \in Threads : r.handoffThread[v] # u
      BY <1>1, <1>3 DEF SInv, Queues
    <2>4. \A u \in Elems(r.fakeLeaves) : r.state[u] = "RUNNING"
      BY <1>0, <1>1, <1>3, ElemsTypes DEF SInv, Queues
    <2>5. QED
      BY <2>1, <2>2, <2>3, <2>4 DEF Queues
  <1>9. Bar(r)
    BY <1>0, <1>1, <1>2, <1>3 DEF SInv, Bar
  <1>10. Hand(r, None)
    BY <1>0, <1>1, <1>3, <1>5 DEF SInv, Hand
  <1>11. Idle(r)
    <2>1. SUFFICES ASSUME NEW u \in Elems(s.runQueue), NEW d \in mask[u]
                   PROVE  r.curThread[d] # None /\ r.state[r.curThread[d]] = "RUNNING"
      BY <1>3 DEF Idle
    <2>2. d \in Cores /\ s.curThread[d] # None /\ s.state[s.curThread[d]] = "RUNNING" /\ d # c
      BY <1>0, ElemsTypes DEF SInv, Idle, Unwanted
    <2>3. QED
      BY <1>1, <1>2, <1>3, <2>2
  <1>12. Sleep(r)
    BY <1>3 DEF SInv, Sleep
  <1>13. Words(r, None)
    BY <1>0, <1>1, <1>3, ElemsTypes DEF SInv, Words
  <1>14. SInv(r, None)
    BY <1>6, <1>7, <1>8, <1>9, <1>10, <1>11, <1>12, <1>13 DEF SInv
  <1>15. \A v \in Threads \ {t} : Calm(s, r, v)
    BY <1>1, <1>3 DEF Calm
  <1>16. QED
    BY <1>14, <1>15

\* A thread goes to sleep, and its context is idle.
LEMMA NapInv ==
  ASSUME NEW s, SInv(s, None), NEW r \in SchedState, NEW t \in Threads,
         s.state[t] = "RUNNING", t \notin Elems(s.fakeLeaves), GoesToSleep(s, r, t),
         s.cid[t] \notin s.arrived, s.handoffThread[t] = None, Unwanted(s, s.cid[t]),
         r.state = [s.state EXCEPT ![t] = "SLEEPING"],
         r.curThread = [s.curThread EXCEPT ![s.cid[t]] = None],
         r.freeList = Append(s.freeList, s.cid[t]),
         r.scheduledThreads = s.scheduledThreads - 1,
         r.members = s.members \ {s.cid[t]},
         r.ok,
         Keeps(s, r, {"state", "curThread", "freeList", "scheduledThreads", "members", "marked",
                      "sleepQueue", "ok"})
  PROVE  SInv(r, None) /\ \A v \in Threads \ {t} : Calm(s, r, v)
  <1> DEFINE c == s.cid[t]
  <1>0. s \in SchedState /\ None \notin Threads /\ None \notin Cores
    BY NoneAssumption DEF SInv
  <1>1. /\ s.state \in [Threads -> States] /\ s.cid \in [Threads -> Cores]
        /\ s.curThread \in [Cores -> Threads \cup {None}]
        /\ s.handoffThread \in [Threads -> Threads \cup {None}]
        /\ s.freeList \in Seq(Cores) /\ s.left \in [Threads -> Int]
        /\ c \in Cores
    <2>1. /\ s.state \in [Threads -> States] /\ s.cid \in [Threads -> Cores]
          /\ s.curThread \in [Cores -> Threads \cup {None}]
          /\ s.handoffThread \in [Threads -> Threads \cup {None}]
          /\ s.freeList \in Seq(Cores) /\ s.left \in [Threads -> Int]
      BY <1>0 DEF SchedState
    <2>2. QED
      BY <2>1
  <1>2. s.curThread[c] = t /\ \A d \in Cores \ {c} : s.curThread[d] # t
    BY <1>1 DEF SInv, Ctx, Holds
  <1>3. /\ r.cid = s.cid /\ r.outQueue = s.outQueue /\ r.runQueue = s.runQueue
        /\ r.fakeLeaves = s.fakeLeaves /\ r.handoffThread = s.handoffThread
        /\ r.arrived = s.arrived /\ r.left = s.left /\ r.futexWord = s.futexWord
        /\ r.marked = s.marked \ {t} /\ t \in s.marked /\ r.sleepQueue = SleepInsert(s, t)
    BY DEF Keeps, Fields, GoesToSleep
  <1>4. /\ NoRepeats(r.freeList) /\ Elems(r.freeList) = Elems(s.freeList) \cup {c}
    <2>1. NoRepeats(s.freeList) /\ c \notin Elems(s.freeList)
      BY <1>0, <1>1, <1>2 DEF SInv, Free
    <2>2. QED
      BY <1>1, <2>1, AppendFacts
  <1>5. \A v \in Threads : s.handoffThread[v] # t
    BY <1>0 DEF SInv, Hand
  <1>6. /\ NoRepeats(r.sleepQueue) /\ Sleep(r)
        /\ Elems(r.sleepQueue) = Elems(s.sleepQueue) \cup {t}
    <2>1. NoRepeats(s.sleepQueue) /\ Sleep(s) /\ t \notin Elems(s.sleepQueue) /\ s.left[t] >= 1
      BY <1>3 DEF SInv, Queues, Words
    <2>2. /\ NoRepeats(r.sleepQueue)
          /\ Elems(r.sleepQueue) = Elems(s.sleepQueue) \cup {t}
          /\ \A i \in DOMAIN r.sleepQueue : s.left[r.sleepQueue[i]] >= 1
          /\ \A i, j \in DOMAIN r.sleepQueue : i < j => s.left[r.sleepQueue[i]] <= s.left[r.sleepQueue[j]]
      BY <1>0, <1>3, <2>1, SleepInsertFacts
    <2>3. QED
      BY <1>3, <2>2 DEF Sleep
  <1>7. Ctx(r) /\ Free(r) /\ InMask(r)
    BY <1>0, <1>1, <1>2, <1>3, <1>4 DEF SInv, Ctx, Free, InMask, Holds
  <1>8. Count(r)
    <2>1. Holding(r) = Holding(s) \ {t} /\ t \in Holding(s)
      BY <1>1 DEF Holding, Holds
    <2>2. Cardinality(Holding(r)) = Cardinality(Holding(s)) - 1
      BY <2>1, CountRemove DEF Holding
    <2>3. QED
      BY <2>2 DEF SInv, Count, Holding
  <1>9. Queues(r, None)
    <2>1. /\ NoRepeats(r.runQueue) /\ NoRepeats(r.outQueue) /\ NoRepeats(r.sleepQueue) /\ NoRepeats(r.fakeLeaves)
      BY <1>3, <1>6 DEF SInv, Queues
    <2>2. /\ \A u \in Threads : u \in Elems(r.outQueue) <=> r.state[u] = "OUT"
          /\ \A u \in Threads : u \in Elems(r.sleepQueue) <=> r.state[u] = "SLEEPING"
      BY <1>1, <1>3, <1>6 DEF SInv, Queues
    <2>3. \A u \in Threads : u \in Elems(r.runQueue) <=>
               r.state[u] = "QUEUED" /\ u # None /\ \A v \in Threads : r.handoffThread[v] # u
      BY <1>1, <1>3 DEF SInv, Queues
    <2>4. \A u \in Elems(r.fakeLeaves) : r.state[u] = "RUNNING"
      BY <1>0, <1>1, <1>3, ElemsTypes DEF SInv, Queues
    <2>5. QED
      BY <2>1, <2>2, <2>3, <2>4 DEF Queues
  <1>10. Bar(r)
    BY <1>0, <1>1, <1>2, <1>3 DEF SInv, Bar
  <1>11. Hand(r, None)
    BY <1>0, <1>1, <1>3, <1>5 DEF SInv, Hand
  <1>12. Idle(r)
    <2>1. SUFFICES ASSUME NEW u \in Elems(s.runQueue), NEW d \in mask[u]
                   PROVE  r.curThread[d] # None /\ r.state[r.curThread[d]] = "RUNNING"
      BY <1>3 DEF Idle
    <2>2. d \in Cores /\ s.curThread[d] # None /\ s.state[s.curThread[d]] = "RUNNING" /\ d # c
      BY <1>0, ElemsTypes DEF SInv, Idle, Unwanted
    <2>3. QED
      BY <1>1, <1>2, <2>2
  <1>13. Words(r, None)
    BY <1>0, <1>1, <1>3, ElemsTypes DEF SInv, Words
  <1>14. SInv(r, None)
    BY <1>6, <1>7, <1>8, <1>9, <1>10, <1>11, <1>12, <1>13 DEF SInv
  <1>15. \A v \in Threads \ {t} : Calm(s, r, v)
    BY <1>1, <1>3 DEF Calm
  <1>16. QED
    BY <1>14, <1>15

-----------------------------------------------------------------------------
(* The other moves *)

\* A thread outside every structure of the scheduler is created, blocked or deleted.
LEMMA QuietInv ==
  ASSUME NEW s, SInv(s, None), NEW r \in SchedState, NEW t \in Threads,
         s.state[t] \in {"STARTED", "BLOCKED", "DELETED"},
         r.state[t] \in {"STARTED", "BLOCKED", "DELETED"},
         \A v \in Threads \ {t} : /\ r.state[v] = s.state[v] /\ r.cid[v] = s.cid[v]
                                  /\ r.futexWord[v] = s.futexWord[v],
         r.ok,
         Keeps(s, r, {"state", "cid", "futexWord", "ok"})
  PROVE  SInv(r, None) /\ \A v \in Threads \ {t} : Calm(s, r, v)
  <1>0. s \in SchedState
    BY DEF SInv
  <1>1. /\ r.handoffThread = s.handoffThread /\ r.marked = s.marked /\ r.left = s.left
        /\ r.curThread = s.curThread /\ r.freeList = s.freeList /\ r.runQueue = s.runQueue
        /\ r.outQueue = s.outQueue /\ r.sleepQueue = s.sleepQueue /\ r.fakeLeaves = s.fakeLeaves
        /\ r.scheduledThreads = s.scheduledThreads /\ r.members = s.members /\ r.arrived = s.arrived
    BY DEF Keeps, Fields
  <1>2. /\ s.curThread \in [Cores -> Threads \cup {None}]
        /\ s.handoffThread \in [Threads -> Threads \cup {None}]
        /\ s.marked \subseteq Threads /\ None \notin Threads
        /\ Elems(s.fakeLeaves) \subseteq Threads
    BY <1>0, FieldTypes, ElemsTypes
  <1>3. /\ ~Holds(s, t) /\ ~Holds(r, t) /\ \A v \in Threads \ {t} : Holds(r, v) <=> Holds(s, v)
        /\ \A c \in Cores : s.curThread[c] # t
        /\ \A v \in Threads : s.handoffThread[v] # t
        /\ s.handoffThread[t] = None
    BY <1>2 DEF SInv, Ctx, Hand, Holds
  <1>4. Ctx(r) /\ Free(r) /\ InMask(r)
    BY <1>1, <1>2, <1>3 DEF SInv, Ctx, Free, InMask
  <1>5. Count(r)
    <2>1. Holding(r) = Holding(s)
      BY <1>3 DEF Holding
    <2>2. QED
      BY <1>1, <2>1 DEF SInv, Count, Holding
  <1>6. Queues(r, None)
    BY <1>1, <1>2, <1>3 DEF SInv, Queues
  <1>7. Bar(r) /\ Idle(r)
    <2>1. \A c \in Cores : s.curThread[c] # None => r.state[s.curThread[c]] = s.state[s.curThread[c]]
      BY <1>2, <1>3
    <2>2. \A u \in Elems(s.runQueue) : \A c \in mask[u] : c \in Cores
      BY <1>0, ElemsTypes
    <2>3. QED
      BY <1>1, <2>1, <2>2 DEF SInv, Bar, Idle
  <1>8. Hand(r, None)
    BY <1>1, <1>2, <1>3 DEF SInv, Hand
  <1>9. Sleep(r) /\ Words(r, None)
    BY <1>1, <1>2, <1>3 DEF SInv, Sleep, Words
  <1>10. SInv(r, None)
    BY <1>4, <1>5, <1>6, <1>7, <1>8, <1>9 DEF SInv
  <1>11. \A v \in Threads \ {t} : Calm(s, r, v)
    BY <1>1 DEF Calm
  <1>12. QED
    BY <1>10, <1>11

\* A thread that is out ends: its context is idle.
LEMMA FreeInv ==
  ASSUME NEW s, SInv(s, None), NEW r \in SchedState, NEW t \in Threads,
         s.state[t] = "OUT",
         r.state = [s.state EXCEPT ![t] = "DELETED"],
         r.cid = [s.cid EXCEPT ![t] = 0],
         r.futexWord = [s.futexWord EXCEPT ![t] = 0],
         r.curThread = [s.curThread EXCEPT ![s.cid[t]] = None],
         r.freeList = Append(s.freeList, s.cid[t]),
         r.outQueue = Remove(s.outQueue, t),
         r.scheduledThreads = s.scheduledThreads - 1,
         r.ok,
         Keeps(s, r, {"state", "cid", "futexWord", "curThread", "freeList", "outQueue",
                      "scheduledThreads", "ok"})
  PROVE  SInv(r, None) /\ \A v \in Threads \ {t} : Calm(s, r, v)
  <1> DEFINE c == s.cid[t]
  <1>0. s \in SchedState
    BY DEF SInv
  <1>1. /\ r.handoffThread = s.handoffThread /\ r.marked = s.marked /\ r.left = s.left
        /\ r.runQueue = s.runQueue /\ r.sleepQueue = s.sleepQueue /\ r.fakeLeaves = s.fakeLeaves
        /\ r.members = s.members /\ r.arrived = s.arrived
    BY DEF Keeps, Fields
  <1>2. /\ s.curThread \in [Cores -> Threads \cup {None}] /\ s.state \in [Threads -> States]
        /\ s.cid \in [Threads -> Cores] /\ s.futexWord \in [Threads -> 0..1]
        /\ s.handoffThread \in [Threads -> Threads \cup {None}]
        /\ s.marked \subseteq Threads /\ None \notin Threads /\ None \notin Cores
        /\ Elems(s.fakeLeaves) \subseteq Threads
        /\ s.freeList \in Seq(Cores) /\ s.outQueue \in Seq(Threads)
    BY <1>0, FieldTypes, ElemsTypes
  <1>3. /\ c \in Cores /\ s.curThread[c] = t /\ \A d \in Cores \ {c} : s.curThread[d] # t
        /\ \A v \in Threads : s.handoffThread[v] # t
        /\ s.handoffThread[t] = None
    <2>1. c \in Cores /\ s.curThread[c] = t /\ \A d \in Cores \ {c} : s.curThread[d] # t
      BY <1>2 DEF SInv, Ctx, Holds
    <2>2. \A v \in Threads : s.handoffThread[v] # t
      BY <1>2 DEF SInv, Hand
    <2>3. s.handoffThread[t] = None
      BY DEF SInv, Hand
    <2>4. QED
      BY <2>1, <2>2, <2>3
  <1>4. /\ r.state[t] = "DELETED" /\ r.futexWord[t] = 0 /\ r.curThread[c] = None
        /\ \A v \in Threads \ {t} : /\ r.state[v] = s.state[v] /\ r.cid[v] = s.cid[v]
                                    /\ r.futexWord[v] = s.futexWord[v]
        /\ \A d \in Cores \ {c} : r.curThread[d] = s.curThread[d]
    BY <1>2, <1>3
  <1>5. /\ NoRepeats(r.freeList) /\ Elems(r.freeList) = Elems(s.freeList) \cup {c}
    <2>1. NoRepeats(s.freeList) /\ c \notin Elems(s.freeList)
      BY <1>2, <1>3 DEF SInv, Free
    <2>2. QED
      BY <1>2, <1>3, <2>1, AppendFacts
  <1>6. NoRepeats(r.outQueue) /\ Elems(r.outQueue) = Elems(s.outQueue) \ {t}
    BY <1>2, RemoveFacts DEF SInv, Queues, Remove
  <1>7. Ctx(r) /\ InMask(r)
    BY <1>2, <1>3, <1>4 DEF SInv, Ctx, InMask, Holds
  <1>8. Free(r)
    BY <1>2, <1>3, <1>4, <1>5 DEF SInv, Free
  <1>9. Count(r)
    <2>1. Holding(r) = Holding(s) \ {t} /\ t \in Holding(s)
      BY <1>4 DEF Holding, Holds
    <2>2. Holding(s) \in SUBSET Threads
      BY DEF Holding
    <2>3. Cardinality(Holding(r)) = Cardinality(Holding(s)) - 1
      BY <2>1, <2>2, CountRemove
    <2>4. QED
      BY <2>3 DEF SInv, Count, Holding
  <1>10. Queues(r, None)
    BY <1>1, <1>2, <1>3, <1>4, <1>6 DEF SInv, Queues
  <1>11. Bar(r) /\ Idle(r)
    <2>1. \A d \in Cores \ {c} :
             s.curThread[d] # None => r.state[s.curThread[d]] = s.state[s.curThread[d]]
      BY <1>2, <1>3, <1>4
    <2>2. \A u \in Elems(s.runQueue) : \A d \in mask[u] : d \in Cores
      BY <1>0, ElemsTypes
    <2>3. c \notin s.members /\ \A u \in Elems(s.runQueue) : c \notin mask[u]
      BY <1>2, <1>3 DEF SInv, Bar, Idle
    <2>4. Bar(r)
      BY <1>1, <1>2, <1>3, <1>4, <2>1, <2>3 DEF SInv, Bar
    <2>5. Idle(r)
      BY <1>1, <1>4, <2>1, <2>2, <2>3 DEF SInv, Idle
    <2>6. QED
      BY <2>4, <2>5
  <1>12. Hand(r, None)
    BY <1>1, <1>2, <1>3, <1>4 DEF SInv, Hand
  <1>13. Sleep(r) /\ Words(r, None)
    BY <1>1, <1>2, <1>4 DEF SInv, Sleep, Words
  <1>14. SInv(r, None)
    BY <1>7, <1>8, <1>9, <1>10, <1>11, <1>12, <1>13 DEF SInv
  <1>15. \A v \in Threads \ {t} : Calm(s, r, v)
    BY <1>1, <1>4 DEF Calm
  <1>16. QED
    BY <1>14, <1>15

\* A thread that is out comes back to its context.
LEMMA ReturnInv ==
  ASSUME NEW s, SInv(s, None), NEW r \in SchedState, NEW t \in Threads,
         s.state[t] = "OUT",
         r.state = [s.state EXCEPT ![t] = "RUNNING"],
         r.outQueue = Remove(s.outQueue, t),
         r.members = s.members \cup {s.cid[t]},
         r.ok,
         Keeps(s, r, {"state", "outQueue", "members", "ok"})
  PROVE  /\ SInv(r, None) /\ \A v \in Threads \ {t} : Calm(s, r, v)
         /\ r.cid[t] \notin r.arrived
  <1> DEFINE c == s.cid[t]
  <1>0. s \in SchedState
    BY DEF SInv
  <1>1. /\ r.handoffThread = s.handoffThread /\ r.marked = s.marked /\ r.left = s.left
        /\ r.cid = s.cid /\ r.futexWord = s.futexWord /\ r.curThread = s.curThread
        /\ r.freeList = s.freeList /\ r.scheduledThreads = s.scheduledThreads
        /\ r.runQueue = s.runQueue /\ r.sleepQueue = s.sleepQueue /\ r.fakeLeaves = s.fakeLeaves
        /\ r.arrived = s.arrived
    BY DEF Keeps, Fields
  <1>2. /\ s.curThread \in [Cores -> Threads \cup {None}] /\ s.state \in [Threads -> States]
        /\ s.cid \in [Threads -> Cores]
        /\ s.handoffThread \in [Threads -> Threads \cup {None}]
        /\ s.marked \subseteq Threads /\ None \notin Threads /\ None \notin Cores
        /\ Elems(s.fakeLeaves) \subseteq Threads
        /\ s.outQueue \in Seq(Threads)
    BY <1>0, FieldTypes, ElemsTypes
  <1>3. /\ c \in Cores /\ s.curThread[c] = t /\ \A d \in Cores \ {c} : s.curThread[d] # t
        /\ \A v \in Threads : s.handoffThread[v] # t
        /\ s.handoffThread[t] = None
    BY <1>2 DEF SInv, Ctx, Hand, Holds
  <1>4. /\ r.state[t] = "RUNNING" /\ \A v \in Threads \ {t} : r.state[v] = s.state[v]
        /\ \A v \in Threads : Holds(r, v) <=> Holds(s, v)
    BY <1>2 DEF Holds
  <1>5. NoRepeats(r.outQueue) /\ Elems(r.outQueue) = Elems(s.outQueue) \ {t}
    BY <1>2, RemoveFacts DEF SInv, Queues, Remove
  <1>6. Ctx(r) /\ InMask(r) /\ Free(r)
    BY <1>1, <1>4 DEF SInv, Ctx, InMask, Free
  <1>7. Count(r)
    <2>1. Holding(r) = Holding(s)
      BY <1>4 DEF Holding
    <2>2. QED
      BY <1>1, <2>1 DEF SInv, Count, Holding
  <1>8. Queues(r, None)
    BY <1>1, <1>2, <1>3, <1>4, <1>5 DEF SInv, Queues
  <1>9. Bar(r) /\ Idle(r)
    <2>1. \A d \in Cores \ {c} :
             s.curThread[d] # None => r.state[s.curThread[d]] = s.state[s.curThread[d]]
      BY <1>2, <1>3, <1>4
    <2>2. \A u \in Elems(s.runQueue) : \A d \in mask[u] : d \in Cores
      BY <1>0, ElemsTypes
    <2>3. QED
      BY <1>1, <1>2, <1>3, <1>4, <2>1, <2>2 DEF SInv, Bar, Idle
  <1>10. Hand(r, None)
    BY <1>1, <1>2, <1>3, <1>4 DEF SInv, Hand
  <1>11. Sleep(r) /\ Words(r, None)
    BY <1>1, <1>2, <1>4 DEF SInv, Sleep, Words
  <1>12. SInv(r, None)
    BY <1>6, <1>7, <1>8, <1>9, <1>10, <1>11 DEF SInv
  <1>13. \A v \in Threads \ {t} : Calm(s, r, v)
    BY <1>1, <1>4 DEF Calm
  <1>14. r.cid[t] \notin r.arrived
    BY <1>1, <1>2, <1>3 DEF SInv, Bar
  <1>15. QED
    BY <1>12, <1>13, <1>14

\* A sleeper is blocked.
LEMMA UnsleepInv ==
  ASSUME NEW s, SInv(s, None), NEW r \in SchedState, NEW t \in Threads,
         s.state[t] = "SLEEPING",
         r.state = [s.state EXCEPT ![t] = "BLOCKED"],
         r.sleepQueue = Remove(s.sleepQueue, t),
         r.left = [s.left EXCEPT ![t] = 0],
         r.ok,
         Keeps(s, r, {"state", "sleepQueue", "left", "ok"})
  PROVE  SInv(r, None) /\ \A v \in Threads \ {t} : Calm(s, r, v)
  <1>0. s \in SchedState
    BY DEF SInv
  <1>1. /\ r.handoffThread = s.handoffThread /\ r.marked = s.marked
        /\ r.cid = s.cid /\ r.futexWord = s.futexWord /\ r.curThread = s.curThread
        /\ r.freeList = s.freeList /\ r.scheduledThreads = s.scheduledThreads
        /\ r.runQueue = s.runQueue /\ r.outQueue = s.outQueue /\ r.fakeLeaves = s.fakeLeaves
        /\ r.arrived = s.arrived /\ r.members = s.members
    BY DEF Keeps, Fields
  <1>2. /\ s.curThread \in [Cores -> Threads \cup {None}] /\ s.state \in [Threads -> States]
        /\ s.left \in [Threads -> Int]
        /\ s.handoffThread \in [Threads -> Threads \cup {None}]
        /\ s.marked \subseteq Threads /\ None \notin Threads /\ None \notin Cores
        /\ Elems(s.fakeLeaves) \subseteq Threads
        /\ s.sleepQueue \in Seq(Threads)
    BY <1>0, FieldTypes, ElemsTypes
  <1>3. /\ \A c \in Cores : s.curThread[c] # t
        /\ \A v \in Threads : s.handoffThread[v] # t
        /\ s.handoffThread[t] = None
    BY <1>2 DEF SInv, Ctx, Hand, Holds
  <1>4. /\ r.state[t] = "BLOCKED" /\ \A v \in Threads \ {t} : r.state[v] = s.state[v]
        /\ \A v \in Threads : Holds(r, v) <=> Holds(s, v)
        /\ r.left[t] = 0 /\ \A v \in Threads \ {t} : r.left[v] = s.left[v]
    BY <1>2 DEF Holds
  <1>5. NoRepeats(r.sleepQueue) /\ Elems(r.sleepQueue) = Elems(s.sleepQueue) \ {t}
    BY <1>2, RemoveFacts DEF SInv, Queues, Remove
  <1>6. Ctx(r) /\ InMask(r) /\ Free(r)
    BY <1>1, <1>4 DEF SInv, Ctx, InMask, Free
  <1>7. Count(r)
    <2>1. Holding(r) = Holding(s)
      BY <1>4 DEF Holding
    <2>2. QED
      BY <1>1, <2>1 DEF SInv, Count, Holding
  <1>8. Queues(r, None)
    BY <1>1, <1>2, <1>3, <1>4, <1>5 DEF SInv, Queues
  <1>9. Bar(r) /\ Idle(r)
    <2>1. \A d \in Cores :
             s.curThread[d] # None => r.state[s.curThread[d]] = s.state[s.curThread[d]]
      BY <1>2, <1>3, <1>4
    <2>2. \A u \in Elems(s.runQueue) : \A d \in mask[u] : d \in Cores
      BY <1>0, ElemsTypes
    <2>3. QED
      BY <1>1, <2>1, <2>2 DEF SInv, Bar, Idle
  <1>10. Hand(r, None)
    BY <1>1, <1>2, <1>3, <1>4 DEF SInv, Hand
  <1>11. Sleep(r)
    <2>1. /\ \A i, j \in DOMAIN s.sleepQueue : i < j => s.left[s.sleepQueue[i]] <= s.left[s.sleepQueue[j]]
          /\ \A u \in Elems(s.sleepQueue) : s.left[u] >= 1
      BY DEF SInv, Sleep, Elems
    <2>2. \A u \in Elems(s.sleepQueue) \ {t} : r.left[u] = s.left[u]
      BY <1>0, <1>4, ElemsTypes
    <2>3. \A i, j \in DOMAIN r.sleepQueue : i < j => r.left[r.sleepQueue[i]] <= r.left[r.sleepQueue[j]]
      <3> DEFINE A == {t}
                 q == s.sleepQueue
                 f == s.left
                 g == r.left
      <3>1. /\ \A i, j \in DOMAIN q : i < j => f[q[i]] <= f[q[j]]
            /\ \A u, v \in Elems(q) \ A : f[u] <= f[v] => g[u] <= g[v]
            /\ q \in Seq(Threads)
            /\ r.sleepQueue = Without(q, A)
        BY <1>2, <2>1, <2>2 DEF Remove
      <3> HIDE DEF A, q, f, g
      <3>2. LET w == Without(q, A)
            IN  \A i, j \in DOMAIN w : i < j => g[w[i]] <= g[w[j]]
        BY <3>1, WithoutOrder
      <3>3. QED
        BY <3>1, <3>2 DEF g
    <2>4. \A i \in DOMAIN r.sleepQueue : r.left[r.sleepQueue[i]] >= 1
      BY <1>5, <2>1, <2>2 DEF Elems
    <2>5. QED
      BY <2>3, <2>4 DEF Sleep
  <1>12. Words(r, None)
    <2>1. \A v \in Threads : r.left[v] \in 0..MaxSleep
      <3>1. 0 \in 0..MaxSleep
        BY SleepAssumption
      <3>2. QED
        BY <1>4, <3>1 DEF SInv, Words
    <2>2. t \notin s.marked
      BY DEF SInv, Words
    <2>3. QED
      BY <1>1, <1>2, <1>4, <2>1, <2>2 DEF SInv, Words
  <1>13. SInv(r, None)
    BY <1>6, <1>7, <1>8, <1>9, <1>10, <1>11, <1>12 DEF SInv
  <1>14. \A v \in Threads \ {t} : Calm(s, r, v)
    BY <1>1, <1>4 DEF Calm
  <1>15. QED
    BY <1>13, <1>14

\* A thread that runs is marked for sleep.
LEMMA MarkInv ==
  ASSUME NEW s, SInv(s, None), NEW r \in SchedState, NEW t \in Threads, NEW n \in 1..MaxSleep,
         s.state[t] = "RUNNING",
         r.marked = s.marked \cup {t},
         r.left = [s.left EXCEPT ![t] = n],
         r.futexWord = [s.futexWord EXCEPT ![t] = 1],
         r.ok,
         Keeps(s, r, {"marked", "left", "futexWord", "ok"})
  PROVE  SInv(r, None) /\ \A v \in Threads \ {t} : Calm(s, r, v)
  <1>0. s \in SchedState
    BY DEF SInv
  <1>1. /\ r.handoffThread = s.handoffThread /\ r.state = s.state
        /\ r.cid = s.cid /\ r.curThread = s.curThread
        /\ r.freeList = s.freeList /\ r.scheduledThreads = s.scheduledThreads
        /\ r.runQueue = s.runQueue /\ r.outQueue = s.outQueue /\ r.fakeLeaves = s.fakeLeaves
        /\ r.sleepQueue = s.sleepQueue
        /\ r.arrived = s.arrived /\ r.members = s.members
    BY DEF Keeps, Fields
  <1>2. /\ s.left \in [Threads -> Int] /\ s.futexWord \in [Threads -> 0..1]
        /\ s.marked \subseteq Threads
        /\ Elems(s.sleepQueue) \subseteq Threads
    BY <1>0, FieldTypes, ElemsTypes
  <1>3. /\ r.left[t] = n /\ \A v \in Threads \ {t} : r.left[v] = s.left[v]
        /\ r.futexWord[t] = 1 /\ \A v \in Threads \ {t} : r.futexWord[v] = s.futexWord[v]
    BY <1>2
  <1>4. /\ Ctx(r) /\ Free(r) /\ Count(r) /\ Queues(r, None) /\ Bar(r) /\ InMask(r) /\ Hand(r, None)
        /\ Idle(r)
    BY <1>1 DEF SInv, Ctx, Free, Count, Queues, Bar, InMask, Hand, Idle, Holds
  <1>5. Sleep(r)
    <2>1. \A i \in DOMAIN s.sleepQueue : s.sleepQueue[i] \in Threads \ {t}
      <3>1. t \notin Elems(s.sleepQueue)
        BY DEF SInv, Queues
      <3>2. QED
        BY <1>2, <3>1 DEF Elems
    <2>2. QED
      BY <1>1, <1>3, <2>1 DEF SInv, Sleep
  <1>6. Words(r, None)
    <2>1. n \in 0..MaxSleep /\ n >= 1
      BY SleepAssumption
    <2>2. QED
      BY <1>1, <1>2, <1>3, <2>1 DEF SInv, Words
  <1>7. SInv(r, None)
    BY <1>4, <1>5, <1>6 DEF SInv
  <1>8. \A v \in Threads \ {t} : Calm(s, r, v)
    BY <1>1, <1>3 DEF Calm
  <1>9. QED
    BY <1>7, <1>8

\* A fake leave begins or ends.
LEMMA FakeInv ==
  ASSUME NEW s, SInv(s, None), NEW r \in SchedState, NEW t \in Threads,
         NoRepeats(r.fakeLeaves),
         \A v \in Elems(r.fakeLeaves) : v \in Elems(s.fakeLeaves) \/ (v = t /\ s.state[t] = "RUNNING"),
         \A v \in Threads \ {t} : v \in Elems(r.fakeLeaves) <=> v \in Elems(s.fakeLeaves),
         r.ok,
         Keeps(s, r, {"fakeLeaves", "ok"})
  PROVE  SInv(r, None) /\ \A v \in Threads \ {t} : Calm(s, r, v)
  <1>1. /\ r.handoffThread = s.handoffThread /\ r.state = s.state
        /\ r.cid = s.cid /\ r.curThread = s.curThread /\ r.marked = s.marked /\ r.left = s.left
        /\ r.freeList = s.freeList /\ r.scheduledThreads = s.scheduledThreads
        /\ r.runQueue = s.runQueue /\ r.outQueue = s.outQueue /\ r.futexWord = s.futexWord
        /\ r.sleepQueue = s.sleepQueue
        /\ r.arrived = s.arrived /\ r.members = s.members
    BY DEF Keeps, Fields
  <1>2. /\ Ctx(r) /\ Free(r) /\ Count(r) /\ Bar(r) /\ InMask(r) /\ Hand(r, None)
        /\ Idle(r) /\ Sleep(r) /\ Words(r, None)
    BY <1>1 DEF SInv, Ctx, Free, Count, Bar, InMask, Hand, Idle, Holds, Sleep, Words
  <1>3. Queues(r, None)
    BY <1>1 DEF SInv, Queues
  <1>4. SInv(r, None)
    BY <1>2, <1>3 DEF SInv
  <1>5. \A v \in Threads \ {t} : Calm(s, r, v)
    BY <1>1 DEF Calm
  <1>6. QED
    BY <1>4, <1>5

\* Threads arrive at the barrier, or all leave it; only the phase counts.
LEMMA ArriveInv ==
  ASSUME NEW s, SInv(s, None), NEW r \in SchedState,
         r.arrived \subseteq s.members,
         \A v \in Threads : s.handoffThread[v] # None => s.cid[v] \notin r.arrived,
         r.ok,
         Keeps(s, r, {"arrived", "phase", "ok"})
  PROVE  SInv(r, None)
  <1>1. /\ r.handoffThread = s.handoffThread /\ r.state = s.state
        /\ r.cid = s.cid /\ r.curThread = s.curThread /\ r.marked = s.marked /\ r.left = s.left
        /\ r.freeList = s.freeList /\ r.scheduledThreads = s.scheduledThreads
        /\ r.runQueue = s.runQueue /\ r.outQueue = s.outQueue /\ r.futexWord = s.futexWord
        /\ r.sleepQueue = s.sleepQueue /\ r.fakeLeaves = s.fakeLeaves
        /\ r.members = s.members
    BY DEF Keeps, Fields
  <1>2. /\ Ctx(r) /\ Free(r) /\ Count(r) /\ InMask(r) /\ Queues(r, None)
        /\ Idle(r) /\ Sleep(r) /\ Words(r, None)
    BY <1>1 DEF SInv, Ctx, Free, Count, InMask, Queues, Idle, Holds, Sleep, Words
  <1>3. Bar(r) /\ Hand(r, None)
    BY <1>1 DEF SInv, Bar, Hand
  <1>4. QED
    BY <1>2, <1>3 DEF SInv

-----------------------------------------------------------------------------
(* The end of a phase *)

\* The sleepers WakeSleepers wakes up.
Due(s) == {t \in Elems(s.sleepQueue) :
               \E i \in DOMAIN s.sleepQueue :
                   /\ s.sleepQueue[i] = t
                   /\ \A j \in 1..i : s.left[s.sleepQueue[j]] <= 1}

LEMMA DueFacts ==
  ASSUME NEW s, SInv(s, None)
  PROVE  /\ \A t \in Due(s) : /\ t \in Threads /\ s.state[t] = "SLEEPING"
                              /\ s.left[t] = 1 /\ s.futexWord[t] = 1
         /\ \A t \in Elems(s.sleepQueue) \ Due(s) : s.left[t] >= 2
  <1> DEFINE q == s.sleepQueue
  <1>0. s \in SchedState
    BY DEF SInv
  <1>1. /\ q \in Seq(Threads) /\ DOMAIN q = 1..Len(q) /\ Len(q) \in Nat
        /\ \A i \in DOMAIN q : q[i] \in Threads /\ s.left[q[i]] \in Int /\ s.left[q[i]] >= 1
        /\ \A i, j \in DOMAIN q : i < j => s.left[q[i]] <= s.left[q[j]]
    <2>1. q \in Seq(Threads) /\ s.left \in [Threads -> Int]
      BY <1>0, FieldTypes
    <2>2. DOMAIN q = 1..Len(q) /\ Len(q) \in Nat /\ \A i \in DOMAIN q : q[i] \in Threads
      BY <2>1, LenProperties, ElementOfSeq
    <2>3. /\ \A i \in DOMAIN q : s.left[q[i]] >= 1
          /\ \A i, j \in DOMAIN q : i < j => s.left[q[i]] <= s.left[q[j]]
      BY DEF SInv, Sleep
    <2>4. QED
      BY <2>1, <2>2, <2>3
  <1>2. \A t \in Elems(q) : t \in Threads /\ s.state[t] = "SLEEPING" /\ s.futexWord[t] = 1
    BY <1>0, ElemsTypes DEF SInv, Queues, Words
  <1> HIDE DEF q
  <1>3. ASSUME NEW t \in Due(s)
        PROVE  s.left[t] = 1 /\ t \in Elems(q)
    <2>1. PICK i \in DOMAIN q : q[i] = t /\ \A j \in 1..i : s.left[q[j]] <= 1
      BY DEF Due, q
    <2>2. i \in 1..i
      BY <1>1
    <2>3. s.left[q[i]] <= 1 /\ s.left[q[i]] >= 1 /\ s.left[q[i]] \in Int
      BY <1>1, <2>1, <2>2
    <2>4. QED
      BY <2>1, <2>3 DEF Elems
  <1>4. ASSUME NEW t \in Elems(q), t \notin Due(s)
        PROVE  s.left[t] >= 2
    <2>1. PICK i \in DOMAIN q : q[i] = t
      BY DEF Elems
    <2>2. PICK j \in 1..i : ~(s.left[q[j]] <= 1)
      BY <1>4, <2>1 DEF Due, q
    <2>3. j \in DOMAIN q /\ j <= i /\ i \in Int /\ j \in Int
      BY <1>1
    <2>4. s.left[q[j]] <= s.left[q[i]]
      <3>1. CASE j = i
        BY <1>1, <3>1
      <3>2. CASE j < i
        BY <1>1, <2>3, <3>2
      <3>3. QED
        BY <2>3, <3>1, <3>2
    <2>5. QED
      BY <1>1, <2>1, <2>2, <2>3, <2>4
  <1>5. QED
    BY <1>2, <1>3, <1>4 DEF q

\* A phase passes for the sleepers.
LEMMA WakeInv ==
  ASSUME NEW s, SInv(s, None), s.marked = {}, NEW r \in SchedState,
         r.state = [t \in Threads |-> IF t \in Due(s) THEN "BLOCKED" ELSE s.state[t]],
         r.futexWord = [t \in Threads |-> IF t \in Due(s) THEN 0 ELSE s.futexWord[t]],
         r.left = [t \in Threads |-> IF t \in Elems(s.sleepQueue) \ Due(s) THEN s.left[t] - 1 ELSE 0],
         r.sleepQueue = Without(s.sleepQueue, Due(s)),
         r.ok,
         Keeps(s, r, {"state", "futexWord", "left", "sleepQueue", "ok"})
  PROVE  SInv(r, None)
  <1> DEFINE D == Due(s)
  <1>0. s \in SchedState
    BY DEF SInv
  <1>1. /\ r.handoffThread = s.handoffThread /\ r.marked = s.marked
        /\ r.cid = s.cid /\ r.curThread = s.curThread
        /\ r.freeList = s.freeList /\ r.scheduledThreads = s.scheduledThreads
        /\ r.runQueue = s.runQueue /\ r.outQueue = s.outQueue /\ r.fakeLeaves = s.fakeLeaves
        /\ r.arrived = s.arrived /\ r.members = s.members
    BY DEF Keeps, Fields
  <1>2. /\ s.curThread \in [Cores -> Threads \cup {None}] /\ s.state \in [Threads -> States]
        /\ s.handoffThread \in [Threads -> Threads \cup {None}]
        /\ None \notin Threads /\ None \notin Cores
        /\ Elems(s.fakeLeaves) \subseteq Threads /\ Elems(s.sleepQueue) \subseteq Threads
        /\ s.sleepQueue \in Seq(Threads)
    BY <1>0, FieldTypes, ElemsTypes
  <1>3. /\ \A t \in D : /\ t \in Threads /\ s.state[t] = "SLEEPING" /\ t \in Elems(s.sleepQueue)
                        /\ s.left[t] = 1 /\ s.futexWord[t] = 1
        /\ \A t \in Elems(s.sleepQueue) \ D : s.left[t] >= 2
    BY DueFacts DEF SInv, Queues
  <1>4. /\ \A t \in D : r.state[t] = "BLOCKED" /\ r.futexWord[t] = 0
        /\ \A t \in Threads \ D : r.state[t] = s.state[t] /\ r.futexWord[t] = s.futexWord[t]
        /\ \A t \in Threads : Holds(r, t) <=> Holds(s, t)
    BY <1>3 DEF Holds
  <1>5. /\ \A t \in Elems(s.sleepQueue) \ D : r.left[t] = s.left[t] - 1
        /\ \A t \in Threads : t \notin Elems(s.sleepQueue) \ D => r.left[t] = 0
    BY <1>2
  <1>6. NoRepeats(r.sleepQueue) /\ Elems(r.sleepQueue) = Elems(s.sleepQueue) \ D
    <2>1. NoRepeats(s.sleepQueue)
      BY DEF SInv, Queues
    <2> HIDE DEF D
    <2>2. QED
      BY <1>2, <2>1, RemoveFacts DEF D
  <1> HIDE DEF D
  <1>7. Ctx(r) /\ InMask(r) /\ Free(r)
    BY <1>1, <1>4 DEF SInv, Ctx, InMask, Free
  <1>8. Count(r)
    <2>1. Holding(r) = Holding(s)
      BY <1>4 DEF Holding
    <2>2. QED
      BY <1>1, <2>1 DEF SInv, Count, Holding
  <1>9. Queues(r, None)
    <2>1. /\ NoRepeats(r.runQueue) /\ NoRepeats(r.outQueue) /\ NoRepeats(r.sleepQueue) /\ NoRepeats(r.fakeLeaves)
      BY <1>1, <1>6 DEF SInv, Queues
    <2>2. /\ \A u \in Threads : u \in Elems(r.outQueue) <=> r.state[u] = "OUT"
          /\ \A u \in Threads : u \in Elems(r.sleepQueue) <=> r.state[u] = "SLEEPING"
      <3>1. /\ \A u \in Threads : u \in Elems(s.outQueue) <=> s.state[u] = "OUT"
            /\ \A u \in Threads : u \in Elems(s.sleepQueue) <=> s.state[u] = "SLEEPING"
        BY DEF SInv, Queues
      <3>2. \A u \in Threads : u \in Elems(r.outQueue) <=> r.state[u] = "OUT"
        BY <1>1, <1>3, <1>4, <3>1
      <3>3. \A u \in Threads : u \in Elems(r.sleepQueue) <=> r.state[u] = "SLEEPING"
        BY <1>3, <1>4, <1>6, <3>1
      <3>4. QED
        BY <3>2, <3>3
    <2>3. \A u \in Threads : u \in Elems(r.runQueue) <=>
               r.state[u] = "QUEUED" /\ u # None /\ \A v \in Threads : r.handoffThread[v] # u
      BY <1>1, <1>3, <1>4 DEF SInv, Queues
    <2>4. \A u \in Elems(r.fakeLeaves) : r.state[u] = "RUNNING"
      BY <1>1, <1>2, <1>3, <1>4 DEF SInv, Queues
    <2>5. QED
      BY <2>1, <2>2, <2>3, <2>4 DEF Queues
  <1>10. Bar(r) /\ Idle(r)
    <2>1. \A d \in Cores :
             s.curThread[d] # None => r.state[s.curThread[d]] = s.state[s.curThread[d]]
      BY <1>2, <1>3, <1>4 DEF SInv, Ctx, Holds
    <2>2. \A u \in Elems(s.runQueue) : \A d \in mask[u] : d \in Cores
      BY <1>0, ElemsTypes
    <2>3. QED
      BY <1>1, <2>1, <2>2 DEF SInv, Bar, Idle
  <1>11. Hand(r, None)
    <2>1. \A v \in Threads : s.handoffThread[v] # None =>
             /\ r.state[v] = s.state[v]
             /\ r.state[s.handoffThread[v]] = s.state[s.handoffThread[v]]
      BY <1>2, <1>3, <1>4 DEF SInv, Hand
    <2>2. QED
      BY <1>1, <2>1 DEF SInv, Hand
  <1>12. Sleep(r)
    <2>0. \A u \in Elems(s.sleepQueue) : s.left[u] \in Int
      BY <1>0, <1>2, FieldTypes
    <2>1. \A i, j \in DOMAIN s.sleepQueue : i < j => s.left[s.sleepQueue[i]] <= s.left[s.sleepQueue[j]]
      BY DEF SInv, Sleep
    <2>3. \A i, j \in DOMAIN r.sleepQueue : i < j => r.left[r.sleepQueue[i]] <= r.left[r.sleepQueue[j]]
      <3> DEFINE q == s.sleepQueue
                 f == s.left
                 g == r.left
      <3>1. /\ \A i, j \in DOMAIN q : i < j => f[q[i]] <= f[q[j]]
            /\ \A u, v \in Elems(q) \ D : f[u] <= f[v] => g[u] <= g[v]
            /\ q \in Seq(Threads)
            /\ r.sleepQueue = Without(q, D)
        <4>1. \A u, v \in Elems(q) \ D : f[u] <= f[v] => g[u] <= g[v]
          BY <1>5, <2>0
        <4>2. QED
          BY <1>2, <2>1, <4>1 DEF D
      <3> HIDE DEF q, f, g
      <3>2. LET w == Without(q, D)
            IN  \A i, j \in DOMAIN w : i < j => g[w[i]] <= g[w[j]]
        BY <3>1, WithoutOrder
      <3>3. QED
        BY <3>1, <3>2 DEF g
    <2>4. \A i \in DOMAIN r.sleepQueue : r.left[r.sleepQueue[i]] >= 1
      <3>1. \A u \in Elems(s.sleepQueue) \ D : r.left[u] >= 1
        BY <1>3, <1>5, <2>0
      <3>2. QED
        BY <1>6, <3>1 DEF Elems
    <2>5. QED
      BY <2>3, <2>4 DEF Sleep
  <1>13. Words(r, None)
    <2>1. ASSUME NEW t \in Threads
          PROVE  r.left[t] \in 0..MaxSleep
      <3>1. s.left[t] \in 0..MaxSleep /\ MaxSleep \in Nat
        BY SleepAssumption DEF SInv, Words
      <3>2. CASE t \in Elems(s.sleepQueue) \ D
        BY <1>3, <1>5, <3>1, <3>2
      <3>3. CASE t \notin Elems(s.sleepQueue) \ D
        BY <1>5, <3>1, <3>3
      <3>4. QED
        BY <3>2, <3>3
    <2>2. /\ \A t \in Threads : r.state[t] = "SLEEPING" => r.futexWord[t] = 1
          /\ \A t \in Threads : r.state[t] = "QUEUED" /\ t # None => r.futexWord[t] = 1
      BY <1>3, <1>4 DEF SInv, Words
    <2>3. r.marked = {}
      BY <1>1
    <2>4. QED
      BY <2>1, <2>2, <2>3 DEF Words
  <1>14. QED
    BY <1>7, <1>8, <1>9, <1>10, <1>11, <1>12, <1>13 DEF SInv

\* The threads schedTick takes from the run queue, and the contexts they are to get.
LEMMA AssignmentFacts ==
  ASSUME NEW s \in SchedState, NEW f \in Assignments(s)
  PROVE  /\ DOMAIN f \subseteq Elems(s.runQueue) /\ DOMAIN f \subseteq Threads
         /\ \A t \in DOMAIN f : f[t] \in mask[t] /\ f[t] \in Cores
         /\ \A t, u \in DOMAIN f : t # u => f[t] # f[u]
  <1>1. /\ f \in UNION {[D -> Cores] : D \in SUBSET Elems(s.runQueue)}
        /\ \A t \in DOMAIN f : f[t] \in mask[t]
        /\ \A t, u \in DOMAIN f : t # u => f[t] # f[u]
    BY DEF Assignments
  <1>2. PICK D \in SUBSET Elems(s.runQueue) : f \in [D -> Cores]
    BY <1>1
  <1>3. QED
    BY <1>1, <1>2, ElemsTypes

LEMMA TickInv ==
  ASSUME NEW s, SInv(s, None), s.arrived = {}, \A v \in Threads : s.handoffThread[v] = None,
         NEW f \in Assignments(s), NEW r \in SchedState,
         r.handoffThread = [v \in Threads |-> IF \E t \in DOMAIN f : s.curThread[f[t]] = v
                                              THEN CHOOSE t \in DOMAIN f : s.curThread[f[t]] = v
                                              ELSE s.handoffThread[v]],
         r.runQueue = Without(s.runQueue, DOMAIN f),
         r.ok <=> s.ok /\ \A t \in DOMAIN f : s.curThread[f[t]] # None,
         Keeps(s, r, {"handoffThread", "runQueue", "ok"})
  PROVE  /\ SInv(r, None)
         /\ \A v \in Threads : r.handoffThread[v] # None => s.state[v] = "RUNNING"
  <1> DEFINE D == DOMAIN f
  <1>0. s \in SchedState
    BY DEF SInv
  <1>1. /\ r.state = s.state /\ r.cid = s.cid /\ r.curThread = s.curThread
        /\ r.futexWord = s.futexWord /\ r.marked = s.marked /\ r.left = s.left
        /\ r.freeList = s.freeList /\ r.scheduledThreads = s.scheduledThreads
        /\ r.outQueue = s.outQueue /\ r.sleepQueue = s.sleepQueue /\ r.fakeLeaves = s.fakeLeaves
        /\ r.arrived = s.arrived /\ r.members = s.members
    BY DEF Keeps, Fields
  <1>2. /\ s.curThread \in [Cores -> Threads \cup {None}] /\ s.cid \in [Threads -> Cores]
        /\ None \notin Threads /\ s.runQueue \in Seq(Threads)
    BY <1>0, FieldTypes
  <1>3. /\ D \subseteq Elems(s.runQueue) /\ D \subseteq Threads
        /\ \A t \in D : f[t] \in mask[t] /\ f[t] \in Cores
        /\ \A t, u \in D : t # u => f[t] # f[u]
    BY <1>0, AssignmentFacts
  <1>4. \A t \in D : /\ s.curThread[f[t]] \in Threads /\ s.curThread[f[t]] # None
                     /\ s.state[s.curThread[f[t]]] = "RUNNING"
                     /\ s.cid[s.curThread[f[t]]] = f[t]
    <2>1. \A t \in D : s.curThread[f[t]] # None /\ s.state[s.curThread[f[t]]] = "RUNNING"
      BY <1>3 DEF SInv, Idle
    <2>2. \A t \in D : s.curThread[f[t]] \in Threads
      BY <1>2, <1>3, <2>1
    <2>3. \A t \in D : s.cid[s.curThread[f[t]]] = f[t]
      BY <1>3, <2>2 DEF SInv, Ctx
    <2>4. QED
      BY <2>1, <2>2, <2>3
  <1> DEFINE P(t, v) == s.curThread[f[t]] = v
  <1>5. \A v \in Threads : r.handoffThread[v] = IF \E t \in D : P(t, v)
                                                 THEN CHOOSE t \in D : P(t, v)
                                                 ELSE None
    OBVIOUS
  <1>6. \A t \in D, v \in Threads : P(t, v) => s.state[v] = "RUNNING" /\ s.cid[v] = f[t]
    BY <1>4
  <1>7. \A t \in D : \E v \in Threads : P(t, v)
    BY <1>4
  <1>8. \A t \in D, v, w \in Threads : P(t, v) /\ P(t, w) => v = w
    OBVIOUS
  <1>9. r.ok /\ r.runQueue = Without(s.runQueue, D)
    BY <1>4 DEF SInv
  <1> HIDE DEF P, D
  <1>10. \A v \in Threads : r.handoffThread[v] # None =>
              r.handoffThread[v] \in D /\ P(r.handoffThread[v], v)
    <2>1. TAKE v \in Threads
    <2>2. CASE \E t \in D : P(t, v)
      BY <1>5, <2>2
    <2>3. CASE ~ \E t \in D : P(t, v)
      BY <1>5, <2>3
    <2>4. QED
      BY <2>2, <2>3
  <1>11. \A t \in D, v \in Threads : P(t, v) => r.handoffThread[v] = t
    <2>1. SUFFICES ASSUME NEW t \in D, NEW v \in Threads, P(t, v)
                   PROVE  r.handoffThread[v] = t
      OBVIOUS
    <2>2. r.handoffThread[v] \in D /\ P(r.handoffThread[v], v)
      BY <1>5, <2>1
    <2>3. f[r.handoffThread[v]] = f[t]
      BY <1>6, <2>1, <2>2
    <2>4. QED
      BY <1>3, <2>2, <2>3
  <1>12. NoRepeats(r.runQueue) /\ Elems(r.runQueue) = Elems(s.runQueue) \ D
    <2>1. NoRepeats(s.runQueue)
      BY DEF SInv, Queues
    <2>2. QED
      BY <1>2, <1>9, <2>1, RemoveFacts
  <1>13. \A t \in Threads : t \in Elems(s.runQueue) <=> s.state[t] = "QUEUED"
    BY <1>2 DEF SInv, Queues
  <1>14. Ctx(r) /\ InMask(r) /\ Free(r) /\ Count(r) /\ Bar(r) /\ Sleep(r) /\ Words(r, None)
    BY <1>1 DEF SInv, Ctx, InMask, Free, Count, Bar, Sleep, Words, Holds
  <1>15. Queues(r, None)
    <2>1. \A t \in Threads : t \in Elems(r.runQueue) <=>
              r.state[t] = "QUEUED" /\ t # None /\ \A v \in Threads : r.handoffThread[v] # t
      <3>1. SUFFICES ASSUME NEW t \in Threads
                     PROVE  t \in Elems(r.runQueue) <=>
                              s.state[t] = "QUEUED" /\ \A v \in Threads : r.handoffThread[v] # t
        BY <1>1, <1>2
      <3>2. CASE t \in D
        BY <1>7, <1>11, <1>12, <3>2
      <3>3. CASE t \notin D
        <4>1. ASSUME NEW v \in Threads, r.handoffThread[v] = t
              PROVE  FALSE
          <5>1. r.handoffThread[v] # None
            BY <1>2, <4>1
          <5>2. QED
            BY <1>10, <3>3, <4>1, <5>1
        <4>2. t \in Elems(r.runQueue) <=> s.state[t] = "QUEUED"
          BY <1>12, <1>13, <3>3
        <4>3. QED
          BY <4>1, <4>2
      <3>4. QED
        BY <3>2, <3>3
    <2>2. QED
      BY <1>1, <1>12, <2>1 DEF SInv, Queues
  <1>16. Hand(r, None)
    <2>1. SUFFICES ASSUME NEW v \in Threads, r.handoffThread[v] # None
                   PROVE  /\ r.state[v] = "RUNNING"
                          /\ r.cid[v] \notin r.arrived
                          /\ r.state[r.handoffThread[v]] = "QUEUED"
                          /\ r.cid[v] \in mask[r.handoffThread[v]]
                          /\ \A u \in Threads : r.handoffThread[u] = r.handoffThread[v] => u = v
      BY DEF Hand
    <2>2. r.handoffThread[v] \in D /\ P(r.handoffThread[v], v)
      BY <1>10, <2>1
    <2>3. ASSUME NEW u \in Threads, r.handoffThread[u] = r.handoffThread[v]
          PROVE  u = v
      BY <1>8, <1>10, <2>1, <2>2, <2>3
    <2>4. QED
      BY <1>1, <1>3, <1>6, <1>13, <2>2, <2>3
  <1>17. Idle(r)
    BY <1>1, <1>12 DEF SInv, Idle
  <1>18. \A v \in Threads : r.handoffThread[v] # None => s.state[v] = "RUNNING"
    BY <1>6, <1>10
  <1>19. QED
    BY <1>9, <1>14, <1>15, <1>16, <1>17, <1>18 DEF SInv

LEMMA PassPhaseFacts ==
  ASSUME NEW s \in SchedState
  PROVE  PassPhase(s) \in SchedState /\ Keeps(s, PassPhase(s), {"phase"})
  <1>1. (s.phase + 1) % schedQuantum \in 0..schedQuantum-1
    BY QuantumAssumption, FieldTypes
  <1>2. QED
    BY <1>1 DEF PassPhase, SchedState, Keeps, Fields

LEMMA WakeStep ==
  ASSUME NEW s, SInv(s, None), s.marked = {}
  PROVE  LET w == WakeSleepers(s)
         IN  /\ SInv(w, None)
             /\ Keeps(s, w, {"state", "futexWord", "left", "sleepQueue", "ok"})
             /\ \A u \in Threads : \/ w.state[u] = s.state[u] /\ w.futexWord[u] = s.futexWord[u]
                                   \/ s.state[u] = "SLEEPING" /\ w.state[u] = "BLOCKED"
  <1> DEFINE st == [t \in Threads |-> IF t \in Due(s) THEN "BLOCKED" ELSE s.state[t]]
             fw == [t \in Threads |-> IF t \in Due(s) THEN 0 ELSE s.futexWord[t]]
             le == [t \in Threads |-> IF t \in Elems(s.sleepQueue) \ Due(s) THEN s.left[t] - 1 ELSE 0]
             sq == Without(s.sleepQueue, Due(s))
             b == \A t \in Due(s) : s.left[t] = 1 /\ s.futexWord[t] = 1
             z == [s EXCEPT !.state = st, !.futexWord = fw, !.left = le, !.sleepQueue = sq]
             w == WakeSleepers(s)
  <1>0. s \in SchedState /\ s.ok
    BY DEF SInv
  <1>1. w = Checked(z, b)
    BY DEF WakeSleepers, Due
  <1>2. b /\ b \in BOOLEAN /\ \A t \in Due(s) : t \in Threads /\ s.state[t] = "SLEEPING"
    BY DueFacts
  <1>3. sq \in Seq(Threads)
    BY <1>0, FieldTypes, WithoutFacts
  <1>4. st \in [Threads -> States] /\ fw \in [Threads -> 0..1] /\ le \in [Threads -> Int]
    BY <1>0, FieldTypes DEF States
  <1>5. /\ z.state = st /\ z.futexWord = fw /\ z.left = le /\ z.sleepQueue = sq
        /\ Keeps(s, z, {"state", "futexWord", "left", "sleepQueue"})
        /\ DOMAIN z = DOMAIN s /\ z = [x \in DOMAIN z |-> z[x]]
    <2> HIDE DEF st, fw, le, sq
    <2>1. QED
      BY <1>0 DEF SchedState, Keeps, Fields
  <1> HIDE DEF z, b, w
  <1>6. z \in SchedState
    <2> HIDE DEF st, fw, le, sq
    <2>1. QED
      BY <1>0, <1>3, <1>4, <1>5 DEF SchedState, Keeps, Fields
  <1>7. w \in SchedState /\ Keeps(z, w, {"ok"}) /\ (w.ok <=> z.ok /\ b)
    BY <1>1, <1>2, <1>6, CheckedFacts
  <1>8. /\ w.state = st /\ w.futexWord = fw /\ w.left = le /\ w.sleepQueue = sq
        /\ w.ok
        /\ Keeps(s, w, {"state", "futexWord", "left", "sleepQueue", "ok"})
    <2> HIDE DEF st, fw, le, sq
    <2>1. QED
      BY <1>0, <1>2, <1>5, <1>7 DEF Keeps, Fields
  <1>9. SInv(w, None)
    BY <1>7, <1>8, WakeInv
  <1>10. \A u \in Threads : \/ w.state[u] = s.state[u] /\ w.futexWord[u] = s.futexWord[u]
                            \/ s.state[u] = "SLEEPING" /\ w.state[u] = "BLOCKED"
    BY <1>2, <1>8
  <1>11. QED
    BY <1>8, <1>9, <1>10 DEF w

LEMMA TickStep ==
  ASSUME NEW s, SInv(s, None), s.arrived = {}, \A v \in Threads : s.handoffThread[v] = None,
         NEW r \in schedTick(s)
  PROVE  /\ SInv(r, None)
         /\ Keeps(s, r, {"handoffThread", "runQueue", "ok"})
         /\ \A v \in Threads : r.handoffThread[v] # None => s.state[v] = "RUNNING"
  <1>0. s \in SchedState
    BY DEF SInv
  <1>1. PICK f \in Assignments(s) :
           r = Checked([s EXCEPT !.handoffThread =
                           [v \in Threads |-> IF \E t \in DOMAIN f : s.curThread[f[t]] = v
                                              THEN CHOOSE t \in DOMAIN f : s.curThread[f[t]] = v
                                              ELSE @[v]],
                               !.runQueue = Without(@, DOMAIN f)],
                      \A t \in DOMAIN f : s.curThread[f[t]] # None)
    BY DEF schedTick
  <1> DEFINE h == [v \in Threads |-> IF \E t \in DOMAIN f : s.curThread[f[t]] = v
                                     THEN CHOOSE t \in DOMAIN f : s.curThread[f[t]] = v
                                     ELSE s.handoffThread[v]]
             q == Without(s.runQueue, DOMAIN f)
             b == \A t \in DOMAIN f : s.curThread[f[t]] # None
             z == [s EXCEPT !.handoffThread = h, !.runQueue = q]
  <1>2. r = Checked(z, b) /\ b \in BOOLEAN
    BY <1>1
  <1>3. h \in [Threads -> Threads \cup {None}]
    <2>1. DOMAIN f \subseteq Threads
      BY <1>0, AssignmentFacts
    <2>2. \A v \in Threads : (\E t \in DOMAIN f : s.curThread[f[t]] = v)
                               => (CHOOSE t \in DOMAIN f : s.curThread[f[t]] = v) \in DOMAIN f
      OBVIOUS
    <2>3. s.handoffThread \in [Threads -> Threads \cup {None}]
      BY <1>0, FieldTypes
    <2>4. QED
      BY <2>1, <2>2, <2>3
  <1>4. q \in Seq(Threads)
    BY <1>0, FieldTypes, WithoutFacts
  <1>5. /\ z.handoffThread = h /\ z.runQueue = q
        /\ Keeps(s, z, {"handoffThread", "runQueue"})
        /\ DOMAIN z = DOMAIN s /\ z = [x \in DOMAIN z |-> z[x]]
    <2> HIDE DEF h, q
    <2>1. QED
      BY <1>0 DEF SchedState, Keeps, Fields
  <1> HIDE DEF z, b
  <1>6. z \in SchedState
    <2> HIDE DEF h, q
    <2>1. QED
      BY <1>0, <1>3, <1>4, <1>5 DEF SchedState, Keeps, Fields
  <1>7. r \in SchedState /\ Keeps(z, r, {"ok"}) /\ (r.ok <=> z.ok /\ b)
    BY <1>2, <1>6, CheckedFacts
  <1>8. /\ r.handoffThread = h /\ r.runQueue = q
        /\ (r.ok <=> s.ok /\ b)
        /\ Keeps(s, r, {"handoffThread", "runQueue", "ok"})
    <2> HIDE DEF h, q
    <2>1. QED
      BY <1>0, <1>5, <1>7 DEF Keeps, Fields
  <1>9. r.ok <=> s.ok /\ \A t \in DOMAIN f : s.curThread[f[t]] # None
    BY <1>8 DEF b
  <1>10. QED
    BY <1>7, <1>8, <1>9, TickInv

\* What the end of a phase leaves alone.
PhaseEnds(s, r) ==
    /\ SInv(r, None)
    /\ r.marked = {} /\ r.arrived = {}
    /\ r.fakeLeaves = s.fakeLeaves /\ r.cid = s.cid
    /\ \A u \in Threads :
         /\ r.handoffThread[u] # None => s.state[u] = "RUNNING"
         /\ \/ r.state[u] = s.state[u] /\ r.futexWord[u] = s.futexWord[u]
            \/ s.state[u] = "SLEEPING" /\ r.state[u] = "BLOCKED"

\* callback, called when every thread that runs is in the barrier.
LEMMA CallbackStep ==
  ASSUME NEW s, SInv(s, None), s.marked = {}, s.arrived = {},
         \A v \in Threads : s.handoffThread[v] = None,
         NEW r \in callback(s)
  PROVE  PhaseEnds(s, r)
  <1> DEFINE b == s.scheduledThreads <= numCores
             x == Checked(s, b)
             y == PassPhase(x)
             w == WakeSleepers(y)
  <1>0. s \in SchedState /\ s.ok
    BY DEF SInv
  <1>1. b /\ b \in BOOLEAN
    <2>1. s.scheduledThreads \in 0..numCores
      BY <1>0, HoldingBound DEF SInv
    <2>2. QED
      BY <2>1, CoresAssumption
  <1>2. r \in IF w.runQueue # <<>> /\ w.phase = 0 THEN schedTick(w) ELSE {w}
    BY DEF callback
  <1> HIDE DEF b
  <1>3. x \in SchedState /\ Keeps(s, x, {"ok"}) /\ x.ok
    BY <1>0, <1>1, CheckedFacts
  <1> HIDE DEF x
  <1>4. y \in SchedState /\ Keeps(x, y, {"phase"})
    BY <1>3, PassPhaseFacts
  <1> HIDE DEF y
  <1>5. Keeps(s, y, {"arrived", "phase", "ok"}) /\ y.ok /\ y.arrived = {} /\ y.marked = {}
    BY <1>3, <1>4 DEF Keeps, Fields
  <1>6. SInv(y, None)
    BY <1>4, <1>5, ArriveInv
  <1>7. /\ SInv(w, None)
        /\ Keeps(y, w, {"state", "futexWord", "left", "sleepQueue", "ok"})
        /\ \A u \in Threads : \/ w.state[u] = y.state[u] /\ w.futexWord[u] = y.futexWord[u]
                              \/ y.state[u] = "SLEEPING" /\ w.state[u] = "BLOCKED"
    BY <1>5, <1>6, WakeStep
  <1> HIDE DEF w
  <1>8. /\ w.arrived = {} /\ w.marked = {} /\ w.fakeLeaves = s.fakeLeaves /\ w.cid = s.cid
        /\ w.handoffThread = s.handoffThread
        /\ \A u \in Threads : \/ w.state[u] = s.state[u] /\ w.futexWord[u] = s.futexWord[u]
                              \/ s.state[u] = "SLEEPING" /\ w.state[u] = "BLOCKED"
    BY <1>5, <1>7 DEF Keeps, Fields
  <1>9. CASE r = w
    BY <1>7, <1>8, <1>9 DEF PhaseEnds
  <1>10. CASE r \in schedTick(w)
    <2>1. /\ SInv(r, None)
          /\ Keeps(w, r, {"handoffThread", "runQueue", "ok"})
          /\ \A v \in Threads : r.handoffThread[v] # None => w.state[v] = "RUNNING"
      BY <1>7, <1>8, <1>10, TickStep
    <2>2. /\ r.arrived = {} /\ r.marked = {} /\ r.fakeLeaves = s.fakeLeaves /\ r.cid = s.cid
          /\ r.state = w.state /\ r.futexWord = w.futexWord
      BY <1>8, <2>1 DEF Keeps, Fields
    <2>3. \A v \in Threads : w.state[v] = "RUNNING" => s.state[v] = "RUNNING"
      BY <1>8
    <2>4. QED
      BY <1>8, <2>1, <2>2, <2>3 DEF PhaseEnds
  <1>11. QED
    BY <1>2, <1>9, <1>10

\* A thread marked for sleep is not in the barrier.
Awake(s) == \A v \in s.marked : s.cid[v] \notin s.arrived

\* checkEndPhase
LEMMA EndPhaseStep ==
  ASSUME NEW s, SInv(s, None), Awake(s), NEW r \in EndPhase(s)
  PROVE  SInv(r, None) /\ \A u \in Threads : Calm(s, r, u)
  <1>0. s \in SchedState /\ s.ok
    BY DEF SInv
  <1>1. CASE r = s
    BY <1>1 DEF Calm
  <1>2. CASE s.members # {} /\ s.arrived = s.members /\ r \in callback([s EXCEPT !.arrived = {}])
    <2> DEFINE z == [s EXCEPT !.arrived = {}]
    <2>1. z \in SchedState /\ z.arrived = {} /\ Keeps(s, z, {"arrived"})
      BY <1>0 DEF SchedState, Keeps, Fields
    <2>2. r \in callback(z)
      BY <1>2
    <2> HIDE DEF z
    <2>3. Keeps(s, z, {"arrived", "phase", "ok"}) /\ z.ok
      BY <1>0, <2>1 DEF Keeps, Fields
    <2>4. \A u \in Threads : s.state[u] = "RUNNING" => s.cid[u] \in s.arrived
      <3>1. \A u \in Threads : s.state[u] = "RUNNING" =>
               s.cid[u] \in Cores /\ s.curThread[s.cid[u]] = u /\ u # None
        BY <1>0, FieldTypes DEF SInv, Ctx, Holds
      <3>2. QED
        BY <1>2, <3>1 DEF SInv, Bar
    <2>5. \A v \in Threads : s.handoffThread[v] = None
      BY <2>4 DEF SInv, Hand
    <2>6. s.marked = {}
      <3>1. \A v \in s.marked : v \in Threads /\ s.state[v] = "RUNNING"
        BY <1>0, FieldTypes DEF SInv, Words
      <3>2. QED
        BY <2>4, <3>1 DEF Awake
    <2>7. SInv(z, None)
      BY <2>1, <2>3, ArriveInv
    <2>8. z.marked = {} /\ z.handoffThread = s.handoffThread /\ z.state = s.state
          /\ z.cid = s.cid /\ z.futexWord = s.futexWord /\ z.fakeLeaves = s.fakeLeaves
      BY <2>1, <2>6 DEF Keeps, Fields
    <2>9. PhaseEnds(z, r)
      BY <2>1, <2>2, <2>5, <2>7, <2>8, CallbackStep
    <2>10. \A u \in Threads : Calm(s, r, u)
      BY <2>4, <2>5, <2>6, <2>8, <2>9 DEF PhaseEnds, Calm
    <2>11. QED
      BY <2>9, <2>10 DEF PhaseEnds
  <1>3. QED
    BY <1>1, <1>2 DEF EndPhase

-----------------------------------------------------------------------------
(* leave and sync *)

\* The first queued thread that may run on c, if any.
LEMMA SchedContextFacts ==
  ASSUME NEW s \in SchedState, NEW c \in Cores
  PROVE  LET u == schedContext(s, c)
         IN  /\ u = None => Unwanted(s, c)
             /\ u # None => /\ u \in Threads /\ u \in Elems(s.runQueue) /\ c \in mask[u]
                            /\ \E i \in DOMAIN s.runQueue :
                                  /\ u = s.runQueue[i]
                                  /\ \A j \in 1..i-1 : c \notin mask[s.runQueue[j]]
  <1> DEFINE q == s.runQueue
             fit == {t \in Elems(q) : c \in mask[t]}
             u == schedContext(s, c)
  <1>0. None \notin Threads /\ q \in Seq(Threads) /\ Elems(q) \subseteq Threads
        /\ DOMAIN q = 1..Len(q) /\ Len(q) \in Nat
    BY FieldTypes, ElemsTypes, LenProperties
  <1>1. CASE fit = {}
    <2>1. u = None
      BY <1>1 DEF schedContext
    <2>2. QED
      BY <1>1, <2>1 DEF Unwanted
  <1>2. CASE fit # {}
    <2>1. u = FirstIn(q, fit)
      BY <1>2 DEF schedContext
    <2>2. PICK i \in DOMAIN q : /\ FirstIn(q, fit) = q[i]
                                /\ q[i] \in fit
                                /\ \A j \in 1..i-1 : q[j] \notin fit
      <3>1. Elems(q) \cap fit # {} /\ q \in Seq(Threads)
        BY <1>0, <1>2
      <3> HIDE DEF fit, q
      <3>2. QED
        BY <3>1, FirstInFacts, Zenon
    <2>3. u \in Threads /\ u \in Elems(q) /\ c \in mask[u] /\ u # None
      BY <1>0, <2>1, <2>2
    <2>4. \A j \in 1..i-1 : c \notin mask[q[j]]
      <3>1. \A j \in 1..i-1 : j \in DOMAIN q
        BY <1>0
      <3>2. QED
        BY <2>2, <3>1 DEF Elems
    <2>5. QED
      BY <2>1, <2>2, <2>3, <2>4
  <1>3. QED
    BY <1>1, <1>2

LEMMA GiveToFacts ==
  ASSUME NEW s \in SchedState, NEW u \in Threads, NEW c \in Cores
  PROVE  LET r == GiveTo(s, u, c)
         IN  /\ r \in SchedState
             /\ r.state = [s.state EXCEPT ![u] = "RUNNING"]
             /\ r.cid = [s.cid EXCEPT ![u] = c]
             /\ r.curThread = [s.curThread EXCEPT ![c] = u]
             /\ r.futexWord = [s.futexWord EXCEPT ![u] = 0]
             /\ r.scheduledThreads = s.scheduledThreads + 1
             /\ r.runQueue = Remove(s.runQueue, u)
             /\ r.ok <=> /\ s.ok /\ s.state[u] \in {"STARTED", "BLOCKED", "QUEUED"}
                         /\ s.curThread[c] = None /\ s.futexWord[u] = 1
             /\ Keeps(s, r, {"state", "cid", "curThread", "futexWord", "scheduledThreads", "runQueue", "ok"})
  <1> DEFINE a == [s EXCEPT !.runQueue = Remove(@, u)]
             b == schedule(a, u, c)
             r == GiveTo(s, u, c)
  <1>1. Remove(s.runQueue, u) \in Seq(Threads)
    BY FieldTypes, WithoutFacts DEF Remove
  <1>2. a \in SchedState /\ a.runQueue = Remove(s.runQueue, u) /\ Keeps(s, a, {"runQueue"})
    BY <1>1 DEF SchedState, Keeps, Fields
  <1>3. r = wakeup(b, u)
    BY DEF GiveTo
  <1> HIDE DEF a, r
  <1>4. /\ b \in SchedState
        /\ b.state = [a.state EXCEPT ![u] = "RUNNING"]
        /\ b.cid = [a.cid EXCEPT ![u] = c]
        /\ b.curThread = [a.curThread EXCEPT ![c] = u]
        /\ b.scheduledThreads = a.scheduledThreads + 1
        /\ b.ok <=> a.ok /\ a.state[u] \in {"STARTED", "BLOCKED", "QUEUED"} /\ a.curThread[c] = None
        /\ Keeps(a, b, {"state", "cid", "curThread", "scheduledThreads", "ok"})
    BY <1>2, ScheduleFacts
  <1> HIDE DEF b
  <1>5. /\ r \in SchedState
        /\ r.futexWord = [b.futexWord EXCEPT ![u] = 0]
        /\ r.ok <=> b.ok /\ b.futexWord[u] = 1
        /\ Keeps(b, r, {"futexWord", "ok"})
    BY <1>3, <1>4, WakeupFacts
  <1>6. /\ r.state = [s.state EXCEPT ![u] = "RUNNING"]
        /\ r.cid = [s.cid EXCEPT ![u] = c]
        /\ r.curThread = [s.curThread EXCEPT ![c] = u]
        /\ r.futexWord = [s.futexWord EXCEPT ![u] = 0]
        /\ r.scheduledThreads = s.scheduledThreads + 1
        /\ r.runQueue = Remove(s.runQueue, u)
    BY <1>2, <1>4, <1>5 DEF Keeps, Fields
  <1>7. /\ a.state = s.state /\ a.curThread = s.curThread /\ b.futexWord = s.futexWord /\ (a.ok <=> s.ok)
        /\ Keeps(s, r, {"state", "cid", "curThread", "futexWord", "scheduledThreads", "runQueue", "ok"})
    BY <1>2, <1>4, <1>5 DEF Keeps, Fields
  <1>8. r.ok <=> /\ s.ok /\ s.state[u] \in {"STARTED", "BLOCKED", "QUEUED"}
                 /\ s.curThread[c] = None /\ s.futexWord[u] = 1
    BY <1>4, <1>5, <1>7
  <1>9. QED
    BY <1>5, <1>6, <1>7, <1>8 DEF r

\* A member of the barrier that has not arrived leaves it.
LEMMA BarLeaveFacts ==
  ASSUME NEW s \in SchedState, NEW c \in Cores, c \in s.members, c \notin s.arrived,
         NEW r \in barLeave(s, c)
  PROVE  \E l \in SchedState : /\ l.members = s.members \ {c}
                               /\ l.ok <=> s.ok
                               /\ Keeps(s, l, {"members", "ok"})
                               /\ r \in EndPhase(l)
  <1> DEFINE z == [s EXCEPT !.members = @ \ {c}, !.arrived = @ \ {c}]
             l == Checked(z, c \in s.members)
  <1>1. /\ z.members = s.members \ {c} /\ z.arrived = s.arrived
        /\ Keeps(s, z, {"members"})
        /\ DOMAIN z = DOMAIN s /\ z = [x \in DOMAIN z |-> z[x]]
    <2>1. z.members = s.members \ {c} /\ z.arrived = s.arrived \ {c} /\ Keeps(s, z, {"members", "arrived"})
      BY DEF SchedState, Keeps, Fields
    <2>2. DOMAIN z = DOMAIN s /\ z = [x \in DOMAIN z |-> z[x]]
      OBVIOUS
    <2> HIDE DEF z
    <2>3. z.arrived = s.arrived
      BY <2>1
    <2>4. QED
      BY <2>1, <2>2, <2>3 DEF Keeps, Fields
  <1>2. r \in EndPhase(l)
    BY DEF barLeave
  <1> HIDE DEF z
  <1>3. z \in SchedState
    <2>1. z.members \in SUBSET Cores
      BY <1>1, FieldTypes
    <2>2. QED
      BY <1>1, <2>1 DEF SchedState, Keeps, Fields
  <1>4. l \in SchedState /\ Keeps(z, l, {"ok"}) /\ (l.ok <=> z.ok)
    BY <1>3, CheckedFacts
  <1> HIDE DEF l
  <1>5. l.members = s.members \ {c} /\ (l.ok <=> s.ok) /\ Keeps(s, l, {"members", "ok"})
    BY <1>1, <1>4 DEF Keeps, Fields
  <1>6. QED
    BY <1>2, <1>4, <1>5

\* How leave finds the thread.
CanLeave(s, t) ==
    /\ s.state[t] = "RUNNING"
    /\ t \notin Elems(s.fakeLeaves)
    /\ s.cid[t] \notin s.arrived
    /\ s.handoffThread[t] = None

\* What leave makes of it.
HasLeft(s, r, t) ==
    /\ SInv(r, None)
    /\ \A v \in Threads \ {t} : Calm(s, r, v)
    /\ t \in s.marked => r.state[t] \in {"SLEEPING", "BLOCKED"}
    /\ t \notin s.marked => r.state[t] \in {"OUT", "BLOCKED"}
    /\ t \notin r.marked
    /\ t \notin Elems(r.fakeLeaves)
    /\ r.handoffThread[t] = None

\* It leaves the barrier, and the phase may end.
LEMMA LeftBarrier ==
  ASSUME NEW s, NEW t \in Threads, NEW l, SInv(l, None), Awake(l),
         \A v \in Threads \ {t} : Calm(s, l, v),
         t \notin s.marked => l.state[t] = "OUT",
         t \in s.marked => l.state[t] = "SLEEPING",
         t \notin l.marked, t \notin Elems(l.fakeLeaves),
         NEW r \in EndPhase(l)
  PROVE  HasLeft(s, r, t)
  <1>1. SInv(r, None) /\ \A u \in Threads : Calm(l, r, u)
    BY EndPhaseStep
  <1>2. \A v \in Threads \ {t} : Calm(s, r, v)
    BY <1>1, CalmTrans
  <1>3. r.state[t] = l.state[t] \/ r.state[t] = "BLOCKED"
    BY <1>1 DEF Calm
  <1>4. t \notin r.marked /\ t \notin Elems(r.fakeLeaves)
    BY <1>1 DEF Calm
  <1>5. r.handoffThread[t] = None
    BY <1>1, <1>3 DEF SInv, Hand
  <1>6. QED
    BY <1>1, <1>2, <1>3, <1>4, <1>5 DEF HasLeft

\* The first assertion of leave holds, and a thread gives its context up.
LEMMA LeaveHead ==
  ASSUME NEW s, SInv(s, None), NEW t \in Threads, CanLeave(s, t)
  PROVE  LET c  == s.cid[t]
             s1 == Checked(s, s.curThread[c] = t /\ s.state[t] = "RUNNING")
         IN  /\ s \in SchedState /\ c \in Cores /\ s.curThread[c] = t /\ c \in s.members
             /\ s1 \in SchedState /\ s1.ok /\ Keeps(s, s1, {"ok"})
  <1> DEFINE c == s.cid[t]
  <1>1. s \in SchedState /\ s.ok
    BY DEF SInv
  <1>2. c \in Cores
    BY <1>1, FieldTypes
  <1>3. s.curThread[c] = t /\ t # None
    BY <1>1, <1>2, FieldTypes DEF SInv, Ctx, Holds, CanLeave
  <1>4. c \in s.members /\ s.state[t] = "RUNNING"
    BY <1>2, <1>3 DEF SInv, Bar, CanLeave
  <1>5. QED
    BY <1>1, <1>2, <1>3, <1>4, CheckedFacts

\* The context of a thread goes to the first queued one.
LEMMA LeaveGives ==
  ASSUME NEW s, SInv(s, None), NEW t \in Threads, CanLeave(s, t),
         NEW u \in Threads, u \in Elems(s.runQueue), s.cid[t] \in mask[u],
         NEW d \in SchedState, NEW X \in {"BLOCKED", "SLEEPING"},
         d.state = [s.state EXCEPT ![t] = X],
         d.curThread = [s.curThread EXCEPT ![s.cid[t]] = None],
         d.scheduledThreads = s.scheduledThreads - 1,
         d.ok,
         Keeps(s, d, {"state", "curThread", "scheduledThreads", "marked", "sleepQueue", "ok"}),
         \/ X = "BLOCKED" /\ StaysAwake(s, d, t)
         \/ X = "SLEEPING" /\ GoesToSleep(s, d, t),
         NEW r, r = GiveTo(d, u, s.cid[t])
  PROVE  HasLeft(s, r, t)
  <1> DEFINE c == s.cid[t]
  <1>0. s \in SchedState /\ c \in Cores /\ s.curThread[c] = t
    BY LeaveHead
  <1>1. /\ r \in SchedState
        /\ r.state = [d.state EXCEPT ![u] = "RUNNING"]
        /\ r.cid = [d.cid EXCEPT ![u] = c]
        /\ r.curThread = [d.curThread EXCEPT ![c] = u]
        /\ r.futexWord = [d.futexWord EXCEPT ![u] = 0]
        /\ r.scheduledThreads = d.scheduledThreads + 1
        /\ r.runQueue = Remove(d.runQueue, u)
        /\ r.ok <=> /\ d.ok /\ d.state[u] \in {"STARTED", "BLOCKED", "QUEUED"}
                    /\ d.curThread[c] = None /\ d.futexWord[u] = 1
        /\ Keeps(d, r, {"state", "cid", "curThread", "futexWord", "scheduledThreads", "runQueue", "ok"})
    <2>1. r = GiveTo(d, u, c) /\ c \in Cores /\ d \in SchedState /\ u \in Threads
      BY <1>0
    <2> HIDE DEF c
    <2>2. QED
      BY ONLY <2>1, GiveToFacts
  <1>2. /\ s.state \in [Threads -> States] /\ s.curThread \in [Cores -> Threads \cup {None}]
        /\ s.scheduledThreads \in Int /\ None \notin Threads
    BY <1>0, FieldTypes
  <1>3. s.state[u] = "QUEUED" /\ s.futexWord[u] = 1 /\ u # t
    BY <1>2 DEF SInv, Queues, Words, CanLeave
  <1>4. /\ d.cid = s.cid /\ d.futexWord = s.futexWord /\ d.runQueue = s.runQueue
        /\ d.handoffThread = s.handoffThread
    BY DEF Keeps, Fields
  <1>5. d.state[u] = "QUEUED" /\ d.curThread[c] = None
    BY <1>0, <1>2, <1>3
  <1>6. r.ok
    BY <1>1, <1>3, <1>4, <1>5
  <1>7. /\ r.state = [s.state EXCEPT ![t] = X, ![u] = "RUNNING"]
        /\ r.cid = [s.cid EXCEPT ![u] = c]
        /\ r.curThread = [s.curThread EXCEPT ![c] = u]
        /\ r.futexWord = [s.futexWord EXCEPT ![u] = 0]
        /\ r.scheduledThreads = s.scheduledThreads
    BY <1>0, <1>1, <1>2, <1>4
  <1>8. Keeps(s, r, {"state", "cid", "curThread", "futexWord", "scheduledThreads", "ok",
                     "runQueue", "handoffThread", "marked", "sleepQueue"})
    BY <1>1 DEF Keeps, Fields
  <1>9. /\ r.handoffThread = s.handoffThread /\ r.runQueue = Remove(s.runQueue, u)
        /\ r.marked = d.marked /\ r.sleepQueue = d.sleepQueue /\ r.fakeLeaves = s.fakeLeaves
    BY <1>1, <1>4 DEF Keeps, Fields
  <1>10. Gives(s, r, t, u, X) /\ FromQueue(s, r, t, u)
    BY <1>1, <1>6, <1>7, <1>8, <1>9 DEF Gives, FromQueue, CanLeave
  <1>11. \/ X = "BLOCKED" /\ StaysAwake(s, r, t)
         \/ X = "SLEEPING" /\ GoesToSleep(s, r, t)
    BY <1>9 DEF StaysAwake, GoesToSleep
  <1>12. /\ SInv(r, IF X = "QUEUED" THEN t ELSE None)
         /\ \A v \in Threads \ {t} : Calm(s, r, v)
         /\ r.state[t] = X
         /\ r.handoffThread[t] = None
         /\ t \notin r.marked
    BY <1>10, <1>11, GivesInv DEF CanLeave
  <1>13. X # "QUEUED" /\ (t \in s.marked => X = "SLEEPING") /\ (t \notin s.marked => X = "BLOCKED")
    BY <1>11 DEF StaysAwake, GoesToSleep
  <1>14. QED
    BY <1>9, <1>12, <1>13 DEF HasLeft, CanLeave

LEMMA LeaveStep ==
  ASSUME NEW s, SInv(s, None), Awake(s), NEW t \in Threads, CanLeave(s, t), NEW r \in leave(s, t)
  PROVE  HasLeft(s, r, t)
  <1> DEFINE c    == s.cid[t]
             s1   == Checked(s, s.curThread[c] = t /\ s.state[t] = "RUNNING")
             inTh == schedContext(s1, c)
             dS   == deschedule(s1, t, c, "SLEEPING")
             dB   == deschedule(s1, t, c, "BLOCKED")
             s2   == [dS EXCEPT !.marked = @ \ {t}, !.sleepQueue = SleepInsert(s1, t)]
             s2f  == [s2 EXCEPT !.freeList = Append(@, c)]
             s3   == [s1 EXCEPT !.state[t] = "OUT", !.outQueue = Append(@, t)]
  <1>0. /\ s \in SchedState /\ c \in Cores /\ s.curThread[c] = t /\ c \in s.members
        /\ s1 \in SchedState /\ s1.ok /\ Keeps(s, s1, {"ok"})
    BY LeaveHead
  <1>1. \/ t \in s.marked /\ inTh # None /\ r = GiveTo(s2, inTh, c)
        \/ t \in s.marked /\ inTh = None /\ r \in barLeave(s2f, c)
        \/ t \notin s.marked /\ inTh # None /\ r = GiveTo(dB, inTh, c)
        \/ t \notin s.marked /\ inTh = None /\ r \in barLeave(s3, c)
    BY DEF leave
  <1> HIDE DEF s1, inTh, dS, dB, s2, s2f, s3, c
  <1>2. /\ s1.state = s.state /\ s1.curThread = s.curThread /\ s1.cid = s.cid /\ s1.left = s.left
        /\ s1.sleepQueue = s.sleepQueue /\ s1.scheduledThreads = s.scheduledThreads
        /\ s1.runQueue = s.runQueue /\ s1.marked = s.marked /\ s1.freeList = s.freeList
        /\ s1.outQueue = s.outQueue /\ s1.members = s.members /\ s1.arrived = s.arrived
    BY <1>0 DEF Keeps, Fields
  <1>3. /\ inTh = None => Unwanted(s, c)
        /\ inTh # None => inTh \in Threads /\ inTh \in Elems(s.runQueue) /\ c \in mask[inTh]
    <2>1. /\ inTh = None => Unwanted(s1, c)
          /\ inTh # None => inTh \in Threads /\ inTh \in Elems(s1.runQueue) /\ c \in mask[inTh]
      BY <1>0, SchedContextFacts DEF inTh
    <2>2. QED
      BY <1>2, <2>1 DEF Unwanted
  <1>4. ASSUME NEW X \in {"SLEEPING", "BLOCKED"}, NEW d, d = deschedule(s1, t, c, X)
        PROVE  /\ d \in SchedState
               /\ d.state = [s.state EXCEPT ![t] = X]
               /\ d.curThread = [s.curThread EXCEPT ![c] = None]
               /\ d.scheduledThreads = s.scheduledThreads - 1
               /\ d.ok
               /\ Keeps(s, d, {"state", "curThread", "scheduledThreads", "ok"})
    <2>1. X \in States
      BY DEF States
    <2>2. /\ d \in SchedState
          /\ d.state = [s1.state EXCEPT ![t] = X]
          /\ d.curThread = [s1.curThread EXCEPT ![c] = None]
          /\ d.scheduledThreads = s1.scheduledThreads - 1
          /\ d.ok <=> s1.ok /\ s1.state[t] \in {"RUNNING", "OUT"} /\ s1.cid[t] = c /\ s1.curThread[c] = t
          /\ Keeps(s1, d, {"state", "curThread", "scheduledThreads", "ok"})
      BY <1>0, <1>4, <2>1, DescheduleFacts
    <2>3. d.ok
      BY <1>0, <1>2, <2>2 DEF c, CanLeave
    <2>4. Keeps(s, d, {"state", "curThread", "scheduledThreads", "ok"})
      BY <1>0, <2>2 DEF Keeps, Fields
    <2>5. QED
      BY <1>2, <2>2, <2>3, <2>4
  <1>5. CASE t \notin s.marked /\ inTh # None /\ r = GiveTo(dB, inTh, c)
    <2>1. /\ dB \in SchedState
          /\ dB.state = [s.state EXCEPT ![t] = "BLOCKED"]
          /\ dB.curThread = [s.curThread EXCEPT ![c] = None]
          /\ dB.scheduledThreads = s.scheduledThreads - 1
          /\ dB.ok
          /\ Keeps(s, dB, {"state", "curThread", "scheduledThreads", "ok"})
      BY <1>4 DEF dB
    <2>2. StaysAwake(s, dB, t)
      BY <1>5, <2>1 DEF StaysAwake, Keeps, Fields
    <2>3. Keeps(s, dB, {"state", "curThread", "scheduledThreads", "marked", "sleepQueue", "ok"})
      BY <2>1 DEF Keeps, Fields
    <2>4. QED
      BY <1>3, <1>5, <2>1, <2>2, <2>3, LeaveGives DEF c
  <1>6. ASSUME t \in s.marked
        PROVE  /\ s2 \in SchedState
               /\ s2.state = [s.state EXCEPT ![t] = "SLEEPING"]
               /\ s2.curThread = [s.curThread EXCEPT ![c] = None]
               /\ s2.scheduledThreads = s.scheduledThreads - 1
               /\ s2.ok
               /\ GoesToSleep(s, s2, t)
               /\ Keeps(s, s2, {"state", "curThread", "scheduledThreads", "marked", "sleepQueue", "ok"})
    <2>1. /\ dS \in SchedState
          /\ dS.state = [s.state EXCEPT ![t] = "SLEEPING"]
          /\ dS.curThread = [s.curThread EXCEPT ![c] = None]
          /\ dS.scheduledThreads = s.scheduledThreads - 1
          /\ dS.ok
          /\ Keeps(s, dS, {"state", "curThread", "scheduledThreads", "ok"})
      BY <1>4 DEF dS
    <2>2. SleepInsert(s1, t) = SleepInsert(s, t)
      BY <1>2 DEF SleepInsert
    <2>3. SleepInsert(s, t) \in Seq(Threads)
      <3>1. Sleep(s) /\ NoRepeats(s.sleepQueue) /\ t \notin Elems(s.sleepQueue) /\ s.left[t] >= 1
        BY <1>6 DEF SInv, Queues, Words, CanLeave
      <3>2. QED
        BY <1>0, <3>1, SleepInsertFacts
    <2> DEFINE q == SleepInsert(s, t)
    <2> HIDE DEF q
    <2>4. s2 = [dS EXCEPT !.marked = @ \ {t}, !.sleepQueue = q]
      BY <2>2 DEF s2, q
    <2>5. q \in Seq(Threads)
      BY <2>3 DEF q
    <2>6. /\ s2 \in SchedState /\ s2.marked = dS.marked \ {t} /\ s2.sleepQueue = q
          /\ Keeps(dS, s2, {"marked", "sleepQueue"})
      BY <2>1, <2>4, <2>5 DEF SchedState, Keeps, Fields
    <2>7. /\ s2.state = dS.state /\ s2.curThread = dS.curThread
          /\ s2.scheduledThreads = dS.scheduledThreads /\ (s2.ok <=> dS.ok) /\ dS.marked = s.marked
          /\ Keeps(s, s2, {"state", "curThread", "scheduledThreads", "marked", "sleepQueue", "ok"})
      BY <2>1, <2>6 DEF Keeps, Fields
    <2>8. QED
      BY <1>6, <2>1, <2>6, <2>7 DEF GoesToSleep, q
  <1>7. CASE t \in s.marked /\ inTh # None /\ r = GiveTo(s2, inTh, c)
    BY <1>3, <1>6, <1>7, LeaveGives DEF c
  <1>8. CASE t \in s.marked /\ inTh = None /\ r \in barLeave(s2f, c)
    <2>1. Append(s.freeList, c) \in Seq(Cores)
      BY <1>0, FieldTypes, AppendFacts
    <2>2. s2.freeList = s.freeList
      BY <1>6, <1>8 DEF Keeps, Fields
    <2>3. s2f \in SchedState /\ s2f.freeList = Append(s.freeList, c) /\ Keeps(s2, s2f, {"freeList"})
      BY <1>6, <1>8, <2>1, <2>2 DEF s2f, SchedState, Keeps, Fields
    <2>4. s2f.members = s.members /\ s2f.arrived = s.arrived /\ (s2f.ok <=> s2.ok)
      BY <1>6, <1>8, <2>3 DEF Keeps, Fields
    <2>5. c \in s2f.members /\ c \notin s2f.arrived
      BY <1>0, <2>4 DEF c, CanLeave
    <2>6. PICK l \in SchedState : /\ l.members = s2f.members \ {c}
                                  /\ l.ok <=> s2f.ok
                                  /\ Keeps(s2f, l, {"members", "ok"})
                                  /\ r \in EndPhase(l)
      BY <1>0, <1>8, <2>3, <2>5, BarLeaveFacts
    <2>7. /\ l.state = [s.state EXCEPT ![t] = "SLEEPING"]
          /\ l.curThread = [s.curThread EXCEPT ![c] = None]
          /\ l.freeList = Append(s.freeList, c)
          /\ l.scheduledThreads = s.scheduledThreads - 1
          /\ l.members = s.members \ {c}
          /\ l.ok
      <3>1. /\ l.state = s2.state /\ l.curThread = s2.curThread /\ l.freeList = s2f.freeList
            /\ l.scheduledThreads = s2.scheduledThreads
        BY <2>3, <2>6 DEF Keeps, Fields
      <3>2. QED
        BY <1>6, <1>8, <2>3, <2>4, <2>6, <3>1
    <2>8. Keeps(s, l, {"state", "curThread", "freeList", "scheduledThreads", "members", "marked",
                       "sleepQueue", "ok"})
      BY <1>6, <1>8, <2>3, <2>6 DEF Keeps, Fields
    <2>9. l.marked = s2.marked /\ l.sleepQueue = s2.sleepQueue
      BY <2>3, <2>6 DEF Keeps, Fields
    <2>10. GoesToSleep(s, l, t)
      BY <1>6, <1>8, <2>9 DEF GoesToSleep
    <2>11. SInv(l, None) /\ \A v \in Threads \ {t} : Calm(s, l, v)
      BY <1>3, <1>8, <2>7, <2>8, <2>10, NapInv DEF c, CanLeave
    <2>12. l.cid = s.cid /\ l.arrived = s.arrived /\ l.fakeLeaves = s.fakeLeaves
      BY <2>8 DEF Keeps, Fields
    <2>13. Awake(l) /\ t \notin l.marked /\ t \notin Elems(l.fakeLeaves)
      BY <2>10, <2>12 DEF Awake, GoesToSleep, CanLeave
    <2>14. l.state[t] = "SLEEPING"
      BY <1>0, <2>7, FieldTypes
    <2>15. QED
      BY <1>8, <2>6, <2>11, <2>13, <2>14, LeftBarrier
  <1>9. CASE t \notin s.marked /\ inTh = None /\ r \in barLeave(s3, c)
    <2>1. Append(s.outQueue, t) \in Seq(Threads)
      BY <1>0, FieldTypes, AppendFacts
    <2>2. /\ s3.state = [s.state EXCEPT ![t] = "OUT"] /\ s3.outQueue = Append(s.outQueue, t)
          /\ Keeps(s1, s3, {"state", "outQueue"})
          /\ DOMAIN s3 = DOMAIN s1 /\ s3 = [x \in DOMAIN s3 |-> s3[x]]
      BY <1>0, <1>2 DEF s3, SchedState, Keeps, Fields
    <2>3. s3 \in SchedState
      <3>1. s3.state \in [Threads -> States]
        BY <1>0, <2>2, FieldTypes DEF States
      <3>2. QED
        BY <1>0, <2>1, <2>2, <3>1 DEF SchedState, Keeps, Fields
    <2>4. s3.members = s.members /\ s3.arrived = s.arrived /\ (s3.ok <=> s1.ok)
      BY <1>2, <2>2 DEF Keeps, Fields
    <2>5. c \in s3.members /\ c \notin s3.arrived
      BY <1>0, <2>4 DEF c, CanLeave
    <2>6. PICK l \in SchedState : /\ l.members = s3.members \ {c}
                                  /\ l.ok <=> s3.ok
                                  /\ Keeps(s3, l, {"members", "ok"})
                                  /\ r \in EndPhase(l)
      BY <1>0, <1>9, <2>3, <2>5, BarLeaveFacts
    <2>7. /\ l.state = [s.state EXCEPT ![t] = "OUT"]
          /\ l.outQueue = Append(s.outQueue, t)
          /\ l.members = s.members \ {c}
          /\ l.ok
      <3>1. l.state = s3.state /\ l.outQueue = s3.outQueue
        BY <2>6 DEF Keeps, Fields
      <3>2. QED
        BY <1>0, <2>2, <2>4, <2>6, <3>1
    <2>8. Keeps(s, l, {"state", "outQueue", "members", "ok"})
      BY <1>0, <2>2, <2>6 DEF Keeps, Fields
    <2>11. SInv(l, None) /\ \A v \in Threads \ {t} : Calm(s, l, v)
      BY <1>3, <1>9, <2>7, <2>8, OutInv DEF c, CanLeave
    <2>12. l.cid = s.cid /\ l.arrived = s.arrived /\ l.fakeLeaves = s.fakeLeaves /\ l.marked = s.marked
      BY <2>8 DEF Keeps, Fields
    <2>13. Awake(l) /\ t \notin l.marked /\ t \notin Elems(l.fakeLeaves)
      BY <1>9, <2>12 DEF Awake, CanLeave
    <2>14. l.state[t] = "OUT"
      BY <1>0, <2>7, FieldTypes
    <2>15. QED
      BY <1>9, <2>6, <2>11, <2>13, <2>14, LeftBarrier
  <1>10. QED
    BY <1>1, <1>5, <1>7, <1>8, <1>9

\* A thread arrives at the barrier.
LEMMA SyncStep ==
  ASSUME NEW s, SInv(s, None), Awake(s), NEW t \in Threads, CanLeave(s, t), t \notin s.marked,
         NEW r \in barSync(Checked(s, t \notin s.marked), s.cid[t])
  PROVE  /\ SInv(r, None)
         /\ \A v \in Threads \ {t} : Calm(s, r, v)
         /\ r.state[t] = "RUNNING" /\ t \notin r.marked /\ t \notin Elems(r.fakeLeaves)
  <1> DEFINE c == s.cid[t]
             s1 == Checked(s, t \notin s.marked)
             z == [s1 EXCEPT !.arrived = @ \cup {c}]
             l == Checked(z, c \in s1.members \ s1.arrived)
  <1>0. s \in SchedState /\ c \in Cores /\ s.curThread[c] = t /\ c \in s.members /\ s.ok
    BY LeaveHead DEF SInv
  <1>1. s1 \in SchedState /\ Keeps(s, s1, {"ok"}) /\ s1.ok
    BY <1>0, CheckedFacts
  <1>2. r \in EndPhase(l)
    BY DEF barSync
  <1> HIDE DEF s1
  <1>3. z \in SchedState /\ z.arrived = s1.arrived \cup {c} /\ Keeps(s1, z, {"arrived"})
    BY <1>0, <1>1 DEF SchedState, Keeps, Fields
  <1> HIDE DEF z
  <1>4. s1.members = s.members /\ s1.arrived = s.arrived /\ c \in s1.members \ s1.arrived
    BY <1>0, <1>1 DEF Keeps, Fields, CanLeave
  <1>5. l \in SchedState /\ Keeps(z, l, {"ok"}) /\ (l.ok <=> z.ok)
    BY <1>3, <1>4, CheckedFacts
  <1> HIDE DEF l
  <1>6. l.arrived = s.arrived \cup {c} /\ l.ok /\ Keeps(s, l, {"arrived", "phase", "ok"})
    BY <1>1, <1>3, <1>4, <1>5 DEF Keeps, Fields
  <1>7. ASSUME NEW v \in Threads, s.handoffThread[v] # None
        PROVE  s.cid[v] \notin l.arrived
    <2>1. v # t /\ s.cid[v] \notin s.arrived /\ s.state[v] = "RUNNING"
      BY <1>7 DEF SInv, Hand, CanLeave
    <2>2. s.cid[v] # c
      BY <1>0, <2>1 DEF SInv, Ctx, Holds
    <2>3. QED
      BY <1>6, <2>1, <2>2
  <1>8. SInv(l, None)
    <2>1. l.arrived \subseteq s.members
      BY <1>0, <1>6 DEF SInv, Bar
    <2>2. QED
      BY <1>5, <1>6, <1>7, <2>1, ArriveInv
  <1>9. /\ l.state = s.state /\ l.cid = s.cid /\ l.marked = s.marked /\ l.fakeLeaves = s.fakeLeaves
        /\ l.handoffThread = s.handoffThread /\ l.futexWord = s.futexWord
    BY <1>6 DEF Keeps, Fields
  <1>10. \A v \in Threads : v # t /\ s.state[v] = "RUNNING" => s.cid[v] # c
    BY <1>0 DEF SInv, Ctx, Holds
  <1>11. Awake(l)
    <2>1. \A v \in s.marked : v \in Threads /\ v # t /\ s.state[v] = "RUNNING"
      BY <1>0, FieldTypes DEF SInv, Words
    <2>2. QED
      BY <1>6, <1>9, <1>10, <2>1 DEF Awake
  <1>12. \A v \in Threads \ {t} : Calm(s, l, v)
    BY <1>6, <1>9, <1>10 DEF Calm
  <1>13. SInv(r, None) /\ \A v \in Threads : Calm(l, r, v)
    BY <1>2, <1>8, <1>11, EndPhaseStep
  <1>14. \A v \in Threads \ {t} : Calm(s, r, v)
    BY <1>12, <1>13, CalmTrans
  <1>15. r.state[t] = "RUNNING" /\ t \notin r.marked /\ t \notin Elems(r.fakeLeaves)
    BY <1>9, <1>13 DEF Calm, CanLeave
  <1>16. QED
    BY <1>13, <1>14, <1>15

-----------------------------------------------------------------------------
(* The steps *)

\* A thread whose place does not change keeps fitting it in a step of another.
LEMMA CalmPlace ==
  ASSUME NEW u \in Threads, Place(u), Calm(S, S', u), pc'[u] = pc[u], evict' = u <=> evict = u
  PROVE  Place(u)'
  BY DEF Place, Calm, Faking

LEMMA StepDone ==
  ASSUME IInv, NEW t \in Threads, NEW l \in PCs, pc' = [pc EXCEPT ![t] = l],
         SInv(S', None), \A v \in Threads \ {t} : Calm(S, S', v),
         evict' \in Threads \cup {None}, \A v \in Threads \ {t} : evict' = v <=> evict = v,
         Place(t)'
  PROVE  IInv'
  <1>1. pc \in [Threads -> PCs] /\ \A v \in Threads : Place(v)
    BY DEF IInv, PInv
  <1>2. pc' \in [Threads -> PCs] /\ \A v \in Threads \ {t} : pc'[v] = pc[v]
    BY <1>1
  <1>3. ASSUME NEW v \in Threads
        PROVE  Place(v)'
    <2>1. CASE v = t
      BY <2>1
    <2>2. CASE v # t
      BY <1>1, <1>2, <2>2, CalmPlace
    <2>3. QED
      BY <2>1, <2>2
  <1>4. PInv'
    BY <1>2, <1>3 DEF PInv
  <1>5. QED
    BY <1>4 DEF IInv

\* A step that changes only the place of t.
LEMMA MoveDone ==
  ASSUME IInv, NEW t \in Threads, NEW l \in PCs, pc' = [pc EXCEPT ![t] = l],
         UNCHANGED <<S, evict>>, Place(t)'
  PROVE  IInv'
  <1>1. SInv(S', None) /\ evict' \in Threads \cup {None}
    BY DEF IInv, PInv
  <1>2. \A v \in Threads \ {t} : Calm(S, S', v) /\ (evict' = v <=> evict = v)
    BY DEF Calm
  <1>3. QED
    BY <1>1, <1>2, StepDone

\* Where leave may be called.
LEMMA LeaveHere ==
  ASSUME IInv, NEW t \in Threads,
         pc[t] \in {"run", "markNano", "markTimed", "finleave"} \/ evict = t
  PROVE  /\ SInv(S, None) /\ Awake(S) /\ CanLeave(S, t)
         /\ t \in S.marked <=> pc[t] \in {"markNano", "markTimed"}
  <1>1. SInv(S, None) /\ \A v \in Threads : Place(v)
    BY DEF IInv, PInv
  <1>2. Awake(S)
    <2>1. \A v \in S.marked : v \in Threads /\ S.state[v] = "RUNNING"
      BY <1>1, FieldTypes DEF SInv, Words
    <2>2. \A v \in S.marked : S.cid[v] \notin S.arrived
      BY <1>1, <2>1 DEF Place
    <2>3. QED
      BY <2>2 DEF Awake
  <1>3. CanLeave(S, t) /\ (t \in S.marked <=> pc[t] \in {"markNano", "markTimed"})
    BY <1>1 DEF Place, CanLeave
  <1>4. QED
    BY <1>1, <1>2, <1>3

\* The place of a thread that has left.
LEMMA LeftPlace ==
  ASSUME NEW t \in Threads, HasLeft(S, S', t), evict' # t,
         \/ t \notin S.marked /\ pc'[t] \in {"out", "dead", "finish"}
         \/ t \in S.marked /\ pc'[t] \in {"nano", "timed"}
  PROVE  Place(t)'
  BY DEF HasLeft, Place

LEMMA StartStep ==
  ASSUME IInv, NEW t \in Threads, start(t)
  PROVE  IInv'
  <1> DEFINE r == [S EXCEPT !.state[t] = "STARTED"]
  <1>0. SInv(S, None) /\ S \in SchedState /\ S.ok /\ Place(t) /\ pc[t] = "none"
    BY DEF IInv, PInv, SInv, start
  <1>1. r.state = [S.state EXCEPT ![t] = "STARTED"] /\ Keeps(S, r, {"state"})
        /\ DOMAIN r = DOMAIN S /\ r = [x \in DOMAIN r |-> r[x]]
    BY <1>0 DEF SchedState, Keeps, Fields
  <1>2. S' = r /\ pc' = [pc EXCEPT ![t] = "out"] /\ evict' = evict
    BY DEF start, Goto
  <1> HIDE DEF r
  <1>3. S.state \in [Threads -> States] /\ r.state \in [Threads -> States]
    BY <1>0, <1>1, FieldTypes DEF States
  <1>4. r \in SchedState
    BY <1>0, <1>1, <1>3 DEF SchedState, Keeps, Fields
  <1>5. /\ r.cid = S.cid /\ r.futexWord = S.futexWord /\ r.ok = S.ok /\ r.marked = S.marked
        /\ r.fakeLeaves = S.fakeLeaves /\ r.handoffThread = S.handoffThread
        /\ Keeps(S, r, {"state", "cid", "futexWord", "ok"})
    BY <1>1 DEF Keeps, Fields
  <1>6. S.state[t] = "DELETED" /\ r.state[t] = "STARTED" /\ \A v \in Threads \ {t} : r.state[v] = S.state[v]
    BY <1>0, <1>1, <1>3 DEF Place
  <1>7. SInv(r, None) /\ \A v \in Threads \ {t} : Calm(S, r, v)
    BY <1>0, <1>4, <1>5, <1>6, QuietInv
  <1>8. Place(t)'
    <2>1. pc'[t] = "out"
      BY <1>2 DEF IInv, PInv
    <2>2. QED
      BY <1>0, <1>2, <1>5, <1>6, <2>1 DEF Place
  <1>9. "out" \in PCs /\ evict \in Threads \cup {None}
    BY DEF PCs, IInv, PInv
  <1>10. QED
    BY <1>2, <1>7, <1>8, <1>9, StepDone

\* The place of a thread that has a context or waits for one.
LEMMA SettledPlace ==
  ASSUME NEW s, NEW t \in Threads, Settled(s, S', t), pc \in [Threads -> PCs], evict' # t,
         t \notin s.marked, t \notin Elems(s.fakeLeaves), s.handoffThread[t] = None,
         \/ S'.state[t] = "RUNNING" /\ S'.cid[t] \notin S'.arrived /\ Goto(t, "run")
         \/ S'.state[t] = "QUEUED" /\ Goto(t, "ctx")
  PROVE  /\ Place(t)'
         /\ \E l \in PCs : pc' = [pc EXCEPT ![t] = l]
  <1>1. S'.marked = s.marked /\ S'.fakeLeaves = s.fakeLeaves /\ S'.handoffThread = s.handoffThread
    BY DEF Settled
  <1>2. CASE S'.state[t] = "RUNNING" /\ S'.cid[t] \notin S'.arrived /\ Goto(t, "run")
    <2>1. pc' = [pc EXCEPT ![t] = "run"] /\ pc'[t] = "run" /\ "run" \in PCs
      BY <1>2 DEF Goto, PCs
    <2>2. QED
      BY <1>1, <1>2, <2>1 DEF Place
  <1>3. CASE S'.state[t] = "QUEUED" /\ Goto(t, "ctx")
    <2>1. pc' = [pc EXCEPT ![t] = "ctx"] /\ pc'[t] = "ctx" /\ "ctx" \in PCs
      BY <1>3 DEF Goto, PCs
    <2>2. QED
      BY <1>1, <1>3, <2>1 DEF Place
  <1>4. QED
    BY <1>2, <1>3

\* A thread asks for a context in the state s that its lock section has reached.
LEMMA AcquireDone ==
  ASSUME IInv, NEW t \in Threads, NEW s, NEW F, SInv(s, F), Asks(s, F, t), Acquire(s, t),
         \A v \in Threads \ {t} : Calm(S, s, v),
         t \notin s.marked, t \notin Elems(s.fakeLeaves), s.handoffThread[t] = None,
         evict # t, evict' = evict
  PROVE  IInv'
  <1>1. /\ Settled(s, S', t)
        /\ \/ S'.state[t] = "RUNNING" /\ S'.cid[t] \notin S'.arrived /\ Goto(t, "run")
           \/ S'.state[t] = "QUEUED" /\ Goto(t, "ctx")
    BY AcquireStep
  <1>2. pc \in [Threads -> PCs] /\ evict' \in Threads \cup {None}
    BY DEF IInv, PInv
  <1>3. Place(t)' /\ \E l \in PCs : pc' = [pc EXCEPT ![t] = l]
    BY <1>1, <1>2, SettledPlace
  <1>4. SInv(S', None) /\ \A v \in Threads \ {t} : Calm(S, S', v)
    BY <1>1, CalmTrans DEF Settled
  <1>5. QED
    BY <1>2, <1>3, <1>4, StepDone

LEMMA JoinStep ==
  ASSUME IInv, ~FakeLeaveRace, NEW t \in Threads, join(t)
  PROVE  IInv'
  <1> DEFINE s1 == Checked(S, t \notin S.marked)
             sw == [s1 EXCEPT !.sleepQueue = Remove(@, t), !.state[t] = "BLOCKED", !.left[t] = 0]
             s2 == IF S.state[t] = "SLEEPING" THEN sw ELSE s1
             s3 == Checked(s2, s2.state[t] \in {"BLOCKED", "STARTED"})
             rf == [S EXCEPT !.fakeLeaves = Remove(@, t), !.ok = @ /\ S.state[t] = "RUNNING"]
             so == [s1 EXCEPT !.state[t] = "RUNNING", !.outQueue = Remove(@, t)]
  <1>0. /\ SInv(S, None) /\ S \in SchedState /\ S.ok /\ Place(t) /\ pc \in [Threads -> PCs]
        /\ pc[t] = "out" /\ evict # t /\ evict' = evict /\ evict \in Threads \cup {None}
    BY DEF IInv, PInv, SInv, join
  <1>1. \/ /\ t \in Elems(S.fakeLeaves) /\ S' = rf /\ Goto(t, "run")
        \/ /\ t \notin Elems(S.fakeLeaves) /\ S.state[t] = "OUT"
           /\ S' = barJoin(so, S.cid[t]) /\ Goto(t, "run")
        \/ /\ t \notin Elems(S.fakeLeaves) /\ S.state[t] # "OUT"
           /\ Acquire(s3, t)
    BY DEF join
  <1>2. t \notin S.marked /\ S.handoffThread[t] = None /\ (S.state[t] = "RUNNING" => S.cid[t] \notin S.arrived)
    BY <1>0 DEF Place
  <1>3. s1 \in SchedState /\ Keeps(S, s1, {"ok"}) /\ s1.ok
    BY <1>0, <1>2, CheckedFacts
  <1> HIDE DEF s1
  <1>4. "run" \in PCs
    BY DEF PCs
  <1>5. CASE t \in Elems(S.fakeLeaves) /\ S' = rf /\ Goto(t, "run")
    <2>1. S.state[t] = "RUNNING" /\ NoRepeats(S.fakeLeaves) /\ S.fakeLeaves \in Seq(Threads)
      BY <1>0, <1>5, FieldTypes DEF SInv, Queues
    <2>2. /\ Remove(S.fakeLeaves, t) \in Seq(Threads) /\ NoRepeats(Remove(S.fakeLeaves, t))
          /\ Elems(Remove(S.fakeLeaves, t)) = Elems(S.fakeLeaves) \ {t}
      BY <2>1, RemoveFacts DEF Remove
    <2>3. /\ rf \in SchedState /\ rf.fakeLeaves = Remove(S.fakeLeaves, t) /\ Keeps(S, rf, {"fakeLeaves", "ok"})
          /\ rf.ok
      BY <1>0, <2>1, <2>2 DEF SchedState, Keeps, Fields
    <2> HIDE DEF rf
    <2>4. SInv(rf, None) /\ \A v \in Threads \ {t} : Calm(S, rf, v)
      BY <1>0, <2>2, <2>3, FakeInv
    <2>5. /\ rf.state = S.state /\ rf.marked = S.marked /\ rf.handoffThread = S.handoffThread
          /\ rf.cid = S.cid /\ rf.arrived = S.arrived /\ t \notin Elems(rf.fakeLeaves)
      BY <2>2, <2>3 DEF Keeps, Fields
    <2>6. pc' = [pc EXCEPT ![t] = "run"] /\ pc'[t] = "run"
      BY <1>0, <1>5 DEF Goto
    <2>7. Place(t)'
      BY <1>0, <1>2, <1>5, <2>1, <2>5, <2>6 DEF Place
    <2>8. QED
      BY <1>0, <1>4, <1>5, <2>4, <2>6, <2>7, StepDone
  <1>6. CASE t \notin Elems(S.fakeLeaves) /\ S.state[t] = "OUT" /\ S' = barJoin(so, S.cid[t]) /\ Goto(t, "run")
    <2>0. /\ s1.state = S.state /\ s1.outQueue = S.outQueue /\ S.cid[t] \in Cores
          /\ S.outQueue \in Seq(Threads) /\ NoRepeats(S.outQueue)
      BY <1>0, <1>3, FieldTypes DEF Keeps, Fields, SInv, Queues
    <2>1. Remove(S.outQueue, t) \in Seq(Threads)
      BY <2>0, RemoveFacts DEF Remove
    <2>2. /\ so.state = [S.state EXCEPT ![t] = "RUNNING"] /\ so.outQueue = Remove(S.outQueue, t)
          /\ Keeps(s1, so, {"state", "outQueue"})
          /\ DOMAIN so = DOMAIN s1 /\ so = [x \in DOMAIN so |-> so[x]]
      BY <1>3, <2>0 DEF SchedState, Keeps, Fields
    <2> HIDE DEF so
    <2>3. so \in SchedState
      <3>1. so.state \in [Threads -> States]
        BY <1>0, <2>2, FieldTypes DEF States
      <3>2. QED
        BY <1>3, <2>1, <2>2, <3>1 DEF SchedState, Keeps, Fields
    <2>4. /\ S' \in SchedState
          /\ S'.members = so.members \cup {S.cid[t]}
          /\ S'.ok <=> so.ok /\ S.cid[t] \notin so.members
          /\ Keeps(so, S', {"members", "ok"})
      BY <1>6, <2>0, <2>3, JoinFacts
    <2>5. so.members = S.members /\ so.ok /\ Keeps(S, so, {"state", "outQueue", "ok"})
      BY <1>3, <2>2 DEF Keeps, Fields
    <2>6. S.cid[t] \notin S.members
      <3>1. S.curThread[S.cid[t]] = t
        BY <1>0, <1>6, <2>0 DEF SInv, Ctx, Holds
      <3>2. QED
        BY <1>0, <1>6, <2>0, <3>1 DEF SInv, Bar
    <2>7. /\ S'.state = [S.state EXCEPT ![t] = "RUNNING"] /\ S'.outQueue = Remove(S.outQueue, t)
          /\ S'.members = S.members \cup {S.cid[t]}
          /\ S'.ok
      <3>1. S'.state = so.state /\ S'.outQueue = so.outQueue
        BY <2>4 DEF Keeps, Fields
      <3>2. QED
        BY <2>2, <2>4, <2>5, <2>6, <3>1
    <2>8. Keeps(S, S', {"state", "outQueue", "members", "ok"})
      BY <2>4, <2>5 DEF Keeps, Fields
    <2>9. SInv(S', None) /\ (\A v \in Threads \ {t} : Calm(S, S', v)) /\ S'.cid[t] \notin S'.arrived
      BY <1>0, <1>6, <2>4, <2>7, <2>8, ReturnInv
    <2>10. S'.marked = S.marked /\ S'.handoffThread = S.handoffThread /\ S'.fakeLeaves = S.fakeLeaves
      BY <2>8 DEF Keeps, Fields
    <2>11. pc' = [pc EXCEPT ![t] = "run"] /\ pc'[t] = "run" /\ S'.state[t] = "RUNNING"
      BY <1>0, <1>6, <2>7, FieldTypes DEF Goto
    <2>12. Place(t)'
      BY <1>0, <1>2, <1>6, <2>9, <2>10, <2>11 DEF Place
    <2>13. QED
      BY <1>0, <1>4, <2>9, <2>11, <2>12, StepDone
  <1>7. CASE t \notin Elems(S.fakeLeaves) /\ S.state[t] # "OUT" /\ Acquire(s3, t)
    <2>1. S.state[t] \in {"STARTED", "BLOCKED", "SLEEPING"}
      BY <1>0, <1>7 DEF Place, Faking
    <2>2. /\ SInv(s2, None) /\ (\A v \in Threads \ {t} : Calm(S, s2, v))
          /\ s2.state[t] \in {"BLOCKED", "STARTED"}
          /\ s2.marked = S.marked /\ s2.fakeLeaves = S.fakeLeaves /\ s2.handoffThread = S.handoffThread
      <3>1. CASE S.state[t] # "SLEEPING"
        <4>1. s2 = s1 /\ Keeps(S, s1, {"arrived", "phase", "ok"})
          BY <1>3, <3>1 DEF Keeps, Fields
        <4>2. /\ s1.arrived = S.arrived /\ s1.handoffThread = S.handoffThread /\ s1.marked = S.marked
              /\ s1.fakeLeaves = S.fakeLeaves /\ s1.state = S.state /\ s1.cid = S.cid
              /\ s1.futexWord = S.futexWord
          BY <1>3 DEF Keeps, Fields
        <4>3. SInv(s1, None)
          <5>1. s1.arrived \subseteq S.members
            BY <1>0, <4>2 DEF SInv, Bar
          <5>2. \A v \in Threads : S.handoffThread[v] # None => S.cid[v] \notin s1.arrived
            BY <1>0, <4>2 DEF SInv, Hand
          <5>3. QED
            BY <1>0, <1>3, <4>1, <5>1, <5>2, ArriveInv
        <4>4. \A v \in Threads \ {t} : Calm(S, s1, v)
          BY <4>2 DEF Calm
        <4>5. QED
          BY <2>1, <3>1, <4>1, <4>2, <4>3, <4>4
      <3>2. CASE S.state[t] = "SLEEPING"
        <4>0. s2 = sw
          BY <3>2
        <4>1. /\ s1.state = S.state /\ s1.sleepQueue = S.sleepQueue /\ s1.left = S.left
              /\ S.sleepQueue \in Seq(Threads) /\ NoRepeats(S.sleepQueue)
          BY <1>0, <1>3, FieldTypes DEF Keeps, Fields, SInv, Queues
        <4>2. Remove(S.sleepQueue, t) \in Seq(Threads)
          BY <4>1, RemoveFacts DEF Remove
        <4>3. /\ sw.state = [S.state EXCEPT ![t] = "BLOCKED"] /\ sw.sleepQueue = Remove(S.sleepQueue, t)
              /\ sw.left = [S.left EXCEPT ![t] = 0]
              /\ Keeps(s1, sw, {"state", "sleepQueue", "left"})
              /\ DOMAIN sw = DOMAIN s1 /\ sw = [x \in DOMAIN sw |-> sw[x]]
          BY <1>3, <4>1 DEF SchedState, Keeps, Fields
        <4> HIDE DEF sw, s2
        <4>4. sw \in SchedState
          <5>1. sw.state \in [Threads -> States] /\ sw.left \in [Threads -> Int]
            BY <1>0, <4>3, FieldTypes DEF States
          <5>2. QED
            BY <1>3, <4>2, <4>3, <5>1 DEF SchedState, Keeps, Fields
        <4>5. sw.ok /\ Keeps(S, sw, {"state", "sleepQueue", "left", "ok"})
          BY <1>3, <4>3 DEF Keeps, Fields
        <4>6. SInv(sw, None) /\ \A v \in Threads \ {t} : Calm(S, sw, v)
          BY <1>0, <3>2, <4>3, <4>4, <4>5, UnsleepInv
        <4>7. sw.state[t] = "BLOCKED"
          BY <1>0, <4>3, FieldTypes
        <4>8. sw.marked = S.marked /\ sw.fakeLeaves = S.fakeLeaves /\ sw.handoffThread = S.handoffThread
          BY <4>5 DEF Keeps, Fields
        <4>9. QED
          BY <4>0, <4>6, <4>7, <4>8
      <3>3. QED
        BY <3>1, <3>2
    <2> HIDE DEF s2
    <2>3. s3 \in SchedState /\ Keeps(s2, s3, {"ok"}) /\ s3.ok
      BY <2>2, CheckedFacts DEF SInv
    <2> HIDE DEF s3
    <2>4. /\ s3.arrived = s2.arrived /\ s3.handoffThread = s2.handoffThread /\ s3.marked = s2.marked
          /\ s3.fakeLeaves = s2.fakeLeaves /\ s3.state = s2.state
          /\ Keeps(s2, s3, {"arrived", "phase", "ok"})
          /\ Keeps(s2, s3, {"left", "curThread", "freeList", "runQueue", "outQueue", "sleepQueue",
                            "scheduledThreads", "phase", "members", "ok"})
      BY <2>3 DEF Keeps, Fields
    <2>5. SInv(s3, None)
      <3>1. s3.arrived \subseteq s2.members
        BY <2>2, <2>4 DEF SInv, Bar
      <3>2. \A v \in Threads : s2.handoffThread[v] # None => s2.cid[v] \notin s3.arrived
        BY <2>2, <2>4 DEF SInv, Hand
      <3>3. QED
        BY <2>2, <2>3, <2>4, <3>1, <3>2, ArriveInv
    <2>6. \A v \in Threads \ {t} : Calm(S, s3, v)
      BY <2>2, <2>4, CalmKeeps, CalmTrans
    <2>7. Asks(s3, None, t)
      BY <2>2, <2>4 DEF Asks
    <2>8. QED
      BY <1>0, <1>2, <1>7, <2>2, <2>4, <2>5, <2>6, <2>7, AcquireDone
  <1>8. QED
    BY <1>1, <1>5, <1>6, <1>7

\* leave, wherever it is called for t.
LEMMA LeaveDone ==
  ASSUME IInv, NEW t \in Threads, S' \in leave(S, t),
         NEW l \in PCs, pc' = [pc EXCEPT ![t] = l], evict' # t,
         pc[t] \in {"run", "markNano", "markTimed", "finleave"} \/ evict = t,
         pc[t] \in {"markNano", "markTimed"} => l \in {"nano", "timed"},
         pc[t] \notin {"markNano", "markTimed"} => l \in {"out", "dead", "finish"},
         evict' \in Threads \cup {None}, \A v \in Threads \ {t} : evict' = v <=> evict = v
  PROVE  IInv'
  <1>1. /\ SInv(S, None) /\ Awake(S) /\ CanLeave(S, t)
        /\ t \in S.marked <=> pc[t] \in {"markNano", "markTimed"}
    BY LeaveHere
  <1>2. HasLeft(S, S', t)
    BY <1>1, LeaveStep
  <1>3. pc'[t] = l
    BY DEF IInv, PInv
  <1>4. Place(t)'
    BY <1>1, <1>2, <1>3, LeftPlace
  <1>5. SInv(S', None) /\ \A v \in Threads \ {t} : Calm(S, S', v)
    BY <1>2 DEF HasLeft
  <1>6. QED
    BY <1>4, <1>5, StepDone

LEMMA SyscallLeaveStep ==
  ASSUME IInv, NEW t \in Threads, syscallLeave(t)
  PROVE  IInv'
  <1>0. /\ SInv(S, None) /\ S \in SchedState /\ S.ok /\ Place(t) /\ pc \in [Threads -> PCs]
        /\ pc[t] = "run" /\ evict' = evict /\ evict \in Threads \cup {None}
        /\ pc' = [pc EXCEPT ![t] = "out"] /\ "out" \in PCs
    BY DEF IInv, PInv, SInv, syscallLeave, Goto, PCs
  <1>1. evict # t
    BY <1>0 DEF Place
  <1>2. CASE S' \in leave(S, t)
    BY <1>0, <1>1, <1>2, LeaveDone
  <1>3. CASE S' = [S EXCEPT !.fakeLeaves = Append(@, t)]
    <2>1. /\ NoRepeats(S.fakeLeaves) /\ S.fakeLeaves \in Seq(Threads) /\ t \notin Elems(S.fakeLeaves)
          /\ S.state[t] = "RUNNING"
      BY <1>0, FieldTypes DEF SInv, Queues, Place
    <2>2. /\ Append(S.fakeLeaves, t) \in Seq(Threads) /\ NoRepeats(Append(S.fakeLeaves, t))
          /\ Elems(Append(S.fakeLeaves, t)) = Elems(S.fakeLeaves) \cup {t}
      BY <2>1, AppendFacts
    <2>3. S' \in SchedState /\ S'.fakeLeaves = Append(S.fakeLeaves, t) /\ Keeps(S, S', {"fakeLeaves"})
      BY <1>0, <1>3, <2>2 DEF SchedState, Keeps, Fields
    <2>4. /\ S'.ok /\ Keeps(S, S', {"fakeLeaves", "ok"}) /\ S'.state = S.state /\ S'.marked = S.marked
          /\ S'.cid = S.cid /\ S'.arrived = S.arrived /\ S'.handoffThread = S.handoffThread
      BY <1>0, <2>3 DEF Keeps, Fields
    <2>5. SInv(S', None) /\ \A v \in Threads \ {t} : Calm(S, S', v)
      BY <1>0, <2>1, <2>2, <2>3, <2>4, FakeInv
    <2>6. Place(t)'
      <3>1. pc'[t] = "out" /\ t \in Elems(S'.fakeLeaves)
        BY <1>0, <2>2, <2>3
      <3>2. QED
        BY <1>0, <1>1, <2>1, <2>4, <3>1 DEF Place, Faking
    <2>7. QED
      BY <1>0, <2>5, <2>6, StepDone
  <1>4. QED
    BY <1>2, <1>3 DEF syscallLeave

LEMMA MarkStep ==
  ASSUME IInv, NEW t \in Threads, markForSleep(t)
  PROVE  IInv'
  <1>0. /\ SInv(S, None) /\ S \in SchedState /\ S.ok /\ Place(t) /\ pc \in [Threads -> PCs]
        /\ pc[t] = "run" /\ evict' = evict /\ evict \in Threads \cup {None}
    BY DEF IInv, PInv, SInv, markForSleep
  <1>1. PICK n \in 1..MaxSleep :
          /\ S' = [S EXCEPT !.marked = @ \cup {t}, !.left[t] = n, !.futexWord[t] = 1,
                            !.ok = @ /\ t \notin S.marked]
          /\ \/ Goto(t, "markNano")
             \/ n >= 2 /\ Goto(t, "markTimed")
    BY DEF markForSleep
  <1>2. PICK l \in {"markNano", "markTimed"} : pc' = [pc EXCEPT ![t] = l]
    BY <1>1 DEF Goto
  <1>3. l \in PCs /\ pc'[t] = l
    BY <1>0, <1>2 DEF PCs
  <1>4. t \notin S.marked /\ evict # t /\ t \notin Elems(S.fakeLeaves) /\ S.state[t] = "RUNNING"
        /\ S.cid[t] \notin S.arrived /\ S.handoffThread[t] = None
    BY <1>0 DEF Place
  <1>5. /\ S'.marked = S.marked \cup {t} /\ S'.left = [S.left EXCEPT ![t] = n]
        /\ S'.futexWord = [S.futexWord EXCEPT ![t] = 1] /\ S'.ok
        /\ Keeps(S, S', {"marked", "left", "futexWord", "ok"})
        /\ DOMAIN S' = DOMAIN S /\ S' = [x \in DOMAIN S' |-> S'[x]]
    BY <1>0, <1>1, <1>4 DEF SchedState, Keeps, Fields
  <1>6. S' \in SchedState
    <2>1. S'.marked \in SUBSET Threads /\ S'.ok \in BOOLEAN
      <3>1. S'.ok = (S.ok /\ t \notin S.marked)
        BY <1>0, <1>1 DEF SchedState
      <3>2. S'.ok \in BOOLEAN
        BY <3>1
      <3>3. QED
        BY <1>0, <1>5, <3>2, FieldTypes
    <2>2. S'.left \in [Threads -> Int] /\ S'.futexWord \in [Threads -> 0..1]
      <3>1. n \in Int /\ 1 \in 0..1
        OBVIOUS
      <3>2. QED
        BY <1>0, <1>5, <3>1, FieldTypes
    <2>3. QED
      BY <1>0, <1>5, <2>1, <2>2 DEF SchedState, Keeps, Fields
  <1>7. SInv(S', None) /\ \A v \in Threads \ {t} : Calm(S, S', v)
    BY <1>0, <1>4, <1>5, <1>6, MarkInv
  <1>8. /\ S'.state = S.state /\ S'.fakeLeaves = S.fakeLeaves /\ S'.cid = S.cid /\ S'.arrived = S.arrived
        /\ S'.handoffThread = S.handoffThread /\ t \in S'.marked
    BY <1>5 DEF Keeps, Fields
  <1>9. Place(t)'
    BY <1>0, <1>2, <1>3, <1>4, <1>8 DEF Place
  <1>10. QED
    BY <1>0, <1>2, <1>3, <1>7, <1>9, StepDone

\* The steps of a thread that leave the scheduler's state alone.
LEMMA MoveStep ==
  ASSUME IInv, NEW t \in Threads,
         \/ SleepReturn(t) \/ SleepInterrupted(t) \/ TimedReturn(t) \/ SyncReturn(t)
         \/ Die(t) \/ processCleanup(t)
  PROVE  IInv'
  <1>0. Place(t) /\ pc \in [Threads -> PCs] /\ SInv(S, None)
    BY DEF IInv, PInv
  <1>1. UNCHANGED <<S, evict>>
    BY DEF SleepReturn, SleepInterrupted, TimedReturn, SyncReturn, Die, processCleanup
  <1>2. ASSUME NEW l, Goto(t, l), l \in PCs, Place(t)'
        PROVE  IInv'
    BY <1>1, <1>2, MoveDone DEF Goto
  <1>3. \A l : Goto(t, l) => pc'[t] = l
    BY <1>0 DEF Goto
  <1>4. CASE SleepReturn(t) \/ SleepInterrupted(t)
    <2>1. pc[t] = "nano" /\ Goto(t, "out") /\ pc'[t] = "out" /\ "out" \in PCs
      BY <1>3, <1>4 DEF SleepReturn, SleepInterrupted, PCs
    <2>2. Place(t)'
      BY <1>0, <1>1, <2>1 DEF Place, Faking
    <2>3. QED
      BY <1>2, <2>1, <2>2
  <1>5. CASE TimedReturn(t)
    <2>1. pc[t] = "timed"
      BY <1>5 DEF TimedReturn
    <2>2. CASE S.state[t] = "SLEEPING"
      <3>1. Goto(t, "notify") /\ pc'[t] = "notify" /\ "notify" \in PCs
        BY <1>3, <1>5, <2>2 DEF TimedReturn, PCs
      <3>2. Place(t)'
        BY <1>0, <1>1, <2>1, <2>2, <3>1 DEF Place, Faking
      <3>3. QED
        BY <1>2, <3>1, <3>2
    <2>3. CASE S.state[t] # "SLEEPING"
      <3>1. Goto(t, "out") /\ pc'[t] = "out" /\ "out" \in PCs
        BY <1>3, <1>5, <2>3 DEF TimedReturn, PCs
      <3>2. Place(t)'
        BY <1>0, <1>1, <2>1, <2>3, <3>1 DEF Place, Faking
      <3>3. QED
        BY <1>2, <3>1, <3>2
    <2>4. QED
      BY <2>2, <2>3
  <1>6. CASE SyncReturn(t)
    <2>1. pc[t] = "sync" /\ S.cid[t] \notin S.arrived
      BY <1>6 DEF SyncReturn
    <2>2. CASE S.handoffThread[t] = None
      <3>1. Goto(t, "run") /\ pc'[t] = "run" /\ "run" \in PCs
        BY <1>3, <1>6, <2>2 DEF SyncReturn, PCs
      <3>2. Place(t)'
        BY <1>0, <1>1, <2>1, <2>2, <3>1 DEF Place, Faking
      <3>3. QED
        BY <1>2, <3>1, <3>2
    <2>3. CASE S.handoffThread[t] # None
      <3>1. Goto(t, "handoff") /\ pc'[t] = "handoff" /\ "handoff" \in PCs
        BY <1>3, <1>6, <2>3 DEF SyncReturn, PCs
      <3>2. Place(t)'
        BY <1>0, <1>1, <2>1, <2>3, <3>1 DEF Place, Faking
      <3>3. QED
        BY <1>2, <3>1, <3>2
    <2>4. QED
      BY <2>2, <2>3
  <1>7. CASE Die(t)
    <2>1. pc[t] \in {"out", "run", "nano", "timed"} /\ Goto(t, "dead") /\ pc'[t] = "dead" /\ "dead" \in PCs
      BY <1>3, <1>7 DEF Die, PCs
    <2>2. Place(t)'
      BY <1>0, <1>1, <2>1 DEF Place, Faking
    <2>3. QED
      BY <1>2, <2>1, <2>2
  <1>8. CASE processCleanup(t)
    <2>1. pc[t] = "dead" /\ evict # t
      BY <1>8, NoneAssumption DEF processCleanup
    <2>2. CASE S.state[t] = "SLEEPING"
      <3>1. Goto(t, "reap") /\ pc'[t] = "reap" /\ "reap" \in PCs
        BY <1>3, <1>8, <2>2 DEF processCleanup, PCs
      <3>2. t \notin Elems(S.fakeLeaves)
        BY <1>0, <2>2 DEF SInv, Queues
      <3>3. Place(t)'
        BY <1>0, <1>1, <2>1, <2>2, <3>1, <3>2 DEF Place, Faking
      <3>4. QED
        BY <1>2, <3>1, <3>3
    <2>3. CASE S.state[t] # "SLEEPING"
      <3>1. Goto(t, "reaped") /\ pc'[t] = "reaped" /\ "reaped" \in PCs
        BY <1>3, <1>8, <2>3 DEF processCleanup, PCs
      <3>2. Place(t)'
        BY <1>0, <1>1, <2>1, <2>3, <3>1 DEF Place, Faking
      <3>3. QED
        BY <1>2, <3>1, <3>2
    <2>4. QED
      BY <2>2, <2>3
  <1>9. QED
    BY <1>4, <1>5, <1>6, <1>7, <1>8

\* An assertion that holds changes nothing.
LEMMA CheckedInv ==
  ASSUME NEW s, SInv(s, None), NEW b, b
  PROVE  /\ SInv(Checked(s, b), None)
         /\ Keeps(s, Checked(s, b), {"ok"})
         /\ \A u : Calm(s, Checked(s, b), u)
  <1> DEFINE r == Checked(s, b)
  <1>1. r = Checked(s, TRUE) /\ TRUE \in BOOLEAN /\ s \in SchedState /\ s.ok
    BY DEF Checked, SInv
  <1>2. r \in SchedState /\ Keeps(s, r, {"ok"}) /\ r.ok
    BY <1>1, CheckedFacts
  <1> HIDE DEF r
  <1>3. /\ r.arrived = s.arrived
        /\ Keeps(s, r, {"arrived", "phase", "ok"})
        /\ Keeps(s, r, {"left", "curThread", "freeList", "runQueue", "outQueue", "sleepQueue",
                        "scheduledThreads", "phase", "members", "ok"})
    BY <1>2 DEF Keeps, Fields
  <1>4. r.arrived \subseteq s.members /\ \A v \in Threads : s.handoffThread[v] # None => s.cid[v] \notin r.arrived
    BY <1>3 DEF SInv, Bar, Hand
  <1>5. SInv(r, None)
    BY <1>2, <1>3, <1>4, ArriveInv
  <1>6. \A u : Calm(s, r, u)
    BY <1>3, CalmKeeps
  <1>7. QED
    BY <1>2, <1>5, <1>6 DEF r

\* A record with the fields of SchedState, each of its type, is a SchedState.
LEMMA IsSchedState ==
  ASSUME NEW r, DOMAIN r = Fields, r = [x \in DOMAIN r |-> r[x]],
         r.state \in [Threads -> States], r.cid \in [Threads -> Cores],
         r.handoffThread \in [Threads -> Threads \cup {None}],
         r.futexWord \in [Threads -> 0..1], r.marked \subseteq Threads,
         r.left \in [Threads -> Int], r.curThread \in [Cores -> Threads \cup {None}],
         r.freeList \in Seq(Cores), r.runQueue \in Seq(Threads),
         r.outQueue \in Seq(Threads), r.sleepQueue \in Seq(Threads),
         r.fakeLeaves \in Seq(Threads), r.members \subseteq Cores, r.arrived \subseteq Cores,
         r.scheduledThreads \in Int, r.phase \in 0..schedQuantum-1, r.ok \in BOOLEAN
  PROVE  r \in SchedState
  BY SMTT(20) DEF SchedState, Fields

LEMMA NotifyStep ==
  ASSUME IInv, NEW t \in Threads, notifySleepEnd(t)
  PROVE  IInv'
  <1> DEFINE b == t \notin S.marked /\ S.state[t] \in {"SLEEPING", "BLOCKED"}
             s1 == Checked(S, b)
             sw == [s1 EXCEPT !.sleepQueue = Remove(@, t), !.state[t] = "BLOCKED", !.left[t] = 0]
  <1>0. /\ SInv(S, None) /\ S \in SchedState /\ S.ok /\ Place(t) /\ pc \in [Threads -> PCs]
        /\ pc[t] \in {"notify", "reap"} /\ evict' = evict /\ evict \in Threads \cup {None}
    BY DEF IInv, PInv, SInv, notifySleepEnd
  <1>1. S' = IF S.state[t] = "BLOCKED" THEN s1 ELSE sw
    BY DEF notifySleepEnd
  <1>2. PICK l \in {"out", "reaped"} : pc' = [pc EXCEPT ![t] = l]
    BY DEF notifySleepEnd, Goto
  <1>3. l \in PCs /\ pc'[t] = l
    BY <1>0, <1>2 DEF PCs
  <1>4. b /\ evict # t /\ t \notin Elems(S.fakeLeaves) /\ S.handoffThread[t] = None /\ t \notin S.marked
    BY <1>0 DEF Place
  <1>5. /\ SInv(s1, None) /\ Keeps(S, s1, {"ok"}) /\ \A u : Calm(S, s1, u)
    BY <1>0, <1>4, CheckedInv
  <1> HIDE DEF s1, b
  <1>6. CASE S.state[t] = "BLOCKED"
    <2>1. S' = s1
      BY <1>1, <1>6
    <2>2. /\ S'.state = S.state /\ S'.marked = S.marked /\ S'.fakeLeaves = S.fakeLeaves
          /\ S'.handoffThread = S.handoffThread
      BY <1>5, <2>1 DEF Keeps, Fields
    <2>3. Place(t)'
      BY <1>0, <1>2, <1>3, <1>4, <1>6, <2>2 DEF Place
    <2>4. QED
      BY <1>0, <1>2, <1>3, <1>5, <2>1, <2>3, StepDone
  <1>7. CASE S.state[t] = "SLEEPING"
    <2>0. S' = sw
      BY <1>1, <1>7
    <2>1. /\ s1.state = S.state /\ s1.sleepQueue = S.sleepQueue /\ s1.left = S.left /\ s1.ok
          /\ S.sleepQueue \in Seq(Threads) /\ NoRepeats(S.sleepQueue) /\ s1 \in SchedState
      BY <1>0, <1>5, FieldTypes DEF Keeps, Fields, SInv, Queues
    <2>2. Remove(S.sleepQueue, t) \in Seq(Threads)
      BY <2>1, RemoveFacts DEF Remove
    <2>3. /\ sw.state = [S.state EXCEPT ![t] = "BLOCKED"] /\ sw.sleepQueue = Remove(S.sleepQueue, t)
          /\ sw.left = [S.left EXCEPT ![t] = 0]
          /\ Keeps(s1, sw, {"state", "sleepQueue", "left"})
          /\ DOMAIN sw = DOMAIN s1 /\ sw = [x \in DOMAIN sw |-> sw[x]]
      BY <2>1 DEF SchedState, Keeps, Fields
    <2> HIDE DEF sw
    <2>4. sw \in SchedState
      <3>1. sw.state \in [Threads -> States] /\ sw.left \in [Threads -> Int]
        BY <1>0, <2>3, FieldTypes DEF States
      <3>2. DOMAIN sw = Fields
        BY <2>1, <2>3 DEF SchedState, Fields
      <3>3. /\ s1.cid = sw.cid /\ s1.handoffThread = sw.handoffThread
            /\ s1.futexWord = sw.futexWord /\ s1.marked = sw.marked
            /\ s1.curThread = sw.curThread /\ s1.freeList = sw.freeList
            /\ s1.runQueue = sw.runQueue /\ s1.outQueue = sw.outQueue
            /\ s1.fakeLeaves = sw.fakeLeaves /\ s1.members = sw.members
            /\ s1.arrived = sw.arrived /\ s1.scheduledThreads = sw.scheduledThreads
            /\ s1.phase = sw.phase /\ s1.ok = sw.ok
        BY <2>3 DEF Keeps, Fields
      <3>4. /\ sw.cid \in [Threads -> Cores]
            /\ sw.handoffThread \in [Threads -> Threads \cup {None}]
            /\ sw.futexWord \in [Threads -> 0..1] /\ sw.marked \subseteq Threads
            /\ sw.curThread \in [Cores -> Threads \cup {None}]
            /\ sw.freeList \in Seq(Cores) /\ sw.runQueue \in Seq(Threads)
            /\ sw.outQueue \in Seq(Threads) /\ sw.fakeLeaves \in Seq(Threads)
            /\ sw.members \subseteq Cores /\ sw.arrived \subseteq Cores
            /\ sw.scheduledThreads \in Int /\ sw.phase \in 0..schedQuantum-1
            /\ sw.ok \in BOOLEAN
        <4>1. s1 \in SchedState
          BY <2>1
        <4>2. QED
          BY <3>3, <4>1, FieldTypes
      <3>5. QED
        BY <2>1, <2>2, <2>3, <3>1, <3>2, <3>3, <3>4, IsSchedState
    <2>5. sw.ok /\ Keeps(S, sw, {"state", "sleepQueue", "left", "ok"})
      BY <1>5, <2>1, <2>3 DEF Keeps, Fields
    <2>6. SInv(sw, None) /\ \A v \in Threads \ {t} : Calm(S, sw, v)
      BY <1>0, <1>7, <2>3, <2>4, <2>5, UnsleepInv
    <2>7. sw.state[t] = "BLOCKED"
      BY <1>0, <2>3, FieldTypes
    <2>8. sw.marked = S.marked /\ sw.fakeLeaves = S.fakeLeaves /\ sw.handoffThread = S.handoffThread
      BY <2>5 DEF Keeps, Fields
    <2>9. Place(t)'
      BY <1>0, <1>2, <1>3, <1>4, <2>0, <2>7, <2>8 DEF Place
    <2>10. QED
      BY <1>0, <1>2, <1>3, <2>0, <2>6, <2>9, StepDone
  <1>8. QED
    BY <1>4, <1>6, <1>7 DEF b

LEMMA SyncActionStep ==
  ASSUME IInv, NEW t \in Threads, sync(t)
  PROVE  IInv'
  <1>0. /\ Place(t) /\ pc \in [Threads -> PCs] /\ pc[t] = "run"
        /\ evict' = evict /\ evict \in Threads \cup {None}
        /\ pc' = [pc EXCEPT ![t] = "sync"] /\ "sync" \in PCs
        /\ S' \in barSync(Checked(S, t \notin S.marked), S.cid[t])
    BY DEF IInv, PInv, sync, Goto, PCs
  <1>1. SInv(S, None) /\ Awake(S) /\ CanLeave(S, t) /\ t \notin S.marked
    BY <1>0, LeaveHere
  <1>2. /\ SInv(S', None)
        /\ \A v \in Threads \ {t} : Calm(S, S', v)
        /\ S'.state[t] = "RUNNING" /\ t \notin S'.marked /\ t \notin Elems(S'.fakeLeaves)
    BY <1>0, <1>1, SyncStep
  <1>3. pc'[t] = "sync" /\ evict' # t
    BY <1>0 DEF Place
  <1>4. Place(t)'
    BY <1>2, <1>3 DEF Place
  <1>5. QED
    BY <1>0, <1>2, <1>4, StepDone

LEMMA HandoffStep ==
  ASSUME IInv, NEW t \in Threads, Handoff(t)
  PROVE  IInv'
  <1> DEFINE u == S.handoffThread[t]
             c == S.cid[t]
             z == [S EXCEPT !.handoffThread[t] = None]
             s1 == deschedule(z, t, c, "QUEUED")
             s2 == schedule(s1, u, c)
             x == wakeup(s2, u)
  <1>0. /\ SInv(S, None) /\ S \in SchedState /\ S.ok /\ Place(t) /\ pc[t] = "handoff"
        /\ evict' = evict
    BY DEF IInv, PInv, SInv, Handoff
  <1>1. Acquire(x, t)
    BY DEF Handoff
  <1>2. /\ S.state[t] = "RUNNING" /\ u # None /\ evict # t /\ t \notin S.marked
        /\ t \notin Elems(S.fakeLeaves) /\ c \notin S.arrived
    BY <1>0 DEF Place
  <1>3. /\ S.handoffThread \in [Threads -> Threads \cup {None}] /\ S.cid \in [Threads -> Cores]
        /\ S.state \in [Threads -> States] /\ S.curThread \in [Cores -> Threads \cup {None}]
        /\ S.futexWord \in [Threads -> 0..1] /\ S.scheduledThreads \in Int /\ None \notin Threads
    BY <1>0, FieldTypes
  <1>4. u \in Threads /\ c \in Cores
    BY <1>2, <1>3
  <1>5. S.state[u] = "QUEUED" /\ c \in mask[u] /\ u # t /\ S.futexWord[u] = 1 /\ S.curThread[c] = t
    BY <1>0, <1>2, <1>3, <1>4 DEF SInv, Hand, Words, Ctx, Holds
  <1>6. /\ z \in SchedState /\ z.handoffThread = [S.handoffThread EXCEPT ![t] = None]
        /\ Keeps(S, z, {"handoffThread"})
    <2>1. /\ z.handoffThread = [S.handoffThread EXCEPT ![t] = None] /\ Keeps(S, z, {"handoffThread"})
          /\ DOMAIN z = DOMAIN S /\ z = [y \in DOMAIN z |-> z[y]]
      BY <1>0 DEF SchedState, Keeps, Fields
    <2> HIDE DEF z
    <2>2. z.handoffThread \in [Threads -> Threads \cup {None}]
      BY <1>3, <2>1
    <2>3. QED
      BY <1>0, <2>1, <2>2 DEF SchedState, Keeps, Fields
  <1> HIDE DEF z, u, c
  <1>7. /\ s1 \in SchedState
        /\ s1.state = [z.state EXCEPT ![t] = "QUEUED"]
        /\ s1.curThread = [z.curThread EXCEPT ![c] = None]
        /\ s1.scheduledThreads = z.scheduledThreads - 1
        /\ s1.ok <=> z.ok /\ z.state[t] \in {"RUNNING", "OUT"} /\ z.cid[t] = c /\ z.curThread[c] = t
        /\ Keeps(z, s1, {"state", "curThread", "scheduledThreads", "ok"})
    <2>1. "QUEUED" \in States
      BY DEF States
    <2>2. QED
      BY <1>4, <1>6, <2>1, DescheduleFacts
  <1> HIDE DEF s1
  <1>8. /\ s2 \in SchedState
        /\ s2.state = [s1.state EXCEPT ![u] = "RUNNING"]
        /\ s2.cid = [s1.cid EXCEPT ![u] = c]
        /\ s2.curThread = [s1.curThread EXCEPT ![c] = u]
        /\ s2.scheduledThreads = s1.scheduledThreads + 1
        /\ s2.ok <=> s1.ok /\ s1.state[u] \in {"STARTED", "BLOCKED", "QUEUED"} /\ s1.curThread[c] = None
        /\ Keeps(s1, s2, {"state", "cid", "curThread", "scheduledThreads", "ok"})
    BY <1>4, <1>7, ScheduleFacts
  <1> HIDE DEF s2
  <1>9. /\ x \in SchedState
        /\ x.futexWord = [s2.futexWord EXCEPT ![u] = 0]
        /\ x.ok <=> s2.ok /\ s2.futexWord[u] = 1
        /\ Keeps(s2, x, {"futexWord", "ok"})
    BY <1>4, <1>8, WakeupFacts
  <1> HIDE DEF x
  <1>10. /\ z.state = S.state /\ z.cid = S.cid /\ z.curThread = S.curThread /\ (z.ok <=> S.ok)
         /\ z.scheduledThreads = S.scheduledThreads /\ s1.cid = S.cid /\ s2.futexWord = S.futexWord
         /\ x.state = s2.state /\ x.cid = s2.cid /\ x.curThread = s2.curThread
         /\ x.scheduledThreads = s2.scheduledThreads /\ x.handoffThread = z.handoffThread
         /\ x.runQueue = S.runQueue /\ x.marked = S.marked /\ x.sleepQueue = S.sleepQueue
         /\ x.fakeLeaves = S.fakeLeaves
    BY <1>6, <1>7, <1>8, <1>9 DEF Keeps, Fields
  <1>11. s1.ok
    BY <1>0, <1>2, <1>5, <1>7, <1>10 DEF c
  <1>12. s1.state[u] = "QUEUED" /\ s1.curThread[c] = None
    BY <1>3, <1>4, <1>5, <1>7, <1>10
  <1>13. x.ok
    BY <1>5, <1>8, <1>9, <1>10, <1>11, <1>12
  <1>14. /\ x.state = [S.state EXCEPT ![t] = "QUEUED", ![u] = "RUNNING"]
         /\ x.cid = [S.cid EXCEPT ![u] = c]
         /\ x.futexWord = [S.futexWord EXCEPT ![u] = 0]
    BY <1>7, <1>8, <1>9, <1>10
  <1>15. x.curThread = [S.curThread EXCEPT ![c] = u] /\ x.scheduledThreads = S.scheduledThreads
    BY <1>3, <1>4, <1>7, <1>8, <1>10
  <1>16. Keeps(S, x, {"state", "cid", "curThread", "futexWord", "scheduledThreads", "ok",
                      "runQueue", "handoffThread", "marked", "sleepQueue"})
    BY <1>6, <1>7, <1>8, <1>9 DEF Keeps, Fields
  <1>17. Gives(S, x, t, u, "QUEUED")
    BY <1>9, <1>13, <1>14, <1>15, <1>16 DEF Gives, c
  <1>18. FromHandoff(S, x, t, u) /\ StaysAwake(S, x, t)
    BY <1>2, <1>6, <1>10 DEF FromHandoff, StaysAwake, u
  <1>19. /\ SInv(x, t)
         /\ \A v \in Threads \ {t} : Calm(S, x, v)
         /\ x.state[t] = "QUEUED"
         /\ x.handoffThread[t] = None
         /\ t \notin x.marked
    BY <1>0, <1>2, <1>4, <1>5, <1>17, <1>18, GivesInv DEF c
  <1>20. Asks(x, t, t) /\ t \notin Elems(x.fakeLeaves)
    BY <1>2, <1>10, <1>19 DEF Asks
  <1>21. QED
    BY <1>0, <1>1, <1>2, <1>19, <1>20, AcquireDone

LEMMA ContextReturnStep ==
  ASSUME IInv, NEW t \in Threads, ContextReturn(t)
  PROVE  IInv'
  <1>0. /\ SInv(S, None) /\ Place(t) /\ pc \in [Threads -> PCs] /\ pc[t] = "ctx" /\ S.futexWord[t] # 1
        /\ evict' = evict /\ evict \in Threads \cup {None}
        /\ pc' = [pc EXCEPT ![t] = "run"] /\ "run" \in PCs
        /\ S' = Checked(S, S.state[t] = "RUNNING")
    BY DEF IInv, PInv, ContextReturn, Goto, PCs
  <1>1. S.state[t] = "RUNNING"
    <2>1. t # None
      BY NoneAssumption
    <2>2. S.state[t] # "QUEUED"
      BY <1>0, <2>1 DEF SInv, Words
    <2>3. QED
      BY <1>0, <2>2 DEF Place
  <1>2. SInv(S', None) /\ Keeps(S, S', {"ok"}) /\ \A u : Calm(S, S', u)
    BY <1>0, <1>1, CheckedInv
  <1>3. /\ S'.state = S.state /\ S'.marked = S.marked /\ S'.fakeLeaves = S.fakeLeaves
        /\ S'.handoffThread = S.handoffThread /\ S'.cid = S.cid /\ S'.arrived = S.arrived
    BY <1>2 DEF Keeps, Fields
  <1>4. pc'[t] = "run"
    BY <1>0
  <1>5. Place(t)'
    BY <1>0, <1>1, <1>3, <1>4 DEF Place
  <1>6. QED
    BY <1>0, <1>2, <1>5, StepDone

\* The end of finish.
LEMMA DeleteStep ==
  ASSUME NEW s, SInv(s, None), NEW t \in Threads, s.state[t] \in {"STARTED", "BLOCKED", "OUT"}
  PROVE  LET r == Delete(s, t)
         IN  /\ SInv(r, None)
             /\ \A v \in Threads \ {t} : Calm(s, r, v)
             /\ r.state[t] = "DELETED"
             /\ r.marked = s.marked /\ r.fakeLeaves = s.fakeLeaves /\ r.handoffThread = s.handoffThread
  <1> DEFINE c  == s.cid[t]
             b  == /\ s.state[t] \in {"STARTED", "OUT", "BLOCKED", "QUEUED"}
                   /\ s.state[t] = "QUEUED" => t \in Elems(s.runQueue)
             s1 == Checked(s, b)
             so == [s1 EXCEPT !.outQueue = Remove(@, t)]
             d  == deschedule(so, t, c, "BLOCKED")
             s3 == [d EXCEPT !.freeList = Append(@, c)]
             End(x) == [x EXCEPT !.state[t] = "DELETED", !.cid[t] = 0, !.futexWord[t] = 0]
             r == Delete(s, t)
  <1>0. s \in SchedState /\ s.ok /\ c \in Cores
    <2>1. s \in SchedState /\ s.ok
      BY DEF SInv
    <2>2. QED
      BY <2>1, FieldTypes
  <1>1. b
    OBVIOUS
  <1>2. /\ s.state[t] = "OUT" => r = End(s3)
        /\ s.state[t] # "OUT" => r = End(s1)
    BY DEF Delete
  <1>3. SInv(s1, None) /\ Keeps(s, s1, {"ok"}) /\ s1 \in SchedState
    BY <1>1, CheckedInv DEF SInv
  <1> HIDE DEF s1, b
  <1>4. ASSUME NEW x \in SchedState, x.ok
        PROVE  /\ End(x) \in SchedState
               /\ End(x).state = [x.state EXCEPT ![t] = "DELETED"]
               /\ End(x).cid = [x.cid EXCEPT ![t] = 0]
               /\ End(x).futexWord = [x.futexWord EXCEPT ![t] = 0]
               /\ End(x).ok
               /\ Keeps(x, End(x), {"state", "cid", "futexWord", "ok"})
    <2> DEFINE e == End(x)
    <2>1. /\ e.state = [x.state EXCEPT ![t] = "DELETED"]
          /\ e.cid = [x.cid EXCEPT ![t] = 0]
          /\ e.futexWord = [x.futexWord EXCEPT ![t] = 0]
          /\ Keeps(x, e, {"state", "cid", "futexWord"})
          /\ DOMAIN e = DOMAIN x /\ e = [y \in DOMAIN e |-> e[y]]
      BY <1>4 DEF SchedState, Keeps, Fields
    <2> HIDE DEF e
    <2>2. 0 \in Cores /\ 0 \in 0..1
      BY CoresAssumption DEF Cores
    <2>3. /\ e.state \in [Threads -> States] /\ e.cid \in [Threads -> Cores]
          /\ e.futexWord \in [Threads -> 0..1]
      BY <1>4, <2>1, <2>2, FieldTypes DEF States
    <2>4. e \in SchedState
      BY <1>4, <2>1, <2>3 DEF SchedState, Keeps, Fields
    <2>5. e.ok /\ Keeps(x, e, {"state", "cid", "futexWord", "ok"})
      BY <1>4, <2>1 DEF Keeps, Fields
    <2>6. QED
      BY <2>1, <2>4, <2>5 DEF e
  <1> HIDE DEF End
  <1>5. CASE s.state[t] # "OUT"
    <2>1. r = End(s1) /\ s1.ok
      BY <1>2, <1>3, <1>5 DEF SInv
    <2> HIDE DEF r
    <2>2. /\ r \in SchedState
          /\ r.state = [s1.state EXCEPT ![t] = "DELETED"]
          /\ r.cid = [s1.cid EXCEPT ![t] = 0]
          /\ r.futexWord = [s1.futexWord EXCEPT ![t] = 0]
          /\ r.ok
          /\ Keeps(s1, r, {"state", "cid", "futexWord", "ok"})
      BY <1>3, <1>4, <2>1
    <2>3. /\ s1.state = s.state /\ s1.cid = s.cid /\ s1.futexWord = s.futexWord
          /\ Keeps(s, r, {"state", "cid", "futexWord", "ok"})
      BY <1>3, <2>2 DEF Keeps, Fields
    <2>4. /\ s.state[t] \in {"STARTED", "BLOCKED", "DELETED"} /\ r.state[t] = "DELETED"
          /\ \A v \in Threads \ {t} : /\ r.state[v] = s.state[v] /\ r.cid[v] = s.cid[v]
                                      /\ r.futexWord[v] = s.futexWord[v]
      BY <1>0, <1>5, <2>2, <2>3, FieldTypes
    <2>5. SInv(r, None) /\ \A v \in Threads \ {t} : Calm(s, r, v)
      BY <2>2, <2>3, <2>4, QuietInv
    <2>6. r.marked = s.marked /\ r.fakeLeaves = s.fakeLeaves /\ r.handoffThread = s.handoffThread
      BY <2>3 DEF Keeps, Fields
    <2>7. QED
      BY <2>4, <2>5, <2>6 DEF r
  <1>6. CASE s.state[t] = "OUT"
    <2>0. /\ s1.outQueue = s.outQueue /\ s.outQueue \in Seq(Threads) /\ NoRepeats(s.outQueue)
          /\ s1.state = s.state /\ s1.cid = s.cid /\ s1.curThread = s.curThread /\ s1.ok
          /\ s1.scheduledThreads = s.scheduledThreads /\ s1.freeList = s.freeList
      BY <1>0, <1>3, FieldTypes DEF Keeps, Fields, SInv, Queues
    <2>1. Remove(s.outQueue, t) \in Seq(Threads)
      BY <2>0, RemoveFacts DEF Remove
    <2>2. so \in SchedState /\ so.outQueue = Remove(s.outQueue, t) /\ Keeps(s1, so, {"outQueue"})
      BY <1>3, <2>0, <2>1 DEF SchedState, Keeps, Fields
    <2> HIDE DEF so
    <2>3. /\ d \in SchedState
          /\ d.state = [so.state EXCEPT ![t] = "BLOCKED"]
          /\ d.curThread = [so.curThread EXCEPT ![c] = None]
          /\ d.scheduledThreads = so.scheduledThreads - 1
          /\ d.ok <=> so.ok /\ so.state[t] \in {"RUNNING", "OUT"} /\ so.cid[t] = c /\ so.curThread[c] = t
          /\ Keeps(so, d, {"state", "curThread", "scheduledThreads", "ok"})
      <3>1. "BLOCKED" \in States
        BY DEF States
      <3>2. QED
        BY ONLY <1>0, <2>2, <3>1, t \in Threads, DescheduleFacts
    <2> HIDE DEF d
    <2>4. d.ok
      <3>1. so.state = s.state /\ so.cid = s.cid /\ so.curThread = s.curThread /\ so.ok
        BY <2>0, <2>2 DEF Keeps, Fields
      <3>2. s.curThread[c] = t
        BY <1>0, <1>6 DEF SInv, Ctx, Holds
      <3>3. QED
        BY <1>6, <2>3, <3>1, <3>2
    <2>5. d.freeList = s.freeList /\ Append(s.freeList, c) \in Seq(Cores)
      BY <1>0, <2>0, <2>2, <2>3, FieldTypes, AppendFacts DEF Keeps, Fields
    <2>6. s3 \in SchedState /\ s3.freeList = Append(s.freeList, c) /\ Keeps(d, s3, {"freeList"})
      BY <2>3, <2>5 DEF SchedState, Keeps, Fields
    <2> HIDE DEF s3
    <2>7. s3.ok /\ r = End(s3)
      BY <1>2, <1>6, <2>4, <2>6 DEF Keeps, Fields
    <2> HIDE DEF r
    <2>8. /\ r \in SchedState
          /\ r.state = [s3.state EXCEPT ![t] = "DELETED"]
          /\ r.cid = [s3.cid EXCEPT ![t] = 0]
          /\ r.futexWord = [s3.futexWord EXCEPT ![t] = 0]
          /\ r.ok
          /\ Keeps(s3, r, {"state", "cid", "futexWord", "ok"})
      BY <1>4, <2>6, <2>7
    <2>9. /\ s3.state = d.state /\ so.state = s.state /\ s3.cid = s.cid /\ s3.futexWord = s.futexWord
          /\ r.curThread = d.curThread /\ so.curThread = s.curThread
          /\ r.freeList = s3.freeList /\ r.outQueue = so.outQueue
          /\ r.scheduledThreads = d.scheduledThreads /\ so.scheduledThreads = s.scheduledThreads
      <3>1. s1.futexWord = s.futexWord
        BY <1>3 DEF Keeps, Fields
      <3>2. QED
        BY <2>0, <2>2, <2>3, <2>6, <2>8, <3>1 DEF Keeps, Fields
    <2>10. r.state = [s.state EXCEPT ![t] = "DELETED"]
      BY <1>0, <2>3, <2>8, <2>9, FieldTypes
    <2>11. /\ r.cid = [s.cid EXCEPT ![t] = 0]
           /\ r.futexWord = [s.futexWord EXCEPT ![t] = 0]
           /\ r.curThread = [s.curThread EXCEPT ![c] = None]
           /\ r.freeList = Append(s.freeList, c)
           /\ r.outQueue = Remove(s.outQueue, t)
           /\ r.scheduledThreads = s.scheduledThreads - 1
      BY <2>2, <2>3, <2>6, <2>8, <2>9
    <2>12. Keeps(s, r, {"state", "cid", "futexWord", "curThread", "freeList", "outQueue",
                        "scheduledThreads", "ok"})
      BY <1>3, <2>2, <2>3, <2>6, <2>8 DEF Keeps, Fields
    <2>13. SInv(r, None) /\ \A v \in Threads \ {t} : Calm(s, r, v)
      BY <1>6, <2>8, <2>10, <2>11, <2>12, FreeInv
    <2>14. r.marked = s.marked /\ r.fakeLeaves = s.fakeLeaves /\ r.handoffThread = s.handoffThread
      BY <2>12 DEF Keeps, Fields
    <2>15. r.state[t] = "DELETED"
      BY <1>0, <2>10, FieldTypes
    <2>16. QED
      BY <2>13, <2>14, <2>15 DEF r
  <1>7. QED
    BY <1>5, <1>6

LEMMA DeleteDone ==
  ASSUME IInv, NEW t \in Threads, S.state[t] \in {"STARTED", "BLOCKED", "OUT"},
         t \notin S.marked, t \notin Elems(S.fakeLeaves), S.handoffThread[t] = None, evict # t,
         S' = Delete(S, t), Goto(t, "none"), evict' = evict
  PROVE  IInv'
  <1>1. /\ SInv(S', None)
        /\ \A v \in Threads \ {t} : Calm(S, S', v)
        /\ S'.state[t] = "DELETED"
        /\ S'.marked = S.marked /\ S'.fakeLeaves = S.fakeLeaves /\ S'.handoffThread = S.handoffThread
    BY DeleteStep DEF IInv
  <1>2. pc' = [pc EXCEPT ![t] = "none"] /\ pc'[t] = "none" /\ "none" \in PCs /\ evict \in Threads \cup {None}
    BY DEF Goto, IInv, PInv, PCs
  <1>3. Place(t)'
    BY <1>1, <1>2 DEF Place
  <1>4. QED
    BY <1>1, <1>2, <1>3, StepDone

LEMMA FinishStep ==
  ASSUME IInv, ~FakeLeaveRace, NEW t \in Threads, finish(t)
  PROVE  IInv'
  <1>0. /\ SInv(S, None) /\ S \in SchedState /\ S.ok /\ Place(t) /\ pc \in [Threads -> PCs]
        /\ pc[t] \in {"out", "reaped"} /\ S.state[t] # "SLEEPING"
        /\ evict # t /\ evict' = evict /\ evict \in Threads \cup {None}
    <2>1. \/ pc[t] = "out" /\ S.state[t] # "SLEEPING" /\ evict # t
          \/ pc[t] = "reaped"
      BY DEF finish
    <2>2. QED
      BY <2>1 DEF IInv, PInv, SInv, finish, Place
  <1>1. t \notin S.marked /\ S.handoffThread[t] = None /\ (S.state[t] = "RUNNING" => S.cid[t] \notin S.arrived)
    BY <1>0 DEF Place
  <1>2. CASE S.state[t] = "RUNNING"
    <2>0. S' = [S EXCEPT !.fakeLeaves = Remove(@, t)] /\ Goto(t, "finleave")
      BY <1>2 DEF finish
    <2>1. NoRepeats(S.fakeLeaves) /\ S.fakeLeaves \in Seq(Threads)
      BY <1>0, FieldTypes DEF SInv, Queues
    <2>2. /\ Remove(S.fakeLeaves, t) \in Seq(Threads) /\ NoRepeats(Remove(S.fakeLeaves, t))
          /\ Elems(Remove(S.fakeLeaves, t)) = Elems(S.fakeLeaves) \ {t}
      BY <2>1, RemoveFacts DEF Remove
    <2>3. S' \in SchedState /\ S'.fakeLeaves = Remove(S.fakeLeaves, t) /\ Keeps(S, S', {"fakeLeaves"})
      BY <1>0, <2>0, <2>2 DEF SchedState, Keeps, Fields
    <2>4. /\ S'.ok /\ Keeps(S, S', {"fakeLeaves", "ok"}) /\ S'.state = S.state /\ S'.marked = S.marked
          /\ S'.cid = S.cid /\ S'.arrived = S.arrived /\ S'.handoffThread = S.handoffThread
      BY <1>0, <2>3 DEF Keeps, Fields
    <2>5. SInv(S', None) /\ \A v \in Threads \ {t} : Calm(S, S', v)
      BY <1>0, <2>2, <2>3, <2>4, FakeInv
    <2>6. pc' = [pc EXCEPT ![t] = "finleave"] /\ pc'[t] = "finleave" /\ "finleave" \in PCs
      BY <1>0, <2>0 DEF Goto, PCs
    <2>7. t \notin Elems(S'.fakeLeaves)
      BY <2>2, <2>3
    <2>8. Place(t)'
      BY <1>0, <1>1, <1>2, <2>4, <2>6, <2>7 DEF Place
    <2>9. QED
      BY <1>0, <2>5, <2>6, <2>8, StepDone
  <1>3. CASE S.state[t] # "RUNNING"
    <2>1. S' = Delete(S, t) /\ Goto(t, "none")
      BY <1>3 DEF finish
    <2>2. S.state[t] \in {"STARTED", "BLOCKED", "OUT"}
      BY <1>0, <1>3 DEF Place
    <2>3. t \notin Elems(S.fakeLeaves)
      BY <1>0, <1>3 DEF SInv, Queues
    <2>4. QED
      BY <1>0, <1>1, <2>1, <2>2, <2>3, DeleteDone
  <1>4. QED
    BY <1>2, <1>3

LEMMA FinishDeleteStep ==
  ASSUME IInv, NEW t \in Threads, FinishDelete(t)
  PROVE  IInv'
  <1>1. Place(t) /\ pc[t] = "finish" /\ S' = Delete(S, t) /\ Goto(t, "none") /\ evict' = evict
    BY DEF FinishDelete, IInv, PInv
  <1>2. /\ S.state[t] \in {"STARTED", "BLOCKED", "OUT"} /\ evict # t
        /\ t \notin S.marked /\ t \notin Elems(S.fakeLeaves) /\ S.handoffThread[t] = None
    BY <1>1 DEF Place
  <1>3. QED
    BY <1>1, <1>2, DeleteDone

LEMMA EndFakeLeaveStep ==
  ASSUME IInv, EndFakeLeave
  PROVE  IInv'
  <1>a. PICK t : t = Head(S.fakeLeaves)
    OBVIOUS
  <1>0. /\ SInv(S, None) /\ S \in SchedState /\ S.ok /\ pc \in [Threads -> PCs]
        /\ S.fakeLeaves # <<>> /\ evict' = t /\ evict = None /\ pc' = pc
        /\ S' = [S EXCEPT !.fakeLeaves = Tail(@)]
        /\ \A v \in Threads : pc[v] \notin {"reap", "reaped"}
    BY <1>a DEF IInv, PInv, SInv, EndFakeLeave
  <1>1. NoRepeats(S.fakeLeaves) /\ S.fakeLeaves \in Seq(Threads) /\ Elems(S.fakeLeaves) \subseteq Threads
    BY <1>0, FieldTypes, ElemsTypes DEF SInv, Queues
  <1>2. /\ Tail(S.fakeLeaves) \in Seq(Threads) /\ NoRepeats(Tail(S.fakeLeaves))
        /\ t \in Elems(S.fakeLeaves) /\ Elems(Tail(S.fakeLeaves)) = Elems(S.fakeLeaves) \ {t}
    BY <1>a, <1>0, <1>1, TailFacts
  <1>3. S' \in SchedState /\ S'.fakeLeaves = Tail(S.fakeLeaves) /\ Keeps(S, S', {"fakeLeaves"})
    BY <1>0, <1>2 DEF SchedState, Keeps, Fields
  <1>4. t \in Threads /\ S.state[t] = "RUNNING" /\ t # None
    BY <1>0, <1>1, <1>2, NoneAssumption DEF SInv, Queues
  <1>5. /\ S'.ok /\ Keeps(S, S', {"fakeLeaves", "ok"}) /\ S'.state = S.state /\ S'.marked = S.marked
        /\ S'.cid = S.cid /\ S'.arrived = S.arrived /\ S'.handoffThread = S.handoffThread
    BY <1>0, <1>3 DEF Keeps, Fields
  <1>6. SInv(S', None) /\ \A v \in Threads \ {t} : Calm(S, S', v)
    BY <1>0, <1>2, <1>3, <1>4, <1>5, FakeInv
  <1>7. Place(t) /\ pc[t] \in {"out", "dead"} /\ pc'[t] = pc[t]
    <2>1. Place(t)
      BY <1>4 DEF IInv, PInv
    <2>2. QED
      BY <1>0, <1>2, <1>4, <2>1 DEF Place
  <1>8. t \notin Elems(S'.fakeLeaves)
    BY <1>2, <1>3
  <1>9. Place(t)'
    BY <1>0, <1>4, <1>5, <1>7, <1>8 DEF Place, Faking
  <1>10. pc' = [pc EXCEPT ![t] = pc[t]] /\ pc[t] \in PCs
    BY <1>0, <1>4
  <1>11. \A v \in Threads \ {t} : evict' = v <=> evict = v
    BY <1>0, NoneAssumption
  <1>12. QED
    BY <1>0, <1>4, <1>6, <1>9, <1>10, <1>11, StepDone

LEMMA EvictLeaveStep ==
  ASSUME IInv, EvictLeave
  PROVE  IInv'
  <1>a. PICK t : t = evict
    OBVIOUS
  <1>1. /\ t \in Threads /\ evict' = None /\ pc' = pc /\ S' \in leave(S, t)
        /\ pc \in [Threads -> PCs] /\ Place(t) /\ evict = t
    BY <1>a DEF IInv, PInv, EvictLeave
  <1>3. pc[t] \in {"out", "dead"}
    BY <1>1 DEF Place
  <1>2. pc' = [pc EXCEPT ![t] = pc[t]] /\ pc[t] \in PCs
    BY <1>1
  <1>4. \A v \in Threads \ {t} : evict' = v <=> evict = v
    BY <1>1, NoneAssumption
  <1>5. evict' # t /\ evict' \in Threads \cup {None}
    BY <1>1, NoneAssumption
  <1>6. /\ pc[t] \in {"markNano", "markTimed"} => pc[t] \in {"nano", "timed"}
        /\ pc[t] \notin {"markNano", "markTimed"} => pc[t] \in {"out", "dead", "finish"}
    BY <1>3
  <1>7. QED
    BY <1>1, <1>2, <1>4, <1>5, <1>6, LeaveDone

LEMMA SleepLeaveStep ==
  ASSUME IInv, NEW t \in Threads, SleepLeave(t)
  PROVE  IInv'
  <1> DEFINE l == IF pc[t] = "markNano" THEN "nano" ELSE "timed"
  <1>1. /\ S' \in leave(S, t) /\ pc[t] \in {"markNano", "markTimed"} /\ Place(t)
        /\ pc' = [pc EXCEPT ![t] = l] /\ evict' = evict /\ evict \in Threads \cup {None}
    BY DEF IInv, PInv, SleepLeave, Goto
  <1>2. l \in PCs /\ l \in {"nano", "timed"}
    BY DEF PCs
  <1> HIDE DEF l
  <1>3. evict # t
    BY <1>1 DEF Place
  <1>4. QED
    BY <1>1, <1>2, <1>3, LeaveDone

LEMMA FinishLeaveStep ==
  ASSUME IInv, NEW t \in Threads, FinishLeave(t)
  PROVE  IInv'
  <1>1. /\ S' \in leave(S, t) /\ pc[t] = "finleave" /\ Place(t)
        /\ pc' = [pc EXCEPT ![t] = "finish"] /\ evict' = evict /\ evict \in Threads \cup {None}
        /\ "finish" \in PCs
    BY DEF IInv, PInv, FinishLeave, Goto, PCs
  <1>2. evict # t
    BY <1>1 DEF Place
  <1>3. QED
    BY <1>1, <1>2, LeaveDone

LEMMA DriveForwardStep ==
  ASSUME IInv, DriveForward
  PROVE  IInv'
  <1>0. /\ SInv(S, None) /\ S \in SchedState /\ pc' = pc /\ evict' = evict /\ S' \in callback(S)
        /\ S.scheduledThreads = Len(S.outQueue)
    BY DEF IInv, SInv, DriveForward
  <1>1. \A t \in Threads : S.state[t] # "RUNNING"
    BY <1>0, AllOut DEF SInv
  <1>2. S.marked = {} /\ \A v \in Threads : S.handoffThread[v] = None
    BY <1>0, <1>1, FieldTypes DEF SInv, Words, Hand
  <1>3. S.arrived = {}
    <2>1. S.curThread \in [Cores -> Threads \cup {None}] /\ S.arrived \subseteq Cores
      BY <1>0, FieldTypes
    <2>2. \A c \in Cores : c \notin S.members
      BY <1>0, <1>1, <2>1 DEF SInv, Bar
    <2>3. QED
      BY <1>0, <2>1, <2>2 DEF SInv, Bar
  <1>4. PhaseEnds(S, S')
    BY <1>0, <1>2, <1>3, CallbackStep
  <1>5. \A u \in Threads : Calm(S, S', u)
    BY <1>1, <1>2, <1>3, <1>4 DEF PhaseEnds, Calm
  <1>6. ASSUME NEW u \in Threads
        PROVE  Place(u)'
    BY <1>0, <1>5, CalmPlace DEF IInv, PInv
  <1>7. PInv'
    BY <1>0, <1>6 DEF IInv, PInv
  <1>8. SInv(S', None)
    BY <1>4 DEF PhaseEnds
  <1>9. QED
    BY <1>7, <1>8 DEF IInv

-----------------------------------------------------------------------------
(* The inductive invariant *)

LEMMA InitInv ==
  ASSUME Init
  PROVE  IInv
  <1> DEFINE fl == [i \in 1..numCores |-> i - 1]
             e == <<>>
  <1>1. /\ fl \in Seq(Cores) /\ DOMAIN fl = 1..numCores /\ Elems(fl) = Cores /\ NoRepeats(fl)
    <2>1. numCores \in Nat /\ \A i \in 1..numCores : i - 1 \in Cores
      BY CoresAssumption DEF Cores
    <2>2. fl \in Seq(Cores) /\ DOMAIN fl = 1..numCores
      BY <2>1, SeqDef
    <2>3. NoRepeats(fl)
      BY <2>1 DEF NoRepeats
    <2>4. \A c \in Cores : c + 1 \in 1..numCores /\ fl[c + 1] = c
      BY <2>1 DEF Cores
    <2>5. \A i \in DOMAIN fl : fl[i] \in Cores
      BY <2>1
    <2>6. QED
      BY <2>2, <2>3, <2>4, <2>5 DEF Elems
  <1> HIDE DEF fl
  <1>2. e \in Seq(Threads) /\ Elems(e) = {} /\ NoRepeats(e) /\ DOMAIN e = {}
    <2>1. e \in Seq(Threads) /\ DOMAIN e = {}
      OBVIOUS
    <2>2. QED
      BY <2>1 DEF Elems, NoRepeats
  <1>3. /\ 0 \in Cores /\ 0 \in 0..1 /\ 0 \in 0..schedQuantum-1 /\ 0 \in 0..MaxSleep
    BY CoresAssumption, QuantumAssumption, SleepAssumption DEF Cores
  <1>4. /\ S.state = [t \in Threads |-> "DELETED"] /\ S.cid = [t \in Threads |-> 0]
        /\ S.handoffThread = [t \in Threads |-> None] /\ S.futexWord = [t \in Threads |-> 0]
        /\ S.marked = {} /\ S.left = [t \in Threads |-> 0] /\ S.curThread = [c \in Cores |-> None]
        /\ S.freeList = fl /\ S.runQueue = e /\ S.outQueue = e /\ S.sleepQueue = e
        /\ S.fakeLeaves = e /\ S.scheduledThreads = 0 /\ S.members = {} /\ S.arrived = {} /\ S.ok
        /\ pc = [t \in Threads |-> "none"] /\ evict = None
    BY DEF Init, fl
  <1> HIDE DEF e
  <1>5. S \in SchedState
    <2>1. S = [state |-> [t \in Threads |-> "DELETED"], cid |-> [t \in Threads |-> 0],
               handoffThread |-> [t \in Threads |-> None], futexWord |-> [t \in Threads |-> 0],
               marked |-> {}, left |-> [t \in Threads |-> 0], curThread |-> [c \in Cores |-> None],
               freeList |-> fl, runQueue |-> e, outQueue |-> e, sleepQueue |-> e, fakeLeaves |-> e,
               scheduledThreads |-> 0, phase |-> 0, members |-> {}, arrived |-> {}, ok |-> TRUE]
      BY DEF Init, fl, e
    <2>2. QED
      BY <1>1, <1>2, <1>3, <2>1 DEF SchedState, States
  <1>6. Ctx(S) /\ Free(S)
    BY <1>1, <1>4, NoneAssumption DEF Ctx, Free, Holds
  <1>7. Count(S)
    <2>1. {t \in Threads : Holds(S, t)} = {}
      BY <1>4 DEF Holds
    <2>2. QED
      BY <1>4, <2>1, FS_EmptySet DEF Count
  <1>8. Queues(S, None)
    BY <1>2, <1>4 DEF Queues
  <1>9. Bar(S) /\ InMask(S) /\ Hand(S, None) /\ Idle(S)
    BY <1>2, <1>4 DEF Bar, InMask, Holds, Hand, Idle
  <1>10. Sleep(S) /\ Words(S, None)
    BY <1>2, <1>3, <1>4 DEF Sleep, Words
  <1>11. PInv
    <2>1. pc \in [Threads -> PCs] /\ evict \in Threads \cup {None}
      BY <1>4 DEF PCs
    <2>2. \A t \in Threads : Place(t)
      BY <1>2, <1>4, NoneAssumption DEF Place
    <2>3. QED
      BY <2>1, <2>2 DEF PInv
  <1>12. QED
    BY <1>4, <1>5, <1>6, <1>7, <1>8, <1>9, <1>10, <1>11 DEF IInv, SInv

LEMMA NextInv ==
  ASSUME IInv, ~FakeLeaveRace, [Next]_vars
  PROVE  IInv'
  <1>1. CASE UNCHANGED vars
    BY <1>1 DEF vars, IInv, PInv, Place, Faking
  <1>2. ASSUME NEW t \in Threads, start(t)
        PROVE  IInv'
    BY <1>2, StartStep
  <1>3. ASSUME NEW t \in Threads, join(t)
        PROVE  IInv'
    BY <1>3, JoinStep
  <1>4. ASSUME NEW t \in Threads, syscallLeave(t)
        PROVE  IInv'
    BY <1>4, SyscallLeaveStep
  <1>5. ASSUME NEW t \in Threads, markForSleep(t)
        PROVE  IInv'
    BY <1>5, MarkStep
  <1>6. ASSUME NEW t \in Threads, SleepLeave(t)
        PROVE  IInv'
    BY <1>6, SleepLeaveStep
  <1>7. ASSUME NEW t \in Threads,
               \/ SleepReturn(t) \/ SleepInterrupted(t) \/ TimedReturn(t) \/ SyncReturn(t)
               \/ Die(t) \/ processCleanup(t)
        PROVE  IInv'
    BY <1>7, MoveStep
  <1>8. ASSUME NEW t \in Threads, notifySleepEnd(t)
        PROVE  IInv'
    BY <1>8, NotifyStep
  <1>9. ASSUME NEW t \in Threads, sync(t)
        PROVE  IInv'
    BY <1>9, SyncActionStep
  <1>10. ASSUME NEW t \in Threads, Handoff(t)
         PROVE  IInv'
    BY <1>10, HandoffStep
  <1>11. ASSUME NEW t \in Threads, ContextReturn(t)
         PROVE  IInv'
    BY <1>11, ContextReturnStep
  <1>12. ASSUME NEW t \in Threads, finish(t)
         PROVE  IInv'
    BY <1>12, FinishStep
  <1>13. ASSUME NEW t \in Threads, FinishLeave(t)
         PROVE  IInv'
    BY <1>13, FinishLeaveStep
  <1>14. ASSUME NEW t \in Threads, FinishDelete(t)
         PROVE  IInv'
    BY <1>14, FinishDeleteStep
  <1>15. CASE EndFakeLeave
    BY <1>15, EndFakeLeaveStep
  <1>16. CASE EvictLeave
    BY <1>16, EvictLeaveStep
  <1>17. CASE DriveForward
    BY <1>17, DriveForwardStep
  <1>18. QED
    BY <1>1, <1>2, <1>3, <1>4, <1>5, <1>6, <1>7, <1>8, <1>9, <1>10, <1>11, <1>12, <1>13, <1>14,
       <1>15, <1>16, <1>17 DEF Next

\* The scheduler's record and the places of the threads in its code fit each other
\* after every lock section, as long as no system call returns between the two
\* lock sections in which the watchdog ends its fake leave.
THEOREM SchedulerInvariant ==
  ASSUME ~FakeLeaveRace
  PROVE  Spec => []IInv
  <1>1. Init => IInv
    BY InitInv
  <1>2. IInv /\ [Next]_vars => IInv'
    BY NextInv
  <1>3. QED
    BY <1>1, <1>2, PTL DEF Spec

\* Every part of the scheduler's state keeps its type, and no more threads hold
\* contexts than there are.
THEOREM SchedulerTypeOK ==
  ASSUME ~FakeLeaveRace
  PROVE  Spec => []TypeOK
  <1>1. IInv => TypeOK
    <2>1. SUFFICES ASSUME IInv
                   PROVE  TypeOK
      OBVIOUS
    <2>2. S \in SchedState /\ Ctx(S) /\ Count(S) /\ Bar(S) /\ Words(S, None)
      BY <2>1 DEF IInv, SInv
    <2>3. S.scheduledThreads \in 0..numCores
      BY <2>2, HoldingBound
    <2>4. S.left \in [Threads -> 0..MaxSleep]
      <3>1. S.left \in [Threads -> Int]
        BY <2>2, FieldTypes
      <3>2. QED
        BY <2>2, <3>1 DEF Words
    <2>5. QED
      BY <2>1, <2>2, <2>3, <2>4 DEF TypeOK, IInv, PInv, Bar
  <1>2. QED
    BY <1>1, SchedulerInvariant, PTL

LEMMA Agree ==
  ASSUME IInv
  PROVE  StructuresAgree
  <1>0. /\ S \in SchedState /\ Ctx(S) /\ Free(S) /\ Count(S) /\ Queues(S, None) /\ Bar(S)
        /\ InMask(S) /\ Hand(S, None)
    BY DEF IInv, SInv
  <1>1. /\ S.state \in [Threads -> States] /\ S.cid \in [Threads -> Cores]
        /\ S.handoffThread \in [Threads -> Threads \cup {None}]
        /\ S.curThread \in [Cores -> Threads \cup {None}] /\ S.members \subseteq Cores
    BY <1>0, FieldTypes
  <1>2. ContextsExact
    <2>1. \A t \in Threads, c \in Cores :
              S.curThread[c] = t <=> t \in In({"RUNNING", "OUT"}) /\ S.cid[t] = c
      BY <1>0 DEF Ctx, Holds, In
    <2>2. Elems(S.freeList) = {c \in Cores : S.curThread[c] = None}
      BY <1>0, ElemsTypes DEF Free
    <2>3. S.scheduledThreads = Cardinality(In({"RUNNING", "OUT"}))
      BY <1>0 DEF Count, Holds, In
    <2>4. QED
      BY <1>0, <2>1, <2>2, <2>3 DEF ContextsExact, Free
  <1>3. QueuesExact
    <2> DEFINE targets == {S.handoffThread[v] : v \in Threads} \ {None}
    <2>1. \A q \in {S.runQueue, S.outQueue, S.sleepQueue, S.fakeLeaves} : NoRepeats(q)
      BY <1>0 DEF Queues
    <2>2. Elems(S.outQueue) = In({"OUT"}) /\ Elems(S.sleepQueue) = In({"SLEEPING"})
      BY <1>0, ElemsTypes DEF Queues, In
    <2>3. targets \subseteq In({"QUEUED"})
      BY <1>0, <1>1 DEF Hand, In
    <2>4. Elems(S.runQueue) = In({"QUEUED"}) \ targets
      <3>1. \A t \in Threads : t \in targets <=> \E v \in Threads : S.handoffThread[v] = t
        BY NoneAssumption
      <3>2. \A t \in Threads : t \in Elems(S.runQueue) <=> S.state[t] = "QUEUED" /\ t \notin targets
        BY <1>0, <3>1, NoneAssumption DEF Queues
      <3>3. QED
        BY <1>0, <3>2, ElemsTypes DEF In
    <2>5. \A u, v \in Threads : u # v /\ S.handoffThread[u] = S.handoffThread[v]
                                    => S.handoffThread[u] = None
      BY <1>0 DEF Hand
    <2>6. QED
      BY <2>1, <2>2, <2>3, <2>4, <2>5 DEF QueuesExact
  <1>4. BarrierMembers
    <2>1. ASSUME NEW c \in S.members
          PROVE  \E t \in In({"RUNNING"}) : c = S.cid[t]
      <3>1. c \in Cores /\ S.curThread[c] \in Threads /\ S.state[S.curThread[c]] = "RUNNING"
        BY <1>0, <1>1, <2>1 DEF Bar
      <3>2. QED
        BY <1>0, <3>1 DEF Ctx, In
    <2>2. ASSUME NEW t \in In({"RUNNING"})
          PROVE  S.cid[t] \in S.members
      <3>1. t \in Threads /\ S.state[t] = "RUNNING" /\ S.cid[t] \in Cores
        BY <1>1 DEF In
      <3>2. S.curThread[S.cid[t]] = t
        BY <1>0, <3>1 DEF Ctx, Holds
      <3>3. QED
        BY <1>0, <3>1, <3>2, NoneAssumption DEF Bar
    <2>3. QED
      BY <2>1, <2>2 DEF BarrierMembers
  <1>5. RunsInMask
    BY <1>0 DEF RunsInMask, InMask, Holds, In
  <1>6. HandoffPending
    <2>1. \A v \in Threads : Place(v)
      BY DEF IInv, PInv
    <2>2. QED
      BY <1>0, <2>1 DEF HandoffPending, Hand, Place
  <1>7. QED
    BY <1>2, <1>3, <1>4, <1>5, <1>6 DEF StructuresAgree

\* The scheduler's views of a thread (state, context, queue, free list, barrier
\* membership, pending handoffs, masks) agree after every lock section.
THEOREM SchedulerStructuresAgree ==
  ASSUME ~FakeLeaveRace
  PROVE  Spec => []StructuresAgree
  <1>1. IInv => StructuresAgree
    BY Agree
  <1>2. QED
    BY <1>1, SchedulerInvariant, PTL

\* schedTick's NOTE: while a thread is queued, every context of its mask runs a
\* thread, so that taking contexts from running threads loses none.
THEOREM SchedulerNoIdleWhileQueued ==
  ASSUME ~FakeLeaveRace
  PROVE  Spec => []NoIdleWhileQueued
  <1>1. IInv => NoIdleWhileQueued
    BY DEF IInv, SInv, Idle, NoIdleWhileQueued
  <1>2. QED
    BY <1>1, SchedulerInvariant, PTL

\* callback may stop at the first sleeper that is not due: the queue is in order of
\* deadline and nobody in it is overdue.
THEOREM SchedulerSleepersOnTime ==
  ASSUME ~FakeLeaveRace
  PROVE  Spec => []SleepersOnTime
  <1>1. IInv => SleepersOnTime
    BY DEF IInv, SInv, Sleep, SleepersOnTime
  <1>2. QED
    BY <1>1, SchedulerInvariant, PTL

\* No assertion of the scheduler or of the barrier fails and no wakeup panics.
THEOREM SchedulerNoAssertionFails ==
  ASSUME ~FakeLeaveRace
  PROVE  Spec => []NoAssertionFails
  <1>1. IInv => NoAssertionFails
    BY DEF IInv, SInv, NoAssertionFails
  <1>2. QED
    BY <1>1, SchedulerInvariant, PTL

-----------------------------------------------------------------------------
(* The order of the run queue *)

\* No thread of q that r keeps is overtaken by one that r does not.
Fair(q, r) ==
    \A i, j \in DOMAIN q :
        i < j /\ mask[q[j]] \subseteq mask[q[i]] /\ q[i] \in Elems(r) => q[j] \in Elems(r)

HasQueue(s) == "runQueue" \in DOMAIN s

\* r has the run queue of s.
Same(s, r) == HasQueue(r) /\ r.runQueue = s.runQueue

LEMMA FairAll ==
  ASSUME NEW q, NEW r, Elems(q) \subseteq Elems(r)
  PROVE  Fair(q, r)
  BY DEF Fair, Elems

LEMMA SameMoves ==
  ASSUME NEW s, HasQueue(s)
  PROVE  /\ \A b : Same(s, Checked(s, b))
         /\ \A t, c : Same(s, schedule(s, t, c))
         /\ \A t, c, x : Same(s, deschedule(s, t, c, x))
         /\ \A t : Same(s, waitForContext(s, t)) /\ Same(s, wakeup(s, t))
         /\ \A c : Same(s, Claim(s, c)) /\ Same(s, barJoin(s, c))
         /\ Same(s, PassPhase(s)) /\ Same(s, WakeSleepers(s))
  <1>1. \A b : Same(s, Checked(s, b))
    BY DEF Same, HasQueue, Checked
  <1>2. \A t, c : Same(s, schedule(s, t, c))
    BY DEF Same, HasQueue, Checked, schedule
  <1>3. ASSUME NEW x, HasQueue(x)
        PROVE  \A t, c, y : Same(x, deschedule(x, t, c, y))
    BY <1>3 DEF Same, HasQueue, Checked, deschedule
  <1>4. \A t : Same(s, waitForContext(s, t)) /\ Same(s, wakeup(s, t))
    BY DEF Same, HasQueue, Checked, waitForContext, wakeup
  <1>5. \A c : Same(s, barJoin(s, c))
    BY DEF Same, HasQueue, Checked, barJoin
  <1>6. Same(s, PassPhase(s))
    BY DEF Same, HasQueue, PassPhase
  <1>7. Same(s, WakeSleepers(s))
    BY DEF Same, HasQueue, Checked, WakeSleepers
  <1>8. ASSUME NEW c
        PROVE  Same(s, Claim(s, c))
    <2> DEFINE o == s.curThread[c]
               z == [s EXCEPT !.outQueue = Remove(@, o)]
               f == [s EXCEPT !.freeList = Remove(@, c)]
    <2>1. Same(s, z) /\ Same(s, f)
      BY DEF Same, HasQueue
    <2>2. Claim(s, c) = IF o = None THEN f ELSE deschedule(z, o, c, "BLOCKED")
      BY DEF Claim
    <2> HIDE DEF z, f
    <2>3. Same(z, deschedule(z, o, c, "BLOCKED"))
      BY <1>3, <2>1 DEF Same
    <2>4. QED
      BY <2>1, <2>2, <2>3 DEF Same
  <1>9. QED
    BY <1>1, <1>2, <1>3, <1>4, <1>5, <1>6, <1>7, <1>8

\* schedTick passes a queued thread over only if those before it took every
\* context of its mask.
LEMMA FairTick ==
  ASSUME NEW s, HasQueue(s), s.runQueue \in Seq(Threads), NoRepeats(s.runQueue),
         NEW r \in schedTick(s)
  PROVE  Fair(s.runQueue, r.runQueue)
  <1> DEFINE q == s.runQueue
  <1>1. PICK f \in Assignments(s) :
           r = Checked([s EXCEPT !.handoffThread =
                           [v \in Threads |-> IF \E t \in DOMAIN f : s.curThread[f[t]] = v
                                              THEN CHOOSE t \in DOMAIN f : s.curThread[f[t]] = v
                                              ELSE @[v]],
                               !.runQueue = Without(@, DOMAIN f)],
                      \A t \in DOMAIN f : s.curThread[f[t]] # None)
    BY DEF schedTick
  <1>2. r.runQueue = Without(q, DOMAIN f)
    BY <1>1 DEF Checked, HasQueue
  <1>3. Elems(r.runQueue) = Elems(q) \ DOMAIN f
    BY <1>2, WithoutFacts
  <1>4. /\ \A t \in DOMAIN f : f[t] \in mask[t]
        /\ \A t, u \in DOMAIN f : t # u => f[t] # f[u]
        /\ \A i \in DOMAIN q : q[i] \notin DOMAIN f =>
               mask[q[i]] \subseteq {f[q[j]] : j \in {k \in 1..i-1 : q[k] \in DOMAIN f}}
    BY DEF Assignments
  <1>5. DOMAIN q = 1..Len(q) /\ Len(q) \in Nat
    BY LenProperties
  <1>6. ASSUME NEW i \in DOMAIN q, NEW j \in DOMAIN q, i < j, mask[q[j]] \subseteq mask[q[i]],
               q[i] \in Elems(r.runQueue), q[j] \notin Elems(r.runQueue)
        PROVE  FALSE
    <2>1. q[i] \notin DOMAIN f /\ q[j] \in DOMAIN f
      BY <1>3, <1>6 DEF Elems
    <2>2. f[q[j]] \in mask[q[i]]
      BY <1>4, <1>6, <2>1
    <2>3. PICK k \in 1..i-1 : q[k] \in DOMAIN f /\ f[q[j]] = f[q[k]]
      <3>1. mask[q[i]] \subseteq {f[q[m]] : m \in {k \in 1..i-1 : q[k] \in DOMAIN f}}
        BY <1>4, <2>1
      <3>2. QED
        BY <2>2, <3>1
    <2>4. q[j] = q[k]
      BY <1>4, <2>1, <2>3
    <2>5. k \in DOMAIN q /\ k # j
      BY <1>5, <1>6, <2>3
    <2>6. QED
      BY <2>4, <2>5 DEF NoRepeats
  <1>7. QED
    BY <1>6 DEF Fair

LEMMA FairCallback ==
  ASSUME NEW s, HasQueue(s), s.runQueue \in Seq(Threads), NoRepeats(s.runQueue),
         NEW r \in callback(s)
  PROVE  Fair(s.runQueue, r.runQueue)
  <1> DEFINE x == Checked(s, s.scheduledThreads <= numCores)
             y == PassPhase(x)
             w == WakeSleepers(y)
  <1>1. r = w \/ r \in schedTick(w)
    BY DEF callback
  <1>2. Same(s, x)
    BY SameMoves
  <1> HIDE DEF x
  <1>3. Same(x, y)
    BY <1>2, SameMoves DEF Same
  <1> HIDE DEF y
  <1>4. Same(y, w)
    BY <1>3, SameMoves DEF Same
  <1> HIDE DEF w
  <1>5. HasQueue(w) /\ w.runQueue = s.runQueue
    BY <1>2, <1>3, <1>4 DEF Same
  <1>6. CASE r = w
    BY <1>5, <1>6, FairAll
  <1>7. CASE r \in schedTick(w)
    BY <1>5, <1>7, FairTick
  <1>8. QED
    BY <1>1, <1>6, <1>7

LEMMA FairEndPhase ==
  ASSUME NEW s, HasQueue(s), s.runQueue \in Seq(Threads), NoRepeats(s.runQueue),
         NEW r \in EndPhase(s)
  PROVE  Fair(s.runQueue, r.runQueue)
  <1> DEFINE z == [s EXCEPT !.arrived = {}]
  <1>1. r = s \/ r \in callback(z)
    BY DEF EndPhase
  <1>2. HasQueue(z) /\ z.runQueue = s.runQueue
    BY DEF HasQueue
  <1> HIDE DEF z
  <1>3. CASE r = s
    BY <1>3, FairAll
  <1>4. CASE r \in callback(z)
    BY <1>2, <1>4, FairCallback
  <1>5. QED
    BY <1>1, <1>3, <1>4

LEMMA FairBarrier ==
  ASSUME NEW s, HasQueue(s), s.runQueue \in Seq(Threads), NoRepeats(s.runQueue), NEW c,
         NEW r \in barLeave(s, c) \cup barSync(s, c)
  PROVE  Fair(s.runQueue, r.runQueue)
  <1> DEFINE zl == [s EXCEPT !.members = @ \ {c}, !.arrived = @ \ {c}]
             za == [s EXCEPT !.arrived = @ \cup {c}]
             l == Checked(zl, c \in s.members)
             a == Checked(za, c \in s.members \ s.arrived)
  <1>1. r = l \/ r \in EndPhase(l) \/ r \in EndPhase(a)
    BY DEF barLeave, barSync
  <1>2. HasQueue(zl) /\ zl.runQueue = s.runQueue /\ HasQueue(za) /\ za.runQueue = s.runQueue
    BY DEF HasQueue
  <1> HIDE DEF zl, za
  <1>3. Same(zl, l) /\ Same(za, a)
    BY <1>2, SameMoves
  <1> HIDE DEF l, a
  <1>4. HasQueue(l) /\ l.runQueue = s.runQueue /\ HasQueue(a) /\ a.runQueue = s.runQueue
    BY <1>2, <1>3 DEF Same
  <1>5. CASE r = l
    BY <1>4, <1>5, FairAll
  <1>6. CASE r \in EndPhase(l)
    BY <1>4, <1>6, FairEndPhase
  <1>7. CASE r \in EndPhase(a)
    BY <1>4, <1>7, FairEndPhase
  <1>8. QED
    BY <1>1, <1>5, <1>6, <1>7

\* A context that is given up goes to the first queued thread that may have it.
LEMMA FairGive ==
  ASSUME NEW s \in SchedState, NEW c \in Cores, NoRepeats(s.runQueue),
         schedContext(s, c) # None,
         NEW d, HasQueue(d), d.runQueue = s.runQueue
  PROVE  Fair(s.runQueue, GiveTo(d, schedContext(s, c), c).runQueue)
  <1> DEFINE q == s.runQueue
             u == schedContext(s, c)
             z == [d EXCEPT !.runQueue = Remove(@, u)]
             y == schedule(z, u, c)
             r == GiveTo(d, u, c)
  <1>1. PICK k \in DOMAIN q : u = q[k] /\ \A j \in 1..k-1 : c \notin mask[q[j]]
    BY SchedContextFacts
  <1>2. c \in mask[u]
    BY SchedContextFacts
  <1>3. q \in Seq(Threads) /\ DOMAIN q = 1..Len(q) /\ Len(q) \in Nat
    BY FieldTypes, LenProperties
  <1> HIDE DEF u, q
  <1>4. HasQueue(z) /\ z.runQueue = Remove(q, u)
    BY DEF HasQueue, q
  <1>5. r = wakeup(y, u)
    BY DEF GiveTo
  <1> HIDE DEF z
  <1>6. Same(z, y)
    BY <1>4, SameMoves
  <1> HIDE DEF y
  <1>7. Same(y, r)
    <2>1. HasQueue(y)
      BY <1>6 DEF Same
    <2>2. QED
      BY <1>5, <2>1, SameMoves
  <1> HIDE DEF r
  <1>8. r.runQueue = Without(q, {u})
    BY <1>4, <1>6, <1>7 DEF Same, Remove
  <1>9. Elems(r.runQueue) = Elems(q) \ {u}
    BY <1>3, <1>8, WithoutFacts
  <1>10. ASSUME NEW i \in DOMAIN q, NEW j \in DOMAIN q, i < j, mask[q[j]] \subseteq mask[q[i]],
                q[i] \in Elems(r.runQueue), q[j] \notin Elems(r.runQueue)
         PROVE  FALSE
    <2>1. q[j] = u
      BY <1>9, <1>10 DEF Elems
    <2>2. j = k
      BY <1>1, <2>1 DEF NoRepeats, q
    <2>3. i \in 1..k-1
      BY <1>3, <1>10, <2>2
    <2>4. QED
      BY <1>1, <1>2, <1>10, <2>1, <2>3
  <1>11. Fair(q, r.runQueue)
    BY <1>10 DEF Fair
  <1>12. QED
    BY <1>11 DEF q, r, u

LEMMA FairLeave ==
  ASSUME NEW s \in SchedState, NoRepeats(s.runQueue), NEW t \in Threads, NEW r \in leave(s, t)
  PROVE  Fair(s.runQueue, r.runQueue)
  <1> DEFINE c    == s.cid[t]
             b    == s.curThread[c] = t /\ s.state[t] = "RUNNING"
             s1   == Checked(s, b)
             inTh == schedContext(s1, c)
             dS   == deschedule(s1, t, c, "SLEEPING")
             dB   == deschedule(s1, t, c, "BLOCKED")
             s2   == [dS EXCEPT !.marked = @ \ {t}, !.sleepQueue = SleepInsert(s1, t)]
             s2f  == [s2 EXCEPT !.freeList = Append(@, c)]
             s3   == [s1 EXCEPT !.state[t] = "OUT", !.outQueue = Append(@, t)]
  <1>0. c \in Cores /\ HasQueue(s) /\ s.runQueue \in Seq(Threads)
    BY FieldTypes DEF HasQueue, SchedState
  <1>1. \/ inTh # None /\ r = GiveTo(s2, inTh, c)
        \/ r \in barLeave(s2f, c)
        \/ inTh # None /\ r = GiveTo(dB, inTh, c)
        \/ r \in barLeave(s3, c)
    BY DEF leave
  <1>2. s1 \in SchedState /\ Same(s, s1)
    BY <1>0, CheckedFacts, SameMoves
  <1> HIDE DEF s1, c
  <1>3. Same(s1, dS) /\ Same(s1, dB) /\ Same(s1, s3)
    <2>1. Same(s1, dS) /\ Same(s1, dB)
      BY <1>2, SameMoves DEF Same
    <2>2. Same(s1, s3)
      BY <1>2 DEF Same, HasQueue
    <2>3. QED
      BY <2>1, <2>2
  <1> HIDE DEF dS, dB, s3
  <1>4. Same(dS, s2)
    BY <1>3 DEF Same, HasQueue
  <1> HIDE DEF s2
  <1>5. Same(s2, s2f)
    BY <1>4 DEF Same, HasQueue
  <1> HIDE DEF s2f
  <1>6. /\ HasQueue(s2) /\ s2.runQueue = s1.runQueue /\ HasQueue(dB) /\ dB.runQueue = s1.runQueue
        /\ HasQueue(s2f) /\ s2f.runQueue = s.runQueue /\ HasQueue(s3) /\ s3.runQueue = s.runQueue
        /\ s1.runQueue = s.runQueue
    BY <1>2, <1>3, <1>4, <1>5 DEF Same
  <1>7. CASE inTh # None /\ r = GiveTo(s2, inTh, c)
    BY <1>0, <1>2, <1>6, <1>7, FairGive
  <1>8. CASE inTh # None /\ r = GiveTo(dB, inTh, c)
    BY <1>0, <1>2, <1>6, <1>8, FairGive
  <1>9. CASE r \in barLeave(s2f, c)
    BY <1>0, <1>6, <1>9, FairBarrier
  <1>10. CASE r \in barLeave(s3, c)
    BY <1>0, <1>6, <1>10, FairBarrier
  <1>11. QED
    BY <1>1, <1>7, <1>8, <1>9, <1>10

LEMMA FairAcquire ==
  ASSUME NEW s, HasQueue(s), s.runQueue \in Seq(Threads), NEW t \in Threads, Acquire(s, t)
  PROVE  Fair(s.runQueue, S'.runQueue)
  <1> DEFINE c == ContextFor(s, t)
             d == Claim(s, c)
             e == schedule(d, t, c)
             j == barJoin(e, c)
             z == [s EXCEPT !.state[t] = "QUEUED", !.runQueue = Append(@, t)]
             w == waitForContext(z, t)
  <1>1. S' = j \/ S' = w
    BY DEF Acquire
  <1> HIDE DEF c
  <1>2. Same(s, d)
    BY SameMoves
  <1>3. HasQueue(z) /\ z.runQueue = Append(s.runQueue, t)
    BY DEF HasQueue
  <1> HIDE DEF d, z
  <1>4. Same(d, e)
    <2>1. HasQueue(d)
      BY <1>2 DEF Same
    <2>2. QED
      BY <2>1, SameMoves
  <1> HIDE DEF e
  <1>5. Same(e, j)
    BY <1>4, SameMoves DEF Same
  <1>6. Same(z, w)
    BY <1>3, SameMoves
  <1> HIDE DEF j, w
  <1>7. j.runQueue = s.runQueue /\ w.runQueue = Append(s.runQueue, t)
    BY <1>2, <1>3, <1>4, <1>5, <1>6 DEF Same
  <1>8. Elems(Append(s.runQueue, t)) = Elems(s.runQueue) \cup {t}
    BY AppendFacts
  <1>9. Elems(s.runQueue) \subseteq Elems(S'.runQueue)
    BY <1>1, <1>7, <1>8
  <1>10. QED
    BY <1>9, FairAll

LEMMA FairDelete ==
  ASSUME NEW s, HasQueue(s), NEW t \in Threads, s.state[t] \in {"STARTED", "BLOCKED", "OUT"}
  PROVE  Fair(s.runQueue, Delete(s, t).runQueue)
  <1> DEFINE c  == s.cid[t]
             b  == /\ s.state[t] \in {"STARTED", "OUT", "BLOCKED", "QUEUED"}
                   /\ s.state[t] = "QUEUED" => t \in Elems(s.runQueue)
             s1 == Checked(s, b)
             z  == [s1 EXCEPT !.outQueue = Remove(@, t)]
             d  == deschedule(z, t, c, "BLOCKED")
             s3 == [d EXCEPT !.freeList = Append(@, c)]
             End(x) == [x EXCEPT !.state[t] = "DELETED", !.cid[t] = 0, !.futexWord[t] = 0]
             r  == Delete(s, t)
  <1>1. /\ s.state[t] = "OUT" => r = End(s3)
        /\ s.state[t] # "OUT" => r = End(s1)
    BY DEF Delete
  <1>2. Same(s, s1)
    BY SameMoves
  <1> HIDE DEF s1
  <1>3. Same(s1, z)
    BY <1>2 DEF Same, HasQueue
  <1> HIDE DEF z
  <1>4. Same(z, d)
    BY <1>3, SameMoves DEF Same
  <1> HIDE DEF d
  <1>5. Same(d, s3)
    BY <1>4 DEF Same, HasQueue
  <1> HIDE DEF s3
  <1>6. Same(s, s3)
    BY <1>2, <1>3, <1>4, <1>5 DEF Same
  <1>7. /\ End(s3).runQueue = s.runQueue
        /\ End(s1).runQueue = s.runQueue
    BY <1>2, <1>6 DEF Same, HasQueue
  <1>8. r.runQueue = s.runQueue
    BY <1>1, <1>7
  <1>9. QED
    BY <1>8, FairAll

LEMMA FairNext ==
  ASSUME IInv, ~FakeLeaveRace, [Next]_vars
  PROVE  Fair(S.runQueue, S'.runQueue)
  <1>0. /\ S \in SchedState /\ HasQueue(S) /\ S.runQueue \in Seq(Threads) /\ NoRepeats(S.runQueue)
        /\ \A t \in Threads : Place(t)
    <2>1. S \in SchedState /\ NoRepeats(S.runQueue) /\ \A t \in Threads : Place(t)
      BY DEF IInv, PInv, SInv, Queues
    <2>2. QED
      BY <2>1, FieldTypes DEF HasQueue, SchedState
  <1>1. ASSUME S'.runQueue = S.runQueue
        PROVE  Fair(S.runQueue, S'.runQueue)
    BY <1>1, FairAll
  <1>2. CASE UNCHANGED vars
    BY <1>1, <1>2 DEF vars
  <1>3. ASSUME NEW t \in Threads, start(t)
        PROVE  Fair(S.runQueue, S'.runQueue)
    <2>1. S'.runQueue = S.runQueue
      BY <1>0, <1>3 DEF start, HasQueue
    <2>2. QED
      BY <1>1, <2>1
  <1>4. ASSUME NEW t \in Threads, join(t)
        PROVE  Fair(S.runQueue, S'.runQueue)
    <2> DEFINE s1 == Checked(S, t \notin S.marked)
               sw == [s1 EXCEPT !.sleepQueue = Remove(@, t), !.state[t] = "BLOCKED", !.left[t] = 0]
               s2 == IF S.state[t] = "SLEEPING" THEN sw ELSE s1
               s3 == Checked(s2, s2.state[t] \in {"BLOCKED", "STARTED"})
               so == [s1 EXCEPT !.state[t] = "RUNNING", !.outQueue = Remove(@, t)]
    <2>1. \/ S' = [S EXCEPT !.fakeLeaves = Remove(@, t), !.ok = @ /\ S.state[t] = "RUNNING"]
          \/ S' = barJoin(so, S.cid[t])
          \/ Acquire(s3, t)
      BY <1>4 DEF join
    <2>2. Same(S, s1)
      BY <1>0, SameMoves
    <2> HIDE DEF s1
    <2>3. Same(s1, sw) /\ Same(s1, so)
      BY <2>2 DEF Same, HasQueue
    <2> HIDE DEF sw, so
    <2>4. Same(S, s2) /\ Same(S, so)
      BY <2>2, <2>3 DEF Same
    <2> HIDE DEF s2
    <2>5. HasQueue(s2) /\ HasQueue(so)
      BY <2>4 DEF Same
    <2>6. Same(s2, s3) /\ Same(so, barJoin(so, S.cid[t]))
      BY <2>5, SameMoves
    <2> HIDE DEF s3
    <2>7. /\ HasQueue(s3) /\ s3.runQueue = S.runQueue
          /\ barJoin(so, S.cid[t]).runQueue = S.runQueue
      BY <2>4, <2>6 DEF Same
    <2>8. CASE S' = [S EXCEPT !.fakeLeaves = Remove(@, t), !.ok = @ /\ S.state[t] = "RUNNING"]
      <3>1. S'.runQueue = S.runQueue
        BY <1>0, <2>8 DEF HasQueue
      <3>2. QED
        BY <1>1, <3>1
    <2>9. CASE S' = barJoin(so, S.cid[t])
      BY <1>1, <2>7, <2>9
    <2>10. CASE Acquire(s3, t)
      BY <1>0, <2>7, <2>10, FairAcquire
    <2>11. QED
      BY <2>1, <2>8, <2>9, <2>10
  <1>5. ASSUME NEW t \in Threads, syscallLeave(t)
        PROVE  Fair(S.runQueue, S'.runQueue)
    <2>1. CASE S' \in leave(S, t)
      BY <1>0, <2>1, FairLeave
    <2>2. CASE S' = [S EXCEPT !.fakeLeaves = Append(@, t)]
      <3>1. S'.runQueue = S.runQueue
        BY <1>0, <2>2 DEF HasQueue
      <3>2. QED
        BY <1>1, <3>1
    <2>3. QED
      BY <1>5, <2>1, <2>2 DEF syscallLeave
  <1>6. ASSUME NEW t \in Threads, markForSleep(t)
        PROVE  Fair(S.runQueue, S'.runQueue)
    <2>1. S'.runQueue = S.runQueue
      BY <1>0, <1>6 DEF markForSleep, HasQueue
    <2>2. QED
      BY <1>1, <2>1
  <1>7. ASSUME NEW t \in Threads, SleepLeave(t) \/ FinishLeave(t)
        PROVE  Fair(S.runQueue, S'.runQueue)
    <2>1. S' \in leave(S, t)
      BY <1>7 DEF SleepLeave, FinishLeave
    <2>2. QED
      BY <1>0, <2>1, FairLeave
  <1>8. ASSUME NEW t \in Threads,
               \/ SleepReturn(t) \/ SleepInterrupted(t) \/ TimedReturn(t) \/ SyncReturn(t)
               \/ Die(t) \/ processCleanup(t)
        PROVE  Fair(S.runQueue, S'.runQueue)
    <2>1. S' = S
      BY <1>8 DEF SleepReturn, SleepInterrupted, TimedReturn, SyncReturn, Die, processCleanup
    <2>2. QED
      BY <1>1, <2>1
  <1>9. ASSUME NEW t \in Threads, notifySleepEnd(t)
        PROVE  Fair(S.runQueue, S'.runQueue)
    <2> DEFINE s1 == Checked(S, t \notin S.marked /\ S.state[t] \in {"SLEEPING", "BLOCKED"})
               sw == [s1 EXCEPT !.sleepQueue = Remove(@, t), !.state[t] = "BLOCKED", !.left[t] = 0]
    <2>1. S' = s1 \/ S' = sw
      BY <1>9 DEF notifySleepEnd
    <2>2. Same(S, s1)
      BY <1>0, SameMoves
    <2> HIDE DEF s1
    <2>3. Same(s1, sw)
      BY <2>2 DEF Same, HasQueue
    <2> HIDE DEF sw
    <2>4. S'.runQueue = S.runQueue
      BY <2>1, <2>2, <2>3 DEF Same
    <2>5. QED
      BY <1>1, <2>4
  <1>10. ASSUME NEW t \in Threads, sync(t)
         PROVE  Fair(S.runQueue, S'.runQueue)
    <2> DEFINE s1 == Checked(S, t \notin S.marked)
    <2>1. S' \in barSync(s1, S.cid[t])
      BY <1>10 DEF sync
    <2>2. Same(S, s1)
      BY <1>0, SameMoves
    <2> HIDE DEF s1
    <2>3. HasQueue(s1) /\ s1.runQueue = S.runQueue
      BY <2>2 DEF Same
    <2>4. Fair(s1.runQueue, S'.runQueue)
      BY <1>0, <2>1, <2>3, FairBarrier
    <2>5. QED
      BY <2>3, <2>4
  <1>11. ASSUME NEW t \in Threads, Handoff(t)
         PROVE  Fair(S.runQueue, S'.runQueue)
    <2> DEFINE dst == S.handoffThread[t]
               c  == S.cid[t]
               z  == [S EXCEPT !.handoffThread[t] = None]
               s1 == deschedule(z, t, c, "QUEUED")
               s2 == schedule(s1, dst, c)
               s3 == wakeup(s2, dst)
    <2>1. Acquire(s3, t)
      BY <1>11 DEF Handoff
    <2> HIDE DEF dst, c
    <2>2. HasQueue(z) /\ z.runQueue = S.runQueue
      BY <1>0 DEF HasQueue
    <2> HIDE DEF z
    <2>3. Same(z, s1)
      BY <2>2, SameMoves
    <2> HIDE DEF s1
    <2>4. HasQueue(s1)
      BY <2>3 DEF Same
    <2>5. Same(s1, s2)
      BY <2>4, SameMoves
    <2> HIDE DEF s2
    <2>6. HasQueue(s2)
      BY <2>5 DEF Same
    <2>7. Same(s2, s3)
      BY <2>6, SameMoves
    <2> HIDE DEF s3
    <2>8. HasQueue(s3) /\ s3.runQueue = S.runQueue
      BY <2>2, <2>3, <2>5, <2>7 DEF Same
    <2>9. QED
      BY <1>0, <2>1, <2>8, FairAcquire
  <1>12. ASSUME NEW t \in Threads, ContextReturn(t)
         PROVE  Fair(S.runQueue, S'.runQueue)
    <2>1. S' = Checked(S, S.state[t] = "RUNNING")
      BY <1>12 DEF ContextReturn
    <2>2. S'.runQueue = S.runQueue
      BY <1>0, <2>1 DEF Checked, HasQueue
    <2>3. QED
      BY <1>1, <2>2
  <1>13. ASSUME NEW t \in Threads, finish(t)
         PROVE  Fair(S.runQueue, S'.runQueue)
    <2>1. CASE S.state[t] = "RUNNING"
      <3>1. S'.runQueue = S.runQueue
        BY <1>0, <1>13, <2>1 DEF finish, HasQueue
      <3>2. QED
        BY <1>1, <3>1
    <2>2. CASE S.state[t] # "RUNNING"
      <3>1. S' = Delete(S, t)
        BY <1>13, <2>2 DEF finish
      <3>2. Place(t) /\ pc[t] \in {"out", "reaped"} /\ (pc[t] = "out" => S.state[t] # "SLEEPING")
        BY <1>0, <1>13 DEF finish
      <3>3. S.state[t] \in {"STARTED", "BLOCKED", "OUT"}
        BY <2>2, <3>2 DEF Place
      <3>4. QED
        BY <1>0, <3>1, <3>3, FairDelete
    <2>3. QED
      BY <2>1, <2>2
  <1>14. ASSUME NEW t \in Threads, FinishDelete(t)
         PROVE  Fair(S.runQueue, S'.runQueue)
    <2>1. S' = Delete(S, t) /\ Place(t) /\ pc[t] = "finish"
      BY <1>0, <1>14 DEF FinishDelete
    <2>2. S.state[t] \in {"STARTED", "BLOCKED", "OUT"}
      BY <2>1 DEF Place
    <2>3. QED
      BY <1>0, <2>1, <2>2, FairDelete
  <1>15. CASE EndFakeLeave
    <2>1. S'.runQueue = S.runQueue
      BY <1>0, <1>15 DEF EndFakeLeave, HasQueue
    <2>2. QED
      BY <1>1, <2>1
  <1>16. CASE EvictLeave
    <2>1. PICK t \in Threads : t = evict
      BY <1>16 DEF EvictLeave, IInv, PInv
    <2>2. S' \in leave(S, t)
      BY <1>16, <2>1 DEF EvictLeave
    <2>3. QED
      BY <1>0, <2>2, FairLeave
  <1>17. CASE DriveForward
    <2>1. S' \in callback(S)
      BY <1>17 DEF DriveForward
    <2>2. QED
      BY <1>0, <2>1, FairCallback
  <1>18. QED
    BY <1>2, <1>3, <1>4, <1>5, <1>6, <1>7, <1>8, <1>9, <1>10, <1>11, <1>12, <1>13, <1>14,
       <1>15, <1>16, <1>17 DEF Next

\* A queued thread is not overtaken: leave gives a context to the first queued
\* thread that may have it, schedTick passes a thread over only if those before it
\* took its whole mask, and no thread is deleted while it is queued.
THEOREM SchedulerNoOvertaking ==
  ASSUME ~FakeLeaveRace
  PROVE  Spec => NoOvertaking
  <1> DEFINE A == \A i, j \in DOMAIN S.runQueue :
                     LET t == S.runQueue[i]
                         u == S.runQueue[j]
                     IN  i < j /\ mask[u] \subseteq mask[t] /\ t \in Elems(S'.runQueue)
                           => u \in Elems(S'.runQueue)
  <1>1. IInv /\ [Next]_vars => A
    <2>1. IInv /\ [Next]_vars => Fair(S.runQueue, S'.runQueue)
      BY FairNext
    <2>2. QED
      BY <2>1 DEF Fair
  <1>2. NoOvertaking <=> [][A]_vars
    BY DEF NoOvertaking
  <1> HIDE DEF A
  <1>3. QED
    BY <1>1, <1>2, SchedulerInvariant, PTL DEF Spec
=============================================================================

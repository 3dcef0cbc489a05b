----------------------------- MODULE PrioQueue -----------------------------
(***************************************************************************)
(* The bucketed priority queue of src/zsim/src/prio_queue.h, which holds   *)
(* the timing events of one domain.  Elements within the next B blocks of  *)
(* W cycles lie in an array of blocks, one stack per cycle, indexed modulo *)
(* B; later ones lie in an ordered map and move into the array only when   *)
(* the current block passes a multiple of B/2.                             *)
(***************************************************************************)
EXTENDS Naturals, SequencesExt

CONSTANTS
  B,  \* blocks in the array (PQ_BLOCKS, 1024 in contention_sim.h)
  W   \* cycles per block (64, the width of the occupancy word)

ASSUME PrioQueueAssumption ==
  /\ B \in Nat /\ B >= 2 /\ B % 2 = 0
  /\ W \in Nat \ {0}

\* A queue: the current block, the array of blocks, the map of far elements
\* (pairs of a cycle and an object, in the order of the multimap).
EmptyQueue ==
  [cur  |-> 0,
   near |-> [b \in 0 .. B - 1 |-> [off \in 0 .. W - 1 |-> <<>>]],
   far  |-> <<>>]

\* The offsets whose bit is set in the occupancy word of an absolute block.
Occ(q, block) == {off \in 0 .. W - 1 : q.near[block % B][off] # <<>>}

\* size() = 0
IsEmpty(q) == q.far = <<>> /\ \A b \in 0 .. B - 1 : Occ(q, b) = {}

\* What the queue holds.
Objects(q) ==
  UNION {{q.near[b][off][i] : i \in DOMAIN q.near[b][off]} : b \in 0 .. B - 1, off \in 0 .. W - 1}
  \cup {q.far[i][2] : i \in DOMAIN q.far}

\* PQBlock::enqueue: the newest element of a cycle is on top.
BlockEnqueue(q, obj, cycle) ==
  [q EXCEPT !.near[(cycle \div W) % B][cycle % W] = <<obj>> \o @]

\* PrioQueue::enqueue; its assertion on the block is EnqueueAllowed.
EnqueueAllowed(q, cycle) == cycle \div W >= q.cur

Enqueue(q, obj, cycle) ==
  IF cycle \div W < q.cur + B
  THEN BlockEnqueue(q, obj, cycle)
  ELSE LET before == {i \in DOMAIN q.far : q.far[i][1] <= cycle}
       IN [q EXCEPT !.far = InsertAt(@, Cardinality(before) + 1, <<cycle, obj>>)]

\* One turn of dequeue's loop: the next block, and at every multiple of B/2
\* the far elements that now lie within the array, the last one on top.  Those
\* of one cycle are next to each other in the map.
NextBlock(q) ==
  LET next  == q.cur + 1
      moved == IF next % (B \div 2) = 0
               THEN {i \in DOMAIN q.far : q.far[i][1] < (next + B) * W} ELSE {}
      movedTo(b, off) == {i \in moved : (q.far[i][1] \div W) % B = b /\ q.far[i][1] % W = off}
      pushAll(b, off) ==
        [n \in 1 .. Cardinality(movedTo(b, off)) |-> q.far[Max(movedTo(b, off)) + 1 - n][2]]
          \o q.near[b][off]
  IN [cur  |-> next,
      near |-> [b \in 0 .. B - 1 |-> [off \in 0 .. W - 1 |-> pushAll(b, off)]],
      far  |-> SubSeq(q.far, Cardinality(moved) + 1, Len(q.far))]

\* dequeue's loop: go on until the current block is occupied.  The last block
\* that can hold an element bounds the number of turns.
Seek(q) ==
  LET last == Max({q.cur + B} \cup {q.far[i][1] \div W : i \in DOMAIN q.far})
      turn[n \in Nat] ==
        IF n = 0 THEN q
        ELSE LET p == turn[n - 1]
             IN IF Occ(p, p.cur) # {} THEN p ELSE NextBlock(p)
  IN turn[last - q.cur]

\* PrioQueue::dequeue: the object, the cycle it reports, the queue it leaves.
Dequeue(q) ==
  LET p   == Seek(q)
      off == Min(Occ(p, p.cur))
      stack == p.near[p.cur % B][off]
  IN [obj   |-> Head(stack),
      cycle |-> p.cur * W + off,
      queue |-> [p EXCEPT !.near[p.cur % B][off] = Tail(@)]]

\* Mutant: far elements are looked at only when the array is empty.
FirstCycleNearFirst(q) ==
  LET occupied   == {i \in 0 .. B - 1 : Occ(q, q.cur + i) # {}}
      cycleAt(i) == (q.cur + i) * W + Min(Occ(q, q.cur + i))
  IN IF occupied # {} THEN cycleAt(Min(occupied)) ELSE q.far[1][1]

\* PrioQueue::firstCycle, without dequeuing: the first half of the array, then
\* the second half against the first far element, then the far elements.
FirstCycle(q) ==
  LET occupied(lo, hi) == {i \in lo .. hi : Occ(q, q.cur + i) # {}}
      cycleAt(i)       == (q.cur + i) * W + Min(Occ(q, q.cur + i))
      firstHalf  == occupied(0, B \div 2 - 1)
      secondHalf == occupied(B \div 2, B - 1)
  IN IF firstHalf # {} THEN cycleAt(Min(firstHalf))
     ELSE IF secondHalf = {} THEN q.far[1][1]
     ELSE IF q.far = <<>> THEN cycleAt(Min(secondHalf))
     ELSE Min({cycleAt(Min(secondHalf)), q.far[1][1]})
=============================================================================

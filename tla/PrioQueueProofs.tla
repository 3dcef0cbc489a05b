-------------------------- MODULE PrioQueueProofs --------------------------
(***************************************************************************)
(* The bucketed queue is a priority queue, for every number of blocks and  *)
(* every width of a block: it loses nothing, invents nothing and gives the *)
(* earliest element, wherever that lies.                                   *)
(***************************************************************************)
EXTENDS PrioQueue, Integers, FiniteSetTheorems, SequenceTheorems, WellFoundedInduction, TLAPS

CONSTANT Obj  \* the objects that may be queued

-----------------------------------------------------------------------------
(* What a queue holds *)

H == B \div 2
Window(q) == q.cur .. q.cur + B - 1
Cell(q, c) == q.near[(c \div W) % B][c % W]

\* Object o is on the stack s.
On(o, s) == \E i \in 1..Len(s) : s[i] = o

\* Object o lies in the array for cycle c, or in the map.
InNear(q, c, o) ==
    c \div W \in Window(q) /\ On(o, Cell(q, c))
InFar(q, c, o) == \E i \in 1..Len(q.far) : q.far[i] = <<c, o>>

\* Object o is queued for cycle c.
Holds(q, c, o) == InNear(q, c, o) \/ InFar(q, c, o)

QueueType ==
    [cur  : Nat,
     near : [0..B-1 -> [0..W-1 -> Seq(Obj)]],
     far  : Seq(Nat \X Obj)]

\* The map is in the order of its keys.
Sorted(q) == \A i, j \in 1..Len(q.far) : i <= j => q.far[i][1] <= q.far[j][1]

\* The map's elements were beyond the array at the last multiple of B/2: they are later
\* than the first half of the array.
Far(q) == \A i \in 1..Len(q.far) : q.far[i][1] \div W >= (q.cur - (q.cur % H)) + B

QInv(q) == q \in QueueType /\ Sorted(q) /\ Far(q)

\* No object is queued twice for a cycle.
Distinct(s) == \A i, j \in 1..Len(s) : s[i] = s[j] => i = j
Once(q) ==
    /\ \A c \in Nat : c \div W \in Window(q) => Distinct(Cell(q, c))
    /\ Distinct(q.far)
    /\ \A c \in Nat : \A o : ~(InNear(q, c, o) /\ InFar(q, c, o))

-----------------------------------------------------------------------------
(* Arithmetic *)

\* A cycle is a block and an offset in it.
LEMMA DivMod ==
  ASSUME NEW c \in Nat
  PROVE  /\ c \div W \in Nat /\ c % W \in 0..W-1
         /\ (c \div W) * W \in Nat
         /\ c = (c \div W) * W + (c % W)
  <1>1. W \in Nat \ {0}
    BY PrioQueueAssumption
  <1> DEFINE w == W
  <1>a. w \in Nat \ {0}
    BY <1>1
  <1> HIDE DEF w
  <1>b. c \div w \in Nat /\ c % w \in 0..w-1
    BY <1>a
  <1>c. c = (c \div w) * w + (c % w)
    BY <1>a
  <1>2. c \div W \in Nat /\ c % W \in 0..W-1 /\ c = (c \div W) * W + (c % W)
    BY <1>b, <1>c DEF w
  <1>3. (c \div W) * W \in Nat
    BY <1>1, <1>2
  <1> QED BY <1>2, <1>3

\* An earlier block has earlier cycles.
LEMMA BlockOrder ==
  ASSUME NEW k \in Nat, NEW l \in Nat, k < l
  PROVE  k * W \in Nat /\ l * W \in Nat /\ k * W + W <= l * W
  <1>1. W \in Nat \ {0}
    BY PrioQueueAssumption
  <1>2. PICK d \in Nat : l = k + 1 + d
    <2>1. l - k - 1 \in Nat /\ l = k + 1 + (l - k - 1)
      OBVIOUS
    <2> QED BY <2>1
  <1>3. l * W = k * W + W + d * W /\ d * W \in Nat /\ k * W \in Nat
    BY <1>1, <1>2
  <1> QED BY <1>1, <1>3

\* A block and an offset are a cycle of the block.
LEMMA Compose ==
  ASSUME NEW k \in Nat, NEW off \in 0..W-1
  PROVE  k * W + off \in Nat /\ (k * W + off) \div W = k /\ (k * W + off) % W = off
  <1>1. W \in Nat \ {0} /\ k * W \in Nat
    BY PrioQueueAssumption
  <1> DEFINE c == k * W + off
             l == c \div W
  <1>2. c \in Nat
    BY <1>1
  <1> HIDE DEF c
  <1>3. l \in Nat /\ l * W \in Nat /\ c % W \in 0..W-1 /\ c = l * W + (c % W)
    BY <1>2, DivMod
  <1> HIDE DEF l
  <1>4. ~(l < k)
    <2>1. ASSUME l < k PROVE FALSE
      <3>1. l * W + W <= k * W
        BY <1>3, <2>1, BlockOrder
      <3>2. l * W + (c % W) < k * W
        BY <1>1, <1>3, <3>1
      <3> QED BY <1>1, <1>3, <3>2 DEF c
    <2> QED BY <2>1
  <1>5. ~(k < l)
    <2>1. ASSUME k < l PROVE FALSE
      <3>1. k * W + W <= l * W
        BY <1>3, <2>1, BlockOrder
      <3> QED BY <1>1, <1>3, <3>1 DEF c
    <2> QED BY <2>1
  <1>6. l = k
    BY <1>3, <1>4, <1>5
  <1>7. c % W = off
    BY <1>1, <1>3, <1>6 DEF c
  <1> QED BY <1>2, <1>6, <1>7 DEF c, l

\* Cycles of an earlier block are earlier.
LEMMA EarlierBlock ==
  ASSUME NEW c \in Nat, NEW d \in Nat, c \div W < d \div W
  PROVE  c < d
  <1>1. W \in Nat \ {0}
    BY PrioQueueAssumption
  <1> DEFINE k == c \div W
             l == d \div W
  <1>2. k \in Nat /\ k * W \in Nat /\ c % W \in 0..W-1 /\ c = k * W + (c % W)
    BY DivMod
  <1>3. l \in Nat /\ l * W \in Nat /\ d % W \in 0..W-1 /\ d = l * W + (d % W)
    BY DivMod
  <1>4. k * W + W <= l * W
    BY <1>2, <1>3, BlockOrder
  <1> HIDE DEF k, l
  <1> QED BY <1>1, <1>2, <1>3, <1>4

\* The cycles before the first of a block are those of the blocks before it.
LEMMA BeforeBlock ==
  ASSUME NEW c \in Nat, NEW k \in Nat
  PROVE  c < k * W <=> c \div W < k
  <1>1. W \in Nat \ {0} /\ 0 \in 0..W-1
    BY PrioQueueAssumption
  <1>2. k * W \in Nat /\ (k * W) \div W = k /\ (k * W) % W = 0
    <2>1. k * W + 0 \in Nat /\ (k * W + 0) \div W = k /\ (k * W + 0) % W = 0
      BY <1>1, Compose
    <2>2. k * W + 0 = k * W
      BY <1>1
    <2> QED BY <2>1, <2>2
  <1>3. c \div W \in Nat
    BY DivMod
  <1> DEFINE f == k * W
  <1>4. f \in Nat /\ f \div W = k /\ f % W = 0
    BY <1>2
  <1> HIDE DEF f
  <1>5. ASSUME c \div W < k PROVE c < f
    BY <1>4, <1>5, EarlierBlock
  <1>6. ASSUME k < c \div W PROVE f < c
    BY <1>4, <1>6, EarlierBlock
  <1>7. ASSUME k = c \div W PROVE f <= c
    <2>1. c = (c \div W) * W + (c % W) /\ c % W \in 0..W-1
      BY DivMod
    <2> QED BY <1>1, <1>4, <1>7, <2>1 DEF f
  <1>8. c < f <=> c \div W < k
    BY <1>3, <1>4, <1>5, <1>6, <1>7
  <1> QED BY <1>8 DEF f

\* Two cycles of a block and an offset are one.
LEMMA SameCycle ==
  ASSUME NEW c \in Nat, NEW d \in Nat, c \div W = d \div W, c % W = d % W
  PROVE  c = d
  <1>1. c = (c \div W) * W + (c % W)
    BY DivMod
  <1>2. d = (d \div W) * W + (d % W)
    BY DivMod
  <1> QED BY <1>1, <1>2, Zenon

\* The blocks of a window lie at different places of the array ...
LEMMA WindowUnique ==
  ASSUME NEW n \in Nat, NEW k \in n..n+B-1, NEW l \in n..n+B-1, k % B = l % B
  PROVE  k = l
  <1>1. B \in Nat \ {0}
    BY PrioQueueAssumption
  <1> DEFINE x == k \div B
             y == l \div B
             r == k % B
  <1>2. x \in Nat /\ r \in 0..B-1 /\ k = x * B + r /\ x * B \in Nat
    BY <1>1
  <1>3. y \in Nat /\ l = y * B + r /\ y * B \in Nat
    BY <1>1
  <1> HIDE DEF x, y, r
  <1>4. ASSUME NEW u \in Nat, NEW v \in Nat, u < v PROVE u * B + B <= v * B
    <2>1. PICK d \in Nat : v = u + 1 + d
      <3>1. v - u - 1 \in Nat /\ v = u + 1 + (v - u - 1)
        BY <1>4
      <3> QED BY <3>1
    <2>2. v * B = u * B + B + d * B /\ d * B \in Nat /\ u * B \in Nat
      BY <1>1, <2>1
    <2> QED BY <1>1, <2>2
  <1>5. ~(x < y)
    <2>1. ASSUME x < y PROVE FALSE
      <3>1. x * B + B <= y * B
        BY <1>2, <1>3, <1>4, <2>1
      <3> QED BY <1>1, <1>2, <1>3, <3>1
    <2> QED BY <2>1
  <1>6. ~(y < x)
    <2>1. ASSUME y < x PROVE FALSE
      <3>1. y * B + B <= x * B
        BY <1>2, <1>3, <1>4, <2>1
      <3> QED BY <1>1, <1>2, <1>3, <3>1
    <2> QED BY <2>1
  <1> QED BY <1>2, <1>3, <1>5, <1>6

\* ... and at every place lies one.
LEMMA WindowCovers ==
  ASSUME NEW n \in Nat, NEW b \in 0..B-1
  PROVE  \E k \in n..n+B-1 : k % B = b
  <1>1. B \in Nat \ {0}
    BY PrioQueueAssumption
  <1> DEFINE x == n \div B
             r == n % B
  <1>2. x \in Nat /\ r \in 0..B-1 /\ n = x * B + r /\ x * B \in Nat
    BY <1>1
  <1>3. ASSUME NEW y \in Nat PROVE (y * B + b) % B = b
    BY <1>1
  <1> HIDE DEF x, r
  <1>4. CASE r <= b
    <2>1. x * B + b \in n..n+B-1
      BY <1>1, <1>2, <1>4
    <2> QED BY <1>2, <1>3, <2>1
  <1>5. CASE b < r
    <2>1. (x + 1) * B = x * B + B
      BY <1>1, <1>2
    <2>2. (x + 1) * B + b \in n..n+B-1 /\ x + 1 \in Nat
      BY <1>1, <1>2, <1>5, <2>1
    <2> QED BY <1>3, <2>2
  <1> QED BY <1>1, <1>2, <1>4, <1>5

\* The block after a window takes the place of its first block.
LEMMA NextPlace ==
  ASSUME NEW n \in Nat
  PROVE  (n + B) % B = n % B
  <1>1. B \in Nat \ {0}
    BY PrioQueueAssumption
  <1> DEFINE r == n % B
  <1>2. r \in 0..B-1
    BY <1>1
  <1> DEFINE first == n + 1
  <1>3. first \in Nat /\ first = n + 1
    OBVIOUS
  <1> HIDE DEF first
  <1>4. PICK k \in first..first+B-1 : k % B = r
    <2> HIDE DEF r
    <2> QED BY <1>2, <1>3, WindowCovers
  <1>5. ASSUME k # n + B PROVE FALSE
    <2>1. k \in n..n+B-1 /\ n \in n..n+B-1
      BY <1>1, <1>3, <1>4, <1>5
    <2>2. k = n
      BY <1>4, <2>1, WindowUnique
    <2> QED BY <1>3, <1>4, <2>2
  <1> QED BY <1>4, <1>5

\* Half of an even number of blocks
LEMMA HalfType == B \in Nat /\ H \in Nat \ {0} /\ B = H + H
  BY PrioQueueAssumption DEF H

\* The start of the half that a block lies in moves at the multiples of a half only.
LEMMA HalfStart ==
  ASSUME NEW n \in Nat
  PROVE  /\ n % H \in 0..H-1 /\ n - (n % H) \in Nat
         /\ (n + 1) % H = 0 => n - (n % H) = n + 1 - H
         /\ (n + 1) % H # 0 => (n + 1) - ((n + 1) % H) = n - (n % H)
  <1>1. H \in Nat \ {0}
    BY HalfType
  <1> HIDE DEF H
  <1> DEFINE x == n \div H
             r == n % H
  <1>2. x \in Nat /\ r \in 0..H-1 /\ n = x * H + r /\ x * H \in Nat
    BY <1>1
  <1>3. (n + 1) % H = IF r + 1 = H THEN 0 ELSE r + 1
    <2>1. ASSUME NEW y \in Nat, NEW s \in 0..H-1 PROVE (y * H + s) % H = s
      BY <1>1
    <2>2. CASE r + 1 = H
      <3>1. n + 1 = (x + 1) * H + 0 /\ x + 1 \in Nat
        BY <1>1, <1>2, <2>2
      <3> HIDE DEF x, r
      <3> QED BY <1>1, <2>1, <2>2, <3>1
    <2>3. CASE r + 1 # H
      <3>1. n + 1 = x * H + (r + 1) /\ r + 1 \in 0..H-1
        BY <1>1, <1>2, <2>3
      <3> HIDE DEF x, r
      <3> QED BY <1>2, <2>1, <2>3, <3>1
    <2> QED BY <2>2, <2>3
  <1>4. r \in 0..H-1 /\ n - r \in Nat
    BY <1>1, <1>2
  <1> HIDE DEF x, r
  <1>5. CASE r + 1 = H
    <2>1. (n + 1) % H = 0
      BY <1>3, <1>5
    <2>2. n - r = n + 1 - H
      BY <1>1, <1>4, <1>5
    <2> QED BY <1>4, <2>1, <2>2 DEF r
  <1>6. CASE r + 1 # H
    <2>1. (n + 1) % H = r + 1 /\ r + 1 # 0
      BY <1>3, <1>4, <1>6
    <2>2. (n + 1) - (r + 1) = n - r
      BY <1>4
    <2> QED BY <1>4, <2>1, <2>2 DEF r
  <1> QED BY <1>5, <1>6

-----------------------------------------------------------------------------
(* Sequences *)

\* A non-empty set of naturals has a least element, and Min finds it.
LEMMA MinIsLeast ==
  ASSUME NEW S \in SUBSET Nat, S # {}
  PROVE  Min(S) \in S /\ Min(S) \in Nat /\ \A y \in S : Min(S) <= y
  <1> DEFINE R == {ss \in Nat \X Nat : ss[1] < ss[2]}
  <1>1. IsWellFoundedOn(R, Nat)
    BY NatLessThanWellFounded DEF OpToRel
  <1>2. PICK x \in S : \A y \in S : ~(<<y, x>> \in R)
    <2> HIDE DEF R
    <2> QED BY <1>1, WFMin
  <1>3. ASSUME NEW y \in S PROVE x <= y
    <2>1. x \in Nat /\ y \in Nat /\ ~(y < x)
      BY <1>2
    <2> QED BY <2>1
  <1> QED BY <1>2, <1>3 DEF Min

\* What holds of 0 and of the successor of each number it holds of, holds of all numbers.
LEMMA AllNumbers ==
  ASSUME NEW S, 0 \in S, \A n \in Nat : n \in S => n + 1 \in S
  PROVE  Nat \subseteq S
  <1> SUFFICES ASSUME Nat \ S # {} PROVE FALSE
    OBVIOUS
  <1> DEFINE D == Nat \ S
  <1>1. D \in SUBSET Nat /\ D # {}
    OBVIOUS
  <1>2. Min(D) \in D /\ \A y \in D : Min(D) <= y
    <2> HIDE DEF D
    <2> QED BY <1>1, MinIsLeast
  <1>3. PICK l \in D : \A y \in D : l <= y
    BY <1>2
  <1>4. l # 0 /\ l - 1 \in Nat /\ l - 1 \notin D /\ l = (l - 1) + 1
    BY <1>3
  <1> QED BY <1>3, <1>4

\* The elements of an ordered list that come before a key are a prefix of it.
LEMMA Prefix ==
  ASSUME NEW S, NEW s \in Seq(Nat \X S), NEW x \in Nat,
         \A i, j \in 1..Len(s) : i <= j => s[i][1] <= s[j][1]
  PROVE  \E p \in 0..Len(s) :
           {i \in DOMAIN s : s[i][1] < x} = 1..p /\ Cardinality({i \in DOMAIN s : s[i][1] < x}) = p
  <1> DEFINE before == {i \in DOMAIN s : s[i][1] < x}
             rest == {i \in 1..Len(s) : ~(s[i][1] < x)}
  <1>1. DOMAIN s = 1..Len(s) /\ Len(s) \in Nat
    BY LenProperties
  <1>2. \A i \in 1..Len(s) : s[i][1] \in Nat
    <2>1. \A i \in 1..Len(s) : s[i] \in Nat \X S
      BY ElementOfSeq
    <2> QED BY <2>1
  <1>3. \E p \in 0..Len(s) : before = 1..p
    <2>1. CASE rest = {}
      <3>1. before = 1..Len(s)
        BY <1>1, <2>1
      <3> QED BY <1>1, <3>1
    <2>2. CASE rest # {}
      <3>1. rest \in SUBSET Nat
        OBVIOUS
      <3>2. Min(rest) \in rest /\ \A y \in rest : Min(rest) <= y
        <4> HIDE DEF rest
        <4> QED BY <2>2, <3>1, MinIsLeast
      <3>3. PICK l \in rest : \A y \in rest : l <= y
        BY <3>2
      <3>4. l \in 1..Len(s) /\ ~(s[l][1] < x)
        BY <3>3
      <3>5. \A i \in 1..Len(s) : s[i][1] < x <=> i < l
        <4> SUFFICES ASSUME NEW i \in 1..Len(s) PROVE s[i][1] < x <=> i < l
          OBVIOUS
        <4>1. CASE i < l
          BY <1>1, <3>3, <4>1
        <4>2. CASE ~(i < l)
          <5>1. s[l][1] <= s[i][1]
            BY <1>1, <3>4, <4>2
          <5> QED BY <1>2, <3>4, <4>2, <5>1
        <4> QED BY <4>1, <4>2
      <3>6. before = 1..(l - 1)
        BY <1>1, <3>4, <3>5
      <3>7. l - 1 \in 0..Len(s)
        BY <1>1, <3>4
      <3> QED BY <3>6, <3>7
    <2> QED BY <2>1, <2>2
  <1>4. PICK p \in 0..Len(s) : before = 1..p
    BY <1>3
  <1>5. Cardinality(1..p) = p
    <2>1. p \in Int /\ 1 \in Int /\ p >= 0
      BY <1>1
    <2>2. Cardinality(1..p) = IF 1 > p THEN 0 ELSE p - 1 + 1
      BY <2>1, FS_Interval
    <2> QED BY <2>1, <2>2
  <1> QED BY <1>4, <1>5

\* t is s with e behind the first p elements.
Inserted(t, s, p, e) ==
    /\ Len(t) = Len(s) + 1
    /\ \A i \in 1..p : t[i] = s[i]
    /\ t[p + 1] = e
    /\ \A i \in p + 1..Len(s) : t[i + 1] = s[i]

\* InsertAt inserts an element at its place.
LEMMA InsertAtProperties ==
  ASSUME NEW S, NEW s \in Seq(S), NEW e \in S, NEW p \in 0..Len(s),
         NEW t, t = InsertAt(s, p + 1, e)
  PROVE  t \in Seq(S) /\ Inserted(t, s, p, e)
  <1> DEFINE a == SubSeq(s, 1, p)
             b == SubSeq(s, p + 1, Len(s))
             ae == a \o <<e>>
  <1>1. Len(s) \in Nat /\ \A i \in 1..Len(s) : s[i] \in S
    BY LenProperties, ElementOfSeq
  <1>2. a \in Seq(S) /\ Len(a) = p /\ \A i \in 1..p : a[i] = s[i]
    <2>1. 1 \in Int /\ p \in Int /\ \A i \in 1..p : s[i] \in S
      BY <1>1
    <2>2. /\ a \in Seq(S)
          /\ Len(a) = IF 1 <= p THEN p - 1 + 1 ELSE 0
          /\ \A i \in 1..p - 1 + 1 : a[i] = s[1 + i - 1]
      BY <2>1, SubSeqProperties
    <2> HIDE DEF a
    <2> QED BY <2>2, <1>1
  <1>3. b \in Seq(S) /\ Len(b) = Len(s) - p /\ \A i \in 1..Len(s) - p : b[i] = s[p + i]
    <2>1. p + 1 \in Int /\ Len(s) \in Int /\ \A i \in p + 1..Len(s) : s[i] \in S
      BY <1>1
    <2>2. /\ b \in Seq(S)
          /\ Len(b) = IF p + 1 <= Len(s) THEN Len(s) - (p + 1) + 1 ELSE 0
          /\ \A i \in 1..Len(s) - (p + 1) + 1 : b[i] = s[p + 1 + i - 1]
      BY <2>1, SubSeqProperties
    <2> HIDE DEF b
    <2>3. Len(b) = Len(s) - p
      BY <1>1, <2>2
    <2>4. ASSUME NEW i \in 1..Len(s) - p PROVE b[i] = s[p + i]
      <3>1. i \in 1..Len(s) - (p + 1) + 1 /\ p + 1 + i - 1 = p + i
        BY <1>1
      <3> QED BY <2>2, <3>1
    <2> QED BY <2>2, <2>3, <2>4
  <1> HIDE DEF a, b
  <1>4. ae \in Seq(S) /\ Len(ae) = p + 1 /\ \A i \in 1..p + 1 : ae[i] = IF i <= p THEN s[i] ELSE e
    <2>1. <<e>> \in Seq(S) /\ Len(<<e>>) = 1 /\ <<e>>[1] = e
      OBVIOUS
    <2>2. /\ ae \in Seq(S) /\ Len(ae) = Len(a) + Len(<<e>>)
          /\ \A i \in 1..Len(a) + Len(<<e>>) : ae[i] = IF i <= Len(a) THEN a[i] ELSE <<e>>[i - Len(a)]
      BY <1>2, <2>1, ConcatProperties
    <2> HIDE DEF ae
    <2>3. ASSUME NEW i \in 1..p + 1 PROVE ae[i] = IF i <= p THEN s[i] ELSE e
      <3>1. CASE i <= p
        BY <1>1, <1>2, <2>1, <2>2, <3>1
      <3>2. CASE i = p + 1
        BY <1>1, <1>2, <2>1, <2>2, <3>2
      <3> QED BY <1>1, <3>1, <3>2
    <2> QED BY <1>2, <2>1, <2>2, <2>3
  <1> HIDE DEF ae
  <1>5. /\ ae \o b \in Seq(S) /\ Len(ae \o b) = Len(ae) + Len(b)
        /\ \A i \in 1..Len(ae) + Len(b) : (ae \o b)[i] = IF i <= Len(ae) THEN ae[i] ELSE b[i - Len(ae)]
    BY <1>3, <1>4, ConcatProperties
  <1>6. ASSUME NEW i \in 1..Len(s) + 1
        PROVE  (ae \o b)[i] = IF i <= p THEN s[i] ELSE IF i = p + 1 THEN e ELSE s[i - 1]
    <2>1. CASE i <= p + 1
      BY <1>1, <1>3, <1>4, <1>5, <2>1
    <2>2. CASE i > p + 1
      <3>1. i - (p + 1) \in 1..Len(s) - p /\ p + (i - (p + 1)) = i - 1
        BY <1>1, <2>2
      <3>2. (ae \o b)[i] = b[i - (p + 1)]
        BY <1>1, <1>3, <1>4, <1>5, <2>2
      <3>3. b[i - (p + 1)] = s[i - 1]
        BY <1>3, <3>1
      <3>4. ~(i <= p) /\ i # p + 1
        BY <1>1, <2>2
      <3> QED BY <3>2, <3>3, <3>4
    <2>3. i <= p + 1 \/ i > p + 1
      BY <1>1
    <2> QED BY <2>1, <2>2, <2>3
  <1>7. InsertAt(s, p + 1, e) = ae \o b
    <2>1. (p + 1) - 1 = p
      BY <1>1
    <2>2. InsertAt(s, p + 1, e) = SubSeq(s, 1, (p + 1) - 1) \o <<e>> \o SubSeq(s, p + 1, Len(s))
      BY Zenon DEF InsertAt
    <2> QED BY <2>1, <2>2, Zenon DEF ae, a, b
  <1>8. Len(ae \o b) = Len(s) + 1
    BY <1>1, <1>3, <1>4, <1>5
  <1>9. t = ae \o b
    BY <1>7
  <1>10. ASSUME NEW i \in 1..p PROVE t[i] = s[i]
    <2>1. i \in 1..Len(s) + 1 /\ i <= p
      BY <1>1
    <2> QED BY <1>6, <1>9, <2>1
  <1>11. t[p + 1] = e
    <2>1. p + 1 \in 1..Len(s) + 1 /\ ~(p + 1 <= p)
      BY <1>1
    <2> QED BY <1>6, <1>9, <2>1
  <1>12. ASSUME NEW i \in p + 1..Len(s) PROVE t[i + 1] = s[i]
    <2>1. i + 1 \in 1..Len(s) + 1 /\ ~(i + 1 <= p) /\ i + 1 # p + 1 /\ (i + 1) - 1 = i
      BY <1>1
    <2> DEFINE j == i + 1
    <2>2. j \in 1..Len(s) + 1 /\ ~(j <= p) /\ j # p + 1 /\ j - 1 = i
      BY <2>1
    <2> HIDE DEF j
    <2>3. t[j] = s[j - 1]
      BY <1>6, <1>9, <2>2
    <2> QED BY <2>2, <2>3 DEF j
  <1> QED BY <1>5, <1>8, <1>9, <1>10, <1>11, <1>12 DEF Inserted

\* What is in a concatenation is in one of its parts.
LEMMA InConcat ==
  ASSUME NEW S, NEW s \in Seq(S), NEW t \in Seq(S), NEW o
  PROVE  s \o t \in Seq(S) /\ (On(o, s \o t) <=> On(o, s) \/ On(o, t))
  <1> DEFINE u == s \o t
  <1>1. /\ u \in Seq(S) /\ Len(u) = Len(s) + Len(t)
        /\ \A i \in 1..Len(s) + Len(t) : u[i] = IF i <= Len(s) THEN s[i] ELSE t[i - Len(s)]
    BY ConcatProperties
  <1>2. Len(s) \in Nat /\ Len(t) \in Nat
    BY LenProperties
  <1> HIDE DEF u
  <1>3. ASSUME NEW i \in 1..Len(u), u[i] = o
        PROVE  (\E j \in 1..Len(s) : s[j] = o) \/ (\E j \in 1..Len(t) : t[j] = o)
    <2>1. CASE i <= Len(s)
      BY <1>1, <1>2, <1>3, <2>1
    <2>2. CASE ~(i <= Len(s))
      <3>1. i - Len(s) \in 1..Len(t) /\ t[i - Len(s)] = o
        BY <1>1, <1>2, <1>3, <2>2
      <3> QED BY <3>1
    <2> QED BY <2>1, <2>2
  <1>4. ASSUME NEW i \in 1..Len(s), s[i] = o PROVE \E j \in 1..Len(u) : u[j] = o
    <2>1. i \in 1..Len(u) /\ u[i] = o
      BY <1>1, <1>2, <1>4
    <2> QED BY <2>1
  <1>5. ASSUME NEW i \in 1..Len(t), t[i] = o PROVE \E j \in 1..Len(u) : u[j] = o
    <2>1. Len(s) + i \in 1..Len(u) /\ ~(Len(s) + i <= Len(s)) /\ (Len(s) + i) - Len(s) = i
      BY <1>1, <1>2, <1>5
    <2>2. u[Len(s) + i] = o
      BY <1>1, <1>5, <2>1
    <2> QED BY <2>1, <2>2
  <1> QED BY <1>1, <1>3, <1>4, <1>5 DEF u, On

\* A concatenation of sequences that have nothing in common
LEMMA DistinctConcat ==
  ASSUME NEW S, NEW s \in Seq(S), NEW t \in Seq(S), Distinct(s), Distinct(t),
         \A o : ~(On(o, s) /\ On(o, t))
  PROVE  Distinct(s \o t)
  <1> DEFINE u == s \o t
  <1>1. /\ Len(u) = Len(s) + Len(t)
        /\ \A i \in 1..Len(s) + Len(t) : u[i] = IF i <= Len(s) THEN s[i] ELSE t[i - Len(s)]
    BY ConcatProperties
  <1>2. Len(s) \in Nat /\ Len(t) \in Nat
    BY LenProperties
  <1> HIDE DEF u
  <1>3. \A i \in 1..Len(s), j \in 1..Len(t) : s[i] # t[j]
    BY DEF On
  <1>4. \A i \in 1..Len(u) : \/ i \in 1..Len(s) /\ u[i] = s[i]
                             \/ ~(i <= Len(s)) /\ i - Len(s) \in 1..Len(t) /\ u[i] = t[i - Len(s)]
    BY <1>1, <1>2
  <1>5. ASSUME NEW i \in 1..Len(u), NEW j \in 1..Len(u), u[i] = u[j] PROVE i = j
    <2>1. CASE i \in 1..Len(s) /\ u[i] = s[i]
      <3>1. CASE j \in 1..Len(s) /\ u[j] = s[j]
        BY <1>5, <2>1, <3>1 DEF Distinct
      <3>2. CASE j - Len(s) \in 1..Len(t) /\ u[j] = t[j - Len(s)]
        BY <1>3, <1>5, <2>1, <3>2
      <3> QED BY <1>4, <3>1, <3>2
    <2>2. CASE i - Len(s) \in 1..Len(t) /\ u[i] = t[i - Len(s)]
      <3>1. CASE j \in 1..Len(s) /\ u[j] = s[j]
        BY <1>3, <1>5, <2>2, <3>1
      <3>2. CASE j - Len(s) \in 1..Len(t) /\ u[j] = t[j - Len(s)]
        <4>1. i - Len(s) = j - Len(s)
          BY <1>5, <2>2, <3>2 DEF Distinct
        <4> QED BY <1>1, <1>2, <4>1
      <3> QED BY <1>4, <3>1, <3>2
    <2> QED BY <1>4, <2>1, <2>2
  <1> QED BY <1>5 DEF Distinct, u

-----------------------------------------------------------------------------
(* Enqueueing *)

\* The cell of a cycle is a cell of the array.
LEMMA CellType ==
  ASSUME NEW q \in QueueType, NEW c \in Nat
  PROVE  /\ c \div W \in Nat /\ (c \div W) % B \in 0..B-1 /\ c % W \in 0..W-1
         /\ Cell(q, c) \in Seq(Obj) /\ Len(Cell(q, c)) \in Nat
  <1>1. c \div W \in Nat /\ c % W \in 0..W-1
    BY DivMod
  <1>2. (c \div W) % B \in 0..B-1
    <2> DEFINE k == c \div W
    <2>1. k \in Nat /\ B \in Nat \ {0}
      BY <1>1, PrioQueueAssumption
    <2> HIDE DEF k
    <2>2. k % B \in 0..B-1
      BY <2>1
    <2> QED BY <2>2 DEF k
  <1>3. Cell(q, c) \in Seq(Obj)
    BY <1>1, <1>2 DEF Cell, QueueType
  <1> QED BY <1>1, <1>2, <1>3, LenProperties

\* Facts about the map of a queue
LEMMA FarType ==
  ASSUME NEW q \in QueueType
  PROVE  /\ Len(q.far) \in Nat /\ DOMAIN q.far = 1..Len(q.far)
         /\ \A i \in 1..Len(q.far) :
              /\ q.far[i] \in Nat \X Obj /\ q.far[i][1] \in Nat /\ q.far[i][2] \in Obj
              /\ q.far[i] = <<q.far[i][1], q.far[i][2]>>
  <1>1. q.far \in Seq(Nat \X Obj)
    BY DEF QueueType
  <1>2. Len(q.far) \in Nat /\ DOMAIN q.far = 1..Len(q.far)
    BY <1>1, LenProperties
  <1>3. \A i \in 1..Len(q.far) : q.far[i] \in Nat \X Obj
    BY <1>1, ElementOfSeq
  <1> QED BY <1>2, <1>3

\* A new queue holds nothing.
LEMMA EmptyHolds ==
  /\ QInv(EmptyQueue) /\ Once(EmptyQueue)
  /\ \A c \in Nat : \A o : ~Holds(EmptyQueue, c, o)
  <1> DEFINE q == EmptyQueue
  <1>1. q.far = <<>> /\ q.cur = 0
        /\ q.near = [b \in 0..B-1 |-> [off \in 0..W-1 |-> <<>>]]
    BY DEF EmptyQueue
  <1>2. q \in QueueType
    <2>1. <<>> \in Seq(Obj) /\ <<>> \in Seq(Nat \X Obj)
      OBVIOUS
    <2> QED BY <2>1 DEF EmptyQueue, QueueType
  <1>3. Len(q.far) = 0
    BY <1>1
  <1>4. QInv(q)
    BY <1>2, <1>3 DEF QInv, Sorted, Far
  <1>5. ASSUME NEW c \in Nat PROVE Cell(q, c) = <<>>
    <2>1. (c \div W) % B \in 0..B-1 /\ c % W \in 0..W-1
      BY <1>2, CellType
    <2> QED BY <1>1, <2>1 DEF Cell
  <1> HIDE DEF q
  <1>6. ASSUME NEW c \in Nat, NEW o PROVE ~Holds(q, c, o)
    <2>1. Len(Cell(q, c)) = 0
      BY <1>5
    <2> QED BY <1>3, <2>1 DEF Holds, InNear, InFar, On
  <1>7. Once(q)
    <2>1. \A c \in Nat : Len(Cell(q, c)) = 0
      BY <1>5
    <2> QED BY <1>3, <1>6, <2>1 DEF Once, Distinct, Holds
  <1> QED BY <1>4, <1>6, <1>7 DEF q

\* PrioQueue::enqueue adds the element and nothing else, in the array or in the map; if it
\* was not queued for the cycle, it is queued once.
THEOREM EnqueueAdds ==
  ASSUME NEW q, QInv(q), NEW obj \in Obj, NEW cycle \in Nat, EnqueueAllowed(q, cycle)
  PROVE  /\ QInv(Enqueue(q, obj, cycle))
         /\ Enqueue(q, obj, cycle).cur = q.cur
         /\ \A c \in Nat : \A o :
              Holds(Enqueue(q, obj, cycle), c, o) <=> Holds(q, c, o) \/ (c = cycle /\ o = obj)
         /\ Once(q) /\ ~Holds(q, cycle, obj) => Once(Enqueue(q, obj, cycle))
  <1> DEFINE new == Enqueue(q, obj, cycle)
             k == cycle \div W
  <1>0. q \in QueueType /\ q.cur \in Nat /\ B \in Nat /\ k \in Nat /\ k >= q.cur
    BY DivMod, PrioQueueAssumption DEF QInv, QueueType, EnqueueAllowed
  <1>1. CASE k < q.cur + B
    <2> DEFINE b == k % B
               off == cycle % W
               cell == <<obj>> \o q.near[b][off]
    <2>1. new = [q EXCEPT !.near = [q.near EXCEPT ![b] = [q.near[b] EXCEPT ![off] = cell]]]
      BY <1>1 DEF Enqueue, BlockEnqueue
    <2>2. b \in 0..B-1 /\ off \in 0..W-1 /\ q.near[b][off] = Cell(q, cycle) /\ Cell(q, cycle) \in Seq(Obj)
      BY <1>0, CellType DEF Cell
    <2>3. /\ cell \in Seq(Obj)
          /\ \A o : On(o, cell) <=> o = obj \/ On(o, Cell(q, cycle))
          /\ Distinct(Cell(q, cycle)) /\ ~On(obj, Cell(q, cycle)) => Distinct(cell)
      <3> DEFINE u == <<obj>>
                 t == q.near[b][off]
      <3>1. u \in Seq(Obj) /\ \A o : On(o, u) <=> o = obj
        BY DEF On
      <3>2. t \in Seq(Obj) /\ t = Cell(q, cycle)
        BY <2>2
      <3> HIDE DEF u, t
      <3>3. u \o t \in Seq(Obj) /\ \A o : On(o, u \o t) <=> On(o, u) \/ On(o, t)
        BY <3>1, <3>2, InConcat
      <3>4. ASSUME Distinct(t), ~On(obj, t) PROVE Distinct(u \o t)
        <4>1. Distinct(u)
          BY DEF Distinct, u
        <4> QED BY <3>1, <3>2, <3>4, <4>1, DistinctConcat
      <3> QED BY <3>1, <3>2, <3>3, <3>4 DEF u, t
    <2> HIDE DEF new, k, b, off, cell
    <2>4. new.cur = q.cur /\ new.far = q.far
          /\ new.near = [q.near EXCEPT ![b] = [q.near[b] EXCEPT ![off] = cell]]
      BY <1>0, <2>1 DEF QueueType
    <2>5. new \in QueueType
      <3>1. q.near \in [0..B-1 -> [0..W-1 -> Seq(Obj)]]
        BY <1>0 DEF QueueType
      <3>2. [q.near EXCEPT ![b] = [q.near[b] EXCEPT ![off] = cell]] \in [0..B-1 -> [0..W-1 -> Seq(Obj)]]
        BY <2>2, <2>3, <3>1
      <3> QED BY <1>0, <2>1, <3>2 DEF QueueType
    <2>6. QInv(new)
      BY <2>4, <2>5 DEF QInv, Sorted, Far
    <2>7. ASSUME NEW c \in Nat, c \div W \in Window(q)
          PROVE  Cell(new, c) = IF c = cycle THEN cell ELSE Cell(q, c)
      <3>1. (c \div W) % B \in 0..B-1 /\ c % W \in 0..W-1 /\ c \div W \in Nat
        BY <1>0, CellType
      <3>2. q.near \in [0..B-1 -> [0..W-1 -> Seq(Obj)]]
        BY <1>0 DEF QueueType
      <3>3. Cell(new, c) = IF (c \div W) % B = b /\ c % W = off THEN cell ELSE Cell(q, c)
        <4> DEFINE x == (c \div W) % B
                   y == c % W
        <4>1. Cell(new, c) = new.near[x][y] /\ Cell(q, c) = q.near[x][y]
          BY DEF Cell
        <4>2. x \in 0..B-1 /\ y \in 0..W-1
          BY <3>1
        <4> HIDE DEF x, y
        <4> DEFINE row == [q.near[b] EXCEPT ![off] = cell]
        <4>a. row[off] = cell /\ (y # off => row[y] = q.near[b][y])
          BY <2>2, <3>2, <4>2
        <4>b. new.near = [q.near EXCEPT ![b] = row]
          BY <2>4
        <4> HIDE DEF row
        <4>c. new.near[x] = IF x = b THEN row ELSE q.near[x]
          BY <3>2, <4>2, <4>b
        <4>3. new.near[x][y] = IF x = b /\ y = off THEN cell ELSE q.near[x][y]
          BY <4>a, <4>c
        <4> QED BY <4>1, <4>3 DEF x, y
      <3>4. ASSUME (c \div W) % B = b, c % W = off PROVE c = cycle
        <4>1. k \in Window(q)
          BY <1>0, <1>1 DEF Window
        <4>2. c \div W = k
          BY <1>0, <2>7, <3>4, <4>1, WindowUnique DEF Window, b
        <4> QED BY <3>4, <4>2, SameCycle DEF k, off
      <3> QED BY <3>3, <3>4 DEF b, off, k
    <2>8. ASSUME NEW c \in Nat, NEW o
          PROVE  Holds(new, c, o) <=> Holds(q, c, o) \/ (c = cycle /\ o = obj)
      <3>1. InFar(new, c, o) <=> InFar(q, c, o)
        BY <2>4 DEF InFar
      <3>2. Window(new) = Window(q)
        BY <2>4 DEF Window
      <3>3. cycle \div W \in Window(q)
        BY <1>0, <1>1 DEF Window, k
      <3>4. CASE c = cycle
        <4>1. Cell(new, c) = cell
          BY <2>7, <3>3, <3>4
        <4>2. InNear(new, c, o) <=> InNear(q, c, o) \/ o = obj
          BY <2>3, <3>2, <3>3, <3>4, <4>1 DEF InNear
        <4> QED BY <3>1, <3>4, <4>2 DEF Holds
      <3>5. CASE c # cycle
        <4>1. InNear(new, c, o) <=> InNear(q, c, o)
          BY <2>7, <3>2, <3>5 DEF InNear
        <4> QED BY <3>1, <3>5, <4>1 DEF Holds
      <3> QED BY <3>4, <3>5
    <2>9. ASSUME Once(q), ~Holds(q, cycle, obj) PROVE Once(new)
      <3>1. Window(new) = Window(q)
        BY <2>4 DEF Window
      <3>2. cycle \div W \in Window(q)
        BY <1>0, <1>1 DEF Window, k
      <3>3. Distinct(cell)
        BY <2>3, <2>9, <3>2 DEF Once, Holds, InNear
      <3>4. ASSUME NEW c \in Nat, c \div W \in Window(q) PROVE Distinct(Cell(new, c))
        BY <2>7, <2>9, <3>3, <3>4 DEF Once
      <3>5. ASSUME NEW c \in Nat, NEW o, InNear(new, c, o), InFar(new, c, o) PROVE FALSE
        <4>1. InFar(q, c, o)
          BY <2>4, <3>5 DEF InFar
        <4>2. c \div W \in Window(q) /\ On(o, Cell(new, c))
          BY <3>1, <3>5 DEF InNear
        <4>3. InNear(q, c, o) \/ (c = cycle /\ o = obj)
          BY <2>3, <2>7, <4>2 DEF InNear
        <4> QED BY <2>9, <4>1, <4>3 DEF Once, Holds
      <3> QED BY <2>4, <2>9, <3>1, <3>4, <3>5 DEF Once
    <2> QED BY <2>4, <2>6, <2>8, <2>9 DEF new
  <1>2. CASE ~(k < q.cur + B)
    <2> DEFINE before == {i \in DOMAIN q.far : q.far[i][1] <= cycle}
               e == <<cycle, obj>>
               n == Len(q.far)
    <2>1. new = [q EXCEPT !.far = InsertAt(@, Cardinality(before) + 1, e)]
      BY <1>2 DEF Enqueue
    <2>2. q.far \in Seq(Nat \X Obj) /\ n \in Nat /\ DOMAIN q.far = 1..n
          /\ \A i \in 1..n : q.far[i][1] \in Nat
      BY <1>0, FarType DEF QueueType
    <2>3. PICK p \in 0..n : before = 1..p /\ Cardinality(before) = p
      <3>1. \A i, j \in 1..n : i <= j => q.far[i][1] <= q.far[j][1]
        BY DEF QInv, Sorted
      <3>2. \E p \in 0..n : {i \in DOMAIN q.far : q.far[i][1] < cycle + 1} = 1..p
                          /\ Cardinality({i \in DOMAIN q.far : q.far[i][1] < cycle + 1}) = p
        <4> DEFINE s == q.far
                   x == cycle + 1
        <4>1. s \in Seq(Nat \X Obj) /\ x \in Nat /\ \A i, j \in 1..Len(s) : i <= j => s[i][1] <= s[j][1]
          BY <2>2, <3>1
        <4> HIDE DEF s, x
        <4>2. \E p \in 0..Len(s) : {i \in DOMAIN s : s[i][1] < x} = 1..p
                                   /\ Cardinality({i \in DOMAIN s : s[i][1] < x}) = p
          BY <4>1, Prefix
        <4> QED BY <4>2 DEF s, x
      <3>3. {i \in DOMAIN q.far : q.far[i][1] < cycle + 1} = before
        BY <2>2
      <3> HIDE DEF before
      <3> QED BY <3>2, <3>3
    <2>4. \A i \in 1..n : q.far[i][1] <= cycle <=> i \in 1..p
      <3> SUFFICES ASSUME NEW i \in 1..n PROVE q.far[i][1] <= cycle <=> i \in 1..p
        OBVIOUS
      <3>1. i \in before <=> q.far[i][1] <= cycle
        BY <2>2
      <3> HIDE DEF before
      <3> QED BY <2>3, <3>1
    <2> DEFINE far == InsertAt(q.far, p + 1, e)
    <2>5. /\ far \in Seq(Nat \X Obj) /\ Len(far) = n + 1
          /\ \A i \in 1..p : far[i] = q.far[i]
          /\ far[p + 1] = e
          /\ \A i \in p + 1..n : far[i + 1] = q.far[i]
      <3>1. e \in Nat \X Obj
        OBVIOUS
      <3>2. q.far \in Seq(Nat \X Obj) /\ p \in 0..Len(q.far)
        BY <2>2, <2>3
      <3> HIDE DEF e
      <3>3. far = InsertAt(q.far, p + 1, e)
        OBVIOUS
      <3> HIDE DEF far
      <3> DEFINE s == q.far
      <3>4. s \in Seq(Nat \X Obj) /\ p \in 0..Len(s) /\ far = InsertAt(s, p + 1, e)
        BY <3>2, <3>3
      <3> HIDE DEF s
      <3>5. far \in Seq(Nat \X Obj) /\ Inserted(far, s, p, e)
        BY <3>1, <3>4, InsertAtProperties
      <3> QED BY <3>5 DEF s, Inserted
    <2>a. ASSUME NEW i \in 1..n + 1
          PROVE  i \in 1..p \/ i = p + 1 \/ \E j \in p + 1..n : i = j + 1
      <3>1. CASE i > p + 1
        <4>1. i - 1 \in p + 1..n /\ i = (i - 1) + 1
          BY <2>2, <3>1
        <4> QED BY <4>1
      <3> QED BY <2>2, <3>1
    <2>6. new = [q EXCEPT !.far = far]
      BY <2>1, <2>3
    <2> HIDE DEF new, before, far, n, k
    <2>7. new \in QueueType /\ new.cur = q.cur /\ new.near = q.near /\ new.far = far
      BY <1>0, <2>5, <2>6 DEF QueueType
    <2>8. e[1] = cycle /\ e[2] = obj
      OBVIOUS
    <2> HIDE DEF e
    <2>9. Sorted(new)
      <3> SUFFICES ASSUME NEW i \in 1..n + 1, NEW j \in 1..n + 1, i <= j
                   PROVE  far[i][1] <= far[j][1]
        BY <2>5, <2>7 DEF Sorted
      <3>1. \A x, y \in 1..n : x <= y => q.far[x][1] <= q.far[y][1]
        BY DEF QInv, Sorted, n
      <3>2. i \in 1..p \/ i = p + 1 \/ \E x \in p + 1..n : i = x + 1
        BY <2>a
      <3>3. j \in 1..p \/ j = p + 1 \/ \E x \in p + 1..n : j = x + 1
        BY <2>a
      <3>4. \A x \in 1..p : x \in 1..n /\ far[x][1] = q.far[x][1] /\ q.far[x][1] <= cycle
        BY <2>2, <2>4, <2>5
      <3>5. far[p + 1][1] = cycle
        BY <2>5, <2>8
      <3>6. \A x \in p + 1..n : /\ x \in 1..n /\ far[x + 1][1] = q.far[x][1]
                               /\ cycle <= q.far[x][1] /\ q.far[x][1] \in Nat
        <4> SUFFICES ASSUME NEW x \in p + 1..n
                     PROVE  /\ x \in 1..n /\ far[x + 1][1] = q.far[x][1]
                            /\ cycle <= q.far[x][1] /\ q.far[x][1] \in Nat
          OBVIOUS
        <4>1. x \in 1..n /\ x \notin 1..p /\ q.far[x][1] \in Nat
          BY <2>2
        <4>2. ~(q.far[x][1] <= cycle)
          BY <2>4, <4>1
        <4>3. cycle <= q.far[x][1]
          BY <4>1, <4>2
        <4>4. far[x + 1] = q.far[x]
          BY <2>5
        <4> QED BY <4>1, <4>3, <4>4
      <3>7. CASE i \in 1..p
        <4>1. CASE j \in 1..p
          BY <3>1, <3>4, <3>7, <4>1
        <4>2. CASE j = p + 1
          BY <3>4, <3>5, <3>7, <4>2
        <4>3. ASSUME NEW x \in p + 1..n, j = x + 1 PROVE far[i][1] <= far[j][1]
          <5>1. i \in 1..n /\ x \in 1..n /\ i <= x
            BY <2>2, <3>7, <4>3
          <5>2. q.far[i][1] <= q.far[x][1]
            BY <3>1, <5>1
          <5> QED BY <3>4, <3>6, <3>7, <4>3, <5>2
        <4> QED BY <3>3, <4>1, <4>2, <4>3
      <3>8. CASE i = p + 1
        <4>1. CASE j = p + 1
          BY <3>5, <3>8, <4>1
        <4>2. ASSUME NEW x \in p + 1..n, j = x + 1 PROVE far[i][1] <= far[j][1]
          BY <3>5, <3>6, <3>8, <4>2
        <4>3. j \notin 1..p
          BY <2>2, <3>8
        <4> QED BY <3>3, <4>1, <4>2, <4>3
      <3>9. ASSUME NEW x \in p + 1..n, i = x + 1 PROVE far[i][1] <= far[j][1]
        <4>1. PICK y \in p + 1..n : j = y + 1
          BY <2>2, <3>3, <3>9
        <4>2. x <= y /\ x \in 1..n /\ y \in 1..n
          BY <2>2, <3>9, <4>1
        <4>3. q.far[x][1] <= q.far[y][1]
          BY <3>1, <4>2
        <4> QED BY <3>6, <3>9, <4>1, <4>3
      <3> QED BY <3>2, <3>7, <3>8, <3>9
    <2>10. Far(new)
      <3> SUFFICES ASSUME NEW i \in 1..n + 1
                   PROVE  far[i][1] \div W >= (q.cur - (q.cur % H)) + B
        BY <2>5, <2>7 DEF Far
      <3>1. \A x \in 1..n : q.far[x][1] \div W >= (q.cur - (q.cur % H)) + B
        BY DEF QInv, Far, n
      <3>2. CASE i \in 1..p
        <4>1. i \in 1..n
          BY <2>2, <3>2
        <4>2. far[i] = q.far[i]
          BY <2>5, <3>2
        <4> QED BY <3>1, <4>1, <4>2
      <3>3. CASE i = p + 1
        <4>1. far[i][1] = cycle
          BY <2>2, <2>5, <2>8, <3>3
        <4>2. q.cur % H \in 0..H-1 /\ H \in Nat
          BY <1>0, HalfStart, HalfType
        <4>3. k >= (q.cur - (q.cur % H)) + B
          BY <1>0, <1>2, <4>2
        <4> QED BY <4>1, <4>3 DEF k
      <3>4. ASSUME NEW j \in p + 1..n, i = j + 1
            PROVE  far[i][1] \div W >= (q.cur - (q.cur % H)) + B
        <4>1. j \in 1..n
          BY <2>2
        <4>2. far[j + 1] = q.far[j]
          BY <2>5
        <4> QED BY <3>1, <3>4, <4>1, <4>2
      <3> QED BY <2>a, <3>2, <3>3, <3>4
    <2>11. ASSUME NEW c \in Nat, NEW o
           PROVE  Holds(new, c, o) <=> Holds(q, c, o) \/ (c = cycle /\ o = obj)
      <3>1. InNear(new, c, o) <=> InNear(q, c, o)
        BY <2>7 DEF InNear, Window, Cell
      <3>2. ASSUME NEW i \in 1..n + 1, far[i] = <<c, o>>
            PROVE  (\E j \in 1..n : q.far[j] = <<c, o>>) \/ (c = cycle /\ o = obj)
        <4>1. CASE i \in 1..p
          <5>1. i \in 1..n
            BY <2>2, <4>1
          <5>2. far[i] = q.far[i]
            BY <2>5, <4>1
          <5> QED BY <3>2, <5>1, <5>2
        <4>2. CASE i = p + 1
          BY <2>5, <3>2, <4>2 DEF e
        <4>3. ASSUME NEW j \in p + 1..n, i = j + 1 PROVE \E x \in 1..n : q.far[x] = <<c, o>>
          <5>1. j \in 1..n
            BY <2>2
          <5>2. far[j + 1] = q.far[j]
            BY <2>5
          <5> QED BY <3>2, <4>3, <5>1, <5>2
        <4> QED BY <2>a, <4>1, <4>2, <4>3
      <3>3. ASSUME NEW j \in 1..n, q.far[j] = <<c, o>> PROVE \E i \in 1..n + 1 : far[i] = <<c, o>>
        <4>1. CASE j \in 1..p
          <5>1. j \in 1..n + 1
            BY <2>2
          <5>2. far[j] = q.far[j]
            BY <2>5, <4>1
          <5> QED BY <3>3, <5>1, <5>2
        <4>2. CASE j \notin 1..p
          <5>1. j \in p + 1..n /\ j + 1 \in 1..n + 1
            BY <2>2, <4>2
          <5>2. far[j + 1] = q.far[j]
            BY <2>5, <5>1
          <5> QED BY <3>3, <5>1, <5>2
        <4> QED BY <4>1, <4>2
      <3>4. ASSUME c = cycle, o = obj PROVE \E i \in 1..n + 1 : far[i] = <<c, o>>
        <4>1. p + 1 \in 1..n + 1 /\ ~(p + 1 <= p)
          BY <2>2
        <4>2. far[p + 1] = e
          BY <2>5, <4>1
        <4> QED BY <3>4, <4>1, <4>2 DEF e
      <3>5. InFar(new, c, o) <=> InFar(q, c, o) \/ (c = cycle /\ o = obj)
        BY <2>5, <2>7, <3>2, <3>3, <3>4 DEF InFar, n
      <3> QED BY <3>1, <3>5 DEF Holds
    <2>12. ASSUME Once(q), ~Holds(q, cycle, obj) PROVE Once(new)
      <3>1. \A j \in 1..n : q.far[j] # e
        BY <2>12 DEF Holds, InFar, e, n
      <3>2. \A x, y \in 1..n : q.far[x] = q.far[y] => x = y
        BY <2>12 DEF Once, Distinct, n
      <3> DEFINE Of(i) == IF i <= p THEN i ELSE i - 1
      <3>3. ASSUME NEW i \in 1..n + 1, i # p + 1 PROVE Of(i) \in 1..n /\ far[i] = q.far[Of(i)]
        <4>1. CASE i \in 1..p
          <5>1. i \in 1..n /\ Of(i) = i
            BY <2>2, <4>1
          <5>2. far[i] = q.far[i]
            BY <2>5, <4>1
          <5> QED BY <5>1, <5>2
        <4>2. CASE i \notin 1..p
          <5>1. i - 1 \in p + 1..n /\ (i - 1) + 1 = i /\ Of(i) = i - 1
            BY <2>2, <3>3, <4>2
          <5>2. far[(i - 1) + 1] = q.far[i - 1]
            BY <2>5, <5>1
          <5> QED BY <2>2, <5>1, <5>2
        <4> QED BY <4>1, <4>2
      <3>4. ASSUME NEW i \in 1..n + 1, NEW j \in 1..n + 1, far[i] = far[j] PROVE i = j
        <4>1. CASE i = p + 1 \/ j = p + 1
          <5> HIDE DEF Of
          <5>1. far[p + 1] = e
            BY <2>5
          <5>2. \A x \in 1..n + 1 : x # p + 1 => far[x] # e
            BY <3>1, <3>3
          <5> QED BY <3>4, <4>1, <5>1, <5>2
        <4>2. CASE i # p + 1 /\ j # p + 1
          <5>1. Of(i) = Of(j)
            BY <3>2, <3>3, <3>4, <4>2
          <5> QED BY <2>2, <4>2, <5>1
        <4> QED BY <4>1, <4>2
      <3>5. Distinct(new.far)
        BY <2>5, <2>7, <3>4 DEF Distinct
      <3>6. \A c \in Nat : c \div W \in Window(new) => Distinct(Cell(new, c))
        BY <2>7, <2>12 DEF Once, Window, Cell
      <3>7. ASSUME NEW c \in Nat, NEW o, InNear(new, c, o), InFar(new, c, o) PROVE FALSE
        <4>1. InNear(q, c, o)
          BY <2>7, <3>7 DEF InNear, Window, Cell
        <4>2. ~InFar(q, c, o)
          BY <2>12, <4>1 DEF Once
        <4>3. Holds(new, c, o)
          BY <3>7 DEF Holds
        <4>4. PICK i \in 1..n + 1 : far[i] = <<c, o>>
          BY <2>5, <2>7, <3>7 DEF InFar
        <4>5. i = p + 1
          BY <3>3, <4>2, <4>4 DEF InFar, n
        <4>6. c = cycle /\ o = obj
          BY <2>5, <4>4, <4>5 DEF e
        <4> QED BY <2>12, <4>1, <4>6 DEF Holds
      <3> QED BY <3>5, <3>6, <3>7 DEF Once
    <2> QED BY <2>7, <2>9, <2>10, <2>11, <2>12 DEF QInv, new
  <1> QED BY <1>1, <1>2

-----------------------------------------------------------------------------
(* The next block *)

\* The places in the map of the elements that move into the array, those of them that go to
\* one cell, and the stack they make there
Moved(q) ==
    IF (q.cur + 1) % H = 0
    THEN {i \in DOMAIN q.far : q.far[i][1] < ((q.cur + 1) + B) * W} ELSE {}
MovedTo(q, b, off) ==
    {i \in Moved(q) : (q.far[i][1] \div W) % B = b /\ q.far[i][1] % W = off}
Pushed(q, M) == [n \in 1..Cardinality(M) |-> q.far[Max(M) + 1 - n][2]]

\* The window of the next block
NextWindow(q) == q.cur + 1 .. q.cur + 1 + B - 1

\* The parts of the next queue (a turn of PrioQueue::dequeue's loop)
LEMMA NextParts ==
  ASSUME NEW q
  PROVE  /\ NextBlock(q).cur = q.cur + 1
         /\ NextBlock(q).near =
              [b \in 0..B-1 |-> [off \in 0..W-1 |-> Pushed(q, MovedTo(q, b, off)) \o q.near[b][off]]]
         /\ NextBlock(q).far = SubSeq(q.far, Cardinality(Moved(q)) + 1, Len(q.far))
  BY DEF NextBlock, Pushed, MovedTo, Moved, H

\* The elements that move are the first of the map; they fit into the next window, and
\* the others are later than the half that it starts with.
LEMMA MovedPrefix ==
  ASSUME NEW q, QInv(q)
  PROVE  \E m \in 0..Len(q.far) :
           /\ Moved(q) = 1..m /\ Cardinality(Moved(q)) = m
           /\ \A i \in 1..m : q.far[i][1] \div W \in NextWindow(q)
           /\ \A i \in m + 1..Len(q.far) :
                q.far[i][1] \div W >= ((q.cur + 1) - ((q.cur + 1) % H)) + B
  <1> DEFINE s == q.far
             next == q.cur + 1
             key(i) == s[i][1] \div W
  <1>1. q \in QueueType /\ q.cur \in Nat /\ next \in Nat /\ B \in Nat /\ next + B \in Nat
    BY HalfType DEF QInv, QueueType
  <1>2. s \in Seq(Nat \X Obj) /\ Len(s) \in Nat /\ DOMAIN s = 1..Len(s)
        /\ \A i \in 1..Len(s) : s[i][1] \in Nat
    BY <1>1, FarType DEF QueueType
  <1>3. \A i, j \in 1..Len(s) : i <= j => s[i][1] <= s[j][1]
    BY DEF QInv, Sorted
  <1>4. \A i \in 1..Len(s) : key(i) \in Nat
    BY <1>2, DivMod
  <1>5. \A i \in 1..Len(s) : key(i) >= (q.cur - (q.cur % H)) + B
    BY DEF QInv, Far
  <1>6. /\ q.cur % H \in 0..H-1 /\ H \in Nat \ {0} /\ B = H + H
        /\ next % H = 0 => q.cur - (q.cur % H) = next - H
        /\ next % H # 0 => next - (next % H) = q.cur - (q.cur % H)
    <2> DEFINE n == q.cur
    <2>1. n \in Nat
      BY <1>1
    <2> HIDE DEF n
    <2>2. /\ n % H \in 0..H-1
          /\ (n + 1) % H = 0 => n - (n % H) = n + 1 - H
          /\ (n + 1) % H # 0 => (n + 1) - ((n + 1) % H) = n - (n % H)
      BY <2>1, HalfStart
    <2>3. n + 1 - H = (n + 1) - H
      BY <2>1, HalfType
    <2> QED BY <2>2, <2>3, HalfType DEF n
  <1>7. \A i \in 1..Len(s) : s[i][1] < (next + B) * W <=> key(i) < next + B
    BY <1>1, <1>2, BeforeBlock
  <1>8. Moved(q) = IF next % H = 0 THEN {i \in DOMAIN s : s[i][1] < (next + B) * W} ELSE {}
    BY DEF Moved
  <1>9. NextWindow(q) = next..next + B - 1
    BY DEF NextWindow
  <1>a. CASE next % H = 0
    <2> DEFINE x == (next + B) * W
    <2>1. x \in Nat
      BY <1>1, PrioQueueAssumption
    <2>2. PICK m \in 0..Len(s) : {i \in DOMAIN s : s[i][1] < x} = 1..m
                                 /\ Cardinality({i \in DOMAIN s : s[i][1] < x}) = m
      <3> HIDE DEF s, x
      <3> QED BY <1>2, <1>3, <2>1, Prefix
    <2>3. Moved(q) = 1..m /\ Cardinality(Moved(q)) = m
      BY <1>8, <1>a, <2>2
    <2>4. \A i \in 1..Len(s) : i \in 1..m <=> key(i) < next + B
      <3> SUFFICES ASSUME NEW i \in 1..Len(s) PROVE i \in 1..m <=> key(i) < next + B
        OBVIOUS
      <3>1. i \in {j \in DOMAIN s : s[j][1] < x} <=> s[i][1] < x
        BY <1>2
      <3> HIDE DEF s, key
      <3> QED BY <1>7, <2>2, <3>1
    <2> HIDE DEF s, key, next, x
    <2>5. ASSUME NEW i \in 1..m PROVE key(i) \in next..next + B - 1
      <3>1. i \in 1..Len(s) /\ key(i) \in Nat /\ key(i) < next + B
        BY <1>2, <1>4, <2>4
      <3>2. key(i) >= (next - H) + B
        BY <1>5, <1>6, <1>a, <3>1
      <3> QED BY <1>1, <1>6, <3>1, <3>2
    <2>6. ASSUME NEW i \in m + 1..Len(s) PROVE key(i) >= (next - (next % H)) + B
      <3>1. i \in 1..Len(s) /\ i \notin 1..m
        BY <1>2
      <3>2. key(i) >= next + B
        BY <1>1, <1>4, <2>4, <3>1
      <3> QED BY <1>1, <1>a, <3>2
    <2> QED BY <1>9, <2>3, <2>5, <2>6 DEF s, key, next
  <1>b. CASE next % H # 0
    <2>1. Moved(q) = 1..0 /\ Cardinality(Moved(q)) = 0
      BY <1>8, <1>b, FS_EmptySet
    <2>2. \A i \in 0 + 1..Len(s) : key(i) >= (next - (next % H)) + B
      BY <1>5, <1>6, <1>b
    <2>3. 0 \in 0..Len(s)
      BY <1>2
    <2> QED BY <2>1, <2>2, <2>3
  <1> QED BY <1>a, <1>b

\* The places of the elements of a cycle among the first m of the map
OfCycle(q, c, m) == {i \in 1..m : q.far[i][1] = c}

\* The elements of a cycle are next to each other in the map.
LEMMA Run ==
  ASSUME NEW q, QInv(q), NEW c \in Nat, NEW m \in 0..Len(q.far)
  PROVE  \E l, h \in Nat : l <= h /\ h <= m /\ OfCycle(q, c, m) = l + 1..h
  <1> DEFINE s == q.far
             le(x) == {i \in DOMAIN s : s[i][1] < x}
  <1>1. s \in Seq(Nat \X Obj) /\ Len(s) \in Nat /\ DOMAIN s = 1..Len(s)
        /\ \A i \in 1..Len(s) : s[i][1] \in Nat
    BY FarType DEF QueueType, QInv
  <1>2. \A i, j \in 1..Len(s) : i <= j => s[i][1] <= s[j][1]
    BY DEF QInv, Sorted
  <1>3. ASSUME NEW x \in Nat PROVE \E p \in 0..Len(s) : le(x) = 1..p
    <2> HIDE DEF s
    <2>1. \E p \in 0..Len(s) : {i \in DOMAIN s : s[i][1] < x} = 1..p
                               /\ Cardinality({i \in DOMAIN s : s[i][1] < x}) = p
      BY <1>1, <1>2, Prefix
    <2> QED BY <2>1
  <1>4. PICK a \in 0..Len(s) : le(c) = 1..a
    BY <1>3
  <1>5. PICK b \in 0..Len(s) : le(c + 1) = 1..b
    <2>1. c + 1 \in Nat
      OBVIOUS
    <2> HIDE DEF le
    <2> QED BY <1>3, <2>1
  <1>6. \A i \in 1..Len(s) : /\ s[i][1] < c <=> i <= a
                             /\ s[i][1] <= c <=> i <= b
    <2> SUFFICES ASSUME NEW i \in 1..Len(s)
                 PROVE  (s[i][1] < c <=> i <= a) /\ (s[i][1] <= c <=> i <= b)
      OBVIOUS
    <2>1. i \in le(c) <=> s[i][1] < c
      BY <1>1
    <2>2. i \in le(c + 1) <=> s[i][1] <= c
      BY <1>1
    <2> HIDE DEF le, s
    <2> QED BY <1>1, <1>4, <1>5, <2>1, <2>2
  <1> HIDE DEF le
  <1> DEFINE run == {i \in 1..m : s[i][1] = c}
             h == IF b <= m THEN b ELSE m
             l == IF a <= h THEN a ELSE h
  <1>7. h \in Nat /\ l \in Nat /\ l <= h /\ h <= m
    BY <1>1
  <1>8. \A i \in 1..m : s[i][1] = c <=> i > a /\ i <= b
    <2> SUFFICES ASSUME NEW i \in 1..m PROVE s[i][1] = c <=> i > a /\ i <= b
      OBVIOUS
    <2>1. i \in 1..Len(s) /\ s[i][1] \in Nat
      BY <1>1
    <2> HIDE DEF s
    <2> QED BY <1>1, <1>6, <2>1
  <1>9. run = l + 1..h
    <2> HIDE DEF s
    <2>1. ASSUME NEW i \in run PROVE i \in l + 1..h
      BY <1>1, <1>8
    <2>2. ASSUME NEW i \in l + 1..h PROVE i \in run
      BY <1>1, <1>7, <1>8
    <2> QED BY <2>1, <2>2
  <1>10. OfCycle(q, c, m) = run
    BY DEF OfCycle
  <1> HIDE DEF run, h, l
  <1> QED BY <1>7, <1>9, <1>10

\* A run of the map, pushed from its first element to its last
LEMMA PushedRun ==
  ASSUME NEW q \in QueueType, NEW l \in Nat, NEW h \in Nat, l <= h, h <= Len(q.far)
  PROVE  /\ Pushed(q, l + 1..h) \in Seq(Obj)
         /\ \A o : On(o, Pushed(q, l + 1..h)) <=> \E i \in l + 1..h : q.far[i][2] = o
         /\ Distinct(Pushed(q, l + 1..h)) <=>
              \A i, j \in l + 1..h : q.far[i][2] = q.far[j][2] => i = j
  <1> DEFINE M == l + 1..h
             s == q.far
             u == Pushed(q, M)
             n == h - l
  <1>1. Len(s) \in Nat /\ \A i \in 1..Len(s) : s[i][2] \in Obj
    BY FarType
  <1>2. Cardinality(M) = n /\ n \in Nat
    <2> DEFINE a == l + 1
    <2>1. a \in Int /\ h \in Int
      OBVIOUS
    <2>2. M = a..h
      OBVIOUS
    <2> HIDE DEF a, M
    <2>3. Cardinality(a..h) = IF a > h THEN 0 ELSE h - a + 1
      BY <2>1, FS_Interval
    <2> QED BY <2>2, <2>3 DEF a
  <1>3. ASSUME n # 0 PROVE Max(M) = h
    <2>1. h \in M /\ \A y \in M : h >= y
      BY <1>1, <1>2, <1>3
    <2>2. \A x \in M : (\A y \in M : x >= y) => x = h
      BY <1>1, <2>1
    <2> QED BY <2>1, <2>2 DEF Max
  <1>4. u = [i \in 1..n |-> s[h + 1 - i][2]]
    <2>1. CASE n = 0
      <3>1. \A i \in 1..n : FALSE
        BY <2>1
      <3> QED BY <1>2, <3>1 DEF Pushed
    <2>2. CASE n # 0
      BY <1>2, <1>3, <2>2 DEF Pushed
    <2> QED BY <2>1, <2>2
  <1>5. \A i \in 1..n : h + 1 - i \in M /\ h + 1 - i \in 1..Len(s)
    BY <1>1, <1>2
  <1> HIDE DEF u, s
  <1>6. u \in Seq(Obj) /\ Len(u) = n
    <2>1. \A i \in 1..n : s[h + 1 - i][2] \in Obj
      BY <1>1, <1>5
    <2>2. u \in [1..n -> Obj]
      BY <1>4, <2>1
    <2>3. u \in Seq(Obj)
      BY <1>2, <2>2, SeqDef
    <2>4. DOMAIN u = 1..n
      BY <1>4
    <2>5. DOMAIN u = 1..Len(u) /\ Len(u) \in Nat
      BY <2>3, LenProperties
    <2> QED BY <1>2, <2>3, <2>4, <2>5
  <1>7. ASSUME NEW o, NEW i \in 1..n, u[i] = o PROVE \E j \in M : s[j][2] = o
    <2>1. u[i] = s[h + 1 - i][2]
      BY <1>4
    <2> QED BY <1>5, <1>7, <2>1
  <1>8. ASSUME NEW o, NEW j \in M, s[j][2] = o PROVE \E i \in 1..n : u[i] = o
    <2> DEFINE i == h + 1 - j
    <2>1. i \in 1..n /\ h + 1 - i = j
      BY <1>1, <1>2
    <2>2. u[i] = s[j][2]
      <3> HIDE DEF i
      <3> QED BY <1>4, <2>1
    <2> QED BY <1>8, <2>1, <2>2
  <1>9. ASSUME Distinct(u), NEW i \in M, NEW j \in M, s[i][2] = s[j][2] PROVE i = j
    <2>1. /\ h + 1 - i \in 1..n /\ h + 1 - (h + 1 - i) = i
          /\ h + 1 - j \in 1..n /\ h + 1 - (h + 1 - j) = j
      BY <1>1, <1>2
    <2> DEFINE x == h + 1 - i
               y == h + 1 - j
    <2>2. u[x] = s[h + 1 - x][2] /\ u[y] = s[h + 1 - y][2]
      <3>1. x \in 1..n /\ y \in 1..n
        BY <2>1
      <3> HIDE DEF x, y
      <3> QED BY <1>4, <3>1
    <2>3. x = y
      BY <1>6, <1>9, <2>1, <2>2 DEF Distinct
    <2> QED BY <2>1, <2>3
  <1>10. ASSUME \A i, j \in M : s[i][2] = s[j][2] => i = j,
                NEW i \in 1..n, NEW j \in 1..n, u[i] = u[j]
         PROVE  i = j
    <2>1. u[i] = s[h + 1 - i][2] /\ u[j] = s[h + 1 - j][2]
      BY <1>4
    <2>2. h + 1 - i = h + 1 - j
      BY <1>5, <1>10, <2>1
    <2> QED BY <1>1, <1>2, <2>2
  <1> HIDE DEF M
  <1> QED BY <1>6, <1>7, <1>8, <1>9, <1>10 DEF On, Distinct, u, s, M

\* The elements that move to the cell of a cycle of the next window are those of the cycle.
LEMMA MovedOfCycle ==
  ASSUME NEW q, QInv(q), NEW c \in Nat, c \div W \in NextWindow(q),
         NEW m \in 0..Len(q.far), Moved(q) = 1..m,
         \A i \in 1..m : q.far[i][1] \div W \in NextWindow(q)
  PROVE  MovedTo(q, (c \div W) % B, c % W) = OfCycle(q, c, m)
  <1>1. q.cur + 1 \in Nat /\ Len(q.far) \in Nat
    BY FarType DEF QInv, QueueType
  <1>2. ASSUME NEW i \in 1..m, (q.far[i][1] \div W) % B = (c \div W) % B, q.far[i][1] % W = c % W
        PROVE  q.far[i][1] = c
    <2> DEFINE d == q.far[i][1]
               n == q.cur + 1
               k == d \div W
               l == c \div W
    <2>1. i \in 1..Len(q.far) /\ d \in Nat
      BY <1>1, FarType DEF QInv
    <2>2. k \in n..n+B-1 /\ l \in n..n+B-1 /\ n \in Nat /\ k % B = l % B
      BY <1>1, <1>2 DEF NextWindow
    <2>3. k = l
      <3> HIDE DEF k, l, n
      <3> QED BY <2>2, WindowUnique
    <2>4. d % W = c % W
      BY <1>2
    <2> HIDE DEF d
    <2>5. d = c
      BY <2>1, <2>3, <2>4, SameCycle
    <2> QED BY <2>5 DEF d
  <1> QED BY <1>2 DEF MovedTo, OfCycle

\* A cell of the next window gets the elements of its cycle that move, on top of those that
\* it has.
LEMMA NextCell ==
  ASSUME NEW q, QInv(q), NEW c \in Nat, c \div W \in NextWindow(q)
  PROVE  /\ Cell(NextBlock(q), c) \in Seq(Obj)
         /\ Cell(NextBlock(q), c) = NextBlock(q).near[(c \div W) % B][c % W]
         /\ \A o : On(o, Cell(NextBlock(q), c)) <=>
                     \/ \E i \in Moved(q) : q.far[i] = <<c, o>>
                     \/ On(o, Cell(q, c))
         /\ /\ Distinct(q.far) /\ Distinct(Cell(q, c))
            /\ \A o : ~(On(o, Cell(q, c)) /\ InFar(q, c, o))
            => Distinct(Cell(NextBlock(q), c))
  <1>1. q \in QueueType
    BY DEF QInv
  <1>2. PICK m \in 0..Len(q.far) :
          Moved(q) = 1..m /\ \A i \in 1..m : q.far[i][1] \div W \in NextWindow(q)
    BY MovedPrefix
  <1> DEFINE b == (c \div W) % B
             off == c % W
             M == MovedTo(q, b, off)
             u == Pushed(q, M)
             t == Cell(q, c)
  <1>3. M = OfCycle(q, c, m)
    BY <1>2, MovedOfCycle
  <1>4. Len(q.far) \in Nat
    BY <1>1, FarType
  <1>5. PICK l \in Nat, h \in Nat : l <= h /\ h <= m /\ M = l + 1..h
    <2>1. \E l, h \in Nat : l <= h /\ h <= m /\ OfCycle(q, c, m) = l + 1..h
      BY <1>2, Run
    <2> HIDE DEF M
    <2> QED BY <1>3, <2>1
  <1>6. b \in 0..B-1 /\ off \in 0..W-1 /\ t \in Seq(Obj)
    BY <1>1, CellType
  <1>7. Cell(NextBlock(q), c) = u \o t
    <2>1. Cell(NextBlock(q), c) = NextBlock(q).near[b][off]
      BY DEF Cell
    <2>2. NextBlock(q).near =
            [x \in 0..B-1 |-> [y \in 0..W-1 |-> Pushed(q, MovedTo(q, x, y)) \o q.near[x][y]]]
      BY NextParts
    <2>3. t = q.near[b][off]
      BY DEF Cell
    <2> HIDE DEF b, off, t
    <2>4. NextBlock(q).near[b][off] = Pushed(q, MovedTo(q, b, off)) \o q.near[b][off]
      <3> DEFINE cell(x, y) == Pushed(q, MovedTo(q, x, y)) \o q.near[x][y]
      <3>1. NextBlock(q).near = [x \in 0..B-1 |-> [y \in 0..W-1 |-> cell(x, y)]]
        BY <2>2
      <3> HIDE DEF cell
      <3>2. NextBlock(q).near[b] = [y \in 0..W-1 |-> cell(b, y)]
        BY <1>6, <3>1
      <3>3. NextBlock(q).near[b][off] = cell(b, off)
        BY <1>6, <3>2
      <3> QED BY <3>3 DEF cell
    <2> QED BY <2>1, <2>3, <2>4
  <1>8. /\ u \in Seq(Obj) /\ \A o : On(o, u) <=> \E i \in M : q.far[i][2] = o
        /\ Distinct(u) <=> \A i, j \in M : q.far[i][2] = q.far[j][2] => i = j
    <2>1. l \in Nat /\ h \in Nat /\ l <= h /\ h <= Len(q.far)
      BY <1>4, <1>5
    <2> HIDE DEF M
    <2>2. M = l + 1..h
      BY <1>5
    <2> HIDE DEF M
    <2>3. /\ Pushed(q, l + 1..h) \in Seq(Obj)
          /\ \A o : On(o, Pushed(q, l + 1..h)) <=> \E i \in l + 1..h : q.far[i][2] = o
          /\ Distinct(Pushed(q, l + 1..h)) <=>
               \A i, j \in l + 1..h : q.far[i][2] = q.far[j][2] => i = j
      BY <1>1, <2>1, PushedRun
    <2> QED BY <2>2, <2>3
  <1>9. ASSUME NEW o
        PROVE  (\E i \in M : q.far[i][2] = o) <=> (\E i \in Moved(q) : q.far[i] = <<c, o>>)
    <2>1. \A i \in 1..m : q.far[i] = <<q.far[i][1], q.far[i][2]>>
      BY <1>1, <1>4, FarType
    <2>2. ASSUME NEW i \in 1..m, q.far[i] = <<c, o>> PROVE i \in M /\ q.far[i][2] = o
      BY <1>3, <2>2 DEF OfCycle
    <2>3. ASSUME NEW i \in M, q.far[i][2] = o PROVE i \in 1..m /\ q.far[i] = <<c, o>>
      <3>1. i \in 1..m /\ q.far[i][1] = c
        BY <1>3 DEF OfCycle
      <3> QED BY <2>1, <2>3, <3>1
    <2> HIDE DEF M
    <2> QED BY <1>2, <2>2, <2>3
  <1>a. ASSUME Distinct(q.far), NEW i \in M, NEW j \in M, q.far[i][2] = q.far[j][2] PROVE i = j
    <2>1. i \in 1..m /\ j \in 1..m /\ q.far[i][1] = c /\ q.far[j][1] = c
      BY <1>3 DEF OfCycle
    <2> HIDE DEF M
    <2>2. i \in 1..Len(q.far) /\ j \in 1..Len(q.far)
      BY <1>1, <2>1, FarType
    <2>3. q.far[i] = <<q.far[i][1], q.far[i][2]>> /\ q.far[j] = <<q.far[j][1], q.far[j][2]>>
      BY <1>1, <2>2, FarType
    <2>4. q.far[i] = q.far[j]
      BY <1>a, <2>1, <2>3
    <2> QED BY <1>a, <2>2, <2>4 DEF Distinct
  <1>b. \A i \in Moved(q) : i \in 1..Len(q.far)
    BY <1>1, <1>2, FarType
  <1> HIDE DEF u, t, M
  <1>c. ASSUME Distinct(q.far), Distinct(t), \A o : ~(On(o, t) /\ InFar(q, c, o))
        PROVE  Distinct(u \o t)
    <2>1. Distinct(u)
      BY <1>8, <1>a, <1>c
    <2>2. \A o : ~(On(o, u) /\ On(o, t))
      BY <1>8, <1>9, <1>b, <1>c DEF InFar
    <2> QED BY <1>6, <1>8, <1>c, <2>1, <2>2, DistinctConcat
  <1>10. u \o t \in Seq(Obj) /\ \A o : On(o, u \o t) <=> On(o, u) \/ On(o, t)
    BY <1>6, <1>8, InConcat
  <1>11. Cell(NextBlock(q), c) = NextBlock(q).near[(c \div W) % B][c % W]
    BY DEF Cell
  <1>12. \A o : On(o, Cell(NextBlock(q), c)) <=>
                  \/ \E i \in Moved(q) : q.far[i] = <<c, o>>
                  \/ On(o, t)
    BY <1>7, <1>8, <1>9, <1>10
  <1> QED BY <1>7, <1>10, <1>11, <1>12, <1>c DEF t

\* The map of the next block.
LEMMA NextFar ==
  ASSUME NEW q, QInv(q)
  PROVE  \E m \in 0..Len(q.far) :
           /\ Moved(q) = 1..m
           /\ \A i \in m + 1..Len(q.far) :
                q.far[i][1] \div W >= ((q.cur + 1) - ((q.cur + 1) % H)) + B
           /\ NextBlock(q).far \in Seq(Nat \X Obj)
           /\ Len(NextBlock(q).far) = Len(q.far) - m
           /\ \A i \in 1..Len(q.far) - m : NextBlock(q).far[i] = q.far[m + i]
  <1> DEFINE s == q.far
  <1>1. s \in Seq(Nat \X Obj) /\ Len(s) \in Nat /\ \A i \in 1..Len(s) : s[i] \in Nat \X Obj
    BY FarType DEF QInv, QueueType
  <1>2. PICK m \in 0..Len(s) :
          /\ Moved(q) = 1..m /\ Cardinality(Moved(q)) = m
          /\ \A i \in m + 1..Len(s) : s[i][1] \div W >= ((q.cur + 1) - ((q.cur + 1) % H)) + B
    BY MovedPrefix
  <1> DEFINE u == SubSeq(s, m + 1, Len(s))
  <1>3. NextBlock(q).far = u
    BY <1>2, NextParts
  <1> HIDE DEF s
  <1>4. u \in Seq(Nat \X Obj) /\ Len(u) = Len(s) - m /\ \A i \in 1..Len(s) - m : u[i] = s[m + i]
    <2>1. m + 1 \in Int /\ Len(s) \in Int /\ \A i \in m + 1..Len(s) : s[i] \in Nat \X Obj
      BY <1>1
    <2>2. /\ u \in Seq(Nat \X Obj)
          /\ Len(u) = IF m + 1 <= Len(s) THEN Len(s) - (m + 1) + 1 ELSE 0
          /\ \A i \in 1..Len(s) - (m + 1) + 1 : u[i] = s[m + 1 + i - 1]
      BY <2>1, SubSeqProperties
    <2> HIDE DEF u
    <2>3. Len(u) = Len(s) - m
      BY <1>1, <2>2
    <2>4. ASSUME NEW i \in 1..Len(s) - m PROVE u[i] = s[m + i]
      <3>1. i \in 1..Len(s) - (m + 1) + 1 /\ m + 1 + i - 1 = m + i
        BY <1>1
      <3> QED BY <2>2, <3>1
    <2> QED BY <2>2, <2>3, <2>4
  <1> HIDE DEF u
  <1> QED BY <1>2, <1>3, <1>4 DEF s

\* A turn of PrioQueue::dequeue's loop leaves every element where it belongs, if nothing was
\* left in the block that it leaves.
LEMMA NextBlockKeeps ==
  ASSUME NEW q, QInv(q), Occ(q, q.cur) = {}
  PROVE  /\ QInv(NextBlock(q)) /\ NextBlock(q).cur = q.cur + 1
         /\ \A c \in Nat : \A o : Holds(NextBlock(q), c, o) <=> Holds(q, c, o)
         /\ Once(q) => Once(NextBlock(q))
  <1> DEFINE p == NextBlock(q)
             next == q.cur + 1
             s == q.far
             far == p.far
  <1>1. q \in QueueType /\ q.cur \in Nat /\ B \in Nat \ {0}
    BY PrioQueueAssumption DEF QInv, QueueType
  <1>2. /\ Len(s) \in Nat
        /\ \A i \in 1..Len(s) : s[i][1] \in Nat
        /\ \A i, j \in 1..Len(s) : i <= j => s[i][1] <= s[j][1]
    BY <1>1, FarType DEF QInv, Sorted
  <1>3. PICK m \in 0..Len(s) :
          /\ Moved(q) = 1..m
          /\ \A i \in m + 1..Len(s) : s[i][1] \div W >= (next - (next % H)) + B
          /\ far \in Seq(Nat \X Obj)
          /\ Len(far) = Len(s) - m
          /\ \A i \in 1..Len(s) - m : far[i] = s[m + i]
    BY NextFar
  <1>4. \A i \in 1..m : s[i][1] \div W \in NextWindow(q)
    <2>1. PICK k \in 0..Len(s) :
            Moved(q) = 1..k /\ \A i \in 1..k : s[i][1] \div W \in NextWindow(q)
      BY MovedPrefix
    <2>2. \A i \in 1..m : i \in 1..k
      BY <1>3, <2>1
    <2> QED BY <2>1, <2>2
  <1>5. p.cur = next /\ p.near = [b \in 0..B-1 |-> [off \in 0..W-1 |-> p.near[b][off]]]
    <2>1. p.cur = next
      BY NextParts
    <2> DEFINE cell(x, y) == Pushed(q, MovedTo(q, x, y)) \o q.near[x][y]
    <2>2. p.near = [x \in 0..B-1 |-> [y \in 0..W-1 |-> cell(x, y)]]
      BY NextParts
    <2> HIDE DEF cell, p
    <2> QED BY <2>1, <2>2
  <1>6. ASSUME NEW b \in 0..B-1, NEW off \in 0..W-1 PROVE p.near[b][off] \in Seq(Obj)
    <2>1. next \in Nat
      BY <1>1
    <2>2. PICK k \in next..next+B-1 : k % B = b
      <3> HIDE DEF next
      <3> QED BY <2>1, WindowCovers
    <2>3. k \in Nat
      BY <1>1, <2>2
    <2> DEFINE c == k * W + off
    <2>4. c \in Nat /\ c \div W = k /\ c % W = off
      BY <2>3, Compose
    <2> HIDE DEF c
    <2>5. c \div W \in NextWindow(q)
      BY <2>2, <2>4 DEF NextWindow
    <2>6. Cell(p, c) \in Seq(Obj) /\ Cell(p, c) = p.near[(c \div W) % B][c % W]
      BY <2>4, <2>5, NextCell
    <2> QED BY <2>2, <2>4, <2>6
  <1>7. p = [cur |-> next, near |-> p.near, far |-> far]
    BY DEF NextBlock
  <1>8. p \in QueueType
    <2> DEFINE near == p.near
    <2> HIDE DEF p, far
    <2>1. near \in [0..B-1 -> [0..W-1 -> Seq(Obj)]]
      BY <1>5, <1>6
    <2>2. next \in Nat
      BY <1>1
    <2> HIDE DEF near, next
    <2>3. [cur |-> next, near |-> near, far |-> far] \in QueueType
      BY <1>3, <2>1, <2>2 DEF QueueType
    <2> QED BY <1>7, <2>3 DEF near
  <1> HIDE DEF p, far, s, next
  <1>9. Sorted(p)
    <2> SUFFICES ASSUME NEW i \in 1..Len(s) - m, NEW j \in 1..Len(s) - m, i <= j
                 PROVE  far[i][1] <= far[j][1]
      BY <1>3 DEF Sorted, far
    <2>1. m + i \in 1..Len(s) /\ m + j \in 1..Len(s) /\ m + i <= m + j
      BY <1>2
    <2>2. s[m + i][1] <= s[m + j][1]
      BY <1>2, <2>1
    <2> QED BY <1>3, <2>2
  <1>10. Far(p)
    <2> SUFFICES ASSUME NEW i \in 1..Len(s) - m
                 PROVE  far[i][1] \div W >= (next - (next % H)) + B
      BY <1>3, <1>5 DEF Far, far
    <2>1. m + i \in m + 1..Len(s)
      BY <1>2
    <2> QED BY <1>3, <2>1
  <1>11. ASSUME NEW c \in Nat, NEW o PROVE Holds(p, c, o) <=> Holds(q, c, o)
    <2>1. InFar(p, c, o) <=> \E i \in m + 1..Len(s) : s[i] = <<c, o>>
      <3>1. ASSUME NEW i \in 1..Len(s) - m, far[i] = <<c, o>> PROVE \E j \in m + 1..Len(s) : s[j] = <<c, o>>
        <4>1. m + i \in m + 1..Len(s) /\ s[m + i] = <<c, o>>
          BY <1>2, <1>3, <3>1
        <4> QED BY <4>1
      <3>2. ASSUME NEW j \in m + 1..Len(s), s[j] = <<c, o>> PROVE \E i \in 1..Len(s) - m : far[i] = <<c, o>>
        <4>1. j - m \in 1..Len(s) - m /\ m + (j - m) = j
          BY <1>2
        <4>2. far[j - m] = <<c, o>>
          BY <1>3, <3>2, <4>1
        <4> QED BY <4>1, <4>2
      <3> QED BY <1>3, <3>1, <3>2 DEF InFar, far
    <2>2. InFar(q, c, o) <=> (\E i \in 1..m : s[i] = <<c, o>>) \/ InFar(p, c, o)
      <3>1. \A i : i \in 1..Len(s) <=> i \in 1..m \/ i \in m + 1..Len(s)
        BY <1>2
      <3> QED BY <2>1, <3>1 DEF InFar, s
    <2>3. c \div W \in Nat
      BY DivMod
    <2> DEFINE k == c \div W
    <2>4. CASE k \in NextWindow(q)
      <3>1. On(o, Cell(p, c)) <=> (\E i \in 1..m : s[i] = <<c, o>>) \/ On(o, Cell(q, c))
        BY <1>3, <2>4, NextCell DEF p, s
      <3>2. InNear(p, c, o) <=> On(o, Cell(p, c))
        BY <1>5, <2>4 DEF InNear, Window, NextWindow, next
      <3>3. InNear(q, c, o) <=> On(o, Cell(q, c))
        <4>1. CASE k \in Window(q)
          BY <4>1 DEF InNear
        <4>2. CASE k \notin Window(q)
          <5>1. k = q.cur + B
            BY <1>1, <2>3, <2>4, <4>2 DEF Window, NextWindow
          <5>2. k % B = q.cur % B
            <6> DEFINE n == q.cur
            <6>1. n \in Nat
              BY <1>1
            <6> HIDE DEF n
            <6>2. (n + B) % B = n % B
              BY <6>1, NextPlace
            <6> QED BY <5>1, <6>2 DEF n
          <5>3. c % W \in 0..W-1
            BY DivMod
          <5>4. q.near[q.cur % B][c % W] = <<>>
            BY <5>3 DEF Occ
          <5>5. Cell(q, c) = <<>>
            BY <5>2, <5>4 DEF Cell
          <5> QED BY <4>2, <5>5 DEF InNear, On
        <4> QED BY <4>1, <4>2
      <3> QED BY <2>2, <3>1, <3>2, <3>3 DEF Holds
    <2>5. CASE k \notin NextWindow(q)
      <3>1. ~InNear(p, c, o)
        BY <1>5, <2>5 DEF InNear, Window, NextWindow, next
      <3>2. ~InNear(q, c, o)
        <4>1. ASSUME k \in Window(q) PROVE Cell(q, c) = <<>>
          <5>1. k = q.cur
            BY <1>1, <2>3, <2>5, <4>1 DEF Window, NextWindow
          <5>2. c % W \in 0..W-1
            BY DivMod
          <5> QED BY <5>1, <5>2 DEF Cell, Occ
        <4> QED BY <4>1 DEF InNear, On
      <3>3. ~\E i \in 1..m : s[i] = <<c, o>>
        BY <1>4, <2>5
      <3> QED BY <2>2, <3>1, <3>2, <3>3 DEF Holds
    <2> QED BY <2>4, <2>5
  <1>12. ASSUME NEW c \in Nat, c \div W \in NextWindow(q), c \div W \notin Window(q)
         PROVE  Cell(q, c) = <<>>
    <2> DEFINE n == q.cur
               k == c \div W
    <2>1. n \in Nat /\ c % W \in 0..W-1 /\ k \in Nat
      BY <1>1, DivMod
    <2>2. k = n + B
      <3> HIDE DEF k
      <3> QED BY <1>1, <1>12, <2>1 DEF Window, NextWindow, k
    <2>3. (n + B) % B = n % B
      <3> HIDE DEF n
      <3> QED BY <2>1, NextPlace
    <2>4. q.near[q.cur % B][c % W] = <<>>
      BY <2>1 DEF Occ
    <2> QED BY <2>2, <2>3, <2>4 DEF Cell
  <1>13. ASSUME Once(q) PROVE Once(p)
    <2>1. Window(p) = NextWindow(q)
      BY <1>5 DEF Window, NextWindow, next
    <2>2. ASSUME NEW c \in Nat, c \div W \in NextWindow(q)
          PROVE  Distinct(Cell(q, c)) /\ \A o : ~(On(o, Cell(q, c)) /\ InFar(q, c, o))
      <3>1. CASE c \div W \in Window(q)
        BY <1>13, <3>1 DEF Once, InNear
      <3>2. CASE c \div W \notin Window(q)
        <4>1. Len(Cell(q, c)) = 0
          BY <1>12, <2>2, <3>2
        <4> QED BY <4>1 DEF Distinct, On
      <3> QED BY <3>1, <3>2
    <2>3. ASSUME NEW c \in Nat, c \div W \in NextWindow(q) PROVE Distinct(Cell(p, c))
      BY <1>13, <2>2, <2>3, NextCell DEF Once, p
    <2>4. \A i, j \in 1..Len(s) : s[i] = s[j] => i = j
      BY <1>13 DEF Once, Distinct, s
    <2>5. Distinct(p.far)
      <3>1. ASSUME NEW i \in 1..Len(s) - m, NEW j \in 1..Len(s) - m, far[i] = far[j] PROVE i = j
        <4>1. m + i \in 1..Len(s) /\ m + j \in 1..Len(s)
          BY <1>2
        <4>2. s[m + i] = s[m + j]
          BY <1>3, <3>1
        <4>3. m + i = m + j
          BY <2>4, <4>1, <4>2
        <4> QED BY <1>2, <4>3
      <3> QED BY <1>3, <3>1 DEF Distinct, far
    <2>6. ASSUME NEW c \in Nat, NEW o, InNear(p, c, o), InFar(p, c, o) PROVE FALSE
      <3>1. c \div W \in NextWindow(q) /\ On(o, Cell(p, c))
        BY <2>1, <2>6 DEF InNear
      <3>2. PICK j \in 1..Len(s) - m : far[j] = <<c, o>>
        BY <1>3, <2>6 DEF InFar, far
      <3>3. m + j \in 1..Len(s) /\ m + j \notin 1..m /\ s[m + j] = <<c, o>>
        BY <1>2, <1>3, <3>2
      <3>4. InFar(q, c, o)
        BY <3>3 DEF InFar, s
      <3>5. ~On(o, Cell(q, c))
        BY <2>2, <3>1, <3>4
      <3>6. PICK i \in 1..m : s[i] = <<c, o>>
        BY <1>3, <3>1, <3>5, NextCell DEF p, s
      <3>7. i \in 1..Len(s)
        BY <1>2
      <3>8. i = m + j
        BY <2>4, <3>3, <3>6, <3>7
      <3> QED BY <3>3, <3>8
    <2> QED BY <2>1, <2>3, <2>5, <2>6 DEF Once
  <1> QED BY <1>5, <1>8, <1>9, <1>10, <1>11, <1>13 DEF QInv, p, next

-----------------------------------------------------------------------------
(* Dequeueing *)

\* A queue holds something exactly if it is not empty.
LEMMA EmptyIff ==
  ASSUME NEW q, QInv(q)
  PROVE  ~IsEmpty(q) <=> \E c \in Nat : \E o : Holds(q, c, o)
  <1>1. q \in QueueType /\ q.cur \in Nat
    BY DEF QInv, QueueType
  <1>2. Len(q.far) \in Nat /\ q.far \in Seq(Nat \X Obj)
        /\ \A i \in 1..Len(q.far) : q.far[i][1] \in Nat /\ q.far[i] = <<q.far[i][1], q.far[i][2]>>
    BY <1>1, FarType DEF QueueType
  <1>3. q.far = <<>> <=> Len(q.far) = 0
    BY <1>2, EmptySeq
  <1>4. ASSUME q.far # <<>> PROVE \E c \in Nat : \E o : Holds(q, c, o)
    <2>1. 1 \in 1..Len(q.far)
      BY <1>2, <1>3, <1>4
    <2>2. InFar(q, q.far[1][1], q.far[1][2])
      BY <1>2, <2>1 DEF InFar
    <2> QED BY <1>2, <2>1, <2>2 DEF Holds
  <1>5. ASSUME NEW b \in 0..B-1, NEW off \in 0..W-1, q.near[b][off] # <<>>
        PROVE  \E c \in Nat : \E o : Holds(q, c, o)
    <2>1. PICK k \in q.cur..q.cur+B-1 : k % B = b
      <3> DEFINE n == q.cur
      <3>1. n \in Nat
        BY <1>1
      <3> HIDE DEF n
      <3>2. \E k \in n..n+B-1 : k % B = b
        BY <3>1, WindowCovers
      <3> QED BY <3>2 DEF n
    <2>2. k \in Nat
      BY <1>1, <2>1
    <2> DEFINE c == k * W + off
    <2>3. c \in Nat /\ c \div W = k /\ c % W = off
      BY <2>2, Compose
    <2> HIDE DEF c
    <2>4. Cell(q, c) = q.near[b][off] /\ Cell(q, c) \in Seq(Obj)
      BY <1>1, <2>1, <2>3, CellType DEF Cell
    <2>5. Len(Cell(q, c)) \in Nat /\ Len(Cell(q, c)) # 0
      BY <1>5, <2>4, EmptySeq, LenProperties
    <2>6. On(Cell(q, c)[1], Cell(q, c))
      BY <2>5 DEF On
    <2>7. InNear(q, c, Cell(q, c)[1])
      BY <2>1, <2>3, <2>6 DEF InNear, Window
    <2> QED BY <2>3, <2>7 DEF Holds
  <1>6. ASSUME IsEmpty(q), NEW c \in Nat, NEW o PROVE ~Holds(q, c, o)
    <2>1. Len(q.far) = 0
      BY <1>3, <1>6 DEF IsEmpty
    <2>2. (c \div W) % B \in 0..B-1 /\ c % W \in 0..W-1
      BY <1>1, CellType
    <2>3. Cell(q, c) = <<>>
      <3> DEFINE b == (c \div W) % B
                 off == c % W
      <3>1. b \in 0..B-1 /\ off \in 0..W-1
        BY <2>2
      <3> HIDE DEF b, off
      <3>2. Occ(q, b) = {}
        BY <1>6, <3>1 DEF IsEmpty
      <3>3. b % B = b
        BY <3>1, PrioQueueAssumption
      <3>4. q.near[b][off] = <<>>
        BY <3>1, <3>2, <3>3 DEF Occ
      <3> QED BY <3>4 DEF Cell, b, off
    <2> QED BY <2>1, <2>3 DEF Holds, InNear, InFar, On
  <1>7. ASSUME ~IsEmpty(q) PROVE \E c \in Nat : \E o : Holds(q, c, o)
    <2>1. CASE q.far # <<>>
      BY <1>4, <2>1
    <2>2. CASE q.far = <<>>
      <3>1. PICK b \in 0..B-1 : Occ(q, b) # {}
        BY <1>7, <2>2 DEF IsEmpty
      <3>2. b % B = b
        BY <3>1, PrioQueueAssumption
      <3>3. PICK off \in 0..W-1 : q.near[b][off] # <<>>
        BY <3>1, <3>2 DEF Occ
      <3> QED BY <1>5, <3>3
    <2> QED BY <2>1, <2>2
  <1> QED BY <1>6, <1>7

\* The elements in the map are later than the first half of the array.
LEMMA FarLater ==
  ASSUME NEW q, QInv(q), NEW i \in 1..Len(q.far)
  PROVE  /\ q.far[i][1] \in Nat /\ q.far[i][1] \div W \in Nat
         /\ q.far[i][1] \div W > q.cur + H
  <1>1. q \in QueueType /\ q.cur \in Nat
    BY DEF QInv, QueueType
  <1>2. q.far[i][1] \in Nat
    BY <1>1, FarType
  <1>3. q.far[i][1] \div W \in Nat
    BY <1>2, DivMod
  <1>4. q.far[i][1] \div W >= (q.cur - (q.cur % H)) + B
    BY DEF QInv, Far
  <1> DEFINE k == q.far[i][1] \div W
             r == q.cur % H
  <1>5. r \in 0..H-1 /\ H \in Nat \ {0} /\ B = H + H
    BY <1>1, HalfStart, HalfType
  <1> HIDE DEF r
  <1>6. k >= (q.cur - r) + B /\ k \in Nat
    BY <1>3, <1>4 DEF r
  <1> HIDE DEF k
  <1>7. k > q.cur + H
    BY <1>1, <1>5, <1>6
  <1> QED BY <1>2, <1>3, <1>7 DEF k

\* The first occupied offset of the current block is the least cycle that the queue holds.
LEMMA FirstOfBlock ==
  ASSUME NEW q, QInv(q), Occ(q, q.cur) # {}
  PROVE  LET off == Min(Occ(q, q.cur))
             cycle == q.cur * W + off
         IN  /\ off \in 0..W-1 /\ cycle \in Nat /\ cycle \div W = q.cur /\ cycle % W = off
             /\ q.near[q.cur % B][off] # <<>> /\ Cell(q, cycle) = q.near[q.cur % B][off]
             /\ \A c \in Nat : \A o : Holds(q, c, o) => cycle <= c
  <1> DEFINE occ == Occ(q, q.cur)
             off == Min(occ)
             cycle == q.cur * W + off
  <1>1. q \in QueueType /\ q.cur \in Nat
    BY DEF QInv, QueueType
  <1>2. occ \in SUBSET Nat /\ occ # {}
    BY DEF Occ
  <1>3. off \in occ /\ off \in Nat /\ \A y \in occ : off <= y
    <2> HIDE DEF occ
    <2> QED BY <1>2, MinIsLeast
  <1>4. off \in 0..W-1 /\ q.near[q.cur % B][off] # <<>>
    <2> HIDE DEF off
    <2> QED BY <1>3 DEF Occ
  <1> HIDE DEF off
  <1>5. cycle \in Nat /\ cycle \div W = q.cur /\ cycle % W = off
    BY <1>1, <1>4, Compose
  <1> HIDE DEF cycle
  <1>6. Cell(q, cycle) = q.near[q.cur % B][off]
    BY <1>5 DEF Cell
  <1>7. ASSUME NEW c \in Nat, NEW o, Holds(q, c, o) PROVE cycle <= c
    <2>1. c \div W \in Nat /\ c % W \in 0..W-1
      BY DivMod
    <2>2. ASSUME q.cur < c \div W PROVE cycle <= c
      <3>1. cycle < c
        BY <1>5, <2>2, EarlierBlock
      <3> QED BY <1>5, <3>1
    <2>3. CASE InFar(q, c, o)
      <3>1. PICK i \in 1..Len(q.far) : q.far[i] = <<c, o>>
        BY <2>3 DEF InFar
      <3>2. c \div W > q.cur + H
        BY <3>1, FarLater
      <3>3. q.cur < c \div W
        BY <1>1, <2>1, <3>2, HalfType
      <3> QED BY <2>2, <3>3
    <2>4. CASE InNear(q, c, o)
      <3>1. c \div W >= q.cur /\ Cell(q, c) # <<>>
        BY <1>1, <2>1, <2>4 DEF InNear, Window, On
      <3>2. CASE c \div W = q.cur
        <4>1. c % W \in occ
          BY <2>1, <3>1, <3>2 DEF Occ, Cell
        <4>2. off <= c % W
          BY <1>3, <4>1
        <4>3. c = (c \div W) * W + (c % W) /\ q.cur * W \in Nat
          BY <1>1, DivMod, PrioQueueAssumption
        <4>4. cycle = q.cur * W + off
          BY DEF cycle
        <4> QED BY <1>3, <2>1, <3>2, <4>2, <4>3, <4>4
      <3> QED BY <1>1, <2>1, <2>2, <3>1, <3>2
    <2> QED BY <1>7, <2>3, <2>4 DEF Holds
  <1> QED BY <1>4, <1>5, <1>6, <1>7 DEF off, cycle

\* One turn of dequeue's loop, and the queues after 0, 1, 2 ... turns
Turn(p) == IF Occ(p, p.cur) # {} THEN p ELSE NextBlock(p)
Turns(q, f) == f = [n \in Nat |-> IF n = 0 THEN q ELSE Turn(f[n-1])]

\* The last block that the loop may have to look at
LastBlock(q) == Max({q.cur + B} \cup {q.far[i][1] \div W : i \in DOMAIN q.far})

\* The first n turns
Upto(q, n, f) ==
    /\ DOMAIN f = 0..n
    /\ f[0] = q
    /\ \A k \in 1..n : f[k] = Turn(f[k-1])

\* There are n turns for every n ...
LEMMA UptoExists ==
  ASSUME NEW q, NEW n \in Nat
  PROVE  \E f : Upto(q, n, f)
  <1> DEFINE S == {k \in Nat : \E f : Upto(q, k, f)}
  <1>1. 0 \in S
    <2> DEFINE f == [k \in 0..0 |-> q]
    <2>1. Upto(q, 0, f)
      BY DEF Upto
    <2> HIDE DEF f
    <2> QED BY <2>1
  <1>2. ASSUME NEW m \in Nat, m \in S PROVE m + 1 \in S
    <2>1. PICK f : Upto(q, m, f)
      BY <1>2
    <2> DEFINE g == [k \in 0..m + 1 |-> IF k = m + 1 THEN Turn(f[m]) ELSE f[k]]
    <2>2. DOMAIN g = 0..m + 1 /\ g[0] = q
      <3>1. 0 \in 0..m + 1 /\ 0 # m + 1
        OBVIOUS
      <3> QED BY <2>1, <3>1 DEF Upto
    <2>3. ASSUME NEW k \in 1..m + 1 PROVE g[k] = Turn(g[k-1])
      <3>1. k - 1 \in 0..m + 1 /\ k - 1 # m + 1 /\ k \in 0..m + 1
        OBVIOUS
      <3>2. g[k-1] = f[k-1]
        BY <3>1
      <3>3. CASE k = m + 1
        <4>1. g[k] = Turn(f[m]) /\ k - 1 = m
          BY <3>1, <3>3
        <4> QED BY <3>2, <4>1
      <3>4. CASE k # m + 1
        <4>1. k \in 1..m
          BY <3>4
        <4>2. g[k] = f[k]
          BY <3>1, <3>4
        <4>3. f[k] = Turn(f[k-1])
          BY <2>1, <4>1 DEF Upto
        <4> HIDE DEF g
        <4> QED BY <3>2, <4>2, <4>3
      <3> QED BY <3>3, <3>4
    <2> HIDE DEF g
    <2>4. Upto(q, m + 1, g)
      BY <2>2, <2>3 DEF Upto
    <2> QED BY <2>4
  <1>3. Nat \subseteq S
    <2> HIDE DEF S
    <2> QED BY <1>1, <1>2, AllNumbers
  <1> QED BY <1>3

\* ... and they are the same in every longer sequence of turns.
LEMMA UptoUnique ==
  ASSUME NEW q, NEW m \in Nat, NEW n \in Nat, m <= n, NEW f, NEW g, Upto(q, m, f), Upto(q, n, g)
  PROVE  f[m] = g[m]
  <1> DEFINE S == {k \in Nat : k <= m => f[k] = g[k]}
  <1>1. 0 \in S
    BY DEF Upto
  <1>2. ASSUME NEW k \in Nat, k \in S PROVE k + 1 \in S
    <2> SUFFICES ASSUME k + 1 <= m PROVE f[k+1] = g[k+1]
      OBVIOUS
    <2> DEFINE j == k + 1
    <2>1. f[k] = g[k]
      BY <1>2
    <2>2. j \in 1..m /\ j \in 1..n /\ j - 1 = k
      OBVIOUS
    <2> HIDE DEF j
    <2>3. f[j] = Turn(f[j-1]) /\ g[j] = Turn(g[j-1])
      BY <2>2 DEF Upto
    <2>4. f[j] = g[j]
      BY <2>1, <2>2, <2>3
    <2> QED BY <2>4 DEF j
  <1>3. Nat \subseteq S
    <2> HIDE DEF S
    <2> QED BY <1>1, <1>2, AllNumbers
  <1>4. m \in S
    BY <1>3
  <1> QED BY <1>4

\* The recursive function of Seek exists.
LEMMA TurnsExist ==
  ASSUME NEW q
  PROVE  \E f : Turns(q, f)
  <1> DEFINE A(n) == CHOOSE f : Upto(q, n, f)
             F == [n \in Nat |-> A(n)[n]]
  <1>1. ASSUME NEW n \in Nat PROVE Upto(q, n, A(n))
    BY UptoExists
  <1> HIDE DEF A
  <1>2. ASSUME NEW n \in Nat PROVE F[n] = IF n = 0 THEN q ELSE Turn(F[n-1])
    <2>1. CASE n = 0
      BY <1>1, <2>1 DEF Upto
    <2>2. CASE n # 0
      <3> DEFINE k == n - 1
      <3>1. k \in Nat /\ k <= n /\ n \in 1..n
        BY <2>2
      <3>2. A(n)[n] = Turn(A(n)[n-1])
        BY <1>1, <3>1 DEF Upto
      <3>3. A(n)[k] = F[k]
        <4>1. F[k] = A(k)[k]
          BY <3>1
        <4> HIDE DEF F, k
        <4>2. Upto(q, n, A(n)) /\ Upto(q, k, A(k))
          BY <1>1, <3>1
        <4>3. A(k)[k] = A(n)[k]
          BY <3>1, <4>2, UptoUnique
        <4> QED BY <4>1, <4>3
      <3>4. F[n] = A(n)[n]
        OBVIOUS
      <3> HIDE DEF F
      <3> QED BY <2>2, <3>2, <3>3, <3>4
    <2> QED BY <2>1, <2>2
  <1>3. F = [n \in Nat |-> F[n]]
    OBVIOUS
  <1> HIDE DEF F
  <1>4. F = [n \in Nat |-> IF n = 0 THEN q ELSE Turn(F[n-1])]
    BY <1>2, <1>3
  <1> QED BY <1>4 DEF Turns

\* Seek makes as many turns as there are blocks before the last.
LEMMA SeekTurns ==
  ASSUME NEW q
  PROVE  \E f : Turns(q, f) /\ Seek(q) = f[LastBlock(q) - q.cur]
  <1> DEFINE f == CHOOSE turn : Turns(q, turn)
  <1>1. Turns(q, f)
    BY TurnsExist
  <1>2. Seek(q) = f[LastBlock(q) - q.cur]
    BY DEF Seek, Turns, Turn, LastBlock
  <1> HIDE DEF f
  <1> QED BY <1>1, <1>2

\* All turns leave the elements where they belong and stop only at an occupied block.
LEMMA TurnsKeep ==
  ASSUME NEW q, QInv(q), NEW f, Turns(q, f), NEW n \in Nat
  PROVE  /\ QInv(f[n]) /\ f[n].cur >= q.cur
         /\ \A c \in Nat : \A o : Holds(f[n], c, o) <=> Holds(q, c, o)
         /\ Once(q) => Once(f[n])
         /\ Occ(f[n], f[n].cur) = {} => f[n].cur = q.cur + n
  <1> DEFINE Kept(p, k) == /\ QInv(p) /\ p.cur >= q.cur
                           /\ \A c \in Nat : \A o : Holds(p, c, o) <=> Holds(q, c, o)
                           /\ Once(q) => Once(p)
                           /\ Occ(p, p.cur) = {} => p.cur = q.cur + k
             S == {k \in Nat : Kept(f[k], k)}
  <1>1. q.cur \in Nat
    BY DEF QInv, QueueType
  <1>2. \A k \in Nat : f[k] = IF k = 0 THEN q ELSE Turn(f[k-1])
    BY DEF Turns
  <1>3. 0 \in S
    <2>1. f[0] = q
      BY <1>2
    <2> QED BY <1>1, <2>1
  <1>4. ASSUME NEW k \in Nat, k \in S PROVE k + 1 \in S
    <2> DEFINE p == f[k]
               j == k + 1
    <2>1. Kept(p, k)
      BY <1>4
    <2>2. p.cur \in Nat
      BY <2>1 DEF QInv, QueueType
    <2>3. f[j] = Turn(p)
      <3>1. j \in Nat /\ j # 0 /\ j - 1 = k
        OBVIOUS
      <3> HIDE DEF j
      <3> QED BY <1>2, <3>1
    <2>4. Kept(f[j], j)
      <3> HIDE DEF p
      <3>1. CASE Occ(p, p.cur) # {}
        <4>1. f[j] = p
          BY <2>3, <3>1 DEF Turn
        <4> QED BY <2>1, <3>1, <4>1
      <3>2. CASE Occ(p, p.cur) = {}
        <4>1. f[j] = NextBlock(p)
          BY <2>3, <3>2 DEF Turn
        <4>2. QInv(p) /\ p.cur = q.cur + k
          BY <2>1, <3>2
        <4>3. /\ QInv(NextBlock(p)) /\ NextBlock(p).cur = p.cur + 1
              /\ \A c \in Nat : \A o : Holds(NextBlock(p), c, o) <=> Holds(p, c, o)
              /\ Once(p) => Once(NextBlock(p))
          BY <3>2, <4>2, NextBlockKeeps
        <4>4. p.cur + 1 >= q.cur /\ p.cur + 1 = q.cur + j
          BY <1>1, <4>2
        <4>5. /\ \A c \in Nat : \A o : Holds(p, c, o) <=> Holds(q, c, o)
              /\ Once(q) => Once(p)
          BY <2>1
        <4> HIDE DEF j
        <4> QED BY <4>1, <4>3, <4>4, <4>5
      <3> QED BY <3>1, <3>2
    <2> HIDE DEF Kept
    <2> QED BY <2>4
  <1>5. Nat \subseteq S
    <2> HIDE DEF S
    <2> QED BY <1>3, <1>4, AllNumbers
  <1>6. n \in S
    BY <1>5
  <1> QED BY <1>6

\* No element lies behind the last block.
LEMMA LastIsLast ==
  ASSUME NEW q, QInv(q)
  PROVE  /\ LastBlock(q) \in Nat /\ LastBlock(q) >= q.cur + B
         /\ \A i \in 1..Len(q.far) : q.far[i][1] \div W <= LastBlock(q)
  <1> DEFINE n == Len(q.far)
             key(i) == q.far[i][1] \div W
             S == {q.cur + B} \cup {key(i) : i \in DOMAIN q.far}
  <1>1. q.cur \in Nat /\ B \in Nat /\ n \in Nat /\ DOMAIN q.far = 1..n
    BY FarType, HalfType DEF QInv, QueueType
  <1>2. \A i \in 1..n : key(i) \in Nat /\ q.far[i][1] \in Nat
    BY FarLater
  <1>3. ASSUME NEW i \in 1..n PROVE key(i) <= key(n)
    <2>1. n \in 1..n /\ i <= n
      BY <1>1
    <2>2. q.far[i][1] <= q.far[n][1]
      BY <2>1 DEF QInv, Sorted
    <2>3. ~(key(n) < key(i))
      <3>1. ASSUME key(n) < key(i) PROVE FALSE
        <4> DEFINE a == q.far[n][1]
                   b == q.far[i][1]
        <4>1. a \in Nat /\ b \in Nat /\ a \div W < b \div W /\ b <= a
          BY <1>2, <2>1, <2>2, <3>1
        <4> HIDE DEF a, b
        <4>2. a < b
          BY <4>1, EarlierBlock
        <4> QED BY <4>1, <4>2
      <3> QED BY <3>1
    <2> HIDE DEF key
    <2> QED BY <1>2, <2>1, <2>3
  <1>4. \E x \in S : x \in Nat /\ \A y \in S : x >= y
    <2> HIDE DEF key
    <2>1. CASE n = 0
      <3>1. \A y \in S : y = q.cur + B
        BY <1>1, <2>1
      <3>2. q.cur + B \in S /\ q.cur + B \in Nat
        BY <1>1
      <3> DEFINE x == q.cur + B
      <3>3. x \in S /\ x \in Nat /\ \A y \in S : y = x
        BY <3>1, <3>2
      <3> HIDE DEF x, S
      <3> QED BY <3>3
    <2>2. CASE n # 0
      <3>1. n \in 1..n
        BY <1>1, <2>2
      <3>2. key(n) \in S /\ q.cur + B \in S
        BY <1>1, <3>1
      <3>3. \A y \in S : y = q.cur + B \/ \E i \in 1..n : y = key(i)
        BY <1>1
      <3> HIDE DEF S
      <3>4. key(n) \in Nat /\ q.cur + B \in Nat
        BY <1>1, <1>2, <3>1
      <3>5. \A y \in S : y = q.cur + B \/ (y \in Nat /\ y <= key(n))
        BY <1>2, <1>3, <3>3
      <3>6. CASE q.cur + B >= key(n)
        <4>1. \A y \in S : q.cur + B >= y
          BY <3>4, <3>5, <3>6
        <4> QED BY <3>2, <3>4, <4>1
      <3>7. CASE ~(q.cur + B >= key(n))
        <4>1. \A y \in S : key(n) >= y
          BY <3>4, <3>5, <3>7
        <4> QED BY <3>2, <3>4, <4>1
      <3> QED BY <3>6, <3>7
    <2> QED BY <2>1, <2>2
  <1>5. LastBlock(q) = Max(S)
    BY DEF LastBlock
  <1>6. q.cur + B \in S /\ \A i \in 1..n : key(i) \in S
    BY <1>1
  <1>7. \A y \in S : y \in Nat
    BY <1>1, <1>2
  <1> HIDE DEF S, key
  <1>8. Max(S) \in S /\ \A y \in S : Max(S) >= y
    BY <1>4, Zenon DEF Max
  <1>9. LastBlock(q) \in Nat /\ LastBlock(q) >= q.cur + B /\ \A i \in 1..n : key(i) <= LastBlock(q)
    BY <1>5, <1>6, <1>7, <1>8
  <1> QED BY <1>9 DEF key

\* dequeue's loop finds an occupied block if the queue is not empty, and loses nothing.
LEMMA SeekFinds ==
  ASSUME NEW q, QInv(q), ~IsEmpty(q)
  PROVE  /\ QInv(Seek(q)) /\ Seek(q).cur >= q.cur
         /\ \A c \in Nat : \A o : Holds(Seek(q), c, o) <=> Holds(q, c, o)
         /\ Once(q) => Once(Seek(q))
         /\ Occ(Seek(q), Seek(q).cur) # {}
  <1> DEFINE p == Seek(q)
             n == LastBlock(q) - q.cur
  <1>1. q.cur \in Nat /\ B \in Nat \ {0} /\ LastBlock(q) \in Nat /\ LastBlock(q) >= q.cur + B
        /\ \A i \in 1..Len(q.far) : q.far[i][1] \div W <= LastBlock(q)
    <2>1. q.cur \in Nat /\ B \in Nat \ {0}
      BY PrioQueueAssumption DEF QInv, QueueType
    <2>2. /\ LastBlock(q) \in Nat /\ LastBlock(q) >= q.cur + B
          /\ \A i \in 1..Len(q.far) : q.far[i][1] \div W <= LastBlock(q)
      BY LastIsLast
    <2> QED BY <2>1, <2>2
  <1>2. n \in Nat /\ q.cur + n = LastBlock(q)
    BY <1>1
  <1>3. PICK f : Turns(q, f) /\ p = f[n]
    BY SeekTurns
  <1> HIDE DEF p, n
  <1>4. /\ QInv(p) /\ p.cur >= q.cur
        /\ \A c \in Nat : \A o : Holds(p, c, o) <=> Holds(q, c, o)
        /\ Once(q) => Once(p)
        /\ Occ(p, p.cur) = {} => p.cur = LastBlock(q)
    BY <1>2, <1>3, TurnsKeep
  <1>5. ASSUME Occ(p, p.cur) = {} PROVE FALSE
    <2>a. PICK c \in Nat : \E o : Holds(q, c, o)
      BY EmptyIff
    <2>1. PICK o : Holds(q, c, o)
      BY <2>a
    <2>2. c \div W \in Nat /\ c % W \in 0..W-1 /\ p.cur = LastBlock(q)
      BY <1>4, <1>5, DivMod
    <2>3. c \div W <= LastBlock(q)
      <3>1. CASE InNear(q, c, o)
        BY <1>1, <2>2, <3>1 DEF InNear, Window
      <3>2. CASE InFar(q, c, o)
        BY <1>1, <3>2 DEF InFar
      <3> QED BY <2>1, <3>1, <3>2 DEF Holds
    <2>4. Holds(p, c, o)
      BY <1>4, <2>1
    <2>5. CASE InNear(p, c, o)
      <3>1. c \div W = p.cur /\ Cell(p, c) # <<>>
        BY <1>1, <2>2, <2>3, <2>5 DEF InNear, Window, On
      <3>2. c % W \in Occ(p, p.cur)
        BY <2>2, <3>1 DEF Occ, Cell
      <3> QED BY <1>5, <3>2
    <2>6. CASE InFar(p, c, o)
      <3>1. PICK i \in 1..Len(p.far) : p.far[i] = <<c, o>>
        BY <2>6 DEF InFar
      <3>2. c \div W > p.cur + H
        BY <1>4, <3>1, FarLater
      <3> QED BY <1>1, <2>2, <2>3, <3>2, HalfType
    <2> QED BY <2>4, <2>5, <2>6 DEF Holds
  <1> QED BY <1>4, <1>5 DEF p

\* PrioQueue::dequeue takes an element that the queue holds, at the cycle it reports, which
\* is the least of all; the queue keeps everything else and gets nothing new, and what was
\* queued once for the cycle is gone.
THEOREM DequeueLeast ==
  ASSUME NEW q, QInv(q), ~IsEmpty(q)
  PROVE  LET d == Dequeue(q)
         IN  /\ QInv(d.queue) /\ d.queue.cur >= q.cur
             /\ d.cycle \in Nat /\ Holds(q, d.cycle, d.obj)
             /\ \A c \in Nat : \A o : Holds(q, c, o) => d.cycle <= c
             /\ \A c \in Nat : \A o : Holds(d.queue, c, o) => Holds(q, c, o)
             /\ \A c \in Nat : \A o :
                  Holds(q, c, o) => Holds(d.queue, c, o) \/ (c = d.cycle /\ o = d.obj)
             /\ Once(q) => Once(d.queue) /\ ~Holds(d.queue, d.cycle, d.obj)
  <1> DEFINE d == Dequeue(q)
             p == Seek(q)
             off == Min(Occ(p, p.cur))
             b == p.cur % B
             stack == p.near[b][off]
             cycle == p.cur * W + off
             new == [p EXCEPT !.near[b][off] = Tail(@)]
  <1>1. /\ QInv(p) /\ p.cur >= q.cur /\ Occ(p, p.cur) # {}
        /\ \A c \in Nat : \A o : Holds(p, c, o) <=> Holds(q, c, o)
        /\ Once(q) => Once(p)
    BY SeekFinds
  <1>2. d = [obj |-> Head(stack), cycle |-> cycle, queue |-> new]
    BY DEF Dequeue
  <1> HIDE DEF p
  <1>3. /\ off \in 0..W-1 /\ cycle \in Nat /\ cycle \div W = p.cur /\ cycle % W = off
        /\ stack # <<>> /\ Cell(p, cycle) = stack
        /\ \A c \in Nat : \A o : Holds(p, c, o) => cycle <= c
    BY <1>1, FirstOfBlock
  <1>4. p \in QueueType /\ p.cur \in Nat /\ B \in Nat \ {0}
    <2>1. p \in QueueType
      BY <1>1 DEF QInv
    <2> QED BY <2>1, PrioQueueAssumption DEF QueueType
  <1> HIDE DEF off, cycle, stack, d
  <1>5. b \in 0..B-1 /\ stack \in Seq(Obj)
    <2>1. (cycle \div W) % B \in 0..B-1 /\ Cell(p, cycle) \in Seq(Obj)
      BY <1>3, <1>4, CellType
    <2> QED BY <1>3, <2>1
  <1> HIDE DEF b
  <1>6. /\ Head(stack) \in Obj /\ Tail(stack) \in Seq(Obj)
        /\ \A o : On(o, stack) <=> o = Head(stack) \/ On(o, Tail(stack))
        /\ Distinct(stack) => Distinct(Tail(stack)) /\ ~On(Head(stack), Tail(stack))
    <2>1. /\ Head(stack) \in Obj /\ Tail(stack) \in Seq(Obj)
          /\ Len(Tail(stack)) = Len(stack) - 1
          /\ \A i \in 1..Len(Tail(stack)) : Tail(stack)[i] = stack[i+1]
          /\ Head(stack) = stack[1] /\ Len(stack) \in Nat /\ Len(stack) # 0
      BY <1>3, <1>5, HeadTailProperties, LenProperties, EmptySeq
    <2> DEFINE t == Tail(stack)
    <2>2. Len(t) = Len(stack) - 1 /\ \A i \in 1..Len(t) : t[i] = stack[i+1]
      BY <2>1
    <2> HIDE DEF t
    <2>3. ASSUME NEW o, NEW i \in 1..Len(stack), stack[i] = o
          PROVE  o = Head(stack) \/ \E j \in 1..Len(t) : t[j] = o
      <3>1. CASE i = 1
        BY <2>1, <2>3, <3>1
      <3>2. CASE i # 1
        <4> DEFINE j == i - 1
        <4>1. j \in 1..Len(t) /\ j + 1 = i
          BY <2>1, <2>2, <3>2
        <4> HIDE DEF j
        <4>2. t[j] = o
          BY <2>2, <2>3, <4>1
        <4> QED BY <4>1, <4>2
      <3> QED BY <3>1, <3>2
    <2>4. ASSUME NEW o, NEW j \in 1..Len(t), t[j] = o PROVE \E i \in 1..Len(stack) : stack[i] = o
      <3>1. j + 1 \in 1..Len(stack) /\ stack[j+1] = o
        BY <2>1, <2>2, <2>4
      <3> QED BY <3>1
    <2>5. 1 \in 1..Len(stack) /\ stack[1] = Head(stack)
      BY <2>1
    <2>6. ASSUME Distinct(stack) PROVE Distinct(t) /\ ~On(Head(stack), t)
      <3>1. \A j \in 1..Len(t) : j \in Nat /\ j + 1 \in 1..Len(stack) /\ j + 1 # 1 /\ t[j] = stack[j+1]
        BY <2>1, <2>2
      <3>2. ASSUME NEW i \in 1..Len(t), NEW j \in 1..Len(t), t[i] = t[j] PROVE i = j
        <4>1. i + 1 = j + 1
          BY <2>6, <3>1, <3>2 DEF Distinct
        <4> QED BY <3>1, <4>1
      <3>3. ASSUME NEW j \in 1..Len(t), t[j] = Head(stack) PROVE FALSE
        <4>1. 1 = j + 1
          BY <2>5, <2>6, <3>1, <3>3 DEF Distinct
        <4> QED BY <3>1, <4>1
      <3> QED BY <3>2, <3>3 DEF Distinct, On
    <2> QED BY <2>1, <2>3, <2>4, <2>5, <2>6 DEF On, t
  <1>7. new.cur = p.cur /\ new.far = p.far /\ new \in QueueType
        /\ new.near = [p.near EXCEPT ![b] = [p.near[b] EXCEPT ![off] = Tail(stack)]]
    <2>1. new = [p EXCEPT !.near = [p.near EXCEPT ![b] = [p.near[b] EXCEPT ![off] = Tail(stack)]]]
      BY DEF stack
    <2>2. p.near \in [0..B-1 -> [0..W-1 -> Seq(Obj)]]
      BY <1>4 DEF QueueType
    <2> HIDE DEF new
    <2>3. [p.near EXCEPT ![b] = [p.near[b] EXCEPT ![off] = Tail(stack)]]
            \in [0..B-1 -> [0..W-1 -> Seq(Obj)]]
      BY <1>3, <1>5, <1>6, <2>2
    <2> DEFINE near == [p.near EXCEPT ![b] = [p.near[b] EXCEPT ![off] = Tail(stack)]]
    <2>4. near \in [0..B-1 -> [0..W-1 -> Seq(Obj)]] /\ new = [p EXCEPT !.near = near]
      BY <2>1, <2>3
    <2> HIDE DEF near
    <2>5. new.cur = p.cur /\ new.far = p.far /\ new \in QueueType /\ new.near = near
      BY <1>4, <2>4 DEF QueueType
    <2> QED BY <2>5 DEF near
  <1> HIDE DEF new
  <1>8. QInv(new)
    BY <1>1, <1>7 DEF QInv, Sorted, Far
  <1>9. ASSUME NEW c \in Nat, c \div W \in Window(p)
        PROVE  Cell(new, c) = IF c = cycle THEN Tail(stack) ELSE Cell(p, c)
    <2>1. (c \div W) % B \in 0..B-1 /\ c % W \in 0..W-1 /\ c \div W \in Nat
      BY <1>4, CellType
    <2>2. p.near \in [0..B-1 -> [0..W-1 -> Seq(Obj)]]
      BY <1>4 DEF QueueType
    <2>3. Cell(new, c) = IF (c \div W) % B = b /\ c % W = off THEN Tail(stack) ELSE Cell(p, c)
      <3> DEFINE x == (c \div W) % B
                 y == c % W
                 row == [p.near[b] EXCEPT ![off] = Tail(stack)]
      <3>1. Cell(new, c) = new.near[x][y] /\ Cell(p, c) = p.near[x][y]
        BY DEF Cell
      <3>2. x \in 0..B-1 /\ y \in 0..W-1
        BY <2>1
      <3> HIDE DEF x, y
      <3>3. row[off] = Tail(stack) /\ (y # off => row[y] = p.near[b][y])
        BY <1>3, <1>5, <2>2, <3>2
      <3>4. new.near = [p.near EXCEPT ![b] = row]
        BY <1>7
      <3> HIDE DEF row
      <3>5. new.near[x] = IF x = b THEN row ELSE p.near[x]
        BY <2>2, <3>2, <3>4
      <3>6. new.near[x][y] = IF x = b /\ y = off THEN Tail(stack) ELSE p.near[x][y]
        BY <3>3, <3>5
      <3> QED BY <3>1, <3>6 DEF x, y
    <2>4. ASSUME (c \div W) % B = b, c % W = off PROVE c = cycle
      <3> DEFINE k == c \div W
                 n == p.cur
      <3>1. n \in Nat /\ k \in n..n+B-1 /\ n \in n..n+B-1 /\ k % B = n % B
        BY <1>4, <1>9, <2>4 DEF Window, b
      <3> HIDE DEF k, n
      <3>2. k = n
        BY <3>1, WindowUnique
      <3>3. c \div W = cycle \div W
        BY <1>3, <3>2 DEF k, n
      <3> QED BY <1>3, <2>4, <3>3, SameCycle
    <2>5. ASSUME c = cycle PROVE (c \div W) % B = b /\ c % W = off
      BY <1>3, <2>5 DEF b
    <2> QED BY <2>3, <2>4, <2>5
  <1>10. ASSUME NEW c \in Nat, NEW o
         PROVE  Holds(p, c, o) <=> Holds(new, c, o) \/ (c = cycle /\ o = Head(stack))
    <2>1. InFar(new, c, o) <=> InFar(p, c, o)
      BY <1>7 DEF InFar
    <2>2. Window(new) = Window(p)
      BY <1>7 DEF Window
    <2>3. cycle \div W \in Window(p)
      BY <1>3, <1>4 DEF Window
    <2>4. CASE c = cycle
      <3>1. Cell(new, c) = Tail(stack)
        BY <1>9, <2>3, <2>4
      <3>2. InNear(p, c, o) <=> InNear(new, c, o) \/ o = Head(stack)
        BY <1>3, <1>6, <2>2, <2>3, <2>4, <3>1 DEF InNear
      <3> QED BY <2>1, <2>4, <3>2 DEF Holds
    <2>5. CASE c # cycle
      <3>1. InNear(new, c, o) <=> InNear(p, c, o)
        BY <1>9, <2>2, <2>5 DEF InNear
      <3> QED BY <2>1, <2>5, <3>1 DEF Holds
    <2> QED BY <2>4, <2>5
  <1>14. ASSUME Once(q) PROVE Once(new) /\ ~Holds(new, cycle, Head(stack))
    <2>1. Once(p)
      BY <1>1, <1>14
    <2>2. Window(new) = Window(p) /\ new.far = p.far
      BY <1>7 DEF Window
    <2>3. cycle \div W \in Window(p)
      BY <1>3, <1>4 DEF Window
    <2>4. Distinct(Tail(stack)) /\ ~On(Head(stack), Tail(stack))
      BY <1>3, <1>6, <2>1, <2>3 DEF Once
    <2>5. ASSUME NEW c \in Nat, c \div W \in Window(p) PROVE Distinct(Cell(new, c))
      BY <1>9, <2>1, <2>4, <2>5 DEF Once
    <2>6. ASSUME NEW c \in Nat, NEW o, InNear(new, c, o) PROVE InNear(p, c, o)
      <3>1. c \div W \in Window(p) /\ On(o, Cell(new, c))
        BY <2>2, <2>6 DEF InNear
      <3>2. On(o, Cell(p, c))
        BY <1>3, <1>6, <1>9, <3>1
      <3> QED BY <3>1, <3>2 DEF InNear
    <2>7. \A c, o : InFar(new, c, o) <=> InFar(p, c, o)
      BY <2>2 DEF InFar
    <2>8. Once(new)
      BY <2>1, <2>2, <2>5, <2>6, <2>7 DEF Once
    <2>9. ~InNear(new, cycle, Head(stack))
      BY <1>3, <1>9, <2>3, <2>4 DEF InNear
    <2>10. InNear(p, cycle, Head(stack))
      BY <1>3, <1>6, <2>3 DEF InNear
    <2>11. ~InFar(new, cycle, Head(stack))
      BY <1>3, <2>1, <2>7, <2>10 DEF Once
    <2> QED BY <2>8, <2>9, <2>11 DEF Holds
  <1>11. d.obj = Head(stack) /\ d.cycle = cycle /\ d.queue = new
    BY <1>2
  <1>12. Holds(q, cycle, Head(stack))
    BY <1>1, <1>3, <1>10
  <1>13. /\ QInv(d.queue) /\ d.queue.cur >= q.cur
         /\ d.cycle \in Nat /\ Holds(q, d.cycle, d.obj)
         /\ \A c \in Nat : \A o : Holds(q, c, o) => d.cycle <= c
         /\ \A c \in Nat : \A o : Holds(d.queue, c, o) => Holds(q, c, o)
         /\ \A c \in Nat : \A o :
              Holds(q, c, o) => Holds(d.queue, c, o) \/ (c = d.cycle /\ o = d.obj)
         /\ Once(q) => Once(d.queue) /\ ~Holds(d.queue, d.cycle, d.obj)
    BY <1>1, <1>3, <1>7, <1>8, <1>10, <1>11, <1>12, <1>14
  <1> QED BY <1>13 DEF d

-----------------------------------------------------------------------------
(* The first cycle *)

\* The first occupied cycle of the i-th block of the array, and the occupied blocks
CycleAt(q, i) == (q.cur + i) * W + Min(Occ(q, q.cur + i))
Occupied(q, lo, hi) == {i \in lo..hi : Occ(q, q.cur + i) # {}}

\* The least cycle of the array is in its first occupied block.
LEMMA LeastNear ==
  ASSUME NEW q, QInv(q), NEW i \in 0..B-1, Occ(q, q.cur + i) # {},
         \A j \in 0..B-1 : Occ(q, q.cur + j) # {} => i <= j
  PROVE  /\ CycleAt(q, i) \in Nat /\ CycleAt(q, i) \div W = q.cur + i
         /\ \E o : Holds(q, CycleAt(q, i), o)
         /\ \A c \in Nat : \A o : InNear(q, c, o) => CycleAt(q, i) <= c
  <1> DEFINE k == q.cur + i
             occ == Occ(q, k)
             off == Min(occ)
             x == k * W + off
  <1>1. q \in QueueType /\ q.cur \in Nat /\ B \in Nat \ {0}
    <2>1. q \in QueueType
      BY DEF QInv
    <2> QED BY <2>1, PrioQueueAssumption DEF QueueType
  <1>2. k \in Nat /\ k \in Window(q)
    BY <1>1 DEF Window
  <1>3. CycleAt(q, i) = x
    BY DEF CycleAt
  <1>4. occ \in SUBSET Nat /\ occ # {}
    BY DEF Occ
  <1> HIDE DEF k
  <1>5. off \in occ /\ off \in Nat /\ \A y \in occ : off <= y
    <2> HIDE DEF occ
    <2> QED BY <1>4, MinIsLeast
  <1>6. off \in 0..W-1 /\ q.near[k % B][off] # <<>>
    <2> HIDE DEF off
    <2> QED BY <1>5 DEF Occ
  <1> HIDE DEF off
  <1>7. x \in Nat /\ x \div W = k /\ x % W = off
    BY <1>2, <1>6, Compose
  <1> HIDE DEF x
  <1>8. \E o : Holds(q, x, o)
    <2>1. Cell(q, x) # <<>> /\ Cell(q, x) \in Seq(Obj)
      <3>1. Cell(q, x) \in Seq(Obj)
        BY <1>1, <1>7, CellType
      <3> QED BY <1>6, <1>7, <3>1 DEF Cell
    <2>2. Len(Cell(q, x)) \in Nat /\ Len(Cell(q, x)) # 0
      BY <2>1, EmptySeq
    <2>3. On(Cell(q, x)[1], Cell(q, x))
      BY <2>2 DEF On
    <2> QED BY <1>2, <1>7, <2>3 DEF Holds, InNear
  <1>9. ASSUME NEW c \in Nat, NEW o, InNear(q, c, o) PROVE x <= c
    <2> DEFINE l == c \div W
               j == l - q.cur
    <2>1. l \in Nat /\ c % W \in 0..W-1 /\ l \in Window(q) /\ Cell(q, c) # <<>>
      BY <1>9, DivMod DEF InNear, On
    <2>2. c % W \in Occ(q, l)
      BY <2>1 DEF Occ, Cell
    <2>3. c = l * W + (c % W)
      BY DivMod
    <2> HIDE DEF l
    <2>4. j \in 0..B-1 /\ q.cur + j = l
      BY <1>1, <2>1 DEF Window
    <2>5. i <= j
      BY <2>2, <2>4
    <2>6. k <= l
      BY <1>1, <2>1, <2>5 DEF k
    <2>7. CASE k = l
      <3>1. off <= c % W
        BY <1>5, <2>2, <2>7
      <3>2. x = k * W + off /\ k * W \in Nat
        BY <1>2, PrioQueueAssumption DEF x
      <3> QED BY <1>6, <2>1, <2>3, <2>7, <3>1, <3>2
    <2>8. CASE k # l
      <3>1. x \div W < c \div W
        BY <1>2, <1>7, <2>1, <2>6, <2>8 DEF l
      <3>2. x < c
        BY <1>7, <3>1, EarlierBlock
      <3> QED BY <1>7, <3>2
    <2> QED BY <2>7, <2>8
  <1> QED BY <1>3, <1>7, <1>8, <1>9 DEF k

\* The first element of the map is its least.
LEMMA LeastFar ==
  ASSUME NEW q, QInv(q), q.far # <<>>
  PROVE  /\ q.far[1][1] \in Nat /\ q.far[1][1] \div W > q.cur + H
         /\ \E o : Holds(q, q.far[1][1], o)
         /\ \A c \in Nat : \A o : InFar(q, c, o) => q.far[1][1] <= c
  <1>1. q \in QueueType /\ q.far \in Seq(Nat \X Obj)
    BY DEF QInv, QueueType
  <1>2. Len(q.far) \in Nat /\ Len(q.far) # 0
    BY <1>1, EmptySeq
  <1>3. 1 \in 1..Len(q.far)
    BY <1>2
  <1>4. q.far[1] = <<q.far[1][1], q.far[1][2]>>
    BY <1>1, <1>3, FarType
  <1>5. q.far[1][1] \in Nat /\ q.far[1][1] \div W > q.cur + H
    BY <1>3, FarLater
  <1>6. InFar(q, q.far[1][1], q.far[1][2])
    BY <1>3, <1>4 DEF InFar
  <1>7. ASSUME NEW c \in Nat, NEW o, InFar(q, c, o) PROVE q.far[1][1] <= c
    <2>1. PICK i \in 1..Len(q.far) : q.far[i] = <<c, o>>
      BY <1>7 DEF InFar
    <2>2. q.far[1][1] <= q.far[i][1]
      BY <1>3, <2>1 DEF QInv, Sorted
    <2> QED BY <2>1, <2>2
  <1> QED BY <1>5, <1>6, <1>7 DEF Holds

\* An element of the array is in an occupied block.
LEMMA InOccupied ==
  ASSUME NEW q, QInv(q), NEW c \in Nat, NEW o, InNear(q, c, o)
  PROVE  \E j \in 0..B-1 : Occ(q, q.cur + j) # {}
  <1>1. q.cur \in Nat /\ B \in Nat \ {0}
    BY PrioQueueAssumption DEF QInv, QueueType
  <1> DEFINE l == c \div W
             j == l - q.cur
  <1>2. l \in Nat /\ c % W \in 0..W-1 /\ l \in Window(q) /\ Cell(q, c) # <<>>
    BY DivMod DEF InNear, On
  <1>3. c % W \in Occ(q, l)
    BY <1>2 DEF Occ, Cell
  <1> HIDE DEF l
  <1>4. j \in 0..B-1 /\ q.cur + j = l
    BY <1>1, <1>2 DEF Window
  <1> QED BY <1>3, <1>4

\* PrioQueue::firstCycle is the least cycle that the queue holds, wherever its element lies.
THEOREM FirstCycleLeast ==
  ASSUME NEW q, QInv(q), ~IsEmpty(q)
  PROVE  /\ FirstCycle(q) \in Nat /\ \E o : Holds(q, FirstCycle(q), o)
         /\ \A c \in Nat : \A o : Holds(q, c, o) => FirstCycle(q) <= c
  <1> DEFINE first == Occupied(q, 0, H - 1)
             second == Occupied(q, H, B - 1)
             far == q.far[1][1]
             Least(x) == /\ x \in Nat /\ \E o : Holds(q, x, o)
                         /\ \A c \in Nat : \A o : Holds(q, c, o) => x <= c
  <1>1. q.cur \in Nat /\ B \in Nat /\ H \in Nat \ {0} /\ B = H + H
    BY HalfType DEF QInv, QueueType
  <1>2. FirstCycle(q) =
          IF first # {} THEN CycleAt(q, Min(first))
          ELSE IF second = {} THEN far
          ELSE IF q.far = <<>> THEN CycleAt(q, Min(second))
          ELSE Min({CycleAt(q, Min(second)), far})
    BY DEF FirstCycle, Occupied, CycleAt, H
  <1>3. first \in SUBSET Nat /\ second \in SUBSET Nat
    BY <1>1 DEF Occupied
  <1>4. \A j \in 0..B-1 : Occ(q, q.cur + j) # {} => j \in first \/ (j \in second /\ j >= H)
    BY <1>1 DEF Occupied
  <1>5. \A j : j \in first => j \in 0..H-1 /\ j \in 0..B-1 /\ Occ(q, q.cur + j) # {}
    BY <1>1 DEF Occupied
  <1>6. \A j : j \in second => j \in H..B-1 /\ j \in 0..B-1 /\ Occ(q, q.cur + j) # {}
    BY <1>1 DEF Occupied
  <1>7. \A c \in Nat : \A o : Holds(q, c, o) <=> InNear(q, c, o) \/ InFar(q, c, o)
    BY DEF Holds
  <1>8. ASSUME NEW c \in Nat, NEW o, InFar(q, c, o) PROVE q.far # <<>>
    <2>1. PICK i \in 1..Len(q.far) : TRUE
      BY <1>8 DEF InFar
    <2>2. Len(<<>>) = 0
      BY EmptySeq
    <2> QED BY <2>1, <2>2
  <1> HIDE DEF first, second, far
  <1>9. CASE first # {}
    <2> DEFINE i == Min(first)
               x == CycleAt(q, i)
    <2>1. i \in first /\ i \in Nat /\ \A j \in first : i <= j
      BY <1>3, <1>9, MinIsLeast
    <2> HIDE DEF i
    <2>2. i \in 0..H-1 /\ i \in 0..B-1 /\ Occ(q, q.cur + i) # {}
      BY <1>5, <2>1
    <2>3. \A j \in 0..B-1 : Occ(q, q.cur + j) # {} => i <= j
      BY <1>1, <1>4, <2>1, <2>2
    <2>4. /\ x \in Nat /\ x \div W = q.cur + i
          /\ \E o : Holds(q, x, o)
          /\ \A c \in Nat : \A o : InNear(q, c, o) => x <= c
      BY <2>2, <2>3, LeastNear
    <2> HIDE DEF x
    <2>5. ASSUME NEW c \in Nat, NEW o, InFar(q, c, o) PROVE x <= c
      <3>1. PICK n \in 1..Len(q.far) : q.far[n] = <<c, o>>
        BY <2>5 DEF InFar
      <3>2. c \div W > q.cur + H /\ c \div W \in Nat
        BY <3>1, FarLater
      <3>3. x \div W < c \div W
        BY <1>1, <2>2, <2>4, <3>2
      <3>4. x < c
        BY <2>4, <3>3, EarlierBlock
      <3> QED BY <2>4, <3>4
    <2>6. Least(x)
      BY <1>7, <2>4, <2>5
    <2>7. FirstCycle(q) = x
      BY <1>2, <1>9 DEF x, i
    <2> QED BY <2>6, <2>7
  <1>10. CASE first = {} /\ second = {}
    <2>1. \A c \in Nat : \A o : ~InNear(q, c, o)
      BY <1>4, <1>10, InOccupied
    <2>2. q.far # <<>>
      <3>0. PICK c \in Nat : \E o : Holds(q, c, o)
        BY EmptyIff
      <3>1. PICK o : Holds(q, c, o)
        BY <3>0
      <3> QED BY <1>7, <1>8, <2>1, <3>1
    <2>3. Least(far)
      BY <1>7, <2>1, <2>2, LeastFar DEF far
    <2>4. FirstCycle(q) = far
      BY <1>2, <1>10
    <2> QED BY <2>3, <2>4
  <1>11. CASE first = {} /\ second # {}
    <2> DEFINE i == Min(second)
               x == CycleAt(q, i)
    <2>1. i \in second /\ i \in Nat /\ \A j \in second : i <= j
      BY <1>3, <1>11, MinIsLeast
    <2> HIDE DEF i
    <2>2. i \in 0..B-1 /\ Occ(q, q.cur + i) # {}
      BY <1>6, <2>1
    <2>3. \A j \in 0..B-1 : Occ(q, q.cur + j) # {} => i <= j
      BY <1>4, <1>11, <2>1
    <2>4. /\ x \in Nat
          /\ \E o : Holds(q, x, o)
          /\ \A c \in Nat : \A o : InNear(q, c, o) => x <= c
      BY <2>2, <2>3, LeastNear
    <2>5. FirstCycle(q) = IF q.far = <<>> THEN x ELSE Min({x, far})
      BY <1>2, <1>11 DEF x, i
    <2> HIDE DEF x
    <2>6. CASE q.far = <<>>
      <3>1. \A c \in Nat : \A o : ~InFar(q, c, o)
        BY <1>8, <2>6
      <3>2. Least(x)
        BY <1>7, <2>4, <3>1
      <3> QED BY <2>5, <2>6, <3>2
    <2>7. CASE q.far # <<>>
      <3>1. /\ far \in Nat /\ \E o : Holds(q, far, o)
            /\ \A c \in Nat : \A o : InFar(q, c, o) => far <= c
        BY <2>7, LeastFar DEF far
      <3> DEFINE S == {x, far}
                 y == Min(S)
      <3>2. y \in {x, far} /\ y \in Nat /\ y <= x /\ y <= far
        <4>1. S \in SUBSET Nat /\ S # {} /\ x \in S /\ far \in S
          BY <2>4, <3>1
        <4> HIDE DEF S
        <4>2. y \in S /\ y \in Nat /\ \A z \in S : y <= z
          BY <4>1, MinIsLeast
        <4> QED BY <4>1, <4>2 DEF S
      <3>3. FirstCycle(q) = y
        BY <2>5, <2>7
      <3> HIDE DEF y
      <3>4. \E o : Holds(q, y, o)
        BY <2>4, <3>1, <3>2
      <3>5. ASSUME NEW c \in Nat, NEW o, Holds(q, c, o) PROVE y <= c
        <4>1. x <= c \/ far <= c
          BY <1>7, <2>4, <3>1, <3>5
        <4> QED BY <2>4, <3>1, <3>2, <4>1
      <3> QED BY <3>2, <3>3, <3>4, <3>5
    <2> QED BY <2>6, <2>7
  <1> QED BY <1>9, <1>10, <1>11
=============================================================================

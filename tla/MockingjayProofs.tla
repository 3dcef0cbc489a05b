-------------------------- MODULE MockingjayProofs --------------------------
(***************************************************************************)
(* Theorems about the Mockingjay policy, for every geometry of the cache   *)
(* and every choice of the policy's parameters.                            *)
(***************************************************************************)
EXTENDS Mockingjay, FiniteSetTheorems, WellFoundedInduction, TLAPS

-----------------------------------------------------------------------------
(* Extremal elements and the geometry of the array *)

\* Least is the minimum of a non-empty set of naturals: the first way or line
\* that a loop of the code stops at is one of those it looks for.
LEMMA LeastIsMinimum ==
  ASSUME NEW S \in SUBSET Nat, S # {}
  PROVE  Least(S) \in S /\ \A y \in S : Least(S) <= y
  <1> DEFINE R == {ss \in Nat \X Nat : ss[1] < ss[2]}
  <1>1. IsWellFoundedOn(R, Nat)
    BY NatLessThanWellFounded DEF OpToRel
  <1>2. PICK x \in S : \A y \in S : ~(<<y, x>> \in R)
    <2> HIDE DEF R
    <2> QED BY <1>1, WFMin
  <1>3. ASSUME NEW y \in S PROVE x <= y
    <2>1. x \in Nat /\ y \in Nat /\ ~(y < x)
      BY <1>2
    <2> QED BY <2>1
  <1> QED BY <1>2, <1>3 DEF Least

\* A function to the naturals that is bounded on a non-empty set has a maximum
\* there: the scans for the largest estimate and the last overdue line end.
LEMMA MaximumExists ==
  ASSUME NEW S, S # {}, NEW f, NEW b \in Nat, \A x \in S : f[x] \in 0..b
  PROVE  \E m \in S : \A x \in S : f[x] <= f[m]
  <1> DEFINE T == {b - f[x] : x \in S}
  <1>1. T \in SUBSET Nat /\ T # {}
    OBVIOUS
  <1>2. Least(T) \in T /\ \A y \in T : Least(T) <= y
    <2> HIDE DEF T
    <2> QED BY <1>1, LeastIsMinimum
  <1>3. PICK m \in S : Least(T) = b - f[m]
    BY <1>2
  <1>4. ASSUME NEW x \in S PROVE f[x] <= f[m]
    <2>1. b - f[m] <= b - f[x]
      BY <1>2, <1>3
    <2> QED BY <2>1
  <1> QED BY <1>4

\* Division by a positive number is monotone.
LEMMA DivMonotone ==
  ASSUME NEW x \in Nat, NEW y \in Nat, x <= y, NEW g \in Nat \ {0}
  PROVE  x \div g \in Nat /\ x \div g <= y \div g
  <1> DEFINE p == x \div g
             q == y \div g
  <1>1. p \in Nat /\ q \in Nat /\ p * g <= x /\ y < q * g + g
    OBVIOUS
  <1> HIDE DEF p, q
  <1>2. CASE p > q
    <2>1. PICK d \in Nat : p = q + 1 + d
      <3>1. p - q - 1 \in Nat /\ p = q + 1 + (p - q - 1)
        BY <1>1, <1>2
      <3> QED BY <3>1
    <2>2. p * g = q * g + g + d * g /\ d * g >= 0
      BY <1>1, <2>1
    <2> QED BY <1>1, <2>2
  <1> QED BY <1>1, <1>2 DEF p, q

\* A line number divided by the ways is a set number.
LEMMA SetOfLineType == \A id \in Lines : SetOfLine(id) \in Sets
  <1> SUFFICES ASSUME NEW id \in Lines PROVE SetOfLine(id) \in Sets
    OBVIOUS
  <1> USE GeometryAssumption DEF Lines, Sets, SetOfLine
  <1> HIDE DEF NumSets
  <1> DEFINE q == id \div llc_ways
             w == llc_ways
             n == NumSets
  <1>1. q \in Nat /\ q * w <= id /\ id < n * w /\ n \in Nat /\ w \in Nat \ {0}
    OBVIOUS
  <1>2. q < n
    <2> HIDE DEF q, w, n
    <2>1. CASE q >= n
      <3>1. PICK d \in Nat : q = n + d
        <4>1. q - n \in Nat /\ q = n + (q - n)
          BY <1>1, <2>1
        <4> QED BY <4>1
      <3>2. q * w = n * w + d * w /\ d * w >= 0
        BY <1>1, <3>1
      <3> QED BY <1>1, <3>2
    <2> QED BY <1>1, <2>1
  <1> QED BY <1>1, <1>2

\* Every set has lines: those from set * llc_ways on.
LEMMA SetHasLines == \A set \in Sets : LinesOf(set) # {} /\ LinesOf(set) \in SUBSET Lines
  <1> SUFFICES ASSUME NEW set \in Sets PROVE set * llc_ways \in LinesOf(set)
    BY DEF LinesOf
  <1> USE GeometryAssumption DEF Lines, Sets
  <1> HIDE DEF NumSets
  <1> DEFINE w == llc_ways
             n == NumSets
  <1>0. w \in Nat \ {0} /\ n \in Nat \ {0} /\ set \in 0..n - 1
    OBVIOUS
  <1>1. set * w \in 0..n * w - 1
    <2> HIDE DEF w, n
    <2>1. PICK d \in Nat : n = set + 1 + d
      <3>1. n - set - 1 \in Nat /\ n = set + 1 + (n - set - 1)
        BY <1>0
      <3> QED BY <3>1
    <2>2. n * w = set * w + w + d * w /\ d * w >= 0 /\ set * w >= 0
      BY <1>0, <2>1
    <2> QED BY <1>0, <2>2
  <1>2. (set * w) \div w = set
    <2> HIDE DEF w, n
    <2> QED BY <1>0
  <1> QED BY <1>1, <1>2 DEF LinesOf, SetOfLine

\* rank's scan over valid lines ends at a line of the set.
LEMMA VictimInSet ==
  ASSUME TypeOK, NEW set \in Sets
  PROVE  Victim(set) \in LinesOf(set)
  <1> DEFINE top == {id \in LinesOf(set) : \A i \in LinesOf(set) : Abs(etr[i]) <= Abs(etr[id])}
             overdue == {id \in top : etr[id] < 0}
             abs == [id \in LinesOf(set) |-> Abs(etr[id])]
  <1>0. LinesOf(set) # {} /\ LinesOf(set) \in SUBSET Lines /\ Lines \in SUBSET Nat
    BY SetHasLines DEF Lines
  <1>1. \A id \in LinesOf(set) : abs[id] \in 0..INF_ETR
    <2> SUFFICES ASSUME NEW id \in LinesOf(set) PROVE Abs(etr[id]) \in 0..INF_ETR
      OBVIOUS
    <2>1. etr[id] \in -INF_ETR..INF_ETR /\ INF_ETR \in Nat
      BY <1>0, ParameterAssumption DEF TypeOK
    <2> QED BY <2>1 DEF Abs
  <1>2. top # {}
    <2>1. \E m \in LinesOf(set) : \A i \in LinesOf(set) : abs[i] <= abs[m]
      <3> HIDE DEF abs
      <3> QED BY <1>0, <1>1, MaximumExists, ParameterAssumption
    <2> QED BY <2>1
  <1>3. CASE overdue = {}
    <2>1. Least(top) \in top
      <3>1. top \in SUBSET Nat
        BY <1>0
      <3> HIDE DEF top
      <3> QED BY <1>2, <3>1, LeastIsMinimum
    <2> QED BY <1>3, <2>1 DEF Victim
  <1>4. CASE overdue # {}
    <2> DEFINE idf == [id \in overdue |-> id]
               b == NumSets * llc_ways
    <2>1. b \in Nat /\ \A id \in overdue : idf[id] \in 0..b
      <3>1. NumSets \in Nat /\ llc_ways \in Nat
        BY GeometryAssumption
      <3> HIDE DEF NumSets
      <3>2. b \in Nat
        BY <3>1
      <3>3. \A id \in Lines : id \in 0..b
        BY <3>2 DEF Lines
      <3> QED BY <1>0, <3>2, <3>3
    <2>2. \E m \in overdue : \A i \in overdue : idf[i] <= idf[m]
      <3> HIDE DEF overdue, idf, b
      <3> QED BY <1>4, <2>1, MaximumExists
    <2>3. \E id \in overdue : \A i \in overdue : i <= id
      BY <2>2
    <2> QED BY <1>4, <2>3 DEF Victim
  <1> QED BY <1>3, <1>4

\* The line that rank returns, invalid or victim, is of the set.
LEMMA RankInSet ==
  ASSUME TypeOK, NEW set \in Sets
  PROVE  rank(set) \in LinesOf(set)
  <1> DEFINE invalid == {id \in LinesOf(set) : ~valid[id]}
  <1>1. CASE invalid = {}
    BY <1>1, VictimInSet DEF rank
  <1>2. CASE invalid # {}
    <2>1. invalid \in SUBSET Nat
      BY DEF LinesOf, Lines
    <2>2. Least(invalid) \in invalid
      <3> HIDE DEF invalid
      <3> QED BY <1>2, <2>1, LeastIsMinimum
    <2> QED BY <1>2, <2>2 DEF rank
  <1> QED BY <1>1, <1>2

-----------------------------------------------------------------------------
(* The loop of rank *)

\* The lines of a set are those that rank's loop visits.
LEMMA LinesOfSet ==
  ASSUME NEW set \in Sets
  PROVE  LinesOf(set) = {id \in Nat : set * llc_ways <= id /\ id < set * llc_ways + llc_ways}
  <1> DEFINE w == llc_ways
             n == NumSets
  <1>1. w \in Nat \ {0} /\ n \in Nat \ {0} /\ set \in Nat /\ set < n
    <2> USE GeometryAssumption DEF Sets
    <2> HIDE DEF NumSets
    <2> QED OBVIOUS
  <1>2. Lines = 0..n * w - 1
    BY DEF Lines
  <1> HIDE DEF w, n
  <1>3. n * w \in Nat /\ set * w \in Nat /\ set * w + w <= n * w
    <2>1. PICK d \in Nat : n = set + 1 + d
      <3>1. n - set - 1 \in Nat /\ n = set + 1 + (n - set - 1)
        BY <1>1
      <3> QED BY <3>1
    <2>2. n * w = set * w + w + d * w /\ d * w \in Nat /\ set * w \in Nat
      BY <1>1, <2>1
    <2> QED BY <1>1, <2>2
  <1>4. ASSUME NEW id \in Nat
        PROVE  id \div w = set <=> set * w <= id /\ id < set * w + w
    <2> DEFINE q == id \div w
    <2>1. q \in Nat /\ q * w <= id /\ id < q * w + w
      BY <1>1
    <2> HIDE DEF q
    <2>2. CASE q = set
      BY <2>1, <2>2 DEF q
    <2>3. CASE q < set
      <3>1. PICK d \in Nat : set = q + 1 + d
        <4>1. set - q - 1 \in Nat /\ set = q + 1 + (set - q - 1)
          BY <1>1, <2>1, <2>3
        <4> QED BY <4>1
      <3>2. set * w = q * w + w + d * w /\ d * w \in Nat /\ q * w \in Nat
        BY <1>1, <2>1, <3>1
      <3> QED BY <1>1, <2>1, <2>3, <3>2 DEF q
    <2>4. CASE q > set
      <3>1. PICK d \in Nat : q = set + 1 + d
        <4>1. q - set - 1 \in Nat /\ q = set + 1 + (q - set - 1)
          BY <1>1, <2>1, <2>4
        <4> QED BY <4>1
      <3>2. q * w = set * w + w + d * w /\ d * w \in Nat /\ set * w \in Nat
        BY <1>1, <2>1, <3>1
      <3> QED BY <1>1, <2>1, <2>4, <3>2 DEF q
    <2> QED BY <1>1, <2>1, <2>2, <2>3, <2>4
  <1>5. LinesOf(set) = {id \in 0..n * w - 1 : id \div w = set}
    BY <1>2 DEF LinesOf, SetOfLine, w
  <1>6. LinesOf(set) = {id \in Nat : set * w <= id /\ id < set * w + w}
    BY <1>1, <1>3, <1>4, <1>5
  <1> QED BY <1>6 DEF w

\* Line v has the largest absolute estimate of S; on ties it is the last of the negative
\* ones or, if there is none, the first.
IsBest(S, v) ==
    /\ v \in S
    /\ \A i \in S :
         /\ Abs(etr[i]) <= Abs(etr[v])
         /\ Abs(etr[i]) = Abs(etr[v]) =>
              IF etr[v] < 0 THEN etr[i] < 0 => i <= v ELSE etr[i] >= 0 /\ v <= i

\* The first n candidates of rank's loop
Firsts(set, n) == {id \in Nat : set * llc_ways <= id /\ id < set * llc_ways + n}

\* The estimates of the lines of a set are integers, and their absolute values naturals.
LEMMA EstimatesType ==
  ASSUME TypeOK, NEW set \in Sets, NEW n \in 0..llc_ways, NEW id \in Firsts(set, n)
  PROVE  id \in Nat /\ etr[id] \in Int /\ Abs(etr[id]) \in Nat
  <1>1. llc_ways \in Nat /\ set * llc_ways \in Nat /\ n \in Nat /\ n <= llc_ways
    <2> USE GeometryAssumption DEF Sets
    <2> HIDE DEF NumSets
    <2> QED OBVIOUS
  <1>2. id \in LinesOf(set)
    BY <1>1, LinesOfSet DEF Firsts
  <1>3. etr[id] \in -INF_ETR..INF_ETR /\ INF_ETR \in Nat
    BY <1>2, ParameterAssumption DEF TypeOK, LinesOf
  <1> QED BY <1>3 DEF Abs, Firsts

\* There is at most one best line.
LEMMA BestUnique ==
  ASSUME NEW S \in SUBSET Nat, NEW v, NEW w, IsBest(S, v), IsBest(S, w),
         \A i \in S : etr[i] \in Int /\ Abs(etr[i]) \in Nat
  PROVE  v = w
  <1>1. v \in S /\ w \in S /\ v \in Nat /\ w \in Nat
    BY DEF IsBest
  <1>2. Abs(etr[v]) = Abs(etr[w])
    BY <1>1 DEF IsBest
  <1>3. CASE etr[v] < 0
    <2>1. etr[w] < 0
      BY <1>1, <1>2, <1>3 DEF IsBest
    <2> QED BY <1>1, <1>2, <1>3, <2>1 DEF IsBest
  <1>4. CASE ~(etr[v] < 0)
    <2>1. ~(etr[w] < 0)
      BY <1>1, <1>2, <1>4 DEF IsBest
    <2> QED BY <1>1, <1>2, <1>4, <2>1 DEF IsBest
  <1> QED BY <1>3, <1>4

\* A turn of the loop: the next candidate against the best of those before it.
LEMMA BestStep ==
  ASSUME TypeOK, NEW set \in Sets, NEW n \in 1..llc_ways, NEW v, IsBest(Firsts(set, n - 1), v)
  PROVE  LET id == set * llc_ways + n - 1
         IN  IsBest(Firsts(set, n),
                    IF Abs(etr[id]) > Abs(etr[v]) \/ (Abs(etr[id]) = Abs(etr[v]) /\ etr[id] < 0)
                    THEN id ELSE v)
  <1> DEFINE id == set * llc_ways + n - 1
             F == Firsts(set, n - 1)
             G == Firsts(set, n)
  <1>1. llc_ways \in Nat /\ set * llc_ways \in Nat /\ n \in Nat /\ n - 1 \in Nat /\ n <= llc_ways
    <2> USE GeometryAssumption DEF Sets
    <2> HIDE DEF NumSets
    <2> QED OBVIOUS
  <1>2. G = F \cup {id} /\ id \in Nat /\ \A i \in F : i < id /\ i \in Nat
    BY <1>1 DEF Firsts
  <1>3. \A i \in G : etr[i] \in Int /\ Abs(etr[i]) \in Nat
    BY <1>1, EstimatesType
  <1>4. /\ v \in F
        /\ \A i \in F :
             /\ Abs(etr[i]) <= Abs(etr[v])
             /\ Abs(etr[i]) = Abs(etr[v]) =>
                  IF etr[v] < 0 THEN etr[i] < 0 => i <= v ELSE etr[i] >= 0 /\ v <= i
    BY DEF IsBest
  <1> HIDE DEF F, G, id
  <1>5. CASE Abs(etr[id]) > Abs(etr[v]) \/ (Abs(etr[id]) = Abs(etr[v]) /\ etr[id] < 0)
    <2>1. \A i \in F : Abs(etr[i]) <= Abs(etr[id]) /\ i <= id
                       /\ (Abs(etr[i]) = Abs(etr[id]) => etr[id] < 0)
      BY <1>2, <1>3, <1>4, <1>5
    <2>2. IsBest(G, id)
      BY <1>2, <1>3, <2>1 DEF IsBest
    <2> QED BY <1>5, <2>2 DEF id, G
  <1>6. CASE ~(Abs(etr[id]) > Abs(etr[v]) \/ (Abs(etr[id]) = Abs(etr[v]) /\ etr[id] < 0))
    <2>1. Abs(etr[id]) <= Abs(etr[v]) /\ (Abs(etr[id]) = Abs(etr[v]) => ~(etr[id] < 0))
      BY <1>2, <1>3, <1>4, <1>6
    <2>2. IsBest(G, v)
      BY <1>2, <1>3, <1>4, <2>1 DEF IsBest
    <2> QED BY <1>6, <2>2 DEF id, G
  <1> QED BY <1>5, <1>6

\* The first candidate is the best of the first.
LEMMA BestFirst ==
  ASSUME TypeOK, NEW set \in Sets
  PROVE  LET id == set * llc_ways
         IN  IsBest(Firsts(set, 1), id) /\ Abs(etr[id]) \in Nat
  <1>1. llc_ways \in Nat \ {0} /\ set * llc_ways \in Nat
    <2> USE GeometryAssumption DEF Sets
    <2> HIDE DEF NumSets
    <2> QED OBVIOUS
  <1>2. Firsts(set, 1) = {set * llc_ways}
    BY <1>1 DEF Firsts
  <1>3. etr[set * llc_ways] \in Int /\ Abs(etr[set * llc_ways]) \in Nat
    BY <1>1, <1>2, EstimatesType
  <1> QED BY <1>1, <1>2, <1>3 DEF IsBest

\* What holds of 1 and of the successor of a number it holds of, holds of all numbers up
\* to a bound: the induction over rank's loop, for a set.
LEMMA UpTo ==
  ASSUME NEW m \in Nat, NEW S, 1 \in S, \A n \in 2..m : n - 1 \in S => n \in S
  PROVE  1..m \subseteq S
  <1> SUFFICES ASSUME 1..m \ S # {} PROVE FALSE
    OBVIOUS
  <1> DEFINE D == 1..m \ S
  <1>1. D \in SUBSET Nat /\ D # {}
    OBVIOUS
  <1>2. Least(D) \in D /\ \A y \in D : Least(D) <= y
    <2> HIDE DEF D
    <2> QED BY <1>1, LeastIsMinimum
  <1>3. PICK l \in D : \A y \in D : l <= y
    BY <1>2
  <1>4. l \in 2..m /\ l - 1 \in 1..m /\ l - 1 \notin D
    BY <1>3
  <1> QED BY <1>3, <1>4

\* The candidates so far have a best line.
LEMMA BestExists ==
  ASSUME TypeOK, NEW set \in Sets, NEW n \in 1..llc_ways
  PROVE  \E v : IsBest(Firsts(set, n), v)
  <1> DEFINE S == {k \in Nat : \E v : IsBest(Firsts(set, k), v)}
  <1>1. llc_ways \in Nat
    BY GeometryAssumption
  <1>2. 1 \in S
    BY BestFirst
  <1>3. ASSUME NEW k \in 2..llc_ways, k - 1 \in S PROVE k \in S
    <2>1. PICK v : IsBest(Firsts(set, k - 1), v)
      BY <1>3
    <2>2. k \in 1..llc_ways /\ k \in Nat
      BY <1>1
    <2>3. \E x : IsBest(Firsts(set, k), x)
      BY <2>1, <2>2, BestStep
    <2> QED BY <2>2, <2>3
  <1>4. 1..llc_ways \subseteq S
    <2> HIDE DEF S
    <2> QED BY <1>1, <1>2, <1>3, UpTo
  <1> QED BY <1>4

\* Victim is the best line of the set.
LEMMA VictimIsBest ==
  ASSUME TypeOK, NEW set \in Sets
  PROVE  IsBest(Firsts(set, llc_ways), Victim(set))
  <1> DEFINE F == Firsts(set, llc_ways)
             top == {id \in F : \A i \in F : Abs(etr[i]) <= Abs(etr[id])}
             overdue == {id \in top : etr[id] < 0}
  <1>1. llc_ways \in 1..llc_ways /\ llc_ways \in 0..llc_ways
    BY GeometryAssumption
  <1>2. PICK v : IsBest(F, v)
    BY <1>1, BestExists
  <1>3. F \in SUBSET Nat /\ \A i \in F : etr[i] \in Int /\ Abs(etr[i]) \in Nat
    BY <1>1, EstimatesType DEF Firsts
  <1>4. Victim(set) = IF overdue = {} THEN Least(top)
                      ELSE CHOOSE id \in overdue : \A i \in overdue : i <= id
    <2>1. LinesOf(set) = F
      BY LinesOfSet DEF Firsts
    <2> HIDE DEF F
    <2> QED BY <2>1 DEF Victim
  <1> HIDE DEF F
  <1>5. /\ v \in F /\ v \in Nat
        /\ \A i \in F :
             /\ Abs(etr[i]) <= Abs(etr[v])
             /\ Abs(etr[i]) = Abs(etr[v]) =>
                  IF etr[v] < 0 THEN etr[i] < 0 => i <= v ELSE etr[i] >= 0 /\ v <= i
    BY <1>2, <1>3 DEF IsBest
  <1>6. v \in top /\ \A i \in top : i \in F /\ i \in Nat /\ Abs(etr[i]) = Abs(etr[v])
    BY <1>3, <1>5
  <1>7. CASE etr[v] < 0
    <2>1. v \in overdue /\ \A i \in overdue : i <= v /\ i \in Nat
      BY <1>3, <1>5, <1>6, <1>7
    <2> HIDE DEF top, overdue
    <2> DEFINE last == CHOOSE id \in overdue : \A i \in overdue : i <= id
    <2>2. last \in overdue /\ \A i \in overdue : i <= last
      BY <2>1, Zenon
    <2>3. Victim(set) = last
      BY <1>4, <2>1, Zenon
    <2> HIDE DEF last
    <2>4. Victim(set) = v
      BY <1>5, <2>1, <2>2, <2>3
    <2> QED BY <1>2, <2>4 DEF F
  <1>8. CASE ~(etr[v] < 0)
    <2>1. \A i \in top : ~(etr[i] < 0) /\ v <= i /\ i \in Nat
      <3> SUFFICES ASSUME NEW i \in top PROVE ~(etr[i] < 0) /\ v <= i /\ i \in Nat
        OBVIOUS
      <3>1. i \in F /\ i \in Nat /\ Abs(etr[i]) = Abs(etr[v]) /\ etr[i] \in Int
        BY <1>3, <1>6
      <3>2. etr[i] >= 0 /\ v <= i
        BY <1>5, <1>8, <3>1
      <3> QED BY <3>1, <3>2
    <2>a. overdue = {}
      BY <2>1
    <2>b. top \in SUBSET Nat /\ top # {}
      BY <1>6, <2>1
    <2> HIDE DEF top, overdue
    <2>c. Least(top) \in top /\ \A y \in top : Least(top) <= y
      BY <2>b, LeastIsMinimum
    <2>2. Least(top) = v
      <3>1. v <= Least(top) /\ Least(top) <= v /\ Least(top) \in Nat
        BY <1>6, <2>1, <2>c, Zenon
      <3> QED BY <1>5, <3>1
    <2>3. Victim(set) = v
      BY <1>4, <2>a, <2>2
    <2> QED BY <1>2, <2>3 DEF F
  <1> QED BY <1>7, <1>8

\* rank's loop stops at the best line.
LEMMA ScanIsBest ==
  ASSUME TypeOK, NEW set \in Sets
  PROVE  IsBest(Firsts(set, llc_ways), ScanVictim(set))
  <1> DEFINE m == llc_ways
             Line(n) == set * llc_ways + n - 1
             Turn(r, id) == IF \/ Abs(etr[id]) > r.max_etr
                               \/ Abs(etr[id]) = r.max_etr /\ etr[id] < 0
                            THEN [max_etr |-> Abs(etr[id]), victim_loc |-> id]
                            ELSE r
             Loop(f) == f = [n \in 0..m |-> IF n = 0 THEN [max_etr |-> -1, victim_loc |-> 0]
                                            ELSE Turn(f[n-1], Line(n))]
             Best(n) == CHOOSE v : IsBest(Firsts(set, n), v)
             found == [n \in 0..m |-> IF n = 0 THEN [max_etr |-> -1, victim_loc |-> 0]
                                      ELSE [max_etr |-> Abs(etr[Best(n)]), victim_loc |-> Best(n)]]
             best == CHOOSE f : Loop(f)
  <1>1. m \in Nat /\ m > 0 /\ m \in 1..m /\ set * llc_ways \in Nat
    <2> USE GeometryAssumption DEF Sets
    <2> HIDE DEF NumSets
    <2> QED OBVIOUS
  <1>2. ScanVictim(set) = best[m].victim_loc
    BY DEF ScanVictim
  <1>3. ASSUME NEW n \in 1..m PROVE IsBest(Firsts(set, n), Best(n))
    BY BestExists
  <1>4. ASSUME NEW n \in 1..m, NEW v, IsBest(Firsts(set, n), v) PROVE Best(n) = v
    <2>1. n \in 0..m /\ n \in 0..llc_ways
      BY <1>1
    <2>2. \A i \in Firsts(set, n) : etr[i] \in Int /\ Abs(etr[i]) \in Nat
      BY <2>1, EstimatesType
    <2>3. Firsts(set, n) \in SUBSET Nat
      BY DEF Firsts
    <2>4. IsBest(Firsts(set, n), Best(n))
      BY <1>3
    <2> HIDE DEF Best
    <2> QED BY <1>4, <2>2, <2>3, <2>4, BestUnique
  <1> HIDE DEF Best
  <1>5. Loop(found)
    <2>1. ASSUME NEW n \in 1..m
          PROVE  Turn(found[n-1], Line(n)) = [max_etr |-> Abs(etr[Best(n)]), victim_loc |-> Best(n)]
      <3>1. CASE n = 1
        <4>1. Line(n) = set * llc_ways
          BY <1>1, <3>1
        <4>2. IsBest(Firsts(set, n), Line(n)) /\ Abs(etr[Line(n)]) \in Nat
          BY <3>1, <4>1, BestFirst
        <4>3. Best(n) = Line(n)
          BY <1>4, <4>2
        <4>4. found[n-1].max_etr = -1
          BY <1>1, <3>1
        <4>5. Abs(etr[Line(n)]) > found[n-1].max_etr
          BY <4>2, <4>4
        <4> HIDE DEF found, Line
        <4> QED BY <4>3, <4>5
      <3>2. CASE n # 1
        <4>1. n - 1 \in 1..m /\ n - 1 # 0 /\ n - 1 \in 0..m
          BY <1>1, <3>2
        <4>2. found[n-1] = [max_etr |-> Abs(etr[Best(n-1)]), victim_loc |-> Best(n-1)]
          BY <4>1
        <4>3. IsBest(Firsts(set, n - 1), Best(n-1))
          BY <1>3, <4>1
        <4>4. IsBest(Firsts(set, n),
                     IF \/ Abs(etr[Line(n)]) > Abs(etr[Best(n-1)])
                        \/ Abs(etr[Line(n)]) = Abs(etr[Best(n-1)]) /\ etr[Line(n)] < 0
                     THEN Line(n) ELSE Best(n-1))
          BY <4>3, BestStep
        <4>5. Best(n) = IF \/ Abs(etr[Line(n)]) > Abs(etr[Best(n-1)])
                           \/ Abs(etr[Line(n)]) = Abs(etr[Best(n-1)]) /\ etr[Line(n)] < 0
                        THEN Line(n) ELSE Best(n-1)
          BY <1>4, <4>4
        <4> HIDE DEF found, Line
        <4> QED BY <4>2, <4>5
      <3> QED BY <3>1, <3>2
    <2>2. ASSUME NEW n \in 0..m
          PROVE  found[n] = IF n = 0 THEN [max_etr |-> -1, victim_loc |-> 0]
                            ELSE Turn(found[n-1], Line(n))
      <3>1. CASE n = 0
        BY <3>1
      <3>2. CASE n # 0
        <4>1. n \in 1..m
          BY <1>1, <3>2
        <4>2. found[n] = [max_etr |-> Abs(etr[Best(n)]), victim_loc |-> Best(n)]
          BY <3>2
        <4> HIDE DEF found, Turn, Line
        <4> QED BY <2>1, <3>2, <4>1, <4>2
      <3> QED BY <3>1, <3>2
    <2>3. found = [n \in 0..m |-> found[n]]
      OBVIOUS
    <2> HIDE DEF found, Turn, Line
    <2> QED BY <2>2, <2>3
  <1>6. Loop(best)
    <2> HIDE DEF found, Loop
    <2> QED BY <1>5
  <1> HIDE DEF best
  <1>7. 1..m \subseteq {n \in Nat : best[n] = found[n]}
    <2> DEFINE S == {n \in Nat : best[n] = found[n]}
    <2>1. ASSUME NEW n \in 1..m
          PROVE  /\ best[n] = Turn(best[n-1], Line(n)) /\ found[n] = Turn(found[n-1], Line(n))
      <3>1. n \in 0..m /\ n # 0
        BY <1>1
      <3> HIDE DEF found, Turn, Line
      <3> QED BY <1>5, <1>6, <3>1
    <2>2. best[0] = found[0]
      <3>1. 0 \in 0..m
        BY <1>1
      <3> HIDE DEF found, Turn, Line
      <3> QED BY <1>5, <1>6, <3>1
    <2> HIDE DEF found, Turn, Line, Loop
    <2>3. 1 \in S
      <3>1. 1 \in 1..m /\ 1 - 1 = 0
        BY <1>1
      <3> QED BY <2>1, <2>2, <3>1
    <2>4. ASSUME NEW n \in 2..m, n - 1 \in S PROVE n \in S
      <3>1. n \in 1..m /\ n \in Nat
        BY <1>1
      <3> QED BY <2>1, <2>4, <3>1
    <2> HIDE DEF S
    <2>5. 1..m \subseteq S
      BY <1>1, <2>3, <2>4, UpTo
    <2> QED BY <2>5 DEF S
  <1>8. best[m] = found[m]
    BY <1>1, <1>7
  <1>9. found[m].victim_loc = Best(m)
    BY <1>1
  <1> HIDE DEF found
  <1> QED BY <1>1, <1>2, <1>3, <1>8, <1>9

-----------------------------------------------------------------------------
(* The predictor's arithmetic *)

\* The age of a sample is a natural below the period of the clock.
LEMMA ElapsedType ==
  ASSUME TypeOK, NEW set \in Sets, NEW ix \in Indices, NEW w \in Ways
  PROVE  Elapsed(set, sampledCacheEntries[ix][w]) \in 0..kMaxTimestamp - 1
  <1>1. /\ sampledCacheEntries[ix][w].timestamp \in 0..kMaxTimestamp - 1
        /\ current_timestamp[set] \in 0..kMaxTimestamp - 1
    BY DEF TypeOK, SampledCacheLine
  <1> QED BY <1>1, ParameterAssumption DEF Elapsed, computeElapsedTime

\* The penalty keeps a distance of a reuse within RdpBound.
LEMMA PenalisedType == \A x \in 0..INF_RD : Penalised(x) \in 0..RdpBound
  <1> SUFFICES ASSUME NEW x \in 0..INF_RD PROVE Penalised(x) \in 0..RdpBound
    OBVIOUS
  <1> DEFINE k == 8 - LOG2_CORES
  <1>1. k \in 0..8 /\ INF_RD \in Nat
    BY ParameterAssumption
  <1>2. x * k \in Nat /\ INF_RD * k \in Nat /\ x * k <= INF_RD * k
    <2> HIDE DEF k
    <2> QED BY <1>1
  <1>3. Penalised(x) \in Nat /\ Penalised(x) <= Penalised(INF_RD)
    <2> HIDE DEF k
    <2>1. (x * k) \div 4 \in Nat /\ (x * k) \div 4 <= (INF_RD * k) \div 4
      BY <1>2
    <2> QED BY <2>1 DEF Penalised, k
  <1>4. RdpBound \in Nat /\ Penalised(INF_RD) \in Nat /\ RdpBound >= Penalised(INF_RD)
    <2>1. Penalised(INF_RD) \in Nat
      BY <1>2 DEF Penalised
    <2> DEFINE p == Penalised(INF_RD)
    <2>2. RdpBound = IF p > INF_RD THEN p ELSE INF_RD
      BY DEF RdpBound
    <2> HIDE DEF k, p
    <2>3. p \in Nat
      BY <2>1 DEF p
    <2>4. RdpBound \in Nat /\ p \in Nat /\ RdpBound >= p
      BY <1>1, <2>2, <2>3
    <2> QED BY <2>4 DEF p
  <1> QED BY <1>1, <1>3, <1>4

LEMMA RdpBoundType == RdpBound \in Nat /\ RdpBound >= INF_RD
  <1>1. INF_RD \in 0..INF_RD /\ INF_RD \in Nat
    BY ParameterAssumption
  <1>2. Penalised(INF_RD) \in 0..RdpBound
    BY <1>1, PenalisedType
  <1>3. Penalised(INF_RD) \in Int
    BY <1>2
  <1> QED BY <1>1, <1>2, <1>3 DEF RdpBound

\* One training step stays non-negative and moves past neither INF_RD nor the
\* distance it started from.
LEMMA TemporalDifferenceBound ==
  ASSUME NEW init \in Nat, NEW sample \in Nat
  PROVE  /\ temporal_difference(init, sample) \in Nat
         /\ temporal_difference(init, sample) <= init \/ temporal_difference(init, sample) <= INF_RD
  <1> DEFINE quotient == Abs(sample - init) \div TEMP_DIVISOR
             diff == IF quotient < 1 THEN quotient ELSE 1
  <1>1. diff \in 0..1
    <2>1. Abs(sample - init) \in Nat /\ TEMP_DIVISOR \in Nat \ {0}
      BY ParameterAssumption DEF Abs
    <2>2. quotient \in Nat
      BY <2>1
    <2> HIDE DEF quotient
    <2> QED BY <2>2
  <1>2. INF_RD \in Nat
    BY ParameterAssumption
  <1>3. temporal_difference(init, sample) =
          CASE sample > init -> IF init + diff < INF_RD THEN init + diff ELSE INF_RD
            [] sample < init -> IF init - diff > 0 THEN init - diff ELSE 0
            [] OTHER -> init
    BY DEF temporal_difference
  <1> HIDE DEF diff
  <1>4. CASE sample > init
    <2>1. temporal_difference(init, sample) = IF init + diff < INF_RD THEN init + diff ELSE INF_RD
      BY <1>3, <1>4
    <2> QED BY <1>1, <1>2, <2>1
  <1>5. CASE sample < init
    <2>1. temporal_difference(init, sample) = IF init - diff > 0 THEN init - diff ELSE 0
      BY <1>3, <1>5
    <2> QED BY <1>1, <1>2, <2>1
  <1>6. CASE sample = init
    <2>1. temporal_difference(init, sample) = init
      BY <1>3, <1>6
    <2> QED BY <2>1
  <1> QED BY <1>4, <1>5, <1>6

\* Training leaves distances that the table can hold, forgets no signature and
\* raises no trained one above both its old value and INF_RD.
LEMMA TrainedBound ==
  ASSUME TypeOK, NEW set \in Sets, NEW ix \in Indices, NEW tag, NEW prefetch \in BOOLEAN,
         NEW sig \in Sigs
  PROVE  /\ Trained(set, ix, tag, prefetch)[sig] \in NoEntry..RdpBound
         /\ rdp[sig] # NoEntry =>
              /\ Trained(set, ix, tag, prefetch)[sig] # NoEntry
              /\ \/ Trained(set, ix, tag, prefetch)[sig] <= rdp[sig]
                 \/ Trained(set, ix, tag, prefetch)[sig] <= INF_RD
  <1> DEFINE w == CHOOSE w \in Reused(set, ix, tag) : TRUE
             elapsed == Elapsed(set, sampledCacheEntries[ix][w])
             sample == IF prefetch THEN Penalised(elapsed) ELSE elapsed
             new == IF rdp[sig] = NoEntry THEN sample ELSE temporal_difference(rdp[sig], sample)
             t == Trained(set, ix, tag, prefetch)[sig]
  <1>1. rdp[sig] \in NoEntry..RdpBound /\ RdpBound \in Nat /\ RdpBound >= INF_RD
    BY RdpBoundType DEF TypeOK
  <1>2. CASE ~ \E v \in Reused(set, ix, tag) : sampledCacheEntries[ix][v].sig = sig
    <2>1. t = rdp[sig]
      BY <1>2 DEF Trained
    <2> HIDE DEF t
    <2>2. t \in NoEntry..RdpBound /\ t <= rdp[sig]
      BY <1>1, <2>1 DEF NoEntry
    <2> QED BY <2>1, <2>2 DEF t
  <1>3. CASE \E v \in Reused(set, ix, tag) : sampledCacheEntries[ix][v].sig = sig
    <2>1. t = new
      BY <1>3 DEF Trained
    <2>2. w \in Reused(set, ix, tag)
      BY <1>3
    <2> HIDE DEF w
    <2>3. w \in Ways /\ elapsed \in 0..INF_RD
      <3>1. w \in Ways /\ elapsed <= INF_RD
        BY <2>2, LeastIsMinimum DEF Reused, findInSampledCache, Ways
      <3>2. elapsed \in 0..kMaxTimestamp - 1
        BY <3>1, ElapsedType
      <3> QED BY <3>1, <3>2, ParameterAssumption
    <2> HIDE DEF elapsed
    <2>4. sample \in 0..RdpBound
      BY <1>1, <2>3, PenalisedType, ParameterAssumption
    <2> HIDE DEF sample, t
    <2>5. CASE rdp[sig] = NoEntry
      <3>1. t = sample
        BY <2>1, <2>5
      <3> QED BY <1>1, <2>4, <2>5, <3>1 DEF t, NoEntry
    <2>6. CASE rdp[sig] # NoEntry
      <3>1. t = temporal_difference(rdp[sig], sample)
        BY <2>1, <2>6
      <3>2. rdp[sig] \in Nat /\ rdp[sig] <= RdpBound /\ sample \in Nat
        BY <1>1, <2>4, <2>6 DEF NoEntry
      <3>3. t \in Nat /\ (t <= rdp[sig] \/ t <= INF_RD)
        BY <3>1, <3>2, TemporalDifferenceBound
      <3>4. t \in NoEntry..RdpBound /\ t # NoEntry
        BY <1>1, <3>2, <3>3, ParameterAssumption DEF NoEntry
      <3> QED BY <3>3, <3>4 DEF t
    <2> QED BY <2>5, <2>6
  <1> QED BY <1>2, <1>3

\* The same of detrain, for any table and any set of ways.
LEMMA DetrainBound ==
  ASSUME NEW table, NEW ix \in Indices, NEW D \in SUBSET Ways, NEW sig \in Sigs,
         table[sig] \in NoEntry..RdpBound
  PROVE  /\ detrain(table, ix, D)[sig] \in NoEntry..RdpBound
         /\ table[sig] # NoEntry =>
              /\ detrain(table, ix, D)[sig] # NoEntry
              /\ \/ detrain(table, ix, D)[sig] <= table[sig]
                 \/ detrain(table, ix, D)[sig] <= INF_RD
  <1> DEFINE T == {w \in D : sampledCacheEntries[ix][w].sig = sig}
             n == Cardinality(T)
             d == detrain(table, ix, D)[sig]
  <1>1. n \in Nat
    <2>1. IsFiniteSet(Ways)
      BY FS_Interval, GeometryAssumption DEF Ways
    <2>2. IsFiniteSet(T)
      BY <2>1, FS_Subset
    <2> HIDE DEF T
    <2> QED BY <2>2, FS_CardinalityType
  <1>2. d = CASE n = 0 -> table[sig]
              [] n > 0 /\ table[sig] = NoEntry -> INF_RD
              [] OTHER -> IF table[sig] + n < INF_RD THEN table[sig] + n ELSE INF_RD
    BY DEF detrain
  <1>3. RdpBound \in Nat /\ INF_RD \in Nat /\ INF_RD <= RdpBound
    BY RdpBoundType, ParameterAssumption
  <1> HIDE DEF n, d
  <1>4. CASE n = 0
    <2>1. d = table[sig]
      BY <1>2, <1>4
    <2> QED BY <1>3, <2>1 DEF d, NoEntry
  <1>5. CASE n > 0 /\ table[sig] = NoEntry
    <2>1. d = INF_RD
      BY <1>1, <1>2, <1>5
    <2> QED BY <1>3, <1>5, <2>1 DEF d, NoEntry
  <1>6. CASE n > 0 /\ table[sig] # NoEntry
    <2>1. d = IF table[sig] + n < INF_RD THEN table[sig] + n ELSE INF_RD
      BY <1>1, <1>2, <1>6
    <2>2. d \in 0..INF_RD
      BY <1>1, <1>3, <1>6, <2>1 DEF NoEntry
    <2>3. d \in NoEntry..RdpBound /\ d # NoEntry /\ d <= INF_RD
      BY <1>3, <2>2 DEF NoEntry
    <2> QED BY <2>3 DEF d
  <1> QED BY <1>1, <1>4, <1>5, <1>6

-----------------------------------------------------------------------------
(* The sampled cache *)

\* After an access the sampled ways of its index are well formed.
LEMMA SampledType ==
  ASSUME TypeOK, NEW set \in Sets, NEW ix \in Indices, NEW tag \in Tags, NEW sig \in Sigs
  PROVE  Sampled(set, ix, tag, sig) \in [Ways -> SampledCacheLine]
  <1>1. NewSample(set, tag, sig) \in SampledCacheLine
    BY DEF NewSample, SampledCacheLine, TypeOK
  <1>2. ASSUME NEW r \in SampledCacheLine, NEW b \in BOOLEAN
        PROVE  [r EXCEPT !.valid = b] \in SampledCacheLine
    BY DEF SampledCacheLine
  <1>3. ASSUME NEW w \in Ways
        PROVE  [sampledCacheEntries[ix][w] EXCEPT
                  !.valid = w \in Held(set, ix, tag) \ Detrained(set, ix, tag)] \in SampledCacheLine
    <2>1. sampledCacheEntries[ix][w] \in SampledCacheLine
      BY DEF TypeOK
    <2>2. (w \in Held(set, ix, tag) \ Detrained(set, ix, tag)) \in BOOLEAN
      OBVIOUS
    <2> QED BY <1>2, <2>1, <2>2
  <1> HIDE DEF SampledCacheLine
  <1> QED BY <1>1, <1>3 DEF Sampled

\* An access leaves its tag in one way only: a way that held the tag has been
\* given up, as a reuse or, when it was too old for one, as a scan.
LEMMA SampledUnique ==
  ASSUME TypeOK, UniqueSamples, NEW set \in Sets, NEW ix \in Indices, NEW tag \in Tags,
         NEW sig \in Sigs, NEW v \in Ways, NEW w \in Ways, v # w,
         Sampled(set, ix, tag, sig)[v].valid, Sampled(set, ix, tag, sig)[w].valid
  PROVE  Sampled(set, ix, tag, sig)[v].tag # Sampled(set, ix, tag, sig)[w].tag
  <1> DEFINE old == sampledCacheEntries[ix]
             new == Sampled(set, ix, tag, sig)
             free == FreeWay(set, ix, tag)
  <1>0. new = [u \in Ways |->
                IF u = free THEN NewSample(set, tag, sig)
                ELSE [old[u] EXCEPT !.valid = u \in Held(set, ix, tag) \ Detrained(set, ix, tag)]]
    BY DEF Sampled
  <1>1. ASSUME NEW u \in Ways, u # free, new[u].valid
        PROVE  /\ u \in Held(set, ix, tag)
               /\ u \notin Detrained(set, ix, tag)
               /\ old[u].valid
               /\ new[u].tag = old[u].tag
    <2>1. old[u] \in SampledCacheLine
      BY DEF TypeOK
    <2>2. new[u] = [old[u] EXCEPT !.valid = u \in Held(set, ix, tag) \ Detrained(set, ix, tag)]
      BY <1>0, <1>1
    <2>3. new[u].valid = (u \in Held(set, ix, tag) \ Detrained(set, ix, tag)) /\ new[u].tag = old[u].tag
      BY <2>1, <2>2 DEF SampledCacheLine
    <2> QED BY <1>1, <2>3 DEF Held
  <1>2. ASSUME NEW u \in Ways, u # free, new[u].valid
        PROVE  new[u].tag # tag
    <2> SUFFICES ASSUME old[u].tag = tag PROVE FALSE
      BY <1>1, <1>2
    <2>1. u \in Held(set, ix, tag) /\ u \notin Detrained(set, ix, tag) /\ old[u].valid
      BY <1>1, <1>2
    <2>2. findInSampledCache(tag, ix) = {u}
      <3> DEFINE S == {x \in Ways : sampledCacheEntries[ix][x].valid /\ sampledCacheEntries[ix][x].tag = tag}
      <3>1. S = {u}
        BY <2>1 DEF UniqueSamples
      <3>2. Least(S) \in S
        <4>1. S \in SUBSET Nat /\ S # {}
          BY <3>1 DEF Ways
        <4> HIDE DEF S
        <4> QED BY <4>1, LeastIsMinimum
      <3> QED BY <3>1, <3>2 DEF findInSampledCache
    <2>3. Elapsed(set, old[u]) \in Nat /\ INF_RD \in Nat
      BY ElapsedType, ParameterAssumption
    <2>4. CASE Elapsed(set, old[u]) <= INF_RD
      BY <2>1, <2>2, <2>4 DEF Held, Reused
    <2>5. CASE Elapsed(set, old[u]) > INF_RD
      BY <2>1, <2>5 DEF Detrained, Scans
    <2> QED BY <2>3, <2>4, <2>5
  <1>3. free \in Ways => new[free].tag = tag
    BY <1>0 DEF NewSample
  <1>4. CASE v # free /\ w # free
    <2>1. old[v].valid /\ old[w].valid /\ new[v].tag = old[v].tag /\ new[w].tag = old[w].tag
      BY <1>1, <1>4
    <2> QED BY <2>1 DEF UniqueSamples
  <1>5. CASE v = free
    BY <1>2, <1>3, <1>5
  <1>6. CASE w = free
    BY <1>2, <1>3, <1>6
  <1> QED BY <1>4, <1>5, <1>6

-----------------------------------------------------------------------------
(* The inductive invariant *)

\* The parts of the invariant are inductive together: samples stay distinct only
\* while the entries are well formed, and the lines only while rank returns a
\* line of the set.
IInv == TypeOK /\ UniqueSamples /\ UniqueLines

\* What DistanceBounded says of one step.
DistanceStep ==
  \A sig \in Sigs : rdp[sig] # NoEntry =>
    /\ rdp'[sig] # NoEntry
    /\ rdp'[sig] <= IF rdp[sig] > INF_RD THEN rdp[sig] ELSE INF_RD

\* update() keeps the predictor in range.
LEMMA UpdateRdp ==
  ASSUME TypeOK, NEW id \in Lines, NEW e, NEW a \in Addrs, NEW sig \in Sigs,
         NEW prefetch \in BOOLEAN, update(id, e, a, sig, prefetch)
  PROVE  rdp' \in [Sigs -> NoEntry..RdpBound] /\ DistanceStep
  <1> DEFINE set == SetOfLine(id)
             ix == IndexOf[a]
             tag == TagOf[a]
             trained == Trained(set, ix, tag, prefetch)
             D == Detrained(set, ix, tag)
  <1>0. set \in Sets /\ ix \in Indices
    BY SetOfLineType DEF Indices
  <1>1. rdp' = IF is_sampled_set(set) THEN detrain(trained, ix, D) ELSE rdp
    BY DEF update
  <1>2. D \in SUBSET Ways
    <2>1. CASE Held(set, ix, tag) = Ways /\ Scans(set, ix, tag) = {}
      <3> DEFINE O == {w \in Ways : \A v \in Ways : Elapsed(set, sampledCacheEntries[ix][v])
                                                    <= Elapsed(set, sampledCacheEntries[ix][w])}
                 el == [w \in Ways |-> Elapsed(set, sampledCacheEntries[ix][w])]
      <3>1. Ways # {} /\ Ways \in SUBSET Nat
        <4>1. 0 \in Ways
          BY GeometryAssumption DEF Ways
        <4> QED BY <4>1 DEF Ways
      <3>2. \A w \in Ways : el[w] \in 0..kMaxTimestamp
        <4> SUFFICES ASSUME NEW w \in Ways PROVE Elapsed(set, sampledCacheEntries[ix][w]) \in 0..kMaxTimestamp
          OBVIOUS
        <4>1. Elapsed(set, sampledCacheEntries[ix][w]) \in 0..kMaxTimestamp - 1
          BY <1>0, ElapsedType
        <4> QED BY <4>1, ParameterAssumption
      <3>3. \E m \in Ways : \A w \in Ways : el[w] <= el[m]
        <4> HIDE DEF el
        <4> QED BY <3>1, <3>2, MaximumExists, ParameterAssumption
      <3>4. O # {} /\ O \in SUBSET Nat /\ O \in SUBSET Ways
        BY <3>1, <3>3
      <3>5. Least(O) \in O
        <4> HIDE DEF O
        <4> QED BY <3>4, LeastIsMinimum
      <3>6. D = {Least(O)}
        BY <2>1 DEF Detrained
      <3> QED BY <3>4, <3>5, <3>6
    <2>2. CASE ~(Held(set, ix, tag) = Ways /\ Scans(set, ix, tag) = {})
      BY <2>2 DEF Detrained, Scans, Held
    <2> QED BY <2>1, <2>2
  <1> HIDE DEF set, ix, tag, D
  <1>3. \A s \in Sigs : /\ rdp[s] \in NoEntry..RdpBound
                        /\ RdpBound \in Nat /\ INF_RD \in Nat /\ RdpBound >= INF_RD
    BY RdpBoundType, ParameterAssumption DEF TypeOK
  <1>4. CASE is_sampled_set(set)
    <2>1. rdp' = detrain(trained, ix, D)
      BY <1>1, <1>4
    <2>2. ASSUME NEW s \in Sigs
          PROVE  /\ trained[s] \in NoEntry..RdpBound
                 /\ rdp[s] # NoEntry => trained[s] # NoEntry /\ (trained[s] <= rdp[s] \/ trained[s] <= INF_RD)
      BY <1>0, TrainedBound
    <2> HIDE DEF trained
    <2>3. ASSUME NEW s \in Sigs
          PROVE  /\ rdp'[s] \in NoEntry..RdpBound
                 /\ trained[s] # NoEntry => rdp'[s] # NoEntry /\ (rdp'[s] <= trained[s] \/ rdp'[s] <= INF_RD)
      BY <1>0, <1>2, <2>1, <2>2, DetrainBound
    <2>4. rdp' \in [Sigs -> NoEntry..RdpBound]
      <3>1. rdp' = [s \in Sigs |-> rdp'[s]]
        BY <2>1 DEF detrain
      <3> QED BY <2>3, <3>1
    <2>5. ASSUME NEW s \in Sigs, rdp[s] # NoEntry
          PROVE  rdp'[s] # NoEntry /\ rdp'[s] <= IF rdp[s] > INF_RD THEN rdp[s] ELSE INF_RD
      <3>1. /\ rdp[s] \in NoEntry..RdpBound /\ trained[s] \in NoEntry..RdpBound
            /\ rdp'[s] \in NoEntry..RdpBound /\ RdpBound \in Nat /\ INF_RD \in Nat
        BY <1>3, <2>2, <2>3
      <3>2. /\ trained[s] <= rdp[s] \/ trained[s] <= INF_RD
            /\ rdp'[s] <= trained[s] \/ rdp'[s] <= INF_RD
            /\ rdp'[s] # NoEntry
        BY <2>2, <2>3, <2>5
      <3>3. rdp[s] \in Int /\ trained[s] \in Int /\ rdp'[s] \in Int /\ INF_RD \in Int
        BY <3>1 DEF NoEntry
      <3> QED BY <3>2, <3>3
    <2> QED BY <2>4, <2>5 DEF DistanceStep
  <1>5. CASE ~is_sampled_set(set)
    <2>1. rdp' = rdp
      BY <1>1, <1>5
    <2>2. ASSUME NEW s \in Sigs
          PROVE  rdp[s] <= IF rdp[s] > INF_RD THEN rdp[s] ELSE INF_RD
      <3>1. rdp[s] \in Int /\ INF_RD \in Int
        BY <1>3 DEF NoEntry
      <3> QED BY <3>1
    <2> QED BY <2>1, <2>2 DEF DistanceStep, TypeOK
  <1> QED BY <1>4, <1>5

\* update() keeps the estimates within INF_ETR of zero.
LEMMA UpdateEtr ==
  ASSUME TypeOK, NEW id \in Lines, NEW e \in [Lines -> -INF_ETR..INF_ETR], NEW a \in Addrs,
         NEW sig \in Sigs, NEW prefetch \in BOOLEAN, update(id, e, a, sig, prefetch)
  PROVE  etr' \in [Lines -> -INF_ETR..INF_ETR]
  <1>0. INF_ETR \in Nat
    BY ParameterAssumption
  <1>1. Aged(e, id) \in [Lines -> -INF_ETR..INF_ETR]
    <2>1. ASSUME NEW i \in Lines, Abs(e[i]) < INF_ETR
          PROVE  e[i] - 1 \in -INF_ETR..INF_ETR
      BY <1>0, <2>1 DEF Abs
    <2> QED BY <2>1 DEF Aged
  <1>2. Predicted(rdp', sig) \in -INF_ETR..INF_ETR
    <2>1. rdp'[sig] \in NoEntry..RdpBound
      BY UpdateRdp
    <2>2. CASE rdp'[sig] = NoEntry
      BY <1>0, <2>2 DEF Predicted
    <2>3. CASE rdp'[sig] # NoEntry /\ rdp'[sig] > MAX_RD
      BY <1>0, <2>3 DEF Predicted
    <2>4. CASE rdp'[sig] # NoEntry /\ ~(rdp'[sig] > MAX_RD)
      <3> DEFINE d == rdp'[sig]
      <3>1. Predicted(rdp', sig) = d \div GRANULARITY
        BY <2>4 DEF Predicted
      <3>2. d \in Nat /\ d <= MAX_RD /\ MAX_RD \in Nat /\ GRANULARITY \in Nat \ {0}
            /\ MAX_RD \div GRANULARITY <= INF_ETR
        <4>1. d \in Nat
          BY <2>1, <2>4, RdpBoundType DEF NoEntry
        <4> QED BY <4>1, <2>4, ParameterAssumption
      <3> HIDE DEF d
      <3>3. d \div GRANULARITY \in Nat /\ d \div GRANULARITY <= MAX_RD \div GRANULARITY
        BY <3>2, DivMonotone
      <3>4. MAX_RD \div GRANULARITY \in Nat
        BY <3>2, DivMonotone
      <3> QED BY <1>0, <3>1, <3>2, <3>3, <3>4
    <2> QED BY <2>2, <2>3, <2>4
  <1>3. etr' = [Aged(e, id) EXCEPT ![id] = IF id < llc_ways THEN Predicted(rdp', sig) ELSE @]
    BY DEF update
  <1> QED BY <1>1, <1>2, <1>3

\* update() keeps the clocks and the sampled cache well formed, and a tag in at
\* most one way of its index.
LEMMA UpdateSampled ==
  ASSUME TypeOK, UniqueSamples, NEW id \in Lines, NEW e, NEW a \in Addrs, NEW sig \in Sigs,
         NEW prefetch \in BOOLEAN, update(id, e, a, sig, prefetch)
  PROVE  /\ etr_clock' \in [Sets -> 0..GRANULARITY]
         /\ current_timestamp' \in [Sets -> 0..kMaxTimestamp - 1]
         /\ sampledCacheEntries' \in [Indices -> [Ways -> SampledCacheLine]]
         /\ UniqueSamples'
  <1> DEFINE set == SetOfLine(id)
             ix == IndexOf[a]
             tag == TagOf[a]
             new == Sampled(set, ix, tag, sig)
  <1>0. set \in Sets /\ ix \in Indices /\ tag \in Tags
    BY SetOfLineType DEF Indices, Tags
  <1>1. etr_clock' \in [Sets -> 0..GRANULARITY]
    <2>1. etr_clock' = [etr_clock EXCEPT ![set] = IF @ = GRANULARITY THEN 0 ELSE @ + 1]
      BY DEF update
    <2>2. etr_clock \in [Sets -> 0..GRANULARITY] /\ GRANULARITY \in Nat
      BY ParameterAssumption DEF TypeOK
    <2> HIDE DEF set
    <2> QED BY <1>0, <2>1, <2>2
  <1>2. current_timestamp' \in [Sets -> 0..kMaxTimestamp - 1]
    <2>1. ASSUME NEW n \in Nat PROVE updateTimestamp(n) \in 0..kMaxTimestamp - 1
      BY ParameterAssumption DEF updateTimestamp
    <2>2. current_timestamp[set] \in Nat
      BY <1>0, ParameterAssumption DEF TypeOK
    <2>3. updateTimestamp(current_timestamp[set]) \in 0..kMaxTimestamp - 1
      BY <2>1, <2>2
    <2> QED BY <1>0, <2>3 DEF update, TypeOK
  <1>3. /\ sampledCacheEntries \in [Indices -> [Ways -> SampledCacheLine]]
        /\ new \in [Ways -> SampledCacheLine]
        /\ sampledCacheEntries' = [sampledCacheEntries EXCEPT ![ix] = IF is_sampled_set(set) THEN new ELSE @]
    BY <1>0, SampledType DEF update, TypeOK
  <1> HIDE DEF set, ix, tag, new
  <1>4. sampledCacheEntries' \in [Indices -> [Ways -> SampledCacheLine]]
    BY <1>0, <1>3
  <1>5. ASSUME NEW x \in Indices, NEW v \in Ways, NEW w \in Ways, v # w,
               sampledCacheEntries'[x][v].valid, sampledCacheEntries'[x][w].valid
        PROVE  sampledCacheEntries'[x][v].tag # sampledCacheEntries'[x][w].tag
    <2>1. CASE x = ix /\ is_sampled_set(set)
      <3>1. sampledCacheEntries'[x] = Sampled(set, ix, tag, sig)
        BY <1>0, <1>3, <2>1 DEF new
      <3> QED BY <1>0, <1>5, <3>1, SampledUnique
    <2>2. CASE ~(x = ix /\ is_sampled_set(set))
      <3>1. sampledCacheEntries'[x] = sampledCacheEntries[x]
        BY <1>0, <1>3, <2>2
      <3> QED BY <1>5, <3>1 DEF UniqueSamples
    <2> QED BY <2>1, <2>2
  <1>6. UniqueSamples'
    BY <1>5 DEF UniqueSamples
  <1> QED BY <1>1, <1>2, <1>4, <1>6

\* In a full index without a scan one way is detrained, and it is the oldest.
LEMMA OldestExists ==
  ASSUME TypeOK, NEW set \in Sets, NEW ix \in Indices, NEW tag \in Tags,
         Held(set, ix, tag) = Ways, Scans(set, ix, tag) = {}
  PROVE  \E w \in Ways :
           /\ Detrained(set, ix, tag) = {w}
           /\ \A v \in Ways : Elapsed(set, sampledCacheEntries[ix][v])
                                <= Elapsed(set, sampledCacheEntries[ix][w])
  <1> DEFINE age == [w \in Ways |-> Elapsed(set, sampledCacheEntries[ix][w])]
             oldest == {w \in Ways : \A v \in Ways : Elapsed(set, sampledCacheEntries[ix][v])
                                        <= Elapsed(set, sampledCacheEntries[ix][w])}
  <1>1. kMaxTimestamp \in Nat /\ \A w \in Ways : age[w] \in 0..kMaxTimestamp
    <2>1. \A w \in Ways : Elapsed(set, sampledCacheEntries[ix][w]) \in 0..kMaxTimestamp - 1
      BY ElapsedType
    <2>2. kMaxTimestamp \in Nat
      BY ParameterAssumption
    <2>3. \A w \in Ways : age[w] = Elapsed(set, sampledCacheEntries[ix][w])
      OBVIOUS
    <2> HIDE DEF age
    <2> QED BY <2>1, <2>2, <2>3
  <1>2. Ways # {} /\ Ways \in SUBSET Nat
    BY GeometryAssumption DEF Ways
  <1>3. \E m \in Ways : \A v \in Ways : age[v] <= age[m]
    <2> HIDE DEF age
    <2> QED BY <1>1, <1>2, MaximumExists
  <1>4. oldest # {} /\ oldest \in SUBSET Nat
    BY <1>2, <1>3
  <1>5. Least(oldest) \in oldest
    <2> HIDE DEF oldest
    <2> QED BY <1>4, LeastIsMinimum
  <1>6. Detrained(set, ix, tag) = {Least(oldest)}
    BY DEF Detrained
  <1> QED BY <1>5, <1>6

\* The way that the new sample goes to is one of the index that was free, reused or
\* detrained.
LEMMA FreeWayIsFree ==
  ASSUME TypeOK, NEW set \in Sets, NEW ix \in Indices, NEW tag \in Tags
  PROVE  /\ FreeWay(set, ix, tag) \in Ways
         /\ FreeWay(set, ix, tag) \notin Held(set, ix, tag) \ Detrained(set, ix, tag)
  <1> DEFINE free == {w \in Ways : w \notin Held(set, ix, tag) \/ w \in Detrained(set, ix, tag)}
  <1>1. free # {}
    <2>1. Ways # {}
      BY GeometryAssumption DEF Ways
    <2>2. CASE Held(set, ix, tag) = Ways /\ Scans(set, ix, tag) = {}
      <3>1. PICK w \in Ways : w \in Detrained(set, ix, tag)
        BY <2>2, OldestExists
      <3> QED BY <3>1
    <2>3. CASE Held(set, ix, tag) = Ways /\ Scans(set, ix, tag) # {}
      BY <2>3 DEF Detrained, Scans
    <2>4. CASE Held(set, ix, tag) # Ways
      BY <2>4 DEF Held
    <2> QED BY <2>2, <2>3, <2>4
  <1>2. free \in SUBSET Nat
    BY DEF Ways
  <1>3. Least(free) \in free
    <2> HIDE DEF free
    <2> QED BY <1>1, <1>2, LeastIsMinimum
  <1> QED BY <1>3 DEF FreeWay

\* update() takes a sample of another tag only for its age or, in a full index, for being
\* the oldest.
LEMMA UpdateGivesUp ==
  ASSUME kMaxTimestamp > 1, TypeOK, NEW id \in Lines, NEW e, NEW a \in Addrs, NEW sig \in Sigs,
         NEW prefetch \in BOOLEAN, update(id, e, a, sig, prefetch)
  PROVE  SampleGivenUp
  <1> SUFFICES ASSUME NEW ix \in Indices, NEW w \in Ways
      PROVE  LET was == sampledCacheEntries[ix][w]
                 Kept == {v \in Ways : /\ sampledCacheEntries'[ix][v].valid
                                       /\ sampledCacheEntries'[ix][v].tag = was.tag}
             IN  was.valid /\ Kept = {} =>
                   \E set \in Sets :
                     /\ current_timestamp'[set] # current_timestamp[set]
                     /\ \/ Elapsed(set, was) > INF_RD
                        \/ \A v \in Ways :
                             /\ sampledCacheEntries[ix][v].valid
                             /\ Elapsed(set, sampledCacheEntries[ix][v]) <= Elapsed(set, was)
    BY DEF SampleGivenUp
  <1> DEFINE set == SetOfLine(id)
             tag == TagOf[a]
             was == sampledCacheEntries[ix][w]
             new == Sampled(set, ix, tag, sig)
             free == FreeWay(set, ix, tag)
             Kept == {v \in Ways : /\ sampledCacheEntries'[ix][v].valid
                                   /\ sampledCacheEntries'[ix][v].tag = was.tag}
  <1>0. set \in Sets /\ tag \in Tags
    BY SetOfLineType DEF Tags
  <1> HIDE DEF set
  <1> SUFFICES ASSUME was.valid, Kept = {}
               PROVE  /\ current_timestamp'[set] # current_timestamp[set]
                      /\ \/ Elapsed(set, was) > INF_RD
                         \/ \A v \in Ways : /\ sampledCacheEntries[ix][v].valid
                                            /\ Elapsed(set, sampledCacheEntries[ix][v]) <= Elapsed(set, was)
    BY <1>0
  <1>1. ix = IndexOf[a] /\ is_sampled_set(set) /\ sampledCacheEntries'[ix] = new
    <2>1. sampledCacheEntries' = [sampledCacheEntries EXCEPT ![IndexOf[a]] =
                                    IF is_sampled_set(set) THEN Sampled(set, IndexOf[a], tag, sig) ELSE @]
      BY DEF update, set
    <2>2. sampledCacheEntries'[ix] # sampledCacheEntries[ix]
      OBVIOUS
    <2>3. sampledCacheEntries \in [Indices -> [Ways -> SampledCacheLine]]
      BY DEF TypeOK
    <2> HIDE DEF tag
    <2> QED BY <2>1, <2>2, <2>3
  <1>2. current_timestamp'[set] # current_timestamp[set]
    <2>1. current_timestamp' = [current_timestamp EXCEPT ![set] = updateTimestamp(@)]
      BY <1>1 DEF update, set
    <2>2. current_timestamp \in [Sets -> 0..kMaxTimestamp - 1] /\ kMaxTimestamp \in Nat
      BY ParameterAssumption DEF TypeOK
    <2>3. ASSUME NEW n \in 0..kMaxTimestamp - 1 PROVE updateTimestamp(n) # n
      <3>1. CASE n + 1 = kMaxTimestamp
        BY <2>2, <3>1 DEF updateTimestamp
      <3>2. CASE n + 1 < kMaxTimestamp
        BY <2>2, <3>2 DEF updateTimestamp
      <3> QED BY <2>2, <3>1, <3>2
    <2> QED BY <1>0, <2>1, <2>2, <2>3
  <1>3. /\ free \in Ways /\ free \notin Held(set, ix, tag) \ Detrained(set, ix, tag)
    BY <1>0, FreeWayIsFree
  <1>4. new[free].valid /\ new[free].tag = tag
    BY <1>3 DEF Sampled, NewSample
  <1>5. was.tag # tag
    BY <1>1, <1>3, <1>4
  <1>6. w \in Held(set, ix, tag)
    <2>1. ASSUME w \in Reused(set, ix, tag) PROVE FALSE
      <3> DEFINE S == {x \in Ways : sampledCacheEntries[ix][x].valid /\ sampledCacheEntries[ix][x].tag = tag}
      <3>1. S # {} /\ w = Least(S)
        BY <2>1 DEF Reused, findInSampledCache
      <3>2. S \in SUBSET Nat
        BY DEF Ways
      <3>3. Least(S) \in S
        <4> HIDE DEF S
        <4> QED BY <3>1, <3>2, LeastIsMinimum
      <3> QED BY <1>5, <3>1, <3>3
    <2> QED BY <2>1 DEF Held
  <1>7. w \in Detrained(set, ix, tag)
    <2> SUFFICES ASSUME w \notin Detrained(set, ix, tag) PROVE FALSE
      OBVIOUS
    <2>1. w # free
      BY <1>3, <1>6
    <2>2. new[w] = [was EXCEPT !.valid = w \in Held(set, ix, tag) \ Detrained(set, ix, tag)]
      BY <2>1 DEF Sampled
    <2>3. was \in SampledCacheLine
      BY DEF TypeOK
    <2>4. new[w].valid /\ new[w].tag = was.tag
      BY <1>6, <2>2, <2>3 DEF SampledCacheLine
    <2> QED BY <1>1, <2>4
  <1>8. CASE Held(set, ix, tag) = Ways /\ Scans(set, ix, tag) = {}
    <2>1. \A v \in Ways : sampledCacheEntries[ix][v].valid
      BY <1>8 DEF Held
    <2>2. \A v \in Ways : Elapsed(set, sampledCacheEntries[ix][v]) <= Elapsed(set, was)
      BY <1>0, <1>7, <1>8, OldestExists
    <2> QED BY <1>2, <2>1, <2>2
  <1>9. CASE ~(Held(set, ix, tag) = Ways /\ Scans(set, ix, tag) = {})
    BY <1>2, <1>7, <1>9 DEF Detrained, Scans
  <1> QED BY <1>8, <1>9

\* Init establishes the invariant.
LEMMA InitIInv == Init => IInv
  <1> SUFFICES ASSUME Init PROVE IInv
    OBVIOUS
  <1>1. TypeOK
    <2>1. RdpBound \in Nat /\ INF_ETR \in Nat /\ GRANULARITY \in Nat /\ kMaxTimestamp \in Nat \ {0}
      BY RdpBoundType, ParameterAssumption
    <2>2. 0 \in -INF_ETR..INF_ETR /\ GRANULARITY \in 0..GRANULARITY /\ 0 \in 0..kMaxTimestamp - 1
          /\ NoEntry \in NoEntry..RdpBound
      BY <2>1 DEF NoEntry
    <2> HIDE DEF NoEntry
    <2> QED BY <2>2 DEF Init, TypeOK, SampledCacheLine
  <1>2. UniqueSamples
    BY DEF Init, UniqueSamples
  <1>3. UniqueLines
    BY DEF Init, UniqueLines
  <1> QED BY <1>1, <1>2, <1>3 DEF IInv

\* Every access and invalidation preserves the invariant, and moves the predicted
\* distances as DistanceBounded says.
LEMMA NextIInv == IInv /\ [Next]_vars => IInv' /\ (DistanceStep \/ UNCHANGED vars)
  <1> SUFFICES ASSUME IInv, [Next]_vars PROVE IInv' /\ (DistanceStep \/ UNCHANGED vars)
    OBVIOUS
  <1> USE DEF IInv
  <1>1. CASE UNCHANGED vars
    BY <1>1 DEF vars, TypeOK, UniqueSamples, UniqueLines
  <1>2. ASSUME NEW a \in Addrs, NEW sig \in Sigs, NEW prefetch \in BOOLEAN, Hit(a, sig, prefetch)
        PROVE  IInv' /\ DistanceStep
    <2> DEFINE id == Least(Hits(a))
    <2>1. id \in Lines
      <3>1. Hits(a) \in SUBSET Nat /\ Hits(a) # {} /\ Hits(a) \in SUBSET Lines
        BY <1>2 DEF Hit, Hits, LinesOf, Lines
      <3>2. Least(Hits(a)) \in Hits(a)
        BY <3>1, LeastIsMinimum
      <3> QED BY <3>1, <3>2
    <2>2. update(id, etr, a, sig, prefetch) /\ valid' = [valid EXCEPT ![id] = TRUE] /\ array' = array
      BY <1>2 DEF Hit
    <2> HIDE DEF id
    <2>3. etr \in [Lines -> -INF_ETR..INF_ETR]
      BY DEF TypeOK
    <2>a. rdp' \in [Sigs -> NoEntry..RdpBound] /\ DistanceStep
      BY <2>1, <2>2, UpdateRdp
    <2>b. etr' \in [Lines -> -INF_ETR..INF_ETR]
      BY <2>1, <2>2, <2>3, UpdateEtr
    <2>c. /\ etr_clock' \in [Sets -> 0..GRANULARITY]
          /\ current_timestamp' \in [Sets -> 0..kMaxTimestamp - 1]
          /\ sampledCacheEntries' \in [Indices -> [Ways -> SampledCacheLine]]
          /\ UniqueSamples'
      BY <2>1, <2>2, UpdateSampled
    <2>d. array' \in [Lines -> Addrs \cup {None}] /\ valid' \in [Lines -> BOOLEAN]
      BY <2>1, <2>2 DEF TypeOK
    <2>4. TypeOK' /\ UniqueSamples' /\ DistanceStep
      BY <2>a, <2>b, <2>c, <2>d DEF TypeOK
    <2>5. UniqueLines'
      BY <2>2 DEF UniqueLines
    <2> QED BY <2>4, <2>5
  <1>3. ASSUME NEW a \in Addrs, NEW sig \in Sigs, NEW prefetch \in BOOLEAN, Miss(a, sig, prefetch)
        PROVE  IInv' /\ DistanceStep
    <2> DEFINE id == rank(SetOf[a])
               e == replaced(id)
    <2>1. id \in LinesOf(SetOf[a]) /\ id \in Lines /\ SetOfLine(id) = SetOf[a]
      BY RankInSet, GeometryAssumption DEF LinesOf
    <2>2. /\ update(id, e, a, sig, prefetch) /\ valid' = [valid EXCEPT ![id] = TRUE]
          /\ array' = [array EXCEPT ![id] = a]
          /\ Hits(a) = {}
      BY <1>3 DEF Miss
    <2> HIDE DEF id
    <2>3. e \in [Lines -> -INF_ETR..INF_ETR]
      BY <2>1, ParameterAssumption DEF TypeOK, replaced
    <2> HIDE DEF e
    <2>a. rdp' \in [Sigs -> NoEntry..RdpBound] /\ DistanceStep
      BY <2>1, <2>2, UpdateRdp
    <2>b. etr' \in [Lines -> -INF_ETR..INF_ETR]
      BY <2>1, <2>2, <2>3, UpdateEtr
    <2>c. /\ etr_clock' \in [Sets -> 0..GRANULARITY]
          /\ current_timestamp' \in [Sets -> 0..kMaxTimestamp - 1]
          /\ sampledCacheEntries' \in [Indices -> [Ways -> SampledCacheLine]]
          /\ UniqueSamples'
      BY <2>1, <2>2, UpdateSampled
    <2>d. array' \in [Lines -> Addrs \cup {None}] /\ valid' \in [Lines -> BOOLEAN]
      BY <2>1, <2>2 DEF TypeOK
    <2>4. TypeOK' /\ UniqueSamples' /\ DistanceStep
      BY <2>a, <2>b, <2>c, <2>d DEF TypeOK
    <2>5. UniqueLines'
      <3>1. \A j \in Lines : array'[j] = IF j = id THEN a ELSE array[j]
        BY <2>1, <2>2 DEF TypeOK
      <3>2. \A j \in Lines : array[j] # a
        <4> SUFFICES ASSUME NEW j \in Lines, array[j] = a PROVE FALSE
          OBVIOUS
        <4>1. SetOfLine(j) = SetOf[a]
          BY GeometryAssumption DEF UniqueLines
        <4> QED BY <2>2, <4>1 DEF Hits, LinesOf
      <3> QED BY <2>1, <3>1, <3>2 DEF UniqueLines
    <2> QED BY <2>4, <2>5
  <1>4. ASSUME NEW id \in Lines, Invalidate(id)
        PROVE  IInv' /\ DistanceStep
    <2>1. TypeOK' /\ UniqueSamples' /\ UniqueLines'
      BY <1>4 DEF Invalidate, TypeOK, UniqueSamples, UniqueLines
    <2>2. ASSUME NEW s \in Sigs
          PROVE  rdp[s] <= IF rdp[s] > INF_RD THEN rdp[s] ELSE INF_RD
      <3>1. rdp[s] \in Int /\ INF_RD \in Int
        BY RdpBoundType, ParameterAssumption DEF TypeOK, NoEntry
      <3> QED BY <3>1
    <2>3. rdp' = rdp
      BY <1>4 DEF Invalidate
    <2> QED BY <2>1, <2>2, <2>3 DEF DistanceStep
  <1> QED BY <1>1, <1>2, <1>3, <1>4 DEF Next

-----------------------------------------------------------------------------
(* The theorems *)

\* The invariant holds in every reachable state.
LEMMA Invariance == Spec => []IInv
  BY InitIInv, NextIInv, PTL DEF Spec

\* The estimates stay within INF_ETR of zero, the clocks within their periods and
\* the predicted distances within the penalty of INF_RD, whatever the parameters.
THEOREM MockingjayTypeOK == Spec => []TypeOK
  BY Invariance, PTL DEF IInv

\* However sets share the indices of the sampled cache and however their clocks
\* wrap, no tag is sampled twice.
THEOREM MockingjayUniqueSamples == Spec => []UniqueSamples
  BY Invariance, PTL DEF IInv

\* The array never holds an address in two lines or outside its set.
THEOREM MockingjayUniqueLines == Spec => []UniqueLines
  BY Invariance, PTL DEF IInv

\* A trained signature keeps its entry, and its distance grows at most to INF_RD.
THEOREM MockingjayDistanceBounded == Spec => DistanceBounded
  <1>1. IInv /\ [Next]_vars => [DistanceStep]_vars
    BY NextIInv
  <1>2. Spec => [][DistanceStep]_vars
    BY Invariance, <1>1, PTL DEF Spec
  <1> QED BY <1>2 DEF DistanceStep, DistanceBounded

\* rank's loop, which looks at one candidate after another and lets an overdue line take
\* over on a tie, ends at the line that Victim describes, for sets of any size.
THEOREM MockingjayVictim == Spec => []VictimIsScanned
  <1>1. ASSUME TypeOK, NEW set \in Sets PROVE Victim(set) = ScanVictim(set)
    <2> DEFINE F == Firsts(set, llc_ways)
    <2>1. llc_ways \in 0..llc_ways
      BY GeometryAssumption
    <2>2. F \in SUBSET Nat /\ \A i \in F : etr[i] \in Int /\ Abs(etr[i]) \in Nat
      BY <1>1, <2>1, EstimatesType DEF Firsts
    <2> QED BY <1>1, <2>2, VictimIsBest, ScanIsBest, BestUnique
  <1>2. IInv => VictimIsScanned
    BY <1>1 DEF IInv, VictimIsScanned
  <1> QED BY <1>2, Invariance, PTL

\* A sample of a tag that is not the one accessed is given up only because it was too old for
\* a reuse, or because it was the oldest of an index with no way free: the loop of update
\* that looks for a way never throws out a younger one.  A clock that counts modulo 1 does
\* not move, so the step would not show whose set was accessed; the code's counts modulo 256.
THEOREM MockingjayOldestGivenUp ==
  ASSUME kMaxTimestamp > 1
  PROVE  Spec => OldestSampleGivenUp
  <1>1. ASSUME IInv, Next PROVE SampleGivenUp
    <2>1. ASSUME NEW a \in Addrs, NEW sig \in Sigs, NEW prefetch \in BOOLEAN, Hit(a, sig, prefetch)
          PROVE  SampleGivenUp
      <3>1. Hits(a) \in SUBSET Nat /\ Hits(a) # {} /\ Hits(a) \in SUBSET Lines
        BY <2>1 DEF Hit, Hits, LinesOf, Lines
      <3>2. Least(Hits(a)) \in Lines
        BY <3>1, LeastIsMinimum
      <3>3. update(Least(Hits(a)), etr, a, sig, prefetch)
        BY <2>1 DEF Hit
      <3> QED BY <1>1, <3>2, <3>3, UpdateGivesUp DEF IInv
    <2>2. ASSUME NEW a \in Addrs, NEW sig \in Sigs, NEW prefetch \in BOOLEAN, Miss(a, sig, prefetch)
          PROVE  SampleGivenUp
      <3>1. rank(SetOf[a]) \in Lines
        BY <1>1, RankInSet, GeometryAssumption DEF IInv, LinesOf
      <3>2. update(rank(SetOf[a]), replaced(rank(SetOf[a])), a, sig, prefetch)
        BY <2>2 DEF Miss
      <3> QED BY <1>1, <3>1, <3>2, UpdateGivesUp DEF IInv
    <2>3. ASSUME NEW id \in Lines, Invalidate(id) PROVE SampleGivenUp
      BY <2>3 DEF Invalidate, SampleGivenUp
    <2> QED BY <1>1, <2>1, <2>2, <2>3 DEF Next
  <1>2. IInv /\ [Next]_vars => [SampleGivenUp]_vars
    BY <1>1
  <1>3. Spec => [][SampleGivenUp]_vars
    BY Invariance, <1>2, PTL DEF Spec
  <1> QED BY <1>3 DEF OldestSampleGivenUp
=============================================================================

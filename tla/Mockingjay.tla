----------------------------- MODULE Mockingjay -----------------------------
(***************************************************************************)
(* The Mockingjay replacement policy (mockingjay_repl.h) on a              *)
(* set-associative array (cache_arrays.cpp).                               *)
(*                                                                         *)
(* etr holds the estimated time remaining of every line; the line with the *)
(* largest absolute value is evicted.  The estimate comes from rdp, a      *)
(* table of reuse distances by PC signature, which the sampled cache       *)
(* trains: it remembers recent accesses with the signature and the set's   *)
(* clock, and measures the distance when the tag returns.                  *)
(*                                                                         *)
(* A call of the policy is one step: the cache makes it with its tcc lock  *)
(* held, and nothing between preinsert and postinsert enters the policy.   *)
(***************************************************************************)
EXTENDS Integers, FiniteSets

CONSTANTS LOG2_LLC_SET,      \* the array has 2^LOG2_LLC_SET sets ...
          llc_ways,          \* ... of llc_ways lines
          NUM_SAMPLED_SETS,
          NUM_SAMPLED_WAYS,
          kMaxTimestamp,     \* the set clocks count modulo this
          INF_ETR, INF_RD, MAX_RD, GRANULARITY,
          TEMP_DIVISOR,      \* 1 / TEMP_DIFFERENCE
          LOG2_CORES,        \* ilog2(numCores)
          Addrs, None,
          SetOf,             \* SetOf[a]: the hashed set of a line address
          IndexOf, TagOf,    \* its sampled cache index and (truncated) tag
          Sigs               \* PC signatures

NumSets == 2^LOG2_LLC_SET
Sets == 0..NumSets - 1
Lines == 0..NumSets * llc_ways - 1
Indices == {IndexOf[a] : a \in Addrs}
Tags == {TagOf[a] : a \in Addrs}
Ways == 0..NUM_SAMPLED_WAYS - 1
NoEntry == -1

ASSUME GeometryAssumption ==
    /\ LOG2_LLC_SET \in 0..31
    /\ NumSets \in Nat \ {0}
    /\ llc_ways \in Nat \ {0}
    /\ NUM_SAMPLED_SETS \in Nat
    /\ NUM_SAMPLED_WAYS \in Nat \ {0}
    /\ SetOf \in [Addrs -> Sets]
    /\ None \notin Addrs

ASSUME ParameterAssumption ==
    /\ kMaxTimestamp \in Nat \ {0}
    /\ INF_ETR \in Nat \ {0}
    /\ INF_RD \in Nat \ {0}
    /\ GRANULARITY \in Nat \ {0}
    /\ TEMP_DIVISOR \in Nat \ {0}
    /\ LOG2_CORES \in 0..8
    /\ MAX_RD \in Nat
    /\ MAX_RD \div GRANULARITY <= INF_ETR

VARIABLES array,              \* array[id]: the address in line id
          valid,              \* cc->isValid(id)
          etr,
          etr_clock,          \* per set
          current_timestamp,  \* per set
          rdp,                \* rdp[sig], NoEntry if the map has no such key
          sampledCacheEntries \* [index][way]

vars == <<array, valid, etr, etr_clock, current_timestamp, rdp, sampledCacheEntries>>

SampledCacheLine == [valid : BOOLEAN, tag : Tags \cup {None}, sig : Sigs \cup {None},
                     timestamp : 0..kMaxTimestamp - 1]

\* The penalty on the distance of a prefetch, FLEXMIN_PENALTY = 2 - LOG2_CORES / 4.
Penalised(sample) == (sample * (8 - LOG2_CORES)) \div 4

\* The largest distance the table can hold: that of a penalised prefetch.
RdpBound == IF Penalised(INF_RD) > INF_RD THEN Penalised(INF_RD) ELSE INF_RD

TypeOK ==
    /\ array \in [Lines -> Addrs \cup {None}]
    /\ valid \in [Lines -> BOOLEAN]
    /\ etr \in [Lines -> -INF_ETR..INF_ETR]
    /\ etr_clock \in [Sets -> 0..GRANULARITY]
    /\ current_timestamp \in [Sets -> 0..kMaxTimestamp - 1]
    /\ rdp \in [Sigs -> NoEntry..RdpBound]
    /\ sampledCacheEntries \in [Indices -> [Ways -> SampledCacheLine]]

Init ==
    /\ array = [id \in Lines |-> None]
    /\ valid = [id \in Lines |-> FALSE]
    /\ etr = [id \in Lines |-> 0]
    /\ etr_clock = [set \in Sets |-> GRANULARITY]
    /\ current_timestamp = [set \in Sets |-> 0]
    /\ rdp = [sig \in Sigs |-> NoEntry]
    /\ sampledCacheEntries = [ix \in Indices |-> [w \in Ways |->
          [valid |-> FALSE, tag |-> None, sig |-> None, timestamp |-> 0]]]

Abs(n) == IF n < 0 THEN -n ELSE n
Least(S) == CHOOSE x \in S : \A y \in S : x <= y
SetOfLine(id) == id \div llc_ways
LinesOf(set) == {id \in Lines : SetOfLine(id) = set}

-----------------------------------------------------------------------------
(* The sampled cache and the reuse distance predictor *)

\* LOG2_LLC_SET - NUM_SAMPLED_SETS underflows, and shifts by 32 bits or more
\* are undefined; the shift instructions of x86 take the count modulo 32.
is_sampled_set(set) ==
    LET mask_length == (LOG2_LLC_SET - NUM_SAMPLED_SETS) % 32
        shift == NUM_SAMPLED_SETS % 32
    IN  set % 2^mask_length = (set \div 2^shift) % 2^mask_length

updateTimestamp(current) == (current + 1) % kMaxTimestamp

computeElapsedTime(recent, previous) ==
    IF recent >= previous THEN recent - previous ELSE (recent + kMaxTimestamp) - previous

temporal_difference(init, sample) ==
    LET quotient == Abs(sample - init) \div TEMP_DIVISOR
        diff == IF quotient < 1 THEN quotient ELSE 1
    IN  CASE sample > init -> IF init + diff < INF_RD THEN init + diff ELSE INF_RD
          [] sample < init -> IF init - diff > 0 THEN init - diff ELSE 0
          [] OTHER -> init

Elapsed(set, entry) == computeElapsedTime(current_timestamp[set], entry.timestamp)

\* The way that findInSampledCache returns, as a set of at most one.
findInSampledCache(tag, ix) ==
    LET S == {w \in Ways : sampledCacheEntries[ix][w].valid /\ sampledCacheEntries[ix][w].tag = tag}
    IN  IF S = {} THEN {} ELSE {Least(S)}

\* The way whose reuse trains the predictor and which is then given up.
Reused(set, ix, tag) ==
    {w \in findInSampledCache(tag, ix) : Elapsed(set, sampledCacheEntries[ix][w]) <= INF_RD}

\* The predictor after a reuse.
Trained(set, ix, tag, prefetch) ==
    [sig \in Sigs |->
        IF \E w \in Reused(set, ix, tag) : sampledCacheEntries[ix][w].sig = sig
        THEN LET w == CHOOSE w \in Reused(set, ix, tag) : TRUE
                 elapsed == Elapsed(set, sampledCacheEntries[ix][w])
                 sample == IF prefetch THEN Penalised(elapsed) ELSE elapsed
             IN  IF rdp[sig] = NoEntry THEN sample ELSE temporal_difference(rdp[sig], sample)
        ELSE rdp[sig]]

\* The valid ways left after a reuse, and those of them taken for scans.
Held(set, ix, tag) == {w \in Ways : sampledCacheEntries[ix][w].valid} \ Reused(set, ix, tag)
Scans(set, ix, tag) ==
    {w \in Held(set, ix, tag) : Elapsed(set, sampledCacheEntries[ix][w]) > INF_RD}

\* Mutant: the age of a full set's ways is not looked at.
DetrainedFirst(set, ix, tag) ==
    IF Held(set, ix, tag) = Ways /\ Scans(set, ix, tag) = {} THEN {0} ELSE Scans(set, ix, tag)

\* The ways that are detrained: the scans, or, if that leaves no way free,
\* the first of the oldest.
Detrained(set, ix, tag) ==
    LET older(w) == \A v \in Ways : Elapsed(set, sampledCacheEntries[ix][v])
                                      <= Elapsed(set, sampledCacheEntries[ix][w])
    IN  IF Held(set, ix, tag) = Ways /\ Scans(set, ix, tag) = {}
        THEN {Least({w \in Ways : older(w)})}
        ELSE Scans(set, ix, tag)

\* detrain, of each way in D: their signatures' distances grow up to INF_RD.
detrain(table, ix, D) ==
    [sig \in Sigs |->
        LET n == Cardinality({w \in D : sampledCacheEntries[ix][w].sig = sig})
        IN  CASE n = 0 -> table[sig]
              [] n > 0 /\ table[sig] = NoEntry -> INF_RD
              [] OTHER -> IF table[sig] + n < INF_RD THEN table[sig] + n ELSE INF_RD]

\* The first way that is free for the new sample.
FreeWay(set, ix, tag) ==
    Least({w \in Ways : w \notin Held(set, ix, tag) \/ w \in Detrained(set, ix, tag)})

NewSample(set, tag, sig) ==
    [valid |-> TRUE, tag |-> tag, sig |-> sig, timestamp |-> current_timestamp[set]]

\* Mutant: a reused way stays valid.
SampledKeepsReused(set, ix, tag, sig) ==
    [w \in Ways |->
        IF w = FreeWay(set, ix, tag) THEN NewSample(set, tag, sig)
        ELSE [sampledCacheEntries[ix][w] EXCEPT
                !.valid = @ /\ w \notin Detrained(set, ix, tag)]]

\* The sampled ways after the access.
Sampled(set, ix, tag, sig) ==
    [w \in Ways |->
        IF w = FreeWay(set, ix, tag) THEN NewSample(set, tag, sig)
        ELSE [sampledCacheEntries[ix][w] EXCEPT
                !.valid = w \in Held(set, ix, tag) \ Detrained(set, ix, tag)]]

-----------------------------------------------------------------------------
(* The policy's interface *)

\* Every so many accesses to a set, its other lines age.
Aged(e, id) ==
    LET set == SetOfLine(id)
    IN  [i \in Lines |->
            IF etr_clock[set] = GRANULARITY /\ i \in LinesOf(set) \ {id} /\ Abs(e[i]) < INF_ETR
            THEN e[i] - 1 ELSE e[i]]

\* The estimate for a line accessed with this signature.
Predicted(table, sig) ==
    CASE table[sig] = NoEntry -> IF LOG2_CORES = 0 THEN 0 ELSE INF_ETR
      [] table[sig] > MAX_RD -> INF_ETR
      [] OTHER -> table[sig] \div GRANULARITY

\* update(id, req), where e is etr as replaced() has left it.  The estimate is
\* written only for the first llc_ways lines of the array.
update(id, e, a, sig, prefetch) ==
    LET set == SetOfLine(id)
        ix == IndexOf[a]
        tag == TagOf[a]
    IN  /\ rdp' = IF is_sampled_set(set)
                  THEN detrain(Trained(set, ix, tag, prefetch), ix, Detrained(set, ix, tag))
                  ELSE rdp
        /\ sampledCacheEntries' =
             [sampledCacheEntries EXCEPT ![ix] =
                IF is_sampled_set(set) THEN Sampled(set, ix, tag, sig) ELSE @]
        /\ current_timestamp' =
             [current_timestamp EXCEPT ![set] =
                IF is_sampled_set(set) THEN updateTimestamp(@) ELSE @]
        /\ etr_clock' = [etr_clock EXCEPT ![set] = IF @ = GRANULARITY THEN 0 ELSE @ + 1]
        /\ etr' = [Aged(e, id) EXCEPT ![id] = IF id < llc_ways THEN Predicted(rdp', sig) ELSE @]

replaced(id) == [etr EXCEPT ![id] = 0]

\* Mutant: a later line of the same absolute value always wins.
VictimLast(set) ==
    CHOOSE id \in LinesOf(set) :
        \A i \in LinesOf(set) : Abs(etr[i]) < Abs(etr[id]) \/ (Abs(etr[i]) = Abs(etr[id]) /\ i <= id)

\* rank over valid lines: the largest absolute estimate; on ties the last of
\* the negative ones or, if there is none, the first.
Victim(set) ==
    LET top == {id \in LinesOf(set) : \A i \in LinesOf(set) : Abs(etr[i]) <= Abs(etr[id])}
        overdue == {id \in top : etr[id] < 0}
    IN  IF overdue = {} THEN Least(top) ELSE CHOOSE id \in overdue : \A i \in overdue : i <= id

\* rank's loop over the valid lines of a set, in the order of the candidates
ScanVictim(set) ==
    LET best[n \in 0..llc_ways] ==
          IF n = 0 THEN [max_etr |-> -1, victim_loc |-> 0]
          ELSE LET id == set * llc_ways + n - 1
               IN  IF \/ Abs(etr[id]) > best[n-1].max_etr
                      \/ Abs(etr[id]) = best[n-1].max_etr /\ etr[id] < 0
                   THEN [max_etr |-> Abs(etr[id]), victim_loc |-> id]
                   ELSE best[n-1]
    IN  best[llc_ways].victim_loc

\* rank: the first invalid line, if there is one.
rank(set) ==
    LET invalid == {id \in LinesOf(set) : ~valid[id]}
    IN  IF invalid = {} THEN Victim(set) ELSE Least(invalid)

-----------------------------------------------------------------------------
(* The cache array's use of the policy *)

\* Mutant: only valid lines are looked up.
HitsOnlyValid(a) == {id \in LinesOf(SetOf[a]) : array[id] = a /\ valid[id]}

Hits(a) == {id \in LinesOf(SetOf[a]) : array[id] = a}

\* SetAssocArray::lookup finds the address; the line need not be valid, the
\* access will make it so.
Hit(a, sig, prefetch) ==
    /\ Hits(a) # {}
    /\ LET id == Least(Hits(a))
       IN  /\ update(id, etr, a, sig, prefetch)
           /\ valid' = [valid EXCEPT ![id] = TRUE]
    /\ UNCHANGED array

\* preinsert and postinsert
Miss(a, sig, prefetch) ==
    /\ Hits(a) = {}
    /\ LET id == rank(SetOf[a])
       IN  /\ update(id, replaced(id), a, sig, prefetch)
           /\ array' = [array EXCEPT ![id] = a]
           /\ valid' = [valid EXCEPT ![id] = TRUE]

\* The coherence controller invalidates a line; its address stays in the array.
Invalidate(id) ==
    /\ valid[id]
    /\ valid' = [valid EXCEPT ![id] = FALSE]
    /\ UNCHANGED <<array, etr, etr_clock, current_timestamp, rdp, sampledCacheEntries>>

Next ==
    \/ \E a \in Addrs, sig \in Sigs, prefetch \in BOOLEAN :
         Hit(a, sig, prefetch) \/ Miss(a, sig, prefetch)
    \/ \E id \in Lines : Invalidate(id)

Spec == Init /\ [][Next]_vars

-----------------------------------------------------------------------------
(* Properties *)

\* The line that Victim describes by its estimate is the one at which rank's
\* loop stops, ties and overdue lines included.
VictimIsScanned == \A set \in Sets : Victim(set) = ScanVictim(set)

\* A tag is sampled at most once at an index.  findInSampledCache returns the
\* first match: with two, the older would go on to be measured as a second
\* reuse or be detrained as a scan although its line had been used again.
UniqueSamples ==
    \A ix \in Indices : \A v, w \in Ways :
        /\ v # w
        /\ sampledCacheEntries[ix][v].valid
        /\ sampledCacheEntries[ix][w].valid
        => sampledCacheEntries[ix][v].tag # sampledCacheEntries[ix][w].tag

\* An address is in at most one line, which is of its set: an access never
\* brings in a second copy, also after the coherence controller invalidated the
\* line and left its address behind.
UniqueLines ==
    \A i \in Lines : array[i] # None =>
        /\ SetOfLine(i) = SetOf[array[i]]
        /\ \A j \in Lines : array[j] = array[i] => j = i

\* A sampled tag that is given up and is not the one accessed was either too
\* old for a reuse, or the oldest of an index that had no way free.
SampleGivenUp ==
    \A ix \in Indices : \A w \in Ways :
        LET was == sampledCacheEntries[ix][w]
            Kept == {v \in Ways : /\ sampledCacheEntries'[ix][v].valid
                                  /\ sampledCacheEntries'[ix][v].tag = was.tag}
        IN  was.valid /\ Kept = {} =>
              \E set \in Sets :
                /\ current_timestamp'[set] # current_timestamp[set]
                /\ \/ Elapsed(set, was) > INF_RD
                   \/ \A v \in Ways : /\ sampledCacheEntries[ix][v].valid
                                      /\ Elapsed(set, sampledCacheEntries[ix][v]) <= Elapsed(set, was)

OldestSampleGivenUp == [][SampleGivenUp]_vars

\* A signature's distance grows past INF_RD only by a penalised prefetch, and
\* a trained signature is never forgotten: it keeps an entry for good.
DistanceBounded ==
    [][\A sig \in Sigs : rdp[sig] # NoEntry =>
        /\ rdp'[sig] # NoEntry
        /\ rdp'[sig] <= IF rdp[sig] > INF_RD THEN rdp[sig] ELSE INF_RD]_vars

\* What the comments of update and of etr say: "etr counters for all cache
\* lines", set by update for "the SPECIFIC LINE we need to access".  The line
\* just accessed carries the estimate of the access's signature.
LineCarriesPrediction ==
    [][\A a \in Addrs, sig \in Sigs, prefetch \in BOOLEAN :
        Hit(a, sig, prefetch) \/ Miss(a, sig, prefetch) =>
            \A id \in Lines : array'[id] = a => etr'[id] = Predicted(rdp', sig)]_vars
=============================================================================

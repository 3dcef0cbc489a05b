---------------------------- MODULE MCMockingjay ----------------------------
(* Mockingjay on two sets of two ways. *)
EXTENDS Mockingjay

CONSTANTS a1, a2, a3, a4

\* a1, a2 and a3 compete for set 0; a4 is of set 1 and shares their sampled
\* cache index, under a tag of its own.
MCSetOf == [a \in Addrs |-> IF a = a4 THEN 1 ELSE 0]
MCIndexOf == [a \in Addrs |-> 0]
MCTagOf == [a \in Addrs |-> CASE a = a1 -> 1 [] a \in {a2, a3} -> 2 [] a = a4 -> 3]
=============================================================================

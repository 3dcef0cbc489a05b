--------------------------- MODULE MCFilterCache ---------------------------
(* Small hierarchies with filter caches for TLC. *)
EXTENDS FilterCache, TLC

CONSTANTS L1a, L1b, LLC, x, y, p, q

\* Two terminal caches of one line below one shared cache of two: both evict.
Tree == [c \in Caches |-> IF c = LLC THEN Mem ELSE LLC]
MCLines == [c \in Caches |-> IF c = LLC THEN 2 ELSE 1]

OneProcess == [i \in Cores \cup Addrs |-> p]
\* A core and an address each.  An eviction run by the other process misses the
\* filter entry (the FIXME of invalidate): FilterCoherent fails when the LLC has
\* one line.
TwoProcesses == [i \in Cores \cup Addrs |-> IF i \in {L1a, x} THEN p ELSE q]
OneLine == [c \in Caches |-> 1]
=============================================================================

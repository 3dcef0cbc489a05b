------------------------------- MODULE MCMESI -------------------------------
(* A small hierarchy for TLC. *)
EXTENDS MESI, TLC

CONSTANTS L1a, L1b, L2, LLC

\* L1a and L1b below a shared L2, below the LLC.
Above(c) == CASE c = LLC -> Mem
              [] c = L2 -> LLC
              [] OTHER -> L2
Tree == [c \in Caches |-> Above(c)]

\* One line in every cache, so that every access to another address evicts,
\* but two in the mid-level cache, whose LLC evicts below them.
TwoLines == [c \in Caches |-> IF c = L2 THEN 2 ELSE 1]
=============================================================================

----------------------------- MODULE MCFutexLock -----------------------------
(* Small instances of FutexLock for TLC. *)
EXTENDS FutexLock, TLC

Symmetry == Permutations(Threads)
=============================================================================

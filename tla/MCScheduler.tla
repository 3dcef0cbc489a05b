----------------------------- MODULE MCScheduler -----------------------------
(* Scheduler with threads that may use any core and threads pinned to core 0. *)
EXTENDS Scheduler

CONSTANT Pinned

Mask == [t \in Threads |-> IF t \in Pinned THEN {0} ELSE Cores]
=============================================================================

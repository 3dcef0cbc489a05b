--------------------------- MODULE AbstractBarrier ---------------------------
(***************************************************************************)
(* What the phase barrier of src/zsim/src/barrier.h promises: threads join *)
(* and leave at any time, and a phase ends only when every member has      *)
(* arrived, so no thread runs ahead of another by more than a phase.       *)
(***************************************************************************)
CONSTANT Threads

VARIABLES members,   \* the threads that take part
          arrived    \* those of them that have finished the current phase

avars == <<members, arrived>>

Init == members = {} /\ arrived = {}

\* A thread joins; a thread that has already run in this phase runs again.
Join(t) ==
    /\ t \notin members
    /\ members' = members \cup {t}
    /\ UNCHANGED arrived

Leave(t) ==
    /\ t \in members
    /\ members' = members \ {t}
    /\ arrived' = arrived \ {t}

Arrive(t) ==
    /\ t \in members \ arrived
    /\ arrived' = arrived \cup {t}
    /\ UNCHANGED members

NewPhase ==
    /\ members # {}
    /\ arrived = members
    /\ arrived' = {}
    /\ UNCHANGED members

Next == NewPhase \/ \E t \in Threads : Join(t) \/ Leave(t) \/ Arrive(t)

Spec == Init /\ [][Next]_avars
=============================================================================

--------------------------- MODULE MCFastForward ---------------------------
(* Environments of one or two processes for TLC. *)
EXTENDS FastForward, TLC

Quiet == [configured |-> {0, 1}, startFF |-> {}, mode |-> [p \in Procs |-> "MULTIPROCESS"],
          restarts |-> [p \in Procs |-> 0], toggled |-> {}, hooks |-> {}, ffi |-> {}, beats |-> {},
          ends |-> {}, forks |-> {}, syscalls |-> {}, pauses |-> FALSE, terminates |-> FALSE,
          windows |-> FALSE]
Unsynced == [p \in Procs |-> "NEVER"]
Always == [p \in Procs |-> "ALWAYS"]

\* The user toggles one process, which may also enter and leave fast-forward
\* by hooks; the other one uses hooks, sends heartbeats, exits and is restarted.
Toggling ==
    {[Quiet EXCEPT !.mode = m, !.toggled = {0}, !.hooks = {0, 1}, !.startFF = s, !.ends = {1},
                   !.beats = {1}, !.restarts = [p \in Procs |-> p]] :
        m \in {Quiet.mode, Unsynced}, s \in {{}, {1}}}

\* A lone process that is always synced, toggled and paused.
Pausing ==
    {[Quiet EXCEPT !.configured = {0}, !.toggled = {0}, !.beats = {0}, !.pauses = TRUE, !.mode = Always]}

\* Processes exit in any order or are terminated, one of them in fast-forward
\* until it exits and is restarted.
Exiting ==
    {[Quiet EXCEPT !.mode = m, !.hooks = {0}, !.startFF = {1}, !.ends = {0, 1},
                   !.restarts = [p \in Procs |-> p], !.terminates = TRUE] :
        m \in {Quiet.mode, Unsynced}}

\* Instruction-based fast-forwarding beside hooks, system calls, a heartbeat
\* and a termination.
Intervals ==
    {[Quiet EXCEPT !.mode = Unsynced, !.ffi = {0}, !.startFF = {0}, !.hooks = {1},
                   !.syscalls = {0, 1}, !.beats = {1}, !.terminates = TRUE]}

\* A process forks in and out of fast-forward, its child inherits its mode,
\* and the simulation terminates.
Forking ==
    {[Quiet EXCEPT !.configured = {0}, !.mode = m, !.forks = {0}, !.startFF = {0}, !.hooks = {0, 1},
                   !.terminates = TRUE] : m \in {Always, Unsynced}}

Sound == Toggling \cup Pausing \cup Exiting \cup Intervals \cup Forking

(* Environments the code does not cope with. *)

\* The mode that depends on the number of processes, and a fork in fast-forward:
\* CountsExact and PhaseCompletes fail.
ForkMultiprocess ==
    {[Quiet EXCEPT !.configured = {0}, !.startFF = {0}, !.forks = {0}, !.hooks = {0, 1}]}
\* A toggle between tick and numPhases++: NoPanic fails.
Window == {[Quiet EXCEPT !.configured = {0}, !.toggled = {0}, !.windows = TRUE]}
\* Two processes toggled in the same phase: PhaseCompletes fails.
TwoToggled == {[Quiet EXCEPT !.mode = Unsynced, !.toggled = {0, 1}]}
\* A process that exits with a toggle pending: PhaseCompletes fails.
ToggledExits == {[Quiet EXCEPT !.mode = Unsynced, !.toggled = {1}, !.ends = {1}]}
=============================================================================

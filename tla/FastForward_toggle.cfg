SPECIFICATION Spec
CONSTANTS
    Procs = {0, 1}
    None = None
    Envs <- Sound
INVARIANTS NoPanic CountsExact
PROPERTIES SyncedHoldsPhase PhaseCompletes ToggleServed TerminationCompletes
CHECK_DEADLOCK FALSE

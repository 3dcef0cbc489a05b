SPECIFICATION Spec
CONSTANTS
    Procs = {0, 1}
    None = None
    Envs <- ForkMultiprocess
INVARIANT CountsExact
CHECK_DEADLOCK FALSE

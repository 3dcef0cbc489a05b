SPECIFICATION FairSpec
CONSTANTS
    Threads = {c1, c2, c3}
    Parallel = 2
    CleanupPeriod = 2
    KillJoiners = FALSE
    MaxLeaves = 2
INVARIANTS RunListInv CounterInv AssertionsHold NoLostWakeup
PROPERTIES ImplementsBarrier WaiterRuns

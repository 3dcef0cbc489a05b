SPECIFICATION Spec
CONSTANTS
    Threads = {t1, t2, t3}
    Pinned = {t1, t2}
    numCores = 2
    mask <- Mask
    schedQuantum = 2
    MaxSleep = 2
    FakeLeaveRace = FALSE
    None = None
INVARIANTS StructuresAgree NoIdleWhileQueued SleepersOnTime NoAssertionFails
PROPERTIES NoOvertaking

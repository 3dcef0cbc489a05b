SPECIFICATION FairSpec
CONSTANTS
    Threads = {t1, t2}
    Pinned = {t1, t2}
    numCores = 1
    mask <- Mask
    schedQuantum = 2
    MaxSleep = 3
    FakeLeaveRace = FALSE
    None = None
PROPERTIES QueuedRuns SleeperWakes

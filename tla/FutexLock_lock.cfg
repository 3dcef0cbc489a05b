SPECIFICATION FairSpec
CONSTANTS
    Threads = {t1, t2, t3}
    Spins = 2
INVARIANTS NoLostWakeup
PROPERTIES ImplementsMutex SleeperWoken

SPECIFICATION FairSpec
CONSTANTS
    m = m
    w1 = w1
    w2 = w2
    Main = m
    Workers = {w1, w2}
    Callers = {m}
    Spawners = {m}
    ReMerge = TRUE
    RaceSpawns = FALSE
    Orphans = FALSE
    QCAP = 1
    QMAXTASK = 3
    MaxHandles = 2
    MaxMerges = 2
    MaxStorage = 0
    NULL = NULL
CHECK_DEADLOCK FALSE
PROPERTIES AwakeWorkerDrains

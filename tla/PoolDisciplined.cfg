SPECIFICATION Spec
CONSTANTS
    m = m
    w1 = w1
    w2 = w2
    Main = m
    Workers = {w1, w2}
    Callers = {m, w1, w2}
    Spawners = {m, w1, w2}
    ReMerge = FALSE
    RaceSpawns = FALSE
    Orphans = FALSE
    QCAP = 2
    QMAXTASK = 3
    MaxHandles = 2
    MaxMerges = 3
    MaxStorage = 1
    NULL = NULL
CHECK_DEADLOCK FALSE
INVARIANTS TypeOK DoneMeansReclaimed OneRunPerOwner MergesCalledOnce NeverFull NoDanglingHandle
PROPERTIES FifoStep ImplementsService

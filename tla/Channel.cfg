SPECIFICATION FairSpec
CONSTANTS
    Threads = {t1, t2, t3}
    Values = {v1, v2}
    Requested = 2
    NoValue = NoValue
    NoThread = NoThread
INVARIANTS TypeOK SleepersHaveCause
PROPERTIES ImplementsFifo InsideProgress

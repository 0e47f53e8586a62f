SPECIFICATION FairSpec
CONSTANTS
    MaxPids = 2
    MaxRuns = 3
    Hasty = FALSE
CHECK_DEADLOCK FALSE
INVARIANTS TypeOK OneRunPerThread IdleMeansReclaimed BlockReportsRun NoPanic
PROPERTIES BlockAfterReclaim ImplementsService BlockReturns

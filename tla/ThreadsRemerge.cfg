SPECIFICATION Spec
CONSTANTS
    MaxPids = 2
    MaxRuns = 3
    Hasty = TRUE
CHECK_DEADLOCK FALSE
PROPERTIES BlockAfterReclaim

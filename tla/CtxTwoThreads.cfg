SPECIFICATION Spec
CONSTANTS
    MaxRuns = 2
    MaxCtxs = 5
    MaxDepth = 3
    NULL = NULL
CHECK_DEADLOCK FALSE
INVARIANTS OneUser

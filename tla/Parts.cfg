SPECIFICATION FairSpec
CONSTANTS
    MaxRuns = 1
    MaxCtxs = 5
    MaxDepth = 3
    NULL = NULL
    BlockSizes = {2, 4}
    Requests = {1, 2}
    Pids = {1, 2}
    MaxAllocs = 3
    MaxHeap = 4
    Points <- SumPoints
    Generators <- SumGenerators
    Stops = {0, 1, 2, 3, 4, 5, 6, 8}
    Steps <- SumSteps
    MaxPeriod = 4
    Endings = {"ok", "refused", "panic"}
    Accepting = {"ok"}
    Timeout = 1
    KillGrace = 1
    Lines <- FixerLines
    MaxLines = 5
    MaxPasses = 8
CHECK_DEADLOCK FALSE
INVARIANTS OneUser EmptyQueued SumIsLoop KilledIsLoud FixKeepsRun
PROPERTIES SupervisorReturns

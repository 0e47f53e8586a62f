SPECIFICATION Spec
CONSTANTS
    Lines <- TryLines
    MaxLines = 6
    MaxPasses = 8
CHECK_DEADLOCK FALSE
INVARIANTS FixKeepsBehaviour

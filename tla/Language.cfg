CONSTANTS
    IntBits = 8
    UcharBits = 4
    LongBits = 12
    MaxCallDepth = 4
    MaxLen = 3
    Fuel = 12
    Statements <- MCStatements
    Program <- MCProgram
    FrontEnd <- Accept
    Interpreter <- Interpret
    Compiler <- BuildAndRun
SPECIFICATION Spec
CHECK_DEADLOCK FALSE
CONSTRAINTS
    Ordered
    Short
INVARIANTS
    SlotsAgree
    VmAgrees
    CheckedRunsClean
    WidthKept
    CopydApart
    CompiledAgrees

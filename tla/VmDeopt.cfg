CONSTANTS
    IntBits = 8
    UcharBits = 4
    LongBits = 12
    MaxCallDepth = 4
    MaxLen = 2
    Fuel = 12
    Statements <- MCStatements
    Program <- MCProgram
    FrontEnd <- Accept
    Interpreter <- Interpret
    Compiler <- BuildAndRun
SPECIFICATION Spec
CHECK_DEADLOCK FALSE
CONSTRAINTS
    Ordered
    Short
INVARIANT DeoptHarmless

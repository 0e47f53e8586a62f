------------------------------- MODULE MCParts -------------------------------
(***************************************************************************)
(* Five parts that do not interact, explored by one run: a behaviour       *)
(* chooses a part, and only that part moves.                               *)
(***************************************************************************)
EXTENDS Integers, Sequences

CONSTANTS MaxRuns, MaxCtxs, MaxDepth, NULL
VARIABLES ctxHead, link, made, runs, stack, pc, want, h, next, ctx
Pool == INSTANCE CtxPool
poolVars == <<ctxHead, link, made, runs, stack, pc, want, h, next, ctx>>

CONSTANTS BlockSizes, Requests, Pids, MaxAllocs, MaxHeap
VARIABLES BlockSize, nextID, blocks, minHeap, AllocCalls
Memory == INSTANCE MemoryManager
memoryVars == <<BlockSize, nextID, blocks, minHeap, AllocCalls>>

CONSTANTS Points, Generators, Stops, Steps, MaxPeriod
VARIABLES stage, generate, stop, step, period, sum
Summing == INSTANCE SumBuiltin
sumVars == <<stage, generate, stop, step, period, sum>>

CONSTANTS Endings, Accepting, Timeout, KillGrace
VARIABLES phase, child, ending, now, TimedOut, MemCapped, outcome, anyTimeout, anyMemCap, Verdict
Stress == INSTANCE StressRunner
stressVars ==
    <<phase, child, ending, now, TimedOut, MemCapped,
      outcome, anyTimeout, anyMemCap, Verdict>>

CONSTANTS Lines, MaxLines, MaxPasses
VARIABLES original, source, passes, fixing
Fixer == INSTANCE LintFixer
fixerVars == <<original, source, passes, fixing>>

VARIABLE part

\* What the proofs assume of the constants of the parts.
ASSUME PartsAssumption ==
    /\ Pool!PoolAssumption
    /\ Memory!MemoryAssumption
    /\ Summing!SumAssumption
    /\ Stress!StressAssumption
    /\ Fixer!FixerAssumption

-----------------------------------------------------------------------------
\* Generators for sum: every sequence of two values, lines, and two that follow
\* neither a line nor a period.
SumPoints == 0 .. 6
SumSteps == {-1, 1, 2}
SumGenerators ==
    [SumPoints -> {0, 1}]
    \cup {[i \in SumPoints |-> a * i + b] : a \in -1 .. 2, b \in 0 .. 1}
    \cup {[i \in SumPoints |-> i * i], [i \in SumPoints |-> IF i = 3 THEN 5 ELSE i % 3]}

\* Lines for the fixer's programs: no reference and nothing that fails.
Line(op, v, e) == [op |-> op, v |-> v, e |-> e]
FixerLines ==
    {Line("set", "x", "1"), Line("set", "x", "2"), Line("set", "y", "x"), Line("set", "x", "x"),
     Line("compare", "x", "x"), Line("say", "x", "x"), Line("if", "y", "y")}
    \cup {Line(op, "", "") : op \in {"for", "try", "catch", "end"}}

-----------------------------------------------------------------------------
Parts == {"contexts", "memory", "sum", "stress", "fixer"}

Init ==
    /\ part \in Parts
    /\ Pool!Init /\ Memory!Init /\ Summing!Init /\ Stress!Init /\ Fixer!Init
    /\ part # "memory" => BlockSize = CHOOSE n \in BlockSizes : TRUE

ContextStep ==
    /\ part = "contexts" /\ Pool!Next
    /\ UNCHANGED <<part, memoryVars, sumVars, stressVars, fixerVars>>

MemoryStep ==
    /\ part = "memory" /\ Memory!Next
    /\ UNCHANGED <<part, poolVars, sumVars, stressVars, fixerVars>>

SumStep ==
    /\ part = "sum" /\ Summing!Next
    /\ UNCHANGED <<part, poolVars, memoryVars, stressVars, fixerVars>>

StressStep ==
    /\ part = "stress" /\ Stress!Next
    /\ UNCHANGED <<part, poolVars, memoryVars, sumVars, fixerVars>>

FixerStep ==
    /\ part = "fixer" /\ Fixer!Next
    /\ UNCHANGED <<part, poolVars, memoryVars, sumVars, stressVars>>

Next == ContextStep \/ MemoryStep \/ SumStep \/ StressStep \/ FixerStep

vars == <<part, poolVars, memoryVars, sumVars, stressVars, fixerVars>>

Spec == Init /\ [][Next]_vars

\* The fairness of the only part with a liveness property.
FairSpec ==
    /\ Spec
    /\ WF_vars(StressStep /\ Stress!Start)
    /\ WF_vars(StressStep /\ Stress!Tick)

-----------------------------------------------------------------------------
\* Every part keeps the types of its variables.
PartsTyped == Memory!TypeOK /\ Summing!TypeOK /\ Stress!TypeOK /\ Fixer!TypeOK

\* The properties of the parts, stated in their modules.
OneUser == Pool!OneUser
EntriesManaged == Memory!EntriesManaged
EmptyQueued == Memory!EmptyQueued
UsedBounded == Memory!UsedBounded
SumIsLoop == Summing!SumIsLoop
KilledIsLoud == Stress!KilledIsLoud
FixKeepsRun == Fixer!FixKeepsRun

\* Every stress case gets its verdict, though a child survives its kill.
SupervisorReturns == part = "stress" => Stress!SupervisorReturns
=============================================================================

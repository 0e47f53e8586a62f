------------------------------ MODULE SumBuiltin ------------------------------
(***************************************************************************)
(* sum(generate, begin, stop, step) of the interpreter (sumBuiltin and     *)
(* detectPeriod, internal/lang/eval.go).  The builtin does not call the    *)
(* generator for every term when three probes and the last term lie on a   *)
(* line, or when the first two values come again within MaxPeriod terms:   *)
(* it multiplies.  The compiled program adds every term (emitSum,          *)
(* compiler/internal/cgen/cgen.go).                                        *)
(*                                                                         *)
(* A generator is a function on the points the builtin may probe; at a     *)
(* point outside Points it raises an error.  Values are small, so the      *)
(* wrap to 32 bits and the counting of bits are the plain sum; the special *)
(* case of the generator named rand is left out.                           *)
(***************************************************************************)
EXTENDS Integers, Sequences

CONSTANTS
    Points,     \* points where the generator returns an int
    Generators, \* functions from Points to Int
    Stops,      \* values of stop; begin is 0
    Steps,      \* values of step, not zero
    MaxPeriod   \* 256 in the code

\* Generators are total on the points; sum rejects a zero step.
SumAssumption ==
    /\ Points \subseteq Int
    /\ Generators \subseteq [Points -> Int] /\ Generators # {}
    /\ Stops \subseteq Int
    /\ Steps \subseteq Int \ {0}
    /\ MaxPeriod \in Nat \ {0}

VARIABLES
    stage, \* "idle", "probe", "scan", "period", "loop", "done" or "error"
    generate,
    stop,
    step,
    period, \* the candidate of detectPeriod
    sum

vars == <<stage, generate, stop, step, period, sum>>

Init ==
    /\ stage = "idle"
    /\ generate = CHOOSE g \in Generators : TRUE
    /\ stop = 0
    /\ step = 1
    /\ period = 0
    /\ sum = 0

-----------------------------------------------------------------------------
\* The j-th term, and whether calling for it succeeds.
Fails(j) == j * step \notin Points
Term(j) == generate[j * step]

\* A probe whose error is ignored leaves 0 in the result.
Probe(j) == IF Fails(j) THEN 0 ELSE Term(j)

\* Go's integer division truncates towards zero.
Quotient(a, b) ==
    LET q == (IF a < 0 THEN -a ELSE a) \div (IF b < 0 THEN -b ELSE b)
    IN  IF (a < 0) = (b < 0) THEN q ELSE -q

\* Count as a mutation: the last, shorter step is forgotten.
CountDown == Quotient(stop, step)

Count == Quotient(stop + step - 1, step)

AddTerms(n) ==
    LET add[j \in 0 .. n] == IF j = 0 THEN 0 ELSE add[j - 1] + Term(j - 1)
    IN  add[n]

Call ==
    /\ stage = "idle"
    /\ stage' = "probe"
    /\ generate' \in Generators
    /\ stop' \in Stops
    /\ step' \in Steps
    /\ UNCHANGED <<period, sum>>

Return(s) ==
    /\ sum' = s
    /\ stage' = "done"

OnLine ==
    LET d == Probe(1) - Probe(0)
    IN  /\ d = Probe(2) - Probe(1)
        /\ \/ Count <= 0
           \/ ~Fails(Count - 1) /\ Term(Count - 1) = Probe(0) + d * (Count - 1)

\* The linear probing: n * (first + last) / 2 when it succeeds.
LinearProbe ==
    /\ stage = "probe"
    /\ \/ /\ OnLine
          /\ Return(IF Count <= 0 THEN 0
                    ELSE Quotient(Count * (Probe(0) + Term(Count - 1)), 2))
          /\ UNCHANGED period
       \/ /\ ~OnLine
          /\ stage' = IF Count > 0 THEN "scan" ELSE "loop"
          /\ period' = IF Count > 0 THEN 1 ELSE 0
          /\ UNCHANGED sum
    /\ UNCHANGED <<generate, stop, step>>

ScanLimit == IF Count > MaxPeriod THEN MaxPeriod ELSE Count

\* One candidate of detectPeriod; an error ends the scan.
ScanPeriod ==
    /\ stage = "scan"
    /\ \/ /\ period >= ScanLimit \/ Fails(0) \/ Fails(period)
          /\ stage' = "loop"
          /\ period' = 0
       \/ /\ period < ScanLimit /\ ~Fails(0) /\ ~Fails(period)
          /\ IF Term(period) = Term(0) /\ ~Fails(period + 1) /\ Term(period + 1) = Probe(1)
             THEN stage' = "period" /\ UNCHANGED period
             ELSE period' = period + 1 /\ UNCHANGED stage
    /\ UNCHANGED <<generate, stop, step, sum>>

\* Whole periods by multiplication, the remainder term by term.
AddPeriods ==
    /\ stage = "period"
    /\ Return((Count \div period) * AddTerms(period) + AddTerms(Count % period))
    /\ UNCHANGED <<generate, stop, step, period>>

\* The loop from 0 while below stop; with a negative step below a positive stop
\* it would not end, and TLC is not given that call.
LoopCount == IF stop <= 0 THEN 0 ELSE (stop + step - 1) \div step

AddLoop ==
    /\ stage = "loop"
    /\ stop <= 0 \/ step > 0
    /\ \/ /\ \A j \in 0 .. LoopCount - 1 : ~Fails(j)
          /\ Return(AddTerms(LoopCount))
       \/ /\ \E j \in 0 .. LoopCount - 1 : Fails(j)
          /\ stage' = "error"
          /\ UNCHANGED sum
    /\ UNCHANGED <<generate, stop, step, period>>

Next == Call \/ LinearProbe \/ ScanPeriod \/ AddPeriods \/ AddLoop

Spec == Init /\ [][Next]_vars

-----------------------------------------------------------------------------
TypeOK ==
    /\ stage \in {"idle", "probe", "scan", "period", "loop", "done", "error"}
    /\ generate \in Generators
    /\ stop \in Stops \cup {0} /\ step \in Steps \cup {1}
    /\ period \in 0 .. MaxPeriod
    /\ sum \in Int

\* The probes agree with a line, or with a period, that a term between them does
\* not follow.
Misled ==
    \/ /\ OnLine
       /\ \E j \in 0 .. Count - 1 :
             Fails(j) \/ Term(j) # Probe(0) + j * (Probe(1) - Probe(0))
    \/ /\ period > 0
       /\ \E j \in period .. Count - 1 : Fails(j) \/ Term(j) # Term(j - period)

\* With a positive step the sum is the one a loop would compute, whichever way
\* it was computed: the closed form and the periods count the terms the loop
\* visits, the shorter last step and the remainder of the last period included.
\* It excludes exactly the generators that look linear or periodic at the probed
\* points and are not.
SumIsLoop == stage = "done" /\ step > 0 /\ ~Misled => sum = AddTerms(LoopCount)
=============================================================================

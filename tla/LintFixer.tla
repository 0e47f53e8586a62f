------------------------------ MODULE LintFixer ------------------------------
(***************************************************************************)
(* qkcheck -fix (fixFile and fixOnce, cmd/qkcheck/main.go): the linter     *)
(* walks a function, attaches corrections to its findings (lint.go and     *)
(* lintfix.go of internal/lang), the file is rewritten and linted again    *)
(* until nothing applies.  The corrections modelled are those of a dead    *)
(* store (QK113) and a self-assignment (QK108), which delete a line, and   *)
(* of a self-comparison (QK114), which replaces one.                       *)
(*                                                                         *)
(* A program is a sequence of lines over the variables x and y, declared 0 *)
(* by its first two lines, and p, which "int& p = &x" makes another name   *)
(* for x.  A block is opened and closed by lines of its own; a for block   *)
(* runs twice.  Each statement stands alone on its line, so the gates on   *)
(* the shape of a line always hold.                                        *)
(***************************************************************************)
EXTENDS Naturals, Sequences, FiniteSets, SequencesExt

CONSTANTS
    Lines,    \* the lines a program is written with
    MaxLines, \* bound: lines after the declarations
    MaxPasses \* 8 in the code

VARIABLES
    original, \* the program as written so far, or as given to the fixer
    source,   \* the program after the passes made so far
    passes,
    fixing    \* whether the program is with the fixer

vars == <<original, source, passes, fixing>>

Names == {"x", "y", "p"}

Decl(v) == [op |-> "decl", v |-> v, e |-> "0"]
Ref == [op |-> "ref", v |-> "p", e |-> "x"]
Set(v, e) == [op |-> "set", v |-> v, e |-> e] \* e: "1", "2", a name or "1/y"
Say(v) == [op |-> "say", v |-> v, e |-> v]
Compare(v) == [op |-> "compare", v |-> v, e |-> v]
If(v) == [op |-> "if", v |-> v, e |-> v]
Mark(op) == [op |-> op, v |-> "", e |-> ""] \* "for", "try", "catch", "end", "literal"

\* The lines there are.
Statements ==
    {Set(v, e) : v \in Names, e \in Names \cup {"1", "2", "1/y"}}
    \cup {Say(v) : v \in Names} \cup {Compare(v) : v \in Names} \cup {If(v) : v \in Names}
    \cup {Ref} \cup {Mark(op) : op \in {"for", "try", "catch", "end"}}

FixerAssumption == Lines \subseteq Statements /\ MaxPasses \in Nat

Opens(line) == line.op \in {"if", "for", "try"}

\* The variables a line's expressions read, in the order they are evaluated.
ReadsOf(line) ==
    CASE line.op = "compare" -> <<line.v, line.v>>
      [] line.op \in {"say", "if", "ref"} -> <<line.e>>
      [] line.op = "set" /\ line.e \in Names -> <<line.e>>
      [] line.op = "set" /\ line.e = "1/y" -> <<"y">>
      [] OTHER -> <<>>

\* For each line, the line that ends the block it lies in: an "end" or a "catch",
\* or one past the last line.
BlockEnd(src) ==
    LET stop[i \in Nat] ==
            IF i > Len(src) \/ src[i].op \in {"end", "catch"} THEN i
            ELSE IF src[i].op = "try" THEN stop[stop[stop[i + 1] + 1] + 1]
            ELSE IF Opens(src[i]) THEN stop[stop[i + 1] + 1]
            ELSE stop[i + 1]
    IN  stop

CatchOf(src, i) == BlockEnd(src)[i + 1]

CloseOf(src, i) == BlockEnd(src)[IF src[i].op = "try" THEN CatchOf(src, i) + 1 ELSE i + 1]

\* Every block is closed, and a try has its catch.
Parses(src) ==
    \A i \in DOMAIN src : Opens(src[i]) =>
        /\ CloseOf(src, i) <= Len(src)
        /\ src[CloseOf(src, i)].op = "end"
        /\ src[i].op = "try" => src[CatchOf(src, i)].op = "catch"

-----------------------------------------------------------------------------
(* What a program does: the values it prints, and whether an error ended it *)
(* (raised) or was ever raised (failed).                                    *)

Cell(v) == IF v = "p" THEN "x" ELSE v

ValueOf(e, env) ==
    CASE e = "1" -> 1
      [] e = "2" -> 2
      [] e = "1/y" -> IF env["y"] = 1 THEN 1 ELSE 0
      [] OTHER -> env[Cell(e)]

States ==
    [env : [{"x", "y"} -> 0 .. 2], out : Seq(0 .. 2), raised : BOOLEAN, failed : BOOLEAN]

\* execBlock: what the lines from the i-th to the end of its block do to a state.
Exec(src) ==
    LET exec[i \in Nat] == [st \in States |->
            LET line == src[i]
                fails == line.op = "set" /\ line.e = "1/y" /\ st.env["y"] = 0
                body == exec[i + 1]
                after == exec[CloseOf(src, i) + 1]
            IN  IF i > Len(src) \/ st.raised \/ line.op \in {"end", "catch"} THEN st
                ELSE CASE fails -> [st EXCEPT !.raised = TRUE, !.failed = TRUE]
                       [] line.op = "set" /\ ~fails ->
                            exec[i + 1][[st EXCEPT !.env[Cell(line.v)] = ValueOf(line.e, st.env)]]
                       [] line.op = "say" ->
                            exec[i + 1][[st EXCEPT !.out = Append(@, st.env[Cell(line.v)])]]
                       [] line.op = "if" ->
                            after[IF st.env[Cell(line.v)] = 0 THEN st ELSE body[st]]
                       [] line.op = "for" -> after[body[body[st]]]
                       [] line.op = "try" ->
                            after[IF ~body[st].raised THEN body[st]
                                  ELSE exec[CatchOf(src, i) + 1][[body[st] EXCEPT !.raised = FALSE]]]
                       [] OTHER -> exec[i + 1][st]]
    IN  exec

Fresh == [env |-> [v \in {"x", "y"} |-> 0], out |-> <<>>, raised |-> FALSE, failed |-> FALSE]

Run(src) == Exec(src)[1][Fresh]

-----------------------------------------------------------------------------
(* The linter's walk.  Its state: pending, the line of the last write of    *)
(* each variable that nothing read since (0: none), the variables known to  *)
(* be references, and the lines found to be dead stores.                    *)

InLoop(src, i) == \E k \in 1 .. i - 1 : src[k].op = "for" /\ i < CloseOf(src, k)

Used(w, vs) == [w EXCEPT !.pending = [v \in Names |-> IF v \in vs THEN 0 ELSE @[v]]]

\* branch as a mutation: what is written before a branch stays pending in it.
branchKeeps(w) == w

branch(w) == Used(w, Names)

\* Whether a write of v on line i is followed to its reads: not through a
\* reference, nor in a loop, whose next round may read it.
Tracked(src, w, v, i) == v \notin w.refVars /\ ~InLoop(src, i)

\* An assignment to v on line i, its right-hand side visited.
Assigned(src, w, v, i) ==
    LET tracked == Tracked(src, w, v, i)
        dead == IF tracked /\ w.pending[v] # 0 THEN {w.pending[v]} ELSE {}
    IN  [w EXCEPT !.dead = @ \cup dead, !.pending[v] = IF tracked THEN i ELSE 0]

\* stmt on line i.
Visit(src, w, i) ==
    LET line == src[i]
        read == Used(w, Range(ReadsOf(line)))
    IN  CASE line.op = "decl" ->
                [w EXCEPT !.pending[line.v] = IF Tracked(src, w, line.v, i) THEN i ELSE @]
          [] line.op = "ref" -> [read EXCEPT !.refVars = @ \cup {line.v}]
          [] line.op = "set" -> Assigned(src, read, line.v, i)
          [] line.op \in {"if", "for", "catch"} -> branch(read)
          [] OTHER -> read

DeadStores(src) ==
    LET w0 == [pending |-> [v \in Names |-> 0], refVars |-> {}, dead |-> {}]
        w[i \in 0 .. Len(src)] == IF i = 0 THEN w0 ELSE Visit(src, w[i - 1], i)
    IN  w[Len(src)].dead

\* reads of the whole file, by name.
ReadCount(src, v) ==
    FoldLeft(LAMBDA n, line : n + Len(SelectSeq(ReadsOf(line), LAMBDA u : u = v)), 0, src)

\* deadStoreFix and selfAssignFix: the lines to delete; a declaration stays.
Deleted(src) ==
    {i \in DeadStores(src) : src[i].op # "decl"}
    \cup {i \in DOMAIN src : src[i].op = "set" /\ src[i].e = src[i].v}

\* selfCompareFix: the gate on the reads counts the operand once.
Replaced(src) ==
    {i \in DOMAIN src : src[i].op = "compare" /\ src[i].v # "p" /\ ReadCount(src, src[i].v) > 1}

\* A line after the pass.
Corrected(src, i) == IF i \in Replaced(src) THEN Mark("literal") ELSE src[i]

Fixed(src) ==
    LET kept[i \in 0 .. Len(src)] ==
            IF i = 0 THEN <<>>
            ELSE IF i \in Deleted(src) THEN kept[i - 1]
            ELSE Append(kept[i - 1], Corrected(src, i))
    IN  kept[Len(src)]

-----------------------------------------------------------------------------
Init ==
    /\ original = <<Decl("x"), Decl("y")>>
    /\ source = <<>>
    /\ passes = 0
    /\ fixing = FALSE

Open == {i \in DOMAIN original : Opens(original[i]) /\ CloseOf(original, i) > Len(original)}

Innermost == IF Open = {} THEN Mark("none") ELSE original[Max(Open)]

\* The innermost block is a try whose catch is written.
Caught == CatchOf(original, Max(Open)) <= Len(original)

WriteLine ==
    /\ ~fixing
    /\ Len(original) < MaxLines + 2
    /\ \E line \in Lines :
          /\ line.op = "end" => Innermost.op \in {"if", "for"} \/ (Innermost.op = "try" /\ Caught)
          /\ line.op = "catch" => Innermost.op = "try" /\ ~Caught
          /\ line.op = "ref" => Len(original) = 2
          /\ "p" \in {line.v, line.e} => Len(original) = 2 \/ original[3] = Ref
          /\ "p" \in {line.v, line.e} /\ Len(original) = 2 => line = Ref
          /\ original' = Append(original, line)
    /\ UNCHANGED <<source, passes, fixing>>

StartFix ==
    /\ ~fixing
    /\ Len(original) > 2 /\ Parses(original)
    /\ fixing' = TRUE
    /\ source' = original
    /\ UNCHANGED <<original, passes>>

\* fixOnce, while a correction applies and the passes last.
FixPass ==
    /\ fixing
    /\ passes < MaxPasses
    /\ Deleted(source) # {} \/ Replaced(source) # {}
    /\ source' = Fixed(source)
    /\ passes' = passes + 1
    /\ UNCHANGED <<original, fixing>>

Next == WriteLine \/ StartFix \/ FixPass

Spec == Init /\ [][Next]_vars

-----------------------------------------------------------------------------
TypeOK ==
    /\ original \in Seq(Lines \cup {Decl("x"), Decl("y")})
    /\ source \in Seq(Lines \cup {Decl("x"), Decl("y"), Mark("literal")})
    /\ passes \in 0 .. MaxPasses
    /\ fixing \in BOOLEAN

\* "A corrected program produces the same output and the same success or failure
\* as the original" (lintfixcorpus_test.go), whenever the original runs.
FixKeepsBehaviour ==
    fixing /\ ~Run(original).raised =>
        /\ ~Run(source).raised
        /\ Run(source).out = Run(original).out

\* The same for the programs whose variables have one name each and which raise
\* no error, caught or not: through all the passes, branches and loops included,
\* no correction removes a write whose value some path prints.
FixKeepsRun ==
    fixing /\ ~Run(original).failed /\ (\A i \in DOMAIN original : original[i].op # "ref") =>
        Run(source).out = Run(original).out
=============================================================================

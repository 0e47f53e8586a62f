------------------------------- MODULE Language -------------------------------
(***************************************************************************)
(* The life of one program: its text is written, compiled (type checked,   *)
(* slots and calls resolved: compileTokens of internal/lang/compile.go),   *)
(* registered with an interpreter and run (runWithInterp of eval.go), once *)
(* with QUARK_NO_VM set and once with the bytecode machine, and given to   *)
(* the compiler (module Compiled), whose program is run if there is one.   *)
(*                                                                         *)
(* Program(c) is the program whose text is c, a sequence over Statements.  *)
(* A program is [fns, structs, ifaces, impls]; its main takes the stream.  *)
(* The three tools a text goes through are parameters; Accept, Interpret   *)
(* and BuildAndRun below are what they are in this repository.             *)
(***************************************************************************)
EXTENDS Checker, Interp

CONSTANTS
    Statements, MaxLen, Fuel, Program(_),
    FrontEnd(_),                \* whether a text is accepted
    Interpreter(_, _, _),       \* its run: with names resolved to slots or not, with bytecode or not
    Compiler(_)                 \* the run of what it is compiled to
Native == INSTANCE Compiled

VARIABLES
    code,       \* the text
    phase,      \* "write", "refused", "accepted", "walked", "done", "compiled"
    walk, fast, \* what the run without and with bytecode showed: [err, v, out, vars, heap]
    built       \* what the compiled program showed: [err, out, vars]; err is "refused" when there is none
vars == <<code, phase, walk, fast, built>>

NotRun == [err |-> "none", v |-> NilV, out |-> <<>>, vars |-> <<>>, heap |-> <<>>, black |-> {}]

Checked(c) == Typecheck(Program(c))

(* registerProgram refuses a second definition with the signature of the first *)
Registers(fns) ==
    \A i \in DOMAIN fns : \A j \in 1 .. i - 1 :
        (fns[i].of = "" /\ fns[j].of = "" /\ fns[i].n = fns[j].n /\ j = Primary(fns, fns[i].n))
            => ~SameSig(fns[i], fns[j])

MainOf(fns) == Primary(fns, "main")

(* The context of main is made directly; its scope is the first one. *)
RunProgram(fns, structs, vm) ==
    LET s == NewStore(fns, structs, vm, Fuel)
        r == Execute(MainOf(fns), <<Val("io", 0)>>, s, 0)
        top == r.s.scopes[1]
    IN  [err |-> r.err, v |-> r.v, out |-> r.s.out, heap |-> r.s.heap, black |-> r.s.black,
         vars |-> [i \in DOMAIN top.names |-> <<top.names[i], Deref(r.s, top.vals[i])>>]]

Loaded(c) == Resolved(Checked(c).fns)

Accept(c) == LET checked == Checked(c) IN checked.ok /\ Registers(Program(c).fns)
Interpret(c, resolve, vm) ==
    LET fns == IF resolve THEN Loaded(c) ELSE Checked(c).fns
    IN  RunProgram(fns, Program(c).structs, vm)
(* The compiler lowers the checked program. *)
BuildAndRun(c) ==
    LET L == Native!Lowered([Program(c) EXCEPT !.fns = Checked(c).fns])
    IN  IF Native!Compiles(L) THEN Native!RunCompiled(L, Fuel) ELSE [NotRun EXCEPT !.err = "refused"]
----------------------------------------------------------------------------
Init == code = <<>> /\ phase = "write" /\ walk = NotRun /\ fast = NotRun /\ built = NotRun

Write ==
    /\ phase = "write" /\ Len(code) < MaxLen
    /\ \E c \in Statements : code' = Append(code, c)
    /\ UNCHANGED <<phase, walk, fast, built>>

Compile ==
    /\ phase = "write"
    /\ phase' = IF FrontEnd(code) THEN "accepted" ELSE "refused"
    /\ UNCHANGED <<code, walk, fast, built>>

RunWithoutVm ==
    /\ phase = "accepted"
    /\ walk' = Interpreter(code, TRUE, FALSE)
    /\ phase' = "walked"
    /\ UNCHANGED <<code, fast, built>>

RunWithVm ==
    /\ phase = "walked"
    /\ fast' = Interpreter(code, TRUE, TRUE)
    /\ phase' = "done"
    /\ UNCHANGED <<code, walk, built>>

RunNative ==
    /\ phase = "done"
    /\ built' = Compiler(code)
    /\ phase' = "compiled"
    /\ UNCHANGED <<code, walk, fast>>

Next == Write \/ Compile \/ RunWithoutVm \/ RunWithVm \/ RunNative
Spec == Init /\ [][Next]_vars
=============================================================================

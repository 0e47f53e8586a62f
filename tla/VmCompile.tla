------------------------------ MODULE VmCompile ------------------------------
(***************************************************************************)
(* The bytecode compiler of internal/lang/vm.go: a function is compiled    *)
(* only when every statement of its body is in the int and bool subset     *)
(* whose types it can prove; otherwise the tree walker keeps it.           *)
(*                                                                         *)
(* A compiler state c holds the code, the names and the types of the       *)
(* slots, the slot of the stream it prints to, the breaks of the open      *)
(* loops to be patched, and ok, FALSE once the function is given up.       *)
(* Program counters start at 1.                                            *)
(***************************************************************************)
EXTENDS Resolve, Values

CompErr(c) == [c EXCEPT !.ok = FALSE]       \* c.fail()
Emit(c, op, a, b) == [c EXCEPT !.code = Append(@, [op |-> op, a |-> a, b |-> b])]
At(c)      == Len(c.code)                   \* the instruction just emitted
Here(c)    == Len(c.code) + 1               \* the next one
Patch(c, i, target)    == [c EXCEPT !.code[i].a = target]
PatchAll(c, is, target) == FoldLeft(LAMBDA acc, i : Patch(acc, i, target), c, is)

SlotIn(c, n)   == IF Contains(c.slots, n) THEN CHOOSE i \in DOMAIN c.slots : c.slots[i] = n ELSE 0
AddSlot(c, n, t) == [c EXCEPT !.slots = Append(@, n), !.types = Append(@, t)]

Seq2(c, F(_), G(_)) == LET d == F(c) IN IF d.ok THEN G(d) ELSE d

Overloaded(fns, n) == Cardinality({i \in DOMAIN fns : fns[i].n = n /\ fns[i].of = ""}) > 1
StaticCallee(c, e, fns) == e.idx > 0 /\ SlotIn(c, e.f) = 0 /\ ~Overloaded(fns, e.f)

(* The types it can prove: "int", "bool", or the declared one of a name. *)
RECURSIVE TypeOf(_, _, _)
TypeOf(e, c, fns) ==
    LET T(x) == TypeOf(x, c, fns)
        Both(t) == T(e.l) = t /\ T(e.r) = t
    IN  CASE e.e = "int"  -> "int"
          [] e.e = "bool" -> "bool"
          [] e.e = "id"   -> IF SlotIn(c, e.n) > 0 THEN c.types[SlotIn(c, e.n)] ELSE ""
          [] e.e = "un"   -> IF e.op = "-" /\ T(e.x) = "int" THEN "int" ELSE ""
          [] e.e = "bin"  ->
                CASE e.op \in {"+", "-", "*", "/", "%"} -> IF Both("int") THEN "int" ELSE ""
                  [] e.op \in {"<", "<=", ">", ">="}    -> IF Both("int") THEN "bool" ELSE ""
                  [] e.op \in {"==", "!="} -> IF Both("int") \/ Both("bool") THEN "bool" ELSE ""
                  [] e.op \in {"&&", "||"} -> IF Both("bool") THEN "bool" ELSE ""
                  [] OTHER -> ""
          [] e.e = "call" -> IF StaticCallee(c, e, fns) THEN fns[e.idx].ret ELSE ""
          [] OTHER        -> ""

(* the instruction of an operator on ints *)
IntOps == [x \in {"+", "-", "*", "/", "%", "<", "<=", ">", ">=", "==", "!="} |-> x]

RECURSIVE CExpr(_, _, _), CCall(_, _, _)

CBinary(e, c, fns) ==
    LET lt == TypeOf(e.l, c, fns)
        rt == TypeOf(e.r, c, fns)
        proved == IF e.op \in {"==", "!="} THEN lt = rt /\ lt \in {"int", "bool"}
                  ELSE lt = "int" /\ rt = "int"
        both(d) == Seq2(d, LAMBDA x : CExpr(e.l, x, fns), LAMBDA x : CExpr(e.r, x, fns))
        (* && and ||: two tests that skip to the constant deciding the result *)
        skip == IF e.op = "&&" THEN "jumpfalse" ELSE "jumptrue"
        left == CExpr(e.l, c, fns)
        t1   == Emit(left, skip, 0, 0)
        right == CExpr(e.r, t1, fns)
        t2   == Emit(Emit(right, skip, 0, 0), "constbool", IF e.op = "&&" THEN 1 ELSE 0, 0)
        out  == Emit(t2, "jump", 0, 0)
        dec  == Emit(PatchAll(out, <<At(t1), At(right) + 1>>, Here(out)),
                     "constbool", IF e.op = "&&" THEN 0 ELSE 1, 0)
    IN  IF e.op \in {"&&", "||"}
        THEN IF ~left.ok THEN left ELSE IF ~right.ok THEN right ELSE Patch(dec, At(out), Here(dec))
        ELSE IF ~proved \/ e.op \notin DOMAIN IntOps THEN CompErr(c)
        ELSE LET d == both(c) IN IF d.ok THEN Emit(d, e.op, 0, 0) ELSE d

CExpr(e, c, fns) ==
    CASE e.e = "int"  -> Emit(c, "constint", Signed(e.v, IntBits), 0)
      [] e.e = "bool" -> Emit(c, "constbool", e.v, 0)
      [] e.e = "id"   -> IF SlotIn(c, e.n) = 0 THEN CompErr(c)
                         ELSE Emit(c, "load", SlotIn(c, e.n), 0)
      [] e.e = "un"   -> IF e.op # "-" \/ TypeOf(e.x, c, fns) # "int" THEN CompErr(c)
                         ELSE LET d == CExpr(e.x, c, fns) IN IF d.ok THEN Emit(d, "neg", 0, 0) ELSE d
      [] e.e = "bin"  -> CBinary(e, c, fns)
      [] e.e \in {"call", "mcall"} -> CCall(e, c, fns)
      [] OTHER        -> CompErr(c)

\* CArg as a mutation: every argument is passed as a value.
CArgValue(a, c, fns) == CExpr(a, c, fns)

(* A variable passed to a function is passed as a reference cell. *)
CArg(a, c, fns) == IF a.e = "id" /\ SlotIn(c, a.n) > 0 THEN Emit(c, "loadref", SlotIn(c, a.n), 0)
                   ELSE CExpr(a, c, fns)

(* Arguments of print are values. *)
CCall(e, c, fns) ==
    LET values(d) == FoldLeft(LAMBDA acc, a : IF acc.ok THEN CExpr(a, acc, fns) ELSE acc, d, e.args)
        cells(d)  == FoldLeft(LAMBDA acc, a : IF acc.ok THEN CArg(a, acc, fns) ELSE acc, d, e.args)
    IN  IF e.e = "mcall"
        THEN IF e.x.e # "id" \/ e.m \notin {"println", "print"} \/ SlotIn(c, e.x.n) = 0
             THEN CompErr(c)
             ELSE LET d == values(c)
                  IN  IF ~d.ok THEN d
                      ELSE Emit(Emit([d EXCEPT !.io = SlotIn(c, e.x.n)], "println", Len(e.args), 0),
                                "constint", 0, 0)
        ELSE IF ~StaticCallee(c, e, fns) THEN CompErr(c)
             ELSE LET d == cells(c) IN IF d.ok THEN Emit(d, "call", e.idx, Len(e.args)) ELSE d

----------------------------------------------------------------------------
RECURSIVE CStmt(_, _, _)
CBlock(b, c, fns) == FoldLeft(LAMBDA acc, st : IF acc.ok THEN CStmt(st, acc, fns) ELSE acc, c, b)
(* a nested block may not declare *)
CScoped(b, c, fns) ==
    FoldLeft(LAMBDA acc, st : IF ~acc.ok THEN acc
                              ELSE IF st.k = "decl" THEN CompErr(acc) ELSE CStmt(st, acc, fns), c, b)

CDecl(st, c, fns) ==
    LET d    == AddSlot(c, st.n, st.t)
        init == IF st.i = <<>> THEN Emit(d, "constint", 0, 0) ELSE CExpr(st.i[1], d, fns)
    IN  IF st.decor \in {"copyd", "const"} \/ st.t \notin {"int", "bool"} \/ SlotIn(c, st.n) > 0
        THEN CompErr(c)
        ELSE IF init.ok THEN Emit(init, "store", SlotIn(d, st.n), 0) ELSE init

CIf(st, c, fns) ==
    LET cond == CExpr(st.c, c, fns)
        jf   == Emit(cond, "jumpfalse", 0, 0)
        then == CScoped(st.t, jf, fns)
        jend == Emit(then, "jump", 0, 0)
        else == CScoped(st.el, Patch(jend, At(jf), Here(jend)), fns)
    IN  CASE TypeOf(st.c, c, fns) # "bool" -> CompErr(c)
          [] ~cond.ok -> cond
          [] ~then.ok -> then
          [] OTHER -> IF st.el = <<>> THEN Patch(then, At(jf), Here(then))
                      ELSE IF else.ok THEN Patch(else, At(jend), Here(else)) ELSE else

(* while and C-style loops: init, condition, body, step, jump back *)
CLoop(init, cond, step, body, c, fns) ==
    LET i == CBlock(init, c, fns)
        t == CExpr(cond, i, fns)
        j == Emit(t, "jumpfalse", 0, 0)
        b == CScoped(body, [j EXCEPT !.brk = Append(@, <<>>)], fns)
        p == CBlock(step, b, fns)
        back == Emit(p, "jump", Here(i), 0)
        done == PatchAll(Patch(back, At(j), Here(back)), Last(b.brk), Here(back))
    IN  CASE ~i.ok -> i [] ~t.ok -> t [] ~b.ok -> b [] ~p.ok -> p
          [] OTHER -> [done EXCEPT !.brk = Front(@)]

CStmt(st, c, fns) ==
    CASE st.k = "expr" -> IF st.x.e \notin {"call", "mcall"} THEN CompErr(c)
                          ELSE LET d == CCall(st.x, c, fns) IN IF d.ok THEN Emit(d, "pop", 0, 0) ELSE d
      [] st.k = "decl" -> CDecl(st, c, fns)
      [] st.k = "assign" -> IF st.t.e # "id" \/ (st.t.e = "id" /\ SlotIn(c, st.t.n) = 0) THEN CompErr(c)
                            ELSE LET d == CExpr(st.x, c, fns)
                                 IN  IF d.ok THEN Emit(d, "store", SlotIn(c, st.t.n), 0) ELSE d
      [] st.k = "if"    -> CIf(st, c, fns)
      [] st.k = "while" -> CLoop(<<>>, st.c, <<>>, st.b, c, fns)
      [] st.k = "forc"  -> CLoop(st.i, st.c, st.st, st.b, c, fns)
      [] st.k = "return" -> IF st.x = <<>> THEN Emit(c, "returnnil", 0, 0)
                            ELSE LET d == CExpr(st.x[1], c, fns) IN IF d.ok THEN Emit(d, "return", 0, 0) ELSE d
      [] st.k = "log"   -> LET d == CExpr(st.x, c, fns) IN IF d.ok THEN Emit(d, "log", 0, 0) ELSE d
      [] st.k = "break" -> IF c.brk = <<>> THEN CompErr(c)
                           ELSE LET d == Emit(c, "jump", 0, 0)
                                IN  [d EXCEPT !.brk[Len(d.brk)] = Append(@, At(d))]
      [] OTHER          -> CompErr(c)

(* vmFor: the program of a function, or ok = FALSE *)
VmProg(fn, fns) ==
    LET c0 == [code |-> <<>>, slots |-> [i \in DOMAIN fn.ps |-> fn.ps[i].n],
               types |-> [i \in DOMAIN fn.ps |-> fn.ps[i].t], io |-> 0, brk |-> <<>>, ok |-> TRUE]
        c  == CBlock(fn.b, c0, fns)
    IN  IF c.ok THEN Emit(c, "returnnil", 0, 0) ELSE c
=============================================================================

------------------------------ MODULE Compiled ------------------------------
(***************************************************************************)
(* What the code generated for a lowered program does                      *)
(* (compiler/internal/cgen/cgen.go): the tree of module Lower, executed    *)
(* over machine storage.                                                   *)
(*                                                                         *)
(* A variable is a register (direct) or a cell; a parameter is the address *)
(* of the caller's cell.  An address is a cell, a field of a struct or a   *)
(* slot of a list's element buffer, which is a block of its own: a list    *)
(* that grows gets another one, and an address into the old one is left    *)
(* behind.  A store is [cells, heap, out, fuel, fr, depth, try, ret, and   *)
(* the program: p, bodies, celled]; fr maps the variables of the running   *)
(* function, try says whether an enclosing try of it catches errors.       *)
(*                                                                         *)
(* Outcomes are those of module Storage.  "caught" is a jump to the catch  *)
(* block of the same function, "undefined" a step C gives no meaning to (a *)
(* released block, a null pointer, INT_MIN / -1); any other error ends the *)
(* process.                                                                *)
(***************************************************************************)
EXTENDS Lower, Storage

CONSTANT MaxCallDepth

Cell(n)      == Ref("cell", n, 0)
NewCell(v, s) == R(Cell(Len(s.cells) + 1), [s EXCEPT !.cells = Append(@, v)])
IsAddr(v)    == v.tag = "ref"
Panic(kind, s) == Err(IF s.try THEN "caught" ELSE kind, s)

(* an object that is there *)
Object(v, s) == IF Is(v, "nil") \/ IsAddr(v) THEN Err("undefined", s)
                ELSE IF Obj(s, v).k = "freed" THEN Err("undefined", s) ELSE R(Obj(s, v), s)
Fetch(a, s) ==
    CASE ~IsAddr(a)        -> Err("undefined", s)
      [] a.kind = "cell"   -> R(s.cells[a.obj], s)
      [] s.heap[a.obj].k = "freed" -> Err("undefined", s)
      [] a.kind = "field"  -> R(s.heap[a.obj].f[a.key], s)
      [] a.kind = "slot"   -> R(s.heap[a.obj].items[a.key], s)
Poke(a, v, s) ==
    CASE ~IsAddr(a)        -> Err("undefined", s)
      [] a.kind = "cell"   -> R(NilV, [s EXCEPT !.cells[a.obj] = v])
      [] s.heap[a.obj].k = "freed" -> Err("undefined", s)
      [] a.kind = "field"  -> R(NilV, [s EXCEPT !.heap[a.obj].f[a.key] = v])
      [] a.kind = "slot"   -> R(NilV, [s EXCEPT !.heap[a.obj].items[a.key] = v])
Free(i, s) == [s EXCEPT !.heap[i] = [k |-> "freed"]]

----------------------------------------------------------------------------
(* Widths.  A value is re-read at the width of the target. *)
ConvTo(v, to) ==
    CASE to = "uchar" -> IntV(v.i % 2^UcharBits)
      [] IsBits(to)   -> IntV(v.i % 2^RawTypes[to])
      [] to = "bool"  -> BoolV(v.i % 2 = 1)
      [] to = "long"  -> IntV(v.i)
      [] OTHER        -> WrapI32(v.i)
Unboxed(v, to) == IF v.tag = (IF to = "String" THEN "str" ELSE to) THEN v ELSE Fail("type")
Coerce(v, from, to) ==
    CASE from = to \/ to = "?" -> v
      [] \E t \in {from, to} : t = "uchar" \/ IsBits(t) -> ConvTo(v, to)
      [] from = AnyT /\ to \in {"int", "float", "bool", "String"} -> Unboxed(v, to)
      [] from = "int" /\ to = "float" -> FloatV(2 * v.i)
      [] from = "long" /\ to = "int"  -> WrapI32(v.i)
      [] OTHER -> v
(* the type an expression has once it is evaluated: a T& is followed *)
Now(x) == IF x.o = "id" THEN Base(x.t) ELSE x.t
Zero(t) == CASE t \in {"int", "long", "uchar"} \/ IsBits(t) -> IntV(0) [] t = "bool" -> BoolV(FALSE)
             [] t = "float" -> FloatV(0) [] t = "String" -> StrV(0) [] OTHER -> NilV

----------------------------------------------------------------------------
(* Which names need a cell: those assigned anywhere in the program and     *)
(* those given to a by-reference parameter.  The second scan does not look *)
(* into a bit assignment or a delete.                                      *)
Kids(x) == CASE x.o \in {"bin", "cmp", "cat", "andor"}  -> <<x.l, x.r>>
             [] x.o \in {"addr", "box", "conv", "field"} -> <<x.x>>
             [] x.o \in {"method", "listop", "table", "iface"} -> <<x.x>> \o x.args
             [] x.o \in {"call", "sum", "memo"} -> x.args
             [] x.o \in {"index", "bit"} -> <<x.x, x.i>>
             [] x.o = "list"   -> x.items
             [] x.o = "struct" -> x.values
             [] OTHER -> <<>>
Unwrapped(x) == IF x.o \in {"box", "addr"} THEN x.x ELSE x
RECURSIVE ByRef(_)
ByRef(x) ==
    LET byRef == x.o \in {"call", "iface"} \/ (IF x.o = "method" THEN ~x.byVal ELSE FALSE)
        given == IF byRef THEN {Unwrapped(x.args[i]) : i \in DOMAIN x.args} ELSE {}
    IN  {g.n : g \in {g \in given : g.o = "id"}} \cup UNION {ByRef(Kids(x)[i]) : i \in DOMAIN Kids(x)}
ByRefAll(xs) == UNION {ByRef(xs[i]) : i \in DOMAIN xs}

RECURSIVE Assigned(_), ByRefArgs(_)
Assigned(b) == UNION {LET st == b[i] IN
    CASE st.k = "assign" /\ st.o \in {"var", "thru"} -> {st.t.n}
      [] st.k = "bitassign" -> IF st.x.o = "id" THEN {st.x.n} ELSE {}
      [] st.k = "if"   -> Assigned(st.t) \cup Assigned(st.el)
      [] st.k = "while" -> Assigned(st.b)
      [] st.k = "forc" -> Assigned(st.i) \cup Assigned(st.st) \cup Assigned(st.b)
      [] st.k = "for"  -> {st.n} \cup Assigned(st.b)
      [] st.k = "try"  -> Assigned(st.b) \cup Assigned(st.c)
      [] OTHER -> {} : i \in DOMAIN b}
ByRefArgs(b) == UNION {LET st == b[i] IN
    CASE st.k = "assign" -> ByRef(st.x) \cup CASE st.o = "index" -> ByRef(st.t.i)
                                               [] st.o = "field" -> ByRef(st.t.x) [] OTHER -> {}
      [] st.k \in {"expr", "log"} -> ByRef(st.x)
      [] st.k = "return" -> ByRefAll(st.x)
      [] st.k = "decl"  -> ByRefAll(st.i)
      [] st.k = "print" -> ByRefAll(st.args)
      [] st.k = "if"    -> ByRef(st.c) \cup ByRefArgs(st.t) \cup ByRefArgs(st.el)
      [] st.k = "while" -> ByRef(st.c) \cup ByRefArgs(st.b)
      [] st.k = "forc"  -> ByRefArgs(st.i) \cup ByRef(st.c) \cup ByRefArgs(st.st) \cup ByRefArgs(st.b)
      [] st.k = "for"   -> ByRefArgs(st.b)
      [] st.k = "try"   -> ByRefArgs(st.b) \cup ByRefArgs(st.c)
      [] OTHER -> {} : i \in DOMAIN b}

(* A body that hands control to no other function counts no call level. *)
RECURSIVE CallFreeX(_), CallFree(_)
CallFreeX(x) == /\ x.o \in {"const", "id", "addr", "bin", "cmp", "cat", "andor"}
                /\ \A i \in DOMAIN Kids(x) : CallFreeX(Kids(x)[i])
CallFree(b) == \A i \in DOMAIN b : LET st == b[i] IN
    CASE st.k = "expr" -> CallFreeX(st.x)
      [] st.k = "assign" -> st.o \in {"var", "thru"} /\ CallFreeX(st.x)
      [] st.k = "return" -> \A j \in DOMAIN st.x : CallFreeX(st.x[j])
      [] st.k = "decl"   -> \A j \in DOMAIN st.i : CallFreeX(st.i[j])
      [] st.k = "if"     -> CallFreeX(st.c) /\ CallFree(st.t) /\ CallFree(st.el)
      [] OTHER -> FALSE

(* A return that ends a try block leaves the block after it without an end: *)
(* LLVM refuses the module.                                                 *)
RECURSIVE Encodable(_)
Encodable(b) == \A i \in DOMAIN b : LET st == b[i] IN
    CASE st.k = "try" -> Encodable(st.b) /\ Encodable(st.c) /\ \A j \in DOMAIN st.b : st.b[j].k \notin {"return", "log"}
      [] st.k = "if"  -> Encodable(st.t) /\ Encodable(st.el)
      [] st.k \in {"while", "for", "forc"} -> Encodable(st.b)
      [] OTHER -> TRUE

----------------------------------------------------------------------------
RECURSIVE Ev(_, _), CallFn(_, _, _), ExBlock(_, _)
EvTo(x, to, s) == Then(Ev(x, s), LAMBDA v, s1 : Lift(Coerce(v, Now(x), to), s1))
EvAll(xs, tos, s) ==
    FoldLeft(LAMBDA acc, i : Then(acc, LAMBDA vs, s1 :
                Then(EvTo(xs[i], tos[i], s1), LAMBDA v, s2 : R(Append(vs, v), s2))),
             R(<<>>, s), [i \in DOMAIN xs |-> i])
Types(xs) == [i \in DOMAIN xs |-> "?"]

(* Variables.  A null T& reads a cell nobody wrote. *)
Var(n, s)     == IF IsAddr(s.fr[n].at) THEN Fetch(s.fr[n].at, s) ELSE R(s.fr[n].at, s)
LoadVar(n, s) == IF IsRef(s.fr[n].t) THEN Then(Var(n, s), LAMBDA a, s1 : Fetch(a, s1)) ELSE Var(n, s)
BindVar(n, at, t, s) == [s EXCEPT !.fr = (n :> [at |-> at, t |-> t]) @@ @]
BindCell(n, v, t, s) == Then(NewCell(v, s), LAMBDA a, s1 : R(NilV, BindVar(n, a, t, s1)))

(* Lists.  The range is read before the index, the buffer of a list of     *)
(* ints after it.                                                          *)
ListAt(v, t, ix, s) ==
    Then(Object(v, s), LAMBDA l, s0 :
        Then(EvTo(ix, "int", s0), LAMBDA i, s1 :
            IF i.i \notin 0 .. l.tail - l.head - 1 THEN Panic("index", s1)
            ELSE Then(IF t = "List<int>" THEN Object(v, s1) ELSE R(l, s1), LAMBDA m, s2 :
                    R(Ref("slot", m.buf, l.head + i.i + 1), s2))))
NewBuf(items, inline, s) == Alloc(s, [k |-> "buf", items |-> items, inline |-> inline])
NewListOf(items, inline, s) ==
    Then(NewBuf(items, inline, s), LAMBDA b, s1 :
        Alloc(s1, [k |-> "list", buf |-> b.i, head |-> 0, tail |-> Len(items)]))
Visible(l, s) == SubSeq(s.heap[l.buf].items, l.head + 1, l.tail)

(* room for one more: another buffer, the old one released unless it is    *)
(* part of the literal's own block                                         *)
Grow(v, s) ==
    Then(Object(v, s), LAMBDA l, s0 :
        LET old  == s0.heap[l.buf]
            room == [i \in 1 .. (IF l.tail = 0 THEN 1 ELSE 2 * l.tail) |->
                        IF i <= l.tail THEN old.items[i] ELSE IntV(0)]
        IN  Then(NewBuf(room, FALSE, s0), LAMBDA b, s1 :
                R(Ref("slot", b.i, l.tail + 1),
                  [(IF old.inline THEN s1 ELSE Free(l.buf, s1)) EXCEPT !.heap[v.i].buf = b.i])))
(* the slot was chosen before the value is known *)
PutLast(v, tail, slot, x, s) ==
    Then(Poke(slot, x, s), LAMBDA u, s1 : R(NilV, [s1 EXCEPT !.heap[v.i].tail = tail + 1]))

ListOp(x, v, s) ==
    LET grown == Grow(v, s)
        elem  == ListElems[x.x.t]
        l     == Obj(s, v)
    IN  CASE x.m = "size" -> R(IntV(l.tail - l.head), s)
          [] x.m = "head" -> R(IntV(l.head), s)
          [] x.m = "tail" -> R(IntV(l.tail), s)
          [] x.m = "get"  -> Then(ListAt(v, x.x.t, x.args[1], s), LAMBDA a, s1 : Fetch(a, s1))
          [] x.m \in {"next", "peek"} ->
                IF l.head = l.tail THEN Panic("exhausted", s)
                ELSE Then(Fetch(Ref("slot", l.buf, l.head + 1), s), LAMBDA w, s1 :
                        R(w, [s1 EXCEPT !.heap[v.i].head = IF x.m = "next" THEN @ + 1 ELSE @]))
          [] x.m = "reset"  -> R(v, [s EXCEPT !.heap[v.i].head = 0])
          [] x.m = "append" -> Then(grown, LAMBDA slot, s1 : Then(EvTo(x.args[1], elem, s1), LAMBDA w, s2 :
                                    PutLast(v, l.tail, slot, w, s2)))
          [] x.m = "appendAll" ->
                Then(Ev(x.args[1], s), LAMBDA o, s0 : Then(Object(o, s0), LAMBDA other, s1 :
                    FoldLeft(LAMBDA acc, i : Then(acc, LAMBDA u, s2 :
                                Then(Fetch(Ref("slot", other.buf, i), s2), LAMBDA w, s3 :
                                    Then(Grow(v, s3), LAMBDA slot, s4 : PutLast(v, slot.key - 1, slot, w, s4)))),
                             R(NilV, s1), [i \in 1 .. other.tail - other.head |-> other.head + i])))

----------------------------------------------------------------------------
(* Arguments.  A variable, field or element of exactly the wanted type     *)
(* gives its own address; anything else is evaluated, again if its address *)
(* was already computed, into a cell of the caller's.                      *)
Lval(x, s) ==
    CASE x.o = "id"    -> R(IF IsAddr(s.fr[x.n].at) THEN s.fr[x.n].at ELSE NilV, s)
      [] x.o = "field" -> Then(Ev(x.x, s), LAMBDA v, s1 : Then(Object(v, s1), LAMBDA o, s2 :
                                R(Ref("field", v.i, x.n), s2)))
      [] x.o = "index" -> Then(Ev(x.x, s), LAMBDA v, s1 : ListAt(v, x.x.t, x.i, s1))
      [] OTHER -> R(NilV, s)
LvalType(x) == IF x.o = "index" THEN (IF x.x.t = "List<String>" THEN "String" ELSE "int") ELSE x.t
ArgAddr(x, want, s) ==
    Then(Lval(x, s), LAMBDA a, s1 :
        IF IsAddr(a) /\ LvalType(x) = want THEN R(a, s1)
        ELSE Then(EvTo(x, want, s1), LAMBDA v, s2 : NewCell(v, s2)))
ArgAddrs(xs, tos, s) ==
    FoldLeft(LAMBDA acc, i : Then(acc, LAMBDA as, s1 :
                Then(ArgAddr(xs[i], tos[i], s1), LAMBDA a, s2 : R(Append(as, a), s2))),
             R(<<>>, s), [i \in DOMAIN xs |-> i])
CellsOf(vs, s) ==
    FoldLeft(LAMBDA acc, v : Then(NewCell(v, acc.s), LAMBDA a, s1 : R(Append(acc.v, a), s1)), R(<<>>, s), vs)

(* A copyd parameter: a struct and the structs and lists in it are copied. *)
RECURSIVE DeepCopied(_, _)
DeepCopied(v, s) ==
    LET o == Obj(s, v)
        names == SetToSeq(DOMAIN o.f)
        c == FoldLeft(LAMBDA acc, n : Then(acc, LAMBDA f, s1 : Then(DeepCopied(o.f[n], s1), LAMBDA w, s2 :
                                            R(f @@ (n :> w), s2))), R(<<>>, s), names)
    IN  CASE Is(v, "list") -> IF s.heap[o.buf].k = "freed" THEN Err("undefined", s) ELSE NewListOf(Visible(o, s), FALSE, s)
          [] Is(v, "struct") -> IF o.k = "freed" THEN Err("undefined", s)
                                ELSE Then(c, LAMBDA f, s1 : Alloc(s1, [o EXCEPT !.f = f]))
          [] OTHER -> R(v, s)

\* CopydCells as a mutation: a copyd parameter shares its argument.
CopydCellsShared(fn, as, s) == R(as, s)
CopydCells(fn, as, s) ==
    FoldLeft(LAMBDA acc, i : Then(acc, LAMBDA bs, s1 :
                IF ~CopydParam(fn.ps[i]) THEN R(Append(bs, as[i]), s1)
                ELSE Then(Fetch(as[i], s1), LAMBDA v, s2 : Then(DeepCopied(v, s2), LAMBDA c, s3 :
                        Then(NewCell(c, s3), LAMBDA a, s4 : R(Append(bs, a), s4))))),
             R(<<>>, s), [i \in DOMAIN as |-> i])

(* A call: the callee's errors are not caught by a try of the caller, and  *)
(* a body that falls off its end returns a zero.                           *)
CallFn(f, as, s) ==
    LET fn == s.p.fns[f]
        b  == s.bodies[f]
        d  == s.depth + (IF CallFree(b) THEN 0 ELSE 1)
        names == [i \in DOMAIN fn.ps |-> fn.ps[i].n]
        typ(i) == IF fn.self /\ i = 1 THEN fn.of ELSE fn.ps[i].t
        Back(t) == [t EXCEPT !.fr = s.fr, !.try = s.try, !.ret = s.ret, !.depth = s.depth]
    IN  Then(CopydCells(fn, as, [s EXCEPT !.try = FALSE]), LAMBDA bs, s1 :
            LET fr == [n \in ToSet(names) |-> LET i == CHOOSE i \in DOMAIN names : names[i] = n
                                             IN  [at |-> bs[i], t |-> typ(i)]]
                r  == ExBlock(b, [s1 EXCEPT !.fr = fr, !.ret = fn.ret, !.depth = d])
            IN  IF d > MaxCallDepth THEN Err("stack", s1)
                ELSE CASE r.err = "return" -> R(r.v, Back(r.s))
                       [] r.err = "" -> R(IF fn.ret \in {"int", "bool", "float", "String"} THEN Zero(fn.ret) ELSE NilV, Back(r.s))
                       [] OTHER -> r)

OwnParams(fn) == [i \in 1 .. Len(fn.ps) - 1 |-> fn.ps[i + 1].t]
CallMeth(f, obj, x, byVal, s) ==
    LET tos == OwnParams(s.p.fns[f])
        args(s1) == IF byVal THEN Then(EvAll(x.args, tos, s1), CellsOf) ELSE ArgAddrs(x.args, tos, s1)
    IN  Then(NewCell(obj, s), LAMBDA self, s1 : Then(args(s1), LAMBDA as, s2 : CallFn(f, <<self>> \o as, s2)))

EvMemo(x, s) ==
    Then(Var(x.sign, s), LAMBDA h, s0 : Then(EvAll(x.args, [i \in DOMAIN x.args |-> "int"], s0), LAMBDA vs, s1 :
        Then(Object(h, s1), LAMBDA m, s2 :
            IF vs \in DOMAIN m.m THEN R(m.m[vs], s2)
            ELSE Then(CellsOf(vs, s2), LAMBDA as, s3 : Then(CallFn(x.f, as, s3), LAMBDA v, s4 :
                    R(v, [s4 EXCEPT !.heap[h.i].m = @ @@ (vs :> v)]))))))

(* sum: a loop, whatever the function *)
RECURSIVE SumFrom(_, _, _, _, _, _)
SumFrom(f, i, stop, step, total, s) ==
    IF i >= stop THEN R(IntV(total), s)
    ELSE IF s.fuel = 0 THEN Err("fuel", s)
    ELSE Then(NewCell(IntV(i), s), LAMBDA a, s1 : Then(CallFn(f, <<a>>, s1), LAMBDA v, s2 :
            SumFrom(f, WrapI32(i + step).i, stop, step, WrapI32(total + v.i).i, [s2 EXCEPT !.fuel = @ - 1])))

----------------------------------------------------------------------------
(* Arithmetic. *)
Trap(op, l, r) == op \in {"/", "%"} /\ r.i = -1 /\ l.i = -(2^(IntBits - 1))

(* Constants are folded in 64 bits. *)
RECURSIVE ConstEval(_)
ConstEval(x) ==
    LET l == ConstEval(x.l)
        r == ConstEval(x.r)
        v == CASE x.op = "+" -> l.i + r.i [] x.op = "-" -> l.i - r.i [] x.op = "*" -> l.i * r.i
               [] x.op = "/" -> Quotient(l.i, r.i) [] x.op = "%" -> Remainder(l.i, r.i)
               [] OTHER -> IntBitwise(x.op, l.i, r.i).i
    IN  IF x.o = "const" /\ x.t = "int" THEN IntV(x.v)
        ELSE IF x.o # "bin" THEN NilV
        ELSE IF Is(l, "nil") \/ Is(r, "nil") \/ x.op \in {"&", "|", "^"} \/ (x.op \in {"/", "%"} /\ r.i = 0) THEN NilV
        ELSE IntV(Signed(v, LongBits))

FloatOp(op, l, r, s) ==
    CASE op = "%" -> Panic("type", s)
      [] op = "/" /\ r.i = 0 -> Panic("zero", s)
      [] OTHER -> R(Arith(op, l, r), s)
IntOp(op, l, r, s) ==
    CASE op \in BitOps -> R(IntBitwise(op, l.i, r.i), s)
      [] op \in {"/", "%"} /\ r.i = 0 -> Panic("zero", s)
      [] Trap(op, l, r) -> Err("undefined", s)
      [] OTHER -> R(IntArith(op, l.i, r.i), s)
(* a count at or past the width shifts every bit out *)
BitsOp(x, l, r) ==
    CASE x.op \notin {"<<", ">>"} -> IntV(Bitop(x.op, ConvTo(l, x.t).i, ConvTo(r, x.t).i))
      [] r.i \notin 0 .. x.bits - 1 -> IntV(0)
      [] x.op = "<<" -> ConvTo(IntV(Shl(ConvTo(l, x.t).i, r.i)), x.t)
      [] OTHER -> IntV(Shr(ConvTo(l, x.t).i, r.i))

EvBin(x, s) ==
    Then(EvAll(<<x.l, x.r>>, <<"?", "?">>, s), LAMBDA vs, s1 :
        LET lt == Now(x.l)
            rt == Now(x.r)
            To(t) == <<Coerce(vs[1], lt, t), Coerce(vs[2], rt, t)>>
        IN  CASE x.bits > 0 -> R(BitsOp(x, vs[1], vs[2]), s1)
              [] "float" \in {lt, rt} -> FloatOp(x.op, To("float")[1], To("float")[2], s1)
              [] Is(ConstEval(x), "int") -> R(WrapI32(ConstEval(x).i), s1)
              [] OTHER -> IntOp(x.op, To("int")[1], To("int")[2], s1))

EvCmp(x, s) ==
    Then(EvAll(<<x.l, x.r>>, <<"?", "?">>, s), LAMBDA vs, s1 :
        LET int(i) == IF Is(vs[i], "int") THEN WrapI32(vs[i].i) ELSE vs[i]
            plain  == \A i \in 1 .. 2 : vs[i].tag \in {"int", "float", "bool", "str"}
        IN  IF plain THEN R(Cmp(x.op, int(1), int(2)), s1)
            ELSE R(BoolV((vs[1] = vs[2]) = (x.op = "==")), s1))

EvLogic(x, s) ==
    Then(Ev(x.l, s), LAMBDA l, s1 :
        IF x.op = "!" THEN R(BoolV(~Truth(l)), s1)
        ELSE IF Truth(l) = (x.op = "||") THEN R(l, s1) ELSE Ev(x.r, s1))

----------------------------------------------------------------------------
(* The other expressions. *)
RECURSIVE ZeroStruct(_, _)
ZeroStruct(t, s) ==
    LET c == FoldLeft(LAMBDA acc, m :
                IF IsStruct(s.p, m.t) THEN Then(ZeroStruct(m.t, acc.s), LAMBDA v, s1 : R(acc.v @@ (m.n :> v), s1))
                ELSE R(acc.v @@ (m.n :> Zero(m.t)), acc.s), R(<<>>, s), s.p.structs[t])
    IN  Alloc(c.s, [k |-> "struct", st |-> t, f |-> c.v])
EvStruct(x, s) ==
    Then(ZeroStruct(x.t, s), LAMBDA v, s0 :
        LET ms == s.p.structs[x.t]
        IN  FoldLeft(LAMBDA acc, i : Then(acc, LAMBDA u, s1 : Then(EvTo(x.values[i], ms[i].t, s1), LAMBDA w, s2 :
                        R(v, [s2 EXCEPT !.heap[v.i].f[ms[i].n] = w]))),
                     R(v, s0), [i \in DOMAIN ms |-> i]))

(* the block first, then its elements *)
EvListLit(x, s) ==
    Then(NewListOf([i \in DOMAIN x.items |-> Zero(ListElems[x.t])], TRUE, s), LAMBDA v, s0 :
        FoldLeft(LAMBDA acc, i : Then(acc, LAMBDA u, s1 : Then(EvTo(x.items[i], ListElems[x.t], s1), LAMBDA w, s2 :
                    Then(Poke(Ref("slot", Obj(s0, v).buf, i), w, s2), LAMBDA z, s3 : R(v, s3)))),
                 R(v, s0), [i \in DOMAIN x.items |-> i]))

(* Tables key by content and keep copies of lists. *)
Shown(s, v) == IF Is(v, "list") THEN <<Val("list", 0)>> \o Visible(Obj(s, v), s) ELSE <<v>>
EvTable(x, s) ==
    Then(Ev(x.x, s), LAMBDA h, s0 : Then(EvAll(x.args, Types(x.args), s0), LAMBDA vs, s1 : Then(Object(h, s1), LAMBDA t, s2 :
        LET k == Shown(s2, vs[1])
            Keep(m, s3) == [s3 EXCEPT !.heap[h.i].m = m]
        IN  CASE x.m = "size" -> R(IntV(Cardinality(DOMAIN t.m)), s2)
              [] x.m = "contains" -> R(BoolV(k \in DOMAIN t.m), s2)
              [] x.m = "remove" -> R(NilV, Keep([q \in DOMAIN t.m \ {k} |-> t.m[q]], s2))
              [] x.m = "put" -> Then(IF Is(vs[2], "list") THEN DeepCopied(vs[2], s2) ELSE R(vs[2], s2), LAMBDA v, s3 :
                                    R(NilV, Keep((k :> v) @@ t.m, s3)))
              [] x.m = "get" -> LET v == IF k \in DOMAIN t.m THEN t.m[k] ELSE NilV
                                    u == IF x.t = AnyT THEN v ELSE Unboxed(v, x.t)
                                IN  IF Failed(u) THEN Err("type", s2) ELSE R(u, s2))))

EvBit(x, s) ==
    Then(EvTo(x.x, x.x.t, s), LAMBDA v, s1 : Then(EvTo(x.i, "int", s1), LAMBDA i, s2 :
        IF i.i \notin 0 .. x.bits - 1 THEN Panic("index", s2) ELSE R(IntV(ReadBit(v.i, i.i)), s2)))

Ev(x, s) ==
    CASE x.o = "const"  -> R(CASE x.t = "float" -> FloatV(x.v) [] x.t = "String" -> StrV(x.v)
                               [] x.t = "bool" -> BoolV(x.v = 1) [] x.t = "null" -> NilV [] OTHER -> WrapI32(x.v), s)
      [] x.o = "id"     -> LoadVar(x.n, s)
      [] x.o = "addr"   -> IF x.x.o = "id" THEN Var(x.x.n, s) ELSE Ev(x.x, s)
      [] x.o = "box"    -> Ev(x.x, s)
      [] x.o = "bin"    -> EvBin(x, s)
      [] x.o = "cmp"    -> EvCmp(x, s)
      [] x.o = "andor"  -> EvLogic(x, s)
      [] x.o = "cat"    -> Then(EvAll(<<x.l, x.r>>, <<"?", "?">>, s), LAMBDA vs, s1 : R(Concat(vs[1], vs[2]), s1))
      [] x.o = "conv"   -> Then(Ev(x.x, s), LAMBDA v, s1 : R(ConvTo(v, x.t), s1))
      [] x.o = "field"  -> Then(Lval(x, s), LAMBDA a, s1 : Fetch(a, s1))
      [] x.o = "index"  -> Then(Lval(x, s), LAMBDA a, s1 : Fetch(a, s1))
      [] x.o = "bit"    -> EvBit(x, s)
      [] x.o = "struct" -> EvStruct(x, s)
      [] x.o = "list"   -> EvListLit(x, s)
      [] x.o = "listop" -> Then(Ev(x.x, s), LAMBDA v, s1 : Then(Object(v, s1), LAMBDA l, s2 : ListOp(x, v, s2)))
      [] x.o = "table"  -> EvTable(x, s)
      [] x.o = "newtable" -> Alloc(s, [k |-> "table", m |-> <<>>])
      [] x.o = "newmemo"  -> Alloc(s, [k |-> "memorize", m |-> <<>>])
      [] x.o = "newref" -> NewCell(Zero(Base(x.t)), s)
      [] x.o = "memo"   -> EvMemo(x, s)
      [] x.o = "method" -> Then(Ev(x.x, s), LAMBDA v, s1 : CallMeth(x.f, v, x, x.byVal, s1))
      [] x.o = "iface"  -> Then(Ev(x.x, s), LAMBDA v, s1 : Then(Object(v, s1), LAMBDA o, s2 :
                                CallMeth(Meth(s.p, o.st, x.m, TRUE), v, x, FALSE, s2)))
      [] x.o = "call"   -> Then(ArgAddrs(x.args, ParamTypes(s.p.fns[x.f]), s), LAMBDA as, s1 : CallFn(x.f, as, s1))
      [] x.o = "sum"    -> Then(EvAll(x.args, Types(x.args), s), LAMBDA vs, s1 :
                                SumFrom(x.f, vs[1].i, vs[2].i, IF Len(vs) = 3 THEN vs[3].i ELSE 1, 0, s1))

----------------------------------------------------------------------------
(* Statements. *)
ExDecl(st, s) ==
    LET raw == IF st.i = <<>> THEN R(Zero(st.t), s)
               ELSE IF IsRef(st.t) /\ st.i[1].o = "id" THEN LoadVar(st.i[1].n, s)
               ELSE EvTo(st.i[1], st.t, s)
        scalar == st.t \in ScalarNames \cup {"uchar", "pointer", "memorize"} \/ IsBits(st.t)
    IN  IF IsStruct(s.p, st.t) /\ st.i = <<>>
        THEN Then(ZeroStruct(st.t, s), LAMBDA v, s1 : BindCell(st.n, v, st.t, s1))
        ELSE IF scalar /\ st.i # <<>> /\ st.n \notin s.celled
        THEN Then(raw, LAMBDA v, s1 : R(NilV, BindVar(st.n, v, st.t, s1)))
        ELSE Then(raw, LAMBDA v, s1 : BindCell(st.n, v, st.t, s1))

(* Through a T&: the cell is made, if there is none, before the value. *)
ExThru(st, s) ==
    Then(Var(st.t.n, s), LAMBDA a, s0 : Then(IF IsAddr(a) THEN R(a, s0) ELSE NewCell(Zero(Base(st.t.t)), s0), LAMBDA cell, s1 :
        Then(Poke(s.fr[st.t.n].at, cell, s1), LAMBDA u, s2 : Then(EvTo(st.x, Base(st.t.t), s2), LAMBDA v, s3 :
            Poke(cell, v, s3)))))

(* An element or a field: the place first, then the value. *)
ExAssign(st, s) ==
    CASE st.o = "var"  -> Then(EvTo(st.x, st.t.t, s), LAMBDA v, s1 :
                                IF IsAddr(s.fr[st.t.n].at) THEN Poke(s.fr[st.t.n].at, v, s1) ELSE R(NilV, s1))
      [] st.o = "thru" -> ExThru(st, s)
      [] OTHER         -> Then(Lval(st.t, s), LAMBDA a, s1 : Then(EvTo(st.x, st.t.t, s1), LAMBDA v, s2 : Poke(a, v, s2)))

(* The raw bits are read before the index and the value are known. *)
ExBitAssign(st, s) ==
    Then(Lval(st.x, s), LAMBDA a, s0 : IF ~IsAddr(a) THEN R(NilV, s0) ELSE Then(Fetch(a, s0), LAMBDA cur, s1 :
        Then(EvTo(st.i, "int", s1), LAMBDA i, s2 :
            IF i.i \notin 0 .. st.bits - 1 THEN Panic("index", s2)
            ELSE Then(Ev(st.v, s2), LAMBDA v, s3 : Poke(a, IntV(WriteBit(cur.i, i.i, v.i)), s3)))))

ExDelete(st, s) ==
    Then(IF st.del = <<>> THEN R(NilV, s) ELSE Ev(st.del[1], s), LAMBDA u, s1 : Then(Var(st.n, s1), LAMBDA v, s2 :
        IF Is(v, "nil") THEN R(NilV, s2)
        ELSE Then(Object(v, s2), LAMBDA o, s3 :
                R(NilV, Free(v.i, IF IsList(st.t) THEN Free(o.buf, s3) ELSE s3)))))

EndLoop(r) == IF r.err = "break" THEN R(NilV, r.s) ELSE r
RECURSIVE Loop(_, _, _, _)
Loop(c, b, step, s) ==
    IF s.fuel = 0 THEN Err("fuel", s)
    ELSE Then(Ev(c, s), LAMBDA v, s1 :
            IF ~Truth(v) THEN R(NilV, s1)
            ELSE EndLoop(Then(ExBlock(b, s1), LAMBDA u, s2 : Then(ExBlock(step, s2), LAMBDA w, s3 :
                    Loop(c, b, step, [s3 EXCEPT !.fuel = @ - 1])))))

(* for-in moves the head on before the body; the buffer of a list of       *)
(* floats or Strings is the one it had at the start.                       *)
RECURSIVE ListRounds(_, _, _, _)
ListRounds(st, v, buf, s) ==
    IF s.fuel = 0 THEN Err("fuel", s)
    ELSE Then(Object(v, s), LAMBDA l, s0 :
            IF l.head >= l.tail THEN R(NilV, s0)
            ELSE Then(Fetch(Ref("slot", IF st.t = "List<int>" THEN l.buf ELSE buf, l.head + 1), s0), LAMBDA w, s1 :
                Then(Poke(s1.fr[st.n].at, w, [s1 EXCEPT !.heap[v.i].head = @ + 1]), LAMBDA u, s2 :
                    EndLoop(Then(ExBlock(st.b, s2), LAMBDA z, s3 : ListRounds(st, v, buf, [s3 EXCEPT !.fuel = @ - 1]))))))
ExForIn(st, s) ==
    Then(BindCell(st.n, Zero(ListElems[st.t]), ListElems[st.t], s), LAMBDA u, s1 :
        Then(Var(st.it, s1), LAMBDA v, s2 : Then(Object(v, s2), LAMBDA l, s3 : ListRounds(st, v, l.buf, s3))))

ExTry(st, s) ==
    LET r == ExBlock(st.b, [s EXCEPT !.try = TRUE])
        t == [r.s EXCEPT !.try = s.try]
    IN  IF r.err = "caught" THEN ExBlock(st.c, t) ELSE [r EXCEPT !.s = t]

(* all arguments, then one line; a T& that is null prints nil *)
ExPrint(st, s) ==
    LET arg(x, s1) == IF x.o = "id" /\ IsRef(x.t)
                      THEN Then(Var(x.n, s1), LAMBDA a, s2 : IF IsAddr(a) THEN Fetch(a, s2) ELSE R(NilV, s2))
                      ELSE Ev(x, s1)
        vs == FoldLeft(LAMBDA acc, x : Then(acc, LAMBDA ws, s1 : Then(arg(x, s1), LAMBDA v, s2 :
                        R(Append(ws, Shown(s2, v)), s2))), R(<<>>, s), st.args)
    IN  Then(vs, LAMBDA ws, s1 : R(NilV, [s1 EXCEPT !.out = Append(@, [ev |-> "print", vs |-> ws])]))

LeaveWith(r) == IF r.err = "" THEN [r EXCEPT !.err = "return"] ELSE r
RetZero(s) == R(IF s.ret \in {"int", "bool", "float"} THEN Zero(s.ret) ELSE NilV, s)
Ex(st, s) ==
    CASE st.k = "decl"   -> ExDecl(st, s)
      [] st.k = "assign" -> ExAssign(st, s)
      [] st.k = "bitassign" -> ExBitAssign(st, s)
      [] st.k = "expr"   -> Ev(st.x, s)
      [] st.k = "print"  -> ExPrint(st, s)
      [] st.k = "return" -> LeaveWith(IF st.x = <<>> THEN RetZero(s) ELSE EvTo(st.x[1], s.ret, s))
      [] st.k = "log"    -> LeaveWith(Then(Ev(st.x, s), LAMBDA v, s1 : RetZero(s1)))
      [] st.k = "break"  -> Err("break", s)
      [] st.k = "delete" -> ExDelete(st, s)
      [] st.k = "if"     -> Then(Ev(st.c, s), LAMBDA v, s1 : ExBlock(IF Truth(v) THEN st.t ELSE st.el, s1))
      [] st.k = "while"  -> Loop(st.c, st.b, <<>>, s)
      [] st.k = "forc"   -> Then(ExBlock(st.i, s), LAMBDA u, s1 : Loop(st.c, st.b, st.st, s1))
      [] st.k = "for"    -> ExForIn(st, s)
      [] st.k = "try"    -> ExTry(st, s)
ExBlock(b, s) == FoldLeft(LAMBDA acc, st : IF acc.err # "" THEN acc ELSE Ex(st, acc.s), R(NilV, s), b)

----------------------------------------------------------------------------
(* A program: refused, or compiled and run from its main.  What it shows:  *)
(* how it ended, what it printed and its variables at the end.             *)
Compiles(L) == IF L.ok THEN \A f \in DOMAIN L.bodies : Encodable(L.bodies[f]) ELSE FALSE

Final(s, v) == CASE Is(v, "struct") -> IF Obj(s, v).k = "freed" THEN <<>> ELSE <<Obj(s, v).f>>
                 [] Is(v, "list")   -> IF Obj(s, v).k = "freed" THEN <<>>
                                       ELSE IF s.heap[Obj(s, v).buf].k = "freed" THEN <<>> ELSE Shown(s, v)
                 [] Is(v, "table")  -> <<Obj(s, v).m>>
                 [] v.tag \in {"int", "float", "bool", "str", "nil"} -> <<v>>
                 [] OTHER           -> <<>>
RunCompiled(L, fuel) ==
    LET s0 == [cells |-> <<>>, heap |-> <<>>, out |-> <<>>, fuel |-> fuel, fr |-> <<>>, depth |-> 0, try |-> FALSE,
               ret |-> "void", p |-> L.p, bodies |-> L.bodies,
               celled |-> UNION {Assigned(L.bodies[f]) \cup ByRefArgs(L.bodies[f]) : f \in DOMAIN L.bodies}]
        r  == ExBlock(L.bodies[Max(Plain(L.p, "main"))], s0)
        now(n) == IF IsRef(r.s.fr[n].t) THEN LoadVar(n, r.s) ELSE Var(n, r.s)
    IN  [err |-> IF r.err = "return" THEN "" ELSE r.err, out |-> r.s.out,
         vars |-> IF r.err \notin {"", "return"} THEN <<>>
                  ELSE [n \in DOMAIN r.s.fr |-> Final(r.s, now(n).v)]]
=============================================================================

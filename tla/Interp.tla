------------------------------- MODULE Interp -------------------------------
(***************************************************************************)
(* The evaluator of internal/lang: the tree walker of eval.go and the      *)
(* bytecode machine of vm.go, which call each other through callFunc.      *)
(*                                                                         *)
(* Both are big-step: an operator takes a node, the current scope sc, the  *)
(* store s and the call depth d, and returns an outcome (module Storage).  *)
(* The store also holds the registered program (fns, structs), its         *)
(* bytecode (progs), the functions whose bytecode was given up (black) and *)
(* whether there is bytecode at all (vm).                                  *)
(***************************************************************************)
EXTENDS VmCompile, Storage

CONSTANT MaxCallDepth

NewStore(fns, structs, vm, fuel) ==
    [scopes |-> <<>>, heap |-> <<>>, out |-> <<>>, fns |-> fns, structs |-> structs,
     progs |-> [i \in DOMAIN fns |-> VmProg(fns[i], fns)], black |-> {}, vm |-> vm,
     fuel |-> fuel]         \* bound: loop iterations

(* what a store of that width keeps of a value *)
Stored(s, v, bits) == IF Is(Deref(s, v), "int") /\ bits > 0 THEN MaskForStore(Deref(s, v), bits) ELSE v

Truthy(v) == IF Is(v, "bool") THEN v ELSE Fail("type")

Emitted(s, ev, vs) == [s EXCEPT !.out = Append(@, [ev |-> ev, vs |-> [i \in DOMAIN vs |-> KeyOf(s, Deref(s, vs[i]))]])]

(* definitions of a function; methods of a type *)
AllDefs(s, n) == {i \in DOMAIN s.fns : s.fns[i].n = n /\ s.fns[i].of = ""}
MethodOf(s, typ, n, self) ==
    LET D == {i \in DOMAIN s.fns : s.fns[i].n = n /\ s.fns[i].of = typ /\ s.fns[i].self = self}
    IN  IF D = {} THEN 0 ELSE Min(D)
StructType(s, v) == Obj(s, v).st

Score(t, v) ==
    CASE t \in {"int", "long", "char"} /\ Is(v, "int") -> 10
      [] t \in {"float", "double"} /\ Is(v, "float")   -> 10
      [] t = "String" /\ Is(v, "str") -> 10
      [] t = "bool" /\ Is(v, "bool")  -> 10
      [] t = "any" -> 2
      [] OTHER     -> 3
(* the best overload, the first of equals; 0 when no arity fits *)
BestMatchV(s, defs, args) ==
    LET fits == {i \in defs : Len(s.fns[i].ps) = Len(args)}
        total(i) == FoldLeft(LAMBDA acc, k : acc + Score(s.fns[i].ps[k].t, Deref(s, args[k])),
                             0, [k \in DOMAIN args |-> k])
    IN  IF fits = {} THEN 0
        ELSE Min({i \in fits : \A j \in fits : total(j) <= total(i)})

OpMethods == ("+" :> "__add__") @@ ("-" :> "__sub__") @@ ("==" :> "__eq__") @@ ("<" :> "__lt__")

RECURSIVE ZeroValue(_, _)
ZeroInstance(name, s) ==
    LET fs == s.structs[name]
        c  == FoldLeft(LAMBDA acc, f : LET z == ZeroValue(f.t, acc.s)
                                       IN  R(acc.v @@ (f.n :> z.v), z.s), R(<<>>, s), fs)
    IN  Alloc(c.s, [k |-> "struct", st |-> name, f |-> c.v])
ZeroValue(t, s) ==
    CASE t \in DOMAIN s.structs          -> ZeroInstance(t, s)
      [] t \in {"int", "long", "char"}   -> R(IntV(0), s)
      [] t \in {"float", "double"}       -> R(FloatV(0), s)
      [] t = "String"                    -> R(StrV(0), s)
      [] t = "bool"                      -> R(BoolV(FALSE), s)
      [] t \in {"List<int>", "List<float>"} -> Alloc(s, NewList(<<>>))
      [] OTHER                           -> R(NilV, s)

RECURSIVE Eval(_, _, _, _), EvalArg(_, _, _, _), CallFunc(_, _, _, _), CallMethod(_, _, _, _, _),
          Exec(_, _, _, _), RunVm(_, _, _, _, _, _)

EvalList(es, sc, s, d) ==
    FoldLeft(LAMBDA acc, e : Then(acc, LAMBDA vs, s1 :
                Then(Eval(e, sc, s1, d), LAMBDA v, s2 : R(Append(vs, v), s2))), R(<<>>, s), es)
(* the same where the values are looked at rather than moved *)
EvalV(e, sc, s, d) == Then(Eval(e, sc, s, d), LAMBDA v, s1 : R(Deref(s1, v), s1))
EvalListV(es, sc, s, d) ==
    Then(EvalList(es, sc, s, d), LAMBDA vs, s1 : R([i \in DOMAIN vs |-> Deref(s1, vs[i])], s1))
EvalArgs(es, sc, s, d) ==
    FoldLeft(LAMBDA acc, e : Then(acc, LAMBDA vs, s1 :
                Then(EvalArg(e, sc, s1, d), LAMBDA v, s2 : R(Append(vs, v), s2))), R(<<>>, s), es)

----------------------------------------------------------------------------
(* Reference cells: arguments, address-of, p++, storage identity. *)
Uncopyd(s, v) == IF Is(v, "copyd") THEN Obj(s, v).v ELSE v

(* An lvalue is passed as a cell, anything else as a value. *)
EvalArg(e, sc, s, d) ==
    CASE e.e = "id" /\ (e.slot \in DOMAIN s.scopes[sc].vals \/ FindScope(s, sc, e.n) # None) ->
            R(Ref("ident", IF e.slot \in DOMAIN s.scopes[sc].vals THEN sc ELSE FindScope(s, sc, e.n), e.n), s)
      [] e.e = "member" ->
            Then(EvalV(e.x, sc, s, d), LAMBDA v, s1 :
                LET o == Uncopyd(s1, v)
                IN  IF Is(o, "struct") /\ e.n \in DOMAIN Obj(s1, o).f
                    THEN R(Ref("member", o.i, e.n), s1)
                    ELSE Err(IF Is(o, "nil") THEN "null" ELSE "type", s1))
      [] e.e = "index" /\ e.bits = 0 ->
            Then(EvalListV(<<e.x, e.i>>, sc, s, d), LAMBDA vs, s1 :
                IF ~Is(vs[1], "list") \/ ~Is(vs[2], "int") THEN Err("type", s1)
                ELSE Then(Lift(ListGet(Obj(s1, vs[1]), vs[2].i), s1), LAMBDA v, s2 :
                        R(Ref("index", vs[1].i, vs[2].i), s2)))
      [] OTHER -> Eval(e, sc, s, d)

AddrOf(e, sc, s, d) ==
    CASE e.e = "id" -> LET o == FindScope(s, sc, e.n)
                       IN  IF o = None THEN Err("type", s) ELSE R(Ref("ident", o, e.n), s)
      [] e.e = "member" ->
            Then(EvalV(e.x, sc, s, d), LAMBDA v, s1 :
                IF Is(Uncopyd(s1, v), "struct") THEN R(Ref("member", Uncopyd(s1, v).i, e.n), s1)
                ELSE Err("type", s1))
      [] e.e = "index" ->
            Then(EvalV(e.x, sc, s, d), LAMBDA l, s1 :
                IF ~Is(l, "list") THEN Err("type", s1)
                ELSE Then(EvalV(e.i, sc, s1, d), LAMBDA k, s2 :
                        IF Is(k, "int") THEN R(Ref("index", l.i, k.i), s2) ELSE Err("type", s2)))
      [] OTHER -> Err("type", s)

RECURSIVE Follow(_, _)
Follow(s, r) == LET nxt == RawGet(s, r.obj, r.key)
                IN  IF r.kind = "ident" THEN IF nxt.tag = "ref" THEN Follow(s, nxt) ELSE r ELSE r

(* p++: the element reference behind the variable moves on by one, and the *)
(* variable, or the one it is bound to, is rebound.                        *)
MoveRef(e, sc, s) ==
    LET o   == FindScope(s, sc, e.n)
        cur == RawGet(s, o, e.n)
        ref == Follow(s, cur)
        moved == Ref("index", ref.obj, ref.key + 1)
    IN  CASE o = None -> Err("undeclared", s)
          [] cur.tag # "ref" \/ ref.kind # "index" -> Err("type", s)
          [] ref.key + 1 >= ListSize(s.heap[ref.obj]) -> Err("range", s)
          [] cur.kind = "ident" -> R(moved, RawSet(s, cur.obj, cur.key, moved))
          [] OTHER -> R(moved, RawSet(s, o, e.n, moved))

(* The storage an lvalue occupies, <<>> for anything else.  The container  *)
(* of a member or an element is evaluated like any expression.             *)
StorageId(e, sc, s, d) ==
    LET o  == IF e.slot \in DOMAIN s.scopes[sc].vals THEN sc ELSE FindScope(s, sc, e.n)
        x  == EvalV(e.x, sc, s, d)
        ox == Uncopyd(x.s, x.v)
        i  == EvalV(e.i, sc, x.s, d)
    IN  CASE e.e = "id" -> R(IF o = None THEN <<>> ELSE <<"slot", o, ParamIndex(s, o, e.n)>>, s)
          [] e.e = "member" ->
                R(IF x.err # "" THEN <<>> ELSE IF ~Is(ox, "struct") THEN <<>>
                  ELSE IF e.n \in DOMAIN Obj(x.s, ox).f THEN <<"field", ox.i, e.n>> ELSE <<>>, x.s)
          [] e.e = "index" ->
                IF x.err # "" THEN R(<<>>, x.s)
                ELSE R(IF i.err = "" /\ Is(i.v, "int") /\ Is(x.v, "list")
                       THEN <<"elem", x.v.i, i.v.i>> ELSE <<>>, i.s)
          [] OTHER -> R(<<>>, s)

StorageIdentical(l, r, sc, s, d) ==
    LET a == StorageId(l, sc, s, d)
        b == StorageId(r, sc, a.s, d)
    IN  IF a.v = <<>> THEN R(BoolV(FALSE), a.s)
        ELSE R(BoolV(Len(b.v) = 3 /\ a.v[1] = b.v[1] /\ a.v = b.v), b.s)

----------------------------------------------------------------------------
(* Operators. *)
FastOps == {"+", "-", "*", "/", "%", "<<", ">>", "<", "<=", ">", ">="}
FastInt(op, l, r) ==
    CASE op \in {"+", "-", "*", "/", "%"} -> IntArith(op, l, r)
      [] op \in {"<<", ">>"} -> IntBitwise(op, l, r)
      [] OTHER -> BoolV(OrdCmp(op, Signed(l, IntBits), Signed(r, IntBits)))

ShortCircuit(e, l, sc, s, d) ==
    Then(Lift(Truthy(l), s), LAMBDA lb, s1 :
        IF Truth(lb) = (e.op = "||") THEN R(lb, s1)
        ELSE Then(EvalV(e.r, sc, s1, d), LAMBDA r, s2 : Lift(Truthy(r), s2)))

(* A right operand that fails is evaluated once more by the general path,  *)
(* and so is one whose left side is a struct without that operation.       *)
EvalBin(e, sc, s, d) ==
    IF e.op = "===" THEN StorageIdentical(e.l, e.r, sc, s, d)
    ELSE Then(EvalV(e.l, sc, s, d), LAMBDA l, s1 :
        LET r1 == EvalV(e.r, sc, s1, d)
            m  == IF e.op \in DOMAIN OpMethods THEN MethodOf(s1, StructType(s1, l), OpMethods[e.op], TRUE) ELSE 0
            general(t) == Then(EvalV(e.r, sc, t, d), LAMBDA r, t1 : Lift(BinOp(e.op, l, r, e.bits), t1))
        IN  CASE e.op \in {"&&", "||"} -> ShortCircuit(e, l, sc, s1, d)
              [] Is(l, "struct") ->
                    IF r1.err = "" /\ m > 0 /\ Is(r1.v, "struct") /\ StructType(r1.s, r1.v) = StructType(s1, l)
                    THEN CallFunc(m, <<l, r1.v>>, r1.s, d)
                    ELSE general(r1.s)
              [] Is(l, "int") /\ e.bits = 0 ->
                    IF r1.err # "" THEN general(r1.s)
                    ELSE Lift(IF Is(r1.v, "int") /\ e.op \in FastOps THEN FastInt(e.op, l.i, r1.v.i)
                              ELSE BinOp(e.op, l, r1.v, e.bits), r1.s)
              [] OTHER -> general(s1))

EvalUn(e, sc, s, d) ==
    IF e.op = "&" THEN AddrOf(e.x, sc, s, d)
    ELSE Then(EvalV(e.x, sc, s, d), LAMBDA v, s1 :
        LET g == CallMethod(v, "get", <<>>, s1, d)
            n == MethodOf(s, StructType(s1, v), "__neg__", TRUE)
        IN  CASE e.op = "*" -> IF Is(v, "list") THEN Lift(ListPeek(Obj(s1, v)), s1)
                               ELSE IF ~Is(v, "struct") THEN Err("type", s1)
                               ELSE IF g.err = "" THEN CallMethod(v, "get", <<>>, g.s, d)
                               ELSE Err("type", g.s)
              [] e.op = "-" -> IF Is(v, "struct") THEN (IF n > 0 THEN CallFunc(n, <<v>>, s1, d) ELSE Err("type", s1))
                               ELSE Lift(NegV(v), s1)
              [] e.op = "~" -> Lift(NotBits(v, e.bits), s1)
              [] e.op = "!" -> Then(Lift(Truthy(v), s1), LAMBDA b, s2 : R(BoolV(~Truth(b)), s2)))

EvalMember(s, obj, n) ==
    LET o == Uncopyd(s, obj)
    IN  CASE Is(o, "nil") -> Fail("null")
          [] Is(o, "struct") -> IF n \in DOMAIN Obj(s, o).f THEN Obj(s, o).f[n] ELSE Fail("type")
          [] OTHER -> Fail("type")

EvalIndex(e, sc, s, d) ==
    Then(EvalListV(<<e.x, e.i>>, sc, s, d), LAMBDA vs, s1 :
        LET v == vs[1]
            i == vs[2]
        IN  CASE e.bits > 0 ->
                    IF ~Is(v, "int") \/ ~Is(i, "int") THEN Err("type", s1)
                    ELSE IF i.i \notin 0 .. e.bits - 1 THEN Err("index", s1)
                    ELSE R(IntV(ReadBit(v.i, i.i)), s1)
              [] ~Is(v, "list") \/ ~Is(i, "int") -> Err("type", s1)
              [] OTHER -> Lift(ListGet(Obj(s1, v), i.i), s1))

(* new T[n]: a block that holds one zero value of T, n times *)
MaxBlock == 4       \* bound: the code allows 2^23 elements
EvalNew(e, sc, s, d) ==
    IF e.size = <<>> THEN Alloc(s, NewList(<<>>))
    ELSE Then(EvalV(e.size[1], sc, s, d), LAMBDA n, s1 :
        IF ~Is(n, "int") THEN Err("badAlloc", s1)
        ELSE IF n.i \notin 0 .. MaxBlock THEN Err("badAlloc", s1)
        ELSE Then(ZeroValue(e.t, s1), LAMBDA z, s2 : Alloc(s2, NewList([i \in 1 .. n.i |-> z]))))

(* A field without a name takes that of its place in the struct. *)
EvalStruct(e, sc, s, d) ==
    LET order   == IF e.n \in DOMAIN s.structs THEN s.structs[e.n] ELSE <<>>
        name(i) == IF e.fs[i].n = "" /\ i \in DOMAIN order THEN order[i].n ELSE e.fs[i].n
    IN  Then(EvalList([i \in DOMAIN e.fs |-> e.fs[i].x], sc, s, d), LAMBDA vs, s1 :
            Alloc(s1, [k |-> "struct", st |-> e.n,
                       f |-> FoldLeft(LAMBDA acc, i : (name(i) :> Stored(s1, vs[i], e.fs[i].bits)) @@ acc,
                                      <<>>, [i \in DOMAIN vs |-> i])]))

EvalId(e, sc, s) ==
    LET v == Get(s, sc, e.n)
    IN  CASE e.slot \in DOMAIN s.scopes[sc].vals -> R(Deref(s, s.scopes[sc].vals[e.slot]), s)
          [] ~Failed(v) -> R(v, s)
          [] AllDefs(s, e.n) # {} -> R(Val("func", Primary(s.fns, e.n)), s)
          [] OTHER -> Err("undeclared", s)

----------------------------------------------------------------------------
(* Calls. *)
(* callFunc: copyd parameters bind a copy, a Copyd value given to another  *)
(* parameter is unwrapped and copied.                                      *)
BindArgs(fn, args, s) ==
    FoldLeft(LAMBDA acc, i :
        LET v == Deref(acc.s, args[i])
            flagged == fn.ps[i].decor = "copyd"
            c == CopyDeep(IF Is(v, "copyd") THEN Obj(acc.s, v).v ELSE v, ~Is(v, "copyd"), acc.s)
        IN  CASE Is(v, "copyd") /\ flagged -> R(Append(acc.v, v), acc.s)
              [] Is(v, "copyd") \/ flagged -> R(Append(acc.v, c.v), c.s)
              [] OTHER -> R(Append(acc.v, args[i]), acc.s),
        R(<<>>, s), [i \in DOMAIN args |-> i])

ExecBlock(b, sc, s, d) ==
    FoldLeft(LAMBDA acc, st : IF acc.err # "" THEN acc ELSE Exec(st, sc, acc.s, d), R(NilV, s), b)

(* The end of a call: return is the only signal a function swallows. *)
CallEnd(r) == IF r.err \in {"", "return"} THEN R(IF r.err = "" THEN NilV ELSE r.v, r.s) ELSE r

(* execute: the bytecode if there is any; when it deoptimises, the whole   *)
(* body again in the tree walker, over the scope the bytecode left.        *)
Execute(f, args, s, d) ==
    LET fn  == s.fns[f]
        sc  == Len(s.scopes) + 1
        s1  == AddScope(s, [i \in DOMAIN fn.ps |-> fn.ps[i].n], args, None)
        fit == \A i \in DOMAIN fn.ps :          \* the entry guard of runVM
                  /\ fn.ps[i].t = "int" => Is(Deref(s, args[i]), "int")
                  /\ fn.ps[i].t = "bool" => Is(Deref(s, args[i]), "bool")
        locals == SubSeq(s.progs[f].slots, Len(args) + 1, Len(s.progs[f].slots))
        s2  == [s1 EXCEPT !.scopes[sc].names = @ \o locals,
                          !.scopes[sc].vals  = @ \o [i \in DOMAIN locals |-> NilV]]
        r   == IF fit THEN RunVm(s.progs[f], 1, <<>>, sc, s2, d) ELSE Err("deopt", s1)
    IN  IF ~s.vm \/ f \in s.black THEN CallEnd(ExecBlock(fn.b, sc, s1, d))
        ELSE IF ~s.progs[f].ok THEN CallEnd(ExecBlock(fn.b, sc, s1, d))
        ELSE IF r.err # "deopt" THEN r
        ELSE CallEnd(ExecBlock(fn.b, sc, [r.s EXCEPT !.black = @ \cup {f}], d))

CallFunc(f, args, s, d) ==
    IF Len(args) # Len(s.fns[f].ps) THEN Err("arity", s)
    ELSE IF d >= MaxCallDepth THEN Err("stack", s)
    ELSE Then(BindArgs(s.fns[f], args, s), LAMBDA vs, s1 : Execute(f, vs, s1, d + 1))

PlainCall(e, args, sc, s, d) ==
    LET defs == AllDefs(s, e.f)
        best == BestMatchV(s, defs, args)
        v    == Get(s, sc, e.f)
    IN  CASE e.idx > 0 /\ Cardinality(defs) = 1 -> CallFunc(e.idx, args, s, d)
          [] defs # {} -> IF best = 0 THEN Err("overload", s) ELSE CallFunc(best, args, s, d)
          [] ~Failed(v) /\ Is(v, "func") -> CallFunc(v.i, args, s, d)
          [] OTHER -> Err("undeclared", s)

(* f(args) @m: the memorize object m answers from its table, or calls f    *)
(* with the values and stores a copy of the answer.                        *)
SignedCall(e, sc, s, d) ==
    Then(EvalArgs(e.args, sc, s, d), LAMBDA refs, s1 :
        LET args == [i \in DOMAIN refs |-> Deref(s1, refs[i])]
            best == BestMatchV(s1, AllDefs(s1, e.f), args)
            key  == <<Val("list", 0)>> \o args
            m    == Get(s1, sc, e.sign)
        IN  IF best = 0 THEN Err("overload", s1)
            ELSE IF Failed(m) THEN Err(m.err, s1)
            ELSE IF ~Is(m, "memorize") THEN Err("type", s1)
            ELSE IF key \in DOMAIN Obj(s1, m).m THEN R(Obj(s1, m).m[key], s1)
            ELSE Then(CallFunc(best, args, s1, d), LAMBDA v, s2 :
                    LET c == CopyDeep(v, FALSE, s2)
                    IN  R(v, [c.s EXCEPT !.heap[m.i].m = (key :> c.v) @@ @])))

(* Methods of the built-in types: their arity, then what they do. *)
Arity == [head |-> 0, tail |-> 0, size |-> 0, get |-> 1, next |-> 0, reset |-> 0,
          append |-> 1, appendAll |-> 1, put |-> 2, contains |-> 1, remove |-> 1]
ListMethods  == {"head", "tail", "size", "get", "next", "reset", "append", "appendAll"}
TableMethods == {"put", "get", "contains", "remove", "size"}

ListMethod(v, m, args, s) ==
    LET l == Obj(s, v)
        a == args[1]
    IN  CASE m = "head" -> R(IntV(l.head), s)
          [] m = "tail" -> R(IntV(Len(l.items)), s)
          [] m = "size" -> R(IntV(ListSize(l)), s)
          [] m = "get"  -> IF Is(a, "int") THEN Lift(ListGet(l, a.i), s) ELSE Err("type", s)
          [] m = "next" -> ListNext(s, v.i)
          [] m = "reset"  -> R(v, [s EXCEPT !.heap[v.i].head = 0])
          [] m = "append" -> R(NilV, ListAppend(s, v.i, a))
          [] m = "appendAll" ->
                IF ~Is(a, "list") THEN Err("type", s)
                ELSE R(NilV, [s EXCEPT !.heap[v.i].items = @ \o SubSeq(Obj(s, a).items, Obj(s, a).head + 1,
                                                                      Len(Obj(s, a).items))])

TableMethod(v, m, args, s) ==
    LET t == Obj(s, v).m
        k == KeyOf(s, args[1])
    IN  CASE m = "put"  -> LET c == CopyDeep(args[2], FALSE, s)
                           IN  R(NilV, [c.s EXCEPT !.heap[v.i].m = (k :> c.v) @@ @])
          [] m = "get"  -> R(IF k \in DOMAIN t THEN t[k] ELSE NilV, s)
          [] m = "contains" -> R(BoolV(k \in DOMAIN t), s)
          [] m = "remove" -> R(NilV, [s EXCEPT !.heap[v.i].m = [x \in DOMAIN t \ {k} |-> t[x]]])
          [] m = "size" -> R(IntV(Cardinality(DOMAIN t)), s)

CallMethod(obj, m, args, s, d) ==
    LET vals == [i \in DOMAIN args |-> Deref(s, args[i])]
        own  == MethodOf(s, StructType(s, obj), m, TRUE)
        builtin(names, F(_, _, _, _)) ==
            IF m \notin names THEN Err("type", s)
            ELSE IF Len(vals) # Arity[m] THEN Err("arity", s) ELSE F(obj, m, vals, s)
    IN  CASE Is(obj, "copyd") -> IF m = "ptr" THEN (IF args = <<>> THEN R(Obj(s, obj).v, s) ELSE Err("arity", s))
                                 ELSE CallMethod(Obj(s, obj).v, m, args, s, d)
          [] Is(obj, "list")  -> builtin(ListMethods, ListMethod)
          [] Is(obj, "table") -> builtin(TableMethods, TableMethod)
          [] Is(obj, "io")    -> IF m \in {"println", "print"} THEN R(NilV, Emitted(s, "print", vals)) ELSE Err("type", s)
          [] Is(obj, "struct") -> IF own > 0 THEN CallFunc(own, <<obj>> \o args, s, d) ELSE Err("type", s)
          [] OTHER -> Err("type", s)

(* space::name(args): the constructors, then the static methods *)
ScopeCall(e, sc, s, d) ==
    Then(EvalArgs(e.args, sc, s, d), LAMBDA args, s1 :
        CASE e.sp \in {"memorize", "HashTable", "List"} ->
                IF e.m # "new" \/ args # <<>> THEN Err("type", s1)
                ELSE Alloc(s1, IF e.sp = "List" THEN NewList(<<>>)
                               ELSE [k |-> IF e.sp = "memorize" THEN "memorize" ELSE "table", m |-> <<>>])
          [] MethodOf(s1, e.sp, e.m, FALSE) > 0 -> CallFunc(MethodOf(s1, e.sp, e.m, FALSE), args, s1, d)
          [] OTHER -> Err("undeclared", s1))

EvalCall(e, sc, s, d) ==
    CASE e.e = "call" /\ e.conv # "" ->
            Then(EvalV(e.args[1], sc, s, d), LAMBDA v, s1 : R(ConvValue(e.conv, v), s1))
      [] e.e = "sign" -> SignedCall(e, sc, s, d)
      [] e.e = "mcall" ->
            Then(EvalV(e.x, sc, s, d), LAMBDA o, s1 :
                Then(IF o.tag \in {"struct", "copyd"} THEN EvalArgs(e.args, sc, s1, d)
                     ELSE EvalList(e.args, sc, s1, d), LAMBDA args, s2 :
                        CallMethod(o, e.m, args, s2, d)))
      [] OTHER -> Then(EvalArgs(e.args, sc, s, d), LAMBDA args, s1 : PlainCall(e, args, sc, s1, d))

Eval(e, sc, s, d) ==
    CASE e.e = "int"   -> R(IntV(e.v), s)
      [] e.e = "float" -> R(FloatV(e.v), s)
      [] e.e = "str"   -> R(StrV(e.v), s)
      [] e.e = "bool"  -> R(BoolV(e.v = 1), s)
      [] e.e = "null"  -> R(NilV, s)
      [] e.e = "new"   -> EvalNew(e, sc, s, d)
      [] e.e = "struct" -> EvalStruct(e, sc, s, d)
      [] e.e = "id"    -> EvalId(e, sc, s)
      [] e.e = "list"  -> Then(EvalList(e.items, sc, s, d), LAMBDA vs, s1 : Alloc(s1, NewList(vs)))
      [] e.e = "inc"   -> MoveRef(e.x, sc, s)
      [] e.e = "un"    -> EvalUn(e, sc, s, d)
      [] e.e = "bin"   -> EvalBin(e, sc, s, d)
      [] e.e = "member" -> Then(EvalV(e.x, sc, s, d), LAMBDA v, s1 : Lift(EvalMember(s1, v, e.n), s1))
      [] e.e = "scall" -> ScopeCall(e, sc, s, d)
      [] e.e = "index" -> EvalIndex(e, sc, s, d)
      [] OTHER         -> EvalCall(e, sc, s, d)

----------------------------------------------------------------------------
(* Statements. *)
Signal == {"", "return", "fuel"}        \* what a catch lets through
Caught(r) == IF r.err = "break" THEN R(NilV, r.s) ELSE r      \* a loop ends at break

(* An iteration: the body, then the rest of the loop. *)
Again(r, Rest(_)) == IF r.err # "" THEN Caught(r) ELSE Rest(r.s)
Burn(s) == [s EXCEPT !.fuel = @ - 1]

RECURSIVE WhileLoop(_, _, _, _, _)
WhileLoop(c, body, sc, s, d) ==
    IF s.fuel = 0 THEN Err("fuel", s)
    ELSE Then(EvalV(c, sc, s, d), LAMBDA v, s1 : Then(Lift(Truthy(v), s1), LAMBDA b, s2 :
            IF ~Truth(b) THEN R(NilV, s2)
            ELSE Again(ExecBlock(body, sc, s2, d), LAMBDA s3 : WhileLoop(c, body, sc, Burn(s3), d))))

(* The step runs only after a body that ended well; its break is an error. *)
RECURSIVE ForCLoop(_, _, _, _)
ForCLoop(st, sc, s, d) ==
    IF s.fuel = 0 THEN Err("fuel", s)
    ELSE Then(EvalV(st.c, sc, s, d), LAMBDA v, s1 : Then(Lift(Truthy(v), s1), LAMBDA b, s2 :
            IF ~Truth(b) THEN R(NilV, s2)
            ELSE Again(ExecBlock(st.b, sc, s2, d), LAMBDA s3 :
                    Then(ExecBlock(st.st, sc, s3, d), LAMBDA u, s4 : ForCLoop(st, sc, Burn(s4), d)))))

(* for-in consumes a list: its head moves on before each round. *)
RECURSIVE ListLoop(_, _, _, _, _)
ListLoop(st, l, sc, s, d) ==
    IF s.fuel = 0 THEN Err("fuel", s)
    ELSE IF ListSize(s.heap[l]) = 0 THEN R(NilV, s)
    ELSE Then(ListNext(s, l), LAMBDA v, s1 :
            Again(ExecBlock(st.b, sc, Declare(s1, sc, st.n, v), d), LAMBDA s2 :
                ListLoop(st, l, sc, Burn(s2), d)))

(* size() is asked once, get(i) each round *)
RECURSIVE SizeLoop(_, _, _, _, _, _, _)
SizeLoop(st, obj, i, n, sc, s, d) ==
    IF s.fuel = 0 THEN Err("fuel", s)
    ELSE IF i >= n THEN R(NilV, s)
    ELSE Then(CallMethod(obj, "get", <<IntV(i)>>, s, d), LAMBDA v, s1 :
            Again(ExecBlock(st.b, sc, Declare(s1, sc, st.n, v), d), LAMBDA s2 :
                SizeLoop(st, obj, i + 1, n, sc, Burn(s2), d)))

ExecFor(st, sc, s, d) ==
    Then(EvalV(st.it, sc, s, d), LAMBDA v, s1 :
        LET size == CallMethod(v, "size", <<>>, s1, d)
            inner(t) == NewScope(t, sc)
        IN  CASE Is(v, "list") -> ListLoop(st, v.i, Last1(inner(s1)), inner(s1), d)
              [] Is(v, "struct") ->
                    IF size.err # "" \/ ~Is(Deref(size.s, size.v), "int") THEN Err("type", size.s)
                    ELSE SizeLoop(st, v, 0, Deref(size.s, size.v).i, Last1(inner(size.s)), inner(size.s), d)
              [] OTHER -> Err("type", s1))

(* A declaration from a list literal asks the type for its own literal      *)
(* hooks first; without an initial value only a struct gets a zero one.     *)
ExecDecl(st, sc, s, d) ==
    LET lit   == MethodOf(s, st.t, "__literal__", FALSE)
        elem  == MethodOf(s, st.t, "__element__", TRUE)
        init  == IF st.i # <<>> THEN Eval(st.i[1], sc, s, d)
                 ELSE IF st.t \in DOMAIN s.structs THEN ZeroInstance(st.t, s) ELSE R(NilV, s)
        fill(obj, r) == FoldLeft(LAMBDA acc, it : Then(acc, LAMBDA u, s1 :
                            Then(Eval(it, sc, s1, d), LAMBDA v, s2 : CallFunc(elem, <<obj, v>>, s2, d))),
                            r, st.i[1].items)
        bound(v, s1) == R(NilV, Declare(s1, sc, st.n, Stored(s1, v, st.bits)))
        literal == lit > 0 /\ \E i \in DOMAIN st.i : st.i[i].e = "list"
    IN  IF literal
        THEN Then(CallFunc(lit, <<>>, s, d), LAMBDA obj, s1 :
                IF elem = 0 THEN Err("type", s1)
                ELSE Then(fill(obj, R(NilV, s1)), LAMBDA u, s2 : R(NilV, Declare(s2, sc, st.n, obj))))
        ELSE Then(init, LAMBDA v, s1 :
                LET c == CopyDeep(v, FALSE, s1)
                    box == Alloc(c.s, [k |-> "copyd", v |-> c.v])
                IN  IF st.decor = "copyd" /\ ~Is(v, "copyd") THEN bound(box.v, box.s) ELSE bound(v, s1))

(* b[i] = v on raw bits: the cell of b, with that one bit replaced *)
AssignBit(t, v, sc, s, d) ==
    Then(AddrOf(t.x, sc, s, d), LAMBDA cell, s1 :
        Then(EvalV(t.i, sc, s1, d), LAMBDA i, s2 :
            LET cur == Deref(s2, cell)
                w   == StoreRef(s2, cell, IntV(WriteBit(cur.i, i.i, v.i)))
            IN  IF ~Is(i, "int") \/ ~Is(v, "int") THEN Err("type", s2)
                ELSE IF i.i \notin 0 .. t.bits - 1 THEN Err("index", s2)
                ELSE IF ~Is(cur, "int") THEN Err("type", s2)
                ELSE IF w.ok THEN R(NilV, w.s) ELSE Err("type", s2)))

(* The value first, then the target. *)
ExecAssign(st, sc, s, d) ==
    Then(Eval(st.x, sc, s, d), LAMBDA raw, s1 :
        LET v == Stored(s1, raw, st.bits)
            t == st.t
        IN  CASE t.e = "id" -> IF t.slot \in DOMAIN s1.scopes[sc].vals
                               THEN R(NilV, StoreSlot(s1, sc, t.slot, v)) ELSE Set(s1, sc, t.n, v)
              [] t.e = "index" ->
                    IF t.bits > 0 THEN AssignBit(t, v, sc, s1, d)
                    ELSE Then(EvalV(t.x, sc, s1, d), LAMBDA o, s2 :
                        IF o.tag \notin {"list", "table"} THEN Err("type", s2)
                        ELSE Then(EvalV(t.i, sc, s2, d), LAMBDA k, s3 :
                            CASE Is(o, "table") -> TableMethod(o, "put", <<k, v>>, s3)
                              [] Is(k, "int")   -> ListSet(s3, o.i, k.i, v)
                              [] OTHER          -> Err("type", s3)))
              [] t.e = "member" ->
                    Then(EvalV(t.x, sc, s1, d), LAMBDA x, s2 :
                        LET o == Uncopyd(s2, x)
                        IN  CASE Is(x, "nil") -> Err("null", s2)
                              [] ~Is(o, "struct") -> Err("type", s2)
                              [] t.n \notin DOMAIN Obj(s2, o).f -> Err("type", s2)
                              [] OTHER -> R(NilV, [s2 EXCEPT !.heap[o.i].f[t.n] = v]))
              [] OTHER -> Err("type", s1))

ExecDelete(st, sc, s, d) ==
    Then(EvalV(st.x, sc, s, d), LAMBDA v, s1 :
        LET m == MethodOf(s1, StructType(s1, v), "__delete__", TRUE)
        IN  IF ~Is(v, "struct") THEN R(NilV, s1)
            ELSE IF m = 0 THEN R(NilV, s1) ELSE CallFunc(m, <<v>>, s1, d))

(* The catch block sees every error of the try block but a return, the     *)
(* break of an enclosing loop included.                                    *)
ExecTry(st, sc, s, d) ==
    LET r == ExecBlock(st.b, sc, s, d)
        inner == NewScope(r.s, sc)
    IN  IF r.err \in Signal THEN r
        ELSE ExecBlock(st.c, Last1(inner), Declare(inner, Last1(inner), st.n, StrV(0)), d)

Returned(v, s) == [R(v, s) EXCEPT !.err = "return"]

Exec(st, sc, s, d) ==
    CASE st.k = "expr"   -> Eval(st.x, sc, s, d)
      [] st.k = "delete" -> ExecDelete(st, sc, s, d)
      [] st.k = "log"    -> Then(EvalV(st.x, sc, s, d), LAMBDA v, s1 :
                                Returned(NilV, Emitted(s1, "log", <<v>>)))
      [] st.k = "try"    -> ExecTry(st, sc, s, d)
      [] st.k = "break"  -> Err("break", s)
      [] st.k = "return" -> IF st.x = <<>> THEN Returned(NilV, s)
                            ELSE Then(Eval(st.x[1], sc, s, d), LAMBDA v, s1 : Returned(v, s1))
      [] st.k = "if"     -> Then(EvalV(st.c, sc, s, d), LAMBDA c, s1 :
                                Then(Lift(Truthy(c), s1), LAMBDA b, s2 :
                                    ExecBlock(IF Truth(b) THEN st.t ELSE st.el, sc, s2, d)))
      [] st.k = "while"  -> WhileLoop(st.c, st.b, sc, s, d)
      [] st.k = "for"    -> ExecFor(st, sc, s, d)
      [] st.k = "forc"   -> LET inner == NewScope(s, sc)
                            IN  Then(ExecBlock(st.i, Last1(inner), inner, d), LAMBDA u, s1 :
                                    ForCLoop(st, Last1(inner), s1, d))
      [] st.k = "decl"   -> ExecDecl(st, sc, s, d)
      [] st.k = "assign" -> ExecAssign(st, sc, s, d)

----------------------------------------------------------------------------
(* The bytecode machine.  A value of another type where the bytecode       *)
(* expects an int ends the run with "deopt".                               *)
IntBinOpVM(op, l, r) ==
    CASE ~Is(l, "int") \/ ~Is(r, "int") -> Fail("deopt")
      [] op \in {"+", "-", "*", "/", "%"} -> IntArith(op, l.i, r.i)
      [] op = "==" -> BoolV(l.i = r.i)
      [] op = "!=" -> BoolV(l.i # r.i)
      [] OTHER     -> BoolV(OrdCmp(op, Signed(l.i, IntBits), Signed(r.i, IntBits)))

RunVm(p, pc, st, sc, s, d) ==
    LET ins  == p.code[pc]
        top  == Last(st)
        val  == Deref(s, top)
        rest == Front(st)
        vals == s.scopes[sc].vals
        argv(n) == SubSeq(st, Len(st) - n + 1, Len(st))
        Next(stack, s1) == RunVm(p, pc + 1, stack, sc, s1, d)
        Push(v, stack, s1) == IF Failed(v) THEN Err(v.err, s1) ELSE Next(Append(stack, v), s1)
        Goto(target, stack) == IF target > pc THEN RunVm(p, target, stack, sc, s, d)
                               ELSE IF s.fuel = 0 THEN Err("fuel", s)
                               ELSE RunVm(p, target, stack, sc, Burn(s), d)
        op == ins.op
    IN  CASE op = "constint"  -> Push(IntV(ins.a), st, s)
          [] op = "constbool" -> Push(BoolV(ins.a = 1), st, s)
          [] op = "loadref"   -> Push(Ref("ident", sc, p.slots[ins.a]), st, s)
          [] op = "load"      -> Push(Deref(s, vals[ins.a]), st, s)
          [] op = "store"     -> Next(rest, StoreSlot(s, sc, ins.a, top))
          [] op = "pop"       -> Next(rest, s)
          [] op \in DOMAIN IntOps -> Push(IntBinOpVM(op, Deref(s, Last(rest)), val), Front(rest), s)
          [] op = "neg"       -> Push(IF Is(val, "int") THEN WrapI32(-val.i) ELSE Fail("deopt"), rest, s)
          [] op = "jump"      -> Goto(ins.a, st)
          [] op \in {"jumpfalse", "jumptrue"} ->
                IF Failed(Truthy(val)) THEN Err("type", s)
                ELSE IF Truth(val) = (op = "jumptrue") THEN Goto(ins.a, rest) ELSE Next(rest, s)
          [] op = "call"      -> Then(CallFunc(ins.a, argv(ins.b), s, d), LAMBDA v, s1 :
                                    Next(Append(SubSeq(st, 1, Len(st) - ins.b), v), s1))
          [] op = "println"   -> IF ~Is(Deref(s, vals[p.io]), "io") THEN Err("type", s)
                                 ELSE Next(SubSeq(st, 1, Len(st) - ins.a), Emitted(s, "print", argv(ins.a)))
          [] op = "log"       -> R(NilV, Emitted(s, "log", <<val>>))
          [] op = "return"    -> R(top, s)
          [] op = "returnnil" -> R(NilV, s)
=============================================================================

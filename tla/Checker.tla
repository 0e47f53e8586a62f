------------------------------- MODULE Checker -------------------------------
(***************************************************************************)
(* The type checker of internal/lang/typecheck.go over the syntax tree.    *)
(* It accepts or refuses a program and stamps the nodes both engines read: *)
(* the raw width of an operation or a store (bits) and the destination of  *)
(* a conversion call (conv).                                               *)
(*                                                                         *)
(* An environment holds the program (fns, structs, ifaces), the type Self  *)
(* stands for, the return type of the function (<<>> for none), the number *)
(* of loops around the statement and the scopes, outermost first: each a   *)
(* function from names to [t, init, const, perm, scope].                   *)
(***************************************************************************)
EXTENDS Types

Ok(t, x) == [ok |-> TRUE, t |-> t, x |-> x]     \* a type and the stamped node
Bad      == [ok |-> FALSE]
When(cond, t, x) == IF cond THEN Ok(t, x) ELSE Bad
Both(r, F(_, _)) == IF r.ok THEN F(r.t, r.x) ELSE Bad

Var(t, init, const, perm, scope) ==
    [t |-> t, init |-> init, const |-> const, perm |-> perm, scope |-> scope]
Bound(t) == Var(t, TRUE, FALSE, DefaultPerm, DefaultScope)

Level(env, n) == LET L == {i \in DOMAIN env.sc : n \in DOMAIN env.sc[i]} IN IF L = {} THEN 0 ELSE Max(L)
Known(env, n) == Level(env, n) > 0
Lookup(env, n) == env.sc[Level(env, n)][n]
Push(env)    == [env EXCEPT !.sc = Append(@, <<>>)]
Top(env)     == Len(env.sc)
Declared(env, n, v) == [env EXCEPT !.sc[Top(env)] = (n :> v) @@ @]
Fresh(env, n) == n \notin DOMAIN env.sc[Top(env)]

Defs(env, n) == {i \in DOMAIN env.fns : env.fns[i].n = n /\ env.fns[i].of = ""}
ParamType(p, env) == ResolveType(p.t, env)

(* The best overload by argument types, the first of equals; 0 for none. *)
BestMatchT(defs, tys, env) ==
    LET pt(i, k) == ParamType(env.fns[i].ps[k], env)
        one(i, k) == IF tys[k].k = pt(i, k).k THEN 10 ELSE IF Assignable(tys[k], pt(i, k)) THEN 5 ELSE -1
        fits  == {i \in defs : /\ Len(env.fns[i].ps) = Len(tys)
                               /\ \A k \in DOMAIN tys : one(i, k) >= 0}
        score(i) == FoldLeft(LAMBDA acc, k : acc + one(i, k), 0, [k \in DOMAIN tys |-> k])
    IN  IF fits = {} THEN 0 ELSE Min({i \in fits : \A j \in fits : score(j) <= score(i)})

ArgOk(t, want, env) ==
    IF want.k = "iface" /\ t.k \in {"iface", "struct"} THEN IfaceStrict(t, want, env)
    ELSE Passable(t, want) /\ IfaceStrict(t, want, env)
CallArgsOk(f, tys, env) ==
    /\ Len(tys) = Len(env.fns[f].ps)
    /\ \A k \in DOMAIN tys : ArgOk(tys[k], ParamType(env.fns[f].ps[k], env), env)
MethodArgsOk(f, tys, skip, env) ==
    /\ Len(tys) = Len(env.fns[f].ps) - skip
    /\ \A k \in DOMAIN tys : Passable(tys[k], ParamType(env.fns[f].ps[k + skip], env))
RetType(f, none, env) == IF env.fns[f].ret = "" THEN none ELSE ResolveType(env.fns[f].ret, env)

----------------------------------------------------------------------------
(* Members and methods of a type. *)
RECURSIVE MemberType(_, _, _)
MemberType(t, n, env) ==
    LET F == env.structs[t.n]
        at == {i \in DOMAIN F : F[i].n = n}
    IN  CASE t.k = "struct" -> IF t.n = "." THEN (IF n \in DOMAIN t.fields THEN Ok(t.fields[n], n) ELSE Bad)
                               ELSE IF at = {} THEN Bad ELSE Ok(ResolveType(F[Min(at)].t, env), n)
          [] t.k \in {"ptr", "copyd"} -> MemberType(t.elem, n, env)
          [] OTHER -> Bad

ListMethodType(t, m, a, env) ==
    CASE m \in {"head", "tail", "size"} -> When(a = <<>>, Ty("int"), m)
      [] m = "get"    -> When(Len(a) = 1 /\ a[1].k = "int", t.elem, m)
      [] m = "next"   -> When(a = <<>>, t.elem, m)
      [] m = "reset"  -> When(a = <<>>, t, m)
      [] m = "append" -> When(Len(a) = 1 /\ Assignable(a[1], t.elem) /\ IfaceStrict(a[1], t.elem, env), Ty("nil"), m)
      [] m = "appendAll" -> When(Len(a) = 1 /\ a[1].k = "list", Ty("nil"), m)
      [] OTHER        -> Bad

TableMethodType(t, m, a, env) ==
    CASE m = "put"      -> When(/\ Len(a) = 2
                                /\ Assignable(a[1], t.key) /\ Assignable(a[2], t.val)
                                /\ IfaceStrict(a[2], t.val, env), Ty("nil"), m)
      [] m = "get"      -> When(Len(a) = 1, t.val, m)
      [] m = "contains" -> When(Len(a) = 1, Ty("bool"), m)
      [] m = "remove"   -> When(Len(a) = 1, Ty("nil"), m)
      [] m = "size"     -> When(a = <<>>, Ty("int"), m)
      [] OTHER          -> Bad

(* An interface offers its own methods and those of the ones it expands. *)
IfaceMethodType(t, m, a, env) ==
    LET I   == env.ifaces[t.n]
        S   == I.methods \o FlattenSeq([i \in DOMAIN I.expands |->
                    IF I.expands[i] \in DOMAIN env.ifaces THEN env.ifaces[I.expands[i]].methods ELSE <<>>])
        at  == {i \in DOMAIN S : S[i].n = m}
        sig == S[Min(at)]
        recv == IF sig.ps # <<>> THEN (IF sig.ps[1] \in {"Self", t.n} THEN 1 ELSE 0) ELSE 0
    IN  IF at = {} THEN Bad
        ELSE When(Len(a) = Len(sig.ps) - recv,
                  CASE sig.ret \in {"", "void"} -> Ty("nil") [] sig.ret = "Self" -> Ty("any")
                    [] OTHER -> ResolveType(sig.ret, env), m)

RECURSIVE MethodType(_, _, _, _)
MethodType(t, m, a, env) ==
    CASE t.k = "iface" -> IfaceMethodType(t, m, a, env)
      [] t.k = "list"  -> ListMethodType(t, m, a, env)
      [] t.k = "table" -> TableMethodType(t, m, a, env)
      [] t.k = "io"    -> When(m \in {"println", "print"}, Ty("nil"), m)
      [] t.k = "struct" ->
            LET f == SelfMeth(t.n, m, env)
                at == [env EXCEPT !.self = t.n]
            IN  IF f = 0 THEN Bad ELSE When(MethodArgsOk(f, a, 1, at), RetType(f, Ty("FuncBuffer"), at), m)
      [] t.k = "ptr"   -> IF m = "size" THEN When(a = <<>>, Ty("int"), m) ELSE MethodType(t.elem, m, a, env)
      [] t.k = "copyd" -> IF m = "ptr" THEN When(a = <<>>, t.elem, m) ELSE MethodType(t.elem, m, a, env)
      [] OTHER -> Bad

----------------------------------------------------------------------------
(* Expressions. *)
RECURSIVE Infer(_, _)

(* every one in turn: the types and the stamped nodes *)
InferAll(es, env) ==
    FoldLeft(LAMBDA acc, e : Both(acc, LAMBDA ts, xs :
                Both(Infer(e, env), LAMBDA t, x : Ok(Append(ts, t), Append(xs, x)))), Ok(<<>>, <<>>), es)

RawPairWidth(l, r, e) ==       \* 0 when the two do not go together
    CASE IsRawBits(l) /\ IsRawBits(r) -> IF l.w = r.w THEN l.w ELSE 0
      [] IsRawBits(l) /\ IsIntConst(e.r) -> l.w
      [] IsRawBits(r) /\ IsIntConst(e.l) -> r.w
      [] OTHER -> 0

InferRawBin(e, l, r) ==
    LET w == RawPairWidth(l, r, e)
    IN  CASE e.op = "===" -> Ok(Ty("bool"), e)
          [] e.op \in {"&", "|", "^"} -> When(w > 0, BitsOf(w), [e EXCEPT !.bits = w])
          [] e.op \in {"==", "!="}    -> When(w > 0, Ty("bool"), e)
          [] e.op \in {"<<", ">>"}    -> IF ~IsRawBits(l) THEN Bad
                                         ELSE When(IsRawBits(r) \/ IsIntView(r), l, [e EXCEPT !.bits = l.w])
          [] OTHER -> Bad

OpMethodFor == ("+" :> "__add__") @@ ("-" :> "__sub__") @@ ("==" :> "__eq__") @@ ("<" :> "__lt__")

Comparable(l, r) ==
    \/ IsNumericT(l) /\ IsNumericT(r)
    \/ l.k = r.k /\ l.k \in {"str", "bool", "struct", "iface"}
    \/ {l.k, r.k} \cap {"any", "null", "ptr", "copyd"} # {}

InferBinOp(e, l, r, env) ==
    LET num  == IsNumericT(l) /\ IsNumericT(r)
        wide == IF "float" \in {l.k, r.k} THEN Ty("float") ELSE Ty("int")
        over == IF l.k = "struct" /\ r.k = "struct" /\ e.op \in DOMAIN OpMethodFor
                THEN IF l.n = r.n THEN SelfMeth(l.n, OpMethodFor[e.op], env) ELSE 0 ELSE 0
    IN  CASE IsRawBits(l) \/ IsRawBits(r) -> InferRawBin(e, l, r)
          [] over > 0 /\ (over > 0 => Len(env.fns[over].ps) = 2) ->
                Ok(ResolveType(env.fns[over].ret, [env EXCEPT !.self = l.n]), e)
          [] e.op = "+" /\ "str" \in {l.k, r.k} -> Ok(Ty("str"), e)
          [] e.op \in {"+", "-", "*", "/", "%"} -> When(num, wide, e)
          [] e.op \in BitOps -> When(IsIntView(l) /\ IsIntView(r), Ty("int"), e)
          [] e.op = "===" -> Ok(Ty("bool"), e)
          [] e.op \in {"==", "!="} -> When(Comparable(l, r), Ty("bool"), e)
          [] OTHER -> When(num \/ (l.k = "str" /\ r.k = "str"), Ty("bool"), e)

InferUn(e, env) ==
    Both(Infer(e.x, env), LAMBDA t, x :
        LET y == [e EXCEPT !.x = x]
            neg == SelfMeth(t.n, "__neg__", env)
            get == MethodType(t, "get", <<>>, env)
        IN  CASE e.op = "&" -> When(e.x.e \in {"id", "member", "index"}, PtrTo(t), y)
              [] e.op = "~" -> IF IsRawBits(t) THEN Ok(t, [y EXCEPT !.bits = t.w])
                               ELSE When(IsIntView(t), Ty("int"), y)
              [] e.op = "*" -> IF t.k = "list" THEN Ok(t.elem, y)
                               ELSE IF t.k \in {"iface", "struct"} THEN When(get.ok, get.t, y) ELSE Bad
              [] e.op = "-" -> IF t.k = "struct"
                               THEN When(neg > 0, ResolveType(env.fns[neg].ret, [env EXCEPT !.self = t.n]), y)
                               ELSE When(IsNumericT(t), IF t.k = "uchar" THEN Ty("int") ELSE t, y)
              [] e.op = "!" -> When(t.k = "bool", Ty("bool"), y))

InferIndex(e, env) ==
    Both(Infer(e.x, env), LAMBDA t, x : Both(Infer(e.i, env), LAMBDA it, i :
        LET y == [e EXCEPT !.x = x, !.i = i]
        IN  IF IsRawBits(t)
            THEN When(IsIntView(it) /\ ConstBitIndexOk(e.i, t.w), BitsOf(1), [y EXCEPT !.bits = t.w])
            ELSE When(t.k \in {"list", "ptr"} /\ it.k = "int", t.elem, y)))

(* A variable hides nothing but the functions; a reference is read only    *)
(* with the permission r, p++ needs m.                                     *)
InferId(e, env) ==
    CASE Known(env, e.n) ->
            LET v == Lookup(env, e.n)
            IN  When((IsRefKind(v.t) => RefAllows(v.perm, "r")) /\ v.init, v.t, e)
      [] Defs(env, e.n) # {} -> Ok(FuncOf(e.n), e)
      [] OTHER -> Bad
InferInc(e, env) ==
    IF e.x.e # "id" THEN Bad
    ELSE IF ~Known(env, e.x.n) THEN Bad
    ELSE LET v == Lookup(env, e.x.n)
         IN  When(IsRefKind(v.t) /\ (IsRefKind(v.t) => RefAllows(v.perm, "m")), v.t, e)

(* The arguments, then what the name stands for: a function variable, a    *)
(* declared function, a conversion.                                        *)
InferCall(e, env) ==
    Both(InferAll(e.args, env), LAMBDA ts, xs :
        LET y    == [e EXCEPT !.args = xs]
            best == BestMatchT(Defs(env, e.f), ts, env)
            isFn == IF Known(env, e.f) THEN Lookup(env, e.f).t.k = "func" ELSE FALSE
        IN  CASE isFn -> Ok(Ty("any"), y)
              [] Defs(env, e.f) # {} ->
                    IF best = 0 THEN Bad
                    ELSE When(CallArgsOk(best, ts, env), RetType(best, Ty("FuncBuffer"), env), y)
              [] Len(ts) = 1 /\ e.f \in ConvNames ->
                    When(Convertible(ConvDst(e.f), ts[1], e.args[1]), ConvDst(e.f), [y EXCEPT !.conv = e.f])
              [] OTHER -> Bad)

InferSign(e, env) ==
    Both(InferAll(e.args, env), LAMBDA ts, xs :
        LET f == Min(Defs(env, e.f))
        IN  IF Defs(env, e.f) = {} \/ ~Known(env, e.sign) THEN Bad
            ELSE When(CallArgsOk(f, ts, env), RetType(f, Ty("nil"), env), [e EXCEPT !.args = xs]))

InferScope(e, env) ==
    Both(InferAll(e.args, env), LAMBDA ts, xs :
        LET f == StaticMeth(e.sp, e.m, env)
            y == [e EXCEPT !.args = xs]
            new(t) == When(e.m = "new" /\ ts = <<>>, t, y)
        IN  CASE e.sp = "memorize"  -> new(Ty("memorize"))
              [] e.sp = "HashTable" -> new(TableOf(Ty("any"), Ty("any")))
              [] e.sp = "List"      -> new(ListOf(Ty("any")))
              [] f > 0 -> LET at == [env EXCEPT !.self = e.sp]
                          IN  When(MethodArgsOk(f, ts, 0, at), RetType(f, Ty("FuncBuffer"), at), y)
              [] OTHER -> Bad)

InferStruct(e, env) ==
    Both(InferAll([i \in DOMAIN e.fs |-> e.fs[i].x], env), LAMBDA ts, xs :
        Ok([k |-> "struct", n |-> ".", fields |-> [n \in {e.fs[i].n : i \in DOMAIN e.fs} |->
                ts[CHOOSE i \in DOMAIN e.fs : e.fs[i].n = n /\ \A j \in DOMAIN e.fs : e.fs[j].n = n => j <= i]]],
           [e EXCEPT !.fs = [i \in DOMAIN @ |-> [@[i] EXCEPT !.x = xs[i]]]]))

InferBin(e, env) ==
    Both(Infer(e.l, env), LAMBDA l, x :
        IF e.op \in {"&&", "||"} /\ l.k # "bool" THEN Bad
        ELSE Both(Infer(e.r, env), LAMBDA r, z :
            LET y == [e EXCEPT !.l = x, !.r = z]
            IN  IF e.op \in {"&&", "||"} THEN When(r.k = "bool", Ty("bool"), y) ELSE InferBinOp(y, l, r, env)))

Infer(e, env) ==
    CASE e.e = "int"    -> Ok(Ty("int"), e)
      [] e.e = "float"  -> Ok(Ty("float"), e)
      [] e.e = "str"    -> Ok(Ty("str"), e)
      [] e.e = "bool"   -> Ok(Ty("bool"), e)
      [] e.e = "null"   -> Ok(Ty("null"), e)
      [] e.e = "new"    -> Both(InferAll(e.size, env), LAMBDA ts, xs :
                               When(Resolvable(e.t, env), PtrTo(ResolveType(e.t, env)), [e EXCEPT !.size = xs]))
      [] e.e = "struct" -> InferStruct(e, env)
      [] e.e = "inc"    -> InferInc(e, env)
      [] e.e = "id"     -> InferId(e, env)
      [] e.e = "list"   -> Both(InferAll(e.items, env), LAMBDA ts, xs :
                               Ok(ListOf(IF ts = <<>> THEN Ty("any") ELSE FoldLeft(Join, ts[1], Tail(ts))),
                                  [e EXCEPT !.items = xs]))
      [] e.e = "un"     -> InferUn(e, env)
      [] e.e = "bin"    -> InferBin(e, env)
      [] e.e = "member" -> Both(Infer(e.x, env), LAMBDA t, x :
                               LET m == MemberType(t, e.n, env)
                               IN  IF m.ok THEN Ok(m.t, [e EXCEPT !.x = x]) ELSE Bad)
      [] e.e = "mcall"  -> Both(Infer(e.x, env), LAMBDA t, x : Both(InferAll(e.args, env), LAMBDA ts, xs :
                               LET m == MethodType(t, e.m, ts, env)
                               IN  IF m.ok THEN Ok(m.t, [e EXCEPT !.x = x, !.args = xs]) ELSE Bad))
      [] e.e = "call"   -> InferCall(e, env)
      [] e.e = "sign"   -> InferSign(e, env)
      [] e.e = "scall"  -> InferScope(e, env)
      [] e.e = "index"  -> InferIndex(e, env)

----------------------------------------------------------------------------
(* Statements: the environment they leave (t) and the stamped statement. *)
RECURSIVE CheckStmt(_, _)
CheckBlock(b, env) ==
    FoldLeft(LAMBDA acc, st : Both(acc, LAMBDA env1, done :
                Both(CheckStmt(st, env1), LAMBDA env2, st2 : Ok(env2, Append(done, st2)))), Ok(env, <<>>), b)

\* Pop as a mutation: the names of the inner scope stay.
PopKeeps(env, inner) == [inner EXCEPT !.loop = env.loop]

Pop(env, inner) == [inner EXCEPT !.sc = Front(@), !.loop = env.loop]
InLoop(env)     == [env EXCEPT !.loop = @ + 1]
OutOfLoop(env)  == [env EXCEPT !.loop = @ - 1]

(* .{...} given to a named struct: field by field. *)
CheckStructLit(e, n, env) ==
    LET F == env.structs[n]
        name(i) == IF e.fs[i].n = "" THEN F[i].n ELSE e.fs[i].n
        want(i) == MemberType(StructOf(n), name(i), env)
    IN  IF Len(e.fs) # Len(F) THEN Bad
        ELSE Both(InferAll([i \in DOMAIN e.fs |-> e.fs[i].x], env), LAMBDA ts, xs :
            When(\A i \in DOMAIN ts : /\ want(i).ok
                                      /\ IfaceStrict(ts[i], want(i).t, env)
                                      /\ Fits(ts[i], e.fs[i].x, want(i).t),
                 StructOf(n),
                 [e EXCEPT !.n = n, !.fs = [i \in DOMAIN @ |-> [n |-> @[i].n, x |-> xs[i],
                                                               bits |-> StoreWidth(want(i).t)]]]))

CheckLiteral(e, n, env) ==
    LET lit  == StaticMeth(n, "__literal__", env)
        elem == SelfMeth(n, "__element__", env)
    IN  IF elem = 0 THEN Bad
        ELSE IF env.fns[lit].ps # <<>> \/ Len(env.fns[elem].ps) # 2 THEN Bad
        ELSE Both(InferAll(e.items, env), LAMBDA ts, xs :
                When(\A i \in DOMAIN ts : Assignable(ts[i], ParamType(env.fns[elem].ps[2], [env EXCEPT !.self = n])),
                     StructOf(n), [e EXCEPT !.items = xs]))

(* A reference taken from a reference variable obeys its permission and scope. *)
RefSourceOk(x, perm, scope, env) ==
    (x.e = "id") => IF Known(env, x.n)
                    THEN IsRefKind(Lookup(env, x.n).t) => RefMayPass(Lookup(env, x.n), perm, scope)
                    ELSE TRUE

(* copyd T n has the type the name T[Copyd] stands for: a list of numbers  *)
(* for a number, a wrapped container, anything else as if the suffix were  *)
(* not there; a reference and Self take no suffix.                         *)
DeclType(st, env) ==
    LET t == ResolveType(st.t, env)
    IN  IF st.decor # "copyd" THEN t
        ELSE CASE t.k \in {"int", "float"}  -> CopydOf(ListOf(t))
               [] t.k \in {"list", "table"} -> CopydOf(t)
               [] OTHER -> t
DeclResolvable(st, env) ==
    Resolvable(st.t, env) /\ (st.decor = "copyd" => st.t # "Self" /\ ~IsRefKind(ResolveType(st.t, env)))

CheckDecl(st, env) ==
    LET t == DeclType(st, env)
        x == st.i[1]
        form == CASE st.i = <<>> -> "none"
                  [] x.e = "struct" /\ t.k = "struct" -> "struct"
                  [] x.e = "list" /\ t.k = "struct" ->
                        IF StaticMeth(t.n, "__literal__", env) > 0 THEN "literal" ELSE "plain"
                  [] OTHER -> "plain"
        init == CASE form = "struct"  -> CheckStructLit(x, t.n, env)
                  [] form = "literal" -> CheckLiteral(x, t.n, env)
                  [] form = "plain"   ->
                        Both(Infer(x, env), LAMBDA it, y :
                            When(/\ Fits(it, x, t)
                                 /\ IsRefKind(t) => RefSourceOk(x, PermOf(st), ScopeOf(st), env)
                                 /\ IfaceStrict(it, t, env), it, y))
        var  == Var(t, form # "none" \/ t.k \in {"struct", "ptr"}, st.decor = "const", PermOf(st), ScopeOf(st))
        stamped == [st EXCEPT !.bits = StoreWidth(t)]
    IN  IF ~DeclResolvable(st, env) \/ ~Fresh(env, st.n) THEN Bad
        ELSE IF form = "none" THEN Ok(Declared(env, st.n, var), stamped)
        ELSE Both(init, LAMBDA it, y : Ok(Declared(env, st.n, var), [stamped EXCEPT !.i = <<y>>]))

(* The first assignment initialises the variable, wherever it stands. *)
AssignId(st, t, x, env) ==
    LET n == st.t.n
        v == Lookup(env, n)
    IN  IF ~Known(env, n) THEN Bad
        ELSE When(/\ ~v.const
                  /\ IsRefKind(v.t) => RefAllows(v.perm, "w") /\ RefSourceOk(st.x, v.perm, v.scope, env)
                  /\ Fits(t, st.x, v.t)
                  /\ IfaceStrict(t, v.t, env),
                  [env EXCEPT !.sc[Level(env, n)][n].init = TRUE],
                  [st EXCEPT !.x = x, !.bits = StoreWidth(v.t)])

AssignIndex(st, t, x, env) ==
    Both(Infer(st.t.x, env), LAMBDA rt, rx : Both(Infer(st.t.i, env), LAMBDA it, ix :
        LET y == [st EXCEPT !.x = x, !.t.x = rx, !.t.i = ix]
        IN  CASE rt.k = "bits"  -> When((Assignable(t, BitsOf(1)) \/ IsIntConst(st.x)) /\ ConstBitIndexOk(st.t.i, rt.w),
                                        env, [y EXCEPT !.t.bits = rt.w, !.bits = 1])
              [] rt.k = "table" -> When(Assignable(it, rt.key), env, y)
              [] rt.k \in {"list", "ptr"} -> When(it.k = "int" /\ Assignable(t, rt.elem) /\ IfaceStrict(t, rt.elem, env),
                                                  env, y)
              [] OTHER -> Bad))

AssignMember(st, t, x, env) ==
    Both(Infer(st.t.x, env), LAMBDA ot, ox :
        LET f == MemberType(ot, st.t.n, env)
        IN  IF ot.k # "struct" THEN Bad
            ELSE IF ~f.ok \/ ot.n = "." THEN Bad
            ELSE When(Fits(t, st.x, f.t) /\ IfaceStrict(t, f.t, env), env,
                      [st EXCEPT !.x = x, !.t.x = ox, !.bits = StoreWidth(f.t)]))

CheckFor(st, env) ==
    Both(Infer(st.it, env), LAMBDA t, x :
        LET sz == MethodType(t, "size", <<>>, env)
            gt == MethodType(t, "get", <<Ty("int")>>, env)
            iterable == t.k = "list" \/ (sz.ok /\ gt.ok /\ (sz.ok => sz.t.k = "int"))
            elem  == IF t.k = "list" THEN t.elem ELSE gt.t
            inner == InLoop(Declared(Push(env), st.n, Bound(elem)))
        IN  IF ~iterable THEN Bad
            ELSE Both(CheckBlock(st.b, inner), LAMBDA e1, b : Ok(Pop(env, e1), [st EXCEPT !.it = x, !.b = b])))

Cond(c, env) == Both(Infer(c, env), LAMBDA t, x : When(t.k = "bool", t, x))

(* The step is checked before the body, outside the loop. *)
CheckForC(st, env) ==
    Both(CheckBlock(st.i, Push(env)), LAMBDA e1, i : Both(Cond(st.c, e1), LAMBDA t, c :
        Both(CheckBlock(st.st, e1), LAMBDA e2, step : Both(CheckBlock(st.b, InLoop(e2)), LAMBDA e3, b :
            Ok(Pop(env, e3), [st EXCEPT !.i = i, !.c = c, !.st = step, !.b = b])))))

CheckStmt(st, env) ==
    CASE st.k \in {"expr", "delete", "log"} -> Both(Infer(st.x, env), LAMBDA t, x : Ok(env, [st EXCEPT !.x = x]))
      [] st.k = "try" ->
            Both(CheckBlock(st.b, env), LAMBDA e1, b :
                Both(CheckBlock(st.c, Declared(Push(e1), st.n, Bound(Ty("any")))), LAMBDA e2, c :
                    Ok(Pop(e1, e2), [st EXCEPT !.b = b, !.c = c])))
      [] st.k = "return" ->
            IF st.x = <<>> THEN Ok(env, st)
            ELSE Both(Infer(st.x[1], env), LAMBDA t, x :
                    When(\A i \in DOMAIN env.ret : Passable(t, env.ret[i]) /\ IfaceStrict(t, env.ret[i], env),
                         env, [st EXCEPT !.x = <<x>>]))
      [] st.k = "break" -> When(env.loop > 0, env, st)
      [] st.k = "if" -> Both(Cond(st.c, env), LAMBDA t, c : Both(CheckBlock(st.t, env), LAMBDA e1, b :
                            Both(CheckBlock(st.el, e1), LAMBDA e2, el :
                                Ok(e2, [st EXCEPT !.c = c, !.t = b, !.el = el]))))
      [] st.k = "while" -> Both(Cond(st.c, env), LAMBDA t, c : Both(CheckBlock(st.b, InLoop(env)), LAMBDA e1, b :
                                Ok(OutOfLoop(e1), [st EXCEPT !.c = c, !.b = b])))
      [] st.k = "for"  -> CheckFor(st, env)
      [] st.k = "forc" -> CheckForC(st, env)
      [] st.k = "decl" -> CheckDecl(st, env)
      [] st.k = "assign" ->
            Both(Infer(st.x, env), LAMBDA t, x :
                CASE st.t.e = "id"     -> AssignId(st, t, x, env)
                  [] st.t.e = "index"  -> AssignIndex(st, t, x, env)
                  [] st.t.e = "member" -> AssignMember(st, t, x, env)
                  [] OTHER             -> Bad)

----------------------------------------------------------------------------
(* Functions and programs. *)
CheckFunc(fn, env) ==
    LET ps    == fn.ps
        names == [i \in DOMAIN ps |-> ps[i].n]
        vars  == [n \in ToSet(names) |->
                    LET p == ps[CHOOSE i \in DOMAIN ps : names[i] = n]
                    IN  Var(ParamType(p, env), TRUE, p.decor = "const", PermOf(p), ScopeOf(p))]
        at    == [env EXCEPT !.sc = <<vars>>, !.loop = 0,
                             !.ret = IF fn.ret = "" THEN <<>> ELSE <<ResolveType(fn.ret, env)>>]
    IN  IF ~IsInjective(names) \/ (\E i \in DOMAIN ps : ~Resolvable(ps[i].t, env)) THEN Bad
        ELSE Both(CheckBlock(fn.b, at), LAMBDA e1, b : Ok(fn.n, [fn EXCEPT !.b = b]))

SameSig(a, b) == [i \in DOMAIN a.ps |-> a.ps[i].t] = [i \in DOMAIN b.ps |-> b.ps[i].t]

(* Every method of the interface, its own and the expanded ones, exists    *)
(* with as many parameters as its signature.                               *)
ImplConsistent(im, env) ==
    LET I == env.ifaces[im.iface]
        meth(m) == IF SelfMeth(im.typ, m, env) > 0 THEN SelfMeth(im.typ, m, env) ELSE StaticMeth(im.typ, m, env)
    IN  IF im.iface \notin DOMAIN env.ifaces THEN FALSE
        ELSE I.partial \/ \A m \in SigNames(im.iface, env) :
                IF meth(m) = 0 THEN FALSE ELSE Len(env.fns[meth(m)].ps) = Len(SigOf(im.iface, m, env).ps)

(* The definition the checker looks at for the function at place i: the    *)
(* first of its name, whichever overload stands there.                     *)
Looked(fns, i) == IF fns[i].of # "" THEN i
                  ELSE Min({j \in DOMAIN fns : fns[j].n = fns[i].n /\ fns[j].of = ""})

(* A program is [fns, structs, ifaces, impls].  The checker keeps its own  *)
(* copies of the functions, but the bodies are shared: a stamp on the one  *)
(* it looked at is a stamp on the program.                                 *)
Typecheck(prog) ==
    LET env(self) == [fns |-> prog.fns, structs |-> prog.structs, ifaces |-> prog.ifaces,
                      self |-> self, sc |-> <<>>, loop |-> 0, ret |-> <<>>]
        F == prog.fns
        later(i) == F[i].of = "" /\ Looked(F, i) # i
        dupl  == \E i, j \in DOMAIN F : i < j /\ later(i) /\ later(j) /\ F[i].n = F[j].n /\ SameSig(F[i], F[j])
        dupm  == \E i, j \in DOMAIN F : i < j /\ F[i].of # "" /\ F[i].of = F[j].of
                                         /\ F[i].n = F[j].n /\ F[i].self = F[j].self
        seen  == {Looked(F, i) : i \in DOMAIN F}
        done  == [i \in DOMAIN F |-> IF i \in seen THEN CheckFunc(F[i], env(F[i].of)) ELSE Ok("", F[i])]
    IN  IF dupl \/ dupm \/ (\E i \in DOMAIN prog.impls : ~ImplConsistent(prog.impls[i], env("")))
           \/ (\E i \in DOMAIN F : ~done[i].ok)
        THEN [ok |-> FALSE, fns |-> F]
        ELSE [ok |-> TRUE, fns |-> [i \in DOMAIN F |-> done[i].x]]
=============================================================================

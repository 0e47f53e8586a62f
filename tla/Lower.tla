-------------------------------- MODULE Lower --------------------------------
(***************************************************************************)
(* The typed lowering of the compiler (compiler/internal/cgen/lower.go,    *)
(* lower_iface.go): it gives every expression a type, refuses what the     *)
(* code generator has no code for, and hands on a tree of lowered nodes.   *)
(* The pass promises to refuse rather than to miscompile.                  *)
(*                                                                         *)
(* p is a checked program [fns, structs, ifaces]; an IR name is the index  *)
(* of a function in p.fns.  c is the context of a function: the types of   *)
(* the variables in scope, the return type, the name of main's stream, the *)
(* by-reference parameters, the functions whose result may be nil, and the *)
(* type the surrounding expression expects.                                *)
(* A lowered node has a kind o and a type t.  Generic declarations, FFI    *)
(* libraries, threads and the String library are left out.                 *)
(***************************************************************************)
EXTENDS Syntax, Values, SequencesExt

Refused    == [o |-> "refused", t |-> "?"]
Usable(x)  == x.o # "refused"
Given(cond, x) == IF cond THEN x ELSE Refused
(* a node, unless one of its parts is refused *)
Built(parts, x) == Given(\A i \in DOMAIN parts : Usable(parts[i]), x)

----------------------------------------------------------------------------
(* Types are their names. *)
ListElems == ("List<int>" :> "int") @@ ("List<float>" :> "float") @@ ("List<String>" :> "String")
RefBases  == ("int&" :> "int") @@ ("float&" :> "float") @@ ("P&" :> "P")
AnyTable  == "HashTable<interface{}, interface{}>"
Tables    == ("HashTable<int,int>" :> <<"int", "int">>) @@ (AnyTable :> <<"interface{}", "interface{}">>)
AnyT       == "interface{}"

IsList(t)  == t \in DOMAIN ListElems
IsRef(t)   == t \in DOMAIN RefBases
IsTable(t) == t \in DOMAIN Tables
IsBits(t)  == IsRawType(t)
IsStruct(p, t) == t \in DOMAIN p.structs
IsIface(p, t)  == t = AnyT \/ t \in DOMAIN p.ifaces
RawName(n)     == CHOOSE t \in DOMAIN RawTypes : RawTypes[t] = n
Base(t)        == IF IsRef(t) THEN RefBases[t] ELSE t

(* the legacy spellings *)
Canon(t) == CASE t = "char" -> "int" [] t = "double" -> "float"
              [] t = "List<char>" -> "List<int>" [] t = "List<double>" -> "List<float>" [] OTHER -> t
CanonFn(f) == [f EXCEPT !.ps = [i \in DOMAIN @ |-> [@[i] EXCEPT !.t = Canon(@)]],
                        !.ret = IF @ = "" THEN "void" ELSE Canon(@)]
CanonDecls(p) == [p EXCEPT !.fns = [i \in DOMAIN @ |-> CanonFn(@[i])],
                           !.structs = [n \in DOMAIN @ |-> [i \in DOMAIN @[n] |->
                                            [@[n][i] EXCEPT !.t = Canon(@)]]]]

ScalarNames == {"int", "bool", "float", "String", "long"}
CheckType(p, t) ==
    \/ t \in ScalarNames \cup {"uchar", "pointer", "memorize"}
    \/ IsBits(t) \/ IsList(t) \/ IsStruct(p, t) \/ IsIface(p, t) \/ IsTable(t)
    \/ IsRef(t) /\ (Base(t) \in ScalarNames \/ IsStruct(p, Base(t)))
RetOK(p, t) == \/ t \in ScalarNames \cup {"uchar", "pointer", "void"}
               \/ IsBits(t) \/ IsRef(t) \/ IsStruct(p, t) \/ IsIface(p, t) \/ IsTable(t)

FieldNames(p, t) == {p.structs[t][i].n : i \in DOMAIN p.structs[t]}
FieldPos(p, t, n) == CHOOSE i \in DOMAIN p.structs[t] : p.structs[t][i].n = n
FieldType(p, t, n) == p.structs[t][FieldPos(p, t, n)].t

(* A copyd parameter must be of a type the backend can copy deeply. *)
RECURSIVE CheckCopydType(_, _)
CheckCopydType(p, t) ==
    /\ ~IsIface(p, t) /\ ~IsTable(t) /\ t \notin {"List<String>", "List<float>"}
    /\ IsStruct(p, t) => \A i \in DOMAIN p.structs[t] :
            LET ft == p.structs[t][i].t
            IN  ~IsIface(p, ft) /\ (IsStruct(p, ft) => CheckCopydType(p, ft))

NumLike(t)  == t \in {"int", "float", "long", "uchar", "?"}
IntViewT(t) == t \in {"int", "long", "char", "uchar"}
NumResult(a, b) == CASE "float" \in {a, b} -> "float" [] "?" \in {a, b} -> "?" [] OTHER -> "int"

RECURSIVE IntConstLit(_)
IntConstLit(x) == x.e = "int" \/ (x.e = "un" /\ x.op = "-" /\ IntConstLit(x.x))

Assignable(p, from, to) ==
    CASE from = to \/ "?" \in {from, to} -> TRUE
      [] from = "int" /\ to \in {"float", "long"} -> TRUE
      [] IsBits(to) \/ IsBits(from) -> FALSE
      [] to = "uchar"   -> IntViewT(from)
      [] from = "uchar" -> IntViewT(to)
      [] IsRef(to)   -> from = "null" \/ (IsRef(from) /\ Base(from) = Base(to))
      [] IsRef(from) -> FALSE
      [] to = AnyT    -> from # "void"
      [] from = AnyT  -> to \in {"int", "float", "bool", "String"}
      [] from = "null" -> to \in {"pointer", "String"} \/ IsIface(p, to)
      [] IsIface(p, to) -> IsStruct(p, from) \/ IsIface(p, from)
      [] OTHER -> IsTable(from) /\ IsTable(to)
(* or an integer constant given to raw bits *)
Takes(p, from, x, to) == Assignable(p, from, to) \/ (IsBits(to) /\ IntConstLit(x))

----------------------------------------------------------------------------
(* Declarations: functions by name, methods by type, interface tables. *)
Plain(p, name) == {i \in DOMAIN p.fns : p.fns[i].of = "" /\ p.fns[i].n = name}
Meth(p, typ, m, self) ==
    LET D == {i \in DOMAIN p.fns : p.fns[i].of = typ /\ p.fns[i].n = m /\ p.fns[i].self = self}
    IN  IF D = {} THEN 0 ELSE Min(D)
ParamTypes(f) == [i \in DOMAIN f.ps |-> f.ps[i].t]

(* One name, one definition: overloads of a function differ in the types   *)
(* of their parameters, a method has none.                                 *)
Collected(p) ==
    /\ Plain(p, "main") # {}
    /\ \A i \in DOMAIN p.fns : p.fns[i].of = "" => p.fns[i].n \notin {"sum", "clock"}
    /\ \A i, j \in DOMAIN p.fns :
            (i < j /\ p.fns[i].n = p.fns[j].n /\ p.fns[i].of = p.fns[j].of)
                => p.fns[i].of = "" /\ ParamTypes(p.fns[i]) # ParamTypes(p.fns[j])

(* The methods of an interface: those it expands before its own. *)
RECURSIVE IfaceMethods(_, _, _)
IfaceMethods(p, n, seen) ==
    IF n \notin DOMAIN p.ifaces \/ n \in seen THEN <<>>
    ELSE FlattenSeq([i \in DOMAIN p.ifaces[n].expands |->
                        IfaceMethods(p, p.ifaces[n].expands[i], seen \cup {n})]) \o p.ifaces[n].methods
IfaceSig(p, n, m) == LET S == IfaceMethods(p, n, {})
                     IN  S[CHOOSE i \in DOMAIN S : S[i].n = m /\ \A j \in 1 .. i - 1 : S[j].n # m]
HasSig(p, n, m) == \E i \in DOMAIN IfaceMethods(p, n, {}) : IfaceMethods(p, n, {})[i].n = m
(* the parameters of a signature, without the receiver *)
SigParams(n, sig) == IF sig.ps # <<>> /\ sig.ps[1] \in {"Self", n} THEN Tail(sig.ps) ELSE sig.ps

OpMethodFor == ("+" :> "__add__") @@ ("-" :> "__sub__") @@ ("*" :> "__mul__") @@ ("/" :> "__div__")
               @@ ("%" :> "__mod__") @@ ("==" :> "__eq__") @@ ("!=" :> "__ne__") @@ ("<" :> "__lt__")
               @@ ("<=" :> "__le__") @@ (">" :> "__gt__") @@ (">=" :> "__ge__")
OpMeth(p, t, op) == IF IsStruct(p, t) /\ op \in DOMAIN OpMethodFor THEN Meth(p, t, OpMethodFor[op], TRUE) ELSE 0

KindOf(p, t) ==
    CASE t \in {"int", "long"} -> "int"
      [] t \in {"float", "bool", "String", "void", "null", "pointer"} -> t
      [] IsList(t)      -> "list"
      [] IsTable(t)     -> "table"
      [] IsStruct(p, t) -> "struct"
      [] IsIface(p, t)  -> "interface"
      [] OTHER          -> "?"
ArgScore(p, at, pt) == CASE KindOf(p, at) = KindOf(p, pt) -> 10 [] Assignable(p, at, pt) -> 5 [] OTHER -> -1

(* A name with one definition is that definition; among overloads the      *)
(* first of the best.  0 when there is none.                               *)
ResolveFunc(p, name, types) ==
    LET cands == Plain(p, name) \ Plain(p, "main")
        score(f) == [k \in DOMAIN types |-> ArgScore(p, types[k], p.fns[f].ps[k].t)]
        fits  == {f \in cands : Len(p.fns[f].ps) = Len(types) /\ \A k \in DOMAIN types : score(f)[k] >= 0}
        total(f) == FoldLeft(LAMBDA a, n : a + n, 0, score(f))
    IN  IF Cardinality(cands) <= 1 THEN (IF cands = {} THEN 0 ELSE Min(cands))
        ELSE IF fits = {} THEN 0
        ELSE Min({f \in fits : \A g \in fits : total(g) <= total(f)})

----------------------------------------------------------------------------
(* Types of expressions. *)
Context(p, ret) == [p |-> p, vars |-> <<>>, ret |-> ret, io |-> "", byRef |-> {}, nil |-> {}, want |-> ""]
Wanting(c, t) == [c EXCEPT !.want = t]
VarType(c, n) == IF n \in DOMAIN c.vars THEN c.vars[n] ELSE "?"

RECURSIVE TypeOf(_, _)
TypesOf(xs, c) == [i \in DOMAIN xs |-> TypeOf(xs[i], c)]
RetOf(c, f) == c.p.fns[f].ret

ListType(x, c) ==
    CASE IsList(c.want) -> c.want
      [] \E i \in DOMAIN x.items : TypeOf(x.items[i], c) = "String" -> "List<String>"
      [] OTHER -> "List<int>"

BinType(x, c) ==
    LET lt == TypeOf(x.l, c)
        rt == TypeOf(x.r, c)
        m  == OpMeth(c.p, lt, x.op)
        num == IF NumLike(lt) /\ NumLike(rt) THEN NumResult(lt, rt) ELSE "?"
    IN  CASE x.op = "+" /\ "String" \in {lt, rt} -> "String"
          [] x.op \in {"+", "-", "*", "/"} -> IF lt = rt /\ m > 0 THEN RetOf(c, m) ELSE num
          [] x.op = "%" -> "int"
          [] x.op \in BitOps /\ x.bits > 0 -> RawName(x.bits)
          [] x.op \in {"<<", ">>"} -> "int"
          [] x.op \in {"&", "|", "^"} -> num
          [] x.op = "===" -> "?"
          [] OTHER -> "bool"

UnType(x, c) ==
    LET t == TypeOf(x.x, c)
        n == IF IsStruct(c.p, t) THEN Meth(c.p, t, "__neg__", TRUE) ELSE 0
    IN  CASE x.op = "*" -> IF IsList(t) THEN ListElems[t] ELSE "?"
          [] x.op = "-" -> IF n > 0 THEN RetOf(c, n) ELSE t
          [] x.op = "!" -> "bool"
          [] x.op = "~" -> IF x.bits > 0 THEN RawName(x.bits) ELSE "int"
          [] OTHER -> "?"

MCallType(x, c) ==
    LET rt == TypeOf(x.x, c)
        m  == IF IsStruct(c.p, rt) THEN Meth(c.p, rt, x.m, TRUE) ELSE 0
    IN  CASE x.x.e = "id" /\ c.io # "" /\ x.x.n = c.io -> "void"
          [] IsTable(rt) -> CASE x.m = "size" -> "int" [] x.m = "contains" -> "bool"
                              [] x.m = "keys" -> "List<String>" [] x.m = "get" -> Tables[rt][2]
                              [] x.m \in {"put", "remove"} -> "void" [] OTHER -> "?"
          [] rt = "List<String>" -> CASE x.m = "size" -> "int" [] x.m = "get" -> "String" [] OTHER -> "?"
          [] rt = "List<int>" ->
                CASE x.m \in {"size", "get", "head", "tail", "next"} -> "int"
                  [] x.m \in {"append", "appendAll", "__sort__"} -> "void"
                  [] x.m = "reset" -> rt [] OTHER -> "?"
          [] IsIface(c.p, rt) -> IF ~HasSig(c.p, rt, x.m) THEN "?"
                                 ELSE LET ret == IfaceSig(c.p, rt, x.m).ret
                                      IN  CASE ret = "Self" -> rt [] ret = "" -> "void" [] OTHER -> ret
          [] m > 0 -> RetOf(c, m)
          [] OTHER -> "?"

CallType(x, c) ==
    LET f == ResolveFunc(c.p, x.f, TypesOf(x.args, c))
    IN  IF x.e = "call" /\ x.conv # "" THEN Canon(x.conv)
        ELSE IF x.f = "sum" THEN "int"
        ELSE IF f > 0 THEN RetOf(c, f) ELSE "?"

TypeOf(x, c) ==
    CASE x.e \in {"int", "float", "bool", "null"} -> x.e
      [] x.e = "str"    -> "String"
      [] x.e = "list"   -> ListType(x, c)
      [] x.e = "id"     -> IF x.n \in DOMAIN c.vars THEN c.vars[x.n]
                           ELSE IF Cardinality(Plain(c.p, x.n)) = 1 THEN "function" ELSE "?"
      [] x.e = "new"    -> x.t \o "&"
      [] x.e = "struct" -> IF x.n # "" THEN x.n ELSE "?"
      [] x.e = "member" -> LET rt == TypeOf(x.x, c)
                           IN  IF ~IsStruct(c.p, rt) THEN "?"
                               ELSE IF x.n \in FieldNames(c.p, rt) THEN FieldType(c.p, rt, x.n) ELSE "?"
      [] x.e = "index"  -> LET rt == TypeOf(x.x, c)
                           IN  IF x.bits > 0 THEN "bit" ELSE IF IsList(rt) THEN ListElems[rt] ELSE "?"
      [] x.e = "bin"    -> BinType(x, c)
      [] x.e = "un"     -> UnType(x, c)
      [] x.e = "mcall"  -> MCallType(x, c)
      [] x.e = "scall"  -> LET m == Meth(c.p, x.sp, x.m, FALSE) IN IF m > 0 THEN RetOf(c, m) ELSE "?"
      [] x.e \in {"call", "sign"} -> CallType(x, c)
      [] OTHER -> "?"

----------------------------------------------------------------------------
(* Expressions. *)
RECURSIVE Lower(_, _)
All(xs, c)     == [i \in DOMAIN xs |-> Lower(xs[i], c)]
Const(t, v)    == [o |-> "const", v |-> v, t |-> t]
ZeroConst(t)   == Const(IF t \in {"float", "bool", "String"} THEN t ELSE "int", 0)
Bare(x)        == [o |-> "addr", x |-> x, t |-> x.t]      \* a reference itself, not what it refers to
Two(o, op, l, r, t, bits) == Built(<<l, r>>, [o |-> o, op |-> op, l |-> l, r |-> r, t |-> t, bits |-> bits])

(* Into an interface: a struct with the methods, or any plain value. *)
VtableFor(p, typ, iface) ==
    \A i \in DOMAIN IfaceMethods(p, iface, {}) :
        LET sig == IfaceMethods(p, iface, {})[i]
            m   == Meth(p, typ, sig.n, TRUE)
        IN  m > 0 /\ Len(p.fns[m].ps) - 1 = Len(SigParams(iface, sig))
BoxTo(p, x, want) ==
    LET boxed == [o |-> "box", x |-> x, t |-> want]
    IN  CASE ~Usable(x) \/ x.t = want -> x
          [] want = AnyT -> Given(x.t \in {"int", "float", "bool", "String", "null", "List<int>"}
                                 \/ IsStruct(p, x.t), boxed)
          [] IsIface(p, want) -> Given(IsStruct(p, x.t) /\ VtableFor(p, x.t, want), boxed)
          [] OTHER -> x
LowerAs(x, c, want) == BoxTo(c.p, Lower(x, Wanting(c, want)), want)

(* Comparisons.  A T& against a value is a null test and a comparison of   *)
(* what it refers to.                                                      *)
LowerRefCmp(x, c, ref, val) ==
    LET r == Lower(ref, c)
        isnull(op) == Two("cmp", op, Bare(r), Const("null", 0), "bool", 0)
        same == Two("cmp", x.op, r, Lower(val, c), "bool", 0)
    IN  IF ~Usable(r) \/ ref.e # "id" THEN Refused
        ELSE IF x.op = "!=" THEN Two("andor", "||", isnull("=="), same, "bool", 0)
        ELSE Two("andor", "&&", isnull("!="), same, "bool", 0)

LowerCmp(x, c) ==
    LET lt == TypeOf(x.l, c)
        rt == TypeOf(x.r, c)
        a  == Base(lt)
        b  == Base(rt)
        eq == x.op \in {"==", "!="}
        cmp(l, r) == Two("cmp", x.op, l, r, "bool", 0)
        plain == cmp(Lower(x.l, c), Lower(x.r, c))
        bare(e, t) == IF IsRef(t) /\ Usable(Lower(e, c)) THEN Bare(Lower(e, c)) ELSE Lower(e, c)
    IN  CASE (IsRef(lt) /\ rt = "null") \/ (lt = "null" /\ IsRef(rt)) \/ (IsRef(lt) /\ IsRef(rt)) ->
                Given(eq, cmp(bare(x.l, lt), bare(x.r, rt)))
          [] IsRef(lt) # IsRef(rt) /\ "null" \notin {lt, rt} ->
                Given(eq, IF IsRef(lt) THEN LowerRefCmp(x, c, x.l, x.r) ELSE LowerRefCmp(x, c, x.r, x.l))
          [] AnyT \in {a, b} -> Given(eq, cmp(BoxTo(c.p, Lower(x.l, c), AnyT), BoxTo(c.p, Lower(x.r, c), AnyT)))
          [] a = b /\ (IsStruct(c.p, a) \/ a = "String") -> plain
          [] {a, b} \cap {"pointer", "null"} # {} -> Given(eq, plain)
          [] a = "bool" /\ b = "bool" -> Given(eq, plain)
          [] IsBits(a) \/ IsBits(b) ->
                Given(eq /\ (a = b \/ (IsBits(a) /\ IntConstLit(x.r)) \/ (IsBits(b) /\ IntConstLit(x.l))), plain)
          [] OTHER -> Given(NumLike(a) /\ NumLike(b), plain)

(* An instance method: the receiver, then the arguments after it. *)
LowerMethod(m, recv, extra, c, byVal) ==
    LET ps == c.p.fns[m].ps
        args == All(extra, c)
    IN  Given(\A i \in DOMAIN extra : i + 1 \in DOMAIN ps => Assignable(c.p, TypeOf(extra[i], c), ps[i + 1].t),
              Built(<<Lower(recv, c)>> \o args,
                    [o |-> "method", f |-> m, x |-> Lower(recv, c), args |-> args, byVal |-> byVal, t |-> RetOf(c, m)]))

RawBitsBin(x, c, lt, rt) ==
    Given(x.bits > 0 /\ \A t \in {lt, rt} : IsBits(t) => t = RawName(x.bits),
          Two("bin", x.op, Lower(x.l, c), Lower(x.r, c), RawName(x.bits), x.bits))

LowerBin(x, c) ==
    LET lt == TypeOf(x.l, c)
        rt == TypeOf(x.r, c)
        m  == OpMeth(c.p, lt, x.op)
        num  == NumLike(lt) /\ NumLike(rt)
        node(o, t) == Two(o, x.op, Lower(x.l, c), Lower(x.r, c), t, 0)
    IN  CASE lt = rt /\ (IF m > 0 THEN Len(c.p.fns[m].ps) = 2 ELSE FALSE) -> LowerMethod(m, x.l, <<x.r>>, c, TRUE)
          [] x.op = "+" /\ "String" \in {lt, rt} -> Given(lt = rt, node("cat", "String"))
          [] x.op \in {"+", "-", "*", "/"} -> Given(num, node("bin", NumResult(lt, rt)))
          [] x.op = "%" /\ "float" \in {lt, rt} -> node("bin", "float")
          [] x.op = "%" -> Given(num, node("bin", "int"))
          [] x.op \in BitOps /\ (IsBits(lt) \/ IsBits(rt)) -> RawBitsBin(x, c, lt, rt)
          [] x.op \in BitOps -> Given(IntViewT(lt) /\ IntViewT(rt), node("bin", "int"))
          [] x.op = "===" -> Refused
          [] x.op \in {"&&", "||"} -> Given({lt, rt} \subseteq {"bool", "?"}, node("andor", "bool"))
          [] OTHER -> LowerCmp(x, c)

LowerUn(x, c) ==
    LET t == TypeOf(x.x, c)
        v == Lower(x.x, c)
        n == IF IsStruct(c.p, t) THEN Meth(c.p, t, "__neg__", TRUE) ELSE 0
        bits == IF IsBits(t) THEN x.bits ELSE 0
    IN  CASE x.op = "&" -> Refused
          [] x.op = "~" -> Given(IsBits(t) \/ IntViewT(t),
                                 Two("bin", "^", Const("int", -1), v, IF IsBits(t) THEN RawName(bits) ELSE "int", bits))
          [] x.op = "-" /\ n > 0 -> LowerMethod(n, x.x, <<>>, c, TRUE)
          [] x.op = "-" -> Given(NumLike(t), LET z == IF t = "float" THEN "float" ELSE "int"
                                             IN  Two("bin", "-", Const(z, 0), v, z, 0))
          [] x.op = "!" -> Given(t \in {"bool", "?"}, Two("andor", "!", v, v, "bool", 0))
          [] x.op = "*" -> Given(t = "List<int>", Built(<<v>>,
                                 [o |-> "listop", m |-> "peek", x |-> v, args |-> <<>>, t |-> "int"]))

----------------------------------------------------------------------------
(* Calls. *)
CallNode(f, args, t) == Built(args, [o |-> "call", f |-> f, args |-> args, t |-> t])

(* Using the nil that a function with a log leaves is refused, as far as   *)
(* the functions lowered so far are known.                                 *)
LowerCall(x, c, discarded) ==
    LET f  == ResolveFunc(c.p, x.f, TypesOf(x.args, c))
        ps == c.p.fns[f].ps
        args == [i \in DOMAIN x.args |-> LowerAs(x.args[i], c, ps[i].t)]
    IN  IF f = 0 THEN Refused
        ELSE IF Len(ps) # Len(x.args) \/ (f \in c.nil /\ ~discarded) THEN Refused
        ELSE Given(\A i \in DOMAIN ps : Assignable(c.p, TypeOf(x.args[i], Wanting(c, ps[i].t)), ps[i].t),
                   CallNode(f, args, RetOf(c, f)))

LowerSum(x, c) ==
    LET g == ResolveFunc(c.p, x.args[1].n, <<"int">>)
        rest == Tail(x.args)
    IN  IF Len(x.args) \notin {3, 4} THEN Refused
        ELSE IF x.args[1].e # "id" \/ g = 0 THEN Refused
        ELSE Given(/\ ParamTypes(c.p.fns[g]) = <<"int">> /\ RetOf(c, g) = "int"
                   /\ \A i \in DOMAIN rest : TypeOf(rest[i], c) \in {"int", "?"},
                   Built(All(rest, c), [o |-> "sum", f |-> g, args |-> All(rest, c), t |-> "int"]))

(* f(args)@sign(): remembered results of an int function of ints *)
LowerSign(x, c) ==
    LET f == ResolveFunc(c.p, x.f, TypesOf(x.args, c))
        args == All(x.args, c)
    IN  IF VarType(c, x.sign) # "memorize" \/ f = 0 THEN Refused
        ELSE Given(/\ RetOf(c, f) = "int"
                   /\ ParamTypes(c.p.fns[f]) = [i \in DOMAIN x.args |-> "int"]
                   /\ \A i \in DOMAIN x.args : Assignable(c.p, TypeOf(x.args[i], c), "int"),
                   Built(args, [o |-> "memo", f |-> f, args |-> args, sign |-> x.sign, t |-> "int"]))

(* The list methods: the types of the arguments and of the result. *)
ListOps(elem) ==
    ("size" :> <<<<>>, "int">>) @@ ("get" :> <<<<"int">>, elem>>) @@ ("append" :> <<<<elem>>, "void">>)
    @@ IF elem # "int" THEN <<>> ELSE
       ("head" :> <<<<>>, "int">>) @@ ("tail" :> <<<<>>, "int">>) @@ ("next" :> <<<<>>, "int">>)
       @@ ("reset" :> <<<<>>, "List<int>">>) @@ ("appendAll" :> <<<<"List<int>">>, "void">>)
LowerListOp(x, c, rt) ==
    LET ops == ListOps(ListElems[rt])
        args == All(x.args, c)
        fits(i) == LET at == TypeOf(x.args[i], c)
                       to == ops[x.m][1][i]
                   IN  at \in {to, "?"} \/ (x.m = "append" /\ to # "String" /\ Assignable(c.p, at, to))
    IN  IF x.m \notin DOMAIN ops THEN Refused
        ELSE Given(Len(args) = Len(ops[x.m][1]) /\ \A i \in DOMAIN args : fits(i),
                   Built(<<Lower(x.x, c)>> \o args,
                         [o |-> "listop", m |-> x.m, x |-> Lower(x.x, c), args |-> args, t |-> ops[x.m][2]]))

(* Keys and values are boxed. *)
TableOps(key, val) ==
    ("size" :> <<<<>>, "int">>) @@ ("put" :> <<<<key, val>>, "void">>) @@ ("get" :> <<<<key>>, val>>)
    @@ ("contains" :> <<<<key>>, "bool">>) @@ ("remove" :> <<<<key>>, "void">>)
LowerTableOp(x, c, rt) ==
    LET ops == TableOps(Tables[rt][1], Tables[rt][2])
        args == [i \in DOMAIN x.args |-> LowerAs(x.args[i], c, AnyT)]
    IN  IF x.m \notin DOMAIN ops THEN Refused
        ELSE Given(/\ Len(args) = Len(ops[x.m][1])
                   /\ \A i \in DOMAIN args : Assignable(c.p, TypeOf(x.args[i], c), ops[x.m][1][i]),
                   Built(<<Lower(x.x, c)>> \o args,
                         [o |-> "table", m |-> x.m, x |-> Lower(x.x, c), args |-> args, t |-> ops[x.m][2]]))

LowerIfaceCall(x, c, rt) ==
    LET sig  == IfaceSig(c.p, rt, x.m)
        want == [i \in DOMAIN SigParams(rt, sig) |-> IF SigParams(rt, sig)[i] = "Self" THEN rt ELSE SigParams(rt, sig)[i]]
        args == [i \in DOMAIN x.args |-> LowerAs(x.args[i], c, want[i])]
    IN  IF ~HasSig(c.p, rt, x.m) THEN Refused
        ELSE Given(/\ Len(x.args) = Len(want)
                   /\ \A i \in DOMAIN want : want[i] = rt \/ Assignable(c.p, TypeOf(x.args[i], c), want[i]),
                   Built(<<Lower(x.x, c)>> \o args,
                         [o |-> "iface", m |-> x.m, x |-> Lower(x.x, c), args |-> args, t |-> MCallType(x, c)]))

LowerMCall(x, c) ==
    LET rt == TypeOf(x.x, c)
        m  == IF IsStruct(c.p, rt) THEN Meth(c.p, rt, x.m, TRUE) ELSE 0
    IN  CASE IsTable(rt) -> LowerTableOp(x, c, rt)
          [] IsList(rt)  -> LowerListOp(x, c, rt)
          [] IsIface(c.p, rt) -> LowerIfaceCall(x, c, rt)
          [] m > 0 -> Given(Len(c.p.fns[m].ps) - 1 = Len(x.args), LowerMethod(m, x.x, x.args, c, FALSE))
          [] OTHER -> Refused

LowerScopeCall(x, c) ==
    LET m  == Meth(c.p, x.sp, x.m, FALSE)
        ps == c.p.fns[m].ps
    IN  CASE x.sp = "HashTable" -> Given(x.m = "new" /\ x.args = <<>>,
                [o |-> "newtable", t |-> IF IsTable(c.want) THEN c.want ELSE AnyTable])
          [] x.sp = "memorize"  -> Given(x.m = "new" /\ x.args = <<>>, [o |-> "newmemo", t |-> "memorize"])
          [] m = 0 \/ m \in c.nil -> Refused
          [] OTHER -> Given(\A i \in DOMAIN x.args : i \in DOMAIN ps =>
                                Assignable(c.p, TypeOf(x.args[i], c), ps[i].t),
                            CallNode(m, All(x.args, c), RetOf(c, m)))

----------------------------------------------------------------------------
(* Literals and places. *)
LowerList(x, c, t) ==
    LET items == All(x.items, c)
    IN  Given(\A i \in DOMAIN items : Assignable(c.p, TypeOf(x.items[i], c), ListElems[t]),
              Built(items, [o |-> "list", items |-> items, t |-> t]))

(* Every member gets a value: the one given, or a zero. *)
LowerStruct(x, c) ==
    LET typ == IF x.n = "" THEN c.want ELSE x.n
        ms  == c.p.structs[typ]
        pos(i) == IF x.fs[i].n = "" THEN i ELSE FieldPos(c.p, typ, x.fs[i].n)
        named(i) == IF x.fs[i].n = "" THEN i \in DOMAIN ms ELSE x.fs[i].n \in FieldNames(c.p, typ)
        takes(i) == Takes(c.p, TypeOf(x.fs[i].x, Wanting(c, ms[pos(i)].t)), x.fs[i].x, ms[pos(i)].t)
        given(j) == {i \in DOMAIN x.fs : pos(i) = j}
        value(j) == IF given(j) = {} THEN ZeroConst(ms[j].t) ELSE LowerAs(x.fs[Max(given(j))].x, c, ms[j].t)
        values == [j \in DOMAIN ms |-> value(j)]
    IN  IF ~IsStruct(c.p, typ) THEN Refused
        ELSE IF \E i \in DOMAIN x.fs : ~named(i) THEN Refused
        ELSE Given(\A i \in DOMAIN x.fs : takes(i), Built(values, [o |-> "struct", values |-> values, t |-> typ]))

LowerIndex(x, c) ==
    LET rt == TypeOf(x.x, c)
        it == TypeOf(x.i, c)
        parts == <<Lower(x.x, c), Lower(x.i, c)>>
        node(o, t) == Built(parts, [o |-> o, x |-> parts[1], i |-> parts[2], bits |-> x.bits, t |-> t])
    IN  IF x.bits > 0 THEN Given(IsBits(rt) /\ (IntViewT(it) \/ it = "?"), node("bit", "bit"))
        ELSE Given(IsList(rt) /\ it \in {"int", "?"}, node("index", ListElems[rt]))

LowerMember(x, c) ==
    LET rt == TypeOf(x.x, c)
    IN  IF ~IsStruct(c.p, rt) THEN Refused
        ELSE Given(x.n \in FieldNames(c.p, rt),
                   Built(<<Lower(x.x, c)>>, [o |-> "field", x |-> Lower(x.x, c), n |-> x.n, t |-> FieldType(c.p, rt, x.n)]))

LowerNew(x, c) ==
    Given(x.size = <<>> /\ CheckType(c.p, Canon(x.t)) /\ ~IsRef(x.t),
          [o |-> "newref", t |-> Canon(x.t) \o "&"])

Lower(x, c) ==
    CASE x.e \in {"int", "float", "bool"} -> Const(x.e, x.v)
      [] x.e = "str"    -> Const("String", x.v)
      [] x.e = "null"   -> Const("null", 0)
      [] x.e = "id"     -> Given(VarType(c, x.n) \notin {"?", "IOStream"}, [o |-> "id", n |-> x.n, t |-> VarType(c, x.n)])
      [] x.e = "inc"    -> Refused
      [] x.e = "bin"    -> LowerBin(x, c)
      [] x.e = "un"     -> LowerUn(x, c)
      [] x.e = "index"  -> LowerIndex(x, c)
      [] x.e = "struct" -> LowerStruct(x, c)
      [] x.e = "new"    -> LowerNew(x, c)
      [] x.e = "list"   -> LowerList(x, c, IF IsList(c.want) THEN c.want ELSE "List<int>")
      [] x.e = "scall"  -> LowerScopeCall(x, c)
      [] x.e = "member" -> LowerMember(x, c)
      [] x.e = "mcall"  -> LowerMCall(x, c)
      [] x.e = "sign"   -> LowerSign(x, c)
      [] x.e = "call"   -> IF x.conv # "" /\ Len(x.args) = 1
                           THEN Built(All(x.args, c), [o |-> "conv", x |-> Lower(x.args[1], c), t |-> Canon(x.conv)])
                           ELSE IF x.f = "sum" THEN LowerSum(x, c) ELSE LowerCall(x, c, FALSE)

----------------------------------------------------------------------------
(* Statements.  A statement is lowered in the scope the ones before it     *)
(* leave; a lowered one comes with the variables it leaves in scope.       *)
At(st, c)      == [s |-> st, vars |-> c.vars]
No(c)          == At(Refused, c)
If1(cond, r, c) == IF cond THEN r ELSE No(c)
(* a name is declared once: shadowing an outer one is refused as well *)
Bind(st, n, t, c) == If1(n \notin DOMAIN c.vars, [s |-> st, vars |-> c.vars @@ (n :> t)], c)
WithVars(c, vars) == [c EXCEPT !.vars = vars]
BindIf(x, st, n, t, c) == If1(Usable(x), Bind(st, n, t, c), c)

RECURSIVE LowerStmt(_, _)
(* the lowered statements and the scope after them; ok is FALSE when one is refused *)
LowerSeq(b, c) ==
    FoldLeft(LAMBDA acc, st :
                IF ~acc.ok THEN acc
                ELSE LET r == LowerStmt(st, WithVars(c, acc.vars))
                     IN  [ok |-> Usable(r.s), out |-> Append(acc.out, r.s), vars |-> r.vars],
             [ok |-> TRUE, out |-> <<>>, vars |-> c.vars], b)
(* blocks, then a statement made of them *)
Blocks(bs, F(_), c) ==
    LET L == [i \in DOMAIN bs |-> LowerSeq(bs[i], c)]
    IN  If1(\A i \in DOMAIN bs : L[i].ok, At(F([i \in DOMAIN bs |-> L[i].out]), c), c)

(* The name of the caught error has no value in a catch block. *)
RECURSIVE Uses(_, _), UsesIn(_, _)
Uses(x, n) ==
    CASE x.e = "id" -> x.n = n
      [] x.e = "bin" -> Uses(x.l, n) \/ Uses(x.r, n)
      [] x.e = "index" -> Uses(x.x, n) \/ Uses(x.i, n)
      [] x.e \in {"un", "member"} -> Uses(x.x, n)
      [] x.e \in {"call", "sign", "scall"} -> \E i \in DOMAIN x.args : Uses(x.args[i], n)
      [] x.e = "mcall" -> Uses(x.x, n) \/ \E i \in DOMAIN x.args : Uses(x.args[i], n)
      [] x.e = "list" -> \E i \in DOMAIN x.items : Uses(x.items[i], n)
      [] x.e = "struct" -> \E i \in DOMAIN x.fs : Uses(x.fs[i].x, n)
      [] OTHER -> FALSE
UsesIn(b, n) == \E j \in DOMAIN b : LET st == b[j] IN
    CASE st.k \in {"expr", "log", "delete"} -> Uses(st.x, n)
      [] st.k = "return" -> st.x # <<>> /\ Uses(Head(st.x), n)
      [] st.k = "decl"   -> st.i # <<>> /\ Uses(Head(st.i), n)
      [] st.k = "assign" -> Uses(st.t, n) \/ Uses(st.x, n)
      [] st.k = "if"     -> Uses(st.c, n) \/ UsesIn(st.t, n) \/ UsesIn(st.el, n)
      [] st.k = "while"  -> Uses(st.c, n) \/ UsesIn(st.b, n)
      [] st.k = "for"    -> Uses(st.it, n) \/ UsesIn(st.b, n)
      [] st.k = "forc"   -> UsesIn(st.i, n) \/ Uses(st.c, n) \/ UsesIn(st.st, n) \/ UsesIn(st.b, n)
      [] st.k = "try"    -> UsesIn(st.b, n) \/ UsesIn(st.c, n)
      [] OTHER -> FALSE

(* A function with a log anywhere may end without a value. *)
RECURSIVE Logs(_)
Logs(b) == \E i \in DOMAIN b :
    CASE b[i].k = "log" -> TRUE
      [] b[i].k = "if"  -> Logs(b[i].t) \/ Logs(b[i].el)
      [] b[i].k \in {"while", "for"} -> Logs(b[i].b)
      [] b[i].k = "forc" -> Logs(b[i].i) \/ Logs(b[i].st) \/ Logs(b[i].b)
      [] b[i].k = "try" -> Logs(b[i].b) \/ Logs(b[i].c)
      [] OTHER -> FALSE

----------------------------------------------------------------------------
(* Declarations.  References and tables are in scope in their own initial  *)
(* value; a list of ints needs one; a struct takes only its own type.      *)
DeclNode(st, t, i) == [k |-> "decl", n |-> st.n, t |-> t, i |-> i, o |-> ""]

LowerScalarDecl(st, t, c) ==
    LET x == Lower(st.i[1], c)
    IN  IF st.i = <<>> THEN Bind(DeclNode(st, t, <<>>), st.n, t, c)
        ELSE If1(Takes(c.p, TypeOf(st.i[1], c), st.i[1], t), BindIf(x, DeclNode(st, t, <<x>>), st.n, t, c), c)

LowerListDecl(st, t, c) ==
    LET init == st.i[1]
        lit  == LowerList(init, c, t)
        x    == Lower(init, IF t = "List<String>" THEN Wanting(c, t) ELSE c)
        none == [o |-> "list", items |-> <<>>, t |-> t]
    IN  IF st.i = <<>> THEN If1(t = "List<float>", Bind(DeclNode(st, t, <<none>>), st.n, t, c), c)
        ELSE IF init.e = "list" THEN BindIf(lit, DeclNode(st, t, <<lit>>), st.n, t, c)
        ELSE If1(TypeOf(init, IF t = "List<String>" THEN Wanting(c, t) ELSE c) = t,
                 BindIf(x, DeclNode(st, t, <<x>>), st.n, t, c), c)

(* first in scope, then its initial value *)
LowerSelfDecl(st, t, c) ==
    LET c1 == WithVars(c, c.vars @@ (st.n :> t))
        x  == IF IsRef(t) THEN Lower(st.i[1], c1) ELSE LowerAs(st.i[1], c1, t)
    IN  IF st.i = <<>> THEN Bind(DeclNode(st, t, <<>>), st.n, t, c)
        ELSE If1(Assignable(c.p, TypeOf(st.i[1], Wanting(c1, t)), t), BindIf(x, DeclNode(st, t, <<x>>), st.n, t, c), c)

LowerObjectDecl(st, t, c) ==
    LET it == TypeOf(st.i[1], Wanting(c, t))
        x  == LowerAs(st.i[1], c, t)
    IN  IF st.i = <<>> THEN Bind(DeclNode(st, t, <<>>), st.n, t, c)
        ELSE If1(IF IsIface(c.p, t) THEN Assignable(c.p, it, t) ELSE it = t,
                 BindIf(x, DeclNode(st, t, <<x>>), st.n, t, c), c)

LowerDecl(st, c) ==
    LET t == Canon(st.t)
    IN  CASE st.decor = "copyd" \/ st.perm # "" \/ ~CheckType(c.p, t) -> No(c)
          [] t \in ScalarNames \cup {"pointer", "memorize", "uchar"} \/ IsBits(t) -> LowerScalarDecl(st, t, c)
          [] IsList(t) -> LowerListDecl(st, t, c)
          [] IsRef(t) \/ IsTable(t) -> LowerSelfDecl(st, t, c)
          [] OTHER -> LowerObjectDecl(st, t, c)

----------------------------------------------------------------------------
LowerBitAssign(st, c) ==
    LET parts == <<Lower(st.t.x, c), Lower(st.t.i, c)>>
    IN  Given(Assignable(c.p, TypeOf(st.x, c), "bit") \/ IntConstLit(st.x),
              Built(parts \o <<Lower(st.x, c)>>,
                    [k |-> "bitassign", o |-> "", x |-> parts[1], i |-> parts[2], v |-> Lower(st.x, c), bits |-> st.t.bits]))

(* A T& variable is assigned through; a table element is never a target. *)
LowerAssign(st, c) ==
    LET tgt == st.t
        vt  == VarType(c, tgt.n)
        xt  == TypeOf(st.x, Wanting(c, vt))
        rt  == TypeOf(tgt.x, c)
        ft  == FieldType(c.p, rt, tgt.n)
        node(o, t, x) == Built(<<t, x>>, [k |-> "assign", o |-> o, t |-> t, x |-> x])
        id  == [o |-> "id", n |-> tgt.n, t |-> vt]
        elem == IF ListElems[rt] = "float" THEN "float" ELSE "int"
    IN  CASE tgt.e = "id" ->
                IF tgt.n \notin DOMAIN c.vars THEN Refused
                ELSE IF IsRef(vt) THEN Given(Assignable(c.p, xt, vt) \/ Assignable(c.p, xt, Base(vt)),
                                             node("thru", id, Lower(st.x, c)))
                ELSE Given(Takes(c.p, xt, st.x, vt), node("var", id, LowerAs(st.x, c, vt)))
          [] tgt.e = "index" ->
                IF IsBits(rt) THEN LowerBitAssign(st, c)
                ELSE IF ~IsList(rt) THEN Refused
                ELSE Given(TypeOf(tgt.i, c) \in {"int", "?"} /\ Assignable(c.p, TypeOf(st.x, c), elem),
                           node("index", Lower([tgt EXCEPT !.bits = 0], c), Lower(st.x, c)))
          [] tgt.e = "member" ->
                IF ~IsStruct(c.p, rt) THEN Refused
                ELSE IF tgt.n \notin FieldNames(c.p, rt) THEN Refused
                ELSE Given(Takes(c.p, TypeOf(st.x, c), st.x, ft),
                           node("field", Lower(tgt, c), LowerAs(st.x, c, ft)))
          [] OTHER -> Refused

Printable == {"int", "String", "bool", "float", "long", "pointer", "null", "?", AnyT, "List<String>",
              "List<float>", "uchar", "int&", "float&"}
Says(st, c) == st.x.e = "mcall" /\ c.io # "" /\ st.x.x.e = "id" /\ st.x.x.n = c.io
LowerExprStmt(st, c) ==
    LET args == All(st.x.args, c)
        node(x) == Built(<<x>>, [k |-> "expr", o |-> "", x |-> x])
    IN  IF (IF st.x.e = "mcall" THEN Says(st, c) ELSE FALSE)
        THEN Given(st.x.m \in {"println", "print"}
                   /\ \A i \in DOMAIN args : TypeOf(st.x.args[i], c) \in Printable \/ IsBits(TypeOf(st.x.args[i], c)),
                   Built(args, [k |-> "print", o |-> "", args |-> args]))
        ELSE IF (IF st.x.e = "call" THEN st.x.conv = "" /\ st.x.f # "sum" ELSE FALSE)
        THEN node(LowerCall(st.x, c, TRUE)) ELSE node(Lower(st.x, c))

LowerReturn(st, c) ==
    LET x == LowerAs(st.x[1], c, c.ret)
        v == IF IsRef(c.ret) /\ Usable(x) THEN Bare(x) ELSE x
    IN  IF st.x = <<>> THEN [k |-> "return", o |-> "", x |-> <<>>]
        ELSE Given(c.ret # "void" /\ Assignable(c.p, TypeOf(st.x[1], Wanting(c, c.ret)), c.ret),
                   Built(<<v>>, [k |-> "return", o |-> "", x |-> <<v>>]))

(* Only a variable of a list or struct type is deleted, never a parameter  *)
(* whose storage is the caller's.                                          *)
LowerDelete(st, c) ==
    LET t == VarType(c, st.x.n)
        m == IF IsStruct(c.p, t) THEN Meth(c.p, t, "__delete__", TRUE) ELSE 0
        del == IF m = 0 THEN <<>> ELSE <<LowerMethod(m, st.x, <<>>, c, FALSE)>>
    IN  IF st.x.e # "id" THEN Refused
        ELSE Given(st.x.n \notin c.byRef /\ (IsList(t) \/ IsStruct(c.p, t)),
                   Built(del, [k |-> "delete", o |-> "", n |-> st.x.n, t |-> t, del |-> del]))

LowerCond(x, c) == Given(TypeOf(x, c) \in {"bool", "?"}, Lower(x, c))

(* The step is lowered before the body, in the scope of the initial part. *)
LowerForC(st, c) ==
    LET i  == LowerSeq(st.i, c)
        c1 == WithVars(c, i.vars)
        cond == LowerCond(st.c, c1)
        step == LowerSeq(st.st, c1)
        body == LowerSeq(st.b, WithVars(c, step.vars))
    IN  If1(i.ok, If1(Usable(cond) /\ step.ok, If1(body.ok,
            At([k |-> "forc", o |-> "", i |-> i.out, c |-> cond, st |-> step.out, b |-> body.out], c), c), c), c)

(* Only over a list that a variable holds. *)
LowerForIn(st, c) ==
    LET t == TypeOf(st.it, c)
        body == LowerSeq(st.b, WithVars(c, c.vars @@ (st.n :> ListElems[t])))
    IN  If1(IsList(t) /\ st.it.e = "id" /\ st.n \notin DOMAIN c.vars,
            If1(body.ok, At([k |-> "for", o |-> "", n |-> st.n, it |-> st.it.n, t |-> t, b |-> body.out], c), c), c)

LowerStmt(st, c) ==
    CASE st.k = "decl"   -> LowerDecl(st, c)
      [] st.k = "assign" -> At(LowerAssign(st, c), c)
      [] st.k = "expr"   -> At(LowerExprStmt(st, c), c)
      [] st.k = "return" -> At(LowerReturn(st, c), c)
      [] st.k = "break"  -> At([k |-> "break", o |-> ""], c)
      [] st.k = "log"    -> At(Built(<<Lower(st.x, c)>>, [k |-> "log", o |-> "", x |-> Lower(st.x, c)]), c)
      [] st.k = "delete" -> At(LowerDelete(st, c), c)
      [] st.k = "if"     -> If1(Usable(LowerCond(st.c, c)),
                                Blocks(<<st.t, st.el>>, LAMBDA b : [k |-> "if", o |-> "", c |-> LowerCond(st.c, c),
                                                                    t |-> b[1], el |-> b[2]], c), c)
      [] st.k = "while"  -> If1(Usable(LowerCond(st.c, c)),
                                Blocks(<<st.b>>, LAMBDA b : [k |-> "while", o |-> "", c |-> LowerCond(st.c, c), b |-> b[1]], c), c)
      [] st.k = "try"    -> If1(~UsesIn(st.c, st.n),
                                Blocks(<<st.b, st.c>>, LAMBDA b : [k |-> "try", o |-> "", b |-> b[1], c |-> b[2]], c), c)
      [] st.k = "forc"   -> LowerForC(st, c)
      [] st.k = "for"    -> LowerForIn(st, c)

----------------------------------------------------------------------------
(* Functions.  Every parameter but a copyd one is the caller's storage. *)
CopydParam(q) == q.decor = "copyd"
LowerFunc(p, f, nil) ==
    LET fn == p.fns[f]
        start == IF fn.self THEN 2 ELSE 1
        own   == SubSeq(fn.ps, start, Len(fn.ps))
        names == {fn.ps[i].n : i \in DOMAIN fn.ps}
        typ(n) == LET i == CHOOSE i \in DOMAIN fn.ps : fn.ps[i].n = n
                  IN  IF fn.self /\ i = 1 THEN fn.of ELSE fn.ps[i].t
        c == [Context(p, fn.ret) EXCEPT !.vars = [n \in names |-> typ(n)], !.nil = nil,
                !.byRef = {own[i].n : i \in {i \in DOMAIN own : ~CopydParam(own[i])}}]
        body == LowerSeq(fn.b, c)
        ok == /\ RetOK(p, fn.ret)
              /\ Cardinality(names) = Len(fn.ps)
              /\ \A i \in DOMAIN own : CheckType(p, own[i].t) /\ (CopydParam(own[i]) => CheckCopydType(p, own[i].t))
    IN  IF ok THEN body ELSE [ok |-> FALSE, out |-> <<>>, vars |-> <<>>]

LowerMain(p, nil) ==
    LET fn == p.fns[Max(Plain(p, "main"))]
        io == fn.ps[1].n
        c  == [Context(p, "void") EXCEPT !.io = io, !.vars = io :> "IOStream", !.nil = nil]
    IN  IF fn.ret = "void" /\ ParamTypes(fn) = <<"IOStream">> THEN LowerSeq(fn.b, c)
        ELSE [ok |-> FALSE, out |-> <<>>, vars |-> <<>>]

(* collect: plain functions, then methods, then main; what a later one may *)
(* use of an earlier one's nil result is known only from there on.         *)
Lowered(prog) ==
    LET p == CanonDecls(prog)
        order == LET first == SelectSeq([i \in DOMAIN p.fns |-> i], LAMBDA i : p.fns[i].of = "" /\ p.fns[i].n # "main")
                     then == SelectSeq([i \in DOMAIN p.fns |-> i], LAMBDA i : p.fns[i].of # "")
                 IN  first \o then
        all == FoldLeft(LAMBDA acc, f :
                    LET r == LowerFunc(p, f, acc.nil)
                    IN  [ok |-> acc.ok /\ r.ok, bodies |-> acc.bodies @@ (f :> r.out),
                         nil |-> IF Logs(p.fns[f].b) /\ p.fns[f].ret # "void" THEN acc.nil \cup {f} ELSE acc.nil],
                    [ok |-> TRUE, bodies |-> <<>>, nil |-> {}], order)
        main == LowerMain(p, all.nil)
    IN  IF ~Collected(p) THEN [ok |-> FALSE]
        ELSE IF ~(all.ok /\ main.ok) THEN [ok |-> FALSE]
        ELSE [ok |-> TRUE, p |-> p, bodies |-> all.bodies @@ (Max(Plain(p, "main")) :> main.out)]
=============================================================================

------------------------------- MODULE Syntax -------------------------------
(***************************************************************************)
(* The abstract syntax of QuarkLang.  The parser is a library of its own   *)
(* (github.com/QuarkLangCommunity/QuarkLangQkparser, re-exported by        *)
(* internal/lang/syntax.go); these are the nodes the checker, the slot     *)
(* resolver, the bytecode compiler and the evaluator switch on.            *)
(* An expression has a field e, a statement a field k; slot, bits, conv    *)
(* and idx are what the front end stamps on a node (0 and "" for none).    *)
(***************************************************************************)
EXTENDS Integers, Sequences

(* expressions *)
Num(v)  == [e |-> "int", v |-> v]
Bool(v) == [e |-> "bool", v |-> v]
Flt(h)  == [e |-> "float", v |-> h]         \* a number of halves
Str(c)  == [e |-> "str", v |-> c]           \* a String code
Null    == [e |-> "null"]
Id(n)   == [e |-> "id", n |-> n, slot |-> 0]
Un(op, x)     == [e |-> "un", op |-> op, x |-> x, bits |-> 0]
Bin(op, l, r) == [e |-> "bin", op |-> op, l |-> l, r |-> r, bits |-> 0]
Index(x, i)   == [e |-> "index", x |-> x, i |-> i, bits |-> 0]
Member(x, n)  == [e |-> "member", x |-> x, n |-> n]
Call(f, args) == [e |-> "call", f |-> f, args |-> args, conv |-> "", idx |-> 0]
MCall(x, m, args)  == [e |-> "mcall", x |-> x, m |-> m, args |-> args]
SCall(sp, m, args) == [e |-> "scall", sp |-> sp, m |-> m, args |-> args]
SignCall(f, args, sign) == [e |-> "sign", f |-> f, args |-> args, sign |-> sign, idx |-> 0]
ListLit(items)     == [e |-> "list", items |-> items]
Field(n, x)        == [n |-> n, x |-> x, bits |-> 0]
StructLit(n, fs)   == [e |-> "struct", n |-> n, fs |-> fs]
New(t, size)       == [e |-> "new", t |-> t, size |-> size]    \* size: a sequence of 0 or 1
Inc(x)             == [e |-> "inc", x |-> x]

(* statements; an optional part is a sequence of 0 or 1 *)
Do(x)         == [k |-> "expr", x |-> x]
Delete(x)     == [k |-> "delete", x |-> x]
Log(x)        == [k |-> "log", x |-> x]
Return(x)     == [k |-> "return", x |-> <<x>>]
ReturnNil     == [k |-> "return", x |-> <<>>]
Break         == [k |-> "break"]
If(c, t, el)  == [k |-> "if", c |-> c, t |-> t, el |-> el]
While(c, b)   == [k |-> "while", c |-> c, b |-> b]
ForIn(n, it, b)    == [k |-> "for", n |-> n, it |-> it, b |-> b]
ForC(i, c, st, b)  == [k |-> "forc", i |-> i, c |-> c, st |-> st, b |-> b]
Try(b, n, c)       == [k |-> "try", b |-> b, n |-> n, c |-> c]
Decl(t, n, i)      == [k |-> "decl", t |-> t, n |-> n, i |-> i, decor |-> "", perm |-> "", scope |-> "", bits |-> 0]
DeclAs(d, t, n, i) == [Decl(t, n, i) EXCEPT !.decor = d]
DeclRef(p, sc, t, n, i) == [Decl(t, n, i) EXCEPT !.perm = p, !.scope = sc]   \* &perm scope t n = i
Assign(t, x)       == [k |-> "assign", t |-> t, x |-> x, bits |-> 0]

(* functions and methods: of is the type a method belongs to, "" for a function *)
Param(t, n)        == [t |-> t, n |-> n, decor |-> "", perm |-> "", scope |-> ""]
ParamAs(d, t, n)   == [Param(t, n) EXCEPT !.decor = d]
Fn(n, ps, ret, b)  == [n |-> n, ps |-> ps, ret |-> ret, b |-> b, of |-> "", self |-> FALSE]
Method(t, self, n, ps, ret, b) == [Fn(n, ps, ret, b) EXCEPT !.of = t, !.self = self]
=============================================================================

------------------------------ MODULE MCLanguage ------------------------------
(***************************************************************************)
(* Programs for the model checker.  A program has the functions below and  *)
(* a main that declares one variable of each kind and then runs the chosen *)
(* statements: those numbered below 100 stand in main, the others in the   *)
(* function g(int a, bool q), whose body is in the subset the bytecode     *)
(* compiler takes; g is called when there is one.                          *)
(***************************************************************************)
EXTENDS Language

B(op, l, r) == Bin(op, l, r)
x  == Id("x")   u == Id("u")   b == Id("b")   c == Id("c")   l == Id("l")   p == Id("p")
a  == Id("a")   q == Id("q")   y == Id("y")
N(v) == Num(v)
Asg(v, e) == Assign(v, e)
Inc1 == Do([e |-> "inc", x |-> Id("r")])
Say(e) == Do(MCall(Id("io"), "println", <<e>>))

(* functions: by-reference parameters, a failure after an effect, two      *)
(* overloads, methods of P                                                 *)
IncFn  == Fn("inc", <<Param("int", "a")>>, "int", <<Asg(a, B("+", a, N(1))), Return(a)>>)
OopsFn == Fn("oops", <<Param("int", "a")>>, "int", <<Asg(a, B("+", a, N(1))), Return(B("/", a, N(0)))>>)
MixFn  == Fn("mix", <<Param("int", "a"), ParamAs("copyd", "List<int>", "k")>>, "int",
           <<Do(MCall(Id("k"), "append", <<a>>)), Asg(a, MCall(Id("k"), "size", <<>>)), Return(a)>>)
TakeFn == Fn("take", <<Param("List<int>", "k")>>, "int",
             <<Do(MCall(Id("k"), "append", <<N(8)>>)), Return(MCall(Id("k"), "size", <<>>))>>)
OwnFn  == Fn("own", <<ParamAs("copyd", "Q", "k")>>, "int",
             <<Do(MCall(Member(Id("k"), "t"), "append", <<N(7)>>)),
               Asg(Member(Member(Id("k"), "h"), "f"), N(77)),
               Return(MCall(Member(Id("k"), "t"), "size", <<>>))>>)
BothFn == Fn("both", <<Param("List<int>", "t"), Param("P", "h")>>, "int",
             <<Decl("Q", "z", <<StructLit("", <<Field("t", Id("t")), Field("h", Id("h"))>>)>>),
               Return(Call("own", <<Id("z")>>))>>)
PickI == Fn("pick", <<Param("int", "a")>>, "int", <<Return(B("+", a, N(1)))>>)
PickF == Fn("pick", <<Param("float", "a")>>, "int", <<Return(Call("int", <<N(9)>>))>>)
GetOfP  == Method("P", TRUE, "get", <<Param("P", "self"), Param("int", "i")>>, "int",
               <<Return(B("+", Member(Id("self"), "f"), Id("i")))>>)
SizeOfP == Method("P", TRUE, "size", <<Param("P", "self")>>, "int", <<Return(N(2))>>)
AddOfP  == Method("P", TRUE, "__add__", <<Param("P", "self"), Param("P", "o")>>, "P",
               <<Asg(Member(Id("self"), "f"), B("+", Member(Id("self"), "f"), Member(Id("o"), "f"))),
                 Return(Id("self"))>>)

MeasureFn == Fn("measure", <<Param("Sized", "s")>>, "int", <<Return(MCall(Id("s"), "size", <<>>))>>)
DropOfP == Method("P", TRUE, "__delete__", <<Param("P", "self")>>, "", <<Asg(Member(Id("self"), "f"), N(0))>>)

Header == <<Decl("int", "x", <<N(3)>>), Decl("uchar", "u", <<N(9)>>), Decl("bits4", "b", <<N(5)>>),
            Decl("bool", "c", <<B("<", N(2), x)>>), Decl("List<int>", "l", <<ListLit(<<N(1), N(2)>>)>>),
            Decl("P", "p", <<StructLit("", <<Field("f", N(1)), Field("w", N(2))>>)>>)>>

InMain == <<
 (* 1*) Asg(x, B("+", x, N(100))),
 (* 2*) Asg(u, B("+", u, x)),
 (* 3*) Asg(b, B("<<", b, N(1))),
 (* 4*) Asg(Index(b, N(1)), N(1)),
 (* 5*) Do(Call("inc", <<x>>)),
 (* 6*) Do(Call("inc", <<Index(l, N(0))>>)),
 (* 7*) If(c, <<Decl("int", "y", <<x>>)>>, <<>>),
 (* 8*) Decl("int", "y", <<B("+", Call("inc", <<x>>), x)>>),
 (* 9*) Asg(x, y),
 (*10*) While(B("<", x, N(6)), <<Asg(x, B("+", x, N(1))), If(c, <<Break>>, <<>>)>>),
 (*11*) ForIn("i", l, <<Asg(x, B("+", x, Id("i"))), Decl("int", "z", <<x>>)>>),
 (*12*) Try(<<Do(Call("oops", <<x>>)), Asg(x, N(0))>>, "e", <<Asg(c, Un("!", c))>>),
 (*13*) Do(MCall(l, "append", <<x>>)),
 (*14*) Do(MCall(l, "next", <<>>)),
 (*15*) Decl("int&", "r", <<Un("&", Index(l, N(1)))>>),
 (*16*) Asg(Id("r"), N(20)),
 (*17*) Asg(p, B("+", p, p)),
 (*18*) ForIn("i", p, <<Asg(u, Id("i"))>>),
 (*19*) Asg(c, B("===", Index(l, N(1)), Id("r"))),
 (*20*) Do(Call("mix", <<Member(p, "f"), l>>)),
 (*21*) Asg(Member(p, "w"), Call("uchar", <<x>>)),
 (*22*) ForC(<<Decl("int", "x", <<N(0)>>)>>, B("<", x, N(2)), <<Asg(x, B("+", x, N(1)))>>,
             <<Try(<<Break>>, "e", <<Asg(b, Un("~", b))>>)>>),
 (*23*) Asg(x, Call("pick", <<Flt(3)>>)),
 (*24*) Do(Call("inc", <<u>>)),
 (*25*) Decl("int", "y", <<>>),
 (*26*) Asg(x, Call("measure", <<p>>)),
 (*27*) Decl("HashTable<int,int>", "k", <<SCall("HashTable", "new", <<>>)>>),
 (*28*) Do(MCall(Id("k"), "put", <<N(1), x>>)),
 (*29*) Decl("memorize", "m", <<SCall("memorize", "new", <<>>)>>),
 (*30*) Asg(x, SignCall("inc", <<x>>, "m")),
 (*31*) Inc1,
 (*32*) Delete(p),
 (*33*) If(Un("!", c), <<Decl("int", "y", <<x>>)>>, <<>>),
 (*34*) Say(Id("i")),
 (*35*) Asg(c, Call("bool", <<x>>)),
 (*36*) Decl("float", "y", <<B("/", Flt(3), Flt(1))>>),
 (*37*) Asg(Index(l, N(1)), Call("inc", <<x>>)),
 (*38*) Asg(Index(l, B("-", x, N(2))), B("/", x, B("-", N(4), x))),
 (*39*) Decl("List<int>", "k", <<l>>),
 (*40*) Do(MCall(Id("k"), "append", <<N(4)>>)),
 (*41*) DeclAs("copyd", "P", "k", <<p>>),
 (*42*) Asg(Member(Id("k"), "f"), x),
 (*43*) Asg(u, B("-", u, N(10))),
 (*44*) Say(l),
 (*45*) Asg(x, Call("both", <<l, p>>)),
 (*46*) DeclAs("copyd", "List<int>", "k", <<l>>),
 (*47*) Do(Call("take", <<Id("k")>>)),
 (*48*) Do(Call("mix", <<Member(p, "f"), Id("k")>>)),
 (*49*) Try(<<Asg(x, B("+", x, N(1))), Asg(x, B("/", x, B("-", x, N(4)))), Asg(u, N(0))>>, "e", <<Asg(c, Un("!", c))>>) >>

InFun == <<
 (*1*) Asg(a, B("*", a, N(50))),
 (*2*) Decl("int", "k", <<B("+", a, N(1))>>),
 (*3*) While(B("<", Id("k"), N(6)), <<Asg(Id("k"), B("+", Id("k"), N(1))), If(B("==", Id("k"), N(5)), <<Break>>, <<>>)>>),
 (*4*) Asg(a, B("+", Call("inc", <<Id("k")>>), Id("k"))),
 (*5*) If(B("&&", q, B("<", a, N(4))), <<Return(B("%", N(7), a))>>, <<Asg(q, B("!=", a, N(3)))>>),
 (*6*) Do(Call("inc", <<a>>)),
 (*7*) ForC(<<Decl("int", "j", <<N(0)>>)>>, B("||", B("<", Id("j"), N(2)), q), <<Asg(Id("j"), B("+", Id("j"), N(1)))>>,
            <<Asg(a, B("-", a, Id("j"))), Asg(q, Bool(0))>>),
 (*8*) Return(B("/", a, B("-", Id("k"), N(4)))),
 (*9*) If(B("==", q, Bool(1)), <<Asg(a, N(1))>>, <<>>) >>

Body(t, pool, from) == LET m == SelectSeq(t, LAMBDA i : i \in from .. from + 99)
                       IN  [i \in DOMAIN m |-> pool[m[i] - from]]

MCStatements == (1 .. Len(InMain)) \cup {100 + i : i \in DOMAIN InFun}
MCProgram(t) ==
    LET g    == Fn("g", <<Param("int", "a"), Param("bool", "q")>>, "int", Body(t, InFun, 100))
        call == IF g.b = <<>> THEN <<>> ELSE <<Say(Call("g", <<x, c>>)), Say(x)>>
        main == Fn("main", <<Param("IOStream", "io")>>, "", Header \o Body(t, InMain, 0) \o call)
        picks == IF 23 \in ToSet(t) THEN <<PickI, PickF>> ELSE <<>>
    IN  [fns |-> <<IncFn, OopsFn, MixFn, TakeFn, OwnFn, BothFn>> \o picks \o <<GetOfP, SizeOfP, AddOfP, MeasureFn, DropOfP, g, main>>,
         structs |-> [P |-> <<Param("int", "f"), Param("uchar", "w")>>,
                     Q |-> <<Param("List<int>", "t"), Param("P", "h")>>],
         ifaces |-> [Sized |-> [methods |-> <<[n |-> "size", ps |-> <<"Self">>, ret |-> "int"]>>,
                                expands |-> <<>>, partial |-> FALSE]],
         impls |-> <<[typ |-> "P", iface |-> "Sized"]>>]
----------------------------------------------------------------------------
Ordered == \A i \in 2 .. Len(code) : code[i - 1] > 100 => code[i] > 100
Short   == Cardinality({i \in DOMAIN code : code[i] < 100}) <= 2

(* The slots and call targets stamped by resolveSlots and resolveCalls     *)
(* change nothing: a run that looks every name up ends the same, with the  *)
(* same output, variables and heap (slots.go, compile.go:17-80).           *)
SlotsAgree == phase = "walked" => walk = Interpreter(code, FALSE, FALSE)

(* Bytecode that is never given up does what the tree walker does: same    *)
(* error, output, variables and heap (vm.go:104-803 and eval.go).          *)
VmAgrees == phase = "done" /\ fast.black = {} => walk = fast

(* "The guard fires before any side effect, so nothing has been printed or *)
(* recorded yet" (eval.go:669): giving up the bytecode shows nowhere.      *)
DeoptHarmless == phase = "done" => walk = [fast EXCEPT !.black = {}]

(* Two holes of the checker are known.  23 calls an overload that is not   *)
(* the first of its name: checkFunc never sees its body                    *)
(* (typecheck.go:812).  33 declares a variable in a branch that is not     *)
(* taken: the checker has no flow.                                         *)
Holes == {23, 33}

(* A program the checker accepts meets no wrong type, unknown name, wrong  *)
(* arity or overload and no stray break at run time, outside the holes.    *)
CheckedRunsClean ==
    phase = "walked" /\ Range(code) \cap Holes = {}
        => walk.err \notin {"type", "undeclared", "overload", "arity", "break"}

VarNow(n) == LET V == walk.vars
             IN  V[CHOOSE i \in DOMAIN V : V[i][1] = n][2]
IntNow(n, S) == VarNow(n).tag = "int" /\ VarNow(n).i \in S

(* Whatever is computed, a variable keeps a value of its declared type and *)
(* width (maskForStore, eval.go:3538, at every store the checker stamped). *)
(* 24 is a hole: inc binds its int parameter to a uchar variable.          *)
WidthKept ==
    phase = "walked" /\ 24 \notin Range(code) =>
        /\ IntNow("x", -(2 ^ (IntBits - 1)) .. 2 ^ (IntBits - 1) - 1)
        /\ IntNow("u", 0 .. 2 ^ UcharBits - 1)
        /\ IntNow("b", 0 .. 15)
        /\ VarNow("c").tag = "bool"
        /\ walk.heap[VarNow("p").i].f["w"].i \in 0 .. 2 ^ UcharBits - 1

(* What a run of the interpreter shows, in the terms of a compiled one.    *)
(* Nil is what the interpreter leaves in a variable declared without a     *)
(* value and returns from a function that falls off its end; compiled code *)
(* has the zero of the type there (cgen.go emitRetZero).                   *)
Plain(v) == IF v.tag = "nil" THEN IntV(0) ELSE v
Lines(out) == LET P == SelectSeq(out, LAMBDA o : o.ev = "print")
              IN  [i \in DOMAIN P |-> [j \in DOMAIN P[i].vs |-> [k \in DOMAIN P[i].vs[j] |-> Plain(P[i].vs[j][k])]]]
Reached(v) ==
    CASE v.tag = "struct" -> <<walk.heap[v.i].f>>
      [] v.tag = "list"   -> <<Val("list", 0)>> \o SubSeq(walk.heap[v.i].items, walk.heap[v.i].head + 1, Len(walk.heap[v.i].items))
      [] v.tag = "table"  -> <<walk.heap[v.i].m>>
      [] v.tag \in {"int", "float", "bool", "str", "nil"} -> <<Plain(v)>>
      [] OTHER            -> <<>>
Freed == <<>>       \* what is left of an object that was deleted

(* Both ran to an end: the compiler took the program, nothing it computed  *)
(* is undefined in its target, and no run was cut off.                     *)
BothEnded == phase = "compiled" /\ built.err \notin {"refused", "undefined", "fuel"} /\ walk.err # "fuel"

SameShow ==
    /\ built.err = walk.err
    /\ Lines(built.out) = Lines(walk.out)
    /\ \A i \in DOMAIN walk.vars :
           LET n == walk.vars[i][1]
           IN  n \in DOMAIN built.vars => built.vars[n] \in {Freed, Reached(walk.vars[i][2])}

(* Four statements are compiled to something else.  12 (documented in      *)
(* docs/ARCHITECTURE.md:191): an error of a callee does not come back to   *)
(* the try around the call.  24: inc binds its int parameter to the uchar  *)
(* variable, and the compiled call to a copy of it.  38: of two errors in  *)
(* l[i] = v the interpreter meets that of v first, compiled code that of   *)
(* the index (eval.go execAssign, cgen.go:2548).  35: bool(x) of an even   *)
(* int is true under the interpreter (convValue, eval.go:3512) and, cut to *)
(* its low bit, false compiled (cgen.go:4098).                             *)
CompiledHoles == {12, 24, 35, 38}

(* "The same source must produce byte-identical output" (lower.go:6): what *)
(* the compiler accepts ends with the same error, the same lines printed   *)
(* and the same variables, lists and structs as under the interpreter,     *)
(* outside the holes.                                                      *)
CompiledAgrees == BothEnded /\ Range(code) \cap CompiledHoles = {} => SameShow

(* What is copied shares nothing with what it was copied from: a copyd     *)
(* parameter with the lists and structs inside it, and a copyd list with   *)
(* the list it was made from.  l grows by the appends of main and of a     *)
(* callee through its plain alias k (39), a copyd k (46) by main's own;    *)
(* only own writes 77 into a field f (callFunc and execute,                *)
(* eval.go:634-660, 1590-1621; copyDeep, value.go).  Excluded is a copyd   *)
(* list passed to a copyd parameter (46 and 48), which is bound without a  *)
(* copy (eval.go:1604).                                                    *)
Times(S) == Cardinality({i \in DOMAIN code : code[i] \in S})
Items(v) == Len(walk.heap[IF v.tag = "copyd" THEN walk.heap[v.i].v.i ELSE v.i].items)
Before(n, S) == Cardinality({i \in DOMAIN code : code[i] \in S /\ \E j \in DOMAIN code : j > i /\ code[j] = n})
CopydApart ==
    phase = "walked" /\ walk.err = "" =>
        /\ Items(VarNow("l")) = 2 + Times({13}) + (IF 39 \in Range(code) THEN Times({40, 47}) ELSE 0)
        /\ 46 \in Range(code) /\ 48 \notin Range(code) =>
               Items(VarNow("k")) = 2 + Before(46, {13}) + Times({40})
        /\ walk.heap[VarNow("p").i].f["f"] # IntV(77)
=============================================================================

-------------------------------- MODULE Types --------------------------------
(***************************************************************************)
(* The static types of internal/lang/typecheck.go and the rules that       *)
(* relate them: which type may be assigned to, passed to or converted to   *)
(* which, what a reference permits, what an interface requires.            *)
(* Generic type parameters and the opaque FFI pointer are left out.        *)
(***************************************************************************)
EXTENDS Syntax, Values, SequencesExt

Ty(k)        == [k |-> k]
ListOf(t)    == [k |-> "list", elem |-> t]
TableOf(key, val) == [k |-> "table", key |-> key, val |-> val]
PtrTo(t)     == [k |-> "ptr", elem |-> t]
CopydOf(t)   == [k |-> "copyd", elem |-> t]
StructOf(n)  == [k |-> "struct", n |-> n]
IfaceOf(n)   == [k |-> "iface", n |-> n]
FuncOf(n)    == [k |-> "func", n |-> n]
BitsOf(w)    == [k |-> "bits", w |-> w]

IsRawBits(t) == t.k = "bits"
IsIntView(t) == t.k \in {"int", "uchar"}
IsNumericT(t) == t.k \in {"int", "float", "uchar"}
ViewWidth(t) == CASE t.k = "bool" -> 1 [] t.k = "uchar" -> UcharBits [] t.k = "int" -> IntBits [] OTHER -> 0
\* StoreWidth as a mutation: a uchar is stored as an int.
StoreWidthNoUchar(t) == IF IsRawBits(t) THEN t.w ELSE 0

StoreWidth(t) == CASE IsRawBits(t) -> t.w [] t.k = "uchar" -> UcharBits [] OTHER -> 0
TypeWidth(t) == IF IsRawBits(t) THEN t.w ELSE ViewWidth(t)

(* A type annotation.  An instance of the type checker knows the declared  *)
(* structs and interfaces; Self is the type a method belongs to.           *)
Scalars == [int |-> "int", long |-> "int", char |-> "int", float |-> "float", double |-> "float",
            bool |-> "bool", uchar |-> "uchar", String |-> "str", void |-> "any",
            memorize |-> "memorize", IOStream |-> "io"]
Generics == ("List<int>" :> ListOf(Ty("int"))) @@ ("List<float>" :> ListOf(Ty("float")))
            @@ ("List<uchar>" :> ListOf(Ty("uchar"))) @@ ("List<any>" :> ListOf(Ty("any")))
            @@ ("HashTable<int,int>" :> TableOf(Ty("int"), Ty("int")))
            @@ ("int&" :> PtrTo(Ty("int"))) @@ ("float&" :> PtrTo(Ty("float"))) @@ ("P&" :> PtrTo(StructOf("P")))

Resolvable(name, env) == name \in DOMAIN Scalars \cup DOMAIN Generics \cup DOMAIN RawTypes
                                  \cup DOMAIN env.structs \cup DOMAIN env.ifaces \cup {"Self"}
ResolveType(name, env) ==
    CASE name \in DOMAIN Scalars  -> Ty(Scalars[name])
      [] name \in DOMAIN Generics -> Generics[name]
      [] IsRawType(name)          -> BitsOf(RawTypes[name])
      [] name = "Self"            -> StructOf(env.self)
      [] name \in DOMAIN env.structs -> StructOf(name)
      [] name \in DOMAIN env.ifaces  -> IfaceOf(name)

----------------------------------------------------------------------------
(* What may be assigned to what; the order of the tests matters. *)
RECURSIVE Assignable(_, _)
Assignable(from, to) ==
    CASE to.k = "any" \/ from.k = "any" -> TRUE
      [] from.k = "nil" -> FALSE
      [] from.k = "int" /\ to.k = "float" -> TRUE
      [] IsRawBits(to) -> from = to
      [] IsRawBits(from) -> FALSE
      [] to.k = "uchar" -> IsIntView(from)
      [] from.k = "uchar" -> IsIntView(to)
      [] to.k = "ptr" ->
            CASE from.k = "null" -> TRUE
              [] from.k = "ptr"  -> Assignable(from.elem, to.elem)
              [] OTHER           -> Assignable(from, to.elem)
      [] to.k = "iface" -> from.k \in {"iface", "struct"}
      [] from.k = "copyd" -> Assignable(from.elem, to)
      [] to.k = "copyd" -> Assignable(from, to.elem)
      [] from.k # to.k -> FALSE
      [] to.k = "list" -> Assignable(from.elem, to.elem)
      [] to.k = "table" -> Assignable(from.key, to.key) /\ Assignable(from.val, to.val)
      [] to.k \in {"func", "struct"} -> from.n = to.n
      [] OTHER -> TRUE

(* A raw-bits or uchar parameter takes exactly its own kind. *)
Passable(from, to) == Assignable(from, to) /\ (to.k = "uchar" \/ IsRawBits(to) => from.k = to.k)

(* The common type of the elements of a list literal. *)
RECURSIVE Join(_, _)
Join(a, b) ==
    CASE a.k = "any" \/ b.k = "any" -> Ty("any")
      [] a.k = b.k -> IF a.k # "list" THEN a
                      ELSE IF a.elem.k = b.elem.k THEN ListOf(Join(a.elem, b.elem)) ELSE a
      [] {a.k, b.k} = {"int", "float"} -> Ty("float")
      [] OTHER -> Ty("any")

(* An integer constant: a literal, possibly negated. *)
RECURSIVE IsIntConst(_)
IsIntConst(e) == CASE e.e = "int" -> TRUE
                   [] e.e = "un"  -> e.op = "-" /\ IsIntConst(e.x)
                   [] OTHER       -> FALSE
RECURSIVE IntConst(_)
IntConst(e) == IF e.e = "int" THEN e.v ELSE -IntConst(e.x)
ConstBitIndexOk(idx, w) == IsIntConst(idx) => IntConst(idx) \in 0 .. w - 1

(* Assignable, or a constant given to raw bits. *)
Fits(t, x, to) == Assignable(t, to) \/ (IsRawBits(to) /\ IsIntConst(x))

(* T(x): the name of T and whether the operand may be converted. *)
ConvNames == {"uchar", "int", "long", "char", "bool"} \cup DOMAIN RawTypes
ConvDst(name) == IF IsRawType(name) THEN BitsOf(RawTypes[name]) ELSE Ty(Scalars[name])
Convertible(dst, src, arg) ==
    CASE IsRawBits(dst) -> src = dst \/ ViewWidth(src) = dst.w \/ IsIntConst(arg)
      [] dst.k = "uchar" -> (IsRawBits(src) /\ TypeWidth(src) = UcharBits) \/ IsIntView(src)
      [] IsRawBits(src) -> src.w = ViewWidth(dst)
      [] OTHER -> IsIntView(src) \/ (src.k = "bool" /\ dst.k = "bool")

----------------------------------------------------------------------------
(* References: what a permission allows, how far a scope reaches. *)
DefaultPerm  == "rwm"
DefaultScope == "u"
Perms == [rwm |-> {"r", "w", "m"}, rw |-> {"r", "w"}, rm |-> {"r", "m"}, wm |-> {"w", "m"},
          r |-> {"r"}, w |-> {"w"}, m |-> {"m"}]
IsRefKind(t) == t.k = "ptr"
RefAllows(perm, need) == need \in Perms[perm]
RefPermCovers(src, dst) == Perms[dst] \subseteq Perms[src]
RefScopeRank == [u |-> 3, t |-> 2, a |-> 1, f |-> 0]
PermOf(d)  == IF d.perm = "" THEN DefaultPerm ELSE d.perm
ScopeOf(d) == IF d.scope = "" THEN DefaultScope ELSE d.scope

(* A reference given to another: the permission may only narrow, and the   *)
(* scope of the new one may not be wider.                                  *)
RefMayPass(src, perm, scope) ==
    RefPermCovers(src.perm, perm) /\ RefScopeRank[src.scope] >= RefScopeRank[scope]

----------------------------------------------------------------------------
(* Interfaces: an interface is [methods, expands, partial]; its own        *)
(* methods come before those of the interfaces it expands.                 *)
RECURSIVE IfaceSigs(_, _, _)
IfaceSigs(name, env, seen) ==
    IF name \in seen \/ name \notin DOMAIN env.ifaces THEN <<>>
    ELSE env.ifaces[name].methods
         \o FlattenSeq([i \in DOMAIN env.ifaces[name].expands |->
                            IfaceSigs(env.ifaces[name].expands[i], env, seen \cup {name})])

SigOf(name, m, env) == LET S == IfaceSigs(name, env, {})
                       IN  S[CHOOSE i \in DOMAIN S : S[i].n = m /\ \A j \in 1 .. i - 1 : S[j].n # m]
SigNames(name, env) == {IfaceSigs(name, env, {})[i].n : i \in DOMAIN IfaceSigs(name, env, {})}

SigCompatible(a, b) ==
    LET same(x, y) == x = y \/ x = "Self" \/ y = "Self"
    IN  /\ Len(a.ps) = Len(b.ps)
        /\ same(a.ret, b.ret)
        /\ \A i \in DOMAIN b.ps : same(a.ps[i], b.ps[i])

IfaceCovers(from, to, env) ==
    from = to \/ \A m \in SigNames(to, env) :
                    /\ m \in SigNames(from, env)
                    /\ SigCompatible(SigOf(from, m, env), SigOf(to, m, env))

SelfMeth(typ, m, env) ==
    LET D == {i \in DOMAIN env.fns : env.fns[i].n = m /\ env.fns[i].of = typ /\ env.fns[i].self}
    IN  IF D = {} THEN 0 ELSE Min(D)
StaticMeth(typ, m, env) ==
    LET D == {i \in DOMAIN env.fns : env.fns[i].n = m /\ env.fns[i].of = typ /\ ~env.fns[i].self}
    IN  IF D = {} THEN 0 ELSE Min(D)

(* By the names of the methods, one level of expands deep. *)
Implements(typ, iface, env) ==
    LET I == env.ifaces[iface]
        names == {I.methods[i].n : i \in DOMAIN I.methods}
                 \cup UNION {{env.ifaces[x].methods[i].n : i \in DOMAIN env.ifaces[x].methods} :
                             x \in ToSet(I.expands) \cap DOMAIN env.ifaces}
    IN  I.partial \/ \A m \in names : SelfMeth(typ, m, env) > 0

IfaceStrict(from, to, env) ==
    to.k = "iface" => CASE from.k = "iface"  -> IfaceCovers(from.n, to.n, env)
                        [] from.k = "struct" -> Implements(from.n, to.n, env)
                        [] OTHER             -> TRUE
=============================================================================

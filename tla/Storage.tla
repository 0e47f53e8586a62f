------------------------------- MODULE Storage -------------------------------
(***************************************************************************)
(* What a QuarkLang program can write to: the scopes of eval.go, the heap  *)
(* objects and the reference cells of value.go.                            *)
(*                                                                         *)
(* A store is a record: scopes and heap are sequences whose indices are    *)
(* the pointers of the Go code, out is the list of observable effects, fns *)
(* and structs are the registered program, black the functions whose       *)
(* bytecode was thrown away, vm whether bytecode may run at all.           *)
(* An outcome carries a value, the store it leaves and an error: "" for    *)
(* none, "return" and "break" for the two control signals that the Go code *)
(* passes as errors, otherwise the kind of the RunError.                   *)
(***************************************************************************)
EXTENDS Values, SequencesExt

None == 0       \* no scope

R(v, s)      == [v |-> v, s |-> s, err |-> ""]
Err(kind, s) == [v |-> NilV, s |-> s, err |-> kind]
Lift(v, s)   == IF Failed(v) THEN Err(v.err, s) ELSE R(v, s)

(* Sequencing: F runs on the value and the store of r unless r is an error. *)
Then(r, F(_, _)) == IF r.err # "" THEN r ELSE F(r.v, r.s)

----------------------------------------------------------------------------
(* Scopes. *)
AddScope(s, names, vals, outer) ==
    [s EXCEPT !.scopes = Append(@, [names |-> names, vals |-> vals,
                                    n |-> Len(names), outer |-> outer])]
NewScope(s, outer) == AddScope(s, <<>>, <<>>, outer)
Last1(s) == Len(s.scopes)

(* the first slot of that name, 0 when there is none *)
ParamIndex(s, sc, name) ==
    LET N == s.scopes[sc].names
    IN  IF \E i \in DOMAIN N : N[i] = name
        THEN CHOOSE i \in DOMAIN N : N[i] = name /\ \A j \in 1 .. i - 1 : N[j] # name
        ELSE 0

RECURSIVE FindScope(_, _, _)
FindScope(s, sc, name) ==
    IF sc = None \/ ParamIndex(s, sc, name) > 0 THEN sc
    ELSE FindScope(s, s.scopes[sc].outer, name)

RawGet(s, sc, name) == LET i == ParamIndex(s, sc, name)
                       IN  IF i > 0 THEN s.scopes[sc].vals[i] ELSE NilV

SetSlot(s, sc, i, v) == [s EXCEPT !.scopes[sc].vals[i] = v]

RawSet(s, sc, name, v) == LET i == ParamIndex(s, sc, name)
                          IN  IF i > 0 THEN SetSlot(s, sc, i, v) ELSE s

(* A parameter keeps its bound value; a local declared again gets a new one. *)
Declare(s, sc, name, v) ==
    LET i == ParamIndex(s, sc, name)
    IN  CASE i = 0 -> [s EXCEPT !.scopes[sc].names = Append(@, name),
                                !.scopes[sc].vals = Append(@, v)]
          [] i \in 1 .. s.scopes[sc].n -> s
          [] OTHER -> SetSlot(s, sc, i, v)

----------------------------------------------------------------------------
(* The rolling List: the visible elements are items[head + 1 .. Len(items)]. *)
IsObj(s, v, kind) == v.tag = kind /\ s.heap[v.i].k = kind
Obj(s, v)      == s.heap[v.i]
ListSize(l)    == Len(l.items) - l.head
ListGet(l, i)  == IF i < 0 \/ i >= ListSize(l) THEN Fail("index") ELSE l.items[l.head + i + 1]
ListSet(s, h, i, v) ==
    IF i < 0 \/ i >= ListSize(s.heap[h]) THEN Err("index", s)
    ELSE R(NilV, [s EXCEPT !.heap[h].items[s.heap[h].head + i + 1] = v])
ListAppend(s, h, v) == [s EXCEPT !.heap[h].items = Append(@, v)]
ListPeek(l)    == IF ListSize(l) = 0 THEN Fail("exhausted") ELSE l.items[l.head + 1]
ListNext(s, h) == IF ListSize(s.heap[h]) = 0 THEN Err("exhausted", s)
                  ELSE R(s.heap[h].items[s.heap[h].head + 1], [s EXCEPT !.heap[h].head = @ + 1])

Alloc(s, obj) == R(Val(obj.k, Len(s.heap) + 1), [s EXCEPT !.heap = Append(@, obj)])
NewList(items) == [k |-> "list", items |-> items, head |-> 0]

(* A table key is the value by its content: a list is known by its elements. *)
KeyOf(s, v) == IF v.tag = "list"
               THEN <<Val("list", 0)>> \o SubSeq(Obj(s, v).items, Obj(s, v).head + 1, Len(Obj(s, v).items))
               ELSE <<v>>

----------------------------------------------------------------------------
(* Reference cells. *)
Load(s, r) ==
    CASE r.kind = "ident"  -> RawGet(s, r.obj, r.key)
      [] r.kind = "member" -> LET f == s.heap[r.obj].f
                              IN  IF r.key \in DOMAIN f THEN f[r.key] ELSE NilV
      [] r.kind = "index"  -> LET v == ListGet(s.heap[r.obj], r.key)
                              IN  IF Failed(v) THEN NilV ELSE v

RECURSIVE Deref(_, _)
Deref(s, v) == IF v.tag = "ref" THEN Deref(s, Load(s, v)) ELSE v

(* ok is FALSE when the target is not writable; a chain is written through. *)
RECURSIVE StoreRef(_, _, _)
StoreRef(s, r, v) ==
    CASE r.kind = "ident" ->
            LET cur == RawGet(s, r.obj, r.key)
            IN  IF cur.tag = "ref" /\ cur # r THEN StoreRef(s, cur, v)
                ELSE [ok |-> ParamIndex(s, r.obj, r.key) > 0, s |-> RawSet(s, r.obj, r.key, v)]
      [] r.kind = "member" ->
            IF r.key \in DOMAIN s.heap[r.obj].f
            THEN [ok |-> TRUE, s |-> [s EXCEPT !.heap[r.obj].f[r.key] = v]]
            ELSE [ok |-> FALSE, s |-> s]
      [] r.kind = "index" ->
            LET w == ListSet(s, r.obj, r.key, v) IN [ok |-> w.err = "", s |-> w.s]

(* Assignment to a slot: a slot that holds a reference is written through. *)
StoreSlot(s, sc, i, v) ==
    LET cur == s.scopes[sc].vals[i]
        w   == StoreRef(s, cur, v)
    IN  IF cur.tag = "ref" /\ w.ok THEN w.s ELSE SetSlot(s, sc, i, v)

Set(s, sc, name, v) ==
    LET o == FindScope(s, sc, name)
    IN  IF o = None THEN Err("undeclared", s)
        ELSE R(NilV, StoreSlot(s, o, ParamIndex(s, o, name), v))

Get(s, sc, name) ==
    LET o == FindScope(s, sc, name)
    IN  IF o = None THEN Fail("undeclared") ELSE Deref(s, RawGet(s, o, name))

----------------------------------------------------------------------------
\* CopyDeep as a mutation: what the copy holds stays shared with the original.
CopyShallow(ref, deep, s) ==
    LET v == Deref(s, ref)
    IN  IF v.tag \in {"list", "table"} \/ (v.tag = "struct" /\ deep) THEN Alloc(s, Obj(s, v)) ELSE R(v, s)

(* copyDeep: lists and tables always, structs only for a copyd binding. *)
RECURSIVE CopyDeep(_, _, _)
CopyAll(vs, deep, s) ==
    FoldLeft(LAMBDA acc, v : LET c == CopyDeep(v, deep, acc.s)
                             IN  R(Append(acc.v, c.v), c.s), R(<<>>, s), vs)
CopyDeep(ref, deep, s) ==
    LET v == Deref(s, ref)
        o == Obj(s, v)
        names == SetToSeq(DOMAIN o.f)
    IN  CASE v.tag = "list" -> LET c == CopyAll(o.items, deep, s)
                               IN  Alloc(c.s, [o EXCEPT !.items = c.v])
          [] v.tag = "struct" /\ deep ->
                LET c == CopyAll([i \in DOMAIN names |-> o.f[names[i]]], TRUE, s)
                IN  Alloc(c.s, [o EXCEPT !.f = [n \in DOMAIN o.f |->
                                    c.v[CHOOSE i \in DOMAIN names : names[i] = n]]])
          [] v.tag = "table" ->
                LET keys == SetToSeq(DOMAIN o.m)
                    c    == CopyAll([i \in DOMAIN keys |-> o.m[keys[i]]], deep, s)
                IN  Alloc(c.s, [o EXCEPT !.m = [n \in DOMAIN o.m |->
                                    c.v[CHOOSE i \in DOMAIN keys : keys[i] = n]]])
          [] OTHER -> R(v, s)
=============================================================================

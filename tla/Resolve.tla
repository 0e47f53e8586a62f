------------------------------ MODULE Resolve ------------------------------
(***************************************************************************)
(* What the front end resolves before a program runs.  Slots               *)
(* (internal/lang/slots.go): an identifier whose slot is known to be       *)
(* stable is stamped with it, and the evaluator then reads that slot of    *)
(* the current scope without looking at its name.  Calls                   *)
(* (internal/lang/compile.go): a call of a declared function, where the    *)
(* walk reaches it, is stamped with the function.                          *)
(***************************************************************************)
EXTENDS Syntax, SequencesExt

(* Some statement of the block declares, directly or deeper. *)
RECURSIVE HasNestedDecl(_)
BlockHasDecl(b) == \E i \in DOMAIN b : b[i].k = "decl" \/ HasNestedDecl(b[i])
HasNestedDecl(st) ==
    CASE st.k = "if"    -> BlockHasDecl(st.t) \/ BlockHasDecl(st.el)
      [] st.k = "while" -> BlockHasDecl(st.b)
      [] OTHER          -> st.k \in {"for", "forc", "try"}

(* The reliable prefix: the parameters and the declarations that precede   *)
(* the first statement that can skip one, each name once.                  *)
Prefix(fn) ==
    LET skips == {i \in DOMAIN fn.b : HasNestedDecl(fn.b[i])}
        upto  == IF skips = {} THEN Len(fn.b) ELSE Min(skips) - 1
        decls == SelectSeq(SubSeq(fn.b, 1, upto), LAMBDA st : st.k = "decl")
        add(acc, n) == IF Contains(acc, n) THEN acc ELSE Append(acc, n)
    IN  FoldLeft(add, <<>>, [i \in DOMAIN fn.ps |-> fn.ps[i].n]
                            \o [i \in DOMAIN decls |-> decls[i].n])

SlotOf(n, prefix) == IF Contains(prefix, n) THEN CHOOSE i \in DOMAIN prefix : prefix[i] = n ELSE 0

(* Identifiers below a pushed scope (depth > 0) stay unresolved.  IncExpr  *)
(* is not walked.                                                          *)
RECURSIVE ResolveExpr(_, _, _)
ResolveExprs(es, d, p) == [i \in DOMAIN es |-> ResolveExpr(es[i], d, p)]
ResolveExpr(e, d, p) ==
    LET Rs(x) == ResolveExpr(x, d, p)
    IN  CASE e.e = "id" -> IF d = 0 THEN [e EXCEPT !.slot = SlotOf(e.n, p)] ELSE e
          [] e.e \in {"un", "member"} -> [e EXCEPT !.x = Rs(@)]
          [] e.e = "bin"   -> [e EXCEPT !.l = Rs(@), !.r = Rs(@)]
          [] e.e = "index" -> [e EXCEPT !.x = Rs(@), !.i = Rs(@)]
          [] e.e \in {"call", "scall", "sign"} -> [e EXCEPT !.args = ResolveExprs(@, d, p)]
          [] e.e = "mcall" -> [e EXCEPT !.x = Rs(@), !.args = ResolveExprs(@, d, p)]
          [] e.e = "list"  -> [e EXCEPT !.items = ResolveExprs(@, d, p)]
          [] e.e = "struct" -> [e EXCEPT !.fs = [i \in DOMAIN @ |-> [@[i] EXCEPT !.x = Rs(@)]]]
          [] e.e = "new"   -> [e EXCEPT !.size = ResolveExprs(@, d, p)]
          [] OTHER         -> e

RECURSIVE ResolveStmt(_, _, _)
ResolveBlock(b, d, p) == [i \in DOMAIN b |-> ResolveStmt(b[i], d, p)]

\* ResolveInner as a mutation: the scope a loop pushes is forgotten.
ResolveInnerFlat(b, d, p) == ResolveBlock(b, d, p)

(* a block that lives in a scope of its own *)
ResolveInner(b, d, p) == ResolveBlock(b, d + 1, p)

ResolveStmt(st, d, p) ==
    LET E(x) == ResolveExpr(x, d, p)
        D(b) == ResolveBlock(b, d, p)           \* pushes no scope
        N(b) == ResolveInner(b, d, p)
    IN  CASE st.k \in {"expr", "delete", "log"} -> [st EXCEPT !.x = E(@)]
          [] st.k = "return" -> [st EXCEPT !.x = ResolveExprs(@, d, p)]
          [] st.k = "decl"   -> [st EXCEPT !.i = ResolveExprs(@, d, p)]
          [] st.k = "assign" -> [st EXCEPT !.t = E(@), !.x = E(@)]
          [] st.k = "if"     -> [st EXCEPT !.c = E(@), !.t = D(@), !.el = D(@)]
          [] st.k = "while"  -> [st EXCEPT !.c = E(@), !.b = D(@)]
          [] st.k = "for"    -> [st EXCEPT !.it = E(@), !.b = N(@)]
          [] st.k = "forc"   -> [st EXCEPT !.i = N(@), !.c = ResolveExpr(@, d + 1, p),
                                           !.st = N(@), !.b = N(@)]
          [] st.k = "try"    -> [st EXCEPT !.b = D(@), !.c = N(@)]
          [] OTHER           -> st

ResolveFunc(fn)   == [fn EXCEPT !.b = ResolveBlock(@, 0, Prefix(fn))]
ResolveSlots(fns) == [i \in DOMAIN fns |-> ResolveFunc(fns[i])]

----------------------------------------------------------------------------
(* The first function of that name is the one the function table holds.    *)
Primary(fns, name) == LET D == {i \in DOMAIN fns : fns[i].n = name /\ fns[i].of = ""}
                      IN  IF D = {} THEN 0 ELSE Min(D)

(* FnIndex keeps the last function of a name; a call of a name with several *)
(* definitions ignores the stamp.                                          *)
FnIndex(fns, name) == LET D == {i \in DOMAIN fns : fns[i].n = name /\ fns[i].of = ""}
                      IN  IF D = {} THEN 0 ELSE Max(D)

(* The walk enters call arguments and binary operands, nothing else.       *)
RECURSIVE CallRefs(_, _)
CallRefs(e, fns) ==
    CASE e.e \in {"call", "sign"} -> [e EXCEPT !.idx = FnIndex(fns, e.f),
                                     !.args = [i \in DOMAIN @ |-> CallRefs(@[i], fns)]]
      [] e.e = "mcall" -> [e EXCEPT !.args = [i \in DOMAIN @ |-> CallRefs(@[i], fns)]]
      [] e.e = "bin"   -> [e EXCEPT !.l = CallRefs(@, fns), !.r = CallRefs(@, fns)]
      [] OTHER         -> e

(* C-style loops, log and delete statements are not walked. *)
RECURSIVE StmtRefs(_, _)
BlockRefs(b, fns) == [i \in DOMAIN b |-> StmtRefs(b[i], fns)]
StmtRefs(st, fns) ==
    LET E(x) == CallRefs(x, fns)
        B(b) == BlockRefs(b, fns)
    IN  CASE st.k = "expr"   -> [st EXCEPT !.x = E(@)]
          [] st.k = "return" -> [st EXCEPT !.x = [i \in DOMAIN @ |-> E(@[i])]]
          [] st.k = "decl"   -> [st EXCEPT !.i = [i \in DOMAIN @ |-> E(@[i])]]
          [] st.k = "assign" -> [st EXCEPT !.t = E(@), !.x = E(@)]
          [] st.k = "if"     -> [st EXCEPT !.c = E(@), !.t = B(@), !.el = B(@)]
          [] st.k = "while"  -> [st EXCEPT !.c = E(@), !.b = B(@)]
          [] st.k = "for"    -> [st EXCEPT !.it = E(@), !.b = B(@)]
          [] st.k = "try"    -> [st EXCEPT !.b = B(@), !.c = B(@)]
          [] OTHER           -> st

(* The tail of compileTokens; methods keep their calls unresolved. *)
Resolved(fns) ==
    LET S == ResolveSlots(fns)
    IN  [i \in DOMAIN S |-> IF S[i].of = "" THEN [S[i] EXCEPT !.b = BlockRefs(@, fns)] ELSE S[i]]
=============================================================================

--------------------------- MODULE LintFixerProofs ---------------------------
(***************************************************************************)
(* Proofs about LintFixer: the corrections keep what a program prints, for *)
(* programs of any length over any set of lines, however deep its blocks,  *)
(* and for any number of passes.                                           *)
(***************************************************************************)
EXTENDS LintFixer, DataLemmas

-----------------------------------------------------------------------------
(* Induction from the last line of a program to the first.                  *)

LEMMA Upwards ==
    ASSUME NEW n \in Nat, NEW S \in SUBSET Nat,
           \A i \in Nat : i > n => i \in S,
           \A i \in Nat : i <= n /\ (\A k \in Nat : k > i => k \in S) => i \in S
    PROVE  S = Nat
<1>. DEFINE T == {m \in Nat : \A k \in Nat : k + m > n => k \in S}
<1>1. 0 \in T
  OBVIOUS
<1>2. ASSUME NEW m \in T
      PROVE  m + 1 \in T
  <2>. SUFFICES ASSUME NEW k \in Nat, k + (m + 1) > n
                PROVE  k \in S
    OBVIOUS
  <2>1. \A l \in Nat : l > k => l \in S
    OBVIOUS
  <2>. QED
    BY <2>1
<1>3. T = Nat
  <2>1. T \in SUBSET Nat
    OBVIOUS
  <2>. HIDE DEF T
  <2>. QED
    BY <1>1, <1>2, <2>1, Induction
<1>4. n + 1 \in T
  BY <1>3
<1>5. ASSUME NEW k \in Nat
      PROVE  k \in S
  <2>1. k + (n + 1) > n
    OBVIOUS
  <2>. QED
    BY <1>4, <2>1
<1>. QED
  BY <1>5

-----------------------------------------------------------------------------
(* Blocks: the function BlockEnd defines exists, and leads onwards.         *)

\* One step of BlockEnd, given what it says of the lines after the i-th.
EndFrom(src, stop, i) ==
    IF i > Len(src) \/ src[i].op \in {"end", "catch"} THEN i
    ELSE IF src[i].op = "try" THEN stop[stop[stop[i + 1] + 1] + 1]
    ELSE IF Opens(src[i]) THEN stop[stop[i + 1] + 1]
    ELSE stop[i + 1]

IsBlockEnd(src, stop) == stop = [i \in Nat |-> EndFrom(src, stop, i)]

\* What a function says of a line depends on the later lines only.
LEMMA EndFromLater ==
    ASSUME NEW src, NEW f \in [Nat -> Nat], NEW g \in [Nat -> Nat], NEW i \in Nat,
           \A k \in Nat : k > i => f[k] >= k /\ g[k] = f[k]
    PROVE  /\ EndFrom(src, f, i) = EndFrom(src, g, i)
           /\ EndFrom(src, f, i) \in Nat
           /\ EndFrom(src, f, i) >= i
<1>1. f[i + 1] \in Nat /\ f[i + 1] >= i + 1 /\ g[i + 1] = f[i + 1]
  OBVIOUS
<1>. DEFINE a == f[i + 1] + 1
<1>2. a \in Nat /\ a > i /\ f[a] \in Nat /\ f[a] >= a /\ g[a] = f[a]
  BY <1>1
<1>. DEFINE b == f[a] + 1
<1>3. b \in Nat /\ b > i /\ f[b] \in Nat /\ f[b] >= b /\ g[b] = f[b]
  BY <1>2
<1>4. g[g[g[i + 1] + 1] + 1] = f[b] /\ g[g[i + 1] + 1] = f[a]
  BY <1>1, <1>2, <1>3
<1>. HIDE DEF a, b
<1>5. CASE i > Len(src) \/ src[i].op \in {"end", "catch"}
  BY <1>5 DEF EndFrom
<1>6. CASE ~(i > Len(src) \/ src[i].op \in {"end", "catch"})
  <2>1. /\ EndFrom(src, f, i) = IF src[i].op = "try" THEN f[b]
                               ELSE IF Opens(src[i]) THEN f[a] ELSE f[i + 1]
        /\ EndFrom(src, g, i) = IF src[i].op = "try" THEN f[b]
                               ELSE IF Opens(src[i]) THEN f[a] ELSE f[i + 1]
    BY <1>1, <1>4, <1>6, Zenon DEF EndFrom, a, b
  <2>. QED
    BY <1>1, <1>2, <1>3, <2>1
<1>. QED
  BY <1>5, <1>6

LEMMA BlockEndExists ==
    ASSUME NEW src, Len(src) \in Nat PROVE \E stop : IsBlockEnd(src, stop)
<1>. DEFINE n == Len(src)
            Above(f) == \A i \in Nat : f[i] >= i
            From(f, m) == \A i \in Nat : i + m > n => f[i] = EndFrom(src, f, i)
            S == {m \in Nat : \E f \in [Nat -> Nat] : Above(f) /\ From(f, m)}
<1>0. n \in Nat
  OBVIOUS
<1>1. 0 \in S
  <2>1. [i \in Nat |-> i] \in [Nat -> Nat] /\ Above([i \in Nat |-> i])
    OBVIOUS
  <2>2. From([i \in Nat |-> i], 0)
    BY DEF EndFrom
  <2>. QED
    BY <2>1, <2>2
<1>. HIDE DEF n
<1>2. ASSUME NEW m \in S
      PROVE  m + 1 \in S
  <2>1. PICK f \in [Nat -> Nat] : Above(f) /\ From(f, m)
    OBVIOUS
  <2>2. m \in Nat
    OBVIOUS
  <2>. HIDE DEF S
  <2>. DEFINE x == n - m
  <2>3. x \in Int /\ \A i \in Nat : (i + m > n <=> i > x) /\ (i + (m + 1) > n <=> i >= x)
    BY <1>0, <2>2
  <2>. DEFINE g == [i \in Nat |-> IF i = x THEN EndFrom(src, f, i) ELSE f[i]]
  <2>4. \A i \in Nat : EndFrom(src, f, i) \in Nat /\ EndFrom(src, f, i) >= i
    BY <2>1, EndFromLater
  <2>5. g \in [Nat -> Nat]
    BY <2>4
  <2>6. \A i \in Nat : g[i] = IF i = x THEN EndFrom(src, f, i) ELSE f[i]
    OBVIOUS
  <2>. HIDE DEF g, x
  <2>7. Above(g)
    BY <2>1, <2>4, <2>6
  <2>8. ASSUME NEW i \in Nat, i >= x
        PROVE  g[i] = EndFrom(src, g, i)
    <3>1. ASSUME NEW k \in Nat, k > i
          PROVE  f[k] >= k /\ g[k] = f[k]
      <4>1. k # x
        BY <2>3, <2>8, <3>1
      <4>2. g[k] = f[k]
        BY <2>6, <4>1, Zenon
      <4>3. f[k] >= k
        BY <2>1
      <4>. QED
        BY <4>2, <4>3
    <3>2. EndFrom(src, f, i) = EndFrom(src, g, i)
      BY <2>5, <3>1, EndFromLater
    <3>3. g[i] = EndFrom(src, f, i)
      BY <2>1, <2>3, <2>6, <2>8
    <3>. QED
      BY <3>2, <3>3
  <2>9. From(g, m + 1)
    BY <2>3, <2>8
  <2>10. m + 1 \in Nat
    BY <2>2
  <2>. HIDE DEF Above, From
  <2>. QED
    BY <2>5, <2>7, <2>9, <2>10 DEF S
<1>3. S = Nat
  <2>1. S \in SUBSET Nat
    OBVIOUS
  <2>. HIDE DEF S
  <2>. QED
    BY <1>1, <1>2, <2>1, Induction
<1>4. n + 1 \in Nat
  BY <1>0
<1>5. PICK f \in [Nat -> Nat] : From(f, n + 1)
  <2>. HIDE DEF Above, From
  <2>1. n + 1 \in S
    <3>. HIDE DEF S
    <3>. QED
      BY <1>3, <1>4
  <2>. QED
    BY <2>1, Zenon
<1>6. \A i \in Nat : f[i] = EndFrom(src, f, i)
  BY <1>0, <1>5
<1>7. f = [i \in Nat |-> EndFrom(src, f, i)]
  BY <1>6
<1>. QED
  BY <1>7 DEF IsBlockEnd

\* The equations of BlockEnd.
LEMMA BlockEndIs ==
    ASSUME NEW src, Len(src) \in Nat, NEW i \in Nat
    PROVE  BlockEnd(src)[i] = EndFrom(src, BlockEnd(src), i)
<1>. DEFINE P(stop) == IsBlockEnd(src, stop)
<1>1. P(CHOOSE stop : P(stop))
  BY BlockEndExists, Zenon
<1>2. BlockEnd(src) = CHOOSE stop : P(stop)
  BY Zenon DEF BlockEnd, IsBlockEnd, EndFrom
<1>3. IsBlockEnd(src, BlockEnd(src))
  BY <1>1, <1>2
<1>. QED
  BY <1>3, Zenon DEF IsBlockEnd

LEMMA BlockEndAbove ==
    ASSUME NEW src, Len(src) \in Nat
    PROVE  \A i \in Nat : BlockEnd(src)[i] \in Nat /\ BlockEnd(src)[i] >= i
<1>. DEFINE S == {i \in Nat : BlockEnd(src)[i] \in Nat /\ BlockEnd(src)[i] >= i}
<1>1. ASSUME NEW i \in Nat, \A k \in Nat : k > i => k \in S
      PROVE  i \in S
  <2>1. BlockEnd(src)[i] = EndFrom(src, BlockEnd(src), i)
    BY BlockEndIs
  <2>. DEFINE E == BlockEnd(src)
  <2>. HIDE DEF E
  <2>2. \A k \in Nat : k > i => E[k] \in Nat /\ E[k] >= k
    BY <1>1 DEF E
  <2>3. E[i + 1] \in Nat /\ E[i + 1] >= i + 1
    BY <2>2
  <2>. DEFINE a == E[i + 1] + 1
  <2>4. a \in Nat /\ a > i /\ E[a] \in Nat /\ E[a] >= a
    BY <2>2, <2>3
  <2>. DEFINE b == E[a] + 1
  <2>5. b \in Nat /\ b > i /\ E[b] \in Nat /\ E[b] >= b
    BY <2>2, <2>4
  <2>6. E[i] = EndFrom(src, E, i)
    BY <2>1 DEF E
  <2>7. E[i] \in Nat /\ E[i] >= i
    BY <2>3, <2>4, <2>5, <2>6 DEF EndFrom
  <2>. QED
    BY <2>7 DEF E
<1>2. \A i \in Nat : i > Len(src) => i \in S
  BY BlockEndIs DEF EndFrom
<1>3. S = Nat
  <2>1. S \in SUBSET Nat
    OBVIOUS
  <2>. HIDE DEF S
  <2>. QED
    BY <1>1, <1>2, <2>1, Upwards
<1>. QED
  BY <1>3

\* A block ends at an "end", at a "catch" or after the last line.
LEMMA BlockEndStops ==
    ASSUME NEW src, Len(src) \in Nat
    PROVE  \A i \in Nat : BlockEnd(src)[i] <= Len(src) =>
                              src[BlockEnd(src)[i]].op \in {"end", "catch"}
<1>. DEFINE E == BlockEnd(src)
            S == {i \in Nat : E[i] <= Len(src) => src[E[i]].op \in {"end", "catch"}}
<1>0. \A i \in Nat : E[i] \in Nat /\ E[i] >= i /\ E[i] = EndFrom(src, E, i)
  BY BlockEndIs, BlockEndAbove
<1>. HIDE DEF E
<1>1. ASSUME NEW i \in Nat, \A k \in Nat : k > i => k \in S
      PROVE  i \in S
  <2>3. E[i + 1] \in Nat /\ E[i + 1] >= i + 1 /\ i + 1 \in S
    BY <1>0, <1>1
  <2>. DEFINE a == E[i + 1] + 1
  <2>4. a \in Nat /\ a > i /\ E[a] \in Nat /\ E[a] >= a /\ a \in S
    BY <1>0, <1>1, <2>3
  <2>. DEFINE b == E[a] + 1
  <2>5. b \in Nat /\ b > i /\ E[b] \in Nat /\ E[b] >= b /\ b \in S
    BY <1>0, <1>1, <2>4
  <2>6. E[i] = EndFrom(src, E, i)
    BY <1>0
  <2>. HIDE DEF S
  <2>7. E[i] \in {i, E[i + 1], E[a], E[b]} /\ (E[i] = i => i > Len(src) \/ src[i].op \in {"end", "catch"})
    BY <1>0, <2>3, <2>4, <2>5, <2>6 DEF EndFrom
  <2>8. \A k \in {E[i + 1], E[a], E[b]} : k <= Len(src) => src[k].op \in {"end", "catch"}
    BY <2>3, <2>4, <2>5 DEF S
  <2>. QED
    BY <2>7, <2>8, <1>0 DEF S
<1>2. \A i \in Nat : i > Len(src) => i \in S
  BY <1>0
<1>3. S = Nat
  <2>1. S \in SUBSET Nat
    OBVIOUS
  <2>. HIDE DEF S
  <2>. QED
    BY <1>1, <1>2, <2>1, Upwards
<1>. QED
  BY <1>3 DEF E

-----------------------------------------------------------------------------
(* Runs: the function Exec defines exists.                                  *)

\* One step of Exec, given what the lines after the i-th, those after the block
\* the i-th line opens, and those of its catch do.
ExecBy(src, body, after, handler, i, st) ==
    LET line == src[i]
        fails == line.op = "set" /\ line.e = "1/y" /\ st.env["y"] = 0
    IN  IF i > Len(src) \/ st.raised \/ line.op \in {"end", "catch"} THEN st
        ELSE CASE fails -> [st EXCEPT !.raised = TRUE, !.failed = TRUE]
               [] line.op = "set" /\ ~fails ->
                    body[[st EXCEPT !.env[Cell(line.v)] = ValueOf(line.e, st.env)]]
               [] line.op = "say" ->
                    body[[st EXCEPT !.out = Append(@, st.env[Cell(line.v)])]]
               [] line.op = "if" -> after[IF st.env[Cell(line.v)] = 0 THEN st ELSE body[st]]
               [] line.op = "for" -> after[body[body[st]]]
               [] line.op = "try" ->
                    after[IF ~body[st].raised THEN body[st]
                          ELSE handler[[body[st] EXCEPT !.raised = FALSE]]]
               [] OTHER -> body[st]

ExecFrom(src, exec, i, st) ==
    ExecBy(src, exec[i + 1], exec[CloseOf(src, i) + 1], exec[CatchOf(src, i) + 1], i, st)

IsExec(src, exec) == exec = [i \in Nat |-> [st \in States |-> ExecFrom(src, exec, i, st)]]

LEMMA Onwards ==
    ASSUME NEW src, Len(src) \in Nat, NEW i \in Nat
    PROVE  /\ CatchOf(src, i) \in Nat /\ CatchOf(src, i) > i
           /\ CloseOf(src, i) \in Nat /\ CloseOf(src, i) > i
           /\ src[i].op = "try" => CloseOf(src, i) > CatchOf(src, i)
<1>1. CatchOf(src, i) \in Nat /\ CatchOf(src, i) >= i + 1
  BY BlockEndAbove DEF CatchOf
<1>2. CASE src[i].op = "try"
  BY <1>1, <1>2, BlockEndAbove DEF CloseOf
<1>3. CASE src[i].op # "try"
  <2>1. CloseOf(src, i) = BlockEnd(src)[i + 1]
    BY <1>3 DEF CloseOf
  <2>. QED
    BY <1>1, <1>3, <2>1, BlockEndAbove
<1>. QED
  BY <1>2, <1>3

LEMMA ExecFromLater ==
    ASSUME NEW src, Len(src) \in Nat, NEW f, NEW g, NEW i \in Nat, NEW st,
           \A k \in Nat : k > i => g[k] = f[k]
    PROVE  ExecFrom(src, f, i, st) = ExecFrom(src, g, i, st)
<1>0. /\ CatchOf(src, i) \in Nat /\ CatchOf(src, i) > i
      /\ CloseOf(src, i) \in Nat /\ CloseOf(src, i) > i
  BY Onwards, Zenon
<1>1. /\ i + 1 \in Nat /\ i + 1 > i
      /\ CloseOf(src, i) + 1 \in Nat /\ CloseOf(src, i) + 1 > i
      /\ CatchOf(src, i) + 1 \in Nat /\ CatchOf(src, i) + 1 > i
  BY <1>0
<1>. QED
  BY <1>1, Zenon DEF ExecFrom

LEMMA ExecExists ==
    ASSUME NEW src, Len(src) \in Nat PROVE \E exec : IsExec(src, exec)
<1>. DEFINE n == Len(src)
            Row(f, i) == f[i] = [st \in States |-> ExecFrom(src, f, i, st)]
            S == {m \in Nat : \E f : f = [i \in Nat |-> f[i]] /\ \A i \in Nat : i + m > n => Row(f, i)}
<1>0. n \in Nat
  OBVIOUS
<1>. HIDE DEF n
<1>a. ASSUME NEW f, NEW g, NEW i \in Nat, \A k \in Nat : k > i => g[k] = f[k]
      PROVE  [st \in States |-> ExecFrom(src, f, i, st)] = [st \in States |-> ExecFrom(src, g, i, st)]
  <2>1. \A st : ExecFrom(src, f, i, st) = ExecFrom(src, g, i, st)
    BY <1>a, ExecFromLater
  <2>. QED
    BY <2>1, Zenon
<1>1. 0 \in S
  <2>. DEFINE f == [i \in Nat |-> [st \in States |-> st]]
  <2>1. f = [i \in Nat |-> f[i]]
    OBVIOUS
  <2>2. ASSUME NEW i \in Nat, i + 0 > n
        PROVE  Row(f, i)
    <3>1. i > Len(src)
      BY <1>0, <2>2 DEF n
    <3>2. \A st : ExecFrom(src, f, i, st) = st
      BY <3>1 DEF ExecFrom, ExecBy
    <3>3. f[i] = [st \in States |-> st]
      OBVIOUS
    <3>. HIDE DEF f
    <3>. QED
      BY <3>2, <3>3, Zenon
  <2>. HIDE DEF f, Row
  <2>. QED
    BY <2>1, <2>2
<1>2. ASSUME NEW m \in S
      PROVE  m + 1 \in S
  <2>1. PICK f : f = [i \in Nat |-> f[i]] /\ \A i \in Nat : i + m > n => Row(f, i)
    OBVIOUS
  <2>2. m \in Nat
    OBVIOUS
  <2>. HIDE DEF S
  <2>. DEFINE x == n - m
              t == [st \in States |-> ExecFrom(src, f, x, st)]
              g == [i \in Nat |-> IF i = x THEN t ELSE f[i]]
  <2>3. x \in Int /\ \A i \in Nat : (i + m > n <=> i > x) /\ (i + (m + 1) > n <=> i >= x)
    BY <1>0, <2>2
  <2>4. g = [i \in Nat |-> g[i]]
    OBVIOUS
  <2>5. \A i \in Nat : g[i] = IF i = x THEN t ELSE f[i]
    OBVIOUS
  <2>. HIDE DEF g
  <2>6. ASSUME NEW i \in Nat, i >= x
        PROVE  Row(g, i)
    <3>1. \A k \in Nat : k > i => g[k] = f[k]
      <4>. HIDE DEF x, t
      <4>. QED
        BY <2>3, <2>5, <2>6
    <3>2. [st \in States |-> ExecFrom(src, f, i, st)] = [st \in States |-> ExecFrom(src, g, i, st)]
      BY <3>1, <1>a
    <3>3. CASE i = x
      <4>1. g[i] = [st \in States |-> ExecFrom(src, f, i, st)]
        BY <2>5, <3>3, Zenon
      <4>. QED
        BY <4>1, <3>2, Zenon
    <3>4. CASE i # x
      <4>1. g[i] = f[i] /\ i + m > n
        <5>. HIDE DEF x, t
        <5>. QED
          BY <2>3, <2>5, <2>6, <3>4
      <4>2. Row(f, i)
        BY <4>1, <2>1
      <4>. QED
        BY <4>1, <4>2, <3>2, Zenon
    <3>. QED
      BY <3>3, <3>4
  <2>7. \A i \in Nat : i + (m + 1) > n => Row(g, i)
    <3>. HIDE DEF x, Row
    <3>. QED
      BY <2>3, <2>6
  <2>8. m + 1 \in Nat
    BY <2>2
  <2>. HIDE DEF Row
  <2>. QED
    BY <2>4, <2>7, <2>8, Zenon DEF S
<1>3. S = Nat
  <2>1. S \in SUBSET Nat
    OBVIOUS
  <2>. HIDE DEF S
  <2>. QED
    BY <1>1, <1>2, <2>1, Induction
<1>4. n + 1 \in Nat
  BY <1>0
<1>5. PICK f : f = [i \in Nat |-> f[i]] /\ \A i \in Nat : i + (n + 1) > n => Row(f, i)
  <2>. HIDE DEF Row
  <2>1. n + 1 \in S
    <3>. HIDE DEF S
    <3>. QED
      BY <1>3, <1>4
  <2>. QED
    BY <2>1, Zenon
<1>6. \A i \in Nat : Row(f, i)
  <2>1. \A i \in Nat : i + (n + 1) > n
    BY <1>0
  <2>. HIDE DEF Row
  <2>. QED
    BY <1>5, <2>1
<1>7. f = [i \in Nat |-> [st \in States |-> ExecFrom(src, f, i, st)]]
  <2>. DEFINE e(i) == [st \in States |-> ExecFrom(src, f, i, st)]
  <2>1. \A i \in Nat : f[i] = e(i)
    BY <1>6
  <2>. HIDE DEF e
  <2>2. [i \in Nat |-> f[i]] = [i \in Nat |-> e(i)]
    BY <2>1
  <2>. QED
    BY <1>5, <2>2, Zenon DEF e
<1>. QED
  BY <1>7 DEF IsExec

LEMMA ExecIs ==
    ASSUME NEW src, Len(src) \in Nat, NEW i \in Nat, NEW st \in States
    PROVE  Exec(src)[i][st] = ExecFrom(src, Exec(src), i, st)
<1>. DEFINE P(exec) == IsExec(src, exec)
<1>1. P(CHOOSE exec : P(exec))
  BY ExecExists, Zenon
<1>2. Exec(src) = CHOOSE exec : P(exec)
  BY Zenon DEF Exec, IsExec, ExecFrom, ExecBy
<1>3. IsExec(src, Exec(src))
  BY <1>1, <1>2
<1>. DEFINE X == Exec(src)
            row(k) == [s \in States |-> ExecFrom(src, X, k, s)]
<1>. HIDE DEF P, X
<1>4. X = [k \in Nat |-> row(k)]
  BY <1>3, Zenon DEF IsExec, X
<1>5. X[i] = row(i)
  <2>. HIDE DEF row
  <2>. QED
    BY <1>4
<1>6. row(i)[st] = ExecFrom(src, X, i, st)
  OBVIOUS
<1>. QED
  BY <1>5, <1>6, Zenon DEF X

-----------------------------------------------------------------------------
(* Programs without references, which is what FixKeepsRun speaks of.        *)

Var == {"x", "y"}

Exprs == Var \cup {"1", "2", "1/y"}

Ops == {"decl", "set", "say", "compare", "if", "for", "try", "catch", "end", "literal"}

AnyLine == [op : Ops, v : Var \cup {""}, e : Exprs \cup {"", "0"}]

Plain(line) ==
    /\ line \in AnyLine
    /\ line.op \in {"decl", "set", "say", "compare", "if"} => line.v \in Var
    /\ line.op \in {"say", "if"} => line.e = line.v
    /\ line.op = "set" => line.e \in Exprs

Written(src) == src \in Seq(AnyLine) /\ \A i \in DOMAIN src : Plain(src[i])

Program(src) == Written(src) /\ Parses(src)

Fails(line, st) == line.e = "1/y" /\ st.env["y"] = 0

Wrote(st, v, x) == [st EXCEPT !.env[v] = x]

Said(st, x) == [st EXCEPT !.out = Append(@, x)]

LEMMA StateIs ==
    ASSUME NEW st \in States
    PROVE  /\ st = [env |-> st.env, out |-> st.out, raised |-> st.raised, failed |-> st.failed]
           /\ st.env \in [Var -> 0 .. 2] /\ st.out \in Seq(0 .. 2)
           /\ st.raised \in BOOLEAN /\ st.failed \in BOOLEAN
BY DEF States, Var

\* What a state is after a write.
Writes(st, v, x, r) ==
    /\ r \in States /\ r.out = st.out /\ r.raised = st.raised /\ r.failed = st.failed
    /\ \A u \in Var : r.env[u] = IF u = v THEN x ELSE st.env[u]

LEMMA WroteIs ==
    ASSUME NEW st \in States, NEW v \in Var, NEW x \in 0 .. 2
    PROVE  Writes(st, v, x, Wrote(st, v, x))
BY DEF States, Var, Wrote, Writes

LEMMA SaidIs ==
    ASSUME NEW st \in States, NEW x \in 0 .. 2
    PROVE  /\ Said(st, x) \in States
           /\ Said(st, x).env = st.env
           /\ Said(st, x).out = Append(st.out, x)
           /\ Said(st, x).raised = st.raised
           /\ Said(st, x).failed = st.failed
<1>1. st.out \in Seq(0 .. 2) /\ Append(st.out, x) \in Seq(0 .. 2)
  BY StateIs
<1>. DEFINE longer == Append(st.out, x)
<1>2. Said(st, x) = [st EXCEPT !.out = longer]
  BY DEF Said
<1>. HIDE DEF longer
<1>3. longer \in Seq(0 .. 2)
  BY <1>1 DEF longer
<1>4. /\ Said(st, x) \in States
      /\ Said(st, x).env = st.env
      /\ Said(st, x).out = longer
      /\ Said(st, x).raised = st.raised
      /\ Said(st, x).failed = st.failed
  BY <1>2, <1>3 DEF States
<1>. QED
  BY <1>4 DEF longer

LEMMA ValueIs ==
    ASSUME NEW st \in States, NEW e \in Exprs
    PROVE  /\ ValueOf(e, st.env) \in 0 .. 2
           /\ e \in Var => ValueOf(e, st.env) = st.env[e]
           /\ e \in {"1", "2"} => \A s \in States : ValueOf(e, s.env) = ValueOf(e, st.env)
           /\ e = "1/y" => \A s \in States : s.env["y"] = st.env["y"] =>
                              ValueOf(e, s.env) = ValueOf(e, st.env)
BY StateIs DEF ValueOf, Exprs, Var, Cell

\* The equations of Exec, a line at a time.
LEMMA ExecStays ==
    ASSUME NEW src, Written(src), NEW i \in Nat \ {0}, NEW st \in States,
           i > Len(src) \/ st.raised \/ src[i].op \in {"end", "catch"}
    PROVE  Exec(src)[i][st] = st
<1>1. Len(src) \in Nat
  BY DEF Written
<1>2. Exec(src)[i][st] = ExecFrom(src, Exec(src), i, st)
  BY <1>1, ExecIs
<1>. QED
  BY <1>2, Zenon DEF ExecFrom, ExecBy

Steps(src, i, st) ==
    /\ src[i].op = "set" /\ Fails(src[i], st) =>
         Exec(src)[i][st] = [st EXCEPT !.raised = TRUE, !.failed = TRUE]
    /\ src[i].op = "set" /\ ~Fails(src[i], st) =>
         Exec(src)[i][st] =
             Exec(src)[i + 1][Wrote(st, src[i].v, ValueOf(src[i].e, st.env))]
    /\ src[i].op = "say" =>
         Exec(src)[i][st] = Exec(src)[i + 1][Said(st, st.env[src[i].v])]
    /\ src[i].op = "if" =>
         Exec(src)[i][st] =
             Exec(src)[CloseOf(src, i) + 1]
                 [IF st.env[src[i].v] = 0 THEN st ELSE Exec(src)[i + 1][st]]
    /\ src[i].op = "for" =>
         Exec(src)[i][st] =
             Exec(src)[CloseOf(src, i) + 1][Exec(src)[i + 1][Exec(src)[i + 1][st]]]
    /\ src[i].op = "try" =>
         Exec(src)[i][st] =
             Exec(src)[CloseOf(src, i) + 1]
                 [IF ~Exec(src)[i + 1][st].raised THEN Exec(src)[i + 1][st]
                  ELSE Exec(src)[CatchOf(src, i) + 1]
                           [[Exec(src)[i + 1][st] EXCEPT !.raised = FALSE]]]
    /\ src[i].op \in {"decl", "compare", "literal"} =>
         Exec(src)[i][st] = Exec(src)[i + 1][st]

LEMMA ExecSteps ==
    ASSUME NEW src, Written(src), NEW i \in Nat \ {0}, i <= Len(src),
           NEW st \in States, ~st.raised
    PROVE  Steps(src, i, st)
<1>1. Len(src) \in Nat /\ i \in DOMAIN src /\ ~(i > Len(src))
  BY DEF Written
<1>2. Plain(src[i])
  BY <1>1 DEF Written
<1>. DEFINE X == Exec(src)
            body == X[i + 1]
            after == X[CloseOf(src, i) + 1]
            handler == X[CatchOf(src, i) + 1]
            line == src[i]
<1>3. X[i][st] = ExecBy(src, body, after, handler, i, st)
  BY <1>1, ExecIs, Zenon DEF ExecFrom
<1>4. line.v \in Var => Cell(line.v) = line.v
  BY DEF Cell, Var
<1>5. line.op \in {"set", "say", "if"} => line.v \in Var
  BY <1>2 DEF Plain
<1>. HIDE DEF X, body, after, handler
<1>6. CASE line.op \in {"end", "catch"}
  BY <1>6 DEF Steps
<1>7. CASE line.op \notin {"end", "catch"}
  <2>1. X[i][st] =
          LET fails == line.op = "set" /\ line.e = "1/y" /\ st.env["y"] = 0
          IN  CASE fails -> [st EXCEPT !.raised = TRUE, !.failed = TRUE]
               [] line.op = "set" /\ ~fails ->
                    body[[st EXCEPT !.env[Cell(line.v)] = ValueOf(line.e, st.env)]]
               [] line.op = "say" ->
                    body[[st EXCEPT !.out = Append(@, st.env[Cell(line.v)])]]
               [] line.op = "if" -> after[IF st.env[Cell(line.v)] = 0 THEN st ELSE body[st]]
               [] line.op = "for" -> after[body[body[st]]]
               [] line.op = "try" ->
                    after[IF ~body[st].raised THEN body[st]
                          ELSE handler[[body[st] EXCEPT !.raised = FALSE]]]
               [] OTHER -> body[st]
    BY <1>1, <1>3, <1>7, Zenon DEF ExecBy
  <2>2. ASSUME line.op = "set", Fails(line, st)
        PROVE  X[i][st] = [st EXCEPT !.raised = TRUE, !.failed = TRUE]
    BY <2>1, <2>2 DEF Fails
  <2>3. ASSUME line.op = "set", ~Fails(line, st)
        PROVE  X[i][st] = body[Wrote(st, line.v, ValueOf(line.e, st.env))]
    <3>1. X[i][st] = body[[st EXCEPT !.env[Cell(line.v)] = ValueOf(line.e, st.env)]]
      BY <2>1, <2>3 DEF Fails
    <3>. QED
      BY <3>1, <2>3, <1>4, <1>5, Zenon DEF Wrote
  <2>4. ASSUME line.op = "say"
        PROVE  X[i][st] = body[Said(st, st.env[line.v])]
    <3>1. X[i][st] = body[[st EXCEPT !.out = Append(@, st.env[Cell(line.v)])]]
      BY <2>1, <2>4
    <3>2. Cell(line.v) = line.v
      BY <1>4, <1>5, <2>4
    <3>. QED
      BY <3>1, <3>2, Zenon DEF Said
  <2>5. ASSUME line.op = "if"
        PROVE  X[i][st] = after[IF st.env[line.v] = 0 THEN st ELSE body[st]]
    <3>1. X[i][st] = after[IF st.env[Cell(line.v)] = 0 THEN st ELSE body[st]]
      BY <2>1, <2>5
    <3>2. Cell(line.v) = line.v
      BY <1>4, <1>5, <2>5
    <3>. QED
      BY <3>1, <3>2, Zenon
  <2>6. ASSUME line.op = "for"
        PROVE  X[i][st] = after[body[body[st]]]
    BY <2>1, <2>6
  <2>7. ASSUME line.op = "try"
        PROVE  X[i][st] = after[IF ~body[st].raised THEN body[st]
                                ELSE handler[[body[st] EXCEPT !.raised = FALSE]]]
    BY <2>1, <2>7
  <2>8. ASSUME line.op \in {"decl", "compare", "literal"}
        PROVE  X[i][st] = body[st]
    BY <2>1, <2>8
  <2>. QED
    BY <2>2, <2>3, <2>4, <2>5, <2>6, <2>7, <2>8, Zenon DEF X, body, after, handler, Steps
<1>. QED
  BY <1>6, <1>7

\* What a step of Exec keeps: states, that an error was raised once, and that one
\* which ends the program was raised.
Kept(s, t) ==
    /\ t \in States
    /\ s.failed => t.failed
    /\ (s.raised => s.failed) => (t.raised => t.failed)

LEMMA KeptStep ==
    ASSUME NEW r, NEW s, NEW t, Kept(r, s), Kept(s, t)
    PROVE  Kept(r, t)
BY DEF Kept

LEMMA ExecKeeps ==
    ASSUME NEW src, Written(src)
    PROVE  \A i \in Nat \ {0} : \A st \in States : Kept(st, Exec(src)[i][st])
<1>. DEFINE X == Exec(src)
            S == {i \in Nat : i # 0 => \A st \in States : Kept(st, X[i][st])}
<1>0. Len(src) \in Nat
  BY DEF Written
<1>1. ASSUME NEW i \in Nat, i <= Len(src), \A k \in Nat : k > i => k \in S
      PROVE  i \in S
  <2>. SUFFICES ASSUME i # 0, NEW st \in States
                PROVE  Kept(st, X[i][st])
    OBVIOUS
  <2>0. /\ i + 1 \in Nat /\ i + 1 > i /\ i \in Nat \ {0}
        /\ CloseOf(src, i) + 1 \in Nat /\ CloseOf(src, i) + 1 > i
        /\ CatchOf(src, i) + 1 \in Nat /\ CatchOf(src, i) + 1 > i
    <3>1. /\ CloseOf(src, i) \in Nat /\ CloseOf(src, i) > i
          /\ CatchOf(src, i) \in Nat /\ CatchOf(src, i) > i
      BY <1>0, Onwards, Zenon
    <3>. QED
      BY <3>1
  <2>1. ASSUME NEW k \in {i + 1, CloseOf(src, i) + 1, CatchOf(src, i) + 1}, NEW s \in States
        PROVE  Kept(s, X[k][s]) /\ X[k][s] \in States
    <3>1. k \in S /\ k # 0
      BY <2>0, <1>1
    <3>. QED
      BY <3>1 DEF Kept
  <2>2. CASE st.raised \/ src[i].op \in {"end", "catch"}
    <3>1. X[i][st] = st
      BY <2>0, <2>2, ExecStays, Zenon
    <3>. QED
      BY <3>1 DEF Kept
  <2>3. CASE ~st.raised /\ src[i].op \notin {"end", "catch"}
    <3>. DEFINE a == CloseOf(src, i) + 1
                b == CatchOf(src, i) + 1
    <3>0. i \in DOMAIN src /\ Plain(src[i])
      BY <1>1, <2>0, <1>0 DEF Written
    <3>a. Steps(src, i, st)
      BY <1>1, <2>0, <2>3, ExecSteps
    <3>1. CASE src[i].op = "set" /\ Fails(src[i], st)
      <4>1. X[i][st] = [st EXCEPT !.raised = TRUE, !.failed = TRUE]
        BY <3>a, <3>1, Zenon DEF Steps
      <4>. QED
        BY <4>1 DEF Kept, States
    <3>2. CASE src[i].op = "set" /\ ~Fails(src[i], st)
      <4>. DEFINE s == Wrote(st, src[i].v, ValueOf(src[i].e, st.env))
      <4>1. X[i][st] = X[i + 1][s]
        BY <3>a, <3>2, Zenon DEF Steps
      <4>0. src[i].v \in Var /\ src[i].e \in Exprs
        BY <3>0, <3>2 DEF Plain
      <4>2. s \in States /\ s.raised = st.raised /\ s.failed = st.failed
        <5>. DEFINE x == ValueOf(src[i].e, st.env)
        <5>1. x \in 0 .. 2
          BY <4>0, ValueIs
        <5>. HIDE DEF x
        <5>. QED
          BY <4>0, <5>1, WroteIs DEF x, Writes
      <4>3. Kept(st, s)
        BY <4>2, Zenon DEF Kept
      <4>. QED
        BY <4>1, <4>2, <4>3, <2>1, KeptStep, Zenon
    <3>3. CASE src[i].op = "say"
      <4>. DEFINE s == Said(st, st.env[src[i].v])
      <4>1. X[i][st] = X[i + 1][s]
        BY <3>a, <3>3, Zenon DEF Steps
      <4>2. st.env[src[i].v] \in 0 .. 2
        BY <3>0, <3>3, StateIs DEF Plain
      <4>3. s \in States /\ s.raised = st.raised /\ s.failed = st.failed
        BY <4>2, SaidIs
      <4>4. Kept(st, s)
        BY <4>3, Zenon DEF Kept
      <4>. QED
        BY <4>1, <4>3, <4>4, <2>1, KeptStep, Zenon
    <3>4. CASE src[i].op = "if"
      <4>. DEFINE s == IF st.env[src[i].v] = 0 THEN st ELSE X[i + 1][st]
      <4>1. X[i][st] = X[a][s]
        BY <3>a, <3>4, Zenon DEF Steps
      <4>2. Kept(st, st)
        BY DEF Kept
      <4>3. Kept(st, s) /\ s \in States
        BY <4>2, <2>1, Zenon
      <4>. QED
        BY <4>1, <4>3, <2>1, KeptStep, Zenon
    <3>5. CASE src[i].op = "for"
      <4>1. X[i][st] = X[a][X[i + 1][X[i + 1][st]]]
        BY <3>a, <3>5, Zenon DEF Steps
      <4>2. Kept(st, X[i + 1][st]) /\ X[i + 1][st] \in States
        BY <2>1, Zenon
      <4>3. Kept(st, X[i + 1][X[i + 1][st]]) /\ X[i + 1][X[i + 1][st]] \in States
        BY <4>2, <2>1, KeptStep, Zenon
      <4>. QED
        BY <4>1, <4>3, <2>1, KeptStep, Zenon
    <3>6. CASE src[i].op = "try"
      <4>. DEFINE s == X[i + 1][st]
                  r == [s EXCEPT !.raised = FALSE]
                  t == IF ~s.raised THEN s ELSE X[b][r]
      <4>1. X[i][st] = X[a][t]
        BY <3>a, <3>6, Zenon DEF Steps
      <4>2. Kept(st, s) /\ s \in States
        BY <2>1, Zenon
      <4>. HIDE DEF s
      <4>3. Kept(s, r) /\ r \in States
        BY <4>2 DEF Kept, States
      <4>. HIDE DEF r
      <4>4. Kept(st, t) /\ t \in States
        BY <4>2, <4>3, <2>1, KeptStep, Zenon
      <4>. QED
        BY <4>1, <4>4, <2>1, KeptStep, Zenon
    <3>7. CASE src[i].op \in {"decl", "compare", "literal"}
      <4>1. X[i][st] = X[i + 1][st]
        BY <3>a, <3>7, Zenon DEF Steps
      <4>. QED
        BY <4>1, <2>1, Zenon
    <3>. QED
      BY <3>0, <3>1, <3>2, <3>3, <3>4, <3>5, <3>6, <3>7, <2>3, Zenon DEF Plain, AnyLine, Ops
  <2>. QED
    BY <2>2, <2>3
<1>2. ASSUME NEW i \in Nat, i > Len(src)
      PROVE  i \in S
  <2>. SUFFICES ASSUME i # 0, NEW st \in States
                PROVE  Kept(st, X[i][st])
    OBVIOUS
  <2>1. X[i][st] = st
    BY <1>2, ExecStays
  <2>. QED
    BY <2>1 DEF Kept
<1>3. S = Nat
  <2>1. S \in SUBSET Nat
    OBVIOUS
  <2>. HIDE DEF S
  <2>. QED
    BY <1>0, <1>1, <1>2, <2>1, Upwards
<1>. QED
  BY <1>3

-----------------------------------------------------------------------------
(* The linter's walk.                                                       *)

Start == [pending |-> [v \in Names |-> 0], refVars |-> {}, dead |-> {}]

IsWalk(src, w) ==
    w = [i \in 0 .. Len(src) |-> IF i = 0 THEN Start ELSE Visit(src, w[i - 1], i)]

LEMMA WalkExists ==
    ASSUME NEW src, Len(src) \in Nat PROVE \E w : IsWalk(src, w)
<1>. DEFINE Next1(before, i) == Visit(src, before, i)
            S == {m \in Nat : \E w :
                    w = [i \in 0 .. m |-> IF i = 0 THEN Start ELSE Next1(w[i - 1], i)]}
<1>. HIDE DEF Next1
<1>1. 0 \in S
  <2>. DEFINE z == [i \in 0 .. 0 |-> Start]
  <2>1. z = [i \in 0 .. 0 |-> IF i = 0 THEN Start ELSE Next1(z[i - 1], i)]
    OBVIOUS
  <2>. HIDE DEF z
  <2>. QED
    BY <2>1
<1>2. ASSUME NEW m \in S
      PROVE  m + 1 \in S
  <2>1. PICK w : w = [i \in 0 .. m |-> IF i = 0 THEN Start ELSE Next1(w[i - 1], i)]
    OBVIOUS
  <2>. DEFINE t == Next1(w[m], m + 1)
              z == [i \in 0 .. m + 1 |-> IF i = m + 1 THEN t ELSE w[i]]
  <2>2. ASSUME NEW i \in 0 .. m
        PROVE  w[i] = IF i = 0 THEN Start ELSE Next1(w[i - 1], i)
    BY <2>1
  <2>3. ASSUME NEW i \in 0 .. m + 1
        PROVE  z[i] = IF i = 0 THEN Start ELSE Next1(z[i - 1], i)
    <3>1. CASE i = m + 1
      <4>1. z[i] = t /\ z[i - 1] = w[m] /\ i # 0
        BY <3>1
      <4>. QED
        BY <3>1, <4>1
    <3>2. CASE i \in 0 .. m
      <4>1. z[i] = w[i] /\ (i # 0 => z[i - 1] = w[i - 1])
        BY <3>2
      <4>. QED
        BY <3>2, <4>1, <2>2
    <3>. QED
      BY <3>1, <3>2
  <2>4. z = [i \in 0 .. m + 1 |-> IF i = 0 THEN Start ELSE Next1(z[i - 1], i)]
    <3>1. z = [i \in 0 .. m + 1 |-> z[i]]
      OBVIOUS
    <3>. HIDE DEF z
    <3>. QED
      BY <2>3, <3>1, Zenon
  <2>5. m + 1 \in Nat
    OBVIOUS
  <2>. HIDE DEF z
  <2>. QED
    BY <2>4, <2>5, Zenon
<1>3. S = Nat
  <2>1. S \in SUBSET Nat
    OBVIOUS
  <2>. HIDE DEF S
  <2>. QED
    BY <1>1, <1>2, <2>1, Induction
<1>4. PICK w :
          w = [i \in 0 .. Len(src) |-> IF i = 0 THEN Start ELSE Next1(w[i - 1], i)]
  BY <1>3
<1>. QED
  BY <1>4, Zenon DEF IsWalk, Next1

\* The walk of a program, in one step each.
Walk(src) == CHOOSE w : IsWalk(src, w)

LEMMA WalkIs ==
    ASSUME NEW src, Len(src) \in Nat
    PROVE  /\ DeadStores(src) = Walk(src)[Len(src)].dead
           /\ Walk(src)[0] = Start
           /\ \A i \in 1 .. Len(src) : Walk(src)[i] = Visit(src, Walk(src)[i - 1], i)
<1>. DEFINE P(w) == IsWalk(src, w)
<1>1. P(CHOOSE w : P(w))
  BY WalkExists, Zenon
<1>2. IsWalk(src, Walk(src))
  BY <1>1, Zenon DEF Walk
<1>3. DeadStores(src) = Walk(src)[Len(src)].dead
  BY Zenon DEF DeadStores, Walk, IsWalk, Start
<1>. DEFINE W == Walk(src)
            step(i) == IF i = 0 THEN Start ELSE Visit(src, W[i - 1], i)
<1>4. W = [i \in 0 .. Len(src) |-> step(i)]
  BY <1>2, Zenon DEF IsWalk
<1>. HIDE DEF W, step
<1>5. \A i \in 0 .. Len(src) : W[i] = step(i)
  BY <1>4
<1>6. 0 \in 0 .. Len(src) /\ \A i \in 1 .. Len(src) : i \in 0 .. Len(src) /\ i # 0
  OBVIOUS
<1>7. W[0] = Start
  BY <1>5, <1>6 DEF step
<1>8. \A i \in 1 .. Len(src) : W[i] = Visit(src, W[i - 1], i)
  BY <1>5, <1>6, Zenon DEF step
<1>. QED
  BY <1>3, <1>7, <1>8 DEF W

\* The variables a line reads.
Reads(line) == Range(ReadsOf(line))

LEMMA ReadsIs ==
    ASSUME NEW line, Plain(line)
    PROVE  Reads(line) = IF line.op \in {"compare", "say", "if"} THEN {line.v}
                         ELSE IF line.op = "set" /\ line.e \in Var THEN {line.e}
                         ELSE IF line.op = "set" /\ line.e = "1/y" THEN {"y"}
                         ELSE {}
<1>1. /\ Range(<<>>) = {}
      /\ \A u : Range(<<u>>) = {u} /\ Range(<<u, u>>) = {u}
  <2>1. Range(<<>>) = {}
    BY DEF Range
  <2>2. ASSUME NEW u
        PROVE  Range(<<u>>) = {u} /\ Range(<<u, u>>) = {u}
    <3>1. DOMAIN <<u>> = {1} /\ DOMAIN <<u, u>> = {1, 2}
      OBVIOUS
    <3>. QED
      BY <3>1 DEF Range
  <2>. QED
    BY <2>1, <2>2
<1>2. CASE line.op \in {"compare", "say", "if"}
  <2>1. ReadsOf(line) \in {<<line.v>>, <<line.v, line.v>>}
    BY <1>2 DEF ReadsOf, Plain
  <2>. QED
    BY <1>1, <1>2, <2>1 DEF Reads
<1>3. CASE line.op = "set" /\ line.e \in Var
  <2>1. ReadsOf(line) = <<line.e>>
    BY <1>3 DEF ReadsOf, Var, Names
  <2>. QED
    BY <1>1, <1>3, <2>1 DEF Reads
<1>4. CASE line.op = "set" /\ line.e = "1/y"
  <2>1. ReadsOf(line) = <<"y">>
    BY <1>4 DEF ReadsOf, Names
  <2>. QED
    BY <1>1, <1>4, <2>1 DEF Reads, Var
<1>5. CASE /\ line.op \notin {"compare", "say", "if"}
           /\ line.op = "set" => line.e \in {"1", "2"}
  <2>1. ReadsOf(line) = <<>>
    BY <1>5 DEF ReadsOf, Plain, AnyLine, Ops, Names
  <2>2. line.op = "set" => line.e \notin Var /\ line.e # "1/y"
    BY <1>5 DEF Var
  <2>. QED
    BY <1>1, <1>5, <2>1, <2>2 DEF Reads
<1>6. line.op = "set" => line.e \in Var \/ line.e = "1/y" \/ line.e \in {"1", "2"}
  BY DEF Plain, Exprs
<1>. QED
  BY <1>2, <1>3, <1>4, <1>5, <1>6

-----------------------------------------------------------------------------
(* What the walk knows of each variable.                                    *)

Walker == [pending : [Names -> Nat], refVars : {{}}, dead : SUBSET Nat]

\* A step of the walk, for programs without references.
Visited(src, w, z, n) ==
    LET line == src[n]
    IN  /\ \A v \in Var : z.pending[v] =
              IF line.op \in {"set", "decl"} /\ line.v = v
              THEN IF ~InLoop(src, n) THEN n ELSE IF line.op = "set" THEN 0 ELSE w.pending[v]
              ELSE IF line.op \in {"if", "for", "catch"} \/ v \in Reads(line) THEN 0
              ELSE w.pending[v]
        /\ z.dead = IF /\ line.op = "set" /\ ~InLoop(src, n)
                       /\ line.v \notin Reads(line) /\ w.pending[line.v] # 0
                    THEN w.dead \cup {w.pending[line.v]} ELSE w.dead

LEMMA UsedIs ==
    ASSUME NEW w \in Walker, NEW vs
    PROVE  /\ Used(w, vs) \in Walker
           /\ Used(w, vs).refVars = {} /\ Used(w, vs).dead = w.dead
           /\ \A v \in Names : Used(w, vs).pending[v] = IF v \in vs THEN 0 ELSE w.pending[v]
<1>. DEFINE p == [v \in Names |-> IF v \in vs THEN 0 ELSE w.pending[v]]
<1>1. Used(w, vs) = [w EXCEPT !.pending = p]
  BY DEF Used
<1>2. p \in [Names -> Nat] /\ \A v \in Names : p[v] = IF v \in vs THEN 0 ELSE w.pending[v]
  BY DEF Walker
<1>. HIDE DEF p
<1>. QED
  BY <1>1, <1>2 DEF Walker

LEMMA VisitIs ==
    ASSUME NEW src, NEW n \in Nat \ {0}, Plain(src[n]), NEW w \in Walker
    PROVE  Visit(src, w, n) \in Walker /\ Visited(src, w, Visit(src, w, n), n)
<1>. DEFINE line == src[n]
            z == Visit(src, w, n)
            read == Used(w, Reads(line))
<1>0. Var \subseteq Names
  BY DEF Var, Names
<1>1. /\ read \in Walker /\ read.refVars = {} /\ read.dead = w.dead
      /\ \A v \in Names : read.pending[v] = IF v \in Reads(line) THEN 0 ELSE w.pending[v]
  <2>. DEFINE vs == Reads(line)
  <2>1. /\ Used(w, vs) \in Walker
        /\ Used(w, vs).refVars = {} /\ Used(w, vs).dead = w.dead
        /\ \A v \in Names : Used(w, vs).pending[v] = IF v \in vs THEN 0 ELSE w.pending[v]
    <3>. HIDE DEF vs
    <3>. QED
      BY UsedIs
  <2>. QED
    BY <2>1, Zenon
<1>2. w.refVars = {}
  BY DEF Walker
<1>3. z = CASE line.op = "decl" ->
                 [w EXCEPT !.pending[line.v] = IF Tracked(src, w, line.v, n) THEN n ELSE @]
            [] line.op = "ref" -> [read EXCEPT !.refVars = @ \cup {line.v}]
            [] line.op = "set" -> Assigned(src, read, line.v, n)
            [] line.op \in {"if", "for", "catch"} -> branch(read)
            [] OTHER -> read
  BY Zenon DEF Visit, Reads
<1>4. /\ line.op \in {"decl", "set"} => line.v \in Var
      /\ line.op \in {"decl", "set", "say", "compare", "if", "for", "try", "catch", "end", "literal"}
  BY DEF Plain, AnyLine, Ops
<1>5. Tracked(src, w, line.v, n) = ~InLoop(src, n) /\ Tracked(src, read, line.v, n) = ~InLoop(src, n)
  BY <1>1, <1>2 DEF Tracked
<1>6. InLoop(src, n) \in BOOLEAN
  BY DEF InLoop
<1>a. line.op \notin {"compare", "say", "if", "set"} => Reads(line) = {}
  BY ReadsIs
<1>. HIDE DEF z, read
<1>7. CASE line.op = "decl"
  <2>. DEFINE x == IF ~InLoop(src, n) THEN n ELSE w.pending[line.v]
  <2>1. z = [w EXCEPT !.pending[line.v] = x]
    <3>1. z = [w EXCEPT !.pending[line.v] = IF Tracked(src, w, line.v, n) THEN n ELSE @]
      BY <1>3, <1>7
    <3>. QED
      BY <3>1, <1>5
  <2>2. line.v \in Names /\ line.v \in Var /\ x \in Nat
    BY <1>0, <1>4, <1>7 DEF Walker
  <2>3. x = IF ~InLoop(src, n) THEN n ELSE w.pending[line.v]
    OBVIOUS
  <2>. HIDE DEF x
  <2>4. z \in Walker /\ z.dead = w.dead
    BY <2>1, <2>2 DEF Walker
  <2>5. \A v \in Var : z.pending[v] = IF v = line.v THEN x ELSE w.pending[v]
    BY <2>1, <2>2, <1>0 DEF Walker
  <2>. QED
    BY <1>7, <1>a, <2>3, <2>4, <2>5 DEF z, Visited
<1>8. CASE line.op = "set"
  <2>. DEFINE tracked == ~InLoop(src, n)
              dead == IF tracked /\ read.pending[line.v] # 0 THEN {read.pending[line.v]} ELSE {}
              x == IF tracked THEN n ELSE 0
  <2>1. z = [read EXCEPT !.dead = @ \cup dead, !.pending[line.v] = x]
    <3>1. z = Assigned(src, read, line.v, n)
      BY <1>3, <1>8
    <3>. QED
      BY <3>1, <1>5 DEF Assigned
  <2>2. line.v \in Names /\ line.v \in Var /\ x \in Nat /\ dead \in SUBSET Nat
    BY <1>0, <1>1, <1>4, <1>8 DEF Walker
  <2>3. /\ x = IF tracked THEN n ELSE 0
        /\ dead = IF tracked /\ read.pending[line.v] # 0 THEN {read.pending[line.v]} ELSE {}
    OBVIOUS
  <2>. HIDE DEF x, dead
  <2>4. z \in Walker /\ z.dead = read.dead \cup dead
    BY <2>1, <2>2, <1>1 DEF Walker
  <2>5. \A v \in Var : z.pending[v] = IF v = line.v THEN x ELSE read.pending[v]
    BY <2>1, <2>2, <1>0, <1>1 DEF Walker
  <2>6. z.dead = IF tracked /\ line.v \notin Reads(line) /\ w.pending[line.v] # 0
                 THEN w.dead \cup {w.pending[line.v]} ELSE w.dead
    BY <1>1, <2>2, <2>3, <2>4
  <2>7. \A v \in Var : z.pending[v] =
            IF v = line.v THEN x ELSE IF v \in Reads(line) THEN 0 ELSE w.pending[v]
    BY <1>0, <1>1, <2>5
  <2>. QED
    BY <1>8, <2>3, <2>4, <2>6, <2>7 DEF z, Visited
<1>9. CASE line.op \in {"if", "for", "catch"}
  <2>1. z = Used(read, Names)
    BY <1>3, <1>9 DEF branch
  <2>2. z \in Walker /\ z.dead = w.dead /\ \A v \in Names : z.pending[v] = 0
    BY <1>1, <2>1, UsedIs
  <2>. QED
    BY <1>0, <1>9, <2>2 DEF z, Visited
<1>10. CASE line.op \notin {"decl", "set", "if", "for", "catch"}
  <2>1. z = read
    BY <1>3, <1>4, <1>10
  <2>. QED
    BY <1>0, <1>1, <1>10, <2>1 DEF z, Visited
<1>. QED
  BY <1>7, <1>8, <1>9, <1>10 DEF z

\* The walk is one of such steps.
LEMMA WalkSteps ==
    ASSUME NEW src, Written(src)
    PROVE  /\ Walk(src)[0] = Start
           /\ \A n \in 0 .. Len(src) : Walk(src)[n] \in Walker
           /\ \A n \in 1 .. Len(src) : Visited(src, Walk(src)[n - 1], Walk(src)[n], n)
<1>. DEFINE W == Walk(src)
            N == Len(src)
            S == {n \in Nat : n <= N => W[n] \in Walker}
<1>0. N \in Nat /\ \A n \in 1 .. N : Plain(src[n])
  BY DEF Written
<1>1. W[0] = Start /\ \A n \in 1 .. N : W[n] = Visit(src, W[n - 1], n)
  BY <1>0, WalkIs
<1>. HIDE DEF W, N
<1>2. 0 \in S
  BY <1>1 DEF Start, Walker, Names
<1>3. ASSUME NEW n \in S
      PROVE  n + 1 \in S
  <2>. SUFFICES ASSUME n + 1 <= N
                PROVE  W[n + 1] \in Walker
    OBVIOUS
  <2>1. n \in Nat /\ n + 1 \in 1 .. N /\ n + 1 \in Nat \ {0} /\ (n + 1) - 1 = n /\ W[n] \in Walker
    BY <1>0
  <2>2. W[n + 1] = Visit(src, W[n], n + 1)
    BY <1>1, <2>1
  <2>. QED
    BY <1>0, <2>1, <2>2, VisitIs
<1>4. S = Nat
  <2>1. S \in SUBSET Nat
    OBVIOUS
  <2>. HIDE DEF S
  <2>. QED
    BY <1>2, <1>3, <2>1, Induction
<1>5. \A n \in 0 .. N : W[n] \in Walker
  BY <1>0, <1>4
<1>6. ASSUME NEW n \in 1 .. N
      PROVE  Visited(src, W[n - 1], W[n], n)
  <2>1. n \in Nat \ {0} /\ n - 1 \in 0 .. N
    BY <1>0
  <2>. QED
    BY <1>0, <1>1, <1>5, <2>1, VisitIs
<1>. QED
  BY <1>1, <1>5, <1>6 DEF W, N
\* The write of v that is pending after line n, 0 if none is.
Pending(src, n, v) == Walk(src)[n].pending[v]

Since(src, k, n, v) ==
    /\ k \in 1 .. n
    /\ src[k].op \in {"set", "decl"} /\ src[k].v = v /\ ~InLoop(src, k)
    /\ \A m \in k .. n : Pending(src, m, v) = k

\* What is pending is a write outside the loops, pending ever since.
LEMMA Origin ==
    ASSUME NEW src, Written(src)
    PROVE  \A n \in 0 .. Len(src) : \A v \in Var :
             /\ Pending(src, n, v) \in Nat
             /\ Pending(src, n, v) # 0 => Since(src, Pending(src, n, v), n, v)
<1>. DEFINE N == Len(src)
            P(n, v) == Pending(src, n, v)
            S == {n \in Nat : n <= N => \A v \in Var : P(n, v) # 0 => Since(src, P(n, v), n, v)}
<1>0. N \in Nat
  BY DEF Written
<1>1. \A n \in 0 .. N : \A v \in Var : P(n, v) \in Nat
  BY WalkSteps DEF Pending, Walker, Var, Names
<1>2. \A v \in Var : P(0, v) = 0
  BY WalkSteps DEF Pending, Start, Var, Names
<1>3. 0 \in S
  BY <1>2
<1>4. ASSUME NEW n \in S
      PROVE  n + 1 \in S
  <2>. SUFFICES ASSUME n + 1 <= N, NEW v \in Var, P(n + 1, v) # 0
                PROVE  Since(src, P(n + 1, v), n + 1, v)
    OBVIOUS
  <2>1. n \in Nat /\ n + 1 \in 1 .. N /\ (n + 1) - 1 = n /\ n \in 0 .. N
    BY <1>0
  <2>2. P(n, v) # 0 => Since(src, P(n, v), n, v)
    BY <2>1
  <2>3. Visited(src, Walk(src)[n], Walk(src)[n + 1], n + 1)
    BY <2>1, WalkSteps
  <2>4. P(n + 1, v) \in {0, P(n, v), n + 1}
        /\ (P(n + 1, v) = n + 1 /\ P(n, v) # n + 1 =>
              src[n + 1].op \in {"set", "decl"} /\ src[n + 1].v = v /\ ~InLoop(src, n + 1))
    BY <2>1, <2>3 DEF Visited, Pending
  <2>. HIDE DEF P, S
  <2>5. CASE P(n + 1, v) = P(n, v)
    <3>. DEFINE k == P(n, v)
    <3>1. Since(src, k, n, v) /\ k # 0
      BY <2>2, <2>5
    <3>2. ASSUME NEW m \in k .. n + 1
          PROVE  Pending(src, m, v) = k
      <4>1. m \in k .. n \/ m = n + 1
        BY <3>1, <2>1 DEF Since
      <4>. QED
        BY <4>1, <3>1, <2>5 DEF Since, P
    <3>. HIDE DEF k
    <3>3. k \in 1 .. n + 1
      BY <3>1, <2>1 DEF Since
    <3>4. Since(src, k, n + 1, v)
      BY <3>1, <3>2, <3>3 DEF Since
    <3>. QED
      BY <3>4, <2>5 DEF k
  <2>6. CASE P(n + 1, v) = n + 1 /\ P(n, v) # n + 1
    BY <2>1, <2>4, <2>6 DEF Since, P
  <2>. QED
    BY <2>4, <2>5, <2>6
<1>5. S = Nat
  <2>1. S \in SUBSET Nat
    OBVIOUS
  <2>. HIDE DEF S
  <2>. QED
    BY <1>3, <1>4, <2>1, Induction
<1>. QED
  BY <1>0, <1>1, <1>5

\* The write on line i finds the one on line k dead.
Overwrites(src, i, k) ==
    /\ src[i].op = "set" /\ src[i].v \notin Reads(src[i]) /\ ~InLoop(src, i)
    /\ k # 0 /\ Pending(src, i - 1, src[i].v) = k

\* A dead store is one that a later write finds so.
LEMMA DeadFrom ==
    ASSUME NEW src, Written(src)
    PROVE  \A k \in DeadStores(src) : \E i \in 1 .. Len(src) : Overwrites(src, i, k)
<1>. DEFINE N == Len(src)
            D(n) == Walk(src)[n].dead
            S == {n \in Nat : n <= N => \A k \in D(n) : \E i \in 1 .. n : Overwrites(src, i, k)}
<1>0. N \in Nat
  BY DEF Written
<1>1. 0 \in S
  BY WalkSteps DEF Start
<1>2. ASSUME NEW n \in S
      PROVE  n + 1 \in S
  <2>. SUFFICES ASSUME n + 1 <= N, NEW k \in D(n + 1)
                PROVE  \E i \in 1 .. n + 1 : Overwrites(src, i, k)
    OBVIOUS
  <2>1. n \in Nat /\ n + 1 \in 1 .. N /\ (n + 1) - 1 = n
    BY <1>0
  <2>2. Visited(src, Walk(src)[n], Walk(src)[n + 1], n + 1)
    BY <2>1, WalkSteps
  <2>3. k \in D(n) \/ Overwrites(src, n + 1, k)
    BY <2>1, <2>2 DEF Visited, Overwrites, Pending
  <2>4. k \in D(n) => \E i \in 1 .. n : Overwrites(src, i, k)
    BY <2>1
  <2>. QED
    BY <2>1, <2>3, <2>4
<1>3. S = Nat
  <2>1. S \in SUBSET Nat
    OBVIOUS
  <2>. HIDE DEF S
  <2>. QED
    BY <1>1, <1>2, <2>1, Induction
<1>4. DeadStores(src) = D(N)
  BY <1>0, WalkIs
<1>. QED
  BY <1>0, <1>3, <1>4

\* The variables that may differ, at line n, between a program and the program
\* without its dead stores.
Stale(src, n) == {v \in Var : n <= Len(src) /\ Pending(src, n - 1, v) \in DeadStores(src) \ {0}}

\* Nothing reads a stale variable; it is written, or stays stale.
LEMMA StaleKept ==
    ASSUME NEW src, Written(src), NEW n \in 1 .. Len(src), NEW v \in Stale(src, n)
    PROVE  /\ src[n].op \notin {"if", "for", "catch"} /\ v \notin Reads(src[n])
           /\ n = Len(src) => src[n].op = "set"
           /\ (src[n].op = "set" /\ src[n].v = v) \/ v \in Stale(src, n + 1)
<1>. DEFINE N == Len(src)
            k == Pending(src, n - 1, v)
<1>0. N \in Nat /\ n - 1 \in 0 .. N /\ v \in Var /\ k \in DeadStores(src) /\ k # 0
  BY DEF Written, Stale
<1>. HIDE DEF N, k
<1>1. Since(src, k, n - 1, v)
  BY <1>0, Origin DEF k, N
<1>2. PICK i \in 1 .. N : Overwrites(src, i, k)
  BY <1>0, DeadFrom DEF N
<1>3. i - 1 \in 0 .. N /\ src[i].v \in Var
  BY <1>0, <1>2 DEF Overwrites, Written, Plain, N
<1>4. Since(src, k, i - 1, src[i].v)
  BY <1>2, <1>3, Origin DEF Overwrites, N
<1>5. src[i].v = v
  BY <1>1, <1>4 DEF Since
<1>6. Visited(src, Walk(src)[i - 1], Walk(src)[i], i)
  BY <1>2, WalkSteps DEF N
<1>7. Pending(src, i, v) = i /\ i \notin k .. n - 1
  <2>1. Pending(src, i, v) = i
    BY <1>0, <1>2, <1>5, <1>6 DEF Visited, Overwrites, Pending
  <2>2. i # k
    BY <1>3, <1>4, <1>0 DEF Since
  <2>. QED
    BY <2>1, <2>2, <1>1 DEF Since
<1>8. n <= i
  BY <1>7, <1>4, <1>0 DEF Since, N
<1>9. CASE n = i
  BY <1>2, <1>5, <1>9 DEF Overwrites
<1>10. CASE n < i
  <2>1. n \in k .. i - 1 /\ n \in 1 .. N /\ n + 1 <= N /\ (n + 1) - 1 = n
    BY <1>1, <1>8, <1>10, <1>0, <1>2 DEF Since, N
  <2>2. Pending(src, n, v) = k
    BY <2>1, <1>4, <1>5 DEF Since
  <2>3. Visited(src, Walk(src)[n - 1], Walk(src)[n], n)
    BY <2>1, WalkSteps DEF N
  <2>4. k # n
    BY <1>1, <1>0 DEF Since, N
  <2>5. src[n].op \notin {"if", "for", "catch"} /\ v \notin Reads(src[n])
    <3>1. src[n].op = "decl" => Reads(src[n]) = {}
      BY <2>1, ReadsIs DEF Written, N
    <3>. QED
      BY <1>0, <2>2, <2>3, <2>4, <3>1 DEF Visited, Pending
  <2>6. v \in Stale(src, n + 1)
    BY <1>0, <2>1, <2>2 DEF Stale, N
  <2>7. n # N
    BY <2>1, <1>0
  <2>. QED
    BY <2>5, <2>6, <2>7 DEF N
<1>. QED
  BY <1>8, <1>9, <1>10, <1>0 DEF N
\* Nothing is pending in a loop.
LEMMA LoopEmpty ==
    ASSUME NEW src, Written(src), NEW i \in 1 .. Len(src), src[i].op = "for"
    PROVE  \A n \in i + 1 .. CloseOf(src, i) : Stale(src, n) = {}
<1>. DEFINE N == Len(src)
            c == CloseOf(src, i)
            S == {n \in Nat : i + n <= N /\ i + n < c => \A v \in Var : Pending(src, i + n, v) = 0}
<1>0. N \in Nat /\ i \in Nat \ {0} /\ c \in Nat /\ c > i
  <2>1. N \in Nat /\ i \in Nat
    BY DEF Written
  <2>. QED
    BY <2>1, Onwards
<1>a. \A n \in 1 .. N : Visited(src, Walk(src)[n - 1], Walk(src)[n], n)
  BY WalkSteps
<1>. HIDE DEF N, c
<1>1. 0 \in S
  <2>1. \A v \in Var : Pending(src, i, v) = 0
    BY <1>a DEF Visited, Pending, N
  <2>2. i + 0 = i
    BY <1>0
  <2>. QED
    BY <2>1, <2>2
<1>2. ASSUME NEW n \in S
      PROVE  n + 1 \in S
  <2>. SUFFICES ASSUME i + (n + 1) <= N, i + (n + 1) < c, NEW v \in Var
                PROVE  Pending(src, i + (n + 1), v) = 0
    OBVIOUS
  <2>. DEFINE m == i + (n + 1)
  <2>1. n \in Nat /\ m \in 1 .. N /\ m - 1 = i + n /\ i + n <= N /\ i + n < c /\ i \in 1 .. m - 1
    BY <1>0
  <2>2. Pending(src, m - 1, v) = 0
    BY <2>1
  <2>3. InLoop(src, m)
    BY <2>1 DEF InLoop, c
  <2>4. Visited(src, Walk(src)[m - 1], Walk(src)[m], m)
    BY <2>1, <1>a
  <2>. QED
    BY <2>2, <2>3, <2>4 DEF Visited, Pending
<1>3. S = Nat
  <2>1. S \in SUBSET Nat
    OBVIOUS
  <2>. HIDE DEF S
  <2>. QED
    BY <1>1, <1>2, <2>1, Induction
<1>4. ASSUME NEW n \in i + 1 .. c, n <= N, NEW v \in Var
      PROVE  Pending(src, n - 1, v) = 0
  <2>. DEFINE m == n - 1 - i
  <2>1. m \in Nat /\ i + m = n - 1 /\ i + m <= N /\ i + m < c
    BY <1>0, <1>4
  <2>2. m \in S
    <3>. HIDE DEF S, m
    <3>. QED
      BY <2>1, <1>3
  <2>. HIDE DEF m
  <2>. QED
    BY <2>1, <2>2
<1>. QED
  BY <1>4 DEF Stale, N, c

\* A pass deletes assignments only, and every variable it leaves different after
\* one is stale.
LEMMA DeletedIs ==
    ASSUME NEW src, Written(src), NEW i \in Deleted(src)
    PROVE  /\ i \in 1 .. Len(src) /\ src[i].op = "set"
           /\ src[i].e = src[i].v \/ src[i].v \in Stale(src, i + 1)
<1>. DEFINE N == Len(src)
<1>0. N \in Nat /\ DOMAIN src = 1 .. N
  BY DEF Written
<1>1. CASE i \in DeadStores(src) /\ src[i].op # "decl"
  <2>1. PICK j \in 1 .. N : Overwrites(src, j, i)
    BY <1>1, DeadFrom
  <2>. DEFINE v == src[j].v
  <2>2. v \in Var /\ j - 1 \in 0 .. N
    BY <1>0, <2>1 DEF Overwrites, Written, Plain
  <2>3. Since(src, i, j - 1, v)
    BY <2>1, <2>2, Origin DEF Overwrites
  <2>4. i \in 1 .. j - 1 /\ i + 1 <= N /\ (i + 1) - 1 = i /\ i # 0
    BY <1>0, <2>1, <2>3 DEF Since
  <2>5. Pending(src, i, v) = i /\ src[i].op = "set" /\ src[i].v = v
    BY <1>1, <2>3, <2>4 DEF Since
  <2>6. v \in Stale(src, i + 1)
    BY <1>1, <2>2, <2>4, <2>5 DEF Stale
  <2>. QED
    BY <1>0, <2>4, <2>5, <2>6
<1>2. CASE i \in DOMAIN src /\ src[i].op = "set" /\ src[i].e = src[i].v
  BY <1>0, <1>2
<1>. QED
  BY <1>1, <1>2 DEF Deleted
-----------------------------------------------------------------------------
(* What a pass makes of a program.                                          *)

\* The lines a pass keeps of the first i lines, for each i up to n.
IsKept(src, kept, n) ==
    kept = [i \in 0 .. n |->
              IF i = 0 THEN <<>>
              ELSE IF i \in Deleted(src) THEN kept[i - 1]
              ELSE Append(kept[i - 1], Corrected(src, i))]

LEMMA KeptExists ==
    ASSUME NEW src, NEW n \in Nat PROVE \E kept : IsKept(src, kept, n)
<1>. DEFINE Next1(before, i) ==
              IF i \in Deleted(src) THEN before
              ELSE Append(before, Corrected(src, i))
            S == {m \in Nat : \E kept :
                    kept = [i \in 0 .. m |-> IF i = 0 THEN <<>> ELSE Next1(kept[i - 1], i)]}
<1>. HIDE DEF Next1
<1>1. 0 \in S
  <2>. DEFINE z == [i \in 0 .. 0 |-> <<>>]
  <2>1. z = [i \in 0 .. 0 |-> IF i = 0 THEN <<>> ELSE Next1(z[i - 1], i)]
    OBVIOUS
  <2>. HIDE DEF z
  <2>. QED
    BY <2>1
<1>2. ASSUME NEW m \in S
      PROVE  m + 1 \in S
  <2>1. PICK kept :
            kept = [i \in 0 .. m |-> IF i = 0 THEN <<>> ELSE Next1(kept[i - 1], i)]
    OBVIOUS
  <2>. DEFINE t == Next1(kept[m], m + 1)
              z == [i \in 0 .. m + 1 |-> IF i = m + 1 THEN t ELSE kept[i]]
  <2>2. ASSUME NEW i \in 0 .. m
        PROVE  kept[i] = IF i = 0 THEN <<>> ELSE Next1(kept[i - 1], i)
    BY <2>1
  <2>3. ASSUME NEW i \in 0 .. m + 1
        PROVE  z[i] = IF i = 0 THEN <<>> ELSE Next1(z[i - 1], i)
    <3>1. CASE i = m + 1
      <4>1. z[i] = t /\ z[i - 1] = kept[m] /\ i # 0
        BY <3>1
      <4>. QED
        BY <3>1, <4>1
    <3>2. CASE i \in 0 .. m
      <4>1. z[i] = kept[i] /\ (i # 0 => z[i - 1] = kept[i - 1])
        BY <3>2
      <4>. QED
        BY <3>2, <4>1, <2>2
    <3>. QED
      BY <3>1, <3>2
  <2>4. z = [i \in 0 .. m + 1 |-> IF i = 0 THEN <<>> ELSE Next1(z[i - 1], i)]
    <3>1. z = [i \in 0 .. m + 1 |-> z[i]]
      OBVIOUS
    <3>. HIDE DEF z
    <3>. QED
      BY <2>3, <3>1, Zenon
  <2>5. m + 1 \in Nat
    OBVIOUS
  <2>. HIDE DEF z
  <2>. QED
    BY <2>4, <2>5, Zenon
<1>3. S = Nat
  <2>1. S \in SUBSET Nat
    OBVIOUS
  <2>. HIDE DEF S
  <2>. QED
    BY <1>1, <1>2, <2>1, Induction
<1>4. PICK kept :
          kept = [i \in 0 .. n |-> IF i = 0 THEN <<>> ELSE Next1(kept[i - 1], i)]
  BY <1>3
<1>. QED
  BY <1>4, Zenon DEF IsKept, Next1

\* The lines of the program are kept in order: the i-th becomes the last of
\* those kept of the first i.
Placed(src, kept, n) ==
    /\ \A i \in 1 .. n :
          i \notin Deleted(src) =>
             /\ Len(kept[i - 1]) + 1 = Len(kept[i]) /\ Len(kept[i]) <= Len(kept[n])
             /\ kept[n][Len(kept[i])] = Corrected(src, i)
    /\ \A m \in 1 .. Len(kept[n]) : \E i \in 1 .. n : i \notin Deleted(src) /\ m = Len(kept[i])

LEMMA FixedIs ==
    ASSUME NEW T, NEW src \in Seq(T), Mark("literal") \in T
    PROVE  /\ Fixed(src) \in Seq(T)
           /\ \E kept : /\ IsKept(src, kept, Len(src))
                        /\ Fixed(src) = kept[Len(src)]
                        /\ \A i \in 0 .. Len(src) : kept[i] \in Seq(T)
                        /\ Placed(src, kept, Len(src))
<1>. DEFINE n == Len(src)
            P(kept) == IsKept(src, kept, n)
<1>0. n \in Nat
  OBVIOUS
<1>1. P(CHOOSE kept : P(kept))
  BY <1>0, KeptExists, Zenon
<1>2. Fixed(src) = (CHOOSE kept : P(kept))[n]
  BY Zenon DEF Fixed, IsKept
<1>3. PICK kept : IsKept(src, kept, n) /\ Fixed(src) = kept[n]
  BY <1>1, <1>2
<1>4. ASSUME NEW i \in 0 .. n
      PROVE  kept[i] = IF i = 0 THEN <<>>
                       ELSE IF i \in Deleted(src) THEN kept[i - 1]
                       ELSE Append(kept[i - 1], Corrected(src, i))
  BY <1>3, Zenon DEF IsKept
<1>5. ASSUME NEW i \in 1 .. n PROVE Corrected(src, i) \in T
  BY DEF Corrected
<1>. DEFINE S == {i \in Nat : i <= n => /\ \A k \in 0 .. i : kept[k] \in Seq(T)
                                     /\ Placed(src, kept, i)}
<1>. HIDE DEF P
<1>6. 0 \in S
  <2>1. 0 \in 0 .. n
    BY <1>0
  <2>2. kept[0] = <<>>
    BY <2>1, <1>4
  <2>3. 0 \in Nat /\ kept[0] \in Seq(T) /\ Len(kept[0]) = 0
    BY <2>2
  <2>4. Placed(src, kept, 0)
    BY <2>3 DEF Placed
  <2>. QED
    BY <2>3, <2>4
<1>7. ASSUME NEW i \in S
      PROVE  i + 1 \in S
  <2>. SUFFICES ASSUME i + 1 <= n
                PROVE  (\A k \in 0 .. i + 1 : kept[k] \in Seq(T)) /\ Placed(src, kept, i + 1)
    OBVIOUS
  <2>1. i \in Nat /\ (\A k \in 0 .. i : kept[k] \in Seq(T)) /\ Placed(src, kept, i)
        /\ kept[i] \in Seq(T)
        /\ i + 1 \in 1 .. n /\ i + 1 \in 0 .. n
    BY <1>0
  <2>. HIDE DEF S, n
  <2>2. kept[i + 1] = IF i + 1 \in Deleted(src) THEN kept[i]
                      ELSE Append(kept[i], Corrected(src, i + 1))
    <3>1. i + 1 # 0 /\ (i + 1) - 1 = i
      BY <2>1
    <3>. QED
      BY <2>1, <3>1, <1>4
  <2>3. Corrected(src, i + 1) \in T
    BY <2>1, <1>5
  <2>4. \A k \in 1 .. i + 1 : k \in 1 .. i \/ k = i + 1
    BY <2>1
  <2>5. \A k \in 0 .. i + 1 : k \in 0 .. i \/ k = i + 1
    BY <2>1
  <2>6. CASE i + 1 \in Deleted(src)
    <3>1. kept[i + 1] = kept[i]
      BY <2>2, <2>6
    <3>2. \A k \in 1 .. i : k \in 1 .. i + 1
      BY <2>1
    <3>3. Placed(src, kept, i + 1)
      BY <2>1, <2>4, <2>6, <3>1, <3>2 DEF Placed
    <3>. QED
      BY <2>1, <2>5, <3>1, <3>3
  <2>7. CASE i + 1 \notin Deleted(src)
    <3>. DEFINE c == Corrected(src, i + 1)
                l == Len(kept[i])
    <3>. HIDE DEF c
    <3>1. kept[i + 1] = Append(kept[i], c) /\ c \in T
      BY <2>2, <2>3, <2>7 DEF c
    <3>2. /\ kept[i + 1] \in Seq(T) /\ Len(kept[i + 1]) = l + 1 /\ l \in Nat
          /\ \A m \in 1 .. l : kept[i + 1][m] = kept[i][m]
          /\ kept[i + 1][l + 1] = c
      BY <2>1, <3>1
    <3>. HIDE DEF l
    <3>3. ASSUME NEW k \in 1 .. i + 1, k \notin Deleted(src)
          PROVE  /\ Len(kept[k - 1]) + 1 = Len(kept[k]) /\ Len(kept[k]) <= Len(kept[i + 1])
                 /\ kept[i + 1][Len(kept[k])] = Corrected(src, k)
      <4>1. CASE k \in 1 .. i
        <5>. DEFINE m == Len(kept[k])
        <5>1. Len(kept[k - 1]) + 1 = m /\ m <= l /\ kept[i][m] = Corrected(src, k)
          BY <2>1, <3>3, <4>1 DEF Placed, l
        <5>4. m \in 1 .. l
          <6>1. k - 1 \in 0 .. i /\ \A q \in Seq(T) : Len(q) \in Nat
            BY <2>1, <4>1
          <6>2. Len(kept[k - 1]) \in Nat
            BY <2>1, <6>1
          <6>. HIDE DEF m
          <6>. QED
            BY <5>1, <3>2, <6>2
        <5>. HIDE DEF m
        <5>5. kept[i + 1][m] = kept[i][m] /\ m <= l + 1
          BY <5>4, <3>2
        <5>. QED
          BY <5>1, <5>5, <3>2 DEF m
      <4>2. CASE k = i + 1
        <5>1. k - 1 = i
          BY <2>1, <4>2
        <5>. QED
          BY <3>2, <4>2, <5>1 DEF c, l
      <4>. QED
        BY <2>4, <4>1, <4>2
    <3>4. ASSUME NEW m \in 1 .. Len(kept[i + 1])
          PROVE  \E k \in 1 .. i + 1 : k \notin Deleted(src) /\ m = Len(kept[k])
      <4>1. CASE m = l + 1
        <5>1. i + 1 \in 1 .. i + 1
          BY <2>1
        <5>. QED
          BY <2>7, <3>2, <4>1, <5>1
      <4>2. CASE m # l + 1
        <5>1. m \in 1 .. Len(kept[i])
          BY <3>2, <4>2 DEF l
        <5>2. PICK k \in 1 .. i : k \notin Deleted(src) /\ m = Len(kept[k])
          BY <2>1, <5>1 DEF Placed
        <5>3. k \in 1 .. i + 1
          BY <2>1
        <5>. QED
          BY <5>2, <5>3
      <4>. QED
        BY <4>1, <4>2
    <3>5. Placed(src, kept, i + 1)
      BY <3>3, <3>4 DEF Placed
    <3>. QED
      BY <2>1, <2>5, <3>2, <3>5
  <2>. QED
    BY <2>6, <2>7
<1>8. S = Nat
  <2>1. S \in SUBSET Nat
    OBVIOUS
  <2>. HIDE DEF S
  <2>. QED
    BY <1>6, <1>7, <2>1, Induction
<1>9. /\ \A i \in 0 .. n : kept[i] \in Seq(T)
      /\ Placed(src, kept, n)
  BY <1>0, <1>8
<1>. QED
  BY <1>0, <1>3, <1>9
\* Where each line of a program goes: a line deleted goes where the next one does,
\* and the place after the last line to the place after the last line kept.
Moves(src, pos) ==
    LET fx == Fixed(src)
    IN  /\ pos \in [Nat \ {0} -> Nat \ {0}] /\ pos[1] = 1
        /\ \A i \in 1 .. Len(src) :
              /\ i \in Deleted(src) => pos[i + 1] = pos[i]
              /\ i \notin Deleted(src) => /\ pos[i + 1] = pos[i] + 1 /\ pos[i] <= Len(fx)
                                          /\ fx[pos[i]] = Corrected(src, i)
        /\ \A i \in Nat \ {0} : i > Len(src) => pos[i] > Len(fx) /\ pos[i + 1] = pos[i] + 1
        /\ \A m \in 1 .. Len(fx) : \E i \in 1 .. Len(src) : i \notin Deleted(src) /\ pos[i] = m

PlainLines == {line \in AnyLine : Plain(line)}

LEMMA WrittenIs == ASSUME NEW src PROVE Written(src) <=> src \in Seq(PlainLines)
<1>1. ASSUME src \in Seq(PlainLines) PROVE Written(src)
  <2>1. \A i \in DOMAIN src : src[i] \in PlainLines
    BY <1>1
  <2>2. PlainLines \subseteq AnyLine
    BY DEF PlainLines
  <2>3. src \in Seq(AnyLine)
    <3>. HIDE DEF AnyLine, PlainLines
    <3>. QED
      BY <1>1, <2>2
  <2>. QED
    BY <2>1, <2>3 DEF Written, PlainLines
<1>2. ASSUME Written(src) PROVE src \in Seq(PlainLines)
  <2>1. src \in Seq(AnyLine) /\ \A i \in DOMAIN src : src[i] \in PlainLines
    BY <1>2 DEF Written, PlainLines
  <2>. QED
    BY <2>1
<1>. QED
  BY <1>1, <1>2

LEMMA LiteralIs == Mark("literal") \in PlainLines /\ Mark("literal").op = "literal"
<1>. DEFINE l == Mark("literal")
<1>1. l = [op |-> "literal", v |-> "", e |-> ""]
  BY DEF Mark
<1>. HIDE DEF l
<1>2. l \in AnyLine /\ l.op = "literal"
  BY <1>1 DEF AnyLine, Ops, Exprs
<1>3. Plain(l)
  BY <1>2 DEF Plain, AnyLine, Ops
<1>. QED
  BY <1>2, <1>3 DEF PlainLines, l

LEMMA Moved ==
    ASSUME NEW src, Written(src)
    PROVE  Written(Fixed(src)) /\ \E pos : Moves(src, pos)
<1>. DEFINE N == Len(src)
            fx == Fixed(src)
<1>1. src \in Seq(PlainLines) /\ N \in Nat
  BY WrittenIs
<1>2. PICK kept : /\ fx \in Seq(PlainLines) /\ IsKept(src, kept, N) /\ fx = kept[N]
                  /\ \A i \in 0 .. N : kept[i] \in Seq(PlainLines)
                  /\ Placed(src, kept, N)
  BY <1>1, LiteralIs, FixedIs
<1>3. Written(fx)
  BY <1>2, WrittenIs
<1>. DEFINE L(i) == Len(kept[i])
            at(i) == IF i <= N THEN L(i - 1) + 1 ELSE L(N) + (i - N)
            pos == [i \in Nat \ {0} |-> at(i)]
<1>4. \A i \in 0 .. N : L(i) \in Nat
  BY <1>2
<1>5. ASSUME NEW i \in 0 .. N
      PROVE  kept[i] = IF i = 0 THEN <<>>
                       ELSE IF i \in Deleted(src) THEN kept[i - 1]
                       ELSE Append(kept[i - 1], Corrected(src, i))
  BY <1>2, Zenon DEF IsKept
<1>6. L(0) = 0 /\ \A i \in 1 .. N : i \in Deleted(src) => L(i) = L(i - 1)
  BY <1>1, <1>5
<1>7. \A i \in 1 .. N : i \notin Deleted(src) =>
          L(i - 1) + 1 = L(i) /\ L(i) <= L(N) /\ fx[L(i)] = Corrected(src, i)
  BY <1>2 DEF Placed
<1>8. \A m \in 1 .. L(N) : \E i \in 1 .. N : i \notin Deleted(src) /\ m = L(i)
  BY <1>2 DEF Placed
<1>9. Len(fx) = L(N)
  BY <1>2
<1>. HIDE DEF L, fx, N
<1>10. \A i \in Nat \ {0} : at(i) \in Nat \ {0}
  BY <1>1, <1>4
<1>11. pos \in [Nat \ {0} -> Nat \ {0}] /\ \A i \in Nat \ {0} : pos[i] = at(i)
  BY <1>10
<1>12. ASSUME NEW i \in 1 .. N + 1
       PROVE  at(i) = L(i - 1) + 1
  <2>1. CASE i = N + 1
    <3>1. i - 1 = N /\ i - N = 1 /\ ~(i <= N)
      BY <1>1, <2>1
    <3>. QED
      BY <3>1
  <2>2. CASE i \in 1 .. N
    BY <1>1, <2>2
  <2>. QED
    BY <1>1, <2>1, <2>2
<1>13. \A i \in Nat \ {0} : i > N => at(i) > L(N) /\ at(i + 1) = at(i) + 1
  BY <1>1, <1>4
<1>. HIDE DEF at, pos
<1>14. pos[1] = 1
  BY <1>1, <1>6, <1>11, <1>12
<1>15. ASSUME NEW i \in 1 .. N
       PROVE  /\ pos[i] = L(i - 1) + 1 /\ pos[i + 1] = L(i) + 1
              /\ L(i) \in Nat /\ L(i - 1) \in Nat
  <2>1. i \in 1 .. N + 1 /\ i + 1 \in 1 .. N + 1 /\ (i + 1) - 1 = i /\ i \in Nat \ {0}
        /\ i + 1 \in Nat \ {0} /\ i \in 0 .. N /\ i - 1 \in 0 .. N
    BY <1>1
  <2>. QED
    BY <1>4, <1>11, <1>12, <2>1
<1>16. ASSUME NEW i \in 1 .. N
       PROVE  /\ i \in Deleted(src) => pos[i + 1] = pos[i]
              /\ i \notin Deleted(src) => /\ pos[i + 1] = pos[i] + 1 /\ pos[i] <= Len(fx)
                                          /\ fx[pos[i]] = Corrected(src, i)
                                          /\ pos[i] = L(i)
  BY <1>6, <1>7, <1>9, <1>15
<1>17. ASSUME NEW i \in Nat \ {0}, i > N
       PROVE  pos[i] > Len(fx) /\ pos[i + 1] = pos[i] + 1
  <2>1. i + 1 \in Nat \ {0}
    OBVIOUS
  <2>. QED
    BY <1>9, <1>11, <1>13, <1>17, <2>1
<1>18. \A m \in 1 .. Len(fx) : \E i \in 1 .. N : i \notin Deleted(src) /\ pos[i] = m
  BY <1>8, <1>9, <1>16
<1>19. Moves(src, pos)
  BY <1>11, <1>14, <1>16, <1>17, <1>18 DEF Moves, fx, N
<1>. QED
  BY <1>3, <1>19 DEF fx
LEMMA CorrectedIs ==
    ASSUME NEW src, NEW i
    PROVE  \/ Corrected(src, i) = src[i]
           \/ src[i].op = "compare" /\ Corrected(src, i).op = "literal"
BY LiteralIs DEF Corrected, Replaced

\* A line that is kept, and is no comparison, is found where it goes.
LEMMA KeptMoves ==
    ASSUME NEW src, Written(src), NEW pos, Moves(src, pos),
           NEW i \in 1 .. Len(src), src[i].op \notin {"set", "compare"}
    PROVE  /\ i \notin Deleted(src) /\ pos[i + 1] = pos[i] + 1
           /\ pos[i] \in DOMAIN Fixed(src) /\ Fixed(src)[pos[i]] = src[i]
<1>1. i \notin Deleted(src)
  BY DeletedIs
<1>2. Corrected(src, i) = src[i]
  BY CorrectedIs
<1>3. pos[i] \in Nat \ {0} /\ Len(Fixed(src)) \in Nat /\ DOMAIN Fixed(src) = 1 .. Len(Fixed(src))
  <2>1. i \in Nat \ {0} /\ Written(Fixed(src))
    BY Moved DEF Written
  <2>. QED
    BY <2>1 DEF Moves, Written
<1>4. pos[i + 1] = pos[i] + 1 /\ pos[i] <= Len(Fixed(src)) /\ Fixed(src)[pos[i]] = src[i]
  BY <1>1, <1>2 DEF Moves
<1>. QED
  BY <1>1, <1>3, <1>4

\* What ends a block is kept.
LEMMA StopMoves ==
    ASSUME NEW src, Written(src), NEW pos, Moves(src, pos), NEW i \in Nat \ {0}
    PROVE  /\ BlockEnd(src)[i] \in Nat \ {0}
           /\ pos[BlockEnd(src)[i] + 1] = pos[BlockEnd(src)[i]] + 1
<1>. DEFINE a == BlockEnd(src)[i]
<1>1. Len(src) \in Nat
  BY DEF Written
<1>2. a \in Nat \ {0} /\ (a <= Len(src) => src[a].op \in {"end", "catch"})
  BY <1>1, BlockEndAbove, BlockEndStops
<1>. HIDE DEF a
<1>3. CASE a <= Len(src)
  <2>1. a \in 1 .. Len(src) /\ src[a].op \notin {"set", "compare"}
    BY <1>1, <1>2, <1>3
  <2>. QED
    BY <1>2, <2>1, KeptMoves DEF a
<1>4. CASE a > Len(src)
  BY <1>2, <1>4 DEF Moves, a
<1>. QED
  BY <1>1, <1>2, <1>3, <1>4

\* Blocks move with their lines.
LEMMA BlocksMove ==
    ASSUME NEW src, Written(src), NEW pos, Moves(src, pos)
    PROVE  \A i \in Nat \ {0} : BlockEnd(Fixed(src))[pos[i]] = pos[BlockEnd(src)[i]]
<1>. DEFINE N == Len(src)
            fx == Fixed(src)
            E == BlockEnd(src)
            F == BlockEnd(fx)
            S == {i \in Nat : i # 0 => F[pos[i]] = pos[E[i]]}
<1>0. /\ N \in Nat /\ Len(fx) \in Nat
      /\ \A i \in Nat \ {0} : pos[i] \in Nat \ {0}
  BY Moved DEF Written, Moves
<1>1. /\ \A i \in Nat : E[i] = EndFrom(src, E, i)
      /\ \A i \in Nat : F[i] = EndFrom(fx, F, i)
  BY <1>0, BlockEndIs
<1>2. \A i \in Nat \ {0} : E[i] \in Nat \ {0} /\ E[i] >= i /\ pos[E[i] + 1] = pos[E[i]] + 1
  BY <1>0, StopMoves, BlockEndAbove
<1>. HIDE DEF N, fx, E, F
<1>3. ASSUME NEW i \in Nat, i > N
      PROVE  i \in S
  <2>. SUFFICES ASSUME i # 0 PROVE F[pos[i]] = pos[E[i]]
    OBVIOUS
  <2>1. E[i] = i
    BY <1>1, <1>3 DEF EndFrom, N
  <2>2. pos[i] > Len(fx) /\ pos[i] \in Nat
    BY <1>0, <1>3 DEF Moves, N, fx
  <2>3. F[pos[i]] = pos[i]
    BY <1>1, <2>2 DEF EndFrom
  <2>. QED
    BY <2>1, <2>3
<1>4. ASSUME NEW i \in Nat, i <= N, \A k \in Nat : k > i => k \in S
      PROVE  i \in S
  <2>. SUFFICES ASSUME i # 0 PROVE F[pos[i]] = pos[E[i]]
    OBVIOUS
  <2>0. \A k \in Nat \ {0} : k > i => F[pos[k]] = pos[E[k]]
    BY <1>4
  <2>. HIDE DEF S
  <2>1. i \in 1 .. N /\ i + 1 \in Nat \ {0} /\ i + 1 > i
    BY <1>0, <1>4
  <2>2. CASE i \in Deleted(src)
    <3>1. pos[i] = pos[i + 1]
      BY <2>1, <2>2 DEF Moves, N
    <3>2. src[i].op = "set" /\ ~(i > N)
      BY <1>0, <1>4, <2>2, DeletedIs
    <3>3. E[i] = E[i + 1]
      BY <1>1, <3>2 DEF EndFrom, Opens, N
    <3>. QED
      BY <2>0, <2>1, <3>1, <3>3
  <2>3. CASE i \notin Deleted(src)
    <3>. DEFINE p == pos[i]
                a == E[i + 1]
                b == E[a + 1]
                c == E[b + 1]
    <3>1. /\ pos[i + 1] = p + 1 /\ p <= Len(fx) /\ fx[p] = Corrected(src, i)
      BY <2>1, <2>3 DEF Moves, N, fx
    <3>2. a \in Nat \ {0} /\ a >= i + 1 /\ pos[a + 1] = pos[a] + 1 /\ F[p + 1] = pos[a]
      BY <1>2, <2>0, <2>1, <3>1
    <3>. HIDE DEF a
    <3>3. b \in Nat \ {0} /\ b >= a + 1 /\ pos[b + 1] = pos[b] + 1 /\ F[pos[a] + 1] = pos[b]
      <4>1. a + 1 \in Nat \ {0} /\ a + 1 > i
        BY <3>2
      <4>. QED
        BY <1>2, <2>0, <3>2, <4>1
    <3>. HIDE DEF b
    <3>4. F[pos[b] + 1] = pos[c]
      <4>1. b + 1 \in Nat \ {0} /\ b + 1 > i
        BY <3>2, <3>3
      <4>. QED
        BY <2>0, <3>3, <4>1
    <3>. HIDE DEF c
    <3>5. E[i] = IF src[i].op \in {"end", "catch"} THEN i
                 ELSE IF src[i].op = "try" THEN c
                 ELSE IF Opens(src[i]) THEN b ELSE a
      <4>1. ~(i > N)
        BY <1>0, <1>4
      <4>2. E[i] = EndFrom(src, E, i)
        BY <1>1
      <4>. QED
        BY <4>1, <4>2, Zenon DEF EndFrom, N, a, b, c
    <3>6. F[p] = IF fx[p].op \in {"end", "catch"} THEN p
                 ELSE IF fx[p].op = "try" THEN pos[c]
                 ELSE IF Opens(fx[p]) THEN pos[b] ELSE pos[a]
      <4>1. ~(p > Len(fx)) /\ p \in Nat
        BY <1>0, <2>1, <3>1
      <4>2. F[p] = EndFrom(fx, F, p)
        BY <1>1, <4>1
      <4>. QED
        BY <3>2, <3>3, <3>4, <4>1, <4>2, Zenon DEF EndFrom
    <3>7. \/ fx[p] = src[i]
          \/ src[i].op = "compare" /\ fx[p].op = "literal"
      BY <3>1, CorrectedIs
    <3>. QED
      BY <3>5, <3>6, <3>7 DEF Opens, p
  <2>. QED
    BY <2>2, <2>3
<1>5. S = Nat
  <2>1. S \in SUBSET Nat
    OBVIOUS
  <2>. HIDE DEF S
  <2>. QED
    BY <1>0, <1>3, <1>4, <2>1, Upwards
<1>. QED
  BY <1>5 DEF E, F, fx

LEMMA CloseMoves ==
    ASSUME NEW src, Written(src), NEW pos, Moves(src, pos),
           NEW i \in 1 .. Len(src), Opens(src[i])
    PROVE  /\ CatchOf(Fixed(src), pos[i]) = pos[CatchOf(src, i)]
           /\ CatchOf(Fixed(src), pos[i]) + 1 = pos[CatchOf(src, i) + 1]
           /\ CloseOf(Fixed(src), pos[i]) = pos[CloseOf(src, i)]
           /\ CloseOf(Fixed(src), pos[i]) + 1 = pos[CloseOf(src, i) + 1]
<1>. DEFINE fx == Fixed(src)
            E == BlockEnd(src)
            F == BlockEnd(fx)
            a == E[i + 1]
<1>1. i + 1 \in Nat \ {0} /\ pos[i + 1] = pos[i] + 1 /\ fx[pos[i]] = src[i]
  <2>1. src[i].op \notin {"set", "compare"} /\ i \in Nat
    BY DEF Opens
  <2>. QED
    BY <2>1, KeptMoves
<1>2. \A k \in Nat \ {0} : E[k] \in Nat \ {0} /\ pos[E[k] + 1] = pos[E[k]] + 1 /\ F[pos[k]] = pos[E[k]]
  BY StopMoves, BlocksMove
<1>. HIDE DEF fx, E, F
<1>3. F[pos[i] + 1] = pos[a] /\ pos[a + 1] = pos[a] + 1 /\ a + 1 \in Nat \ {0}
  BY <1>1, <1>2
<1>4. F[pos[a] + 1] = pos[E[a + 1]] /\ pos[E[a + 1] + 1] = pos[E[a + 1]] + 1
  BY <1>2, <1>3
<1>. HIDE DEF a
<1>5. CatchOf(fx, pos[i]) = pos[a] /\ CatchOf(src, i) = a
  BY <1>3, Zenon DEF CatchOf, F, E, a
<1>6. /\ CloseOf(fx, pos[i]) = F[IF src[i].op = "try" THEN pos[a] + 1 ELSE pos[i] + 1]
      /\ CloseOf(src, i) = E[IF src[i].op = "try" THEN a + 1 ELSE i + 1]
  BY <1>1, <1>5, Zenon DEF CloseOf, F, E
<1>7. CASE src[i].op = "try"
  BY <1>3, <1>4, <1>5, <1>6, <1>7 DEF fx
<1>8. CASE src[i].op # "try"
  <2>1. CloseOf(fx, pos[i]) = pos[a] /\ CloseOf(src, i) = a
    BY <1>3, <1>6, <1>8 DEF a
  <2>. QED
    BY <1>3, <1>5, <2>1 DEF fx
<1>. QED
  BY <1>7, <1>8

\* A pass makes a program of a program.
LEMMA FixedProgram ==
    ASSUME NEW src, Program(src)
    PROVE  Program(Fixed(src))
<1>. DEFINE fx == Fixed(src)
            N == Len(src)
<1>1. Written(src) /\ Parses(src) /\ Written(fx) /\ N \in Nat /\ DOMAIN src = 1 .. N
  BY Moved DEF Program, Written
<1>2. PICK pos : Moves(src, pos)
  BY <1>1, Moved
<1>3. DOMAIN fx = 1 .. Len(fx) /\ Len(fx) \in Nat
  BY <1>1 DEF Written
<1>. HIDE DEF fx, N
<1>4. ASSUME NEW m \in DOMAIN fx, Opens(fx[m])
      PROVE  /\ CloseOf(fx, m) <= Len(fx) /\ fx[CloseOf(fx, m)].op = "end"
             /\ fx[m].op = "try" => fx[CatchOf(fx, m)].op = "catch"
  <2>1. PICK i \in 1 .. N : i \notin Deleted(src) /\ pos[i] = m
    BY <1>2, <1>3 DEF Moves, fx, N
  <2>2. fx[m] = Corrected(src, i)
    BY <1>2, <2>1 DEF Moves, fx, N
  <2>3. fx[m] = src[i] /\ Opens(src[i])
    BY <1>4, <2>2, CorrectedIs DEF Opens
  <2>. DEFINE c == CloseOf(src, i)
              h == CatchOf(src, i)
  <2>4. /\ c <= N /\ src[c].op = "end" /\ (src[i].op = "try" => src[h].op = "catch")
    BY <1>1, <2>1, <2>3 DEF Parses, N
  <2>5. i \in Nat /\ c \in Nat /\ c > i /\ h \in Nat /\ h > i /\ (src[i].op = "try" => c > h)
    BY <1>1, <2>1, Onwards DEF N
  <2>6. CloseOf(fx, m) = pos[c] /\ CatchOf(fx, m) = pos[h]
    BY <1>1, <1>2, <2>1, <2>3, CloseMoves DEF fx, N
  <2>. HIDE DEF c, h
  <2>7. c \in 1 .. N /\ (src[i].op = "try" => h \in 1 .. N)
    BY <1>1, <2>1, <2>4, <2>5
  <2>8. pos[c] \in DOMAIN fx /\ fx[pos[c]] = src[c]
    BY <1>1, <1>2, <2>4, <2>7, KeptMoves DEF fx, N
  <2>9. src[i].op = "try" => fx[pos[h]] = src[h]
    BY <1>1, <1>2, <2>4, <2>7, KeptMoves DEF fx, N
  <2>. QED
    BY <1>3, <2>3, <2>4, <2>6, <2>8, <2>9
<1>5. Parses(fx)
  BY <1>4 DEF Parses
<1>. QED
  BY <1>1, <1>5 DEF Program, fx
-----------------------------------------------------------------------------
(* A program and what a pass makes of it run alike.                         *)

Fine(st) == st \in States /\ ~st.raised /\ ~st.failed

\* States a run of the program and one of the corrected program have at line n.
Alike(src, n, s, t) ==
    /\ Fine(s) /\ Fine(t) /\ s.out = t.out
    /\ \A v \in Var \ Stale(src, n) : s.env[v] = t.env[v]

LEMMA FineAlike == ASSUME NEW src, NEW n, NEW s, Fine(s) PROVE Alike(src, n, s, s)
BY DEF Alike

LEMMA AlikeSame ==
    ASSUME NEW src, NEW n, NEW s, NEW t, Alike(src, n, s, t), Stale(src, n) = {}
    PROVE  s = t
<1>1. s \in States /\ t \in States /\ \A v \in Var : s.env[v] = t.env[v]
  BY DEF Alike, Fine
<1>2. s.env = t.env
  BY <1>1, StateIs
<1>3. s.out = t.out /\ s.raised = t.raised /\ s.failed = t.failed
  BY <1>1, StateIs DEF Alike, Fine
<1>4. /\ s = [env |-> s.env, out |-> s.out, raised |-> s.raised, failed |-> s.failed]
      /\ t = [env |-> t.env, out |-> t.out, raised |-> t.raised, failed |-> t.failed]
  BY <1>1, StateIs
<1>. QED
  BY <1>2, <1>3, <1>4, Zenon

\* A line which is no assignment leaves states alike.
LEMMA AlikeOn ==
    ASSUME NEW src, Written(src), NEW n \in 1 .. Len(src), src[n].op # "set",
           NEW s, NEW t, Alike(src, n, s, t)
    PROVE  Alike(src, n + 1, s, t)
<1>1. \A v \in Stale(src, n) : v \in Stale(src, n + 1)
  BY StaleKept
<1>. QED
  BY <1>1 DEF Alike

\* Before a branch, a loop or a catch the states are the same.
LEMMA AlikeBranch ==
    ASSUME NEW src, Written(src), NEW n \in 1 .. Len(src), src[n].op \in {"if", "for", "catch"},
           NEW s, NEW t, Alike(src, n, s, t)
    PROVE  s = t
<1>1. Stale(src, n) = {}
  BY StaleKept
<1>. QED
  BY <1>1, AlikeSame

LEMMA AlikeReads ==
    ASSUME NEW src, Written(src), NEW n \in 1 .. Len(src), NEW v \in Var, v \in Reads(src[n]),
           NEW s, NEW t, Alike(src, n, s, t)
    PROVE  s.env[v] = t.env[v]
<1>1. v \notin Stale(src, n)
  BY StaleKept
<1>. QED
  BY <1>1 DEF Alike

\* Where the block of a line ends.
LEMMA EndIs ==
    ASSUME NEW src, Written(src), NEW i \in 1 .. Len(src)
    PROVE  BlockEnd(src)[i] = IF src[i].op \in {"end", "catch"} THEN i
                              ELSE IF Opens(src[i]) THEN BlockEnd(src)[CloseOf(src, i) + 1]
                              ELSE BlockEnd(src)[i + 1]
<1>1. Len(src) \in Nat /\ i \in Nat /\ ~(i > Len(src))
  BY DEF Written
<1>2. BlockEnd(src)[i] = EndFrom(src, BlockEnd(src), i)
  BY <1>1, BlockEndIs
<1>3. src[i].op = "try" => Opens(src[i])
  BY DEF Opens
<1>. QED
  BY <1>1, <1>2, <1>3, Zenon DEF EndFrom, CloseOf, CatchOf

\* From line k to the end of its block the two runs stay alike.
Sim(src, pos, k) ==
    \A s, t \in States :
       Alike(src, k, s, t) /\ ~Exec(src)[k][s].failed =>
          Alike(src, BlockEnd(src)[k], Exec(src)[k][s], Exec(Fixed(src))[pos[k]][t])

\* An assignment that is deleted wrote what nothing reads, or what was there.
LEMMA SimDeleted ==
    ASSUME NEW src, Written(src), NEW pos, Moves(src, pos), NEW i \in Deleted(src),
           Sim(src, pos, i + 1)
    PROVE  Sim(src, pos, i)
<1>. DEFINE X == Exec(src)
            Y == Exec(Fixed(src))
<1>1. /\ i \in 1 .. Len(src) /\ src[i].op = "set"
      /\ src[i].e = src[i].v \/ src[i].v \in Stale(src, i + 1)
  BY DeletedIs
<1>2. pos[i] = pos[i + 1]
  BY <1>1 DEF Moves
<1>3. BlockEnd(src)[i] = BlockEnd(src)[i + 1]
  BY <1>1, EndIs DEF Opens
<1>4. i \in DOMAIN src /\ Plain(src[i]) /\ i \in Nat \ {0} /\ i <= Len(src)
  BY <1>1 DEF Written
<1>5. ASSUME NEW s \in States, NEW t \in States, Alike(src, i, s, t), ~X[i][s].failed
      PROVE  Alike(src, BlockEnd(src)[i], X[i][s], Y[pos[i]][t])
  <2>. DEFINE v == src[i].v
              x == ValueOf(src[i].e, s.env)
              r == Wrote(s, v, x)
  <2>1. Steps(src, i, s)
    BY <1>4, <1>5, ExecSteps DEF Alike, Fine
  <2>2. ~Fails(src[i], s)
    BY <1>1, <1>5, <2>1 DEF Steps, States
  <2>3. X[i][s] = X[i + 1][r]
    BY <1>1, <2>1, <2>2, Zenon DEF Steps
  <2>4. v \in Var /\ src[i].e \in Exprs
    BY <1>1, <1>4 DEF Plain
  <2>5. x \in 0 .. 2 /\ (src[i].e = v => x = s.env[v])
    BY <2>4, ValueIs
  <2>. HIDE DEF x
  <2>6. /\ r \in States /\ r.out = s.out /\ r.raised = s.raised /\ r.failed = s.failed
        /\ \A u \in Var : r.env[u] = IF u = v THEN x ELSE s.env[u]
    <3>1. Writes(s, v, x, r)
      BY <2>4, <2>5, WroteIs
    <3>. HIDE DEF r
    <3>. QED
      BY <3>1 DEF Writes
  <2>. HIDE DEF r
  <2>7. ASSUME NEW u \in Var \ Stale(src, i + 1)
        PROVE  r.env[u] = t.env[u]
    <3>1. CASE u = v
      <4>1. src[i].e = v /\ v \in Reads(src[i])
        BY <1>1, <1>4, <2>4, <2>7, <3>1, ReadsIs
      <4>2. s.env[v] = t.env[v]
        BY <1>1, <1>5, <2>4, <4>1, AlikeReads
      <4>. QED
        BY <2>4, <2>5, <2>6, <3>1, <4>1, <4>2
    <3>2. CASE u # v
      <4>1. u \notin Stale(src, i)
        BY <1>1, <2>7, <3>2, StaleKept
      <4>. QED
        BY <1>5, <2>6, <3>2, <4>1 DEF Alike
    <3>. QED
      BY <3>1, <3>2
  <2>8. Alike(src, i + 1, r, t)
    BY <1>5, <2>6, <2>7 DEF Alike, Fine
  <2>9. Alike(src, BlockEnd(src)[i + 1], X[i + 1][r], Y[pos[i + 1]][t])
    BY <1>5, <2>3, <2>6, <2>8 DEF Sim
  <2>. QED
    BY <1>2, <1>3, <2>3, <2>9
<1>. QED
  BY <1>5 DEF Sim

\* A line that is kept and opens no block.
LEMMA SimKept ==
    ASSUME NEW src, Written(src), NEW pos, Moves(src, pos),
           NEW i \in 1 .. Len(src), i \notin Deleted(src), ~Opens(src[i]),
           src[i].op \notin {"end", "catch"}, Sim(src, pos, i + 1)
    PROVE  Sim(src, pos, i)
<1>. DEFINE fx == Fixed(src)
            X == Exec(src)
            Y == Exec(fx)
            p == pos[i]
<1>1. /\ i \in DOMAIN src /\ Plain(src[i]) /\ i \in Nat \ {0} /\ i <= Len(src)
      /\ p \in Nat \ {0} /\ Written(fx)
  BY Moved DEF Written, Moves
<1>2. pos[i + 1] = p + 1 /\ p <= Len(fx) /\ fx[p] = Corrected(src, i)
  BY DEF Moves
<1>3. BlockEnd(src)[i] = BlockEnd(src)[i + 1]
  BY EndIs
<1>4. ASSUME NEW s \in States, NEW t \in States, Alike(src, i, s, t), ~X[i][s].failed
      PROVE  Alike(src, BlockEnd(src)[i], X[i][s], Y[p][t])
  <2>1. Steps(src, i, s) /\ Steps(fx, p, t)
    BY <1>1, <1>2, <1>4, ExecSteps DEF Alike, Fine
  <2>2. ASSUME NEW r \in States, NEW q \in States, Alike(src, i + 1, r, q),
               X[i][s] = X[i + 1][r], Y[p][t] = Y[p + 1][q]
        PROVE  Alike(src, BlockEnd(src)[i], X[i][s], Y[p][t])
    <3>1. Alike(src, BlockEnd(src)[i + 1], X[i + 1][r], Y[pos[i + 1]][q])
      BY <1>4, <2>2 DEF Sim
    <3>. QED
      BY <1>2, <1>3, <2>2, <3>1
  <2>3. CASE src[i].op = "set"
    <3>. DEFINE v == src[i].v
                x == ValueOf(src[i].e, s.env)
                r == Wrote(s, v, x)
                q == Wrote(t, v, x)
    <3>1. fx[p] = src[i] /\ v \in Var /\ src[i].e \in Exprs
      BY <1>1, <1>2, <2>3, CorrectedIs DEF Plain
    <3>2. Fails(src[i], s) = Fails(src[i], t) /\ ValueOf(src[i].e, t.env) = x
      <4>1. CASE src[i].e \in Var
        <5>1. src[i].e \in Reads(src[i])
          BY <1>1, <2>3, <4>1, ReadsIs
        <5>2. s.env[src[i].e] = t.env[src[i].e]
          BY <1>4, <4>1, <5>1, AlikeReads
        <5>. QED
          BY <3>1, <4>1, <5>2, ValueIs DEF Fails, Var
      <4>2. CASE src[i].e = "1/y"
        <5>1. "y" \in Var /\ "y" \in Reads(src[i])
          BY <1>1, <2>3, <4>2, ReadsIs DEF Var
        <5>2. s.env["y"] = t.env["y"]
          BY <1>4, <5>1, AlikeReads
        <5>. QED
          BY <3>1, <4>2, <5>2, ValueIs DEF Fails
      <4>3. CASE src[i].e \in {"1", "2"}
        BY <3>1, <4>3, ValueIs DEF Fails
      <4>. QED
        BY <3>1, <4>1, <4>2, <4>3 DEF Exprs
    <3>3. ~Fails(src[i], s)
      BY <1>4, <2>1, <2>3 DEF Steps, States
    <3>4. X[i][s] = X[i + 1][r] /\ Y[p][t] = Y[p + 1][q]
      <4>1. X[i][s] = X[i + 1][r]
        BY <2>1, <2>3, <3>3, Zenon DEF Steps
      <4>2. Y[p][t] = Y[p + 1][Wrote(t, fx[p].v, ValueOf(fx[p].e, t.env))]
        <5>1. fx[p].op = "set" /\ ~Fails(fx[p], t)
          BY <2>3, <3>1, <3>2, <3>3, Zenon
        <5>. QED
          BY <2>1, <5>1, Zenon DEF Steps
      <4>. QED
        BY <3>1, <3>2, <4>1, <4>2, Zenon
    <3>5. x \in 0 .. 2
      BY <3>1, ValueIs
    <3>. HIDE DEF x
    <3>6. /\ r \in States /\ r.out = s.out /\ r.raised = s.raised /\ r.failed = s.failed
          /\ \A u \in Var : r.env[u] = IF u = v THEN x ELSE s.env[u]
          /\ q \in States /\ q.out = t.out /\ q.raised = t.raised /\ q.failed = t.failed
          /\ \A u \in Var : q.env[u] = IF u = v THEN x ELSE t.env[u]
      <4>1. Writes(s, v, x, r) /\ Writes(t, v, x, q)
        BY <3>1, <3>5, WroteIs
      <4>. HIDE DEF r, q
      <4>. QED
        BY <4>1 DEF Writes
    <3>. HIDE DEF r, q
    <3>7. ASSUME NEW u \in Var \ Stale(src, i + 1)
          PROVE  r.env[u] = q.env[u]
      <4>1. u # v => u \notin Stale(src, i)
        BY <3>7, StaleKept
      <4>. QED
        BY <1>4, <3>6, <4>1 DEF Alike
    <3>8. Alike(src, i + 1, r, q)
      BY <1>4, <3>6, <3>7 DEF Alike, Fine
    <3>. QED
      BY <2>2, <3>4, <3>6, <3>8
  <2>4. CASE src[i].op = "say"
    <3>. DEFINE x == s.env[src[i].v]
                r == Said(s, x)
                q == Said(t, x)
    <3>1. fx[p] = src[i] /\ src[i].v \in Var /\ src[i].v \in Reads(src[i])
      BY <1>1, <1>2, <2>4, CorrectedIs, ReadsIs DEF Plain
    <3>2. t.env[src[i].v] = x /\ x \in 0 .. 2
      BY <1>4, <3>1, AlikeReads, StateIs
    <3>3. X[i][s] = X[i + 1][r] /\ Y[p][t] = Y[p + 1][q]
      <4>1. X[i][s] = X[i + 1][r]
        BY <2>1, <2>4, Zenon DEF Steps
      <4>2. Y[p][t] = Y[p + 1][Said(t, t.env[fx[p].v])]
        <5>1. fx[p].op = "say"
          BY <2>4, <3>1
        <5>. QED
          BY <2>1, <5>1, Zenon DEF Steps
      <4>. QED
        BY <3>1, <3>2, <4>1, <4>2, Zenon
    <3>. HIDE DEF x
    <3>4. /\ r \in States /\ r.env = s.env /\ r.out = Append(s.out, x)
          /\ r.raised = s.raised /\ r.failed = s.failed
          /\ q \in States /\ q.env = t.env /\ q.out = Append(t.out, x)
          /\ q.raised = t.raised /\ q.failed = t.failed
      BY <3>2, SaidIs
    <3>. HIDE DEF r, q
    <3>5. Alike(src, i + 1, s, t)
      BY <1>4, <2>4, AlikeOn
    <3>6. Alike(src, i + 1, r, q)
      BY <3>4, <3>5, Zenon DEF Alike, Fine
    <3>. QED
      BY <2>2, <3>3, <3>4, <3>6
  <2>5. CASE src[i].op \in {"decl", "compare", "literal"}
    <3>1. fx[p].op \in {"decl", "compare", "literal"}
      BY <1>2, <2>5, CorrectedIs
    <3>2. X[i][s] = X[i + 1][s] /\ Y[p][t] = Y[p + 1][t]
      BY <2>1, <2>5, <3>1, Zenon DEF Steps
    <3>3. Alike(src, i + 1, s, t)
      <4>1. src[i].op # "set"
        BY <2>5
      <4>. QED
        BY <1>4, <4>1, AlikeOn
    <3>. QED
      BY <2>2, <3>2, <3>3
  <2>. QED
    BY <1>1, <2>3, <2>4, <2>5 DEF Plain, AnyLine, Ops, Opens
<1>. QED
  BY <1>4 DEF Sim
\* A line that opens a block, given the lines of its parts.
LEMMA SimOpens ==
    ASSUME NEW src, Program(src), NEW pos, Moves(src, pos),
           NEW i \in 1 .. Len(src), Opens(src[i]),
           \A k \in Nat : k > i => Sim(src, pos, k)
    PROVE  Sim(src, pos, i)
<1>. DEFINE fx == Fixed(src)
            N == Len(src)
            X == Exec(src)
            Y == Exec(fx)
            p == pos[i]
            c == CloseOf(src, i)
            h == CatchOf(src, i)
<1>1. Written(src) /\ Written(fx) /\ Parses(src) /\ N \in Nat
  BY Moved DEF Program, Written
<1>2. /\ i \in DOMAIN src /\ Plain(src[i]) /\ i \in Nat \ {0} /\ i <= N
      /\ p \in Nat \ {0}
  BY <1>1 DEF Written, Moves
<1>3. /\ c <= N /\ src[c].op = "end"
      /\ src[i].op = "try" => src[h].op = "catch"
  BY <1>2, <1>1 DEF Parses
<1>4. c \in Nat /\ c > i /\ h \in Nat /\ h > i /\ (src[i].op = "try" => c > h)
  BY <1>1, <1>2, Onwards
<1>5. pos[i + 1] = p + 1 /\ p <= Len(fx) /\ fx[p] = src[i]
  <2>1. src[i].op \notin {"set", "compare"}
    BY DEF Opens
  <2>2. p \in DOMAIN fx /\ DOMAIN fx = 1 .. Len(fx)
    BY <1>1, <2>1, KeptMoves DEF Written
  <2>. QED
    BY <1>1, <2>1, <2>2, KeptMoves
<1>6. CatchOf(fx, p) + 1 = pos[h + 1] /\ CloseOf(fx, p) + 1 = pos[c + 1]
  BY <1>1, CloseMoves
<1>7. BlockEnd(src)[i] = BlockEnd(src)[c + 1]
  BY <1>1, EndIs DEF Opens
<1>8. BlockEnd(src)[i + 1] = IF src[i].op = "try" THEN h ELSE c
  <2>1. h = BlockEnd(src)[i + 1]
    BY DEF CatchOf
  <2>2. src[i].op # "try" => c = BlockEnd(src)[i + 1]
    BY DEF CloseOf
  <2>. QED
    BY <2>1, <2>2
<1>9. Sim(src, pos, i + 1) /\ Sim(src, pos, c + 1)
  <2>1. i + 1 \in Nat /\ i + 1 > i /\ c + 1 \in Nat /\ c + 1 > i
    BY <1>2, <1>4
  <2>. QED
    BY <2>1
<1>10. /\ i + 1 \in Nat \ {0} /\ c + 1 \in Nat \ {0} /\ h + 1 \in Nat \ {0}
       /\ c \in 1 .. N /\ (src[i].op = "try" => h \in 1 .. N)
       /\ c \in i + 1 .. c
  BY <1>1, <1>2, <1>3, <1>4
<1>11. \A k \in Nat \ {0} : \A s \in States : Kept(s, X[k][s])
  BY <1>1, ExecKeeps
<1>12. ASSUME NEW s, NEW t, Alike(src, i, s, t), ~X[i][s].failed
       PROVE  Steps(src, i, s) /\ Steps(fx, p, t) /\ s \in States /\ t \in States
  BY <1>1, <1>2, <1>5, <1>12, ExecSteps DEF Alike, Fine
\* The body, and what follows the block.
<1>13. ASSUME NEW s, NEW t, Alike(src, i + 1, s, t), ~X[i + 1][s].failed
       PROVE  Alike(src, BlockEnd(src)[i + 1], X[i + 1][s], Y[pos[i + 1]][t])
  BY <1>9, <1>13 DEF Sim, Alike, Fine
<1>14. ASSUME NEW s, NEW t, Alike(src, c + 1, s, t), ~X[c + 1][s].failed
       PROVE  Alike(src, BlockEnd(src)[c + 1], X[c + 1][s], Y[pos[c + 1]][t])
  BY <1>9, <1>14 DEF Sim, Alike, Fine
<1>15. ASSUME NEW s, Fine(s), ~X[c + 1][s].failed
       PROVE  Alike(src, BlockEnd(src)[c + 1], X[c + 1][s], Y[pos[c + 1]][s])
  BY <1>14, <1>15, FineAlike
<1>. HIDE DEF fx, N, X, Y, p, c, h
<1>16. ASSUME src[i].op = "if", NEW s, NEW t, Alike(src, i, s, t), ~X[i][s].failed
       PROVE  Alike(src, BlockEnd(src)[i], X[i][s], Y[p][t])
  <2>. DEFINE b == X[i + 1][s]
              d == Y[pos[i + 1]][s]
              taken == s.env[src[i].v] # 0
  <2>1. s = t
    BY <1>1, <1>16, AlikeBranch DEF N
  <2>2. Steps(src, i, s) /\ Steps(fx, p, s) /\ s \in States /\ Fine(s)
    BY <1>12, <1>16, <2>1 DEF Alike
  <2>3. X[i][s] = X[c + 1][IF s.env[src[i].v] = 0 THEN s ELSE b]
    BY <1>16, <2>2, Zenon DEF Steps, X, c
  <2>4. Y[p][s] = Y[pos[c + 1]][IF s.env[src[i].v] = 0 THEN s ELSE d]
    BY <1>5, <1>6, <1>16, <2>2, Zenon DEF Steps, Y
  <2>5. CASE ~taken
    <3>1. X[i][s] = X[c + 1][s] /\ Y[p][s] = Y[pos[c + 1]][s]
      BY <2>3, <2>4, <2>5
    <3>. QED
      BY <1>7, <1>15, <1>16, <2>1, <2>2, <3>1
  <2>6. CASE taken
    <3>1. X[i][s] = X[c + 1][b] /\ Y[p][s] = Y[pos[c + 1]][d]
      BY <2>3, <2>4, <2>6
    <3>2. Kept(s, b) /\ Kept(b, X[c + 1][b])
      BY <1>10, <1>11, <2>2 DEF Kept
    <3>3. ~b.failed /\ ~X[c + 1][b].failed
      BY <1>16, <3>1, <3>2 DEF Kept
    <3>4. Alike(src, c, b, d)
      BY <1>8, <1>13, <1>16, <2>2, <3>3, FineAlike
    <3>5. src[c].op # "set"
      BY <1>3
    <3>6. Alike(src, c + 1, b, d)
      BY <1>1, <1>10, <3>4, <3>5, AlikeOn DEF N
    <3>. QED
      BY <1>7, <1>14, <2>1, <3>1, <3>3, <3>6
  <2>. QED
    BY <2>5, <2>6
<1>17. ASSUME src[i].op = "for", NEW s, NEW t, Alike(src, i, s, t), ~X[i][s].failed
       PROVE  Alike(src, BlockEnd(src)[i], X[i][s], Y[p][t])
  <2>. DEFINE b == X[i + 1][s]
              d == Y[pos[i + 1]][s]
              b2 == X[i + 1][b]
              d2 == Y[pos[i + 1]][d]
  <2>1. s = t
    BY <1>1, <1>17, AlikeBranch DEF N
  <2>2. Steps(src, i, s) /\ Steps(fx, p, s) /\ s \in States /\ Fine(s)
    BY <1>12, <1>17, <2>1 DEF Alike
  <2>3. X[i][s] = X[c + 1][b2]
    BY <1>17, <2>2, Zenon DEF Steps, X, c
  <2>4. Y[p][s] = Y[pos[c + 1]][d2]
    BY <1>5, <1>6, <1>17, <2>2, Zenon DEF Steps, Y
  <2>5. Kept(s, b) /\ Kept(b, b2) /\ Kept(b2, X[c + 1][b2])
    BY <1>10, <1>11, <2>2 DEF Kept
  <2>6. ~b.failed /\ ~b2.failed /\ ~X[c + 1][b2].failed
    BY <1>17, <2>3, <2>5 DEF Kept
  <2>7. Stale(src, c) = {}
    BY <1>1, <1>10, <1>17, LoopEmpty DEF N, c
  <2>8. Alike(src, c, b, d)
    BY <1>8, <1>13, <1>17, <2>2, <2>6, FineAlike
  <2>9. b = d /\ Fine(b)
    BY <2>7, <2>8, AlikeSame DEF Alike
  <2>10. Alike(src, c, b2, d2)
    BY <1>8, <1>13, <1>17, <2>6, <2>9, FineAlike
  <2>11. b2 = d2 /\ Fine(b2)
    BY <2>7, <2>10, AlikeSame DEF Alike
  <2>. QED
    BY <1>7, <1>15, <2>1, <2>3, <2>4, <2>6, <2>11
<1>18. ASSUME src[i].op = "try", NEW s, NEW t, Alike(src, i, s, t), ~X[i][s].failed
       PROVE  Alike(src, BlockEnd(src)[i], X[i][s], Y[p][t])
  <2>. DEFINE b == X[i + 1][s]
              d == Y[pos[i + 1]][t]
              r == [b EXCEPT !.raised = FALSE]
              u == IF ~b.raised THEN b ELSE X[h + 1][r]
              q == IF ~d.raised THEN d
                   ELSE Y[pos[h + 1]][[d EXCEPT !.raised = FALSE]]
  <2>1. Steps(src, i, s) /\ Steps(fx, p, t) /\ s \in States /\ t \in States
    BY <1>12, <1>18
  <2>2. X[i][s] = X[c + 1][u]
    BY <1>18, <2>1, Zenon DEF Steps, X, c, h
  <2>3. Y[p][t] = Y[pos[c + 1]][q]
    BY <1>5, <1>6, <1>18, <2>1, Zenon DEF Steps, Y
  <2>4. Kept(s, b) /\ b \in States
    BY <1>10, <1>11, <2>1 DEF Kept
  <2>5. Kept(b, r) /\ r \in States
    <3>. HIDE DEF b
    <3>. QED
      BY <2>4 DEF Kept, States
  <2>. HIDE DEF b, r
  <2>6. Kept(b, u) /\ u \in States
    <3>1. CASE ~b.raised
      BY <2>4, <3>1 DEF Kept
    <3>2. CASE b.raised
      <4>1. Kept(r, X[h + 1][r])
        BY <1>10, <1>11, <2>5
      <4>2. Kept(b, X[h + 1][r])
        BY <2>5, <4>1, KeptStep
      <4>. QED
        BY <3>2, <4>2 DEF Kept
    <3>. QED
      BY <3>1, <3>2
  <2>7. Kept(u, X[c + 1][u])
    BY <1>10, <1>11, <2>6
  <2>8. ~X[c + 1][u].failed /\ ~b.failed
    BY <1>18, <2>2, <2>6, <2>7 DEF Kept
  <2>9. Alike(src, i + 1, s, t)
    BY <1>1, <1>18, AlikeOn DEF N
  <2>10. Alike(src, h, b, d)
    BY <1>8, <1>13, <1>18, <2>8, <2>9 DEF b
  <2>11. src[h].op = "catch" /\ h \in 1 .. N
    BY <1>3, <1>10, <1>18
  <2>12. b = d /\ Fine(b)
    BY <1>1, <2>10, <2>11, AlikeBranch DEF Alike, N
  <2>13. u = b /\ q = b
    BY <2>12 DEF Fine
  <2>. QED
    BY <1>7, <1>15, <2>2, <2>3, <2>8, <2>12, <2>13
<1>. QED
  BY <1>16, <1>17, <1>18 DEF Sim, Opens, X, Y, fx, p

\* The two runs stay alike from any line on.
LEMMA Simulates ==
    ASSUME NEW src, Program(src), NEW pos, Moves(src, pos)
    PROVE  \A i \in Nat \ {0} : Sim(src, pos, i)
<1>. DEFINE N == Len(src)
            fx == Fixed(src)
            S == {i \in Nat : i # 0 => Sim(src, pos, i)}
<1>0. Written(src) /\ Written(fx) /\ N \in Nat /\ Len(fx) \in Nat
  BY Moved DEF Program, Written
<1>1. ASSUME NEW i \in Nat \ {0}, i > N
      PROVE  Sim(src, pos, i)
  <2>1. pos[i] > Len(fx) /\ pos[i] \in Nat \ {0}
    BY <1>1 DEF Moves
  <2>2. BlockEnd(src)[i] = i
    BY <1>0, <1>1, BlockEndIs DEF EndFrom
  <2>3. \A s \in States : Exec(src)[i][s] = s /\ Exec(fx)[pos[i]][s] = s
    BY <1>0, <1>1, <2>1, ExecStays
  <2>. QED
    BY <2>2, <2>3 DEF Sim
<1>2. ASSUME NEW i \in 1 .. N, src[i].op \in {"end", "catch"}
      PROVE  Sim(src, pos, i)
  <2>1. src[i].op \notin {"set", "compare"} /\ i \in Nat \ {0}
    BY <1>2
  <2>2. fx[pos[i]] = src[i]
    BY <1>0, <2>1, KeptMoves
  <2>5. pos[i] \in Nat \ {0}
    BY <2>1 DEF Moves
  <2>3. BlockEnd(src)[i] = i
    BY <1>0, <1>2, EndIs
  <2>4. \A s \in States : Exec(src)[i][s] = s /\ Exec(fx)[pos[i]][s] = s
    BY <1>0, <1>2, <2>1, <2>2, <2>5, ExecStays
  <2>. QED
    BY <2>3, <2>4 DEF Sim
<1>3. ASSUME NEW i \in Nat, i <= N, \A k \in Nat : k > i => k \in S
      PROVE  i \in S
  <2>. SUFFICES ASSUME i # 0 PROVE Sim(src, pos, i)
    OBVIOUS
  <2>1. i \in 1 .. N /\ i + 1 \in Nat /\ i + 1 > i
    BY <1>0, <1>3
  <2>2. \A k \in Nat : k > i => Sim(src, pos, k)
    BY <1>3
  <2>3. Sim(src, pos, i + 1)
    BY <2>1, <2>2
  <2>4. CASE i \in Deleted(src)
    BY <1>0, <2>3, <2>4, SimDeleted
  <2>5. CASE Opens(src[i])
    BY <2>1, <2>2, <2>5, SimOpens
  <2>6. CASE src[i].op \in {"end", "catch"}
    BY <1>2, <2>1, <2>6
  <2>7. CASE i \notin Deleted(src) /\ ~Opens(src[i]) /\ src[i].op \notin {"end", "catch"}
    BY <1>0, <2>1, <2>3, <2>7, SimKept
  <2>. QED
    BY <2>4, <2>5, <2>6, <2>7
<1>4. \A i \in Nat : i > N => i \in S
  BY <1>1
<1>5. S = Nat
  <2>1. S \in SUBSET Nat
    OBVIOUS
  <2>. HIDE DEF S, N
  <2>. QED
    BY <1>0, <1>3, <1>4, <2>1, Upwards
<1>. QED
  BY <1>5

\* A pass keeps what a program that raises nothing prints, and that it raises nothing.
LEMMA PassKeepsRun ==
    ASSUME NEW src, Program(src), ~Run(src).failed
    PROVE  ~Run(Fixed(src)).failed /\ Run(Fixed(src)).out = Run(src).out
<1>1. PICK pos : Moves(src, pos)
  BY Moved DEF Program
<1>2. Fine(Fresh)
  <2>1. <<>> \in Seq(0 .. 2) /\ [v \in {"x", "y"} |-> 0] \in [{"x", "y"} -> 0 .. 2]
    OBVIOUS
  <2>. QED
    BY <2>1 DEF Fine, Fresh, States
<1>3. Sim(src, pos, 1) /\ pos[1] = 1
  <2>1. 1 \in Nat \ {0}
    OBVIOUS
  <2>2. Sim(src, pos, 1)
    BY <1>1, <2>1, Simulates
  <2>. QED
    BY <1>1, <2>2 DEF Moves
<1>4. Alike(src, BlockEnd(src)[1], Run(src), Run(Fixed(src)))
  BY <1>2, <1>3, FineAlike DEF Sim, Run, Fine
<1>. QED
  BY <1>4 DEF Alike, Fine

-----------------------------------------------------------------------------
(* The fixer.                                                               *)

Writable == Lines \cup {Decl("x"), Decl("y")}

LEMMA FixerTypes == ASSUME FixerAssumption PROVE Spec => []TypeOK
<1>. DEFINE More == Lines \cup {Decl("x"), Decl("y"), Mark("literal")}
<1>1. ASSUME Init PROVE TypeOK
  <2>1. Decl("x") \in Writable /\ Decl("y") \in Writable
    BY DEF Writable
  <2>2. original = <<Decl("x"), Decl("y")>> /\ source = <<>>
    BY <1>1 DEF Init
  <2>. HIDE DEF More
  <2>3. original \in Seq(Writable) /\ source \in Seq(More)
    BY <2>1, <2>2
  <2>4. passes \in 0 .. MaxPasses
    BY <1>1 DEF Init, FixerAssumption
  <2>5. fixing \in BOOLEAN
    BY <1>1 DEF Init
  <2>. QED
    BY <2>3, <2>4, <2>5, Zenon DEF TypeOK, Writable, More
<1>2. ASSUME TypeOK, WriteLine PROVE TypeOK'
  BY <1>2 DEF WriteLine, TypeOK
<1>3. ASSUME TypeOK, StartFix PROVE TypeOK'
  <2>1. source' \in Seq(Writable) /\ Writable \subseteq More
    BY <1>3 DEF StartFix, TypeOK, Writable
  <2>2. source' \in Seq(More)
    <3>. HIDE DEF More
    <3>. QED
      BY <2>1
  <2>. QED
    BY <1>3, <2>2 DEF StartFix, TypeOK
<1>4. ASSUME TypeOK, FixPass PROVE TypeOK'
  <2>1. source \in Seq(More) /\ source' = Fixed(source) /\ Mark("literal") \in More
    BY <1>4 DEF FixPass, TypeOK
  <2>2. source' \in Seq(More)
    <3>. HIDE DEF More
    <3>. QED
      BY <2>1, FixedIs
  <2>. QED
    BY <1>4, <2>2 DEF FixPass, TypeOK, FixerAssumption
<1>5. TypeOK /\ UNCHANGED vars => TypeOK'
  BY DEF TypeOK, vars
<1>6. TypeOK /\ [Next]_vars => TypeOK'
  BY <1>2, <1>3, <1>4, <1>5 DEF Next
<1>. QED
  BY <1>1, <1>6, PTL DEF Spec

\* Whether the variables of the program have one name each.
OneName == \A i \in DOMAIN original : original[i].op # "ref"

\* A program names p only after the reference of its third line; what is with the
\* fixer is a program, and runs like the original.
RunsAlike ==
    /\ original \in Seq(Writable) /\ Len(original) >= 2
    /\ \A i \in DOMAIN original :
          "p" \in {original[i].v, original[i].e} => Len(original) >= 3 /\ original[3] = Ref
    /\ fixing /\ OneName => Program(source)
    /\ fixing /\ OneName /\ ~Run(original).failed =>
          ~Run(source).failed /\ Run(source).out = Run(original).out

LEMMA PlainIs ==
    ASSUME FixerAssumption, NEW line \in Writable, line.op # "ref", "p" \notin {line.v, line.e}
    PROVE  line \in PlainLines
<1>1. line \in Statements \cup {Decl("x"), Decl("y")}
  BY DEF FixerAssumption, Writable
<1>. DEFINE E == Names \cup {"1", "2", "1/y"}
<1>2. \/ \E v \in Names, e \in E : line = [op |-> "set", v |-> v, e |-> e]
      \/ \E v \in Names, op \in {"say", "compare", "if"} : line = [op |-> op, v |-> v, e |-> v]
      \/ line.op = "ref"
      \/ \E op \in {"for", "try", "catch", "end"} : line = [op |-> op, v |-> "", e |-> ""]
      \/ \E v \in Var : line = [op |-> "decl", v |-> v, e |-> "0"]
  <2>. DEFINE Sets == {Set(v, e) : v \in Names, e \in E}
              Marks == {Mark(op) : op \in {"for", "try", "catch", "end"}}
              Uses == {Say(v) : v \in Names} \cup {Compare(v) : v \in Names}
                      \cup {If(v) : v \in Names}
  <2>1. line \in Sets => \E v \in Names, e \in E : line = [op |-> "set", v |-> v, e |-> e]
    <3>. HIDE DEF E
    <3>. QED
      BY DEF Set
  <2>2. line \in Uses => \E v \in Names, op \in {"say", "compare", "if"} :
                            line = [op |-> op, v |-> v, e |-> v]
    BY DEF Say, Compare, If
  <2>3. line = Ref => line.op = "ref"
    BY DEF Ref
  <2>4. line \in Marks => \E op \in {"for", "try", "catch", "end"} :
                             line = [op |-> op, v |-> "", e |-> ""]
    BY DEF Mark
  <2>5. line \in {Decl("x"), Decl("y")} =>
           \E v \in Var : line = [op |-> "decl", v |-> v, e |-> "0"]
    BY DEF Decl, Var
  <2>6. Statements = Sets \cup Uses \cup {Ref} \cup Marks
    <3>1. Statements = Sets \cup {Say(v) : v \in Names} \cup {Compare(v) : v \in Names}
                       \cup {If(v) : v \in Names} \cup {Ref} \cup Marks
      BY DEF Statements
    <3>. HIDE DEF Sets, Marks
    <3>. QED
      BY <3>1
  <2>. HIDE DEF Sets, Marks, Uses, E
  <2>. QED
    BY <1>1, <2>1, <2>2, <2>3, <2>4, <2>5, <2>6
<1>3. ASSUME NEW v \in Names, NEW e \in E, line = [op |-> "set", v |-> v, e |-> e]
      PROVE  line \in PlainLines
  <2>1. v \in Var /\ e \in Exprs
    BY <1>3 DEF Names, Var, Exprs
  <2>2. line.op = "set" /\ line.v = v /\ line.e = e /\ line \in AnyLine
    BY <1>3, <2>1 DEF AnyLine, Ops
  <2>. QED
    BY <2>1, <2>2 DEF PlainLines, Plain
<1>4. ASSUME NEW v \in Names, NEW op \in {"say", "compare", "if"}, line = [op |-> op, v |-> v, e |-> v]
      PROVE  line \in PlainLines
  <2>1. v \in Var /\ v \in Exprs
    BY <1>4 DEF Names, Var, Exprs
  <2>2. line.op = op /\ line.v = v /\ line.e = v /\ line \in AnyLine
    BY <1>4, <2>1 DEF AnyLine, Ops
  <2>. QED
    BY <2>1, <2>2 DEF PlainLines, Plain
<1>5. ASSUME NEW op \in {"for", "try", "catch", "end"}, line = [op |-> op, v |-> "", e |-> ""]
      PROVE  line \in PlainLines
  <2>1. line.op = op /\ line \in AnyLine
    BY <1>5 DEF AnyLine, Ops
  <2>. QED
    BY <2>1 DEF PlainLines, Plain
<1>6. ASSUME NEW v \in Var, line = [op |-> "decl", v |-> v, e |-> "0"]
      PROVE  line \in PlainLines
  <2>1. line.op = "decl" /\ line.v = v /\ line \in AnyLine
    BY <1>6 DEF AnyLine, Ops
  <2>. QED
    BY <2>1 DEF PlainLines, Plain
<1>. QED
  BY <1>2, <1>3, <1>4, <1>5, <1>6

LEMMA OneNameWritten ==
    ASSUME FixerAssumption, RunsAlike, OneName
    PROVE  Written(original)
<1>1. ASSUME NEW i \in DOMAIN original
      PROVE  original[i] \in PlainLines
  <2>1. "p" \notin {original[i].v, original[i].e}
    <3>1. original[3].op # "ref" \/ ~(Len(original) >= 3)
      BY DEF RunsAlike, OneName
    <3>. QED
      BY <3>1 DEF RunsAlike, Ref
  <2>2. original[i] \in Writable /\ original[i].op # "ref"
    BY DEF RunsAlike, OneName
  <2>. QED
    BY <2>1, <2>2, PlainIs
<1>2. original \in Seq(PlainLines)
  <2>1. original = [i \in 1 .. Len(original) |-> original[i]] /\ Len(original) \in Nat
        /\ DOMAIN original = 1 .. Len(original)
    BY DEF RunsAlike
  <2>. QED
    BY <1>1, <2>1
<1>. QED
  BY <1>2, WrittenIs

\* The run of a program is kept by every step.
LEMMA RunsAlikeInvariant == ASSUME FixerAssumption PROVE Spec => []RunsAlike
<1>1. ASSUME Init PROVE RunsAlike
  <2>1. Decl("x") \in Writable /\ Decl("y") \in Writable
    BY DEF Writable
  <2>2. original = <<Decl("x"), Decl("y")>> /\ ~fixing
    BY <1>1 DEF Init
  <2>3. original \in Seq(Writable) /\ Len(original) = 2
    BY <2>1, <2>2
  <2>4. \A i \in DOMAIN original : "p" \notin {original[i].v, original[i].e}
    <3>1. DOMAIN original = {1, 2} /\ original[1] = Decl("x") /\ original[2] = Decl("y")
      BY <2>2
    <3>. QED
      BY <3>1 DEF Decl
  <2>. QED
    BY <2>2, <2>3, <2>4 DEF RunsAlike
<1>2. ASSUME RunsAlike, WriteLine PROVE RunsAlike'
  <2>1. PICK line \in Lines :
           /\ "p" \in {line.v, line.e} => Len(original) = 2 \/ original[3] = Ref
           /\ "p" \in {line.v, line.e} /\ Len(original) = 2 => line = Ref
           /\ original' = Append(original, line)
    BY <1>2 DEF WriteLine
  <2>2. ~fixing /\ ~fixing'
    BY <1>2 DEF WriteLine
  <2>3. line \in Writable /\ original \in Seq(Writable) /\ Len(original) >= 2
    BY <1>2 DEF RunsAlike, Writable
  <2>4. /\ original' \in Seq(Writable) /\ Len(original') = Len(original) + 1
        /\ \A i \in 1 .. Len(original) : original'[i] = original[i]
        /\ original'[Len(original) + 1] = line
        /\ DOMAIN original' = 1 .. Len(original) + 1
        /\ Len(original) \in Nat /\ DOMAIN original = 1 .. Len(original)
    BY <2>1, <2>3
  <2>5. ASSUME NEW i \in DOMAIN original', "p" \in {original'[i].v, original'[i].e}
        PROVE  Len(original') >= 3 /\ original'[3] = Ref
    <3>1. CASE i \in DOMAIN original
      <4>1. Len(original) >= 3 /\ original[3] = Ref
        BY <1>2, <2>4, <2>5, <3>1 DEF RunsAlike
      <4>. QED
        BY <2>4, <4>1
    <3>2. CASE i = Len(original) + 1
      <4>1. CASE Len(original) = 2
        BY <2>1, <2>4, <2>5, <3>2, <4>1
      <4>2. CASE Len(original) >= 3
        BY <2>1, <2>4, <2>5, <3>2, <4>2
      <4>. QED
        BY <2>3, <2>4, <4>1, <4>2
    <3>. QED
      BY <2>4, <3>1, <3>2
  <2>6. Len(original') >= 2
    BY <2>3, <2>4
  <2>. QED
    BY <2>2, <2>4, <2>5, <2>6 DEF RunsAlike, Writable
<1>3. ASSUME RunsAlike, StartFix PROVE RunsAlike'
  <2>1. source' = original /\ original' = original /\ Parses(original)
    BY <1>3 DEF StartFix
  <2>2. OneName => Program(original)
    BY <1>3, <2>1, OneNameWritten DEF Program
  <2>3. OneName' = OneName
    BY <2>1 DEF OneName
  <2>4. Program(source)' = Program(original) /\ Run(source)' = Run(original) /\ Run(original)' = Run(original)
    BY <2>1
  <2>. QED
    BY <1>3, <2>1, <2>2, <2>3, <2>4 DEF RunsAlike, Writable
<1>4. ASSUME RunsAlike, FixPass PROVE RunsAlike'
  <2>1. source' = Fixed(source) /\ original' = original /\ fixing /\ fixing'
    BY <1>4 DEF FixPass
  <2>2. OneName' = OneName
    BY <2>1 DEF OneName
  <2>3. OneName => Program(Fixed(source))
    BY <1>4, <2>1, FixedProgram DEF RunsAlike
  <2>4. OneName /\ ~Run(original).failed =>
           ~Run(Fixed(source)).failed /\ Run(Fixed(source)).out = Run(original).out
    BY <1>4, <2>1, PassKeepsRun DEF RunsAlike
  <2>5. Program(source)' = Program(Fixed(source)) /\ Run(source)' = Run(Fixed(source))
        /\ Run(original)' = Run(original)
    BY <2>1
  <2>. QED
    BY <1>4, <2>1, <2>2, <2>3, <2>4, <2>5 DEF RunsAlike, Writable
<1>5. ASSUME RunsAlike, UNCHANGED vars PROVE RunsAlike'
  BY <1>5 DEF RunsAlike, OneName, vars, Writable
<1>6. RunsAlike /\ [Next]_vars => RunsAlike'
  BY <1>2, <1>3, <1>4, <1>5 DEF Next
<1>. QED
  BY <1>1, <1>6, PTL DEF Spec

\* Through all the passes of fixFile (cmd/qkcheck/main.go) a program whose
\* variables have one name each, and which raises no error, prints what it printed:
\* the corrections of lintfix.go delete no write whose value a path prints.
THEOREM CorrectionsKeepRun == ASSUME FixerAssumption PROVE Spec => []FixKeepsRun
<1>1. RunsAlike => FixKeepsRun
  BY DEF RunsAlike, OneName, FixKeepsRun
<1>. QED
  BY <1>1, RunsAlikeInvariant, PTL
=============================================================================

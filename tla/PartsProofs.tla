----------------------------- MODULE PartsProofs -----------------------------
(***************************************************************************)
(* Proofs about the self-contained parts that MCParts explores: the sum    *)
(* builtin, the stress runner and the memory manager.  What is proved of   *)
(* the context pool and of the fixer in modules of their own is carried    *)
(* over.                                                                   *)
(***************************************************************************)
EXTENDS MCParts, DataLemmas

Contexts == INSTANCE CtxPoolProofs

Fixing == INSTANCE LintFixerProofs

-----------------------------------------------------------------------------
(* sum: what AddTerms computes.  Each prefix of the terms has a sum, so the *)
(* recursive function AddTerms defines exists and has its equations.        *)

IsPrefixSum(add, n) ==
    add = [j \in 0 .. n |-> IF j = 0 THEN 0 ELSE add[j - 1] + Summing!Term(j - 1)]

LEMMA PrefixSumExists == ASSUME NEW n \in Nat PROVE \E add : IsPrefixSum(add, n)
<1>. DEFINE S == {m \in Nat : \E add : IsPrefixSum(add, m)}
<1>1. 0 \in S
  <2>. DEFINE z == [j \in 0 .. 0 |-> 0]
  <2>1. IsPrefixSum(z, 0)
    BY DEF IsPrefixSum
  <2>. QED
    BY <2>1
<1>2. ASSUME NEW m \in S
      PROVE  m + 1 \in S
  <2>1. PICK add : IsPrefixSum(add, m)
    OBVIOUS
  <2>. DEFINE t == Summing!Term(m)
              z == [j \in 0 .. m + 1 |-> IF j = m + 1 THEN add[m] + t ELSE add[j]]
  <2>2. \A j \in 0 .. m + 1 :
            z[j] = IF j = 0 THEN 0 ELSE z[j - 1] + Summing!Term(j - 1)
    <3>1. \A j \in 0 .. m :
              add[j] = IF j = 0 THEN 0 ELSE add[j - 1] + Summing!Term(j - 1)
      BY <2>1 DEF IsPrefixSum
    <3>2. ASSUME NEW j \in 0 .. m
          PROVE  z[j] = IF j = 0 THEN 0 ELSE z[j - 1] + Summing!Term(j - 1)
      BY <3>1
    <3>3. z[m + 1] = z[m] + Summing!Term(m)
      OBVIOUS
    <3>. HIDE DEF z
    <3>. QED
      BY <3>2, <3>3
  <2>3. IsPrefixSum(z, m + 1)
    BY <2>2 DEF IsPrefixSum
  <2>. HIDE DEF z
  <2>. QED
    BY <2>3
<1>3. S = Nat
  <2>1. S \in SUBSET Nat
    OBVIOUS
  <2>. HIDE DEF S
  <2>. QED
    BY <1>1, <1>2, <2>1, Induction
<1>. QED
  BY <1>3

LEMMA AddTermsIs ==
    ASSUME NEW n \in Nat
    PROVE  \E add : IsPrefixSum(add, n) /\ Summing!AddTerms(n) = add[n]
<1>. DEFINE P(add) == IsPrefixSum(add, n)
<1>1. P(CHOOSE add : P(add))
  BY PrefixSumExists, Zenon
<1>2. Summing!AddTerms(n) = (CHOOSE add : P(add))[n]
  BY Zenon DEF Summing!AddTerms, IsPrefixSum
<1>. QED
  BY <1>1, <1>2

\* Two prefix sums agree as far as both go.
LEMMA PrefixSumsAgree ==
    ASSUME NEW n \in Nat, NEW add, IsPrefixSum(add, n),
           NEW m \in Nat, m <= n, NEW bdd, IsPrefixSum(bdd, m)
    PROVE  \A j \in 0 .. m : add[j] = bdd[j]
<1>. DEFINE S == {j \in Nat : j <= m => add[j] = bdd[j]}
<1>1. \A j \in 0 .. n : add[j] = IF j = 0 THEN 0 ELSE add[j - 1] + Summing!Term(j - 1)
  BY DEF IsPrefixSum
<1>2. \A j \in 0 .. m : bdd[j] = IF j = 0 THEN 0 ELSE bdd[j - 1] + Summing!Term(j - 1)
  BY DEF IsPrefixSum
<1>3. 0 \in S
  BY <1>1, <1>2
<1>4. ASSUME NEW j \in S PROVE j + 1 \in S
  BY <1>1, <1>2
<1>5. S = Nat
  <2>1. S \in SUBSET Nat
    OBVIOUS
  <2>. HIDE DEF S
  <2>. QED
    BY <1>3, <1>4, <2>1, Induction
<1>. QED
  BY <1>5

\* The recursion of AddTerms, freed of the function that carries it.
LEMMA AddTermsStep ==
    /\ Summing!AddTerms(0) = 0
    /\ \A n \in Nat : Summing!AddTerms(n + 1) = Summing!AddTerms(n) + Summing!Term(n)
<1>1. Summing!AddTerms(0) = 0
  <2>1. PICK add : IsPrefixSum(add, 0) /\ Summing!AddTerms(0) = add[0]
    BY AddTermsIs
  <2>. QED
    BY <2>1 DEF IsPrefixSum
<1>2. ASSUME NEW n \in Nat
      PROVE  Summing!AddTerms(n + 1) = Summing!AddTerms(n) + Summing!Term(n)
  <2>1. PICK add : IsPrefixSum(add, n + 1) /\ Summing!AddTerms(n + 1) = add[n + 1]
    BY AddTermsIs
  <2>2. PICK bdd : IsPrefixSum(bdd, n) /\ Summing!AddTerms(n) = bdd[n]
    BY AddTermsIs
  <2>3. add[n] = bdd[n]
    BY <2>1, <2>2, PrefixSumsAgree
  <2>4. add[n + 1] = add[n] + Summing!Term(n)
    BY <2>1 DEF IsPrefixSum
  <2>. QED
    BY <2>1, <2>2, <2>3, <2>4
<1>. QED
  BY <1>1, <1>2

-----------------------------------------------------------------------------
(* What the closed forms need: sums of ints, of a line, of whole periods.   *)

Defined(n) == \A j \in 0 .. n - 1 : ~Summing!Fails(j)

LEMMA TermInt ==
    ASSUME Summing!SumAssumption, Summing!TypeOK, NEW j, ~Summing!Fails(j)
    PROVE  Summing!Term(j) \in Int
BY DEF Summing!SumAssumption, Summing!TypeOK, Summing!Fails, Summing!Term

LEMMA SumInt ==
    ASSUME Summing!SumAssumption, Summing!TypeOK, NEW n \in Nat, Defined(n)
    PROVE  Summing!AddTerms(n) \in Int
<1>. DEFINE S == {m \in Nat : m <= n => Summing!AddTerms(m) \in Int}
<1>1. 0 \in S
  BY AddTermsStep
<1>2. ASSUME NEW m \in S PROVE m + 1 \in S
  <2>1. ASSUME m + 1 <= n
        PROVE  Summing!AddTerms(m) + Summing!Term(m) \in Int
    BY <2>1, TermInt DEF Defined
  <2>. QED
    BY <2>1, AddTermsStep
<1>3. S = Nat
  <2>1. S \in SUBSET Nat
    OBVIOUS
  <2>. HIDE DEF S
  <2>. QED
    BY <1>1, <1>2, <2>1, Induction
<1>. QED
  BY <1>3

\* The terms of a line: the sum is n times the mean of the first and the last.
LEMMA LineSum ==
    ASSUME NEW n \in Nat, NEW a \in Int, NEW d \in Int,
           \A j \in 0 .. n - 1 : Summing!Term(j) = a + j * d
    PROVE  /\ Summing!AddTerms(n) \in Int
           /\ 2 * Summing!AddTerms(n) = n * (2 * a + (n - 1) * d)
<1>. DEFINE f(m) == Summing!AddTerms(m)
            S == {m \in Nat : m <= n => f(m) \in Int /\ 2 * f(m) = m * (2 * a + (m - 1) * d)}
<1>1. 0 \in S
  BY AddTermsStep
<1>2. ASSUME NEW m \in S PROVE m + 1 \in S
  <2>. SUFFICES ASSUME m + 1 <= n
                PROVE  f(m + 1) \in Int /\ 2 * f(m + 1) = (m + 1) * (2 * a + ((m + 1) - 1) * d)
    OBVIOUS
  <2>1. f(m) \in Int /\ 2 * f(m) = m * (2 * a + (m - 1) * d)
    OBVIOUS
  <2>2. f(m + 1) = f(m) + (a + m * d)
    BY AddTermsStep
  <2>. DEFINE md == m * d
  <2>3. md \in Int /\ (m - 1) * d = md - d /\ m * md \in Int
    OBVIOUS
  <2>4. m * (2 * a + (md - d)) = 2 * (m * a) + (m * md - md) /\ m * a \in Int
    OBVIOUS
  <2>5. (m + 1) * (2 * a + md) = 2 * (m * a) + m * md + 2 * a + md
    OBVIOUS
  <2>. HIDE DEF md, f
  <2>6. f(m + 1) \in Int /\ 2 * f(m + 1) = (m + 1) * (2 * a + md)
    BY <2>1, <2>2, <2>3, <2>4, <2>5 DEF md
  <2>. QED
    BY <2>6 DEF md
<1>3. S = Nat
  <2>1. S \in SUBSET Nat
    OBVIOUS
  <2>. HIDE DEF S
  <2>. QED
    BY <1>1, <1>2, <2>1, Induction
<1>. QED
  BY <1>3

\* Terms that repeat after p: the sums of q whole periods and of r terms more.
LEMMA PeriodSum ==
    ASSUME Summing!SumAssumption, Summing!TypeOK, NEW n \in Nat, NEW p \in Nat \ {0},
           p <= n, Defined(n),
           \A j \in p .. n - 1 : Summing!Term(j) = Summing!Term(j - p)
    PROVE  \A q, r \in Nat :
               q * p + r <= n =>
                   Summing!AddTerms(q * p + r) =
                       q * Summing!AddTerms(p) + Summing!AddTerms(r)
<1>. DEFINE f(m) == Summing!AddTerms(m)
<1>1. \A m \in Nat : m <= n => f(m) \in Int
  BY SumInt DEF Defined
<1>2. \A m \in Nat : f(m + 1) = f(m) + Summing!Term(m)
  BY AddTermsStep
<1>3. \A m \in Nat : m + p <= n => f(p + m) = f(p) + f(m)
  <2>. DEFINE S == {m \in Nat : m + p <= n => f(p + m) = f(p) + f(m)}
  <2>1. 0 \in S
    BY <1>1, AddTermsStep
  <2>2. ASSUME NEW m \in S PROVE m + 1 \in S
    <3>. SUFFICES ASSUME m + 1 + p <= n PROVE f(p + (m + 1)) = f(p) + f(m + 1)
      OBVIOUS
    <3>1. f(p + m) = f(p) + f(m)
      OBVIOUS
    <3>2. f((p + m) + 1) = f(p + m) + Summing!Term(p + m)
      BY <1>2
    <3>3. Summing!Term(p + m) = Summing!Term(m)
      <4>1. p + m \in p .. n - 1 /\ (p + m) - p = m
        OBVIOUS
      <4>. QED
        BY <4>1
    <3>4. f(m + 1) = f(m) + Summing!Term(m) /\ Summing!Term(m) \in Int
      BY <1>2, TermInt DEF Defined
    <3>5. f(p) \in Int /\ f(m) \in Int
      BY <1>1
    <3>6. (p + m) + 1 = p + (m + 1)
      OBVIOUS
    <3>. HIDE DEF f
    <3>. QED
      BY <3>1, <3>2, <3>3, <3>4, <3>5, <3>6
  <2>3. S = Nat
    <3>1. S \in SUBSET Nat
      OBVIOUS
    <3>. HIDE DEF S
    <3>. QED
      BY <2>1, <2>2, <3>1, Induction
  <2>. QED
    BY <2>3
<1>. DEFINE T == {q \in Nat : \A r \in Nat : q * p + r <= n => f(q * p + r) = q * f(p) + f(r)}
<1>4. 0 \in T
  <2>1. ASSUME NEW r \in Nat, 0 * p + r <= n
        PROVE  f(0 * p + r) = 0 * f(p) + f(r)
    <3>1. 0 * p + r = r /\ f(r) \in Int
      BY <1>1, <2>1
    <3>2. f(p) \in Int /\ \A x \in Int : 0 * x = 0
      BY <1>1
    <3>. QED
      BY <3>1, <3>2
  <2>. QED
    BY <2>1
<1>5. ASSUME NEW q \in T PROVE q + 1 \in T
  <2>1. ASSUME NEW r \in Nat, (q + 1) * p + r <= n
        PROVE  f((q + 1) * p + r) = (q + 1) * f(p) + f(r)
    <3>1. (q + 1) * p + r = p + (q * p + r) /\ q * p \in Nat
      OBVIOUS
    <3>2. f(p + (q * p + r)) = f(p) + f(q * p + r)
      BY <1>3, <2>1, <3>1
    <3>3. f(q * p + r) = q * f(p) + f(r)
      BY <2>1, <3>1
    <3>4. f(p) \in Int /\ f(r) \in Int
      BY <1>1, <2>1, <3>1
    <3>5. \A x \in Int : (q + 1) * x = q * x + x /\ q * x \in Int
      OBVIOUS
    <3>. HIDE DEF f
    <3>. QED
      BY <3>1, <3>2, <3>3, <3>4, <3>5
  <2>. QED
    BY <2>1
<1>6. T = Nat
  <2>1. T \in SUBSET Nat
    OBVIOUS
  <2>. HIDE DEF T
  <2>. QED
    BY <1>4, <1>5, <2>1, Induction
<1>. QED
  BY <1>6

-----------------------------------------------------------------------------
(* sum: the invariant.                                                      *)

\* A candidate is tried only if all before it could be called; multiplying a
\* period starts with one that divides the terms the loop visits.
Scanned ==
    /\ stage = "scan" => period > 0 /\ (period > 1 => Defined(period)) /\ Summing!Count > 0
    /\ stage = "period" => period \in 1 .. Summing!Count - 1 /\ Defined(period)

SumInv == Summing!TypeOK /\ Scanned /\ Summing!SumIsLoop

LEMMA QuotientFacts ==
    /\ \A a \in Int, b \in Int \ {0} : Summing!Quotient(a, b) \in Int
    /\ \A a \in Nat, b \in Nat \ {0} : Summing!Quotient(a, b) = a \div b
    /\ \A a \in Int, b \in Nat \ {0} : a < b => Summing!Quotient(a, b) <= 0
    /\ \A a \in Int : Summing!Quotient(2 * a, 2) = a
<1>1. \A a \in Nat, b \in Nat \ {0} : a \div b \in Nat
  OBVIOUS
<1>2. ASSUME NEW a \in Int, NEW b \in Int \ {0}
      PROVE  Summing!Quotient(a, b) \in Int
  <2>. DEFINE c == IF a < 0 THEN -a ELSE a
              e == IF b < 0 THEN -b ELSE b
  <2>1. c \in Nat /\ e \in Nat \ {0}
    OBVIOUS
  <2>2. c \div e \in Nat
    BY <1>1, <2>1
  <2>. QED
    BY <2>2 DEF Summing!Quotient
<1>3. ASSUME NEW a \in Nat, NEW b \in Nat \ {0}
      PROVE  Summing!Quotient(a, b) = a \div b
  BY DEF Summing!Quotient
<1>4. ASSUME NEW a \in Int, NEW b \in Nat \ {0}, a < b
      PROVE  Summing!Quotient(a, b) <= 0
  <2>1. CASE a >= 0
    <3>1. a \div b = 0
      BY <1>4, <2>1
    <3>. QED
      BY <3>1, <1>3, <2>1
  <2>2. CASE a < 0
    <3>1. (-a) \div b \in Nat
      BY <1>1, <2>2
    <3>2. Summing!Quotient(a, b) = - ((-a) \div b)
      BY <2>2 DEF Summing!Quotient
    <3>. QED
      BY <3>1, <3>2
  <2>. QED
    BY <2>1, <2>2
<1>5. ASSUME NEW a \in Int
      PROVE  Summing!Quotient(2 * a, 2) = a
  <2>1. \A x \in Nat : (2 * x) \div 2 = x
    OBVIOUS
  <2>2. CASE a >= 0
    BY <2>1, <2>2 DEF Summing!Quotient
  <2>3. CASE a < 0
    <3>1. -(2 * a) = 2 * (-a) /\ -a \in Nat /\ 2 * a < 0
      BY <2>3
    <3>2. (-(2 * a)) \div 2 = -a
      BY <2>1, <3>1
    <3>. QED
      BY <3>1, <3>2 DEF Summing!Quotient
  <2>. QED
    BY <2>2, <2>3
<1>. QED
  BY <1>2, <1>3, <1>4, <1>5

\* The number of terms, computed by a division that truncates, is the number of
\* points the loop visits.
LEMMA CountIsLoopCount ==
    ASSUME Summing!SumAssumption, Summing!TypeOK
    PROVE  /\ Summing!Count \in Int
           /\ step > 0 => Summing!LoopCount = IF Summing!Count <= 0 THEN 0 ELSE Summing!Count
<1>1. stop \in Int /\ step \in Int \ {0}
  BY DEF Summing!SumAssumption, Summing!TypeOK
<1>2. Summing!Count \in Int
  BY <1>1, QuotientFacts DEF Summing!Count
<1>3. ASSUME step > 0, stop <= 0 PROVE Summing!Count <= 0
  <2>1. stop + step - 1 \in Int /\ stop + step - 1 < step /\ step \in Nat \ {0}
    BY <1>1, <1>3
  <2>. QED
    BY <2>1, QuotientFacts DEF Summing!Count
<1>4. ASSUME step > 0, stop > 0
      PROVE  Summing!Count = (stop + step - 1) \div step /\ Summing!Count > 0
  <2>1. stop + step - 1 \in Nat /\ step \in Nat \ {0} /\ stop + step - 1 >= step
    BY <1>1, <1>4
  <2>2. Summing!Count = (stop + step - 1) \div step
    BY <2>1, QuotientFacts DEF Summing!Count
  <2>3. \A a \in Nat, b \in Nat \ {0} : a >= b => a \div b > 0
    OBVIOUS
  <2>. QED
    BY <2>1, <2>2, <2>3
<1>. QED
  BY <1>1, <1>2, <1>3, <1>4 DEF Summing!LoopCount

LEMMA LoopCountNat ==
    ASSUME Summing!SumAssumption, Summing!TypeOK, stop <= 0 \/ step > 0
    PROVE  Summing!LoopCount \in Nat
<1>1. stop \in Int /\ step \in Int \ {0}
  BY DEF Summing!SumAssumption, Summing!TypeOK
<1>2. CASE stop <= 0
  BY <1>2 DEF Summing!LoopCount
<1>3. CASE ~(stop <= 0)
  BY <1>1, <1>3, CountIsLoopCount
<1>. QED
  BY <1>2, <1>3

LEMMA SumInit == Summing!SumAssumption /\ Summing!Init => SumInv
<1>. SUFFICES ASSUME Summing!SumAssumption, Summing!Init PROVE SumInv
  OBVIOUS
<1>1. \E g \in Generators : TRUE
  BY DEF Summing!SumAssumption
<1>2. (CHOOSE g \in Generators : TRUE) \in Generators
  BY <1>1, Zenon
<1>. QED
  BY <1>2 DEF Summing!SumAssumption, Summing!Init, SumInv, Summing!TypeOK, Scanned,
              Summing!SumIsLoop

\* The builtin has one call in hand: what it asked for does not change under it.
SameCall == UNCHANGED <<generate, stop, step>>

LEMMA SameTerms ==
    ASSUME SameCall
    PROVE  /\ Summing!Count' = Summing!Count
           /\ Summing!LoopCount' = Summing!LoopCount
           /\ Summing!OnLine' = Summing!OnLine
           /\ \A j : Summing!Term(j)' = Summing!Term(j)
           /\ \A j : Summing!Fails(j)' = Summing!Fails(j)
           /\ \A j : Summing!Probe(j)' = Summing!Probe(j)
           /\ \A n \in Nat : Summing!AddTerms(n)' = Summing!AddTerms(n)
<1>1. Summing!Count' = Summing!Count /\ Summing!LoopCount' = Summing!LoopCount
  BY DEF SameCall, Summing!Count, Summing!LoopCount
<1>2. /\ \A j : Summing!Term(j)' = Summing!Term(j)
      /\ \A j : Summing!Fails(j)' = Summing!Fails(j)
      /\ \A j : Summing!Probe(j)' = Summing!Probe(j)
  BY DEF SameCall, Summing!Term, Summing!Fails, Summing!Probe
<1>3. Summing!OnLine' = Summing!OnLine
  BY <1>1, <1>2 DEF Summing!OnLine
\* The lemma's statement, of the next state.
<1>4. AddTermsStep!:'
  BY AddTermsStep, PTL
<1>. DEFINE S == {n \in Nat : Summing!AddTerms(n)' = Summing!AddTerms(n)}
<1>5. 0 \in S
  BY <1>4, AddTermsStep
<1>6. ASSUME NEW n \in S PROVE n + 1 \in S
  BY <1>2, <1>4, AddTermsStep
<1>7. S = Nat
  <2>1. S \in SUBSET Nat
    OBVIOUS
  <2>. HIDE DEF S
  <2>. QED
    BY <1>5, <1>6, <2>1, Induction
<1>. QED
  BY <1>1, <1>2, <1>3, <1>7

\* The linear probing returns the loop's sum, unless the probes mislead it.
LEMMA LineReturns ==
    ASSUME Summing!SumAssumption, Summing!TypeOK, Summing!OnLine
    PROVE  LET s == IF Summing!Count <= 0 THEN 0
                    ELSE Summing!Quotient(
                             Summing!Count * (Summing!Probe(0) + Summing!Term(Summing!Count - 1)), 2)
           IN  /\ s \in Int
               /\ step > 0 /\ ~Summing!Misled => s = Summing!AddTerms(Summing!LoopCount)
<1>. DEFINE n == Summing!Count
            a == Summing!Probe(0)
            d == Summing!Probe(1) - Summing!Probe(0)
            s == IF n <= 0 THEN 0
                 ELSE Summing!Quotient(n * (a + Summing!Term(n - 1)), 2)
<1>1. \A j : Summing!Probe(j) \in Int
  BY TermInt DEF Summing!Probe
<1>2. a \in Int /\ d \in Int /\ n \in Int
  BY <1>1, CountIsLoopCount
<1>3. n > 0 => Summing!Term(n - 1) = a + d * (n - 1)
  BY <1>2 DEF Summing!OnLine
<1>4. s \in Int
  <2>1. n > 0 => n * (a + Summing!Term(n - 1)) \in Int
    BY <1>2, <1>3
  <2>. QED
    BY <2>1, QuotientFacts, <1>2
<1>5. ASSUME step > 0, ~Summing!Misled
      PROVE  s = Summing!AddTerms(Summing!LoopCount)
  <2>1. CASE n <= 0
    BY <2>1, <1>5, CountIsLoopCount, AddTermsStep
  <2>2. CASE n > 0
    <3>1. n \in Nat /\ Summing!LoopCount = n
      BY <1>2, <1>5, <2>2, CountIsLoopCount
    <3>2. \A j \in 0 .. n - 1 : Summing!Term(j) = a + j * d
      BY <1>5 DEF Summing!Misled
    <3>. DEFINE t == Summing!AddTerms(n)
    <3>3. t \in Int /\ 2 * t = n * (2 * a + (n - 1) * d)
      BY <3>1, <3>2, <1>2, LineSum
    <3>4. a + Summing!Term(n - 1) = 2 * a + (n - 1) * d
      <4>1. d * (n - 1) = (n - 1) * d /\ (n - 1) * d \in Int
        BY <1>2, <2>2
      <4>. QED
        BY <1>2, <1>3, <2>2, <4>1
    <3>5. s = Summing!Quotient(2 * t, 2)
      BY <2>2, <1>2, <3>3, <3>4
    <3>. HIDE DEF s, t
    <3>6. s = t
      BY <3>3, <3>5, QuotientFacts
    <3>. QED
      BY <3>1, <3>6 DEF t
  <2>. QED
    BY <2>1, <2>2, <1>2
<1>. QED
  BY <1>4, <1>5

\* So do the whole periods and the remainder.
LEMMA PeriodReturns ==
    ASSUME Summing!SumAssumption, Summing!TypeOK, Scanned, stage = "period"
    PROVE  LET s == (Summing!Count \div period) * Summing!AddTerms(period)
                    + Summing!AddTerms(Summing!Count % period)
           IN  /\ s \in Int
               /\ step > 0 /\ ~Summing!Misled => s = Summing!AddTerms(Summing!LoopCount)
<1>. DEFINE n == Summing!Count
            q == n \div period
            r == n % period
<1>1. n \in Nat /\ period \in Nat \ {0} /\ period <= n /\ Defined(period)
  BY CountIsLoopCount DEF Scanned
<1>2. q \in Nat /\ r \in 0 .. period - 1 /\ n = q * period + r
  BY <1>1
<1>. HIDE DEF n, q, r
<1>3. Summing!AddTerms(period) \in Int /\ Summing!AddTerms(r) \in Int
  <2>1. Defined(r)
    BY <1>1, <1>2 DEF Defined
  <2>. QED
    BY <1>1, <1>2, <2>1, SumInt
<1>4. ASSUME step > 0, ~Summing!Misled
      PROVE  Summing!AddTerms(Summing!LoopCount)
             = q * Summing!AddTerms(period) + Summing!AddTerms(r)
  <2>1. Summing!LoopCount = n
    BY <1>1, <1>4, CountIsLoopCount, AddTermsStep DEF n
  <2>2. \A j \in period .. n - 1 :
            ~Summing!Fails(j) /\ Summing!Term(j) = Summing!Term(j - period)
    BY <1>1, <1>4 DEF Summing!Misled, n
  <2>3. Defined(n)
    BY <1>1, <2>2 DEF Defined
  <2>. QED
    BY <1>1, <1>2, <2>1, <2>2, <2>3, PeriodSum
<1>5. q * Summing!AddTerms(period) + Summing!AddTerms(r) \in Int
  BY <1>2, <1>3
<1>. QED
  BY <1>4, <1>5 DEF n, q, r

LEMMA SumStepKeeps ==
    ASSUME Summing!SumAssumption, SumInv, Summing!Next
    PROVE  SumInv'
<1>. USE DEF SumInv
<1>1. CASE Summing!Call
  BY <1>1 DEF Summing!Call, Summing!TypeOK, Scanned, Summing!SumIsLoop, Summing!SumAssumption
<1>2. CASE Summing!LinearProbe
  <2>1. SameCall /\ stage = "probe"
    BY <1>2 DEF Summing!LinearProbe, SameCall
  <2>2. CASE Summing!OnLine
    <3>. DEFINE s == IF Summing!Count <= 0 THEN 0
                     ELSE Summing!Quotient(
                              Summing!Count * (Summing!Probe(0) + Summing!Term(Summing!Count - 1)), 2)
    <3>1. sum' = s /\ stage' = "done" /\ period' = period
      BY <1>2, <2>2 DEF Summing!LinearProbe, Summing!Return
    <3>2. s \in Int /\ (step > 0 /\ ~Summing!Misled => s = Summing!AddTerms(Summing!LoopCount))
      BY <2>2, LineReturns
    <3>. HIDE DEF s
    <3>3. Summing!Misled' = Summing!Misled
      BY <2>1, <3>1, SameTerms DEF Summing!Misled
    <3>4. step > 0 =>
              Summing!AddTerms(Summing!LoopCount)' = Summing!AddTerms(Summing!LoopCount)
      BY <2>1, SameTerms, LoopCountNat
    <3>5. Summing!SumIsLoop'
      BY <2>1, <3>1, <3>2, <3>3, <3>4 DEF Summing!SumIsLoop, SameCall
    <3>6. Summing!TypeOK' /\ Scanned'
      BY <2>1, <3>1, <3>2 DEF Summing!TypeOK, Scanned, SameCall
    <3>. QED
      BY <3>5, <3>6
  <2>3. CASE ~Summing!OnLine
    <3>1. /\ stage' = IF Summing!Count > 0 THEN "scan" ELSE "loop"
          /\ period' = IF Summing!Count > 0 THEN 1 ELSE 0
          /\ sum' = sum
      BY <1>2, <2>3 DEF Summing!LinearProbe
    <3>2. Summing!TypeOK'
      BY <2>1, <3>1 DEF Summing!TypeOK, SameCall, Summing!SumAssumption
    <3>3. Scanned'
      BY <2>1, <3>1, SameTerms DEF Scanned
    <3>. QED
      BY <3>1, <3>2, <3>3 DEF Summing!SumIsLoop
  <2>. QED
    BY <2>2, <2>3
<1>3. CASE Summing!ScanPeriod
  <2>1. SameCall /\ stage = "scan" /\ sum' = sum
    BY <1>3 DEF Summing!ScanPeriod, SameCall
  <2>2. period \in Nat \ {0} /\ (period > 1 => Defined(period)) /\ Summing!Count \in Nat \ {0}
    BY <2>1, CountIsLoopCount DEF Scanned, Summing!TypeOK
  <2>3. CASE stage' = "loop" /\ period' = 0
    BY <2>1, <2>3 DEF Summing!TypeOK, Scanned, Summing!SumIsLoop, SameCall, Summing!SumAssumption
  <2>4. CASE ~(stage' = "loop" /\ period' = 0)
    <3>1. period < Summing!ScanLimit /\ ~Summing!Fails(0) /\ ~Summing!Fails(period)
      BY <1>3, <2>4 DEF Summing!ScanPeriod
    <3>2. Defined(period + 1)
      BY <2>2, <3>1 DEF Defined
    <3>3. period < Summing!Count /\ period < MaxPeriod
      BY <2>2, <3>1 DEF Summing!ScanLimit, Summing!SumAssumption
    <3>4. Defined(period + 1)' = Defined(period' + 1)
      BY <2>1, SameTerms DEF Defined
    <3>5. \/ stage' = "period" /\ period' = period
          \/ stage' = "scan" /\ period' = period + 1
      BY <1>3, <2>4, <2>1 DEF Summing!ScanPeriod
    <3>6. Summing!TypeOK'
      BY <2>1, <2>2, <3>3, <3>5 DEF Summing!TypeOK, SameCall, Summing!SumAssumption
    <3>7. \A n \in Nat : Defined(n)' = Defined(n)
      BY <2>1, SameTerms DEF Defined
    <3>8. Scanned'
      BY <2>1, <2>2, <3>2, <3>3, <3>5, SameTerms DEF Scanned, Defined
    <3>. QED
      BY <3>5, <3>6, <3>8 DEF Summing!SumIsLoop
  <2>. QED
    BY <2>3, <2>4
<1>4. CASE Summing!AddPeriods
  <2>1. SameCall /\ stage = "period" /\ period' = period /\ stage' = "done"
    BY <1>4 DEF Summing!AddPeriods, Summing!Return, SameCall
  <2>. DEFINE s == (Summing!Count \div period) * Summing!AddTerms(period)
                   + Summing!AddTerms(Summing!Count % period)
  <2>2. sum' = s
    BY <1>4 DEF Summing!AddPeriods, Summing!Return
  <2>3. s \in Int /\ (step > 0 /\ ~Summing!Misled => s = Summing!AddTerms(Summing!LoopCount))
    BY <2>1, PeriodReturns
  <2>. HIDE DEF s
  <2>4. Summing!Misled' = Summing!Misled
    BY <2>1, SameTerms DEF Summing!Misled
  <2>5. step > 0 =>
            Summing!AddTerms(Summing!LoopCount)' = Summing!AddTerms(Summing!LoopCount)
    BY <2>1, SameTerms, LoopCountNat
  <2>6. Summing!SumIsLoop'
    BY <2>1, <2>2, <2>3, <2>4, <2>5 DEF Summing!SumIsLoop, SameCall
  <2>7. Summing!TypeOK' /\ Scanned'
    BY <2>1, <2>2, <2>3 DEF Summing!TypeOK, Scanned, SameCall
  <2>. QED
    BY <2>6, <2>7
<1>5. CASE Summing!AddLoop
  <2>1. SameCall /\ period' = period
    BY <1>5 DEF Summing!AddLoop, SameCall
  <2>2. CASE stage' = "error" /\ sum' = sum
    BY <2>1, <2>2 DEF Summing!TypeOK, Scanned, Summing!SumIsLoop, SameCall
  <2>3. CASE ~(stage' = "error" /\ sum' = sum)
    <3>1. /\ stage' = "done" /\ sum' = Summing!AddTerms(Summing!LoopCount)
          /\ stop <= 0 \/ step > 0
          /\ Defined(Summing!LoopCount)
      BY <1>5, <2>3 DEF Summing!AddLoop, Summing!Return, Defined
    <3>2. Summing!LoopCount \in Nat
      BY <3>1, LoopCountNat
    <3>3. sum' \in Int
      BY <3>1, <3>2, SumInt
    <3>4. Summing!AddTerms(Summing!LoopCount)' = Summing!AddTerms(Summing!LoopCount)
      BY <2>1, <3>2, SameTerms
    <3>. QED
      BY <2>1, <3>1, <3>3, <3>4 DEF Summing!TypeOK, Scanned, Summing!SumIsLoop, SameCall
  <2>. QED
    BY <2>2, <2>3
<1>. QED
  BY <1>1, <1>2, <1>3, <1>4, <1>5 DEF Summing!Next

LEMMA SumStutter ==
    ASSUME Summing!SumAssumption, SumInv, UNCHANGED Summing!vars
    PROVE  SumInv'
<1>1. SameCall /\ UNCHANGED <<stage, period, sum>>
  BY DEF Summing!vars, SameCall
<1>2. Summing!TypeOK'
  BY <1>1 DEF SumInv, Summing!TypeOK, SameCall
<1>3. Scanned'
  BY <1>1, SameTerms DEF SumInv, Scanned, Defined
<1>4. Summing!Misled' = Summing!Misled
  BY <1>1, SameTerms DEF Summing!Misled
<1>5. step > 0 =>
          Summing!AddTerms(Summing!LoopCount)' = Summing!AddTerms(Summing!LoopCount)
  BY <1>1, SameTerms, LoopCountNat DEF SumInv
<1>6. Summing!SumIsLoop'
  BY <1>1, <1>4, <1>5 DEF SumInv, Summing!SumIsLoop, SameCall
<1>. QED
  BY <1>2, <1>3, <1>6 DEF SumInv

LEMMA SumInvariant == ASSUME Summing!SumAssumption PROVE Summing!Spec => []SumInv
<1>1. Summing!Init => SumInv
  BY SumInit
<1>2. SumInv /\ [Summing!Next]_(Summing!vars) => SumInv'
  BY SumStepKeeps, SumStutter
<1>. QED
  BY <1>1, <1>2, PTL DEF Summing!Spec

\* The sum returned is the one a loop would add up, whichever way it was
\* computed (sumBuiltin and detectPeriod, eval.go), for every set of points, every
\* int generator on them, every stop and step, and every bound on periods.
LEMMA SumLoops ==
    ASSUME Summing!SumAssumption PROVE Summing!Spec => []Summing!SumIsLoop
<1>1. SumInv => Summing!SumIsLoop
  BY DEF SumInv
<1>. QED
  BY <1>1, SumInvariant, PTL

-----------------------------------------------------------------------------
(* The stress runner.                                                       *)

NotItsOwn == {"killed", "abandoned"}

\* What the supervisor did to the child in hand.
Supervised ==
    /\ child = "exited" => ending \in Endings
    /\ child # "exited" => ending = "killed"
    /\ child = "killed" => TimedOut \/ MemCapped

\* What the case has on record: one outcome for each phase that ended, a flag for
\* those that did not end by themselves, and the verdict computed from both.
Recorded ==
    /\ Len(outcome) = IF Verdict = Stress!NoVerdict THEN phase - 1 ELSE 4
    /\ \A p \in 1 .. Len(outcome) : outcome[p] \in NotItsOwn => anyTimeout \/ anyMemCap
    /\ Verdict # Stress!NoVerdict =>
          Verdict = Stress!verdictOf(outcome, anyTimeout, anyMemCap) /\ child = "none"

StressInv == Stress!TypeOK /\ Supervised /\ Recorded

LEMMA Loud == StressInv => Stress!KilledIsLoud
BY DEF StressInv, Recorded, Stress!KilledIsLoud, Stress!Quiet, Stress!NoVerdict,
       Stress!verdictOf, Stress!Phases, Stress!TypeOK, NotItsOwn

LEMMA DeadlineNat ==
    ASSUME Stress!StressAssumption
    PROVE  Stress!HardDeadline \in Nat /\ Timeout <= Stress!HardDeadline
<1>1. Timeout \in Nat /\ KillGrace \in Nat
  BY DEF Stress!StressAssumption
<1>. QED
  BY <1>1 DEF Stress!HardDeadline

LEMMA StressInit == Stress!StressAssumption /\ Stress!Init => StressInv
<1>. SUFFICES ASSUME Stress!StressAssumption, Stress!Init PROVE StressInv
  OBVIOUS
<1>1. outcome \in Seq(Stress!Outcomes) /\ Len(outcome) = 0
  BY DEF Stress!Init
<1>2. Stress!TypeOK
  <2>1. now \in 0 .. Stress!HardDeadline + 1
    BY DeadlineNat DEF Stress!Init
  <2>2. phase \in 1 .. 4
    BY DEF Stress!Init
  <2>3. /\ child = "none" /\ ending = "killed"
        /\ TimedOut = FALSE /\ MemCapped = FALSE /\ anyTimeout = FALSE /\ anyMemCap = FALSE
    BY DEF Stress!Init
  <2>. QED
    BY <1>1, <2>1, <2>2, <2>3 DEF Stress!TypeOK, Stress!Phases
<1>3. Supervised /\ Recorded
  BY <1>1 DEF Stress!Init, Supervised, Recorded
<1>. QED
  BY <1>2, <1>3 DEF StressInv

\* The record stays right when a phase ends, if what it adds is flagged.
LEMMA PhaseEnds ==
    ASSUME StressInv, NEW o \in Stress!Outcomes, NEW late \in BOOLEAN, NEW fat \in BOOLEAN,
           Stress!StressAssumption, o \in NotItsOwn => late \/ fat,
           Verdict = Stress!NoVerdict, Stress!EndPhase(o, late, fat)
    PROVE  StressInv'
<1>. DEFINE out == Append(outcome, o)
<1>1. /\ outcome' = out /\ child' = "none" /\ ending' = "killed" /\ now' = 0
      /\ anyTimeout' = (anyTimeout \/ late) /\ anyMemCap' = (anyMemCap \/ fat)
      /\ TimedOut' = FALSE /\ MemCapped' = FALSE
  BY DEF Stress!EndPhase
<1>2. \/ /\ phase = 4 /\ phase' = phase
         /\ Verdict' = Stress!verdictOf(out, anyTimeout \/ late, anyMemCap \/ fat)
      \/ phase # 4 /\ phase' = phase + 1 /\ Verdict' = Verdict
  BY DEF Stress!EndPhase, Stress!Phases
<1>3. outcome \in Seq(Stress!Outcomes) /\ phase \in 1 .. 4 /\ Len(outcome) = phase - 1
  BY DEF StressInv, Stress!TypeOK, Recorded, Stress!Phases
<1>4. /\ out \in Seq(Stress!Outcomes) /\ Len(out) = Len(outcome) + 1
      /\ \A p \in 1 .. Len(out) : out[p] = IF p <= Len(outcome) THEN outcome[p] ELSE o
  BY <1>3
<1>. HIDE DEF out
<1>5. \A b, c \in BOOLEAN : Stress!verdictOf(out, b, c) # Stress!NoVerdict
  BY DEF Stress!verdictOf, Stress!NoVerdict
<1>6. {anyTimeout, anyMemCap} \subseteq BOOLEAN
  BY DEF StressInv, Stress!TypeOK
<1>7. Stress!TypeOK'
  <2>1. phase' \in 1 .. 4
    BY <1>2, <1>3
  <2>2. now' \in 0 .. Stress!HardDeadline + 1
    BY <1>1, DeadlineNat
  <2>3. {TimedOut', MemCapped', anyTimeout', anyMemCap'} \subseteq BOOLEAN
    BY <1>1, <1>6
  <2>. QED
    BY <1>1, <1>4, <2>1, <2>2, <2>3 DEF Stress!TypeOK, Stress!Phases
<1>8. Supervised'
  BY <1>1 DEF Supervised
<1>9. Len(out) = IF Verdict' = Stress!NoVerdict THEN phase' - 1 ELSE 4
  BY <1>2, <1>3, <1>4, <1>5, <1>6
<1>10. \A p \in 1 .. Len(out) : out[p] \in NotItsOwn => anyTimeout' \/ anyMemCap'
  <2>. SUFFICES ASSUME NEW p \in 1 .. Len(out), out[p] \in NotItsOwn
                PROVE  anyTimeout' \/ anyMemCap'
    OBVIOUS
  <2>1. CASE p <= Len(outcome)
    <3>1. p \in 1 .. Len(outcome) /\ outcome[p] \in NotItsOwn
      BY <1>3, <1>4, <2>1
    <3>. QED
      BY <1>1, <3>1 DEF StressInv, Recorded
  <2>2. CASE ~(p <= Len(outcome))
    BY <1>1, <1>4, <2>2
  <2>. QED
    BY <2>1, <2>2
<1>11. Recorded'
  BY <1>1, <1>2, <1>9, <1>10 DEF Recorded
<1>. QED
  BY <1>7, <1>8, <1>11 DEF StressInv

LEMMA StressStepKeeps ==
    ASSUME Stress!StressAssumption, StressInv, Stress!Next
    PROVE  StressInv'
<1>. USE DEF Stress!Outcomes
<1>1. {TimedOut, MemCapped} \subseteq BOOLEAN
  BY DEF StressInv, Stress!TypeOK
<1>2. CASE Stress!Start
  <2>1. CASE Stress!EndPhase("not started", FALSE, FALSE)
    <3>1. Verdict = Stress!NoVerdict /\ "not started" \notin NotItsOwn
      BY <1>2 DEF Stress!Start, NotItsOwn
    <3>. QED
      BY <2>1, <3>1, PhaseEnds
  <2>2. CASE child' = "running" /\ child = "none"
             /\ UNCHANGED <<phase, ending, now, TimedOut, MemCapped, outcome,
                            anyTimeout, anyMemCap, Verdict>>
             /\ Verdict = Stress!NoVerdict
    <3>1. Stress!TypeOK'
      BY <2>2 DEF StressInv, Stress!TypeOK
    <3>2. Supervised'
      BY <2>2 DEF StressInv, Supervised
    <3>3. Recorded'
      BY <2>2 DEF StressInv, Recorded
    <3>. QED
      BY <3>1, <3>2, <3>3 DEF StressInv
  <2>. QED
    BY <1>2, <2>1, <2>2 DEF Stress!Start
<1>3. CASE Stress!ChildGrows
  BY <1>3 DEF Stress!ChildGrows, StressInv, Stress!TypeOK, Supervised, Recorded
<1>4. CASE Stress!ChildEnds
  BY <1>4 DEF Stress!ChildEnds, StressInv, Stress!TypeOK, Supervised, Recorded
<1>5. CASE Stress!Waited
  <2>1. child \in {"exited", "killed"} /\ Stress!EndPhase(ending, TimedOut, MemCapped)
    BY <1>5 DEF Stress!Waited
  <2>2. ending \in NotItsOwn => TimedOut \/ MemCapped
    BY <2>1 DEF StressInv, Supervised, NotItsOwn, Stress!StressAssumption
  <2>3. ending \in Stress!Outcomes /\ Verdict = Stress!NoVerdict
    BY <2>1 DEF StressInv, Stress!TypeOK, Recorded
  <2>. QED
    BY <1>1, <2>1, <2>2, <2>3, PhaseEnds
<1>6. CASE Stress!Tick
  <2>1. PICK t \in now + 1 .. Stress!HardDeadline + 1 : Stress!TickAt(t)
    BY <1>6 DEF Stress!Tick
  <2>2. child # "none" /\ Verdict = Stress!NoVerdict
    BY <1>6 DEF Stress!Tick, Stress!Supervising, StressInv, Recorded
  <2>3. now \in Nat /\ Stress!HardDeadline \in Nat /\ t \in 0 .. Stress!HardDeadline + 1
    <3>1. now \in 0 .. Stress!HardDeadline + 1
      BY DEF StressInv, Stress!TypeOK
    <3>. QED
      BY <3>1, DeadlineNat
  <2>. DEFINE capped == MemCapped \/ child = "fat"
              late == TimedOut \/ "kill" \in Stress!PollTime(t)
              kill == capped # MemCapped \/ late # TimedOut
              landed == IF kill /\ child \in {"running", "fat"} THEN {"killed"} ELSE {}
  <2>4. capped \in BOOLEAN /\ late \in BOOLEAN /\ (kill => capped \/ late)
    BY <1>1
  <2>5. CASE "abandon" \in Stress!PollTime(t) /\ Stress!EndPhase("abandoned", late, capped)
    <3>1. t > Stress!HardDeadline
      BY <2>5 DEF Stress!PollTime
    <3>2. t > Timeout
      <4>1. Timeout \in Nat
        BY DEF Stress!StressAssumption
      <4>. QED
        BY <2>3, <3>1, <4>1, DeadlineNat
    <3>3. late
      BY <3>2 DEF Stress!PollTime
    <3>. HIDE DEF capped, late
    <3>. QED
      BY <2>2, <2>4, <2>5, <3>3, PhaseEnds
  <2>6. CASE /\ child' \in landed \cup {child} /\ now' = t
             /\ TimedOut' = late /\ MemCapped' = capped
             /\ UNCHANGED <<phase, ending, outcome, anyTimeout, anyMemCap, Verdict>>
    <3>1. \/ child' = child
          \/ child' = "killed" /\ child \in {"running", "fat"} /\ (capped \/ late)
      BY <2>4, <2>6
    <3>2. (TimedOut => late) /\ (MemCapped => capped)
      OBVIOUS
    <3>. HIDE DEF capped, late, landed, kill
    <3>3. Stress!TypeOK'
      BY <2>3, <2>4, <2>6, <3>1 DEF StressInv, Stress!TypeOK
    <3>4. Supervised'
      BY <2>6, <3>1, <3>2 DEF StressInv, Supervised
    <3>5. Recorded'
      BY <2>2, <2>6 DEF StressInv, Recorded
    <3>. QED
      BY <3>3, <3>4, <3>5 DEF StressInv
  <2>. QED
    BY <2>1, <2>5, <2>6 DEF Stress!TickAt
<1>. QED
  BY <1>2, <1>3, <1>4, <1>5, <1>6 DEF Stress!Next

LEMMA StressInvariant == ASSUME Stress!StressAssumption PROVE Stress!Spec => []StressInv
<1>1. Stress!Init => StressInv
  BY StressInit
<1>2. StressInv /\ [Stress!Next]_(Stress!vars) => StressInv'
  <2>. SUFFICES ASSUME StressInv, UNCHANGED Stress!vars PROVE StressInv'
    BY StressStepKeeps
  <2>. QED
    BY DEF Stress!vars, StressInv, Stress!TypeOK, Supervised, Recorded
<1>. QED
  BY <1>1, <1>2, PTL DEF Stress!Spec

\* A verdict that does not fail the run is never about a phase that was killed or
\* given up (verdictOf, run.go, and the select of runBounded, probe.go), in any
\* order of the child's end, the bounds and the deadline, for any bounds.
LEMMA StressLoud ==
    ASSUME Stress!StressAssumption PROVE Stress!Spec => []Stress!KilledIsLoud
BY StressInvariant, Loud, PTL

-----------------------------------------------------------------------------
(* The memory manager: what the operations of its heap do to the entries.   *)

IsLoop(f, s, n, at) == at = [k \in 0 .. n |-> IF k = 0 THEN s ELSE f[at[k - 1]]]

LEMMA LoopExists == ASSUME NEW f, NEW s, NEW n \in Nat PROVE \E at : IsLoop(f, s, n, at)
<1>. DEFINE S == {m \in Nat : \E at : IsLoop(f, s, m, at)}
<1>1. 0 \in S
  <2>. DEFINE z == [k \in 0 .. 0 |-> s]
  <2>1. IsLoop(f, s, 0, z)
    BY DEF IsLoop
  <2>. QED
    BY <2>1
<1>2. ASSUME NEW m \in S
      PROVE  m + 1 \in S
  <2>1. PICK at : IsLoop(f, s, m, at)
    OBVIOUS
  <2>. DEFINE z == [k \in 0 .. m + 1 |-> IF k = m + 1 THEN f[at[m]] ELSE at[k]]
  <2>2. \A k \in 0 .. m : at[k] = IF k = 0 THEN s ELSE f[at[k - 1]]
    BY <2>1 DEF IsLoop
  <2>3. \A k \in 0 .. m : z[k] = at[k]
    OBVIOUS
  <2>4. z[m + 1] = f[z[m]]
    OBVIOUS
  <2>5. DOMAIN z = 0 .. m + 1 /\ z = [k \in 0 .. m + 1 |-> z[k]]
    OBVIOUS
  <2>. HIDE DEF z
  <2>6. ASSUME NEW k \in 0 .. m + 1
        PROVE  z[k] = IF k = 0 THEN s ELSE f[z[k - 1]]
    <3>1. CASE k = m + 1
      BY <2>4, <3>1
    <3>2. CASE k # m + 1
      <4>1. k \in 0 .. m /\ (k # 0 => k - 1 \in 0 .. m)
        BY <3>2
      <4>. QED
        BY <2>2, <2>3, <4>1
    <3>. QED
      BY <3>1, <3>2
  <2>7. IsLoop(f, s, m + 1, z)
    BY <2>5, <2>6 DEF IsLoop
  <2>. QED
    BY <2>7
<1>3. S = Nat
  <2>1. S \in SUBSET Nat
    OBVIOUS
  <2>. HIDE DEF S
  <2>. QED
    BY <1>1, <1>2, <2>1, Induction
<1>. QED
  BY <1>3

LEMMA LoopIs ==
    ASSUME NEW f, NEW s, NEW n \in Nat
    PROVE  \E at : IsLoop(f, s, n, at) /\ Memory!Loop(f, s, n) = at[n]
<1>. DEFINE P(at) == IsLoop(f, s, n, at)
<1>1. P(CHOOSE at : P(at))
  BY LoopExists, Zenon
<1>2. Memory!Loop(f, s, n) = (CHOOSE at : P(at))[n]
  BY Zenon DEF Memory!Loop, IsLoop
<1>. QED
  BY <1>1, <1>2

\* The rounds of a loop, one by one.
LEMMA LoopStep ==
    ASSUME NEW f, NEW s
    PROVE  /\ Memory!Loop(f, s, 0) = s
           /\ \A n \in Nat : Memory!Loop(f, s, n + 1) = f[Memory!Loop(f, s, n)]
<1>1. Memory!Loop(f, s, 0) = s
  <2>1. PICK at : IsLoop(f, s, 0, at) /\ Memory!Loop(f, s, 0) = at[0]
    BY LoopIs
  <2>. QED
    BY <2>1 DEF IsLoop
<1>2. ASSUME NEW n \in Nat
      PROVE  Memory!Loop(f, s, n + 1) = f[Memory!Loop(f, s, n)]
  <2>1. PICK at : IsLoop(f, s, n + 1, at) /\ Memory!Loop(f, s, n + 1) = at[n + 1]
    BY LoopIs
  <2>2. PICK bt : IsLoop(f, s, n, bt) /\ Memory!Loop(f, s, n) = bt[n]
    BY LoopIs
  <2>3. /\ \A k \in 0 .. n + 1 : at[k] = IF k = 0 THEN s ELSE f[at[k - 1]]
        /\ \A k \in 0 .. n : bt[k] = IF k = 0 THEN s ELSE f[bt[k - 1]]
    BY <2>1, <2>2 DEF IsLoop
  <2>. DEFINE S == {k \in Nat : k <= n => at[k] = bt[k]}
  <2>4. 0 \in S
    BY <2>3
  <2>5. ASSUME NEW k \in S PROVE k + 1 \in S
    BY <2>3
  <2>6. S = Nat
    <3>1. S \in SUBSET Nat
      OBVIOUS
    <3>. HIDE DEF S
    <3>. QED
      BY <2>4, <2>5, <3>1, Induction
  <2>7. at[n] = bt[n]
    BY <2>6
  <2>8. at[n + 1] = f[at[n]]
    BY <2>3
  <2>. QED
    BY <2>1, <2>2, <2>7, <2>8
<1>. QED
  BY <1>1, <1>2

\* What every round of a loop keeps, the loop keeps.
LEMMA LoopStays ==
    ASSUME NEW f, NEW S, \A x \in S : f[x] \in S, NEW s \in S, NEW n \in Nat
    PROVE  Memory!Loop(f, s, n) \in S
<1>. DEFINE T == {k \in Nat : Memory!Loop(f, s, k) \in S}
<1>1. 0 \in T
  BY LoopStep
<1>2. ASSUME NEW k \in T PROVE k + 1 \in T
  <2>1. k \in Nat /\ Memory!Loop(f, s, k) \in S
    OBVIOUS
  <2>2. Memory!Loop(f, s, k + 1) = f[Memory!Loop(f, s, k)]
    BY <2>1, LoopStep
  <2>. QED
    BY <2>1, <2>2
<1>3. T = Nat
  <2>1. T \in SUBSET Nat
    OBVIOUS
  <2>. HIDE DEF T
  <2>. QED
    BY <1>1, <1>2, <2>1, Induction
<1>. QED
  BY <1>3

Ids(g) == {g[i] : i \in 1 .. Len(g)}

\* The arrays of n entries that hold the ids of I.
Arrays(n, I) == {g \in Seq(Nat) : Len(g) = n /\ Ids(g) = I}

LEMMA SwapIs ==
    ASSUME NEW g \in Seq(Nat), NEW i \in 1 .. Len(g), NEW j \in 1 .. Len(g)
    PROVE  Memory!Swap(g, i, j) \in Arrays(Len(g), Ids(g))
<1>. DEFINE t == Memory!Swap(g, i, j)
<1>1. t = [g EXCEPT ![i] = g[j], ![j] = g[i]]
  BY DEF Memory!Swap
<1>2. /\ t \in Seq(Nat) /\ Len(t) = Len(g)
      /\ \A k \in 1 .. Len(g) : t[k] = IF k = j THEN g[i] ELSE IF k = i THEN g[j] ELSE g[k]
  BY <1>1
<1>. HIDE DEF t
<1>3. Ids(t) \subseteq Ids(g)
  BY <1>2 DEF Ids
<1>4. ASSUME NEW k \in 1 .. Len(g) PROVE g[k] \in Ids(t)
  <2>1. \E l \in 1 .. Len(g) : t[l] = g[k]
    <3>1. CASE k = i
      BY <1>2, <3>1
    <3>2. CASE k = j
      BY <1>2, <3>2
    <3>3. CASE k # i /\ k # j
      BY <1>2, <3>3
    <3>. QED
      BY <3>1, <3>2, <3>3
  <2>. QED
    BY <1>2, <2>1 DEF Ids
<1>. QED
  BY <1>2, <1>3, <1>4 DEF Arrays, Ids, t

LEMMA SiftUpIs ==
    ASSUME NEW bs, NEW g \in Seq(Nat), NEW j \in 1 .. Len(g)
    PROVE  Memory!SiftUp(bs, g, j) \in Arrays(Len(g), Ids(g))
<1>. DEFINE A == Arrays(Len(g), Ids(g))
            S == A \X (1 .. Len(g))
            f == Memory!Up(bs)
<1>1. ASSUME NEW x \in S PROVE f[x] \in S
  <2>. DEFINE e == x[1]
              k == x[2]
              i == k \div 2
  <2>1. e \in A /\ e \in Seq(Nat) /\ Len(e) = Len(g) /\ Ids(e) = Ids(g) /\ k \in 1 .. Len(g)
    BY DEF Arrays
  <2>2. x \in Seq(Nat) \X Nat /\ x = <<e, k>>
    BY <2>1
  <2>3. f[x] = IF k > 1 /\ Memory!Less(bs, e, k, i) THEN <<Memory!Swap(e, i, k), i>> ELSE x
    BY <2>2 DEF Memory!Up
  <2>4. CASE k > 1
    <3>1. i \in 1 .. Len(g)
      BY <2>1, <2>4
    <3>2. Memory!Swap(e, i, k) \in A
      BY <2>1, <3>1, SwapIs
    <3>. QED
      BY <2>3, <3>1, <3>2
  <2>5. CASE ~(k > 1)
    BY <2>3, <2>5
  <2>. QED
    BY <2>4, <2>5
<1>2. <<g, j>> \in S /\ Len(g) \in Nat
  BY DEF Arrays
<1>3. Memory!SiftUp(bs, g, j) = Memory!Loop(f, <<g, j>>, Len(g))[1]
  BY DEF Memory!SiftUp
<1>. HIDE DEF S, f
<1>4. Memory!Loop(f, <<g, j>>, Len(g)) \in S
  BY <1>1, <1>2, LoopStays
<1>. QED
  BY <1>3, <1>4 DEF S

LEMMA SiftDownIs ==
    ASSUME NEW bs, NEW g \in Seq(Nat), NEW j \in Nat \ {0}
    PROVE  Memory!SiftDown(bs, g, j) \in Arrays(Len(g), Ids(g))
<1>. DEFINE A == Arrays(Len(g), Ids(g))
            S == A \X (Nat \ {0})
            f == Memory!Down(bs)
<1>1. ASSUME NEW x \in S PROVE f[x] \in S
  <2>. DEFINE e == x[1]
              i == x[2]
              left == 2 * i
              k == IF left < Len(e) /\ Memory!Less(bs, e, left + 1, left)
                   THEN left + 1 ELSE left
  <2>1. e \in A /\ e \in Seq(Nat) /\ Len(e) = Len(g) /\ Ids(e) = Ids(g) /\ i \in Nat \ {0}
    BY DEF Arrays
  <2>2. x \in Seq(Nat) \X Nat
    BY <2>1
  <2>3. f[x] = IF left <= Len(e) /\ Memory!Less(bs, e, k, i)
               THEN <<Memory!Swap(e, i, k), k>> ELSE x
    BY <2>2 DEF Memory!Down
  <2>4. CASE left <= Len(e)
    <3>1. i \in 1 .. Len(e) /\ k \in 1 .. Len(e)
      BY <2>1, <2>4
    <3>. HIDE DEF k
    <3>2. Memory!Swap(e, i, k) \in A
      BY <2>1, <3>1, SwapIs
    <3>. QED
      BY <2>1, <2>3, <3>1, <3>2
  <2>5. CASE ~(left <= Len(e))
    BY <2>3, <2>5
  <2>. QED
    BY <2>4, <2>5
<1>2. <<g, j>> \in S /\ Len(g) \in Nat
  BY DEF Arrays
<1>3. Memory!SiftDown(bs, g, j) = Memory!Loop(f, <<g, j>>, Len(g))[1]
  BY DEF Memory!SiftDown
<1>. HIDE DEF S, f
<1>4. Memory!Loop(f, <<g, j>>, Len(g)) \in S
  BY <1>1, <1>2, LoopStays
<1>. QED
  BY <1>3, <1>4 DEF S

LEMMA PushIs ==
    ASSUME NEW bs, NEW g \in Seq(Nat), NEW id \in Nat
    PROVE  Memory!HeapPush(bs, g, id) \in Arrays(Len(g) + 1, Ids(g) \cup {id})
<1>. DEFINE t == Append(g, id)
<1>1. /\ t \in Seq(Nat) /\ Len(t) = Len(g) + 1 /\ Len(g) \in Nat /\ t[Len(g) + 1] = id
      /\ \A i \in 1 .. Len(g) : t[i] = g[i]
  OBVIOUS
<1>2. Memory!HeapPush(bs, g, id) = Memory!SiftUp(bs, t, Len(g) + 1)
  BY DEF Memory!HeapPush
<1>. HIDE DEF t
<1>3. Ids(t) = Ids(g) \cup {id}
  <2>1. 1 .. Len(t) = (1 .. Len(g)) \cup {Len(g) + 1}
    BY <1>1
  <2>. QED
    BY <1>1, <2>1 DEF Ids
<1>4. Len(g) + 1 \in 1 .. Len(t)
  BY <1>1
<1>5. Memory!SiftUp(bs, t, Len(g) + 1) \in Arrays(Len(t), Ids(t))
  BY <1>1, <1>4, SiftUpIs
<1>. QED
  BY <1>1, <1>2, <1>3, <1>5

LEMMA PopIs ==
    ASSUME NEW bs, NEW g \in Seq(Nat), g # <<>>
    PROVE  \E I : /\ Memory!HeapPop(bs, g) \in Arrays(Len(g) - 1, I)
                  /\ I \cup {g[1]} = Ids(g)
<1>. DEFINE n == Len(g)
            s == Memory!Swap(g, 1, n)
            t == SubSeq(s, 1, n - 1)
<1>1. n \in Nat /\ n >= 1 /\ 1 \in 1 .. n /\ n \in 1 .. n
  OBVIOUS
<1>2. /\ s \in Seq(Nat) /\ Len(s) = n /\ Ids(s) = Ids(g)
  BY <1>1, SwapIs DEF Arrays
<1>3. s[n] = g[1]
  BY <1>1 DEF Memory!Swap
<1>4. Memory!HeapPop(bs, g) = Memory!SiftDown(bs, t, 1)
  BY <1>2 DEF Memory!HeapPop, Memory!Front
<1>. HIDE DEF s
<1>5. /\ t \in Seq(Nat) /\ Len(t) = n - 1
      /\ \A i \in 1 .. n - 1 : t[i] = s[i]
  BY <1>1, <1>2
<1>. HIDE DEF t
<1>6. Ids(t) \cup {g[1]} = Ids(s)
  <2>1. 1 .. n = (1 .. n - 1) \cup {n}
    BY <1>1
  <2>2. Ids(s) = {s[i] : i \in 1 .. n - 1} \cup {s[n]}
    BY <1>2, <2>1 DEF Ids
  <2>3. Ids(t) = {s[i] : i \in 1 .. n - 1}
    BY <1>5 DEF Ids
  <2>. QED
    BY <1>3, <2>2, <2>3
<1>7. Memory!HeapPop(bs, g) \in Arrays(n - 1, Ids(t))
  BY <1>4, <1>5, SiftDownIs
<1>. QED
  BY <1>2, <1>6, <1>7

\* The state x of HeapPushAll once k of the ids are pushed.
PushedSome(g, ids, k, x) ==
    /\ x \in Seq(Nat) \X Seq(Nat)
    /\ Len(x[2]) = Len(ids) - k
    /\ Ids(x[1]) \cup Ids(x[2]) = Ids(g) \cup Ids(ids)

\* Pushing a sequence of ids adds them and loses none.
LEMMA PushAllIs ==
    ASSUME NEW bs, NEW g \in Seq(Nat), NEW ids \in Seq(Nat)
    PROVE  /\ Memory!HeapPushAll(bs, g, ids) \in Seq(Nat)
           /\ Ids(Memory!HeapPushAll(bs, g, ids)) = Ids(g) \cup Ids(ids)
<1>. DEFINE f == Memory!PushHead(bs)
            at(k) == Memory!Loop(f, <<g, ids>>, k)
            S == {k \in Nat : k <= Len(ids) => PushedSome(g, ids, k, at(k))}
<1>0. Len(ids) \in Nat
  OBVIOUS
<1>1. 0 \in S
  <2>1. at(0) = <<g, ids>>
    BY LoopStep
  <2>2. PushedSome(g, ids, 0, <<g, ids>>)
    BY <1>0 DEF PushedSome
  <2>. QED
    BY <2>1, <2>2
<1>2. ASSUME NEW k \in S PROVE k + 1 \in S
  <2>. DEFINE x == at(k)
              e == x[1]
              r == x[2]
              I == Ids(g) \cup Ids(ids)
  <2>0. k \in Nat /\ (k <= Len(ids) => PushedSome(g, ids, k, x))
    OBVIOUS
  <2>2. at(k + 1) = f[x]
    BY <2>0, LoopStep
  <2>. SUFFICES ASSUME k + 1 <= Len(ids) PROVE PushedSome(g, ids, k + 1, at(k + 1))
    BY <2>0
  <2>1. PushedSome(g, ids, k, x)
    BY <1>0, <2>0
  <2>. HIDE DEF at, S
  <2>3. e \in Seq(Nat) /\ r \in Seq(Nat) /\ Len(r) = Len(ids) - k /\ Ids(e) \cup Ids(r) = I
    BY <2>1 DEF PushedSome
  <2>4. f[x] = <<Memory!HeapPush(bs, e, Head(r)), Tail(r)>>
    BY <2>1 DEF Memory!PushHead, PushedSome
  <2>. HIDE DEF f, x
  <2>. HIDE DEF e, r
  <2>5. r # <<>> /\ Len(r) \in Nat /\ Len(r) >= 1
    <3>1. Len(ids) - k >= 1
      BY <1>0, <2>0
    <3>. QED
      BY <2>3, <3>1
  <2>6. /\ Head(r) \in Nat /\ Tail(r) \in Seq(Nat) /\ Len(Tail(r)) = Len(r) - 1
        /\ Head(r) = r[1] /\ \A i \in 1 .. Len(r) - 1 : Tail(r)[i] = r[i + 1]
    BY <2>3, <2>5
  <2>7. Ids(r) = {Head(r)} \cup Ids(Tail(r))
    <3>1. \A i \in 1 .. Len(r) : i = 1 \/ (i - 1 \in 1 .. Len(r) - 1 /\ (i - 1) + 1 = i)
      BY <2>5
    <3>2. \A i \in 1 .. Len(r) - 1 : i + 1 \in 1 .. Len(r)
      BY <2>5
    <3>3. 1 \in 1 .. Len(r)
      BY <2>5
    <3>4. ASSUME NEW d \in Ids(r) PROVE d \in {Head(r)} \cup Ids(Tail(r))
      <4>1. PICK i \in 1 .. Len(r) : d = r[i]
        BY DEF Ids
      <4>2. CASE i = 1
        BY <2>6, <4>1, <4>2
      <4>3. CASE i # 1
        <5>1. d = Tail(r)[i - 1] /\ i - 1 \in 1 .. Len(Tail(r))
          BY <2>6, <3>1, <4>1, <4>3
        <5>. QED
          BY <5>1 DEF Ids
      <4>. QED
        BY <4>2, <4>3
    <3>5. ASSUME NEW d \in Ids(Tail(r)) PROVE d \in Ids(r)
      <4>1. PICK i \in 1 .. Len(Tail(r)) : d = Tail(r)[i]
        BY DEF Ids
      <4>2. d = r[i + 1] /\ i + 1 \in 1 .. Len(r)
        BY <2>6, <3>2, <4>1
      <4>. QED
        BY <4>2 DEF Ids
    <3>6. Head(r) \in Ids(r)
      BY <2>6, <3>3 DEF Ids
    <3>. QED
      BY <3>4, <3>5, <3>6
  <2>8. /\ Memory!HeapPush(bs, e, Head(r)) \in Seq(Nat)
        /\ Ids(Memory!HeapPush(bs, e, Head(r))) = Ids(e) \cup {Head(r)}
    BY <2>3, <2>6, PushIs DEF Arrays
  <2>9. Len(Tail(r)) = Len(ids) - (k + 1)
    BY <1>0, <2>0, <2>3, <2>6
  <2>10. Ids(Memory!HeapPush(bs, e, Head(r))) \cup Ids(Tail(r)) = I
    BY <2>3, <2>7, <2>8
  <2>11. PushedSome(g, ids, k + 1, <<Memory!HeapPush(bs, e, Head(r)), Tail(r)>>)
    BY <2>6, <2>8, <2>9, <2>10 DEF PushedSome
  <2>. QED
    BY <2>2, <2>4, <2>11
<1>3. S = Nat
  <2>1. S \in SUBSET Nat
    OBVIOUS
  <2>. HIDE DEF S
  <2>. QED
    BY <1>1, <1>2, <2>1, Induction
<1>4. PushedSome(g, ids, Len(ids), at(Len(ids)))
  <2>. HIDE DEF S
  <2>1. Len(ids) \in S /\ Len(ids) <= Len(ids)
    BY <1>0, <1>3
  <2>. QED
    BY <2>1 DEF S
<1>5. Memory!HeapPushAll(bs, g, ids) = at(Len(ids))[1]
  BY DEF Memory!HeapPushAll
<1>. HIDE DEF at
<1>6. Len(at(Len(ids))[2]) = 0
  BY <1>0, <1>4 DEF PushedSome
<1>7. Ids(at(Len(ids))[2]) = {}
  BY <1>6 DEF Ids
<1>. QED
  BY <1>4, <1>5, <1>7 DEF PushedSome

LEMMA PushAllToNone ==
    ASSUME NEW bs, NEW ids \in Seq(Nat)
    PROVE  /\ Memory!HeapPushAll(bs, <<>>, ids) \in Seq(Nat)
           /\ Ids(Memory!HeapPushAll(bs, <<>>, ids)) = Ids(ids)
<1>1. PICK none \in Seq(Nat) : none = <<>>
  <2>1. <<>> \in Seq(Nat)
    OBVIOUS
  <2>. QED
    BY <2>1, Zenon
<1>2. /\ Memory!HeapPushAll(bs, none, ids) \in Seq(Nat)
      /\ Ids(Memory!HeapPushAll(bs, none, ids)) = Ids(none) \cup Ids(ids)
  BY PushAllIs
<1>3. Ids(none) = {}
  BY <1>1 DEF Ids
<1>4. Ids(Memory!HeapPushAll(bs, none, ids)) = Ids(ids)
  BY <1>2, <1>3
<1>. QED
  BY <1>1, <1>2, <1>4

AtRest(d, size) == d = <<>> \/ Memory!HasRoom(d[1], size)

\* The array d left of g after k rounds of Alloc's loop.
DroppedSome(g, size, k, d) ==
    /\ d \in Seq(Nat) /\ Ids(d) \subseteq Ids(g)
    /\ \A id \in Ids(g) \ Ids(d) : ~Memory!HasRoom(id, size)
    /\ AtRest(d, size) \/ Len(d) = Len(g) - k

\* What Alloc pops has no room, and it stops at a block with room or at none.
LEMMA DropIs ==
    ASSUME NEW g \in Seq(Nat), NEW size
    PROVE  LET d == Memory!DropFull(g, size)
           IN  /\ d \in Seq(Nat) /\ Ids(d) \subseteq Ids(g)
               /\ \A id \in Ids(g) \ Ids(d) : ~Memory!HasRoom(id, size)
               /\ AtRest(d, size)
<1>. DEFINE f == Memory!PopFull(size)
            at(k) == Memory!Loop(f, g, k)
            S == {k \in Nat : k <= Len(g) => DroppedSome(g, size, k, at(k))}
<1>0. Len(g) \in Nat
  OBVIOUS
<1>1. 0 \in S
  <2>1. at(0) = g
    BY LoopStep
  <2>2. DroppedSome(g, size, 0, g)
    BY <1>0 DEF DroppedSome
  <2>. QED
    BY <2>1, <2>2
<1>2. ASSUME NEW k \in S PROVE k + 1 \in S
  <2>. DEFINE d == at(k)
              e == Memory!HeapPop(blocks, d)
  <2>0. k \in Nat /\ (k <= Len(g) => DroppedSome(g, size, k, d))
    OBVIOUS
  <2>1. at(k + 1) = f[d]
    BY <2>0, LoopStep
  <2>. SUFFICES ASSUME k + 1 <= Len(g) PROVE DroppedSome(g, size, k + 1, at(k + 1))
    BY <2>0
  <2>2. DroppedSome(g, size, k, d)
    BY <1>0, <2>0
  <2>. HIDE DEF at, S
  <2>3. f[d] = IF AtRest(d, size) THEN d ELSE e
    BY <2>2 DEF Memory!PopFull, DroppedSome, AtRest
  <2>. HIDE DEF f, d
  <2>4. CASE AtRest(d, size)
    BY <2>1, <2>2, <2>3, <2>4 DEF DroppedSome
  <2>5. CASE ~AtRest(d, size)
    <3>1. d \in Seq(Nat) /\ d # <<>> /\ ~Memory!HasRoom(d[1], size) /\ Len(d) = Len(g) - k
      BY <2>2, <2>5 DEF DroppedSome, AtRest
    <3>2. PICK I : e \in Arrays(Len(d) - 1, I) /\ I \cup {d[1]} = Ids(d)
      BY <3>1, PopIs
    <3>. HIDE DEF e
    <3>3. e \in Seq(Nat) /\ Len(e) = Len(d) - 1 /\ Ids(e) \cup {d[1]} = Ids(d)
      BY <3>2 DEF Arrays
    <3>4. Len(e) = Len(g) - (k + 1)
      BY <1>0, <2>0, <3>1, <3>3
    <3>5. DroppedSome(g, size, k + 1, e)
      BY <2>2, <3>1, <3>3, <3>4 DEF DroppedSome
    <3>. QED
      BY <2>1, <2>3, <2>5, <3>5
  <2>. QED
    BY <2>4, <2>5
<1>3. S = Nat
  <2>1. S \in SUBSET Nat
    OBVIOUS
  <2>. HIDE DEF S
  <2>. QED
    BY <1>1, <1>2, <2>1, Induction
<1>4. DroppedSome(g, size, Len(g), at(Len(g)))
  <2>. HIDE DEF S
  <2>1. Len(g) \in S /\ Len(g) <= Len(g)
    BY <1>0, <1>3
  <2>. QED
    BY <2>1 DEF S
<1>5. Memory!DropFull(g, size) = at(Len(g))
  BY DEF Memory!DropFull
<1>. HIDE DEF at
<1>6. Len(at(Len(g))) = Len(g) - Len(g) => at(Len(g)) = <<>>
  BY <1>0, <1>4 DEF DroppedSome
<1>. QED
  BY <1>4, <1>5, <1>6 DEF DroppedSome, AtRest

-----------------------------------------------------------------------------
(* The memory manager: its invariant.                                       *)

\* An id is made by an allocation.
Counted == nextID <= AllocCalls

MemInv ==
    /\ Memory!TypeOK /\ Counted
    /\ Memory!EntriesManaged /\ Memory!EmptyQueued

LEMMA QueuedIs ==
    ASSUME NEW g \in Seq(Nat)
    PROVE  Memory!Range(g) = Ids(g)
BY DEF Memory!Range, Ids

LEMMA HeapSeq ==
    ASSUME Memory!MemoryAssumption, MemInv
    PROVE  /\ nextID \in Nat /\ minHeap \in Seq(Nat)
           /\ Ids(minHeap) \subseteq DOMAIN blocks /\ DOMAIN blocks \subseteq 1 .. nextID
           /\ Ids(minHeap) = Memory!Queued
<1>1. nextID \in Nat /\ minHeap \in Seq(Nat)
  <2>1. nextID \in Nat /\ minHeap \in Seq(1 .. nextID)
    BY DEF Memory!MemoryAssumption, MemInv, Memory!TypeOK
  <2>2. 1 .. nextID \subseteq Nat
    BY <2>1
  <2>. QED
    BY <2>1, <2>2
<1>. QED
  BY <1>1, QueuedIs DEF MemInv, Memory!TypeOK, Memory!EntriesManaged, Memory!Queued

\* An array whose ids are all at most n.
LEMMA SeqWithin ==
    ASSUME NEW n \in Nat, NEW g \in Seq(Nat), Ids(g) \subseteq 1 .. n
    PROVE  g \in Seq(1 .. n)
<1>1. g = [i \in 1 .. Len(g) |-> g[i]] /\ Len(g) \in Nat
  OBVIOUS
<1>2. \A i \in 1 .. Len(g) : g[i] \in 1 .. n
  BY DEF Ids
<1>. QED
  BY <1>1, <1>2

\* A step that leaves the array g, whose entries are managed and contain the
\* empty blocks, keeps the invariant if it keeps the blocks' types.
LEMMA HeapKept ==
    ASSUME Memory!MemoryAssumption,
           BlockSize' \in BlockSizes, nextID' \in 0 .. MaxAllocs,
           AllocCalls' \in 0 .. MaxAllocs, nextID' <= AllocCalls',
           DOMAIN blocks' \subseteq 1 .. nextID',
           \A id \in DOMAIN blocks' :
               blocks'[id] \in [Size : BlockSizes, Used : Nat, OwnerPID : Pids \cup {0}],
           minHeap' \in Seq(Nat), Ids(minHeap') \subseteq DOMAIN blocks',
           \A id \in DOMAIN blocks' :
               /\ blocks'[id].Used = 0
               /\ \A n \in BlockSizes \cup Requests : n <= blocks'[id].Size
               => id \in Ids(minHeap')
    PROVE  MemInv'
<1>1. nextID' \in Nat
  BY DEF Memory!MemoryAssumption
<1>2. minHeap' \in Seq(1 .. nextID')
  BY <1>1, SeqWithin
<1>3. Memory!Queued' = Ids(minHeap')
  BY QueuedIs DEF Memory!Queued
<1>4. Memory!TypeOK'
  BY <1>2 DEF Memory!TypeOK
<1>. QED
  BY <1>3, <1>4 DEF MemInv, Counted, Memory!EntriesManaged, Memory!EmptyQueued

\* Alloc's cases, as the caller sees them.
Given(size, owner, id) ==
    /\ blocks' = [i \in DOMAIN blocks \cup {id} |->
                    IF i # id THEN blocks[i]
                    ELSE IF id \in DOMAIN blocks
                         THEN [blocks[id] EXCEPT !.Used = @ + size, !.OwnerPID = owner]
                         ELSE [Size |-> BlockSize, Used |-> size, OwnerPID |-> owner]]
    /\ minHeap' \in Seq(Nat)
    /\ \E g \in Seq(Nat) :
          /\ Ids(g) \subseteq Ids(minHeap) /\ Ids(minHeap') = Ids(g) \cup {id}
          /\ \A i \in Ids(minHeap) \ Ids(g) : ~Memory!HasRoom(i, size)
    /\ \/ id \in DOMAIN blocks /\ Memory!HasRoom(id, size) /\ nextID' = nextID
       \/ id \notin DOMAIN blocks /\ id = nextID + 1 /\ nextID' = id
    /\ AllocCalls < MaxAllocs /\ AllocCalls' = AllocCalls + 1 /\ BlockSize' = BlockSize

LEMMA AllocGives ==
    ASSUME Memory!MemoryAssumption, MemInv, NEW size \in Nat, NEW owner,
           Memory!Alloc(size, owner)
    PROVE  \E id \in Nat : Given(size, owner, id)
<1>. DEFINE g == Memory!DropFull(minHeap, size)
            id == IF g = <<>> THEN nextID + 1 ELSE g[1]
            block == IF g = <<>> THEN [Size |-> BlockSize, Used |-> size, OwnerPID |-> owner]
                     ELSE [blocks[id] EXCEPT !.Used = @ + size, !.OwnerPID = owner]
            after == [i \in DOMAIN blocks \cup {id} |-> IF i = id THEN block ELSE blocks[i]]
<1>1. /\ nextID \in Nat /\ minHeap \in Seq(Nat)
      /\ Ids(minHeap) \subseteq DOMAIN blocks /\ DOMAIN blocks \subseteq 1 .. nextID
  BY HeapSeq
<1>2. /\ g \in Seq(Nat) /\ Ids(g) \subseteq Ids(minHeap) /\ AtRest(g, size)
      /\ \A i \in Ids(minHeap) \ Ids(g) : ~Memory!HasRoom(i, size)
  BY <1>1, DropIs
<1>3. /\ AllocCalls < MaxAllocs /\ AllocCalls' = AllocCalls + 1
      /\ blocks' = after
      /\ nextID' = IF g = <<>> THEN id ELSE nextID
      /\ minHeap' = IF g = <<>> THEN Memory!HeapPush(after, g, id)
                    ELSE Memory!HeapFix1(after, g)
      /\ BlockSize' = BlockSize
  BY DEF Memory!Alloc
<1>. HIDE DEF g
<1>4. CASE g = <<>>
  <2>1. id = nextID + 1 /\ id \in Nat /\ id \notin DOMAIN blocks
    BY <1>1, <1>4
  <2>2. minHeap' = Memory!HeapPush(after, g, id)
    BY <1>3, <1>4
  <2>3. blocks' = [i \in DOMAIN blocks \cup {id} |->
                      IF i # id THEN blocks[i]
                      ELSE IF id \in DOMAIN blocks
                           THEN [blocks[id] EXCEPT !.Used = @ + size, !.OwnerPID = owner]
                           ELSE [Size |-> BlockSize, Used |-> size, OwnerPID |-> owner]]
    BY <1>3, <1>4, <2>1
  <2>4. nextID' = id
    BY <1>3, <1>4
  <2>. HIDE DEF id, after
  <2>5. minHeap' \in Seq(Nat) /\ Ids(minHeap') = Ids(g) \cup {id}
    BY <1>2, <2>1, <2>2, PushIs DEF Arrays
  <2>6. Given(size, owner, id)
    BY <1>2, <1>3, <2>1, <2>3, <2>4, <2>5 DEF Given
  <2>. QED
    BY <2>1, <2>6
<1>5. CASE g # <<>>
  <2>1. id = g[1] /\ id \in Ids(g) /\ id \in Nat
    <3>1. 1 \in 1 .. Len(g)
      BY <1>2, <1>5
    <3>. QED
      BY <1>2, <1>5, <3>1 DEF Ids
  <2>2. id \in DOMAIN blocks /\ Memory!HasRoom(id, size)
    BY <1>1, <1>2, <1>5, <2>1 DEF AtRest
  <2>3. minHeap' = Memory!HeapFix1(after, g) /\ nextID' = nextID
    BY <1>3, <1>5
  <2>4. blocks' = [i \in DOMAIN blocks \cup {id} |->
                      IF i # id THEN blocks[i]
                      ELSE IF id \in DOMAIN blocks
                           THEN [blocks[id] EXCEPT !.Used = @ + size, !.OwnerPID = owner]
                           ELSE [Size |-> BlockSize, Used |-> size, OwnerPID |-> owner]]
    BY <1>3, <1>5, <2>2
  <2>. HIDE DEF id, after
  <2>5. minHeap' \in Seq(Nat) /\ Ids(minHeap') = Ids(g)
    <3>1. minHeap' \in Arrays(Len(g), Ids(g))
      BY <1>2, <2>3, SiftDownIs DEF Memory!HeapFix1
    <3>. QED
      BY <3>1 DEF Arrays
  <2>6. Ids(minHeap') = Ids(g) \cup {id}
    BY <2>1, <2>5
  <2>7. Given(size, owner, id)
    BY <1>2, <1>3, <2>2, <2>3, <2>4, <2>5, <2>6 DEF Given
  <2>. QED
    BY <2>1, <2>7
<1>. QED
  BY <1>4, <1>5

LEMMA AllocKeeps ==
    ASSUME Memory!MemoryAssumption, MemInv, NEW size \in BlockSizes \cup Requests,
           NEW owner \in Pids \cup {0}, Memory!Alloc(size, owner)
    PROVE  MemInv'
<1>1. size \in Nat
  BY DEF Memory!MemoryAssumption
<1>2. PICK id \in Nat : Given(size, owner, id)
  BY <1>1, AllocGives
<1>3. /\ nextID \in Nat /\ minHeap \in Seq(Nat)
      /\ Ids(minHeap) \subseteq DOMAIN blocks /\ DOMAIN blocks \subseteq 1 .. nextID
      /\ Ids(minHeap) = Memory!Queued
  BY HeapSeq
<1>4. DOMAIN blocks' = DOMAIN blocks \cup {id}
  BY <1>2 DEF Given
<1>5. \A i \in DOMAIN blocks : i # id => blocks'[i] = blocks[i]
  BY <1>2 DEF Given
<1>6. /\ nextID' \in 0 .. MaxAllocs /\ AllocCalls' \in 0 .. MaxAllocs
      /\ nextID' <= AllocCalls' /\ BlockSize' \in BlockSizes
      /\ DOMAIN blocks' \subseteq 1 .. nextID'
  BY <1>2, <1>3, <1>4 DEF Given, MemInv, Counted, Memory!TypeOK, Memory!MemoryAssumption
<1>7. blocks'[id] \in [Size : BlockSizes, Used : Nat, OwnerPID : Pids \cup {0}]
  <2>1. CASE id \in DOMAIN blocks
    <3>1. blocks[id] \in [Size : BlockSizes, Used : Nat, OwnerPID : Pids \cup {0}]
      BY <2>1 DEF MemInv, Memory!TypeOK
    <3>2. blocks'[id] = [blocks[id] EXCEPT !.Used = @ + size, !.OwnerPID = owner]
      BY <1>2, <2>1 DEF Given
    <3>3. blocks[id].Used + size \in Nat
      BY <1>1, <3>1
    <3>4. blocks'[id] = [Size |-> blocks[id].Size, Used |-> blocks[id].Used + size,
                        OwnerPID |-> owner]
      BY <3>1, <3>2
    <3>. QED
      BY <3>1, <3>3, <3>4
  <2>2. CASE id \notin DOMAIN blocks
    <3>1. blocks'[id] = [Size |-> BlockSize, Used |-> size, OwnerPID |-> owner]
      BY <1>2, <2>2 DEF Given
    <3>. QED
      BY <1>1, <3>1 DEF MemInv, Memory!TypeOK
  <2>. QED
    BY <2>1, <2>2
<1>8. \A i \in DOMAIN blocks' :
          blocks'[i] \in [Size : BlockSizes, Used : Nat, OwnerPID : Pids \cup {0}]
  BY <1>4, <1>5, <1>7 DEF MemInv, Memory!TypeOK
<1>9. minHeap' \in Seq(Nat) /\ Ids(minHeap') \subseteq DOMAIN blocks'
  BY <1>2, <1>3, <1>4 DEF Given
<1>10. ASSUME NEW i \in DOMAIN blocks', blocks'[i].Used = 0,
              \A n \in BlockSizes \cup Requests : n <= blocks'[i].Size
       PROVE  i \in Ids(minHeap')
  <2>1. CASE i = id
    BY <1>2, <2>1 DEF Given
  <2>2. CASE i # id
    <3>1. i \in DOMAIN blocks /\ blocks'[i] = blocks[i]
      BY <1>4, <1>5, <2>2
    <3>2. i \in Ids(minHeap)
      BY <1>3, <1>10, <3>1 DEF MemInv, Memory!EmptyQueued
    <3>3. Memory!HasRoom(i, size)
      <4>1. size <= blocks[i].Size /\ blocks[i].Used = 0
        BY <1>10, <3>1
      <4>2. 0 + size = size
        BY <1>1
      <4>. QED
        BY <4>1, <4>2 DEF Memory!HasRoom
    <3>. QED
      BY <1>2, <3>2, <3>3 DEF Given
  <2>. QED
    BY <2>1, <2>2
<1>. QED
  BY <1>6, <1>8, <1>9, <1>10, HeapKept

\* Go's range over the map visits every id of S.
LEMMA SeqsList ==
    ASSUME NEW n \in Nat, NEW S \in SUBSET (1 .. n), NEW ids \in Memory!SetToSeqs(S)
    PROVE  ids \in Seq(Nat) /\ Ids(ids) = S
<1>. DEFINE D == 1 .. Cardinality(S)
<1>1. IsFiniteSet(S) /\ Cardinality(S) \in Nat
  <2>1. IsFiniteSet(1 .. n)
    BY FS_Interval
  <2>. QED
    BY <2>1, FS_Subset, FS_CardinalityType
<1>2. ids \in [D -> S] /\ \A i, j \in D : i # j => ids[i] # ids[j]
  <2>1. Memory!Cardinality(S) = Cardinality(S)
    BY Zenon DEF Memory!Cardinality, Cardinality, Memory!IsFiniteSet, IsFiniteSet
  <2>2. Memory!SetToSeqs(S) = {f \in [D -> S] : \A i, j \in D : i # j => f[i] # f[j]}
    BY <2>1, Zenon DEF Memory!SetToSeqs
  <2>. QED
    BY <2>2
<1>3. IsFiniteSet(D) /\ Cardinality(D) = Cardinality(S)
  <2>1. /\ Cardinality(S) \in Int /\ 1 \in Int
        /\ (1 > Cardinality(S) => Cardinality(S) = 0)
        /\ Cardinality(S) - 1 + 1 = Cardinality(S)
    BY <1>1
  <2>. QED
    BY <2>1, FS_Interval
<1>4. ids \in Injection(D, S)
  BY <1>2 DEF Injection, IsInjective
<1>5. ids \in Surjection(D, S)
  BY <1>1, <1>3, <1>4, FS_Injection
<1>6. ids \in Seq(S) /\ Len(ids) = Cardinality(S)
  BY <1>1, <1>2
<1>7. Ids(ids) \subseteq S
  BY <1>2, <1>6 DEF Ids
<1>8. S \subseteq Ids(ids)
  BY <1>5, <1>6 DEF Surjection, Ids
<1>9. ids \in Seq(Nat)
  <2>0. S \subseteq Nat
    OBVIOUS
  <2>. HIDE DEF D
  <2>1. \A i \in D : ids[i] \in Nat
    BY <1>2, <2>0
  <2>2. ids \in [D -> Nat]
    BY <1>2, <2>1
  <2>. QED
    BY <1>1, <2>2 DEF D
<1>. QED
  BY <1>7, <1>8, <1>9

\* A step that empties the blocks of S and pushes them.
LEMMA EmptyingKeeps ==
    ASSUME Memory!MemoryAssumption, MemInv, NEW S \in SUBSET DOMAIN blocks,
           blocks' = Memory!Emptied(S), UNCHANGED <<BlockSize, nextID, AllocCalls>>,
           minHeap' \in Seq(Nat), Ids(minHeap') = Ids(minHeap) \cup S
    PROVE  MemInv'
<1>1. /\ nextID \in Nat /\ minHeap \in Seq(Nat)
      /\ Ids(minHeap) \subseteq DOMAIN blocks /\ DOMAIN blocks \subseteq 1 .. nextID
      /\ Ids(minHeap) = Memory!Queued
  BY HeapSeq
<1>2. /\ DOMAIN blocks' = DOMAIN blocks
      /\ \A id \in DOMAIN blocks :
            blocks'[id] = IF id \in S THEN [blocks[id] EXCEPT !.Used = 0, !.OwnerPID = 0]
                          ELSE blocks[id]
  BY DEF Memory!Emptied
<1>3. ASSUME NEW id \in DOMAIN blocks
      PROVE  /\ blocks'[id] \in [Size : BlockSizes, Used : Nat, OwnerPID : Pids \cup {0}]
             /\ id \notin S => blocks'[id] = blocks[id]
  <2>1. blocks[id] \in [Size : BlockSizes, Used : Nat, OwnerPID : Pids \cup {0}]
    BY DEF MemInv, Memory!TypeOK
  <2>2. CASE id \in S
    <3>1. blocks'[id] = [Size |-> blocks[id].Size, Used |-> 0, OwnerPID |-> 0]
      BY <1>2, <2>1, <2>2
    <3>. QED
      BY <2>1, <2>2, <3>1
  <2>. QED
    BY <1>2, <2>1, <2>2
<1>4. /\ BlockSize' \in BlockSizes /\ nextID' \in 0 .. MaxAllocs
      /\ AllocCalls' \in 0 .. MaxAllocs /\ nextID' <= AllocCalls'
      /\ DOMAIN blocks' \subseteq 1 .. nextID'
  BY <1>1, <1>2 DEF MemInv, Counted, Memory!TypeOK
<1>5. \A id \in DOMAIN blocks' :
          /\ blocks'[id].Used = 0
          /\ \A n \in BlockSizes \cup Requests : n <= blocks'[id].Size
          => id \in Ids(minHeap')
  BY <1>1, <1>2, <1>3 DEF MemInv, Memory!EmptyQueued
<1>6. Ids(minHeap') \subseteq DOMAIN blocks'
  BY <1>1, <1>2
<1>. QED
  BY <1>2, <1>3, <1>4, <1>5, <1>6, HeapKept

LEMMA ReclaimKeeps ==
    ASSUME Memory!MemoryAssumption, MemInv, NEW pid, Memory!ReclaimTask(pid)
    PROVE  MemInv'
<1>. DEFINE S == {id \in DOMAIN blocks : blocks[id].OwnerPID = pid /\ blocks[id].Used > 0}
<1>1. /\ nextID \in Nat /\ minHeap \in Seq(Nat) /\ DOMAIN blocks \subseteq 1 .. nextID
  BY HeapSeq
<1>2. PICK ids \in Memory!SetToSeqs(S) :
          minHeap' = Memory!HeapPushAll(Memory!Emptied(S), minHeap, ids)
  BY DEF Memory!ReclaimTask
<1>3. blocks' = Memory!Emptied(S) /\ UNCHANGED <<BlockSize, nextID, AllocCalls>>
  BY DEF Memory!ReclaimTask
<1>4. S \in SUBSET DOMAIN blocks /\ S \in SUBSET (1 .. nextID)
  BY <1>1
<1>. HIDE DEF S
<1>5. ids \in Seq(Nat) /\ Ids(ids) = S
  BY <1>1, <1>4, SeqsList
<1>6. minHeap' \in Seq(Nat) /\ Ids(minHeap') = Ids(minHeap) \cup S
  BY <1>1, <1>2, <1>5, PushAllIs
<1>. QED
  BY <1>3, <1>4, <1>6, EmptyingKeeps

LEMMA DeleteKeeps ==
    ASSUME Memory!MemoryAssumption, MemInv, NEW id \in 1 .. nextID, Memory!Delete(id)
    PROVE  MemInv'
<1>1. nextID \in Nat /\ minHeap \in Seq(Nat)
  BY HeapSeq
<1>2. /\ id \in DOMAIN blocks /\ blocks' = Memory!Emptied({id})
      /\ minHeap' = Memory!HeapPush(Memory!Emptied({id}), minHeap, id)
      /\ UNCHANGED <<BlockSize, nextID, AllocCalls>>
  BY DEF Memory!Delete
<1>3. minHeap' \in Arrays(Len(minHeap) + 1, Ids(minHeap) \cup {id})
  BY <1>1, <1>2, PushIs
<1>4. minHeap' \in Seq(Nat) /\ Ids(minHeap') = Ids(minHeap) \cup {id}
  BY <1>3 DEF Arrays
<1>. QED
  BY <1>2, <1>4, EmptyingKeeps

\* A step that drops the empty blocks, whatever it does to the heap.
LEMMA DroppingKeeps ==
    ASSUME Memory!MemoryAssumption, MemInv,
           blocks' = [id \in Memory!Occupied |-> blocks[id]],
           UNCHANGED <<BlockSize, nextID, AllocCalls>>,
           minHeap' \in Seq(Nat), Ids(minHeap') \subseteq Memory!Occupied
    PROVE  MemInv'
<1>1. /\ DOMAIN blocks' = Memory!Occupied /\ Memory!Occupied \subseteq DOMAIN blocks
      /\ \A id \in Memory!Occupied : blocks'[id] = blocks[id] /\ blocks[id].Used > 0
  BY DEF Memory!Occupied
<1>2. /\ BlockSize' \in BlockSizes /\ nextID' \in 0 .. MaxAllocs
      /\ AllocCalls' \in 0 .. MaxAllocs /\ nextID' <= AllocCalls'
      /\ DOMAIN blocks' \subseteq 1 .. nextID'
  BY <1>1 DEF MemInv, Counted, Memory!TypeOK
<1>3. \A id \in DOMAIN blocks' :
          blocks'[id] \in [Size : BlockSizes, Used : Nat, OwnerPID : Pids \cup {0}]
  BY <1>1 DEF MemInv, Memory!TypeOK
<1>4. \A id \in DOMAIN blocks' : blocks'[id].Used # 0
  BY <1>1
<1>. QED
  BY <1>1, <1>2, <1>3, <1>4, HeapKept

LEMMA MemStep ==
    ASSUME Memory!MemoryAssumption, MemInv, Memory!Next
    PROVE  MemInv'
<1>1. ASSUME NEW size \in Requests, Memory!Alloc(size, 0)
      PROVE  MemInv'
  BY <1>1, AllocKeeps
<1>2. ASSUME NEW pid \in Pids \cup {0}, Memory!Alloc(BlockSize, pid)
      PROVE  MemInv'
  BY <1>2, AllocKeeps DEF MemInv, Memory!TypeOK
<1>3. ASSUME NEW pid \in Pids, Memory!ReclaimTask(pid)
      PROVE  MemInv'
  BY <1>3, ReclaimKeeps
<1>4. ASSUME NEW id \in 1 .. nextID, Memory!Delete(id)
      PROVE  MemInv'
  BY <1>4, DeleteKeeps
<1>5. CASE Memory!Compact
  <2>1. minHeap' = <<>> /\ Ids(<<>>) = {} /\ <<>> \in Seq(Nat)
    BY <1>5 DEF Memory!Compact, Ids
  <2>. QED
    BY <1>5, <2>1, DroppingKeeps DEF Memory!Compact
<1>6. CASE Memory!Clear
  <2>1. nextID \in Nat /\ Memory!Occupied \in SUBSET (1 .. nextID)
    BY HeapSeq DEF Memory!Occupied
  <2>2. PICK ids \in Memory!SetToSeqs(Memory!Occupied) :
            minHeap' = Memory!HeapPushAll(blocks, <<>>, ids)
    BY <1>6 DEF Memory!Clear
  <2>3. ids \in Seq(Nat) /\ Ids(ids) = Memory!Occupied
    BY <2>1, SeqsList
  <2>4. minHeap' \in Seq(Nat) /\ Ids(minHeap') = Memory!Occupied
    BY <2>2, <2>3, PushAllToNone
  <2>. QED
    BY <1>6, <2>4, DroppingKeeps DEF Memory!Clear
<1>7. ASSUME NEW n \in BlockSizes, Memory!SetBlock(n)
      PROVE  MemInv'
  BY <1>7 DEF Memory!SetBlock, MemInv, Counted, Memory!TypeOK, Memory!EntriesManaged,
             Memory!EmptyQueued, Memory!Queued
<1>. QED
  BY <1>1, <1>2, <1>3, <1>4, <1>5, <1>6, <1>7 DEF Memory!Next

LEMMA MemInit ==
    ASSUME Memory!MemoryAssumption, Memory!Init
    PROVE  MemInv
<1>1. nextID = 0 /\ AllocCalls = 0 /\ DOMAIN blocks = {} /\ minHeap = <<>>
  BY DEF Memory!Init
<1>2. minHeap \in Seq(1 .. nextID)
  BY <1>1
<1>3. Memory!Queued = {}
  <2>1. Ids(<<>>) = {} /\ <<>> \in Seq(Nat)
    BY DEF Ids
  <2>. QED
    BY <1>1, <2>1, QueuedIs DEF Memory!Queued
<1>. QED
  BY <1>1, <1>2, <1>3 DEF Memory!Init, Memory!MemoryAssumption, MemInv, Counted,
     Memory!TypeOK, Memory!EntriesManaged, Memory!EmptyQueued

LEMMA MemInvariant == ASSUME Memory!MemoryAssumption PROVE Memory!Spec => []MemInv
<1>1. Memory!Init => MemInv
  BY MemInit
<1>2. MemInv /\ [Memory!Next]_(Memory!vars) => MemInv'
  <2>. SUFFICES ASSUME MemInv, UNCHANGED Memory!vars PROVE MemInv'
    BY MemStep
  <2>. QED
    BY DEF Memory!vars, MemInv, Counted, Memory!TypeOK, Memory!EntriesManaged,
           Memory!EmptyQueued, Memory!Queued
<1>. QED
  BY <1>1, <1>2, PTL DEF Memory!Spec

\* The heap of MemoryManager (eval.go) names managed blocks only: Compact and Clear
\* drop blocks, ReclaimTask and Delete push some twice, and Alloc still hands out a
\* block of the map, for any number of allocations and any sizes.
LEMMA MemoryEntries ==
    ASSUME Memory!MemoryAssumption PROVE Memory!Spec => []Memory!EntriesManaged
<1>1. MemInv => Memory!EntriesManaged
  BY DEF MemInv
<1>. QED
  BY <1>1, MemInvariant, PTL

\* An empty block large enough for every request is in the heap ("linear reuse",
\* Delete): Alloc pops only blocks without room, and what empties a block pushes
\* it, however often the heap's order is wrong.
LEMMA MemoryEmpty ==
    ASSUME Memory!MemoryAssumption PROVE Memory!Spec => []Memory!EmptyQueued
<1>1. MemInv => Memory!EmptyQueued
  BY DEF MemInv
<1>. QED
  BY <1>1, MemInvariant, PTL

LEMMA AllocFits ==
    ASSUME Memory!MemoryAssumption, MemInv, Memory!UsedBounded, NEW size \in Nat,
           size <= BlockSize, NEW owner, Memory!Alloc(size, owner)
    PROVE  Memory!UsedBounded'
<1>1. PICK id \in Nat : Given(size, owner, id)
  BY AllocGives
<1>2. SUFFICES ASSUME NEW i \in DOMAIN blocks'
               PROVE  blocks'[i].Used <= blocks'[i].Size
  BY DEF Memory!UsedBounded
<1>3. i \in DOMAIN blocks \cup {id}
  BY <1>1 DEF Given
<1>4. CASE i # id
  BY <1>1, <1>3, <1>4 DEF Given, Memory!UsedBounded
<1>5. CASE i = id /\ id \in DOMAIN blocks
  <2>1. blocks[id] \in [Size : BlockSizes, Used : Nat, OwnerPID : Pids \cup {0}]
    BY <1>5 DEF MemInv, Memory!TypeOK
  <2>2. blocks'[id] = [blocks[id] EXCEPT !.Used = @ + size, !.OwnerPID = owner]
    BY <1>1, <1>5 DEF Given
  <2>3. blocks'[id].Used = blocks[id].Used + size /\ blocks'[id].Size = blocks[id].Size
    BY <2>1, <2>2
  <2>4. Memory!HasRoom(id, size)
    BY <1>1, <1>5 DEF Given
  <2>. QED
    BY <1>5, <2>3, <2>4 DEF Memory!HasRoom
<1>6. CASE i = id /\ id \notin DOMAIN blocks
  <2>1. blocks'[id] = [Size |-> BlockSize, Used |-> size, OwnerPID |-> owner]
    BY <1>1, <1>6 DEF Given
  <2>. QED
    BY <1>6, <2>1
<1>. QED
  BY <1>3, <1>4, <1>5, <1>6

LEMMA BoundKeeps ==
    ASSUME Memory!MemoryAssumption, Memory!RequestsFit, MemInv, Memory!UsedBounded,
           Memory!Next
    PROVE  Memory!UsedBounded'
<1>0. BlockSize \in BlockSizes /\ BlockSizes \subseteq Nat /\ Requests \subseteq Nat
  BY DEF MemInv, Memory!TypeOK, Memory!MemoryAssumption
<1>1. ASSUME NEW size \in Requests, Memory!Alloc(size, 0)
      PROVE  Memory!UsedBounded'
  <2>1. size \in Nat /\ size <= BlockSize
    BY <1>0 DEF Memory!RequestsFit
  <2>. QED
    BY <1>1, <2>1, AllocFits
<1>2. ASSUME NEW pid \in Pids \cup {0}, Memory!Alloc(BlockSize, pid)
      PROVE  Memory!UsedBounded'
  <2>1. BlockSize \in Nat /\ BlockSize <= BlockSize
    BY <1>0
  <2>. QED
    BY <1>2, <2>1, AllocFits
<1>3. ASSUME NEW S \in SUBSET DOMAIN blocks, blocks' = Memory!Emptied(S)
      PROVE  Memory!UsedBounded'
  <2>. SUFFICES ASSUME NEW id \in DOMAIN blocks'
                PROVE  blocks'[id].Used <= blocks'[id].Size
    BY DEF Memory!UsedBounded
  <2>1. /\ id \in DOMAIN blocks
        /\ blocks'[id] = IF id \in S THEN [blocks[id] EXCEPT !.Used = 0, !.OwnerPID = 0]
                         ELSE blocks[id]
    BY <1>3 DEF Memory!Emptied
  <2>2. blocks[id] \in [Size : BlockSizes, Used : Nat, OwnerPID : Pids \cup {0}]
    BY <2>1 DEF MemInv, Memory!TypeOK
  <2>3. blocks[id].Used <= blocks[id].Size /\ blocks[id].Size \in Nat
    BY <1>0, <2>1, <2>2 DEF Memory!UsedBounded
  <2>4. CASE id \in S
    <3>1. blocks'[id].Used = 0 /\ blocks'[id].Size = blocks[id].Size
      BY <2>1, <2>2, <2>4
    <3>. QED
      BY <2>3, <3>1
  <2>. QED
    BY <2>1, <2>3, <2>4
<1>4. ASSUME NEW pid \in Pids, Memory!ReclaimTask(pid)
      PROVE  Memory!UsedBounded'
  <2>. DEFINE S == {id \in DOMAIN blocks : blocks[id].OwnerPID = pid /\ blocks[id].Used > 0}
  <2>1. S \in SUBSET DOMAIN blocks /\ blocks' = Memory!Emptied(S)
    BY <1>4 DEF Memory!ReclaimTask
  <2>. HIDE DEF S
  <2>. QED
    BY <1>3, <2>1
<1>5. ASSUME NEW id \in 1 .. nextID, Memory!Delete(id)
      PROVE  Memory!UsedBounded'
  <2>1. {id} \in SUBSET DOMAIN blocks /\ blocks' = Memory!Emptied({id})
    BY <1>5 DEF Memory!Delete
  <2>. QED
    BY <1>3, <2>1
<1>6. CASE Memory!Compact \/ Memory!Clear
  <2>1. blocks' = [id \in Memory!Occupied |-> blocks[id]]
    BY <1>6 DEF Memory!Compact, Memory!Clear
  <2>. QED
    BY <2>1 DEF Memory!Occupied, Memory!UsedBounded
<1>7. ASSUME NEW n \in BlockSizes, Memory!SetBlock(n)
      PROVE  Memory!UsedBounded'
  BY <1>7 DEF Memory!SetBlock, Memory!UsedBounded
<1>. QED
  BY <1>1, <1>2, <1>4, <1>5, <1>6, <1>7 DEF Memory!Next

\* No block of MemoryManager holds more than its size, though memory.setBlock
\* changes the size of later blocks at any time: a request is compared with the
\* size of the block it would go to.  A request above the block size is given a
\* new block without that comparison, hence RequestsFit.
LEMMA MemoryBounded ==
    ASSUME Memory!MemoryAssumption, Memory!RequestsFit
    PROVE  Memory!Spec => []Memory!UsedBounded
<1>1. Memory!Init => Memory!UsedBounded
  BY DEF Memory!Init, Memory!UsedBounded
<1>2. MemInv /\ Memory!UsedBounded /\ [Memory!Next]_(Memory!vars) => Memory!UsedBounded'
  <2>. SUFFICES ASSUME MemInv, Memory!UsedBounded, UNCHANGED Memory!vars
                PROVE  Memory!UsedBounded'
    BY BoundKeeps
  <2>. QED
    BY DEF Memory!vars, Memory!UsedBounded
<1>. QED
  BY <1>1, <1>2, MemInvariant, PTL DEF Memory!Spec

-----------------------------------------------------------------------------
(* The parts together: a behaviour of MCParts is one of each part.          *)

LEMMA PartsMove ==
    Spec => Memory!Spec /\ Summing!Spec /\ Stress!Spec /\ Fixer!Spec
<1>1. Init => Memory!Init /\ Summing!Init /\ Stress!Init /\ Fixer!Init
  BY DEF Init
<1>2. [Next]_vars => /\ [Memory!Next]_(Memory!vars)
                     /\ [Summing!Next]_(Summing!vars)
                     /\ [Stress!Next]_(Stress!vars)
                     /\ [Fixer!Next]_(Fixer!vars)
  BY DEF Next, ContextStep, MemoryStep, SumStep, StressStep, FixerStep, vars,
         memoryVars, sumVars, stressVars, fixerVars,
         Memory!vars, Summing!vars, Stress!vars, Fixer!vars
<1>. QED
  BY <1>1, <1>2, PTL DEF Spec, Memory!Spec, Summing!Spec, Stress!Spec, Fixer!Spec

LEMMA ContextsMove == Spec => Contexts!Spec
<1>1. Init => Contexts!Init
  BY DEF Init, Pool!Init, Contexts!Init, Pool!Ctxs, Contexts!Ctxs,
         Pool!Goroutines, Contexts!Goroutines
<1>2. [Next]_vars => [Pool!Next]_(Pool!vars)
  BY DEF Next, ContextStep, MemoryStep, SumStep, StressStep, FixerStep, vars,
         poolVars, Pool!vars
<1>3. [Pool!Next]_(Pool!vars) => [Contexts!Next]_(Contexts!vars)
  <2>1. ASSUME NEW g \in Pool!Goroutines
        PROVE  /\ Pool!Call(g) => Contexts!Call(g)
               /\ Pool!Merge(g) => Contexts!Merge(g)
               /\ Pool!Load(g) => Contexts!Load(g)
               /\ Pool!ReadLink(g) => Contexts!ReadLink(g)
               /\ Pool!Take(g) => Contexts!Take(g)
               /\ Pool!Return(g) => Contexts!Return(g)
               /\ Pool!PutLoad(g) => Contexts!PutLoad(g)
               /\ Pool!PutSwap(g) => Contexts!PutSwap(g)
    <3>1. Pool!Call(g) => Contexts!Call(g)
      BY Zenon DEF Pool!Call, Contexts!Call, Pool!Goto, Contexts!Goto
    <3>2. Pool!Merge(g) => Contexts!Merge(g)
      <4>1. Pool!Merging = Contexts!Merging
        BY DEF Pool!Merging, Contexts!Merging, Pool!Goroutines, Contexts!Goroutines
      <4>2. Pool!Cardinality(Pool!Merging) = Contexts!Cardinality(Contexts!Merging)
        BY <4>1, Zenon DEF Pool!Cardinality, Contexts!Cardinality,
                           Pool!IsFiniteSet, Contexts!IsFiniteSet
      <4>. QED
        BY <4>2, Zenon DEF Pool!Merge, Contexts!Merge, Pool!Goto, Contexts!Goto
    <3>3. Pool!Load(g) => Contexts!Load(g)
      BY Zenon DEF Pool!Load, Contexts!Load, Pool!Goto, Contexts!Goto, Pool!Use, Contexts!Use
    <3>4. Pool!ReadLink(g) => Contexts!ReadLink(g)
      BY Zenon DEF Pool!ReadLink, Contexts!ReadLink, Pool!Goto, Contexts!Goto
    <3>5. Pool!Take(g) => Contexts!Take(g)
      BY Zenon DEF Pool!Take, Contexts!Take, Pool!Goto, Contexts!Goto, Pool!Use, Contexts!Use
    <3>6. Pool!Return(g) => Contexts!Return(g)
      BY Zenon DEF Pool!Return, Contexts!Return, Pool!Goto, Contexts!Goto
    <3>7. Pool!PutLoad(g) => Contexts!PutLoad(g)
      BY Zenon DEF Pool!PutLoad, Contexts!PutLoad, Pool!Goto, Contexts!Goto
    <3>8. Pool!PutSwap(g) => Contexts!PutSwap(g)
      BY Zenon DEF Pool!PutSwap, Contexts!PutSwap, Pool!Goto, Contexts!Goto
    <3>. QED
      BY <3>1, <3>2, <3>3, <3>4, <3>5, <3>6, <3>7, <3>8
  <2>. QED
    BY <2>1, Zenon DEF Pool!Next, Contexts!Next, Pool!vars, Contexts!vars,
                       Pool!Goroutines, Contexts!Goroutines
<1>. QED
  BY <1>1, <1>2, <1>3, PTL DEF Spec, Contexts!Spec

\* LintFixerProofs is about the fixer that moves: its operators are the same.
LEMMA SameReads ==
    /\ \A line : Fixing!ReadsOf(line) = Fixer!ReadsOf(line)
    /\ \A f : Fixing!Range(f) = Fixer!Range(f)
    /\ \A line : Fixing!Opens(line) = Fixer!Opens(line)
    /\ \A op : Fixing!Mark(op) = Fixer!Mark(op)
    /\ Fixing!Names = Fixer!Names
  BY DEF Fixing!ReadsOf, Fixer!ReadsOf, Fixing!Range, Fixer!Range, Fixing!Opens, Fixer!Opens,
         Fixing!Mark, Fixer!Mark, Fixing!Names, Fixer!Names

LEMMA SameBlocks ==
    ASSUME NEW src
    PROVE  /\ Fixing!BlockEnd(src) = Fixer!BlockEnd(src)
           /\ \A i : Fixing!CatchOf(src, i) = Fixer!CatchOf(src, i)
           /\ \A i : Fixing!CloseOf(src, i) = Fixer!CloseOf(src, i)
           /\ Fixing!Parses(src) = Fixer!Parses(src)
<1>1. Fixing!BlockEnd(src) = Fixer!BlockEnd(src)
  BY Zenon DEF Fixing!BlockEnd, Fixer!BlockEnd, Fixing!Opens, Fixer!Opens
<1>2. \A i : Fixing!CatchOf(src, i) = Fixer!CatchOf(src, i)
  BY <1>1, Zenon DEF Fixing!CatchOf, Fixer!CatchOf
<1>3. \A i : Fixing!CloseOf(src, i) = Fixer!CloseOf(src, i)
  BY <1>1, <1>2, Zenon DEF Fixing!CloseOf, Fixer!CloseOf
<1>4. Fixing!Parses(src) = Fixer!Parses(src)
  BY <1>2, <1>3 DEF Fixing!Parses, Fixer!Parses, Fixing!Opens, Fixer!Opens
<1>. QED
  BY <1>1, <1>2, <1>3, <1>4

LEMMA SameRun == ASSUME NEW src PROVE Fixing!Run(src) = Fixer!Run(src)
BY Zenon DEF Fixing!Run, Fixer!Run, Fixing!Exec, Fixer!Exec, Fixing!Fresh, Fixer!Fresh,
             Fixing!States, Fixer!States, Fixing!Cell, Fixer!Cell, Fixing!ValueOf, Fixer!ValueOf,
             Fixing!CloseOf, Fixer!CloseOf, Fixing!CatchOf, Fixer!CatchOf,
             Fixing!BlockEnd, Fixer!BlockEnd, Fixing!Opens, Fixer!Opens

LEMMA SamePass ==
    ASSUME NEW src
    PROVE  /\ Fixing!Deleted(src) = Fixer!Deleted(src)
           /\ Fixing!Replaced(src) = Fixer!Replaced(src)
           /\ Fixing!Fixed(src) = Fixer!Fixed(src)
BY Zenon
DEF Fixing!Deleted, Fixer!Deleted, Fixing!Replaced, Fixer!Replaced, Fixing!Fixed, Fixer!Fixed,
    Fixing!Corrected, Fixer!Corrected, Fixing!Mark, Fixer!Mark,
    Fixing!DeadStores, Fixer!DeadStores, Fixing!Visit, Fixer!Visit,
    Fixing!Assigned, Fixer!Assigned, Fixing!Tracked, Fixer!Tracked,
    Fixing!InLoop, Fixer!InLoop, Fixing!branch, Fixer!branch, Fixing!Used, Fixer!Used,
    Fixing!Names, Fixer!Names, Fixing!Range, Fixer!Range, Fixing!ReadsOf, Fixer!ReadsOf,
    Fixing!CloseOf, Fixer!CloseOf, Fixing!CatchOf, Fixer!CatchOf,
    Fixing!BlockEnd, Fixer!BlockEnd, Fixing!Opens, Fixer!Opens,
    Fixing!ReadCount, Fixer!ReadCount, Fixing!FoldLeft, Fixer!FoldLeft,
    Fixing!MapThenFoldSet, Fixer!MapThenFoldSet, Fixing!Max, Fixer!Max

LEMMA FixerMoves == Spec => Fixing!Spec
<1>1. Init => Fixing!Init
  BY DEF Init, Fixer!Init, Fixing!Init, Fixer!Decl, Fixing!Decl
<1>2. Fixing!Innermost = Fixer!Innermost /\ Fixing!Caught = Fixer!Caught
  <2>1. Fixing!Open = Fixer!Open
    BY SameBlocks, SameReads, Zenon DEF Fixing!Open, Fixer!Open
  <2>2. \A S : Fixing!Max(S) = Fixer!Max(S)
    BY Zenon DEF Fixing!Max, Fixer!Max
  <2>. QED
    BY <2>1, <2>2, SameBlocks, SameReads, Zenon
    DEF Fixing!Innermost, Fixer!Innermost, Fixing!Caught, Fixer!Caught
<1>3. Fixer!WriteLine => Fixing!WriteLine
  BY <1>2, Zenon DEF Fixer!WriteLine, Fixing!WriteLine, Fixer!Ref, Fixing!Ref
<1>4. Fixer!StartFix => Fixing!StartFix
  BY SameBlocks, Zenon DEF Fixer!StartFix, Fixing!StartFix
<1>5. Fixer!FixPass => Fixing!FixPass
  BY SamePass, Zenon DEF Fixer!FixPass, Fixing!FixPass
<1>6. [Fixer!Next]_(Fixer!vars) => [Fixing!Next]_(Fixing!vars)
  BY <1>3, <1>4, <1>5 DEF Fixer!Next, Fixing!Next, Fixer!vars, Fixing!vars
<1>. QED
  BY <1>1, <1>6, PartsMove, PTL DEF Spec, Fixer!Spec, Fixing!Spec

LEMMA FixerAssumed == Fixing!FixerAssumption
<1>1. Fixer!FixerAssumption
  BY PartsAssumption
<1>2. Fixing!Statements = Fixer!Statements
  BY
  DEF Fixing!Statements, Fixer!Statements,
      Fixing!Set, Fixer!Set, Fixing!Say, Fixer!Say, Fixing!Compare, Fixer!Compare,
      Fixing!If, Fixer!If, Fixing!Ref, Fixer!Ref, Fixing!Mark, Fixer!Mark,
      Fixing!Names, Fixer!Names
<1>. QED
  BY <1>1, <1>2 DEF Fixing!FixerAssumption, Fixer!FixerAssumption

LEMMA FixerTypes == Spec => []Fixer!TypeOK
<1>1. Fixing!TypeOK => Fixer!TypeOK
  BY DEF Fixing!TypeOK, Fixer!TypeOK, Fixing!Decl, Fixer!Decl, Fixing!Mark, Fixer!Mark
<1>. QED
  BY <1>1, FixerAssumed, FixerMoves, Fixing!FixerTypes, PTL

\* The corrections of qkcheck -fix (fixFile, cmd/qkcheck/main.go) keep what a program
\* prints through all the passes, for programs of any length written with any of the
\* lines there are: LintFixerProofs!CorrectionsKeepRun for the run's specification.
THEOREM FixesKeepRun == Spec => []FixKeepsRun
<1>1. Fixing!FixKeepsRun => FixKeepsRun
  BY SameRun, Zenon DEF Fixing!FixKeepsRun, FixKeepsRun, Fixer!FixKeepsRun
<1>. QED
  BY <1>1, FixerAssumed, FixerMoves, Fixing!CorrectionsKeepRun, PTL

\* With main and one goroutine a context serves one call (newCtx and putCtx,
\* value.go): CtxPoolProofs!OneUserOfTwo for the run's specification.
THEOREM ContextsServeOne == ASSUME MaxRuns <= 1 PROVE Spec => []OneUser
<1>1. Contexts!TwoGoroutines
  BY PartsAssumption
  DEF Contexts!TwoGoroutines, Contexts!PoolAssumption, Pool!PoolAssumption,
      Contexts!Ctxs, Pool!Ctxs
<1>2. Contexts!OneUser => OneUser
  BY Zenon DEF Contexts!OneUser, OneUser, Pool!OneUser, Contexts!Goroutines, Pool!Goroutines
<1>. QED
  BY <1>1, <1>2, ContextsMove, Contexts!OneUserOfTwo, PTL

\* The sum returned is the one a loop would add up, whichever way it was
\* computed (sumBuiltin and detectPeriod, eval.go), for every set of points, every
\* int generator on them, every stop and step, and every bound on periods.
THEOREM SumsAreLoops == Spec => []SumIsLoop
<1>1. Summing!SumIsLoop => SumIsLoop
  BY DEF SumIsLoop
<1>2. Summing!SumAssumption
  BY PartsAssumption
<1>. QED
  BY <1>1, <1>2, PartsMove, SumLoops, PTL

\* A phase whose child was killed or given up never passes for one that ended by
\* itself (runBounded and verdictOf, cmd/qkstress).
THEOREM KilledAreLoud == Spec => []KilledIsLoud
<1>1. Stress!KilledIsLoud => KilledIsLoud
  BY DEF KilledIsLoud
<1>2. Stress!StressAssumption
  BY PartsAssumption
<1>. QED
  BY <1>1, <1>2, PartsMove, StressLoud, PTL

\* The heap of the memory manager names managed blocks only (Alloc, Delete,
\* ReclaimTask, Compact of eval.go), whatever blocks are dropped.
THEOREM EntriesStayManaged == Spec => []EntriesManaged
<1>1. Memory!EntriesManaged => EntriesManaged
  BY DEF EntriesManaged
<1>2. Memory!MemoryAssumption
  BY PartsAssumption
<1>. QED
  BY <1>1, <1>2, PartsMove, MemoryEntries, PTL

\* An empty block large enough for every request is in that heap, where a later
\* Alloc finds it.
THEOREM EmptyStayQueued == Spec => []EmptyQueued
<1>1. Memory!EmptyQueued => EmptyQueued
  BY DEF EmptyQueued
<1>2. Memory!MemoryAssumption
  BY PartsAssumption
<1>. QED
  BY <1>1, <1>2, PartsMove, MemoryEmpty, PTL

\* No block holds more than its size, when no request exceeds a block size.
THEOREM UseStaysBounded == ASSUME Memory!RequestsFit PROVE Spec => []UsedBounded
<1>1. Memory!UsedBounded => UsedBounded
  BY DEF UsedBounded
<1>2. Memory!MemoryAssumption
  BY PartsAssumption
<1>. QED
  BY <1>1, <1>2, PartsMove, MemoryBounded, PTL

\* The variables of the parts (MemoryManager and sumBuiltin, eval.go; runCase and
\* runBounded, cmd/qkstress; fixFile, cmd/qkcheck) keep their types: ids stay below
\* the number of allocations, sums are ints, a child is where its supervisor can
\* leave it, a corrected program has lines of the original and literals.
THEOREM PartsTypesCorrect == Spec => []PartsTyped
<1>1. MemInv /\ SumInv /\ StressInv /\ Fixer!TypeOK => PartsTyped
  BY DEF MemInv, SumInv, StressInv, PartsTyped
<1>2. Memory!MemoryAssumption /\ Summing!SumAssumption /\ Stress!StressAssumption
  BY PartsAssumption
<1>. QED
  BY <1>1, <1>2, PartsMove, MemInvariant, SumInvariant, StressInvariant, FixerTypes, PTL
=============================================================================

----------------------------- MODULE DataLemmas -----------------------------
(***************************************************************************)
(* What the proofs need to know of naturals, circular buffers and sums:    *)
(* induction, the arithmetic of indices modulo c, and what a sum over a    *)
(* finite set does when one value changes or some are taken away.          *)
(***************************************************************************)
EXTENDS Integers, Sums, FiniteSetTheorems, WellFoundedInduction, TLAPS

-----------------------------------------------------------------------------
(* Induction.                                                               *)

\* Induction over the naturals, about a set instead of a predicate: to prove P
\* of every n, S is {n \in Nat : P(n)}.  From the library's theorem that every
\* set of naturals has a least element.
LEMMA Induction ==
    ASSUME NEW S \in SUBSET Nat, 0 \in S, \A n \in S : n + 1 \in S
    PROVE  S = Nat
<1>. DEFINE R == OpToRel(<, Nat)
            T == Nat \ S
<1>1. IsWellFoundedOn(R, Nat)
  BY NatLessThanWellFounded
<1>2. \A x, y \in Nat : x < y => <<x, y>> \in R
  BY DEF OpToRel
<1>. HIDE DEF R
<1>. SUFFICES ASSUME T # {} PROVE FALSE
  OBVIOUS
<1>3. PICK x \in T : \A y \in T : ~ (<<y, x>> \in R)
  <2>1. T \subseteq Nat
    OBVIOUS
  <2>. HIDE DEF T
  <2>. QED
    BY <1>1, <2>1, WFMin, Zenon
<1>4. x \in Nat /\ x # 0
  BY <1>3
<1>5. x - 1 \in Nat /\ x - 1 < x
  BY <1>4
<1>6. x - 1 \notin T
  BY <1>2, <1>3, <1>4, <1>5
<1>7. x - 1 \in S
  BY <1>5, <1>6
<1>8. (x - 1) + 1 \in S
  BY <1>7
<1>. QED
  BY <1>3, <1>4, <1>8

-----------------------------------------------------------------------------
(* A circular buffer of c cells.                                            *)

\* An index wraps at most once: the sum of two positions of the buffer.
LEMMA Wrap ==
    ASSUME NEW c \in Nat \ {0}, NEW a \in 0 .. c - 1, NEW b \in 0 .. c
    PROVE  /\ (a + b) % c = IF a + b < c THEN a + b ELSE a + b - c
           /\ (a + b) % c \in 0 .. c - 1
<1>1. CASE a + b < c
  BY <1>1
<1>2. CASE ~(a + b < c)
  <2>1. a + b - c \in 0 .. c - 1
    BY <1>2
  <2>2. (a + b) % c = a + b - c
    BY <1>2, <2>1
  <2>. QED
    BY <1>2, <2>1, <2>2
<1>. QED
  BY <1>1, <1>2

\* (a + b) cells after a position, one at a time or at once, is the same cell.
LEMMA WrapStep ==
    ASSUME NEW c \in Nat \ {0}, NEW a \in 0 .. c - 1, NEW b \in 0 .. c - 1
    PROVE  (((a + 1) % c) + b) % c = (a + b + 1) % c
<1>1. CASE a + 1 < c
  <2>1. (a + 1) % c = a + 1
    BY <1>1
  <2>. QED
    BY <2>1
<1>2. CASE ~(a + 1 < c)
  <2>1. /\ a + 1 = c
        /\ (a + 1) % c = 0
    BY <1>2, Wrap
  <2>2. b % c = b
    OBVIOUS
  <2>3. (a + b + 1) % c = b
    <3>1. a + b + 1 = c + b
      BY <2>1
    <3>2. (c + b) % c = b
      OBVIOUS
    <3>. QED
      BY <3>1, <3>2
  <2>. QED
    BY <2>1, <2>2, <2>3
<1>. QED
  BY <1>1, <1>2

\* One cell after b cells after a position.
LEMMA WrapNext ==
    ASSUME NEW c \in Nat \ {0}, NEW a \in 0 .. c - 1, NEW b \in 0 .. c - 1
    PROVE  (((a + b) % c) + 1) % c = (a + (b + 1)) % c
<1>1. b \in 0 .. c /\ b + 1 \in 0 .. c
  OBVIOUS
<1>2. (a + (b + 1)) % c = IF a + (b + 1) < c THEN a + (b + 1) ELSE a + (b + 1) - c
  BY <1>1, Wrap
<1>3. CASE a + b < c
  <2>1. (a + b) % c = a + b
    BY <1>1, <1>3, Wrap
  <2>2. (a + b) + 1 = a + (b + 1)
    OBVIOUS
  <2>. QED
    BY <2>1, <2>2
<1>4. CASE ~(a + b < c)
  <2>1. (a + b) % c = a + b - c
    BY <1>1, <1>4, Wrap
  <2>2. (a + b - c) + 1 \in 0 .. c - 1
    BY <1>4
  <2>3. ((a + b - c) + 1) % c = (a + b - c) + 1
    BY <2>2
  <2>. QED
    BY <1>2, <1>4, <2>1, <2>3
<1>. QED
  BY <1>3, <1>4

\* Two different cells of the window of c positions after a are different.
LEMMA WrapInjective ==
    ASSUME NEW c \in Nat \ {0}, NEW a \in 0 .. c - 1,
           NEW i \in 0 .. c - 1, NEW j \in 0 .. c - 1, i # j
    PROVE  (a + i) % c # (a + j) % c
<1>1. i \in 0 .. c /\ j \in 0 .. c
  OBVIOUS
<1>2. (a + i) % c = IF a + i < c THEN a + i ELSE a + i - c
  BY <1>1, Wrap
<1>3. (a + j) % c = IF a + j < c THEN a + j ELSE a + j - c
  BY <1>1, Wrap
<1>. QED
  BY <1>2, <1>3

-----------------------------------------------------------------------------
(* Sums over finite sets.                                                   *)

\* The value of f at x in a sum: nothing where f is not defined.
At(f, x) == IF x \in DOMAIN f THEN f[x] ELSE 0

LEMMA UnitsFinite ==
    ASSUME NEW S, IsFiniteSet(S), NEW f \in [S -> Nat]
    PROVE  IsFiniteSet(Units(f))
<1>. DEFINE part == [x \in S |-> {x} \X (1 .. f[x])]
            parts == {part[x] : x \in S}
<1>1. IsFiniteSet(parts)
  <2>1. part \in Surjection(S, parts)
    BY DEF Surjection
  <2>. QED
    BY <2>1, FS_Surjection
<1>2. ASSUME NEW x \in S
      PROVE  IsFiniteSet(part[x])
  <2>1. IsFiniteSet(1 .. f[x])
    BY FS_Interval
  <2>2. IsFiniteSet({x})
    BY FS_Singleton
  <2>. QED
    BY <2>1, <2>2, FS_Product
<1>3. Units(f) = UNION parts
  BY DEF Units
<1>4. \A p \in parts : IsFiniteSet(p)
  BY <1>2
<1>. HIDE DEF parts
<1>. QED
  BY <1>1, <1>3, <1>4, FS_UNION

LEMMA SumType ==
    ASSUME NEW S, IsFiniteSet(S), NEW f \in [S -> Nat]
    PROVE  SumOf(f) \in Nat
BY UnitsFinite, FS_CardinalityType DEF SumOf

LEMMA SumEmpty == ASSUME NEW f \in [{} -> Nat] PROVE SumOf(f) = 0
<1>1. Units(f) = {}
  BY DEF Units
<1>. QED
  BY <1>1, FS_EmptySet DEF SumOf

LEMMA SumSingle ==
    ASSUME NEW a, NEW f \in [{a} -> Nat]
    PROVE  SumOf(f) = f[a]
<1>1. Units(f) = {a} \X (1 .. f[a])
  BY DEF Units
<1>2. IsFiniteSet(1 .. f[a]) /\ Cardinality(1 .. f[a]) = f[a]
  <2>1. f[a] \in Int /\ 1 \in Int /\ (1 > f[a] => f[a] = 0) /\ f[a] - 1 + 1 = f[a]
    OBVIOUS
  <2>. QED
    BY <2>1, FS_Interval
<1>3. IsFiniteSet({a}) /\ Cardinality({a}) = 1
  BY FS_Singleton
<1>4. Cardinality({a} \X (1 .. f[a])) = 1 * f[a]
  BY <1>2, <1>3, FS_Product
<1>. QED
  BY <1>1, <1>4 DEF SumOf

\* A sum over a set is the sum over a part of it and over the rest.
LEMMA SumSplit ==
    ASSUME NEW S, IsFiniteSet(S), NEW f \in [S -> Nat], NEW T \in SUBSET S
    PROVE  SumOf(f) = SumOf([x \in T |-> f[x]]) + SumOf([x \in S \ T |-> f[x]])
<1>. DEFINE g == [x \in T |-> f[x]]
            h == [x \in S \ T |-> f[x]]
<1>1. Units(f) = Units(g) \cup Units(h) /\ Units(g) \cap Units(h) = {}
  BY DEF Units
<1>2. IsFiniteSet(T) /\ IsFiniteSet(S \ T)
  BY FS_Subset, FS_Difference
<1>3. g \in [T -> Nat] /\ h \in [S \ T -> Nat]
  OBVIOUS
<1>. HIDE DEF g, h
<1>4. IsFiniteSet(Units(g)) /\ IsFiniteSet(Units(h))
  BY <1>2, <1>3, UnitsFinite
<1>5. Cardinality(Units(f)) = Cardinality(Units(g)) + Cardinality(Units(h)) - 0
  BY <1>1, <1>4, FS_Union, FS_EmptySet
<1>6. Cardinality(Units(g)) \in Nat /\ Cardinality(Units(h)) \in Nat
  BY <1>4, FS_CardinalityType
<1>. QED
  BY <1>5, <1>6 DEF SumOf, g, h

\* Taking one value out of a sum.
LEMMA SumWithout ==
    ASSUME NEW S, IsFiniteSet(S), NEW f \in [S -> Nat], NEW a
    PROVE  SumOf(f) = SumOf([x \in S \ {a} |-> f[x]]) + At(f, a)
<1>1. CASE a \in S
  <2>1. SumOf(f) = SumOf([x \in {a} |-> f[x]]) + SumOf([x \in S \ {a} |-> f[x]])
    BY <1>1, SumSplit
  <2>2. SumOf([x \in {a} |-> f[x]]) = f[a] /\ f[a] \in Nat
    <3>1. [x \in {a} |-> f[x]] \in [{a} -> Nat]
      BY <1>1
    <3>. QED
      BY <1>1, <3>1, SumSingle
  <2>3. SumOf([x \in S \ {a} |-> f[x]]) \in Nat
    <3>1. IsFiniteSet(S \ {a}) /\ [x \in S \ {a} |-> f[x]] \in [S \ {a} -> Nat]
      BY FS_RemoveElement
    <3>. QED
      BY <3>1, SumType
  <2>. QED
    BY <1>1, <2>1, <2>2, <2>3 DEF At
<1>2. CASE a \notin S
  <2>1. S \ {a} = S /\ [x \in S |-> f[x]] = f
    BY <1>2
  <2>2. SumOf(f) \in Nat
    BY SumType
  <2>. QED
    BY <1>2, <2>1, <2>2 DEF At
<1>. QED
  BY <1>1, <1>2

\* Two functions that agree but at one place: their sums differ by what they are there.
LEMMA SumUpdate ==
    ASSUME NEW S, IsFiniteSet(S), NEW f \in [S -> Nat],
           NEW T, IsFiniteSet(T), NEW g \in [T -> Nat], NEW a,
           \A x : x # a => ((x \in S <=> x \in T) /\ (x \in S => f[x] = g[x]))
    PROVE  /\ SumOf(f) \in Nat /\ SumOf(g) \in Nat
           /\ SumOf(g) + At(f, a) = SumOf(f) + At(g, a)
<1>. DEFINE rest == [x \in S \ {a} |-> f[x]]
<1>1. rest = [x \in T \ {a} |-> g[x]]
  <2>1. S \ {a} = T \ {a}
    OBVIOUS
  <2>. QED
    BY <2>1
<1>2. SumOf(f) = SumOf(rest) + At(f, a)
  BY SumWithout
<1>3. SumOf(g) = SumOf(rest) + At(g, a)
  BY <1>1, SumWithout
<1>4. At(f, a) \in Nat /\ At(g, a) \in Nat
  BY DEF At
<1>5. SumOf(rest) \in Nat
  <2>1. IsFiniteSet(S \ {a}) /\ rest \in [S \ {a} -> Nat]
    BY FS_RemoveElement
  <2>. QED
    BY <2>1, SumType
<1>. HIDE DEF rest
<1>. QED
  BY <1>2, <1>3, <1>4, <1>5

\* The same of sizes of sets.
LEMMA CardUpdate ==
    ASSUME NEW S, IsFiniteSet(S), NEW T, IsFiniteSet(T), NEW a,
           \A x : x # a => (x \in S <=> x \in T)
    PROVE  /\ Cardinality(S) \in Nat /\ Cardinality(T) \in Nat
           /\ Cardinality(T) + (IF a \in S THEN 1 ELSE 0)
                = Cardinality(S) + (IF a \in T THEN 1 ELSE 0)
<1>1. S \ {a} = T \ {a}
  OBVIOUS
<1>2. /\ Cardinality(S) \in Nat /\ Cardinality(T) \in Nat
      /\ Cardinality(S \ {a}) = IF a \in S THEN Cardinality(S) - 1 ELSE Cardinality(S)
      /\ Cardinality(T \ {a}) = IF a \in T THEN Cardinality(T) - 1 ELSE Cardinality(T)
  BY FS_RemoveElement, FS_CardinalityType
<1>. QED
  BY <1>1, <1>2
=============================================================================

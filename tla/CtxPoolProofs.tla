---------------------------- MODULE CtxPoolProofs ----------------------------
(***************************************************************************)
(* Proofs about CtxPool: with main and one goroutine besides, a context    *)
(* serves one call.  With two the property is false (run ctx_two_threads), *)
(* so the proof has to say what a second goroutine cannot do: put the      *)
(* context it took back below those it took after it.                      *)
(***************************************************************************)
EXTENDS CtxPool, FiniteSetTheorems, TLAPS

TwoGoroutines == PoolAssumption /\ MaxRuns <= 1

-----------------------------------------------------------------------------
(* The invariant.                                                           *)

Putting(g) == pc[g] \in {"put", "swap"}
Poised(g) == pc[g] \in {"link", "take"}

\* The contexts a goroutine has: those of its calls, and the one it puts back.
Held(g) == IF Putting(g) THEN Append(stack[g], ctx[g]) ELSE stack[g]

Holds(g, c) == \E i \in 1 .. Len(Held(g)) : Held(g)[i] = c
Free(c) == c \in 1 .. made /\ \A g \in Goroutines : ~Holds(g, c)

\* What g had to take next after its i-th context, or has to put back before it.
Above(g, i) == IF i < Len(Held(g)) THEN Held(g)[i + 1] ELSE ctxHead

\* A free context no chain leads to: a swap with an old link dropped it.
Lost(c) ==
    /\ Free(c) /\ c # ctxHead
    /\ \A d \in Ctxs : Free(d) => link[d] # c

TypeOK ==
    /\ ctxHead \in Ctxs \cup {NULL}
    /\ link \in [Ctxs -> Ctxs \cup {NULL}]
    /\ made \in Ctxs
    /\ runs \in 0 .. MaxRuns
    /\ stack \in [Goroutines -> Seq(Ctxs)]
    /\ pc \in [Goroutines ->
                 {"absent", "code", "load", "link", "take", "put", "swap"}]
    /\ want \in [Goroutines -> {"call", "merge"}]
    /\ h \in [Goroutines -> Ctxs \cup {NULL}]
    /\ next \in [Goroutines -> Ctxs \cup {NULL}]
    /\ ctx \in [Goroutines -> Ctxs \cup {NULL}]

\* What each place of the code implies about the goroutine that is there.
Places ==
    \A g \in Goroutines :
        /\ pc[g] = "absent" <=> g > runs
        /\ pc[g] = "absent" => stack[g] = <<>>
        /\ Putting(g) => ctx[g] \in Ctxs
        /\ Poised(g) => h[g] \in 1 .. made /\ ~Holds(g, h[g])
        /\ g \in Merging => runs = 0 /\ MaxRuns = 1

\* No two places hold the same context.
Apart ==
    \A g, k \in Goroutines :
        \A i \in 1 .. Len(Held(g)), j \in 1 .. Len(Held(k)) :
            Held(g)[i] = Held(k)[j] => g = k /\ i = j

\* Contexts are made in order; those of calls have no link, and a context about
\* to be swapped in has the one its goroutine loaded.
Links ==
    /\ \A g \in Goroutines : \A i \in 1 .. Len(Held(g)) : Held(g)[i] \in 1 .. made
    /\ \A c \in Ctxs : c > made => link[c] = NULL
    /\ \A g \in Goroutines : \A i \in 1 .. Len(stack[g]) : link[stack[g][i]] = NULL
    /\ \A g \in Goroutines : pc[g] = "swap" => link[ctx[g]] = h[g]

\* The free contexts form chains, of which one starts at the head.
Chain ==
    /\ ctxHead # NULL => Free(ctxHead)
    /\ \A c \in Ctxs : Free(c) /\ link[c] # NULL =>
          Free(link[c]) /\ link[c] # c /\ link[c] # ctxHead
    /\ \A c, d \in Ctxs :
          Free(c) /\ Free(d) /\ link[c] = link[d] /\ link[c] # NULL => c = d

\* Nothing moves the head between the load and the swap of a goroutine that puts
\* back what another is poised to take.
Undisturbed ==
    \A g, k \in Goroutines :
        pc[g] = "link" /\ Putting(k) /\ ctx[k] = h[g] =>
            IF pc[k] = "put" THEN link[h[g]] = NULL ELSE h[k] = ctxHead

\* The link a goroutine read still is the successor of the head it loaded, in the
\* order in which contexts are taken and put back, or is reachable by nobody.
Fresh(g) ==
    LET H == h[g]
        X == next[g]
    IN  /\ X # H
        /\ Free(H) =>
              /\ Free(X) /\ X # ctxHead
              /\ \A c \in Ctxs : Free(c) /\ link[c] = X => c = H
        /\ \A k \in Goroutines : \A i \in 1 .. Len(Held(k)) :
              Held(k)[i] = H => Above(k, i) = X \/ Lost(X)
        /\ \A k \in Goroutines : pc[k] = "take" /\ next[k] = X => h[k] = H

AllFresh == \A g \in Goroutines : pc[g] = "take" /\ next[g] # NULL => Fresh(g)

PInv == TypeOK /\ Places /\ Apart /\ Links /\ Chain /\ Undisturbed /\ AllFresh

-----------------------------------------------------------------------------
(* What a move does to the contexts held.                                   *)

\* Of two goroutines, whoever is not x is the other one.
LEMMA TheOther ==
    ASSUME TwoGoroutines
    PROVE  \A x, g, k \in Goroutines : g # x /\ k # x => k = g
BY DEF TwoGoroutines, PoolAssumption, Goroutines

LEMMA HeldSeq ==
    ASSUME TypeOK, Places
    PROVE  \A g \in Goroutines : Held(g) \in Seq(Ctxs) /\ stack[g] \in Seq(Ctxs)
BY DEF TypeOK, Places, Held

LEMMA PuttingHolds ==
    ASSUME TypeOK, Places, NEW g \in Goroutines, Putting(g)
    PROVE  /\ ctx[g] \in Ctxs /\ Holds(g, ctx[g])
           /\ Len(Held(g)) = Len(stack[g]) + 1 /\ Len(stack[g]) \in Nat
           /\ Held(g)[Len(stack[g]) + 1] = ctx[g]
           /\ \A i \in 1 .. Len(stack[g]) : Held(g)[i] = stack[g][i]
<1>1. stack[g] \in Seq(Ctxs) /\ ctx[g] \in Ctxs /\ Held(g) = Append(stack[g], ctx[g])
  BY HeldSeq DEF Held, Places
<1>2. /\ Len(Held(g)) = Len(stack[g]) + 1 /\ Len(stack[g]) \in Nat
      /\ Held(g)[Len(stack[g]) + 1] = ctx[g]
      /\ \A i \in 1 .. Len(stack[g]) : Held(g)[i] = stack[g][i]
  BY <1>1
<1>. QED
  BY <1>1, <1>2 DEF Holds

SameHeld == \A k \in Goroutines : Held(k)' = Held(k)

\* A context changes hands only if what is held changes.
LEMMA SameFree ==
    ASSUME SameHeld, made' = made
    PROVE  /\ \A k \in Goroutines : \A c : Holds(k, c)' <=> Holds(k, c)
           /\ \A c : Free(c)' <=> Free(c)
<1>1. \A k \in Goroutines : \A c : Holds(k, c)' <=> Holds(k, c)
  BY DEF SameHeld, Holds
<1>. QED
  BY <1>1 DEF Free

\* The context c goes to r, on top of what r has: r is the goroutine g that took
\* it, or the one that g starts.
Grabbed(g, r, c) ==
    /\ r \in Goroutines /\ ~Putting(r)
    /\ stack' = [stack EXCEPT ![r] = Append(stack[r], c)]
    /\ \A k \in Goroutines : Held(k)' = IF k = r THEN Append(Held(r), c) ELSE Held(k)
    /\ pc' = [k \in Goroutines |-> IF k \in {g, r} THEN "code" ELSE pc[k]]
    /\ \/ r = g /\ runs' = runs
       \/ r # g /\ r = runs + 1 /\ runs' = runs + 1 /\ pc[r] = "absent" /\ stack[r] = <<>>

LEMMA UseGrabs ==
    ASSUME TwoGoroutines, TypeOK, Places, NEW g \in Goroutines, NEW c \in Ctxs,
           pc[g] \in {"load", "take"}, Use(g, c), UNCHANGED ctx
    PROVE  \E r \in Goroutines : Grabbed(g, r, c)
<1>1. CASE want[g] = "call"
  <2>1. stack' = [stack EXCEPT ![g] = Append(stack[g], c)] /\ runs' = runs
    BY <1>1 DEF Use
  <2>2. pc' = [pc EXCEPT ![g] = "code"]
    BY <1>1 DEF Use, Goto
  <2>3. pc' = [k \in Goroutines |-> IF k \in {g, g} THEN "code" ELSE pc[k]]
    BY <2>2 DEF TypeOK
  <2>4. ~Putting(g)
    BY DEF Putting
  <2>5. ASSUME NEW k \in Goroutines
        PROVE  Held(k)' = IF k = g THEN Append(Held(g), c) ELSE Held(k)
    BY <2>1, <2>3, <2>4 DEF Held, Putting, TypeOK
  <2>. QED
    BY <2>1, <2>3, <2>4, <2>5 DEF Grabbed
<1>2. CASE want[g] = "merge"
  <2>. DEFINE r == runs + 1
  <2>1. g \in Merging /\ runs = 0 /\ MaxRuns = 1
    BY <1>2 DEF Merging, Places, TypeOK
  <2>2. r = 1 /\ r \in Goroutines /\ g = 0 /\ r # g
    BY <2>1 DEF Goroutines, Places, TypeOK
  <2>3. pc[r] = "absent" /\ stack[r] = <<>> /\ ~Putting(r) /\ Held(r) = <<>>
    BY <2>1, <2>2 DEF Places, Putting, Held
  <2>4. /\ stack' = [stack EXCEPT ![r] = <<c>>] /\ runs' = r
        /\ pc' = [pc EXCEPT ![g] = "code", ![r] = "code"]
    BY <1>2, <2>2 DEF Use
  <2>5. Append(stack[r], c) = <<c>> /\ Append(Held(r), c) = <<c>>
    <3>1. Append(<<>>, c) = <<c>>
      OBVIOUS
    <3>. QED
      BY <2>3, <3>1
  <2>. HIDE DEF r
  <2>6. pc' = [k \in Goroutines |-> IF k \in {g, r} THEN "code" ELSE pc[k]]
    BY <2>4 DEF TypeOK
  <2>7. ASSUME NEW k \in Goroutines
        PROVE  Held(k)' = IF k = r THEN Append(Held(r), c) ELSE Held(k)
    BY <2>2, <2>3, <2>4, <2>5, <2>6 DEF Held, Putting, TypeOK
  <2>. QED
    BY <2>2, <2>3, <2>4, <2>5, <2>6, <2>7 DEF Grabbed, r
<1>. QED
  BY <1>1, <1>2 DEF TypeOK

LEMMA GrabHolds ==
    ASSUME TypeOK, Places, NEW g, NEW r, NEW c \in Ctxs, Grabbed(g, r, c)
    PROVE  \A k \in Goroutines : \A d : Holds(k, d)' <=> Holds(k, d) \/ (k = r /\ d = c)
<1>. SUFFICES ASSUME NEW k \in Goroutines, NEW d
              PROVE  Holds(k, d)' <=> Holds(k, d) \/ (k = r /\ d = c)
  OBVIOUS
<1>1. Held(k) \in Seq(Ctxs)
  BY HeldSeq
<1>2. CASE k # r
  BY <1>2 DEF Grabbed, Holds
<1>3. CASE k = r
  <2>1. Held(k)' = Append(Held(k), c)
    BY <1>3 DEF Grabbed
  <2>2. /\ Len(Held(k)') = Len(Held(k)) + 1 /\ Len(Held(k)) \in Nat
        /\ \A i \in 1 .. Len(Held(k)) + 1 :
              Held(k)'[i] = IF i <= Len(Held(k)) THEN Held(k)[i] ELSE c
    BY <1>1, <2>1
  <2>. DEFINE n == Len(Held(k))
              t == Held(k)'
  <2>3. Len(t) = n + 1 /\ n \in Nat /\ t[n + 1] = c /\ \A i \in 1 .. n : t[i] = Held(k)[i]
    BY <2>2
  <2>. HIDE DEF t
  <2>4. (\E i \in 1 .. Len(t) : t[i] = d) <=> (\E i \in 1 .. n : Held(k)[i] = d) \/ d = c
    <3>. HIDE DEF n
    <3>1. 1 .. n + 1 = (1 .. n) \cup {n + 1}
      BY <2>3
    <3>. QED
      BY <2>3, <3>1
  <2>. QED
    BY <1>3, <2>4 DEF Holds, t
<1>. QED
  BY <1>2, <1>3

\* Grabbing a context that nobody holds keeps the holders apart.
LEMMA GrabApart ==
    ASSUME TypeOK, Places, Apart, NEW g, NEW r, NEW c \in Ctxs, Grabbed(g, r, c),
           \A k \in Goroutines : ~Holds(k, c)
    PROVE  Apart'
<1>1. \A k \in Goroutines : Held(k) \in Seq(Ctxs) /\ Len(Held(k)) \in Nat
  BY HeldSeq
<1>2. \A k \in Goroutines : k # r => Held(k)' = Held(k)
  BY DEF Grabbed
<1>3. /\ r \in Goroutines /\ Len(Held(r)') = Len(Held(r)) + 1
      /\ \A i \in 1 .. Len(Held(r)) + 1 :
            Held(r)'[i] = IF i <= Len(Held(r)) THEN Held(r)[i] ELSE c
  BY <1>1 DEF Grabbed
<1>4. \A k \in Goroutines : \A i \in 1 .. Len(Held(k)) : Held(k)[i] # c
  BY DEF Holds
<1>. SUFFICES ASSUME NEW x \in Goroutines, NEW k \in Goroutines,
                     NEW i \in 1 .. Len(Held(x)'), NEW j \in 1 .. Len(Held(k)'),
                     Held(x)'[i] = Held(k)'[j]
              PROVE  x = k /\ i = j
  BY DEF Apart
<1>5. CASE x = r /\ k = r
  BY <1>1, <1>3, <1>4, <1>5 DEF Apart
<1>6. CASE x = r /\ k # r
  BY <1>1, <1>2, <1>3, <1>4, <1>6 DEF Apart
<1>7. CASE x # r /\ k = r
  BY <1>1, <1>2, <1>3, <1>4, <1>7 DEF Apart
<1>8. CASE x # r /\ k # r
  BY <1>2, <1>8 DEF Apart
<1>. QED
  BY <1>5, <1>6, <1>7, <1>8

-----------------------------------------------------------------------------
(* A context is taken from the head of the chain.                           *)

LEMMA GrabTypes ==
    ASSUME TwoGoroutines, TypeOK, Places, NEW g \in Goroutines, NEW r, NEW c \in Ctxs,
           Grabbed(g, r, c), UNCHANGED <<want, h, next, ctx>>
    PROVE  /\ stack' \in [Goroutines -> Seq(Ctxs)]
           /\ pc' \in [Goroutines ->
                         {"absent", "code", "load", "link", "take", "put", "swap"}]
           /\ runs' \in 0 .. MaxRuns
<1>1. Append(stack[r], c) \in Seq(Ctxs)
  BY DEF Grabbed, TypeOK
<1>2. runs' \in 0 .. MaxRuns
  BY DEF Grabbed, TypeOK, Goroutines, TwoGoroutines, PoolAssumption
<1>. QED
  BY <1>1, <1>2 DEF Grabbed, TypeOK

LEMMA GrabPlaces ==
    ASSUME TwoGoroutines, TypeOK, Places, NEW g \in Goroutines, NEW r, NEW c \in Ctxs,
           Grabbed(g, r, c), UNCHANGED <<want, h, next, ctx>>, made' \in {made, made + 1},
           pc[g] \in {"load", "take"}
    PROVE  Places'
<1>1. r \in Goroutines /\ runs \in Nat /\ made \in Nat
  BY DEF Grabbed, TypeOK, Ctxs
<1>2. \A k \in Goroutines : k # r => Held(k)' = Held(k) /\ stack'[k] = stack[k]
  BY DEF Grabbed, TypeOK
<1>. SUFFICES ASSUME NEW k \in Goroutines
              PROVE  /\ pc'[k] = "absent" <=> k > runs'
                     /\ pc'[k] = "absent" => stack'[k] = <<>>
                     /\ Putting(k)' => ctx'[k] \in Ctxs
                     /\ Poised(k)' => h'[k] \in 1 .. made' /\ ~Holds(k, h[k])'
                     /\ k \in Merging' => runs' = 0 /\ MaxRuns = 1
  BY DEF Places
<1>3. k \in Int /\ g \in Int
  BY DEF Goroutines
<1>4. CASE k \in {g, r}
  <2>1. pc'[k] = "code" /\ ~Putting(k)' /\ ~Poised(k)' /\ k \notin Merging'
    BY <1>4 DEF Grabbed, Putting, Poised, Merging
  <2>2. ~(k > runs')
    <3>1. ~(g > runs)
      BY DEF Places
    <3>. QED
      BY <1>1, <1>3, <1>4, <3>1 DEF Grabbed
  <2>. QED
    BY <2>1, <2>2
<1>5. CASE k \notin {g, r}
  <2>1. pc'[k] = pc[k] /\ Held(k)' = Held(k) /\ stack'[k] = stack[k]
    BY <1>2, <1>5 DEF Grabbed
  <2>2. r = g /\ runs' = runs
    BY <1>1, <1>5, TheOther DEF Grabbed
  <2>3. Poised(k)' => h'[k] \in 1 .. made'
    <3>1. Poised(k) => h[k] \in 1 .. made
      BY DEF Places
    <3>. QED
      BY <1>1, <2>1, <3>1 DEF Poised
  <2>4. Poised(k)' => ~Holds(k, h[k])'
    <3>1. Holds(k, h[k])' <=> Holds(k, h[k])
      BY <2>1 DEF Holds
    <3>. QED
      BY <2>1, <3>1 DEF Poised, Places
  <2>5. k \in Merging' <=> k \in Merging
    BY <2>1 DEF Merging
  <2>6. Putting(k)' => ctx'[k] \in Ctxs
    BY <2>1 DEF Putting, Places
  <2>. QED
    BY <2>1, <2>2, <2>3, <2>4, <2>5, <2>6 DEF Places
<1>. QED
  BY <1>4, <1>5

\* After a grab no goroutine but g, r and one other exist, so nobody watches
\* another put a context back.
LEMMA GrabUndisturbed ==
    ASSUME TwoGoroutines, NEW g \in Goroutines, NEW r, NEW c, Grabbed(g, r, c)
    PROVE  /\ Undisturbed'
           /\ \A x \in Goroutines : pc'[x] = "take" =>
                 /\ x # g /\ r = g /\ pc[x] = "take"
                 /\ \A k \in Goroutines : k # x => k = g
<1>1. r \in Goroutines /\ \A k \in {g, r} : pc'[k] = "code"
  BY DEF Grabbed
<1>2. \A x, k \in Goroutines : pc'[x] = "link" /\ Putting(k)' => FALSE
  BY <1>1, TheOther DEF Putting
<1>3. Undisturbed'
  BY <1>2 DEF Undisturbed
<1>. QED
  BY <1>1, <1>3, TheOther DEF Grabbed

LEMMA GrabLinks ==
    ASSUME TypeOK, Places, Links, NEW g \in Goroutines, NEW r, NEW c \in Ctxs,
           Grabbed(g, r, c), UNCHANGED <<h, ctx>>, made' \in {made, made + 1},
           c \in 1 .. made', link' \in [Ctxs -> Ctxs \cup {NULL}],
           link'[c] = NULL, \A d \in Ctxs : d # c => link'[d] = link[d],
           \A k \in Goroutines : ~Holds(k, c)
    PROVE  Links'
<1>1. \A k \in Goroutines : /\ Held(k) \in Seq(Ctxs) /\ Len(Held(k)) \in Nat
                            /\ stack[k] \in Seq(Ctxs) /\ Len(stack[k]) \in Nat
  BY HeldSeq
<1>2. made \in Nat /\ made' \in Nat /\ made <= made' /\ r \in Goroutines
  BY DEF TypeOK, Ctxs, Grabbed
<1>3. ASSUME NEW k \in Goroutines, NEW i \in 1 .. Len(Held(k)')
      PROVE  Held(k)'[i] \in 1 .. made'
  <2>1. CASE k = r
    <3>1. Held(k)' = Append(Held(r), c)
      BY <2>1 DEF Grabbed
    <3>2. Held(k)'[i] = c \/ \E j \in 1 .. Len(Held(r)) : Held(k)'[i] = Held(r)[j]
      BY <1>1, <1>2, <1>3, <3>1
    <3>3. \A j \in 1 .. Len(Held(r)) : Held(r)[j] \in 1 .. made
      BY <1>2 DEF Links
    <3>. QED
      BY <1>2, <3>2, <3>3
  <2>2. CASE k # r
    BY <1>1, <1>2, <1>3, <2>2 DEF Grabbed, Links
  <2>. QED
    BY <2>1, <2>2
<1>4. \A d \in Ctxs : d > made' => link'[d] = NULL
  BY <1>2 DEF Links, Ctxs
<1>5. ASSUME NEW k \in Goroutines, NEW i \in 1 .. Len(stack'[k])
      PROVE  link'[stack'[k][i]] = NULL
  <2>1. stack'[k] = IF k = r THEN Append(stack[r], c) ELSE stack[k]
    BY <1>2 DEF Grabbed, TypeOK
  <2>2. stack'[k][i] = c \/ \E j \in 1 .. Len(stack[k]) : stack'[k][i] = stack[k][j]
    BY <1>1, <1>2, <1>5, <2>1
  <2>3. \A j \in 1 .. Len(stack[k]) : stack[k][j] \in Ctxs /\ link[stack[k][j]] = NULL
    BY <1>1 DEF Links
  <2>. QED
    BY <2>2, <2>3
<1>6. ASSUME NEW k \in Goroutines, pc'[k] = "swap"
      PROVE  link'[ctx'[k]] = h'[k]
  <2>1. pc[k] = "swap" /\ k # r
    BY <1>6 DEF Grabbed
  <2>2. Held(k) = Append(stack[k], ctx[k]) /\ ctx[k] \in Ctxs
    BY <2>1 DEF Held, Putting, Places
  <2>3. Holds(k, ctx[k])
    BY <2>1, PuttingHolds DEF Putting
  <2>. QED
    BY <2>1, <2>2, <2>3 DEF Links
<1>. QED
  BY <1>3, <1>4, <1>5, <1>6 DEF Links

\* Take, when the swap succeeds.
LEMMA TakeKeeps ==
    ASSUME TwoGoroutines, PInv, NEW g \in Goroutines, NEW r, Grabbed(g, r, h[g]),
           pc[g] = "take", ctxHead = h[g], ctxHead' = next[g],
           link' = [link EXCEPT ![h[g]] = NULL], UNCHANGED <<made, want, h, next, ctx>>
    PROVE  PInv'
<1>. DEFINE P == h[g]
            Q == next[g]
<1>. USE DEF PInv
<1>1. P \in Ctxs /\ P # NULL /\ made \in Nat /\ MaxCtxs \in Nat /\ made <= MaxCtxs
  <2>1. P \in 1 .. made /\ made \in Ctxs /\ MaxCtxs \in Nat /\ NULL \notin Ctxs
    BY DEF Places, Poised, TypeOK, TwoGoroutines, PoolAssumption
  <2>. QED
    BY <2>1 DEF Ctxs
<1>2. Free(P) /\ P \in 1 .. made /\ \A k \in Goroutines : ~Holds(k, P)
  BY <1>1 DEF Chain, Free
<1>3. \A k \in Goroutines : \A d : Holds(k, d)' <=> Holds(k, d) \/ (k = r /\ d = P)
  BY <1>1, GrabHolds
<1>4. \A d : Free(d)' <=> Free(d) /\ d # P
  <2>1. r \in Goroutines
    BY DEF Grabbed
  <2>. QED
    BY <1>2, <1>3, <2>1 DEF Free
<1>5. /\ link' \in [Ctxs -> Ctxs \cup {NULL}] /\ link'[P] = NULL
      /\ \A d \in Ctxs : d # P => link'[d] = link[d]
  BY <1>1 DEF TypeOK
<1>6. Q # NULL => /\ Free(Q) /\ Q # P
                  /\ \A d \in Ctxs : Free(d) /\ link[d] = Q => d = P
  BY <1>2 DEF AllFresh, Fresh
<1>7. TypeOK'
  <2>1. ctxHead' \in Ctxs \cup {NULL}
    BY DEF TypeOK
  <2>. QED
    BY <1>1, <1>5, <2>1, GrabTypes DEF TypeOK
<1>8. Places'
  BY <1>1, GrabPlaces
<1>9. Apart'
  BY <1>1, <1>2, GrabApart
<1>10. Links'
  BY <1>1, <1>2, <1>5, GrabLinks
<1>11. Chain'
  <2>1. ctxHead' # NULL => Free(ctxHead)'
    BY <1>4, <1>6
  <2>2. ASSUME NEW d \in Ctxs, Free(d)', link'[d] # NULL
        PROVE  Free(link[d])' /\ link'[d] # d /\ link'[d] # ctxHead'
    <3>1. Free(d) /\ d # P /\ link'[d] = link[d]
      BY <1>4, <1>5, <2>2
    <3>2. Free(link[d]) /\ link[d] # d /\ link[d] # P
      BY <2>2, <3>1 DEF Chain
    <3>3. link[d] # Q
      BY <1>6, <2>2, <3>1
    <3>4. Free(link[d])'
      BY <1>4, <3>1, <3>2
    <3>. QED
      BY <3>1, <3>2, <3>3, <3>4
  <2>3. \A d, e \in Ctxs :
            Free(d)' /\ Free(e)' /\ link'[d] = link'[e] /\ link'[d] # NULL => d = e
    BY <1>4, <1>5 DEF Chain
  <2>. QED
    BY <2>1, <2>2, <2>3 DEF Chain
<1>12. Undisturbed'
  BY GrabUndisturbed
<1>13. AllFresh'
  <2>. SUFFICES ASSUME NEW x \in Goroutines, pc'[x] = "take", next'[x] # NULL
                PROVE  Fresh(x)'
    BY DEF AllFresh
  <2>1. x # g /\ r = g /\ pc[x] = "take" /\ \A k \in Goroutines : k # x => k = g
    BY GrabUndisturbed
  <2>. DEFINE H == h[x]
              X == next[x]
  <2>2. h'[x] = H /\ next'[x] = X /\ X # NULL /\ Fresh(x) /\ ~Holds(x, H) /\ H \in Ctxs
    <3>1. h'[x] = H /\ next'[x] = X /\ X # NULL
      OBVIOUS
    <3>2. Poised(x) /\ Fresh(x)
      BY <2>1, <3>1 DEF AllFresh, Poised
    <3>3. H \in 1 .. made /\ ~Holds(x, H)
      BY <3>2 DEF Places
    <3>. QED
      BY <3>1, <3>2, <3>3, <1>1 DEF Ctxs
  <2>3. Q = X => P = H
    BY <2>2 DEF Fresh
  <2>4. X # H
    BY <2>2 DEF Fresh
  <2>5. Free(H)' => /\ Free(X)' /\ X # ctxHead'
                    /\ \A d \in Ctxs : Free(d)' /\ link'[d] = X => d = H
    BY <1>4, <1>5, <2>2, <2>3 DEF Fresh
  <2>6. Lost(X) /\ P # H => Lost(X)'
    <3>. SUFFICES ASSUME Lost(X), P # H PROVE Lost(X)'
      OBVIOUS
    <3>1. Free(X)' /\ X # ctxHead' /\ \A d \in Ctxs : Free(d)' => link'[d] # X
      BY <1>4, <1>5, <2>3 DEF Lost
    <3>2. Free(next[x])' <=> Free(X)'
      OBVIOUS
    <3>. QED
      BY <3>1, <2>2 DEF Lost
  <2>7. ASSUME NEW k \in Goroutines, NEW i \in 1 .. Len(Held(k)'), Held(k)'[i] = H
        PROVE  Above(k, i)' = X \/ Lost(X)'
    <3>1. Held(x)' = Held(x)
      BY <2>1 DEF Grabbed
    <3>2. k = g
      <4>1. ~Holds(x, H)' /\ (k = x => Holds(x, H)')
        BY <1>3, <2>1, <2>2, <2>7 DEF Holds
      <4>. QED
        BY <2>1, <4>1
    <3>3. /\ Held(g) \in Seq(Ctxs) /\ Len(Held(g)) \in Nat
          /\ Held(g)' = Append(Held(g), P)
      BY <2>1, HeldSeq DEF Grabbed
    <3>4. CASE i = Len(Held(g)) + 1
      <4>1. P = H /\ Above(k, i)' = Q
        BY <2>7, <3>2, <3>3, <3>4 DEF Above
      <4>2. Q # X => Free(X)' /\ X # ctxHead' /\ \A d \in Ctxs : Free(d)' => link'[d] # X
        BY <1>2, <1>4, <1>5, <2>2, <4>1 DEF Fresh
      <4>. QED
        BY <4>1, <4>2, <2>2 DEF Lost
    <3>5. CASE i # Len(Held(g)) + 1
      <4>1. i \in 1 .. Len(Held(g)) /\ Held(g)[i] = H
        BY <2>7, <3>2, <3>3, <3>5
      <4>2. P # H
        BY <1>2, <4>1 DEF Holds
      <4>3. CASE Lost(X)
        BY <2>6, <4>2, <4>3
      <4>4. CASE Above(g, i) = X
        BY <3>2, <3>3, <4>1, <4>4 DEF Above
      <4>. QED
        BY <4>1, <4>3, <4>4, <2>2 DEF Fresh
    <3>. QED
      BY <3>4, <3>5
  <2>8. ASSUME NEW k \in Goroutines, pc'[k] = "take", next'[k] = X
        PROVE  h'[k] = H
    <3>1. k = x
      BY <2>1, <2>8, GrabUndisturbed
    <3>. QED
      BY <2>2, <3>1
  <2>. QED
    BY <2>2, <2>4, <2>5, <2>7, <2>8 DEF Fresh
<1>. QED
  BY <1>7, <1>8, <1>9, <1>10, <1>11, <1>12, <1>13

-----------------------------------------------------------------------------
(* Moves that leave what is held alone.                                     *)

\* What held contexts and chain mean to the other goroutine does not change.
LEMMA FreshStays ==
    ASSUME SameHeld, UNCHANGED <<ctxHead, made>>,
           \A d \in Ctxs : Free(d) => link'[d] = link[d],
           NEW x \in Goroutines, Fresh(x), h'[x] = h[x], next'[x] = next[x],
           \A k \in Goroutines : pc'[k] = "take" /\ next'[k] = next[x] => h'[k] = h[x]
    PROVE  Fresh(x)'
<1>. DEFINE H == h[x]
            X == next[x]
<1>1. \A d : Free(d)' <=> Free(d)
  BY SameFree
<1>2. h'[x] = H /\ next'[x] = X /\ X # H
  BY DEF Fresh
<1>3. Free(H)' => /\ Free(X)' /\ X # ctxHead'
                  /\ \A d \in Ctxs : Free(d)' /\ link'[d] = X => d = H
  BY <1>1, <1>2 DEF Fresh
<1>4. Lost(X) => Lost(X)'
  BY <1>1, <1>2 DEF Lost
<1>5. ASSUME NEW k \in Goroutines, NEW i \in 1 .. Len(Held(k)'), Held(k)'[i] = H
      PROVE  Above(k, i)' = X \/ Lost(X)'
  <2>1. Held(k)' = Held(k)
    BY DEF SameHeld
  <2>2. Above(k, i)' = Above(k, i)
    BY <2>1 DEF Above
  <2>3. Above(k, i) = X \/ Lost(X)
    BY <1>5, <2>1 DEF Fresh
  <2>. QED
    BY <1>4, <2>2, <2>3
<1>. QED
  BY <1>2, <1>3, <1>5 DEF Fresh

\* A move of g that touches neither the head nor a link, and reads none.
Quiet(g) ==
    /\ SameHeld
    /\ UNCHANGED <<ctxHead, link, made, runs>>
    /\ \A k \in Goroutines \ {g} :
          /\ pc'[k] = pc[k] /\ stack'[k] = stack[k] /\ want'[k] = want[k]
          /\ h'[k] = h[k] /\ next'[k] = next[k] /\ ctx'[k] = ctx[k]

LEMMA QuietKeeps ==
    ASSUME TwoGoroutines, PInv, NEW g \in Goroutines, Quiet(g), TypeOK',
           pc'[g] \in {"code", "load", "link", "put"}, pc[g] # "absent",
           \A i \in 1 .. Len(stack'[g]) : link[stack'[g][i]] = NULL,
           pc'[g] = "put" => ctx'[g] \in Ctxs,
           pc'[g] = "link" => h'[g] = ctxHead /\ h'[g] # NULL,
           g \in Merging' => runs = 0 /\ MaxRuns = 1,
           \A x \in Goroutines : x # g /\ pc[x] = "link" /\ pc'[g] = "put" /\ ctx'[g] = h[x]
               => link[h[x]] = NULL
    PROVE  PInv'
<1>. USE DEF PInv
<1>1. /\ \A k \in Goroutines : \A c : Holds(k, c)' <=> Holds(k, c)
      /\ \A c : Free(c)' <=> Free(c)
  BY SameFree DEF Quiet
<1>2. Apart'
  BY DEF Apart, Quiet, SameHeld
<1>3. Chain'
  <2>1. /\ ctxHead' # NULL => Free(ctxHead)'
        /\ \A c \in Ctxs : Free(c)' /\ link'[c] # NULL =>
              Free(link[c])' /\ link'[c] # c /\ link'[c] # ctxHead'
    BY <1>1 DEF Chain, Quiet
  <2>2. \A c, d \in Ctxs :
            Free(c)' /\ Free(d)' /\ link'[c] = link'[d] /\ link'[c] # NULL => c = d
    BY <1>1 DEF Chain, Quiet
  <2>. QED
    BY <2>1, <2>2 DEF Chain
<1>4. Links'
  <2>1. \A k \in Goroutines : \A i \in 1 .. Len(Held(k)') : Held(k)'[i] \in 1 .. made'
    BY DEF Links, Quiet, SameHeld
  <2>2. \A c \in Ctxs : c > made' => link'[c] = NULL
    BY DEF Links, Quiet
  <2>3. \A k \in Goroutines : \A i \in 1 .. Len(stack'[k]) : link'[stack'[k][i]] = NULL
    BY DEF Links, Quiet
  <2>4. \A k \in Goroutines : pc'[k] = "swap" => link'[ctx'[k]] = h'[k]
    BY DEF Links, Quiet
  <2>. QED
    BY <2>1, <2>2, <2>3, <2>4 DEF Links
<1>5. Places'
  <2>. SUFFICES ASSUME NEW k \in Goroutines
                PROVE  /\ pc'[k] = "absent" <=> k > runs'
                       /\ pc'[k] = "absent" => stack'[k] = <<>>
                       /\ Putting(k)' => ctx'[k] \in Ctxs
                       /\ Poised(k)' => h'[k] \in 1 .. made' /\ ~Holds(k, h[k])'
                       /\ k \in Merging' => runs' = 0 /\ MaxRuns = 1
    BY DEF Places
  <2>1. CASE k = g
    <3>1. ~(k > runs') /\ pc'[k] # "absent"
      BY <2>1 DEF Places, Quiet
    <3>2. Putting(k)' => ctx'[k] \in Ctxs
      BY <2>1 DEF Putting
    <3>3. Poised(k)' => h'[k] \in 1 .. made' /\ ~Holds(k, h[k])'
      <4>. SUFFICES ASSUME Poised(k)' PROVE h'[k] \in 1 .. made' /\ ~Holds(k, h[k])'
        OBVIOUS
      <4>1. h'[k] = ctxHead /\ Free(ctxHead)
        BY <2>1 DEF Poised, Chain
      <4>2. ~Holds(k, ctxHead) /\ ctxHead \in 1 .. made
        BY <4>1 DEF Free
      <4>. QED
        BY <1>1, <4>1, <4>2 DEF Quiet
    <3>. QED
      BY <2>1, <3>1, <3>2, <3>3 DEF Quiet
  <2>2. CASE k # g
    <3>1. /\ Poised(k)' <=> Poised(k)
          /\ Putting(k)' <=> Putting(k)
          /\ k \in Merging' <=> k \in Merging
      BY <2>2 DEF Quiet, Poised, Putting, Merging
    <3>2. Holds(k, h[k])' <=> Holds(k, h[k])
      BY <1>1, <2>2 DEF Quiet
    <3>. QED
      BY <2>2, <3>1, <3>2 DEF Quiet, Places
  <2>. QED
    BY <2>1, <2>2
<1>6. Undisturbed'
  <2>. SUFFICES ASSUME NEW x \in Goroutines, NEW k \in Goroutines,
                       pc'[x] = "link", Putting(k)', ctx'[k] = h'[x]
                PROVE  IF pc'[k] = "put" THEN link'[h'[x]] = NULL ELSE h'[k] = ctxHead'
    BY DEF Undisturbed
  <2>1. k # x
    BY DEF Putting
  <2>2. CASE x = g
    <3>1. Free(ctxHead) /\ h'[x] = ctxHead
      BY <2>2 DEF Chain
    <3>2. Holds(k, ctx[k])
      BY <2>1, <2>2, PuttingHolds DEF Quiet, Putting
    <3>. QED
      BY <2>1, <2>2, <3>1, <3>2 DEF Free, Quiet
  <2>3. CASE k = g
    BY <2>1, <2>3 DEF Quiet, Putting
  <2>4. CASE x # g /\ k # g
    BY <2>1, <2>4, TheOther
  <2>. QED
    BY <2>2, <2>3, <2>4
<1>7. AllFresh'
  <2>. SUFFICES ASSUME NEW x \in Goroutines, pc'[x] = "take", next'[x] # NULL
                PROVE  Fresh(x)'
    BY DEF AllFresh
  <2>1. x # g /\ pc[x] = "take" /\ h'[x] = h[x] /\ next'[x] = next[x] /\ Fresh(x)
    BY DEF Quiet, AllFresh
  <2>2. \A k \in Goroutines : pc'[k] = "take" /\ next'[k] = next[x] => h'[k] = h[x]
    BY <2>1 DEF Quiet, Fresh
  <2>. QED
    BY <2>1, <2>2, FreshStays DEF Quiet
<1>. QED
  BY <1>2, <1>3, <1>4, <1>5, <1>6, <1>7

\* Load, when the chain is empty: a new context.
LEMMA MakeKeeps ==
    ASSUME TwoGoroutines, PInv, NEW g \in Goroutines, NEW r, Grabbed(g, r, made + 1),
           pc[g] = "load", ctxHead = NULL, made < MaxCtxs, made' = made + 1,
           UNCHANGED <<ctxHead, link, want, h, next, ctx>>
    PROVE  PInv'
<1>. DEFINE N == made + 1
<1>. USE DEF PInv
<1>1. made \in Nat /\ MaxCtxs \in Nat /\ N \in Ctxs /\ made \in Ctxs
  BY DEF TypeOK, Ctxs, TwoGoroutines, PoolAssumption
<1>2. /\ \A k \in Goroutines : ~Holds(k, N)
      /\ \A d : Free(d) => d # N
      /\ link[N] = NULL
  BY <1>1 DEF Links, Holds, Free
<1>3. \A k \in Goroutines : \A d : Holds(k, d)' <=> Holds(k, d) \/ (k = r /\ d = N)
  BY <1>1, GrabHolds
<1>4. \A d : Free(d)' <=> Free(d)
  <2>1. r \in Goroutines
    BY DEF Grabbed
  <2>2. \A d : d \in 1 .. made' <=> d \in 1 .. made \/ d = N
    BY <1>1
  <2>. QED
    BY <1>2, <1>3, <2>1, <2>2 DEF Free
<1>5. TypeOK'
  BY <1>1, GrabTypes DEF TypeOK
<1>6. Places'
  BY <1>1, GrabPlaces
<1>7. Apart'
  BY <1>1, <1>2, GrabApart
<1>8. Links'
  <2>1. link' \in [Ctxs -> Ctxs \cup {NULL}] /\ N \in 1 .. made'
    BY <1>1 DEF TypeOK
  <2>. QED
    BY <1>1, <1>2, <2>1, GrabLinks
<1>9. Chain'
  BY <1>4 DEF Chain
<1>10. Undisturbed'
  BY GrabUndisturbed
<1>11. AllFresh'
  <2>. SUFFICES ASSUME NEW x \in Goroutines, pc'[x] = "take", next'[x] # NULL
                PROVE  Fresh(x)'
    BY DEF AllFresh
  <2>1. x # g /\ r = g /\ pc[x] = "take" /\ \A k \in Goroutines : k # x => k = g
    BY GrabUndisturbed
  <2>. DEFINE H == h[x]
              X == next[x]
  <2>2. h'[x] = H /\ next'[x] = X /\ X # NULL /\ Fresh(x) /\ H # N
    <3>1. Poised(x)
      BY <2>1 DEF Poised
    <3>2. H \in 1 .. made
      BY <3>1 DEF Places
    <3>. QED
      BY <1>1, <2>1, <3>2 DEF AllFresh
  <2>3. X # H
    BY <2>2 DEF Fresh
  <2>4. Free(H)' => /\ Free(X)' /\ X # ctxHead'
                    /\ \A d \in Ctxs : Free(d)' /\ link'[d] = X => d = H
    BY <1>4, <2>2 DEF Fresh
  <2>5. Lost(X) => Lost(X)'
    BY <1>4, <2>2 DEF Lost
  <2>6. ASSUME NEW k \in Goroutines, NEW i \in 1 .. Len(Held(k)'), Held(k)'[i] = H
        PROVE  Above(k, i)' = X \/ Lost(X)'
    <3>1. CASE k # g
      <4>1. Held(k)' = Held(k)
        BY <2>1, <3>1 DEF Grabbed
      <4>2. Above(k, i)' = Above(k, i) /\ (Above(k, i) = X \/ Lost(X))
        BY <2>2, <2>6, <4>1 DEF Above, Fresh
      <4>. QED
        BY <2>5, <4>2
    <3>2. CASE k = g
      <4>1. /\ Held(g) \in Seq(Ctxs) /\ Len(Held(g)) \in Nat
            /\ Held(g)' = Append(Held(g), N)
        BY <2>1, HeldSeq DEF Grabbed
      <4>2. i \in 1 .. Len(Held(g)) /\ Held(g)[i] = H
        BY <2>2, <2>6, <3>2, <4>1
      <4>3. CASE Above(g, i) = X
        BY <2>2, <3>2, <4>1, <4>2, <4>3 DEF Above
      <4>. QED
        BY <2>2, <2>5, <4>2, <4>3 DEF Fresh
    <3>. QED
      BY <3>1, <3>2
  <2>7. ASSUME NEW k \in Goroutines, pc'[k] = "take", next'[k] = X
        PROVE  h'[k] = H
    <3>1. k = x
      BY <2>1, <2>7, GrabUndisturbed
    <3>. QED
      BY <2>2, <3>1
  <2>. QED
    BY <2>2, <2>3, <2>4, <2>6, <2>7 DEF Fresh
<1>. QED
  BY <1>5, <1>6, <1>7, <1>8, <1>9, <1>10, <1>11

\* ReadLink.
LEMMA ReadKeeps ==
    ASSUME TwoGoroutines, PInv, NEW g \in Goroutines, ReadLink(g)
    PROVE  PInv'
<1>. DEFINE P == h[g]
            Q == link[P]
<1>. USE DEF PInv
<1>1. /\ pc[g] = "link" /\ pc' = [pc EXCEPT ![g] = "take"]
      /\ next' = [next EXCEPT ![g] = Q]
      /\ UNCHANGED <<ctxHead, link, made, runs, stack, want, h, ctx>>
  BY DEF ReadLink, Goto
<1>2. P \in 1 .. made /\ ~Holds(g, P) /\ made \in Ctxs
  BY <1>1 DEF Places, Poised, TypeOK
<1>3. P \in Ctxs
  BY <1>2 DEF Ctxs, TwoGoroutines, PoolAssumption
<1>4. SameHeld
  BY <1>1 DEF SameHeld, Held, Putting, TypeOK
<1>5. /\ \A k \in Goroutines : \A c : Holds(k, c)' <=> Holds(k, c)
      /\ \A c : Free(c)' <=> Free(c)
  BY <1>1, <1>4, SameFree
<1>6. TypeOK'
  BY <1>1, <1>3 DEF TypeOK
<1>7. Apart'
  BY <1>4 DEF Apart, SameHeld
<1>8. Chain'
  BY <1>1, <1>5 DEF Chain
<1>9. Links'
  BY <1>1, <1>4 DEF Links, SameHeld, TypeOK
<1>10. Places'
  <2>1. \A k \in Goroutines : /\ pc'[k] = "absent" <=> pc[k] = "absent"
                              /\ Poised(k)' <=> Poised(k)
                              /\ Putting(k)' <=> Putting(k)
                              /\ k \in Merging' <=> k \in Merging
    BY <1>1 DEF Poised, Putting, Merging, TypeOK
  <2>2. \A k \in Goroutines : Holds(k, h[k])' <=> Holds(k, h[k])
    BY <1>1, <1>5
  <2>. QED
    BY <1>1, <2>1, <2>2 DEF Places
<1>11. Undisturbed'
  BY <1>1 DEF Undisturbed, Putting, TypeOK
<1>12. \A k \in Goroutines : k # g => pc'[k] = pc[k] /\ next'[k] = next[k]
  BY <1>1 DEF TypeOK
<1>13. pc'[g] = "take" /\ next'[g] = Q
  BY <1>1 DEF TypeOK
\* Whoever read the same link read it of the same context.
<1>14. ASSUME NEW x \in Goroutines, x # g, pc[x] = "take", next[x] = Q, Q # NULL
       PROVE  h[x] = P
  <2>1. Fresh(x) /\ h[x] \in 1 .. made /\ ~Holds(x, h[x])
    BY <1>14 DEF AllFresh, Places, Poised
  <2>2. Free(P)
    <3>1. ASSUME NEW k \in Goroutines, Holds(k, P) PROVE FALSE
      <4>1. k = x
        BY <1>2, <1>14, <3>1, TheOther
      <4>2. ~Putting(x)
        BY <1>14 DEF Putting
      <4>3. link[P] = NULL
        BY <3>1, <4>1, <4>2 DEF Holds, Held, Links
      <4>. QED
        BY <1>14, <4>3
    <3>. QED
      BY <1>2, <3>1 DEF Free
  <2>3. Free(Q) /\ Q # ctxHead
    BY <1>3, <1>14, <2>2 DEF Chain
  <2>4. CASE Free(h[x])
    BY <1>3, <1>14, <2>1, <2>2, <2>4 DEF Fresh
  <2>5. CASE ~Free(h[x])
    <3>1. PICK k \in Goroutines : Holds(k, h[x])
      BY <2>1, <2>5 DEF Free
    <3>2. PICK i \in 1 .. Len(Held(k)) : Held(k)[i] = h[x]
      BY <3>1 DEF Holds
    <3>3. Above(k, i) = Q \/ Lost(Q)
      BY <1>14, <2>1, <3>2 DEF Fresh
    <3>4. ~Lost(Q)
      BY <1>3, <2>2 DEF Lost
    <3>5. Above(k, i) # Q
      <4>1. CASE i < Len(Held(k))
        <5>1. Len(Held(k)) \in Nat
          BY HeldSeq
        <5>2. i + 1 \in 1 .. Len(Held(k))
          BY <4>1, <5>1
        <5>3. Holds(k, Above(k, i))
          BY <4>1, <5>2 DEF Above, Holds
        <5>. QED
          BY <2>3, <5>3 DEF Free
      <4>2. CASE ~(i < Len(Held(k)))
        BY <2>3, <4>2 DEF Above
      <4>. QED
        BY <4>1, <4>2
    <3>. QED
      BY <3>3, <3>4, <3>5
  <2>. QED
    BY <2>4, <2>5
<1>15. ASSUME NEW x \in Goroutines, x # g, pc'[x] = "take", next'[x] # NULL
       PROVE  Fresh(x)'
  <2>1. pc[x] = "take" /\ next'[x] = next[x] /\ h'[x] = h[x]
    BY <1>1, <1>12, <1>15
  <2>2. Fresh(x)
    BY <1>15, <2>1 DEF AllFresh
  <2>3. ASSUME NEW k \in Goroutines, pc'[k] = "take", next'[k] = next[x]
        PROVE  h'[k] = h[x]
    <3>1. CASE k = g
      BY <1>1, <1>13, <1>14, <1>15, <2>1, <2>3, <3>1
    <3>2. CASE k # g
      BY <1>1, <1>12, <2>2, <2>3, <3>2 DEF Fresh
    <3>. QED
      BY <3>1, <3>2
  <2>. QED
    BY <1>1, <1>4, <2>1, <2>2, <2>3, FreshStays
<1>16. ASSUME Q # NULL PROVE Fresh(g)'
  <2>1. h'[g] = P /\ next'[g] = Q
    BY <1>1, <1>13
  <2>2. Free(P) => /\ Free(Q) /\ Q # P /\ Q # ctxHead
                   /\ \A c \in Ctxs : Free(c) /\ link[c] = Q => c = P
    BY <1>3, <1>16 DEF Chain
  <2>3. ASSUME NEW k \in Goroutines, NEW i \in 1 .. Len(Held(k)), Held(k)[i] = P
        PROVE  Above(k, i) = Q /\ Q # P
    <3>1. k # g /\ Holds(k, P)
      BY <1>2, <2>3 DEF Holds
    <3>2. CASE ~Putting(k)
      <4>1. link[P] = NULL
        BY <2>3, <3>2 DEF Held, Links
      <4>. QED
        BY <1>16, <4>1
    <3>3. CASE Putting(k)
      <4>1. /\ Len(Held(k)) = Len(stack[k]) + 1 /\ Len(stack[k]) \in Nat
            /\ Held(k)[Len(stack[k]) + 1] = ctx[k] /\ ctx[k] \in Ctxs
            /\ \A j \in 1 .. Len(stack[k]) : Held(k)[j] = stack[k][j]
        BY <3>3, PuttingHolds
      <4>2. i = Len(Held(k)) /\ ctx[k] = P
        <5>1. i \in 1 .. Len(stack[k]) => link[P] = NULL
          BY <2>3, <4>1 DEF Links
        <5>. QED
          BY <1>16, <2>3, <4>1, <5>1
      <4>3. IF pc[k] = "put" THEN Q = NULL ELSE h[k] = ctxHead
        BY <1>1, <3>3, <4>2 DEF Undisturbed
      <4>4. pc[k] = "swap" /\ h[k] = ctxHead /\ Q = h[k]
        BY <1>16, <3>3, <4>2, <4>3 DEF Putting, Links
      <4>5. Free(ctxHead)
        BY <1>16, <4>4 DEF Chain
      <4>. QED
        BY <3>1, <4>2, <4>4, <4>5 DEF Above, Free
    <3>. QED
      BY <3>2, <3>3
  <2>4. Q # P
    BY <1>2, <2>2, <2>3 DEF Free, Holds
  <2>5. ASSUME NEW k \in Goroutines, NEW i \in 1 .. Len(Held(k)'), Held(k)'[i] = P
        PROVE  Above(k, i)' = Q
    <3>1. Held(k)' = Held(k)
      BY <1>4 DEF SameHeld
    <3>2. Above(k, i)' = Above(k, i)
      BY <1>1, <3>1 DEF Above
    <3>. QED
      BY <2>3, <2>5, <3>1, <3>2
  <2>6. ASSUME NEW k \in Goroutines, pc'[k] = "take", next'[k] = Q
        PROVE  h'[k] = P
    BY <1>1, <1>12, <1>14, <1>16, <2>6
  <2>7. Free(P)' => /\ Free(Q)' /\ Q # ctxHead'
                    /\ \A c \in Ctxs : Free(c)' /\ link'[c] = Q => c = P
    BY <1>1, <1>5, <2>2
  <2>. QED
    BY <1>1, <2>1, <2>4, <2>5, <2>6, <2>7 DEF Fresh
<1>17. AllFresh'
  BY <1>13, <1>15, <1>16 DEF AllFresh
<1>. QED
  BY <1>6, <1>7, <1>8, <1>9, <1>10, <1>11, <1>17

\* PutLoad.
LEMMA PutLoadKeeps ==
    ASSUME TwoGoroutines, PInv, NEW g \in Goroutines, PutLoad(g)
    PROVE  PInv'
<1>. DEFINE C == ctx[g]
<1>. USE DEF PInv
<1>1. /\ pc[g] = "put" /\ pc' = [pc EXCEPT ![g] = "swap"]
      /\ h' = [h EXCEPT ![g] = ctxHead] /\ link' = [link EXCEPT ![C] = ctxHead]
      /\ UNCHANGED <<ctxHead, made, runs, stack, want, next, ctx>>
  BY DEF PutLoad, Goto
<1>2. SameHeld
  BY <1>1 DEF SameHeld, Held, Putting, TypeOK
<1>3. /\ \A k \in Goroutines : \A d : Holds(k, d)' <=> Holds(k, d)
      /\ \A d : Free(d)' <=> Free(d)
  BY <1>1, <1>2, SameFree
<1>4. Putting(g)
  BY <1>1 DEF Putting
<1>5. /\ C \in Ctxs /\ Holds(g, C) /\ Len(stack[g]) \in Nat
      /\ Len(Held(g)) = Len(stack[g]) + 1 /\ Held(g)[Len(Held(g))] = C
  BY <1>4, PuttingHolds
<1>6. /\ link' \in [Ctxs -> Ctxs \cup {NULL}] /\ link'[C] = ctxHead
      /\ \A d \in Ctxs : d # C => link'[d] = link[d]
  BY <1>1, <1>5 DEF TypeOK
<1>7. \A d \in Ctxs : Free(d) => link'[d] = link[d]
  BY <1>5, <1>6 DEF Free
<1>8. \A k \in Goroutines : k # g => pc'[k] = pc[k] /\ h'[k] = h[k]
  BY <1>1 DEF TypeOK
<1>9. pc'[g] = "swap" /\ h'[g] = ctxHead
  BY <1>1 DEF TypeOK
<1>10. TypeOK'
  BY <1>1, <1>6 DEF TypeOK
<1>11. Apart'
  BY <1>2 DEF Apart, SameHeld
<1>12. Chain'
  <2>1. \A d \in Ctxs : Free(d)' => Free(d) /\ link'[d] = link[d]
    BY <1>3, <1>7
  <2>2. ctxHead' # NULL => Free(ctxHead)'
    BY <1>1, <1>3 DEF Chain
  <2>3. ASSUME NEW d \in Ctxs, Free(d)', link'[d] # NULL
        PROVE  Free(link[d])' /\ link'[d] # d /\ link'[d] # ctxHead'
    <3>1. Free(link[d]) /\ link[d] # d /\ link[d] # ctxHead /\ link'[d] = link[d]
      BY <2>1, <2>3 DEF Chain
    <3>. QED
      BY <1>1, <1>3, <3>1
  <2>4. \A d, e \in Ctxs :
            Free(d)' /\ Free(e)' /\ link'[d] = link'[e] /\ link'[d] # NULL => d = e
    BY <2>1 DEF Chain
  <2>. QED
    BY <2>2, <2>3, <2>4 DEF Chain
<1>13. Links'
  <2>1. ASSUME NEW k \in Goroutines, NEW i \in 1 .. Len(stack[k])
        PROVE  stack[k][i] # C
    <3>1. stack[k] \in Seq(Ctxs) /\ Len(stack[k]) \in Nat
      BY HeldSeq
    <3>2. i \in 1 .. Len(Held(k)) /\ Held(k)[i] = stack[k][i] /\ (k = g => i # Len(Held(k)))
      <4>1. CASE Putting(k)
        BY <3>1, <4>1, PuttingHolds
      <4>2. CASE ~Putting(k)
        BY <1>4, <4>2 DEF Held
      <4>. QED
        BY <4>1, <4>2
    <3>3. Len(Held(g)) \in 1 .. Len(Held(g))
      BY <1>5
    <3>. QED
      BY <1>5, <3>2, <3>3 DEF Apart
  <2>2. \A k \in Goroutines : \A i \in 1 .. Len(Held(k)') : Held(k)'[i] \in 1 .. made'
    BY <1>1, <1>2 DEF Links, SameHeld
  <2>3. \A d \in Ctxs : d > made' => link'[d] = NULL
    <3>1. C \in 1 .. made /\ made \in Ctxs
      BY <1>5 DEF Holds, Links, TypeOK
    <3>. QED
      BY <1>1, <1>6, <3>1 DEF Links, Ctxs
  <2>4. \A k \in Goroutines : \A i \in 1 .. Len(stack'[k]) : link'[stack'[k][i]] = NULL
    <3>. SUFFICES ASSUME NEW k \in Goroutines, NEW i \in 1 .. Len(stack[k])
                  PROVE  link'[stack[k][i]] = NULL
      BY <1>1
    <3>1. stack[k][i] \in Ctxs
      BY HeldSeq
    <3>. QED
      BY <1>6, <2>1, <3>1 DEF Links
  <2>5. ASSUME NEW k \in Goroutines, pc'[k] = "swap"
        PROVE  link'[ctx'[k]] = h'[k]
    <3>1. CASE k = g
      BY <1>1, <1>6, <1>9, <3>1
    <3>2. CASE k # g
      <4>1. pc[k] = "swap" /\ h'[k] = h[k] /\ Putting(k)
        BY <1>8, <2>5, <3>2 DEF Putting
      <4>2. ctx[k] \in Ctxs /\ Holds(k, ctx[k])
        BY <4>1, PuttingHolds
      <4>3. ctx[k] # C
        BY <1>5, <3>2, <4>2 DEF Holds, Apart
      <4>. QED
        BY <1>1, <1>6, <4>1, <4>2, <4>3 DEF Links
    <3>. QED
      BY <3>1, <3>2
  <2>. QED
    BY <2>2, <2>3, <2>4, <2>5 DEF Links
<1>14. Places'
  <2>1. \A k \in Goroutines : /\ pc'[k] = "absent" <=> pc[k] = "absent"
                              /\ Poised(k)' => k # g /\ Poised(k)
                              /\ Putting(k)' <=> Putting(k)
                              /\ k \in Merging' => k \in Merging
    BY <1>1, <1>8, <1>9 DEF Poised, Putting, Merging
  <2>2. \A k \in Goroutines : k # g => (Holds(k, h[k])' <=> Holds(k, h[k]))
    BY <1>3, <1>8
  <2>. QED
    BY <1>1, <1>8, <2>1, <2>2 DEF Places
<1>15. Undisturbed'
  <2>. SUFFICES ASSUME NEW x \in Goroutines, NEW k \in Goroutines,
                       pc'[x] = "link", Putting(k)'
                PROVE  pc'[k] # "put" /\ h'[k] = ctxHead'
    BY DEF Undisturbed
  <2>1. x # g /\ k # x
    BY <1>9 DEF Putting
  <2>2. k = g
    BY <2>1, TheOther
  <2>. QED
    BY <1>1, <1>9, <2>2
<1>16. AllFresh'
  <2>. SUFFICES ASSUME NEW x \in Goroutines, pc'[x] = "take", next'[x] # NULL
                PROVE  Fresh(x)'
    BY DEF AllFresh
  <2>1. x # g /\ pc[x] = "take" /\ h'[x] = h[x] /\ next'[x] = next[x] /\ Fresh(x)
    BY <1>1, <1>8, <1>9 DEF AllFresh
  <2>2. \A k \in Goroutines : pc'[k] = "take" /\ next'[k] = next[x] => h'[k] = h[x]
    BY <1>1, <1>8, <1>9, <2>1 DEF Fresh
  <2>. QED
    BY <1>1, <1>2, <1>7, <2>1, <2>2, FreshStays
<1>. QED
  BY <1>10, <1>11, <1>12, <1>13, <1>14, <1>15, <1>16

\* PutSwap, when the swap succeeds.
LEMMA SwapKeeps ==
    ASSUME TwoGoroutines, PInv, NEW g \in Goroutines, pc[g] = "swap", ctxHead = h[g],
           ctxHead' = ctx[g], pc' = [pc EXCEPT ![g] = "code"],
           UNCHANGED <<link, made, runs, stack, want, h, next, ctx>>
    PROVE  PInv'
<1>. DEFINE C == ctx[g]
<1>. USE DEF PInv
<1>1. Putting(g)
  BY DEF Putting
<1>2. /\ C \in Ctxs /\ Holds(g, C) /\ Len(stack[g]) \in Nat
      /\ Len(Held(g)) = Len(stack[g]) + 1 /\ Held(g)[Len(stack[g]) + 1] = C
      /\ \A i \in 1 .. Len(stack[g]) : Held(g)[i] = stack[g][i]
  BY <1>1, PuttingHolds
<1>3. pc'[g] = "code" /\ \A k \in Goroutines : k # g => pc'[k] = pc[k]
  BY DEF TypeOK
<1>4. Held(g)' = stack[g] /\ \A k \in Goroutines : k # g => Held(k)' = Held(k)
  BY <1>3 DEF Held, Putting
<1>5. \A i \in 1 .. Len(stack[g]) : stack[g][i] # C
  <2>1. \A i \in 1 .. Len(stack[g]) : i \in 1 .. Len(Held(g)) /\ i # Len(stack[g]) + 1
    BY <1>2
  <2>2. Len(stack[g]) + 1 \in 1 .. Len(Held(g))
    BY <1>2
  <2>. QED
    BY <1>2, <2>1, <2>2 DEF Apart
<1>6. \A k \in Goroutines : k # g => ~Holds(k, C)
  BY <1>2 DEF Apart, Holds
<1>7. ASSUME NEW k \in Goroutines, NEW d
      PROVE  Holds(k, d)' <=> Holds(k, d) /\ d # C
  <2>1. CASE k # g
    BY <1>4, <1>6, <2>1 DEF Holds
  <2>2. CASE k = g
    <3>1. Holds(g, d) <=> d = C \/ \E i \in 1 .. Len(stack[g]) : stack[g][i] = d
      <4>1. \A i : i \in 1 .. Len(Held(g)) <=> i \in 1 .. Len(stack[g]) \/ i = Len(stack[g]) + 1
        BY <1>2
      <4>. QED
        BY <1>2, <4>1 DEF Holds
    <3>2. Holds(g, d)' <=> \E i \in 1 .. Len(stack[g]) : stack[g][i] = d
      BY <1>4 DEF Holds
    <3>. QED
      BY <1>5, <2>2, <3>1, <3>2
  <2>. QED
    BY <2>1, <2>2
<1>8. C \in 1 .. made /\ ~Free(C)
  BY <1>2 DEF Free, Holds, Links
<1>9. \A d : Free(d)' <=> Free(d) \/ d = C
  <2>1. ASSUME NEW d PROVE Free(d)' <=> Free(d) \/ d = C
    <3>1. \A k \in Goroutines : Holds(k, d)' <=> Holds(k, d) /\ d # C
      BY <1>7
    <3>. QED
      BY <1>8, <3>1 DEF Free
  <2>. QED
    BY <2>1
<1>10. link[C] = ctxHead
  BY DEF Links
<1>11. TypeOK'
  BY <1>2 DEF TypeOK
<1>12. Apart'
  <2>1. \A k \in Goroutines : Len(Held(k)) \in Nat
    BY HeldSeq
  <2>2. \A k \in Goroutines : \A i \in 1 .. Len(Held(k)') :
            i \in 1 .. Len(Held(k)) /\ Held(k)'[i] = Held(k)[i]
    BY <1>2, <1>4, <2>1
  <2>. QED
    BY <2>2 DEF Apart
<1>13. Links'
  <2>1. ASSUME NEW k \in Goroutines, NEW i \in 1 .. Len(Held(k)')
        PROVE  Held(k)'[i] \in 1 .. made'
    <3>1. CASE k = g
      <4>1. i \in 1 .. Len(Held(g)) /\ Held(k)'[i] = Held(g)[i]
        BY <1>2, <1>4, <2>1, <3>1
      <4>. QED
        BY <4>1 DEF Links
    <3>2. CASE k # g
      BY <1>4, <2>1, <3>2 DEF Links
    <3>. QED
      BY <3>1, <3>2
  <2>2. \A k \in Goroutines : pc'[k] = "swap" => link'[ctx'[k]] = h'[k]
    BY <1>3 DEF Links
  <2>. QED
    BY <2>1, <2>2 DEF Links
<1>14. Places'
  <2>1. \A k \in Goroutines : /\ pc'[k] = "absent" <=> pc[k] = "absent"
                              /\ Poised(k)' => Poised(k)
                              /\ Putting(k)' => Putting(k)
                              /\ k \in Merging' => k \in Merging
    BY <1>3 DEF Poised, Putting, Merging
  <2>2. \A k \in Goroutines : Holds(k, h[k])' => Holds(k, h[k])
    <3>1. \A k \in Goroutines : Holds(k, h[k])' <=> Holds(k, h[k]) /\ h[k] # C
      BY <1>7
    <3>. QED
      BY <3>1
  <2>. QED
    BY <2>1, <2>2 DEF Places
<1>15. Chain'
  <2>1. ctxHead' # NULL => Free(ctxHead)'
    BY <1>9
  <2>2. ctxHead # NULL => Free(ctxHead) /\ ctxHead # C
    BY <1>8 DEF Chain
  <2>3. ASSUME NEW d \in Ctxs, Free(d)', link[d] # NULL
        PROVE  /\ Free(link[d]) /\ link[d] # d /\ link[d] # C
               /\ d # C => link[d] # ctxHead
    <3>1. CASE d = C
      BY <1>10, <2>2, <2>3, <3>1
    <3>2. CASE d # C
      BY <1>8, <1>9, <2>3, <3>2 DEF Chain
    <3>. QED
      BY <3>1, <3>2
  <2>4. ASSUME NEW d \in Ctxs, Free(d)', link'[d] # NULL
        PROVE  Free(link[d])' /\ link'[d] # d /\ link'[d] # ctxHead'
    BY <1>9, <2>3, <2>4
  <2>5. ASSUME NEW d \in Ctxs, NEW e \in Ctxs, Free(d)', Free(e)',
               link[d] = link[e], link[d] # NULL
        PROVE  d = e
    <3>1. CASE d = C \/ e = C
      BY <1>10, <2>3, <2>5, <3>1
    <3>2. CASE d # C /\ e # C
      BY <1>9, <2>5, <3>2 DEF Chain
    <3>. QED
      BY <3>1, <3>2
  <2>. QED
    BY <2>1, <2>4, <2>5 DEF Chain
<1>16. Undisturbed'
  <2>1. \A x, k \in Goroutines : pc'[x] = "link" /\ Putting(k)' => FALSE
    BY <1>3, TheOther DEF Putting
  <2>. QED
    BY <2>1 DEF Undisturbed
<1>17. AllFresh'
  <2>. SUFFICES ASSUME NEW x \in Goroutines, pc'[x] = "take", next'[x] # NULL
                PROVE  Fresh(x)'
    BY DEF AllFresh
  <2>. DEFINE H == h[x]
              X == next[x]
  <2>1. x # g /\ pc[x] = "take" /\ h'[x] = H /\ next'[x] = X /\ X # NULL /\ Fresh(x)
    BY <1>3 DEF AllFresh
  <2>2. ~Holds(x, H) /\ \A k \in Goroutines : k # x => k = g
    BY <2>1, TheOther DEF Places, Poised
  <2>3. X # H /\ (Free(X) => X # C)
    BY <1>8, <2>1 DEF Fresh
  <2>4. Lost(X) => Lost(X)'
    <3>. SUFFICES ASSUME Lost(X) PROVE Lost(X)'
      OBVIOUS
    <3>1. Free(X) /\ X # ctxHead /\ \A d \in Ctxs : Free(d) => link[d] # X
      BY DEF Lost
    <3>2. Free(X)' /\ X # ctxHead' /\ \A d \in Ctxs : Free(d)' => link'[d] # X
      BY <1>9, <1>10, <2>3, <3>1
    <3>. QED
      BY <2>1, <3>2 DEF Lost
  <2>5. ASSUME Free(H)'
        PROVE  /\ Free(X)' /\ X # ctxHead'
               /\ \A d \in Ctxs : Free(d)' /\ link'[d] = X => d = H
    <3>1. CASE Free(H)
      <4>1. Free(X) /\ X # ctxHead /\ \A d \in Ctxs : Free(d) /\ link[d] = X => d = H
        BY <2>1, <3>1 DEF Fresh
      <4>. QED
        BY <1>9, <1>10, <2>1, <2>3, <4>1
    <3>2. CASE H = C
      <4>1. X = ctxHead \/ Lost(X)
        <5>1. /\ Len(Held(g)) \in 1 .. Len(Held(g)) /\ Held(g)[Len(Held(g))] = H
              /\ ~(Len(Held(g)) < Len(Held(g)))
          BY <1>2, <3>2
        <5>. QED
          BY <2>1, <5>1 DEF Fresh, Above
      <4>2. Free(X) /\ \A d \in Ctxs : Free(d) => link[d] # X
        BY <2>1, <4>1 DEF Lost, Chain
      <4>. QED
        BY <1>9, <2>1, <2>3, <3>2, <4>2
    <3>. QED
      BY <1>9, <2>1, <2>5, <3>1, <3>2
  <2>6. ASSUME NEW k \in Goroutines, NEW i \in 1 .. Len(Held(k)'), Held(k)'[i] = H
        PROVE  Above(k, i)' = X \/ Lost(X)'
    <3>1. k = g
      BY <1>4, <2>1, <2>2, <2>6 DEF Holds
    <3>2. /\ i \in 1 .. Len(stack[g]) /\ i \in 1 .. Len(Held(g))
          /\ Held(g)[i] = H /\ Held(g)' = stack[g]
      BY <1>2, <1>4, <2>6, <3>1
    <3>3. Above(g, i) = X \/ Lost(X)
      BY <2>1, <3>2 DEF Fresh
    <3>4. Above(g, i)' = Above(g, i)
      <4>1. Above(g, i) = Held(g)[i + 1]
        BY <1>2, <3>2 DEF Above
      <4>2. CASE i < Len(stack[g])
        BY <1>2, <3>2, <4>1, <4>2 DEF Above
      <4>3. CASE i = Len(stack[g])
        BY <1>2, <3>2, <4>1, <4>3 DEF Above
      <4>. QED
        BY <1>2, <3>2, <4>2, <4>3
    <3>. QED
      BY <2>4, <3>1, <3>3, <3>4
  <2>7. ASSUME NEW k \in Goroutines, pc'[k] = "take", next'[k] = X
        PROVE  h'[k] = H
    BY <1>3, <2>1, <2>7 DEF Fresh
  <2>. QED
    BY <2>1, <2>3, <2>5, <2>6, <2>7 DEF Fresh
<1>. QED
  BY <1>11, <1>12, <1>13, <1>14, <1>15, <1>16, <1>17

-----------------------------------------------------------------------------
(* Every step.                                                              *)

LEMMA MergingAlone ==
    ASSUME TwoGoroutines, TypeOK, runs + Cardinality(Merging) < MaxRuns
    PROVE  runs = 0 /\ MaxRuns = 1
<1>1. Merging \subseteq 0 .. MaxRuns /\ MaxRuns \in Nat /\ runs \in Nat
  BY DEF Merging, Goroutines, TypeOK, TwoGoroutines, PoolAssumption
<1>2. IsFiniteSet(Merging)
  <2>1. IsFiniteSet(0 .. MaxRuns)
    BY <1>1, FS_Interval
  <2>. QED
    BY <1>1, <2>1, FS_Subset
<1>3. Cardinality(Merging) \in Nat
  BY <1>2, FS_CardinalityType
<1>. QED
  BY <1>1, <1>3 DEF TwoGoroutines

LEMMA CallKeeps ==
    ASSUME TwoGoroutines, PInv, NEW g \in Goroutines, Call(g) \/ Merge(g)
    PROVE  PInv'
<1>1. /\ pc[g] = "code" /\ pc' = [pc EXCEPT ![g] = "load"]
      /\ \/ want' = [want EXCEPT ![g] = "call"]
         \/ want' = [want EXCEPT ![g] = "merge"] /\ runs + Cardinality(Merging) < MaxRuns
      /\ UNCHANGED <<ctxHead, link, made, runs, stack, h, next, ctx>>
  BY DEF Call, Merge, Goto
<1>2. TypeOK'
  BY <1>1 DEF PInv, TypeOK
<1>3. Quiet(g) /\ pc'[g] = "load"
  BY <1>1 DEF Quiet, SameHeld, Held, Putting, PInv, TypeOK
<1>4. g \in Merging' => runs = 0 /\ MaxRuns = 1
  <2>1. CASE want' = [want EXCEPT ![g] = "call"]
    BY <2>1 DEF Merging, PInv, TypeOK
  <2>. QED
    BY <1>1, <2>1, MergingAlone DEF PInv
<1>5. \A i \in 1 .. Len(stack'[g]) : link[stack'[g][i]] = NULL
  BY <1>1 DEF PInv, Links
<1>. QED
  BY <1>1, <1>2, <1>3, <1>4, <1>5, QuietKeeps

LEMMA LoadKeeps ==
    ASSUME TwoGoroutines, PInv, NEW g \in Goroutines, Load(g)
    PROVE  PInv'
<1>1. pc[g] = "load" /\ UNCHANGED <<ctxHead, link, want, next, ctx>>
  BY DEF Load
<1>2. CASE ctxHead # NULL
  <2>1. /\ h' = [h EXCEPT ![g] = ctxHead] /\ pc' = [pc EXCEPT ![g] = "link"]
        /\ UNCHANGED <<made, stack, runs>>
    BY <1>2 DEF Load, Goto
  <2>2. TypeOK'
    BY <1>1, <2>1 DEF PInv, TypeOK
  <2>3. Quiet(g) /\ pc'[g] = "link" /\ h'[g] = ctxHead
    BY <1>1, <2>1 DEF Quiet, SameHeld, Held, Putting, PInv, TypeOK
  <2>4. g \in Merging' => runs = 0 /\ MaxRuns = 1
    BY <1>1 DEF PInv, Places, Merging
  <2>5. \A i \in 1 .. Len(stack'[g]) : link[stack'[g][i]] = NULL
    BY <2>1 DEF PInv, Links
  <2>. QED
    BY <1>1, <1>2, <2>2, <2>3, <2>4, <2>5, QuietKeeps
<1>3. CASE ctxHead = NULL
  <2>1. made < MaxCtxs /\ made' = made + 1 /\ Use(g, made + 1) /\ UNCHANGED h
    BY <1>3 DEF Load
  <2>2. made + 1 \in Ctxs
    BY <2>1 DEF PInv, TypeOK, Ctxs, TwoGoroutines, PoolAssumption
  <2>3. PICK r \in Goroutines : Grabbed(g, r, made + 1)
    BY <1>1, <2>1, <2>2, UseGrabs DEF PInv
  <2>. QED
    BY <1>1, <1>3, <2>1, <2>3, MakeKeeps
<1>. QED
  BY <1>2, <1>3

LEMMA TakingKeeps ==
    ASSUME TwoGoroutines, PInv, NEW g \in Goroutines, Take(g)
    PROVE  PInv'
<1>1. pc[g] = "take" /\ UNCHANGED <<made, want, h, next, ctx>>
  BY DEF Take
<1>2. CASE ctxHead = h[g]
  <2>1. ctxHead' = next[g] /\ link' = [link EXCEPT ![h[g]] = NULL] /\ Use(g, h[g])
    BY <1>2 DEF Take
  <2>2. h[g] \in Ctxs
    <3>1. h[g] \in 1 .. made
      BY <1>1 DEF PInv, Places, Poised
    <3>. QED
      BY <3>1 DEF PInv, TypeOK, Ctxs, TwoGoroutines, PoolAssumption
  <2>3. PICK r \in Goroutines : Grabbed(g, r, h[g])
    BY <1>1, <2>1, <2>2, UseGrabs DEF PInv
  <2>. QED
    BY <1>1, <1>2, <2>1, <2>3, TakeKeeps
<1>3. CASE ctxHead # h[g]
  <2>1. pc' = [pc EXCEPT ![g] = "load"] /\ UNCHANGED <<ctxHead, link, stack, runs>>
    BY <1>3 DEF Take, Goto
  <2>2. TypeOK'
    BY <1>1, <2>1 DEF PInv, TypeOK
  <2>3. Quiet(g) /\ pc'[g] = "load"
    BY <1>1, <2>1 DEF Quiet, SameHeld, Held, Putting, PInv, TypeOK
  <2>4. g \in Merging' => runs = 0 /\ MaxRuns = 1
    BY <1>1 DEF PInv, Places, Merging
  <2>5. \A i \in 1 .. Len(stack'[g]) : link[stack'[g][i]] = NULL
    BY <2>1 DEF PInv, Links
  <2>. QED
    BY <1>1, <2>2, <2>3, <2>4, <2>5, QuietKeeps
<1>. QED
  BY <1>2, <1>3

LEMMA ReturnKeeps ==
    ASSUME TwoGoroutines, PInv, NEW g \in Goroutines, Return(g)
    PROVE  PInv'
<1>. DEFINE s == stack[g]
            n == Len(s)
<1>1. /\ pc[g] = "code" /\ n > 1 /\ ctx' = [ctx EXCEPT ![g] = s[n]]
      /\ stack' = [stack EXCEPT ![g] = SubSeq(s, 1, n - 1)]
      /\ pc' = [pc EXCEPT ![g] = "put"]
      /\ UNCHANGED <<ctxHead, link, made, runs, want, h, next>>
  BY DEF Return, Goto
<1>2. s \in Seq(Ctxs) /\ n \in Nat
  BY DEF PInv, TypeOK
<1>3. /\ SubSeq(s, 1, n - 1) \in Seq(Ctxs) /\ s[n] \in Ctxs
      /\ Len(SubSeq(s, 1, n - 1)) = n - 1
      /\ \A i \in 1 .. n - 1 : SubSeq(s, 1, n - 1)[i] = s[i]
      /\ Append(SubSeq(s, 1, n - 1), s[n]) = s
  <2>1. /\ Len(SubSeq(s, 1, n - 1)) = n - 1
        /\ \A i \in 1 .. n - 1 : SubSeq(s, 1, n - 1)[i] = s[i]
    BY <1>1, <1>2
  <2>2. s[n] \in Ctxs /\ SubSeq(s, 1, n - 1) \in Seq(Ctxs)
    BY <1>1, <1>2
  <2>3. Append(SubSeq(s, 1, n - 1), s[n]) = s
    BY <1>1, <1>2
  <2>. QED
    BY <2>1, <2>2, <2>3
<1>4. TypeOK'
  BY <1>1, <1>3 DEF PInv, TypeOK
<1>5. /\ pc'[g] = "put" /\ ctx'[g] = s[n] /\ stack'[g] = SubSeq(s, 1, n - 1)
      /\ \A k \in Goroutines \ {g} : /\ pc'[k] = pc[k] /\ stack'[k] = stack[k]
                                     /\ ctx'[k] = ctx[k]
  BY <1>1 DEF PInv, TypeOK
<1>6. SameHeld
  <2>1. \A k \in Goroutines \ {g} : Held(k)' = Held(k)
    BY <1>5 DEF Held, Putting
  <2>2. Held(g)' = Held(g)
    BY <1>1, <1>3, <1>5 DEF Held, Putting
  <2>. QED
    BY <2>1, <2>2 DEF SameHeld
<1>7. Quiet(g)
  BY <1>1, <1>5, <1>6 DEF Quiet
<1>8. \A i \in 1 .. n : link[s[i]] = NULL
  BY DEF PInv, Links
<1>9. \A i \in 1 .. Len(stack'[g]) : link[stack'[g][i]] = NULL
  BY <1>1, <1>2, <1>3, <1>5, <1>8
<1>10. link[ctx'[g]] = NULL
  BY <1>1, <1>2, <1>5, <1>8
<1>11. g \notin Merging'
  BY <1>5 DEF Merging
<1>. QED
  BY <1>1, <1>3, <1>4, <1>5, <1>7, <1>9, <1>10, <1>11, QuietKeeps

LEMMA PutSwapKeeps ==
    ASSUME TwoGoroutines, PInv, NEW g \in Goroutines, PutSwap(g)
    PROVE  PInv'
<1>1. pc[g] = "swap" /\ UNCHANGED <<link, made, runs, stack, want, h, next, ctx>>
  BY DEF PutSwap
<1>2. CASE ctxHead = h[g]
  BY <1>1, <1>2, SwapKeeps DEF PutSwap, Goto
<1>3. CASE ctxHead # h[g]
  <2>1. pc' = [pc EXCEPT ![g] = "put"] /\ UNCHANGED ctxHead
    BY <1>3 DEF PutSwap, Goto
  <2>2. TypeOK'
    BY <1>1, <2>1 DEF PInv, TypeOK
  <2>3. Quiet(g) /\ pc'[g] = "put"
    BY <1>1, <2>1 DEF Quiet, SameHeld, Held, Putting, PInv, TypeOK
  <2>4. g \notin Merging'
    BY <2>3 DEF Merging
  <2>5. \A i \in 1 .. Len(stack'[g]) : link[stack'[g][i]] = NULL
    BY <1>1 DEF PInv, Links
  <2>6. Putting(g) /\ ctx'[g] \in Ctxs
    BY <1>1 DEF PInv, Places, Putting
  <2>7. \A x \in Goroutines : x # g /\ pc[x] = "link" /\ ctx'[g] = h[x] => link[h[x]] = NULL
    BY <1>1, <1>3, <2>6 DEF PInv, Undisturbed
  <2>. QED
    BY <1>1, <2>2, <2>3, <2>4, <2>5, <2>6, <2>7, QuietKeeps
<1>. QED
  BY <1>2, <1>3

LEMMA NextKeeps ==
    ASSUME TwoGoroutines, PInv, [Next]_vars
    PROVE  PInv'
<1>1. CASE Next
  <2>1. PICK g \in Goroutines : \/ Call(g) \/ Merge(g) \/ Load(g) \/ ReadLink(g) \/ Take(g)
                                \/ Return(g) \/ PutLoad(g) \/ PutSwap(g)
    BY <1>1 DEF Next
  <2>. QED
    BY <2>1, CallKeeps, LoadKeeps, ReadKeeps, TakingKeeps, ReturnKeeps, PutLoadKeeps,
       PutSwapKeeps
<1>2. CASE UNCHANGED vars
  <2>. USE <1>2 DEF vars
  <2>1. TypeOK'
    BY DEF PInv, TypeOK
  <2>2. SameHeld
    BY DEF SameHeld, Held, Putting
  <2>3. /\ \A k \in Goroutines : \A c : Holds(k, c)' <=> Holds(k, c)
        /\ \A c : Free(c)' <=> Free(c)
    BY <2>2, SameFree
  <2>4. Places' /\ Apart' /\ Links' /\ Chain'
    <3>1. Places'
      BY <2>3 DEF PInv, Places, Putting, Poised, Merging
    <3>2. Apart' /\ Links'
      BY <2>2 DEF PInv, Apart, Links, SameHeld
    <3>3. Chain'
      BY <2>3 DEF PInv, Chain
    <3>. QED
      BY <3>1, <3>2, <3>3
  <2>5. Undisturbed'
    BY DEF PInv, Undisturbed, Putting
  <2>6. AllFresh'
    <3>. SUFFICES ASSUME NEW x \in Goroutines, pc'[x] = "take", next'[x] # NULL
                  PROVE  Fresh(x)'
      BY DEF AllFresh
    <3>1. Fresh(x) /\ \A k \in Goroutines : pc'[k] = "take" /\ next'[k] = next[x] => h'[k] = h[x]
      BY DEF PInv, AllFresh, Fresh
    <3>. QED
      BY <2>2, <3>1, FreshStays
  <2>. QED
    BY <2>1, <2>4, <2>5, <2>6 DEF PInv
<1>. QED
  BY <1>1, <1>2

LEMMA InitHolds ==
    ASSUME TwoGoroutines, Init
    PROVE  PInv
<1>1. /\ 0 \in Goroutines /\ 1 \in Ctxs /\ MaxRuns \in Nat /\ MaxCtxs \in Nat /\ made = 1
      /\ \A g \in Goroutines : g \in Nat
  BY DEF TwoGoroutines, PoolAssumption, Goroutines, Ctxs, Init
<1>2. /\ pc[0] = "code" /\ stack[0] = <<1>>
      /\ \A g \in Goroutines : g # 0 => pc[g] = "absent" /\ stack[g] = <<>>
      /\ \A g \in Goroutines : ~Putting(g) /\ ~Poised(g) /\ g \notin Merging
  BY <1>1 DEF Init, Putting, Poised, Merging
<1>3. Held(0) = <<1>> /\ \A g \in Goroutines : g # 0 => Held(g) = <<>>
  BY <1>1, <1>2 DEF Held
<1>4. \A g \in Goroutines : \A i \in 1 .. Len(Held(g)) : g = 0 /\ i = 1 /\ Held(g)[i] = 1
  <2>1. Len(<<1>>) = 1 /\ <<1>>[1] = 1 /\ 1 .. 1 = {1} /\ Len(<<>>) = 0 /\ 1 .. 0 = {}
    OBVIOUS
  <2>2. ASSUME NEW g \in Goroutines, NEW i \in 1 .. Len(Held(g))
        PROVE  g = 0 /\ i = 1 /\ Held(g)[i] = 1
    <3>1. CASE g = 0
      BY <1>3, <2>1, <2>2, <3>1
    <3>2. CASE g # 0
      BY <1>3, <2>1, <2>2, <3>2
    <3>. QED
      BY <3>1, <3>2
  <2>. QED
    BY <2>2
<1>5. \A c : ~Free(c)
  <2>1. Holds(0, 1)
    BY <1>3 DEF Holds
  <2>. QED
    BY <1>1, <2>1 DEF Free
<1>6. TypeOK
  <2>1. stack \in [Goroutines -> Seq(Ctxs)]
    BY <1>1 DEF Init
  <2>. QED
    BY <1>1, <2>1 DEF Init, TypeOK
<1>7. Places
  BY <1>1, <1>2 DEF Places, Init
<1>8. Apart
  BY <1>4 DEF Apart
<1>9. Links
  <2>1. \A g \in Goroutines : \A i \in 1 .. Len(stack[g]) : stack[g][i] = 1
    BY <1>1, <1>2
  <2>. QED
    BY <1>1, <1>2, <1>4, <2>1 DEF Links, Init, Putting
<1>10. Chain /\ Undisturbed /\ AllFresh
  BY <1>2, <1>5 DEF Chain, Undisturbed, AllFresh, Init, Poised
<1>. QED
  BY <1>6, <1>7, <1>8, <1>9, <1>10 DEF PInv

-----------------------------------------------------------------------------
(* What two goroutines can rely on.                                         *)

LEMMA Invariant == ASSUME TwoGoroutines PROVE Spec => []PInv
<1>1. Init => PInv
  BY InitHolds
<1>2. PInv /\ [Next]_vars => PInv'
  BY NextKeeps
<1>. QED
  BY <1>1, <1>2, PTL DEF Spec

\* newCtx and putCtx (value.go), "it is safe for taskm threads (CAS breaks no
\* shared state)": with at most one goroutine besides main, no two active calls
\* share a context, whatever the depth of the calls and the number of contexts.
\* Only one goroutine can then move the head while another is between its read
\* of the link and its swap, and it puts contexts back in the reverse of the
\* order it took them: when the head is the loaded one again, its link is the
\* one that was read.
THEOREM OneUserOfTwo == ASSUME TwoGoroutines PROVE Spec => []OneUser
<1>1. PInv => OneUser
  <2>. SUFFICES ASSUME PInv, NEW g \in Goroutines, NEW k \in Goroutines,
                       NEW i \in DOMAIN stack[g], NEW j \in DOMAIN stack[k],
                       stack[g][i] = stack[k][j]
                PROVE  g = k /\ i = j
    BY DEF OneUser
  <2>1. ASSUME NEW x \in Goroutines, NEW n \in DOMAIN stack[x]
        PROVE  n \in 1 .. Len(Held(x)) /\ Held(x)[n] = stack[x][n]
    <3>1. n \in 1 .. Len(stack[x]) /\ Len(stack[x]) \in Nat
      BY <2>1 DEF PInv, TypeOK
    <3>2. CASE Putting(x)
      BY <3>1, <3>2, PuttingHolds DEF PInv
    <3>3. CASE ~Putting(x)
      BY <3>1, <3>3 DEF Held
    <3>. QED
      BY <3>2, <3>3
  <2>. QED
    BY <2>1 DEF PInv, Apart
<1>. QED
  BY <1>1, Invariant, PTL

\* The head of the chain and every link reachable from it are contexts that no
\* call uses and that no goroutine is putting back: newCtx never takes one of
\* those, and the chain has no cycle through its head.
THEOREM ChainIsFree == ASSUME TwoGoroutines PROVE Spec => [](TypeOK /\ Chain)
<1>1. PInv => TypeOK /\ Chain
  BY DEF PInv
<1>. QED
  BY <1>1, Invariant, PTL
=============================================================================

------------------------------- MODULE CtxPool -------------------------------
(***************************************************************************)
(* The interpreter's pool of call contexts (newCtx and putCtx,             *)
(* internal/lang/value.go): a chain of free contexts whose head is swapped *)
(* by compare-and-swap, shared by the main goroutine and the goroutines of *)
(* merged functions.                                                       *)
(*                                                                         *)
(* A call takes a context and puts it back when it returns, so a goroutine *)
(* holds its contexts as a stack; the context of a run is taken by the     *)
(* merging goroutine, is the run's first, and is never put back, like      *)
(* main's own.  Each access to the head or to a link is a step.            *)
(***************************************************************************)
EXTENDS Naturals, Sequences, FiniteSets

CONSTANTS
    MaxRuns,  \* bound: goroutines besides main
    MaxCtxs,  \* bound: contexts ever allocated
    MaxDepth, \* bound: nested calls
    NULL

Goroutines == 0 .. MaxRuns
Ctxs == 1 .. MaxCtxs

PoolAssumption ==
    /\ MaxRuns \in Nat /\ MaxDepth \in Nat
    /\ MaxCtxs \in Nat \ {0}
    /\ NULL \notin Ctxs

VARIABLES
    ctxHead,
    link,   \* context -> the next one of the chain
    made,   \* contexts allocated so far
    runs,   \* goroutines started so far, besides main
    stack,  \* goroutine -> the contexts of its active calls, outermost first
    pc,
    want,   \* goroutine -> "call" or "merge": what its newCtx is for
    h,      \* goroutine -> the head it loaded
    next,   \* goroutine -> the link it read
    ctx     \* goroutine -> the context its putCtx returns

vars == <<ctxHead, link, made, runs, stack, pc, want, h, next, ctx>>

Init ==
    /\ ctxHead = NULL
    /\ link = [c \in Ctxs |-> NULL]
    /\ made = 1
    /\ runs = 0
    /\ stack = [g \in Goroutines |-> IF g = 0 THEN <<1>> ELSE <<>>]
    /\ pc = [g \in Goroutines |-> IF g = 0 THEN "code" ELSE "absent"]
    /\ want = [g \in Goroutines |-> "call"]
    /\ h = [g \in Goroutines |-> NULL]
    /\ next = [g \in Goroutines |-> NULL]
    /\ ctx = [g \in Goroutines |-> NULL]

Goto(g, l) == pc' = [pc EXCEPT ![g] = l]

-----------------------------------------------------------------------------
\* callFunc, and runOnThread, up to newCtx.
Call(g) ==
    /\ pc[g] = "code"
    /\ Len(stack[g]) < MaxDepth
    /\ want' = [want EXCEPT ![g] = "call"]
    /\ Goto(g, "load")
    /\ UNCHANGED <<ctxHead, link, made, runs, stack, h, next, ctx>>

Merging == {g \in Goroutines : want[g] = "merge" /\ pc[g] \in {"load", "link", "take"}}

Merge(g) ==
    /\ pc[g] = "code"
    /\ runs + Cardinality(Merging) < MaxRuns
    /\ want' = [want EXCEPT ![g] = "merge"]
    /\ Goto(g, "load")
    /\ UNCHANGED <<ctxHead, link, made, runs, stack, h, next, ctx>>

\* The context a newCtx took: a call nests on it, a merge starts a goroutine.
Use(g, c) ==
    IF want[g] = "call"
    THEN /\ stack' = [stack EXCEPT ![g] = Append(@, c)]
         /\ Goto(g, "code")
         /\ UNCHANGED runs
    ELSE /\ stack' = [stack EXCEPT ![runs + 1] = <<c>>]
         /\ pc' = [pc EXCEPT ![g] = "code", ![runs + 1] = "code"]
         /\ runs' = runs + 1

\* ctxHead.Load(): an empty chain means a new context.
Load(g) ==
    /\ pc[g] = "load"
    /\ \/ /\ ctxHead # NULL
          /\ h' = [h EXCEPT ![g] = ctxHead]
          /\ Goto(g, "link")
          /\ UNCHANGED <<made, stack, runs>>
       \/ /\ ctxHead = NULL
          /\ made < MaxCtxs
          /\ made' = made + 1
          /\ Use(g, made + 1)
          /\ UNCHANGED h
    /\ UNCHANGED <<ctxHead, link, want, next, ctx>>

\* The argument of CompareAndSwap(h, h.link), read before the swap.
ReadLink(g) ==
    /\ pc[g] = "link"
    /\ next' = [next EXCEPT ![g] = link[h[g]]]
    /\ Goto(g, "take")
    /\ UNCHANGED <<ctxHead, link, made, runs, stack, want, h, ctx>>

\* Take as a mutation: a store instead of a compare-and-swap.
TakeStores(g) ==
    /\ pc[g] = "take"
    /\ ctxHead' = next[g]
    /\ link' = [link EXCEPT ![h[g]] = NULL]
    /\ Use(g, h[g])
    /\ UNCHANGED <<made, want, h, next, ctx>>

Take(g) ==
    /\ pc[g] = "take"
    /\ \/ /\ ctxHead = h[g]
          /\ ctxHead' = next[g]
          /\ link' = [link EXCEPT ![h[g]] = NULL]
          /\ Use(g, h[g])
       \/ /\ ctxHead # h[g]
          /\ Goto(g, "load")
          /\ UNCHANGED <<ctxHead, link, stack, runs>>
    /\ UNCHANGED <<made, want, h, next, ctx>>

\* A call returns; the deferred putCtx, its load and its swap.
Return(g) ==
    /\ pc[g] = "code"
    /\ Len(stack[g]) > 1
    /\ ctx' = [ctx EXCEPT ![g] = stack[g][Len(stack[g])]]
    /\ stack' = [stack EXCEPT ![g] = SubSeq(@, 1, Len(@) - 1)]
    /\ Goto(g, "put")
    /\ UNCHANGED <<ctxHead, link, made, runs, want, h, next>>

PutLoad(g) ==
    /\ pc[g] = "put"
    /\ h' = [h EXCEPT ![g] = ctxHead]
    /\ link' = [link EXCEPT ![ctx[g]] = ctxHead]
    /\ Goto(g, "swap")
    /\ UNCHANGED <<ctxHead, made, runs, stack, want, next, ctx>>

PutSwap(g) ==
    /\ pc[g] = "swap"
    /\ \/ /\ ctxHead = h[g]
          /\ ctxHead' = ctx[g]
          /\ Goto(g, "code")
       \/ /\ ctxHead # h[g]
          /\ Goto(g, "put")
          /\ UNCHANGED ctxHead
    /\ UNCHANGED <<link, made, runs, stack, want, h, next, ctx>>

Next == \E g \in Goroutines :
            \/ Call(g) \/ Merge(g) \/ Load(g) \/ ReadLink(g) \/ Take(g)
            \/ Return(g) \/ PutLoad(g) \/ PutSwap(g)

Spec == Init /\ [][Next]_vars

-----------------------------------------------------------------------------
\* A context serves one active call: "it is safe for taskm threads (CAS breaks
\* no shared state)" (newCtx).  Two calls on one context would evaluate in each
\* other's scope and arguments.
OneUser ==
    \A g, k \in Goroutines : \A i \in DOMAIN stack[g], j \in DOMAIN stack[k] :
        stack[g][i] = stack[k][j] => g = k /\ i = j
=============================================================================

----------------------------- MODULE BlockStore -----------------------------
(***************************************************************************)
(* What a program may rely on in the allocator: a set of live objects, each *)
(* with the owner it was allocated for and the size last asked for.  A      *)
(* thread allocates for the task it runs, and the end of that task takes    *)
(* the task's objects and no other.                                         *)
(***************************************************************************)
CONSTANTS
    Threads,
    Names,   \* the objects there may be
    TaskIds, \* 0, no member, stands for a thread's own program
    Sizes

VARIABLES
    live,   \* the live objects: name -> [owner, size]
    running \* thread -> the task it runs, or 0

Init == /\ live = [x \in {} |-> 0]
        /\ running = [t \in Threads |-> 0]

Alloc(t, x, n) ==
    /\ x \notin DOMAIN live
    /\ live' = [y \in DOMAIN live \cup {x} |->
                  IF y = x THEN [owner |-> running[t], size |-> n] ELSE live[y]]
    /\ UNCHANGED running

Release(x) ==
    /\ live' = [y \in DOMAIN live \ {x} |-> live[y]]
    /\ UNCHANGED running

Resize(x, n) ==
    /\ live' = [live EXCEPT ![x].size = n]
    /\ UNCHANGED running

\* x goes on as y, for the same owner.
Move(x, y, n) ==
    /\ y \notin DOMAIN live
    /\ live' = [z \in (DOMAIN live \ {x}) \cup {y} |->
                  IF z = y THEN [owner |-> live[x].owner, size |-> n] ELSE live[z]]
    /\ UNCHANGED running

Begin(t, id) ==
    /\ running[t] = 0
    /\ running' = [running EXCEPT ![t] = id]
    /\ UNCHANGED live

End(t) ==
    /\ running[t] # 0
    /\ live' = [y \in {x \in DOMAIN live : live[x].owner # running[t]} |-> live[y]]
    /\ running' = [running EXCEPT ![t] = 0]

Next ==
    \/ \E t \in Threads, x \in Names, n \in Sizes : Alloc(t, x, n)
    \/ \E x \in DOMAIN live : \/ Release(x)
                              \/ \E n \in Sizes : Resize(x, n)
                              \/ \E y \in Names, n \in Sizes : Move(x, y, n)
    \/ \E t \in Threads : End(t) \/ \E id \in TaskIds : Begin(t, id)

Spec == Init /\ [][Next]_<<live, running>>
=============================================================================

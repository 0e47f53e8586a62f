---------------------------- MODULE ThreadService ----------------------------
(***************************************************************************)
(* What a program may rely on in taskm, whichever implementation runs it:  *)
(* a thread that is idle can be given a job; the job is begun once, runs   *)
(* alone on its thread, and its memory is gone before the thread is idle   *)
(* again, when the next job may come.                                      *)
(***************************************************************************)
CONSTANTS
    Pids, \* the threads there may be
    Jobs  \* the merges there may be

VARIABLES
    spawned, \* the threads there are
    stage,   \* thread -> "idle", "merged", "running" or "over"
    job,     \* thread -> its latest job
    called,  \* the jobs whose function has been called
    holding  \* the threads with memory that is not reclaimed

serviceVars == <<spawned, stage, job, called, holding>>

Init ==
    /\ spawned = {}
    /\ stage = [p \in Pids |-> "idle"]
    /\ job = [p \in Pids |-> 0]
    /\ called = {}
    /\ holding = {}

Spawn(p) ==
    /\ p \notin spawned
    /\ spawned' = spawned \cup {p}
    /\ UNCHANGED <<stage, job, called, holding>>

\* A thread gets a job that no thread has been given.
Merge(p, j) ==
    /\ p \in spawned
    /\ stage[p] = "idle"
    /\ j \notin called
    /\ \A q \in Pids : stage[q] # "idle" => job[q] # j
    /\ stage' = [stage EXCEPT ![p] = "merged"]
    /\ job' = [job EXCEPT ![p] = j]
    /\ UNCHANGED <<spawned, called, holding>>

\* The job's function is called, with memory from the start or none yet.
Begin(p) ==
    /\ stage[p] = "merged"
    /\ job[p] \notin called
    /\ stage' = [stage EXCEPT ![p] = "running"]
    /\ called' = called \cup {job[p]}
    /\ holding' \in {holding, holding \cup {p}}
    /\ UNCHANGED <<spawned, job>>

Allocate(p) ==
    /\ stage[p] = "running"
    /\ holding' = holding \cup {p}
    /\ UNCHANGED <<spawned, stage, job, called>>

\* The memory of a job is reclaimed: all of it, and nobody else's.
End(p) ==
    /\ stage[p] = "running"
    /\ stage' = [stage EXCEPT ![p] = "over"]
    /\ holding' = holding \ {p}
    /\ UNCHANGED <<spawned, job, called>>

BecomeIdle(p) ==
    /\ stage[p] = "over"
    /\ stage' = [stage EXCEPT ![p] = "idle"]
    /\ UNCHANGED <<spawned, job, called, holding>>

Next == \E p \in Pids :
            \/ Spawn(p)
            \/ \E j \in Jobs : Merge(p, j)
            \/ Begin(p) \/ Allocate(p) \/ End(p) \/ BecomeIdle(p)

Spec == Init /\ [][Next]_serviceVars
=============================================================================

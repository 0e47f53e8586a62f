------------------------------ MODULE TaskPool ------------------------------
(***************************************************************************)
(* The compiled runtime's thread pool (compiler/qthreads.c.txt, the POSIX  *)
(* branch): a ring of task handles under a spinlock, a fixed set of worker *)
(* threads that pop and run them, one mutex + condition variable both the  *)
(* idle workers and the producers of a full ring sleep on, and the calls a *)
(* program makes: ql_spawn, ql_merge, ql_block, ql_done.                   *)
(*                                                                         *)
(* A step is a piece of code between two accesses to shared memory that    *)
(* another thread can interleave with.  The mutex qsmu protects no data    *)
(* and is held only around one signal or one wait, so "lock qsmu; wait" is *)
(* one step and so is "lock qsmu; signal; unlock".                         *)
(***************************************************************************)
EXTENDS Naturals, Sequences, FiniteSets

CONSTANTS
    Main,        \* the main thread
    Workers,     \* the threads qpool_ensure creates (QPOOL_N of them)
    Callers,     \* threads whose program code calls ql_merge and ql_block
    Spawners,    \* threads whose program code calls ql_spawn
    ReMerge,     \* the program may merge a thread that is not idle
    RaceSpawns,  \* two threads of the program may be inside ql_spawn at once
    Orphans,     \* a task may end while threads it spawned are in use
    QCAP,        \* capacity of the ring
    QMAXTASK,    \* ids are 1 .. QMAXTASK - 1
    MaxHandles,  \* bound: ql_task objects ever allocated
    MaxMerges,   \* bound: ql_merge calls ever made
    MaxStorage,  \* bound: blocks a task may hold at once
    NULL

Threads == {Main} \cup Workers
Handles == 1 .. MaxHandles
Ids == 1 .. QMAXTASK - 1
Owners == 0 .. QMAXTASK - 1
Slots == 0 .. QCAP - 1

ASSUME ThreadsAssumption == /\ Main \notin Workers
                            /\ Callers \subseteq Threads
                            /\ Spawners \subseteq Threads
                            /\ {ReMerge, RaceSpawns, Orphans} \subseteq BOOLEAN
ASSUME SizesAssumption == /\ QCAP \in Nat \ {0}
                          /\ QMAXTASK \in Nat \ {0}
                          /\ MaxHandles \in Nat
                          /\ MaxMerges \in Nat
                          /\ MaxStorage \in Nat
ASSUME NullAssumption == NULL \notin Handles \cup Threads

VARIABLES
    qtasks,         \* id -> handle or NULL: the table ql_merge and ql_block read
    qtasks_n,       \* last id given out
    allocated,      \* number of ql_task objects allocated so far
    task,           \* handle -> its fields
    freed,          \* handles whose storage was released
    qpool_started,
    qq, qh, qt, qn, \* the ring: slots, head, tail, count
    qlk,            \* holder of the spinlock, or NULL
    sleepers,       \* threads waiting on qscv
    pc,             \* where each thread is
    op,             \* the handle a thread's runtime call works on
    cur,            \* the handle whose function a worker is running
    tmp,            \* a thread's register: the id or the merge in progress
    wasEmpty,       \* the local of qpush
    storage,        \* owner id -> blocks the allocator counts for it
    merges,         \* history: merges made so far; a merge is named by its number
    calls           \* history: the sequence of [fn, arg] the workers called

poolVars == <<qq, qh, qt, qn>>
tableVars == <<qtasks, qtasks_n, allocated>>
vars == <<tableVars, task, freed, qpool_started, poolVars, qlk, sleepers,
          pc, op, cur, tmp, wasEmpty, storage, merges, calls>>

-----------------------------------------------------------------------------
Goto(t, l) == pc' = [pc EXCEPT ![t] = l]

Init ==
    /\ qtasks = [i \in Ids |-> NULL]
    /\ qtasks_n = 0
    /\ allocated = 0
    /\ task = [h \in Handles |->
                 [id |-> 0, fn |-> 0, arg |-> 0, done |-> 1, owner |-> 0]]
    /\ freed = {}
    /\ qpool_started = FALSE
    /\ qq = [i \in Slots |-> NULL]
    /\ qh = 0 /\ qt = 0 /\ qn = 0
    /\ qlk = NULL
    /\ sleepers = {}
    /\ pc = [t \in Threads |-> IF t = Main THEN "code" ELSE "absent"]
    /\ op = [t \in Threads |-> NULL]
    /\ cur = [t \in Threads |-> NULL]
    /\ tmp = [t \in Threads |-> 0]
    /\ wasEmpty = [t \in Threads |-> FALSE]
    /\ storage = [o \in Owners |-> 0]
    /\ merges = 0
    /\ calls = <<>>

\* The thread-local ql_mem_owner: the id of the task a worker is running.
Owner(t) == IF cur[t] = NULL THEN 0 ELSE task[cur[t]].id

\* A thread inside a runtime call that will still read or write its handle.
Spawning == {"spawnLoad", "spawnStore"}
WithHandle == Spawning \cup {"mergeFn", "mergeArgs", "push", "pushTest", "pushStore",
                            "pushWait", "pushSleep", "begin", "block"}
InCall(h) == \E u \in Threads : op[u] = h /\ pc[u] \in WithHandle

-----------------------------------------------------------------------------
(* ql_spawn: bound check and allocation; then ++qtasks_n, which is a load   *)
(* and a store no lock covers; then the publication in qtasks.              *)

SpawnAlloc(t) ==
    /\ t \in Spawners
    /\ pc[t] = "code"
    /\ RaceSpawns \/ \A u \in Threads : pc[u] \notin Spawning
    /\ qtasks_n < QMAXTASK - 1
    /\ allocated < MaxHandles
    /\ allocated' = allocated + 1
    /\ task' = [task EXCEPT ![allocated + 1] =
                  [id |-> 0, fn |-> 0, arg |-> 0, done |-> 1, owner |-> Owner(t)]]
    /\ op' = [op EXCEPT ![t] = allocated + 1]
    /\ Goto(t, "spawnLoad")
    /\ UNCHANGED <<qtasks, qtasks_n, freed, qpool_started, poolVars, qlk, sleepers,
                   cur, tmp, wasEmpty, storage, merges, calls>>

SpawnLoad(t) ==
    /\ pc[t] = "spawnLoad"
    /\ tmp' = [tmp EXCEPT ![t] = qtasks_n]
    /\ Goto(t, "spawnStore")
    /\ UNCHANGED <<tableVars, task, freed, qpool_started, poolVars, qlk, sleepers,
                   op, cur, wasEmpty, storage, merges, calls>>

SpawnStore(t) ==
    /\ pc[t] = "spawnStore"
    /\ LET id == tmp[t] + 1 IN
         /\ qtasks_n' = id
         /\ qtasks' = [qtasks EXCEPT ![id] = op[t]]
         /\ task' = [task EXCEPT ![op[t]].id = id]
    /\ Goto(t, "code")
    /\ UNCHANGED <<allocated, freed, qpool_started, poolVars, qlk, sleepers,
                   op, cur, tmp, wasEmpty, storage, merges, calls>>

-----------------------------------------------------------------------------
(* ql_merge up to the push: the pool is started, the job is written into    *)
(* the handle field by field, done is cleared.  Nothing checks that the     *)
(* handle is idle.                                                          *)

\* What the program may rely on: ql_done(id) said 1, and no other thread is
\* inside a ql_merge of the same handle.
Idle(h) == /\ task[h].done = 1
           /\ \A t \in Threads :
                ~(op[t] = h /\ pc[t] \in {"mergeFn", "mergeArgs"})

MergeEnter(t) ==
    /\ t \in Callers
    /\ pc[t] = "code"
    /\ merges < MaxMerges
    /\ \E id \in Ids :
         /\ qtasks[id] # NULL
         /\ ReMerge \/ Idle(qtasks[id])
         /\ Orphans \/ qtasks[id] \notin freed
         /\ op' = [op EXCEPT ![t] = qtasks[id]]
    /\ merges' = merges + 1
    /\ tmp' = [tmp EXCEPT ![t] = merges + 1]
    /\ qpool_started' = TRUE
    /\ pc' = [u \in Threads |->
                IF u = t THEN "mergeFn"
                ELSE IF pc[u] = "absent" THEN "pop" ELSE pc[u]]
    /\ UNCHANGED <<tableVars, task, freed, poolVars, qlk, sleepers,
                   cur, wasEmpty, storage, calls>>

MergeFn(t) ==
    /\ pc[t] = "mergeFn"
    /\ task' = [task EXCEPT ![op[t]].fn = tmp[t]]
    /\ Goto(t, "mergeArgs")
    /\ UNCHANGED <<tableVars, freed, qpool_started, poolVars, qlk, sleepers,
                   op, cur, tmp, wasEmpty, storage, merges, calls>>

\* MergeArgs as a mutation: done keeps the value of the merge before.
MergeArgsKeepsDone(t) ==
    /\ pc[t] = "mergeArgs"
    /\ task' = [task EXCEPT ![op[t]].arg = tmp[t]]
    /\ Goto(t, "push")
    /\ UNCHANGED <<tableVars, freed, qpool_started, poolVars, qlk, sleepers,
                   op, cur, tmp, wasEmpty, storage, merges, calls>>

MergeArgs(t) ==
    /\ pc[t] = "mergeArgs"
    /\ task' = [task EXCEPT ![op[t]].arg = tmp[t], ![op[t]].done = 0]
    /\ Goto(t, "push")
    /\ UNCHANGED <<tableVars, freed, qpool_started, poolVars, qlk, sleepers,
                   op, cur, tmp, wasEmpty, storage, merges, calls>>

-----------------------------------------------------------------------------
(* The spinlock, qpush and qpop.                                            *)

\* qlock: the exchange returned 0.
Lock(t, from, to) ==
    /\ pc[t] = from
    /\ qlk = NULL
    /\ qlk' = t
    /\ Goto(t, to)
    /\ UNCHANGED <<tableVars, task, freed, qpool_started, poolVars, sleepers,
                   op, cur, tmp, wasEmpty, storage, merges, calls>>

PushLock(t) == Lock(t, "push", "pushTest")
PopLock(t) == Lock(t, "pop", "popTest")

\* PushTest as a mutation: one slot always stays empty.
PushTestKeepsOne(t) ==
    /\ pc[t] = "pushTest"
    /\ \/ /\ qn < QCAP - 1
          /\ wasEmpty' = [wasEmpty EXCEPT ![t] = (qn = 0)]
          /\ Goto(t, "pushStore")
          /\ UNCHANGED qlk
       \/ /\ ~(qn < QCAP - 1)
          /\ qlk' = NULL
          /\ Goto(t, "pushWait")
          /\ UNCHANGED wasEmpty
    /\ UNCHANGED <<tableVars, task, freed, qpool_started, poolVars, sleepers,
                   op, cur, tmp, storage, merges, calls>>

\* The test of qn under the lock.  A full ring is unlocked before the wait.
PushTest(t) ==
    /\ pc[t] = "pushTest"
    /\ \/ /\ qn < QCAP
          /\ wasEmpty' = [wasEmpty EXCEPT ![t] = (qn = 0)]
          /\ Goto(t, "pushStore")
          /\ UNCHANGED qlk
       \/ /\ ~(qn < QCAP)
          /\ qlk' = NULL
          /\ Goto(t, "pushWait")
          /\ UNCHANGED wasEmpty
    /\ UNCHANGED <<tableVars, task, freed, qpool_started, poolVars, sleepers,
                   op, cur, tmp, storage, merges, calls>>

PushStore(t) ==
    /\ pc[t] = "pushStore"
    /\ qq' = [qq EXCEPT ![qt] = op[t]]
    /\ qt' = (qt + 1) % QCAP
    /\ qn' = qn + 1
    /\ qlk' = NULL
    /\ Goto(t, IF wasEmpty[t] THEN "wake" ELSE "code")
    /\ UNCHANGED <<tableVars, task, freed, qpool_started, qh, sleepers,
                   op, cur, tmp, wasEmpty, storage, merges, calls>>

\* Where a thread woken from the condition variable goes on: its loop's top.
Resume(u) == IF pc[u] = "pushSleep" THEN "push" ELSE "pop"

\* qwake: wakes one sleeper, whichever; nobody when nobody sleeps.
Wake(t) ==
    /\ pc[t] = "wake"
    /\ \/ /\ sleepers = {}
          /\ Goto(t, "code")
          /\ UNCHANGED sleepers
       \/ \E u \in sleepers :
             /\ sleepers' = sleepers \ {u}
             /\ pc' = [pc EXCEPT ![t] = "code", ![u] = Resume(u)]
    /\ UNCHANGED <<tableVars, task, freed, qpool_started, poolVars, qlk,
                   op, cur, tmp, wasEmpty, storage, merges, calls>>

PopTest(t) ==
    /\ pc[t] = "popTest"
    /\ \/ /\ qn > 0
          /\ Goto(t, "popTake")
          /\ UNCHANGED qlk
       \/ /\ ~(qn > 0)
          /\ qlk' = NULL
          /\ Goto(t, "popWait")
    /\ UNCHANGED <<tableVars, task, freed, qpool_started, poolVars, sleepers,
                   op, cur, tmp, wasEmpty, storage, merges, calls>>

\* PopTake as a mutation: the head runs past the end.
PopTakeNoWrap(t) ==
    /\ pc[t] = "popTake"
    /\ op' = [op EXCEPT ![t] = qq[qh]]
    /\ qh' = qh + 1
    /\ qn' = qn - 1
    /\ qlk' = NULL
    /\ Goto(t, "begin")
    /\ UNCHANGED <<tableVars, task, freed, qpool_started, qq, qt, sleepers,
                   cur, tmp, wasEmpty, storage, merges, calls>>

\* PopTake as a mutation: the head does not move.
PopTakeSameSlot(t) ==
    /\ pc[t] = "popTake"
    /\ op' = [op EXCEPT ![t] = qq[qh]]
    /\ qh' = qh
    /\ qn' = qn - 1
    /\ qlk' = NULL
    /\ Goto(t, "begin")
    /\ UNCHANGED <<tableVars, task, freed, qpool_started, qq, qt, sleepers,
                   cur, tmp, wasEmpty, storage, merges, calls>>

\* PopTake as a mutation: the newest handle is taken.
PopTakeNewest(t) ==
    /\ pc[t] = "popTake"
    /\ qt' = (qt + QCAP - 1) % QCAP
    /\ op' = [op EXCEPT ![t] = qq[qt']]
    /\ qn' = qn - 1
    /\ qlk' = NULL
    /\ Goto(t, "begin")
    /\ UNCHANGED <<tableVars, task, freed, qpool_started, qq, qh, sleepers,
                   cur, tmp, wasEmpty, storage, merges, calls>>

PopTake(t) ==
    /\ pc[t] = "popTake"
    /\ op' = [op EXCEPT ![t] = qq[qh]]
    /\ qh' = (qh + 1) % QCAP
    /\ qn' = qn - 1
    /\ qlk' = NULL
    /\ Goto(t, "begin")
    /\ UNCHANGED <<tableVars, task, freed, qpool_started, qq, qt, sleepers,
                   cur, tmp, wasEmpty, storage, merges, calls>>

\* pthread_cond_wait without a recheck of the queue: the thread goes to sleep
\* whatever happened since it released the spinlock.
Sleep(t) ==
    /\ \/ pc[t] = "pushWait" /\ Goto(t, "pushSleep")
       \/ pc[t] = "popWait" /\ Goto(t, "popSleep")
    /\ sleepers' = sleepers \cup {t}
    /\ UNCHANGED <<tableVars, task, freed, qpool_started, poolVars, qlk,
                   op, cur, tmp, wasEmpty, storage, merges, calls>>

\* POSIX lets a wait return without a signal.
SpuriousWakeup(t) ==
    /\ t \in sleepers
    /\ sleepers' = sleepers \ {t}
    /\ Goto(t, Resume(t))
    /\ UNCHANGED <<tableVars, task, freed, qpool_started, poolVars, qlk,
                   op, cur, tmp, wasEmpty, storage, merges, calls>>

-----------------------------------------------------------------------------
(* qworker around the task's function, and the function's own effects.      *)

BeginTask(t) ==
    /\ pc[t] = "begin"
    /\ cur' = [cur EXCEPT ![t] = op[t]]
    /\ calls' = Append(calls, [fn |-> task[op[t]].fn, arg |-> task[op[t]].arg])
    /\ Goto(t, "code")
    /\ UNCHANGED <<tableVars, task, freed, qpool_started, poolVars, qlk, sleepers,
                   op, tmp, wasEmpty, storage, merges>>

\* The function allocates a block it has not released when it returns.
Allocate(t) ==
    /\ pc[t] = "code"
    /\ cur[t] # NULL
    /\ storage[Owner(t)] < MaxStorage
    /\ storage' = [storage EXCEPT ![Owner(t)] = @ + 1]
    /\ UNCHANGED <<tableVars, task, freed, qpool_started, poolVars, qlk, sleepers,
                   pc, op, cur, tmp, wasEmpty, merges, calls>>

\* EndTask as a mutation: done is published before the storage is reclaimed.
EndTaskPublishesFirst(t) ==
    /\ pc[t] = "code"
    /\ cur[t] # NULL
    /\ task' = [task EXCEPT ![cur[t]].done = 1]
    /\ Goto(t, "publish")
    /\ UNCHANGED <<tableVars, freed, qpool_started, poolVars, qlk, sleepers,
                   op, cur, tmp, wasEmpty, storage, merges, calls>>

\* The ql_task objects that the task of t has spawned and ql_mem_task_end frees.
Children(t) == {h \in 1 .. allocated : Owner(t) # 0 /\ task[h].owner = Owner(t)}

\* EndTask as a mutation: the storage of every owner is reclaimed.
EndTaskFreesAll(t) ==
    /\ pc[t] = "code"
    /\ cur[t] # NULL
    /\ Orphans \/ \A h \in Children(t) \ freed : task[h].done = 1 /\ ~InCall(h)
    /\ storage' = [o \in Owners |-> 0]
    /\ freed' = freed \cup 1 .. allocated
    /\ Goto(t, "publish")
    /\ UNCHANGED <<tableVars, task, qpool_started, poolVars, qlk, sleepers,
                   op, cur, tmp, wasEmpty, merges, calls>>

\* The function returns; ql_mem_task_end releases every block of its owner,
\* the ql_task objects the function spawned among them.  What a pointer to them
\* finds afterwards is undefined (docs/compiled-memory.md, D11), so that a
\* program may only return from a task when the threads it spawned are idle.
EndTask(t) ==
    /\ pc[t] = "code"
    /\ cur[t] # NULL
    /\ Orphans \/ \A h \in Children(t) \ freed : task[h].done = 1 /\ ~InCall(h)
    /\ storage' = [storage EXCEPT ![Owner(t)] = 0]
    /\ freed' = freed \cup Children(t)
    /\ Goto(t, "publish")
    /\ UNCHANGED <<tableVars, task, qpool_started, poolVars, qlk, sleepers,
                   op, cur, tmp, wasEmpty, merges, calls>>

\* PublishDone as a mutation: the worker waits without looking at the queue.
PublishDoneThenWait(t) ==
    /\ pc[t] = "publish"
    /\ task' = [task EXCEPT ![cur[t]].done = 1]
    /\ cur' = [cur EXCEPT ![t] = NULL]
    /\ Goto(t, "popWait")
    /\ UNCHANGED <<tableVars, freed, qpool_started, poolVars, qlk, sleepers,
                   op, tmp, wasEmpty, storage, merges, calls>>

PublishDone(t) ==
    /\ pc[t] = "publish"
    /\ task' = [task EXCEPT ![cur[t]].done = 1]
    /\ cur' = [cur EXCEPT ![t] = NULL]
    /\ Goto(t, "pop")
    /\ UNCHANGED <<tableVars, freed, qpool_started, poolVars, qlk, sleepers,
                   op, tmp, wasEmpty, storage, merges, calls>>

-----------------------------------------------------------------------------
(* ql_block: a spin on done.                                                *)

BlockEnter(t) ==
    /\ t \in Callers
    /\ pc[t] = "code"
    /\ \E id \in Ids :
         /\ qtasks[id] # NULL
         /\ qtasks[id] # cur[t]
         /\ Orphans \/ qtasks[id] \notin freed
         /\ op' = [op EXCEPT ![t] = qtasks[id]]
    /\ Goto(t, "block")
    /\ UNCHANGED <<tableVars, task, freed, qpool_started, poolVars, qlk, sleepers,
                   cur, tmp, wasEmpty, storage, merges, calls>>

BlockReturn(t) ==
    /\ pc[t] = "block"
    /\ task[op[t]].done # 0
    /\ Goto(t, "code")
    /\ UNCHANGED <<tableVars, task, freed, qpool_started, poolVars, qlk, sleepers,
                   op, cur, tmp, wasEmpty, storage, merges, calls>>

-----------------------------------------------------------------------------
\* The steps of the runtime itself, which go on once the thread is scheduled.
RuntimeStep(t) ==
    \/ SpawnLoad(t) \/ SpawnStore(t)
    \/ MergeFn(t) \/ MergeArgs(t)
    \/ PushTest(t) \/ PushStore(t) \/ Wake(t)
    \/ PopTest(t) \/ PopTake(t) \/ Sleep(t)
    \/ BeginTask(t) \/ PublishDone(t) \/ BlockReturn(t)

LockStep(t) == PushLock(t) \/ PopLock(t)

\* The steps the program chooses to take.
ProgramStep(t) == SpawnAlloc(t) \/ MergeEnter(t) \/ BlockEnter(t) \/ Allocate(t)

Next == \E t \in Threads :
            RuntimeStep(t) \/ LockStep(t) \/ ProgramStep(t) \/ EndTask(t)
            \/ SpuriousWakeup(t)

Spec == Init /\ [][Next]_vars

\* A scheduled thread runs on, a contended spinlock is eventually taken, and
\* a task's function returns.  Spurious wakeups and program calls are not owed.
Fairness == \A t \in Threads :
                /\ WF_vars(RuntimeStep(t))
                /\ SF_vars(LockStep(t))
                /\ SF_vars(EndTask(t))

FairSpec == Spec /\ Fairness

-----------------------------------------------------------------------------
Places == {"absent", "code", "spawnLoad", "spawnStore", "mergeFn", "mergeArgs",
           "push", "pushTest", "pushStore", "pushWait", "pushSleep", "wake",
           "pop", "popTest", "popTake", "popWait", "popSleep", "begin", "publish", "block"}

TypeOK ==
    /\ qtasks \in [Ids -> Handles \cup {NULL}]
    /\ qtasks_n \in Owners
    /\ allocated \in 0 .. MaxHandles
    /\ task \in [Handles -> [id : Owners, fn : 0 .. MaxMerges, arg : 0 .. MaxMerges,
                             done : {0, 1}, owner : Owners]]
    /\ freed \subseteq Handles
    /\ qpool_started \in BOOLEAN
    /\ qq \in [Slots -> Handles \cup {NULL}]
    /\ qh \in Slots /\ qt \in Slots /\ qn \in 0 .. QCAP
    /\ qlk \in Threads \cup {NULL}
    /\ sleepers \subseteq Threads
    /\ pc \in [Threads -> Places]
    /\ op \in [Threads -> Handles \cup {NULL}]
    /\ cur \in [Threads -> Handles \cup {NULL}]
    /\ tmp \in [Threads -> 0 .. MaxMerges + QMAXTASK]
    /\ wasEmpty \in [Threads -> BOOLEAN]
    /\ storage \in [Owners -> 0 .. MaxStorage]
    /\ merges \in 0 .. MaxMerges

-----------------------------------------------------------------------------
(* Properties.                                                              *)

\* The handles in the ring, oldest first.
Queue == [i \in 1 .. qn |-> qq[(qh + i - 1) % QCAP]]

\* Whatever the interleaving of producers, workers and the ring's full and
\* empty ends, a step leaves the queue alone, appends one handle to it or takes
\* its oldest one off: no handle is overwritten, lost, duplicated or reordered.
FifoStep ==
    [][\/ Queue' = Queue
       \/ \E h \in Handles : Queue' = Append(Queue, h)
       \/ Queue # <<>> /\ Queue' = Tail(Queue)]_vars

\* A thread seen done (ql_block returned, ql_done said so) has no block the
\* allocator still counts: the worker reclaims before it publishes.
DoneMeansReclaimed ==
    \A id \in Ids : qtasks[id] # NULL /\ task[qtasks[id]].done = 1 => storage[id] = 0

\* No two workers run under the same owner: the first to finish would release
\* the other's storage.
OneRunPerOwner ==
    \A v, w \in Workers :
        v # w /\ cur[v] # NULL /\ cur[w] # NULL => task[cur[v]].id # task[cur[w]].id

\* Every call is of one merge, with that merge's own function and arguments;
\* no merge is called twice; and a thread that is idle again has been called.
MergesCalledOnce ==
    /\ \A i \in DOMAIN calls : calls[i].fn = calls[i].arg
    /\ \A i, j \in DOMAIN calls : i # j => calls[i].fn # calls[j].fn
    /\ \A h \in Handles :
          task[h].done = 1 /\ task[h].arg # 0 =>
              \E i \in DOMAIN calls : calls[i].arg = task[h].arg

\* A program that merges only idle threads never fills a ring at least as large
\* as the thread table, so its producers never reach the unsignalled wait.
NeverFull == \A t \in Threads : pc[t] \notin {"pushWait", "pushSleep"}

\* What a task spawned lies in the task's storage and goes with it.  Nobody is
\* left with it: the ring, the workers and the calls in progress refer to live
\* ql_task objects, in programs whose tasks return only after the threads they
\* spawned; and a thread that main spawned is never taken by a task's end.
NoDanglingHandle ==
    /\ \A i \in DOMAIN Queue : Queue[i] \notin freed
    /\ \A w \in Workers : cur[w] \notin freed
    /\ \A h \in freed : ~InCall(h) /\ task[h].owner # 0

\* A worker that will reach the queue again without being signalled.
Roused(w) == \/ cur[w] # NULL
             \/ pc[w] \in {"pop", "popTake", "begin", "publish"}

\* As long as one worker is awake, what is queued is taken.
AwakeWorkerDrains ==
    \A i \in Slots :
        (i < qn /\ \E w \in Workers : Roused(w)) ~> (qn = 0 \/ qn <= i)

\* ql_block returns: "wait for the thread to become idle" (lower_taskm.go).
BlockReturns == \A t \in Threads : pc[t] = "block" ~> pc[t] # "block"

-----------------------------------------------------------------------------
(* The threads a program sees: those in the table.                          *)

StageOf(id) ==
    LET h == qtasks[id]
    IN  IF h = NULL THEN "idle"
        ELSE IF task[h].done = 1 THEN "idle"
        ELSE IF \E t \in Threads : cur[t] = h /\ pc[t] # "publish" THEN "running"
        ELSE IF \E t \in Threads : cur[t] = h THEN "over"
        ELSE "merged"

Spawned == {id \in Ids : qtasks[id] # NULL}
Stage == [id \in Ids |-> StageOf(id)]
Job == [id \in Ids |-> IF qtasks[id] = NULL THEN 0 ELSE task[qtasks[id]].arg]
Begun == {calls[i].fn : i \in DOMAIN calls}
WithStorage == {id \in Ids : storage[id] # 0}

Service == INSTANCE ThreadService WITH
    Pids <- Ids, Jobs <- 1 .. MaxMerges, spawned <- Spawned, stage <- Stage, job <- Job,
    called <- Begun, holding <- WithStorage

\* The ring, the workers and the fields of the handles do to a thread what the
\* service promises, for programs that merge only idle threads: a job goes from
\* ql_merge to one worker and is called once, with its own function.
ImplementsService == Service!Spec
=============================================================================

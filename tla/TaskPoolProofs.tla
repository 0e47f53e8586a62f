--------------------------- MODULE TaskPoolProofs ---------------------------
(***************************************************************************)
(* Proofs about TaskPool, for any workers, callers, bounds and capacity of *)
(* the ring, where no two threads are inside ql_spawn at once (the         *)
(* identifiers are counted without a lock).                                *)
(***************************************************************************)
EXTENDS TaskPool, DataLemmas

\* The places where a thread holds the spinlock.
Holding == {"pushTest", "pushStore", "popTest", "popTake"}

\* What is known of each place of the code: the spinlock excludes, what was
\* tested under it still holds, and the registers hold what the place needs.
Control == \A t \in Threads :
    /\ pc[t] \in Holding => qlk = t
    /\ pc[t] = "pushStore" => qn < QCAP
    /\ pc[t] = "popTake" => qn > 0
    /\ pc[t] \in WithHandle => op[t] \in Handles
    /\ pc[t] = "publish" => cur[t] \in Handles
    /\ pc[t] \in {"mergeFn", "mergeArgs"} => tmp[t] \in 0 .. MaxMerges
    /\ pc[t] \in Spawning => /\ t \in Spawners /\ qtasks_n < QMAXTASK - 1
                            /\ \A u \in Threads : pc[u] \in Spawning => u = t
    /\ pc[t] = "spawnStore" => tmp[t] = qtasks_n

\* What ql_task objects hold.
Task == [id : Owners, fn : 0 .. MaxMerges, arg : 0 .. MaxMerges, done : {0, 1}, owner : Owners]

\* The ring: the tail is where head and count say, and the window between them
\* holds handles.
Ring == /\ qt = (qh + qn) % QCAP
        /\ \A i \in 1 .. qn : qq[(qh + i - 1) % QCAP] \in Handles

IInv == TypeOK /\ Control /\ Ring

LEMMA Sets == /\ Main \in Threads /\ Workers \subseteq Threads
              /\ NULL \notin Handles /\ NULL \notin Threads
              /\ Callers \subseteq Threads /\ Spawners \subseteq Threads
              /\ QCAP \in Nat \ {0} /\ QMAXTASK \in Nat \ {0}
              /\ MaxHandles \in Nat /\ MaxMerges \in Nat /\ MaxStorage \in Nat
              /\ 0 \in Owners /\ 0 \in Slots
BY ThreadsAssumption, SizesAssumption, NullAssumption DEF Threads, Owners, Slots

LEMMA InitIInv == Init => IInv
<1>. SUFFICES ASSUME Init
              PROVE  IInv
  OBVIOUS
<1>1. TypeOK
  <2>1. pc \in [Threads -> Places]
    BY DEF Init, Places
  <2>2. task \in [Handles -> Task]
    BY Sets DEF Init, Task
  <2>3. /\ qtasks_n \in Owners /\ allocated \in 0 .. MaxHandles
        /\ qn \in 0 .. QCAP /\ merges \in 0 .. MaxMerges
    BY Sets DEF Init
  <2>4. tmp \in [Threads -> 0 .. MaxMerges + QMAXTASK]
    BY Sets DEF Init
  <2>5. storage \in [Owners -> 0 .. MaxStorage]
    BY Sets DEF Init
  <2>. QED
    BY <2>1, <2>2, <2>3, <2>4, <2>5, Sets DEF Init, TypeOK, Task
<1>2. Control
  BY Sets DEF Init, Control, Holding, WithHandle, Spawning
<1>3. Ring
  BY Sets DEF Init, Ring
<1>. QED
  BY <1>1, <1>2, <1>3 DEF IInv

LEMMA OwnerType ==
    ASSUME TypeOK, NEW t \in Threads
    PROVE  Owner(t) \in Owners
<1>1. cur[t] \in Handles \cup {NULL} /\ task \in [Handles -> Task]
  BY DEF TypeOK, Task
<1>. QED
  BY <1>1, Sets DEF Owner, Task

LEMMA RingSame ==
    ASSUME Ring, UNCHANGED poolVars
    PROVE  Ring'
BY DEF Ring, poolVars

LEMMA SpawnAllocIInv ==
    ASSUME ~RaceSpawns, IInv, NEW t \in Threads, SpawnAlloc(t)
    PROVE  IInv'
<1>. USE Sets DEF SpawnAlloc, Goto
<1>1. TypeOK'
  <2>1. pc' \in [Threads -> Places]
    BY DEF IInv, TypeOK, Places
  <2>2. allocated' \in 0 .. MaxHandles /\ allocated + 1 \in Handles
    BY DEF IInv, TypeOK, Handles
  <2>3. task' \in [Handles -> Task]
    <3>1. /\ task \in [Handles -> Task] /\ allocated + 1 \in Handles
          /\ [id |-> 0, fn |-> 0, arg |-> 0, done |-> 1, owner |-> Owner(t)] \in Task
      BY <2>2, OwnerType DEF IInv, TypeOK, Task
    <3>. QED
      BY <3>1
  <2>. QED
    BY <2>1, <2>2, <2>3 DEF IInv, TypeOK, Task, tableVars, poolVars
<1>2. Control'
  <2>1. /\ allocated + 1 \in Handles
        /\ t \in Spawners /\ qtasks_n < QMAXTASK - 1
        /\ \A u \in Threads : pc[u] \notin Spawning
        /\ op' = [op EXCEPT ![t] = allocated + 1] /\ pc' = [pc EXCEPT ![t] = "spawnLoad"]
        /\ UNCHANGED <<qlk, qn, cur, tmp, qtasks_n>>
    <3>1. RaceSpawns \/ \A u \in Threads : pc[u] \notin Spawning
      OBVIOUS
    <3>2. \A u \in Threads : pc[u] \notin Spawning
      BY <3>1
    <3>3. allocated + 1 \in Handles
      BY DEF IInv, TypeOK, Handles
    <3>4. UNCHANGED <<qlk, qn, cur, tmp, qtasks_n>>
      BY DEF poolVars
    <3>. QED
      BY <3>2, <3>3, <3>4
  <2>. QED
    BY <2>1 DEF IInv, TypeOK, Control, Holding, WithHandle, Spawning
<1>3. Ring'
  BY RingSame DEF IInv
<1>. QED
  BY <1>1, <1>2, <1>3 DEF IInv

LEMMA SpawnLoadIInv ==
    ASSUME ~RaceSpawns, IInv, NEW t \in Threads, SpawnLoad(t)
    PROVE  IInv'
<1>. USE Sets DEF SpawnLoad, Goto
<1>1. TypeOK'
  <2>1. pc' \in [Threads -> Places]
    BY DEF IInv, TypeOK, Places
  <2>2. tmp' \in [Threads -> 0 .. MaxMerges + QMAXTASK]
    BY DEF IInv, TypeOK, Owners
  <2>. QED
    BY <2>1, <2>2 DEF IInv, TypeOK, tableVars, poolVars
<1>2. Control'
  BY DEF IInv, TypeOK, Control, Holding, WithHandle, Spawning, tableVars, poolVars
<1>3. Ring'
  BY RingSame DEF IInv
<1>. QED
  BY <1>1, <1>2, <1>3 DEF IInv

LEMMA SpawnStoreIInv ==
    ASSUME ~RaceSpawns, IInv, NEW t \in Threads, SpawnStore(t)
    PROVE  IInv'
<1>. USE Sets DEF SpawnStore, Goto
<1>0. /\ op[t] \in Handles /\ tmp[t] = qtasks_n
      /\ tmp[t] + 1 \in Owners /\ tmp[t] + 1 \in Ids
  <2>1. pc[t] = "spawnStore" /\ pc[t] \in WithHandle
    BY DEF WithHandle, Spawning
  <2>2. op[t] \in Handles /\ tmp[t] = qtasks_n /\ qtasks_n < QMAXTASK - 1
    BY <2>1 DEF IInv, Control, Spawning
  <2>3. qtasks_n \in Nat
    BY DEF IInv, TypeOK, Owners
  <2>4. qtasks_n + 1 \in Owners /\ qtasks_n + 1 \in Ids
    BY <2>2, <2>3 DEF Owners, Ids
  <2>. QED
    BY <2>2, <2>4
<1>1. TypeOK'
  <2>1. pc' \in [Threads -> Places]
    BY DEF IInv, TypeOK, Places
  <2>2. task' \in [Handles -> Task]
    BY <1>0 DEF IInv, TypeOK, Task
  <2>3. qtasks' \in [Ids -> Handles \cup {NULL}] /\ qtasks_n' \in Owners
    BY <1>0 DEF IInv, TypeOK
  <2>. QED
    BY <2>1, <2>2, <2>3 DEF IInv, TypeOK, Task, tableVars, poolVars
<1>2. Control'
  BY DEF IInv, TypeOK, Control, Holding, WithHandle, Spawning, tableVars, poolVars
<1>3. Ring'
  BY RingSame DEF IInv
<1>. QED
  BY <1>1, <1>2, <1>3 DEF IInv

LEMMA MergeEnterIInv ==
    ASSUME ~RaceSpawns, IInv, NEW t \in Threads, MergeEnter(t)
    PROVE  IInv'
<1>. USE Sets DEF MergeEnter, Goto
<1>1. TypeOK'
  <2>1. pc' \in [Threads -> Places]
    BY DEF IInv, TypeOK, Places
  <2>. QED
    BY <2>1 DEF IInv, TypeOK, tableVars, poolVars
<1>2. Control'
  BY DEF IInv, TypeOK, Control, Holding, WithHandle, Spawning, tableVars, poolVars
<1>3. Ring'
  BY RingSame DEF IInv
<1>. QED
  BY <1>1, <1>2, <1>3 DEF IInv

LEMMA MergeFnIInv ==
    ASSUME ~RaceSpawns, IInv, NEW t \in Threads, MergeFn(t)
    PROVE  IInv'
<1>. USE Sets DEF MergeFn, Goto
<1>0. op[t] \in Handles /\ tmp[t] \in 0 .. MaxMerges
  BY DEF IInv, Control, WithHandle, Spawning
<1>1. TypeOK'
  <2>1. pc' \in [Threads -> Places]
    BY DEF IInv, TypeOK, Places
  <2>2. task' \in [Handles -> Task]
    BY <1>0 DEF IInv, TypeOK, Task
  <2>. QED
    BY <2>1, <2>2 DEF IInv, TypeOK, Task, tableVars, poolVars
<1>2. Control'
  BY DEF IInv, TypeOK, Control, Holding, WithHandle, Spawning, tableVars, poolVars
<1>3. Ring'
  BY RingSame DEF IInv
<1>. QED
  BY <1>1, <1>2, <1>3 DEF IInv

LEMMA MergeArgsIInv ==
    ASSUME ~RaceSpawns, IInv, NEW t \in Threads, MergeArgs(t)
    PROVE  IInv'
<1>. USE Sets DEF MergeArgs, Goto
<1>0. op[t] \in Handles /\ tmp[t] \in 0 .. MaxMerges
  BY DEF IInv, Control, WithHandle, Spawning
<1>1. TypeOK'
  <2>1. pc' \in [Threads -> Places]
    BY DEF IInv, TypeOK, Places
  <2>2. task' \in [Handles -> Task]
    <3>1. task \in [Handles -> Task]
      BY DEF IInv, TypeOK, Task
    <3>2. [task[op[t]] EXCEPT !.arg = tmp[t], !.done = 0] \in Task
      BY <1>0, <3>1 DEF Task
    <3>3. task' = [task EXCEPT ![op[t]] = [task[op[t]] EXCEPT !.arg = tmp[t], !.done = 0]]
      BY <1>0, <3>1
    <3>. QED
      BY <1>0, <3>1, <3>2, <3>3
  <2>. QED
    BY <2>1, <2>2 DEF IInv, TypeOK, Task, tableVars, poolVars
<1>2. Control'
  BY DEF IInv, TypeOK, Control, Holding, WithHandle, Spawning, tableVars, poolVars
<1>3. Ring'
  BY RingSame DEF IInv
<1>. QED
  BY <1>1, <1>2, <1>3 DEF IInv

LEMMA PushTestIInv ==
    ASSUME ~RaceSpawns, IInv, NEW t \in Threads, PushTest(t)
    PROVE  IInv'
<1>. USE Sets DEF PushTest, Goto
<1>1. TypeOK'
  <2>1. pc' \in [Threads -> Places]
    BY DEF IInv, TypeOK, Places
  <2>. QED
    BY <2>1 DEF IInv, TypeOK, tableVars, poolVars
<1>2. Control'
  BY DEF IInv, TypeOK, Control, Holding, WithHandle, Spawning, tableVars, poolVars
<1>3. Ring'
  BY RingSame DEF IInv
<1>. QED
  BY <1>1, <1>2, <1>3 DEF IInv

LEMMA PopTestIInv ==
    ASSUME ~RaceSpawns, IInv, NEW t \in Threads, PopTest(t)
    PROVE  IInv'
<1>. USE Sets DEF PopTest, Goto
<1>1. TypeOK'
  <2>1. pc' \in [Threads -> Places]
    BY DEF IInv, TypeOK, Places
  <2>. QED
    BY <2>1 DEF IInv, TypeOK, tableVars, poolVars
<1>2. Control'
  BY DEF IInv, TypeOK, Control, Holding, WithHandle, Spawning, tableVars, poolVars
<1>3. Ring'
  BY RingSame DEF IInv
<1>. QED
  BY <1>1, <1>2, <1>3 DEF IInv

LEMMA SleepIInv ==
    ASSUME ~RaceSpawns, IInv, NEW t \in Threads, Sleep(t)
    PROVE  IInv'
<1>. USE Sets DEF Sleep, Goto
<1>1. TypeOK'
  <2>1. pc' \in [Threads -> Places]
    BY DEF IInv, TypeOK, Places
  <2>. QED
    BY <2>1 DEF IInv, TypeOK, tableVars, poolVars
<1>2. Control'
  BY DEF IInv, TypeOK, Control, Holding, WithHandle, Spawning, tableVars, poolVars
<1>3. Ring'
  BY RingSame DEF IInv
<1>. QED
  BY <1>1, <1>2, <1>3 DEF IInv

LEMMA WakeIInv ==
    ASSUME ~RaceSpawns, IInv, NEW t \in Threads, Wake(t)
    PROVE  IInv'
<1>. USE Sets DEF Wake, Goto
<1>0. /\ \A u \in Threads :
            pc'[u] = pc[u] \/ (pc'[u] = "push" /\ pc[u] = "pushSleep") \/ pc'[u] \in {"code", "pop"}
      /\ pc' \in [Threads -> Places]
      /\ sleepers' \subseteq sleepers
  <2>1. CASE sleepers = {} /\ pc' = [pc EXCEPT ![t] = "code"] /\ UNCHANGED sleepers
    <3>1. pc \in [Threads -> Places] /\ "code" \in Places
      BY DEF IInv, TypeOK, Places
    <3>. HIDE DEF Wake, Goto
    <3>. QED
      BY <2>1, <3>1
  <2>2. ASSUME NEW u \in sleepers, sleepers' = sleepers \ {u},
               pc' = [pc EXCEPT ![t] = "code", ![u] = Resume(u)]
        PROVE  <1>0!:
    <3>1. /\ u \in Threads /\ pc \in [Threads -> Places]
          /\ Resume(u) \in {"push", "pop"}
          /\ Resume(u) = "push" => pc[u] = "pushSleep"
      BY DEF IInv, TypeOK, Resume
    <3>2. {"code", "push", "pop"} \subseteq Places
      BY DEF Places
    <3>3. \A v \in Threads : pc'[v] = IF v = u THEN Resume(u)
                                    ELSE IF v = t THEN "code" ELSE pc[v]
      BY <2>2, <3>1
    <3>4. pc' \in [Threads -> Places]
      BY <2>2, <3>1, <3>2
    <3>. HIDE DEF Wake, Goto
    <3>. QED
      BY <2>2, <3>1, <3>3, <3>4
  <2>. QED
    BY <2>1, <2>2
<1>1. TypeOK'
  <2>1. pc' \in [Threads -> Places]
    BY <1>0
  <2>. QED
    BY <2>1, <1>0 DEF IInv, TypeOK, tableVars, poolVars
<1>2. Control'
  <2>1. UNCHANGED <<qlk, qn, op, cur, tmp, qtasks_n>>
    BY DEF tableVars, poolVars
  <2>. QED
    BY <1>0, <2>1 DEF IInv, Control, Holding, WithHandle, Spawning
<1>3. Ring'
  BY RingSame DEF IInv
<1>. QED
  BY <1>1, <1>2, <1>3 DEF IInv

LEMMA SpuriousWakeupIInv ==
    ASSUME ~RaceSpawns, IInv, NEW t \in Threads, SpuriousWakeup(t)
    PROVE  IInv'
<1>. USE Sets DEF SpuriousWakeup, Goto
<1>0. /\ \A u \in Threads :
            pc'[u] = pc[u] \/ (pc'[u] = "push" /\ pc[u] = "pushSleep") \/ pc'[u] \in {"code", "pop"}
      /\ pc' \in [Threads -> Places]
      /\ sleepers' \subseteq sleepers
  <2>1. /\ pc \in [Threads -> Places] /\ Resume(t) \in {"push", "pop"}
        /\ Resume(t) = "push" => pc[t] = "pushSleep"
    BY DEF IInv, TypeOK, Resume
  <2>2. {"push", "pop"} \subseteq Places
    BY DEF Places
  <2>3. pc' = [pc EXCEPT ![t] = Resume(t)] /\ sleepers' = sleepers \ {t}
    OBVIOUS
  <2>4. \A v \in Threads : pc'[v] = IF v = t THEN Resume(t) ELSE pc[v]
    BY <2>1, <2>3
  <2>5. pc' \in [Threads -> Places]
    BY <2>1, <2>2, <2>3
  <2>. HIDE DEF SpuriousWakeup, Goto
  <2>. QED
    BY <2>1, <2>3, <2>4, <2>5
<1>1. TypeOK'
  <2>1. pc' \in [Threads -> Places]
    BY <1>0
  <2>. QED
    BY <2>1, <1>0 DEF IInv, TypeOK, tableVars, poolVars
<1>2. Control'
  <2>1. UNCHANGED <<qlk, qn, op, cur, tmp, qtasks_n>>
    BY DEF tableVars, poolVars
  <2>. QED
    BY <1>0, <2>1 DEF IInv, Control, Holding, WithHandle, Spawning
<1>3. Ring'
  BY RingSame DEF IInv
<1>. QED
  BY <1>1, <1>2, <1>3 DEF IInv

LEMMA BeginTaskIInv ==
    ASSUME ~RaceSpawns, IInv, NEW t \in Threads, BeginTask(t)
    PROVE  IInv'
<1>. USE Sets DEF BeginTask, Goto
<1>1. TypeOK'
  <2>1. pc' \in [Threads -> Places]
    BY DEF IInv, TypeOK, Places
  <2>. QED
    BY <2>1 DEF IInv, TypeOK, tableVars, poolVars
<1>2. Control'
  BY DEF IInv, TypeOK, Control, Holding, WithHandle, Spawning, tableVars, poolVars
<1>3. Ring'
  BY RingSame DEF IInv
<1>. QED
  BY <1>1, <1>2, <1>3 DEF IInv

LEMMA AllocateIInv ==
    ASSUME ~RaceSpawns, IInv, NEW t \in Threads, Allocate(t)
    PROVE  IInv'
<1>. USE Sets DEF Allocate, Goto
<1>1. TypeOK'
  <2>1. pc' \in [Threads -> Places]
    BY DEF IInv, TypeOK, Places
  <2>2. storage' \in [Owners -> 0 .. MaxStorage]
    <3>1. Owner(t) \in Owners
      BY OwnerType DEF IInv
    <3>. QED
      BY <3>1 DEF IInv, TypeOK
  <2>. QED
    BY <2>1, <2>2 DEF IInv, TypeOK, tableVars, poolVars
<1>2. Control'
  BY DEF IInv, TypeOK, Control, Holding, WithHandle, Spawning, tableVars, poolVars
<1>3. Ring'
  BY RingSame DEF IInv
<1>. QED
  BY <1>1, <1>2, <1>3 DEF IInv

LEMMA EndTaskIInv ==
    ASSUME ~RaceSpawns, IInv, NEW t \in Threads, EndTask(t)
    PROVE  IInv'
<1>. USE Sets DEF EndTask, Goto
<1>1. TypeOK'
  <2>1. pc' \in [Threads -> Places]
    BY DEF IInv, TypeOK, Places
  <2>2. storage' \in [Owners -> 0 .. MaxStorage]
    <3>1. storage \in [Owners -> 0 .. MaxStorage] /\ 0 \in 0 .. MaxStorage
      BY DEF IInv, TypeOK
    <3>2. storage' = [storage EXCEPT ![Owner(t)] = 0]
      OBVIOUS
    <3>. QED
      BY <3>1, <3>2
  <2>3. freed' \subseteq Handles
    <3>1. allocated \in 0 .. MaxHandles /\ freed \subseteq Handles
      BY DEF IInv, TypeOK
    <3>2. 1 .. allocated \subseteq Handles
      BY <3>1 DEF Handles
    <3>. QED
      BY <3>1, <3>2 DEF Children
  <2>. QED
    BY <2>1, <2>2, <2>3 DEF IInv, TypeOK, tableVars, poolVars
<1>2. Control'
  BY DEF IInv, TypeOK, Control, Holding, WithHandle, Spawning, tableVars, poolVars
<1>3. Ring'
  BY RingSame DEF IInv
<1>. QED
  BY <1>1, <1>2, <1>3 DEF IInv

LEMMA PublishDoneIInv ==
    ASSUME ~RaceSpawns, IInv, NEW t \in Threads, PublishDone(t)
    PROVE  IInv'
<1>. USE Sets DEF PublishDone, Goto
<1>0. cur[t] \in Handles
  BY DEF IInv, Control
<1>1. TypeOK'
  <2>1. pc' \in [Threads -> Places]
    BY DEF IInv, TypeOK, Places
  <2>2. task' \in [Handles -> Task]
    BY <1>0 DEF IInv, TypeOK, Task
  <2>. QED
    BY <2>1, <2>2 DEF IInv, TypeOK, Task, tableVars, poolVars
<1>2. Control'
  BY DEF IInv, TypeOK, Control, Holding, WithHandle, Spawning, tableVars, poolVars
<1>3. Ring'
  BY RingSame DEF IInv
<1>. QED
  BY <1>1, <1>2, <1>3 DEF IInv

LEMMA BlockEnterIInv ==
    ASSUME ~RaceSpawns, IInv, NEW t \in Threads, BlockEnter(t)
    PROVE  IInv'
<1>. USE Sets DEF BlockEnter, Goto
<1>1. TypeOK'
  <2>1. pc' \in [Threads -> Places]
    BY DEF IInv, TypeOK, Places
  <2>. QED
    BY <2>1 DEF IInv, TypeOK, tableVars, poolVars
<1>2. Control'
  BY DEF IInv, TypeOK, Control, Holding, WithHandle, Spawning, tableVars, poolVars
<1>3. Ring'
  BY RingSame DEF IInv
<1>. QED
  BY <1>1, <1>2, <1>3 DEF IInv

LEMMA BlockReturnIInv ==
    ASSUME ~RaceSpawns, IInv, NEW t \in Threads, BlockReturn(t)
    PROVE  IInv'
<1>. USE Sets DEF BlockReturn, Goto
<1>1. TypeOK'
  <2>1. pc' \in [Threads -> Places]
    BY DEF IInv, TypeOK, Places
  <2>. QED
    BY <2>1 DEF IInv, TypeOK, tableVars, poolVars
<1>2. Control'
  BY DEF IInv, TypeOK, Control, Holding, WithHandle, Spawning, tableVars, poolVars
<1>3. Ring'
  BY RingSame DEF IInv
<1>. QED
  BY <1>1, <1>2, <1>3 DEF IInv

LEMMA LockIInv ==
    ASSUME ~RaceSpawns, IInv, NEW t \in Threads, LockStep(t)
    PROVE  IInv'
<1>1. PICK from \in {"push", "pop"}, to \in {"pushTest", "popTest"} :
         Lock(t, from, to) /\ (to = "pushTest" => from = "push")
  BY DEF LockStep, PushLock, PopLock
<1>. USE <1>1, Sets DEF Lock, Goto
<1>2. TypeOK'
  <2>1. pc' \in [Threads -> Places]
    BY DEF IInv, TypeOK, Places
  <2>. QED
    BY <2>1 DEF IInv, TypeOK, tableVars, poolVars
<1>3. Control'
  <2>1. \A u \in Threads : pc[u] \notin Holding
    BY DEF IInv, Control
  <2>2. \A u \in Threads : pc'[u] = IF u = t THEN to ELSE pc[u]
    BY DEF IInv, TypeOK
  <2>3. UNCHANGED <<qn, op, cur, tmp, qtasks_n>>
    BY DEF tableVars, poolVars
  <2>4. pc[t] = from /\ qlk' = t
    OBVIOUS
  <2>. HIDE DEF Lock
  <2>. QED
    BY <2>1, <2>2, <2>3, <2>4 DEF IInv, Control, Holding, WithHandle, Spawning
<1>4. Ring'
  BY RingSame DEF IInv
<1>. QED
  BY <1>2, <1>3, <1>4 DEF IInv

-----------------------------------------------------------------------------
(* The ring under the spinlock.                                             *)

\* qpush writes the cell after the window and no cell of it.
LEMMA PushWindow ==
    ASSUME IInv, NEW t \in Threads, PushStore(t)
    PROVE  /\ qn < QCAP /\ qn' = qn + 1 /\ qh' = qh
           /\ qt' = (qh' + qn') % QCAP
           /\ op[t] \in Handles
           /\ qq'[(qh + qn) % QCAP] = op[t]
           /\ \A i \in 1 .. qn : qq'[(qh + i - 1) % QCAP] = qq[(qh + i - 1) % QCAP]
<1>. USE Sets DEF PushStore
<1>1. /\ qn < QCAP /\ qn \in 0 .. QCAP - 1 /\ qn \in 0 .. QCAP /\ qh \in 0 .. QCAP - 1
      /\ op[t] \in Handles
      /\ qt = (qh + qn) % QCAP
      /\ qq \in [0 .. QCAP - 1 -> Handles \cup {NULL}]
      /\ pc[t] = "pushStore"
  BY DEF IInv, TypeOK, Control, Ring, WithHandle, Spawning, Slots
<1>2. qt \in 0 .. QCAP - 1
  BY DEF IInv, TypeOK, Slots
<1>3. (qh + qn + 1) % QCAP = (qt + 1) % QCAP
  <2>1. (qh + (qn + 1)) % QCAP = (qt + 1) % QCAP
    BY <1>1, WrapNext
  <2>2. qh + (qn + 1) = qh + qn + 1
    BY <1>1
  <2>. QED
    BY <2>1, <2>2
<1>4. qt' = (qh' + qn') % QCAP
  <2>1. qh' + qn' = qh + qn + 1
    BY <1>1
  <2>. QED
    BY <1>3, <2>1
<1>5. ASSUME NEW i \in 1 .. qn
      PROVE  qq'[(qh + i - 1) % QCAP] = qq[(qh + i - 1) % QCAP]
  <2>1. i - 1 \in 0 .. QCAP - 1 /\ i - 1 # qn /\ i - 1 \in 0 .. QCAP
    BY <1>1
  <2>2. (qh + (i - 1)) % QCAP # (qh + qn) % QCAP
    BY <1>1, <2>1, WrapInjective
  <2>3. (qh + (i - 1)) % QCAP \in 0 .. QCAP - 1
    BY <1>1, <2>1, Wrap
  <2>4. qh + (i - 1) = qh + i - 1
    BY <1>1
  <2>. QED
    BY <1>1, <2>2, <2>3, <2>4
<1>. QED
  BY <1>1, <1>2, <1>4, <1>5

\* qpop takes the first cell of the window; the others move up by one.
LEMMA PopWindow ==
    ASSUME IInv, NEW t \in Threads, PopTake(t)
    PROVE  /\ qn > 0 /\ qn' = qn - 1 /\ qq' = qq
           /\ op' = [op EXCEPT ![t] = qq[qh]] /\ qq[qh] \in Handles
           /\ qt' = (qh' + qn') % QCAP
           /\ \A i \in 1 .. qn - 1 : (qh' + i - 1) % QCAP = (qh + (i + 1) - 1) % QCAP
<1>. USE Sets DEF PopTake
<1>1. /\ qn > 0 /\ qn \in 0 .. QCAP /\ qh \in 0 .. QCAP - 1
      /\ qt = (qh + qn) % QCAP
      /\ qt' = qt /\ qn' = qn - 1 /\ qh' = (qh + 1) % QCAP
  BY DEF IInv, TypeOK, Control, Ring, Slots
<1>2. qh' \in 0 .. QCAP - 1
  BY <1>1
<1>3. qq[qh] \in Handles
  <2>1. 1 \in 1 .. qn /\ qh + 1 - 1 = qh /\ qh % QCAP = qh
    BY <1>1
  <2>. QED
    BY <2>1 DEF IInv, Ring
<1>4. ASSUME NEW i \in 1 .. qn
      PROVE  (qh' + i - 1) % QCAP = (qh + (i + 1) - 1) % QCAP
  <2>1. i - 1 \in 0 .. QCAP - 1
    BY <1>1
  <2>2. (((qh + 1) % QCAP) + (i - 1)) % QCAP = (qh + (i - 1) + 1) % QCAP
    BY <1>1, <2>1, WrapStep
  <2>3. qh + (i - 1) + 1 = qh + (i + 1) - 1 /\ qh' + (i - 1) = qh' + i - 1
    BY <1>1, <1>2
  <2>. QED
    BY <1>1, <2>2, <2>3
<1>5. qt' = (qh' + qn') % QCAP
  <2>1. qn \in 1 .. qn /\ qh' + qn - 1 = qh' + qn' /\ qh + (qn + 1) - 1 = qh + qn
    BY <1>1, <1>2
  <2>2. (qh' + qn - 1) % QCAP = (qh + (qn + 1) - 1) % QCAP
    BY <1>4, <2>1
  <2>. QED
    BY <1>1, <2>1, <2>2
<1>6. op' = [op EXCEPT ![t] = qq[qh]] /\ qq' = qq
  OBVIOUS
<1>7. \A i \in 1 .. qn - 1 : i \in 1 .. qn
  BY <1>1
<1>. QED
  BY <1>1, <1>3, <1>4, <1>5, <1>6, <1>7

LEMMA PushStoreIInv ==
    ASSUME ~RaceSpawns, IInv, NEW t \in Threads, PushStore(t)
    PROVE  IInv'
<1>. USE Sets DEF PushStore, Goto
<1>1. TypeOK'
  <2>1. pc' \in [Threads -> Places]
    BY DEF IInv, TypeOK, Places
  <2>2. qn' \in 0 .. QCAP
    <3>1. qn \in 0 .. QCAP
      BY DEF IInv, TypeOK
    <3>. HIDE DEF PushStore
    <3>. QED
      BY <3>1, PushWindow
  <2>3. qt' \in Slots
    BY DEF IInv, TypeOK, Slots
  <2>4. qq' \in [Slots -> Handles \cup {NULL}]
    BY PushWindow DEF IInv, TypeOK
  <2>. QED
    BY <2>1, <2>2, <2>3, <2>4 DEF IInv, TypeOK, tableVars
<1>2. Control'
  <2>1. \A u \in Threads : pc'[u] = IF u = t THEN pc'[t] ELSE pc[u]
    BY DEF IInv, TypeOK
  <2>2. pc'[t] \in {"wake", "code"}
    BY DEF IInv, TypeOK
  <2>3. \A u \in Threads : u # t => pc[u] \notin Holding
    BY DEF IInv, Control, Holding
  <2>4. UNCHANGED <<op, cur, tmp, qtasks_n>>
    BY DEF tableVars
  <2>. QED
    BY <2>1, <2>2, <2>3, <2>4 DEF IInv, Control, Holding, WithHandle, Spawning
<1>3. Ring'
  <2>1. ASSUME NEW i \in 1 .. qn'
        PROVE  qq'[(qh' + i - 1) % QCAP] \in Handles
    <3>1. CASE i \in 1 .. qn
      BY <3>1, PushWindow DEF IInv, Ring
    <3>2. CASE i = qn + 1
      <4>1. qh' + i - 1 = qh + qn
        BY <3>2, PushWindow DEF IInv, TypeOK, Slots
      <4>. QED
        BY <4>1, PushWindow
    <3>3. i \in 1 .. qn \/ i = qn + 1
      BY PushWindow DEF IInv, TypeOK
    <3>. QED
      BY <3>1, <3>2, <3>3
  <2>2. qt' = (qh' + qn') % QCAP
    BY PushWindow
  <2>. QED
    BY <2>1, <2>2 DEF Ring
<1>. QED
  BY <1>1, <1>2, <1>3 DEF IInv

LEMMA PopTakeIInv ==
    ASSUME ~RaceSpawns, IInv, NEW t \in Threads, PopTake(t)
    PROVE  IInv'
<1>. USE Sets DEF PopTake, Goto
<1>1. TypeOK'
  <2>1. pc' \in [Threads -> Places]
    BY DEF IInv, TypeOK, Places
  <2>2. qn' \in 0 .. QCAP
    <3>1. qn \in 0 .. QCAP
      BY DEF IInv, TypeOK
    <3>. HIDE DEF PopTake
    <3>. QED
      BY <3>1, PopWindow
  <2>3. qh' \in Slots
    BY DEF IInv, TypeOK, Slots
  <2>4. op' \in [Threads -> Handles \cup {NULL}]
    BY PopWindow DEF IInv, TypeOK
  <2>. QED
    BY <2>1, <2>2, <2>3, <2>4 DEF IInv, TypeOK, tableVars
<1>2. Control'
  <2>1. \A u \in Threads : pc'[u] = IF u = t THEN "begin" ELSE pc[u]
    BY DEF IInv, TypeOK
  <2>2. \A u \in Threads : op'[u] = IF u = t THEN qq[qh] ELSE op[u]
    BY DEF IInv, TypeOK
  <2>3. \A u \in Threads : u # t => pc[u] \notin Holding
    BY DEF IInv, Control, Holding
  <2>4. UNCHANGED <<cur, tmp, qtasks_n>>
    BY DEF tableVars
  <2>5. qq[qh] \in Handles
    BY PopWindow
  <2>. QED
    BY <2>1, <2>2, <2>3, <2>4, <2>5 DEF IInv, Control, Holding, WithHandle, Spawning
<1>3. Ring'
  <2>1. ASSUME NEW i \in 1 .. qn'
        PROVE  qq'[(qh' + i - 1) % QCAP] \in Handles
    <3>1. i \in 1 .. qn - 1 /\ i + 1 \in 1 .. qn
      BY PopWindow DEF IInv, TypeOK
    <3>. QED
      BY <3>1, PopWindow DEF IInv, Ring
  <2>2. qt' = (qh' + qn') % QCAP
    BY PopWindow
  <2>. QED
    BY <2>1, <2>2 DEF Ring
<1>. QED
  BY <1>1, <1>2, <1>3 DEF IInv

LEMMA NextIInv == ~RaceSpawns /\ IInv /\ [Next]_vars => IInv'
<1>. SUFFICES ASSUME ~RaceSpawns, IInv, [Next]_vars
              PROVE  IInv'
  OBVIOUS
<1>1. CASE UNCHANGED vars
  <2>1. TypeOK'
    BY <1>1 DEF IInv, TypeOK, vars, tableVars, poolVars
  <2>2. Control'
    BY <1>1 DEF IInv, Control, vars, tableVars, poolVars
  <2>3. Ring'
    BY <1>1, RingSame DEF IInv, vars
  <2>. QED
    BY <2>1, <2>2, <2>3 DEF IInv
<1>2. ASSUME NEW t \in Threads, RuntimeStep(t)
      PROVE  IInv'
  BY <1>2, SpawnLoadIInv, SpawnStoreIInv, MergeFnIInv, MergeArgsIInv, PushTestIInv,
     PushStoreIInv, WakeIInv, PopTestIInv, PopTakeIInv, SleepIInv, BeginTaskIInv,
     PublishDoneIInv, BlockReturnIInv DEF RuntimeStep
<1>3. ASSUME NEW t \in Threads, LockStep(t)
      PROVE  IInv'
  BY <1>3, LockIInv
<1>4. ASSUME NEW t \in Threads, ProgramStep(t) \/ EndTask(t) \/ SpuriousWakeup(t)
      PROVE  IInv'
  BY <1>4, SpawnAllocIInv, MergeEnterIInv, BlockEnterIInv, AllocateIInv, EndTaskIInv,
     SpuriousWakeupIInv DEF ProgramStep
<1>. QED
  BY <1>1, <1>2, <1>3, <1>4 DEF Next

\* Every variable of the pool stays within its type, for any number of workers:
\* the indices and the count stay inside the ring, the task table is not written
\* past its end, and no thread works on a handle that does not exist.
THEOREM TypeCorrect ==
    ASSUME ~RaceSpawns
    PROVE  Spec => []TypeOK
<1>1. IInv => TypeOK
  BY DEF IInv
<1>2. IInv /\ [Next]_vars => IInv'
  BY NextIInv
<1>. QED
  BY InitIInv, <1>1, <1>2, PTL DEF Spec

-----------------------------------------------------------------------------
(* The queue.                                                               *)

Shape == /\ Queue \in Seq(Handles)
         /\ Len(Queue) = qn
         /\ \A i \in 1 .. qn : Queue[i] = qq[(qh + i - 1) % QCAP]

LEMMA QueueShape == IInv => Shape
<1>. SUFFICES ASSUME IInv
              PROVE  Shape
  OBVIOUS
<1>1. qn \in Nat
  BY Sets DEF IInv, TypeOK
<1>2. Queue \in [1 .. qn -> Handles]
  BY DEF IInv, Ring, Queue
<1>. QED
  BY <1>1, <1>2 DEF Queue, Shape

LEMMA QueueShapeNext == IInv' => Shape'
BY QueueShape, PTL

\* The queue before and after a step, cell by cell.
LEMMA QueueCells ==
    ASSUME IInv, IInv'
    PROVE  /\ Queue \in Seq(Handles) /\ Len(Queue) = qn /\ qn \in Nat
           /\ \A i \in 1 .. qn : Queue[i] = qq[(qh + i - 1) % QCAP]
           /\ Queue' \in Seq(Handles) /\ Len(Queue') = qn'
           /\ \A i \in 1 .. qn' : Queue'[i] = qq'[(qh' + i - 1) % QCAP]
           /\ qh \in Nat
<1>1. qn \in Nat /\ qh \in Nat
  BY Sets DEF IInv, TypeOK, Slots
<1>2. Shape /\ Shape'
  BY QueueShape, QueueShapeNext
<1>. QED
  BY <1>1, <1>2 DEF Shape

\* qpush adds the caller's handle at the end of the queue.
LEMMA PushAppends ==
    ASSUME IInv, IInv', NEW t \in Threads, PushStore(t)
    PROVE  /\ Len(Queue') = Len(Queue) + 1
           /\ \A i \in 1 .. Len(Queue) : Queue'[i] = Queue[i]
           /\ Queue'[Len(Queue) + 1] = op[t]
<1>0. /\ qn \in Nat /\ qn' = qn + 1 /\ qh' = qh
      /\ \A i \in 1 .. qn : qq'[(qh + i - 1) % QCAP] = qq[(qh + i - 1) % QCAP]
  BY QueueCells, PushWindow
<1>1. \A i \in 1 .. qn : Queue'[i] = Queue[i]
  <2>1. \A i \in 1 .. qn : i \in 1 .. qn'
    BY <1>0
  <2>. QED
    BY <1>0, <2>1, QueueCells
<1>2. Queue'[qn + 1] = op[t]
  <2>1. qn + 1 \in 1 .. qn' /\ qh' + (qn + 1) - 1 = qh + qn
    BY QueueCells, PushWindow
  <2>. QED
    BY QueueCells, <2>1, PushWindow
<1>. QED
  BY <1>1, <1>2, QueueCells, PushWindow

\* qpop takes the first handle of the queue.
LEMMA PopTakesHead ==
    ASSUME IInv, IInv', NEW t \in Threads, PopTake(t)
    PROVE  /\ Len(Queue) > 0 /\ Len(Queue') = Len(Queue) - 1
           /\ \A i \in 1 .. Len(Queue) - 1 : Queue'[i] = Queue[i + 1]
           /\ op' = [op EXCEPT ![t] = Queue[1]]
<1>1. qn > 0 /\ Len(Queue') = qn - 1
  BY QueueCells, PopWindow
<1>2. ASSUME NEW i \in 1 .. qn - 1
      PROVE  Queue'[i] = Queue[i + 1]
  <2>1. i + 1 \in 1 .. qn /\ i \in 1 .. qn'
    BY QueueCells, PopWindow
  <2>2. Queue'[i] = qq[(qh + (i + 1) - 1) % QCAP]
    BY QueueCells, <2>1, PopWindow
  <2>. QED
    BY QueueCells, <2>1, <2>2
<1>3. Queue[1] = qq[qh]
  <2>1. 1 \in 1 .. qn /\ qh + 1 - 1 = qh /\ qh % QCAP = qh
    <3>1. qn \in Nat \ {0} /\ qh \in 0 .. QCAP - 1
      BY <1>1, QueueCells, Sets DEF IInv, TypeOK, Slots
    <3>. QED
      BY <3>1, Sets
  <2>. QED
    BY <2>1, QueueCells
<1>. QED
  BY <1>1, <1>2, <1>3, QueueCells, PopWindow

LEMMA QueueStep ==
    ASSUME ~RaceSpawns, IInv, IInv', [Next]_vars
    PROVE  \/ Queue' = Queue
           \/ \E h \in Handles : Queue' = Append(Queue, h)
           \/ Queue # <<>> /\ Queue' = Tail(Queue)
<1>1. ASSUME NEW t \in Threads, PushStore(t)
      PROVE  \E h \in Handles : Queue' = Append(Queue, h)
  <2>1. Queue' = Append(Queue, op[t])
    BY QueueCells, <1>1, PushAppends
  <2>. QED
    BY <1>1, <2>1, PushWindow
<1>2. ASSUME NEW t \in Threads, PopTake(t)
      PROVE  Queue # <<>> /\ Queue' = Tail(Queue)
  BY QueueCells, <1>2, PopTakesHead
<1>3. CASE UNCHANGED poolVars
  BY <1>3 DEF poolVars, Queue
<1>4. ASSUME NEW t \in Threads,
             RuntimeStep(t) \/ LockStep(t) \/ ProgramStep(t) \/ EndTask(t) \/ SpuriousWakeup(t)
      PROVE  PushStore(t) \/ PopTake(t) \/ UNCHANGED poolVars
  BY <1>4 DEF RuntimeStep, LockStep, ProgramStep, SpawnAlloc, SpawnLoad, SpawnStore,
     MergeEnter, MergeFn, MergeArgs, Lock, PushLock, PopLock, PushTest, Wake, PopTest,
     Sleep, SpuriousWakeup, BeginTask, Allocate, EndTask, PublishDone, BlockEnter, BlockReturn
<1>5. UNCHANGED vars => UNCHANGED poolVars
  BY DEF vars
<1>. QED
  BY <1>1, <1>2, <1>3, <1>4, <1>5 DEF Next

\* qpush and qpop under the hand-written spinlock are operations of a queue:
\* each step leaves it alone, appends a handle or takes the oldest.
THEOREM RingIsFifo ==
    ASSUME ~RaceSpawns
    PROVE  Spec => FifoStep
<1>1. IInv /\ [Next]_vars => IInv'
  BY NextIInv
<1>2. IInv /\ IInv' /\ [Next]_vars =>
        [\/ Queue' = Queue
         \/ \E h \in Handles : Queue' = Append(Queue, h)
         \/ Queue # <<>> /\ Queue' = Tail(Queue)]_vars
  BY QueueStep
<1>. QED
  BY InitIInv, <1>1, <1>2, PTL DEF Spec, FifoStep

-----------------------------------------------------------------------------
(* The jobs: for programs that merge only idle threads and spawn one thread *)
(* at a time, a merge is called once with its own function and arguments,   *)
(* no two workers share an owner, and done means reclaimed.                 *)

Disciplined == ~RaceSpawns /\ ~ReMerge

\* A handle on its way: being spawned, being written by ql_merge, or carrying
\* a job that no worker has begun.
Merging == {"mergeFn", "mergeArgs"}
Carrying == {"push", "pushTest", "pushStore", "pushWait", "pushSleep", "begin"}

\* The places of a worker between two tasks.
Between == {"absent", "pop", "popTest", "popTake", "popWait", "popSleep", "begin"}

Published(h) == task[h].id \in Ids /\ qtasks[task[h].id] = h

\* The table holds allocated handles under their own identifiers, and what is
\* not in it yet has neither an identifier nor a job.
Table ==
    /\ \A id \in Ids : qtasks[id] # NULL =>
                         qtasks[id] \in 1 .. allocated /\ task[qtasks[id]].id = id
    /\ \A id \in Ids : id > qtasks_n => qtasks[id] = NULL
    /\ \A h \in Handles : h > allocated => task[h].id = 0 /\ task[h].done = 1 /\ task[h].arg = 0
    /\ \A t \in Threads : pc[t] \in Spawning => op[t] \in 1 .. allocated /\ task[op[t]].id = 0

\* Who sleeps is in a wait, who is between two tasks runs none.
Resting ==
    /\ \A t \in sleepers : pc[t] \in {"pushSleep", "popSleep"}
    /\ \A t \in Threads : pc[t] \in Between => cur[t] = NULL

Known ==
    /\ \A t \in Threads : pc[t] \in Merging \cup Carrying => Published(op[t])
    /\ \A i \in DOMAIN Queue : Published(Queue[i])
    /\ \A t \in Threads : cur[t] # NULL => Published(cur[t])

\* A job is in one place: carried by one thread, in one slot of the ring, or run
\* by one worker.
OnePlace ==
    /\ \A t \in Threads : pc[t] \in Carrying =>
         /\ \A u \in Threads : u # t => ~(pc[u] \in Carrying /\ op[u] = op[t])
         /\ \A i \in DOMAIN Queue : Queue[i] # op[t]
         /\ \A u \in Threads : cur[u] # op[t]
    /\ \A i \in DOMAIN Queue :
         /\ \A j \in DOMAIN Queue : j # i => Queue[j] # Queue[i]
         /\ \A u \in Threads : cur[u] # Queue[i]
    /\ \A t, u \in Threads : t # u /\ cur[t] # NULL => cur[u] # cur[t]

\* A handle with a job is not done; one that a merge is writing is, and is
\* written by that merge alone.
Busy ==
    /\ \A t \in Threads : pc[t] \in Carrying => task[op[t]].done = 0
    /\ \A i \in DOMAIN Queue : task[Queue[i]].done = 0
    /\ \A t \in Threads : cur[t] # NULL => task[cur[t]].done = 0
    /\ \A t \in Threads : pc[t] \in Merging =>
         /\ task[op[t]].done = 1
         /\ \A u \in Threads : u # t => ~(pc[u] \in Merging /\ op[u] = op[t])

\* The merges that were called, and the handles whose merge waits for its call.
Called(p) == \E i \in DOMAIN calls : calls[i].fn = p
Waits(h) == task[h].fn = task[h].arg /\ task[h].arg \in 1 .. merges /\ ~Called(task[h].arg)

\* Every call was of a merge, with its own function and arguments, and of each
\* merge there was one.
OnceCalled ==
    /\ calls \in Seq([fn : Nat, arg : Nat])
    /\ \A i \in DOMAIN calls : calls[i].fn = calls[i].arg /\ calls[i].fn \in 1 .. merges
    /\ \A i, j \in DOMAIN calls : i # j => calls[i].fn # calls[j].fn

\* A handle holds the arguments of a merge no other handle holds.
OwnArguments ==
    /\ \A h \in Handles : task[h].arg \in 0 .. merges
    /\ \A h, k \in Handles : h # k /\ task[h].arg # 0 => task[k].arg # task[h].arg

\* A merge in progress has a number that nobody else has.
OwnNumber ==
    \A t \in Threads : pc[t] \in Merging =>
        /\ tmp[t] \in 1 .. merges /\ ~Called(tmp[t])
        /\ \A u \in Threads : u # t /\ pc[u] \in Merging => tmp[u] # tmp[t]
        /\ \A h \in Handles : task[h].arg # tmp[t]
        /\ pc[t] = "mergeArgs" => task[op[t]].fn = tmp[t]

\* The merge of a handle waits from the end of ql_merge's writes to the call.
OnceWaiting ==
    /\ \A t \in Threads : pc[t] \in Carrying => Waits(op[t])
    /\ \A i \in DOMAIN Queue : Waits(Queue[i])
    /\ \A t \in Threads : cur[t] # NULL => Called(task[cur[t]].arg)
    /\ \A h \in Handles : task[h].done = 1 /\ task[h].arg # 0 => Called(task[h].arg)

Numbers == OnceCalled /\ OwnArguments /\ OwnNumber /\ OnceWaiting

\* Storage in use belongs to a task that runs and has not been reclaimed.
Stored ==
    \A o \in Owners : storage[o] # 0 =>
        \E w \in Threads : cur[w] # NULL /\ task[cur[w]].id = o /\ pc[w] # "publish"

Jobs == Known /\ OnePlace /\ Busy
JInv == IInv /\ Table /\ Resting /\ Jobs /\ Numbers /\ Stored

-----------------------------------------------------------------------------
LEMMA InitJInv == Init => JInv
<1>. SUFFICES ASSUME Init
              PROVE  JInv
  OBVIOUS
<1>1. IInv
  BY InitIInv
<1>2. Queue \in Seq(Handles) /\ Len(Queue) = 0 /\ DOMAIN Queue = {}
  <2>1. Shape
    BY <1>1, QueueShape
  <2>. QED
    BY <2>1 DEF Shape, Init
<1>3. Table
  BY Sets DEF Init, Table, Spawning, Ids, Handles
<1>4. Resting
  BY Sets DEF Init, Resting
<1>5. Jobs
  BY <1>2, Sets DEF Init, Jobs, Known, OnePlace, Busy, Merging, Carrying
<1>6. Numbers
  BY <1>2, Sets DEF Init, Numbers, OnceCalled, OwnArguments, OwnNumber, OnceWaiting, Merging, Carrying
<1>7. Stored
  BY Sets DEF Init, Stored
<1>. QED
  BY <1>1, <1>3, <1>4, <1>5, <1>6, <1>7 DEF JInv

-----------------------------------------------------------------------------
(* Resting.                                                                 *)

\* A thread that is awake moves on; it comes between two tasks only from there.
LEMMA RestingMove ==
    ASSUME TypeOK, Resting, NEW t \in Threads, NEW l,
           pc' = [pc EXCEPT ![t] = l], UNCHANGED <<cur, sleepers>>,
           pc[t] \notin {"pushSleep", "popSleep"},
           l \in Between => pc[t] \in Between
    PROVE  Resting'
<1>1. pc \in [Threads -> Places] /\ sleepers \subseteq Threads
  BY DEF TypeOK
<1>2. \A u \in Threads : pc'[u] = IF u = t THEN l ELSE pc[u]
  BY <1>1
<1>. QED
  BY <1>1, <1>2 DEF Resting

\* A sleeper that wakes is a producer that goes on pushing, or a worker between
\* two tasks.
LEMMA RestingResume ==
    ASSUME TypeOK, Resting, NEW u \in sleepers
    PROVE  /\ u \in Threads
           /\ \/ pc[u] = "pushSleep" /\ Resume(u) = "push"
              \/ pc[u] = "popSleep" /\ Resume(u) = "pop" /\ cur[u] = NULL
BY DEF TypeOK, Resting, Resume, Between

LEMMA RestingNext ==
    ASSUME IInv, Resting, [Next]_vars
    PROVE  Resting'
<1>0. /\ TypeOK /\ pc \in [Threads -> Places] /\ sleepers \subseteq Threads
      /\ cur \in [Threads -> Handles \cup {NULL}]
  BY DEF IInv, TypeOK
<1>1. ASSUME NEW t \in Threads, RuntimeStep(t)
      PROVE  Resting'
  <2>1. CASE SpawnLoad(t) \/ SpawnStore(t) \/ MergeFn(t) \/ MergeArgs(t) \/ BlockReturn(t)
    BY <1>0, <2>1, RestingMove
       DEF SpawnLoad, SpawnStore, MergeFn, MergeArgs, BlockReturn, Goto, Between
  <2>2. CASE PushTest(t) \/ PushStore(t) \/ PopTest(t) \/ PopTake(t)
    BY <1>0, <2>2, RestingMove DEF PushTest, PushStore, PopTest, PopTake, Goto, Between
  <2>3. CASE Wake(t)
    <3>1. CASE sleepers = {} /\ Goto(t, "code") /\ UNCHANGED sleepers
      BY <1>0, <2>3, <3>1, RestingMove DEF Wake, Goto, Between
    <3>2. ASSUME NEW u \in sleepers, sleepers' = sleepers \ {u},
                 pc' = [pc EXCEPT ![t] = "code", ![u] = Resume(u)]
          PROVE  Resting'
      <4>1. \A v \in Threads : pc'[v] = IF v = u THEN Resume(u)
                                        ELSE IF v = t THEN "code" ELSE pc[v]
        BY <1>0, <3>2
      <4>2. cur' = cur /\ pc[t] = "wake"
        BY <2>3 DEF Wake
      <4>. QED
        BY <1>0, <3>2, <4>1, <4>2, RestingResume DEF Resting, Between
    <3>. QED
      BY <2>3, <3>1, <3>2 DEF Wake
  <2>4. CASE Sleep(t)
    <3>1. PICK l \in {"pushSleep", "popSleep"} :
             /\ pc' = [pc EXCEPT ![t] = l]
             /\ l = "popSleep" => pc[t] = "popWait"
      BY <2>4 DEF Sleep, Goto
    <3>2. \A u \in Threads : pc'[u] = IF u = t THEN l ELSE pc[u]
      BY <1>0, <3>1
    <3>3. cur' = cur /\ sleepers' = sleepers \cup {t}
      BY <2>4 DEF Sleep
    <3>. QED
      BY <1>0, <3>1, <3>2, <3>3 DEF Resting, Between
  <2>5. CASE BeginTask(t)
    <3>1. /\ \A u \in Threads : pc'[u] = IF u = t THEN "code" ELSE pc[u]
          /\ \A u \in Threads : u # t => cur'[u] = cur[u]
          /\ sleepers' = sleepers /\ pc[t] = "begin"
      BY <1>0, <2>5 DEF BeginTask, Goto
    <3>. QED
      BY <1>0, <3>1 DEF Resting, Between
  <2>6. CASE PublishDone(t)
    <3>1. /\ \A u \in Threads : pc'[u] = IF u = t THEN "pop" ELSE pc[u]
          /\ \A u \in Threads : cur'[u] = IF u = t THEN NULL ELSE cur[u]
          /\ sleepers' = sleepers /\ pc[t] = "publish"
      BY <1>0, <2>6 DEF PublishDone, Goto
    <3>. QED
      BY <1>0, <3>1 DEF Resting, Between
  <2>. QED
    BY <1>1, <2>1, <2>2, <2>3, <2>4, <2>5, <2>6 DEF RuntimeStep
<1>2. ASSUME NEW t \in Threads, LockStep(t)
      PROVE  Resting'
  BY <1>0, <1>2, RestingMove DEF LockStep, PushLock, PopLock, Lock, Goto, Between
<1>3. ASSUME NEW t \in Threads, SpawnAlloc(t) \/ BlockEnter(t) \/ EndTask(t)
      PROVE  Resting'
  BY <1>0, <1>3, RestingMove DEF SpawnAlloc, BlockEnter, EndTask, Goto, Between
<1>4. ASSUME NEW t \in Threads, MergeEnter(t)
      PROVE  Resting'
  <2>1. /\ \A u \in Threads : pc'[u] = IF u = t THEN "mergeFn"
                                       ELSE IF pc[u] = "absent" THEN "pop" ELSE pc[u]
        /\ cur' = cur /\ sleepers' = sleepers /\ pc[t] = "code"
    BY <1>4 DEF MergeEnter
  <2>. QED
    BY <1>0, <2>1 DEF Resting, Between
<1>5. ASSUME NEW t \in Threads, Allocate(t)
      PROVE  Resting'
  BY <1>5 DEF Allocate, Resting
<1>6. ASSUME NEW t \in Threads, SpuriousWakeup(t)
      PROVE  Resting'
  <2>1. /\ \A u \in Threads : pc'[u] = IF u = t THEN Resume(t) ELSE pc[u]
        /\ cur' = cur /\ sleepers' = sleepers \ {t} /\ t \in sleepers
    BY <1>0, <1>6 DEF SpuriousWakeup, Goto
  <2>. QED
    BY <1>0, <2>1, RestingResume DEF Resting, Between
<1>7. CASE UNCHANGED vars
  BY <1>7 DEF vars, Resting
<1>. QED
  BY <1>1, <1>2, <1>3, <1>4, <1>5, <1>6, <1>7 DEF Next, ProgramStep

-----------------------------------------------------------------------------
(* Steps that move no job.                                                  *)

\* A quiet step changes no handle, no queue and no register in use; it leads
\* nobody to a place where a handle is on its way.
Quiet ==
    /\ UNCHANGED <<tableVars, task, poolVars, cur, merges, calls>>
    /\ \A u \in Threads :
         /\ pc'[u] \in Merging => pc'[u] = pc[u] /\ op'[u] = op[u] /\ tmp'[u] = tmp[u]
         /\ pc'[u] \in Carrying => pc[u] \in Carrying /\ op'[u] = op[u]
         /\ pc'[u] \in Spawning => pc[u] \in Spawning /\ op'[u] = op[u]

\* It reclaims nothing either.
Keeping == storage' = storage /\ \A u \in Threads : pc'[u] = "publish" => pc[u] = "publish"

LEMMA QuietKeeps ==
    ASSUME Table, Jobs, Numbers, Quiet
    PROVE  Table' /\ Jobs' /\ Numbers'
<1>1. Queue' = Queue
  BY DEF Quiet, poolVars, Queue
<1>2. UNCHANGED <<qtasks, qtasks_n, allocated, task, cur, merges, calls>>
  BY DEF Quiet, tableVars
<1>3. Table'
  BY <1>2 DEF Table, Quiet
<1>4. \A h : Published(h)' <=> Published(h)
  BY <1>2 DEF Published
<1>5. Known'
  BY <1>1, <1>2, <1>4 DEF Jobs, Known, Quiet
<1>6. OnePlace'
  BY <1>1, <1>2 DEF Jobs, OnePlace, Quiet
<1>7. Busy'
  BY <1>1, <1>2 DEF Jobs, Busy, Quiet
<1>8. \A p : Called(p)' <=> Called(p)
  BY <1>2 DEF Called
<1>9. \A h : Waits(h)' <=> Waits(h)
  BY <1>2, <1>8 DEF Waits
<1>10. Numbers'
  <2>1. OnceCalled' /\ OwnArguments'
    BY <1>2 DEF Numbers, OnceCalled, OwnArguments
  <2>2. OwnNumber'
    BY <1>2, <1>8 DEF Numbers, OwnNumber, Quiet
  <2>3. OnceWaiting'
    BY <1>1, <1>2, <1>8, <1>9 DEF Numbers, OnceWaiting, Quiet
  <2>. QED
    BY <2>1, <2>2, <2>3 DEF Numbers
<1>. QED
  BY <1>3, <1>5, <1>6, <1>7, <1>10 DEF Jobs

LEMMA KeepingStored ==
    ASSUME Stored, Keeping, UNCHANGED <<cur, task>>
    PROVE  Stored'
BY DEF Stored, Keeping

\* A step of one thread from one place to another that changes nothing else.
LEMMA MoveIsQuiet ==
    ASSUME TypeOK, NEW t \in Threads, NEW l,
           pc' = [pc EXCEPT ![t] = l],
           UNCHANGED <<tableVars, task, poolVars, op, cur, tmp, storage, merges, calls>>,
           l \notin Merging, l # "publish",
           l \in Carrying => pc[t] \in Carrying,
           l \in Spawning => pc[t] \in Spawning
    PROVE  Quiet /\ Keeping
<1>1. \A u \in Threads : pc'[u] = IF u = t THEN l ELSE pc[u]
  BY DEF TypeOK
<1>. QED
  BY <1>1 DEF Quiet, Keeping

LEMMA QuietSteps ==
    ASSUME IInv, Resting, NEW t \in Threads,
           \/ SpawnLoad(t) \/ PushTest(t) \/ Wake(t) \/ PopTest(t) \/ Sleep(t)
           \/ BlockEnter(t) \/ BlockReturn(t) \/ LockStep(t) \/ SpuriousWakeup(t)
    PROVE  Quiet /\ Keeping
<1>0. /\ TypeOK /\ pc \in [Threads -> Places] /\ sleepers \subseteq Threads
      /\ op \in [Threads -> Handles \cup {NULL}]
  BY DEF IInv, TypeOK
<1>. USE DEF Goto, Merging, Carrying, Spawning
<1>1. CASE SpawnLoad(t)
  <2>1. /\ \A u \in Threads : pc'[u] = IF u = t THEN "spawnStore" ELSE pc[u]
        /\ \A u \in Threads : u # t => tmp'[u] = tmp[u]
        /\ pc[t] = "spawnLoad"
        /\ UNCHANGED <<tableVars, task, poolVars, op, cur, storage, merges, calls>>
    BY <1>0, <1>1 DEF SpawnLoad, TypeOK
  <2>. QED
    BY <2>1 DEF Quiet, Keeping
<1>2. CASE PushTest(t) \/ PopTest(t)
  BY <1>0, <1>2, MoveIsQuiet DEF PushTest, PopTest
<1>3. CASE Wake(t)
  <2>1. CASE Goto(t, "code")
    BY <1>0, <1>3, <2>1, MoveIsQuiet DEF Wake
  <2>2. ASSUME NEW u \in sleepers, pc' = [pc EXCEPT ![t] = "code", ![u] = Resume(u)]
        PROVE  Quiet /\ Keeping
    <3>1. \A v \in Threads : pc'[v] = IF v = u THEN Resume(u)
                                      ELSE IF v = t THEN "code" ELSE pc[v]
      BY <1>0, <2>2
    <3>2. UNCHANGED <<tableVars, task, poolVars, op, cur, tmp, storage, merges, calls>>
      BY <1>3 DEF Wake
    <3>. QED
      BY <1>0, <3>1, <3>2, RestingResume DEF Quiet, Keeping
  <2>. QED
    BY <1>3, <2>1, <2>2 DEF Wake
<1>4. CASE Sleep(t)
  <2>1. PICK l \in {"pushSleep", "popSleep"} :
           /\ pc' = [pc EXCEPT ![t] = l]
           /\ l = "pushSleep" => pc[t] = "pushWait"
    BY <1>4 DEF Sleep
  <2>. QED
    BY <1>0, <1>4, <2>1, MoveIsQuiet DEF Sleep
<1>5. CASE BlockEnter(t)
  <2>1. /\ \A u \in Threads : pc'[u] = IF u = t THEN "block" ELSE pc[u]
        /\ \A u \in Threads : u # t => op'[u] = op[u]
        /\ UNCHANGED <<tableVars, task, poolVars, cur, tmp, storage, merges, calls>>
    BY <1>0, <1>5 DEF BlockEnter
  <2>. QED
    BY <2>1 DEF Quiet, Keeping
<1>6. CASE BlockReturn(t)
  BY <1>0, <1>6, MoveIsQuiet DEF BlockReturn
<1>7. CASE LockStep(t)
  BY <1>0, <1>7, MoveIsQuiet DEF LockStep, PushLock, PopLock, Lock
<1>8. CASE SpuriousWakeup(t)
  <2>1. t \in sleepers /\ pc' = [pc EXCEPT ![t] = Resume(t)]
    BY <1>8 DEF SpuriousWakeup
  <2>2. UNCHANGED <<tableVars, task, poolVars, op, cur, tmp, storage, merges, calls>>
    BY <1>8 DEF SpuriousWakeup
  <2>. QED
    BY <1>0, <2>1, <2>2, RestingResume, MoveIsQuiet
<1>. QED
  BY <1>1, <1>2, <1>3, <1>4, <1>5, <1>6, <1>7, <1>8

LEMMA QuietJInv ==
    ASSUME JInv, IInv', Resting', Quiet, Keeping
    PROVE  JInv'
<1>1. UNCHANGED <<cur, task>>
  BY DEF Quiet
<1>. QED
  BY <1>1, QuietKeeps, KeepingStored DEF JInv

-----------------------------------------------------------------------------
(* The task's function and its end.                                         *)

LEMMA AllocateJInv ==
    ASSUME JInv, IInv', Resting', NEW t \in Threads, Allocate(t)
    PROVE  JInv'
<1>1. Quiet
  BY DEF Allocate, Quiet, Merging, Carrying, Spawning
<1>2. Stored'
  <2>1. /\ storage \in [Owners -> 0 .. MaxStorage]
        /\ pc[t] = "code" /\ cur[t] # NULL /\ Owner(t) = task[cur[t]].id
        /\ storage' = [storage EXCEPT ![Owner(t)] = @ + 1]
        /\ UNCHANGED <<cur, task, pc>>
    BY DEF JInv, IInv, TypeOK, Allocate, Owner
  <2>2. \A o \in Owners : o # Owner(t) => storage'[o] = storage[o]
    BY <2>1
  <2>. QED
    BY <2>1, <2>2 DEF JInv, Stored
<1>. QED
  BY <1>1, <1>2, QuietKeeps DEF JInv

\* The storage of the task that ends is the one that is reclaimed.
LEMMA EndTaskJInv ==
    ASSUME JInv, IInv', Resting', NEW t \in Threads, EndTask(t)
    PROVE  JInv'
<1>0. /\ pc \in [Threads -> Places] /\ storage \in [Owners -> 0 .. MaxStorage]
      /\ pc[t] = "code" /\ cur[t] # NULL /\ Owner(t) = task[cur[t]].id
  BY DEF JInv, IInv, TypeOK, EndTask, Owner
<1>1. /\ \A u \in Threads : pc'[u] = IF u = t THEN "publish" ELSE pc[u]
      /\ \A o \in Owners : storage'[o] = IF o = Owner(t) THEN 0 ELSE storage[o]
      /\ UNCHANGED <<tableVars, task, poolVars, op, cur, tmp, merges, calls>>
  BY <1>0 DEF EndTask, Goto
<1>2. Quiet
  BY <1>1 DEF Quiet, Merging, Carrying, Spawning
<1>3. Stored'
  BY <1>0, <1>1 DEF JInv, Stored
<1>. QED
  BY <1>2, <1>3, QuietKeeps DEF JInv

-----------------------------------------------------------------------------
(* ql_spawn.                                                                *)

\* Handles on their way are in the table, the one being spawned is not.
LEMMA PublishedAllocated ==
    ASSUME Table, NEW h \in Handles, Published(h)
    PROVE  h \in 1 .. allocated /\ task[h].id \in Ids
BY NullAssumption DEF Table, Published

\* Where the handles in use are.
LEMMA HandlesInUse ==
    ASSUME IInv, Known
    PROVE  /\ \A u \in Threads : pc[u] \in Merging \cup Carrying \cup Spawning => op[u] \in Handles
           /\ \A i \in DOMAIN Queue : Queue[i] \in Handles
           /\ \A u \in Threads : cur[u] # NULL => cur[u] \in Handles
<1>1. \A u \in Threads : pc[u] \in Merging \cup Carrying \cup Spawning => op[u] \in Handles
  BY DEF IInv, Control, WithHandle, Spawning, Merging, Carrying, Spawning
<1>2. \A i \in DOMAIN Queue : Queue[i] \in Handles
  <2>1. Queue \in Seq(Handles)
    BY QueueShape DEF Shape
  <2>. QED
    BY <2>1
<1>3. \A u \in Threads : cur[u] # NULL => cur[u] \in Handles
  BY DEF IInv, TypeOK
<1>. QED
  BY <1>1, <1>2, <1>3

\* A step of ql_spawn changes no handle that is published and moves no job.
LEMMA SpawnKeepsJobs ==
    ASSUME JInv,
           \A h \in Handles : /\ Published(h) => Published(h)' /\ task'[h] = task[h]
                              /\ task'[h].done = task[h].done /\ task'[h].arg = task[h].arg,
           UNCHANGED <<poolVars, cur, tmp, storage, merges, calls>>,
           \A u \in Threads :
               /\ pc'[u] \in Merging \cup Carrying => pc'[u] = pc[u] /\ op'[u] = op[u]
               /\ pc'[u] = "publish" => pc[u] = "publish"
    PROVE  Jobs' /\ Numbers' /\ Stored'
<1>1. Queue' = Queue
  BY DEF poolVars, Queue
<1>2. /\ \A u \in Threads : pc[u] \in Merging \cup Carrying => op[u] \in Handles /\ Published(op[u])
      /\ \A i \in DOMAIN Queue : Queue[i] \in Handles /\ Published(Queue[i])
      /\ \A u \in Threads : cur[u] # NULL => cur[u] \in Handles /\ Published(cur[u])
  BY HandlesInUse DEF JInv, Jobs, Known
<1>3. Known'
  BY <1>1, <1>2 DEF Known
<1>4. OnePlace'
  BY <1>1 DEF JInv, Jobs, OnePlace
<1>5. Busy'
  BY <1>1, <1>2 DEF JInv, Jobs, Busy
<1>6. \A p : Called(p)' <=> Called(p)
  BY DEF Called
<1>7. \A h \in Handles : Published(h) /\ Waits(h) => Waits(h)'
  BY <1>6 DEF Waits
<1>8. OnceCalled' /\ OwnArguments'
  BY DEF JInv, Numbers, OnceCalled, OwnArguments
<1>9. OwnNumber'
  BY <1>2, <1>6 DEF JInv, Numbers, OwnNumber, Merging
<1>10. OnceWaiting'
  BY <1>1, <1>2, <1>6, <1>7 DEF JInv, Numbers, OnceWaiting
<1>11. Stored'
  BY <1>2 DEF JInv, Stored
<1>. QED
  BY <1>3, <1>4, <1>5, <1>8, <1>9, <1>10, <1>11 DEF Jobs, Numbers

LEMMA SpawnAllocJInv ==
    ASSUME JInv, IInv', Resting', NEW t \in Threads, SpawnAlloc(t)
    PROVE  JInv'
<1>. DEFINE n == allocated + 1
<1>1. /\ pc \in [Threads -> Places] /\ op \in [Threads -> Handles \cup {NULL}]
      /\ allocated \in 0 .. MaxHandles /\ task \in [Handles -> Task]
      /\ n \in Handles /\ n > allocated
  <2>1. /\ pc \in [Threads -> Places] /\ op \in [Threads -> Handles \cup {NULL}]
        /\ allocated \in 0 .. MaxHandles /\ task \in [Handles -> Task]
    BY DEF JInv, IInv, TypeOK, Task
  <2>2. allocated < MaxHandles
    BY DEF SpawnAlloc
  <2>. QED
    BY <2>1, <2>2, Sets DEF Handles
<1>2. task[n].id = 0 /\ task[n].done = 1 /\ task[n].arg = 0
  BY <1>1 DEF JInv, Table
<1>3. /\ allocated' = n /\ pc[t] = "code"
      /\ \A u \in Threads : pc'[u] = IF u = t THEN "spawnLoad" ELSE pc[u]
      /\ \A u \in Threads : op'[u] = IF u = t THEN n ELSE op[u]
      /\ UNCHANGED <<qtasks, qtasks_n, poolVars, cur, tmp, storage, merges, calls>>
  BY <1>1 DEF SpawnAlloc, Goto
<1>4. /\ \A h \in Handles : h # n => task'[h] = task[h]
      /\ task'[n].id = 0 /\ task'[n].done = 1 /\ task'[n].arg = 0
  BY <1>1 DEF SpawnAlloc
<1>5. \A h \in Handles : task'[h].id = task[h].id /\ task'[h].done = task[h].done
                         /\ task'[h].arg = task[h].arg
  BY <1>2, <1>4
<1>. HIDE DEF n
<1>6. \A h \in Handles : Published(h) => Published(h)' /\ task'[h] = task[h]
  BY <1>1, <1>3, <1>4, <1>5, PublishedAllocated DEF JInv, Published
<1>7. Table'
  <2>1. \A id \in Ids : qtasks[id] # NULL => qtasks[id] \in Handles /\ qtasks[id] \in 1 .. allocated
    BY DEF JInv, IInv, TypeOK, Table
  <2>2. 1 .. allocated \subseteq 1 .. n /\ n \in 1 .. n /\ \A h \in Handles : h > n => h > allocated
    BY <1>1 DEF Handles, n
  <2>3. \A u \in Threads : pc'[u] \in Spawning => op'[u] \in 1 .. n /\ task'[op'[u]].id = 0
    <3>1. \A u \in Threads : pc[u] \in Spawning => op[u] \in Handles
      BY HandlesInUse DEF JInv, Jobs
    <3>. QED
      BY <1>1, <1>3, <1>4, <1>5, <2>2, <3>1 DEF JInv, Table
  <2>. QED
    BY <1>3, <1>5, <2>1, <2>2, <2>3 DEF JInv, Table
<1>. QED
  BY <1>3, <1>5, <1>6, <1>7, SpawnKeepsJobs DEF JInv, Merging, Carrying

\* The handle is entered under an identifier that no handle has.
LEMMA SpawnStoreJInv ==
    ASSUME ~RaceSpawns, JInv, IInv', Resting', NEW t \in Threads, SpawnStore(t)
    PROVE  JInv'
<1>. DEFINE h == op[t]
            id == tmp[t] + 1
<1>1. /\ pc \in [Threads -> Places] /\ task \in [Handles -> Task]
      /\ qtasks \in [Ids -> Handles \cup {NULL}] /\ qtasks_n \in Nat
      /\ h \in Handles /\ id = qtasks_n + 1 /\ id \in Ids
  <2>1. /\ pc \in [Threads -> Places] /\ task \in [Handles -> Task]
        /\ qtasks \in [Ids -> Handles \cup {NULL}] /\ qtasks_n \in Owners
        /\ pc[t] = "spawnStore"
    BY DEF JInv, IInv, TypeOK, Task, SpawnStore
  <2>2. h \in Handles /\ tmp[t] = qtasks_n /\ qtasks_n < QMAXTASK - 1
    BY <2>1 DEF JInv, IInv, Control, WithHandle, Spawning
  <2>. QED
    BY <2>1, <2>2, Sets DEF Owners, Ids
<1>2. task[h].id = 0 /\ h \in 1 .. allocated /\ qtasks[id] = NULL
  BY <1>1 DEF JInv, Table, SpawnStore, Spawning
<1>3. \A u \in Threads : pc[u] \in Spawning => u = t
  BY DEF JInv, IInv, Control, SpawnStore, Spawning
<1>4. /\ qtasks_n' = id /\ allocated' = allocated
      /\ \A j \in Ids : qtasks'[j] = IF j = id THEN h ELSE qtasks[j]
      /\ \A k \in Handles : k # h => task'[k] = task[k]
      /\ task'[h].id = id /\ task'[h].done = task[h].done /\ task'[h].arg = task[h].arg
      /\ \A u \in Threads : pc'[u] = IF u = t THEN "code" ELSE pc[u]
      /\ UNCHANGED <<poolVars, op, cur, tmp, storage, merges, calls>>
  BY <1>1 DEF SpawnStore, Goto
<1>. HIDE DEF h, id
<1>5. \A k \in Handles : Published(k) => Published(k)' /\ task'[k] = task[k]
  <2>1. 0 \notin Ids /\ \A k \in Handles : k # NULL
    BY NullAssumption DEF Ids
  <2>. QED
    BY <1>1, <1>2, <1>4, <2>1 DEF Published
<1>6. Table'
  <2>1. \A j \in Ids : qtasks[j] # NULL => qtasks[j] \in Handles /\ qtasks[j] # h
    <3>1. 0 \notin Ids
      BY DEF Ids
    <3>. QED
      BY <1>1, <1>2, <3>1 DEF JInv, Table
  <2>2. \A j \in Ids : j > id => j > qtasks_n /\ j # id
    BY <1>1 DEF Ids
  <2>3. \A k \in Handles : k > allocated => k # h
    BY <1>2 DEF JInv, IInv, TypeOK, Handles
  <2>4. \A u \in Threads : pc'[u] \notin Spawning
    BY <1>3, <1>4 DEF Spawning
  <2>. QED
    BY <1>2, <1>4, <2>1, <2>2, <2>3, <2>4 DEF JInv, Table
<1>7. \A k \in Handles : task'[k].done = task[k].done /\ task'[k].arg = task[k].arg
  BY <1>4
<1>. QED
  BY <1>4, <1>5, <1>6, <1>7, SpawnKeepsJobs DEF JInv, Merging, Carrying

-----------------------------------------------------------------------------
(* ql_merge up to the push.                                                 *)

LEMMA MergeEnterJInv ==
    ASSUME Disciplined, JInv, IInv', Resting', NEW t \in Threads, MergeEnter(t)
    PROVE  JInv'
<1>1. PICK id \in Ids : /\ qtasks[id] # NULL /\ Idle(qtasks[id])
                        /\ op' = [op EXCEPT ![t] = qtasks[id]]
  BY DEF MergeEnter, Disciplined
<1>. DEFINE h == qtasks[id]
            p == merges + 1
<1>2. /\ h \in Handles /\ Published(h) /\ task[h].done = 1
      /\ \A u \in Threads : ~(op[u] = h /\ pc[u] \in Merging)
      /\ merges \in Nat
      /\ op \in [Threads -> Handles \cup {NULL}]
      /\ tmp \in [Threads -> 0 .. MaxMerges + QMAXTASK]
  BY <1>1, Sets DEF JInv, IInv, TypeOK, Table, Published, Idle, Merging
<1>3. /\ merges' = p /\ pc[t] = "code"
      /\ \A u \in Threads : pc'[u] = IF u = t THEN "mergeFn"
                                     ELSE IF pc[u] = "absent" THEN "pop" ELSE pc[u]
      /\ \A u \in Threads : op'[u] = IF u = t THEN h ELSE op[u]
      /\ \A u \in Threads : tmp'[u] = IF u = t THEN p ELSE tmp[u]
      /\ UNCHANGED <<qtasks, qtasks_n, allocated, task, poolVars, cur, storage, calls>>
  BY <1>1, <1>2 DEF MergeEnter, tableVars
<1>. HIDE DEF h, p
<1>4. Queue' = Queue
  BY <1>3 DEF poolVars, Queue
<1>5. \A u \in Threads : /\ pc'[u] \in Carrying => u # t /\ pc[u] \in Carrying /\ op'[u] = op[u]
                         /\ pc'[u] \in Merging /\ u # t =>
                              pc'[u] = pc[u] /\ op'[u] = op[u] /\ tmp'[u] = tmp[u]
                         /\ pc'[u] \in Spawning => u # t /\ pc[u] \in Spawning /\ op'[u] = op[u]
                         /\ pc'[u] = "publish" => pc[u] = "publish"
  BY <1>3 DEF Carrying, Merging, Spawning
<1>6. Table'
  BY <1>3, <1>5 DEF JInv, Table
<1>7. Jobs'
  <2>1. \A k : Published(k)' <=> Published(k)
    BY <1>3 DEF Published
  <2>2. Known'
    BY <1>2, <1>3, <1>4, <1>5, <2>1 DEF JInv, Jobs, Known
  <2>3. OnePlace'
    BY <1>3, <1>4, <1>5 DEF JInv, Jobs, OnePlace
  <2>4. Busy'
    BY <1>2, <1>3, <1>4, <1>5 DEF JInv, Jobs, Busy
  <2>. QED
    BY <2>2, <2>3, <2>4 DEF Jobs
<1>8. Numbers'
  <2>1. \A k : Called(k)' <=> Called(k)
    BY <1>3 DEF Called
  <2>2. \A k \in 0 .. merges : k \in 0 .. p /\ k # p /\ (k \in 1 .. merges => k \in 1 .. p)
    BY <1>2 DEF p
  <2>3. OnceCalled'
    BY <1>2, <1>3 DEF JInv, Numbers, OnceCalled, p
  <2>4. OwnArguments'
    BY <1>2, <1>3, <2>2 DEF JInv, Numbers, OwnArguments
  <2>5. OwnNumber'
    <3>1. \A u \in Threads : pc[u] \in Merging => tmp[u] \in 1 .. p /\ tmp[u] # p
      BY <1>2 DEF JInv, Numbers, OwnNumber, p
    <3>2. \A k \in Handles : task[k].arg # p
      BY <2>2 DEF JInv, Numbers, OwnArguments
    <3>3. ~Called(p) /\ p \in 1 .. p
      BY <1>2 DEF JInv, Numbers, OnceCalled, Called, p
    <3>. QED
      BY <1>3, <1>5, <2>1, <3>1, <3>2, <3>3 DEF JInv, Numbers, OwnNumber, Merging
  <2>6. OnceWaiting'
    <3>1. \A k : Waits(k) => Waits(k)'
      BY <1>2, <1>3, <2>1 DEF Waits, p
    <3>. QED
      BY <1>3, <1>4, <1>5, <2>1, <3>1 DEF JInv, Numbers, OnceWaiting
  <2>. QED
    BY <2>3, <2>4, <2>5, <2>6 DEF Numbers
<1>9. Stored'
  BY <1>3, <1>5 DEF JInv, Stored
<1>. QED
  BY <1>6, <1>7, <1>8, <1>9 DEF JInv

\* A handle that a merge writes is idle: no job, and it waits for no call.
LEMMA WrittenIsIdle ==
    ASSUME JInv, NEW t \in Threads, pc[t] \in Merging
    PROVE  /\ op[t] \in Handles /\ Published(op[t]) /\ task[op[t]].done = 1
           /\ \A u \in Threads : pc[u] \in Carrying => op[u] # op[t]
           /\ \A i \in DOMAIN Queue : Queue[i] # op[t]
           /\ \A u \in Threads : cur[u] # op[t]
           /\ \A u \in Threads : pc[u] \in Merging /\ u # t => op[u] # op[t]
           /\ \A u \in Threads : pc[u] \in Spawning => op[u] # op[t]
<1>1. op[t] \in Handles /\ Published(op[t]) /\ task[op[t]].done = 1
  BY HandlesInUse DEF JInv, Jobs, Known, Busy
<1>2. op[t] # NULL /\ task[op[t]].id # 0
  BY <1>1, Sets DEF Published, Ids
<1>. QED
  BY <1>1, <1>2 DEF JInv, Jobs, Busy, Table

LEMMA MergeFnJInv ==
    ASSUME JInv, IInv', Resting', NEW t \in Threads, MergeFn(t)
    PROVE  JInv'
<1>. DEFINE h == op[t]
<1>0. pc[t] = "mergeFn" /\ pc[t] \in Merging
  BY DEF MergeFn, Merging
<1>1. /\ h \in Handles /\ Published(h) /\ task[h].done = 1
      /\ \A u \in Threads : pc[u] \in Carrying => op[u] # h
      /\ \A i \in DOMAIN Queue : Queue[i] # h
      /\ \A u \in Threads : cur[u] # h
      /\ \A u \in Threads : pc[u] \in Merging /\ u # t => op[u] # h
  BY <1>0, WrittenIsIdle
<1>2. /\ pc \in [Threads -> Places] /\ task \in [Handles -> Task]
  BY DEF JInv, IInv, TypeOK, Task
<1>3. /\ \A u \in Threads : pc'[u] = IF u = t THEN "mergeArgs" ELSE pc[u]
      /\ UNCHANGED <<qtasks, qtasks_n, allocated, poolVars, op, cur, tmp, storage, merges, calls>>
  BY <1>2 DEF MergeFn, Goto, tableVars
<1>4. /\ \A k \in Handles : k # h => task'[k] = task[k]
      /\ task'[h].fn = tmp[t] /\ task'[h].id = task[h].id
      /\ task'[h].done = task[h].done /\ task'[h].arg = task[h].arg
  BY <1>1, <1>2 DEF MergeFn, Task
<1>5. \A k \in Handles : /\ task'[k].id = task[k].id /\ task'[k].done = task[k].done
                         /\ task'[k].arg = task[k].arg
  BY <1>4
<1>. HIDE DEF h
<1>6. Queue' = Queue
  BY <1>3 DEF poolVars, Queue
<1>7. /\ \A k \in Handles : Published(k)' <=> Published(k)
      /\ \A k : Called(k)' <=> Called(k)
  BY <1>3, <1>5 DEF Published, Called
<1>8. \A u \in Threads : /\ pc'[u] \in Carrying <=> pc[u] \in Carrying
                         /\ pc'[u] \in Merging <=> pc[u] \in Merging
                         /\ pc'[u] \in Spawning <=> pc[u] \in Spawning
                         /\ pc'[u] = "publish" <=> pc[u] = "publish"
  BY <1>0, <1>3 DEF Carrying, Merging, Spawning
<1>9. /\ \A u \in Threads : pc[u] \in Merging \cup Carrying \cup Spawning => op[u] \in Handles
      /\ \A i \in DOMAIN Queue : Queue[i] \in Handles
      /\ \A u \in Threads : cur[u] # NULL => cur[u] \in Handles
  BY HandlesInUse DEF JInv, Jobs
<1>10. Table'
  <2>1. \A id \in Ids : qtasks[id] # NULL => qtasks[id] \in Handles
    BY DEF JInv, IInv, TypeOK
  <2>. QED
    BY <1>3, <1>5, <1>8, <1>9, <2>1 DEF JInv, Table
<1>11. Jobs'
  <2>1. Known'
    BY <1>3, <1>6, <1>7, <1>8, <1>9 DEF JInv, Jobs, Known
  <2>2. OnePlace'
    BY <1>3, <1>6, <1>8 DEF JInv, Jobs, OnePlace
  <2>3. Busy'
    BY <1>3, <1>5, <1>6, <1>8, <1>9 DEF JInv, Jobs, Busy
  <2>. QED
    BY <2>1, <2>2, <2>3 DEF Jobs
<1>12. Numbers'
  <2>1. OnceCalled' /\ OwnArguments'
    BY <1>3, <1>5 DEF JInv, Numbers, OnceCalled, OwnArguments
  <2>2. OwnNumber'
    <3>1. \A u \in Threads : pc'[u] = "mergeArgs" => task'[op[u]].fn = tmp[u]
      <4>1. \A u \in Threads : pc'[u] = "mergeArgs" /\ u # t =>
                 pc[u] = "mergeArgs" /\ op[u] # h /\ op[u] \in Handles /\ task[op[u]].fn = tmp[u]
        BY <1>1, <1>3, <1>9 DEF JInv, Numbers, OwnNumber, Merging
      <4>. QED
        BY <1>4, <4>1 DEF h
    <3>. QED
      BY <1>3, <1>5, <1>7, <1>8, <3>1 DEF JInv, Numbers, OwnNumber
  <2>3. OnceWaiting'
    <3>1. \A k \in Handles : k # h /\ Waits(k) => Waits(k)'
      BY <1>3, <1>4, <1>7 DEF Waits
    <3>. QED
      BY <1>1, <1>3, <1>5, <1>6, <1>7, <1>8, <1>9, <3>1 DEF JInv, Numbers, OnceWaiting
  <2>. QED
    BY <2>1, <2>2, <2>3 DEF Numbers
<1>13. Stored'
  BY <1>3, <1>5, <1>8, <1>9 DEF JInv, Stored
<1>. QED
  BY <1>10, <1>11, <1>12, <1>13 DEF JInv

\* The handle's job is complete: nothing else carries it, and its merge waits.
LEMMA MergeArgsJInv ==
    ASSUME JInv, IInv', Resting', NEW t \in Threads, MergeArgs(t)
    PROVE  JInv'
<1>. DEFINE h == op[t]
<1>0. pc[t] = "mergeArgs" /\ pc[t] \in Merging
  BY DEF MergeArgs, Merging
<1>1. /\ h \in Handles /\ Published(h) /\ task[h].done = 1
      /\ \A u \in Threads : pc[u] \in Carrying => op[u] # h
      /\ \A i \in DOMAIN Queue : Queue[i] # h
      /\ \A u \in Threads : cur[u] # h
      /\ \A u \in Threads : pc[u] \in Merging /\ u # t => op[u] # h
  BY <1>0, WrittenIsIdle
<1>2. /\ pc \in [Threads -> Places] /\ task \in [Handles -> Task]
  BY DEF JInv, IInv, TypeOK, Task
<1>3. /\ \A u \in Threads : pc'[u] = IF u = t THEN "push" ELSE pc[u]
      /\ UNCHANGED <<qtasks, qtasks_n, allocated, poolVars, op, cur, tmp, storage, merges, calls>>
  BY <1>2 DEF MergeArgs, Goto, tableVars
<1>4. /\ \A k \in Handles : k # h => task'[k] = task[k]
      /\ task'[h].fn = task[h].fn /\ task'[h].id = task[h].id
      /\ task'[h].done = 0 /\ task'[h].arg = tmp[t]
  <2>1. task' = [task EXCEPT ![h] = [task[h] EXCEPT !.arg = tmp[t], !.done = 0]]
    BY <1>1, <1>2 DEF MergeArgs
  <2>. QED
    BY <1>1, <1>2, <2>1 DEF Task
<1>5. \A k \in Handles : task'[k].id = task[k].id
  BY <1>4
<1>6. /\ tmp[t] \in 1 .. merges /\ ~Called(tmp[t]) /\ task[h].fn = tmp[t]
      /\ \A u \in Threads : u # t /\ pc[u] \in Merging => tmp[u] # tmp[t]
      /\ \A k \in Handles : task[k].arg # tmp[t]
      /\ merges \in Nat
  BY <1>0, Sets DEF JInv, IInv, TypeOK, Numbers, OwnNumber
<1>. HIDE DEF h
<1>7. Queue' = Queue
  BY <1>3 DEF poolVars, Queue
<1>8. /\ \A k \in Handles : Published(k)' <=> Published(k)
      /\ \A k : Called(k)' <=> Called(k)
  BY <1>3, <1>5 DEF Published, Called
<1>9. \A u \in Threads : /\ pc'[u] \in Carrying <=> u = t \/ pc[u] \in Carrying
                         /\ pc'[u] \in Merging <=> u # t /\ pc[u] \in Merging
                         /\ pc'[u] \in Spawning <=> pc[u] \in Spawning
                         /\ pc'[u] = "publish" <=> pc[u] = "publish"
                         /\ pc'[u] = "mergeArgs" <=> u # t /\ pc[u] = "mergeArgs"
  BY <1>0, <1>3 DEF Carrying, Merging, Spawning
<1>10. /\ \A u \in Threads : pc[u] \in Merging \cup Carrying \cup Spawning => op[u] \in Handles
       /\ \A i \in DOMAIN Queue : Queue[i] \in Handles
       /\ \A u \in Threads : cur[u] # NULL => cur[u] \in Handles
  BY HandlesInUse DEF JInv, Jobs
<1>11. Table'
  <2>1. \A id \in Ids : qtasks[id] # NULL => qtasks[id] \in Handles
    BY DEF JInv, IInv, TypeOK
  <2>2. \A k \in Handles : k > allocated => k # h
    <3>1. h \in 1 .. allocated /\ allocated \in Nat
      BY <1>1, PublishedAllocated, Sets DEF JInv, IInv, TypeOK
    <3>. QED
      BY <3>1 DEF Handles
  <2>. QED
    BY <1>3, <1>4, <1>5, <1>9, <1>10, <2>1, <2>2 DEF JInv, Table
<1>12. Jobs'
  <2>1. Known'
    BY <1>1, <1>3, <1>7, <1>8, <1>9, <1>10 DEF JInv, Jobs, Known, h
  <2>2. OnePlace'
    BY <1>1, <1>3, <1>7, <1>9 DEF JInv, Jobs, OnePlace, h
  <2>3. Busy'
    BY <1>1, <1>3, <1>4, <1>7, <1>9, <1>10 DEF JInv, Jobs, Busy, h
  <2>. QED
    BY <2>1, <2>2, <2>3 DEF Jobs
<1>13. Numbers'
  <2>1. OnceCalled'
    BY <1>3 DEF JInv, Numbers, OnceCalled
  <2>2. OwnArguments'
    <3>1. tmp[t] \in 0 .. merges
      BY <1>6
    <3>. QED
      BY <1>3, <1>4, <1>6, <3>1 DEF JInv, Numbers, OwnArguments
  <2>3. OwnNumber'
    <3>1. \A u \in Threads : pc'[u] = "mergeArgs" =>
               op[u] # h /\ op[u] \in Handles /\ task[op[u]].fn = tmp[u]
      BY <1>1, <1>9, <1>10 DEF JInv, Numbers, OwnNumber, Merging
    <3>. QED
      BY <1>3, <1>4, <1>6, <1>8, <1>9, <3>1 DEF JInv, Numbers, OwnNumber
  <2>4. OnceWaiting'
    <3>1. \A k \in Handles : k # h /\ Waits(k) => Waits(k)'
      BY <1>3, <1>4, <1>8 DEF Waits
    <3>2. Waits(h)'
      BY <1>3, <1>4, <1>6, <1>8 DEF Waits, h
    <3>. QED
      BY <1>1, <1>3, <1>4, <1>7, <1>8, <1>9, <1>10, <3>1, <3>2 DEF JInv, Numbers, OnceWaiting, h
  <2>. QED
    BY <2>1, <2>2, <2>3, <2>4 DEF Numbers
<1>14. Stored'
  BY <1>3, <1>5, <1>9, <1>10 DEF JInv, Stored
<1>. QED
  BY <1>11, <1>12, <1>13, <1>14 DEF JInv

-----------------------------------------------------------------------------
(* The queue and the worker.                                                *)

\* A step that leaves every handle, number and call as it is leaves everything
\* but the jobs' places to check.
LEMMA PlacesOnly ==
    ASSUME JInv, UNCHANGED <<tableVars, task, cur, tmp, storage, merges, calls>>,
           \A u \in Threads :
             /\ pc'[u] \in Merging => pc'[u] = pc[u] /\ op'[u] = op[u]
             /\ pc'[u] \in Spawning => pc[u] \in Spawning /\ op'[u] = op[u]
             /\ pc'[u] = "publish" => pc[u] = "publish"
    PROVE  /\ Table' /\ OnceCalled' /\ OwnArguments' /\ OwnNumber' /\ Stored'
           /\ \A h : Published(h)' <=> Published(h)
           /\ \A h : Waits(h)' <=> Waits(h)
           /\ \A p : Called(p)' <=> Called(p)
<1>1. UNCHANGED <<qtasks, qtasks_n, allocated, task, cur, tmp, storage, merges, calls>>
  BY DEF tableVars
<1>2. Table'
  BY <1>1 DEF JInv, Table
<1>3. OnceCalled' /\ OwnArguments'
  BY <1>1 DEF JInv, Numbers, OnceCalled, OwnArguments
<1>4. /\ \A p : Called(p)' <=> Called(p)
      /\ \A h : Published(h)' <=> Published(h)
  BY <1>1 DEF Called, Published
<1>5. \A h : Waits(h)' <=> Waits(h)
  BY <1>1, <1>4 DEF Waits
<1>6. OwnNumber'
  BY <1>1, <1>4 DEF JInv, Numbers, OwnNumber, Merging
<1>7. Stored'
  BY <1>1 DEF JInv, Stored
<1>. QED
  BY <1>2, <1>3, <1>4, <1>5, <1>6, <1>7

LEMMA PushStoreJInv ==
    ASSUME JInv, IInv', Resting', NEW t \in Threads, PushStore(t)
    PROVE  JInv'
<1>. DEFINE n == Len(Queue)
<1>1. /\ pc \in [Threads -> Places] /\ pc[t] = "pushStore" /\ pc[t] \in Carrying
  BY DEF JInv, IInv, TypeOK, PushStore, Carrying
<1>2. /\ \A u \in Threads : u # t => pc'[u] = pc[u]
      /\ pc'[t] \in {"wake", "code"}
      /\ op' = op /\ UNCHANGED <<tableVars, task, cur, tmp, storage, merges, calls>>
  BY <1>1 DEF PushStore, Goto
<1>3. \A u \in Threads : /\ pc'[u] \in Carrying <=> u # t /\ pc[u] \in Carrying
                         /\ pc'[u] \in Merging => pc'[u] = pc[u]
                         /\ pc'[u] \in Merging <=> pc[u] \in Merging
                         /\ pc'[u] \in Spawning => pc[u] \in Spawning
                         /\ pc'[u] = "publish" => pc[u] = "publish"
  BY <1>1, <1>2 DEF Carrying, Merging, Spawning
<1>4. /\ DOMAIN Queue = 1 .. n /\ DOMAIN Queue' = 1 .. n + 1 /\ n \in Nat
      /\ \A i \in DOMAIN Queue : Queue'[i] = Queue[i]
      /\ Queue'[n + 1] = op[t]
  <2>1. Queue \in Seq(Handles) /\ Queue' \in Seq(Handles)
    BY QueueCells DEF JInv
  <2>. QED
    BY <2>1, PushAppends DEF JInv
<1>. HIDE DEF n
<1>5. \A i \in DOMAIN Queue' : i \in DOMAIN Queue \/ i = n + 1
  BY <1>4
<1>6. /\ Table' /\ OnceCalled' /\ OwnArguments' /\ OwnNumber' /\ Stored'
      /\ \A h : Published(h)' <=> Published(h)
      /\ \A h : Waits(h)' <=> Waits(h)
      /\ \A p : Called(p)' <=> Called(p)
  BY <1>2, <1>3, PlacesOnly
<1>7. Known'
  BY <1>1, <1>2, <1>3, <1>4, <1>5, <1>6 DEF JInv, Jobs, Known
<1>8. OnePlace'
  BY <1>1, <1>2, <1>3, <1>4, <1>5 DEF JInv, Jobs, OnePlace
<1>9. Busy'
  BY <1>1, <1>2, <1>3, <1>4, <1>5 DEF JInv, Jobs, Busy
<1>10. OnceWaiting'
  BY <1>1, <1>2, <1>3, <1>4, <1>5, <1>6 DEF JInv, Numbers, OnceWaiting
<1>. QED
  BY <1>6, <1>7, <1>8, <1>9, <1>10 DEF JInv, Jobs, Numbers

LEMMA PopTakeJInv ==
    ASSUME JInv, IInv', Resting', NEW t \in Threads, PopTake(t)
    PROVE  JInv'
<1>. DEFINE n == Len(Queue)
            h == Queue[1]
<1>1. /\ pc \in [Threads -> Places] /\ pc[t] = "popTake"
      /\ op \in [Threads -> Handles \cup {NULL}]
  BY DEF JInv, IInv, TypeOK, PopTake
<1>2. /\ \A u \in Threads : pc'[u] = IF u = t THEN "begin" ELSE pc[u]
      /\ UNCHANGED <<tableVars, task, cur, tmp, storage, merges, calls>>
  BY <1>1 DEF PopTake, Goto
<1>3. /\ DOMAIN Queue = 1 .. n /\ DOMAIN Queue' = 1 .. n - 1 /\ n \in Nat /\ n > 0
      /\ \A i \in 1 .. n - 1 : Queue'[i] = Queue[i + 1]
      /\ op' = [op EXCEPT ![t] = h]
  <2>1. Queue \in Seq(Handles) /\ Queue' \in Seq(Handles)
    BY QueueCells DEF JInv
  <2>. QED
    BY <2>1, PopTakesHead DEF JInv
<1>4. \A u \in Threads : op'[u] = IF u = t THEN h ELSE op[u]
  BY <1>1, <1>3
<1>. HIDE DEF n
<1>5. /\ 1 \in DOMAIN Queue
      /\ \A i \in DOMAIN Queue' : i + 1 \in DOMAIN Queue /\ i + 1 # 1 /\ Queue'[i] = Queue[i + 1]
      /\ \A i, j \in DOMAIN Queue' : i # j => i + 1 # j + 1
  BY <1>3
<1>. HIDE DEF h
<1>6. \A u \in Threads : /\ pc'[u] \in Carrying <=> u = t \/ pc[u] \in Carrying
                         /\ pc[u] \in Carrying => u # t
                         /\ pc'[u] \in Merging => pc'[u] = pc[u] /\ op'[u] = op[u]
                         /\ pc'[u] \in Merging <=> pc[u] \in Merging
                         /\ pc'[u] \in Spawning => pc[u] \in Spawning /\ op'[u] = op[u]
                         /\ pc'[u] = "publish" => pc[u] = "publish"
  BY <1>1, <1>2, <1>4 DEF Carrying, Merging, Spawning
<1>7. /\ Table' /\ OnceCalled' /\ OwnArguments' /\ OwnNumber' /\ Stored'
      /\ \A k : Published(k)' <=> Published(k)
      /\ \A k : Waits(k)' <=> Waits(k)
      /\ \A p : Called(p)' <=> Called(p)
  BY <1>2, <1>6, PlacesOnly
<1>8. /\ Published(h) /\ Waits(h) /\ task[h].done = 0
      /\ \A u \in Threads : cur[u] # h
      /\ \A u \in Threads : pc[u] \in Carrying => op[u] # h
      /\ \A j \in DOMAIN Queue : j # 1 => Queue[j] # h
  BY <1>5 DEF JInv, Jobs, Known, Busy, OnePlace, Numbers, OnceWaiting, h
<1>9. Known'
  BY <1>2, <1>4, <1>5, <1>6, <1>7, <1>8 DEF JInv, Jobs, Known
<1>10. OnePlace'
  <2>1. \A u \in Threads : pc[u] \in Carrying =>
             \A i \in DOMAIN Queue' : Queue'[i] # op[u]
    BY <1>5 DEF JInv, Jobs, OnePlace
  <2>2. \A i \in DOMAIN Queue' : Queue'[i] # h /\ \A u \in Threads : cur[u] # Queue'[i]
    BY <1>5, <1>8 DEF JInv, Jobs, OnePlace
  <2>3. \A i, j \in DOMAIN Queue' : i # j => Queue'[j] # Queue'[i]
    BY <1>5 DEF JInv, Jobs, OnePlace
  <2>. QED
    BY <1>2, <1>4, <1>6, <1>8, <2>1, <2>2, <2>3 DEF JInv, Jobs, OnePlace
<1>11. Busy'
  BY <1>2, <1>4, <1>5, <1>6, <1>8 DEF JInv, Jobs, Busy
<1>12. OnceWaiting'
  BY <1>2, <1>4, <1>5, <1>6, <1>7, <1>8 DEF JInv, Numbers, OnceWaiting
<1>. QED
  BY <1>7, <1>9, <1>10, <1>11, <1>12 DEF JInv, Jobs, Numbers

\* The worker calls the merge that its handle holds: its number is called now,
\* and nobody else holds it.
LEMMA BeginTaskJInv ==
    ASSUME JInv, IInv', Resting', NEW t \in Threads, BeginTask(t)
    PROVE  JInv'
<1>. DEFINE h == op[t]
            n == Len(calls)
            call == [fn |-> task[h].fn, arg |-> task[h].arg]
<1>1. /\ pc \in [Threads -> Places] /\ pc[t] = "begin" /\ pc[t] \in Carrying
      /\ cur \in [Threads -> Handles \cup {NULL}] /\ merges \in Nat
  BY Sets DEF JInv, IInv, TypeOK, BeginTask, Carrying
<1>2. /\ \A u \in Threads : pc'[u] = IF u = t THEN "code" ELSE pc[u]
      /\ \A u \in Threads : cur'[u] = IF u = t THEN h ELSE cur[u]
      /\ calls' = Append(calls, call)
      /\ UNCHANGED <<qtasks, qtasks_n, allocated, task, poolVars, op, tmp, storage, merges>>
  BY <1>1 DEF BeginTask, Goto, tableVars
<1>3. /\ h \in Handles /\ h # NULL /\ Published(h) /\ task[h].done = 0
      /\ task[h].fn = task[h].arg /\ task[h].arg \in 1 .. merges /\ ~Called(task[h].arg)
      /\ \A u \in Threads : u # t => ~(pc[u] \in Carrying /\ op[u] = h)
      /\ \A i \in DOMAIN Queue : Queue[i] # h
      /\ \A u \in Threads : cur[u] # h
  BY <1>1, HandlesInUse, Sets
     DEF JInv, Jobs, Known, OnePlace, Busy, Numbers, OnceWaiting, Waits
<1>4. cur[t] = NULL
  BY <1>1 DEF JInv, Resting, Between
<1>5. /\ calls \in Seq([fn : Nat, arg : Nat]) /\ n \in Nat
      /\ DOMAIN calls = 1 .. n /\ DOMAIN calls' = 1 .. n + 1
      /\ \A i \in DOMAIN calls : calls'[i] = calls[i]
      /\ calls'[n + 1] = call /\ calls' \in Seq([fn : Nat, arg : Nat])
  <2>1. calls \in Seq([fn : Nat, arg : Nat]) /\ call \in [fn : Nat, arg : Nat]
    BY <1>1, <1>3 DEF JInv, Numbers, OnceCalled
  <2>. QED
    BY <1>2, <2>1
<1>6. call.fn = task[h].arg /\ call.arg = task[h].arg
  BY <1>3
<1>7. /\ \A i \in DOMAIN calls' : i \in DOMAIN calls \/ i = n + 1
      /\ \A i \in DOMAIN calls : i \in DOMAIN calls' /\ i # n + 1
      /\ n + 1 \in DOMAIN calls'
  BY <1>5
<1>. HIDE DEF n, call
<1>8. \A p : Called(p)' <=> Called(p) \/ p = task[h].arg
  BY <1>5, <1>6, <1>7 DEF Called
<1>. HIDE DEF h
<1>9. Queue' = Queue
  BY <1>2 DEF poolVars, Queue
<1>10. \A u \in Threads : /\ pc'[u] \in Carrying <=> u # t /\ pc[u] \in Carrying
                          /\ pc'[u] \in Merging <=> pc[u] \in Merging
                          /\ pc'[u] \in Spawning <=> pc[u] \in Spawning
                          /\ pc'[u] = "mergeArgs" <=> pc[u] = "mergeArgs"
                          /\ pc'[u] = "publish" <=> pc[u] = "publish"
  BY <1>1, <1>2 DEF Carrying, Merging, Spawning
<1>11. /\ \A k : Published(k)' <=> Published(k)
       /\ \A k : Waits(k)' <=> Waits(k) /\ task[k].arg # task[h].arg
  BY <1>2, <1>8 DEF Published, Waits
<1>12. Table'
  BY <1>2, <1>10 DEF JInv, Table
<1>13. Jobs'
  <2>1. Known'
    BY <1>2, <1>3, <1>9, <1>10, <1>11 DEF JInv, Jobs, Known
  <2>2. OnePlace'
    BY <1>2, <1>3, <1>9, <1>10 DEF JInv, Jobs, OnePlace
  <2>3. Busy'
    BY <1>2, <1>3, <1>9, <1>10 DEF JInv, Jobs, Busy
  <2>. QED
    BY <2>1, <2>2, <2>3 DEF Jobs
<1>14. Numbers'
  <2>1. OnceCalled'
    <3>1. \A i \in DOMAIN calls : calls[i].fn # task[h].arg
      BY <1>3 DEF Called
    <3>2. \A i \in DOMAIN calls' : calls'[i].fn = calls'[i].arg /\ calls'[i].fn \in 1 .. merges
      BY <1>3, <1>5, <1>6, <1>7 DEF JInv, Numbers, OnceCalled
    <3>3. \A i, j \in DOMAIN calls' : i # j => calls'[i].fn # calls'[j].fn
      BY <1>5, <1>6, <1>7, <3>1 DEF JInv, Numbers, OnceCalled
    <3>. QED
      BY <1>2, <1>5, <3>2, <3>3 DEF OnceCalled
  <2>2. OwnArguments'
    BY <1>2 DEF JInv, Numbers, OwnArguments
  <2>3. OwnNumber'
    <3>1. \A u \in Threads : pc[u] \in Merging => tmp[u] # task[h].arg
      BY <1>3 DEF JInv, Numbers, OwnNumber
    <3>. QED
      BY <1>2, <1>8, <1>10, <3>1 DEF JInv, Numbers, OwnNumber
  <2>4. OnceWaiting'
    <3>1. \A k \in Handles : k # h => task[k].arg # task[h].arg
      <4>1. task[h].arg # 0
        BY <1>1, <1>3
      <4>. QED
        BY <1>3, <4>1 DEF JInv, Numbers, OwnArguments
    <3>2. /\ \A u \in Threads : pc[u] \in Merging \cup Carrying \cup Spawning => op[u] \in Handles
          /\ \A i \in DOMAIN Queue : Queue[i] \in Handles
      BY HandlesInUse DEF JInv, Jobs
    <3>3. \A u \in Threads : pc'[u] \in Carrying => Waits(op[u])'
      BY <1>2, <1>3, <1>10, <1>11, <3>1, <3>2 DEF JInv, Numbers, OnceWaiting
    <3>4. \A i \in DOMAIN Queue : Waits(Queue[i])'
      BY <1>3, <1>9, <1>11, <3>1, <3>2 DEF JInv, Numbers, OnceWaiting
    <3>. QED
      BY <1>2, <1>8, <1>9, <3>3, <3>4 DEF JInv, Numbers, OnceWaiting
  <2>. QED
    BY <2>1, <2>2, <2>3, <2>4 DEF Numbers
<1>15. Stored'
  BY <1>2, <1>4, <1>10 DEF JInv, Stored
<1>. QED
  BY <1>12, <1>13, <1>14, <1>15 DEF JInv

\* The handle is idle again, and the merge it holds was called.
LEMMA PublishDoneJInv ==
    ASSUME JInv, IInv', Resting', NEW t \in Threads, PublishDone(t)
    PROVE  JInv'
<1>. DEFINE h == cur[t]
<1>1. /\ pc \in [Threads -> Places] /\ task \in [Handles -> Task] /\ pc[t] = "publish"
      /\ cur \in [Threads -> Handles \cup {NULL}] /\ h \in Handles /\ h # NULL
  BY Sets DEF JInv, IInv, TypeOK, Control, Task, PublishDone
<1>2. /\ \A u \in Threads : pc'[u] = IF u = t THEN "pop" ELSE pc[u]
      /\ \A u \in Threads : cur'[u] = IF u = t THEN NULL ELSE cur[u]
      /\ UNCHANGED <<qtasks, qtasks_n, allocated, poolVars, op, tmp, storage, merges, calls>>
  BY <1>1 DEF PublishDone, Goto, tableVars
<1>3. /\ \A k \in Handles : k # h => task'[k] = task[k]
      /\ task'[h].fn = task[h].fn /\ task'[h].id = task[h].id
      /\ task'[h].done = 1 /\ task'[h].arg = task[h].arg
  BY <1>1 DEF PublishDone, Task
<1>4. \A k \in Handles : /\ task'[k].id = task[k].id /\ task'[k].fn = task[k].fn
                         /\ task'[k].arg = task[k].arg
  BY <1>3
<1>5. /\ Published(h) /\ task[h].done = 0 /\ Called(task[h].arg)
      /\ \A u \in Threads : pc[u] \in Carrying => op[u] # h
      /\ \A i \in DOMAIN Queue : Queue[i] # h
      /\ \A u \in Threads : u # t => cur[u] # h
      /\ \A u \in Threads : pc[u] \in Merging => op[u] # h
  BY <1>1 DEF JInv, Jobs, Known, OnePlace, Busy, Numbers, OnceWaiting
<1>. HIDE DEF h
<1>6. Queue' = Queue
  BY <1>2 DEF poolVars, Queue
<1>7. \A u \in Threads : /\ pc'[u] \in Carrying <=> pc[u] \in Carrying
                         /\ pc'[u] \in Merging <=> pc[u] \in Merging
                         /\ pc'[u] \in Spawning <=> pc[u] \in Spawning
                         /\ pc'[u] = "mergeArgs" <=> pc[u] = "mergeArgs"
                         /\ pc'[u] = "publish" <=> u # t /\ pc[u] = "publish"
  BY <1>1, <1>2 DEF Carrying, Merging, Spawning
<1>8. /\ \A k \in Handles : Published(k)' <=> Published(k)
      /\ \A k : Called(k)' <=> Called(k)
  BY <1>2, <1>4 DEF Published, Called
<1>9. \A k \in Handles : Waits(k)' <=> Waits(k)
  BY <1>2, <1>4, <1>8 DEF Waits
<1>10. /\ \A u \in Threads : pc[u] \in Merging \cup Carrying \cup Spawning => op[u] \in Handles
       /\ \A i \in DOMAIN Queue : Queue[i] \in Handles
       /\ \A u \in Threads : cur[u] # NULL => cur[u] \in Handles
  BY HandlesInUse DEF JInv, Jobs
<1>11. Table'
  <2>1. \A id \in Ids : qtasks[id] # NULL => qtasks[id] \in Handles
    BY DEF JInv, IInv, TypeOK
  <2>2. \A k \in Handles : k > allocated => task'[k].done = 1
    BY <1>3 DEF JInv, Table
  <2>. QED
    BY <1>2, <1>4, <1>7, <1>10, <2>1, <2>2 DEF JInv, Table
<1>12. Jobs'
  <2>1. Known'
    BY <1>2, <1>6, <1>7, <1>8, <1>10 DEF JInv, Jobs, Known
  <2>2. OnePlace'
    BY <1>2, <1>6, <1>7, <1>10, Sets DEF JInv, Jobs, OnePlace
  <2>3. Busy'
    BY <1>2, <1>3, <1>5, <1>6, <1>7, <1>10 DEF JInv, Jobs, Busy
  <2>. QED
    BY <2>1, <2>2, <2>3 DEF Jobs
<1>13. Numbers'
  <2>1. OnceCalled' /\ OwnArguments'
    BY <1>2, <1>4 DEF JInv, Numbers, OnceCalled, OwnArguments
  <2>2. OwnNumber'
    BY <1>2, <1>4, <1>7, <1>8, <1>10 DEF JInv, Numbers, OwnNumber, Merging
  <2>3. OnceWaiting'
    BY <1>2, <1>3, <1>4, <1>5, <1>6, <1>7, <1>8, <1>9, <1>10 DEF JInv, Numbers, OnceWaiting
  <2>. QED
    BY <2>1, <2>2, <2>3 DEF Numbers
<1>14. Stored'
  BY <1>1, <1>2, <1>4, <1>7, <1>10 DEF JInv, Stored
<1>. QED
  BY <1>11, <1>12, <1>13, <1>14 DEF JInv

-----------------------------------------------------------------------------
LEMMA NextJInv == Disciplined /\ JInv /\ [Next]_vars => JInv'
<1>. SUFFICES ASSUME Disciplined, JInv, [Next]_vars
              PROVE  JInv'
  OBVIOUS
<1>0. ~RaceSpawns /\ IInv /\ Resting /\ IInv' /\ Resting'
  BY NextIInv, RestingNext DEF Disciplined, JInv
<1>1. CASE UNCHANGED vars
  <2>1. Quiet /\ Keeping
    BY <1>1 DEF vars, Quiet, Keeping
  <2>. QED
    BY <1>0, <2>1, QuietJInv
<1>2. ASSUME NEW t \in Threads,
             \/ SpawnLoad(t) \/ PushTest(t) \/ Wake(t) \/ PopTest(t) \/ Sleep(t)
             \/ BlockEnter(t) \/ BlockReturn(t) \/ LockStep(t) \/ SpuriousWakeup(t)
      PROVE  JInv'
  BY <1>0, <1>2, QuietSteps, QuietJInv
<1>3. ASSUME NEW t \in Threads, RuntimeStep(t)
      PROVE  JInv'
  BY <1>0, <1>2, <1>3, SpawnStoreJInv, MergeFnJInv, MergeArgsJInv, PushStoreJInv,
     PopTakeJInv, BeginTaskJInv, PublishDoneJInv DEF RuntimeStep
<1>4. ASSUME NEW t \in Threads, ProgramStep(t)
      PROVE  JInv'
  BY <1>0, <1>2, <1>4, SpawnAllocJInv, MergeEnterJInv, AllocateJInv DEF ProgramStep
<1>5. ASSUME NEW t \in Threads, EndTask(t)
      PROVE  JInv'
  BY <1>0, <1>5, EndTaskJInv
<1>. QED
  BY <1>1, <1>2, <1>3, <1>4, <1>5 DEF Next

LEMMA InvariantJobs ==
    ASSUME Disciplined
    PROVE  Spec => []JInv
<1>1. JInv /\ [Next]_vars => JInv'
  BY NextJInv
<1>. QED
  BY InitJInv, <1>1, PTL DEF Spec

\* Whoever sees a thread done finds none of its storage left: ql_mem_task_end
\* comes before the store of done, and an identifier names one handle, which
\* at most one worker runs at a time.
THEOREM DoneIsReclaimed ==
    ASSUME Disciplined
    PROVE  Spec => []DoneMeansReclaimed
<1>1. JInv => DoneMeansReclaimed
  <2>. SUFFICES ASSUME JInv, NEW id \in Ids, qtasks[id] # NULL, task[qtasks[id]].done = 1,
                       storage[id] # 0
                PROVE  FALSE
    BY DEF DoneMeansReclaimed
  <2>1. id \in Owners
    BY DEF Ids, Owners
  <2>2. PICK w \in Threads : cur[w] # NULL /\ task[cur[w]].id = id
    BY <2>1 DEF JInv, Stored
  <2>3. qtasks[id] = cur[w] /\ task[cur[w]].done = 0
    BY <2>2 DEF JInv, Jobs, Known, Published, Busy
  <2>. QED
    BY <2>3
<1>. QED
  BY InvariantJobs, <1>1, PTL

\* No two workers run under one owner, so that the end of a task reclaims the
\* storage of no other.
THEOREM OwnersApart ==
    ASSUME Disciplined
    PROVE  Spec => []OneRunPerOwner
<1>1. JInv => OneRunPerOwner
  BY Sets DEF JInv, Jobs, Known, OnePlace, Published, OneRunPerOwner
<1>. QED
  BY InvariantJobs, <1>1, PTL

\* Every call is of one merge with that merge's function and arguments, no merge
\* is called twice, and none of a thread that is idle again is left out.
THEOREM CalledOnce ==
    ASSUME Disciplined
    PROVE  Spec => []MergesCalledOnce
<1>1. JInv => MergesCalledOnce
  <2>. SUFFICES ASSUME JInv
                PROVE  MergesCalledOnce
    OBVIOUS
  <2>1. \A i \in DOMAIN calls : calls[i].fn = calls[i].arg
    BY DEF JInv, Numbers, OnceCalled
  <2>2. \A i, j \in DOMAIN calls : i # j => calls[i].fn # calls[j].fn
    BY DEF JInv, Numbers, OnceCalled
  <2>3. \A h \in Handles : task[h].done = 1 /\ task[h].arg # 0 =>
              \E i \in DOMAIN calls : calls[i].arg = task[h].arg
    BY <2>1 DEF JInv, Numbers, OnceWaiting, Called
  <2>. QED
    BY <2>1, <2>2, <2>3 DEF MergesCalledOnce
<1>. QED
  BY InvariantJobs, <1>1, PTL

-----------------------------------------------------------------------------
(* The ring is never full.                                                  *)

\* The handles in the ring and the one a thread is pushing are under different
\* identifiers, so that there are no more of them than identifiers.
LEMMA RoomForAll ==
    ASSUME JInv, NEW t \in Threads, pc[t] \in Carrying
    PROVE  qn + 1 <= QMAXTASK - 1
<1>. DEFINE f == [i \in 0 .. qn |-> IF i = 0 THEN task[op[t]].id ELSE task[Queue[i]].id]
<1>1. qn \in Nat /\ DOMAIN Queue = 1 .. qn
  BY QueueShape, Sets DEF Shape, JInv, IInv, TypeOK
<1>2. Published(op[t]) /\ \A i \in 1 .. qn : Published(Queue[i])
  BY <1>1 DEF JInv, Jobs, Known
<1>3. f \in [0 .. qn -> Ids]
  <2>1. \A i \in 0 .. qn : i # 0 => i \in 1 .. qn
    BY <1>1
  <2>. QED
    BY <1>2, <2>1 DEF Published
<1>4. ASSUME NEW i \in 0 .. qn, NEW j \in 0 .. qn, i # j
      PROVE  f[i] # f[j]
  <2>1. /\ qtasks[f[i]] = IF i = 0 THEN op[t] ELSE Queue[i]
        /\ qtasks[f[j]] = IF j = 0 THEN op[t] ELSE Queue[j]
    <3>1. (i # 0 => i \in 1 .. qn) /\ (j # 0 => j \in 1 .. qn)
      BY <1>1
    <3>. QED
      BY <1>2, <3>1 DEF Published
  <2>2. (IF i = 0 THEN op[t] ELSE Queue[i]) # (IF j = 0 THEN op[t] ELSE Queue[j])
    <3>1. (i # 0 => i \in DOMAIN Queue) /\ (j # 0 => j \in DOMAIN Queue)
      BY <1>1
    <3>2. \A k \in DOMAIN Queue : /\ Queue[k] # op[t]
                                  /\ \A l \in DOMAIN Queue : k # l => Queue[k] # Queue[l]
      BY DEF JInv, Jobs, OnePlace
    <3>. QED
      BY <1>4, <3>1, <3>2
  <2>. QED
    BY <2>1, <2>2
<1>5. /\ IsFiniteSet(0 .. qn) /\ Cardinality(0 .. qn) = qn + 1
      /\ IsFiniteSet(Ids) /\ Cardinality(Ids) = QMAXTASK - 1
  <2>1. IsFiniteSet(0 .. qn) /\ Cardinality(0 .. qn) = qn + 1
    <3>1. 0 \in Int /\ qn \in Int /\ ~(0 > qn) /\ qn - 0 + 1 = qn + 1
      BY <1>1
    <3>. QED
      BY <3>1, FS_Interval
  <2>2. IsFiniteSet(Ids) /\ Cardinality(Ids) = QMAXTASK - 1
    <3>1. /\ 1 \in Int /\ QMAXTASK - 1 \in Int
          /\ 1 > QMAXTASK - 1 => QMAXTASK - 1 = 0
          /\ (QMAXTASK - 1) - 1 + 1 = QMAXTASK - 1
      BY Sets
    <3>. QED
      BY <3>1, FS_Interval DEF Ids
  <2>. QED
    BY <2>1, <2>2
<1>. HIDE DEF f
<1>6. ~(Cardinality(Ids) < Cardinality(0 .. qn))
  BY <1>3, <1>4, <1>5, FS_PigeonHole
<1>. QED
  BY <1>1, <1>5, <1>6, Sets

\* With a ring as large as the table of threads (QCAP is 65536 and QMAXTASK 4096)
\* no producer waits for room: the wait that a consumer never ends is not reached.
THEOREM RingHasRoom ==
    ASSUME Disciplined, QMAXTASK - 1 <= QCAP
    PROVE  Spec => []NeverFull
<1>1. Init => NeverFull
  BY DEF Init, NeverFull
<1>2. ASSUME JInv, NeverFull, [Next]_vars
      PROVE  NeverFull'
  <2>0. pc \in [Threads -> Places] /\ sleepers \subseteq Threads /\ qn \in Nat
    BY <1>2, Sets DEF JInv, IInv, TypeOK
  <2>1. ASSUME NEW t \in Threads, PushTest(t)
        PROVE  NeverFull'
    <3>1. qn < QCAP
      <4>1. pc[t] \in Carrying
        BY <2>1 DEF PushTest, Carrying
      <4>2. qn + 1 <= QMAXTASK - 1
        BY <1>2, <4>1, RoomForAll
      <4>. QED
        BY <2>0, <4>2, Sets
    <3>2. pc' = [pc EXCEPT ![t] = "pushStore"]
      BY <2>1, <3>1 DEF PushTest, Goto
    <3>. QED
      BY <1>2, <2>0, <3>2 DEF NeverFull
  <2>2. ASSUME NEW t \in Threads, Sleep(t) \/ Wake(t) \/ SpuriousWakeup(t)
        PROVE  NeverFull'
    BY <1>2, <2>0, <2>2 DEF Sleep, Wake, SpuriousWakeup, Resume, Goto, NeverFull
  <2>3. ASSUME NEW t \in Threads, RuntimeStep(t)
        PROVE  NeverFull'
    <3>1. CASE \/ SpawnLoad(t) \/ SpawnStore(t) \/ MergeFn(t) \/ MergeArgs(t) \/ PushStore(t)
      BY <1>2, <2>0, <3>1
         DEF SpawnLoad, SpawnStore, MergeFn, MergeArgs, PushStore, Goto, NeverFull
    <3>2. CASE PopTest(t) \/ PopTake(t) \/ BeginTask(t) \/ PublishDone(t) \/ BlockReturn(t)
      BY <1>2, <2>0, <3>2
         DEF PopTest, PopTake, BeginTask, PublishDone, BlockReturn, Goto, NeverFull
    <3>. QED
      BY <2>1, <2>2, <2>3, <3>1, <3>2 DEF RuntimeStep
  <2>4. ASSUME NEW t \in Threads, LockStep(t) \/ SpawnAlloc(t) \/ BlockEnter(t) \/ EndTask(t)
        PROVE  NeverFull'
    BY <1>2, <2>0, <2>4
       DEF LockStep, PushLock, PopLock, Lock, SpawnAlloc, BlockEnter, EndTask, Goto, NeverFull
  <2>5. ASSUME NEW t \in Threads, MergeEnter(t) \/ Allocate(t)
        PROVE  NeverFull'
    BY <1>2, <2>5 DEF MergeEnter, Allocate, NeverFull
  <2>6. CASE UNCHANGED vars
    BY <1>2, <2>6 DEF vars, NeverFull
  <2>. QED
    BY <1>2, <2>2, <2>3, <2>4, <2>5, <2>6 DEF Next, ProgramStep
<1>3. JInv /\ NeverFull /\ [Next]_vars => NeverFull'
  BY <1>2
<1>. QED
  BY InvariantJobs, <1>1, <1>3, PTL DEF Spec

-----------------------------------------------------------------------------
(* Storage of the handles.                                                  *)

\* A released handle belonged to a task, and is in no ring, run by no worker
\* and worked on by no call in progress.
Released ==
    /\ freed \subseteq 1 .. allocated
    /\ \A i \in DOMAIN Queue : Queue[i] \notin freed
    /\ \A t \in Threads : cur[t] \notin freed
    /\ \A t \in Threads : pc[t] \in WithHandle => op[t] \notin freed
    /\ \A h \in freed : task[h].owner # 0

\* Every step but a task's end releases nothing: it is enough that the ring,
\* the workers and the calls get no released handle from it.
LEMMA ReleasedKept ==
    ASSUME Released, freed' = freed, 1 .. allocated \subseteq 1 .. allocated',
           \A i \in DOMAIN Queue' : Queue'[i] \notin freed,
           \A t \in Threads : cur'[t] \notin freed,
           \A t \in Threads : pc'[t] \in WithHandle => op'[t] \notin freed,
           \A h \in freed : task'[h].owner = task[h].owner
    PROVE  Released'
BY DEF Released

\* A step that leaves the ring, the workers' tasks and the owners alone.
LEMMA ReleasedSame ==
    ASSUME Released, UNCHANGED <<freed, allocated, poolVars, cur>>,
           \A t \in Threads : pc'[t] \in WithHandle => op'[t] \notin freed,
           \A h \in freed : task'[h].owner = task[h].owner
    PROVE  Released'
<1>1. Queue' = Queue
  BY DEF Queue, poolVars
<1>. QED
  BY <1>1, ReleasedKept DEF Released

LEMMA ReleasedNext ==
    ASSUME ~Orphans, JInv, IInv', Released, [Next]_vars
    PROVE  Released'
<1>0. /\ IInv /\ pc \in [Threads -> Places] /\ sleepers \subseteq Threads
      /\ cur \in [Threads -> Handles \cup {NULL}] /\ op \in [Threads -> Handles \cup {NULL}]
      /\ task \in [Handles -> Task] /\ allocated \in 0 .. MaxHandles /\ freed \subseteq Handles
  BY DEF JInv, IInv, TypeOK, Task
<1>1. Queue \in Seq(Handles) /\ Queue' \in Seq(Handles)
  BY <1>0, QueueCells
\* The steps of a thread that stays with the handle it has, or drops it.
<1>2. ASSUME NEW t \in Threads,
             \/ SpawnLoad(t) \/ SpawnStore(t) \/ MergeFn(t) \/ MergeArgs(t) \/ PushTest(t)
             \/ PopTest(t) \/ PublishDone(t) \/ BlockReturn(t) \/ LockStep(t) \/ Allocate(t)
      PROVE  Released'
  <2>1. /\ freed' = freed /\ allocated' = allocated /\ UNCHANGED poolVars /\ op' = op
        /\ cur' = cur \/ cur' = [cur EXCEPT ![t] = NULL]
    BY <1>2 DEF SpawnLoad, SpawnStore, MergeFn, MergeArgs, PushTest, PopTest, PublishDone,
                BlockReturn, LockStep, PushLock, PopLock, Lock, Allocate, tableVars
  <2>2. \A u \in Threads : pc'[u] \in WithHandle => pc[u] \in WithHandle
    BY <1>0, <1>2 DEF SpawnLoad, SpawnStore, MergeFn, MergeArgs, PushTest, PopTest, PublishDone,
                      BlockReturn, LockStep, PushLock, PopLock, Lock, Allocate, Goto,
                      WithHandle, Spawning
  <2>3. \A h \in freed : task'[h].owner = task[h].owner
    <3>1. CASE SpawnStore(t) \/ MergeFn(t) \/ MergeArgs(t)
      BY <1>0, <3>1 DEF SpawnStore, MergeFn, MergeArgs, Task
    <3>2. CASE PublishDone(t)
      BY <1>0, <3>2 DEF PublishDone, Task
    <3>. QED
      BY <1>2, <3>1, <3>2
         DEF SpawnLoad, PushTest, PopTest, BlockReturn, LockStep, PushLock, PopLock, Lock, Allocate
  <2>4. Queue' = Queue
    BY <2>1 DEF Queue, poolVars
  <2>5. \A u \in Threads : cur'[u] \notin freed
    BY <1>0, <2>1, Sets DEF Released
  <2>. QED
    BY <2>1, <2>2, <2>3, <2>4, <2>5, ReleasedKept DEF Released
\* A sleeper goes on with the handle it slept with.
<1>3. ASSUME NEW t \in Threads, Sleep(t) \/ Wake(t) \/ SpuriousWakeup(t)
      PROVE  Released'
  <2>1. /\ UNCHANGED <<freed, allocated, poolVars, cur, op, task>>
    BY <1>3 DEF Sleep, Wake, SpuriousWakeup, tableVars
  <2>2. \A u \in sleepers : Resume(u) = "push" => pc[u] \in WithHandle
    BY DEF Resume, WithHandle
  <2>3. \A u \in sleepers : Resume(u) = "push" \/ Resume(u) = "pop"
    BY DEF Resume
  <2>4. \A u \in Threads : pc'[u] \in WithHandle => pc[u] \in WithHandle
    <3>1. CASE Sleep(t)
      BY <1>0, <3>1 DEF Sleep, Goto, WithHandle, Spawning
    <3>2. CASE SpuriousWakeup(t)
      BY <1>0, <2>2, <2>3, <3>2 DEF SpuriousWakeup, Goto, WithHandle, Spawning
    <3>3. CASE Wake(t)
      <4>1. CASE Goto(t, "code")
        BY <1>0, <4>1 DEF Goto, WithHandle, Spawning
      <4>2. ASSUME NEW v \in sleepers, pc' = [pc EXCEPT ![t] = "code", ![v] = Resume(v)]
            PROVE  \A u \in Threads : pc'[u] \in WithHandle => pc[u] \in WithHandle
        BY <1>0, <2>2, <2>3, <4>2 DEF WithHandle, Spawning
      <4>. QED
        BY <3>3, <4>1, <4>2 DEF Wake
    <3>. QED
      BY <1>3, <3>1, <3>2, <3>3
  <2>. QED
    BY <2>1, <2>4, ReleasedSame DEF Released
\* The new object is none of the released ones.
<1>4. ASSUME NEW t \in Threads, SpawnAlloc(t)
      PROVE  Released'
  <2>1. /\ freed' = freed /\ allocated' = allocated + 1 /\ UNCHANGED <<poolVars, cur>>
        /\ op' = [op EXCEPT ![t] = allocated + 1] /\ pc' = [pc EXCEPT ![t] = "spawnLoad"]
        /\ task' = [task EXCEPT ![allocated + 1] =
                      [id |-> 0, fn |-> 0, arg |-> 0, done |-> 1, owner |-> Owner(t)]]
    BY <1>4 DEF SpawnAlloc, Goto
  <2>2. allocated + 1 \notin freed
    BY <1>0 DEF Released
  <2>3. 1 .. allocated \subseteq 1 .. allocated'
    BY <1>0, <2>1
  <2>4. Queue' = Queue
    BY <2>1 DEF Queue, poolVars
  <2>5. \A u \in Threads : pc'[u] \in WithHandle => op'[u] \notin freed
    BY <1>0, <2>1, <2>2 DEF Released
  <2>6. \A h \in freed : task'[h].owner = task[h].owner
    BY <1>0, <2>1, <2>2
  <2>. QED
    BY <2>1, <2>3, <2>4, <2>5, <2>6, ReleasedKept DEF Released
\* A program names no released handle.
<1>5. ASSUME NEW t \in Threads, MergeEnter(t) \/ BlockEnter(t)
      PROVE  Released'
  <2>1. /\ UNCHANGED <<freed, allocated, poolVars, cur, task>>
        /\ \A u \in Threads : u # t => op'[u] = op[u]
        /\ op'[t] \notin freed
    <3>1. PICK id \in Ids : /\ Orphans \/ qtasks[id] \notin freed
                            /\ op' = [op EXCEPT ![t] = qtasks[id]]
      BY <1>5 DEF MergeEnter, BlockEnter
    <3>2. qtasks[id] \notin freed
      BY <3>1
    <3>3. UNCHANGED <<freed, allocated, poolVars, cur, task>>
      BY <1>5 DEF MergeEnter, BlockEnter, tableVars
    <3>. QED
      BY <1>0, <3>1, <3>2, <3>3
  <2>2. \A u \in Threads : u # t /\ pc'[u] \in WithHandle => pc[u] \in WithHandle
    BY <1>0, <1>5 DEF MergeEnter, BlockEnter, Goto, WithHandle, Spawning
  <2>. QED
    BY <2>1, <2>2, ReleasedSame DEF Released
\* The ring takes what the producer held, and gives it to the worker.
<1>6. ASSUME NEW t \in Threads, PushStore(t)
      PROVE  Released'
  <2>1. /\ UNCHANGED <<freed, allocated, cur, op, task>>
        /\ pc[t] \in WithHandle
    BY <1>6 DEF PushStore, tableVars, WithHandle
  <2>2. \A u \in Threads : pc'[u] \in WithHandle => pc[u] \in WithHandle
    BY <1>0, <1>6 DEF PushStore, Goto, WithHandle, Spawning
  <2>3. op[t] \notin freed
    BY <2>1 DEF Released
  <2>4. \A i \in DOMAIN Queue' : Queue'[i] \notin freed
    <3>1. \A i \in 1 .. Len(Queue) : Queue'[i] = Queue[i] /\ i \in DOMAIN Queue
      BY <1>0, <1>1, <1>6, PushAppends
    <3>2. \A i \in DOMAIN Queue' : i \in 1 .. Len(Queue) \/ i = Len(Queue) + 1
      BY <1>0, <1>1, <1>6, PushAppends
    <3>. QED
      BY <1>0, <1>6, <2>3, <3>1, <3>2, PushAppends DEF Released
  <2>. QED
    BY <2>1, <2>2, <2>4, ReleasedKept DEF Released
<1>7. ASSUME NEW t \in Threads, PopTake(t)
      PROVE  Released'
  <2>1. /\ UNCHANGED <<freed, allocated, cur, task>>
        /\ pc' = [pc EXCEPT ![t] = "begin"]
    BY <1>7 DEF PopTake, tableVars, Goto
  <2>2. op' = [op EXCEPT ![t] = Queue[1]] /\ 1 \in DOMAIN Queue
    BY <1>0, <1>1, <1>7, PopTakesHead
  <2>3. \A u \in Threads : pc'[u] \in WithHandle => op'[u] \notin freed
    BY <1>0, <2>1, <2>2 DEF Released
  <2>4. \A i \in DOMAIN Queue' : Queue'[i] \notin freed
    <3>1. \A i \in DOMAIN Queue' : i \in 1 .. Len(Queue) - 1 /\ i + 1 \in DOMAIN Queue
      BY <1>0, <1>1, <1>7, PopTakesHead
    <3>. QED
      BY <1>0, <1>7, <3>1, PopTakesHead DEF Released
  <2>. QED
    BY <2>1, <2>3, <2>4, ReleasedKept DEF Released
<1>8. ASSUME NEW t \in Threads, BeginTask(t)
      PROVE  Released'
  <2>1. /\ UNCHANGED <<freed, allocated, poolVars, op, task>>
        /\ cur' = [cur EXCEPT ![t] = op[t]] /\ op[t] \notin freed
    BY <1>8 DEF BeginTask, tableVars, Released, WithHandle
  <2>2. \A u \in Threads : pc'[u] \in WithHandle => pc[u] \in WithHandle
    BY <1>0, <1>8 DEF BeginTask, Goto, WithHandle, Spawning
  <2>3. Queue' = Queue
    BY <2>1 DEF Queue, poolVars
  <2>4. \A u \in Threads : cur'[u] \notin freed
    BY <1>0, <2>1 DEF Released
  <2>. QED
    BY <2>1, <2>2, <2>3, <2>4, ReleasedKept DEF Released
\* A task's end releases idle handles only: none in the ring or with a worker,
\* because those have a job, and none in a call, because the program waited.
<1>9. ASSUME NEW t \in Threads, EndTask(t)
      PROVE  Released'
  <2>1. \A h \in Children(t) \ freed : task[h].done = 1 /\ ~InCall(h)
    <3>1. Orphans \/ \A h \in Children(t) \ freed : task[h].done = 1 /\ ~InCall(h)
      BY <1>9 DEF EndTask
    <3>. QED
      BY <3>1
  <2>2. /\ UNCHANGED <<allocated, poolVars, cur, op, task>>
        /\ freed' = freed \cup Children(t)
    BY <1>9 DEF EndTask, tableVars
  <2>3. \A h \in Children(t) : h \in 1 .. allocated /\ task[h].owner # 0
    BY DEF Children
  <2>4. Queue' = Queue
    BY <2>2 DEF Queue, poolVars
  <2>5. \A i \in DOMAIN Queue : Queue[i] \notin freed'
    BY <2>1, <2>2 DEF JInv, Jobs, Busy, Released
  <2>6. \A u \in Threads : cur[u] \notin freed'
    <3>1. \A u \in Threads : cur[u] # NULL => cur[u] \notin freed'
      BY <2>1, <2>2 DEF JInv, Jobs, Busy, Released
    <3>2. NULL \notin freed'
      <4>1. NULL \notin 1 .. MaxHandles /\ 1 .. allocated \subseteq 1 .. MaxHandles
        BY <1>0, Sets DEF Handles
      <4>. QED
        BY <1>0, <2>2, <2>3, <4>1 DEF Handles
    <3>. QED
      BY <3>1, <3>2
  <2>7. \A u \in Threads : pc[u] \in WithHandle => op[u] \notin freed'
    BY <2>1, <2>2 DEF InCall, Released
  <2>8. \A u \in Threads : pc'[u] \in WithHandle => pc[u] \in WithHandle
    BY <1>0, <1>9 DEF EndTask, Goto, WithHandle, Spawning
  <2>. QED
    BY <2>2, <2>3, <2>4, <2>5, <2>6, <2>7, <2>8 DEF Released
<1>10. CASE UNCHANGED vars
  <2>1. Queue' = Queue /\ UNCHANGED <<freed, allocated, cur, pc, op, task>>
    BY <1>10 DEF vars, poolVars, tableVars, Queue
  <2>. QED
    BY <2>1 DEF Released
<1>. QED
  BY <1>2, <1>3, <1>4, <1>5, <1>6, <1>7, <1>8, <1>9, <1>10 DEF Next, RuntimeStep, ProgramStep

\* Tasks may spawn, merge and block like the main thread does.  If a program
\* spawns one thread at a time, merges idle threads, and returns from a task
\* only when the threads it spawned are idle, no handle that a task's end took
\* with the task's storage is in the ring, run by a worker or worked on by a
\* call; and no handle of the main thread is ever taken.
THEOREM HandlesLive ==
    ASSUME Disciplined, ~Orphans
    PROVE  Spec => []NoDanglingHandle
<1>. DEFINE LInv == JInv /\ Released
<1>1. Init => LInv
  <2>1. Init => Released
    <3>. SUFFICES ASSUME Init
                  PROVE  Released
      OBVIOUS
    <3>1. DOMAIN Queue = {} /\ freed = {}
      BY DEF Init, Queue
    <3>. QED
      BY <3>1 DEF Released
  <2>. QED
    BY <2>1, InitJInv
<1>2. LInv /\ [Next]_vars => LInv'
  <2>. SUFFICES ASSUME JInv, Released, [Next]_vars
                PROVE  JInv' /\ Released'
    OBVIOUS
  <2>1. JInv'
    BY NextJInv
  <2>2. IInv'
    BY <2>1 DEF JInv
  <2>. QED
    BY <2>1, <2>2, ReleasedNext
<1>3. LInv => NoDanglingHandle
  BY Sets DEF Released, NoDanglingHandle, InCall
<1>. QED
  BY <1>1, <1>2, <1>3, PTL DEF Spec

-----------------------------------------------------------------------------
(* The service taskm promises.                                              *)

\* A handle that no identifier names has no job.
NotYet == \A h \in Handles : task[h].id = 0 => task[h].done = 1 /\ task[h].arg = 0

RInv == JInv /\ NotYet

LEMMA NotYetNext ==
    ASSUME JInv, NotYet, [Next]_vars
    PROVE  NotYet'
<1>0. task \in [Handles -> Task] /\ allocated \in Nat /\ 0 \notin Ids
  BY Sets DEF JInv, IInv, TypeOK, Task, Ids
<1>1. CASE task' = task
  BY <1>1 DEF NotYet
<1>2. ASSUME NEW t \in Threads, SpawnAlloc(t)
      PROVE  NotYet'
  BY <1>0, <1>2 DEF SpawnAlloc, NotYet
<1>3. ASSUME NEW t \in Threads, SpawnStore(t) \/ MergeFn(t)
      PROVE  NotYet'
  <2>1. op[t] \in Handles
    BY <1>3 DEF SpawnStore, MergeFn, JInv, IInv, Control, WithHandle, Spawning
  <2>2. tmp[t] + 1 # 0 \/ MergeFn(t)
    BY <1>3, Sets DEF SpawnStore, JInv, IInv, TypeOK, Control, Owners
  <2>. QED
    BY <1>0, <1>3, <2>1, <2>2 DEF SpawnStore, MergeFn, NotYet, Task
\* Only a handle under an identifier is merged or becomes done.
<1>4. ASSUME NEW h \in Handles, Published(h), \A k \in Handles \ {h} : task'[k] = task[k],
             task'[h].id = task[h].id
      PROVE  NotYet'
  BY <1>0, <1>4 DEF Published, NotYet
<1>5. ASSUME NEW t \in Threads, MergeArgs(t)
      PROVE  NotYet'
  <2>1. op[t] \in Handles /\ Published(op[t])
    BY <1>5, WrittenIsIdle DEF MergeArgs, Merging
  <2>2. task' = [task EXCEPT ![op[t]] = [task[op[t]] EXCEPT !.arg = tmp[t], !.done = 0]]
    BY <1>0, <1>5, <2>1 DEF MergeArgs
  <2>3. task'[op[t]].id = task[op[t]].id
    BY <1>0, <2>1, <2>2 DEF Task
  <2>. QED
    BY <1>0, <1>4, <2>1, <2>2, <2>3
<1>6. ASSUME NEW t \in Threads, PublishDone(t)
      PROVE  NotYet'
  <2>1. cur[t] \in Handles /\ Published(cur[t])
    BY <1>6, Sets DEF PublishDone, JInv, IInv, Control, Jobs, Known
  <2>2. task' = [task EXCEPT ![cur[t]].done = 1]
    BY <1>6 DEF PublishDone
  <2>3. task'[cur[t]].id = task[cur[t]].id
    BY <1>0, <2>1, <2>2 DEF Task
  <2>. QED
    BY <1>0, <1>4, <2>1, <2>2, <2>3
<1>7. ASSUME NEW t \in Threads, Quiet \/ PushStore(t) \/ PopTake(t) \/ BeginTask(t)
                                \/ MergeEnter(t) \/ Allocate(t) \/ EndTask(t)
      PROVE  task' = task
  BY <1>7 DEF Quiet, PushStore, PopTake, BeginTask, MergeEnter, Allocate, EndTask
<1>8. CASE UNCHANGED vars
  BY <1>1, <1>8 DEF vars
<1>. QED
  BY <1>1, <1>2, <1>3, <1>5, <1>6, <1>7, <1>8, QuietSteps
     DEF Next, RuntimeStep, ProgramStep, JInv

\* What the table names.
LEMMA Named ==
    ASSUME JInv, NEW id \in Ids, qtasks[id] # NULL
    PROVE  qtasks[id] \in Handles /\ task[qtasks[id]].id = id
BY DEF JInv, IInv, TypeOK, Table

\* A thread whose handle, flag and worker stay does not change.
LEMMA StageKept ==
    ASSUME NEW id \in Ids, qtasks'[id] = qtasks[id],
           qtasks[id] # NULL =>
              /\ task'[qtasks[id]].done = task[qtasks[id]].done
              /\ \A t \in Threads :
                   /\ cur'[t] = qtasks[id] <=> cur[t] = qtasks[id]
                   /\ cur[t] = qtasks[id] => (pc'[t] = "publish" <=> pc[t] = "publish")
    PROVE  StageOf(id)' = StageOf(id)
<1>1. CASE qtasks[id] = NULL
  BY <1>1 DEF StageOf
<1>2. CASE qtasks[id] # NULL
  <2>1. /\ (\E t \in Threads : cur'[t] = qtasks[id] /\ pc'[t] # "publish") <=>
             (\E t \in Threads : cur[t] = qtasks[id] /\ pc[t] # "publish")
        /\ (\E t \in Threads : cur'[t] = qtasks[id]) <=> (\E t \in Threads : cur[t] = qtasks[id])
    BY <1>2
  <2>. QED
    BY <1>2, <2>1 DEF StageOf
<1>. QED
  BY <1>1, <1>2

\* Most steps move handles between places the service does not see.
LEMMA UnseenStutters ==
    ASSUME JInv, UNCHANGED <<qtasks, cur, storage, calls>>,
           \A h \in Handles : task'[h].done = task[h].done /\ task'[h].arg = task[h].arg,
           \A t \in Threads : cur[t] # NULL => (pc'[t] = "publish" <=> pc[t] = "publish")
    PROVE  UNCHANGED Service!serviceVars
<1>1. \A id \in Ids : StageOf(id)' = StageOf(id)
  <2>. SUFFICES ASSUME NEW id \in Ids
                PROVE  StageOf(id)' = StageOf(id)
    OBVIOUS
  <2>1. qtasks[id] # NULL => qtasks[id] \in Handles
    BY Named
  <2>. QED
    BY <2>1, StageKept
<1>2. Job' = Job
  BY Named DEF Job
<1>3. Spawned' = Spawned /\ Begun' = Begun /\ WithStorage' = WithStorage
  BY DEF Spawned, Begun, WithStorage
<1>4. Stage' = Stage
  BY <1>1 DEF Stage
<1>. QED
  BY <1>2, <1>3, <1>4 DEF Service!serviceVars

\* A worker at the end of its task stays there while others take steps that move no job.
LEMMA PublishingStays ==
    ASSUME IInv, Resting, NEW t \in Threads,
           \/ SpawnLoad(t) \/ PushTest(t) \/ Wake(t) \/ PopTest(t) \/ Sleep(t)
           \/ BlockEnter(t) \/ BlockReturn(t) \/ LockStep(t) \/ SpuriousWakeup(t),
           NEW u \in Threads, pc[u] = "publish"
    PROVE  pc'[u] = "publish"
<1>0. /\ pc \in [Threads -> Places] /\ u \notin sleepers
  BY DEF IInv, TypeOK, Resting
<1>1. CASE SpawnLoad(t) \/ PushTest(t) \/ PopTest(t) \/ BlockEnter(t) \/ BlockReturn(t)
  BY <1>0, <1>1 DEF SpawnLoad, PushTest, PopTest, BlockEnter, BlockReturn, Goto
<1>2. CASE Wake(t) \/ Sleep(t) \/ SpuriousWakeup(t)
  BY <1>0, <1>2 DEF Wake, Sleep, SpuriousWakeup, Goto
<1>3. CASE LockStep(t)
  BY <1>0, <1>3 DEF LockStep, PushLock, PopLock, Lock, Goto
<1>. QED
  BY <1>1, <1>2, <1>3

\* The steps of a call that the service does not show: the first two of ql_spawn,
\* the first two of ql_merge, the ring, the condition variable and ql_block.
LEMMA HiddenSteps ==
    ASSUME RInv, NEW t \in Threads,
           \/ SpawnLoad(t) \/ PushTest(t) \/ Wake(t) \/ PopTest(t) \/ Sleep(t)
           \/ BlockEnter(t) \/ BlockReturn(t) \/ LockStep(t) \/ SpuriousWakeup(t)
           \/ SpawnAlloc(t) \/ MergeEnter(t) \/ MergeFn(t) \/ PushStore(t) \/ PopTake(t)
    PROVE  UNCHANGED Service!serviceVars
<1>0. /\ JInv /\ NotYet /\ IInv /\ Resting /\ pc \in [Threads -> Places]
      /\ task \in [Handles -> Task] /\ allocated \in Nat
  BY Sets DEF RInv, JInv, IInv, TypeOK, Task
<1>1. ASSUME \/ SpawnLoad(t) \/ PushTest(t) \/ Wake(t) \/ PopTest(t) \/ Sleep(t)
             \/ BlockEnter(t) \/ BlockReturn(t) \/ LockStep(t) \/ SpuriousWakeup(t)
      PROVE  UNCHANGED Service!serviceVars
  <2>1. Quiet /\ Keeping
    BY <1>0, <1>1, QuietSteps
  <2>2. \A u \in Threads : pc[u] = "publish" => pc'[u] = "publish"
    BY <1>0, <1>1, PublishingStays
  <2>. QED
    BY <1>0, <2>1, <2>2, UnseenStutters DEF Quiet, Keeping, tableVars
<1>2. CASE SpawnAlloc(t)
  <2>1. allocated + 1 \in Handles => task[allocated + 1].done = 1 /\ task[allocated + 1].arg = 0
    BY <1>0 DEF JInv, Table
  <2>2. \A h \in Handles : task'[h].done = task[h].done /\ task'[h].arg = task[h].arg
    BY <1>0, <1>2, <2>1 DEF SpawnAlloc
  <2>3. \A u \in Threads : pc'[u] = "publish" <=> pc[u] = "publish"
    BY <1>0, <1>2 DEF SpawnAlloc, Goto
  <2>4. UNCHANGED <<qtasks, cur, storage, calls>>
    BY <1>2 DEF SpawnAlloc
  <2>. QED
    BY <1>0, <2>2, <2>3, <2>4, UnseenStutters
<1>3. CASE MergeFn(t)
  <2>1. op[t] \in Handles
    BY <1>0, <1>3 DEF MergeFn, IInv, Control, WithHandle, Spawning
  <2>2. \A h \in Handles : task'[h].done = task[h].done /\ task'[h].arg = task[h].arg
    BY <1>0, <1>3, <2>1 DEF MergeFn, Task
  <2>3. \A u \in Threads : pc'[u] = "publish" <=> pc[u] = "publish"
    BY <1>0, <1>3 DEF MergeFn, Goto
  <2>4. UNCHANGED <<qtasks, cur, storage, calls>>
    BY <1>3 DEF MergeFn, tableVars
  <2>. QED
    BY <1>0, <2>2, <2>3, <2>4, UnseenStutters
<1>4. CASE MergeEnter(t) \/ PushStore(t) \/ PopTake(t)
  <2>1. \A u \in Threads : pc'[u] = "publish" <=> pc[u] = "publish"
    BY <1>0, <1>4 DEF MergeEnter, PushStore, PopTake, Goto
  <2>2. UNCHANGED <<qtasks, cur, storage, calls, task>>
    BY <1>4 DEF MergeEnter, PushStore, PopTake, tableVars
  <2>. QED
    BY <1>0, <2>1, <2>2, UnseenStutters
<1>. QED
  BY <1>1, <1>2, <1>3, <1>4

\* The handle enters the table: a thread there is, and it is idle.
LEMMA SpawnStoreServes ==
    ASSUME RInv, NEW t \in Threads, SpawnStore(t)
    PROVE  Service!Next
<1>1. PICK h \in Handles : h = op[t] /\ task[h].id = 0
  BY DEF RInv, JInv, IInv, Control, WithHandle, Table, SpawnStore, Spawning
<1>2. PICK id \in Ids : id = tmp[t] + 1 /\ id > qtasks_n
  <2>1. qtasks_n \in Owners /\ tmp[t] = qtasks_n /\ qtasks_n < QMAXTASK - 1
    BY DEF RInv, JInv, IInv, TypeOK, Control, SpawnStore, Spawning
  <2>. QED
    BY <2>1, Sets DEF Owners, Ids
<1>3. /\ task[h].done = 1 /\ task[h].arg = 0 /\ qtasks[id] = NULL /\ h # NULL
  BY <1>1, <1>2, Sets DEF RInv, JInv, NotYet, Table
<1>4. /\ \A j \in Ids : qtasks'[j] = IF j = id THEN h ELSE qtasks[j]
      /\ \A k \in Handles : task'[k].done = task[k].done /\ task'[k].arg = task[k].arg
      /\ \A u \in Threads : pc'[u] = "publish" <=> pc[u] = "publish"
      /\ UNCHANGED <<cur, storage, calls>>
  <2>1. /\ qtasks' = [qtasks EXCEPT ![id] = h] /\ task' = [task EXCEPT ![h].id = id]
        /\ pc' = [pc EXCEPT ![t] = "code"] /\ pc[t] = "spawnStore"
        /\ UNCHANGED <<cur, storage, calls>>
    BY <1>1, <1>2 DEF SpawnStore, Goto
  <2>2. /\ qtasks \in [Ids -> Handles \cup {NULL}] /\ task \in [Handles -> Task]
        /\ pc \in [Threads -> Places]
    BY DEF RInv, JInv, IInv, TypeOK, Task
  <2>. QED
    BY <2>1, <2>2 DEF Task
<1>5. ASSUME NEW x \in Ids, x # id
      PROVE  StageOf(x)' = StageOf(x)
  <2>1. qtasks'[x] = qtasks[x] /\ (qtasks[x] # NULL => qtasks[x] \in Handles)
    BY <1>4, <1>5, Named DEF RInv
  <2>. QED
    BY <1>4, <2>1, StageKept
<1>6. Stage' = Stage
  <2>1. StageOf(id)' = "idle" /\ StageOf(id) = "idle"
    BY <1>2, <1>3, <1>4 DEF StageOf
  <2>. QED
    BY <1>5, <2>1 DEF Stage
<1>7. Job' = Job
  <2>1. \A x \in Ids : qtasks[x] # NULL => qtasks[x] \in Handles
    BY Named DEF RInv
  <2>. QED
    BY <1>3, <1>4, <2>1 DEF Job
<1>8. Spawned' = Spawned \cup {id} /\ id \notin Spawned
  BY <1>3, <1>4 DEF Spawned
<1>9. Begun' = Begun /\ WithStorage' = WithStorage
  BY <1>4 DEF Begun, WithStorage
<1>10. Service!Spawn(id)
  BY <1>6, <1>7, <1>8, <1>9 DEF Service!Spawn
<1>. QED
  BY <1>10 DEF Service!Next

\* A step that concerns the job of one handle leaves the other threads alone.
LEMMA OthersKept ==
    ASSUME JInv, NEW h \in Handles, Published(h), qtasks' = qtasks,
           \A k \in Handles \ {h} : task'[k] = task[k],
           \A k \in Handles \ {h} : \A t \in Threads :
              /\ cur'[t] = k <=> cur[t] = k
              /\ cur[t] = k => (pc'[t] = "publish" <=> pc[t] = "publish"),
           NEW id \in Ids, id # task[h].id
    PROVE  /\ StageOf(id)' = StageOf(id)
           /\ qtasks[id] # NULL => task'[qtasks[id]].arg = task[qtasks[id]].arg
<1>1. qtasks[id] # NULL => qtasks[id] \in Handles \ {h}
  BY Named
<1>. QED
  BY <1>1, StageKept

\* What has been called is what the service calls called.
LEMMA BegunIs == \A p : p \in Begun <=> Called(p)
BY DEF Begun, Called

\* The arguments are in and done is cleared: the merge is the thread's job.
LEMMA MergeArgsServes ==
    ASSUME RInv, NEW t \in Threads, MergeArgs(t)
    PROVE  Service!Next
<1>0. JInv /\ pc[t] = "mergeArgs" /\ pc[t] \in Merging
  BY DEF RInv, MergeArgs, Merging
<1>1. PICK h \in Handles : /\ h = op[t] /\ Published(h) /\ task[h].done = 1
                           /\ \A u \in Threads : cur[u] # h
  BY <1>0, WrittenIsIdle
<1>2. PICK id \in Ids : id = task[h].id /\ qtasks[id] = h
  BY <1>1 DEF Published
<1>3. PICK j \in 1 .. MaxMerges : /\ j = tmp[t] /\ ~Called(j)
                                  /\ \A k \in Handles : task[k].arg # j
  BY <1>0, Sets DEF JInv, IInv, TypeOK, Numbers, OwnNumber
<1>4. /\ \A k \in Handles \ {h} : task'[k] = task[k]
      /\ task'[h].done = 0 /\ task'[h].arg = j
      /\ \A u \in Threads : pc'[u] = "publish" <=> pc[u] = "publish"
      /\ UNCHANGED <<qtasks, cur, storage, calls>>
  <2>1. task' = [task EXCEPT ![h] = [task[h] EXCEPT !.arg = j, !.done = 0]]
    BY <1>1, <1>3 DEF MergeArgs
  <2>2. task \in [Handles -> Task] /\ pc \in [Threads -> Places]
    BY <1>0 DEF JInv, IInv, TypeOK, Task
  <2>3. /\ pc' = [pc EXCEPT ![t] = "push"]
        /\ UNCHANGED <<qtasks, cur, storage, calls>>
    BY DEF MergeArgs, Goto, tableVars
  <2>. QED
    BY <1>0, <2>1, <2>2, <2>3 DEF Task
<1>5. h # NULL
  BY Sets
<1>6. \A x \in Ids \ {id} : /\ StageOf(x)' = StageOf(x)
                            /\ qtasks[x] # NULL => task'[qtasks[x]].arg = task[qtasks[x]].arg
  BY <1>0, <1>1, <1>2, <1>4, OthersKept
<1>7. Stage' = [Stage EXCEPT ![id] = "merged"] /\ Stage[id] = "idle"
  <2>1. StageOf(id)' = "merged" /\ StageOf(id) = "idle"
    BY <1>1, <1>2, <1>4, <1>5 DEF StageOf
  <2>. QED
    BY <1>6, <2>1 DEF Stage
<1>8. Job' = [Job EXCEPT ![id] = j]
  BY <1>2, <1>4, <1>5, <1>6 DEF Job
<1>9. UNCHANGED <<Spawned, Begun, WithStorage>> /\ id \in Spawned
  BY <1>2, <1>4, <1>5 DEF Spawned, Begun, WithStorage
<1>10. j \notin Begun
  BY <1>3, BegunIs
<1>11. ASSUME NEW x \in Ids, Stage[x] # "idle"
       PROVE  Job[x] # j
  <2>1. qtasks[x] # NULL /\ qtasks[x] \in Handles
    BY <1>0, <1>11, Named DEF Stage, StageOf
  <2>. QED
    BY <1>3, <2>1 DEF Job
<1>12. Service!Merge(id, j)
  BY <1>7, <1>8, <1>9, <1>10, <1>11 DEF Service!Merge
<1>. QED
  BY <1>12 DEF Service!Next

\* A worker calls the function: the thread's job is begun.
LEMMA BeginTaskServes ==
    ASSUME RInv, NEW t \in Threads, BeginTask(t)
    PROVE  Service!Next
<1>0. JInv /\ pc[t] = "begin" /\ pc[t] \in Carrying
  BY DEF RInv, BeginTask, Carrying
<1>1. PICK h \in Handles : /\ h = op[t] /\ Published(h) /\ task[h].done = 0 /\ Waits(h)
                           /\ \A u \in Threads : cur[u] # h
  BY <1>0, HandlesInUse DEF JInv, Jobs, Known, OnePlace, Busy, Numbers, OnceWaiting
<1>2. PICK id \in Ids : id = task[h].id /\ qtasks[id] = h
  BY <1>1 DEF Published
<1>3. cur[t] = NULL
  BY <1>0 DEF JInv, Resting, Between
<1>4. /\ \A u \in Threads : cur'[u] = IF u = t THEN h ELSE cur[u]
      /\ \A u \in Threads : pc'[u] = IF u = t THEN "code" ELSE pc[u]
      /\ UNCHANGED <<qtasks, task, storage>>
  <2>1. cur \in [Threads -> Handles \cup {NULL}] /\ pc \in [Threads -> Places]
    BY <1>0 DEF JInv, IInv, TypeOK
  <2>. QED
    BY <1>1, <2>1 DEF BeginTask, Goto, tableVars
<1>5. h # NULL /\ \A k \in Handles : k # NULL
  BY Sets
<1>6. \A x \in Ids \ {id} : StageOf(x)' = StageOf(x)
  BY <1>0, <1>1, <1>2, <1>3, <1>4, <1>5, OthersKept
<1>7. Stage' = [Stage EXCEPT ![id] = "running"] /\ Stage[id] = "merged"
  <2>1. StageOf(id)' = "running"
    BY <1>1, <1>2, <1>4, <1>5 DEF StageOf
  <2>2. StageOf(id) = "merged"
    BY <1>1, <1>2, <1>5 DEF StageOf
  <2>. QED
    BY <1>6, <2>1, <2>2 DEF Stage
<1>8. Job[id] = task[h].arg /\ Job' = Job /\ Spawned' = Spawned /\ WithStorage' = WithStorage
  BY <1>2, <1>4, <1>5 DEF Job, Spawned, WithStorage
<1>9. Begun' = Begun \cup {task[h].arg} /\ task[h].arg \notin Begun
  <2>. DEFINE call == [fn |-> task[h].fn, arg |-> task[h].arg]
              n == Len(calls)
  <2>1. calls \in Seq([fn : Nat, arg : Nat]) /\ call \in [fn : Nat, arg : Nat]
    BY <1>0, <1>1, Sets DEF JInv, IInv, TypeOK, Numbers, OnceCalled, Waits
  <2>2. calls' = Append(calls, call) /\ call.fn = task[h].arg
    BY <1>1 DEF BeginTask, Waits
  <2>. HIDE DEF call
  <2>3. /\ DOMAIN calls = 1 .. n /\ DOMAIN calls' = 1 .. n + 1 /\ n \in Nat
        /\ \A i \in DOMAIN calls : calls'[i] = calls[i]
        /\ calls'[n + 1] = call
    BY <2>1, <2>2
  <2>. HIDE DEF n
  <2>4. /\ \A i \in DOMAIN calls' : i \in DOMAIN calls \/ i = n + 1
        /\ \A i \in DOMAIN calls : i \in DOMAIN calls'
        /\ n + 1 \in DOMAIN calls'
    BY <2>3
  <2>5. Begun' = Begun \cup {call.fn}
    BY <2>3, <2>4 DEF Begun
  <2>6. task[h].arg \notin Begun
    BY <1>1, BegunIs DEF Waits
  <2>. QED
    BY <2>2, <2>5, <2>6
<1>10. Service!Begin(id)
  BY <1>7, <1>8, <1>9 DEF Service!Begin
<1>. QED
  BY <1>10 DEF Service!Next

\* A worker inside a task's function runs the job of its handle.
LEMMA Running ==
    ASSUME JInv, NEW t \in Threads, cur[t] # NULL, NEW h, h = cur[t], NEW id, id = task[h].id
    PROVE  /\ h \in Handles /\ Published(h) /\ id \in Ids /\ qtasks[id] = h
           /\ \A u \in Threads : u # t => cur[u] # h
           /\ Owner(t) = id
           /\ StageOf(id) = IF pc[t] = "publish" THEN "over" ELSE "running"
<1>1. h \in Handles /\ Published(h) /\ task[h].done = 0 /\ h # NULL
  BY HandlesInUse DEF JInv, Jobs, Known, Busy
<1>2. \A u \in Threads : u # t => cur[u] # h
  BY DEF JInv, Jobs, OnePlace
<1>3. id \in Ids /\ qtasks[id] = h
  BY <1>1 DEF Published
<1>4. StageOf(id) = IF pc[t] = "publish" THEN "over" ELSE "running"
  BY <1>1, <1>2, <1>3 DEF StageOf
<1>. QED
  BY <1>1, <1>2, <1>3, <1>4 DEF Owner

LEMMA AllocateServes ==
    ASSUME RInv, NEW t \in Threads, Allocate(t)
    PROVE  Service!Next
<1>0. JInv /\ pc[t] = "code" /\ cur[t] # NULL /\ storage \in [Owners -> 0 .. MaxStorage]
  BY DEF RInv, JInv, IInv, TypeOK, Allocate
<1>1. PICK id \in Ids : id = Owner(t) /\ StageOf(id) = "running"
  BY <1>0, Running
<1>2. /\ \A x \in Ids : storage'[x] = IF x = id THEN storage[x] + 1 ELSE storage[x]
      /\ storage[id] \in Nat
      /\ UNCHANGED <<qtasks, task, cur, pc, calls>>
  <2>1. Ids \subseteq Owners
    BY DEF Ids, Owners
  <2>. QED
    BY <1>0, <1>1, <2>1, Sets DEF Allocate, tableVars
<1>3. WithStorage' = WithStorage \cup {id}
  BY <1>2 DEF WithStorage
<1>4. UNCHANGED <<Spawned, Stage, Job, Begun>>
  BY <1>2 DEF Spawned, Stage, StageOf, Job, Begun
<1>5. Service!Allocate(id)
  BY <1>1, <1>3, <1>4 DEF Service!Allocate, Stage
<1>. QED
  BY <1>5 DEF Service!Next

\* ql_mem_task_end releases the storage of the task that ends, and of no other.
LEMMA EndTaskServes ==
    ASSUME RInv, NEW t \in Threads, EndTask(t)
    PROVE  Service!Next
<1>0. JInv /\ pc[t] = "code" /\ cur[t] # NULL /\ storage \in [Owners -> 0 .. MaxStorage]
  BY DEF RInv, JInv, IInv, TypeOK, EndTask
<1>1. PICK h \in Handles : h = cur[t] /\ Published(h)
  BY <1>0, Running
<1>2. PICK id \in Ids : /\ id = task[h].id /\ id = Owner(t) /\ StageOf(id) = "running"
                        /\ qtasks[id] = h /\ \A u \in Threads : u # t => cur[u] # h
  BY <1>0, <1>1, Running
<1>3. /\ \A x \in Ids : storage'[x] = IF x = id THEN 0 ELSE storage[x]
      /\ \A u \in Threads : pc'[u] = IF u = t THEN "publish" ELSE pc[u]
      /\ UNCHANGED <<qtasks, task, cur, calls>>
  <2>1. Ids \subseteq Owners
    BY DEF Ids, Owners
  <2>2. pc \in [Threads -> Places]
    BY <1>0 DEF JInv, IInv, TypeOK
  <2>. QED
    BY <1>0, <1>2, <2>1, <2>2 DEF EndTask, Goto, tableVars
<1>4. WithStorage' = WithStorage \ {id}
  BY <1>3 DEF WithStorage
<1>5. \A x \in Ids \ {id} : StageOf(x)' = StageOf(x)
  <2>1. \A k \in Handles \ {h} : \A u \in Threads :
            /\ cur'[u] = k <=> cur[u] = k
            /\ cur[u] = k => (pc'[u] = "publish" <=> pc[u] = "publish")
    BY <1>1, <1>3
  <2>2. qtasks' = qtasks /\ \A k \in Handles \ {h} : task'[k] = task[k]
    BY <1>3
  <2>3. JInv /\ Published(h) /\ id = task[h].id
    BY <1>0, <1>1, <1>2
  <2>. QED
    BY <2>1, <2>2, <2>3, OthersKept
<1>6. StageOf(id)' = "over"
  <2>1. h # NULL /\ task[h].done = 0
    BY <1>0, <1>1 DEF JInv, Jobs, Busy
  <2>. QED
    BY <1>1, <1>2, <1>3, <2>1 DEF StageOf
<1>7. Stage' = [Stage EXCEPT ![id] = "over"] /\ Stage[id] = "running"
  BY <1>2, <1>5, <1>6 DEF Stage
<1>8. UNCHANGED <<Spawned, Job, Begun>>
  BY <1>3 DEF Spawned, Job, Begun
<1>9. Service!End(id)
  BY <1>4, <1>7, <1>8 DEF Service!End
<1>. QED
  BY <1>9 DEF Service!Next

\* The store of done makes the thread idle: the next merge may come.
LEMMA PublishDoneServes ==
    ASSUME RInv, NEW t \in Threads, PublishDone(t)
    PROVE  Service!Next
<1>0. JInv /\ pc[t] = "publish" /\ cur[t] # NULL
  BY Sets DEF RInv, JInv, IInv, Control, PublishDone
<1>1. PICK h \in Handles : h = cur[t] /\ Published(h)
  BY <1>0, Running
<1>2. PICK id \in Ids : /\ id = task[h].id /\ StageOf(id) = "over"
                        /\ qtasks[id] = h /\ \A u \in Threads : u # t => cur[u] # h
  BY <1>0, <1>1, Running
<1>3. /\ \A k \in Handles \ {h} : task'[k] = task[k]
      /\ task'[h].done = 1 /\ task'[h].arg = task[h].arg
      /\ \A u \in Threads : pc'[u] = IF u = t THEN "pop" ELSE pc[u]
      /\ \A u \in Threads : cur'[u] = IF u = t THEN NULL ELSE cur[u]
      /\ UNCHANGED <<qtasks, storage, calls>>
  <2>1. /\ task \in [Handles -> Task] /\ pc \in [Threads -> Places]
        /\ cur \in [Threads -> Handles \cup {NULL}]
    BY <1>0 DEF JInv, IInv, TypeOK, Task
  <2>. QED
    BY <1>1, <2>1 DEF PublishDone, Goto, tableVars, Task
<1>4. h # NULL /\ \A k \in Handles : k # NULL
  BY Sets
<1>5. \A x \in Ids \ {id} : /\ StageOf(x)' = StageOf(x)
                            /\ qtasks[x] # NULL => task'[qtasks[x]].arg = task[qtasks[x]].arg
  BY <1>0, <1>1, <1>2, <1>3, <1>4, OthersKept
<1>6. Stage' = [Stage EXCEPT ![id] = "idle"] /\ Stage[id] = "over"
  <2>1. StageOf(id)' = "idle"
    BY <1>2, <1>3 DEF StageOf
  <2>. QED
    BY <1>2, <1>5, <2>1 DEF Stage
<1>7. UNCHANGED <<Spawned, Job, Begun, WithStorage>>
  BY <1>2, <1>3, <1>5 DEF Spawned, Job, Begun, WithStorage
<1>8. Service!BecomeIdle(id)
  BY <1>6, <1>7 DEF Service!BecomeIdle
<1>. QED
  BY <1>8 DEF Service!Next

\* The compiled runtime does what taskm promises, for programs that merge only
\* idle threads and spawn from one: each step of Spec is one step of the service
\* on one thread, or none.
THEOREM ServiceImplemented ==
    ASSUME Disciplined
    PROVE  Spec => ImplementsService
<1>1. Init => NotYet /\ Service!Init
  <2>. SUFFICES ASSUME Init
                PROVE  NotYet /\ Service!Init
    OBVIOUS
  <2>1. NotYet
    BY DEF Init, NotYet
  <2>2. \A id \in Ids : qtasks[id] = NULL /\ storage[id] = 0
    BY DEF Init, Ids, Owners
  <2>3. Spawned = {} /\ WithStorage = {} /\ Begun = {}
    BY <2>2 DEF Init, Spawned, WithStorage, Begun
  <2>4. Stage = [id \in Ids |-> "idle"] /\ Job = [id \in Ids |-> 0]
    BY <2>2 DEF Stage, StageOf, Job
  <2>. QED
    BY <2>1, <2>3, <2>4 DEF Service!Init
<1>2. RInv /\ [Next]_vars => RInv' /\ [Service!Next]_(Service!serviceVars)
  <2>. SUFFICES ASSUME RInv, [Next]_vars
                PROVE  RInv' /\ [Service!Next]_(Service!serviceVars)
    OBVIOUS
  <2>1. RInv'
    BY NextJInv, NotYetNext DEF RInv
  <2>2. CASE UNCHANGED vars
    <3>1. UNCHANGED <<qtasks, task, cur, pc, storage, calls>>
      BY <2>2 DEF vars, tableVars
    <3>2. UNCHANGED <<Spawned, Stage, Job, Begun, WithStorage>>
      BY <3>1 DEF Spawned, Stage, StageOf, Job, Begun, WithStorage
    <3>. QED
      BY <2>1, <3>2 DEF Service!serviceVars
  <2>3. ASSUME NEW t \in Threads, RuntimeStep(t) \/ LockStep(t)
        PROVE  [Service!Next]_(Service!serviceVars)
    BY <2>3, HiddenSteps, SpawnStoreServes, MergeArgsServes, BeginTaskServes, PublishDoneServes
       DEF RuntimeStep
  <2>4. ASSUME NEW t \in Threads, ProgramStep(t) \/ EndTask(t) \/ SpuriousWakeup(t)
        PROVE  [Service!Next]_(Service!serviceVars)
    BY <2>4, HiddenSteps, AllocateServes, EndTaskServes DEF ProgramStep
  <2>. QED
    BY <2>1, <2>2, <2>3, <2>4 DEF Next
<1>3. Init => RInv
  BY InitJInv, <1>1 DEF RInv
<1>. QED
  BY <1>1, <1>2, <1>3, PTL DEF Spec, ImplementsService, Service!Spec
=============================================================================

-------------------------- MODULE TaskThreadsProofs --------------------------
(***************************************************************************)
(* Proofs about TaskThreads, for any number of threads and of runs.        *)
(***************************************************************************)
EXTENDS TaskThreads, TLAPS

\* Which stage a goroutine is at, and what it still holds: what makes the Busy
\* flag of a thread a mutual exclusion.
Stages ==
    /\ \A r \in Runs : pc[r] # "ended" /\ (pc[r] = "absent" <=> nextRun < r)
    /\ \A r \in Runs : pc[r] # "absent" => pidOf[r] \in Pids
    /\ \A q \in Procs : pc[q] = "start" => target[q] \in Runs /\ pc[target[q]] = "created"
    /\ \A q, s \in Procs : q # s /\ pc[q] = "start" /\ pc[s] = "start" => target[q] # target[s]
    /\ \A q \in Procs : pc[q] \in {"wait", "readErr"} => target[q] \in Pids
    /\ \A r \in held : pc[r] \in {"start", "code", "wait", "readErr", "reclaim"}

IInv == TypeOK /\ Stages /\ OneRunPerThread

\* How the sets of the module lie in each other.
LEMMA Sets == /\ Runs \subseteq Procs /\ Main \in Procs /\ NoRun \in Procs
              /\ Main \notin Runs /\ \A q \in Procs : q = Main \/ q \in Runs
              /\ Runs \subseteq Nat
BY DEF Procs, Runs, Main, NoRun

LEMMA InitIInv == Init => IInv
<1>. USE DEF Procs, Runs, Pids, Main, NoRun
<1>. SUFFICES ASSUME Init
              PROVE  IInv
  OBVIOUS
<1>1. TypeOK
  BY BoundsAssumption DEF Init, TypeOK
<1>2. Stages
  BY BoundsAssumption DEF Init, Stages
<1>3. OneRunPerThread
  <2>1. \A p \in Pids : ~tasks[p].Busy
    BY DEF Init
  <2>2. \A r \in Runs : pc[r] = "absent"
    BY BoundsAssumption DEF Init
  <2>. QED
    BY <2>1, <2>2 DEF OneRunPerThread, Occupies
<1>. QED
  BY <1>1, <1>2, <1>3 DEF IInv

\* The function of q ends, for whatever reason.
LEMMA ReturnIInv ==
    ASSUME IInv, NEW q \in Procs, NEW e \in Procs,
           pc[q] \in {"code", "readErr"}, Return(q, e),
           UNCHANGED <<nextPid, nextRun, pidOf, target, ch, closed, held>>
    PROVE  IInv'
<1>. USE BoundsAssumption DEF Procs, Runs, Pids, Main, NoRun, Return, Goto
<1>1. CASE q = Main
  <2>1. TypeOK'
    BY <1>1 DEF IInv, TypeOK
  <2>2. Stages'
    BY <1>1 DEF IInv, TypeOK, Stages
  <2>3. OneRunPerThread'
    BY <1>1 DEF IInv, TypeOK, OneRunPerThread, Occupies
  <2>. QED
    BY <2>1, <2>2, <2>3 DEF IInv
<1>2. CASE q \in Runs
  <2>1. pidOf[q] \in Pids /\ q # Main
    BY <1>2 DEF IInv, Stages
  <2>9. /\ tasks' = [tasks EXCEPT ![pidOf[q]].err = e]
        /\ tasks \in [Pids -> [Busy : BOOLEAN, doneCh : Procs, err : Procs]]
        /\ e \in Procs
    BY <2>1 DEF IInv, TypeOK
  <2>2. tasks' \in [Pids -> [Busy : BOOLEAN, doneCh : Procs, err : Procs]]
    <3>. HIDE DEF Procs, Pids
    <3>. QED
      BY <2>1, <2>9
  <2>3. \A p \in Pids : tasks'[p].Busy = tasks[p].Busy
    <3>. HIDE DEF Procs, Pids
    <3>. QED
      BY <2>1, <2>9
  <2>4. TypeOK'
    BY <1>2, <2>1, <2>2 DEF IInv, TypeOK
  <2>5. Stages'
    BY <1>2, <2>1 DEF IInv, TypeOK, Stages
  <2>6. \A r \in Runs : Occupies(r)' <=> Occupies(r)
    BY <1>2, <2>1 DEF IInv, TypeOK, Occupies
  <2>7. OneRunPerThread'
    BY <2>3, <2>6 DEF IInv, OneRunPerThread
  <2>. QED
    BY <2>4, <2>5, <2>7 DEF IInv
<1>. QED
  BY <1>1, <1>2

LEMMA MergeIInv ==
    ASSUME IInv, NEW q \in Procs, NEW p \in 1 .. nextPid, MergeAccepted(q, p)
    PROVE  IInv'
<1>. DEFINE n == nextRun + 1
<1>0. /\ p \in Pids
      /\ n \in Runs /\ pc[n] = "absent" /\ q # n
      /\ pc[q] = "code" /\ ~tasks[p].Busy
  BY BoundsAssumption DEF MergeAccepted, IInv, TypeOK, Stages, Pids, Runs
<1>1. /\ tasks' = [tasks EXCEPT ![p].Busy = TRUE, ![p].doneCh = n]
      /\ pidOf' = [pidOf EXCEPT ![n] = p]
      /\ pc' = [pc EXCEPT ![q] = "start", ![n] = "created"]
      /\ target' = [target EXCEPT ![q] = n]
      /\ nextRun' = n
      /\ UNCHANGED <<nextPid, ch, closed, held, outcome, alive>>
  BY DEF MergeAccepted
<1>. HIDE DEF n
<1>. USE DEF Procs, Main, NoRun
<1>2. TypeOK'
  <2>1. n \in 0 .. MaxRuns
    BY <1>0 DEF Runs
  <2>2. tasks' \in [Pids -> [Busy : BOOLEAN, doneCh : Procs, err : Procs]]
    BY <1>0, <1>1 DEF IInv, TypeOK
  <2>3. target' \in [Procs -> Nat]
    BY <1>0, <1>1, <2>1 DEF IInv, TypeOK
  <2>. QED
    BY <1>0, <1>1, <2>1, <2>2, <2>3 DEF IInv, TypeOK
<1>3. Stages'
  <2>1. /\ \A r \in Runs : pc'[r] # "ended" /\ (pc'[r] = "absent" <=> nextRun' < r)
    BY <1>0, <1>1, BoundsAssumption DEF IInv, TypeOK, Stages, n, Runs
  <2>2. \A r \in Runs : pc'[r] # "absent" => pidOf'[r] \in Pids
    BY <1>0, <1>1 DEF IInv, TypeOK, Stages
  <2>3. \A s \in Procs : pc'[s] = "start" => target'[s] \in Runs /\ pc'[target'[s]] = "created"
    BY <1>0, <1>1 DEF IInv, TypeOK, Stages
  <2>4. \A s, t \in Procs : s # t /\ pc'[s] = "start" /\ pc'[t] = "start" => target'[s] # target'[t]
    BY <1>0, <1>1 DEF IInv, TypeOK, Stages
  <2>5. \A r \in held' : pc'[r] \in {"start", "code", "wait", "readErr", "reclaim"}
    BY <1>0, <1>1 DEF IInv, TypeOK, Stages
  <2>6. \A s \in Procs : pc'[s] \in {"wait", "readErr"} => target'[s] \in Pids
    BY <1>0, <1>1 DEF IInv, TypeOK, Stages
  <2>. QED
    BY <2>1, <2>2, <2>3, <2>4, <2>5, <2>6 DEF Stages
<1>4. OneRunPerThread'
  <2>1. \A r \in Runs : Occupies(r)' <=> Occupies(r) \/ r = n
    BY <1>0, <1>1 DEF IInv, TypeOK, Occupies
  <2>2. \A r \in Runs : Occupies(r) => pidOf[r] # p
    BY <1>0 DEF IInv, OneRunPerThread
  <2>3. ~Occupies(n)
    BY <1>0 DEF Occupies
  <2>4. /\ pidOf'[n] = p
        /\ \A r \in Runs : r # n => pidOf'[r] = pidOf[r]
    BY <1>0, <1>1 DEF IInv, TypeOK
  <2>5. /\ tasks'[p].Busy
        /\ \A x \in Pids : x # p => tasks'[x] = tasks[x]
    BY <1>0, <1>1 DEF IInv, TypeOK
  <2>6. \A r, s \in Runs : r # s /\ Occupies(r)' /\ Occupies(s)' => pidOf'[r] # pidOf'[s]
    BY <2>1, <2>2, <2>4 DEF IInv, OneRunPerThread
  <2>7. ASSUME NEW x \in Pids
        PROVE  tasks'[x].Busy <=> \E r \in Runs : pidOf'[r] = x /\ Occupies(r)'
    <3>1. CASE x = p
      BY <3>1, <1>0, <2>1, <2>4, <2>5
    <3>2. CASE x # p
      BY <3>2, <1>0, <2>1, <2>3, <2>4, <2>5 DEF IInv, OneRunPerThread
    <3>. QED
      BY <3>1, <3>2
  <2>. QED
    BY <2>6, <2>7 DEF OneRunPerThread
<1>. QED
  BY <1>2, <1>3, <1>4 DEF IInv

LEMMA StartIInv ==
    ASSUME IInv, NEW q \in Procs, Start(q)
    PROVE  IInv'
<1>. DEFINE n == target[q]
<1>0. /\ n \in Runs /\ n \in Procs /\ pc[n] = "created" /\ pc[q] = "start" /\ q # n
      /\ \A s \in Procs : s # q /\ pc[s] = "start" => target[s] # n
  BY Sets DEF Start, IInv, Stages
<1>1. /\ pc' = [pc EXCEPT ![q] = "code", ![n] = "code"]
      /\ held' = held \cup {n}
      /\ UNCHANGED <<nextPid, tasks, nextRun, pidOf, target, ch, closed, outcome, alive>>
  BY DEF Start
<1>2. \A s \in Procs : pc'[s] = IF s \in {q, n} THEN "code" ELSE pc[s]
  BY <1>0, <1>1 DEF IInv, TypeOK
<1>. HIDE DEF n
<1>3. TypeOK'
  BY <1>0, <1>1 DEF IInv, TypeOK
<1>4. Stages'
  <2>1. ASSUME NEW r \in Runs
        PROVE  pc'[r] # "ended" /\ (pc'[r] = "absent" <=> nextRun' < r)
    <3>1. r \in Procs
      BY Sets
    <3>2. /\ pc'[r] = IF r \in {q, n} THEN "code" ELSE pc[r]
          /\ r \in {q, n} => pc[r] # "absent"
      BY <3>1, <1>0, <1>2
    <3>3. pc[r] # "ended" /\ (pc[r] = "absent" <=> nextRun < r)
      BY DEF IInv, Stages
    <3>4. nextRun' = nextRun
      BY <1>1
    <3>. QED
      BY <3>2, <3>3, <3>4
  <2>2. \A r \in Runs : pc'[r] # "absent" => pidOf'[r] \in Pids
    BY <1>0, <1>1, <1>2, Sets DEF IInv, Stages
  <2>3. ASSUME NEW s \in Procs, pc'[s] = "start"
        PROVE  target'[s] \in Runs /\ pc'[target'[s]] = "created"
    <3>1. pc[s] = "start" /\ s # q
      BY <2>3, <1>2
    <3>2. target[s] \in Runs /\ target[s] \in Procs /\ pc[target[s]] = "created"
      BY <3>1, Sets DEF IInv, Stages
    <3>3. target[s] # n /\ target[s] # q
      BY <3>1, <3>2, <1>0
    <3>. QED
      BY <3>2, <3>3, <1>1, <1>2
  <2>4. \A s, t \in Procs : s # t /\ pc'[s] = "start" /\ pc'[t] = "start" => target'[s] # target'[t]
    BY <1>0, <1>1, <1>2, Sets DEF IInv, Stages
  <2>5. \A r \in held' : pc'[r] \in {"start", "code", "wait", "readErr", "reclaim"}
    BY <1>0, <1>1, <1>2, Sets DEF IInv, TypeOK, Stages
  <2>6. \A s \in Procs : pc'[s] \in {"wait", "readErr"} => target'[s] \in Pids
    BY <1>0, <1>1, <1>2 DEF IInv, Stages
  <2>. QED
    BY <2>1, <2>2, <2>3, <2>4, <2>5, <2>6 DEF Stages
<1>5. OneRunPerThread'
  <2>1. \A r \in Runs : Occupies(r)' <=> Occupies(r)
    BY <1>0, <1>2, Sets DEF Occupies
  <2>. QED
    BY <1>1, <2>1 DEF IInv, OneRunPerThread
<1>. QED
  BY <1>3, <1>4, <1>5 DEF IInv

\* The goroutine of r after its function: the block, the flag, the channel.
LEMMA EpilogueIInv ==
    ASSUME IInv, NEW r \in Runs, ReclaimTask(r) \/ SetIdle(r) \/ Close(r)
    PROVE  IInv'
<1>. USE BoundsAssumption DEF Procs, Runs, Pids, Main, NoRun, Goto
<1>1. CASE ReclaimTask(r)
  <2>1. TypeOK'
    BY <1>1 DEF ReclaimTask, IInv, TypeOK
  <2>2. Stages'
    BY <1>1 DEF ReclaimTask, IInv, TypeOK, Stages
  <2>3. OneRunPerThread'
    BY <1>1 DEF ReclaimTask, IInv, TypeOK, OneRunPerThread, Occupies
  <2>. QED
    BY <2>1, <2>2, <2>3 DEF IInv
<1>2. CASE SetIdle(r)
  <2>1. TypeOK'
    BY <1>2 DEF SetIdle, IInv, TypeOK
  <2>2. Stages'
    BY <1>2 DEF SetIdle, IInv, TypeOK, Stages
  <2>3. OneRunPerThread'
    BY <1>2 DEF SetIdle, IInv, TypeOK, Stages, OneRunPerThread, Occupies
  <2>. QED
    BY <2>1, <2>2, <2>3 DEF IInv
<1>3. CASE Close(r)
  <2>1. TypeOK'
    <3>1. tasks[pidOf[r]].doneCh \in Procs
      <4>. HIDE DEF Procs, Pids
      <4>1. pidOf[r] \in Pids
        BY <1>3 DEF Close, IInv, Stages
      <4>. QED
        BY <4>1 DEF IInv, TypeOK
    <3>. QED
      BY <1>3, <3>1 DEF Close, IInv, TypeOK
  <2>2. Stages'
    BY <1>3 DEF Close, IInv, TypeOK, Stages
  <2>3. OneRunPerThread'
    BY <1>3 DEF Close, IInv, TypeOK, OneRunPerThread, Occupies
  <2>. QED
    BY <2>1, <2>2, <2>3 DEF IInv
<1>. QED
  BY <1>1, <1>2, <1>3

LEMMA BlockIInv ==
    ASSUME IInv, NEW q \in Procs,
           WaitEnds(q) \/ \E p \in 1 .. nextPid : Block(q, p)
    PROVE  IInv'
<1>. USE BoundsAssumption DEF Procs, Runs, Pids, Main, NoRun, Goto
<1>1. CASE WaitEnds(q)
  <2>1. TypeOK'
    BY <1>1 DEF WaitEnds, IInv, TypeOK
  <2>2. Stages'
    BY <1>1 DEF WaitEnds, IInv, TypeOK, Stages
  <2>3. OneRunPerThread'
    BY <1>1 DEF WaitEnds, IInv, TypeOK, OneRunPerThread, Occupies
  <2>. QED
    BY <2>1, <2>2, <2>3 DEF IInv
<1>2. ASSUME NEW p \in 1 .. nextPid, Block(q, p)
      PROVE  IInv'
  <2>1. TypeOK'
    BY <1>2 DEF Block, IInv, TypeOK
  <2>2. Stages'
    BY <1>2 DEF Block, IInv, TypeOK, Stages
  <2>3. OneRunPerThread'
    BY <1>2 DEF Block, IInv, TypeOK, OneRunPerThread, Occupies
  <2>. QED
    BY <2>1, <2>2, <2>3 DEF IInv
<1>. QED
  BY <1>1, <1>2

LEMMA NextIInv == IInv /\ [Next]_vars => IInv'
<1>. SUFFICES ASSUME IInv, [Next]_vars
              PROVE  IInv'
  OBVIOUS
<1>0. Main \in Procs /\ Runs \subseteq Procs /\ NoRun \in Procs
  BY DEF Procs, Main, NoRun
<1>1. ASSUME NEW q \in Procs, RuntimeStep(q)
      PROVE  IInv'
  <2>1. CASE Start(q)
    BY <2>1, StartIInv
  <2>2. CASE WaitEnds(q)
    BY <2>2, BlockIInv
  <2>3. CASE ReadErr(q)
    <3>1. CASE Return(q, q)
      BY <2>3, <3>1, ReturnIInv DEF ReadErr
    <3>2. CASE Goto(q, "code") /\ UNCHANGED <<tasks, outcome, alive>>
      <4>. USE BoundsAssumption, <2>3, <3>2 DEF Goto, ReadErr, Procs, Runs, Pids, Main, NoRun
      <4>1. TypeOK'
        BY DEF IInv, TypeOK
      <4>2. Stages'
        BY DEF IInv, TypeOK, Stages
      <4>3. OneRunPerThread'
        BY DEF IInv, TypeOK, OneRunPerThread, Occupies
      <4>. QED
        BY <4>1, <4>2, <4>3 DEF IInv
    <3>. QED
      BY <2>3, <3>1, <3>2 DEF ReadErr
  <2>. QED
    BY <1>1, <2>1, <2>2, <2>3 DEF RuntimeStep
<1>2. ASSUME NEW q \in Procs, ProgramStep(q)
      PROVE  IInv'
  <2>1. CASE Spawn(q)
    BY <2>1, BoundsAssumption
       DEF Spawn, IInv, TypeOK, Stages, OneRunPerThread, Occupies, Pids
  <2>2. ASSUME NEW p \in 1 .. nextPid, MergeRefused(q, p)
        PROVE  IInv'
    BY <2>2, ReturnIInv DEF MergeRefused
  <2>3. ASSUME NEW p \in 1 .. nextPid, MergeAccepted(q, p)
        PROVE  IInv'
    BY <2>3, MergeIInv
  <2>4. ASSUME NEW p \in 1 .. nextPid, Block(q, p)
        PROVE  IInv'
    BY <2>4, BlockIInv
  <2>. QED
    BY <1>2, <2>1, <2>2, <2>3, <2>4 DEF ProgramStep
<1>3. ASSUME NEW r \in Runs, RunStep(r)
      PROVE  IInv'
  <2>1. CASE Finish(r)
    BY <1>0, <2>1, ReturnIInv DEF Finish
  <2>2. CASE ReclaimTask(r) \/ SetIdle(r) \/ Close(r)
    BY <2>2, EpilogueIInv
  <2>. QED
    BY <1>3, <2>1, <2>2 DEF RunStep
<1>4. CASE UNCHANGED vars
  BY <1>4 DEF vars, IInv, TypeOK, Stages, OneRunPerThread, Occupies
<1>. QED
  BY <1>1, <1>2, <1>3, <1>4 DEF Next

-----------------------------------------------------------------------------
(* Programs of any haste.                                                   *)

\* The state of the interpreter's threads stays within its types; in particular
\* doneCh always names a channel that some merge made, or none.
THEOREM TypeCorrect == Spec => []TypeOK
<1>1. IInv => TypeOK
  BY DEF IInv
<1>. QED
  BY InitIInv, NextIInv, <1>1, PTL DEF Spec

\* However goroutines race for a thread in taskm.merge, one of them gets it and
\* the flag that refuses the others is up exactly while its run lasts.
THEOREM MergeExcludes == Spec => []OneRunPerThread
<1>1. IInv => OneRunPerThread
  BY DEF IInv
<1>. QED
  BY InitIInv, NextIInv, <1>1, PTL DEF Spec

\* A thread taskm.done calls idle holds no memory block of a run of its own.
THEOREM IdleIsReclaimed == Spec => []IdleMeansReclaimed
<1>1. IInv => IdleMeansReclaimed
  BY DEF IInv, TypeOK, Stages, OneRunPerThread, Occupies, IdleMeansReclaimed
<1>. QED
  BY InitIInv, NextIInv, <1>1, PTL DEF Spec

-----------------------------------------------------------------------------
(* Programs that leave a thread alone until its channel is closed.          *)

Live(r) == pc[r] \notin {"absent", "finished"}

\* The channel of a thread is that of its latest run, and a channel is closed
\* by the last step of its run.
Channels ==
    /\ \A r \in Runs : Live(r) => tasks[pidOf[r]].doneCh = r
    /\ \A c \in closed : c \in Runs /\ pc[c] = "finished"
    /\ \A p \in Pids : tasks[p].doneCh # NoRun =>
          pidOf[tasks[p].doneCh] = p /\ pc[tasks[p].doneCh] # "absent"
    /\ \A q \in Procs : pc[q] = "readErr" /\ ch[q] # NoRun => ch[q] \in closed

\* The error a thread shows is that of its latest run, once that is over.
Reports == \A p \in Pids :
    /\ tasks[p].doneCh # NoRun
    /\ pc[tasks[p].doneCh] \in {"reclaim", "idle", "close", "finished"}
    => tasks[p].err = outcome[tasks[p].doneCh]

LEMMA InitChannels == Init => Channels /\ Reports
<1>. SUFFICES ASSUME Init
              PROVE  Channels /\ Reports
  OBVIOUS
<1>1. /\ \A p \in Pids : tasks[p].doneCh = NoRun
      /\ \A q \in Procs : ch[q] = NoRun
      /\ closed = {}
      /\ \A r \in Runs : pc[r] = "absent"
  BY Sets DEF Init
<1>. QED
  BY <1>1 DEF Channels, Reports, Live

LEMMA ReturnChannels ==
    ASSUME IInv, Channels, Reports, NEW q \in Procs, NEW e \in Procs,
           pc[q] \in {"code", "readErr"}, Return(q, e),
           UNCHANGED <<nextPid, nextRun, pidOf, target, ch, closed, held>>
    PROVE  Channels' /\ Reports'
<1>1. \A s \in Procs : pc'[s] = IF s = q THEN (IF q = Main THEN "ended" ELSE "reclaim") ELSE pc[s]
  BY DEF Return, Goto, IInv, TypeOK
<1>2. \A p \in Pids : tasks[p].doneCh # NoRun => tasks[p].doneCh \in Runs
  BY DEF IInv, TypeOK, Procs, Main, NoRun
<1>3. CASE q = Main
  <2>1. tasks' = tasks /\ outcome' = outcome
    BY <1>3 DEF Return
  <2>2. \A r \in Runs : pc'[r] = pc[r]
    BY <1>1, <1>3, Sets
  <2>3. Channels'
    BY <1>1, <1>2, <1>3, <2>1, <2>2 DEF Channels, Live
  <2>4. Reports'
    BY <1>2, <2>1, <2>2 DEF Reports
  <2>. QED
    BY <2>3, <2>4
<1>4. CASE q \in Runs
  <2>1. /\ q # Main /\ Live(q) /\ pidOf[q] \in Pids
        /\ tasks[pidOf[q]].doneCh = q
    BY <1>4, Sets DEF IInv, Stages, Channels, Live
  <2>2. /\ outcome' = [outcome EXCEPT ![q] = e]
        /\ tasks' = [tasks EXCEPT ![pidOf[q]].err = e]
    BY <2>1 DEF Return
  <2>3. \A p \in Pids : /\ tasks'[p].doneCh = tasks[p].doneCh
                        /\ tasks'[p].err = IF p = pidOf[q] THEN e ELSE tasks[p].err
    BY <2>1, <2>2 DEF IInv, TypeOK
  <2>4. \A r \in Runs : outcome'[r] = IF r = q THEN e ELSE outcome[r]
    BY <1>4, <2>2 DEF IInv, TypeOK
  <2>5. \A r \in Runs : pc'[r] = IF r = q THEN "reclaim" ELSE pc[r]
    BY <1>1, <2>1, Sets
  <2>6. Channels'
    <3>1. \A r \in Runs : Live(r)' => tasks'[pidOf'[r]].doneCh = r
      BY <2>1, <2>3, <2>5 DEF Channels, Live, IInv, Stages
    <3>2. \A c \in closed' : c \in Runs /\ pc'[c] = "finished"
      BY <2>1, <2>5 DEF Channels, Live
    <3>3. \A p \in Pids : tasks'[p].doneCh # NoRun =>
             pidOf'[tasks'[p].doneCh] = p /\ pc'[tasks'[p].doneCh] # "absent"
      BY <1>2, <2>3, <2>5 DEF Channels
    <3>4. \A s \in Procs : pc'[s] = "readErr" /\ ch'[s] # NoRun => ch'[s] \in closed'
      BY <1>1 DEF Channels
    <3>. QED
      BY <3>1, <3>2, <3>3, <3>4 DEF Channels
  <2>7. Reports'
    <3>. SUFFICES ASSUME NEW p \in Pids, tasks'[p].doneCh # NoRun,
                         pc'[tasks'[p].doneCh] \in {"reclaim", "idle", "close", "finished"}
                  PROVE  tasks'[p].err = outcome'[tasks'[p].doneCh]
      BY DEF Reports
    <3>1. CASE p = pidOf[q]
      BY <3>1, <1>4, <2>1, <2>3, <2>4
    <3>2. CASE p # pidOf[q]
      <4>1. tasks[p].doneCh \in Runs /\ tasks[p].doneCh # q
        BY <3>2, <1>2, <2>3 DEF Channels
      <4>. QED
        BY <3>2, <4>1, <2>3, <2>4, <2>5 DEF Reports
    <3>. QED
      BY <3>1, <3>2
  <2>. QED
    BY <2>6, <2>7
<1>. QED
  BY <1>3, <1>4, Sets

LEMMA MergeChannels ==
    ASSUME ~Hasty, IInv, Channels, Reports, NEW q \in Procs, NEW p \in 1 .. nextPid,
           MergeAccepted(q, p)
    PROVE  Channels' /\ Reports'
<1>. DEFINE n == nextRun + 1
<1>0. /\ p \in Pids
      /\ n \in Runs /\ pc[n] = "absent" /\ q # n
      /\ pc[q] = "code"
      /\ tasks[p].doneCh \in closed \cup {NoRun}
  BY BoundsAssumption DEF MergeAccepted, IInv, TypeOK, Stages, Pids, Runs
<1>1. /\ tasks' = [tasks EXCEPT ![p].Busy = TRUE, ![p].doneCh = n]
      /\ pidOf' = [pidOf EXCEPT ![n] = p]
      /\ pc' = [pc EXCEPT ![q] = "start", ![n] = "created"]
      /\ UNCHANGED <<ch, closed, outcome>>
  BY DEF MergeAccepted
<1>. HIDE DEF n
<1>2. \A s \in Procs : pc'[s] = IF s = n THEN "created" ELSE IF s = q THEN "start" ELSE pc[s]
  BY <1>0, <1>1, Sets DEF IInv, TypeOK
<1>3. \A x \in Pids : /\ tasks'[x].doneCh = IF x = p THEN n ELSE tasks[x].doneCh
                      /\ tasks'[x].err = tasks[x].err
  BY <1>0, <1>1 DEF IInv, TypeOK
<1>4. \A r \in Runs : pidOf'[r] = IF r = n THEN p ELSE pidOf[r]
  BY <1>0, <1>1 DEF IInv, TypeOK
<1>5. \A x \in Pids : tasks[x].doneCh # NoRun => tasks[x].doneCh \in Runs \ {n}
  BY <1>0 DEF IInv, TypeOK, Procs, Main, NoRun, Channels
<1>6. \A r \in Runs : Live(r) => pidOf[r] \in Pids \ {p}
  BY <1>0, Sets DEF Channels, Live, IInv, Stages, Main, NoRun
<1>7. Channels'
  <2>1. ASSUME NEW r \in Runs, Live(r)'
        PROVE  tasks'[pidOf'[r]].doneCh = r
    <3>1. CASE r = n
      BY <3>1, <1>0, <1>3, <1>4
    <3>2. CASE r # n
      <4>1. Live(r)
        BY <2>1, <3>2, <1>0, <1>2, Sets DEF Live
      <4>. QED
        BY <4>1, <3>2, <1>3, <1>4, <1>6 DEF Channels
    <3>. QED
      BY <3>1, <3>2
  <2>2. \A c \in closed' : c \in Runs /\ pc'[c] = "finished"
    BY <1>0, <1>1, <1>2, Sets DEF Channels
  <2>3. ASSUME NEW x \in Pids, tasks'[x].doneCh # NoRun
        PROVE  pidOf'[tasks'[x].doneCh] = x /\ pc'[tasks'[x].doneCh] # "absent"
    <3>1. CASE x = p
      BY <3>1, <1>0, <1>2, <1>3, <1>4, Sets
    <3>2. CASE x # p
      <4>1. tasks'[x].doneCh = tasks[x].doneCh /\ tasks[x].doneCh # NoRun
        BY <2>3, <3>2, <1>3
      <4>2. tasks[x].doneCh \in Runs \ {n}
        BY <4>1, <1>5
      <4>3. pidOf[tasks[x].doneCh] = x /\ pc[tasks[x].doneCh] # "absent"
        BY <4>1 DEF Channels
      <4>4. pidOf'[tasks[x].doneCh] = x
        BY <4>2, <4>3, <1>4
      <4>5. pc'[tasks[x].doneCh] # "absent"
        BY <4>2, <4>3, <1>2, Sets
      <4>. QED
        BY <4>1, <4>4, <4>5
    <3>. QED
      BY <3>1, <3>2
  <2>4. \A s \in Procs : pc'[s] = "readErr" /\ ch'[s] # NoRun => ch'[s] \in closed'
    BY <1>1, <1>2 DEF Channels
  <2>. QED
    BY <2>1, <2>2, <2>3, <2>4 DEF Channels
<1>8. Reports'
  <2>. SUFFICES ASSUME NEW x \in Pids, tasks'[x].doneCh # NoRun,
                       pc'[tasks'[x].doneCh] \in {"reclaim", "idle", "close", "finished"}
                PROVE  tasks'[x].err = outcome'[tasks'[x].doneCh]
    BY DEF Reports
  <2>1. x # p
    BY <1>0, <1>2, <1>3, Sets
  <2>2. tasks'[x].doneCh = tasks[x].doneCh /\ tasks[x].doneCh \in Runs \ {n}
    BY <2>1, <1>3, <1>5
  <2>3. pc[tasks[x].doneCh] = pc'[tasks[x].doneCh]
    BY <2>2, <1>2, Sets
  <2>. QED
    BY <2>2, <2>3, <1>1, <1>3 DEF Reports
<1>. QED
  BY <1>7, <1>8

\* A step that moves live goroutines on and touches neither a thread's channel
\* nor its error: most of them.
Returned == {"reclaim", "idle", "close", "finished"}
SameLife(r) == /\ Live(r)' => Live(r)
               /\ pc'[r] = "absent" => pc[r] = "absent"
               /\ pc[r] = "finished" => pc'[r] = "finished"
               /\ pc'[r] \in Returned => pc[r] \in Returned
Quiet == /\ \A r \in Runs : SameLife(r)
         /\ \A p \in Pids : tasks'[p].doneCh = tasks[p].doneCh /\ tasks'[p].err = tasks[p].err
         /\ \A q \in Procs : pc'[q] = "readErr" /\ ch'[q] # NoRun => ch'[q] \in closed
         /\ pidOf' = pidOf /\ closed' = closed /\ outcome' = outcome

LEMMA QuietChannels ==
    ASSUME IInv, Channels, Reports, Quiet
    PROVE  Channels' /\ Reports'
<1>. USE DEF Quiet, SameLife, Returned
<1>1. \A p \in Pids : tasks[p].doneCh # NoRun => tasks[p].doneCh \in Runs
  BY DEF IInv, TypeOK, Procs, Main, NoRun
<1>2. Channels'
  <2>1. ASSUME NEW r \in Runs, Live(r)'
        PROVE  tasks'[pidOf'[r]].doneCh = r
    <3>1. Live(r)
      BY <2>1
    <3>2. pidOf[r] \in Pids
      BY <3>1 DEF Live, IInv, Stages
    <3>. QED
      BY <3>1, <3>2 DEF Channels
  <2>2. \A c \in closed' : c \in Runs /\ pc'[c] = "finished"
    BY DEF Channels
  <2>3. ASSUME NEW p \in Pids, tasks'[p].doneCh # NoRun
        PROVE  pidOf'[tasks'[p].doneCh] = p /\ pc'[tasks'[p].doneCh] # "absent"
    <3>1. tasks[p].doneCh \in Runs /\ tasks'[p].doneCh = tasks[p].doneCh
      BY <1>1, <2>3
    <3>2. pidOf[tasks[p].doneCh] = p /\ pc[tasks[p].doneCh] # "absent"
      BY <2>3, <3>1 DEF Channels
    <3>. QED
      BY <3>1, <3>2
  <2>4. \A q \in Procs : pc'[q] = "readErr" /\ ch'[q] # NoRun => ch'[q] \in closed'
    OBVIOUS
  <2>. QED
    BY <2>1, <2>2, <2>3, <2>4 DEF Channels
<1>3. Reports'
  <2>. SUFFICES ASSUME NEW p \in Pids, tasks'[p].doneCh # NoRun,
                       pc'[tasks'[p].doneCh] \in Returned
                PROVE  tasks'[p].err = outcome'[tasks'[p].doneCh]
    BY DEF Reports
  <2>1. tasks[p].doneCh \in Runs /\ tasks'[p].doneCh = tasks[p].doneCh
    BY <1>1
  <2>2. pc[tasks[p].doneCh] \in Returned
    BY <2>1
  <2>. QED
    BY <2>1, <2>2 DEF Reports
<1>. QED
  BY <1>2, <1>3

LEMMA StartChannels ==
    ASSUME IInv, Channels, Reports, NEW q \in Procs, Start(q)
    PROVE  Channels' /\ Reports'
<1>1. /\ target[q] \in Procs /\ pc[target[q]] = "created" /\ pc[q] = "start"
      /\ pc' = [pc EXCEPT ![q] = "code", ![target[q]] = "code"]
      /\ UNCHANGED <<tasks, pidOf, ch, closed, outcome>>
  BY Sets DEF Start, IInv, Stages
<1>2. \A s \in Procs : pc'[s] = IF s = q \/ s = target[q] THEN "code" ELSE pc[s]
  BY <1>1 DEF IInv, TypeOK
<1>3. \A s \in Procs : pc'[s] = "readErr" /\ ch'[s] # NoRun => ch'[s] \in closed
  BY <1>1, <1>2 DEF Channels
<1>4. ASSUME NEW r \in Runs
      PROVE  SameLife(r)
  <2>1. pc'[r] = IF r = q \/ r = target[q] THEN "code" ELSE pc[r]
    BY <1>2, Sets
  <2>2. r = q \/ r = target[q] => pc[r] \in {"start", "created"}
    BY <1>1
  <2>. QED
    BY <2>1, <2>2 DEF SameLife, Returned, Live
<1>9. Quiet
  BY <1>1, <1>3, <1>4 DEF Quiet
<1>. QED
  BY <1>9, QuietChannels

\* The error was none: control continues after the block.
LEMMA ContinueChannels ==
    ASSUME IInv, Channels, Reports, NEW q \in Procs, pc[q] = "readErr", Goto(q, "code"),
           UNCHANGED <<tasks, pidOf, ch, closed, outcome>>
    PROVE  Channels' /\ Reports'
<1>1. \A s \in Procs : pc'[s] = IF s = q THEN "code" ELSE pc[s]
  BY DEF Goto, IInv, TypeOK
<1>2. \A s \in Procs : pc'[s] = "readErr" /\ ch'[s] # NoRun => ch'[s] \in closed
  BY <1>1 DEF Channels
<1>9. Quiet
  BY <1>1, <1>2, Sets DEF Quiet, SameLife, Returned, Live
<1>. QED
  BY <1>9, QuietChannels

LEMMA BlockChannels ==
    ASSUME IInv, Channels, Reports, NEW q \in Procs,
           WaitEnds(q) \/ \E p \in 1 .. nextPid : Block(q, p)
    PROVE  Channels' /\ Reports'
<1>1. /\ pc[q] \in {"code", "wait"}
      /\ \A s \in Procs \ {q} : pc'[s] = pc[s] /\ ch'[s] = ch[s]
      /\ pc'[q] \in {"wait", "readErr"}
      /\ pc'[q] = "readErr" => ch'[q] \in closed \cup {NoRun}
      /\ UNCHANGED <<tasks, pidOf, closed, outcome>>
  <2>1. CASE WaitEnds(q)
    BY <2>1 DEF WaitEnds, Goto, IInv, TypeOK
  <2>2. ASSUME NEW p \in 1 .. nextPid, Block(q, p)
        PROVE  <1>1!:
    BY <2>2 DEF Block, Goto, IInv, TypeOK
  <2>. QED
    BY <2>1, <2>2
<1>2. \A s \in Procs : pc'[s] = "readErr" /\ ch'[s] # NoRun => ch'[s] \in closed
  BY <1>1 DEF Channels
<1>9. Quiet
  BY <1>1, <1>2, Sets DEF Quiet, SameLife, Returned, Live
<1>. QED
  BY <1>9, QuietChannels

LEMMA EpilogueChannels ==
    ASSUME IInv, Channels, Reports, NEW r \in Runs, ReclaimTask(r) \/ SetIdle(r) \/ Close(r)
    PROVE  /\ Channels' /\ Reports'
           /\ Close(r) => alive'
<1>0. r \in Procs /\ r # Main
  BY Sets
<1>1. CASE ReclaimTask(r) \/ SetIdle(r)
  <2>1. /\ pc[r] \in {"reclaim", "idle"}
        /\ \A s \in Procs : pc'[s] = IF s = r THEN pc'[r] ELSE pc[s]
        /\ pc'[r] \in {"idle", "close"}
        /\ UNCHANGED <<pidOf, ch, closed, outcome>>
    BY <1>0, <1>1 DEF ReclaimTask, SetIdle, Goto, IInv, TypeOK
  <2>2. \A p \in Pids : /\ tasks'[p].doneCh = tasks[p].doneCh
                        /\ tasks'[p].err = tasks[p].err
    BY <1>1 DEF ReclaimTask, SetIdle, IInv, TypeOK
  <2>3. \A s \in Procs : pc'[s] = "readErr" /\ ch'[s] # NoRun => ch'[s] \in closed
    BY <2>1 DEF Channels
  <2>4. ~Close(r)
    BY <2>1 DEF Close
  <2>5. Quiet
    BY <2>1, <2>2, <2>3, Sets DEF Quiet, SameLife, Returned, Live
  <2>. QED
    BY <2>4, <2>5, QuietChannels
<1>2. CASE Close(r)
  <2>1. /\ pc[r] = "close" /\ tasks[pidOf[r]].doneCh = r /\ r \notin closed
    BY <1>2 DEF Close, Channels, Live
  <2>2. /\ closed' = closed \cup {r} /\ alive'
        /\ \A s \in Procs : pc'[s] = IF s = r THEN "finished" ELSE pc[s]
        /\ UNCHANGED <<tasks, pidOf, ch, outcome>>
    BY <1>0, <1>2, <2>1 DEF Close, Goto, IInv, TypeOK
  <2>3. \A p \in Pids : tasks[p].doneCh # NoRun => tasks[p].doneCh \in Runs
    BY DEF IInv, TypeOK, Procs, Main, NoRun
  <2>4. Channels'
    <3>1. \A s \in Runs : Live(s)' => tasks'[pidOf'[s]].doneCh = s
      BY <2>1, <2>2, Sets DEF Channels, Live
    <3>2. \A c \in closed' : c \in Runs /\ pc'[c] = "finished"
      BY <2>2, Sets DEF Channels
    <3>3. \A p \in Pids : tasks'[p].doneCh # NoRun =>
             pidOf'[tasks'[p].doneCh] = p /\ pc'[tasks'[p].doneCh] # "absent"
      BY <2>2, <2>3, Sets DEF Channels
    <3>4. \A s \in Procs : pc'[s] = "readErr" /\ ch'[s] # NoRun => ch'[s] \in closed'
      BY <2>2 DEF Channels
    <3>. QED
      BY <3>1, <3>2, <3>3, <3>4 DEF Channels
  <2>5. Reports'
    BY <2>1, <2>2, <2>3, Sets DEF Reports
  <2>. QED
    BY <2>2, <2>4, <2>5
<1>. QED
  BY <1>1, <1>2

Careful == IInv /\ Channels /\ Reports /\ NoPanic

LEMMA NextCareful == ~Hasty /\ Careful /\ [Next]_vars => Careful'
<1>. SUFFICES ASSUME ~Hasty, Careful, [Next]_vars
              PROVE  Careful'
  OBVIOUS
<1>. USE DEF Careful
<1>0. IInv'
  BY NextIInv
<1>1. CASE UNCHANGED vars
  <2>1. Channels' /\ Reports'
    BY <1>1 DEF vars, Channels, Reports, Live
  <2>. QED
    BY <1>0, <1>1, <2>1 DEF vars, NoPanic
<1>2. ASSUME NEW q \in Procs, RuntimeStep(q), alive
      PROVE  Channels' /\ Reports' /\ NoPanic'
  <2>1. CASE Start(q)
    BY <1>2, <2>1, StartChannels DEF Start, NoPanic
  <2>2. CASE WaitEnds(q)
    BY <1>2, <2>2, BlockChannels DEF WaitEnds, NoPanic
  <2>3. CASE ReadErr(q)
    <3>1. CASE Return(q, q)
      <4>1. Channels' /\ Reports'
        BY <2>3, <3>1, ReturnChannels DEF ReadErr
      <4>2. NoPanic'
        BY <3>1, Sets DEF Return, Goto, NoPanic, IInv, TypeOK
      <4>. QED
        BY <4>1, <4>2
    <3>2. CASE Goto(q, "code") /\ UNCHANGED <<tasks, outcome, alive>>
      <4>1. Channels' /\ Reports'
        BY <2>3, <3>2, ContinueChannels DEF ReadErr
      <4>. QED
        BY <1>2, <3>2, <4>1 DEF NoPanic
    <3>. QED
      BY <2>3, <3>1, <3>2 DEF ReadErr
  <2>. QED
    BY <1>2, <2>1, <2>2, <2>3 DEF RuntimeStep
<1>3. ASSUME NEW q \in Procs, ProgramStep(q), alive
      PROVE  Channels' /\ Reports' /\ NoPanic'
  <2>1. CASE Spawn(q)
    <3>1. UNCHANGED <<tasks, pidOf, pc, ch, closed, outcome, alive>>
      BY <2>1 DEF Spawn
    <3>2. Channels' /\ Reports'
      BY <3>1 DEF Channels, Reports, Live
    <3>. QED
      BY <1>3, <3>1, <3>2 DEF NoPanic
  <2>2. ASSUME NEW p \in 1 .. nextPid, MergeRefused(q, p)
        PROVE  Channels' /\ Reports' /\ NoPanic'
    <3>1. Channels' /\ Reports'
      BY <2>2, ReturnChannels DEF MergeRefused
    <3>2. NoPanic'
      BY <2>2, Sets DEF MergeRefused, Return, Goto, NoPanic, IInv, TypeOK
    <3>. QED
      BY <3>1, <3>2
  <2>3. ASSUME NEW p \in 1 .. nextPid, MergeAccepted(q, p)
        PROVE  Channels' /\ Reports' /\ NoPanic'
    BY <1>3, <2>3, MergeChannels DEF MergeAccepted, NoPanic
  <2>4. ASSUME NEW p \in 1 .. nextPid, Block(q, p)
        PROVE  Channels' /\ Reports' /\ NoPanic'
    BY <1>3, <2>4, BlockChannels DEF Block, NoPanic
  <2>. QED
    BY <1>3, <2>1, <2>2, <2>3, <2>4 DEF ProgramStep
<1>4. ASSUME NEW r \in Runs, RunStep(r), alive
      PROVE  Channels' /\ Reports' /\ NoPanic'
  <2>0. r \in Procs /\ r # Main /\ NoRun \in Procs
    BY Sets
  <2>1. CASE Finish(r)
    <3>1. PICK e \in {NoRun, r} : Return(r, e)
      BY <2>1 DEF Finish
    <3>2. e \in Procs
      BY <2>0
    <3>3. Channels' /\ Reports'
      BY <2>0, <2>1, <3>1, <3>2, ReturnChannels DEF Finish
    <3>4. NoPanic'
      BY <2>0, <3>1 DEF Return, NoPanic
    <3>. QED
      BY <3>3, <3>4
  <2>2. CASE ReclaimTask(r) \/ SetIdle(r) \/ Close(r)
    <3>1. Channels' /\ Reports' /\ (Close(r) => alive')
      BY <2>2, EpilogueChannels
    <3>2. alive'
      BY <1>4, <2>2, <3>1 DEF ReclaimTask, SetIdle
    <3>. QED
      BY <3>1, <3>2 DEF NoPanic
  <2>. QED
    BY <1>4, <2>1, <2>2 DEF RunStep
<1>. QED
  BY <1>0, <1>1, <1>2, <1>3, <1>4 DEF Next

LEMMA InitCareful == Init => Careful
BY InitIInv, InitChannels DEF Careful, Init, NoPanic

\* A program that merges a thread again only once its channel is closed never
\* makes the interpreter close a channel twice: no goroutine panics.
THEOREM CarefulNeverPanics ==
    ASSUME ~Hasty
    PROVE  Spec => []NoPanic
<1>1. Careful => NoPanic
  BY DEF Careful
<1>2. Careful /\ [Next]_vars => Careful'
  BY NextCareful
<1>. QED
  BY InitCareful, <1>1, <1>2, PTL DEF Spec

\* For such a program, taskm.block goes on only when the run it waited for has
\* been reclaimed and is over.
THEOREM CarefulBlocks ==
    ASSUME ~Hasty
    PROVE  Spec => BlockAfterReclaim
<1>1. Careful /\ [Next]_vars =>
        [\A q \in Procs : pc[q] = "wait" /\ pc'[q] # "wait" =>
             ch[q] \notin held /\ ~Occupies(ch[q])]_vars
  <2>. SUFFICES ASSUME Careful, Next, NEW q \in Procs, pc[q] = "wait", pc'[q] # "wait"
                PROVE  ch[q] \notin held /\ ~Occupies(ch[q])
    OBVIOUS
  <2>0. PICK s \in Procs : RuntimeStep(s) \/ ProgramStep(s) \/ (s \in Runs /\ RunStep(s))
    BY Sets DEF Next
  \* Nobody but q ends its wait, and q does by WaitEnds.
  <2>1. ch[q] \in closed
    <3>1. CASE s = q
      BY <2>0, <3>1 DEF RuntimeStep, ProgramStep, RunStep, Start, WaitEnds, ReadErr, Spawn,
         MergeRefused, MergeAccepted, Block, Finish, ReclaimTask, SetIdle, Close
    <3>2. CASE s # q
      <4>1. CASE Start(s)
        <5>1. target[s] # q /\ pc' = [pc EXCEPT ![s] = "code", ![target[s]] = "code"]
          BY <4>1 DEF Start, Careful, IInv, Stages
        <5>. QED
          BY <3>2, <5>1 DEF Careful, IInv, TypeOK
      <4>2. ASSUME NEW p \in 1 .. nextPid, MergeAccepted(s, p)
            PROVE  FALSE
        <5>1. nextRun + 1 \in Runs /\ pc[nextRun + 1] = "absent"
          BY <4>2, BoundsAssumption DEF MergeAccepted, Careful, IInv, TypeOK, Stages, Runs
        <5>2. nextRun + 1 # q
          BY <5>1
        <5>. QED
          BY <3>2, <4>2, <5>2 DEF MergeAccepted, Careful, IInv, TypeOK
      <4>3. CASE \/ WaitEnds(s) \/ ReadErr(s) \/ Spawn(s)
                 \/ \E p \in 1 .. nextPid : MergeRefused(s, p) \/ Block(s, p)
                 \/ Finish(s) \/ ReclaimTask(s) \/ SetIdle(s) \/ Close(s)
        <5>1. pc' = pc \/ \E l : pc' = [pc EXCEPT ![s] = l]
          BY <4>3 DEF WaitEnds, ReadErr, Spawn, MergeRefused, Block, Finish, ReclaimTask,
             SetIdle, Close, Return, Goto
        <5>. QED
          BY <3>2, <5>1 DEF Careful, IInv, TypeOK
      <4>. QED
        BY <2>0, <4>1, <4>2, <4>3 DEF RuntimeStep, ProgramStep, RunStep
    <3>. QED
      BY <3>1, <3>2
  <2>2. ch[q] \in Runs /\ pc[ch[q]] = "finished"
    BY <2>1 DEF Careful, Channels
  <2>. QED
    BY <2>2 DEF Careful, IInv, Stages, Occupies
<1>2. Careful /\ [Next]_vars => Careful'
  BY NextCareful
<1>. QED
  BY InitCareful, <1>1, <1>2, PTL DEF Spec, BlockAfterReclaim

\* And what it reports is how that run ended.
THEOREM CarefulReports ==
    ASSUME ~Hasty
    PROVE  Spec => []BlockReportsRun
<1>1. Careful => BlockReportsRun
  <2>. SUFFICES ASSUME Careful, NEW q \in Procs, pc[q] = "readErr", ch[q] # NoRun,
                       tasks[target[q]].doneCh = ch[q]
                PROVE  tasks[target[q]].err = outcome[ch[q]]
    BY DEF BlockReportsRun
  <2>1. pc[ch[q]] = "finished" /\ target[q] \in Pids
    BY DEF Careful, IInv, Stages, Channels
  <2>. QED
    BY <2>1 DEF Careful, Reports
<1>2. Careful /\ [Next]_vars => Careful'
  BY NextCareful
<1>. QED
  BY InitCareful, <1>1, <1>2, PTL DEF Spec

-----------------------------------------------------------------------------
(* The service taskm promises.                                              *)

\* The channel a busy thread shows is that of the run that occupies it, however
\* hasty the program.
Current == \A r \in Runs : Occupies(r) => tasks[pidOf[r]].doneCh = r
SInv == IInv /\ Current

\* Places in a run that look the same to the service.
Inside == {"start", "code", "wait", "readErr", "reclaim"}
Alike(l, k) == \/ l = k
               \/ l \in Inside /\ k \in Inside
               \/ l \in {"close", "finished"} /\ k \in {"close", "finished"}

\* The run that occupies a busy thread is found through the thread's channel.
LEMMA Occupant ==
    ASSUME SInv, NEW p \in Pids, tasks[p].Busy
    PROVE  /\ tasks[p].doneCh \in Runs
           /\ Occupies(tasks[p].doneCh)
           /\ pidOf[tasks[p].doneCh] = p
<1>1. PICK r \in Runs : pidOf[r] = p /\ Occupies(r)
  BY DEF SInv, IInv, OneRunPerThread
<1>2. tasks[p].doneCh = r
  BY <1>1 DEF SInv, Current
<1>. QED
  BY <1>1, <1>2

\* A thread whose run moves between places that look the same does not change.
LEMMA StageKept ==
    ASSUME SInv, NEW p \in Pids, tasks'[p].Busy = tasks[p].Busy,
           tasks'[p].doneCh = tasks[p].doneCh,
           tasks[p].Busy => Alike(pc[tasks[p].doneCh], pc'[tasks[p].doneCh])
    PROVE  StageOf(p)' = StageOf(p)
<1>1. CASE ~tasks[p].Busy
  BY <1>1 DEF StageOf
<1>2. CASE tasks[p].Busy
  <2>. DEFINE r == tasks[p].doneCh
  <2>1. Alike(pc[r], pc'[r]) /\ pc[r] \notin {"absent", "close", "finished"}
    BY <1>2, Occupant DEF Occupies
  <2>2. (pc[r] = "created" <=> pc'[r] = "created") /\ (pc[r] = "idle" <=> pc'[r] = "idle")
    BY <2>1 DEF Alike, Inside
  <2>. QED
    BY <1>2, <2>2 DEF StageOf
<1>. QED
  BY <1>1, <1>2

\* A step that moves runs between such places only, whatever it does to errors
\* and channels, is none of the service's.
LEMMA AlikeStutters ==
    ASSUME SInv, \A r \in Runs : Alike(pc[r], pc'[r]),
           \A p \in Pids : /\ tasks'[p].Busy = tasks[p].Busy
                           /\ tasks'[p].doneCh = tasks[p].doneCh,
           UNCHANGED <<nextPid, pidOf, held>>
    PROVE  Current' /\ UNCHANGED Service!serviceVars
<1>1. Current'
  <2>1. \A r \in Runs : Occupies(r)' => Occupies(r)
    BY DEF Occupies, Alike, Inside
  <2>2. \A r \in Runs : Occupies(r) => pidOf[r] \in Pids
    BY DEF Occupies, SInv, IInv, Stages
  <2>. QED
    BY <2>1, <2>2 DEF SInv, Current
<1>2. \A p \in Pids : StageOf(p)' = StageOf(p)
  BY Occupant, StageKept
<1>3. Stage' = Stage
  BY <1>2 DEF Stage
<1>4. Job' = Job
  BY DEF Job
<1>5. Called' = Called
  BY DEF Called, Alike, Inside
<1>6. Spawned' = Spawned /\ Holding' = Holding
  BY DEF Spawned, Holding
<1>. QED
  BY <1>1, <1>3, <1>4, <1>5, <1>6 DEF Service!serviceVars

\* The end of a function, for whatever reason, is not yet the end of the job.
LEMMA ReturnStutters ==
    ASSUME SInv, NEW q \in Procs, NEW e \in Procs, pc[q] \in {"code", "readErr"},
           Return(q, e), UNCHANGED <<nextPid, pidOf, held>>
    PROVE  Current' /\ UNCHANGED Service!serviceVars
<1>1. \A r \in Runs : Alike(pc[r], pc'[r])
  <2>1. \A r \in Runs : pc'[r] = IF r = q THEN "reclaim" ELSE pc[r]
    BY Sets DEF Return, Goto, SInv, IInv, TypeOK
  <2>. QED
    BY <2>1 DEF Alike, Inside
<1>2. \A p \in Pids : tasks'[p].Busy = tasks[p].Busy /\ tasks'[p].doneCh = tasks[p].doneCh
  BY DEF Return, SInv, IInv, TypeOK
<1>. QED
  BY <1>1, <1>2, AlikeStutters

LEMMA SpawnServes ==
    ASSUME SInv, NEW q \in Procs, Spawn(q)
    PROVE  Current' /\ Service!Next
<1>. DEFINE n == nextPid + 1
<1>1. n \in Pids /\ n \notin Spawned /\ Spawned' = Spawned \cup {n}
  BY BoundsAssumption DEF Spawn, SInv, IInv, TypeOK, Pids, Spawned
<1>2. UNCHANGED <<tasks, pc, pidOf, held>>
  BY DEF Spawn
<1>3. UNCHANGED <<Stage, Job, Called, Holding>>
  BY <1>2 DEF Stage, StageOf, Job, Called, Holding
<1>4. Service!Spawn(n)
  BY <1>1, <1>3 DEF Service!Spawn
<1>5. Current'
  BY <1>2 DEF SInv, Current, Occupies
<1>. QED
  BY <1>1, <1>4, <1>5 DEF Service!Next

LEMMA MergeServes ==
    ASSUME SInv, NEW q \in Procs, NEW p \in 1 .. nextPid, MergeAccepted(q, p)
    PROVE  Current' /\ Service!Next
<1>. DEFINE n == nextRun + 1
<1>1. /\ p \in Pids /\ p \in Spawned /\ n \in Runs /\ pc[n] = "absent" /\ q # n
      /\ pc[q] = "code" /\ ~tasks[p].Busy
  BY BoundsAssumption DEF MergeAccepted, SInv, IInv, TypeOK, Stages, Pids, Runs, Spawned
<1>2. /\ \A x \in Pids : /\ tasks'[x].Busy = IF x = p THEN TRUE ELSE tasks[x].Busy
                         /\ tasks'[x].doneCh = IF x = p THEN n ELSE tasks[x].doneCh
      /\ \A r \in Runs : pidOf'[r] = IF r = n THEN p ELSE pidOf[r]
      /\ \A r \in Runs : pc'[r] = IF r = n THEN "created" ELSE IF r = q THEN "start" ELSE pc[r]
      /\ UNCHANGED <<nextPid, held>>
  BY <1>1, Sets DEF MergeAccepted, SInv, IInv, TypeOK
<1>. HIDE DEF n
<1>3. Current'
  <2>1. \A r \in Runs : Occupies(r)' => Occupies(r) \/ r = n
    BY <1>1, <1>2 DEF Occupies
  <2>2. \A r \in Runs : Occupies(r) => pidOf[r] \in Pids /\ pidOf[r] # p
    BY <1>1 DEF Occupies, SInv, IInv, Stages, OneRunPerThread
  <2>3. ASSUME NEW r \in Runs, Occupies(r)'
        PROVE  tasks'[pidOf'[r]].doneCh = r
    <3>1. CASE r = n
      BY <1>1, <1>2, <3>1
    <3>2. CASE r # n
      <4>1. pidOf[r] \in Pids \ {p} /\ tasks[pidOf[r]].doneCh = r
        BY <2>1, <2>2, <2>3, <3>2 DEF SInv, Current
      <4>. QED
        BY <1>2, <3>2, <4>1
    <3>. QED
      BY <3>1, <3>2
  <2>. QED
    BY <2>3 DEF Current
<1>4. Stage' = [Stage EXCEPT ![p] = "merged"]
  <2>1. StageOf(p)' = "merged"
    BY <1>1, <1>2 DEF StageOf
  <2>2. ASSUME NEW x \in Pids, x # p
        PROVE  StageOf(x)' = StageOf(x)
    <3>1. tasks[x].Busy => tasks[x].doneCh \in Runs \ {n}
      BY <1>1, Occupant DEF Occupies
    <3>2. tasks[x].Busy => Alike(pc[tasks[x].doneCh], pc'[tasks[x].doneCh])
      BY <1>1, <1>2, <3>1 DEF Alike, Inside
    <3>. QED
      BY <1>2, <2>2, <3>2, StageKept
  <2>. QED
    BY <1>1, <2>1, <2>2 DEF Stage
<1>5. Job' = [Job EXCEPT ![p] = n]
  BY <1>1, <1>2 DEF Job
<1>6. Called' = Called /\ n \notin Called
  BY <1>1, <1>2 DEF Called
<1>7. \A r \in held : r # n
  BY <1>1 DEF SInv, IInv, Stages
<1>8. Holding' = Holding /\ Spawned' = Spawned
  BY <1>2, <1>7 DEF Holding, Spawned, SInv, IInv, TypeOK
<1>9. Stage[p] = "idle"
  BY <1>1 DEF Stage, StageOf
<1>10. ASSUME NEW x \in Pids, Stage[x] # "idle"
       PROVE  Job[x] # n
  <2>1. tasks[x].Busy
    BY <1>10 DEF Stage, StageOf
  <2>. QED
    BY <1>1, <2>1, Occupant DEF Job, Occupies
<1>11. Service!Merge(p, n)
  BY <1>1, <1>4, <1>5, <1>6, <1>8, <1>9, <1>10 DEF Service!Merge
<1>. QED
  BY <1>1, <1>3, <1>11 DEF Service!Next

\* The goroutine of the run is let go, its memory block registered before.
LEMMA StartServes ==
    ASSUME SInv, NEW q \in Procs, Start(q)
    PROVE  Current' /\ Service!Next
<1>1. PICK n \in Runs : n = target[q] /\ pc[n] = "created" /\ pc[q] = "start" /\ q # n
  BY DEF Start, SInv, IInv, Stages
<1>2. PICK p \in Pids : p = pidOf[n] /\ tasks[p].doneCh = n /\ tasks[p].Busy
  BY <1>1 DEF SInv, IInv, Stages, OneRunPerThread, Current, Occupies
<1>3. /\ \A r \in Runs : pc'[r] = IF r \in {q, n} THEN "code" ELSE pc[r]
      /\ held' = held \cup {n}
      /\ UNCHANGED <<tasks, pidOf, nextPid>>
  BY <1>1, Sets DEF Start, SInv, IInv, TypeOK
<1>4. Current'
  <2>1. \A r \in Runs : Occupies(r)' => Occupies(r)
    BY <1>1, <1>3 DEF Occupies
  <2>. QED
    BY <1>3, <2>1 DEF SInv, Current
<1>5. Stage' = [Stage EXCEPT ![p] = "running"] /\ Stage[p] = "merged"
  <2>1. StageOf(p)' = "running" /\ StageOf(p) = "merged"
    BY <1>1, <1>2, <1>3 DEF StageOf
  <2>2. ASSUME NEW x \in Pids, x # p
        PROVE  StageOf(x)' = StageOf(x)
    <3>1. tasks[x].Busy => tasks[x].doneCh \in Runs \ {n}
      BY <1>2, <2>2, Occupant
    <3>2. tasks[x].Busy => Alike(pc[tasks[x].doneCh], pc'[tasks[x].doneCh])
      BY <1>1, <1>3, <3>1 DEF Alike, Inside
    <3>. QED
      BY <1>3, <3>2, StageKept
  <2>. QED
    BY <1>2, <2>1, <2>2 DEF Stage
<1>6. Job' = Job /\ Spawned' = Spawned /\ Job[p] = n
  BY <1>2, <1>3 DEF Job, Spawned
<1>7. Called' = Called \cup {n} /\ n \notin Called
  BY <1>1, <1>3 DEF Called
<1>8. Holding' = Holding \cup {p}
  BY <1>2, <1>3 DEF Holding
<1>9. Service!Begin(p)
  BY <1>5, <1>6, <1>7, <1>8 DEF Service!Begin
<1>. QED
  BY <1>2, <1>4, <1>9 DEF Service!Next

\* mem.ReclaimTask ends the job; Busy, once down, lets the next one come.
LEMMA EpilogueServes ==
    ASSUME SInv, NEW r \in Runs, ReclaimTask(r) \/ SetIdle(r)
    PROVE  Current' /\ Service!Next
<1>0. pc[r] \in {"reclaim", "idle"} /\ Occupies(r)
  BY DEF ReclaimTask, SetIdle, Occupies
<1>1. PICK p \in Pids : p = pidOf[r] /\ tasks[p].doneCh = r /\ tasks[p].Busy
  BY <1>0 DEF SInv, IInv, Stages, OneRunPerThread, Current, Occupies
<1>2. /\ \A s \in Runs : pc'[s] = IF s = r THEN pc'[r] ELSE pc[s]
      /\ pc'[r] = IF pc[r] = "reclaim" THEN "idle" ELSE "close"
      /\ UNCHANGED <<nextPid, pidOf>>
  BY Sets DEF ReclaimTask, SetIdle, Goto, SInv, IInv, TypeOK
<1>3. /\ \A x \in Pids \ {p} : tasks'[x].Busy = tasks[x].Busy
      /\ \A x \in Pids : tasks'[x].doneCh = tasks[x].doneCh
  BY <1>1 DEF ReclaimTask, SetIdle, SInv, IInv, TypeOK
<1>4. Current'
  <2>1. \A s \in Runs : Occupies(s)' => Occupies(s) /\ pidOf[s] \in Pids
    BY <1>0, <1>2 DEF Occupies, SInv, IInv, Stages
  <2>. QED
    BY <1>2, <1>3, <2>1 DEF SInv, Current
<1>5. ASSUME NEW x \in Pids, x # p
      PROVE  StageOf(x)' = StageOf(x)
  <2>1. tasks[x].Busy => tasks[x].doneCh \in Runs \ {r}
    BY <1>1, <1>5, Occupant
  <2>2. tasks[x].Busy => Alike(pc[tasks[x].doneCh], pc'[tasks[x].doneCh])
    BY <1>2, <2>1 DEF Alike
  <2>. QED
    BY <1>3, <1>5, <2>2, StageKept
<1>6. UNCHANGED <<Spawned, Job, Called>>
  BY <1>0, <1>2, <1>3 DEF Spawned, Job, Called
<1>7. CASE ReclaimTask(r)
  <2>1. pc[r] = "reclaim" /\ tasks' = tasks /\ held' = {x \in held : pidOf[x] # p}
    BY <1>1, <1>7 DEF ReclaimTask
  <2>2. StageOf(p) = "running" /\ StageOf(p)' = "over"
    BY <1>1, <1>2, <2>1 DEF StageOf
  <2>3. Holding' = Holding \ {p}
    BY <1>2, <2>1 DEF Holding
  <2>4. Stage' = [Stage EXCEPT ![p] = "over"] /\ Stage[p] = "running"
    BY <1>1, <1>5, <2>2 DEF Stage
  <2>5. Service!End(p)
    BY <1>6, <2>3, <2>4 DEF Service!End
  <2>. QED
    BY <1>1, <1>4, <2>5 DEF Service!Next
<1>8. CASE SetIdle(r)
  <2>1. pc[r] = "idle" /\ tasks' = [tasks EXCEPT ![p].Busy = FALSE] /\ held' = held
    BY <1>1, <1>8 DEF SetIdle
  <2>2. ~tasks'[p].Busy
    BY <1>1, <2>1 DEF SInv, IInv, TypeOK
  <2>3. StageOf(p) = "over" /\ StageOf(p)' = "idle"
    BY <1>1, <2>1, <2>2 DEF StageOf
  <2>4. Holding' = Holding
    BY <1>2, <2>1 DEF Holding
  <2>5. Stage' = [Stage EXCEPT ![p] = "idle"] /\ Stage[p] = "over"
    BY <1>1, <1>5, <2>3 DEF Stage
  <2>6. Service!BecomeIdle(p)
    BY <1>6, <2>4, <2>5 DEF Service!BecomeIdle
  <2>. QED
    BY <1>1, <1>4, <2>6 DEF Service!Next
<1>. QED
  BY <1>7, <1>8

\* The steps of block, and the close at the end: nothing the service shows.
LEMMA WaitingStutters ==
    ASSUME SInv, NEW q \in Procs,
           \/ WaitEnds(q) \/ \E p \in 1 .. nextPid : Block(q, p)
           \/ pc[q] = "readErr" /\ Goto(q, "code") /\ UNCHANGED <<nextPid, pidOf, held, tasks>>
           \/ Close(q)
    PROVE  Current' /\ UNCHANGED Service!serviceVars
<1>1. /\ Alike(pc[q], pc'[q])
      /\ \A s \in Procs : s # q => pc'[s] = pc[s]
      /\ UNCHANGED <<nextPid, pidOf, held, tasks>>
  <2>1. ASSUME NEW p \in 1 .. nextPid, Block(q, p)
        PROVE  <1>1!:
    BY <2>1 DEF Block, Goto, Alike, Inside, SInv, IInv, TypeOK
  <2>2. CASE WaitEnds(q)
    BY <2>2 DEF WaitEnds, Goto, Alike, Inside, SInv, IInv, TypeOK
  <2>3. CASE pc[q] = "readErr" /\ Goto(q, "code") /\ UNCHANGED <<nextPid, pidOf, held, tasks>>
    BY <2>3 DEF Goto, Alike, Inside, SInv, IInv, TypeOK
  <2>4. CASE Close(q)
    BY <2>4 DEF Close, Goto, Alike, Inside, SInv, IInv, TypeOK
  <2>. QED
    BY <2>1, <2>2, <2>3, <2>4
<1>2. \A r \in Runs : Alike(pc[r], pc'[r])
  BY <1>1, Sets DEF Alike
<1>. QED
  BY <1>1, <1>2, AlikeStutters

LEMMA NextServes ==
    ASSUME SInv, [Next]_vars
    PROVE  Current' /\ [Service!Next]_(Service!serviceVars)
<1>. DEFINE Serves == Current' /\ [Service!Next]_(Service!serviceVars)
<1>1. CASE UNCHANGED vars
  <2>1. \A r \in Runs : Alike(pc[r], pc'[r])
    BY <1>1 DEF vars, Alike
  <2>. QED
    BY <1>1, <2>1, AlikeStutters DEF vars
<1>2. ASSUME NEW q \in Procs, RuntimeStep(q)
      PROVE  Serves
  <2>1. CASE Start(q) \/ WaitEnds(q)
    BY <2>1, StartServes, WaitingStutters
  <2>2. CASE ReadErr(q)
    <3>1. pc[q] = "readErr" /\ UNCHANGED <<nextPid, pidOf, held>>
      BY <2>2 DEF ReadErr
    <3>2. CASE Return(q, q)
      BY <3>1, <3>2, ReturnStutters
    <3>3. CASE Goto(q, "code") /\ UNCHANGED tasks
      BY <3>1, <3>3, WaitingStutters
    <3>. QED
      BY <2>2, <3>2, <3>3 DEF ReadErr
  <2>. QED
    BY <1>2, <2>1, <2>2 DEF RuntimeStep
<1>3. ASSUME NEW q \in Procs, ProgramStep(q)
      PROVE  Serves
  <2>1. CASE Spawn(q)
    BY <2>1, SpawnServes
  <2>2. ASSUME NEW p \in 1 .. nextPid, MergeRefused(q, p)
        PROVE  Serves
    BY <2>2, ReturnStutters DEF MergeRefused
  <2>3. ASSUME NEW p \in 1 .. nextPid, MergeAccepted(q, p)
        PROVE  Serves
    BY <2>3, MergeServes
  <2>4. ASSUME NEW p \in 1 .. nextPid, Block(q, p)
        PROVE  Serves
    BY <2>4, WaitingStutters
  <2>. QED
    BY <1>3, <2>1, <2>2, <2>3, <2>4 DEF ProgramStep
<1>4. ASSUME NEW r \in Runs, RunStep(r)
      PROVE  Serves
  <2>0. r \in Procs /\ NoRun \in Procs
    BY Sets
  <2>1. CASE Finish(r)
    BY <2>0, <2>1, ReturnStutters DEF Finish
  <2>2. CASE ReclaimTask(r) \/ SetIdle(r)
    BY <2>2, EpilogueServes
  <2>3. CASE Close(r)
    BY <2>0, <2>3, WaitingStutters
  <2>. QED
    BY <1>4, <2>1, <2>2, <2>3 DEF RunStep
<1>. QED
  BY <1>1, <1>2, <1>3, <1>4 DEF Next

\* The interpreter's threads do what taskm promises, for any program: each step
\* of Spec is one step of the service on one thread, or none.
THEOREM ServiceImplemented == Spec => ImplementsService
<1>1. Init => Current /\ Service!Init
  <2>. SUFFICES ASSUME Init
                PROVE  Current /\ Service!Init
    OBVIOUS
  <2>1. /\ \A r \in Runs : pc[r] = "absent"
        /\ \A p \in Pids : ~tasks[p].Busy /\ tasks[p].doneCh = 0
        /\ nextPid = 0 /\ held = {}
    BY Sets DEF Init, NoRun
  <2>2. Current
    BY <2>1 DEF Current, Occupies
  <2>3. Spawned = {} /\ Called = {} /\ Holding = {}
    BY <2>1 DEF Spawned, Called, Holding
  <2>4. Stage = [p \in Pids |-> "idle"] /\ Job = [p \in Pids |-> 0]
    BY <2>1 DEF Stage, StageOf, Job
  <2>. QED
    BY <2>2, <2>3, <2>4 DEF Service!Init
<1>2. SInv /\ [Next]_vars => SInv' /\ [Service!Next]_(Service!serviceVars)
  BY NextIInv, NextServes DEF SInv
<1>3. Init => SInv
  BY InitIInv, <1>1 DEF SInv
<1>. QED
  BY <1>1, <1>2, <1>3, PTL DEF Spec, ImplementsService, Service!Spec
=============================================================================

----------------------------- MODULE TaskThreads -----------------------------
(***************************************************************************)
(* The interpreter's threads (internal/lang/eval.go): taskm.spawn, merge   *)
(* and block, and the goroutine that runs a merged function.               *)
(*                                                                         *)
(* A process is the main goroutine or the goroutine of a run; runs are     *)
(* numbered as they are merged and run r makes channel r, which doneCh     *)
(* holds.  What a call does under taskMu is one step.  The memory manager  *)
(* appears only as the set of runs whose block has not been reclaimed.     *)
(***************************************************************************)
EXTENDS Naturals

CONSTANTS
    MaxPids, \* bound: threads ever spawned
    MaxRuns, \* bound: functions ever merged
    Hasty    \* the program may merge a thread again between its becoming idle
             \* and the closing of its channel

ASSUME BoundsAssumption == MaxPids \in Nat /\ MaxRuns \in Nat /\ Hasty \in BOOLEAN

Pids == 1 .. MaxPids
Runs == 1 .. MaxRuns
Main == 0
Procs == {Main} \cup Runs
NoRun == 0 \* also the channel a thread is spawned with, and the nil error

VARIABLES
    nextPid,
    tasks,    \* pid -> Task: Busy, doneCh, err (the failed run, or none)
    nextRun,
    pidOf,    \* run -> the thread it runs on
    pc,
    target,   \* process -> the run its merge made, or the thread its block is about
    ch,       \* process -> the local ch of block
    closed,   \* channels that are closed
    held,     \* runs whose memory block is not reclaimed
    outcome,  \* history: run -> what its execution returned
    alive     \* neither has main ended nor a goroutine panicked

vars == <<nextPid, tasks, nextRun, pidOf, pc, target, ch, closed, held, outcome, alive>>

Init ==
    /\ nextPid = 0
    /\ tasks = [p \in Pids |-> [Busy |-> FALSE, doneCh |-> NoRun, err |-> NoRun]]
    /\ nextRun = 0
    /\ pidOf = [r \in Runs |-> 0]
    /\ pc = [q \in Procs |-> IF q = Main THEN "code" ELSE "absent"]
    /\ target = [q \in Procs |-> 0]
    /\ ch = [q \in Procs |-> NoRun]
    /\ closed = {}
    /\ held = {}
    /\ outcome = [r \in Runs |-> NoRun]
    /\ alive = TRUE

Goto(q, l) == pc' = [pc EXCEPT ![q] = l]

-----------------------------------------------------------------------------
\* newThread, registerTask.
Spawn(q) ==
    /\ pc[q] = "code"
    /\ nextPid < MaxPids
    /\ nextPid' = nextPid + 1
    /\ UNCHANGED <<tasks, nextRun, pidOf, pc, target, ch, closed, held, outcome, alive>>

\* Return as a mutation: the thread is idle as soon as its function returned.
ReturnIdle(q, e) ==
    /\ Goto(q, IF q = Main THEN "ended" ELSE "reclaim")
    /\ alive' = (q # Main)
    /\ IF q = Main
       THEN UNCHANGED <<tasks, outcome>>
       ELSE /\ tasks' = [tasks EXCEPT ![pidOf[q]].err = e, ![pidOf[q]].Busy = FALSE]
            /\ outcome' = [outcome EXCEPT ![q] = e]

\* Return as a mutation: a success does not clear the error of an earlier run.
ReturnKeepsErr(q, e) ==
    /\ Goto(q, IF q = Main THEN "ended" ELSE "reclaim")
    /\ alive' = (q # Main)
    /\ IF q = Main
       THEN UNCHANGED <<tasks, outcome>>
       ELSE /\ tasks' = [tasks EXCEPT ![pidOf[q]].err = IF e = NoRun THEN @ ELSE e]
            /\ outcome' = [outcome EXCEPT ![q] = e]

\* The function a process runs returns: t.err = in.execute(ctx), for a run; a
\* main function that fails ends the program.
Return(q, e) ==
    /\ Goto(q, IF q = Main THEN "ended" ELSE "reclaim")
    /\ alive' = (q # Main)
    /\ IF q = Main
       THEN UNCHANGED <<tasks, outcome>>
       ELSE /\ tasks' = [tasks EXCEPT ![pidOf[q]].err = e]
            /\ outcome' = [outcome EXCEPT ![q] = e]

\* runOnThread, the part under taskMu: a busy thread is refused, which fails
\* the calling function.
MergeRefused(q, p) ==
    /\ pc[q] = "code"
    /\ tasks[p].Busy
    /\ Return(q, q)
    /\ UNCHANGED <<nextPid, nextRun, pidOf, target, ch, closed, held>>

\* MergeAccepted as a mutation: a busy thread is merged again.
MergeUnchecked(q, p) ==
    /\ pc[q] = "code"
    /\ Hasty \/ tasks[p].Busy \/ tasks[p].doneCh \in closed \cup {NoRun}
    /\ nextRun < MaxRuns
    /\ nextRun' = nextRun + 1
    /\ tasks' = [tasks EXCEPT ![p].Busy = TRUE, ![p].doneCh = nextRun + 1]
    /\ pidOf' = [pidOf EXCEPT ![nextRun + 1] = p]
    /\ pc' = [pc EXCEPT ![q] = "start", ![nextRun + 1] = "created"]
    /\ target' = [target EXCEPT ![q] = nextRun + 1]
    /\ UNCHANGED <<nextPid, ch, closed, held, outcome, alive>>

\* MergeAccepted as a mutation: a thread keeps the channel of its first run.
MergeSameChannel(q, p) ==
    /\ pc[q] = "code"
    /\ ~tasks[p].Busy
    /\ Hasty \/ tasks[p].Busy \/ tasks[p].doneCh \in closed \cup {NoRun}
    /\ nextRun < MaxRuns
    /\ nextRun' = nextRun + 1
    /\ tasks' = [tasks EXCEPT ![p].Busy = TRUE,
                              ![p].doneCh = IF @ = NoRun THEN nextRun + 1 ELSE @]
    /\ pidOf' = [pidOf EXCEPT ![nextRun + 1] = p]
    /\ pc' = [pc EXCEPT ![q] = "start", ![nextRun + 1] = "created"]
    /\ target' = [target EXCEPT ![q] = nextRun + 1]
    /\ UNCHANGED <<nextPid, ch, closed, held, outcome, alive>>

\* MergeAccepted as a mutation: the channel of the run after this one.
MergeNextChannel(q, p) ==
    /\ pc[q] = "code"
    /\ ~tasks[p].Busy
    /\ Hasty \/ tasks[p].Busy \/ tasks[p].doneCh \in closed \cup {NoRun}
    /\ nextRun < MaxRuns
    /\ nextRun' = nextRun + 1
    /\ tasks' = [tasks EXCEPT ![p].Busy = TRUE, ![p].doneCh = nextRun + 2]
    /\ pidOf' = [pidOf EXCEPT ![nextRun + 1] = p]
    /\ pc' = [pc EXCEPT ![q] = "start", ![nextRun + 1] = "created"]
    /\ target' = [target EXCEPT ![q] = nextRun + 1]
    /\ UNCHANGED <<nextPid, ch, closed, held, outcome, alive>>

MergeAccepted(q, p) ==
    /\ pc[q] = "code"
    /\ ~tasks[p].Busy
    /\ Hasty \/ tasks[p].Busy \/ tasks[p].doneCh \in closed \cup {NoRun}
    /\ nextRun < MaxRuns
    /\ nextRun' = nextRun + 1
    /\ tasks' = [tasks EXCEPT ![p].Busy = TRUE, ![p].doneCh = nextRun + 1]
    /\ pidOf' = [pidOf EXCEPT ![nextRun + 1] = p]
    /\ pc' = [pc EXCEPT ![q] = "start", ![nextRun + 1] = "created"]
    /\ target' = [target EXCEPT ![q] = nextRun + 1]
    /\ UNCHANGED <<nextPid, ch, closed, held, outcome, alive>>

\* runOnThread, the rest: the run's memory block, and its goroutine.
Start(q) ==
    /\ pc[q] = "start"
    /\ held' = held \cup {target[q]}
    /\ pc' = [pc EXCEPT ![q] = "code", ![target[q]] = "code"]
    /\ UNCHANGED <<nextPid, tasks, nextRun, pidOf, target, ch, closed, outcome, alive>>

\* The goroutine of a run, from the end of its function on.
Finish(r) ==
    /\ pc[r] = "code"
    /\ \E e \in {NoRun, r} : Return(r, e)
    /\ UNCHANGED <<nextPid, nextRun, pidOf, target, ch, closed, held>>

\* ReclaimTask as a mutation: looks for the run instead of the thread.
ReclaimOtherTask(r) ==
    /\ pc[r] = "reclaim"
    /\ held' = {x \in held : pidOf[x] # r}
    /\ Goto(r, "idle")
    /\ UNCHANGED <<nextPid, tasks, nextRun, pidOf, target, ch, closed, outcome, alive>>

ReclaimTask(r) ==
    /\ pc[r] = "reclaim"
    /\ held' = {x \in held : pidOf[x] # pidOf[r]}
    /\ Goto(r, "idle")
    /\ UNCHANGED <<nextPid, tasks, nextRun, pidOf, target, ch, closed, outcome, alive>>

SetIdle(r) ==
    /\ pc[r] = "idle"
    /\ tasks' = [tasks EXCEPT ![pidOf[r]].Busy = FALSE]
    /\ Goto(r, "close")
    /\ UNCHANGED <<nextPid, nextRun, pidOf, target, ch, closed, held, outcome, alive>>

\* close(t.doneCh), outside taskMu, on whatever channel the field holds by now.
Close(r) ==
    /\ pc[r] = "close"
    /\ LET c == tasks[pidOf[r]].doneCh IN
         /\ alive' = (c \notin closed)
         /\ closed' = closed \cup {c}
    /\ Goto(r, "finished")
    /\ UNCHANGED <<nextPid, tasks, nextRun, pidOf, target, ch, held, outcome>>

-----------------------------------------------------------------------------
\* Block as a mutation: waits for an idle thread too.
BlockAlways(q, p) ==
    /\ pc[q] = "code"
    /\ q # Main => pidOf[q] < p
    /\ target' = [target EXCEPT ![q] = p]
    /\ ch' = [ch EXCEPT ![q] = tasks[p].doneCh]
    /\ Goto(q, "wait")
    /\ UNCHANGED <<nextPid, tasks, nextRun, pidOf, closed, held, outcome, alive>>

\* taskm.block: Busy and doneCh are read under taskMu, the wait and the read of
\* the error come after it.  A function that waits for its own thread, or two
\* that wait for each other, would wait forever: waits go to later threads.
Block(q, p) ==
    /\ pc[q] = "code"
    /\ q # Main => pidOf[q] < p
    /\ target' = [target EXCEPT ![q] = p]
    /\ ch' = [ch EXCEPT ![q] = IF tasks[p].Busy THEN tasks[p].doneCh ELSE NoRun]
    /\ Goto(q, IF tasks[p].Busy THEN "wait" ELSE "readErr")
    /\ UNCHANGED <<nextPid, tasks, nextRun, pidOf, closed, held, outcome, alive>>

WaitEnds(q) ==
    /\ pc[q] = "wait"
    /\ ch[q] \in closed
    /\ Goto(q, "readErr")
    /\ UNCHANGED <<nextPid, tasks, nextRun, pidOf, target, ch, closed, held, outcome, alive>>

\* A failure of the thread's last function is the caller's too.
ReadErr(q) ==
    /\ pc[q] = "readErr"
    /\ \/ /\ tasks[target[q]].err = NoRun
          /\ Goto(q, "code")
          /\ UNCHANGED <<tasks, outcome, alive>>
       \/ /\ tasks[target[q]].err # NoRun
          /\ Return(q, q)
    /\ UNCHANGED <<nextPid, nextRun, pidOf, target, ch, closed, held>>

-----------------------------------------------------------------------------
RuntimeStep(q) == Start(q) \/ WaitEnds(q) \/ ReadErr(q)
RunStep(r) == Finish(r) \/ ReclaimTask(r) \/ SetIdle(r) \/ Close(r)
ProgramStep(q) ==
    \/ Spawn(q)
    \/ \E p \in 1 .. nextPid : MergeRefused(q, p) \/ MergeAccepted(q, p) \/ Block(q, p)

Next == /\ alive
        /\ \/ \E q \in Procs : RuntimeStep(q) \/ ProgramStep(q)
           \/ \E r \in Runs : RunStep(r)

Spec == Init /\ [][Next]_vars

\* A goroutine that can run does, and a merged function returns, be it after
\* the calls it makes.
Fairness == /\ \A q \in Procs : WF_vars(alive /\ RuntimeStep(q))
            /\ \A r \in Runs : SF_vars(alive /\ RunStep(r))

FairSpec == Spec /\ Fairness

-----------------------------------------------------------------------------
TypeOK ==
    /\ nextPid \in 0 .. MaxPids
    /\ tasks \in [Pids -> [Busy : BOOLEAN, doneCh : Procs, err : Procs]]
    /\ nextRun \in 0 .. MaxRuns
    /\ pidOf \in [Runs -> {0} \cup Pids]
    /\ pc \in [Procs -> {"absent", "created", "start", "code", "reclaim", "idle", "close",
                         "finished", "wait", "readErr", "ended"}]
    /\ target \in [Procs -> Nat]
    /\ ch \in [Procs -> Procs]
    /\ closed \subseteq Procs
    /\ held \subseteq Runs
    /\ outcome \in [Runs -> Procs]
    /\ alive \in BOOLEAN

-----------------------------------------------------------------------------
(* Properties.                                                              *)

\* Runs that occupy their thread: merged and not yet through with it.
Occupies(r) == pc[r] \notin {"absent", "close", "finished"}

\* A thread runs one function at a time, and it is busy exactly while it does:
\* two goroutines that merge on it at once do not both succeed.
OneRunPerThread ==
    /\ \A r, s \in Runs : r # s /\ Occupies(r) /\ Occupies(s) => pidOf[r] # pidOf[s]
    /\ \A p \in Pids : tasks[p].Busy <=> \E r \in Runs : pidOf[r] = p /\ Occupies(r)

\* A thread that taskm.done calls idle holds no memory block.
IdleMeansReclaimed == \A r \in held : tasks[pidOf[r]].Busy

\* A block that found the thread busy goes on only when the run it found there
\* has been reclaimed: closing the channel is the last thing that run does.
BlockAfterReclaim ==
    [][\A q \in Procs : pc[q] = "wait" /\ pc'[q] # "wait" =>
           ch[q] \notin held /\ ~Occupies(ch[q])]_vars

\* Unless the thread was merged again meanwhile, what a block that waited
\* reports is how the run it waited for ended.
BlockReportsRun ==
    \A q \in Procs : pc[q] = "readErr" /\ ch[q] # NoRun /\ tasks[target[q]].doneCh = ch[q]
                        => tasks[target[q]].err = outcome[ch[q]]

\* No goroutine closes a channel twice, which would panic and end the program.
NoPanic == ~alive => pc[Main] = "ended"

-----------------------------------------------------------------------------
(* The threads a program sees.  Those that are busy run the function that   *)
(* made their channel.                                                      *)

StageOf(p) ==
    IF ~tasks[p].Busy THEN "idle"
    ELSE IF pc[tasks[p].doneCh] = "created" THEN "merged"
    ELSE IF pc[tasks[p].doneCh] = "idle" THEN "over" ELSE "running"

Spawned == 1 .. nextPid
Stage == [p \in Pids |-> StageOf(p)]
Job == [p \in Pids |-> tasks[p].doneCh]
Called == {r \in Runs : pc[r] \notin {"absent", "created"}}
Holding == {pidOf[r] : r \in held}

Service == INSTANCE ThreadService WITH
    Jobs <- Runs, spawned <- Spawned, stage <- Stage, job <- Job,
    called <- Called, holding <- Holding

\* taskm.merge, the goroutine it starts and Busy do to a thread what the service
\* promises, whatever the program: goroutines race to merge on one thread, merge
\* again before a channel is closed, and fail in the middle.
ImplementsService == Service!Spec

-----------------------------------------------------------------------------
\* A block returns, as long as the program runs.
BlockReturns == \A q \in Procs : pc[q] = "wait" ~> (pc[q] # "wait" \/ ~alive)
=============================================================================

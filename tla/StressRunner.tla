----------------------------- MODULE StressRunner -----------------------------
(***************************************************************************)
(* The stress runner's case (runCase and verdictOf, cmd/qkstress/run.go)   *)
(* and the supervisor of each of its four child processes (runBounded,     *)
(* cmd/qkstress/probe.go): a select over the end of Wait and a poll of the *)
(* clock and of the memory of the child's process group.                   *)
(*                                                                         *)
(* The child is the environment: it ends by itself in one of Endings,      *)
(* outgrows the ceiling, survives a kill (it may be in an uninterruptible  *)
(* wait), or ends while a grandchild holds its pipes, which delays Wait.   *)
(* Time is counted in polls.  An outcome stands for exit status and output *)
(* together, as sameOutcome compares them.                                 *)
(***************************************************************************)
EXTENDS Naturals, Sequences

CONSTANTS
    Endings,   \* what a child may end with, "panic" among them
    Accepting, \* the endings with exit status 0
    Timeout,   \* the wall-clock bound, in polls
    KillGrace  \* polls from the bound to the hard deadline

\* The outcomes of a child that did not end by itself are none of its endings.
StressAssumption ==
    /\ Endings \cap {"killed", "abandoned", "not started"} = {}
    /\ Timeout \in Nat /\ KillGrace \in Nat

\* The phases in the order runCase probes them.
Phases == <<"interp.front", "interp.run", "compiler.front", "compiler.run">>
Outcomes == Endings \cup {"killed", "abandoned", "not started"}

VARIABLES
    phase,     \* index of the phase in progress
    child,     \* "none", "running", "fat", "exited" or "killed"
    ending,    \* the outcome of a child that ended
    now,       \* polls since the start of the phase
    TimedOut,
    MemCapped, \* the flags of the phase in progress
    outcome,   \* the outcomes of the phases that returned, in order
    anyTimeout,
    anyMemCap, \* the disjunctions of the flags of those phases
    Verdict

vars == <<phase, child, ending, now, TimedOut, MemCapped, outcome,
          anyTimeout, anyMemCap, Verdict>>

NoVerdict == "none"

Init ==
    /\ phase = 1
    /\ child = "none"
    /\ ending = "killed"
    /\ now = 0
    /\ TimedOut = FALSE /\ MemCapped = FALSE
    /\ outcome = <<>>
    /\ anyTimeout = FALSE /\ anyMemCap = FALSE
    /\ Verdict = NoVerdict

-----------------------------------------------------------------------------
(* verdictOf.                                                               *)

\* looksLikePanic is looked for only in the output of a child Wait answered for.
anyPanic(o) == \E p \in 1 .. 4 : o[p] = "panic"
Accepted(o, p) == o[p] \in Accepting

verdictOf(o, timeout, memcap) ==
    IF anyPanic(o) THEN "PANIC"
    ELSE IF timeout THEN "TIMEOUT"
    ELSE IF memcap THEN "MEMCAP"
    ELSE IF Accepted(o, 1) # Accepted(o, 3) THEN "ACCEPT_MISMATCH"
    ELSE IF ~Accepted(o, 1) THEN IF o[1] = o[3] THEN "REJECT_AGREE" ELSE "REJECT_DIFF"
    ELSE IF o[2] = o[4] THEN "AGREE" ELSE "DIVERGE"

-----------------------------------------------------------------------------
\* The phase ends with o and the flags given: the next one, or the verdict.
EndPhase(o, timedOut, memCapped) ==
    LET out == Append(outcome, o)
        late == anyTimeout \/ timedOut
        fat == anyMemCap \/ memCapped
    IN  /\ outcome' = out
        /\ anyTimeout' = late
        /\ anyMemCap' = fat
        /\ child' = "none"
        /\ ending' = "killed"
        /\ now' = 0
        /\ TimedOut' = FALSE /\ MemCapped' = FALSE
        /\ IF phase = Len(Phases)
           THEN Verdict' = verdictOf(out, late, fat) /\ UNCHANGED phase
           ELSE phase' = phase + 1 /\ UNCHANGED Verdict

Supervising == child # "none"

Start ==
    /\ child = "none" /\ Verdict = NoVerdict
    /\ \/ /\ child' = "running"
          /\ UNCHANGED <<phase, ending, now, TimedOut, MemCapped, outcome,
                         anyTimeout, anyMemCap, Verdict>>
       \/ EndPhase("not started", FALSE, FALSE)

ChildGrows ==
    /\ child = "running"
    /\ child' = "fat"
    /\ UNCHANGED <<phase, ending, now, TimedOut, MemCapped, outcome,
                   anyTimeout, anyMemCap, Verdict>>

ChildEnds ==
    /\ child \in {"running", "fat"}
    /\ child' = "exited"
    /\ ending' \in Endings
    /\ UNCHANGED <<phase, now, TimedOut, MemCapped, outcome, anyTimeout, anyMemCap, Verdict>>

\* case err := <-waited.
Waited ==
    /\ child \in {"exited", "killed"}
    /\ EndPhase(ending, TimedOut, MemCapped)

HardDeadline == Timeout + KillGrace

\* PollTime as a mutation: the hard deadline is looked at first.
PollTimeDeadlineFirst(t) ==
    IF t > HardDeadline THEN {"abandon"} ELSE IF t > Timeout THEN {"kill"} ELSE {}

\* PollTime as a mutation: there is no hard deadline.
PollTimePatient(t) == IF t > Timeout THEN {"kill"} ELSE {}

\* What the clock asks for at t.
PollTime(t) == (IF t > Timeout THEN {"kill"} ELSE {})
               \cup (IF t > HardDeadline THEN {"abandon"} ELSE {})

\* case <-ticker.C at time t: sample the memory, then the clock.  Each bound
\* kills once; the kill ends a live child, or does not land.
TickAt(t) ==
    LET capped == MemCapped \/ child = "fat"
        late == TimedOut \/ "kill" \in PollTime(t)
        kill == capped # MemCapped \/ late # TimedOut
        landed == IF kill /\ child \in {"running", "fat"} THEN {"killed"} ELSE {}
    IN  \/ /\ "abandon" \in PollTime(t)
           /\ EndPhase("abandoned", late, capped)
        \/ /\ "abandon" \notin PollTime(t)
           /\ child' \in landed \cup {child}
           /\ now' = t
           /\ TimedOut' = late
           /\ MemCapped' = capped
           /\ UNCHANGED <<phase, ending, outcome, anyTimeout, anyMemCap, Verdict>>

\* A poll may come late: the ticker drops the ticks nobody received.
Tick ==
    /\ Supervising
    /\ \E t \in now + 1 .. HardDeadline + 1 : TickAt(t)

Next == Start \/ ChildGrows \/ ChildEnds \/ Waited \/ Tick

Spec == Init /\ [][Next]_vars

\* The ticker fires for ever and the loop of a case goes on; nothing is assumed
\* of the child, nor of Wait.
Fairness == WF_vars(Start) /\ WF_vars(Tick)

FairSpec == Spec /\ Fairness

-----------------------------------------------------------------------------
TypeOK ==
    /\ phase \in 1 .. Len(Phases)
    /\ child \in {"none", "running", "fat", "exited", "killed"}
    /\ ending \in Endings \cup {"killed"}
    /\ now \in 0 .. HardDeadline + 1
    /\ {TimedOut, MemCapped, anyTimeout, anyMemCap} \subseteq BOOLEAN
    /\ outcome \in Seq(Outcomes)

Quiet == {"AGREE", "REJECT_AGREE", "REJECT_DIFF"}

\* A verdict that does not fail the run is about children that ended by
\* themselves: a phase that was killed, or given up because the kill did not
\* land, is never compared as if its output were the program's, whichever of the
\* end, the bounds and the deadline the select saw first.
KilledIsLoud ==
    Verdict \in Quiet => \A p \in 1 .. Len(Phases) : outcome[p] \notin {"killed", "abandoned"}

\* Every case gets its verdict: a child that survives the kill, or pipes that a
\* grandchild holds, do not hang the runner.
SupervisorReturns == <>(Verdict # NoVerdict)
=============================================================================

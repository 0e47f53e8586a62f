------------------------------- MODULE Channel -------------------------------
(***************************************************************************)
(* The compiled runtime's channel (compiler/qthreads.c.txt): a circular    *)
(* buffer with one mutex and one condition variable for both directions.   *)
(* ql_send waits while the buffer is full, ql_recv while it is empty, and   *)
(* each broadcasts after it changed the buffer.                            *)
(*                                                                         *)
(* A step is a critical section's piece between taking or giving up the    *)
(* mutex.  A thread that waits gives the mutex up and goes to sleep at     *)
(* once; a woken thread must take the mutex again before it goes on, and   *)
(* then tests its condition again.                                         *)
(***************************************************************************)
EXTENDS Integers, Sequences

CONSTANTS
    Threads,   \* threads of the program that use the channel
    Values,    \* the ints they send
    Requested, \* the capacity the program asked taskm.channel for
    NoValue,   \* what a buffer cell holds before anything was stored in it
    NoThread

\* ql_channel_new: a capacity that is not positive becomes 1024.
Cap == IF Requested <= 0 THEN 1024 ELSE Requested

Cells == 0 .. Cap - 1

ASSUME RequestedAssumption == Requested \in Int
ASSUME DistinctAssumption == /\ NoValue \notin Values
                             /\ NoThread \notin Threads

VARIABLES
    buf, head, cnt, \* the circular buffer
    mu,             \* holder of the mutex, or NoThread
    sleeping,       \* threads waiting on the condition variable
    pc,             \* "out", or the call a thread is in and how far it is
    val             \* the value a thread sends or has received

vars == <<buf, head, cnt, mu, sleeping, pc, val>>

Init == \* ql_channel_new
    /\ buf = [i \in Cells |-> NoValue]
    /\ head = 0
    /\ cnt = 0
    /\ mu = NoThread
    /\ sleeping = {}
    /\ pc = [t \in Threads |-> "out"]
    /\ val = [t \in Threads |-> NoValue]

-----------------------------------------------------------------------------
\* The program calls ql_send or ql_recv.
CallSend(t) ==
    /\ pc[t] = "out"
    /\ \E v \in Values : val' = [val EXCEPT ![t] = v]
    /\ pc' = [pc EXCEPT ![t] = "send"]
    /\ UNCHANGED <<buf, head, cnt, mu, sleeping>>

CallRecv(t) ==
    /\ pc[t] = "out"
    /\ pc' = [pc EXCEPT ![t] = "recv"]
    /\ val' = [val EXCEPT ![t] = NoValue]
    /\ UNCHANGED <<buf, head, cnt, mu, sleeping>>

\* pthread_mutex_lock, or the reacquisition at the end of a wait.
Lock(t) ==
    /\ pc[t] \in {"send", "recv"}
    /\ t \notin sleeping
    /\ mu = NoThread
    /\ mu' = t
    /\ UNCHANGED <<buf, head, cnt, sleeping, pc, val>>

\* Full as a mutation: off by one.
FullPastEnd == cnt > Cap

Full == cnt >= Cap
Empty == cnt <= 0

\* pthread_cond_wait: the mutex is released and the thread sleeps in one step.
Wait(t) ==
    /\ mu = t
    /\ \/ pc[t] = "send" /\ Full
       \/ pc[t] = "recv" /\ Empty
    /\ sleeping' = sleeping \cup {t}
    /\ mu' = NoThread
    /\ UNCHANGED <<buf, head, cnt, pc, val>>

\* Send as a mutation: the head is left out of the index.
SendAtCount(t) ==
    /\ mu = t
    /\ pc[t] = "send"
    /\ ~Full
    /\ buf' = [buf EXCEPT ![cnt % Cap] = val[t]]
    /\ cnt' = cnt + 1
    /\ sleeping' = {}
    /\ mu' = NoThread
    /\ pc' = [pc EXCEPT ![t] = "out"]
    /\ UNCHANGED <<head, val>>

\* Send as a mutation: one waiter is signalled, not all.
SendSignals(t) ==
    /\ mu = t
    /\ pc[t] = "send"
    /\ ~Full
    /\ buf' = [buf EXCEPT ![(head + cnt) % Cap] = val[t]]
    /\ cnt' = cnt + 1
    /\ \/ sleeping = {} /\ sleeping' = {}
       \/ \E u \in sleeping : sleeping' = sleeping \ {u}
    /\ mu' = NoThread
    /\ pc' = [pc EXCEPT ![t] = "out"]
    /\ UNCHANGED <<head, val>>

\* The rest of ql_send: store, broadcast, unlock.
Send(t) ==
    /\ mu = t
    /\ pc[t] = "send"
    /\ ~Full
    /\ buf' = [buf EXCEPT ![(head + cnt) % Cap] = val[t]]
    /\ cnt' = cnt + 1
    /\ sleeping' = {}
    /\ mu' = NoThread
    /\ pc' = [pc EXCEPT ![t] = "out"]
    /\ UNCHANGED <<head, val>>

\* Recv as a mutation: nobody is told that there is room.
RecvSilent(t) ==
    /\ mu = t
    /\ pc[t] = "recv"
    /\ ~Empty
    /\ val' = [val EXCEPT ![t] = buf[head]]
    /\ head' = (head + 1) % Cap
    /\ cnt' = cnt - 1
    /\ mu' = NoThread
    /\ pc' = [pc EXCEPT ![t] = "out"]
    /\ UNCHANGED <<buf, sleeping>>

\* The rest of ql_recv: fetch, broadcast, unlock.
Recv(t) ==
    /\ mu = t
    /\ pc[t] = "recv"
    /\ ~Empty
    /\ val' = [val EXCEPT ![t] = buf[head]]
    /\ head' = (head + 1) % Cap
    /\ cnt' = cnt - 1
    /\ sleeping' = {}
    /\ mu' = NoThread
    /\ pc' = [pc EXCEPT ![t] = "out"]
    /\ UNCHANGED buf

\* POSIX lets a wait return without a signal.
SpuriousWakeup(t) ==
    /\ t \in sleeping
    /\ sleeping' = sleeping \ {t}
    /\ UNCHANGED <<buf, head, cnt, mu, pc, val>>

-----------------------------------------------------------------------------
Next == \E t \in Threads :
            \/ CallSend(t) \/ CallRecv(t)
            \/ Lock(t) \/ Wait(t) \/ Send(t) \/ Recv(t)
            \/ SpuriousWakeup(t)

Spec == Init /\ [][Next]_vars

\* A thread inside a call is scheduled again and again, and a mutex that is
\* free again and again is eventually granted to it.  Calls are not owed.
Fairness == \A t \in Threads :
                /\ WF_vars(Wait(t) \/ Send(t) \/ Recv(t))
                /\ SF_vars(Lock(t))

FairSpec == Spec /\ Fairness

-----------------------------------------------------------------------------
TypeOK ==
    /\ buf \in [Cells -> Values \cup {NoValue}]
    /\ head \in Cells
    /\ cnt \in 0 .. Cap
    /\ mu \in Threads \cup {NoThread}
    /\ sleeping \subseteq Threads
    /\ pc \in [Threads -> {"out", "send", "recv"}]
    /\ val \in [Threads -> Values \cup {NoValue}]

\* The values in the channel, oldest first.
Contents == [i \in 1 .. cnt |-> buf[(head + i - 1) % Cap]]

\* The channel implements the bounded queue: no send overwrites a value that is
\* waiting, and a receive removes the oldest and no other.
Fifo == INSTANCE BoundedFifo WITH fifo <- Contents, Capacity <- Cap
ImplementsFifo == Fifo!Spec

\* No wakeup is lost: a sleeping sender has a full buffer, a sleeping receiver
\* an empty one.  Two directions share the condition variable, so this needs
\* the broadcast, and the test and the wait under the same mutex.
SleepersHaveCause ==
    \A t \in sleeping : \/ pc[t] = "send" /\ Full
                        \/ pc[t] = "recv" /\ Empty

\* Threads that are all inside a call, some sending and some receiving, never
\* wait for each other for ever: one of the calls returns.
InsideProgress ==
    /\ \A t \in Threads : pc[t] # "out"
    /\ \E t \in Threads : pc[t] = "send"
    /\ \E t \in Threads : pc[t] = "recv"
    ~> \E t \in Threads : pc[t] = "out"
=============================================================================

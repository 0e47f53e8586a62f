---------------------------- MODULE ChannelProofs ----------------------------
(***************************************************************************)
(* Proofs about Channel, for every set of threads and values and every     *)
(* requested capacity.                                                     *)
(***************************************************************************)
EXTENDS Channel, DataLemmas

\* The capacity ql_channel_new settles on is positive.
LEMMA CapPositive == Cap \in Nat \ {0}
BY RequestedAssumption DEF Cap

-----------------------------------------------------------------------------
(* Type correctness and the wakeup invariant, which is inductive with it.   *)

IInv == TypeOK /\ SleepersHaveCause

LEMMA InitIInv == Init => IInv
BY CapPositive DEF Init, IInv, TypeOK, SleepersHaveCause, Cells

LEMMA NextIInv == IInv /\ [Next]_vars => IInv'
<1>. SUFFICES ASSUME IInv, [Next]_vars
              PROVE  IInv'
  OBVIOUS
<1>. USE CapPositive DEF IInv, TypeOK, SleepersHaveCause, Cells, Full, Empty
<1>1. ASSUME NEW t \in Threads, CallSend(t)
      PROVE  IInv'
  BY <1>1 DEF CallSend
<1>2. ASSUME NEW t \in Threads, CallRecv(t)
      PROVE  IInv'
  BY <1>2 DEF CallRecv
<1>3. ASSUME NEW t \in Threads, Lock(t)
      PROVE  IInv'
  BY <1>3 DEF Lock
<1>4. ASSUME NEW t \in Threads, Wait(t)
      PROVE  IInv'
  BY <1>4 DEF Wait
<1>5. ASSUME NEW t \in Threads, Send(t)
      PROVE  IInv'
  <2>1. TypeOK'
    BY <1>5, Wrap DEF Send
  <2>2. SleepersHaveCause'
    BY <1>5 DEF Send
  <2>. QED
    BY <2>1, <2>2
<1>6. ASSUME NEW t \in Threads, Recv(t)
      PROVE  IInv'
  <2>1. TypeOK'
    <3>1. head' \in Cells
      BY <1>6 DEF Recv
    <3>2. cnt' \in 0 .. Cap
      BY <1>6 DEF Recv
    <3>3. val' \in [Threads -> Values \cup {NoValue}]
      BY <1>6 DEF Recv
    <3>. QED
      BY <1>6, <3>1, <3>2, <3>3 DEF Recv
  <2>2. SleepersHaveCause'
    BY <1>6 DEF Recv
  <2>. QED
    BY <2>1, <2>2
<1>7. ASSUME NEW t \in Threads, SpuriousWakeup(t)
      PROVE  IInv'
  BY <1>7 DEF SpuriousWakeup
<1>8. CASE UNCHANGED vars
  BY <1>8 DEF vars
<1>. QED
  BY <1>1, <1>2, <1>3, <1>4, <1>5, <1>6, <1>7, <1>8 DEF Next

\* The buffer, its indices, the mutex and the threads stay within their types;
\* in particular ql_send never counts more values than the buffer has cells.
THEOREM TypeCorrect == Spec => []TypeOK
<1>1. IInv => TypeOK
  BY DEF IInv
<1>. QED
  BY InitIInv, NextIInv, <1>1, PTL DEF Spec

\* No wakeup is lost: whoever sleeps on the shared condition variable of
\* ql_send and ql_recv sleeps on a condition that still holds.
THEOREM NoLostWakeup == Spec => []SleepersHaveCause
<1>1. IInv => SleepersHaveCause
  BY DEF IInv
<1>. QED
  BY InitIInv, NextIInv, <1>1, PTL DEF Spec

-----------------------------------------------------------------------------
(* The channel implements the bounded queue.                                *)

\* Contents, cell by cell.
Shape == /\ Contents \in Seq(Values \cup {NoValue})
         /\ Len(Contents) = cnt
         /\ \A i \in 1 .. cnt : Contents[i] = buf[(head + i - 1) % Cap]

LEMMA ContentsShape == TypeOK => Shape
<1>. SUFFICES ASSUME TypeOK
              PROVE  Shape
  OBVIOUS
<1>. USE CapPositive DEF TypeOK, Cells
<1>1. \A i \in 1 .. cnt : (head + i - 1) % Cap \in Cells
  BY Wrap
<1>2. \A i \in 1 .. cnt : buf[(head + i - 1) % Cap] \in Values \cup {NoValue}
  BY <1>1
<1>3. Contents \in [1 .. cnt -> Values \cup {NoValue}]
  BY <1>2 DEF Contents
<1>. QED
  BY <1>3 DEF Contents, Shape

LEMMA ContentsShapeNext == TypeOK' => Shape'
BY ContentsShape, PTL

\* Only values the program sent are ever in the channel, and a thread inside
\* ql_send holds one: what the buffer's window holds is never unset.
Sent == /\ \A i \in 1 .. cnt : buf[(head + i - 1) % Cap] \in Values
        /\ \A t \in Threads : pc[t] = "send" => val[t] \in Values

LEMMA SentInit == Init => Sent
BY DEF Init, Sent

LEMMA SendStep ==
    ASSUME TypeOK, Sent, NEW t \in Threads, Send(t)
    PROVE  /\ \A i \in 1 .. cnt : buf'[(head + i - 1) % Cap] = buf[(head + i - 1) % Cap]
           /\ buf'[(head + cnt) % Cap] = val[t]
           /\ cnt' = cnt + 1
           /\ head' = head
           /\ cnt < Cap
<1>. USE CapPositive DEF TypeOK, Cells, Send, Full
<1>1. cnt < Cap
  OBVIOUS
<1>2. (head + cnt) % Cap \in Cells
  BY Wrap
<1>3. ASSUME NEW i \in 1 .. cnt
      PROVE  /\ (head + i - 1) % Cap # (head + cnt) % Cap
             /\ (head + i - 1) % Cap \in Cells
  <2>1. i - 1 \in 0 .. Cap - 1 /\ cnt \in 0 .. Cap - 1 /\ i - 1 # cnt
    BY <1>1
  <2>2. (head + (i - 1)) % Cap # (head + cnt) % Cap
    BY <2>1, WrapInjective
  <2>3. (head + (i - 1)) % Cap \in Cells
    <3>1. i - 1 \in 0 .. Cap
      BY <2>1
    <3>. QED
      BY <3>1, Wrap
  <2>4. head + (i - 1) = head + i - 1
    OBVIOUS
  <2>. QED
    BY <2>2, <2>3, <2>4
<1>. QED
  BY <1>1, <1>2, <1>3

LEMMA RecvStep ==
    ASSUME TypeOK, Sent, NEW t \in Threads, Recv(t)
    PROVE  /\ cnt > 0
           /\ cnt' = cnt - 1
           /\ \A i \in 1 .. cnt' :
                buf'[(head' + i - 1) % Cap] = buf[(head + (i + 1) - 1) % Cap]
<1>. USE CapPositive DEF TypeOK, Cells, Recv, Empty
<1>1. cnt > 0 /\ cnt' = cnt - 1
  OBVIOUS
<1>2. ASSUME NEW i \in 1 .. cnt'
      PROVE  (head' + i - 1) % Cap = (head + (i + 1) - 1) % Cap
  <2>1. i - 1 \in 0 .. Cap - 1
    BY <1>1
  <2>2. (((head + 1) % Cap) + (i - 1)) % Cap = (head + (i - 1) + 1) % Cap
    BY <2>1, WrapStep
  <2>3. (head + (i - 1) + 1) = head + (i + 1) - 1
    OBVIOUS
  <2>4. /\ head' = (head + 1) % Cap
        /\ head' \in Nat
    BY Wrap
  <2>5. head' + i - 1 = ((head + 1) % Cap) + (i - 1)
    BY <2>4
  <2>. QED
    BY <2>2, <2>3, <2>5
<1>. QED
  BY <1>1, <1>2

LEMMA SentNext == TypeOK /\ Sent /\ [Next]_vars => Sent'
<1>. SUFFICES ASSUME TypeOK, Sent, [Next]_vars
              PROVE  Sent'
  OBVIOUS
<1>1. ASSUME NEW t \in Threads, CallSend(t)
      PROVE  Sent'
  BY <1>1 DEF CallSend, Sent, TypeOK
<1>2. ASSUME NEW t \in Threads, CallRecv(t)
      PROVE  Sent'
  BY <1>2 DEF CallRecv, Sent, TypeOK
<1>3. ASSUME NEW t \in Threads, Lock(t) \/ Wait(t) \/ SpuriousWakeup(t)
      PROVE  Sent'
  BY <1>3 DEF Lock, Wait, SpuriousWakeup, Sent
<1>4. ASSUME NEW t \in Threads, Send(t)
      PROVE  Sent'
  <2>1. val[t] \in Values
    BY <1>4 DEF Send, Sent
  <2>2. ASSUME NEW i \in 1 .. cnt'
        PROVE  buf'[(head' + i - 1) % Cap] \in Values
    <3>1. CASE i \in 1 .. cnt
      BY <1>4, <3>1, SendStep DEF Sent
    <3>2. CASE i = cnt + 1
      <4>1. head' + i - 1 = head + cnt
        BY <1>4, <3>2, SendStep DEF TypeOK, Cells
      <4>. QED
        BY <1>4, <2>1, <4>1, SendStep
    <3>3. i \in 1 .. cnt \/ i = cnt + 1
      BY <1>4, SendStep DEF TypeOK
    <3>. QED
      BY <3>1, <3>2, <3>3
  <2>3. \A u \in Threads : pc'[u] = "send" => val'[u] \in Values
    BY <1>4 DEF Send, Sent, TypeOK
  <2>. QED
    BY <2>2, <2>3 DEF Sent
<1>5. ASSUME NEW t \in Threads, Recv(t)
      PROVE  Sent'
  <2>1. ASSUME NEW i \in 1 .. cnt'
        PROVE  buf'[(head' + i - 1) % Cap] \in Values
    <3>1. i + 1 \in 1 .. cnt
      BY <1>5, RecvStep DEF TypeOK
    <3>. QED
      BY <1>5, <3>1, RecvStep DEF Sent
  <2>2. \A u \in Threads : pc'[u] = "send" => val'[u] \in Values
    BY <1>5 DEF Recv, Sent, TypeOK
  <2>. QED
    BY <2>1, <2>2 DEF Sent
<1>6. CASE UNCHANGED vars
  BY <1>6 DEF vars, Sent
<1>. QED
  BY <1>1, <1>2, <1>3, <1>4, <1>5, <1>6 DEF Next

LEMMA FifoInit == Init => Fifo!Init
<1>. SUFFICES ASSUME Init
              PROVE  Contents = <<>>
  BY DEF Fifo!Init
<1>1. cnt = 0
  BY DEF Init
<1>. QED
  BY <1>1 DEF Contents

LEMMA FifoNext ==
    ASSUME TypeOK, TypeOK', Sent, [Next]_vars
    PROVE  [Fifo!Next]_Contents
<1>. USE CapPositive
<1>0. /\ Contents \in Seq(Values \cup {NoValue})
      /\ Len(Contents) = cnt
      /\ \A i \in 1 .. cnt : Contents[i] = buf[(head + i - 1) % Cap]
  BY ContentsShape DEF Shape
<1>1. ASSUME NEW t \in Threads, Send(t)
      PROVE  Fifo!Put
  <2>1. val[t] \in Values
    BY <1>1 DEF Send, Sent
  <2>2. Contents' = Append(Contents, val[t])
    <3>1. /\ Contents' \in Seq(Values \cup {NoValue})
          /\ Len(Contents') = cnt + 1
          /\ \A i \in 1 .. cnt + 1 : Contents'[i] = buf'[(head + i - 1) % Cap]
      <4>1. Shape'
        BY ContentsShapeNext
      <4>. QED
        BY <4>1, <1>1, SendStep DEF Shape
    <3>2. ASSUME NEW i \in 1 .. cnt
          PROVE  Contents'[i] = Contents[i]
      <4>1. Contents'[i] = buf'[(head + i - 1) % Cap]
        BY <3>1 DEF TypeOK
      <4>2. buf'[(head + i - 1) % Cap] = buf[(head + i - 1) % Cap]
        BY <1>1, SendStep
      <4>. QED
        BY <4>1, <4>2, <1>0
    <3>3. Contents'[cnt + 1] = val[t]
      <4>1. head + (cnt + 1) - 1 = head + cnt /\ cnt + 1 \in 1 .. cnt + 1
        BY DEF TypeOK, Cells
      <4>. QED
        BY <1>1, <3>1, <4>1, SendStep
    <3>. QED
      BY <3>1, <3>2, <3>3, <1>0, <2>1 DEF TypeOK
  <2>3. Len(Contents) < Cap
    BY <1>1, SendStep, <1>0
  <2>. QED
    BY <2>1, <2>2, <2>3 DEF Fifo!Put
<1>2. ASSUME NEW t \in Threads, Recv(t)
      PROVE  Fifo!Take
  <2>1. /\ Contents' \in Seq(Values \cup {NoValue})
        /\ Len(Contents') = cnt - 1
        /\ \A i \in 1 .. cnt - 1 : Contents'[i] = Contents[i + 1]
    <3>1. /\ Contents' \in Seq(Values \cup {NoValue})
          /\ Len(Contents') = cnt'
          /\ \A i \in 1 .. cnt' : Contents'[i] = buf'[(head' + i - 1) % Cap]
      BY ContentsShapeNext DEF Shape
    <3>2. ASSUME NEW i \in 1 .. cnt - 1
          PROVE  Contents'[i] = Contents[i + 1]
      <4>1. i + 1 \in 1 .. cnt
        BY DEF TypeOK
      <4>2. Contents[i + 1] = buf[(head + (i + 1) - 1) % Cap]
        BY <4>1, <1>0
      <4>. QED
        BY <1>2, <3>1, <4>2, RecvStep
    <3>. QED
      BY <1>2, <3>1, <3>2, RecvStep
  <2>2. Contents # <<>>
    BY <1>2, RecvStep, <1>0
  <2>3. Contents' = Tail(Contents)
    BY <2>1, <2>2, <1>0, <1>2, RecvStep DEF TypeOK
  <2>. QED
    BY <2>2, <2>3 DEF Fifo!Take
<1>3. ASSUME NEW t \in Threads,
             CallSend(t) \/ CallRecv(t) \/ Lock(t) \/ Wait(t) \/ SpuriousWakeup(t)
      PROVE  Contents' = Contents
  BY <1>3 DEF CallSend, CallRecv, Lock, Wait, SpuriousWakeup, Contents
<1>4. CASE UNCHANGED vars
  BY <1>4 DEF vars, Contents
<1>. QED
  BY <1>1, <1>2, <1>3, <1>4 DEF Next, Fifo!Next

\* ql_send and ql_recv implement the bounded first-in first-out queue, for
\* every capacity, any number of threads and every interleaving of theirs.
THEOREM ChannelIsFifo == Spec => ImplementsFifo
<1>1. TypeOK /\ TypeOK' /\ Sent /\ [Next]_vars => [Fifo!Next]_Contents
  BY FifoNext
<1>2. IInv => TypeOK
  BY DEF IInv
<1>. QED
  BY InitIInv, NextIInv, SentInit, SentNext, FifoInit, <1>1, <1>2, PTL
     DEF Spec, ImplementsFifo, Fifo!Spec
=============================================================================

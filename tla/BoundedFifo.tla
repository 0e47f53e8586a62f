----------------------------- MODULE BoundedFifo -----------------------------
(***************************************************************************)
(* What a channel promises: a first-in first-out queue of at most Capacity *)
(* values.  A send adds one value at the end and never to a full queue; a  *)
(* receive takes the oldest value.                                         *)
(***************************************************************************)
EXTENDS Naturals, Sequences

CONSTANTS Values, Capacity

VARIABLE fifo

Init == fifo = <<>>

Put == /\ Len(fifo) < Capacity
       /\ \E v \in Values : fifo' = Append(fifo, v)

Take == /\ fifo # <<>>
        /\ fifo' = Tail(fifo)

Next == Put \/ Take

Spec == Init /\ [][Next]_fifo
=============================================================================

---------------------------- MODULE MemoryManager ----------------------------
(***************************************************************************)
(* The interpreter's logical block allocator (MemoryManager,               *)
(* internal/lang/eval.go): blocks with an occupancy, and a binary heap of  *)
(* pointers to them ordered by it.  Every method runs under m.mu, so it is *)
(* one step.  Delete and ReclaimTask change a block's occupancy where the  *)
(* heap cannot see it and push the block again, so the heap may hold a     *)
(* block twice and out of order: its order is modelled as it is kept.      *)
(*                                                                         *)
(* ReusedCount and NewBlocks follow from AllocCalls and nextID; Dirty and  *)
(* Reclaimable are never read.                                             *)
(***************************************************************************)
EXTENDS Naturals, Sequences, SequencesExt

CONSTANTS
    BlockSizes, \* values of globalMemory.BlockSize, which memory.setBlock changes
    Requests,   \* sizes the program allocates with new
    Pids,       \* threads whose runs get a block
    MaxAllocs,  \* bound: allocations ever made
    MaxHeap     \* bound: entries of the heap, counting repetitions

MemoryAssumption ==
    /\ BlockSizes \subseteq Nat /\ Requests \subseteq Nat
    /\ MaxAllocs \in Nat

\* A request is bounded by any block size: what UsedBounded depends on.
RequestsFit == \A size \in Requests, n \in BlockSizes : size <= n

VARIABLES
    BlockSize,
    nextID,
    blocks,    \* id -> [Size, Used, OwnerPID], for the ids managed
    minHeap,   \* the heap's array of ids
    AllocCalls

vars == <<BlockSize, nextID, blocks, minHeap, AllocCalls>>

-----------------------------------------------------------------------------
(* container/heap on an array of ids, Less comparing their occupancy in bs. *)

Swap(h, i, j) == [h EXCEPT ![i] = h[j], ![j] = h[i]]
Less(bs, h, i, j) == bs[h[i]].Used < bs[h[j]].Used

\* The state after n rounds of a loop whose body is the function f.
Loop(f, s, n) ==
    LET at[k \in 0 .. n] == IF k = 0 THEN s ELSE f[at[k - 1]]
    IN  at[n]

\* One round of up and of down: the array, and the place of the entry that moves.
Up(bs) ==
    [s \in Seq(Nat) \X Nat |->
        LET h == s[1]
            j == s[2]
            i == j \div 2
        IN  IF j > 1 /\ Less(bs, h, j, i) THEN <<Swap(h, i, j), i>> ELSE s]

Down(bs) ==
    [s \in Seq(Nat) \X Nat |->
        LET h == s[1]
            i == s[2]
            left == 2 * i
            j == IF left < Len(h) /\ Less(bs, h, left + 1, left) THEN left + 1 ELSE left
        IN  IF left <= Len(h) /\ Less(bs, h, j, i) THEN <<Swap(h, i, j), j>> ELSE s]

\* The entry is at rest after as many rounds as the array has entries.
SiftUp(bs, h, j) == Loop(Up(bs), <<h, j>>, Len(h))[1]
SiftDown(bs, h, i) == Loop(Down(bs), <<h, i>>, Len(h))[1]

HeapPush(bs, h, id) == SiftUp(bs, Append(h, id), Len(h) + 1)
HeapPop(bs, h) == SiftDown(bs, Front(Swap(h, 1, Len(h))), 1)
HeapFix1(bs, h) == SiftDown(bs, h, 1)

\* Push the ids of a sequence, in order.
PushHead(bs) ==
    [s \in Seq(Nat) \X Seq(Nat) |-> <<HeapPush(bs, s[1], Head(s[2])), Tail(s[2])>>]
HeapPushAll(bs, h, ids) == Loop(PushHead(bs), <<h, ids>>, Len(ids))[1]

-----------------------------------------------------------------------------
Init ==
    /\ BlockSize \in BlockSizes
    /\ nextID = 0
    /\ blocks = <<>>
    /\ minHeap = <<>>
    /\ AllocCalls = 0

HasRoom(id, size) == blocks[id].Used + size <= blocks[id].Size

\* The heap once the blocks that do not fit are popped from its top.
PopFull(size) ==
    [h \in Seq(Nat) |->
        IF h = <<>> \/ HasRoom(h[1], size) THEN h ELSE HeapPop(blocks, h)]
DropFull(h, size) == Loop(PopFull(size), h, Len(h))

Alloc(size, owner) ==
    LET h == DropFull(minHeap, size)
        id == IF h = <<>> THEN nextID + 1 ELSE h[1]
        block == IF h = <<>> THEN [Size |-> BlockSize, Used |-> size, OwnerPID |-> owner]
                 ELSE [blocks[id] EXCEPT !.Used = @ + size, !.OwnerPID = owner]
        now == [i \in DOMAIN blocks \cup {id} |-> IF i = id THEN block ELSE blocks[i]]
    IN  /\ AllocCalls < MaxAllocs
        /\ AllocCalls' = AllocCalls + 1
        /\ blocks' = now
        /\ nextID' = IF h = <<>> THEN id ELSE nextID
        /\ minHeap' = IF h = <<>> THEN HeapPush(now, h, id) ELSE HeapFix1(now, h)
        /\ UNCHANGED BlockSize

Emptied(S) == [id \in DOMAIN blocks |->
                 IF id \in S THEN [blocks[id] EXCEPT !.Used = 0, !.OwnerPID = 0]
                 ELSE blocks[id]]

\* ReclaimTask as a mutation: the emptied blocks are not pushed.
ReclaimUnqueued(pid) ==
    LET S == {id \in DOMAIN blocks : blocks[id].OwnerPID = pid /\ blocks[id].Used > 0}
    IN  /\ S # {}
        /\ blocks' = Emptied(S)
        /\ UNCHANGED <<BlockSize, nextID, minHeap, AllocCalls>>

\* The end of a thread's run; Go ranges over the map in any order.
ReclaimTask(pid) ==
    LET S == {id \in DOMAIN blocks : blocks[id].OwnerPID = pid /\ blocks[id].Used > 0}
    IN  /\ S # {}
        /\ blocks' = Emptied(S)
        /\ \E ids \in SetToSeqs(S) : minHeap' = HeapPushAll(Emptied(S), minHeap, ids)
        /\ UNCHANGED <<BlockSize, nextID, AllocCalls>>

\* delete of a List whose block is id, whatever else lies in that block.
Delete(id) ==
    /\ id \in DOMAIN blocks
    /\ Len(minHeap) < MaxHeap
    /\ blocks' = Emptied({id})
    /\ minHeap' = HeapPush(Emptied({id}), minHeap, id)
    /\ UNCHANGED <<BlockSize, nextID, AllocCalls>>

Occupied == {id \in DOMAIN blocks : blocks[id].Used > 0}

Compact ==
    /\ blocks' = [id \in Occupied |-> blocks[id]]
    /\ minHeap' = <<>>
    /\ UNCHANGED <<BlockSize, nextID, AllocCalls>>

Clear ==
    /\ blocks' = [id \in Occupied |-> blocks[id]]
    /\ \E ids \in SetToSeqs(Occupied) : minHeap' = HeapPushAll(blocks, <<>>, ids)
    /\ UNCHANGED <<BlockSize, nextID, AllocCalls>>

SetBlock(n) ==
    /\ BlockSize' = n
    /\ UNCHANGED <<nextID, blocks, minHeap, AllocCalls>>

Next ==
    \/ \E size \in Requests : Alloc(size, 0)
    \/ \E pid \in Pids \cup {0} : Alloc(BlockSize, pid)
    \/ \E pid \in Pids : ReclaimTask(pid)
    \/ \E id \in 1 .. nextID : Delete(id)
    \/ Compact \/ Clear
    \/ \E n \in BlockSizes : SetBlock(n)

Spec == Init /\ [][Next]_vars

-----------------------------------------------------------------------------
TypeOK ==
    /\ BlockSize \in BlockSizes
    /\ nextID \in 0 .. MaxAllocs /\ AllocCalls \in 0 .. MaxAllocs
    /\ DOMAIN blocks \subseteq 1 .. nextID
    /\ \A id \in DOMAIN blocks :
          blocks[id] \in [Size : BlockSizes, Used : Nat, OwnerPID : Pids \cup {0}]
    /\ minHeap \in Seq(1 .. nextID)

-----------------------------------------------------------------------------
(* Properties.                                                              *)

Queued == Range(minHeap)

\* The heap names managed blocks only, though it outlives their deletion and
\* holds some of them twice: an allocation is never given a dropped block.
EntriesManaged == Queued \subseteq DOMAIN blocks

\* An empty block as large as any request is in the heap: a tide of allocations
\* and deletions reuses its blocks.  A smaller one, made before setBlock, may be
\* popped as too small and is then never found again.
EmptyQueued ==
    \A id \in DOMAIN blocks :
        /\ blocks[id].Used = 0
        /\ \A n \in BlockSizes \cup Requests : n <= blocks[id].Size
        => id \in Queued

\* As long as no request exceeds the block size, no block holds more than its
\* own, made before or after a change of it.
UsedBounded == \A id \in DOMAIN blocks : blocks[id].Used <= blocks[id].Size
=============================================================================

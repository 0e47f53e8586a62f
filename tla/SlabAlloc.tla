------------------------------ MODULE SlabAlloc ------------------------------
(***************************************************************************)
(* The compiled runtime's counted-slab allocator (compiler/qthreads.c.txt, *)
(* the ql_mem_ functions).  A host block is a slab of equal slots of one   *)
(* size class or one large object; every block has the owner it was made   *)
(* for, 0 for the main thread or the id of a task, and a task's end        *)
(* releases every block of that owner.                                     *)
(*                                                                         *)
(* Every operation runs under the allocator's lock, so it is one step.  A  *)
(* free list is the set of free slots, a partial list the set of its       *)
(* slabs: their order decides only which of several equally good slots an  *)
(* allocation gets, which the model leaves open.  Payload bytes are left   *)
(* out, and with them what ql_mem_clear does beyond ql_mem_compact.        *)
(***************************************************************************)
EXTENDS Naturals, Sequences, FiniteSets, Sums

CONSTANTS
    Threads,    \* the main thread and the pool's workers
    TaskIds,    \* ids of tasks, positive
    Blocks,     \* host blocks: malloc fails when all of them are in use, and may before
    ClassSize,  \* payload size of each class, increasing
    Align, ObjHdr, SlabHdr, LargeHdr,
    BlockSizes, \* the values the program passes to memory.setBlock
    Requests,   \* the sizes it allocates
    MaxAllocs,  \* bound: allocations ever made
    MaxSlots,   \* the most slots a slab has with these sizes
    None

Classes == 1 .. Len(ClassSize)
Owners == {0} \cup TaskIds

ASSUME SizesAssumption ==
    /\ ClassSize \in Seq(Nat \ {0}) /\ ClassSize # <<>>
    /\ Align \in Nat \ {0}
    /\ ObjHdr \in Nat /\ SlabHdr \in Nat /\ LargeHdr \in Nat
    /\ BlockSizes \subseteq Nat \ {0} /\ BlockSizes # {}
    /\ Requests \subseteq Nat
    /\ MaxAllocs \in Nat
ASSUME IdsAssumption == TaskIds \subseteq Nat \ {0} /\ None \notin Blocks
ASSUME FiniteAssumption == IsFiniteSet(Blocks)

VARIABLES
    heap,   \* the allocator's state
    running \* thread -> the thread-local ql_mem_owner

vars == <<heap, running>>

-----------------------------------------------------------------------------
(* Sizes.                                                                   *)

RoundUp(n) == ((n + Align - 1) \div Align) * Align
Stride(c) == RoundUp(ObjHdr + ClassSize[c])
LargeClass == 0
Fits(n) == {c \in Classes : n <= ClassSize[c]}
ClassOf(n) == IF Fits(n) = {} THEN LargeClass
              ELSE CHOOSE c \in Fits(n) : \A d \in Fits(n) : c <= d
SlabSize(blockSize, c) ==
    LET least == SlabHdr + Stride(c)
    IN  RoundUp(IF blockSize < least THEN least ELSE blockSize)
\* SlotCount as a mutation: the slab's header is forgotten.
SlotCountNoHeader(size, c) == size \div Stride(c)

SlotCount(size, c) == (size - SlabHdr) \div Stride(c)

ASSUME SlotsAssumption ==
    MaxSlots \in Nat /\ \A n \in BlockSizes, c \in Classes :
                          SlotCount(SlabSize(n, c), c) <= MaxSlots

\* n == 0 is served as one byte.
Atleast1(n) == IF n = 0 THEN 1 ELSE n

-----------------------------------------------------------------------------
(* Blocks.  live maps the occupied slots to the sizes requested for them.   *)

Unused == [kind |-> "host", owner |-> 0, cls |-> 0, size |-> 0, count |-> 0,
           used |-> 0, bytes |-> 0, live |-> <<>>]

Slabs(h) == {b \in Blocks : h.block[b].kind = "slab"}
Larges(h) == {b \in Blocks : h.block[b].kind = "large"}
HostFree(h) == {b \in Blocks : h.block[b].kind = "host"}
FreeSlots(r) == (1 .. r.count) \ DOMAIN r.live
HasRoom(r) == FreeSlots(r) # {}

Objects(h) == UNION {{b} \X DOMAIN h.block[b].live : b \in Blocks}

Extend(f, i, v) == [x \in DOMAIN f \cup {i} |-> IF x = i THEN v ELSE f[x]]
Without(f, i) == [x \in DOMAIN f \ {i} |-> f[x]]

InitHeap(blockSize) ==
    [block |-> [b \in Blocks |-> Unused],
     partial |-> [c \in Classes |-> {}],
     current |-> [c \in Classes |-> None],
     blockSize |-> blockSize,
     usedTotal |-> 0, liveTotal |-> 0, slabBytes |-> 0,
     allocTotal |-> 0, reuse |-> 0, newBlocks |-> 0,
     slabCount |-> 0, largeCount |-> 0]

-----------------------------------------------------------------------------
(* ql_mem_alloc_locked.                                                     *)

\* Mine as a mutation: whoever's slab has room.
AnyOwners(h, own, c) == h.partial[c]

\* The partial slabs an owner may allocate from.
Mine(h, own, c) == {s \in h.partial[c] : h.block[s].owner = own}

\* Best as a mutation: the cached slab is taken though others have room.
BestCached(h, own, c) ==
    LET cur == h.current[c]
        mine == Mine(h, own, c)
    IN  IF cur # None /\ h.block[cur].owner = own THEN {cur}
        ELSE {s \in mine : \A r \in mine : h.block[s].used <= h.block[r].used}

\* The cached slab, when it is the owner's and the only partial one; otherwise
\* the least occupied of the owner's.
Best(h, own, c) ==
    LET cur == h.current[c]
        mine == Mine(h, own, c)
    IN  IF cur # None /\ h.partial[c] = {cur} /\ h.block[cur].owner = own
        THEN {cur}
        ELSE {s \in mine : \A r \in mine : h.block[s].used <= h.block[r].used}

\* Occupy slot i of slab b with an object of n bytes.
TakeSlot(h, b, i, n) ==
    LET r == h.block[b]
        full == r.used + 1 = r.count
    IN  [h EXCEPT
           !.block[b] = [r EXCEPT !.live = Extend(@, i, n), !.used = @ + 1, !.bytes = @ + n],
           !.partial[r.cls] = IF full THEN @ \ {b} ELSE @ \cup {b},
           !.current[r.cls] = IF full /\ @ = b THEN None ELSE @,
           !.liveTotal = IF r.used = 0 THEN @ + r.size ELSE @,
           !.usedTotal = @ + n,
           !.allocTotal = @ + 1]

\* ql_mem_slab_new, and its entry into the partial list.
NewSlab(h, b, c, own) ==
    LET size == SlabSize(h.blockSize, c)
        many == SlotCount(size, c) > 1
    IN  [h EXCEPT
           !.block[b] = [kind |-> "slab", owner |-> own, cls |-> c, size |-> size,
                         count |-> SlotCount(size, c), used |-> 0, bytes |-> 0,
                         live |-> <<>>],
           !.partial[c] = IF many THEN @ \cup {b} ELSE @,
           !.current[c] = IF many THEN b ELSE @,
           !.slabCount = @ + 1,
           !.slabBytes = @ + size,
           !.newBlocks = @ + 1]

NewLarge(h, b, n, own) ==
    LET total == LargeHdr + ObjHdr + RoundUp(n)
    IN  [h EXCEPT
           !.block[b] = [kind |-> "large", owner |-> own, cls |-> LargeClass,
                         size |-> total, count |-> 1, used |-> 1, bytes |-> n,
                         live |-> <<n>>],
           !.largeCount = @ + 1,
           !.newBlocks = @ + 1,
           !.allocTotal = @ + 1,
           !.liveTotal = @ + total,
           !.usedTotal = @ + n]

\* The outcomes of allocating n bytes for an owner: the new state of the heap
\* and the object.  There is none when the host has no block left.
AllocOutcomes(h, own, n) ==
    LET c == ClassOf(n) IN
    IF c = LargeClass
    THEN {[heap |-> NewLarge(h, b, n, own), obj |-> <<b, 1>>] : b \in HostFree(h)}
    ELSE IF Best(h, own, c) # {}
    THEN UNION {{[heap |-> TakeSlot([h EXCEPT !.reuse = @ + 1, !.current[c] = b], b, i, n),
                  obj |-> <<b, i>>] : i \in FreeSlots(h.block[b])} : b \in Best(h, own, c)}
    ELSE {[heap |-> TakeSlot(NewSlab(h, b, c, own), b, 1, n),
           obj |-> <<b, 1>>] : b \in HostFree(h)}

\* An allocation that finds no slot needs a host block, and malloc may refuse
\* it: ql_mem_alloc_locked then returns 0 and has changed nothing.
MayFail(h, own, n) == ClassOf(n) # LargeClass => Best(h, own, ClassOf(n)) = {}

-----------------------------------------------------------------------------
(* ql_mem_free_locked, ql_realloc.                                          *)

\* FreeSlot as a mutation: emptiness is tested before the slot is given back.
FreeSlotTestsFirst(h, b, i) ==
    LET r == h.block[b]
    IN  [h EXCEPT
           !.block[b] = [r EXCEPT !.live = Without(@, i), !.used = @ - 1, !.bytes = @ - r.live[i]],
           !.partial[r.cls] = @ \cup {b},
           !.liveTotal = IF r.used = 0 THEN @ - r.size ELSE @,
           !.usedTotal = @ - r.live[i]]

FreeSlot(h, b, i) ==
    LET r == h.block[b]
    IN  [h EXCEPT
           !.block[b] = [r EXCEPT !.live = Without(@, i), !.used = @ - 1, !.bytes = @ - r.live[i]],
           !.partial[r.cls] = @ \cup {b},
           !.liveTotal = IF r.used = 1 THEN @ - r.size ELSE @,
           !.usedTotal = @ - r.live[i]]

FreeLarge(h, b) ==
    [h EXCEPT
       !.block[b] = Unused,
       !.largeCount = @ - 1,
       !.liveTotal = @ - h.block[b].size,
       !.usedTotal = @ - h.block[b].bytes]

FreeIn(h, obj) ==
    IF h.block[obj[1]].kind = "slab" THEN FreeSlot(h, obj[1], obj[2])
                                     ELSE FreeLarge(h, obj[1])

Requested(h, obj) == h.block[obj[1]].live[obj[2]]
Capacity(h, obj) ==
    LET r == h.block[obj[1]]
    IN  IF r.kind = "slab" THEN ClassSize[r.cls] ELSE r.size - LargeHdr - ObjHdr

\* Resized as a mutation: the new size is not added to the total.
ResizedUncounted(h, obj, n) ==
    LET r == h.block[obj[1]]
    IN  [h EXCEPT
           !.block[obj[1]] = [r EXCEPT !.live = [@ EXCEPT ![obj[2]] = n],
                                       !.bytes = @ - Requested(h, obj) + n],
           !.usedTotal = @ - Requested(h, obj)]

\* The object keeps its place and is accounted n bytes from now on.
Resized(h, obj, n) ==
    LET r == h.block[obj[1]]
    IN  [h EXCEPT
           !.block[obj[1]] = [r EXCEPT !.live = [@ EXCEPT ![obj[2]] = n],
                                       !.bytes = @ - Requested(h, obj) + n],
           !.usedTotal = @ - Requested(h, obj) + n]

\* What ql_realloc asks for when the object has to move: a large one doubles.
Grown(h, obj, n) ==
    LET doubled == 2 * Capacity(h, obj)
    IN  IF ClassOf(n) = LargeClass /\ doubled > n THEN doubled ELSE n

\* The outcomes of moving an object: allocated for the same owner, accounted
\* what was asked for, and the old one released.
MoveOutcomes(h, obj, n) ==
    {[heap |-> FreeIn(Resized(a.heap, a.obj, n), obj), obj |-> a.obj] :
        a \in AllocOutcomes(h, h.block[obj[1]].owner, Grown(h, obj, n))}

-----------------------------------------------------------------------------
(* The reclamation of whole blocks.                                         *)

\* The bytes of the blocks in S, and those their objects asked for.
SizeOf(h, S) == SumOf([b \in S |-> h.block[b].size])
BytesOf(h, S) == SumOf([b \in S |-> h.block[b].bytes])

\* RebuildPartial as a mutation: the cached slabs are kept.
RebuildKeepsCurrent(h) ==
    [h EXCEPT
       !.partial = [c \in Classes |->
                      {b \in Slabs(h) : h.block[b].cls = c /\ HasRoom(h.block[b])}]]

\* ql_mem_rebuild_partial.
RebuildPartial(h) ==
    [h EXCEPT
       !.partial = [c \in Classes |->
                      {b \in Slabs(h) : h.block[b].cls = c /\ HasRoom(h.block[b])}],
       !.current = [c \in Classes |-> None]]

\* Give the slabs in S back to the host: neither kind of accounting changes.
DropSlabs(h, S) ==
    [h EXCEPT
       !.block = [b \in Blocks |-> IF b \in S THEN Unused ELSE @[b]],
       !.slabCount = @ - Cardinality(S),
       !.slabBytes = @ - SizeOf(h, S)]

FreeOwnerSlabs(h, own) ==
    LET S == {b \in Slabs(h) : h.block[b].owner = own}
        busy == {b \in S : h.block[b].used > 0}
    IN  [DropSlabs(h, S) EXCEPT
           !.usedTotal = @ - BytesOf(h, S),
           !.liveTotal = @ - SizeOf(h, busy)]

FreeOwnerLarges(h, own) ==
    LET L == {b \in Larges(h) : h.block[b].owner = own}
    IN  [h EXCEPT
           !.block = [b \in Blocks |-> IF b \in L THEN Unused ELSE @[b]],
           !.largeCount = @ - Cardinality(L),
           !.usedTotal = @ - BytesOf(h, L),
           !.liveTotal = @ - SizeOf(h, L)]

-----------------------------------------------------------------------------
(* The operations.                                                          *)

Init ==
    /\ \E n \in BlockSizes : heap = InitHeap(n)
    /\ running = [t \in Threads |-> 0]

\* ql_alloc and ql_calloc; the callers in the runtime all pass owner 0.
Alloc(t, n) ==
    /\ \/ /\ heap.allocTotal < MaxAllocs
          /\ \E a \in AllocOutcomes(heap, running[t], Atleast1(n)) : heap' = a.heap
       \/ MayFail(heap, running[t], Atleast1(n)) /\ UNCHANGED heap
    /\ UNCHANGED running

\* ql_free: any thread may release any live object.
Free(obj) ==
    /\ heap' = FreeIn(heap, obj)
    /\ UNCHANGED running

\* Realloc as a mutation: the old object makes room for the new one.
ReallocFreesFirst(obj, n) ==
    LET own == heap.block[obj[1]].owner
        size == Grown(heap, obj, n)
        without == FreeIn(heap, obj)
    IN  /\ n > 0
        /\ \/ n <= Capacity(heap, obj) /\ heap' = Resized(heap, obj, n)
           \/ /\ n > Capacity(heap, obj)
              /\ heap.allocTotal < MaxAllocs
              /\ \E a \in AllocOutcomes(without, own, size) : heap' = Resized(a.heap, a.obj, n)
           \/ n > Capacity(heap, obj) /\ MayFail(without, own, size) /\ heap' = without
        /\ UNCHANGED running

\* ql_realloc to a positive size: in place when the capacity allows it, else by
\* moving; when the host refuses the new block the old object stays.
Realloc(obj, n) ==
    /\ n > 0
    /\ \/ n <= Capacity(heap, obj) /\ heap' = Resized(heap, obj, n)
       \/ /\ n > Capacity(heap, obj)
          /\ heap.allocTotal < MaxAllocs
          /\ \E a \in MoveOutcomes(heap, obj, n) : heap' = a.heap
       \/ /\ n > Capacity(heap, obj)
          /\ MayFail(heap, heap.block[obj[1]].owner, Grown(heap, obj, n))
          /\ UNCHANGED heap
    /\ UNCHANGED running

SetBlock(n) ==
    /\ heap' = [heap EXCEPT !.blockSize = n]
    /\ UNCHANGED running

\* ql_mem_compact, and ql_mem_clear but for the bytes it wipes.
Compact ==
    /\ heap' = RebuildPartial(DropSlabs(heap, {b \in Slabs(heap) : heap.block[b].used = 0}))
    /\ UNCHANGED running

\* A worker about to run a task that no other worker is running.
TaskBegin(t, id) ==
    /\ running[t] = 0
    /\ \A u \in Threads : running[u] # id
    /\ running' = [running EXCEPT ![t] = id]
    /\ UNCHANGED heap

TaskEnd(t) ==
    /\ running[t] # 0
    /\ heap' = RebuildPartial(FreeOwnerLarges(FreeOwnerSlabs(heap, running[t]), running[t]))
    /\ running' = [running EXCEPT ![t] = 0]

Next ==
    \/ \E t \in Threads, n \in Requests : Alloc(t, n)
    \/ \E obj \in Objects(heap) : Free(obj) \/ \E n \in Requests : Realloc(obj, n)
    \/ \E n \in BlockSizes : SetBlock(n)
    \/ Compact
    \/ \E t \in Threads, id \in TaskIds : TaskBegin(t, id)
    \/ \E t \in Threads : TaskEnd(t)

Spec == Init /\ [][Next]_vars

-----------------------------------------------------------------------------
TypeOK ==
    /\ \A b \in Blocks :
         LET r == heap.block[b] IN
         /\ r.kind \in {"host", "slab", "large"}
         /\ r.owner \in Owners /\ r.cls \in Classes \cup {LargeClass}
         /\ {r.size, r.count, r.used, r.bytes} \subseteq Nat
         /\ DOMAIN r.live \subseteq 1 .. r.count
         /\ \A i \in DOMAIN r.live : r.live[i] \in Nat \ {0}
    /\ heap.partial \in [Classes -> SUBSET Blocks]
    /\ heap.current \in [Classes -> Blocks \cup {None}]
    /\ heap.blockSize \in BlockSizes
    /\ {heap.usedTotal, heap.liveTotal, heap.slabBytes, heap.allocTotal, heap.reuse,
        heap.newBlocks, heap.slabCount, heap.largeCount} \subseteq Nat
    /\ running \in [Threads -> Owners]

-----------------------------------------------------------------------------
(* Properties.                                                              *)

Occupied(h) == {b \in Blocks : h.block[b].used > 0}

\* ql_mem_check_locked's counters: after any sequence of operations of several
\* owners, every counter kept incrementally equals what a walk over the blocks
\* finds, so the fragmentation and the occupancy reported are the true ones.
AccountingExact ==
    /\ heap.allocTotal = heap.reuse + heap.newBlocks
    /\ \A b \in Slabs(heap) \cup Larges(heap) :
         LET r == heap.block[b] IN
         /\ r.used = Cardinality(DOMAIN r.live)
         /\ r.bytes = SumOf(r.live)
    /\ heap.slabCount = Cardinality(Slabs(heap))
    /\ heap.largeCount = Cardinality(Larges(heap))
    /\ heap.slabBytes = SizeOf(heap, Slabs(heap))
    /\ heap.liveTotal = SizeOf(heap, Occupied(heap))
    /\ heap.usedTotal = BytesOf(heap, Occupied(heap))

\* ql_mem_check_locked's lists: exactly the slabs with a free slot are on the
\* partial list of their class, and the cached slab is one of them.  A cached
\* slab that a task's end or a compaction gave back would be used after free.
ListsExact ==
    \A c \in Classes :
        /\ heap.partial[c] = {b \in Slabs(heap) : heap.block[b].cls = c /\ HasRoom(heap.block[b])}
        /\ heap.current[c] # None => heap.current[c] \in heap.partial[c]

\* Every object fits where it is, a moved or shrunk one too, and every slot of
\* a slab lies inside it.
ObjectsFit ==
    /\ \A obj \in Objects(heap) : Requested(heap, obj) <= Capacity(heap, obj)
    /\ \A b \in Slabs(heap) :
         LET r == heap.block[b] IN
         r.count > 0 /\ SlabHdr + r.count * Stride(r.cls) <= r.size

\* A slab that gained an object was, of the slabs of its owner and class with a
\* free slot, one of the least occupied: the cached slab is no exception.
LeastOccupiedFirst ==
    [][\A b \in Slabs(heap) :
          heap'.block[b].used > heap.block[b].used =>
              \A s \in Slabs(heap) :
                  /\ heap.block[s].owner = heap.block[b].owner
                  /\ heap.block[s].cls = heap.block[b].cls
                  /\ HasRoom(heap.block[s])
                  => heap.block[b].used <= heap.block[s].used]_vars

\* What the program sees: objects with an owner and a size.
Live == [obj \in Objects(heap) |->
           [owner |-> heap.block[obj[1]].owner, size |-> Requested(heap, obj)]]

Store == INSTANCE BlockStore WITH
            live <- Live, Names <- Blocks \X (1 .. MaxSlots), Sizes <- Requests \cup {1}

\* The allocator is a store of objects: each operation does to the objects what
\* it says and nothing else.  No allocation hands out a live object, compaction
\* and block-size changes touch none, and a task's end takes exactly its own.
ImplementsStore == Store!Spec

\* ql_realloc never costs the program its object: whatever the host answers, a
\* call resizes it, moves it to a new name for the same owner, or leaves it and
\* every other object, free slot and counter as they were.
ReallocKeepsObject ==
    [][\A obj \in Objects(heap), n \in Requests :
          Realloc(obj, n) =>
              \/ UNCHANGED heap
              \/ Store!Resize(obj, n)
              \/ \E new \in Objects(heap') : Store!Move(obj, new, n)]_vars
=============================================================================

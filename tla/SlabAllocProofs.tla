--------------------------- MODULE SlabAllocProofs ---------------------------
(***************************************************************************)
(* Proofs about SlabAlloc, for any threads, tasks, blocks, size classes,   *)
(* headers and requests.                                                   *)
(***************************************************************************)
EXTENDS SlabAlloc, DataLemmas

Lives == UNION {[D -> Nat \ {0}] : D \in SUBSET Nat}

Block == [kind : {"host", "slab", "large"}, owner : Owners, cls : Classes \cup {LargeClass},
          size : Nat, count : Nat, used : Nat, bytes : Nat, live : Lives]

\* The shape of the heap.  What is counted down is a number here, that it is no
\* negative one follows from what it counts.
Heap == [block : [Blocks -> Block], partial : [Classes -> SUBSET Blocks],
         current : [Classes -> Blocks \cup {None}], blockSize : BlockSizes,
         usedTotal : Int, liveTotal : Int, slabBytes : Int,
         allocTotal : Nat, reuse : Nat, newBlocks : Nat,
         slabCount : Int, largeCount : Int]

\* What a block of each kind is.
SlabOk(r) ==
    r.kind = "slab" =>
        /\ r.cls \in Classes /\ r.count > 0
        /\ SlabHdr + r.count * Stride(r.cls) <= r.size
        /\ \A i \in DOMAIN r.live : r.live[i] <= ClassSize[r.cls]

LargeOk(r) ==
    r.kind = "large" =>
        /\ r.count = 1 /\ DOMAIN r.live = {1}
        /\ r.live[1] <= r.size - LargeHdr - ObjHdr

BlockOk(r) ==
    /\ SlabOk(r) /\ LargeOk(r)
    /\ r.kind = "host" => DOMAIN r.live = {} /\ r.used = 0
    /\ DOMAIN r.live \subseteq 1 .. r.count /\ r.count <= MaxSlots
    /\ r.used = Cardinality(DOMAIN r.live)
    /\ r.bytes = SumOf(r.live)

\* The counters of the heap, each of what it counts.
Counted(h) ==
    /\ h.slabCount = Cardinality(Slabs(h))
    /\ h.largeCount = Cardinality(Larges(h))
    /\ h.slabBytes = SizeOf(h, Slabs(h))
    /\ h.liveTotal = SizeOf(h, Occupied(h))
    /\ h.usedTotal = BytesOf(h, Occupied(h))

Listed(h, b) == h.block[b].kind = "slab" /\ HasRoom(h.block[b])

Lists(h) ==
    \A c \in Classes :
        /\ \A b \in Blocks : b \in h.partial[c] <=> Listed(h, b) /\ h.block[b].cls = c
        /\ h.current[c] # None => h.current[c] \in h.partial[c]

Balanced(h) == h.allocTotal = h.reuse + h.newBlocks

Sound(h) == h \in Heap /\ (\A b \in Blocks : BlockOk(h.block[b])) /\ Counted(h)
Good(h) == Sound(h) /\ Lists(h) /\ Balanced(h)

HInv == Good(heap) /\ running \in [Threads -> Owners]

-----------------------------------------------------------------------------
(* Sizes.                                                                   *)

LEMMA Sizes ==
    /\ Classes \subseteq Nat \ {0} /\ 1 \in Classes /\ IsFiniteSet(Classes)
    /\ \A c \in Classes : ClassSize[c] \in Nat \ {0}
    /\ Align \in Nat \ {0} /\ ObjHdr \in Nat /\ SlabHdr \in Nat /\ LargeHdr \in Nat
    /\ BlockSizes \subseteq Nat \ {0} /\ Requests \subseteq Nat /\ MaxAllocs \in Nat /\ MaxSlots \in Nat
    /\ TaskIds \subseteq Nat \ {0} /\ None \notin Blocks /\ IsFiniteSet(Blocks)
    /\ 0 \in Owners /\ TaskIds \subseteq Owners
<1>1. Len(ClassSize) \in Nat /\ Len(ClassSize) > 0
  BY SizesAssumption
<1>2. IsFiniteSet(Classes)
  BY <1>1, FS_Interval DEF Classes
<1>. QED
  BY <1>1, <1>2, SizesAssumption, IdsAssumption, FiniteAssumption, SlotsAssumption
     DEF Classes, Owners

\* A quotient, multiplied again, is the number less a remainder.
LEMMA Quotient ==
    ASSUME NEW m \in Nat, NEW d \in Nat \ {0}
    PROVE  /\ m \div d \in Nat
           /\ (m \div d) * d <= m /\ m < (m \div d) * d + d
OBVIOUS

LEMMA RoundsUp ==
    ASSUME NEW n \in Nat
    PROVE  RoundUp(n) \in Nat /\ n <= RoundUp(n)
<1>. DEFINE q == (n + Align - 1) \div Align
<1>1. n + Align - 1 \in Nat /\ Align \in Nat \ {0}
  BY Sizes
<1>2. /\ q \in Nat /\ n + Align - 1 < q * Align + Align
  BY <1>1, Quotient
<1>3. q * Align \in Nat
  BY <1>1, <1>2
<1>. HIDE DEF q
<1>. QED
  BY <1>1, <1>2, <1>3 DEF RoundUp, q

LEMMA StrideType ==
    ASSUME NEW c \in Classes
    PROVE  Stride(c) \in Nat \ {0}
<1>1. ObjHdr + ClassSize[c] \in Nat \ {0}
  BY Sizes
<1>. QED
  BY <1>1, RoundsUp DEF Stride

\* A slab holds its header and as many slots as it is given, and one at least.
LEMMA SlotsFit ==
    ASSUME NEW n \in BlockSizes, NEW c \in Classes
    PROVE  LET size == SlabSize(n, c)
               count == SlotCount(size, c)
           IN  /\ size \in Nat /\ count \in Nat /\ count > 0 /\ count <= MaxSlots
               /\ SlabHdr + count * Stride(c) <= size
<1>. DEFINE size == SlabSize(n, c)
            count == SlotCount(size, c)
            d == Stride(c)
<1>1. d \in Nat \ {0} /\ n \in Nat /\ SlabHdr \in Nat
  BY StrideType, Sizes
<1>2. size \in Nat /\ SlabHdr + d <= size
  <2>1. ASSUME NEW m \in Nat, m >= SlabHdr + d
        PROVE  RoundUp(m) \in Nat /\ SlabHdr + d <= RoundUp(m)
    BY <1>1, <2>1, RoundsUp
  <2>. HIDE DEF d
  <2>. QED
    BY <1>1, <2>1 DEF SlabSize, d
<1>. HIDE DEF size, d
<1>3. size - SlabHdr \in Nat /\ size - SlabHdr >= d
  BY <1>1, <1>2
<1>4. count = (size - SlabHdr) \div d
  BY DEF SlotCount, d
<1>. HIDE DEF count
<1>5. /\ count \in Nat /\ count * d <= size - SlabHdr
      /\ size - SlabHdr < count * d + d
  BY <1>1, <1>3, <1>4, Quotient
<1>6. count # 0
  BY <1>1, <1>3, <1>5
<1>7. count * d \in Nat
  BY <1>1, <1>5
<1>8. count <= MaxSlots
  BY SlotsAssumption DEF count, size
<1>. QED
  BY <1>1, <1>2, <1>5, <1>6, <1>7, <1>8 DEF size, count, d

LEMMA OneSlot == MaxSlots > 0
<1>1. PICK n \in BlockSizes : TRUE
  BY SizesAssumption
<1>2. PICK k \in Nat : k > 0 /\ k <= MaxSlots
  BY <1>1, Sizes, SlotsFit
<1>. QED
  BY <1>2, Sizes

\* Every set of numbers has a least one.
LEMMA Least ==
    ASSUME NEW S \in SUBSET Nat, S # {}
    PROVE  \E n \in S : \A k \in S : n <= k
<1>. DEFINE R == OpToRel(<, Nat)
<1>1. IsWellFoundedOn(R, Nat)
  BY NatLessThanWellFounded DEF IsWellFoundedOn, OpToRel
<1>. HIDE DEF R
<1>2. PICK n \in S : \A k \in S : ~(<<k, n>> \in R)
  BY <1>1, WFMin
<1>3. ASSUME NEW k \in S
      PROVE  n <= k
  <2>1. ~(k < n)
    BY <1>2 DEF R, OpToRel
  <2>. QED
    BY <2>1
<1>. QED
  BY <1>3

\* A request goes to a class it fits in, or to none.
LEMMA ClassFits ==
    ASSUME NEW n \in Nat
    PROVE  \/ ClassOf(n) = LargeClass
           \/ ClassOf(n) \in Classes /\ n <= ClassSize[ClassOf(n)] /\ ClassOf(n) # LargeClass
<1>1. CASE Fits(n) = {}
  BY <1>1 DEF ClassOf
<1>2. CASE Fits(n) # {}
  <2>1. Fits(n) \subseteq Classes /\ Fits(n) \in SUBSET Nat /\ 0 \notin Classes
    BY Sizes DEF Fits
  <2>2. \E c \in Fits(n) : \A d \in Fits(n) : c <= d
    BY <1>2, <2>1, Least
  <2>3. ClassOf(n) \in Fits(n)
    BY <1>2, <2>2 DEF ClassOf
  <2>. QED
    BY <2>1, <2>3 DEF Fits, LargeClass
<1>. QED
  BY <1>1, <1>2

-----------------------------------------------------------------------------
(* Slots.                                                                   *)

LEMMA LiveType ==
    ASSUME NEW r \in Block, BlockOk(r)
    PROVE  /\ r.live \in [DOMAIN r.live -> Nat \ {0}]
           /\ IsFiniteSet(DOMAIN r.live) /\ DOMAIN r.live \subseteq Nat
           /\ r.used \in Nat /\ r.bytes \in Nat /\ r.count \in Nat /\ r.size \in Nat
<1>1. r.live \in [DOMAIN r.live -> Nat \ {0}]
  BY DEF Block, Lives
<1>2. IsFiniteSet(DOMAIN r.live) /\ DOMAIN r.live \subseteq Nat
  <2>1. IsFiniteSet(1 .. r.count) /\ 1 .. r.count \subseteq Nat
    BY FS_Interval DEF Block
  <2>. QED
    BY <2>1, FS_Subset DEF BlockOk
<1>. QED
  BY <1>1, <1>2 DEF Block

\* A block without objects holds no bytes.
LEMMA EmptyBytes ==
    ASSUME NEW r \in Block, BlockOk(r), r.used = 0
    PROVE  r.bytes = 0
<1>1. DOMAIN r.live = {}
  BY LiveType, FS_EmptySet DEF BlockOk
<1>2. r.live \in [{} -> Nat]
  BY <1>1, LiveType
<1>. QED
  BY <1>2, SumEmpty DEF BlockOk

LEMMA SlotTaken ==
    ASSUME NEW r \in Block, BlockOk(r), NEW i \in FreeSlots(r), NEW n \in Nat \ {0}
    PROVE  LET L == Extend(r.live, i, n)
           IN  /\ L \in Lives /\ DOMAIN L = DOMAIN r.live \cup {i}
               /\ L[i] = n /\ \A j \in DOMAIN r.live : L[j] = r.live[j]
               /\ Cardinality(DOMAIN L) = r.used + 1
               /\ SumOf(L) = r.bytes + n
               /\ i \notin DOMAIN r.live /\ i \in 1 .. r.count
<1>. DEFINE L == Extend(r.live, i, n)
<1>0. /\ r.live \in [DOMAIN r.live -> Nat \ {0}]
      /\ IsFiniteSet(DOMAIN r.live) /\ DOMAIN r.live \subseteq Nat
      /\ i \notin DOMAIN r.live /\ i \in 1 .. r.count /\ i \in Nat
  BY LiveType DEF FreeSlots, Block
<1>1. /\ DOMAIN L = DOMAIN r.live \cup {i}
      /\ L[i] = n /\ \A j \in DOMAIN r.live : L[j] = r.live[j]
      /\ L \in [DOMAIN r.live \cup {i} -> Nat \ {0}]
  BY <1>0 DEF Extend
<1>. HIDE DEF L
<1>2. L \in Lives
  BY <1>0, <1>1 DEF Lives
<1>3. IsFiniteSet(DOMAIN r.live \cup {i}) /\ Cardinality(DOMAIN L) = r.used + 1
  BY <1>0, <1>1, FS_AddElement DEF BlockOk
<1>4. SumOf(L) + At(r.live, i) = SumOf(r.live) + At(L, i) /\ SumOf(L) \in Nat /\ SumOf(r.live) \in Nat
  <2>1. /\ r.live \in [DOMAIN r.live -> Nat] /\ L \in [DOMAIN r.live \cup {i} -> Nat]
    BY <1>0, <1>1
  <2>2. \A x : x # i => /\ x \in DOMAIN r.live <=> x \in DOMAIN r.live \cup {i}
                        /\ x \in DOMAIN r.live => r.live[x] = L[x]
    BY <1>1
  <2>. QED
    BY <1>0, <1>3, <2>1, <2>2, SumUpdate
<1>5. At(r.live, i) = 0 /\ At(L, i) = n
  BY <1>0, <1>1 DEF At
<1>6. SumOf(L) = r.bytes + n
  BY <1>4, <1>5 DEF BlockOk
<1>. QED
  BY <1>0, <1>1, <1>2, <1>3, <1>6 DEF L

LEMMA SlotGiven ==
    ASSUME NEW r \in Block, BlockOk(r), NEW i \in DOMAIN r.live
    PROVE  LET L == Without(r.live, i)
           IN  /\ L \in Lives /\ DOMAIN L = DOMAIN r.live \ {i}
               /\ \A j \in DOMAIN L : L[j] = r.live[j]
               /\ r.used > 0 /\ Cardinality(DOMAIN L) = r.used - 1
               /\ SumOf(L) = r.bytes - r.live[i] /\ SumOf(L) \in Nat
               /\ r.live[i] \in Nat \ {0}
<1>. DEFINE L == Without(r.live, i)
<1>0. /\ r.live \in [DOMAIN r.live -> Nat \ {0}]
      /\ IsFiniteSet(DOMAIN r.live) /\ DOMAIN r.live \subseteq Nat
  BY LiveType
<1>1. /\ DOMAIN L = DOMAIN r.live \ {i}
      /\ \A j \in DOMAIN L : L[j] = r.live[j]
      /\ L \in [DOMAIN r.live \ {i} -> Nat \ {0}]
  BY <1>0 DEF Without
<1>. HIDE DEF L
<1>2. L \in Lives
  BY <1>0, <1>1 DEF Lives
<1>3. IsFiniteSet(DOMAIN r.live \ {i}) /\ Cardinality(DOMAIN L) = r.used - 1 /\ r.used > 0
  <2>1. Cardinality(DOMAIN r.live \ {i}) = r.used - 1 /\ IsFiniteSet(DOMAIN r.live \ {i})
    BY <1>0, FS_RemoveElement DEF BlockOk
  <2>2. r.used \in Nat /\ r.used - 1 \in Nat
    BY <2>1, FS_CardinalityType DEF Block
  <2>. QED
    BY <1>1, <2>1, <2>2
<1>4. SumOf(L) + At(r.live, i) = SumOf(r.live) + At(L, i) /\ SumOf(L) \in Nat /\ SumOf(r.live) \in Nat
  <2>1. /\ r.live \in [DOMAIN r.live -> Nat] /\ L \in [DOMAIN r.live \ {i} -> Nat]
    BY <1>0, <1>1
  <2>2. \A x : x # i => /\ x \in DOMAIN r.live <=> x \in DOMAIN r.live \ {i}
                        /\ x \in DOMAIN r.live => r.live[x] = L[x]
    BY <1>1
  <2>. QED
    BY <1>0, <1>3, <2>1, <2>2, SumUpdate
<1>5. At(r.live, i) = r.live[i] /\ At(L, i) = 0 /\ r.live[i] \in Nat \ {0}
  BY <1>0, <1>1 DEF At
<1>6. SumOf(L) = r.bytes - r.live[i]
  BY <1>4, <1>5 DEF BlockOk
<1>. QED
  BY <1>1, <1>2, <1>3, <1>4, <1>5, <1>6 DEF L

LEMMA SlotResized ==
    ASSUME NEW r \in Block, BlockOk(r), NEW i \in DOMAIN r.live, NEW n \in Nat \ {0}
    PROVE  LET L == [r.live EXCEPT ![i] = n]
           IN  /\ L \in Lives /\ DOMAIN L = DOMAIN r.live
               /\ L[i] = n /\ \A j \in DOMAIN L : j # i => L[j] = r.live[j]
               /\ SumOf(L) = r.bytes - r.live[i] + n /\ SumOf(L) \in Nat
               /\ r.live[i] \in Nat \ {0}
<1>. DEFINE L == [r.live EXCEPT ![i] = n]
<1>0. /\ r.live \in [DOMAIN r.live -> Nat \ {0}]
      /\ IsFiniteSet(DOMAIN r.live) /\ DOMAIN r.live \subseteq Nat
  BY LiveType
<1>1. /\ DOMAIN L = DOMAIN r.live
      /\ L[i] = n /\ \A j \in DOMAIN L : j # i => L[j] = r.live[j]
      /\ L \in [DOMAIN r.live -> Nat \ {0}]
  BY <1>0
<1>. HIDE DEF L
<1>2. L \in Lives
  BY <1>0, <1>1 DEF Lives
<1>4. SumOf(L) + At(r.live, i) = SumOf(r.live) + At(L, i) /\ SumOf(L) \in Nat /\ SumOf(r.live) \in Nat
  <2>1. /\ r.live \in [DOMAIN r.live -> Nat] /\ L \in [DOMAIN r.live -> Nat]
    BY <1>0, <1>1
  <2>2. \A x : x # i => /\ x \in DOMAIN r.live <=> x \in DOMAIN r.live
                        /\ x \in DOMAIN r.live => r.live[x] = L[x]
    BY <1>1
  <2>. QED
    BY <1>0, <2>1, <2>2, SumUpdate
<1>5. At(r.live, i) = r.live[i] /\ At(L, i) = n /\ r.live[i] \in Nat \ {0}
  BY <1>0, <1>1 DEF At
<1>6. SumOf(L) = r.bytes - r.live[i] + n
  BY <1>4, <1>5 DEF BlockOk
<1>. QED
  BY <1>1, <1>2, <1>4, <1>5, <1>6 DEF L

\* What taking a slot, giving one back and resizing an object do to a block.
Taken(r, i, n) == [r EXCEPT !.live = Extend(r.live, i, n), !.used = r.used + 1, !.bytes = r.bytes + n]
Given(r, i) == [r EXCEPT !.live = Without(r.live, i), !.used = r.used - 1,
                         !.bytes = r.bytes - r.live[i]]
Remade(r, i, n) == [r EXCEPT !.live = [r.live EXCEPT ![i] = n],
                             !.bytes = r.bytes - r.live[i] + n]

\* Block q is block r with other objects in it.
SameBlock(r, q) ==
    /\ q.kind = r.kind /\ q.owner = r.owner /\ q.cls = r.cls
    /\ q.size = r.size /\ q.count = r.count

Changed(r, q, used, bytes) ==
    /\ q \in Block /\ BlockOk(q) /\ SameBlock(r, q)
    /\ q.used = used /\ q.bytes = bytes

LEMMA TakenOk ==
    ASSUME NEW r \in Block, BlockOk(r), r.kind = "slab", NEW i \in FreeSlots(r),
           NEW n \in Nat \ {0}, n <= ClassSize[r.cls]
    PROVE  Changed(r, Taken(r, i, n), r.used + 1, r.bytes + n)
<1>. DEFINE L == Extend(r.live, i, n)
            q == Taken(r, i, n)
<1>1. /\ L \in Lives /\ DOMAIN L = DOMAIN r.live \cup {i}
      /\ L[i] = n /\ \A j \in DOMAIN r.live : L[j] = r.live[j]
      /\ Cardinality(DOMAIN L) = r.used + 1
      /\ SumOf(L) = r.bytes + n
      /\ i \notin DOMAIN r.live /\ i \in 1 .. r.count
  BY SlotTaken
<1>. HIDE DEF L
<1>2. r.used + 1 \in Nat /\ r.bytes + n \in Nat
  BY DEF Block
<1>3. q = [r EXCEPT !.live = L, !.used = r.used + 1, !.bytes = r.bytes + n]
  BY DEF Taken, L
<1>. HIDE DEF q
<1>4. /\ q \in Block /\ q.live = L /\ q.used = r.used + 1 /\ q.bytes = r.bytes + n
      /\ SameBlock(r, q)
  BY <1>1, <1>2, <1>3 DEF Block, SameBlock
<1>5. SlabOk(q)
  BY <1>1, <1>4 DEF BlockOk, SlabOk, SameBlock
<1>6. BlockOk(q)
  BY <1>1, <1>4, <1>5 DEF BlockOk, LargeOk, SameBlock
<1>. QED
  BY <1>4, <1>6 DEF Changed, q

LEMMA GivenOk ==
    ASSUME NEW r \in Block, BlockOk(r), r.kind = "slab", NEW i \in DOMAIN r.live
    PROVE  /\ Changed(r, Given(r, i), r.used - 1, r.bytes - r.live[i])
           /\ r.used > 0 /\ r.live[i] \in Nat
<1>. DEFINE L == Without(r.live, i)
            q == Given(r, i)
<1>1. /\ L \in Lives /\ DOMAIN L = DOMAIN r.live \ {i}
      /\ \A j \in DOMAIN L : L[j] = r.live[j]
      /\ r.used > 0 /\ Cardinality(DOMAIN L) = r.used - 1
      /\ SumOf(L) = r.bytes - r.live[i] /\ SumOf(L) \in Nat
      /\ r.live[i] \in Nat \ {0}
  BY SlotGiven
<1>. HIDE DEF L
<1>2. r.used - 1 \in Nat /\ r.bytes - r.live[i] \in Nat
  BY <1>1 DEF Block
<1>3. q = [r EXCEPT !.live = L, !.used = r.used - 1, !.bytes = r.bytes - r.live[i]]
  BY DEF Given, L
<1>. HIDE DEF q
<1>4. /\ q \in Block /\ q.live = L /\ q.used = r.used - 1 /\ q.bytes = r.bytes - r.live[i]
      /\ SameBlock(r, q)
  BY <1>1, <1>2, <1>3 DEF Block, SameBlock
<1>5. SlabOk(q)
  BY <1>1, <1>4 DEF BlockOk, SlabOk, SameBlock
<1>6. BlockOk(q)
  BY <1>1, <1>4, <1>5 DEF BlockOk, LargeOk, SameBlock
<1>. QED
  BY <1>1, <1>4, <1>6 DEF Changed, q

\* The most bytes an object of a block may have.
Holds(r) == IF r.kind = "slab" THEN ClassSize[r.cls] ELSE r.size - LargeHdr - ObjHdr

LEMMA HoldsType ==
    ASSUME NEW r \in Block, BlockOk(r)
    PROVE  Holds(r) \in Int
<1>1. CASE r.kind = "slab"
  <2>1. r.cls \in Classes
    BY <1>1 DEF BlockOk, SlabOk
  <2>2. ClassSize[r.cls] \in Nat
    BY <2>1, Sizes
  <2>. QED
    BY <1>1, <2>2 DEF Holds
<1>2. CASE r.kind # "slab"
  BY <1>2, Sizes DEF Holds, Block
<1>. QED
  BY <1>1, <1>2

LEMMA RemadeOk ==
    ASSUME NEW r \in Block, BlockOk(r), NEW i \in DOMAIN r.live,
           NEW n \in Nat \ {0}, n <= Holds(r)
    PROVE  /\ Changed(r, Remade(r, i, n), r.used, r.bytes - r.live[i] + n)
           /\ r.live[i] \in Nat
<1>. DEFINE L == [r.live EXCEPT ![i] = n]
            q == Remade(r, i, n)
<1>1. /\ L \in Lives /\ DOMAIN L = DOMAIN r.live
      /\ L[i] = n /\ \A j \in DOMAIN L : j # i => L[j] = r.live[j]
      /\ SumOf(L) = r.bytes - r.live[i] + n /\ SumOf(L) \in Nat
      /\ r.live[i] \in Nat \ {0}
  BY SlotResized
<1>. HIDE DEF L
<1>2. r.used \in Nat /\ r.bytes - r.live[i] + n \in Nat
  BY <1>1 DEF Block
<1>3. q = [r EXCEPT !.live = L, !.used = r.used, !.bytes = r.bytes - r.live[i] + n]
  BY DEF Remade, L, Block
<1>. HIDE DEF q
<1>4. /\ q \in Block /\ q.live = L /\ q.used = r.used /\ q.bytes = r.bytes - r.live[i] + n
      /\ SameBlock(r, q)
  BY <1>1, <1>2, <1>3 DEF Block, SameBlock
<1>5. SlabOk(q)
  BY <1>1, <1>4 DEF BlockOk, SlabOk, SameBlock, Holds
<1>6. LargeOk(q)
  BY <1>1, <1>4 DEF BlockOk, LargeOk, SameBlock, Holds
<1>7. BlockOk(q)
  BY <1>1, <1>4, <1>5, <1>6 DEF BlockOk, SameBlock
<1>. QED
  BY <1>1, <1>4, <1>7 DEF Changed, q

-----------------------------------------------------------------------------
(* One block changes.                                                       *)

\* What a block adds to each counter.
SlabCount(r) == IF r.kind = "slab" THEN 1 ELSE 0
LargeCount(r) == IF r.kind = "large" THEN 1 ELSE 0
SlabSpace(r) == IF r.kind = "slab" THEN r.size ELSE 0
LiveSpace(r) == IF r.used > 0 THEN r.size ELSE 0
UsedSpace(r) == IF r.used > 0 THEN r.bytes ELSE 0

LEMMA BlockSets ==
    ASSUME NEW h \in Heap
    PROVE  /\ IsFiniteSet(Slabs(h)) /\ IsFiniteSet(Larges(h)) /\ IsFiniteSet(Occupied(h))
           /\ Slabs(h) \subseteq Blocks /\ Larges(h) \subseteq Blocks /\ Occupied(h) \subseteq Blocks
           /\ \A b \in Blocks : /\ h.block[b] \in Block
                                /\ h.block[b].size \in Nat /\ h.block[b].bytes \in Nat
                                /\ h.block[b].used \in Nat
<1>1. Slabs(h) \subseteq Blocks /\ Larges(h) \subseteq Blocks /\ Occupied(h) \subseteq Blocks
  BY DEF Slabs, Larges, Occupied
<1>2. \A b \in Blocks : h.block[b] \in Block
  BY DEF Heap
<1>. QED
  BY <1>1, <1>2, Sizes, FS_Subset DEF Block

\* When one block changes and each counter by what that block adds, the counters
\* still count.
LEMMA OneBlockCounted ==
    ASSUME NEW h \in Heap, NEW k \in Heap, NEW b \in Blocks, Counted(h),
           \A a \in Blocks : a # b => k.block[a] = h.block[a],
           k.slabCount + SlabCount(h.block[b]) = h.slabCount + SlabCount(k.block[b]),
           k.largeCount + LargeCount(h.block[b]) = h.largeCount + LargeCount(k.block[b]),
           k.slabBytes + SlabSpace(h.block[b]) = h.slabBytes + SlabSpace(k.block[b]),
           k.liveTotal + LiveSpace(h.block[b]) = h.liveTotal + LiveSpace(k.block[b]),
           k.usedTotal + UsedSpace(h.block[b]) = h.usedTotal + UsedSpace(k.block[b])
    PROVE  Counted(k)
<1>0. /\ IsFiniteSet(Slabs(h)) /\ IsFiniteSet(Larges(h)) /\ IsFiniteSet(Occupied(h))
      /\ IsFiniteSet(Slabs(k)) /\ IsFiniteSet(Larges(k)) /\ IsFiniteSet(Occupied(k))
      /\ \A a \in Blocks : /\ h.block[a].size \in Nat /\ h.block[a].bytes \in Nat
                           /\ k.block[a].size \in Nat /\ k.block[a].bytes \in Nat
      /\ Slabs(h) \subseteq Blocks /\ Slabs(k) \subseteq Blocks
      /\ Occupied(h) \subseteq Blocks /\ Occupied(k) \subseteq Blocks
  BY BlockSets
<1>1. /\ k.slabCount \in Int /\ k.largeCount \in Int /\ k.slabBytes \in Int
      /\ k.liveTotal \in Int /\ k.usedTotal \in Int
  BY DEF Heap
<1>2. \A x : x # b => /\ x \in Slabs(h) <=> x \in Slabs(k)
                      /\ x \in Larges(h) <=> x \in Larges(k)
                      /\ x \in Occupied(h) <=> x \in Occupied(k)
  BY DEF Slabs, Larges, Occupied
<1>3. k.slabCount = Cardinality(Slabs(k))
  <2>1. /\ Cardinality(Slabs(h)) \in Nat /\ Cardinality(Slabs(k)) \in Nat
        /\ Cardinality(Slabs(k)) + (IF b \in Slabs(h) THEN 1 ELSE 0)
             = Cardinality(Slabs(h)) + (IF b \in Slabs(k) THEN 1 ELSE 0)
    BY <1>0, <1>2, CardUpdate
  <2>. QED
    BY <1>1, <2>1 DEF Counted, SlabCount, Slabs
<1>4. k.largeCount = Cardinality(Larges(k))
  <2>1. /\ Cardinality(Larges(h)) \in Nat /\ Cardinality(Larges(k)) \in Nat
        /\ Cardinality(Larges(k)) + (IF b \in Larges(h) THEN 1 ELSE 0)
             = Cardinality(Larges(h)) + (IF b \in Larges(k) THEN 1 ELSE 0)
    BY <1>0, <1>2, CardUpdate
  <2>. QED
    BY <1>1, <2>1 DEF Counted, LargeCount, Larges
<1>5. k.slabBytes = SizeOf(k, Slabs(k))
  <2>. DEFINE f == [a \in Slabs(h) |-> h.block[a].size]
              g == [a \in Slabs(k) |-> k.block[a].size]
  <2>1. /\ f \in [Slabs(h) -> Nat] /\ g \in [Slabs(k) -> Nat]
        /\ \A x : x # b => (x \in Slabs(h) => f[x] = g[x])
    BY <1>0, <1>2
  <2>2. At(f, b) = SlabSpace(h.block[b]) /\ At(g, b) = SlabSpace(k.block[b])
    BY DEF At, SlabSpace, Slabs
  <2>. HIDE DEF f, g
  <2>3. /\ SumOf(f) \in Nat /\ SumOf(g) \in Nat
        /\ SumOf(g) + At(f, b) = SumOf(f) + At(g, b)
    BY <1>0, <1>2, <2>1, SumUpdate
  <2>4. h.slabBytes = SumOf(f)
    BY DEF Counted, SizeOf, f
  <2>5. SlabSpace(h.block[b]) \in Nat /\ SlabSpace(k.block[b]) \in Nat
    BY <1>0 DEF SlabSpace
  <2>6. k.slabBytes = SumOf(g)
    BY <1>1, <2>2, <2>3, <2>4, <2>5
  <2>. QED
    BY <2>6 DEF SizeOf, g
<1>6. k.liveTotal = SizeOf(k, Occupied(k))
  <2>. DEFINE f == [a \in Occupied(h) |-> h.block[a].size]
              g == [a \in Occupied(k) |-> k.block[a].size]
  <2>1. /\ f \in [Occupied(h) -> Nat] /\ g \in [Occupied(k) -> Nat]
        /\ \A x : x # b => (x \in Occupied(h) => f[x] = g[x])
    BY <1>0, <1>2
  <2>2. At(f, b) = LiveSpace(h.block[b]) /\ At(g, b) = LiveSpace(k.block[b])
    BY DEF At, LiveSpace, Occupied
  <2>. HIDE DEF f, g
  <2>3. /\ SumOf(f) \in Nat /\ SumOf(g) \in Nat
        /\ SumOf(g) + At(f, b) = SumOf(f) + At(g, b)
    BY <1>0, <1>2, <2>1, SumUpdate
  <2>4. h.liveTotal = SumOf(f)
    BY DEF Counted, SizeOf, f
  <2>5. LiveSpace(h.block[b]) \in Nat /\ LiveSpace(k.block[b]) \in Nat
    BY <1>0 DEF LiveSpace
  <2>6. k.liveTotal = SumOf(g)
    BY <1>1, <2>2, <2>3, <2>4, <2>5
  <2>. QED
    BY <2>6 DEF SizeOf, g
<1>7. k.usedTotal = BytesOf(k, Occupied(k))
  <2>. DEFINE f == [a \in Occupied(h) |-> h.block[a].bytes]
              g == [a \in Occupied(k) |-> k.block[a].bytes]
  <2>1. /\ f \in [Occupied(h) -> Nat] /\ g \in [Occupied(k) -> Nat]
        /\ \A x : x # b => (x \in Occupied(h) => f[x] = g[x])
    BY <1>0, <1>2
  <2>2. At(f, b) = UsedSpace(h.block[b]) /\ At(g, b) = UsedSpace(k.block[b])
    BY DEF At, UsedSpace, Occupied
  <2>. HIDE DEF f, g
  <2>3. /\ SumOf(f) \in Nat /\ SumOf(g) \in Nat
        /\ SumOf(g) + At(f, b) = SumOf(f) + At(g, b)
    BY <1>0, <1>2, <2>1, SumUpdate
  <2>4. h.usedTotal = SumOf(f)
    BY DEF Counted, BytesOf, f
  <2>5. UsedSpace(h.block[b]) \in Nat /\ UsedSpace(k.block[b]) \in Nat
    BY <1>0 DEF UsedSpace
  <2>6. k.usedTotal = SumOf(g)
    BY <1>1, <2>2, <2>3, <2>4, <2>5
  <2>. QED
    BY <2>6 DEF BytesOf, g
<1>. QED
  BY <1>3, <1>4, <1>5, <1>6, <1>7 DEF Counted

-----------------------------------------------------------------------------
(* What each operation on a heap yields, field by field.                    *)

\* A record with the fields of a heap, each of its type, is a heap.
LEMMA HeapIs ==
    ASSUME NEW h \in Heap, NEW k, k = [f \in DOMAIN h |-> k[f]],
           k.block \in [Blocks -> Block],
           k.partial \in [Classes -> SUBSET Blocks],
           k.current \in [Classes -> Blocks \cup {None}],
           k.blockSize \in BlockSizes,
           k.usedTotal \in Int, k.liveTotal \in Int, k.slabBytes \in Int,
           k.allocTotal \in Nat, k.reuse \in Nat, k.newBlocks \in Nat,
           k.slabCount \in Int, k.largeCount \in Int
    PROVE  k \in Heap
<1>1. DOMAIN h = {"block", "partial", "current", "blockSize", "usedTotal", "liveTotal",
                  "slabBytes", "allocTotal", "reuse", "newBlocks", "slabCount", "largeCount"}
  BY DEF Heap
<1>2. k = [block |-> k.block, partial |-> k.partial, current |-> k.current,
           blockSize |-> k.blockSize, usedTotal |-> k.usedTotal, liveTotal |-> k.liveTotal,
           slabBytes |-> k.slabBytes, allocTotal |-> k.allocTotal, reuse |-> k.reuse,
           newBlocks |-> k.newBlocks, slabCount |-> k.slabCount, largeCount |-> k.largeCount]
  BY <1>1
<1>. QED
  BY <1>2 DEF Heap

\* What an operation on blocks alone leaves as it is.
SameLists(h, k) == k.partial = h.partial /\ k.current = h.current
SameCalls(h, k) == k.allocTotal = h.allocTotal /\ k.reuse = h.reuse /\ k.newBlocks = h.newBlocks
SameSlabs(h, k) == k.slabCount = h.slabCount /\ k.slabBytes = h.slabBytes
OthersSame(h, k, b) == \A a \in Blocks : a # b => k.block[a] = h.block[a]
ClassesSame(h, k, c) ==
    \A d \in Classes : d # c => k.partial[d] = h.partial[d] /\ k.current[d] = h.current[d]

\* Heap k is heap h with slot i of slab b taken by n bytes.
Took(h, k, b, i, n) ==
    LET r == h.block[b]
        c == r.cls
        full == r.used + 1 = r.count
    IN /\ k \in Heap
       /\ k.block[b] = Taken(r, i, n)
       /\ OthersSame(h, k, b)
       /\ k.partial[c] = IF full THEN h.partial[c] \ {b} ELSE h.partial[c] \cup {b}
       /\ k.current[c] = IF full /\ h.current[c] = b THEN None ELSE h.current[c]
       /\ ClassesSame(h, k, c)
       /\ k.liveTotal = IF r.used = 0 THEN h.liveTotal + r.size ELSE h.liveTotal
       /\ k.usedTotal = h.usedTotal + n
       /\ k.allocTotal = h.allocTotal + 1 /\ k.reuse = h.reuse /\ k.newBlocks = h.newBlocks
       /\ SameSlabs(h, k) /\ k.largeCount = h.largeCount /\ k.blockSize = h.blockSize

LEMMA TakeSlotFields ==
    ASSUME NEW h \in Heap, NEW b \in Blocks, NEW i, NEW n \in Nat \ {0},
           h.block[b].cls \in Classes, Taken(h.block[b], i, n) \in Block
    PROVE  Took(h, TakeSlot(h, b, i, n), b, i, n)
<1>. DEFINE r == h.block[b]
            c == r.cls
            k == TakeSlot(h, b, i, n)
            full == r.used + 1 = r.count
            rr == Taken(r, i, n)
<1>1. r \in Block
  BY DEF Heap
<1>2. rr \in Block
  OBVIOUS
<1>3. /\ k.block = [h.block EXCEPT ![b] = rr]
      /\ k.partial = [h.partial EXCEPT ![c] = IF full THEN @ \ {b} ELSE @ \cup {b}]
      /\ k.current = [h.current EXCEPT ![c] = IF full /\ @ = b THEN None ELSE @]
  BY <1>1 DEF TakeSlot, Taken, Heap
<1>4. /\ k.liveTotal = IF r.used = 0 THEN h.liveTotal + r.size ELSE h.liveTotal
      /\ k.usedTotal = h.usedTotal + n
      /\ k.allocTotal = h.allocTotal + 1
      /\ k.slabCount = h.slabCount /\ k.largeCount = h.largeCount
      /\ k.slabBytes = h.slabBytes /\ k.reuse = h.reuse /\ k.newBlocks = h.newBlocks
      /\ k.blockSize = h.blockSize
  BY <1>1 DEF TakeSlot, Heap
<1>5. k = [f \in DOMAIN h |-> k[f]]
  BY DEF TakeSlot
<1>. HIDE DEF k
<1>6. k \in Heap
  <2>1. k.block \in [Blocks -> Block] /\ k.partial \in [Classes -> SUBSET Blocks]
        /\ k.current \in [Classes -> Blocks \cup {None}]
    BY <1>2, <1>3 DEF Heap
  <2>2. /\ k.usedTotal \in Int /\ k.liveTotal \in Int /\ k.slabBytes \in Int
        /\ k.allocTotal \in Nat /\ k.reuse \in Nat /\ k.newBlocks \in Nat
        /\ k.slabCount \in Int /\ k.largeCount \in Int /\ k.blockSize \in BlockSizes
    BY <1>1, <1>4 DEF Heap, Block
  <2>. QED
    BY <1>5, <2>1, <2>2, HeapIs
<1>7. k.block[b] = rr /\ OthersSame(h, k, b)
  BY <1>3 DEF Heap, OthersSame
<1>8. /\ k.partial[c] = IF full THEN h.partial[c] \ {b} ELSE h.partial[c] \cup {b}
      /\ k.current[c] = IF full /\ h.current[c] = b THEN None ELSE h.current[c]
      /\ ClassesSame(h, k, c)
  BY <1>3 DEF Heap, ClassesSame
<1>. HIDE DEF r, rr, c, full
<1>. QED
  BY <1>4, <1>6, <1>7, <1>8 DEF Took, k, r, rr, c, full, SameSlabs

\* Block b of heap h is an empty slab in k.
MadeSlab(h, k, b, c, own) ==
    LET size == SlabSize(h.blockSize, c)
        count == SlotCount(size, c)
    IN /\ k \in Heap
       /\ k.block[b] = [kind |-> "slab", owner |-> own, cls |-> c, size |-> size,
                        count |-> count, used |-> 0, bytes |-> 0, live |-> <<>>]
       /\ OthersSame(h, k, b)
       /\ k.partial[c] = IF count > 1 THEN h.partial[c] \cup {b} ELSE h.partial[c]
       /\ k.current[c] = IF count > 1 THEN b ELSE h.current[c]
       /\ ClassesSame(h, k, c)
       /\ k.slabCount = h.slabCount + 1 /\ k.slabBytes = h.slabBytes + size
       /\ k.newBlocks = h.newBlocks + 1 /\ k.allocTotal = h.allocTotal /\ k.reuse = h.reuse
       /\ k.liveTotal = h.liveTotal /\ k.usedTotal = h.usedTotal
       /\ k.largeCount = h.largeCount /\ k.blockSize = h.blockSize

LEMMA NewSlabFields ==
    ASSUME NEW h \in Heap, NEW b \in Blocks, NEW c \in Classes, NEW own \in Owners
    PROVE  MadeSlab(h, NewSlab(h, b, c, own), b, c, own)
<1>. DEFINE k == NewSlab(h, b, c, own)
            size == SlabSize(h.blockSize, c)
            count == SlotCount(size, c)
            r == [kind |-> "slab", owner |-> own, cls |-> c, size |-> size,
                  count |-> count, used |-> 0, bytes |-> 0, live |-> <<>>]
<1>1. h.blockSize \in BlockSizes
  BY DEF Heap
<1>2. size \in Nat /\ count \in Nat
  BY <1>1, SlotsFit
<1>3. r \in Block
  <2>1. <<>> \in Lives
    <3>1. <<>> \in [{} -> Nat \ {0}] /\ {} \in SUBSET Nat
      OBVIOUS
    <3>. QED
      BY <3>1 DEF Lives
  <2>. HIDE DEF size, count
  <2>. QED
    BY <1>2, <2>1 DEF Block
<1>4. /\ k.block = [h.block EXCEPT ![b] = r]
      /\ k.partial = [h.partial EXCEPT ![c] = IF count > 1 THEN @ \cup {b} ELSE @]
      /\ k.current = [h.current EXCEPT ![c] = IF count > 1 THEN b ELSE @]
  BY DEF NewSlab, Heap
<1>5. /\ k.slabCount = h.slabCount + 1 /\ k.slabBytes = h.slabBytes + size
      /\ k.newBlocks = h.newBlocks + 1 /\ k.allocTotal = h.allocTotal /\ k.reuse = h.reuse
      /\ k.liveTotal = h.liveTotal /\ k.usedTotal = h.usedTotal
      /\ k.largeCount = h.largeCount /\ k.blockSize = h.blockSize
  BY DEF NewSlab, Heap
<1>6. k = [f \in DOMAIN h |-> k[f]]
  BY DEF NewSlab
<1>. HIDE DEF k, r, size, count
<1>7. k \in Heap
  <2>1. k.block \in [Blocks -> Block] /\ k.partial \in [Classes -> SUBSET Blocks]
        /\ k.current \in [Classes -> Blocks \cup {None}]
    BY <1>3, <1>4 DEF Heap
  <2>2. /\ k.usedTotal \in Int /\ k.liveTotal \in Int /\ k.slabBytes \in Int
        /\ k.allocTotal \in Nat /\ k.reuse \in Nat /\ k.newBlocks \in Nat
        /\ k.slabCount \in Int /\ k.largeCount \in Int /\ k.blockSize \in BlockSizes
    BY <1>2, <1>5 DEF Heap
  <2>. QED
    BY <1>6, <2>1, <2>2, HeapIs
<1>8. /\ k.block[b] = r /\ OthersSame(h, k, b) /\ ClassesSame(h, k, c)
      /\ k.partial[c] = IF count > 1 THEN h.partial[c] \cup {b} ELSE h.partial[c]
      /\ k.current[c] = IF count > 1 THEN b ELSE h.current[c]
  BY <1>4 DEF Heap, OthersSame, ClassesSame
<1>. QED
  BY <1>5, <1>7, <1>8 DEF MadeSlab, k, r, size, count

\* Live maps of a new block.
LEMMA NewLives ==
    /\ <<>> \in Lives /\ DOMAIN <<>> = {} /\ SumOf(<<>>) = 0
    /\ \A n \in Nat \ {0} : /\ <<n>> \in Lives /\ DOMAIN <<n>> = {1} /\ <<n>>[1] = n
                            /\ SumOf(<<n>>) = n
<1>1. <<>> \in [{} -> Nat \ {0}] /\ <<>> \in [{} -> Nat] /\ {} \in SUBSET Nat
  OBVIOUS
<1>2. SumOf(<<>>) = 0
  BY <1>1, SumEmpty
<1>3. ASSUME NEW n \in Nat \ {0}
      PROVE  /\ <<n>> \in Lives /\ DOMAIN <<n>> = {1} /\ <<n>>[1] = n
             /\ SumOf(<<n>>) = n
  <2>1. /\ <<n>> \in [{1} -> Nat \ {0}] /\ <<n>> \in [{1} -> Nat] /\ {1} \in SUBSET Nat
        /\ <<n>>[1] = n
    OBVIOUS
  <2>2. SumOf(<<n>>) = <<n>>[1]
    BY <2>1, SumSingle
  <2>. QED
    BY <2>1, <2>2 DEF Lives
<1>. QED
  BY <1>1, <1>2, <1>3 DEF Lives

LEMMA UnusedBlock == Unused \in Block
<1>1. 0 \in Owners /\ <<>> \in Lives
  BY Sizes, NewLives
<1>. QED
  BY <1>1 DEF Unused, Block, LargeClass

\* Block b of heap h is a large object of n bytes in k.
MadeLarge(h, k, b, n, own) ==
    LET total == LargeHdr + ObjHdr + RoundUp(n)
    IN /\ k \in Heap /\ total \in Nat
       /\ k.block[b] = [kind |-> "large", owner |-> own, cls |-> LargeClass,
                        size |-> total, count |-> 1, used |-> 1, bytes |-> n, live |-> <<n>>]
       /\ OthersSame(h, k, b) /\ SameLists(h, k) /\ SameSlabs(h, k)
       /\ k.largeCount = h.largeCount + 1 /\ k.newBlocks = h.newBlocks + 1
       /\ k.allocTotal = h.allocTotal + 1 /\ k.reuse = h.reuse
       /\ k.liveTotal = h.liveTotal + total /\ k.usedTotal = h.usedTotal + n

LEMMA NewLargeFields ==
    ASSUME NEW h \in Heap, NEW b \in Blocks, NEW n \in Nat \ {0}, NEW own \in Owners
    PROVE  MadeLarge(h, NewLarge(h, b, n, own), b, n, own)
<1>. DEFINE k == NewLarge(h, b, n, own)
            total == LargeHdr + ObjHdr + RoundUp(n)
            r == [kind |-> "large", owner |-> own, cls |-> LargeClass,
                  size |-> total, count |-> 1, used |-> 1, bytes |-> n, live |-> <<n>>]
<1>1. total \in Nat
  <2>1. RoundUp(n) \in Nat /\ LargeHdr \in Nat /\ ObjHdr \in Nat
    BY Sizes, RoundsUp
  <2>. QED
    BY <2>1
<1>2. r \in Block
  <2>1. <<n>> \in Lives
    BY NewLives
  <2>. HIDE DEF total
  <2>. QED
    BY <1>1, <2>1 DEF Block
<1>3. k.block = [h.block EXCEPT ![b] = r] /\ SameLists(h, k)
  BY DEF NewLarge, Heap, SameLists
<1>4. /\ k.largeCount = h.largeCount + 1 /\ k.newBlocks = h.newBlocks + 1
      /\ k.allocTotal = h.allocTotal + 1 /\ k.reuse = h.reuse
      /\ k.liveTotal = h.liveTotal + total /\ k.usedTotal = h.usedTotal + n
      /\ k.slabCount = h.slabCount /\ k.slabBytes = h.slabBytes /\ k.blockSize = h.blockSize
  BY DEF NewLarge, Heap
<1>5. k = [f \in DOMAIN h |-> k[f]]
  BY DEF NewLarge
<1>. HIDE DEF k, r, total
<1>6. k \in Heap
  <2>1. k.block \in [Blocks -> Block] /\ k.partial \in [Classes -> SUBSET Blocks]
        /\ k.current \in [Classes -> Blocks \cup {None}]
    BY <1>2, <1>3 DEF Heap, SameLists
  <2>2. /\ k.usedTotal \in Int /\ k.liveTotal \in Int /\ k.slabBytes \in Int
        /\ k.allocTotal \in Nat /\ k.reuse \in Nat /\ k.newBlocks \in Nat
        /\ k.slabCount \in Int /\ k.largeCount \in Int /\ k.blockSize \in BlockSizes
    BY <1>1, <1>4 DEF Heap
  <2>. QED
    BY <1>5, <2>1, <2>2, HeapIs
<1>7. k.block[b] = r /\ OthersSame(h, k, b)
  BY <1>3 DEF Heap, OthersSame
<1>. QED
  BY <1>1, <1>3, <1>4, <1>6, <1>7 DEF MadeLarge, k, r, total, SameSlabs

\* Heap k is heap h with slot i of slab b given back.
Gave(h, k, b, i) ==
    LET r == h.block[b]
        c == r.cls
    IN /\ k \in Heap
       /\ k.block[b] = Given(r, i)
       /\ OthersSame(h, k, b)
       /\ k.partial[c] = h.partial[c] \cup {b} /\ k.current = h.current
       /\ ClassesSame(h, k, c)
       /\ k.liveTotal = IF r.used = 1 THEN h.liveTotal - r.size ELSE h.liveTotal
       /\ k.usedTotal = h.usedTotal - r.live[i]
       /\ SameCalls(h, k) /\ SameSlabs(h, k) /\ k.largeCount = h.largeCount

LEMMA FreeSlotFields ==
    ASSUME NEW h \in Heap, NEW b \in Blocks, NEW i, h.block[b].cls \in Classes,
           Given(h.block[b], i) \in Block, h.block[b].live[i] \in Nat
    PROVE  Gave(h, FreeSlot(h, b, i), b, i)
<1>. DEFINE r == h.block[b]
            c == r.cls
            k == FreeSlot(h, b, i)
            rr == Given(r, i)
<1>1. r \in Block
  BY DEF Heap
<1>2. rr \in Block
  OBVIOUS
<1>3. /\ k.block = [h.block EXCEPT ![b] = rr]
      /\ k.partial = [h.partial EXCEPT ![c] = @ \cup {b}]
      /\ k.current = h.current
  BY <1>1 DEF FreeSlot, Given, Heap
<1>4. /\ k.liveTotal = IF r.used = 1 THEN h.liveTotal - r.size ELSE h.liveTotal
      /\ k.usedTotal = h.usedTotal - r.live[i]
      /\ k.allocTotal = h.allocTotal
      /\ k.slabCount = h.slabCount /\ k.largeCount = h.largeCount
      /\ k.slabBytes = h.slabBytes /\ k.reuse = h.reuse /\ k.newBlocks = h.newBlocks
      /\ k.blockSize = h.blockSize
  BY <1>1 DEF FreeSlot, Heap
<1>5. k = [f \in DOMAIN h |-> k[f]]
  BY DEF FreeSlot
<1>. HIDE DEF k
<1>6. k \in Heap
  <2>1. k.block \in [Blocks -> Block] /\ k.partial \in [Classes -> SUBSET Blocks]
        /\ k.current \in [Classes -> Blocks \cup {None}]
    BY <1>2, <1>3 DEF Heap
  <2>2. /\ k.usedTotal \in Int /\ k.liveTotal \in Int /\ k.slabBytes \in Int
        /\ k.allocTotal \in Nat /\ k.reuse \in Nat /\ k.newBlocks \in Nat
        /\ k.slabCount \in Int /\ k.largeCount \in Int /\ k.blockSize \in BlockSizes
    BY <1>1, <1>4 DEF Heap, Block
  <2>. QED
    BY <1>5, <2>1, <2>2, HeapIs
<1>7. k.block[b] = rr /\ OthersSame(h, k, b)
  BY <1>3 DEF Heap, OthersSame
<1>8. k.partial[c] = h.partial[c] \cup {b} /\ ClassesSame(h, k, c)
  BY <1>3 DEF Heap, ClassesSame
<1>. HIDE DEF r, rr, c
<1>. QED
  BY <1>3, <1>4, <1>6, <1>7, <1>8 DEF Gave, k, r, rr, c, SameSlabs, SameCalls

\* Heap k is heap h with the large object b given back.
GaveBlock(h, k, b) ==
       /\ k \in Heap /\ k.block[b] = Unused /\ OthersSame(h, k, b)
       /\ SameLists(h, k) /\ SameCalls(h, k) /\ SameSlabs(h, k)
       /\ k.largeCount = h.largeCount - 1
       /\ k.liveTotal = h.liveTotal - h.block[b].size
       /\ k.usedTotal = h.usedTotal - h.block[b].bytes

LEMMA FreeLargeFields ==
    ASSUME NEW h \in Heap, NEW b \in Blocks
    PROVE  GaveBlock(h, FreeLarge(h, b), b)
<1>. DEFINE k == FreeLarge(h, b)
<1>1. h.block[b] \in Block
  BY DEF Heap
<1>2. k.block = [h.block EXCEPT ![b] = Unused] /\ SameLists(h, k)
  BY DEF FreeLarge, Heap, SameLists
<1>3. /\ k.largeCount = h.largeCount - 1 /\ k.liveTotal = h.liveTotal - h.block[b].size
      /\ k.usedTotal = h.usedTotal - h.block[b].bytes
      /\ k.allocTotal = h.allocTotal /\ k.reuse = h.reuse /\ k.newBlocks = h.newBlocks
      /\ k.slabCount = h.slabCount /\ k.slabBytes = h.slabBytes /\ k.blockSize = h.blockSize
  BY DEF FreeLarge, Heap
<1>4. k = [f \in DOMAIN h |-> k[f]]
  BY DEF FreeLarge
<1>. HIDE DEF k
<1>5. k \in Heap
  <2>1. k.block \in [Blocks -> Block] /\ k.partial \in [Classes -> SUBSET Blocks]
        /\ k.current \in [Classes -> Blocks \cup {None}]
    BY <1>2, UnusedBlock DEF Heap, SameLists
  <2>2. /\ k.usedTotal \in Int /\ k.liveTotal \in Int /\ k.slabBytes \in Int
        /\ k.allocTotal \in Nat /\ k.reuse \in Nat /\ k.newBlocks \in Nat
        /\ k.slabCount \in Int /\ k.largeCount \in Int /\ k.blockSize \in BlockSizes
    BY <1>1, <1>3 DEF Heap, Block
  <2>. QED
    BY <1>4, <2>1, <2>2, HeapIs
<1>6. k.block[b] = Unused /\ OthersSame(h, k, b)
  BY <1>2 DEF Heap, OthersSame
<1>. QED
  BY <1>2, <1>3, <1>5, <1>6 DEF GaveBlock, k, SameSlabs, SameCalls

\* Heap k is heap h with n bytes asked for object i of block b.
Resizes(h, k, b, i, n) ==
    LET r == h.block[b]
    IN /\ k \in Heap
       /\ k.block[b] = Remade(r, i, n)
       /\ OthersSame(h, k, b) /\ SameLists(h, k) /\ SameCalls(h, k) /\ SameSlabs(h, k)
       /\ k.largeCount = h.largeCount /\ k.liveTotal = h.liveTotal
       /\ k.usedTotal = h.usedTotal - r.live[i] + n

LEMMA ResizedFields ==
    ASSUME NEW h \in Heap, NEW b \in Blocks, NEW i, NEW n \in Nat,
           Remade(h.block[b], i, n) \in Block, h.block[b].live[i] \in Nat
    PROVE  Resizes(h, Resized(h, <<b, i>>, n), b, i, n)
<1>. DEFINE r == h.block[b]
            k == Resized(h, <<b, i>>, n)
            rr == Remade(r, i, n)
<1>1. r \in Block
  BY DEF Heap
<1>2. rr \in Block
  OBVIOUS
<1>3. k.block = [h.block EXCEPT ![b] = rr] /\ SameLists(h, k)
  BY <1>1 DEF Resized, Requested, Remade, Heap, SameLists
<1>4. /\ k.liveTotal = h.liveTotal /\ k.usedTotal = h.usedTotal - r.live[i] + n
      /\ k.allocTotal = h.allocTotal /\ k.reuse = h.reuse /\ k.newBlocks = h.newBlocks
      /\ k.slabCount = h.slabCount /\ k.largeCount = h.largeCount
      /\ k.slabBytes = h.slabBytes /\ k.blockSize = h.blockSize
  BY DEF Resized, Requested, Heap
<1>5. k = [f \in DOMAIN h |-> k[f]]
  BY DEF Resized
<1>. HIDE DEF k
<1>6. k \in Heap
  <2>1. k.block \in [Blocks -> Block] /\ k.partial \in [Classes -> SUBSET Blocks]
        /\ k.current \in [Classes -> Blocks \cup {None}]
    BY <1>2, <1>3 DEF Heap, SameLists
  <2>2. /\ k.usedTotal \in Int /\ k.liveTotal \in Int /\ k.slabBytes \in Int
        /\ k.allocTotal \in Nat /\ k.reuse \in Nat /\ k.newBlocks \in Nat
        /\ k.slabCount \in Int /\ k.largeCount \in Int /\ k.blockSize \in BlockSizes
    BY <1>1, <1>4 DEF Heap, Block
  <2>. QED
    BY <1>5, <2>1, <2>2, HeapIs
<1>7. k.block[b] = rr /\ OthersSame(h, k, b)
  BY <1>3 DEF Heap, OthersSame
<1>. HIDE DEF r, rr
<1>. QED
  BY <1>3, <1>4, <1>6, <1>7 DEF Resizes, k, r, rr, SameSlabs, SameCalls

-----------------------------------------------------------------------------
(* The operations keep the heap sound.                                      *)

\* A slab has room when its count of objects says so.
LEMMA RoomCounts ==
    ASSUME NEW r \in Block, BlockOk(r)
    PROVE  /\ HasRoom(r) <=> r.used # r.count
           /\ r.used <= r.count
<1>1. IsFiniteSet(1 .. r.count) /\ Cardinality(1 .. r.count) = r.count
  <2>1. r.count \in Int /\ (1 > r.count => r.count = 0) /\ r.count - 1 + 1 = r.count
    BY DEF Block
  <2>. QED
    BY <2>1, FS_Interval
<1>2. /\ DOMAIN r.live \in SUBSET (1 .. r.count) /\ r.used = Cardinality(DOMAIN r.live)
  BY DEF BlockOk
<1>3. /\ Cardinality(DOMAIN r.live) <= Cardinality(1 .. r.count)
      /\ Cardinality(DOMAIN r.live) = Cardinality(1 .. r.count) => DOMAIN r.live = 1 .. r.count
  BY <1>1, <1>2, FS_Subset
<1>. QED
  BY <1>1, <1>2, <1>3 DEF HasRoom, FreeSlots

\* The lists are right but for block b, which is on no other class's list.
ListsBut(h, b) ==
    \A c \in Classes :
        /\ \A a \in Blocks : a # b => (a \in h.partial[c] <=> Listed(h, a) /\ h.block[a].cls = c)
        /\ b \in h.partial[c] => h.block[b].cls = c
        /\ h.current[c] # None => h.current[c] \in h.partial[c]

LEMMA TakeSlotSound ==
    ASSUME NEW h, Sound(h), NEW b \in Slabs(h), NEW i \in FreeSlots(h.block[b]),
           NEW n \in Nat \ {0}, n <= ClassSize[h.block[b].cls]
    PROVE  LET k == TakeSlot(h, b, i, n)
           IN  Sound(k) /\ (ListsBut(h, b) => Lists(k)) /\ Took(h, k, b, i, n)
<1>. DEFINE r == h.block[b]
            c == r.cls
            q == Taken(r, i, n)
            k == TakeSlot(h, b, i, n)
<1>1. /\ h \in Heap /\ b \in Blocks /\ r \in Block /\ BlockOk(r) /\ r.kind = "slab" /\ c \in Classes
      /\ i \in FreeSlots(r) /\ n <= ClassSize[c]
  BY DEF Sound, Slabs, Heap, BlockOk, SlabOk
<1>2. Changed(r, q, r.used + 1, r.bytes + n)
  <2>. HIDE DEF r
  <2>. QED
    BY <1>1, TakenOk
<1>0. Took(h, k, b, i, n)
  <2>1. q \in Block
    BY <1>2 DEF Changed
  <2>. QED
    BY <1>1, <2>1, TakeSlotFields
<1>. HIDE DEF k
<1>3. /\ k \in Heap /\ k.block[b] = q /\ OthersSame(h, k, b)
      /\ k.partial[c] = IF r.used + 1 = r.count THEN h.partial[c] \ {b} ELSE h.partial[c] \cup {b}
      /\ k.current[c] = IF r.used + 1 = r.count /\ h.current[c] = b THEN None ELSE h.current[c]
      /\ ClassesSame(h, k, c)
      /\ k.liveTotal = IF r.used = 0 THEN h.liveTotal + r.size ELSE h.liveTotal
      /\ k.usedTotal = h.usedTotal + n
      /\ SameSlabs(h, k) /\ k.largeCount = h.largeCount
  BY <1>0 DEF Took
<1>. HIDE DEF q, r, c
<1>4. /\ q \in Block /\ BlockOk(q) /\ q.kind = "slab" /\ q.used = r.used + 1 /\ q.bytes = r.bytes + n
      /\ q.cls = c /\ q.count = r.count /\ q.size = r.size
  BY <1>1, <1>2 DEF Changed, SameBlock, c
<1>5. r.used \in Nat /\ r.bytes \in Nat /\ r.size \in Nat /\ r.count \in Nat
  BY <1>1 DEF Block
<1>6. \A a \in Blocks : BlockOk(k.block[a])
  BY <1>3, <1>4 DEF Sound, OthersSame
<1>7. Counted(k)
  <2>1. /\ SlabCount(q) = SlabCount(r) /\ LargeCount(q) = LargeCount(r)
        /\ SlabSpace(q) = SlabSpace(r)
    BY <1>1, <1>4 DEF SlabCount, LargeCount, SlabSpace
  <2>2. LiveSpace(q) = r.size /\ LiveSpace(r) = IF r.used = 0 THEN 0 ELSE r.size
    BY <1>4, <1>5 DEF LiveSpace
  <2>3. UsedSpace(q) = r.bytes + n /\ UsedSpace(r) = r.bytes
    BY <1>1, <1>4, <1>5, EmptyBytes DEF UsedSpace
  <2>4. /\ h.slabCount \in Int /\ h.slabBytes \in Int /\ h.largeCount \in Int
        /\ h.liveTotal \in Int /\ h.usedTotal \in Int
    BY <1>1 DEF Heap
  <2>5. /\ k.slabCount + SlabCount(r) = h.slabCount + SlabCount(q)
        /\ k.largeCount + LargeCount(r) = h.largeCount + LargeCount(q)
        /\ k.slabBytes + SlabSpace(r) = h.slabBytes + SlabSpace(q)
    BY <1>3, <2>1 DEF SameSlabs
  <2>6. k.liveTotal + LiveSpace(r) = h.liveTotal + LiveSpace(q)
    BY <1>3, <1>5, <2>2, <2>4
  <2>7. k.usedTotal + UsedSpace(r) = h.usedTotal + UsedSpace(q)
    BY <1>3, <1>5, <2>3, <2>4
  <2>. QED
    BY <1>1, <1>3, <2>5, <2>6, <2>7, OneBlockCounted DEF Sound, OthersSame, r
<1>8. ListsBut(h, b) => Lists(k)
  <2>1. HasRoom(q) <=> r.used + 1 # r.count
    BY <1>4, RoomCounts
  <2>2. \A a \in Blocks : a # b => k.block[a] = h.block[a]
    BY <1>3 DEF OthersSame
  <2>3. \A d \in Classes : d # c => k.partial[d] = h.partial[d] /\ k.current[d] = h.current[d]
    BY <1>3 DEF ClassesSame
  <2>4. ASSUME ListsBut(h, b), NEW d \in Classes
        PROVE  /\ \A a \in Blocks : a \in k.partial[d] <=> Listed(k, a) /\ k.block[a].cls = d
               /\ k.current[d] # None => k.current[d] \in k.partial[d]
    <3>1. \A a \in Blocks : a # b => (Listed(k, a) <=> Listed(h, a))
      BY <2>2 DEF Listed
    <3>2. Listed(k, b) <=> r.used + 1 # r.count
      BY <1>3, <1>4, <2>1 DEF Listed
    <3>3. CASE d = c
      BY <1>3, <1>4, <2>2, <2>4, <3>1, <3>2, <3>3 DEF ListsBut
    <3>4. CASE d # c
      BY <1>1, <1>3, <1>4, <2>2, <2>3, <2>4, <3>1, <3>4 DEF ListsBut, r, c
    <3>. QED
      BY <3>3, <3>4
  <2>. QED
    BY <2>4 DEF Lists
<1>. QED
  BY <1>0, <1>3, <1>6, <1>7, <1>8 DEF Sound, k

LEMMA NewSlabSound ==
    ASSUME NEW h, Sound(h), NEW b \in HostFree(h), NEW c \in Classes, NEW own \in Owners
    PROVE  LET k == NewSlab(h, b, c, own)
           IN  /\ Sound(k) /\ (Lists(h) => ListsBut(k, b))
               /\ b \in Slabs(k) /\ 1 \in FreeSlots(k.block[b])
               /\ k.block[b].cls = c /\ k.block[b].used = 0 /\ k.block[b].owner = own
<1>. DEFINE r == h.block[b]
            size == SlabSize(h.blockSize, c)
            count == SlotCount(size, c)
            q == [kind |-> "slab", owner |-> own, cls |-> c, size |-> size,
                  count |-> count, used |-> 0, bytes |-> 0, live |-> <<>>]
            k == NewSlab(h, b, c, own)
<1>1. /\ h \in Heap /\ b \in Blocks /\ r \in Block /\ BlockOk(r) /\ r.kind = "host" /\ r.used = 0
      /\ h.blockSize \in BlockSizes
  BY DEF Sound, HostFree, Heap, BlockOk
<1>2. /\ size \in Nat /\ count \in Nat /\ count > 0 /\ count <= MaxSlots
      /\ SlabHdr + count * Stride(c) <= size
  BY <1>1, SlotsFit
<1>3. MadeSlab(h, k, b, c, own)
  BY <1>1, NewSlabFields
<1>. HIDE DEF k
<1>4. /\ k \in Heap /\ k.block[b] = q /\ OthersSame(h, k, b) /\ ClassesSame(h, k, c)
      /\ k.partial[c] = IF count > 1 THEN h.partial[c] \cup {b} ELSE h.partial[c]
      /\ k.current[c] = IF count > 1 THEN b ELSE h.current[c]
      /\ k.slabCount = h.slabCount + 1 /\ k.slabBytes = h.slabBytes + size
      /\ k.liveTotal = h.liveTotal /\ k.usedTotal = h.usedTotal
      /\ k.largeCount = h.largeCount
  BY <1>3 DEF MadeSlab
<1>. HIDE DEF size, count, r
<1>5. /\ q.kind = "slab" /\ q.owner = own /\ q.cls = c /\ q.size = size /\ q.count = count
      /\ q.used = 0 /\ q.bytes = 0 /\ q.live = <<>>
  OBVIOUS
<1>. HIDE DEF q
<1>6. DOMAIN q.live = {} /\ SumOf(q.live) = 0 /\ Cardinality(DOMAIN q.live) = 0
  BY <1>5, NewLives, FS_EmptySet
<1>7. BlockOk(q) /\ HasRoom(q) /\ 1 \in FreeSlots(q)
  <2>1. SlabOk(q)
    BY <1>2, <1>5, <1>6 DEF SlabOk
  <2>2. BlockOk(q)
    BY <1>2, <1>5, <1>6, <2>1 DEF BlockOk, LargeOk
  <2>3. 1 \in FreeSlots(q)
    BY <1>2, <1>5, <1>6 DEF FreeSlots
  <2>. QED
    BY <2>2, <2>3 DEF HasRoom
<1>8. \A a \in Blocks : BlockOk(k.block[a])
  BY <1>4, <1>7 DEF Sound, OthersSame
<1>9. Counted(k)
  <2>1. /\ SlabCount(q) = 1 /\ LargeCount(q) = 0 /\ SlabSpace(q) = size
        /\ LiveSpace(q) = 0 /\ UsedSpace(q) = 0
    BY <1>5 DEF SlabCount, LargeCount, SlabSpace, LiveSpace, UsedSpace
  <2>2. /\ SlabCount(r) = 0 /\ LargeCount(r) = 0 /\ SlabSpace(r) = 0
        /\ LiveSpace(r) = 0 /\ UsedSpace(r) = 0
    BY <1>1 DEF SlabCount, LargeCount, SlabSpace, LiveSpace, UsedSpace
  <2>3. /\ h.slabCount \in Int /\ h.slabBytes \in Int /\ h.largeCount \in Int
        /\ h.liveTotal \in Int /\ h.usedTotal \in Int
    BY <1>1 DEF Heap
  <2>4. /\ k.slabCount + SlabCount(r) = h.slabCount + SlabCount(q)
        /\ k.largeCount + LargeCount(r) = h.largeCount + LargeCount(q)
        /\ k.slabBytes + SlabSpace(r) = h.slabBytes + SlabSpace(q)
        /\ k.liveTotal + LiveSpace(r) = h.liveTotal + LiveSpace(q)
        /\ k.usedTotal + UsedSpace(r) = h.usedTotal + UsedSpace(q)
    BY <1>2, <1>4, <2>1, <2>2, <2>3
  <2>. QED
    BY <1>1, <1>4, <2>4, OneBlockCounted DEF Sound, OthersSame, r
<1>10. Lists(h) => ListsBut(k, b)
  <2>1. ASSUME Lists(h), NEW d \in Classes
        PROVE  /\ \A a \in Blocks : a # b => (a \in k.partial[d] <=> Listed(k, a) /\ k.block[a].cls = d)
               /\ b \in k.partial[d] => k.block[b].cls = d
               /\ k.current[d] # None => k.current[d] \in k.partial[d]
    <3>1. \A a \in Blocks : a # b => k.block[a] = h.block[a] /\ (Listed(k, a) <=> Listed(h, a))
      BY <1>4 DEF OthersSame, Listed
    <3>2. b \notin h.partial[d]
      BY <1>1, <2>1 DEF Lists, Listed, r
    <3>3. CASE d = c
      BY <1>4, <1>5, <2>1, <3>1, <3>2, <3>3 DEF Lists
    <3>4. CASE d # c
      BY <1>4, <2>1, <3>1, <3>2, <3>4 DEF Lists, ClassesSame
    <3>. QED
      BY <3>3, <3>4
  <2>. QED
    BY <2>1 DEF ListsBut
<1>11. b \in Slabs(k)
  BY <1>1, <1>4, <1>5 DEF Slabs
<1>. QED
  BY <1>4, <1>5, <1>7, <1>8, <1>9, <1>10, <1>11 DEF Sound, k

\* A listed slab becomes the cached one.
Cached(h, c, b) == [h EXCEPT !.reuse = @ + 1, !.current[c] = b]

LEMMA CachedSound ==
    ASSUME NEW h, Sound(h), Lists(h), NEW c \in Classes, NEW b \in h.partial[c]
    PROVE  LET k == Cached(h, c, b)
           IN  /\ Sound(k) /\ ListsBut(k, b) /\ k.block = h.block
               /\ k.allocTotal = h.allocTotal /\ k.reuse = h.reuse + 1
               /\ k.newBlocks = h.newBlocks
<1>. DEFINE k == Cached(h, c, b)
<1>1. h \in Heap /\ b \in Blocks
  BY DEF Sound, Heap
<1>2. /\ k.block = h.block /\ k.partial = h.partial /\ k.current = [h.current EXCEPT ![c] = b]
      /\ k.blockSize = h.blockSize /\ k.usedTotal = h.usedTotal /\ k.liveTotal = h.liveTotal
      /\ k.slabBytes = h.slabBytes /\ k.allocTotal = h.allocTotal /\ k.reuse = h.reuse + 1
      /\ k.newBlocks = h.newBlocks /\ k.slabCount = h.slabCount /\ k.largeCount = h.largeCount
  BY <1>1 DEF Cached, Heap
<1>3. k = [f \in DOMAIN h |-> k[f]]
  BY DEF Cached
<1>. HIDE DEF k
<1>4. k \in Heap
  <2>1. k.block \in [Blocks -> Block] /\ k.partial \in [Classes -> SUBSET Blocks]
        /\ k.current \in [Classes -> Blocks \cup {None}]
    BY <1>1, <1>2 DEF Heap
  <2>2. /\ k.usedTotal \in Int /\ k.liveTotal \in Int /\ k.slabBytes \in Int
        /\ k.allocTotal \in Nat /\ k.reuse \in Nat /\ k.newBlocks \in Nat
        /\ k.slabCount \in Int /\ k.largeCount \in Int /\ k.blockSize \in BlockSizes
    BY <1>1, <1>2 DEF Heap
  <2>. QED
    BY <1>1, <1>3, <2>1, <2>2, HeapIs
<1>5. Counted(k)
  <2>1. Slabs(k) = Slabs(h) /\ Larges(k) = Larges(h) /\ Occupied(k) = Occupied(h)
    BY <1>2 DEF Slabs, Larges, Occupied
  <2>. QED
    BY <1>2, <2>1 DEF Sound, Counted, SizeOf, BytesOf
<1>6. ListsBut(k, b)
  <2>1. \A d \in Classes : k.current[d] = IF d = c THEN b ELSE h.current[d]
    BY <1>1, <1>2 DEF Heap
  <2>. QED
    BY <1>1, <1>2, <2>1 DEF Lists, ListsBut, Listed
<1>. QED
  BY <1>2, <1>4, <1>5, <1>6 DEF Sound, k

LEMMA NewLargeSound ==
    ASSUME NEW h, Sound(h), NEW b \in HostFree(h), NEW n \in Nat \ {0}, NEW own \in Owners
    PROVE  LET k == NewLarge(h, b, n, own)
           IN  Sound(k) /\ (Lists(h) => Lists(k))
<1>. DEFINE r == h.block[b]
            total == LargeHdr + ObjHdr + RoundUp(n)
            q == [kind |-> "large", owner |-> own, cls |-> LargeClass,
                  size |-> total, count |-> 1, used |-> 1, bytes |-> n, live |-> <<n>>]
            k == NewLarge(h, b, n, own)
<1>1. /\ h \in Heap /\ b \in Blocks /\ r \in Block /\ BlockOk(r) /\ r.kind = "host" /\ r.used = 0
  BY DEF Sound, HostFree, Heap, BlockOk
<1>2. MadeLarge(h, k, b, n, own)
  BY <1>1, NewLargeFields
<1>3. total \in Nat /\ n <= total - LargeHdr - ObjHdr
  <2>1. RoundUp(n) \in Nat /\ n <= RoundUp(n) /\ LargeHdr \in Nat /\ ObjHdr \in Nat
    BY Sizes, RoundsUp
  <2>. QED
    BY <2>1
<1>. HIDE DEF k
<1>4. /\ k \in Heap /\ k.block[b] = q /\ OthersSame(h, k, b) /\ SameLists(h, k) /\ SameSlabs(h, k)
      /\ k.largeCount = h.largeCount + 1
      /\ k.liveTotal = h.liveTotal + total /\ k.usedTotal = h.usedTotal + n
  BY <1>2 DEF MadeLarge
<1>. HIDE DEF total, r
<1>5. /\ q.kind = "large" /\ q.owner = own /\ q.size = total /\ q.count = 1
      /\ q.used = 1 /\ q.bytes = n /\ q.live = <<n>>
  OBVIOUS
<1>. HIDE DEF q
<1>6. /\ DOMAIN q.live = {1} /\ SumOf(q.live) = n /\ Cardinality(DOMAIN q.live) = 1
      /\ q.live[1] = n
  <2>1. DOMAIN <<n>> = {1} /\ <<n>>[1] = n /\ SumOf(<<n>>) = n
    BY NewLives
  <2>2. Cardinality({1}) = 1
    BY FS_Singleton
  <2>. QED
    BY <1>5, <2>1, <2>2
<1>7. BlockOk(q)
  <2>1. LargeOk(q)
    BY <1>3, <1>5, <1>6 DEF LargeOk
  <2>. QED
    BY <1>5, <1>6, <2>1, OneSlot, Sizes DEF BlockOk, SlabOk
<1>8. \A a \in Blocks : BlockOk(k.block[a])
  BY <1>4, <1>7 DEF Sound, OthersSame
<1>9. Counted(k)
  <2>1. /\ SlabCount(q) = 0 /\ LargeCount(q) = 1 /\ SlabSpace(q) = 0
        /\ LiveSpace(q) = total /\ UsedSpace(q) = n
    BY <1>5 DEF SlabCount, LargeCount, SlabSpace, LiveSpace, UsedSpace
  <2>2. /\ SlabCount(r) = 0 /\ LargeCount(r) = 0 /\ SlabSpace(r) = 0
        /\ LiveSpace(r) = 0 /\ UsedSpace(r) = 0
    BY <1>1 DEF SlabCount, LargeCount, SlabSpace, LiveSpace, UsedSpace
  <2>3. /\ h.slabCount \in Int /\ h.slabBytes \in Int /\ h.largeCount \in Int
        /\ h.liveTotal \in Int /\ h.usedTotal \in Int
    BY <1>1 DEF Heap
  <2>4. /\ k.slabCount + SlabCount(r) = h.slabCount + SlabCount(q)
        /\ k.largeCount + LargeCount(r) = h.largeCount + LargeCount(q)
        /\ k.slabBytes + SlabSpace(r) = h.slabBytes + SlabSpace(q)
        /\ k.liveTotal + LiveSpace(r) = h.liveTotal + LiveSpace(q)
        /\ k.usedTotal + UsedSpace(r) = h.usedTotal + UsedSpace(q)
    BY <1>3, <1>4, <2>1, <2>2, <2>3 DEF SameSlabs
  <2>. QED
    BY <1>1, <1>4, <2>4, OneBlockCounted DEF Sound, OthersSame, r
<1>10. Lists(h) => Lists(k)
  <2>1. \A a \in Blocks : a # b => k.block[a] = h.block[a] /\ (Listed(k, a) <=> Listed(h, a))
    BY <1>4 DEF OthersSame, Listed
  <2>2. ~Listed(h, b) /\ ~Listed(k, b)
    BY <1>1, <1>4, <1>5 DEF Listed, r
  <2>. QED
    BY <1>4, <2>1, <2>2 DEF Lists, SameLists
<1>. QED
  BY <1>4, <1>8, <1>9, <1>10 DEF Sound, k

LEMMA FreeSlotSound ==
    ASSUME NEW h, Sound(h), NEW b \in Slabs(h), NEW i \in DOMAIN h.block[b].live
    PROVE  LET k == FreeSlot(h, b, i)
           IN  Sound(k) /\ (Lists(h) => Lists(k)) /\ Gave(h, k, b, i)
<1>. DEFINE r == h.block[b]
            c == r.cls
            q == Given(r, i)
            k == FreeSlot(h, b, i)
<1>1. /\ h \in Heap /\ b \in Blocks /\ r \in Block /\ BlockOk(r) /\ r.kind = "slab" /\ c \in Classes
      /\ i \in DOMAIN r.live
  BY DEF Sound, Slabs, Heap, BlockOk, SlabOk
<1>2. Changed(r, q, r.used - 1, r.bytes - r.live[i]) /\ r.used > 0 /\ r.live[i] \in Nat
  <2>. HIDE DEF r
  <2>. QED
    BY <1>1, GivenOk
<1>3. Gave(h, k, b, i)
  <2>1. q \in Block
    BY <1>2 DEF Changed
  <2>. QED
    BY <1>1, <1>2, <2>1, FreeSlotFields
<1>. HIDE DEF k
<1>4. /\ k \in Heap /\ k.block[b] = q /\ OthersSame(h, k, b)
      /\ k.partial[c] = h.partial[c] \cup {b} /\ k.current = h.current /\ ClassesSame(h, k, c)
      /\ k.liveTotal = IF r.used = 1 THEN h.liveTotal - r.size ELSE h.liveTotal
      /\ k.usedTotal = h.usedTotal - r.live[i]
      /\ SameSlabs(h, k) /\ k.largeCount = h.largeCount
  BY <1>3 DEF Gave
<1>. HIDE DEF q, r, c
<1>5. /\ q \in Block /\ BlockOk(q) /\ q.kind = "slab" /\ q.used = r.used - 1
      /\ q.bytes = r.bytes - r.live[i] /\ q.cls = c /\ q.count = r.count /\ q.size = r.size
  BY <1>1, <1>2 DEF Changed, SameBlock, c
<1>6. /\ r.used \in Nat /\ r.bytes \in Nat /\ r.size \in Nat /\ r.count \in Nat
      /\ q.used \in Nat /\ q.bytes \in Nat
  BY <1>1, <1>5 DEF Block
<1>7. \A a \in Blocks : BlockOk(k.block[a])
  BY <1>4, <1>5 DEF Sound, OthersSame
<1>8. Counted(k)
  <2>1. /\ SlabCount(q) = SlabCount(r) /\ LargeCount(q) = LargeCount(r)
        /\ SlabSpace(q) = SlabSpace(r)
    BY <1>1, <1>5 DEF SlabCount, LargeCount, SlabSpace
  <2>2. LiveSpace(r) = r.size /\ LiveSpace(q) = IF r.used = 1 THEN 0 ELSE r.size
    BY <1>2, <1>5, <1>6 DEF LiveSpace
  <2>3. UsedSpace(r) = r.bytes /\ UsedSpace(q) = r.bytes - r.live[i]
    BY <1>1, <1>2, <1>5, <1>6, EmptyBytes DEF UsedSpace
  <2>4. /\ h.slabCount \in Int /\ h.slabBytes \in Int /\ h.largeCount \in Int
        /\ h.liveTotal \in Int /\ h.usedTotal \in Int
    BY <1>1 DEF Heap
  <2>5. /\ k.slabCount + SlabCount(r) = h.slabCount + SlabCount(q)
        /\ k.largeCount + LargeCount(r) = h.largeCount + LargeCount(q)
        /\ k.slabBytes + SlabSpace(r) = h.slabBytes + SlabSpace(q)
    BY <1>4, <2>1 DEF SameSlabs
  <2>6. k.liveTotal + LiveSpace(r) = h.liveTotal + LiveSpace(q)
    BY <1>4, <1>6, <2>2, <2>4
  <2>7. k.usedTotal + UsedSpace(r) = h.usedTotal + UsedSpace(q)
    BY <1>2, <1>4, <1>6, <2>3, <2>4
  <2>. QED
    BY <1>1, <1>4, <2>5, <2>6, <2>7, OneBlockCounted DEF Sound, OthersSame, r
<1>9. Lists(h) => Lists(k)
  <2>1. HasRoom(q)
    <3>1. r.used <= r.count
      BY <1>1, RoomCounts
    <3>. QED
      BY <1>5, <1>6, <3>1, RoomCounts
  <2>2. \A a \in Blocks : a # b => k.block[a] = h.block[a] /\ (Listed(k, a) <=> Listed(h, a))
    BY <1>4 DEF OthersSame, Listed
  <2>3. Listed(k, b)
    BY <1>4, <1>5, <2>1 DEF Listed
  <2>4. ASSUME Lists(h), NEW d \in Classes
        PROVE  /\ \A a \in Blocks : a \in k.partial[d] <=> Listed(k, a) /\ k.block[a].cls = d
               /\ k.current[d] # None => k.current[d] \in k.partial[d]
    <3>1. CASE d = c
      BY <1>4, <1>5, <2>2, <2>3, <2>4, <3>1 DEF Lists
    <3>2. CASE d # c
      BY <1>1, <1>4, <1>5, <2>2, <2>3, <2>4, <3>2 DEF Lists, ClassesSame, r, c
    <3>. QED
      BY <3>1, <3>2
  <2>. QED
    BY <2>4 DEF Lists
<1>. QED
  BY <1>3, <1>4, <1>7, <1>8, <1>9 DEF Sound, k

LEMMA UnusedOk ==
    /\ BlockOk(Unused) /\ Unused.kind = "host" /\ Unused.used = 0
    /\ DOMAIN Unused.live = {}
<1>1. /\ Unused.kind = "host" /\ Unused.used = 0 /\ Unused.count = 0 /\ Unused.bytes = 0
      /\ Unused.live = <<>>
  BY DEF Unused
<1>2. DOMAIN Unused.live = {} /\ SumOf(Unused.live) = 0 /\ Cardinality({}) = 0 /\ MaxSlots \in Nat
  BY <1>1, NewLives, FS_EmptySet, Sizes
<1>. QED
  BY <1>1, <1>2 DEF BlockOk, SlabOk, LargeOk

LEMMA FreeLargeSound ==
    ASSUME NEW h, Sound(h), NEW b \in Larges(h)
    PROVE  LET k == FreeLarge(h, b)
           IN  Sound(k) /\ (Lists(h) => Lists(k)) /\ GaveBlock(h, k, b)
<1>. DEFINE r == h.block[b]
            k == FreeLarge(h, b)
<1>1. /\ h \in Heap /\ b \in Blocks /\ r \in Block /\ BlockOk(r) /\ r.kind = "large"
  BY DEF Sound, Larges, Heap, BlockOk
<1>2. GaveBlock(h, k, b)
  BY <1>1, FreeLargeFields
<1>. HIDE DEF k
<1>3. /\ k \in Heap /\ k.block[b] = Unused /\ OthersSame(h, k, b)
      /\ SameLists(h, k) /\ SameSlabs(h, k)
      /\ k.largeCount = h.largeCount - 1
      /\ k.liveTotal = h.liveTotal - r.size /\ k.usedTotal = h.usedTotal - r.bytes
  BY <1>2 DEF GaveBlock
<1>. HIDE DEF r
<1>4. r.used = 1 /\ r.bytes \in Nat /\ r.size \in Nat
  <2>1. DOMAIN r.live = {1} /\ Cardinality({1}) = 1
    BY <1>1, FS_Singleton DEF BlockOk, LargeOk
  <2>. QED
    BY <1>1, <2>1 DEF BlockOk, Block
<1>5. \A a \in Blocks : BlockOk(k.block[a])
  BY <1>3, UnusedOk DEF Sound, OthersSame
<1>6. Counted(k)
  <2>1. /\ SlabCount(r) = 0 /\ LargeCount(r) = 1 /\ SlabSpace(r) = 0
        /\ LiveSpace(r) = r.size /\ UsedSpace(r) = r.bytes
    BY <1>1, <1>4 DEF SlabCount, LargeCount, SlabSpace, LiveSpace, UsedSpace
  <2>2. /\ SlabCount(Unused) = 0 /\ LargeCount(Unused) = 0 /\ SlabSpace(Unused) = 0
        /\ LiveSpace(Unused) = 0 /\ UsedSpace(Unused) = 0
    BY UnusedOk DEF SlabCount, LargeCount, SlabSpace, LiveSpace, UsedSpace
  <2>3. /\ h.slabCount \in Int /\ h.slabBytes \in Int /\ h.largeCount \in Int
        /\ h.liveTotal \in Int /\ h.usedTotal \in Int
    BY <1>1 DEF Heap
  <2>4. /\ k.slabCount + SlabCount(r) = h.slabCount + SlabCount(Unused)
        /\ k.largeCount + LargeCount(r) = h.largeCount + LargeCount(Unused)
        /\ k.slabBytes + SlabSpace(r) = h.slabBytes + SlabSpace(Unused)
        /\ k.liveTotal + LiveSpace(r) = h.liveTotal + LiveSpace(Unused)
        /\ k.usedTotal + UsedSpace(r) = h.usedTotal + UsedSpace(Unused)
    BY <1>3, <1>4, <2>1, <2>2, <2>3 DEF SameSlabs
  <2>. QED
    BY <1>1, <1>3, <2>4, OneBlockCounted DEF Sound, OthersSame, r
<1>7. Lists(h) => Lists(k)
  <2>1. \A a \in Blocks : a # b => k.block[a] = h.block[a] /\ (Listed(k, a) <=> Listed(h, a))
    BY <1>3 DEF OthersSame, Listed
  <2>2. ~Listed(h, b) /\ ~Listed(k, b)
    BY <1>1, <1>3, UnusedOk DEF Listed, r
  <2>. QED
    BY <1>3, <2>1, <2>2 DEF Lists, SameLists
<1>. QED
  BY <1>2, <1>3, <1>5, <1>6, <1>7 DEF Sound, k

LEMMA ResizedSound ==
    ASSUME NEW h, Sound(h), NEW b \in Blocks, NEW i \in DOMAIN h.block[b].live,
           NEW n \in Nat \ {0}, n <= Holds(h.block[b])
    PROVE  LET k == Resized(h, <<b, i>>, n)
           IN  Sound(k) /\ (Lists(h) => Lists(k)) /\ Resizes(h, k, b, i, n)
<1>. DEFINE r == h.block[b]
            q == Remade(r, i, n)
            k == Resized(h, <<b, i>>, n)
<1>1. /\ h \in Heap /\ r \in Block /\ BlockOk(r) /\ i \in DOMAIN r.live /\ n <= Holds(r)
  BY DEF Sound, Heap
<1>2. Changed(r, q, r.used, r.bytes - r.live[i] + n) /\ r.live[i] \in Nat
  <2>. HIDE DEF r
  <2>. QED
    BY <1>1, RemadeOk
<1>3. Resizes(h, k, b, i, n)
  <2>1. q \in Block
    BY <1>2 DEF Changed
  <2>. QED
    BY <1>1, <1>2, <2>1, ResizedFields
<1>. HIDE DEF k
<1>4. /\ k \in Heap /\ k.block[b] = q /\ OthersSame(h, k, b)
      /\ SameLists(h, k) /\ SameSlabs(h, k)
      /\ k.largeCount = h.largeCount /\ k.liveTotal = h.liveTotal
      /\ k.usedTotal = h.usedTotal - r.live[i] + n
  BY <1>3 DEF Resizes
<1>. HIDE DEF q, r
<1>5. /\ q \in Block /\ BlockOk(q) /\ q.kind = r.kind /\ q.used = r.used
      /\ q.bytes = r.bytes - r.live[i] + n /\ q.cls = r.cls /\ q.count = r.count /\ q.size = r.size
  BY <1>2 DEF Changed, SameBlock
<1>6. /\ r.used \in Nat /\ r.bytes \in Nat /\ r.size \in Nat
      /\ r.used > 0
  <2>1. r.used # 0
    BY <1>1, LiveType, FS_EmptySet DEF BlockOk
  <2>. QED
    BY <1>1, <2>1 DEF Block
<1>7. \A a \in Blocks : BlockOk(k.block[a])
  BY <1>4, <1>5 DEF Sound, OthersSame
<1>8. Counted(k)
  <2>1. /\ SlabCount(q) = SlabCount(r) /\ LargeCount(q) = LargeCount(r)
        /\ SlabSpace(q) = SlabSpace(r) /\ LiveSpace(q) = LiveSpace(r)
    BY <1>5 DEF SlabCount, LargeCount, SlabSpace, LiveSpace
  <2>2. UsedSpace(r) = r.bytes /\ UsedSpace(q) = r.bytes - r.live[i] + n
    BY <1>5, <1>6 DEF UsedSpace
  <2>3. /\ h.slabCount \in Int /\ h.slabBytes \in Int /\ h.largeCount \in Int
        /\ h.liveTotal \in Int /\ h.usedTotal \in Int
    BY <1>1 DEF Heap
  <2>4. /\ k.slabCount + SlabCount(r) = h.slabCount + SlabCount(q)
        /\ k.largeCount + LargeCount(r) = h.largeCount + LargeCount(q)
        /\ k.slabBytes + SlabSpace(r) = h.slabBytes + SlabSpace(q)
        /\ k.liveTotal + LiveSpace(r) = h.liveTotal + LiveSpace(q)
    BY <1>4, <2>1 DEF SameSlabs
  <2>5. k.usedTotal + UsedSpace(r) = h.usedTotal + UsedSpace(q)
    BY <1>2, <1>4, <1>6, <2>2, <2>3
  <2>. QED
    BY <1>1, <1>4, <2>4, <2>5, OneBlockCounted DEF Sound, OthersSame, r
<1>9. Lists(h) => Lists(k)
  <2>1. HasRoom(q) <=> HasRoom(r)
    BY <1>1, <1>5, RoomCounts
  <2>2. \A a \in Blocks : /\ Listed(k, a) <=> Listed(h, a)
                          /\ k.block[a].cls = h.block[a].cls
    BY <1>4, <1>5, <2>1 DEF OthersSame, Listed, r
  <2>. QED
    BY <1>4, <2>2 DEF Lists, SameLists
<1>. QED
  BY <1>3, <1>4, <1>7, <1>8, <1>9 DEF Sound, k

-----------------------------------------------------------------------------
(* Whole blocks go back.                                                    *)

\* In heap k the blocks of S are back with the host.
Dropped(h, k, S) ==
    /\ k \in Heap
    /\ \A a \in Blocks : k.block[a] = IF a \in S THEN Unused ELSE h.block[a]
    /\ SameCalls(h, k)

\* A sum over some blocks less that over those taken away.
LEMMA SizeLess ==
    ASSUME NEW h \in Heap, NEW A \in SUBSET Blocks, NEW S
    PROVE  /\ SizeOf(h, A \ S) = SizeOf(h, A) - SizeOf(h, A \cap S)
           /\ SizeOf(h, A \ S) \in Nat /\ SizeOf(h, A) \in Nat /\ SizeOf(h, A \cap S) \in Nat
<1>. DEFINE f == [b \in A |-> h.block[b].size]
            T == A \cap S
<1>1. IsFiniteSet(A) /\ IsFiniteSet(T) /\ IsFiniteSet(A \ T) /\ A \ T = A \ S /\ T \in SUBSET A
  BY Sizes, FS_Subset
<1>2. f \in [A -> Nat]
  BY BlockSets
<1>3. /\ [x \in T |-> f[x]] = [b \in T |-> h.block[b].size]
      /\ [x \in A \ T |-> f[x]] = [b \in A \ T |-> h.block[b].size]
      /\ [x \in T |-> f[x]] \in [T -> Nat] /\ [x \in A \ T |-> f[x]] \in [A \ T -> Nat]
  BY <1>1, <1>2
<1>. HIDE DEF f, T
<1>4. SumOf(f) = SumOf([x \in T |-> f[x]]) + SumOf([x \in A \ T |-> f[x]])
  BY <1>1, <1>2, SumSplit
<1>5. SumOf(f) \in Nat /\ SumOf([x \in T |-> f[x]]) \in Nat /\ SumOf([x \in A \ T |-> f[x]]) \in Nat
  BY <1>1, <1>2, <1>3, SumType
<1>6. /\ SizeOf(h, A) = SumOf(f) /\ SizeOf(h, T) = SumOf([x \in T |-> f[x]])
      /\ SizeOf(h, A \ S) = SumOf([x \in A \ T |-> f[x]])
  BY <1>1, <1>3 DEF SizeOf, f
<1>. QED
  BY <1>4, <1>5, <1>6 DEF T

LEMMA BytesLess ==
    ASSUME NEW h \in Heap, NEW A \in SUBSET Blocks, NEW S
    PROVE  /\ BytesOf(h, A \ S) = BytesOf(h, A) - BytesOf(h, A \cap S)
           /\ BytesOf(h, A \ S) \in Nat /\ BytesOf(h, A) \in Nat /\ BytesOf(h, A \cap S) \in Nat
<1>. DEFINE f == [b \in A |-> h.block[b].bytes]
            T == A \cap S
<1>1. IsFiniteSet(A) /\ IsFiniteSet(T) /\ IsFiniteSet(A \ T) /\ A \ T = A \ S /\ T \in SUBSET A
  BY Sizes, FS_Subset
<1>2. f \in [A -> Nat]
  BY BlockSets
<1>3. /\ [x \in T |-> f[x]] = [b \in T |-> h.block[b].bytes]
      /\ [x \in A \ T |-> f[x]] = [b \in A \ T |-> h.block[b].bytes]
      /\ [x \in T |-> f[x]] \in [T -> Nat] /\ [x \in A \ T |-> f[x]] \in [A \ T -> Nat]
  BY <1>1, <1>2
<1>. HIDE DEF f, T
<1>4. SumOf(f) = SumOf([x \in T |-> f[x]]) + SumOf([x \in A \ T |-> f[x]])
  BY <1>1, <1>2, SumSplit
<1>5. SumOf(f) \in Nat /\ SumOf([x \in T |-> f[x]]) \in Nat /\ SumOf([x \in A \ T |-> f[x]]) \in Nat
  BY <1>1, <1>2, <1>3, SumType
<1>6. /\ BytesOf(h, A) = SumOf(f) /\ BytesOf(h, T) = SumOf([x \in T |-> f[x]])
      /\ BytesOf(h, A \ S) = SumOf([x \in A \ T |-> f[x]])
  BY <1>1, <1>3 DEF BytesOf, f
<1>. QED
  BY <1>4, <1>5, <1>6 DEF T

\* Empty blocks hold no bytes: those of some blocks are those of the occupied.
LEMMA BytesOccupied ==
    ASSUME NEW h, Sound(h), NEW A \in SUBSET Blocks
    PROVE  BytesOf(h, A) = BytesOf(h, A \cap Occupied(h))
<1>. DEFINE T == A \ Occupied(h)
            f == [b \in T |-> h.block[b].bytes]
<1>1. h \in Heap
  BY DEF Sound
<1>2. \A b \in T : h.block[b].bytes = 0
  <2>1. ASSUME NEW b \in T
        PROVE  h.block[b].bytes = 0
    <3>1. /\ h.block[b] \in Block /\ BlockOk(h.block[b]) /\ h.block[b].used \in Nat
          /\ ~(h.block[b].used > 0)
      BY <1>1, BlockSets DEF Sound, Occupied
    <3>. QED
      BY <3>1, EmptyBytes
  <2>. QED
    BY <2>1
<1>3. BytesOf(h, T) = 0
  <2>1. f \in [T -> Nat] /\ \A b \in T : f[b] = 0
    BY <1>2
  <2>. HIDE DEF f, T
  <2>2. Units(f) = {}
    BY <2>1 DEF Units
  <2>. QED
    BY <2>2, FS_EmptySet DEF BytesOf, SumOf, f
<1>4. BytesOf(h, T) = BytesOf(h, A) - BytesOf(h, A \cap Occupied(h))
      /\ BytesOf(h, A) \in Nat /\ BytesOf(h, A \cap Occupied(h)) \in Nat
  BY <1>1, BytesLess
<1>. QED
  BY <1>3, <1>4

LEMMA DroppedCounted ==
    ASSUME NEW h, Sound(h), NEW k, NEW S \in SUBSET Blocks, Dropped(h, k, S),
           k.slabCount = h.slabCount - Cardinality(Slabs(h) \cap S),
           k.largeCount = h.largeCount - Cardinality(Larges(h) \cap S),
           k.slabBytes = h.slabBytes - SizeOf(h, Slabs(h) \cap S),
           k.liveTotal = h.liveTotal - SizeOf(h, Occupied(h) \cap S),
           k.usedTotal = h.usedTotal - BytesOf(h, Occupied(h) \cap S)
    PROVE  Sound(k)
<1>1. /\ h \in Heap /\ k \in Heap
      /\ \A a \in Blocks : k.block[a] = IF a \in S THEN Unused ELSE h.block[a]
  BY DEF Sound, Dropped
<1>2. /\ IsFiniteSet(Slabs(h)) /\ IsFiniteSet(Larges(h)) /\ IsFiniteSet(Occupied(h))
      /\ Slabs(h) \in SUBSET Blocks /\ Larges(h) \in SUBSET Blocks /\ Occupied(h) \in SUBSET Blocks
  BY <1>1, BlockSets
<1>3. /\ Slabs(k) = Slabs(h) \ S /\ Larges(k) = Larges(h) \ S /\ Occupied(k) = Occupied(h) \ S
  BY <1>1, UnusedOk DEF Slabs, Larges, Occupied
<1>4. \A A : IsFiniteSet(A) =>
        /\ Cardinality(A \ S) = Cardinality(A) - Cardinality(A \cap S)
        /\ Cardinality(A) \in Nat /\ Cardinality(A \cap S) \in Nat
  <2>1. ASSUME NEW A, IsFiniteSet(A)
        PROVE  /\ Cardinality(A \ S) = Cardinality(A) - Cardinality(A \cap S)
               /\ Cardinality(A) \in Nat /\ Cardinality(A \cap S) \in Nat
    <3>1. IsFiniteSet(A \cap S)
      BY <2>1, FS_Subset
    <3>. QED
      BY <2>1, <3>1, FS_Difference, FS_CardinalityType
  <2>. QED
    BY <2>1
<1>5. \A A \in SUBSET Blocks : /\ SizeOf(k, A \ S) = SizeOf(h, A \ S)
                               /\ BytesOf(k, A \ S) = BytesOf(h, A \ S)
  <2>1. ASSUME NEW A \in SUBSET Blocks
        PROVE  /\ [b \in A \ S |-> k.block[b].size] = [b \in A \ S |-> h.block[b].size]
               /\ [b \in A \ S |-> k.block[b].bytes] = [b \in A \ S |-> h.block[b].bytes]
    BY <1>1
  <2>. QED
    BY <2>1 DEF SizeOf, BytesOf
<1>6. Counted(k)
  <2>1. k.slabCount = Cardinality(Slabs(k)) /\ k.largeCount = Cardinality(Larges(k))
    BY <1>2, <1>3, <1>4 DEF Sound, Counted
  <2>2. k.slabBytes = SizeOf(k, Slabs(k))
    <3>1. SizeOf(h, Slabs(h) \ S) = SizeOf(h, Slabs(h)) - SizeOf(h, Slabs(h) \cap S)
      BY <1>1, <1>2, SizeLess
    <3>2. SizeOf(k, Slabs(k)) = SizeOf(h, Slabs(h) \ S)
      BY <1>2, <1>3, <1>5
    <3>3. h.slabBytes = SizeOf(h, Slabs(h))
      BY DEF Sound, Counted
    <3>. QED
      BY <3>1, <3>2, <3>3
  <2>3. k.liveTotal = SizeOf(k, Occupied(k))
    <3>1. SizeOf(h, Occupied(h) \ S) = SizeOf(h, Occupied(h)) - SizeOf(h, Occupied(h) \cap S)
      BY <1>1, <1>2, SizeLess
    <3>2. SizeOf(k, Occupied(k)) = SizeOf(h, Occupied(h) \ S)
      BY <1>2, <1>3, <1>5
    <3>3. h.liveTotal = SizeOf(h, Occupied(h))
      BY DEF Sound, Counted
    <3>. QED
      BY <3>1, <3>2, <3>3
  <2>4. k.usedTotal = BytesOf(k, Occupied(k))
    <3>1. BytesOf(h, Occupied(h) \ S) = BytesOf(h, Occupied(h)) - BytesOf(h, Occupied(h) \cap S)
      BY <1>1, <1>2, BytesLess
    <3>2. BytesOf(k, Occupied(k)) = BytesOf(h, Occupied(h) \ S)
      BY <1>2, <1>3, <1>5
    <3>3. h.usedTotal = BytesOf(h, Occupied(h))
      BY DEF Sound, Counted
    <3>. QED
      BY <3>1, <3>2, <3>3
  <2>. QED
    BY <2>1, <2>2, <2>3, <2>4 DEF Counted
<1>7. \A a \in Blocks : BlockOk(k.block[a])
  BY <1>1, UnusedOk DEF Sound
<1>. QED
  BY <1>1, <1>6, <1>7 DEF Sound

\* Slabs without objects go back to the host.
LEMMA DropSlabsSound ==
    ASSUME NEW h, Sound(h)
    PROVE  LET S == {b \in Slabs(h) : h.block[b].used = 0}
               k == DropSlabs(h, S)
           IN  Sound(k) /\ Dropped(h, k, S)
<1>. DEFINE S == {b \in Slabs(h) : h.block[b].used = 0}
            k == DropSlabs(h, S)
<1>1. h \in Heap
  BY DEF Sound
<1>2. /\ S \in SUBSET Blocks /\ Slabs(h) \cap S = S /\ Larges(h) \cap S = {}
      /\ Occupied(h) \cap S = {}
  BY <1>1, BlockSets DEF Slabs, Larges, Occupied
<1>3. /\ k.block = [b \in Blocks |-> IF b \in S THEN Unused ELSE h.block[b]]
      /\ SameLists(h, k) /\ SameCalls(h, k) /\ k.blockSize = h.blockSize
      /\ k.slabCount = h.slabCount - Cardinality(S) /\ k.slabBytes = h.slabBytes - SizeOf(h, S)
      /\ k.largeCount = h.largeCount /\ k.liveTotal = h.liveTotal /\ k.usedTotal = h.usedTotal
  BY <1>1 DEF DropSlabs, Heap, SameLists, SameCalls
<1>4. k = [f \in DOMAIN h |-> k[f]]
  BY DEF DropSlabs
<1>5. Cardinality(S) \in Nat /\ SizeOf(h, S) \in Nat
  <2>1. IsFiniteSet(S)
    BY <1>2, Sizes, FS_Subset
  <2>2. S \cap S = S
    OBVIOUS
  <2>. QED
    BY <1>1, <1>2, <2>1, <2>2, SizeLess, FS_CardinalityType
<1>. HIDE DEF S, k
<1>6. Dropped(h, k, S)
  <2>1. k.block \in [Blocks -> Block] /\ k.partial \in [Classes -> SUBSET Blocks]
        /\ k.current \in [Classes -> Blocks \cup {None}]
    BY <1>1, <1>3, UnusedBlock DEF Heap, SameLists
  <2>2. /\ k.usedTotal \in Int /\ k.liveTotal \in Int /\ k.slabBytes \in Int
        /\ k.allocTotal \in Nat /\ k.reuse \in Nat /\ k.newBlocks \in Nat
        /\ k.slabCount \in Int /\ k.largeCount \in Int /\ k.blockSize \in BlockSizes
    BY <1>1, <1>3, <1>5 DEF Heap, SameCalls
  <2>3. k \in Heap
    BY <1>1, <1>4, <2>1, <2>2, HeapIs
  <2>. QED
    BY <1>3, <2>3 DEF Dropped
<1>7. /\ h.liveTotal \in Int /\ h.usedTotal \in Int /\ h.largeCount \in Int
      /\ Cardinality({}) = 0 /\ SizeOf(h, {}) = 0 /\ BytesOf(h, {}) = 0
  <2>1. /\ [b \in {} |-> h.block[b].size] \in [{} -> Nat]
        /\ [b \in {} |-> h.block[b].bytes] \in [{} -> Nat]
    OBVIOUS
  <2>. QED
    BY <1>1, <2>1, SumEmpty, FS_EmptySet DEF Heap, SizeOf, BytesOf
<1>. QED
  BY <1>2, <1>3, <1>6, <1>7, DroppedCounted DEF S, k

\* The slabs of an owner go back to the host, with the objects in them.
LEMMA FreeOwnerSlabsSound ==
    ASSUME NEW h, Sound(h), NEW own
    PROVE  LET S == {b \in Slabs(h) : h.block[b].owner = own}
               k == FreeOwnerSlabs(h, own)
           IN  Sound(k) /\ Dropped(h, k, S)
<1>. DEFINE S == {b \in Slabs(h) : h.block[b].owner = own}
            busy == {b \in S : h.block[b].used > 0}
            k == FreeOwnerSlabs(h, own)
<1>1. h \in Heap
  BY DEF Sound
<1>2. /\ S \in SUBSET Blocks /\ Slabs(h) \cap S = S /\ Larges(h) \cap S = {}
      /\ Occupied(h) \cap S = busy /\ S \cap Occupied(h) = busy
  BY DEF Slabs, Larges, Occupied
<1>3. /\ k.block = [b \in Blocks |-> IF b \in S THEN Unused ELSE h.block[b]]
      /\ SameLists(h, k) /\ SameCalls(h, k) /\ k.blockSize = h.blockSize
      /\ k.slabCount = h.slabCount - Cardinality(S) /\ k.slabBytes = h.slabBytes - SizeOf(h, S)
      /\ k.largeCount = h.largeCount
      /\ k.usedTotal = h.usedTotal - BytesOf(h, S) /\ k.liveTotal = h.liveTotal - SizeOf(h, busy)
  BY <1>1 DEF FreeOwnerSlabs, DropSlabs, Heap, SameLists, SameCalls
<1>4. k = [f \in DOMAIN h |-> k[f]]
  BY DEF FreeOwnerSlabs, DropSlabs
<1>5. /\ Cardinality(S) \in Nat /\ SizeOf(h, S) \in Nat /\ SizeOf(h, busy) \in Nat
      /\ BytesOf(h, S) \in Nat /\ BytesOf(h, S) = BytesOf(h, busy)
  <2>1. IsFiniteSet(S)
    BY <1>2, Sizes, FS_Subset
  <2>2. busy \in SUBSET Blocks
    BY <1>2
  <2>3. BytesOf(h, S) = BytesOf(h, S \cap Occupied(h))
    BY <1>2, BytesOccupied
  <2>4. SizeOf(h, S) \in Nat /\ SizeOf(h, busy) \in Nat /\ BytesOf(h, S) \in Nat
    BY <1>1, <1>2, <2>2, SizeLess, BytesLess
  <2>. QED
    BY <1>2, <2>1, <2>3, <2>4, FS_CardinalityType
<1>. HIDE DEF S, k, busy
<1>6. Dropped(h, k, S)
  <2>1. k.block \in [Blocks -> Block] /\ k.partial \in [Classes -> SUBSET Blocks]
        /\ k.current \in [Classes -> Blocks \cup {None}]
    BY <1>1, <1>3, UnusedBlock DEF Heap, SameLists
  <2>2. /\ k.usedTotal \in Int /\ k.liveTotal \in Int /\ k.slabBytes \in Int
        /\ k.allocTotal \in Nat /\ k.reuse \in Nat /\ k.newBlocks \in Nat
        /\ k.slabCount \in Int /\ k.largeCount \in Int /\ k.blockSize \in BlockSizes
    BY <1>1, <1>3, <1>5 DEF Heap, SameCalls
  <2>3. k \in Heap
    BY <1>1, <1>4, <2>1, <2>2, HeapIs
  <2>. QED
    BY <1>3, <2>3 DEF Dropped
<1>7. h.largeCount \in Int /\ Cardinality({}) = 0
  BY <1>1, FS_EmptySet DEF Heap
<1>. QED
  BY <1>2, <1>3, <1>5, <1>6, <1>7, DroppedCounted DEF S, k

\* A large object is always in use.
LEMMA LargeUsed ==
    ASSUME NEW r \in Block, BlockOk(r), r.kind = "large"
    PROVE  r.used = 1 /\ DOMAIN r.live = {1}
BY FS_Singleton DEF BlockOk, LargeOk

\* The large objects of an owner go back to the host.
LEMMA FreeOwnerLargesSound ==
    ASSUME NEW h, Sound(h), NEW own
    PROVE  LET L == {b \in Larges(h) : h.block[b].owner = own}
               k == FreeOwnerLarges(h, own)
           IN  Sound(k) /\ Dropped(h, k, L)
<1>. DEFINE L == {b \in Larges(h) : h.block[b].owner = own}
            k == FreeOwnerLarges(h, own)
<1>1. h \in Heap
  BY DEF Sound
<1>2. L \in SUBSET Blocks /\ Larges(h) \cap L = L /\ Slabs(h) \cap L = {}
  BY DEF Slabs, Larges
<1>3. Occupied(h) \cap L = L
  <2>1. ASSUME NEW b \in L
        PROVE  b \in Occupied(h)
    <3>1. b \in Blocks /\ h.block[b] \in Block /\ BlockOk(h.block[b]) /\ h.block[b].kind = "large"
      BY <1>1, BlockSets DEF Sound, Larges
    <3>2. h.block[b].used = 1
      BY <3>1, LargeUsed
    <3>. QED
      BY <3>1, <3>2 DEF Occupied
  <2>. QED
    BY <2>1
<1>4. /\ k.block = [b \in Blocks |-> IF b \in L THEN Unused ELSE h.block[b]]
      /\ SameLists(h, k) /\ SameCalls(h, k) /\ SameSlabs(h, k) /\ k.blockSize = h.blockSize
      /\ k.largeCount = h.largeCount - Cardinality(L)
      /\ k.usedTotal = h.usedTotal - BytesOf(h, L) /\ k.liveTotal = h.liveTotal - SizeOf(h, L)
  BY <1>1 DEF FreeOwnerLarges, Heap, SameLists, SameCalls, SameSlabs
<1>5. k = [f \in DOMAIN h |-> k[f]]
  BY DEF FreeOwnerLarges
<1>6. Cardinality(L) \in Nat /\ SizeOf(h, L) \in Nat /\ BytesOf(h, L) \in Nat
  <2>1. IsFiniteSet(L)
    BY <1>2, Sizes, FS_Subset
  <2>2. SizeOf(h, L) \in Nat /\ BytesOf(h, L) \in Nat
    BY <1>1, <1>2, SizeLess, BytesLess
  <2>. QED
    BY <2>1, <2>2, FS_CardinalityType
<1>. HIDE DEF L, k
<1>7. Dropped(h, k, L)
  <2>1. k.block \in [Blocks -> Block] /\ k.partial \in [Classes -> SUBSET Blocks]
        /\ k.current \in [Classes -> Blocks \cup {None}]
    BY <1>1, <1>4, UnusedBlock DEF Heap, SameLists
  <2>2. /\ k.usedTotal \in Int /\ k.liveTotal \in Int /\ k.slabBytes \in Int
        /\ k.allocTotal \in Nat /\ k.reuse \in Nat /\ k.newBlocks \in Nat
        /\ k.slabCount \in Int /\ k.largeCount \in Int /\ k.blockSize \in BlockSizes
    BY <1>1, <1>4, <1>6 DEF Heap, SameCalls, SameSlabs
  <2>3. k \in Heap
    BY <1>1, <1>5, <2>1, <2>2, HeapIs
  <2>. QED
    BY <1>4, <2>3 DEF Dropped
<1>8. /\ h.slabCount \in Int /\ h.slabBytes \in Int /\ Cardinality({}) = 0 /\ SizeOf(h, {}) = 0
  <2>1. [b \in {} |-> h.block[b].size] \in [{} -> Nat]
    OBVIOUS
  <2>. QED
    BY <1>1, <2>1, SumEmpty, FS_EmptySet DEF Heap, SizeOf
<1>. QED
  BY <1>2, <1>3, <1>4, <1>7, <1>8, DroppedCounted DEF SameSlabs, L, k

\* Rebuilding the partial lists makes them right, whatever they were.
LEMMA RebuildSound ==
    ASSUME NEW h, Sound(h)
    PROVE  LET k == RebuildPartial(h)
           IN  Sound(k) /\ Lists(k) /\ SameCalls(h, k) /\ k.block = h.block
<1>. DEFINE k == RebuildPartial(h)
            P == [c \in Classes |-> {b \in Slabs(h) : h.block[b].cls = c /\ HasRoom(h.block[b])}]
<1>1. h \in Heap
  BY DEF Sound
<1>2. /\ k.partial = P /\ k.current = [c \in Classes |-> None]
      /\ k.block = h.block /\ SameCalls(h, k) /\ SameSlabs(h, k)
      /\ k.blockSize = h.blockSize /\ k.largeCount = h.largeCount
      /\ k.liveTotal = h.liveTotal /\ k.usedTotal = h.usedTotal
  BY <1>1 DEF RebuildPartial, Heap, SameCalls, SameSlabs
<1>3. k = [f \in DOMAIN h |-> k[f]]
  BY DEF RebuildPartial
<1>4. /\ P \in [Classes -> SUBSET Blocks]
      /\ \A c \in Classes : \A b \in Blocks : b \in P[c] <=> Listed(h, b) /\ h.block[b].cls = c
  BY DEF Slabs, Listed
<1>. HIDE DEF k, P
<1>5. k \in Heap
  <2>1. k.block \in [Blocks -> Block] /\ k.partial \in [Classes -> SUBSET Blocks]
        /\ k.current \in [Classes -> Blocks \cup {None}]
    BY <1>1, <1>2, <1>4 DEF Heap
  <2>2. /\ k.usedTotal \in Int /\ k.liveTotal \in Int /\ k.slabBytes \in Int
        /\ k.allocTotal \in Nat /\ k.reuse \in Nat /\ k.newBlocks \in Nat
        /\ k.slabCount \in Int /\ k.largeCount \in Int /\ k.blockSize \in BlockSizes
    BY <1>1, <1>2 DEF Heap, SameCalls, SameSlabs
  <2>. QED
    BY <1>1, <1>3, <2>1, <2>2, HeapIs
<1>6. Counted(k)
  <2>1. Slabs(k) = Slabs(h) /\ Larges(k) = Larges(h) /\ Occupied(k) = Occupied(h)
    BY <1>2 DEF Slabs, Larges, Occupied
  <2>. QED
    BY <1>2, <2>1 DEF Sound, Counted, SizeOf, BytesOf, SameSlabs
<1>7. Lists(k)
  BY <1>2, <1>4 DEF Lists, Listed
<1>. QED
  BY <1>2, <1>5, <1>6, <1>7 DEF Sound, k

-----------------------------------------------------------------------------
(* An allocation.                                                           *)

\* In heap k, object i of block b is new and has n bytes; all else is as in h.
Gains(h, k, b, i, n, own) ==
    /\ b \in Blocks /\ OthersSame(h, k, b)
    /\ i \notin DOMAIN h.block[b].live
    /\ DOMAIN k.block[b].live = DOMAIN h.block[b].live \cup {i}
    /\ k.block[b].live[i] = n
    /\ \A j \in DOMAIN h.block[b].live : k.block[b].live[j] = h.block[b].live[j]
    /\ k.block[b].owner = own
    /\ h.block[b].kind # "host" => h.block[b].owner = own
    /\ n <= Holds(k.block[b])

\* No slab of the owner and class of b that has room is less occupied.
LeastUsed(h, b) ==
    \A s \in Slabs(h) :
        /\ h.block[s].owner = h.block[b].owner
        /\ h.block[s].cls = h.block[b].cls
        /\ HasRoom(h.block[s])
        => h.block[b].used <= h.block[s].used

LEMMA BestIs ==
    ASSUME NEW h, Good(h), NEW own, NEW c \in Classes, NEW b \in Best(h, own, c)
    PROVE  /\ b \in h.partial[c] /\ b \in Slabs(h)
           /\ h.block[b].owner = own /\ h.block[b].cls = c /\ LeastUsed(h, b)
<1>1. h \in Heap /\ Lists(h)
  BY DEF Good, Sound
<1>2. \A s \in Blocks : h.block[s].used \in Nat
  BY <1>1, BlockSets
<1>3. /\ b \in h.partial[c] /\ h.block[b].owner = own
      /\ \A s \in Mine(h, own, c) : h.block[b].used <= h.block[s].used
  <2>1. CASE h.current[c] # None /\ h.partial[c] = {h.current[c]} /\ h.block[h.current[c]].owner = own
    <3>1. b = h.current[c] /\ Mine(h, own, c) = {b} /\ b \in Blocks
      BY <1>1, <2>1 DEF Best, Mine, Heap
    <3>. QED
      BY <1>2, <2>1, <3>1
  <2>2. CASE ~(h.current[c] # None /\ h.partial[c] = {h.current[c]} /\ h.block[h.current[c]].owner = own)
    BY <2>2 DEF Best, Mine
  <2>. QED
    BY <2>1, <2>2
<1>4. b \in Blocks /\ Listed(h, b) /\ h.block[b].cls = c
  BY <1>1, <1>3 DEF Heap, Lists
<1>5. ASSUME NEW s \in Slabs(h), h.block[s].owner = own, h.block[s].cls = c, HasRoom(h.block[s])
      PROVE  s \in Mine(h, own, c)
  BY <1>1, <1>5 DEF Lists, Listed, Slabs, Mine
<1>6. LeastUsed(h, b)
  BY <1>3, <1>4, <1>5 DEF LeastUsed
<1>. QED
  BY <1>3, <1>4, <1>6 DEF Slabs, Listed

LEMMA TookGains ==
    ASSUME NEW h, Sound(h), NEW k, NEW b \in Slabs(h), NEW i \in FreeSlots(h.block[b]),
           NEW n \in Nat \ {0}, n <= ClassSize[h.block[b].cls], Took(h, k, b, i, n)
    PROVE  Gains(h, k, b, i, n, h.block[b].owner)
<1>. DEFINE r == h.block[b]
            q == Taken(r, i, n)
<1>1. b \in Blocks /\ r \in Block /\ BlockOk(r) /\ r.kind = "slab"
  BY DEF Sound, Heap, Slabs
<1>2. k.block[b] = q /\ OthersSame(h, k, b)
  BY DEF Took
<1>. HIDE DEF r
<1>3. Changed(r, q, r.used + 1, r.bytes + n)
  BY <1>1, TakenOk DEF r
<1>4. q.kind = "slab" /\ q.owner = r.owner /\ q.cls = r.cls /\ q.live = Extend(r.live, i, n)
  BY <1>1 DEF Taken, Block
<1>5. /\ DOMAIN q.live = DOMAIN r.live \cup {i}
      /\ q.live[i] = n /\ \A j \in DOMAIN r.live : q.live[j] = r.live[j]
      /\ i \notin DOMAIN r.live
  BY <1>1, <1>4 DEF FreeSlots, Extend, r
<1>6. n <= Holds(q)
  BY <1>4 DEF Holds, r
<1>. QED
  BY <1>1, <1>2, <1>4, <1>5, <1>6 DEF Gains, r

\* An allocation in a slab that has room.
LEMMA AllocReuses ==
    ASSUME NEW h, Good(h), NEW own, NEW c \in Classes, NEW b \in Best(h, own, c),
           NEW i \in FreeSlots(h.block[b]), NEW n \in Nat \ {0}, n <= ClassSize[c]
    PROVE  LET k == TakeSlot(Cached(h, c, b), b, i, n)
           IN  Good(k) /\ Gains(h, k, b, i, n, own) /\ LeastUsed(h, b)
<1>. DEFINE m == Cached(h, c, b)
            k == TakeSlot(m, b, i, n)
<1>1. /\ Sound(h) /\ Lists(h) /\ Balanced(h) /\ h \in Heap
  BY DEF Good, Sound
<1>2. /\ b \in h.partial[c] /\ b \in Slabs(h)
      /\ h.block[b].owner = own /\ h.block[b].cls = c /\ LeastUsed(h, b)
  BY BestIs
<1>3. /\ Sound(m) /\ ListsBut(m, b) /\ m.block = h.block
      /\ m.allocTotal = h.allocTotal /\ m.reuse = h.reuse + 1 /\ m.newBlocks = h.newBlocks
  BY <1>1, <1>2, CachedSound
<1>. HIDE DEF m
<1>4. b \in Slabs(m) /\ i \in FreeSlots(m.block[b]) /\ n <= ClassSize[m.block[b].cls]
  BY <1>2, <1>3 DEF Slabs
<1>5. Sound(k) /\ (ListsBut(m, b) => Lists(k)) /\ Took(m, k, b, i, n)
  BY <1>3, <1>4, TakeSlotSound
<1>. HIDE DEF k
<1>6. Gains(m, k, b, i, n, m.block[b].owner)
  BY <1>3, <1>4, <1>5, TookGains
<1>7. Gains(h, k, b, i, n, own)
  BY <1>2, <1>3, <1>6 DEF Gains, OthersSame
<1>8. Balanced(k)
  <2>1. k.allocTotal = m.allocTotal + 1 /\ k.reuse = m.reuse /\ k.newBlocks = m.newBlocks
    BY <1>5 DEF Took
  <2>2. h.allocTotal \in Nat /\ h.reuse \in Nat /\ h.newBlocks \in Nat
    BY <1>1 DEF Heap
  <2>. QED
    BY <1>1, <1>3, <2>1, <2>2 DEF Balanced
<1>. QED
  BY <1>2, <1>3, <1>5, <1>7, <1>8 DEF Good, k, m

\* An allocation in a new slab.
LEMMA AllocNewSlab ==
    ASSUME NEW h, Good(h), NEW own \in Owners, NEW c \in Classes, NEW b \in HostFree(h),
           NEW n \in Nat \ {0}, n <= ClassSize[c]
    PROVE  LET k == TakeSlot(NewSlab(h, b, c, own), b, 1, n)
           IN  Good(k) /\ Gains(h, k, b, 1, n, own)
<1>. DEFINE m == NewSlab(h, b, c, own)
            k == TakeSlot(m, b, 1, n)
<1>1. /\ Sound(h) /\ Lists(h) /\ Balanced(h) /\ h \in Heap
      /\ b \in Blocks /\ h.block[b].kind = "host" /\ DOMAIN h.block[b].live = {}
  BY DEF Good, Sound, HostFree, BlockOk
<1>2. /\ Sound(m) /\ ListsBut(m, b)
      /\ b \in Slabs(m) /\ 1 \in FreeSlots(m.block[b])
      /\ m.block[b].cls = c /\ m.block[b].used = 0 /\ m.block[b].owner = own
  BY <1>1, NewSlabSound
<1>3. MadeSlab(h, m, b, c, own)
  BY <1>1, NewSlabFields
<1>. HIDE DEF m
<1>4. Sound(k) /\ Lists(k) /\ Took(m, k, b, 1, n)
  BY <1>2, TakeSlotSound
<1>. HIDE DEF k
<1>5. Gains(m, k, b, 1, n, m.block[b].owner)
  BY <1>2, <1>4, TookGains
<1>6. /\ OthersSame(h, m, b) /\ DOMAIN m.block[b].live = {}
      /\ m.newBlocks = h.newBlocks + 1 /\ m.allocTotal = h.allocTotal /\ m.reuse = h.reuse
  BY <1>3 DEF MadeSlab
<1>7. Gains(h, k, b, 1, n, own)
  BY <1>1, <1>2, <1>5, <1>6 DEF Gains, OthersSame
<1>8. Balanced(k)
  <2>1. k.allocTotal = m.allocTotal + 1 /\ k.reuse = m.reuse /\ k.newBlocks = m.newBlocks
    BY <1>4 DEF Took
  <2>2. h.allocTotal \in Nat /\ h.reuse \in Nat /\ h.newBlocks \in Nat
    BY <1>1 DEF Heap
  <2>. QED
    BY <1>1, <1>6, <2>1, <2>2 DEF Balanced
<1>. QED
  BY <1>4, <1>7, <1>8 DEF Good, k, m

\* An allocation of a large object.
LEMMA AllocNewLarge ==
    ASSUME NEW h, Good(h), NEW own \in Owners, NEW b \in HostFree(h), NEW n \in Nat \ {0}
    PROVE  LET k == NewLarge(h, b, n, own)
           IN  Good(k) /\ Gains(h, k, b, 1, n, own)
<1>. DEFINE k == NewLarge(h, b, n, own)
            q == k.block[b]
<1>1. /\ Sound(h) /\ Lists(h) /\ Balanced(h) /\ h \in Heap
      /\ b \in Blocks /\ h.block[b].kind = "host" /\ DOMAIN h.block[b].live = {}
  BY DEF Good, Sound, HostFree, BlockOk
<1>2. Sound(k) /\ Lists(k)
  BY <1>1, NewLargeSound
<1>3. MadeLarge(h, k, b, n, own)
  BY <1>1, NewLargeFields
<1>. HIDE DEF k
<1>4. /\ OthersSame(h, k, b) /\ q.kind = "large" /\ q.owner = own /\ q.live = <<n>>
      /\ k.newBlocks = h.newBlocks + 1 /\ k.allocTotal = h.allocTotal + 1 /\ k.reuse = h.reuse
  BY <1>3 DEF MadeLarge
<1>5. BlockOk(q)
  BY <1>1, <1>2 DEF Sound
<1>. HIDE DEF q
<1>6. DOMAIN q.live = {1} /\ q.live[1] = n
  <2>1. DOMAIN <<n>> = {1} /\ <<n>>[1] = n
    BY NewLives
  <2>. QED
    BY <1>4, <2>1
<1>7. n <= Holds(q)
  BY <1>4, <1>5, <1>6 DEF BlockOk, LargeOk, Holds
<1>8. Gains(h, k, b, 1, n, own)
  BY <1>1, <1>4, <1>6, <1>7 DEF Gains, q
<1>9. Balanced(k)
  <2>1. h.allocTotal \in Nat /\ h.reuse \in Nat /\ h.newBlocks \in Nat
    BY <1>1 DEF Heap
  <2>. QED
    BY <1>1, <1>4, <2>1 DEF Balanced
<1>. QED
  BY <1>2, <1>8, <1>9 DEF Good, k

LEMMA AllocSound ==
    ASSUME NEW h, Good(h), NEW own \in Owners, NEW n \in Nat \ {0},
           NEW a \in AllocOutcomes(h, own, n)
    PROVE  /\ Good(a.heap)
           /\ \E b, i : /\ a.obj = <<b, i>> /\ Gains(h, a.heap, b, i, n, own)
                        /\ b \in Slabs(h) => LeastUsed(h, b)
<1>. DEFINE c == ClassOf(n)
<1>1. \/ c = LargeClass
      \/ c \in Classes /\ n <= ClassSize[c] /\ c # LargeClass
  BY ClassFits
<1>. HIDE DEF c
<1>2. CASE c = LargeClass
  <2>1. PICK b \in HostFree(h) : a = [heap |-> NewLarge(h, b, n, own), obj |-> <<b, 1>>]
    BY <1>2 DEF AllocOutcomes, c
  <2>2. Good(NewLarge(h, b, n, own)) /\ Gains(h, NewLarge(h, b, n, own), b, 1, n, own)
    BY AllocNewLarge
  <2>3. b \notin Slabs(h)
    BY DEF HostFree, Slabs
  <2>. QED
    BY <2>1, <2>2, <2>3
<1>3. CASE c # LargeClass /\ Best(h, own, c) # {}
  <2>1. PICK b \in Best(h, own, c) : \E i \in FreeSlots(h.block[b]) :
            a = [heap |-> TakeSlot(Cached(h, c, b), b, i, n), obj |-> <<b, i>>]
    BY <1>3 DEF AllocOutcomes, Cached, c
  <2>2. PICK i \in FreeSlots(h.block[b]) :
            a = [heap |-> TakeSlot(Cached(h, c, b), b, i, n), obj |-> <<b, i>>]
    BY <2>1
  <2>3. /\ Good(TakeSlot(Cached(h, c, b), b, i, n)) /\ LeastUsed(h, b)
        /\ Gains(h, TakeSlot(Cached(h, c, b), b, i, n), b, i, n, own)
    BY <1>1, <1>3, AllocReuses
  <2>. QED
    BY <2>2, <2>3
<1>4. CASE c # LargeClass /\ Best(h, own, c) = {}
  <2>1. PICK b \in HostFree(h) :
            a = [heap |-> TakeSlot(NewSlab(h, b, c, own), b, 1, n), obj |-> <<b, 1>>]
    BY <1>4 DEF AllocOutcomes, c
  <2>2. /\ Good(TakeSlot(NewSlab(h, b, c, own), b, 1, n))
        /\ Gains(h, TakeSlot(NewSlab(h, b, c, own), b, 1, n), b, 1, n, own)
    BY <1>1, <1>4, AllocNewSlab
  <2>3. b \notin Slabs(h)
    BY DEF HostFree, Slabs
  <2>. QED
    BY <2>1, <2>2, <2>3
<1>. QED
  BY <1>2, <1>3, <1>4

-----------------------------------------------------------------------------
(* Releasing, resizing and moving an object.                                *)

Has(h, b, i) == b \in Blocks /\ i \in DOMAIN h.block[b].live

\* In heap k, object i of block b is gone; all else is as in h.
Loses(h, k, b, i) ==
    /\ OthersSame(h, k, b)
    /\ DOMAIN k.block[b].live = DOMAIN h.block[b].live \ {i}
    /\ \A j \in DOMAIN k.block[b].live : /\ k.block[b].live[j] = h.block[b].live[j]
                                         /\ k.block[b].owner = h.block[b].owner
    /\ k.block[b].used = h.block[b].used - 1

\* In heap k, object i of block b has n bytes; all else is as in h.
Sets(h, k, b, i, n) ==
    /\ OthersSame(h, k, b)
    /\ DOMAIN k.block[b].live = DOMAIN h.block[b].live
    /\ k.block[b].live[i] = n
    /\ \A j \in DOMAIN h.block[b].live : j # i => k.block[b].live[j] = h.block[b].live[j]
    /\ k.block[b].owner = h.block[b].owner /\ k.block[b].used = h.block[b].used

\* An object's block is a slab or a large object.
LEMMA HasKind ==
    ASSUME NEW h, Sound(h), NEW b, NEW i, Has(h, b, i)
    PROVE  \/ b \in Slabs(h) /\ h.block[b].kind = "slab"
           \/ b \in Larges(h) /\ h.block[b].kind = "large" /\ i = 1
<1>1. b \in Blocks /\ h.block[b] \in Block /\ BlockOk(h.block[b]) /\ i \in DOMAIN h.block[b].live
  BY DEF Has, Sound, Heap
<1>2. h.block[b].kind \in {"slab", "large"}
  BY <1>1 DEF Block, BlockOk
<1>. QED
  BY <1>1, <1>2 DEF Slabs, Larges, BlockOk, LargeOk

LEMMA FreeSound ==
    ASSUME NEW h, Good(h), NEW b, NEW i, Has(h, b, i)
    PROVE  LET k == FreeIn(h, <<b, i>>)
           IN  Good(k) /\ Loses(h, k, b, i)
<1>. DEFINE k == FreeIn(h, <<b, i>>)
            r == h.block[b]
<1>1. /\ Sound(h) /\ Lists(h) /\ Balanced(h) /\ h \in Heap
      /\ b \in Blocks /\ i \in DOMAIN r.live /\ r \in Block /\ BlockOk(r)
  BY DEF Good, Sound, Has, Heap
<1>2. ASSUME SameCalls(h, k)
      PROVE  Balanced(k)
  BY <1>1, <1>2 DEF Balanced, SameCalls
<1>3. CASE b \in Slabs(h) /\ r.kind = "slab"
  <2>1. k = FreeSlot(h, b, i)
    BY <1>3 DEF FreeIn
  <2>2. Sound(k) /\ Lists(k) /\ Gave(h, k, b, i)
    BY <1>1, <1>3, <2>1, FreeSlotSound
  <2>. HIDE DEF k
  <2>3. k.block[b] = Given(r, i) /\ OthersSame(h, k, b) /\ SameCalls(h, k)
    BY <2>2 DEF Gave
  <2>. HIDE DEF r
  <2>4. /\ k.block[b].live = Without(r.live, i) /\ k.block[b].used = r.used - 1
        /\ k.block[b].owner = r.owner
    BY <1>1, <2>3 DEF Given, Block
  <2>5. Loses(h, k, b, i)
    BY <2>3, <2>4 DEF Loses, Without, r
  <2>. QED
    BY <1>2, <2>2, <2>3, <2>5 DEF Good, k
<1>4. CASE b \in Larges(h) /\ r.kind = "large" /\ i = 1
  <2>1. k = FreeLarge(h, b)
    BY <1>4 DEF FreeIn
  <2>2. Sound(k) /\ Lists(k) /\ GaveBlock(h, k, b)
    BY <1>1, <1>4, <2>1, FreeLargeSound
  <2>. HIDE DEF k
  <2>3. k.block[b] = Unused /\ OthersSame(h, k, b) /\ SameCalls(h, k)
    BY <2>2 DEF GaveBlock
  <2>4. r.used = 1 /\ DOMAIN r.live = {1}
    BY <1>1, <1>4, LargeUsed
  <2>5. Loses(h, k, b, i)
    BY <1>4, <2>3, <2>4, UnusedOk DEF Loses
  <2>. QED
    BY <1>2, <2>2, <2>3, <2>5 DEF Good, k
<1>. QED
  BY <1>1, <1>3, <1>4, HasKind

LEMMA ResizeSound ==
    ASSUME NEW h, Good(h), NEW b, NEW i, Has(h, b, i),
           NEW n \in Nat \ {0}, n <= Holds(h.block[b])
    PROVE  LET k == Resized(h, <<b, i>>, n)
           IN  Good(k) /\ Sets(h, k, b, i, n)
<1>. DEFINE k == Resized(h, <<b, i>>, n)
            r == h.block[b]
<1>1. /\ Sound(h) /\ Lists(h) /\ Balanced(h)
      /\ b \in Blocks /\ i \in DOMAIN r.live /\ r \in Block
  BY DEF Good, Sound, Has, Heap
<1>2. Sound(k) /\ Lists(k) /\ Resizes(h, k, b, i, n)
  BY <1>1, ResizedSound
<1>. HIDE DEF k
<1>3. k.block[b] = Remade(r, i, n) /\ OthersSame(h, k, b) /\ SameCalls(h, k)
  BY <1>2 DEF Resizes
<1>. HIDE DEF r
<1>4. /\ k.block[b].live = [r.live EXCEPT ![i] = n] /\ k.block[b].used = r.used
      /\ k.block[b].owner = r.owner
  BY <1>1, <1>3 DEF Remade, Block
<1>5. r.live = [j \in DOMAIN r.live |-> r.live[j]]
  BY <1>1 DEF Block, Lives
<1>6. Sets(h, k, b, i, n)
  BY <1>1, <1>3, <1>4, <1>5 DEF Sets, r
<1>. QED
  BY <1>1, <1>2, <1>3, <1>6 DEF Good, Balanced, SameCalls, k

\* Object i of block b goes on as object j of block d, with n bytes.
Moves(h, k, b, i, d, j, n) ==
    /\ d \in Blocks /\ <<d, j>> # <<b, i>> /\ ~Has(h, d, j)
    /\ \A x \in Blocks : \A y :
         /\ Has(k, x, y) <=> (Has(h, x, y) /\ <<x, y>> # <<b, i>>) \/ <<x, y>> = <<d, j>>
         /\ Has(k, x, y) =>
              IF <<x, y>> = <<d, j>>
              THEN k.block[x].live[y] = n /\ k.block[x].owner = h.block[b].owner
              ELSE k.block[x].live[y] = h.block[x].live[y] /\ k.block[x].owner = h.block[x].owner

LEMMA MovesObjects ==
    ASSUME NEW h, NEW m, NEW p, NEW k, NEW b, NEW i, NEW d, NEW j, NEW n, NEW g,
           Has(h, b, i), Gains(h, m, d, j, g, h.block[b].owner),
           Sets(m, p, d, j, n), Loses(p, k, b, i),
           \A x \in Blocks : h.block[x].kind = "host" => DOMAIN h.block[x].live = {}
    PROVE  Moves(h, k, b, i, d, j, n)
<1>1. d \in Blocks /\ b \in Blocks /\ <<d, j>> # <<b, i>> /\ ~Has(h, d, j)
  BY DEF Has, Gains
<1>2. ASSUME NEW x \in Blocks, NEW y
      PROVE  /\ Has(m, x, y) <=> Has(h, x, y) \/ <<x, y>> = <<d, j>>
             /\ <<x, y>> = <<d, j>> => m.block[x].owner = h.block[b].owner
             /\ Has(h, x, y) => /\ m.block[x].live[y] = h.block[x].live[y]
                                /\ m.block[x].owner = h.block[x].owner
  BY DEF Gains, OthersSame, Has
<1>3. ASSUME NEW x \in Blocks, NEW y
      PROVE  /\ Has(p, x, y) <=> Has(m, x, y)
             /\ <<x, y>> = <<d, j>> => p.block[x].live[y] = n
             /\ Has(m, x, y) /\ <<x, y>> # <<d, j>> => p.block[x].live[y] = m.block[x].live[y]
             /\ p.block[x].owner = m.block[x].owner
  BY DEF Sets, OthersSame, Has
<1>4. ASSUME NEW x \in Blocks, NEW y
      PROVE  /\ Has(k, x, y) <=> Has(p, x, y) /\ <<x, y>> # <<b, i>>
             /\ Has(k, x, y) => /\ k.block[x].live[y] = p.block[x].live[y]
                                /\ k.block[x].owner = p.block[x].owner
  BY DEF Loses, OthersSame, Has
<1>5. ASSUME NEW x \in Blocks, NEW y
      PROVE  /\ Has(k, x, y) <=> (Has(h, x, y) /\ <<x, y>> # <<b, i>>) \/ <<x, y>> = <<d, j>>
             /\ Has(k, x, y) =>
                  IF <<x, y>> = <<d, j>>
                  THEN k.block[x].live[y] = n /\ k.block[x].owner = h.block[b].owner
                  ELSE k.block[x].live[y] = h.block[x].live[y] /\ k.block[x].owner = h.block[x].owner
  BY <1>1, <1>2, <1>3, <1>4
<1>. QED
  BY <1>1, <1>5 DEF Moves

\* What a slab that gained an object was.
Fills(h, k) ==
    \A x \in Slabs(h) : k.block[x].used > h.block[x].used => LeastUsed(h, x)

LEMMA MoveSound ==
    ASSUME NEW h, Good(h), NEW b, NEW i, Has(h, b, i), NEW n \in Nat \ {0},
           n > Capacity(h, <<b, i>>), NEW a \in MoveOutcomes(h, <<b, i>>, n)
    PROVE  /\ Good(a.heap) /\ Fills(h, a.heap)
           /\ \E d, j : Moves(h, a.heap, b, i, d, j, n)
<1>. DEFINE own == h.block[b].owner
            g == Grown(h, <<b, i>>, n)
<1>1. /\ Sound(h) /\ h \in Heap /\ b \in Blocks /\ own \in Owners
      /\ h.block[b] \in Block /\ BlockOk(h.block[b]) /\ i \in DOMAIN h.block[b].live
  BY DEF Good, Sound, Has, Heap, Block
<1>2. Capacity(h, <<b, i>>) \in Nat
  <2>1. Capacity(h, <<b, i>>) = Holds(h.block[b])
    BY DEF Capacity, Holds
  <2>2. CASE h.block[b].kind = "slab"
    BY <1>1, <2>1, <2>2, Sizes DEF Holds, BlockOk, SlabOk
  <2>3. CASE h.block[b].kind = "large" /\ i = 1
    <3>1. /\ h.block[b].live[1] \in Nat /\ h.block[b].size \in Nat
          /\ h.block[b].live[1] <= h.block[b].size - LargeHdr - ObjHdr
      BY <1>1, <2>3, LiveType DEF BlockOk, LargeOk
    <3>. QED
      BY <2>1, <2>3, <3>1, Sizes DEF Holds
  <2>. QED
    BY <1>1, <2>2, <2>3, HasKind
<1>3. g \in Nat \ {0} /\ n <= g
  BY <1>2 DEF Grown
<1>. HIDE DEF g
<1>4. PICK c \in AllocOutcomes(h, own, g) :
        a = [heap |-> FreeIn(Resized(c.heap, c.obj, n), <<b, i>>), obj |-> c.obj]
  BY DEF MoveOutcomes, g
<1>. DEFINE m == c.heap
<1>5. Good(m) /\ \E d, j : /\ c.obj = <<d, j>> /\ Gains(h, m, d, j, g, own)
                           /\ d \in Slabs(h) => LeastUsed(h, d)
  BY <1>1, <1>3, AllocSound
<1>6. PICK d, j : /\ c.obj = <<d, j>> /\ Gains(h, m, d, j, g, own)
                  /\ d \in Slabs(h) => LeastUsed(h, d)
  BY <1>5
<1>. DEFINE p == Resized(m, <<d, j>>, n)
            k == FreeIn(p, <<b, i>>)
<1>7. a.heap = k
  BY <1>4, <1>6
<1>. HIDE DEF m, own
<1>8. Has(m, d, j) /\ n <= Holds(m.block[d])
  <2>1. d \in Blocks /\ j \in DOMAIN m.block[d].live /\ g <= Holds(m.block[d])
    BY <1>6 DEF Gains
  <2>2. Holds(m.block[d]) \in Int
    <3>1. m.block[d] \in Block /\ BlockOk(m.block[d])
      BY <1>5, <2>1 DEF Good, Sound, Heap
    <3>. QED
      BY <3>1, HoldsType
  <2>. QED
    BY <1>3, <2>1, <2>2 DEF Has
<1>9. Good(p) /\ Sets(m, p, d, j, n)
  BY <1>5, <1>8, ResizeSound
<1>. HIDE DEF p
<1>10. Has(p, b, i)
  BY <1>1, <1>6, <1>9 DEF Has, Gains, Sets, OthersSame
<1>11. Good(k) /\ Loses(p, k, b, i)
  BY <1>9, <1>10, FreeSound
<1>. HIDE DEF k
<1>12. Moves(h, k, b, i, d, j, n)
  <2>1. \A x \in Blocks : h.block[x].kind = "host" => DOMAIN h.block[x].live = {}
    BY <1>1 DEF Sound, BlockOk
  <2>. QED
    BY <1>6, <1>9, <1>11, <2>1, MovesObjects DEF own
<1>13. Fills(h, k)
  <2>1. ASSUME NEW x \in Slabs(h), x # d
        PROVE  ~(k.block[x].used > h.block[x].used)
    <3>1. x \in Blocks /\ h.block[x].used \in Nat
      BY <1>1, BlockSets DEF Slabs
    <3>2. p.block[x] = h.block[x]
      BY <1>6, <1>9, <2>1, <3>1 DEF Gains, Sets, OthersSame
    <3>3. k.block[x] = p.block[x] \/ k.block[x].used = p.block[x].used - 1
      BY <1>11, <3>1 DEF Loses, OthersSame
    <3>. QED
      BY <3>1, <3>2, <3>3
  <2>. QED
    BY <1>6, <2>1 DEF Fills
<1>. QED
  BY <1>7, <1>11, <1>12, <1>13

-----------------------------------------------------------------------------
(* Compaction and the end of a task.                                        *)

LEMMA CompactSound ==
    ASSUME NEW h, Good(h)
    PROVE  LET S == {b \in Slabs(h) : h.block[b].used = 0}
               k == RebuildPartial(DropSlabs(h, S))
           IN  /\ Good(k)
               /\ \A x \in Blocks : k.block[x] = IF x \in S THEN Unused ELSE h.block[x]
<1>. DEFINE S == {b \in Slabs(h) : h.block[b].used = 0}
            m == DropSlabs(h, S)
            k == RebuildPartial(m)
<1>1. Sound(h) /\ Balanced(h)
  BY DEF Good
<1>2. Sound(m) /\ Dropped(h, m, S)
  BY <1>1, DropSlabsSound
<1>. HIDE DEF S, m
<1>3. Sound(k) /\ Lists(k) /\ SameCalls(m, k) /\ k.block = m.block
  BY <1>2, RebuildSound
<1>. HIDE DEF k
<1>4. Balanced(k)
  BY <1>1, <1>2, <1>3 DEF Balanced, SameCalls, Dropped
<1>5. \A x \in Blocks : k.block[x] = IF x \in S THEN Unused ELSE h.block[x]
  BY <1>2, <1>3 DEF Dropped
<1>. QED
  BY <1>3, <1>4, <1>5 DEF Good, k, m, S

\* Exactly the blocks of the owner are back with the host.
LEMMA OwnerSound ==
    ASSUME NEW h, Good(h), NEW own
    PROVE  LET k == RebuildPartial(FreeOwnerLarges(FreeOwnerSlabs(h, own), own))
           IN  /\ Good(k)
               /\ \A x \in Blocks :
                    k.block[x] = IF h.block[x].kind # "host" /\ h.block[x].owner = own
                                 THEN Unused ELSE h.block[x]
<1>. DEFINE m == FreeOwnerSlabs(h, own)
            S == {b \in Slabs(h) : h.block[b].owner = own}
            p == FreeOwnerLarges(m, own)
            L == {b \in Larges(m) : m.block[b].owner = own}
            k == RebuildPartial(p)
<1>1. Sound(h) /\ Balanced(h) /\ h \in Heap
  BY DEF Good, Sound
<1>2. Sound(m) /\ Dropped(h, m, S)
  BY <1>1, FreeOwnerSlabsSound
<1>. HIDE DEF m
<1>3. Sound(p) /\ Dropped(m, p, L)
  BY <1>2, FreeOwnerLargesSound
<1>. HIDE DEF p
<1>4. Sound(k) /\ Lists(k) /\ SameCalls(p, k) /\ k.block = p.block
  BY <1>3, RebuildSound
<1>. HIDE DEF k
<1>5. Balanced(k)
  BY <1>1, <1>2, <1>3, <1>4 DEF Balanced, SameCalls, Dropped
<1>6. ASSUME NEW x \in Blocks
      PROVE  k.block[x] = IF h.block[x].kind # "host" /\ h.block[x].owner = own
                          THEN Unused ELSE h.block[x]
  <2>1. /\ m.block[x] = IF x \in S THEN Unused ELSE h.block[x]
        /\ k.block[x] = IF x \in L THEN Unused ELSE m.block[x]
    BY <1>2, <1>3, <1>4 DEF Dropped
  <2>2. h.block[x].kind \in {"host", "slab", "large"}
    BY <1>1 DEF Heap, Block
  <2>3. x \in S <=> h.block[x].kind = "slab" /\ h.block[x].owner = own
    BY DEF Slabs
  <2>4. x \in L <=> m.block[x].kind = "large" /\ m.block[x].owner = own
    BY DEF Larges
  <2>. HIDE DEF S, L
  <2>. QED
    BY <2>1, <2>2, <2>3, <2>4, UnusedOk
<1>. QED
  BY <1>4, <1>5, <1>6 DEF Good, k, p, m

-----------------------------------------------------------------------------
(* The invariant.                                                           *)

LEMMA ObjectIs ==
    ASSUME NEW h, NEW obj
    PROVE  obj \in Objects(h) <=> \E b, i : obj = <<b, i>> /\ Has(h, b, i)
BY DEF Objects, Has

LEMMA InitHInv == ASSUME Init PROVE HInv
<1>1. PICK n \in BlockSizes : heap = InitHeap(n)
  BY DEF Init
<1>2. /\ heap.block = [b \in Blocks |-> Unused]
      /\ heap.partial = [c \in Classes |-> {}] /\ heap.current = [c \in Classes |-> None]
      /\ heap.usedTotal = 0 /\ heap.liveTotal = 0 /\ heap.slabBytes = 0
      /\ heap.allocTotal = 0 /\ heap.reuse = 0 /\ heap.newBlocks = 0
      /\ heap.slabCount = 0 /\ heap.largeCount = 0
  BY <1>1 DEF InitHeap
<1>3. heap \in Heap
  BY <1>1, UnusedBlock DEF InitHeap, Heap
<1>4. Slabs(heap) = {} /\ Larges(heap) = {} /\ Occupied(heap) = {}
  BY <1>2, UnusedOk DEF Slabs, Larges, Occupied
<1>5. Counted(heap)
  <2>1. /\ [b \in {} |-> heap.block[b].size] \in [{} -> Nat]
        /\ [b \in {} |-> heap.block[b].bytes] \in [{} -> Nat]
    OBVIOUS
  <2>2. SizeOf(heap, {}) = 0 /\ BytesOf(heap, {}) = 0 /\ Cardinality({}) = 0
    BY <2>1, SumEmpty, FS_EmptySet DEF SizeOf, BytesOf
  <2>. QED
    BY <1>2, <1>4, <2>2 DEF Counted
<1>6. Lists(heap)
  BY <1>2, UnusedOk DEF Lists, Listed
<1>7. \A b \in Blocks : BlockOk(heap.block[b])
  BY <1>2, UnusedOk
<1>8. Balanced(heap)
  BY <1>2 DEF Balanced
<1>9. running \in [Threads -> Owners]
  BY Sizes DEF Init
<1>. QED
  BY <1>3, <1>5, <1>6, <1>7, <1>8, <1>9 DEF HInv, Good, Sound

LEMMA RequestType ==
    ASSUME NEW n \in Requests
    PROVE  n \in Nat /\ Atleast1(n) \in Nat \ {0}
BY Sizes DEF Atleast1

LEMMA SetBlockSound ==
    ASSUME NEW h, Good(h), NEW n \in BlockSizes
    PROVE  LET k == [h EXCEPT !.blockSize = n] IN Good(k) /\ k.block = h.block
<1>. DEFINE k == [h EXCEPT !.blockSize = n]
<1>1. h \in Heap
  BY DEF Good, Sound
<1>2. /\ k \in Heap /\ k.block = h.block /\ k.partial = h.partial /\ k.current = h.current
      /\ k.usedTotal = h.usedTotal /\ k.liveTotal = h.liveTotal /\ k.slabBytes = h.slabBytes
      /\ k.allocTotal = h.allocTotal /\ k.reuse = h.reuse /\ k.newBlocks = h.newBlocks
      /\ k.slabCount = h.slabCount /\ k.largeCount = h.largeCount
  BY <1>1 DEF Heap
<1>. HIDE DEF k
<1>3. Counted(k)
  <2>1. Slabs(k) = Slabs(h) /\ Larges(k) = Larges(h) /\ Occupied(k) = Occupied(h)
    BY <1>2 DEF Slabs, Larges, Occupied
  <2>. QED
    BY <1>2, <2>1 DEF Good, Sound, Counted, SizeOf, BytesOf
<1>. QED
  BY <1>2, <1>3 DEF Good, Sound, Lists, Listed, Balanced, k

LEMMA NextHInv == ASSUME HInv, [Next]_vars PROVE HInv'
<1>1. Good(heap) /\ running \in [Threads -> Owners]
  BY DEF HInv
<1>2. ASSUME NEW t \in Threads, NEW n \in Requests, Alloc(t, n)
      PROVE  HInv'
  <2>1. running[t] \in Owners /\ Atleast1(n) \in Nat \ {0}
    BY <1>1, RequestType
  <2>2. \/ heap' = heap
        \/ \E a \in AllocOutcomes(heap, running[t], Atleast1(n)) : heap' = a.heap
    BY <1>2 DEF Alloc
  <2>3. Good(heap')
    BY <1>1, <2>1, <2>2, AllocSound
  <2>. QED
    BY <1>1, <1>2, <2>3 DEF HInv, Alloc
<1>3. ASSUME NEW obj \in Objects(heap), Free(obj)
      PROVE  HInv'
  <2>1. PICK b, i : obj = <<b, i>> /\ Has(heap, b, i)
    BY ObjectIs
  <2>2. Good(heap')
    BY <1>1, <1>3, <2>1, FreeSound DEF Free
  <2>. QED
    BY <1>1, <1>3, <2>2 DEF HInv, Free
<1>4. ASSUME NEW obj \in Objects(heap), NEW n \in Requests, Realloc(obj, n)
      PROVE  HInv'
  <2>1. PICK b, i : obj = <<b, i>> /\ Has(heap, b, i)
    BY ObjectIs
  <2>2. n \in Nat \ {0}
    BY <1>4, RequestType DEF Realloc
  <2>3. CASE n <= Capacity(heap, obj) /\ heap' = Resized(heap, obj, n)
    <3>1. n <= Holds(heap.block[b])
      BY <2>1, <2>3 DEF Capacity, Holds
    <3>2. Good(heap')
      BY <1>1, <2>1, <2>2, <2>3, <3>1, ResizeSound
    <3>. QED
      BY <1>1, <1>4, <3>2 DEF HInv, Realloc
  <2>4. CASE n > Capacity(heap, obj) /\ \E a \in MoveOutcomes(heap, obj, n) : heap' = a.heap
    <3>1. Good(heap')
      BY <1>1, <2>1, <2>2, <2>4, MoveSound
    <3>. QED
      BY <1>1, <1>4, <3>1 DEF HInv, Realloc
  <2>5. CASE heap' = heap
    BY <1>1, <1>4, <2>5 DEF HInv, Realloc
  <2>. QED
    BY <1>4, <2>3, <2>4, <2>5 DEF Realloc
<1>5. ASSUME NEW n \in BlockSizes, SetBlock(n)
      PROVE  HInv'
  <2>1. Good(heap')
    BY <1>1, <1>5, SetBlockSound DEF SetBlock
  <2>. QED
    BY <1>1, <1>5, <2>1 DEF HInv, SetBlock
<1>6. CASE Compact
  <2>1. Good(heap')
    BY <1>1, <1>6, CompactSound DEF Compact
  <2>. QED
    BY <1>1, <1>6, <2>1 DEF HInv, Compact
<1>7. ASSUME NEW t \in Threads, NEW id \in TaskIds, TaskBegin(t, id)
      PROVE  HInv'
  <2>1. running' \in [Threads -> Owners] /\ heap' = heap
    BY <1>1, <1>7, Sizes DEF TaskBegin
  <2>. QED
    BY <1>1, <2>1 DEF HInv
<1>8. ASSUME NEW t \in Threads, TaskEnd(t)
      PROVE  HInv'
  <2>1. Good(heap')
    BY <1>1, <1>8, OwnerSound DEF TaskEnd
  <2>2. running' \in [Threads -> Owners]
    BY <1>1, <1>8, Sizes DEF TaskEnd
  <2>. QED
    BY <2>1, <2>2 DEF HInv
<1>9. CASE UNCHANGED vars
  BY <1>1, <1>9 DEF vars, HInv
<1>. QED
  BY <1>2, <1>3, <1>4, <1>5, <1>6, <1>7, <1>8, <1>9 DEF Next

\* The invariant holds of every state.
LEMMA Invariance == Spec => []HInv
<1>1. Init => HInv
  BY InitHInv
<1>2. HInv /\ [Next]_vars => HInv'
  BY NextHInv
<1>. QED
  BY <1>1, <1>2, PTL DEF Spec

-----------------------------------------------------------------------------
(* The theorems.                                                            *)

LEMMA CountersType ==
    ASSUME NEW h, Sound(h)
    PROVE  /\ h.usedTotal \in Nat /\ h.liveTotal \in Nat /\ h.slabBytes \in Nat
           /\ h.slabCount \in Nat /\ h.largeCount \in Nat
<1>1. /\ h \in Heap
      /\ IsFiniteSet(Slabs(h)) /\ IsFiniteSet(Larges(h))
      /\ Slabs(h) \in SUBSET Blocks /\ Occupied(h) \in SUBSET Blocks
  BY BlockSets DEF Sound
<1>2. Cardinality(Slabs(h)) \in Nat /\ Cardinality(Larges(h)) \in Nat
  BY <1>1, FS_CardinalityType
<1>3. /\ SizeOf(h, Slabs(h)) \in Nat /\ SizeOf(h, Occupied(h)) \in Nat
      /\ BytesOf(h, Occupied(h)) \in Nat
  BY <1>1, SizeLess, BytesLess
<1>. QED
  BY <1>2, <1>3 DEF Sound, Counted

\* Every counter of the allocator stays a natural number (none that is counted
\* down goes below zero) and every field keeps its type.
THEOREM TypeCorrect == Spec => []TypeOK
<1>1. HInv => TypeOK
  <2>. SUFFICES ASSUME HInv PROVE TypeOK
    OBVIOUS
  <2>1. Sound(heap) /\ heap \in Heap /\ running \in [Threads -> Owners]
    BY DEF HInv, Good, Sound
  <2>2. ASSUME NEW b \in Blocks
        PROVE  LET r == heap.block[b] IN
               /\ r.kind \in {"host", "slab", "large"}
               /\ r.owner \in Owners /\ r.cls \in Classes \cup {LargeClass}
               /\ {r.size, r.count, r.used, r.bytes} \subseteq Nat
               /\ DOMAIN r.live \subseteq 1 .. r.count
               /\ \A i \in DOMAIN r.live : r.live[i] \in Nat \ {0}
    <3>. DEFINE r == heap.block[b]
    <3>1. r \in Block /\ BlockOk(r)
      BY <2>1 DEF Sound, Heap
    <3>. HIDE DEF r
    <3>2. r.live \in [DOMAIN r.live -> Nat \ {0}]
      BY <3>1, LiveType
    <3>. QED
      BY <3>1, <3>2 DEF Block, BlockOk, r
  <2>3. /\ heap.usedTotal \in Nat /\ heap.liveTotal \in Nat /\ heap.slabBytes \in Nat
        /\ heap.slabCount \in Nat /\ heap.largeCount \in Nat
    BY <2>1, CountersType
  <2>4. /\ heap.partial \in [Classes -> SUBSET Blocks] /\ heap.current \in [Classes -> Blocks \cup {None}]
        /\ heap.blockSize \in BlockSizes
        /\ heap.allocTotal \in Nat /\ heap.reuse \in Nat /\ heap.newBlocks \in Nat
    BY <2>1 DEF Heap
  <2>. QED
    BY <2>1, <2>2, <2>3, <2>4 DEF TypeOK
<1>. QED
  BY <1>1, Invariance, PTL

\* Whatever the operations of the owners and their order, each counter kept
\* incrementally equals what a walk over the blocks finds (ql_mem_check_locked).
THEOREM Accounting == Spec => []AccountingExact
<1>1. HInv => AccountingExact
  <2>. SUFFICES ASSUME HInv PROVE AccountingExact
    OBVIOUS
  <2>1. /\ Counted(heap) /\ Balanced(heap) /\ \A b \in Blocks : BlockOk(heap.block[b])
    BY DEF HInv, Good, Sound
  <2>2. ASSUME NEW b \in Slabs(heap) \cup Larges(heap)
        PROVE  /\ heap.block[b].used = Cardinality(DOMAIN heap.block[b].live)
               /\ heap.block[b].bytes = SumOf(heap.block[b].live)
    BY <2>1 DEF BlockOk, Slabs, Larges
  <2>. QED
    BY <2>1, <2>2 DEF AccountingExact, Counted, Balanced
<1>. QED
  BY <1>1, Invariance, PTL

\* The partial lists hold the slabs with a free slot and no other, and a cached
\* slab is listed: no list names a block that was given back to the host.
THEOREM ListsRight == Spec => []ListsExact
<1>1. HInv => ListsExact
  <2>. SUFFICES ASSUME HInv PROVE ListsExact
    OBVIOUS
  <2>1. Lists(heap) /\ heap \in Heap
    BY DEF HInv, Good, Sound
  <2>2. ASSUME NEW c \in Classes
        PROVE  /\ heap.partial[c] = {b \in Slabs(heap) : heap.block[b].cls = c /\ HasRoom(heap.block[b])}
               /\ heap.current[c] # None => heap.current[c] \in heap.partial[c]
    <3>1. heap.partial[c] \subseteq Blocks
      BY <2>1 DEF Heap
    <3>. QED
      BY <2>1, <3>1 DEF Lists, Listed, Slabs
  <2>. QED
    BY <2>2 DEF ListsExact
<1>. QED
  BY <1>1, Invariance, PTL

\* No object is larger than its place, after any allocation, growth in place,
\* move or shrinking, and the slots of a slab lie inside it.
THEOREM Fitting == Spec => []ObjectsFit
<1>1. HInv => ObjectsFit
  <2>. SUFFICES ASSUME HInv PROVE ObjectsFit
    OBVIOUS
  <2>1. Sound(heap) /\ \A b \in Blocks : BlockOk(heap.block[b])
    BY DEF HInv, Good, Sound
  <2>2. ASSUME NEW obj \in Objects(heap)
        PROVE  Requested(heap, obj) <= Capacity(heap, obj)
    <3>1. PICK b, i : obj = <<b, i>> /\ Has(heap, b, i)
      BY ObjectIs
    <3>2. BlockOk(heap.block[b]) /\ i \in DOMAIN heap.block[b].live
      BY <2>1, <3>1 DEF Has
    <3>3. heap.block[b].kind = "slab" \/ (heap.block[b].kind = "large" /\ i = 1)
      BY <2>1, <3>1, HasKind
    <3>. QED
      BY <3>1, <3>2, <3>3 DEF BlockOk, SlabOk, LargeOk, Requested, Capacity
  <2>3. ASSUME NEW b \in Slabs(heap)
        PROVE  heap.block[b].count > 0
               /\ SlabHdr + heap.block[b].count * Stride(heap.block[b].cls) <= heap.block[b].size
    BY <2>1 DEF Slabs, BlockOk, SlabOk
  <2>. QED
    BY <2>2, <2>3 DEF ObjectsFit
<1>. QED
  BY <1>1, Invariance, PTL

\* No step fills a slab while another of its owner and class is less occupied:
\* neither the cached slab nor a move by ql_realloc is an exception.
THEOREM LeastFirst == Spec => LeastOccupiedFirst
<1>1. HInv /\ [Next]_vars => [Fills(heap, heap')]_vars
  <2>. SUFFICES ASSUME HInv, Next PROVE Fills(heap, heap')
    BY DEF vars
  <2>1. Good(heap) /\ running \in [Threads -> Owners] /\ Sound(heap) /\ heap \in Heap
    BY DEF HInv, Good, Sound
  <2>2. \A x \in Slabs(heap) : x \in Blocks /\ heap.block[x].used \in Nat
    BY <2>1, BlockSets
  <2>3. ASSUME NEW t \in Threads, NEW n \in Requests, Alloc(t, n)
        PROVE  Fills(heap, heap')
    <3>1. running[t] \in Owners /\ Atleast1(n) \in Nat \ {0}
      BY <2>1, RequestType
    <3>2. CASE heap' = heap
      BY <2>2, <3>2 DEF Fills
    <3>3. ASSUME NEW a \in AllocOutcomes(heap, running[t], Atleast1(n)), heap' = a.heap
          PROVE  Fills(heap, heap')
      <4>1. PICK b, i : /\ Gains(heap, heap', b, i, Atleast1(n), running[t])
                        /\ b \in Slabs(heap) => LeastUsed(heap, b)
        BY <2>1, <3>1, <3>3, AllocSound
      <4>. QED
        BY <2>2, <4>1 DEF Fills, Gains, OthersSame
    <3>. QED
      BY <2>3, <3>2, <3>3 DEF Alloc
  <2>4. ASSUME NEW obj \in Objects(heap), Free(obj)
        PROVE  Fills(heap, heap')
    <3>1. PICK b, i : obj = <<b, i>> /\ Has(heap, b, i)
      BY ObjectIs
    <3>2. Loses(heap, heap', b, i)
      BY <2>1, <2>4, <3>1, FreeSound DEF Free
    <3>. QED
      BY <2>2, <3>2 DEF Fills, Loses, OthersSame
  <2>5. ASSUME NEW obj \in Objects(heap), NEW n \in Requests, Realloc(obj, n)
        PROVE  Fills(heap, heap')
    <3>1. PICK b, i : obj = <<b, i>> /\ Has(heap, b, i)
      BY ObjectIs
    <3>2. n \in Nat \ {0}
      BY <2>5, RequestType DEF Realloc
    <3>3. CASE n <= Capacity(heap, obj) /\ heap' = Resized(heap, obj, n)
      <4>1. n <= Holds(heap.block[b])
        BY <3>1, <3>3 DEF Capacity, Holds
      <4>2. Sets(heap, heap', b, i, n)
        BY <2>1, <3>1, <3>2, <3>3, <4>1, ResizeSound
      <4>. QED
        BY <2>2, <4>2 DEF Fills, Sets, OthersSame
    <3>4. CASE n > Capacity(heap, obj) /\ \E a \in MoveOutcomes(heap, obj, n) : heap' = a.heap
      BY <2>1, <3>1, <3>2, <3>4, MoveSound
    <3>5. CASE heap' = heap
      BY <2>2, <3>5 DEF Fills
    <3>. QED
      BY <2>5, <3>3, <3>4, <3>5 DEF Realloc
  <2>6. ASSUME NEW n \in BlockSizes, SetBlock(n)
        PROVE  Fills(heap, heap')
    <3>1. heap'.block = heap.block
      BY <2>1, <2>6, SetBlockSound DEF SetBlock
    <3>. QED
      BY <2>2, <3>1 DEF Fills
  <2>7. CASE Compact
    <3>1. \A x \in Blocks : heap'.block[x] = Unused \/ heap'.block[x] = heap.block[x]
      BY <2>1, <2>7, CompactSound DEF Compact
    <3>. QED
      BY <2>2, <3>1, UnusedOk DEF Fills
  <2>8. ASSUME NEW t \in Threads, NEW id \in TaskIds, TaskBegin(t, id)
        PROVE  Fills(heap, heap')
    BY <2>2, <2>8 DEF Fills, TaskBegin
  <2>9. ASSUME NEW t \in Threads, TaskEnd(t)
        PROVE  Fills(heap, heap')
    <3>1. \A x \in Blocks : heap'.block[x] = Unused \/ heap'.block[x] = heap.block[x]
      BY <2>1, <2>9, OwnerSound DEF TaskEnd
    <3>. QED
      BY <2>2, <3>1, UnusedOk DEF Fills
  <2>. QED
    BY <2>3, <2>4, <2>5, <2>6, <2>7, <2>8, <2>9 DEF Next
<1>2. [Fills(heap, heap')]_vars =>
        [\A b \in Slabs(heap) :
          heap'.block[b].used > heap.block[b].used =>
              \A s \in Slabs(heap) :
                  /\ heap.block[s].owner = heap.block[b].owner
                  /\ heap.block[s].cls = heap.block[b].cls
                  /\ HasRoom(heap.block[s])
                  => heap.block[b].used <= heap.block[s].used]_vars
  BY DEF Fills, LeastUsed
<1>. QED
  BY <1>1, <1>2, Invariance, PTL DEF Spec, LeastOccupiedFirst

-----------------------------------------------------------------------------
(* The allocator is a store of objects.                                     *)

Object(h, b, i) == [owner |-> h.block[b].owner, size |-> h.block[b].live[i]]
LiveOf(h) == [obj \in Objects(h) |->
                [owner |-> h.block[obj[1]].owner, size |-> Requested(h, obj)]]

\* What a store does to its live map when it releases or moves an object.
Releases(l, m, x) == m = [y \in DOMAIN l \ {x} |-> l[y]]
Relocates(l, m, x, z, n) ==
    /\ z \notin DOMAIN l
    /\ m = [y \in (DOMAIN l \ {x}) \cup {z} |->
             IF y = z THEN [owner |-> l[x].owner, size |-> n] ELSE l[y]]

\* A function that maps the objects of h to what they are is its live map.
LEMMA LiveIs ==
    ASSUME NEW h, NEW F, F = [y \in DOMAIN F |-> F[y]],
           \A y : y \in DOMAIN F <=> y \in Objects(h),
           \A b, i : Has(h, b, i) => F[<<b, i>>] = Object(h, b, i)
    PROVE  LiveOf(h) = F
<1>1. DOMAIN F = Objects(h)
  OBVIOUS
<1>2. ASSUME NEW y \in Objects(h)
      PROVE  LiveOf(h)[y] = F[y]
  <2>1. PICK b, i : y = <<b, i>> /\ Has(h, b, i)
    BY ObjectIs
  <2>2. LiveOf(h)[y] = Object(h, b, i)
    BY <2>1 DEF LiveOf, Object, Requested
  <2>. QED
    BY <2>1, <2>2
<1>3. LiveOf(h) = [y \in Objects(h) |-> LiveOf(h)[y]]
  BY DEF LiveOf
<1>. QED
  BY <1>1, <1>2, <1>3

LEMMA LiveAt ==
    ASSUME NEW h
    PROVE  /\ DOMAIN LiveOf(h) = Objects(h)
           /\ \A b, i : Has(h, b, i) => /\ <<b, i>> \in Objects(h)
                                        /\ LiveOf(h)[<<b, i>>] = Object(h, b, i)
<1>1. ASSUME NEW b, NEW i, Has(h, b, i)
      PROVE  <<b, i>> \in Objects(h) /\ LiveOf(h)[<<b, i>>] = Object(h, b, i)
  <2>1. <<b, i>> \in Objects(h)
    BY <1>1, ObjectIs
  <2>. QED
    BY <2>1 DEF LiveOf, Object, Requested
<1>. QED
  BY <1>1 DEF LiveOf

\* Heaps with the same objects have the same live map.
LEMMA SameObjects ==
    ASSUME NEW h, NEW k,
           \A x \in Blocks : \A y :
              /\ Has(k, x, y) <=> Has(h, x, y)
              /\ Has(h, x, y) => Object(k, x, y) = Object(h, x, y)
    PROVE  LiveOf(k) = LiveOf(h)
<1>1. \A x, y : /\ Has(k, x, y) <=> Has(h, x, y)
                /\ Has(h, x, y) => Object(k, x, y) = Object(h, x, y)
  BY DEF Has
<1>2. \A y : y \in DOMAIN LiveOf(h) <=> y \in Objects(k)
  BY <1>1, LiveAt, ObjectIs
<1>3. \A b, i : Has(k, b, i) => LiveOf(h)[<<b, i>>] = Object(k, b, i)
  BY <1>1, LiveAt
<1>4. LiveOf(h) = [y \in DOMAIN LiveOf(h) |-> LiveOf(h)[y]]
  BY DEF LiveOf
<1>. QED
  BY <1>2, <1>3, <1>4, LiveIs

\* Every object has a name of the store.
LEMMA ObjectNames ==
    ASSUME NEW h, Sound(h), NEW b, NEW i, Has(h, b, i)
    PROVE  <<b, i>> \in Blocks \X (1 .. MaxSlots)
<1>1. /\ b \in Blocks /\ h.block[b] \in Block /\ BlockOk(h.block[b]) /\ i \in DOMAIN h.block[b].live
  BY DEF Has, Sound, Heap
<1>2. i \in 1 .. h.block[b].count /\ h.block[b].count \in Nat /\ h.block[b].count <= MaxSlots
  BY <1>1 DEF BlockOk, Block
<1>. QED
  BY <1>1, <1>2, Sizes

LEMMA GainsLive ==
    ASSUME NEW h, Sound(h), NEW k, NEW b, NEW i, NEW n, NEW own, Gains(h, k, b, i, n, own)
    PROVE  /\ <<b, i>> \notin Objects(h)
           /\ LiveOf(k) = [y \in DOMAIN LiveOf(h) \cup {<<b, i>>} |->
                             IF y = <<b, i>> THEN [owner |-> own, size |-> n] ELSE LiveOf(h)[y]]
<1>. DEFINE F == [y \in DOMAIN LiveOf(h) \cup {<<b, i>>} |->
                    IF y = <<b, i>> THEN [owner |-> own, size |-> n] ELSE LiveOf(h)[y]]
<1>1. \A x \in Blocks : h.block[x].kind = "host" => DOMAIN h.block[x].live = {}
  BY DEF Sound, BlockOk
<1>2. b \in Blocks /\ ~Has(h, b, i) /\ <<b, i>> \notin Objects(h)
  <2>1. b \in Blocks /\ ~Has(h, b, i)
    BY DEF Gains, Has
  <2>. QED
    BY <2>1, ObjectIs
<1>3. ASSUME NEW x, NEW y
      PROVE  /\ Has(k, x, y) <=> Has(h, x, y) \/ <<x, y>> = <<b, i>>
             /\ Has(h, x, y) => Object(k, x, y) = Object(h, x, y)
  BY <1>1 DEF Gains, OthersSame, Has, Object
<1>4. Object(k, b, i) = [owner |-> own, size |-> n]
  BY DEF Gains, Object
<1>5. \A y : y \in DOMAIN F <=> y \in Objects(k)
  <2>1. \A y : y \in Objects(k) <=> y \in Objects(h) \/ y = <<b, i>>
    BY <1>2, <1>3, ObjectIs
  <2>. QED
    BY <2>1, LiveAt
<1>6. ASSUME NEW x, NEW y, Has(k, x, y)
      PROVE  F[<<x, y>>] = Object(k, x, y)
  <2>1. CASE <<x, y>> = <<b, i>>
    BY <1>4, <2>1
  <2>2. CASE <<x, y>> # <<b, i>>
    <3>1. Has(h, x, y) /\ Object(k, x, y) = Object(h, x, y)
      BY <1>3, <1>6, <2>2
    <3>. QED
      BY <2>2, <3>1, LiveAt
  <2>. QED
    BY <2>1, <2>2
<1>7. F = [y \in DOMAIN F |-> F[y]]
  OBVIOUS
<1>. HIDE DEF F
<1>8. LiveOf(k) = F
  BY <1>5, <1>6, <1>7, LiveIs
<1>. QED
  BY <1>2, <1>8 DEF F

LEMMA LosesLive ==
    ASSUME NEW h, NEW k, NEW b, NEW i, Has(h, b, i), Loses(h, k, b, i)
    PROVE  Releases(LiveOf(h), LiveOf(k), <<b, i>>)
<1>. DEFINE F == [y \in DOMAIN LiveOf(h) \ {<<b, i>>} |-> LiveOf(h)[y]]
<1>1. ASSUME NEW x, NEW y
      PROVE  /\ Has(k, x, y) <=> Has(h, x, y) /\ <<x, y>> # <<b, i>>
             /\ Has(k, x, y) => Object(k, x, y) = Object(h, x, y)
  BY DEF Loses, OthersSame, Has, Object
<1>2. \A y : y \in DOMAIN F <=> y \in Objects(k)
  <2>1. \A y : y \in Objects(k) <=> y \in Objects(h) /\ y # <<b, i>>
    BY <1>1, ObjectIs
  <2>. QED
    BY <2>1, LiveAt
<1>3. ASSUME NEW x, NEW y, Has(k, x, y)
      PROVE  F[<<x, y>>] = Object(k, x, y)
  <2>1. Has(h, x, y) /\ <<x, y>> # <<b, i>> /\ Object(k, x, y) = Object(h, x, y)
    BY <1>1, <1>3
  <2>. QED
    BY <2>1, LiveAt
<1>4. F = [y \in DOMAIN F |-> F[y]]
  OBVIOUS
<1>. HIDE DEF F
<1>5. LiveOf(k) = F
  BY <1>2, <1>3, <1>4, LiveIs
<1>. QED
  BY <1>5 DEF F, Releases

LEMMA SetsLive ==
    ASSUME NEW h, NEW k, NEW b, NEW i, NEW n, Has(h, b, i), Sets(h, k, b, i, n)
    PROVE  LiveOf(k) = [LiveOf(h) EXCEPT ![<<b, i>>].size = n]
<1>. DEFINE F == [LiveOf(h) EXCEPT ![<<b, i>>].size = n]
<1>1. ASSUME NEW x, NEW y
      PROVE  /\ Has(k, x, y) <=> Has(h, x, y)
             /\ Has(h, x, y) /\ <<x, y>> # <<b, i>> => Object(k, x, y) = Object(h, x, y)
  BY DEF Sets, OthersSame, Has, Object
<1>2. Object(k, b, i) = [owner |-> h.block[b].owner, size |-> n]
  BY DEF Sets, Object
<1>3. \A y : y \in DOMAIN F <=> y \in Objects(k)
  <2>1. \A y : y \in Objects(k) <=> y \in Objects(h)
    BY <1>1, ObjectIs
  <2>. QED
    BY <2>1, LiveAt
<1>4. ASSUME NEW x, NEW y, Has(k, x, y)
      PROVE  F[<<x, y>>] = Object(k, x, y)
  <2>1. Has(h, x, y) /\ <<x, y>> \in DOMAIN LiveOf(h) /\ LiveOf(h)[<<x, y>>] = Object(h, x, y)
    BY <1>1, <1>4, LiveAt
  <2>2. CASE <<x, y>> = <<b, i>>
    <3>1. F[<<x, y>>] = [Object(h, x, y) EXCEPT !.size = n]
      BY <2>1, <2>2
    <3>2. x = b /\ y = i
      BY <2>2
    <3>. QED
      BY <1>2, <3>1, <3>2 DEF Object
  <2>3. CASE <<x, y>> # <<b, i>>
    <3>1. F[<<x, y>>] = LiveOf(h)[<<x, y>>]
      BY <2>1, <2>3
    <3>. QED
      BY <1>1, <2>1, <2>3, <3>1
  <2>. QED
    BY <2>2, <2>3
<1>5. F = [y \in DOMAIN F |-> F[y]]
  OBVIOUS
<1>. HIDE DEF F
<1>6. LiveOf(k) = F
  BY <1>3, <1>4, <1>5, LiveIs
<1>. QED
  BY <1>6 DEF F

LEMMA MovesLive ==
    ASSUME NEW h, NEW k, NEW b, NEW i, NEW d, NEW j, NEW n,
           Has(h, b, i), Moves(h, k, b, i, d, j, n)
    PROVE  Relocates(LiveOf(h), LiveOf(k), <<b, i>>, <<d, j>>, n)
<1>. DEFINE F == [y \in (DOMAIN LiveOf(h) \ {<<b, i>>}) \cup {<<d, j>>} |->
                    IF y = <<d, j>> THEN [owner |-> LiveOf(h)[<<b, i>>].owner, size |-> n]
                    ELSE LiveOf(h)[y]]
<1>1. d \in Blocks /\ ~Has(h, d, j) /\ <<d, j>> \notin Objects(h)
  <2>1. d \in Blocks /\ ~Has(h, d, j)
    BY DEF Moves
  <2>. QED
    BY <2>1, ObjectIs
<1>2. ASSUME NEW x, NEW y
      PROVE  /\ Has(k, x, y) <=> (Has(h, x, y) /\ <<x, y>> # <<b, i>>) \/ <<x, y>> = <<d, j>>
             /\ Has(k, x, y) /\ <<x, y>> # <<d, j>> => Object(k, x, y) = Object(h, x, y)
             /\ <<x, y>> = <<d, j>> => Object(k, x, y) = [owner |-> h.block[b].owner, size |-> n]
  <2>1. CASE x \in Blocks
    BY <1>1, <2>1 DEF Moves, Object
  <2>2. CASE x \notin Blocks
    BY <1>1, <2>2 DEF Has
  <2>. QED
    BY <2>1, <2>2
<1>3. LiveOf(h)[<<b, i>>].owner = h.block[b].owner
  <2>1. LiveOf(h)[<<b, i>>] = Object(h, b, i)
    BY LiveAt
  <2>. QED
    BY <2>1 DEF Object
<1>4. \A y : y \in DOMAIN F <=> y \in Objects(k)
  <2>1. \A y : y \in Objects(k) <=> (y \in Objects(h) /\ y # <<b, i>>) \/ y = <<d, j>>
    BY <1>1, <1>2, ObjectIs
  <2>. QED
    BY <2>1, LiveAt
<1>5. ASSUME NEW x, NEW y, Has(k, x, y)
      PROVE  F[<<x, y>>] = Object(k, x, y)
  <2>1. CASE <<x, y>> = <<d, j>>
    BY <1>2, <1>3, <2>1
  <2>2. CASE <<x, y>> # <<d, j>>
    <3>1. Has(h, x, y) /\ <<x, y>> # <<b, i>> /\ Object(k, x, y) = Object(h, x, y)
      BY <1>2, <1>5, <2>2
    <3>. QED
      BY <2>2, <3>1, LiveAt
  <2>. QED
    BY <2>1, <2>2
<1>6. F = [y \in DOMAIN F |-> F[y]]
  OBVIOUS
<1>. HIDE DEF F
<1>7. LiveOf(k) = F
  BY <1>4, <1>5, <1>6, LiveIs
<1>. QED
  BY <1>1, <1>7, LiveAt DEF F, Relocates

LEMMA LiveIsLiveOf == Live = LiveOf(heap) /\ Live' = LiveOf(heap')
BY DEF Live, LiveOf

\* At the start there is no object.
LEMMA StoreInit == Init => Store!Init
<1>. SUFFICES ASSUME Init PROVE Store!Init
  OBVIOUS
<1>1. PICK n \in BlockSizes : heap = InitHeap(n)
  BY DEF Init
<1>2. \A b \in Blocks : heap.block[b] = Unused
  BY <1>1 DEF InitHeap
<1>3. Objects(heap) = {}
  BY <1>2, UnusedOk DEF Objects
<1>4. Live = [x \in {} |-> 0]
  BY <1>3 DEF Live
<1>. QED
  BY <1>4 DEF Init, Store!Init

\* A reallocation that changes the heap resizes its object or moves it.
LEMMA ReallocStep ==
    ASSUME HInv, HInv', NEW obj \in Objects(heap), NEW n \in Requests, Realloc(obj, n),
           heap' # heap
    PROVE  \/ Store!Resize(obj, n)
           \/ \E d, j : Has(heap', d, j) /\ Store!Move(obj, <<d, j>>, n)
<1>1. Good(heap) /\ Sound(heap)
  BY DEF HInv, Good
<1>. DEFINE L == LiveOf(heap)
            M == LiveOf(heap')
<1>2. Live = L /\ Live' = M /\ DOMAIN L = Objects(heap)
  BY LiveIsLiveOf, LiveAt
<1>. HIDE DEF L, M
<1>3. PICK b, i : obj = <<b, i>> /\ Has(heap, b, i)
  BY ObjectIs
<1>4. n \in Nat \ {0} /\ UNCHANGED running
  BY RequestType DEF Realloc
<1>5. CASE n <= Capacity(heap, obj) /\ heap' = Resized(heap, obj, n)
  <2>1. n <= Holds(heap.block[b])
    BY <1>3, <1>5 DEF Capacity, Holds
  <2>2. Sets(heap, heap', b, i, n)
    BY <1>1, <1>3, <1>4, <1>5, <2>1, ResizeSound
  <2>3. M = [L EXCEPT ![obj].size = n]
    BY <1>3, <2>2, SetsLive DEF L, M
  <2>. QED
    BY <1>2, <1>4, <2>3 DEF Store!Resize
<1>6. CASE n > Capacity(heap, obj) /\ \E a \in MoveOutcomes(heap, obj, n) : heap' = a.heap
  <2>1. PICK d, j : Moves(heap, heap', b, i, d, j, n)
    BY <1>1, <1>3, <1>4, <1>6, MoveSound
  <2>2. /\ <<d, j>> \notin DOMAIN L
        /\ M = [y \in (DOMAIN L \ {obj}) \cup {<<d, j>>} |->
                  IF y = <<d, j>> THEN [owner |-> L[obj].owner, size |-> n] ELSE L[y]]
    <3>1. Relocates(L, M, <<b, i>>, <<d, j>>, n)
      BY <1>3, <2>1, MovesLive DEF L, M
    <3>. QED
      BY <1>3, <3>1 DEF Relocates
  <2>3. Has(heap', d, j)
    BY <2>1 DEF Moves
  <2>4. Store!Move(obj, <<d, j>>, n)
    BY <1>2, <1>4, <2>2 DEF Store!Move
  <2>. QED
    BY <2>3, <2>4
<1>. QED
  BY <1>5, <1>6 DEF Realloc

\* Every step does to the objects what one step of the store does, or nothing.
LEMMA StoreStep == HInv /\ [Next]_vars => [Store!Next]_<<Live, running>>
<1>. SUFFICES ASSUME HInv, [Next]_vars PROVE [Store!Next]_<<Live, running>>
  OBVIOUS
<1>1. Good(heap) /\ running \in [Threads -> Owners] /\ Sound(heap)
  BY DEF HInv, Good
<1>2. Good(heap') /\ Sound(heap')
  BY NextHInv DEF HInv, Good
<1>. DEFINE L == LiveOf(heap)
            M == LiveOf(heap')
<1>3. Live = L /\ Live' = M /\ DOMAIN L = Objects(heap)
  BY LiveIsLiveOf, LiveAt
<1>. HIDE DEF L, M
<1>4. ASSUME NEW t \in Threads, NEW n \in Requests, Alloc(t, n), heap' # heap
      PROVE  Store!Next
  <2>1. running[t] \in Owners /\ Atleast1(n) \in Nat \ {0}
    BY <1>1, <1>4, RequestType
  <2>2. PICK a \in AllocOutcomes(heap, running[t], Atleast1(n)) : heap' = a.heap
    BY <1>4 DEF Alloc
  <2>3. PICK b, i : Gains(heap, heap', b, i, Atleast1(n), running[t])
    BY <1>1, <2>1, <2>2, AllocSound
  <2>4. /\ <<b, i>> \notin DOMAIN L
        /\ M = [y \in DOMAIN L \cup {<<b, i>>} |->
                  IF y = <<b, i>> THEN [owner |-> running[t], size |-> Atleast1(n)] ELSE L[y]]
    BY <1>1, <1>3, <2>3, GainsLive DEF L, M
  <2>5. <<b, i>> \in Blocks \X (1 .. MaxSlots)
    <3>1. Has(heap', b, i)
      BY <2>3 DEF Gains, Has
    <3>. QED
      BY <1>2, <3>1, ObjectNames
  <2>6. Atleast1(n) \in Requests \cup {1}
    BY DEF Atleast1
  <2>7. Store!Alloc(t, <<b, i>>, Atleast1(n))
    BY <1>3, <1>4, <2>4 DEF Store!Alloc, Alloc
  <2>. QED
    BY <2>5, <2>6, <2>7 DEF Store!Next
<1>5. ASSUME NEW obj \in Objects(heap), Free(obj)
      PROVE  Store!Next
  <2>1. PICK b, i : obj = <<b, i>> /\ Has(heap, b, i)
    BY ObjectIs
  <2>2. Loses(heap, heap', b, i)
    BY <1>1, <1>5, <2>1, FreeSound DEF Free
  <2>3. M = [y \in DOMAIN L \ {obj} |-> L[y]]
    <3>1. Releases(L, M, <<b, i>>)
      BY <2>1, <2>2, LosesLive DEF L, M
    <3>. QED
      BY <2>1, <3>1 DEF Releases
  <2>4. Store!Release(obj)
    BY <1>3, <1>5, <2>3 DEF Store!Release, Free
  <2>. QED
    BY <1>3, <2>4 DEF Store!Next
<1>6. ASSUME NEW obj \in Objects(heap), NEW n \in Requests, Realloc(obj, n), heap' # heap
      PROVE  Store!Next
  <2>1. HInv'
    BY NextHInv
  <2>2. \/ Store!Resize(obj, n)
        \/ \E d, j : Has(heap', d, j) /\ Store!Move(obj, <<d, j>>, n)
    BY <1>6, <2>1, ReallocStep
  <2>3. \A d, j : Has(heap', d, j) => <<d, j>> \in Blocks \X (1 .. MaxSlots)
    BY <1>2, ObjectNames
  <2>. QED
    BY <1>3, <2>2, <2>3 DEF Store!Next
<1>7. ASSUME NEW n \in BlockSizes, SetBlock(n)
      PROVE  UNCHANGED <<Live, running>>
  <2>1. heap'.block = heap.block
    BY <1>1, <1>7, SetBlockSound DEF SetBlock
  <2>2. M = L
    BY <2>1, SameObjects DEF Has, Object, L, M
  <2>. QED
    BY <1>3, <1>7, <2>2 DEF SetBlock
<1>8. CASE Compact
  <2>1. \A x \in Blocks :
          heap'.block[x] = IF x \in Slabs(heap) /\ heap.block[x].used = 0
                           THEN Unused ELSE heap.block[x]
    BY <1>1, <1>8, CompactSound DEF Compact
  <2>2. \A x \in Blocks : heap.block[x].used = 0 => DOMAIN heap.block[x].live = {}
    <3>1. ASSUME NEW x \in Blocks, heap.block[x].used = 0
          PROVE  DOMAIN heap.block[x].live = {}
      <4>1. heap.block[x] \in Block /\ BlockOk(heap.block[x])
        BY <1>1 DEF Sound, Heap
      <4>. QED
        BY <3>1, <4>1, LiveType, FS_EmptySet DEF BlockOk
    <3>. QED
      BY <3>1
  <2>3. M = L
    BY <2>1, <2>2, UnusedOk, SameObjects DEF Has, Object, L, M
  <2>. QED
    BY <1>3, <1>8, <2>3 DEF Compact
<1>9. ASSUME NEW t \in Threads, NEW id \in TaskIds, TaskBegin(t, id)
      PROVE  Store!Next
  <2>1. M = L
    BY <1>9 DEF TaskBegin, L, M
  <2>2. Store!Begin(t, id)
    BY <1>3, <1>9, <2>1 DEF Store!Begin, TaskBegin
  <2>. QED
    BY <2>2 DEF Store!Next
<1>10. ASSUME NEW t \in Threads, TaskEnd(t)
       PROVE  Store!Next
  <2>. DEFINE F == [y \in {x \in DOMAIN L : L[x].owner # running[t]} |-> L[y]]
  <2>1. \A x \in Blocks :
          heap'.block[x] = IF heap.block[x].kind # "host" /\ heap.block[x].owner = running[t]
                           THEN Unused ELSE heap.block[x]
    BY <1>1, <1>10, OwnerSound DEF TaskEnd
  <2>2. \A x \in Blocks : heap.block[x].kind = "host" => DOMAIN heap.block[x].live = {}
    BY <1>1 DEF Sound, BlockOk
  <2>3. ASSUME NEW x, NEW y
        PROVE  /\ Has(heap', x, y) <=> Has(heap, x, y) /\ heap.block[x].owner # running[t]
               /\ Has(heap', x, y) => Object(heap', x, y) = Object(heap, x, y)
    BY <2>1, <2>2, UnusedOk DEF Has, Object
  <2>4. \A x, y : Has(heap, x, y) => /\ <<x, y>> \in DOMAIN L
                                     /\ L[<<x, y>>] = Object(heap, x, y)
                                     /\ L[<<x, y>>].owner = heap.block[x].owner
    BY LiveAt DEF L, Object
  <2>5. \A y : y \in DOMAIN F <=> y \in Objects(heap')
    BY <1>3, <2>3, <2>4, ObjectIs
  <2>6. ASSUME NEW x, NEW y, Has(heap', x, y)
        PROVE  F[<<x, y>>] = Object(heap', x, y)
    BY <2>3, <2>4, <2>6
  <2>7. F = [y \in DOMAIN F |-> F[y]]
    OBVIOUS
  <2>. HIDE DEF F
  <2>8. M = F
    BY <2>5, <2>6, <2>7, LiveIs DEF M
  <2>9. Store!End(t)
    BY <1>3, <1>10, <2>8 DEF Store!End, TaskEnd, F
  <2>. QED
    BY <2>9 DEF Store!Next
<1>11. CASE UNCHANGED vars
  BY <1>11 DEF vars, Live, Objects, Requested
\* A refused allocation or reallocation changes nothing.
<1>12. ASSUME NEW t \in Threads, NEW n \in Requests, Alloc(t, n), heap' = heap
       PROVE  UNCHANGED vars
  BY <1>12 DEF Alloc, vars
<1>13. ASSUME NEW obj \in Objects(heap), NEW n \in Requests, Realloc(obj, n), heap' = heap
       PROVE  UNCHANGED vars
  BY <1>13 DEF Realloc, vars
<1>. QED
  BY <1>4, <1>5, <1>6, <1>7, <1>8, <1>9, <1>10, <1>11, <1>12, <1>13 DEF Next

\* The allocator implements a store of objects: each step allocates a name that
\* is not in use, releases, resizes or moves one object and leaves the others as
\* they are, and a task's end takes its own objects and no other.
THEOREM Refinement == Spec => ImplementsStore
<1>1. Init => Store!Init
  BY StoreInit
<1>2. HInv /\ [Next]_vars => [Store!Next]_<<Live, running>>
  BY StoreStep
<1>. QED
  BY <1>1, <1>2, Invariance, PTL DEF Spec, ImplementsStore, Store!Spec

\* Whatever the host answers, ql_realloc resizes its object, moves it for the same
\* owner, or leaves the whole heap as it was.
THEOREM ReallocSafe == Spec => ReallocKeepsObject
<1>. DEFINE Keeps == \A obj \in Objects(heap), n \in Requests :
                       Realloc(obj, n) =>
                           \/ UNCHANGED heap
                           \/ Store!Resize(obj, n)
                           \/ \E new \in Objects(heap') : Store!Move(obj, new, n)
<1>1. HInv /\ [Next]_vars => [Keeps]_vars
  <2>. SUFFICES ASSUME HInv, Next, NEW obj \in Objects(heap), NEW n \in Requests,
                       Realloc(obj, n), heap' # heap
                PROVE  \/ Store!Resize(obj, n)
                       \/ \E new \in Objects(heap') : Store!Move(obj, new, n)
    OBVIOUS
  <2>1. HInv'
    BY NextHInv
  <2>2. \A d, j : Has(heap', d, j) => <<d, j>> \in Objects(heap')
    BY LiveAt
  <2>. QED
    BY <2>1, <2>2, ReallocStep
<1>. QED
  BY <1>1, Invariance, PTL DEF Spec, ReallocKeepsObject
=============================================================================

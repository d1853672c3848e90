------------------------------- MODULE Malloc -------------------------------
(***************************************************************************)
(* The memory allocator of base/libc/malloc.c: blocks with a header that   *)
(* tile the heap and the DMA memory, and regions for aligned blocks, which *)
(* are themselves such blocks.                                             *)
(*                                                                         *)
(* There is one thread, so a call is a step.  Memory is "hdr", the headers *)
(* at their addresses: a word of anything else is outside its domain.      *)
(***************************************************************************)
EXTENDS Integers, Sequences, FiniteSets, TLC

CONSTANTS
  HeapStart, HeapEnd,   \* heap_buffer
  DmaStart, DmaEnd,     \* what init_dma_memory() is given
  HdrSize,              \* HDRSIZE
  RegionSize, TypeSize, \* sizeof(struct align_region_t), sizeof(struct memory_type)
  LargeRequest,         \* large_request
  Lens, Aligns,         \* what callers ask for; alignments are powers of 2
  MaxLive               \* bound on the blocks that callers have at a time

MemoryTypes == {"heap", "dma"}
StartOf(t) == IF t = "heap" THEN HeapStart ELSE DmaStart
EndOf(t) == IF t = "heap" THEN HeapEnd ELSE DmaEnd
Area(t) == StartOf(t) .. EndOf(t) - 1

ASSUME MallocAssumption ==
  /\ {HeapStart, HeapEnd, DmaStart, DmaEnd, HdrSize, RegionSize, TypeSize, LargeRequest}
       \subseteq Nat \ {0}
  /\ \A t \in MemoryTypes : StartOf(t) + HdrSize < EndOf(t) /\ StartOf(t) % HdrSize = 0
  /\ Area("heap") \cap Area("dma") = {}
  /\ Lens \subseteq Nat /\ Aligns \subseteq Nat \ {0}
  /\ \A a \in Aligns : a < LargeRequest => LargeRequest % a = 0

VARIABLES
  hdr,       \* the headers: [size, free]
  dma_type,  \* "dma" once init_dma_memory() has run
  dma_ptr,   \* the struct memory_type it allocates
  first,     \* per type the element that align_regions starts out with, or Null
  regions,   \* and the regions in front of it, as a sequence
  live       \* the blocks that callers have

mallocVars == <<hdr, dma_type, dma_ptr, first, regions, live>>

Null == 0
AlignUp(x, a) == ((x + a - 1) \div a) * a

\* The heap is zero; in the DMA memory there may be a header of the last boot.
MallocInit ==
  /\ hdr \in {[p \in {} |-> 0],
             [p \in {DmaStart} |-> [size |-> DmaEnd - DmaStart - HdrSize, free |-> FALSE]]}
  /\ dma_type = "heap" /\ dma_ptr = Null
  /\ first = [t \in MemoryTypes |-> Null]
  /\ regions = [t \in MemoryTypes |-> <<>>]
  /\ live = {}

-----------------------------------------------------------------------------
\* alloc(), free() and _consolidate() on the headers "h".

Heads(h, t) == {p \in DOMAIN h : p \in Area(t)}
After(h, p) == p + HdrSize + h[p].size

\* The first call finds no magic.
Ready(h, t) ==
  IF StartOf(t) \in DOMAIN h THEN h
  ELSE [p \in DOMAIN h \cup {StartOf(t)} |->
          IF p = StartOf(t) THEN [size |-> EndOf(t) - StartOf(t) - HdrSize, free |-> TRUE] ELSE h[p]]

Fits(h, t, len) == {p \in Heads(h, t) : h[p].free /\ len <= h[p].size}
FirstFit(h, t, len) == CHOOSE p \in Fits(h, t, len) : \A q \in Fits(h, t, len) : p <= q

\* A rest without room for anything but its header becomes a block, too.
TakeMutant(h, p, len) ==
  LET left == h[p].size - (HdrSize + len)
  IN  IF left >= 0
      THEN (p + HdrSize + len :> [size |-> left, free |-> TRUE])
             @@ [h EXCEPT ![p] = [size |-> len, free |-> FALSE]]
      ELSE [h EXCEPT ![p].free = FALSE]

\* The block is split when what is left of it holds more than a header.
Take(h, p, len) ==
  LET rest == p + HdrSize + len
      left == h[p].size - (HdrSize + len)
  IN  IF left > 0
      THEN [q \in DOMAIN h \cup {rest} |->
              IF q = p THEN [size |-> len, free |-> FALSE]
              ELSE IF q = rest THEN [size |-> left, free |-> TRUE]
              ELSE h[q]]
      ELSE [h EXCEPT ![p].free = FALSE]

Alloc(h, t, n) ==
  LET len == AlignUp(n, HdrSize)
      ready == Ready(h, t)
      p == FirstFit(ready, t, len)
  IN  IF n = 0 THEN [hdr |-> h, ptr |-> Null]
      ELSE IF Fits(ready, t, len) = {} THEN [hdr |-> ready, ptr |-> Null]
      ELSE [hdr |-> Take(ready, p, len), ptr |-> p + HdrSize]

\* A free block right behind a free one loses its header; the one in front of such
\* blocks gets all the room up to the next header that stays.
Stays(h, t) ==
  {p \in Heads(h, t) : ~(h[p].free /\ \E q \in Heads(h, t) : h[q].free /\ After(h, q) = p)}
NextStaying(h, t, p) ==
  CHOOSE q \in Stays(h, t) \cup {EndOf(t)} :
     /\ p < q
     /\ \A s \in Stays(h, t) \cup {EndOf(t)} : p < s => q <= s
Consolidate(h, t) ==
  [p \in Stays(h, t) \cup (DOMAIN h \ Area(t)) |->
     IF p \in Area(t) /\ h[p].free
     THEN [size |-> NextStaying(h, t, p) - p - HdrSize, free |-> TRUE]
     ELSE h[p]]

\* The type that free() takes the memory at "ptr" to belong to.
Owner(ptr) == IF ptr \in Area("heap") THEN "heap" ELSE dma_type

\* free() of a block that is in no region.
FreeBlock(h, ptr) ==
  LET p == ptr - HdrSize
  IN  IF ptr \in Area(Owner(ptr)) /\ p \in DOMAIN h /\ ~h[p].free
      THEN Consolidate([h EXCEPT ![p].free = TRUE], Owner(ptr))
      ELSE h
-----------------------------------------------------------------------------
\* Regions for aligned blocks: a large one holds one block; another is divided
\* into "meta", each element 0 if it is free and 1 if a block ends with it, else 2.

Large(r) == r.alignment = 0
InRegion(r, a) == r.data <= a /\ a < r.data + r.size
ElementsMutant(align, size) == size \div align  \* rounded down
Elements(align, size) == (size + align - 1) \div align

\* The descriptor stays allocated when there is no room for the region.
AllocateRegionMutant(h, t, align, num, size) ==
  LET d == Alloc(h, "heap", RegionSize)
      room == IF num = 0 THEN size ELSE num * align
      s == Alloc(d.hdr, t, room + align + num)
  IN  IF d.ptr = Null \/ s.ptr = Null THEN [hdr |-> s.hdr, ok |-> FALSE]
      ELSE [hdr |-> s.hdr, ok |-> TRUE,
            region |-> [alignment |-> IF num = 0 THEN 0 ELSE align, size |-> room,
                        free |-> num, meta |-> [i \in 0 .. num - 1 |-> 0],
                        start |-> s.ptr, data |-> AlignUp(s.ptr + num, align), desc |-> d.ptr]]

\* allocate_region(): its descriptor is always on the heap.
AllocateRegion(h, t, align, num, size) ==
  LET d == Alloc(h, "heap", RegionSize)
      room == IF num = 0 THEN size ELSE num * align
      s == Alloc(d.hdr, t, room + align + num)
  IN  IF d.ptr = Null THEN [hdr |-> d.hdr, ok |-> FALSE]
      ELSE IF s.ptr = Null THEN [hdr |-> FreeBlock(s.hdr, d.ptr), ok |-> FALSE]
      ELSE [hdr |-> s.hdr, ok |-> TRUE,
            region |-> [alignment |-> IF num = 0 THEN 0 ELSE align, size |-> room,
                        free |-> num, meta |-> [i \in 0 .. num - 1 |-> 0],
                        start |-> s.ptr, data |-> AlignUp(s.ptr + num, align), desc |-> d.ptr]]

\* Where "n" free elements in a row begin; the search takes the first place.
Runs(r, n) == {i \in 0 .. Cardinality(DOMAIN r.meta) - n : \A k \in i .. i + n - 1 : r.meta[k] = 0}
FirstRun(r, n) == CHOOSE i \in Runs(r, n) : \A j \in Runs(r, n) : i <= j
Reserve(r, i, n) ==
  [r EXCEPT !.free = @ - n,
            !.meta = [k \in DOMAIN @ |-> IF k \in i .. i + n - 2 THEN 2
                                         ELSE IF k = i + n - 1 THEN 1 ELSE @[k]]]

\* Regions of this alignment with enough free elements, and those in a row.
Candidates(t, align, n) ==
  {k \in DOMAIN regions[t] : /\ regions[t][k].alignment = align /\ n <= regions[t][k].free
                             /\ Runs(regions[t][k], n) # {}}

\* free_aligned(): the elements of the block are free again.
Release(r, i) ==
  LET last == CHOOSE j \in DOMAIN r.meta : i <= j /\ r.meta[j] # 2 /\ \A k \in i .. j - 1 : r.meta[k] = 2
  IN  [r EXCEPT !.free = @ + last - i + 1,
                !.meta = [k \in DOMAIN @ |-> IF k \in i .. last THEN 0 ELSE @[k]]]

\* try_free_region() gives up a region when nothing in it is used.
Unused(r) == Large(r) \/ r.free = r.size \div r.alignment

-----------------------------------------------------------------------------
\* The calls.

Gives(ptr, len, align) == live' = live \cup {[ptr |-> ptr, len |-> len, align |-> align]}

\* malloc() and dma_malloc().
Malloc(t, n) ==
  LET a == Alloc(hdr, t, n)
  IN  /\ hdr' = a.hdr
      /\ IF a.ptr = Null THEN UNCHANGED live ELSE Gives(a.ptr, n, HdrSize)
      /\ UNCHANGED <<dma_type, dma_ptr, first, regions>>

\* alloc_aligned(): at first the list is given an element that holds nothing.
WithFirst(t) ==
  IF first[t] # Null THEN [hdr |-> hdr, ptr |-> first[t]] ELSE Alloc(hdr, "heap", RegionSize)

MemalignFails(t, n) ==
  LET f == WithFirst(t)
  IN  /\ n > 0 /\ f.ptr = Null
      /\ hdr' = f.hdr
      /\ UNCHANGED <<dma_type, dma_ptr, first, regions, live>>

\* A new region in front of the others; its first block is at its start.
MemalignNew(t, align, n) ==
  LET f == WithFirst(t)
      large == n >= LargeRequest \/ align >= LargeRequest
      new == AllocateRegion(f.hdr, t, align, IF large THEN 0 ELSE LargeRequest \div align, n)
      r == new.region
  IN  /\ n > 0 /\ f.ptr # Null
      /\ large \/ Candidates(t, align, Elements(align, n)) = {}
      /\ hdr' = new.hdr
      /\ first' = [first EXCEPT ![t] = f.ptr]
      /\ IF new.ok
         THEN /\ regions' = [regions EXCEPT ![t] =
                               <<IF large THEN r ELSE Reserve(r, 0, Elements(align, n))>> \o @]
              /\ Gives(r.data, n, align)
         ELSE UNCHANGED <<regions, live>>
      /\ UNCHANGED <<dma_type, dma_ptr>>

\* The first region in the list that has the room.
MemalignOld(t, align, n) ==
  LET count == Elements(align, n)
      among == Candidates(t, align, count)
      k == CHOOSE k \in among : \A j \in among : k <= j
      i == FirstRun(regions[t][k], count)
  IN  /\ n > 0 /\ n < LargeRequest /\ align < LargeRequest /\ among # {}
      /\ regions' = [regions EXCEPT ![t][k] = Reserve(@, i, count)]
      /\ Gives(regions[t][k].data + align * i, n, align)
      /\ UNCHANGED <<hdr, dma_type, dma_ptr, first>>

\* free() of a block that somebody has.
Around(t, a) == {k \in DOMAIN regions[t] : InRegion(regions[t][k], a)}

FreePlain(b) ==
  /\ Around(Owner(b.ptr), b.ptr) = {}
  /\ hdr' = FreeBlock(hdr, b.ptr)
  /\ UNCHANGED regions

FreeAligned(b) ==
  LET t == Owner(b.ptr)
      k == CHOOSE k \in Around(t, b.ptr) : \A j \in Around(t, b.ptr) : k <= j
      old == regions[t][k]
      r == IF Large(old) THEN old ELSE Release(old, (b.ptr - old.data) \div old.alignment)
      others == SubSeq(regions[t], 1, k - 1) \o SubSeq(regions[t], k + 1, Len(regions[t]))
  IN  /\ Around(t, b.ptr) # {}
      /\ IF Unused(r)
         THEN /\ regions' = [regions EXCEPT ![t] = others]
              /\ hdr' = FreeBlock(FreeBlock(hdr, r.start), r.desc)
         ELSE /\ regions' = [regions EXCEPT ![t][k] = r]
              /\ UNCHANGED hdr

Free(b) ==
  /\ FreePlain(b) \/ FreeAligned(b)
  /\ live' = live \ {b}
  /\ UNCHANGED <<dma_type, dma_ptr, first>>

\* init_dma_memory(), once, with room for the structure it allocates.
InitDmaMemory ==
  LET cleared == [p \in DOMAIN hdr \ {DmaStart} |-> hdr[p]]
      a == Alloc(cleared, "heap", TypeSize)
  IN  /\ dma_type = "heap" /\ a.ptr # Null
      /\ hdr' = a.hdr /\ dma_ptr' = a.ptr
      /\ dma_type' = "dma"
      /\ UNCHANGED <<first, regions, live>>

Memalign(t, align, n) ==
  MemalignFails(t, n) \/ MemalignNew(t, align, n) \/ MemalignOld(t, align, n)

MallocNext ==
  \/ \E t \in {"heap", dma_type}, n \in Lens :
       /\ Cardinality(live) < MaxLive
       /\ Malloc(t, n) \/ \E align \in Aligns : Memalign(t, align, n)
  \/ \E b \in live : Free(b)
  \/ InitDmaMemory

MallocSpec == MallocInit /\ [][MallocNext]_mallocVars

-----------------------------------------------------------------------------
\* Properties.

UsedBlocks ==
  {p + HdrSize : p \in {q \in Heads(hdr, "heap") \cup Heads(hdr, dma_type) : ~hdr[q].free}}
AllRegions == UNION {{regions[t][k] : k \in DOMAIN regions[t]} : t \in MemoryTypes}
Held(r) == {b \in live : InRegion(r, b.ptr)}

\* Every variable holds a value of its type.
HeadersOK(h) ==
  /\ h \in [DOMAIN h -> [size : Nat, free : BOOLEAN]]
  /\ DOMAIN h \subseteq Area("heap") \cup Area("dma")
MallocTypeOK ==
  /\ HeadersOK(hdr) /\ dma_type \in MemoryTypes
  /\ {dma_ptr, first["heap"], first["dma"]} \subseteq {Null} \cup Area("heap")
  /\ \A t \in MemoryTypes : \A k \in DOMAIN regions[t] :
       LET r == regions[t][k]
       IN  /\ r.desc \in Area("heap") /\ r.start .. r.data + r.size - 1 \subseteq Area(t)
           /\ Large(r) \/ r.size = r.alignment * Cardinality(DOMAIN r.meta)
           /\ \A i \in DOMAIN r.meta : r.meta[i] \in 0 .. 2
  /\ \A b \in live : b.len \in Lens \ {0}

\* The blocks of a type follow one another from its start to its end, whatever has been
\* allocated and freed, and no two free ones are neighbours: alloc() and _consolidate()
\* find their way from header to header, and "panic" where there is none.
Tiled(h, t) ==
  /\ StartOf(t) \in Heads(h, t)
  /\ \A p \in Heads(h, t) :
       /\ h[p].size > 0 /\ After(h, p) \in Heads(h, t) \cup {EndOf(t)}
       /\ \A q \in Heads(h, t) : q <= p \/ After(h, p) <= q
       /\ h[p].free /\ After(h, p) # EndOf(t) => ~h[After(h, p)].free
HeapIsTiled == \A t \in {"heap", dma_type} : Heads(hdr, t) # {} => Tiled(hdr, t)

\* Every block that is in use is in use for somebody: the block of a caller, or a
\* region that holds one, with its descriptor.  Nothing is lost by a call that fails
\* half way, and a region is given up with its last block.
NothingLost ==
  /\ UsedBlocks =
       {b.ptr : b \in {c \in live : \A r \in AllRegions : ~InRegion(r, c.ptr)}}
         \cup {r.start : r \in AllRegions} \cup {r.desc : r \in AllRegions}
         \cup (({dma_ptr} \cup {first[t] : t \in MemoryTypes}) \ {Null})
  /\ \A r \in AllRegions :
       IF Large(r) THEN Cardinality(Held(r)) = 1
       ELSE Held(r) # {} /\ r.free = Cardinality({i \in DOMAIN r.meta : r.meta[i] = 0})

\* The allocator keeps its promise.
Promise == INSTANCE Allocator
  WITH Memory <- Area("heap") \cup Area("dma"),
       Sizes <- Lens \ {0}, Alignments <- Aligns \cup {HdrSize}
ImplementsAllocator == Promise!AllocatorInit /\ [][Promise!AllocatorNext]_live
=============================================================================

---------------------------- MODULE MallocProofs ----------------------------
(***************************************************************************)
(* For every size of the heap, of the DMA memory, of a header and of what  *)
(* callers ask for: the blocks of the allocator tile their memory; each    *)
(* block in use has one owner, so nothing is lost by any call; and callers *)
(* get what Allocator promises.                                            *)
(*                                                                         *)
(* The parts: numbers; alloc(), free() and _consolidate() on the headers;  *)
(* who owns which block ("Own") and how each change of headers, of a       *)
(* region or of a block keeps that; the marks in a region; the lists of    *)
(* regions; and the calls.                                                 *)
(***************************************************************************)
EXTENDS Malloc, TLAPS, WellFoundedInduction, FiniteSetTheorems, SequenceTheorems

\* What holds of the headers "h" between two calls when DMA memory is of type "d":
\* until init_dma_memory(), which clears it, only one header of the last boot may
\* lie in the DMA memory.
Sound(h, d) ==
  /\ HeadersOK(h)
  /\ \A t \in {"heap", d} : Heads(h, t) # {} => Tiled(h, t)
  /\ d = "heap" => Heads(h, "dma") \subseteq {DmaStart}

MallocInv == dma_type \in MemoryTypes /\ Sound(hdr, dma_type)

-----------------------------------------------------------------------------
\* Numbers and addresses.

LEMMA Least ==
  ASSUME NEW S, S \subseteq Nat, S # {}
  PROVE  \E x \in S : \A y \in S : x <= y
<1>1. PICK x \in S : \A y \in S : ~(<<y, x>> \in OpToRel(<, Nat))
  BY NatLessThanWellFounded, WFMin, Zenon
<1>2. ASSUME NEW y \in S
      PROVE  x <= y
  <2>1. <<y, x>> \in Nat \X Nat
    OBVIOUS
  <2>2. ~(<<y, x>>[1] < <<y, x>>[2])
    BY <1>1, <2>1, Zenon DEF OpToRel
  <2>. QED  BY <2>2
<1>. QED  BY <1>2

\* ALIGN_UP() of a size has room for it.
LEMMA AlignUpBounds ==
  ASSUME NEW x \in Nat, NEW a \in Nat \ {0}
  PROVE  AlignUp(x, a) \in Nat /\ x <= AlignUp(x, a)
<1>. DEFINE y == x + a - 1  q == y \div a
<1>1. y \in Nat /\ q \in Nat /\ y = q * a + (y % a) /\ y % a \in 0 .. a - 1
  OBVIOUS
<1>2. q * a \in Nat
  BY <1>1
<1>. QED  BY <1>1, <1>2 DEF AlignUp

LEMMA Places ==
  /\ HdrSize \in Nat \ {0}
  /\ \A t \in MemoryTypes : /\ StartOf(t) \in Nat \ {0} /\ EndOf(t) \in Nat /\ StartOf(t) + HdrSize < EndOf(t)
                      /\ StartOf(t) \in Area(t)
                      /\ \A x : x \in Area(t) <=> x \in Nat /\ StartOf(t) <= x /\ x < EndOf(t)
  /\ \A x : ~(x \in Area("heap") /\ x \in Area("dma"))
BY MallocAssumption DEF MemoryTypes, StartOf, EndOf, Area

-----------------------------------------------------------------------------
\* _consolidate().

\* What it expects: the blocks follow one another, but free ones may be neighbours.
Chained(h, t) ==
  /\ StartOf(t) \in Heads(h, t)
  /\ \A p \in Heads(h, t) :
       /\ h[p].size > 0 /\ After(h, p) \in Heads(h, t) \cup {EndOf(t)}
       /\ \A q \in Heads(h, t) : q <= p \/ After(h, p) <= q

\* The headers of a type in "c" are as in "h".
SameHeads(c, h, t) ==
  /\ Heads(c, t) = Heads(h, t)
  /\ \A p \in Heads(h, t) : c[p] = h[p]

\* The block in front of a header.
LEMMA Before ==
  ASSUME NEW h, HeadersOK(h), NEW t \in MemoryTypes, Chained(h, t),
         NEW n \in Heads(h, t), n # StartOf(t)
  PROVE  \E q \in Heads(h, t) : q < n /\ After(h, q) = n
<1>. DEFINE T == {n - q : q \in {p \in Heads(h, t) : p < n}}
<1>1. /\ \A p \in Heads(h, t) : p \in Nat /\ StartOf(t) <= p
      /\ StartOf(t) \in Heads(h, t) /\ n < EndOf(t) /\ EndOf(t) \in Nat
  BY Places DEF Heads, Chained
<1>2. T \subseteq Nat
  BY <1>1
<1>3. T # {}
  BY <1>1
<1>4. PICK k \in T : \A j \in T : k <= j
  <2>. HIDE DEF T
  <2>. QED  BY <1>2, <1>3, Least
<1>5. PICK q \in Heads(h, t) : q < n /\ k = n - q
  OBVIOUS
<1>6. After(h, q) <= n /\ q < After(h, q) /\ After(h, q) \in Heads(h, t) \cup {EndOf(t)}
  BY <1>1, <1>5, Places DEF Chained, After, HeadersOK, Heads
<1>7. ~(After(h, q) < n)
  <2>1. SUFFICES ASSUME After(h, q) < n PROVE FALSE
    OBVIOUS
  <2>2. After(h, q) \in Heads(h, t)
    BY <1>1, <1>6, <2>1
  <2>3. n - After(h, q) \in T
    BY <2>1, <2>2
  <2>4. n - q <= n - After(h, q)
    BY <1>4, <1>5, <2>3
  <2>. QED  BY <1>1, <1>6, <2>2, <2>4
<1>8. After(h, q) = n
  BY <1>1, <1>6, <1>7
<1>. QED  BY <1>5, <1>8
LEMMA NextStays ==
  ASSUME NEW h, HeadersOK(h), NEW t \in MemoryTypes, Chained(h, t), NEW p \in Heads(h, t)
  PROVE  LET n == NextStaying(h, t, p)
         IN  /\ n \in Stays(h, t) \cup {EndOf(t)} /\ n \in Nat /\ After(h, p) <= n
             /\ \A s \in Stays(h, t) \cup {EndOf(t)} : p < s => n <= s
<1>. DEFINE S == {q \in Stays(h, t) \cup {EndOf(t)} : p < q}
<1>1. /\ \A q \in Heads(h, t) : q \in Nat /\ q < EndOf(t)
      /\ EndOf(t) \in Nat
  BY Places DEF Heads
<1>2. S \subseteq Nat /\ EndOf(t) \in S
  BY <1>1 DEF Stays
<1>3. PICK n \in S : \A s \in S : n <= s
  <2>. HIDE DEF S
  <2>. QED  BY <1>2, Least
<1>4. LET m == NextStaying(h, t, p)
      IN  /\ m \in Stays(h, t) \cup {EndOf(t)} /\ p < m
          /\ \A s \in Stays(h, t) \cup {EndOf(t)} : p < s => m <= s
  BY <1>3 DEF NextStaying
<1>5. \A m \in Heads(h, t) \cup {EndOf(t)} : p < m => After(h, p) <= m
  <2>1. After(h, p) \in Heads(h, t) \cup {EndOf(t)}
    BY DEF Chained
  <2>. QED  BY <1>1, <2>1 DEF Chained
<1>. QED  BY <1>1, <1>4, <1>5 DEF Stays

\* It joins free neighbours, so that the blocks of the type tile it, and leaves
\* other memory alone.
LEMMA ConsolidateTiles ==
  ASSUME NEW h, HeadersOK(h), NEW t \in MemoryTypes, Chained(h, t)
  PROVE  LET c == Consolidate(h, t)
         IN  /\ HeadersOK(c) /\ Tiled(c, t)
             /\ \A u \in MemoryTypes : u # t => SameHeads(c, h, u)
<1>. DEFINE c == Consolidate(h, t)
            N(p) == NextStaying(h, t, p)
<1>1. /\ DOMAIN h \subseteq Area("heap") \cup Area("dma")
      /\ \A p \in DOMAIN h : h[p] = [size |-> h[p].size, free |-> h[p].free]
                            /\ h[p].size \in Nat /\ h[p].free \in BOOLEAN
      /\ \A p \in Heads(h, t) : p \in DOMAIN h /\ p \in Area(t) /\ p \in Nat /\ p < EndOf(t)
      /\ EndOf(t) \in Nat /\ HdrSize \in Nat \ {0}
  BY Places DEF HeadersOK, Heads
<1>2. /\ Heads(c, t) = Stays(h, t) /\ Stays(h, t) \subseteq Heads(h, t)
      /\ DOMAIN c = Stays(h, t) \cup (DOMAIN h \ Area(t))
      /\ \A p \in Stays(h, t) :
           /\ h[p].free => c[p] = [size |-> N(p) - p - HdrSize, free |-> TRUE]
           /\ ~h[p].free => c[p] = h[p]
      /\ \A p \in DOMAIN h \ Area(t) : c[p] = h[p]
  BY <1>1 DEF Consolidate, Heads, Stays
<1>3. ASSUME NEW p \in Stays(h, t)
      PROVE  /\ c[p].size \in Nat /\ c[p].size > 0 /\ c[p].free = h[p].free
             /\ After(c, p) = IF h[p].free THEN N(p) ELSE After(h, p)
  <2>1. p \in Heads(h, t) /\ h[p].size > 0 /\ After(h, p) = p + HdrSize + h[p].size
    BY <1>2 DEF Chained, After
  <2>2. After(h, p) <= N(p) /\ N(p) \in Nat
    BY <2>1, NextStays
  <2>. HIDE DEF N, c
  <2>3. p \in Nat /\ h[p].size \in Nat
    BY <1>1, <1>2
  <2>4. CASE h[p].free
    <3>1. N(p) - p - HdrSize \in Nat /\ N(p) - p - HdrSize > 0
          /\ p + HdrSize + (N(p) - p - HdrSize) = N(p)
      BY <1>1, <2>1, <2>2, <2>3
    <3>2. c[p].size = N(p) - p - HdrSize /\ c[p].free = TRUE
      BY <1>2, <2>4
    <3>. QED  BY <2>4, <3>1, <3>2 DEF After
  <2>5. CASE ~h[p].free
    BY <1>2, <2>1, <2>3, <2>5 DEF After
  <2>. QED  BY <2>4, <2>5
<1>. HIDE DEF c, N
<1>4. HeadersOK(c)
  <2>1. c \in [DOMAIN c -> [size : Nat, free : BOOLEAN]]
    <3>1. \A p \in DOMAIN h \ Area(t) : c[p] \in [size : Nat, free : BOOLEAN]
      BY <1>1, <1>2
    <3>2. ASSUME NEW p \in Stays(h, t)
          PROVE  c[p] \in [size : Nat, free : BOOLEAN]
      <4>1. p \in DOMAIN h /\ c[p].size \in Nat
        BY <1>1, <1>2, <1>3
      <4>2. CASE h[p].free
        <5>1. PICK n \in Nat : c[p] = [size |-> n, free |-> TRUE]
          BY <1>2, <4>1, <4>2
        <5>. QED  BY <5>1
      <4>3. CASE ~h[p].free
        BY <1>2, <4>1, <4>3 DEF HeadersOK
      <4>. QED  BY <4>2, <4>3
    <3>3. c = [p \in DOMAIN c |-> c[p]]
      BY DEF c, Consolidate
    <3>. QED  BY <1>2, <3>1, <3>2, <3>3
  <2>. QED  BY <1>1, <1>2, <2>1 DEF HeadersOK
<1>5. \A u \in MemoryTypes : u # t => SameHeads(c, h, u)
  BY <1>2, Places DEF SameHeads, Heads, MemoryTypes, Stays
<1>6. StartOf(t) \in Stays(h, t)
  <2>1. \A q \in Heads(h, t) : StartOf(t) < After(h, q)
    BY <1>1, Places DEF Chained, After, Heads
  <2>. QED  BY <1>1, <2>1 DEF Stays, Chained
<1>7. ASSUME NEW p \in Stays(h, t)
      PROVE  /\ After(c, p) \in Stays(h, t) \cup {EndOf(t)}
             /\ \A q \in Stays(h, t) : q <= p \/ After(c, p) <= q
             /\ h[p].free /\ After(c, p) # EndOf(t) => ~h[After(c, p)].free
  <2>1. CASE ~h[p].free
    <3>1. After(c, p) = After(h, p)
      BY <1>3, <2>1
    <3>2. ASSUME NEW q \in Heads(h, t), After(h, q) = After(h, p)
          PROVE  q = p
      BY <1>1, <1>2, <3>2 DEF Chained, After
    <3>3. After(h, p) \in Stays(h, t) \cup {EndOf(t)}
      BY <1>2, <2>1, <3>2 DEF Chained, Stays
    <3>. QED  BY <1>2, <2>1, <3>1, <3>3 DEF Chained
  <2>2. CASE h[p].free
    <3>1. /\ After(c, p) = N(p) /\ N(p) \in Stays(h, t) \cup {EndOf(t)}
          /\ After(h, p) <= N(p) /\ p < N(p) /\ N(p) \in Nat
          /\ \A s \in Stays(h, t) \cup {EndOf(t)} : p < s => N(p) <= s
      BY <1>1, <1>2, <1>3, <2>2, NextStays DEF N, Chained, After
    <3>2. ASSUME N(p) # EndOf(t), h[N(p)].free
          PROVE  FALSE
      <4>1. N(p) \in Heads(h, t) /\ N(p) # StartOf(t)
        BY <1>1, <1>2, <3>1, <3>2, Places
      <4>2. PICK q \in Heads(h, t) : q < N(p) /\ After(h, q) = N(p)
        BY <4>1, Before
      <4>3. ~h[q].free
        BY <3>1, <3>2, <4>2 DEF Stays
      <4>4. q \in Stays(h, t)
        BY <4>3 DEF Stays
      <4>5. q <= p
        BY <1>1, <1>2, <3>1, <4>2, <4>4
      <4>6. q = p
        BY <1>1, <1>2, <3>1, <4>2, <4>5 DEF Chained
      <4>. QED  BY <2>2, <4>3, <4>6
    <3>. QED  BY <1>1, <1>2, <3>1, <3>2
  <2>. QED  BY <1>2, <2>1, <2>2, <1>1
<1>8. Tiled(c, t)
  BY <1>2, <1>3, <1>6, <1>7 DEF Tiled
<1>. QED  BY <1>4, <1>5, <1>8 DEF c

-----------------------------------------------------------------------------
\* alloc() and free().

\* The first call makes all memory of the type one free block.
LEMMA ReadyTiles ==
  ASSUME NEW h, HeadersOK(h), NEW t \in MemoryTypes, Heads(h, t) # {} => Tiled(h, t)
  PROVE  LET r == Ready(h, t)
         IN  /\ HeadersOK(r) /\ Tiled(r, t)
             /\ \A u \in MemoryTypes : u # t => SameHeads(r, h, u)
<1>. DEFINE r == Ready(h, t)
<1>1. CASE StartOf(t) \in DOMAIN h
  <2>1. r = h /\ Tiled(h, t)
    BY <1>1, Places DEF Ready, Heads
  <2>. QED  BY <2>1 DEF SameHeads
<1>2. CASE StartOf(t) \notin DOMAIN h
  <2>. DEFINE size == EndOf(t) - StartOf(t) - HdrSize
  <2>1. size \in Nat /\ size > 0 /\ StartOf(t) + HdrSize + size = EndOf(t)
    BY Places
  <2>2. Heads(h, t) = {}
    BY <1>2 DEF Tiled, Heads
  <2>3. /\ DOMAIN r = DOMAIN h \cup {StartOf(t)}
        /\ r[StartOf(t)] = [size |-> size, free |-> TRUE]
        /\ \A p \in DOMAIN h : r[p] = h[p]
    BY <1>2 DEF Ready
  <2>4. Heads(r, t) = {StartOf(t)}
    BY <2>2, <2>3, Places DEF Heads
  <2>. HIDE DEF size
  <2>5. HeadersOK(r)
    <3>1. r = [p \in DOMAIN r |-> r[p]]
      BY <1>2 DEF Ready
    <3>2. DOMAIN r \subseteq Area("heap") \cup Area("dma")
      BY <2>3, Places DEF HeadersOK, MemoryTypes
    <3>3. \A p \in DOMAIN h : h[p] \in [size : Nat, free : BOOLEAN]
      BY DEF HeadersOK
    <3>. HIDE DEF r
    <3>4. [size |-> size, free |-> TRUE] \in [size : Nat, free : BOOLEAN]
      BY <2>1
    <3>5. \A p \in DOMAIN r : r[p] \in [size : Nat, free : BOOLEAN]
      BY <2>3, <3>3, <3>4, Zenon
    <3>. QED  BY <3>1, <3>2, <3>5 DEF HeadersOK
  <2>. HIDE DEF r
  <2>6. Tiled(r, t)
    <3>1. r[StartOf(t)].size = size /\ After(r, StartOf(t)) = EndOf(t)
      BY <2>1, <2>3 DEF After
    <3>. QED  BY <2>1, <2>4, <3>1, Places DEF Tiled
  <2>7. \A u \in MemoryTypes : u # t => SameHeads(r, h, u)
    BY <2>3, Places DEF SameHeads, Heads, MemoryTypes
  <2>. QED  BY <2>5, <2>6, <2>7 DEF r
<1>. QED  BY <1>1, <1>2

\* A free block is taken, or split when more than a header is left of it.
LEMMA TakeTiles ==
  ASSUME NEW h, HeadersOK(h), NEW t \in MemoryTypes, Tiled(h, t),
         NEW p \in Heads(h, t), h[p].free, NEW len \in Nat \ {0}, len <= h[p].size
  PROVE  LET k == Take(h, p, len)
         IN  /\ HeadersOK(k) /\ Tiled(k, t)
             /\ \A u \in MemoryTypes : u # t => SameHeads(k, h, u)
<1>. DEFINE k == Take(h, p, len)
            rest == p + HdrSize + len
            left == h[p].size - (HdrSize + len)
<1>1. /\ \A q \in Heads(h, t) : q \in DOMAIN h /\ q \in Area(t) /\ q \in Nat /\ q < EndOf(t)
      /\ \A q \in Heads(h, t) : h[q].size \in Nat
      /\ EndOf(t) \in Nat /\ HdrSize \in Nat \ {0}
  BY Places DEF HeadersOK, Heads
<1>2. After(h, p) \in Nat /\ After(h, p) <= EndOf(t) /\ After(h, p) = p + HdrSize + h[p].size
  BY <1>1 DEF Tiled, After
<1>3. CASE left > 0
  <2>1. /\ left \in Nat /\ rest \in Nat /\ p < rest /\ rest < After(h, p)
        /\ rest + HdrSize + left = After(h, p) /\ rest \in Area(t)
    BY <1>1, <1>2, <1>3, Places DEF Heads
  <2>2. rest \notin DOMAIN h
    BY <1>1, <2>1 DEF Tiled, Heads
  <2>3. /\ DOMAIN k = DOMAIN h \cup {rest}
        /\ k[p] = [size |-> len, free |-> FALSE] /\ k[rest] = [size |-> left, free |-> TRUE]
        /\ \A q \in DOMAIN h : q # p => k[q] = h[q]
    BY <1>1, <1>3, <2>2 DEF Take
  <2>4. Heads(k, t) = Heads(h, t) \cup {rest}
    BY <2>1, <2>3 DEF Heads
  <2>5. HeadersOK(k)
    <3>1. k = [q \in DOMAIN k |-> k[q]]
      BY <1>3 DEF Take
    <3>2. DOMAIN k \subseteq Area("heap") \cup Area("dma")
      BY <2>1, <2>3 DEF HeadersOK, MemoryTypes
    <3>3. \A q \in DOMAIN h : h[q] \in [size : Nat, free : BOOLEAN]
      BY DEF HeadersOK
    <3>. HIDE DEF k
    <3>4. /\ [size |-> left, free |-> TRUE] \in [size : Nat, free : BOOLEAN]
          /\ [size |-> len, free |-> FALSE] \in [size : Nat, free : BOOLEAN]
      BY <2>1
    <3>. HIDE DEF left, rest
    <3>5. \A q \in DOMAIN k : k[q] \in [size : Nat, free : BOOLEAN]
      BY <2>3, <3>3, <3>4, Zenon
    <3>. QED  BY <3>1, <3>2, <3>5 DEF HeadersOK
  <2>. HIDE DEF k, rest, left
  <2>6. /\ After(k, p) = rest /\ After(k, rest) = After(h, p)
        /\ \A q \in Heads(h, t) : q # p => After(k, q) = After(h, q)
    BY <1>1, <2>1, <2>3 DEF After, rest
  <2>7. \A q \in Heads(k, t) :
          /\ k[q].size > 0 /\ After(k, q) \in Heads(k, t) \cup {EndOf(t)}
          /\ \A s \in Heads(k, t) : s <= q \/ After(k, q) <= s
    BY <1>1, <1>2, <1>3, <2>1, <2>3, <2>4, <2>6 DEF Tiled, left
  <2>8. \A q \in Heads(k, t) :
          k[q].free /\ After(k, q) # EndOf(t) => ~k[After(k, q)].free
    BY <1>1, <1>2, <2>1, <2>2, <2>3, <2>4, <2>6 DEF Tiled
  <2>9. Tiled(k, t)
    BY <2>4, <2>7, <2>8 DEF Tiled
  <2>10. \A u \in MemoryTypes : u # t => SameHeads(k, h, u)
    BY <1>1, <2>1, <2>3, Places DEF SameHeads, Heads, MemoryTypes
  <2>. QED  BY <2>5, <2>9, <2>10 DEF k
<1>4. CASE ~(left > 0)
  <2>1. /\ DOMAIN k = DOMAIN h
        /\ k[p].size = h[p].size /\ k[p].free = FALSE
        /\ \A q \in DOMAIN h : q # p => k[q] = h[q]
    BY <1>1, <1>4 DEF Take, HeadersOK
  <2>2. HeadersOK(k)
    BY <1>1, <1>4 DEF Take, HeadersOK
  <2>. HIDE DEF k
  <2>3. Heads(k, t) = Heads(h, t) /\ \A q \in Heads(h, t) : After(k, q) = After(h, q)
    BY <1>1, <2>1 DEF Heads, After
  <2>4. Tiled(k, t)
    BY <1>1, <2>1, <2>3 DEF Tiled
  <2>5. \A u \in MemoryTypes : u # t => SameHeads(k, h, u)
    BY <1>1, <2>1, Places DEF SameHeads, Heads, MemoryTypes
  <2>. QED  BY <2>2, <2>4, <2>5 DEF k
<1>. QED  BY <1>3, <1>4

\* What is done within one type leaves all of them sound.
LEMMA SoundAfter ==
  ASSUME NEW d \in MemoryTypes, NEW h, Sound(h, d), NEW c, NEW t \in {"heap", d},
         HeadersOK(c), Tiled(c, t), \A u \in MemoryTypes : u # t => SameHeads(c, h, u)
  PROVE  Sound(c, d)
<1>1. ASSUME NEW u \in {"heap", d}, u # t, Heads(c, u) # {}
      PROVE  Tiled(c, u)
  <2>1. SameHeads(c, h, u) /\ Tiled(h, u)
    BY <1>1 DEF MemoryTypes, Sound, SameHeads
  <2>2. \A p \in Heads(h, u) : After(c, p) = After(h, p)
    BY <2>1 DEF SameHeads, After
  <2>. QED  BY <2>1, <2>2, Places DEF SameHeads, Tiled
<1>2. d = "heap" => Heads(c, "dma") \subseteq {DmaStart}
  BY DEF MemoryTypes, Sound, SameHeads
<1>. QED  BY <1>1, <1>2 DEF Sound

LEMMA AllocSound ==
  ASSUME NEW d \in MemoryTypes, NEW h, Sound(h, d), NEW t \in {"heap", d}, NEW n \in Nat
  PROVE  Sound(Alloc(h, t, n).hdr, d)
<1>. DEFINE len == AlignUp(n, HdrSize)  r == Ready(h, t)  p == FirstFit(r, t, len)
<1>1. t \in MemoryTypes /\ HeadersOK(h) /\ (Heads(h, t) # {} => Tiled(h, t))
  BY DEF MemoryTypes, Sound
<1>2. /\ HeadersOK(r) /\ Tiled(r, t) /\ \A u \in MemoryTypes : u # t => SameHeads(r, h, u)
      /\ Sound(r, d)
  BY <1>1, ReadyTiles, SoundAfter
<1>. HIDE DEF r
<1>3. CASE n = 0
  BY <1>3 DEF Alloc
<1>4. CASE n # 0 /\ Fits(r, t, len) = {}
  BY <1>2, <1>4 DEF Alloc, r, len
<1>5. CASE n # 0 /\ Fits(r, t, len) # {}
  <2>1. len \in Nat \ {0}
    BY <1>5, AlignUpBounds, Places
  <2>. HIDE DEF len
  <2>2. p \in Fits(r, t, len)
    <3>1. Fits(r, t, len) \subseteq Nat
      BY <1>1, Places DEF Fits, Heads
    <3>2. \E q \in Fits(r, t, len) : \A s \in Fits(r, t, len) : q <= s
      BY <1>5, <3>1, Least
    <3>. QED  BY <3>2 DEF FirstFit
  <2>3. p \in Heads(r, t) /\ r[p].free /\ len <= r[p].size
    BY <2>2 DEF Fits
  <2>. HIDE DEF p
  <2>4. Sound(Take(r, p, len), d)
    BY <1>1, <1>2, <2>1, <2>3, TakeTiles, SoundAfter
  <2>. QED  BY <1>5, <2>4 DEF Alloc, r, len, p
<1>. QED  BY <1>3, <1>4, <1>5

LEMMA FreeSound ==
  ASSUME dma_type \in MemoryTypes, NEW h, Sound(h, dma_type), NEW ptr
  PROVE  Sound(FreeBlock(h, ptr), dma_type)
<1>. DEFINE p == ptr - HdrSize  t == Owner(ptr)
            g == [h EXCEPT ![p].free = TRUE]
<1>1. CASE ptr \in Area(t) /\ p \in DOMAIN h /\ ~h[p].free
  <2>1. t \in MemoryTypes /\ t \in {"heap", dma_type} /\ HeadersOK(h)
    BY DEF Owner, MemoryTypes, Sound
  <2>2. ptr \in Nat /\ p \in Nat /\ ptr = p + HdrSize
    BY <1>1, <2>1, Places DEF HeadersOK, MemoryTypes
  <2>. HIDE DEF p
  <2>3. p \in Heads(h, t)
    <3>1. PICK u \in MemoryTypes : p \in Heads(h, u)
      BY <1>1, <2>1 DEF HeadersOK, Heads, MemoryTypes
    <3>2. ptr \in Area(u)
      <4>1. CASE u \in {"heap", dma_type}
        <5>1. Tiled(h, u) /\ h[p].size \in Nat
          BY <1>1, <2>1, <3>1, <4>1 DEF Sound, HeadersOK
        <5>2. After(h, p) <= EndOf(u) /\ After(h, p) = p + HdrSize + h[p].size /\ h[p].size > 0
          BY <3>1, <5>1, Places DEF Tiled, After, Heads
        <5>. QED  BY <2>2, <3>1, <5>1, <5>2, Places DEF Heads
      <4>2. CASE u \notin {"heap", dma_type}
        <5>1. u = "dma" /\ p = DmaStart
          BY <3>1, <4>2, Places DEF MemoryTypes, Sound
        <5>. QED  BY <2>2, <5>1, Places DEF MemoryTypes, StartOf
      <4>. QED  BY <4>1, <4>2
    <3>. QED  BY <1>1, <2>1, <3>1, <3>2, Places DEF MemoryTypes
  <2>4. Tiled(h, t)
    BY <2>1, <2>3 DEF Sound
  <2>5. /\ DOMAIN g = DOMAIN h /\ \A q \in DOMAIN h : g[q].size = h[q].size
        /\ \A q \in DOMAIN h : q # p => g[q] = h[q]
    BY <2>1 DEF HeadersOK
  <2>6. HeadersOK(g)
    BY <2>1 DEF HeadersOK
  <2>. HIDE DEF g
  <2>7. Chained(g, t)
    <3>1. Heads(g, t) = Heads(h, t) /\ \A q \in Heads(h, t) : After(g, q) = After(h, q)
      BY <2>5 DEF Heads, After
    <3>. QED  BY <2>4, <2>5, <3>1 DEF Tiled, Chained, Heads
  <2>8. \A u \in MemoryTypes : u # t => SameHeads(g, h, u)
    BY <2>1, <2>3, <2>5, Places DEF SameHeads, Heads, MemoryTypes
  <2>9. /\ HeadersOK(Consolidate(g, t)) /\ Tiled(Consolidate(g, t), t)
        /\ \A u \in MemoryTypes : u # t => SameHeads(Consolidate(g, t), g, u)
    BY <2>1, <2>6, <2>7, ConsolidateTiles
  <2>10. \A u \in MemoryTypes : u # t => SameHeads(Consolidate(g, t), h, u)
    BY <2>8, <2>9 DEF SameHeads
  <2>11. Sound(Consolidate(g, t), dma_type)
    BY <2>1, <2>9, <2>10, SoundAfter
  <2>. QED  BY <1>1, <2>11 DEF FreeBlock, g, p
<1>2. CASE ~(ptr \in Area(t) /\ p \in DOMAIN h /\ ~h[p].free)
  BY <1>2 DEF FreeBlock
<1>. QED  BY <1>1, <1>2

-----------------------------------------------------------------------------
\* The calls.

LEMMA RegionSound ==
  ASSUME NEW d \in MemoryTypes, NEW h, Sound(h, d), d = dma_type, NEW t \in {"heap", d},
         NEW align \in Nat, NEW num \in Nat, NEW size \in Nat
  PROVE  Sound(AllocateRegion(h, t, align, num, size).hdr, d)
<1>. DEFINE a == Alloc(h, "heap", RegionSize)
            room == IF num = 0 THEN size ELSE num * align
            s == Alloc(a.hdr, t, room + align + num)
<1>1. Sound(a.hdr, d)
  BY AllocSound, MallocAssumption
<1>2. room + align + num \in Nat
  OBVIOUS
<1>. HIDE DEF a, room
<1>3. Sound(s.hdr, d)
  BY <1>1, <1>2, AllocSound
<1>. HIDE DEF s
<1>4. Sound(FreeBlock(s.hdr, a.ptr), d)
  BY <1>3, FreeSound
<1>5. \/ AllocateRegion(h, t, align, num, size).hdr = a.hdr
      \/ AllocateRegion(h, t, align, num, size).hdr = FreeBlock(s.hdr, a.ptr)
      \/ AllocateRegion(h, t, align, num, size).hdr = s.hdr
  BY DEF AllocateRegion, a, s, room
<1>. QED  BY <1>1, <1>3, <1>4, <1>5

LEMMA MallocInitInv == MallocInit => MallocInv
<1>. SUFFICES ASSUME MallocInit PROVE MallocInv
  OBVIOUS
<1>. DEFINE room == DmaEnd - DmaStart - HdrSize
<1>1. room \in Nat /\ DmaStart \in Area("dma") /\ DmaStart \notin Area("heap")
  <2>1. "dma" \in MemoryTypes /\ StartOf("dma") = DmaStart /\ EndOf("dma") = DmaEnd
    BY DEF MemoryTypes, StartOf, EndOf
  <2>. QED  BY <2>1, Places
<1>2. \/ DOMAIN hdr = {}
      \/ DOMAIN hdr = {DmaStart} /\ hdr = [p \in {DmaStart} |-> [size |-> room, free |-> FALSE]]
  BY DEF MallocInit
<1>. HIDE DEF room
<1>3. HeadersOK(hdr) /\ Heads(hdr, "heap") = {} /\ Heads(hdr, "dma") \subseteq {DmaStart}
  <2>1. hdr = [p \in DOMAIN hdr |-> hdr[p]]
    BY DEF MallocInit
  <2>2. \A p \in DOMAIN hdr : p = DmaStart /\ hdr[p] = [size |-> room, free |-> FALSE]
    BY <1>2
  <2>3. [size |-> room, free |-> FALSE] \in [size : Nat, free : BOOLEAN]
    BY <1>1
  <2>4. \A p \in DOMAIN hdr : hdr[p] \in [size : Nat, free : BOOLEAN]
    BY <2>2, <2>3, Zenon
  <2>. QED  BY <1>1, <2>1, <2>2, <2>4 DEF HeadersOK, Heads
<1>. QED  BY <1>3 DEF MallocInit, MallocInv, Sound, MemoryTypes

LEMMA MemalignInv ==
  ASSUME MallocInv, NEW t \in {"heap", dma_type}, NEW n \in Lens, NEW align \in Aligns,
         Memalign(t, align, n)
  PROVE  MallocInv'
<1>. DEFINE f == WithFirst(t)
<1>1. Sound(f.hdr, dma_type)
  BY AllocSound, MallocAssumption DEF WithFirst, MallocInv
<1>. HIDE DEF f
<1>2. CASE MemalignFails(t, n)
  BY <1>1, <1>2 DEF MemalignFails, MallocInv, f, Sound
<1>3. CASE MemalignNew(t, align, n)
  <2>. DEFINE num == IF n >= LargeRequest \/ align >= LargeRequest THEN 0
                     ELSE LargeRequest \div align
  <2>1. align \in Nat /\ num \in Nat /\ n \in Nat
    BY MallocAssumption
  <2>2. Sound(AllocateRegion(f.hdr, t, align, num, n).hdr, dma_type)
    <3>. HIDE DEF num
    <3>. QED  BY <1>1, <2>1, RegionSound DEF MallocInv
  <2>3. hdr' = AllocateRegion(f.hdr, t, align, num, n).hdr /\ dma_type' = dma_type
    BY <1>3 DEF MemalignNew, f
  <2>. HIDE DEF num
  <2>. QED  BY <2>2, <2>3 DEF MallocInv
<1>4. CASE MemalignOld(t, align, n)
  BY <1>4 DEF MemalignOld, MallocInv
<1>. QED  BY <1>2, <1>3, <1>4 DEF Memalign

LEMMA FreeInv ==
  ASSUME MallocInv, NEW b \in live, Free(b)
  PROVE  MallocInv'
<1>1. dma_type' = dma_type
  BY DEF Free
<1>2. CASE FreePlain(b)
  <2>1. Sound(FreeBlock(hdr, b.ptr), dma_type)
    BY FreeSound DEF MallocInv
  <2>2. hdr' = FreeBlock(hdr, b.ptr)
    BY <1>2 DEF FreePlain
  <2>. QED  BY <1>1, <2>1, <2>2 DEF MallocInv
<1>3. CASE FreeAligned(b)
  <2>1. \/ hdr' = hdr
        \/ \E start, desc : hdr' = FreeBlock(FreeBlock(hdr, start), desc)
    BY <1>3, Zenon DEF FreeAligned
  <2>2. \A start, desc : Sound(FreeBlock(FreeBlock(hdr, start), desc), dma_type)
    BY FreeSound DEF MallocInv
  <2>3. Sound(hdr', dma_type)
    BY <2>1, <2>2 DEF MallocInv
  <2>. QED  BY <1>1, <2>3 DEF MallocInv
<1>. QED  BY <1>2, <1>3 DEF Free

\* init_dma_memory() takes what the last boot has left for no block.
Cleared == [p \in DOMAIN hdr \ {DmaStart} |-> hdr[p]]

LEMMA ClearedSound ==
  ASSUME MallocInv, InitDmaMemory
  PROVE  Sound(Cleared, "dma") /\ Heads(Cleared, "dma") = {} /\ SameHeads(Cleared, hdr, "heap")
<1>1. HeadersOK(Cleared)
  BY DEF MallocInv, Sound, HeadersOK, Cleared
<1>2. Heads(Cleared, "dma") = {}
  BY DEF MallocInv, Sound, InitDmaMemory, Heads, Cleared
<1>3. SameHeads(Cleared, hdr, "heap")
  BY Places DEF SameHeads, Heads, MemoryTypes, StartOf, Cleared
<1>4. Heads(Cleared, "heap") # {} => Tiled(Cleared, "heap")
  <2>1. \A p \in Heads(hdr, "heap") : After(Cleared, p) = After(hdr, p)
    BY <1>3 DEF SameHeads, After
  <2>. QED  BY <1>3, <2>1, Places DEF SameHeads, Tiled, MallocInv, Sound, MemoryTypes
<1>. QED  BY <1>1, <1>2, <1>3, <1>4 DEF Sound

LEMMA InitDmaInv ==
  ASSUME MallocInv, InitDmaMemory
  PROVE  MallocInv'
<1>1. Sound(Alloc(Cleared, "heap", TypeSize).hdr, "dma")
  BY ClearedSound, AllocSound, MallocAssumption DEF MemoryTypes
<1>2. hdr' = Alloc(Cleared, "heap", TypeSize).hdr /\ dma_type' = "dma"
  BY DEF InitDmaMemory, Cleared
<1>. QED  BY <1>1, <1>2 DEF MallocInv, MemoryTypes

THEOREM MallocInvHolds == MallocSpec => []MallocInv
<1>1. MallocInv /\ [MallocNext]_mallocVars => MallocInv'
  <2>. SUFFICES ASSUME MallocInv, [MallocNext]_mallocVars PROVE MallocInv'
    OBVIOUS
  <2>1. ASSUME NEW t \in {"heap", dma_type}, NEW n \in Lens, Malloc(t, n)
        PROVE  MallocInv'
    <3>1. Sound(Alloc(hdr, t, n).hdr, dma_type)
      BY AllocSound, MallocAssumption DEF MallocInv
    <3>2. hdr' = Alloc(hdr, t, n).hdr /\ dma_type' = dma_type
      BY <2>1 DEF Malloc
    <3>. QED  BY <3>1, <3>2 DEF MallocInv
  <2>2. CASE UNCHANGED mallocVars
    BY <2>2 DEF mallocVars, MallocInv
  <2>. QED  BY <2>1, <2>2, MemalignInv, FreeInv, InitDmaInv DEF MallocNext
<1>. QED  BY <1>1, MallocInitInv, PTL DEF MallocSpec

\* Whatever is allocated and freed, at whatever alignment and however a call fails,
\* the blocks tile the memory they are taken from, and free neighbours are joined.
THEOREM AlwaysTiled == MallocSpec => []HeapIsTiled
<1>1. MallocInv => HeapIsTiled
  BY DEF MallocInv, Sound, HeapIsTiled
<1>. QED  BY <1>1, MallocInvHolds, PTL

-----------------------------------------------------------------------------
(***************************************************************************)
(* Who has which block.                                                    *)
(***************************************************************************)

\* The blocks in use that an allocation has returned, and the room of each.
Used(h, d) == {p + HdrSize : p \in {q \in Heads(h, "heap") \cup Heads(h, d) : ~h[q].free}}
SizeAt(h, u) == h[u - HdrSize].size
Room(h, u) == u .. u + SizeAt(h, u) - 1

Extent(b) == b.ptr .. b.ptr + b.len - 1

Metas == UNION {[0 .. n - 1 -> 0 .. 2] : n \in Nat}
Regions ==
  [alignment : Nat, size : Nat, free : Nat, meta : Metas, start : Nat, data : Nat, desc : Nat]
Span(r) == r.data .. r.data + r.size - 1
In(r, L) == {b \in L : InRegion(r, b.ptr)}
Plain(R, L) == {b \in L : \A r \in R : ~InRegion(r, b.ptr)}
Ptrs(L) == {b.ptr : b \in L}
Starts(R) == {r.start : r \in R}
Descs(R) == {r.desc : r \in R}

\* Every block in use has one owner: a caller, a region, its descriptor, or the allocator.
Owned(U, R, L, S) ==
  /\ U = Ptrs(Plain(R, L)) \cup Starts(R) \cup Descs(R) \cup S
  /\ Ptrs(Plain(R, L)) \cap (Starts(R) \cup Descs(R) \cup S) = {}
  /\ Starts(R) \cap (Descs(R) \cup S) = {} /\ Descs(R) \cap S = {}
  /\ \A r, q \in R : r.start = q.start \/ r.desc = q.desc => r = q

\* And room for what it is used for.
Placed(h, R, L) ==
  /\ \A b \in Plain(R, L) : Extent(b) \subseteq Room(h, b.ptr)
  /\ \A r \in R : r.start <= r.data /\ Span(r) \subseteq Room(h, r.start)

Apart(L) == \A b, c \in L : b = c \/ Extent(b) \cap Extent(c) = {}

\* Every header is at a multiple of its size.
OnGrid(h) == \A p \in DOMAIN h : p % HdrSize = 0

\* Of the blocks B in it, b has the n elements of region r from the one at i.
Count(r) == Cardinality(DOMAIN r.meta)
Zeros(r) == {i \in DOMAIN r.meta : r.meta[i] = 0}
Has(r, b, i, n) ==
  /\ i \in 0 .. Count(r) - 1 /\ n \in 1 .. Count(r) - i
  /\ b.ptr = r.data + r.alignment * i /\ b.len <= r.alignment * n
  /\ \A k \in i .. i + n - 2 : r.meta[k] = 2
  /\ r.meta[i + n - 1] = 1

LargeInv(r, B) ==
  Large(r) => \E b \in B : B = {b} /\ b.ptr = r.data /\ b.len <= r.size
SmallInv(r, B) ==
  ~Large(r) =>
    /\ DOMAIN r.meta = 0 .. Count(r) - 1 /\ Count(r) \in Nat \ {0}
    /\ r.data % r.alignment = 0 /\ r.size = r.alignment * Count(r)
    /\ r.free = Cardinality(Zeros(r))
    /\ \A b \in B : \E i, n \in Nat : Has(r, b, i, n)
    /\ \A k \in DOMAIN r.meta \ Zeros(r) : \E b \in B : \E i, n \in Nat :
         Has(r, b, i, n) /\ k \in i .. i + n - 1
    /\ \A b, c \in B : \A i, j, n, m \in Nat :
         b # c /\ Has(r, b, i, n) /\ Has(r, c, j, m) => i + n <= j \/ j + m <= i

\* The blocks of headers "h", for regions R, callers' blocks L, and S of the allocator.
Own(h, d, R, L, S) ==
  /\ d \in MemoryTypes /\ Sound(h, d) /\ OnGrid(h)
  /\ R \subseteq Regions
  /\ \A b \in L : b.ptr \in Nat /\ b.len \in Nat \ {0}
  /\ Owned(Used(h, d), R, L, S)
  /\ Placed(h, R, L)
  /\ Apart(L)
  /\ \A r \in R : In(r, L) # {} /\ LargeInv(r, In(r, L)) /\ SmallInv(r, In(r, L))

\* The lists of regions, by type.
All(g) == UNION {{g[t][k] : k \in DOMAIN g[t]} : t \in MemoryTypes}
ListOf(s, t) ==
  \A k \in DOMAIN s : s[k].start \in Area(t) /\ \A j \in DOMAIN s : s[j].start = s[k].start => j = k
Lists(g, d) ==
  /\ g \in [MemoryTypes -> Seq(Regions)]
  /\ d = "heap" => g["dma"] = <<>>
  /\ \A t \in MemoryTypes : ListOf(g[t], t)

\* All of it, of headers "h", DMA type d and its structure dp, first elements fs,
\* lists g and blocks L.
Special(dp, fs) == ({dp} \cup {fs[t] : t \in MemoryTypes}) \ {Null}
Accounted(h, d, dp, fs, g, L) ==
  /\ Lists(g, d)
  /\ fs \in [MemoryTypes -> Nat] /\ dp \in Nat
  /\ d = "heap" => dp = Null
  /\ \A b \in L : b.len \in Lens
  /\ Descs(All(g)) \cup Special(dp, fs) \subseteq Area("heap")
  /\ Own(h, d, All(g), L, Special(dp, fs))

OwnInv == Accounted(hdr, dma_type, dma_ptr, first, regions, live)

-----------------------------------------------------------------------------
\* Products and quotients.

\* Products of natural numbers.
LEMMA TimesMono ==
  ASSUME NEW a \in Nat, NEW x \in Nat, NEW y \in Nat
  PROVE  /\ a * x \in Nat
         /\ x <= y => a * x <= a * y
         /\ a * (x + y) = a * x + a * y
         /\ a * (x + 1) = a * x + a
<1>1. \A z \in Nat : a * z \in Nat
  OBVIOUS
<1>2. ASSUME x <= y PROVE a * x <= a * y
  <2>1. y - x \in Nat /\ a * (y - x) \in Nat
    BY <1>1, <1>2
  <2>2. a * y = a * x + a * (y - x)
    OBVIOUS
  <2>. QED  BY <1>1, <2>1, <2>2
<1>3. a * (x + y) = a * x + a * y /\ a * (x + 1) = a * x + a
  OBVIOUS
<1>. QED  BY <1>1, <1>2, <1>3

\* Division with its remainder.
LEMMA Quotient ==
  ASSUME NEW y \in Nat, NEW a \in Nat \ {0}
  PROVE  /\ y \div a \in Nat /\ y % a \in 0 .. a - 1
         /\ y = a * (y \div a) + (y % a)
OBVIOUS

\* What divides evenly.
LEMMA Exact ==
  ASSUME NEW a \in Nat \ {0}, NEW i \in Nat
  PROVE  (a * i) \div a = i /\ (a * i) % a = 0
<1>. DEFINE q == (a * i) \div a  r == (a * i) % a
<1>1. a * i \in Nat
  BY TimesMono
<1>2. q \in Nat /\ r \in 0 .. a - 1 /\ a * i = a * q + r
  BY <1>1, Quotient
<1>. HIDE DEF q, r
<1>3. ~(q < i)
  <2>1. SUFFICES ASSUME q + 1 <= i PROVE FALSE
    BY <1>2
  <2>2. a * (q + 1) <= a * i /\ a * (q + 1) = a * q + a /\ a * q \in Nat
    BY <1>2, <2>1, TimesMono
  <2>. QED  BY <1>1, <1>2, <2>2
<1>4. ~(i < q)
  <2>1. SUFFICES ASSUME i < q PROVE FALSE
    OBVIOUS
  <2>2. a * (i + 1) <= a * q /\ a * (i + 1) = a * i + a
    BY <1>2, <2>1, TimesMono
  <2>. QED  BY <1>1, <1>2, <2>2
<1>5. q = i
  BY <1>2, <1>3, <1>4
<1>. QED  BY <1>1, <1>2, <1>5 DEF q, r

\* What leaves no remainder is a multiple.
LEMMA Multiple ==
  ASSUME NEW x \in Nat, NEW a \in Nat \ {0}
  PROVE  x % a = 0 <=> \E k \in Nat : x = a * k
<1>1. x % a = 0 => x = a * (x \div a) /\ x \div a \in Nat
  BY Quotient
<1>2. ASSUME NEW k \in Nat, x = a * k PROVE x % a = 0
  BY <1>2, Exact
<1>. QED  BY <1>1, <1>2

\* A sum of multiples is one.
LEMMA Aligned ==
  ASSUME NEW a \in Nat \ {0}, NEW x \in Nat, NEW y \in Nat, x % a = 0, y % a = 0
  PROVE  (x + y) % a = 0
<1>1. PICK j \in Nat : x = a * j
  BY Multiple
<1>2. PICK k \in Nat : y = a * k
  BY Multiple
<1>3. x + y = a * (j + k) /\ j + k \in Nat /\ x + y \in Nat
  BY <1>1, <1>2, TimesMono
<1>. QED  BY <1>3, Multiple

\* Rounding up gives the next multiple.
LEMMA AlignUpIs ==
  ASSUME NEW x \in Nat, NEW a \in Nat \ {0}
  PROVE  /\ AlignUp(x, a) \in Nat /\ x <= AlignUp(x, a) /\ AlignUp(x, a) <= x + a - 1
         /\ AlignUp(x, a) % a = 0
<1>. DEFINE y == x + a - 1  q == y \div a
<1>1. y \in Nat /\ q \in Nat /\ y % a \in 0 .. a - 1 /\ y = a * q + (y % a)
  <2>1. y \in Nat
    OBVIOUS
  <2>. QED  BY <2>1, Quotient
<1>2. AlignUp(x, a) = a * q /\ a * q \in Nat
  <2>1. AlignUp(x, a) = q * a /\ q * a = a * q
    BY <1>1 DEF AlignUp
  <2>. QED  BY <1>1, <2>1, TimesMono
<1>. HIDE DEF q
<1>3. (a * q) % a = 0
  BY <1>1, Exact
<1>. QED  BY <1>1, <1>2, <1>3

\* How many elements a block takes, and that it fits where it does not exceed "num" of them.
LEMMA ElementsIs ==
  ASSUME NEW n \in Nat \ {0}, NEW a \in Nat \ {0}, NEW num \in Nat
  PROVE  /\ Elements(a, n) \in Nat \ {0} /\ n <= a * Elements(a, n)
         /\ n <= a * num => Elements(a, n) <= num
<1>. DEFINE y == n + a - 1  q == y \div a
<1>1. y \in Nat /\ q \in Nat /\ y % a \in 0 .. a - 1 /\ y = a * q + (y % a) /\ Elements(a, n) = q
  <2>1. y \in Nat
    OBVIOUS
  <2>. QED  BY <2>1, Quotient DEF Elements
<1>. HIDE DEF q
<1>2. a * q \in Nat /\ n <= a * q
  BY <1>1, TimesMono
<1>3. q # 0
  BY <1>2
<1>4. ASSUME n <= a * num PROVE q <= num
  <2>1. SUFFICES ASSUME num + 1 <= q PROVE FALSE
    BY <1>1
  <2>2. a * (num + 1) <= a * q /\ a * (num + 1) = a * num + a /\ a * num \in Nat
    BY <1>1, <2>1, TimesMono
  <2>. QED  BY <1>1, <1>2, <1>4, <2>2
<1>. QED  BY <1>1, <1>2, <1>3, <1>4

-----------------------------------------------------------------------------
\* What a call of alloc() and of free() does to the blocks in use.

UsedHeads(h, d) == {q \in Heads(h, "heap") \cup Heads(h, d) : ~h[q].free}

\* A header, its room and its neighbours.
LEMMA HeadFacts ==
  ASSUME NEW d \in MemoryTypes, NEW h, Sound(h, d), NEW t \in {"heap", d}, NEW p \in Heads(h, t)
  PROVE  /\ Tiled(h, t) /\ p \in DOMAIN h /\ p \in Area(t) /\ p \in Nat
         /\ h[p].size \in Nat \ {0} /\ h[p].free \in BOOLEAN
         /\ h[p] = [size |-> h[p].size, free |-> h[p].free]
         /\ p + HdrSize + h[p].size <= EndOf(t) /\ StartOf(t) <= p
         /\ \A q \in Heads(h, t) : q <= p \/ p + HdrSize + h[p].size <= q
<1>1. Tiled(h, t) /\ HeadersOK(h) /\ t \in MemoryTypes
  BY DEF Sound, MemoryTypes
<1>2. /\ p \in DOMAIN h /\ p \in Area(t) /\ p \in Nat /\ StartOf(t) <= p
      /\ h[p].size \in Nat /\ h[p].free \in BOOLEAN /\ h[p] = [size |-> h[p].size, free |-> h[p].free]
  BY <1>1, Places DEF HeadersOK, Heads
<1>3. h[p].size > 0 /\ After(h, p) \in Heads(h, t) \cup {EndOf(t)} /\ After(h, p) = p + HdrSize + h[p].size
      /\ \A q \in Heads(h, t) : q <= p \/ After(h, p) <= q
  BY <1>1 DEF Tiled, After
<1>4. After(h, p) <= EndOf(t)
  BY <1>1, <1>3, Places DEF Heads
<1>. QED  BY <1>1, <1>2, <1>3, <1>4

\* A block in use lies in the memory of one type.
LEMMA UsedFacts ==
  ASSUME NEW d \in MemoryTypes, NEW h, Sound(h, d), NEW u \in Used(h, d)
  PROVE  \E t \in {"heap", d} :
           /\ u - HdrSize \in Heads(h, t) /\ ~h[u - HdrSize].free
           /\ u \in Nat \ {0} /\ HdrSize <= u /\ u - HdrSize \in Nat
           /\ SizeAt(h, u) \in Nat \ {0} /\ u + SizeAt(h, u) <= EndOf(t)
           /\ u \in Area(t) /\ u \in Room(h, u) /\ Room(h, u) \subseteq Area(t)
<1>0. PICK t \in {"heap", d} : \E p \in Heads(h, t) : u = p + HdrSize /\ ~h[p].free
  BY DEF Used
<1>1. PICK p \in Heads(h, t) : u = p + HdrSize /\ ~h[p].free
  BY <1>0
<1>2. /\ p \in Nat /\ h[p].size \in Nat \ {0} /\ p + HdrSize + h[p].size <= EndOf(t) /\ StartOf(t) <= p
      /\ HdrSize \in Nat \ {0} /\ EndOf(t) \in Nat /\ StartOf(t) \in Nat
      /\ \A x : x \in Area(t) <=> x \in Nat /\ StartOf(t) <= x /\ x < EndOf(t)
  BY <1>1, HeadFacts, Places DEF MemoryTypes
<1>3. u - HdrSize = p
  BY <1>1, <1>2
<1>4. SizeAt(h, u) = h[p].size
  BY <1>3 DEF SizeAt
<1>. QED  BY <1>1, <1>2, <1>3, <1>4 DEF Room

\* No two blocks share a word.
LEMMA RoomsApart ==
  ASSUME NEW d \in MemoryTypes, NEW h, Sound(h, d), NEW u \in Used(h, d), NEW w \in Used(h, d),
         NEW x, x \in Room(h, u), x \in Room(h, w)
  PROVE  u = w
<1>1. PICK t \in {"heap", d} :
        /\ u - HdrSize \in Heads(h, t) /\ u \in Nat /\ SizeAt(h, u) \in Nat /\ Room(h, u) \subseteq Area(t)
  BY UsedFacts
<1>2. PICK s \in {"heap", d} :
        /\ w - HdrSize \in Heads(h, s) /\ w \in Nat /\ SizeAt(h, w) \in Nat /\ Room(h, w) \subseteq Area(s)
  BY UsedFacts
<1>3. s = t
  BY <1>1, <1>2, Places DEF MemoryTypes
<1>4. /\ w - HdrSize <= u - HdrSize \/ (u - HdrSize) + HdrSize + SizeAt(h, u) <= w - HdrSize
      /\ u - HdrSize <= w - HdrSize \/ (w - HdrSize) + HdrSize + SizeAt(h, w) <= u - HdrSize
  BY <1>1, <1>2, <1>3, HeadFacts DEF SizeAt
<1>. QED  BY <1>1, <1>2, <1>4, Places DEF Room

\* From headers to blocks.
LEMMA UsedSizes ==
  ASSUME NEW d \in MemoryTypes, NEW h, Sound(h, d), NEW c
  PROVE  /\ Used(h, d) = {p + HdrSize : p \in UsedHeads(h, d)}
         /\ Used(c, d) = {p + HdrSize : p \in UsedHeads(c, d)}
         /\ UsedHeads(h, d) \subseteq Nat
         /\ \A p \in Nat : p + HdrSize \in Used(h, d) <=> p \in UsedHeads(h, d)
         /\ \A u \in Used(h, d) : u \in Nat /\ u - HdrSize \in UsedHeads(h, d)
                                  /\ (c[u - HdrSize] = h[u - HdrSize] => SizeAt(c, u) = SizeAt(h, u))
<1>1. /\ Used(c, d) = {p + HdrSize : p \in UsedHeads(c, d)}
      /\ Used(h, d) = {p + HdrSize : p \in UsedHeads(h, d)}
  BY DEF Used, UsedHeads
<1>2. UsedHeads(h, d) \subseteq Nat /\ HdrSize \in Nat
  BY HeadFacts, Places DEF UsedHeads
<1>3. ASSUME NEW u \in Used(h, d)
      PROVE  u \in Nat /\ u - HdrSize \in UsedHeads(h, d)
             /\ (c[u - HdrSize] = h[u - HdrSize] => SizeAt(c, u) = SizeAt(h, u))
  <2>1. PICK p \in UsedHeads(h, d) : u = p + HdrSize
    BY <1>1
  <2>2. p \in Nat /\ u - HdrSize = p /\ u \in Nat
    BY <1>2, <2>1
  <2>. QED  BY <2>1, <2>2 DEF SizeAt
<1>4. ASSUME NEW p \in Nat, p + HdrSize \in Used(h, d) PROVE p \in UsedHeads(h, d)
  <2>1. p + HdrSize - HdrSize \in UsedHeads(h, d) /\ p + HdrSize - HdrSize = p
    BY <1>2, <1>3, <1>4
  <2>. QED  BY <2>1
<1>. QED  BY <1>1, <1>2, <1>3, <1>4

\* One more header in use is one more block, and the others keep their room.
LEMMA UsedPlus ==
  ASSUME NEW d \in MemoryTypes, NEW h, Sound(h, d), NEW c, NEW p,
         UsedHeads(c, d) = UsedHeads(h, d) \cup {p}, \A q \in UsedHeads(h, d) : c[q] = h[q]
  PROVE  /\ Used(c, d) = Used(h, d) \cup {p + HdrSize}
         /\ \A w \in Used(h, d) : SizeAt(c, w) = SizeAt(h, w)
<1>1. Used(c, d) = Used(h, d) \cup {p + HdrSize}
  BY UsedSizes
<1>. QED  BY <1>1, UsedSizes

\* One fewer is one fewer.
LEMMA UsedMinus ==
  ASSUME NEW d \in MemoryTypes, NEW h, Sound(h, d), NEW c, NEW p \in Nat,
         UsedHeads(c, d) = UsedHeads(h, d) \ {p}, \A q \in UsedHeads(h, d) \ {p} : c[q] = h[q]
  PROVE  /\ Used(c, d) = Used(h, d) \ {p + HdrSize}
         /\ \A w \in Used(h, d) \ {p + HdrSize} : SizeAt(c, w) = SizeAt(h, w)
<1>1. ASSUME NEW w \in Used(h, d) \ {p + HdrSize} PROVE w - HdrSize \in UsedHeads(h, d) \ {p}
  <2>1. w \in Nat /\ w - HdrSize \in UsedHeads(h, d) /\ HdrSize \in Nat
    BY UsedSizes, Places
  <2>. QED  BY <2>1
<1>2. ASSUME NEW q \in UsedHeads(h, d) \ {p} PROVE q + HdrSize # p + HdrSize
  <2>1. q \in Nat /\ q # p /\ HdrSize \in Nat
    BY UsedSizes, Places
  <2>. QED  BY <2>1
<1>3. Used(c, d) \subseteq Used(h, d) \ {p + HdrSize}
  BY <1>2, UsedSizes
<1>4. Used(h, d) \ {p + HdrSize} \subseteq Used(c, d)
  <2>1. ASSUME NEW w \in Used(h, d) \ {p + HdrSize} PROVE w \in Used(c, d)
    <3>1. w = (w - HdrSize) + HdrSize
      BY UsedSizes, Places
    <3>. QED  BY <1>1, <3>1, UsedSizes
  <2>. QED  BY <2>1
<1>. QED  BY <1>1, <1>3, <1>4, UsedSizes

\* The header of a type that the first call writes is of no block in use.
LEMMA ReadyUsed ==
  ASSUME NEW d \in MemoryTypes, NEW h, Sound(h, d), NEW t \in {"heap", d}, OnGrid(h)
  PROVE  LET r == Ready(h, t)
         IN  /\ Sound(r, d) /\ OnGrid(r) /\ Tiled(r, t)
             /\ Used(r, d) = Used(h, d) /\ \A u \in Used(h, d) : SizeAt(r, u) = SizeAt(h, u)
<1>. DEFINE r == Ready(h, t)
<1>1. t \in MemoryTypes /\ HeadersOK(h) /\ (Heads(h, t) # {} => Tiled(h, t))
  BY DEF MemoryTypes, Sound
<1>2. Sound(r, d) /\ Tiled(r, t)
  BY <1>1, ReadyTiles, SoundAfter
<1>3. OnGrid(r)
  BY <1>1, MallocAssumption DEF OnGrid, Ready
<1>4. UsedHeads(r, d) = UsedHeads(h, d) /\ \A p \in UsedHeads(h, d) : r[p] = h[p]
  BY DEF Ready, UsedHeads, Heads
<1>. HIDE DEF r
<1>5. /\ Used(r, d) = {p + HdrSize : p \in UsedHeads(r, d)}
      /\ Used(h, d) = {p + HdrSize : p \in UsedHeads(h, d)}
  BY DEF Used, UsedHeads
<1>6. ASSUME NEW u \in Used(h, d) PROVE SizeAt(r, u) = SizeAt(h, u)
  <2>1. u - HdrSize \in UsedHeads(h, d)
    BY UsedFacts DEF UsedHeads
  <2>. QED  BY <1>4, <2>1 DEF SizeAt
<1>. QED  BY <1>2, <1>3, <1>4, <1>5, <1>6 DEF r

\* A block that is taken was free, and has the room that was asked for.
LEMMA TakeUsed ==
  ASSUME NEW d \in MemoryTypes, NEW h, Sound(h, d), NEW t \in {"heap", d}, OnGrid(h),
         NEW p \in Heads(h, t), h[p].free, NEW len \in Nat \ {0}, len <= h[p].size, len % HdrSize = 0
  PROVE  LET k == Take(h, p, len)  u == p + HdrSize
         IN  /\ Sound(k, d) /\ OnGrid(k)
             /\ u \notin Used(h, d) /\ Used(k, d) = Used(h, d) \cup {u} /\ len <= SizeAt(k, u)
             /\ u % HdrSize = 0 /\ u \in Area(t)
             /\ \A w \in Used(h, d) : SizeAt(k, w) = SizeAt(h, w)
<1>. DEFINE k == Take(h, p, len)  u == p + HdrSize
            rest == p + HdrSize + len  left == h[p].size - (HdrSize + len)
<1>1. /\ p \in DOMAIN h /\ p \in Nat /\ h[p].size \in Nat \ {0} /\ p + HdrSize + h[p].size <= EndOf(t)
      /\ StartOf(t) <= p /\ HdrSize \in Nat \ {0} /\ EndOf(t) \in Nat /\ StartOf(t) \in Nat
      /\ \A q \in Heads(h, t) : q \in Nat /\ (q <= p \/ p + HdrSize + h[p].size <= q)
      /\ \A x : x \in Area(t) <=> x \in Nat /\ StartOf(t) <= x /\ x < EndOf(t)
  BY HeadFacts, Places DEF MemoryTypes
<1>2. Sound(k, d)
  <2>1. t \in MemoryTypes /\ HeadersOK(h) /\ Tiled(h, t)
    BY HeadFacts DEF MemoryTypes, Sound
  <2>. QED  BY <2>1, TakeTiles, SoundAfter
<1>3. p % HdrSize = 0 /\ HdrSize % HdrSize = 0 /\ u % HdrSize = 0 /\ rest % HdrSize = 0
  <2>1. p % HdrSize = 0
    BY <1>1 DEF OnGrid
  <2>2. HdrSize % HdrSize = 0
    <3>1. HdrSize = HdrSize * 1
      BY <1>1
    <3>. QED  BY <1>1, <3>1, Multiple
  <2>3. u % HdrSize = 0 /\ u \in Nat
    <3>1. HdrSize \in Nat \ {0} /\ p \in Nat /\ u = p + HdrSize /\ u \in Nat
      BY <1>1
    <3>2. (p + HdrSize) % HdrSize = 0
      BY ONLY <2>1, <2>2, <3>1, Aligned
    <3>. QED  BY <3>1, <3>2
  <2>. QED  BY <1>1, <2>1, <2>2, <2>3, Aligned
<1>4. /\ \A q \in DOMAIN k : q \in DOMAIN h \/ q = rest
      /\ \A q \in DOMAIN h : q \in DOMAIN k /\ (q # p => q = rest \/ k[q] = h[q])
      /\ ~k[p].free /\ len <= k[p].size
      /\ rest \in DOMAIN k => rest \in DOMAIN h \/ k[rest].free
      /\ rest \in DOMAIN h => rest \notin Heads(h, t) \/ ~(left > 0)
      /\ ~(left > 0) => DOMAIN k = DOMAIN h /\ \A q \in DOMAIN h : q # p => k[q] = h[q]
      /\ left > 0 => rest \in Area(t) /\ rest \in DOMAIN k /\ k[rest].free /\ rest # p
  <2>1. left > 0 => rest \in Area(t) /\ rest # p /\ rest \notin Heads(h, t)
    BY <1>1
  <2>2. CASE left > 0
    <3>1. k = [q \in DOMAIN h \cup {rest} |->
                 IF q = p THEN [size |-> len, free |-> FALSE]
                 ELSE IF q = rest THEN [size |-> left, free |-> TRUE] ELSE h[q]]
      BY <2>2 DEF Take
    <3>. HIDE DEF k
    <3>. QED  BY <1>1, <2>1, <2>2, <3>1
  <2>3. CASE ~(left > 0)
    <3>1. k = [h EXCEPT ![p].free = FALSE]
      BY <2>3 DEF Take
    <3>2. h[p] = [size |-> h[p].size, free |-> h[p].free]
      BY HeadFacts
    <3>. HIDE DEF k, left
    <3>. QED  BY <1>1, <2>3, <3>1, <3>2
  <2>. QED  BY <2>2, <2>3
<1>5. OnGrid(k)
  BY <1>3, <1>4 DEF OnGrid
<1>. HIDE DEF k, rest, left
<1>6. rest \in DOMAIN h /\ left > 0 => FALSE
  BY <1>4 DEF Heads
<1>7. p \notin UsedHeads(h, d) /\ UsedHeads(k, d) = UsedHeads(h, d) \cup {p}
      /\ \A q \in UsedHeads(h, d) : k[q] = h[q]
  <2>1. \A q \in UsedHeads(h, d) : left > 0 => q \in DOMAIN h /\ q # p /\ q # rest
    BY <1>6 DEF UsedHeads, Heads
  <2>2. \A q \in UsedHeads(h, d) : q \in DOMAIN h /\ q # p
    BY DEF UsedHeads, Heads
  <2>3. \A q \in DOMAIN h : q # p => k[q] = h[q]
    BY <1>4, <1>6
  <2>4. \A q \in DOMAIN k : q \in DOMAIN h \/ (q = rest /\ k[q].free)
    BY <1>4
  <2>5. p \in UsedHeads(k, d)
    BY <1>1, <1>4 DEF UsedHeads, Heads
  <2>6. UsedHeads(k, d) \subseteq UsedHeads(h, d) \cup {p}
    BY <2>3, <2>4 DEF UsedHeads, Heads
  <2>7. UsedHeads(h, d) \subseteq UsedHeads(k, d)
    BY <1>4, <2>2, <2>3 DEF UsedHeads, Heads
  <2>. QED  BY <2>2, <2>3, <2>5, <2>6, <2>7
<1>8. u \notin Used(h, d)
  <2>1. SUFFICES ASSUME u \in Used(h, d) PROVE FALSE
    OBVIOUS
  <2>2. u - HdrSize \in UsedHeads(h, d) /\ u - HdrSize = p
    BY <1>1, <2>1, UsedFacts DEF UsedHeads
  <2>. QED  BY <1>7, <2>2
<1>9. Used(k, d) = Used(h, d) \cup {u} /\ \A w \in Used(h, d) : SizeAt(k, w) = SizeAt(h, w)
  BY <1>7, UsedPlus
<1>10. SizeAt(k, u) = k[p].size
  BY <1>1 DEF SizeAt
<1>11. u \in Area(t)
  BY <1>1
<1>. QED  BY <1>2, <1>3, <1>4, <1>5, <1>8, <1>9, <1>10, <1>11 DEF k

\* free() makes the one block free, whatever _consolidate() joins.
LEMMA FreeUsed ==
  ASSUME dma_type \in MemoryTypes, NEW h, Sound(h, dma_type), OnGrid(h), NEW u \in Used(h, dma_type)
  PROVE  LET c == FreeBlock(h, u)
         IN  /\ Sound(c, dma_type) /\ OnGrid(c) /\ Used(c, dma_type) = Used(h, dma_type) \ {u}
             /\ \A w \in Used(h, dma_type) \ {u} : SizeAt(c, w) = SizeAt(h, w)
<1>. DEFINE d == dma_type  p == u - HdrSize  g == [h EXCEPT ![p].free = TRUE]  c == FreeBlock(h, u)
<1>1. PICK t \in {"heap", d} :
        p \in Heads(h, t) /\ ~h[p].free /\ u \in Area(t) /\ p \in Nat /\ u = p + HdrSize
  <2>1. PICK t \in {"heap", d} :
          u - HdrSize \in Heads(h, t) /\ ~h[u - HdrSize].free /\ u \in Area(t) /\ u - HdrSize \in Nat /\ u \in Nat
    BY UsedFacts
  <2>2. u = (u - HdrSize) + HdrSize
    BY <2>1, Places
  <2>. QED  BY <2>1, <2>2
<1>2. Owner(u) = t
  BY <1>1, Places DEF Owner, MemoryTypes
<1>3. /\ DOMAIN g = DOMAIN h /\ g[p].free = TRUE /\ \A q \in DOMAIN h : q # p => g[q] = h[q]
  BY <1>1 DEF Heads, Sound, HeadersOK
<1>4. c = Consolidate(g, t)
  BY <1>1, <1>2 DEF FreeBlock, Heads
<1>5. /\ DOMAIN c = Stays(g, t) \cup (DOMAIN h \ Area(t)) /\ Stays(g, t) \subseteq DOMAIN h
      /\ \A q \in DOMAIN c : IF q \in Area(t) /\ g[q].free THEN c[q].free ELSE c[q] = g[q]
      /\ \A q \in DOMAIN h : ~g[q].free => q \in DOMAIN c
  <2>. HIDE DEF g
  <2>. QED  BY <1>3, <1>4 DEF Consolidate, Stays, Heads
<1>. HIDE DEF c, g
<1>6. /\ UsedHeads(c, d) = UsedHeads(h, d) \ {p}
      /\ \A q \in UsedHeads(h, d) \ {p} : c[q] = h[q]
  <2>1. ASSUME NEW q \in UsedHeads(h, d) \ {p} PROVE q \in UsedHeads(c, d) /\ c[q] = h[q]
    <3>1. q \in DOMAIN h /\ ~h[q].free /\ g[q] = h[q]
      BY <1>3 DEF UsedHeads, Heads
    <3>2. q \in DOMAIN c /\ c[q] = h[q]
      BY <1>5, <3>1
    <3>. QED  BY <3>1, <3>2 DEF UsedHeads, Heads
  <2>2. ASSUME NEW q \in UsedHeads(c, d) PROVE q \in UsedHeads(h, d) \ {p}
    <3>1. q \in DOMAIN c /\ ~c[q].free
      BY DEF UsedHeads, Heads
    <3>2. q \in DOMAIN h /\ c[q] = g[q]
      BY <1>5, <3>1
    <3>3. q # p /\ g[q] = h[q]
      BY <1>3, <3>1, <3>2
    <3>. QED  BY <3>1, <3>2, <3>3 DEF UsedHeads, Heads
  <2>. QED  BY <2>1, <2>2
<1>7. OnGrid(c)
  BY <1>5 DEF OnGrid
<1>8. Sound(c, dma_type)
  BY FreeSound DEF c
<1>9. /\ Used(c, d) = Used(h, d) \ {u} /\ \A w \in Used(h, d) \ {u} : SizeAt(c, w) = SizeAt(h, w)
  BY <1>1, <1>6, UsedMinus
<1>. QED  BY <1>7, <1>8, <1>9 DEF c

\* What is promised of the answer "a" to a request for n bytes.
Allocated(h, d, t, n, a) ==
  /\ Sound(a.hdr, d) /\ OnGrid(a.hdr)
  /\ \A w \in Used(h, d) : SizeAt(a.hdr, w) = SizeAt(h, w)
  /\ a.ptr = Null => Used(a.hdr, d) = Used(h, d)
  /\ a.ptr # Null =>
       /\ n > 0 /\ a.ptr \notin Used(h, d) /\ Used(a.hdr, d) = Used(h, d) \cup {a.ptr}
       /\ n <= SizeAt(a.hdr, a.ptr) /\ SizeAt(a.hdr, a.ptr) \in Nat
       /\ a.ptr % HdrSize = 0 /\ a.ptr \in Area(t) /\ a.ptr \in Nat \ {0}

\* alloc() does that, whether or not there is room.
LEMMA AllocFacts ==
  ASSUME NEW d \in MemoryTypes, NEW h, Sound(h, d), OnGrid(h), NEW t \in {"heap", d}, NEW n \in Nat
  PROVE  Allocated(h, d, t, n, Alloc(h, t, n))
<1>. DEFINE len == AlignUp(n, HdrSize)  r == Ready(h, t)  p == FirstFit(r, t, len)  a == Alloc(h, t, n)
<1>1. /\ Sound(r, d) /\ OnGrid(r) /\ Tiled(r, t)
      /\ Used(r, d) = Used(h, d) /\ \A u \in Used(h, d) : SizeAt(r, u) = SizeAt(h, u)
  BY ReadyUsed
<1>. HIDE DEF r
<1>2. CASE n = 0
  <2>1. a.hdr = h /\ a.ptr = Null
    BY <1>2 DEF Alloc
  <2>. HIDE DEF a
  <2>2. Allocated(h, d, t, n, a)
    BY <2>1 DEF Allocated
  <2>. QED  BY <2>2 DEF a
<1>3. CASE n # 0 /\ Fits(r, t, len) = {}
  <2>1. a.hdr = r /\ a.ptr = Null
    BY <1>3 DEF Alloc, r, len
  <2>. HIDE DEF a
  <2>2. Allocated(h, d, t, n, a)
    BY <1>1, <2>1 DEF Allocated
  <2>. QED  BY <2>2 DEF a
<1>4. CASE n # 0 /\ Fits(r, t, len) # {}
  <2>1. len \in Nat \ {0} /\ n <= len /\ len % HdrSize = 0
    BY <1>4, AlignUpIs, Places
  <2>2. a.hdr = Take(r, p, len) /\ a.ptr = p + HdrSize
    BY <1>4 DEF Alloc, r, len, p
  <2>. HIDE DEF len
  <2>3. p \in Fits(r, t, len)
    <3>1. Fits(r, t, len) \subseteq Nat
      BY Places DEF Fits, Heads, MemoryTypes
    <3>2. \E q \in Fits(r, t, len) : \A s \in Fits(r, t, len) : q <= s
      BY <1>4, <3>1, Least
    <3>. QED  BY <3>2 DEF FirstFit
  <2>4. p \in Heads(r, t) /\ r[p].free /\ len <= r[p].size
    BY <2>3 DEF Fits
  <2>. HIDE DEF p, a
  <2>5. /\ Sound(a.hdr, d) /\ OnGrid(a.hdr)
        /\ a.ptr \notin Used(r, d) /\ Used(a.hdr, d) = Used(r, d) \cup {a.ptr} /\ len <= SizeAt(a.hdr, a.ptr)
        /\ a.ptr % HdrSize = 0 /\ a.ptr \in Area(t)
        /\ \A w \in Used(r, d) : SizeAt(a.hdr, w) = SizeAt(r, w)
    BY <1>1, <2>1, <2>2, <2>4, TakeUsed
  <2>6. SizeAt(a.hdr, a.ptr) \in Nat /\ a.ptr \in Nat \ {0}
    BY <2>5, UsedFacts
  <2>7. n > 0 /\ n <= SizeAt(a.hdr, a.ptr)
    BY <1>4, <2>1, <2>5, <2>6
  <2>8. Allocated(h, d, t, n, a)
    BY <1>1, <2>5, <2>6, <2>7 DEF Allocated, Null
  <2>. QED  BY <2>8 DEF a
<1>. QED  BY <1>2, <1>3, <1>4

\* allocate_region(): both blocks, or neither.
Regioned(h, t, align, num, size, new) ==
  LET room == IF num = 0 THEN size ELSE num * align
      r == new.region
  IN  /\ Sound(new.hdr, dma_type) /\ OnGrid(new.hdr)
      /\ \A w \in Used(h, dma_type) : SizeAt(new.hdr, w) = SizeAt(h, w)
      /\ ~new.ok => Used(new.hdr, dma_type) = Used(h, dma_type)
      /\ new.ok =>
           /\ Used(new.hdr, dma_type) = Used(h, dma_type) \cup {r.start, r.desc}
           /\ {r.start, r.desc} \cap Used(h, dma_type) = {} /\ r.start # r.desc
           /\ r.start \in Nat \ {0} /\ r.desc \in Nat \ {0}
           /\ r.start \in Area(t) /\ r.desc \in Area("heap")
           /\ room + align + num <= SizeAt(new.hdr, r.start) /\ SizeAt(new.hdr, r.start) \in Nat
           /\ r = [alignment |-> IF num = 0 THEN 0 ELSE align, size |-> room,
                   free |-> num, meta |-> [i \in 0 .. num - 1 |-> 0],
                   start |-> r.start, data |-> AlignUp(r.start + num, align), desc |-> r.desc]

\* allocate_region() takes two blocks or, when it fails, none.
LEMMA RegionFacts ==
  ASSUME dma_type \in MemoryTypes, NEW h, Sound(h, dma_type), OnGrid(h), NEW t \in {"heap", dma_type},
         NEW align \in Nat, NEW num \in Nat, NEW size \in Nat
  PROVE  Regioned(h, t, align, num, size, AllocateRegion(h, t, align, num, size))
<1>. DEFINE d == dma_type
            new == AllocateRegion(h, t, align, num, size)
            room == IF num = 0 THEN size ELSE num * align
            a == Alloc(h, "heap", RegionSize)
            s == Alloc(a.hdr, t, room + align + num)
            undone == FreeBlock(s.hdr, a.ptr)
<1>0. room + align + num \in Nat /\ RegionSize \in Nat
  BY MallocAssumption
<1>1. /\ a.ptr = Null => new.ok = FALSE /\ new.hdr = a.hdr
      /\ a.ptr # Null /\ s.ptr = Null => new.ok = FALSE /\ new.hdr = undone
      /\ a.ptr # Null /\ s.ptr # Null =>
           /\ new.ok = TRUE /\ new.hdr = s.hdr
           /\ new.region = [alignment |-> IF num = 0 THEN 0 ELSE align, size |-> room,
                            free |-> num, meta |-> [i \in 0 .. num - 1 |-> 0],
                            start |-> s.ptr, data |-> AlignUp(s.ptr + num, align), desc |-> a.ptr]
  BY DEF AllocateRegion
<1>. HIDE DEF new
<1>a. Allocated(h, d, "heap", RegionSize, a)
  BY <1>0, AllocFacts
<1>. HIDE DEF room, a
<1>2. /\ Sound(a.hdr, d) /\ OnGrid(a.hdr)
      /\ \A w \in Used(h, d) : SizeAt(a.hdr, w) = SizeAt(h, w)
      /\ a.ptr = Null => Used(a.hdr, d) = Used(h, d)
      /\ a.ptr # Null =>
           /\ a.ptr \notin Used(h, d) /\ Used(a.hdr, d) = Used(h, d) \cup {a.ptr}
           /\ a.ptr \in Area("heap") /\ a.ptr \in Nat \ {0}
  BY <1>a DEF Allocated
<1>b. Allocated(a.hdr, d, t, room + align + num, s)
  BY <1>0, <1>2, AllocFacts
<1>. HIDE DEF s
<1>3. /\ Sound(s.hdr, d) /\ OnGrid(s.hdr)
      /\ \A w \in Used(a.hdr, d) : SizeAt(s.hdr, w) = SizeAt(a.hdr, w)
      /\ s.ptr = Null => Used(s.hdr, d) = Used(a.hdr, d)
      /\ s.ptr # Null =>
           /\ s.ptr \notin Used(a.hdr, d) /\ Used(s.hdr, d) = Used(a.hdr, d) \cup {s.ptr}
           /\ s.ptr \in Area(t) /\ s.ptr \in Nat \ {0}
           /\ room + align + num <= SizeAt(s.hdr, s.ptr) /\ SizeAt(s.hdr, s.ptr) \in Nat
  BY <1>b DEF Allocated
<1>4. CASE a.ptr = Null
  <2>1. Regioned(h, t, align, num, size, new)
    BY <1>1, <1>2, <1>4 DEF Regioned
  <2>. QED  BY <2>1 DEF new
<1>5. CASE a.ptr # Null /\ s.ptr = Null
  <2>1. /\ Sound(undone, d) /\ OnGrid(undone) /\ Used(undone, d) = Used(s.hdr, d) \ {a.ptr}
        /\ \A w \in Used(s.hdr, d) \ {a.ptr} : SizeAt(undone, w) = SizeAt(s.hdr, w)
    BY <1>2, <1>3, <1>5, FreeUsed
  <2>. HIDE DEF undone
  <2>2. Used(s.hdr, d) = Used(h, d) \cup {a.ptr} /\ a.ptr \notin Used(h, d)
    BY <1>2, <1>3, <1>5
  <2>3. Used(undone, d) = Used(h, d)
    BY <2>1, <2>2
  <2>4. \A w \in Used(h, d) : SizeAt(undone, w) = SizeAt(h, w)
    BY <1>2, <1>3, <1>5, <2>1, <2>2
  <2>5. Regioned(h, t, align, num, size, new)
    BY <1>1, <1>5, <2>1, <2>3, <2>4 DEF Regioned
  <2>. QED  BY <2>5 DEF new
<1>6. CASE a.ptr # Null /\ s.ptr # Null
  <2>. DEFINE r == new.region
  <2>1. /\ new.ok = TRUE /\ new.hdr = s.hdr /\ r.start = s.ptr /\ r.desc = a.ptr
        /\ r = [alignment |-> IF num = 0 THEN 0 ELSE align, size |-> room,
                free |-> num, meta |-> [i \in 0 .. num - 1 |-> 0],
                start |-> s.ptr, data |-> AlignUp(s.ptr + num, align), desc |-> a.ptr]
    BY <1>1, <1>6
  <2>. HIDE DEF r
  <2>2. Used(s.hdr, d) = Used(h, d) \cup {s.ptr, a.ptr} /\ {s.ptr, a.ptr} \cap Used(h, d) = {} /\ s.ptr # a.ptr
    BY <1>2, <1>3, <1>6
  <2>3. \A w \in Used(h, d) : SizeAt(s.hdr, w) = SizeAt(h, w)
    BY <1>2, <1>3, <1>6
  <2>4. /\ Used(new.hdr, d) = Used(h, d) \cup {r.start, r.desc}
        /\ {r.start, r.desc} \cap Used(h, d) = {} /\ r.start # r.desc
        /\ Sound(new.hdr, d) /\ OnGrid(new.hdr) /\ new.ok
        /\ \A w \in Used(h, d) : SizeAt(new.hdr, w) = SizeAt(h, w)
    BY <1>3, <2>1, <2>2, <2>3
  <2>5. /\ r.start \in Nat \ {0} /\ r.desc \in Nat \ {0} /\ r.start \in Area(t) /\ r.desc \in Area("heap")
        /\ room + align + num <= SizeAt(new.hdr, r.start) /\ SizeAt(new.hdr, r.start) \in Nat
    BY <1>2, <1>3, <1>6, <2>1
  <2>6. r = [alignment |-> IF num = 0 THEN 0 ELSE align, size |-> room,
             free |-> num, meta |-> [i \in 0 .. num - 1 |-> 0],
             start |-> r.start, data |-> AlignUp(r.start + num, align), desc |-> r.desc]
    <3>1. r.start = s.ptr /\ r.desc = a.ptr
      BY <2>1
    <3>. QED  BY ONLY <2>1, <3>1
  <2>7. Regioned(h, t, align, num, size, new)
    BY <2>4, <2>5, <2>6 DEF Regioned, r, room
  <2>. QED  BY <2>7 DEF new
<1>. QED  BY <1>4, <1>5, <1>6

-----------------------------------------------------------------------------
\* Who owns what.

\* The parts of a region.
LEMMA Spans ==
  ASSUME NEW r \in Regions
  PROVE  /\ r.data \in Nat /\ r.size \in Nat /\ r.alignment \in Nat /\ r.free \in Nat
         /\ r.start \in Nat /\ r.desc \in Nat
         /\ \A x \in Nat : x \in Span(r) <=> InRegion(r, x)
         /\ Span(r) \subseteq Nat
BY DEF Regions, Span, InRegion

\* The words of a block.
LEMMA Extents ==
  ASSUME NEW b, b.ptr \in Nat, b.len \in Nat \ {0}
  PROVE  /\ b.ptr \in Extent(b) /\ Extent(b) \subseteq Nat
         /\ \A x \in Nat : x \in Extent(b) <=> b.ptr <= x /\ x < b.ptr + b.len
BY DEF Extent

\* A block that a region holds is inside of it.
LEMMA Inside ==
  ASSUME NEW r \in Regions, NEW B, NEW b \in B, b.ptr \in Nat, b.len \in Nat \ {0},
         LargeInv(r, B), SmallInv(r, B)
  PROVE  Extent(b) \subseteq Span(r)
<1>1. r.data \in Nat /\ r.size \in Nat /\ r.alignment \in Nat
  BY Spans
<1>2. CASE Large(r)
  <2>1. b.ptr = r.data /\ b.len <= r.size
    BY <1>2 DEF LargeInv
  <2>. QED  BY <1>1, <2>1 DEF Extent, Span
<1>3. CASE ~Large(r)
  <2>1. PICK i \in Nat, n \in Nat : Has(r, b, i, n)
    BY <1>3 DEF SmallInv
  <2>2. /\ Count(r) \in Nat /\ r.size = r.alignment * Count(r) /\ i + n <= Count(r)
        /\ b.ptr = r.data + r.alignment * i /\ b.len <= r.alignment * n
    BY <1>3, <2>1 DEF SmallInv, Has
  <2>3. /\ r.alignment * (i + n) <= r.size /\ r.alignment * (i + n) = r.alignment * i + r.alignment * n
        /\ r.alignment * i \in Nat /\ r.alignment * n \in Nat
    BY <1>1, <2>2, TimesMono
  <2>4. b.ptr >= r.data /\ b.ptr + b.len <= r.data + r.size
    BY <1>1, <2>2, <2>3
  <2>. QED  BY <1>1, <2>4 DEF Extent, Span
<1>. QED  BY <1>2, <1>3

\* Every block lies in one block in use: its own, or that of its region.
LEMMA Homes ==
  ASSUME NEW h, NEW d, NEW R, NEW L, NEW S, Own(h, d, R, L, S)
  PROVE  /\ \A r \in R : r.start \in Used(h, d) /\ r.desc \in Used(h, d) /\ Span(r) \subseteq Room(h, r.start)
         /\ \A b \in Plain(R, L) : b \in L /\ b.ptr \in Used(h, d) /\ Extent(b) \subseteq Room(h, b.ptr)
         /\ \A r \in R : \A b \in In(r, L) : b \in L /\ Extent(b) \subseteq Span(r)
         /\ \A b \in L : b \in Plain(R, L) \/ \E r \in R : b \in In(r, L)
         /\ \A r, q \in R : \A x \in Span(r) : x \in Span(q) => r = q
         /\ \A r, q \in R : \A b \in In(r, L) : b \in In(q, L) => r = q
         /\ \A b \in L : \E u \in Used(h, d) : Extent(b) \subseteq Room(h, u)
<1>1. ASSUME NEW r \in R
      PROVE  r.start \in Used(h, d) /\ r.desc \in Used(h, d) /\ Span(r) \subseteq Room(h, r.start)
  <2>1. r.start \in Starts(R) /\ r.desc \in Descs(R)
    BY DEF Starts, Descs
  <2>2. r.data \in Nat /\ r.start \in Nat /\ Span(r) \subseteq Room(h, r.start)
    BY Spans DEF Own, Placed
  <2>. QED  BY <2>1, <2>2 DEF Own, Owned
<1>2. ASSUME NEW b \in Plain(R, L)
      PROVE  b \in L /\ b.ptr \in Used(h, d) /\ Extent(b) \subseteq Room(h, b.ptr)
  <2>1. b \in L /\ b.ptr \in Ptrs(Plain(R, L))
    BY DEF Plain, Ptrs
  <2>. QED  BY <2>1 DEF Own, Owned, Placed
<1>3. ASSUME NEW r \in R, NEW b \in In(r, L) PROVE b \in L /\ Extent(b) \subseteq Span(r)
  <2>1. b \in L /\ r \in Regions /\ b.ptr \in Nat /\ b.len \in Nat \ {0}
    BY DEF In, Own
  <2>2. LargeInv(r, In(r, L)) /\ SmallInv(r, In(r, L))
    BY DEF Own
  <2>. QED  BY <2>1, <2>2, Inside
<1>4. \A b \in L : b \in Plain(R, L) \/ \E r \in R : b \in In(r, L)
  BY DEF Plain, In
<1>5. ASSUME NEW r \in R, NEW q \in R, NEW x \in Span(r), x \in Span(q) PROVE r = q
  <2>1. x \in Room(h, r.start) /\ x \in Room(h, q.start) /\ d \in MemoryTypes /\ Sound(h, d)
    BY <1>1, <1>5 DEF Own
  <2>2. r.start = q.start
    BY <1>1, <2>1, RoomsApart
  <2>. QED  BY <2>2 DEF Own, Owned
<1>6. ASSUME NEW r \in R, NEW q \in R, NEW b \in In(r, L), b \in In(q, L) PROVE r = q
  <2>1. b.ptr \in Nat /\ InRegion(r, b.ptr) /\ InRegion(q, b.ptr) /\ r \in Regions /\ q \in Regions
    BY <1>6 DEF In, Own
  <2>. QED  BY <1>5, <2>1, Spans
<1>7. ASSUME NEW b \in L PROVE \E u \in Used(h, d) : Extent(b) \subseteq Room(h, u)
  <2>1. CASE b \in Plain(R, L)
    BY <1>2, <2>1
  <2>2. CASE \E r \in R : b \in In(r, L)
    <3>1. PICK r \in R : b \in In(r, L)
      BY <2>2
    <3>. QED  BY <1>1, <1>3, <3>1
  <2>. QED  BY <1>4, <2>1, <2>2
<1>. QED  BY <1>1, <1>2, <1>3, <1>4, <1>5, <1>6, <1>7

\* An allocation keeps every room where it is.
LEMMA Keeps ==
  ASSUME NEW h, NEW d, NEW R, NEW L, NEW S, Own(h, d, R, L, S),
         NEW c, \A w \in Used(h, d) : SizeAt(c, w) = SizeAt(h, w)
  PROVE  /\ \A w \in Used(h, d) : Room(c, w) = Room(h, w)
         /\ Placed(c, R, L)
<1>1. \A w \in Used(h, d) : Room(c, w) = Room(h, w)
  BY DEF Room
<1>2. /\ \A b \in Plain(R, L) : Extent(b) \subseteq Room(c, b.ptr)
      /\ \A r \in R : r.start <= r.data /\ Span(r) \subseteq Room(c, r.start)
  BY <1>1, Homes DEF Own, Placed
<1>. QED  BY <1>1, <1>2 DEF Placed

\* Headers change, but the blocks in use and their room do not.
LEMMA OwnSame ==
  ASSUME NEW h, NEW d, NEW R, NEW L, NEW S, Own(h, d, R, L, S),
         NEW c, NEW e \in MemoryTypes, Sound(c, e), OnGrid(c), Used(c, e) = Used(h, d),
         \A w \in Used(h, d) : SizeAt(c, w) = SizeAt(h, w)
  PROVE  Own(c, e, R, L, S)
BY Keeps DEF Own

\* The allocator has one more.
LEMMA OwnGrowSpecial ==
  ASSUME NEW h, NEW d, NEW R, NEW L, NEW S, Own(h, d, R, L, S),
         NEW c, NEW e \in MemoryTypes, Sound(c, e), OnGrid(c), NEW u, u \notin Used(h, d),
         Used(c, e) = Used(h, d) \cup {u}, \A w \in Used(h, d) : SizeAt(c, w) = SizeAt(h, w)
  PROVE  Own(c, e, R, L, S \cup {u})
<1>1. Owned(Used(c, e), R, L, S \cup {u})
  BY DEF Own, Owned
<1>. QED  BY <1>1, Keeps DEF Own

\* A caller has one more.
LEMMA OwnGrowPlain ==
  ASSUME NEW h, NEW d, NEW R, NEW L, NEW S, Own(h, d, R, L, S),
         NEW c, Sound(c, d), OnGrid(c), NEW u, u \notin Used(h, d),
         Used(c, d) = Used(h, d) \cup {u}, \A w \in Used(h, d) : SizeAt(c, w) = SizeAt(h, w),
         NEW b, b.ptr = u, b.len \in Nat \ {0}, b.len <= SizeAt(c, u)
  PROVE  /\ Own(c, d, R, L \cup {b}, S)
         /\ \A x \in L : Extent(x) \cap Extent(b) = {}
<1>1. /\ \A w \in Used(h, d) : Room(c, w) = Room(h, w)
      /\ Placed(c, R, L) /\ d \in MemoryTypes
  BY Keeps DEF Own
<1>2. u \in Nat /\ u \in Room(c, u) /\ SizeAt(c, u) \in Nat
  BY <1>1, UsedFacts
<1>3. Extent(b) \subseteq Room(c, u) /\ b.ptr \in Nat
  BY <1>2 DEF Extent, Room
<1>4. ASSUME NEW w \in Used(h, d), NEW x \in Room(h, w) PROVE x \notin Room(c, u)
  BY <1>1, <1>4, RoomsApart
<1>5. ASSUME NEW x \in L PROVE Extent(x) \cap Extent(b) = {}
  BY <1>3, <1>4, Homes
<1>6. ASSUME NEW r \in R PROVE ~InRegion(r, b.ptr)
  <2>1. r \in Regions /\ r.start \in Used(h, d) /\ Span(r) \subseteq Room(h, r.start)
    BY Homes DEF Own
  <2>. QED  BY <1>2, <1>4, <2>1, Spans
<1>7. Plain(R, L \cup {b}) = Plain(R, L) \cup {b} /\ \A r \in R : In(r, L \cup {b}) = In(r, L)
  BY <1>6 DEF Plain, In
<1>8. Ptrs(Plain(R, L \cup {b})) = Ptrs(Plain(R, L)) \cup {u}
  BY <1>7 DEF Ptrs
<1>9. Owned(Used(c, d), R, L \cup {b}, S)
  <2>. DEFINE P == Ptrs(Plain(R, L))  O == Starts(R) \cup Descs(R) \cup S
  <2>1. Used(h, d) = P \cup O /\ P \cap O = {} /\ Ptrs(Plain(R, L \cup {b})) = P \cup {u}
    BY <1>8 DEF Own, Owned
  <2>2. /\ Starts(R) \cap (Descs(R) \cup S) = {} /\ Descs(R) \cap S = {}
        /\ \A r, q \in R : r.start = q.start \/ r.desc = q.desc => r = q
    BY DEF Own, Owned
  <2>. HIDE DEF P
  <2>3. Used(c, d) = (P \cup {u}) \cup O /\ (P \cup {u}) \cap O = {}
    <3>. HIDE DEF O
    <3>. QED  BY <2>1
  <2>. QED  BY <2>1, <2>2, <2>3 DEF Owned
<1>10. Placed(c, R, L \cup {b})
  BY <1>1, <1>3, <1>7 DEF Placed
<1>11. Apart(L \cup {b})
  BY <1>5 DEF Own, Apart
<1>12. \A r \in R : In(r, L \cup {b}) # {} /\ LargeInv(r, In(r, L \cup {b})) /\ SmallInv(r, In(r, L \cup {b}))
  BY <1>7 DEF Own
<1>13. \A x \in L \cup {b} : x.ptr \in Nat /\ x.len \in Nat \ {0}
  BY <1>3 DEF Own
<1>. QED  BY <1>1, <1>5, <1>9, <1>10, <1>11, <1>12, <1>13 DEF Own

\* A new region with its first block.
LEMMA OwnNewRegion ==
  ASSUME NEW h, NEW d, NEW R, NEW L, NEW S, Own(h, d, R, L, S),
         NEW c, Sound(c, d), OnGrid(c), NEW r \in Regions,
         {r.start, r.desc} \cap Used(h, d) = {}, r.start # r.desc,
         Used(c, d) = Used(h, d) \cup {r.start, r.desc},
         \A w \in Used(h, d) : SizeAt(c, w) = SizeAt(h, w),
         r.start <= r.data, Span(r) \subseteq Room(c, r.start),
         NEW b, b.ptr = r.data, b.len \in Nat \ {0}, LargeInv(r, {b}), SmallInv(r, {b})
  PROVE  /\ Own(c, d, R \cup {r}, L \cup {b}, S)
         /\ \A x \in L : Extent(x) \cap Extent(b) = {}
<1>1. /\ \A w \in Used(h, d) : Room(c, w) = Room(h, w)
      /\ Placed(c, R, L) /\ d \in MemoryTypes
  BY Keeps DEF Own
<1>2. b.ptr \in Nat /\ Extent(b) \subseteq Span(r)
  BY Spans, Inside
<1>3. ASSUME NEW w \in Used(h, d), NEW x \in Room(h, w) PROVE x \notin Room(c, r.start)
  BY <1>1, <1>3, RoomsApart
<1>4. ASSUME NEW x \in L PROVE Extent(x) \cap Extent(b) = {} /\ ~InRegion(r, x.ptr)
  <2>1. PICK w \in Used(h, d) : Extent(x) \subseteq Room(h, w)
    BY Homes
  <2>2. x.ptr \in Nat /\ x.ptr \in Extent(x)
    BY Extents DEF Own
  <2>. QED  BY <1>2, <1>3, <2>1, <2>2, Spans
<1>5. b.ptr \in Span(r) /\ InRegion(r, b.ptr)
  BY <1>2, Extents, Spans
<1>6. ASSUME NEW q \in R PROVE ~InRegion(q, b.ptr)
  <2>1. q \in Regions /\ q.start \in Used(h, d) /\ Span(q) \subseteq Room(h, q.start)
    BY Homes DEF Own
  <2>. QED  BY <1>2, <1>3, <1>5, <2>1, Spans
<1>7. Plain(R \cup {r}, L \cup {b}) = Plain(R, L)
  BY <1>4, <1>5 DEF Plain
<1>8. In(r, L \cup {b}) = {b} /\ \A q \in R : In(q, L \cup {b}) = In(q, L)
  BY <1>4, <1>5, <1>6 DEF In
<1>9. /\ Starts(R \cup {r}) = Starts(R) \cup {r.start} /\ Descs(R \cup {r}) = Descs(R) \cup {r.desc}
      /\ \A q \in R : q.start \in Used(h, d) /\ q.desc \in Used(h, d)
  BY Homes DEF Starts, Descs
<1>10. Owned(Used(c, d), R \cup {r}, L \cup {b}, S)
  <2>1. /\ Used(h, d) = Ptrs(Plain(R, L)) \cup Starts(R) \cup Descs(R) \cup S
        /\ Ptrs(Plain(R, L)) \cap (Starts(R) \cup Descs(R) \cup S) = {}
        /\ Starts(R) \cap (Descs(R) \cup S) = {} /\ Descs(R) \cap S = {}
    BY DEF Own, Owned
  <2>2. \A p, q \in R : p.start = q.start \/ p.desc = q.desc => p = q
    BY DEF Own, Owned
  <2>3. \A p, q \in R \cup {r} : p.start = q.start \/ p.desc = q.desc => p = q
    BY <1>9, <2>2
  <2>. DEFINE P == Ptrs(Plain(R, L))
  <2>4. Ptrs(Plain(R \cup {r}, L \cup {b})) = P
    BY <1>7
  <2>. HIDE DEF P
  <2>5. /\ Used(c, d) = P \cup Starts(R \cup {r}) \cup Descs(R \cup {r}) \cup S
        /\ P \cap (Starts(R \cup {r}) \cup Descs(R \cup {r}) \cup S) = {}
        /\ Starts(R \cup {r}) \cap (Descs(R \cup {r}) \cup S) = {} /\ Descs(R \cup {r}) \cap S = {}
    BY <1>9, <2>1 DEF P
  <2>. QED  BY <2>3, <2>4, <2>5 DEF Owned
<1>11. Placed(c, R \cup {r}, L \cup {b})
  BY <1>1, <1>7 DEF Placed
<1>12. Apart(L \cup {b})
  BY <1>4 DEF Own, Apart
<1>13. ASSUME NEW q \in R \cup {r}
       PROVE  In(q, L \cup {b}) # {} /\ LargeInv(q, In(q, L \cup {b})) /\ SmallInv(q, In(q, L \cup {b}))
  BY <1>8 DEF Own
<1>14. \A x \in L \cup {b} : x.ptr \in Nat /\ x.len \in Nat \ {0}
  BY <1>2 DEF Own
<1>15. R \cup {r} \subseteq Regions
  BY DEF Own
<1>. QED  BY <1>1, <1>4, <1>10, <1>11, <1>12, <1>13, <1>14, <1>15 DEF Own

\* A region whose blocks change: one more of them, or one fewer.
LEMMA OwnInside ==
  ASSUME NEW h, NEW d, NEW R, NEW L, NEW S, Own(h, d, R, L, S),
         NEW r \in R, NEW q \in Regions, q.start = r.start, q.desc = r.desc, q.data = r.data, q.size = r.size,
         NEW K, In(q, K) # {}, LargeInv(q, In(q, K)), SmallInv(q, In(q, K)), K \ In(r, K) = L \ In(r, L),
         Apart(K), \A b \in K : b.ptr \in Nat /\ b.len \in Nat \ {0}
  PROVE  Own(h, d, (R \ {r}) \cup {q}, K, S)
<1>. DEFINE Q == (R \ {r}) \cup {q}
<1>1. /\ \A a : InRegion(q, a) <=> InRegion(r, a)
      /\ Span(q) = Span(r) /\ In(q, K) = In(r, K)
  BY DEF InRegion, Span, In
<1>2. \A b \in K : ~InRegion(r, b.ptr) => b \in L
  BY DEF In
<1>3. \A b \in L : ~InRegion(r, b.ptr) => b \in K
  BY DEF In
<1>4. Plain(Q, K) = Plain(R, L)
  <2>1. \A b : (\A s \in Q : ~InRegion(s, b.ptr)) <=> (\A s \in R : ~InRegion(s, b.ptr))
    BY <1>1
  <2>. HIDE DEF Q
  <2>. QED  BY <1>2, <1>3, <2>1 DEF Plain
<1>5. ASSUME NEW s \in R, s # r PROVE In(s, K) = In(s, L)
  <2>1. \A x : x \in Nat /\ InRegion(r, x) => ~InRegion(s, x)
    BY <1>5, Homes, Spans DEF Own
  <2>2. \A b \in K : InRegion(s, b.ptr) => ~InRegion(r, b.ptr)
    BY <2>1
  <2>3. \A b \in L : InRegion(s, b.ptr) => ~InRegion(r, b.ptr)
    BY <2>1 DEF Own
  <2>. QED  BY <1>2, <1>3, <2>2, <2>3 DEF In
<1>6. /\ Starts(Q) = Starts(R) /\ Descs(Q) = Descs(R)
      /\ \A s, p \in Q : s.start = p.start \/ s.desc = p.desc => s = p
  <2>1. \A s, p \in R : s.start = p.start \/ s.desc = p.desc => s = p
    BY DEF Own, Owned
  <2>2. Starts(Q) = Starts(R) /\ Descs(Q) = Descs(R)
    BY DEF Starts, Descs
  <2>. QED  BY <2>1, <2>2
<1>7. \A s \in Q : s.start <= s.data /\ Span(s) \subseteq Room(h, s.start)
  BY <1>1 DEF Own, Placed
<1>8. \A s \in Q : In(s, K) # {} /\ LargeInv(s, In(s, K)) /\ SmallInv(s, In(s, K))
  BY <1>5 DEF Own
<1>9. Q \subseteq Regions
  BY DEF Own
<1>. HIDE DEF Q
<1>10. Owned(Used(h, d), Q, K, S)
  BY <1>4, <1>6 DEF Own, Owned
<1>11. Placed(h, Q, K)
  BY <1>4, <1>7 DEF Own, Placed
<1>12. Own(h, d, Q, K, S)
  BY <1>8, <1>9, <1>10, <1>11 DEF Own
<1>. QED  BY <1>12 DEF Q

\* A caller gives a block back that is in no region.
LEMMA OwnDropPlain ==
  ASSUME NEW h, NEW d, NEW R, NEW L, NEW S, Own(h, d, R, L, S), NEW b \in Plain(R, L),
         NEW c, Sound(c, d), OnGrid(c), Used(c, d) = Used(h, d) \ {b.ptr},
         \A w \in Used(h, d) \ {b.ptr} : SizeAt(c, w) = SizeAt(h, w)
  PROVE  Own(c, d, R, L \ {b}, S)
<1>1. b \in L /\ \A x \in L : x.ptr = b.ptr => x = b
  BY Extents DEF Plain, Own, Apart
<1>2. /\ Plain(R, L \ {b}) = Plain(R, L) \ {b}
      /\ \A r \in R : In(r, L \ {b}) = In(r, L)
  BY DEF Plain, In
<1>3. Ptrs(Plain(R, L \ {b})) = Ptrs(Plain(R, L)) \ {b.ptr} /\ b.ptr \in Ptrs(Plain(R, L))
  BY <1>1, <1>2 DEF Ptrs, Plain
<1>4. Owned(Used(c, d), R, L \ {b}, S) /\ b.ptr \notin Starts(R)
  <2>. DEFINE P == Ptrs(Plain(R, L))  O == Starts(R) \cup Descs(R) \cup S
  <2>1. /\ Used(h, d) = P \cup O /\ P \cap O = {} /\ Ptrs(Plain(R, L \ {b})) = P \ {b.ptr}
        /\ b.ptr \in P
    BY <1>3 DEF Own, Owned
  <2>2. /\ Starts(R) \cap (Descs(R) \cup S) = {} /\ Descs(R) \cap S = {}
        /\ \A r, q \in R : r.start = q.start \/ r.desc = q.desc => r = q
    BY DEF Own, Owned
  <2>. HIDE DEF P
  <2>3. Used(c, d) = (P \ {b.ptr}) \cup O /\ (P \ {b.ptr}) \cap O = {}
    <3>. HIDE DEF O
    <3>. QED  BY <2>1
  <2>. QED  BY <2>1, <2>2, <2>3 DEF Owned
<1>5. \A w \in Used(h, d) \ {b.ptr} : Room(c, w) = Room(h, w)
  BY DEF Room
<1>6. Placed(c, R, L \ {b})
  <2>1. \A x \in Plain(R, L \ {b}) : Extent(x) \subseteq Room(c, x.ptr)
    <3>1. ASSUME NEW x \in Plain(R, L) \ {b} PROVE Extent(x) \subseteq Room(c, x.ptr)
      <4>1. x \in L /\ x.ptr \in Used(h, d) /\ Extent(x) \subseteq Room(h, x.ptr)
        BY Homes
      <4>2. x.ptr # b.ptr
        BY <1>1, <4>1
      <4>. QED  BY <1>5, <4>1, <4>2
    <3>. QED  BY <1>2, <3>1
  <2>2. \A r \in R : r.start <= r.data /\ Span(r) \subseteq Room(c, r.start)
    <3>1. \A r \in R : r.start # b.ptr
      BY <1>4 DEF Starts
    <3>. QED  BY <1>5, <3>1, Homes DEF Own, Placed
  <2>. QED  BY <2>1, <2>2 DEF Placed
<1>7. Apart(L \ {b}) /\ \A x \in L \ {b} : x.ptr \in Nat /\ x.len \in Nat \ {0}
  BY DEF Own, Apart
<1>. QED  BY <1>2, <1>4, <1>6, <1>7 DEF Own

\* A region is given up with its last block.
LEMMA OwnDropRegion ==
  ASSUME NEW h, NEW d, NEW R, NEW L, NEW S, Own(h, d, R, L, S), NEW r \in R, NEW b, In(r, L) = {b},
         NEW c, Sound(c, d), OnGrid(c), Used(c, d) = (Used(h, d) \ {r.start}) \ {r.desc},
         \A w \in (Used(h, d) \ {r.start}) \ {r.desc} : SizeAt(c, w) = SizeAt(h, w)
  PROVE  Own(c, d, R \ {r}, L \ {b}, S)
<1>. DEFINE Q == R \ {r}
<1>1. /\ \A s, p \in R : s.start = p.start \/ s.desc = p.desc => s = p
      /\ Starts(R) \cap (Descs(R) \cup S) = {} /\ Descs(R) \cap S = {}
  BY DEF Own, Owned
<1>2. /\ Starts(Q) = Starts(R) \ {r.start} /\ Descs(Q) = Descs(R) \ {r.desc}
      /\ r.start \in Starts(R) /\ r.desc \in Descs(R)
  BY <1>1 DEF Starts, Descs
<1>3. \A x \in L : InRegion(r, x.ptr) <=> x = b
  BY DEF In
<1>4. Plain(Q, L \ {b}) = Plain(R, L) /\ b \in L
  <2>1. b \in L /\ InRegion(r, b.ptr)
    BY DEF In
  <2>. QED  BY <1>3, <2>1 DEF Plain
<1>5. ASSUME NEW s \in Q PROVE In(s, L \ {b}) = In(s, L)
  <2>1. b \notin In(s, L)
    BY Homes
  <2>. QED  BY <2>1 DEF In
<1>6. Owned(Used(c, d), Q, L \ {b}, S) /\ Ptrs(Plain(R, L)) \cap {r.start, r.desc} = {}
  <2>. DEFINE P == Ptrs(Plain(R, L))  A == Starts(R)  D == Descs(R)
  <2>1. /\ Used(h, d) = P \cup A \cup D \cup S /\ P \cap (A \cup D \cup S) = {}
        /\ A \cap (D \cup S) = {} /\ D \cap S = {}
        /\ Ptrs(Plain(Q, L \ {b})) = P /\ Starts(Q) = A \ {r.start} /\ Descs(Q) = D \ {r.desc}
        /\ r.start \in A /\ r.desc \in D
    BY <1>2, <1>4 DEF Own, Owned
  <2>2. \A s, p \in Q : s.start = p.start \/ s.desc = p.desc => s = p
    BY <1>1
  <2>. HIDE DEF P, A, D, Q
  <2>3. /\ Used(c, d) = P \cup (A \ {r.start}) \cup (D \ {r.desc}) \cup S
        /\ P \cap ((A \ {r.start}) \cup (D \ {r.desc}) \cup S) = {}
        /\ (A \ {r.start}) \cap ((D \ {r.desc}) \cup S) = {} /\ (D \ {r.desc}) \cap S = {}
        /\ P \cap {r.start, r.desc} = {}
    BY <2>1
  <2>. QED  BY <2>1, <2>2, <2>3 DEF Owned, P
<1>7. \A w \in (Used(h, d) \ {r.start}) \ {r.desc} : Room(c, w) = Room(h, w)
  BY DEF Room
<1>8. Placed(c, Q, L \ {b})
  <2>1. \A x \in Plain(R, L) : Extent(x) \subseteq Room(c, x.ptr)
    <3>1. \A x \in Plain(R, L) : x.ptr # r.start /\ x.ptr # r.desc
      BY <1>6 DEF Ptrs
    <3>. QED  BY <1>7, <3>1, Homes
  <2>2. \A s \in Q : s.start <= s.data /\ Span(s) \subseteq Room(c, s.start)
    <3>1. \A s \in Q : s.start # r.start /\ s.start # r.desc
      BY <1>1, <1>2 DEF Starts
    <3>. QED  BY <1>7, <3>1, Homes DEF Own, Placed
  <2>. QED  BY <1>4, <2>1, <2>2 DEF Placed
<1>9. Apart(L \ {b}) /\ \A x \in L \ {b} : x.ptr \in Nat /\ x.len \in Nat \ {0}
  BY DEF Own, Apart
<1>10. /\ \A s \in Q : In(s, L \ {b}) # {} /\ LargeInv(s, In(s, L \ {b})) /\ SmallInv(s, In(s, L \ {b}))
       /\ Q \subseteq Regions
  BY <1>5 DEF Own
<1>. HIDE DEF Q
<1>11. Own(c, d, Q, L \ {b}, S)
  BY <1>6, <1>8, <1>9, <1>10 DEF Own
<1>. QED  BY <1>11 DEF Q

-----------------------------------------------------------------------------
\* The elements of a region.

\* The marks tell where a block begins and how many elements it has.
LEMMA HasUnique ==
  ASSUME NEW r \in Regions, ~Large(r), Count(r) \in Nat, NEW b,
         NEW i \in Nat, NEW n \in Nat, NEW j \in Nat, NEW m \in Nat, Has(r, b, i, n), Has(r, b, j, m)
  PROVE  i = j /\ n = m
<1>. DEFINE a == r.alignment
<1>1. a \in Nat \ {0} /\ r.data \in Nat
  BY Spans DEF Large
<1>. HIDE DEF a
<1>2. i = j
  <2>1. r.data + a * i = r.data + a * j /\ a * i \in Nat /\ a * j \in Nat
    BY <1>1, TimesMono DEF Has, a
  <2>2. a * i = a * j
    BY <1>1, <2>1
  <2>3. (a * i) \div a = i /\ (a * j) \div a = j
    BY <1>1, Exact
  <2>. QED  BY <2>2, <2>3
<1>3. n # 0 /\ m # 0 /\ r.meta[i + n - 1] = 1 /\ r.meta[j + m - 1] = 1
  BY DEF Has
<1>4. ~(n < m)
  <2>1. SUFFICES ASSUME n < m PROVE FALSE
    OBVIOUS
  <2>2. i + n - 1 \in j .. j + m - 2
    BY <1>2, <1>3, <2>1
  <2>. QED  BY <1>3, <2>2 DEF Has
<1>5. ~(m < n)
  <2>1. SUFFICES ASSUME m < n PROVE FALSE
    OBVIOUS
  <2>2. j + m - 1 \in i .. i + n - 2
    BY <1>2, <1>3, <2>1
  <2>. QED  BY <1>3, <2>2 DEF Has
<1>. QED  BY <1>2, <1>4, <1>5

\* A block keeps its elements when others change.
LEMMA HasMoves ==
  ASSUME NEW r, NEW q, q.data = r.data, q.alignment = r.alignment, DOMAIN q.meta = DOMAIN r.meta, NEW b,
         NEW i \in Nat, NEW n \in Nat, Has(r, b, i, n), \A k \in i .. i + n - 1 : q.meta[k] = r.meta[k]
  PROVE  Has(q, b, i, n)
<1>1. Count(q) = Count(r)
  BY DEF Count
<1>2. i + n - 1 \in i .. i + n - 1 /\ \A k \in i .. i + n - 2 : k \in i .. i + n - 1
  BY DEF Has
<1>. QED  BY <1>1, <1>2 DEF Has

\* There are finitely many elements, all of them free or not.
LEMMA ElementsFinite ==
  ASSUME NEW r \in Regions, DOMAIN r.meta = 0 .. Count(r) - 1, Count(r) \in Nat
  PROVE  /\ IsFiniteSet(DOMAIN r.meta) /\ IsFiniteSet(Zeros(r))
         /\ Zeros(r) \subseteq DOMAIN r.meta
         /\ Cardinality(Zeros(r)) = Count(r) <=> Zeros(r) = DOMAIN r.meta
         /\ r.meta \in [DOMAIN r.meta -> 0 .. 2]
<1>1. IsFiniteSet(DOMAIN r.meta)
  BY FS_Interval
<1>2. Zeros(r) \in SUBSET (DOMAIN r.meta)
  BY DEF Zeros
<1>3. /\ IsFiniteSet(Zeros(r))
      /\ Cardinality(DOMAIN r.meta) = Cardinality(Zeros(r)) => Zeros(r) = DOMAIN r.meta
  BY <1>1, <1>2, FS_Subset
<1>4. PICK n \in Nat : r.meta \in [0 .. n - 1 -> 0 .. 2]
  BY DEF Regions, Metas
<1>. QED  BY <1>1, <1>2, <1>3, <1>4 DEF Count

\* What reserving and releasing elements leaves of a region.
SameShape(q, r, f, m) ==
  /\ q \in Regions /\ q.meta = m /\ q.free = f
  /\ q.start = r.start /\ q.desc = r.desc /\ q.data = r.data /\ q.size = r.size
  /\ q.alignment = r.alignment /\ (Large(q) <=> Large(r))

\* A change of the marks and of their count is no other change.
LEMMA ShapeIs ==
  ASSUME NEW r \in Regions, NEW m \in Metas, NEW f \in Nat, NEW q, q = [r EXCEPT !.free = f, !.meta = m]
  PROVE  SameShape(q, r, f, m)
<1>1. q \in Regions
  BY DEF Regions
<1>2. /\ q.meta = m /\ q.free = f /\ q.start = r.start /\ q.desc = r.desc /\ q.data = r.data
      /\ q.size = r.size /\ q.alignment = r.alignment
  BY DEF Regions
<1>. QED  BY <1>1, <1>2 DEF Large, SameShape

Reserved(r, i, n) ==
  [k \in DOMAIN r.meta |-> IF k \in i .. i + n - 2 THEN 2 ELSE IF k = i + n - 1 THEN 1 ELSE r.meta[k]]

\* Reserve() changes the marks of one run.
LEMMA ReserveIs ==
  ASSUME NEW r \in Regions, NEW i \in Nat, NEW n \in Nat, Count(r) \in Nat, DOMAIN r.meta = 0 .. Count(r) - 1,
         n <= r.free
  PROVE  SameShape(Reserve(r, i, n), r, r.free - n, Reserved(r, i, n))
<1>. DEFINE q == Reserve(r, i, n)
<1>1. r.meta \in [DOMAIN r.meta -> 0 .. 2] /\ r.free - n \in Nat
  BY ElementsFinite, Spans
<1>2. Reserved(r, i, n) \in [0 .. Count(r) - 1 -> 0 .. 2]
  BY <1>1 DEF Reserved
<1>3. Reserved(r, i, n) \in Metas
  BY <1>2 DEF Metas
<1>4. q = [r EXCEPT !.free = r.free - n, !.meta = Reserved(r, i, n)]
  BY DEF Reserve, Reserved
<1>. HIDE DEF q
<1>5. SameShape(q, r, r.free - n, Reserved(r, i, n))
  BY <1>1, <1>3, <1>4, ShapeIs
<1>. QED  BY <1>5 DEF q


\* A region like "r" that now holds the blocks B.
SmallAfter(q, r, B) ==
  /\ q \in Regions /\ ~Large(q) /\ SmallInv(q, B)
  /\ q.start = r.start /\ q.desc = r.desc /\ q.data = r.data /\ q.size = r.size

\* A block more: the marks and the count of free elements stay right.
LEMMA SmallReserve ==
  ASSUME NEW r \in Regions, ~Large(r), NEW B, SmallInv(r, B),
         NEW n \in Nat \ {0}, NEW i \in Runs(r, n),
         NEW b, b.ptr = r.data + r.alignment * i, b.len \in Nat \ {0}, b.len <= r.alignment * n
  PROVE  /\ SmallAfter(Reserve(r, i, n), r, B \cup {b})
         /\ \A c \in B : c.ptr \in Nat /\ c.len \in Nat => Extent(c) \cap Extent(b) = {}
<1>. DEFINE q == Reserve(r, i, n)  run == i .. i + n - 1
<1>1. /\ DOMAIN r.meta = 0 .. Count(r) - 1 /\ Count(r) \in Nat \ {0} /\ r.free = Cardinality(Zeros(r))
      /\ r.data % r.alignment = 0 /\ r.size = r.alignment * Count(r)
  BY DEF SmallInv
<1>2. /\ i \in Nat /\ i + n <= Count(r) /\ run \subseteq Zeros(r)
  <2>1. i \in 0 .. Count(r) - n /\ \A k \in run : r.meta[k] = 0
    BY DEF Runs, Count
  <2>. QED  BY <1>1, <2>1 DEF Zeros
<1>3. /\ IsFiniteSet(Zeros(r)) /\ r.meta \in [DOMAIN r.meta -> 0 .. 2]
  BY <1>1, ElementsFinite
<1>4. IsFiniteSet(run) /\ Cardinality(run) = n /\ Cardinality(Zeros(r) \ run) = r.free - n /\ n <= r.free
  <2>1. IsFiniteSet(run) /\ Cardinality(run) = n
    <3>1. i \in Int /\ i + n - 1 \in Int /\ ~(i > i + n - 1) /\ (i + n - 1) - i + 1 = n
      BY <1>2
    <3>. QED  BY <3>1, FS_Interval DEF run
  <2>2. Zeros(r) \cap run = run /\ run \in SUBSET Zeros(r)
    BY <1>2
  <2>. HIDE DEF run
  <2>3. Cardinality(Zeros(r) \ run) = Cardinality(Zeros(r)) - n /\ n <= Cardinality(Zeros(r))
    BY <1>3, <2>1, <2>2, FS_Difference, FS_Subset
  <2>. QED  BY <1>1, <2>1, <2>3
<1>. HIDE DEF run, q
<1>5. /\ q \in Regions /\ q.free = r.free - n /\ DOMAIN q.meta = DOMAIN r.meta
      /\ \A k \in DOMAIN r.meta :
           q.meta[k] = IF k \in i .. i + n - 2 THEN 2 ELSE IF k = i + n - 1 THEN 1 ELSE r.meta[k]
      /\ q.start = r.start /\ q.desc = r.desc /\ q.data = r.data /\ q.size = r.size
      /\ q.alignment = r.alignment /\ ~Large(q)
  <2>1. SameShape(q, r, r.free - n, Reserved(r, i, n))
    BY <1>1, <1>2, <1>4, ReserveIs DEF q
  <2>2. /\ DOMAIN Reserved(r, i, n) = DOMAIN r.meta
        /\ \A k \in DOMAIN r.meta :
             Reserved(r, i, n)[k] = IF k \in i .. i + n - 2 THEN 2 ELSE IF k = i + n - 1 THEN 1 ELSE r.meta[k]
    BY DEF Reserved
  <2>. QED  BY <2>1, <2>2 DEF SameShape
<1>6. /\ \A k \in DOMAIN r.meta \ run : q.meta[k] = r.meta[k]
      /\ \A k \in run : k \in DOMAIN r.meta /\ q.meta[k] = (IF k = i + n - 1 THEN 1 ELSE 2)
  <2>1. \A k \in run : k \in DOMAIN r.meta
    BY <1>2 DEF Zeros
  <2>2. \A k \in Nat : k \in run <=> k \in i .. i + n - 2 \/ k = i + n - 1
    BY <1>2 DEF run
  <2>3. \A k \in Nat : k = i + n - 1 => k \notin i .. i + n - 2
    BY <1>2
  <2>4. DOMAIN r.meta \subseteq Nat
    BY <1>1
  <2>. QED  BY <1>5, <2>1, <2>2, <2>3, <2>4
<1>7. Count(q) = Count(r) /\ Zeros(q) = Zeros(r) \ run
  <2>1. \A k \in run : q.meta[k] # 0
    BY <1>6
  <2>. QED  BY <1>5, <1>6, <2>1 DEF Count, Zeros
<1>8. Has(q, b, i, n)
  <2>1. \A k \in i .. i + n - 2 : k \in run /\ k # i + n - 1
    BY <1>2 DEF run
  <2>2. i + n - 1 \in run
    BY <1>2 DEF run
  <2>. QED  BY <1>1, <1>2, <1>5, <1>6, <1>7, <2>1, <2>2 DEF Has
<1>9. ASSUME NEW c \in B, NEW j \in Nat, NEW m \in Nat, Has(r, c, j, m)
      PROVE  /\ Has(q, c, j, m) /\ (i + n <= j \/ j + m <= i)
             /\ \A k \in j .. j + m - 1 : k \in DOMAIN r.meta \ Zeros(r)
  <2>1. j + m <= Count(r) /\ m # 0
    BY <1>1, <1>9 DEF Has
  <2>2. \A k \in j .. j + m - 1 : k \in DOMAIN r.meta \ Zeros(r)
    <3>1. \A k \in j .. j + m - 1 : k \in DOMAIN r.meta /\ (k \in j .. j + m - 2 \/ k = j + m - 1)
      BY <1>1, <2>1
    <3>. QED  BY <1>9, <3>1 DEF Has, Zeros
  <2>3. \A k \in j .. j + m - 1 : k \notin run
    BY <1>2, <2>2
  <2>4. Has(q, c, j, m)
    BY <1>5, <1>6, <1>9, <2>2, <2>3, HasMoves
  <2>5. i + n <= j \/ j + m <= i
    <3>1. SUFFICES ASSUME j < i + n, i < j + m PROVE FALSE
      BY <1>2
    <3>2. CASE j <= i
      BY <1>2, <2>3, <3>1, <3>2 DEF run
    <3>3. CASE i < j
      BY <1>2, <2>1, <2>3, <3>1, <3>3 DEF run
    <3>. QED  BY <1>2, <3>2, <3>3
  <2>. QED  BY <2>2, <2>4, <2>5
<1>10. ASSUME NEW c \in B, NEW j \in Nat, NEW m \in Nat, Has(q, c, j, m)
       PROVE  Has(r, c, j, m)
  <2>1. PICK j1 \in Nat, m1 \in Nat : Has(r, c, j1, m1)
    BY DEF SmallInv
  <2>2. Has(q, c, j1, m1)
    BY <1>9, <2>1
  <2>3. j = j1 /\ m = m1
    BY <1>1, <1>5, <1>7, <1>10, <2>2, HasUnique
  <2>. QED  BY <2>1, <2>3
<1>11. ASSUME NEW j \in Nat, NEW m \in Nat, Has(q, b, j, m)
       PROVE  j = i /\ m = n
  BY <1>1, <1>2, <1>5, <1>7, <1>8, <1>11, HasUnique
<1>12. \A c \in B \cup {b} : \E j, m \in Nat : Has(q, c, j, m)
  <2>1. \A c \in B : \E j, m \in Nat : Has(r, c, j, m)
    BY DEF SmallInv
  <2>. QED  BY <1>2, <1>8, <1>9, <2>1
<1>13. ASSUME NEW k \in DOMAIN q.meta \ Zeros(q)
       PROVE  \E c \in B \cup {b} : \E j, m \in Nat : Has(q, c, j, m) /\ k \in j .. j + m - 1
  <2>1. CASE k \in run
    BY <1>2, <1>8, <2>1 DEF run
  <2>2. CASE k \notin run
    <3>1. k \in DOMAIN r.meta \ Zeros(r)
      BY <1>5, <1>7, <2>2
    <3>2. PICK c \in B : \E j, m \in Nat : Has(r, c, j, m) /\ k \in j .. j + m - 1
      BY <3>1 DEF SmallInv
    <3>. QED  BY <1>9, <3>2
  <2>. QED  BY <2>1, <2>2
<1>14. ASSUME NEW c \in B \cup {b}, NEW e \in B \cup {b}, NEW j \in Nat, NEW k \in Nat, NEW m \in Nat, NEW l \in Nat,
              c # e, Has(q, c, j, m), Has(q, e, k, l)
       PROVE  j + m <= k \/ k + l <= j
  <2>1. CASE c \in B /\ e \in B
    <3>1. Has(r, c, j, m) /\ Has(r, e, k, l)
      BY <1>10, <1>14, <2>1
    <3>. QED  BY <1>14, <2>1, <3>1 DEF SmallInv
  <2>2. CASE c \in B /\ e = b
    <3>1. Has(r, c, j, m) /\ k = i /\ l = n
      BY <1>10, <1>11, <1>14, <2>2
    <3>. QED  BY <1>9, <2>2, <3>1
  <2>3. CASE c = b /\ e \in B
    <3>1. Has(r, e, k, l) /\ j = i /\ m = n
      BY <1>10, <1>11, <1>14, <2>3
    <3>. QED  BY <1>9, <2>3, <3>1
  <2>. QED  BY <1>14, <2>1, <2>2, <2>3
<1>15. SmallInv(q, B \cup {b})
  BY <1>1, <1>4, <1>5, <1>7, <1>12, <1>13, <1>14 DEF SmallInv
<1>16. ASSUME NEW c \in B, c.ptr \in Nat, c.len \in Nat PROVE Extent(c) \cap Extent(b) = {}
  <2>1. PICK j \in Nat, m \in Nat : Has(r, c, j, m)
    BY DEF SmallInv
  <2>. DEFINE a == r.alignment
  <2>2. a \in Nat /\ r.data \in Nat
    BY Spans
  <2>3. /\ c.ptr = r.data + a * j /\ c.len <= a * m /\ (i + n <= j \/ j + m <= i)
        /\ b.ptr = r.data + a * i /\ b.len <= a * n
    BY <1>9, <2>1 DEF Has
  <2>. HIDE DEF a
  <2>4. /\ a * i \in Nat /\ a * j \in Nat /\ a * n \in Nat /\ a * m \in Nat
        /\ a * (i + n) = a * i + a * n /\ a * (j + m) = a * j + a * m
        /\ i + n <= j => a * (i + n) <= a * j
        /\ j + m <= i => a * (j + m) <= a * i
    BY <1>2, <2>2, TimesMono
  <2>5. b.ptr + b.len <= c.ptr \/ c.ptr + c.len <= b.ptr
    BY <1>16, <2>2, <2>3, <2>4
  <2>6. b.ptr \in Nat
    BY <2>2, <2>3, <2>4
  <2>. QED  BY <1>16, <2>5, <2>6 DEF Extent
<1>17. SmallAfter(q, r, B \cup {b})
  BY <1>5, <1>15 DEF SmallAfter
<1>. QED  BY <1>16, <1>17 DEF q

Released(r, i, n) == [k \in DOMAIN r.meta |-> IF k \in i .. i + n - 1 THEN 0 ELSE r.meta[k]]

\* Release() finds the end of the run that the block has.
LEMMA ReleaseIs ==
  ASSUME NEW r \in Regions, NEW i \in Nat, NEW n \in Nat, Count(r) \in Nat, DOMAIN r.meta = 0 .. Count(r) - 1,
         NEW b, Has(r, b, i, n)
  PROVE  SameShape(Release(r, i), r, r.free + n, Released(r, i, n))
<1>. DEFINE q == Release(r, i)
            P(j) == i <= j /\ r.meta[j] # 2 /\ \A k \in i .. j - 1 : r.meta[k] = 2
            last == CHOOSE j \in DOMAIN r.meta : P(j)
            e == i + n - 1
<1>1. /\ e \in DOMAIN r.meta /\ i <= e /\ r.meta[e] = 1 /\ \A k \in i .. e - 1 : r.meta[k] = 2
      /\ DOMAIN r.meta \subseteq Nat /\ e \in Nat
  <2>1. i + n <= Count(r) /\ n # 0
    BY DEF Has
  <2>2. \A k \in i .. e - 1 : k \in i .. i + n - 2
    BY <2>1
  <2>. QED  BY <2>1, <2>2 DEF Has
<1>. HIDE DEF e
<1>2. ASSUME NEW j \in DOMAIN r.meta, P(j) PROVE j = e
  <2>1. ~(j < e)
    BY <1>1, <1>2
  <2>2. ~(e < j)
    <3>1. SUFFICES ASSUME e < j PROVE FALSE
      OBVIOUS
    <3>2. e \in i .. j - 1
      BY <1>1, <3>1
    <3>. QED  BY <1>1, <1>2, <3>2
  <2>. QED  BY <1>1, <2>1, <2>2
<1>3. last = e
  <2>1. P(e)
    BY <1>1
  <2>. HIDE DEF P
  <2>. QED  BY <1>1, <1>2, <2>1
<1>4. q = [r EXCEPT !.free = r.free + last - i + 1,
                    !.meta = [k \in DOMAIN r.meta |-> IF k \in i .. last THEN 0 ELSE r.meta[k]]]
  BY DEF Release
<1>. HIDE DEF last, q
<1>5. r.free + last - i + 1 = r.free + n /\ i .. last = i .. i + n - 1 /\ r.free + n \in Nat
  BY <1>1, <1>3, Spans DEF e
<1>6. Released(r, i, n) \in Metas
  <2>1. r.meta \in [DOMAIN r.meta -> 0 .. 2]
    BY ElementsFinite
  <2>2. Released(r, i, n) \in [0 .. Count(r) - 1 -> 0 .. 2]
    BY <2>1 DEF Released
  <2>. QED  BY <2>2 DEF Metas
<1>7. q = [r EXCEPT !.free = r.free + n, !.meta = Released(r, i, n)]
  BY <1>4, <1>5 DEF Released
<1>8. SameShape(q, r, r.free + n, Released(r, i, n))
  BY <1>5, <1>6, <1>7, ShapeIs
<1>. QED  BY <1>8 DEF q

\* A block fewer: they stay right, and the region is unused after its last.
LEMMA SmallRelease ==
  ASSUME NEW r \in Regions, ~Large(r), NEW B, SmallInv(r, B), NEW b \in B
  PROVE  LET q == Release(r, (b.ptr - r.data) \div r.alignment)
         IN  SmallAfter(q, r, B \ {b}) /\ (Unused(q) <=> B = {b})
<1>. DEFINE q == Release(r, (b.ptr - r.data) \div r.alignment)
<1>1. /\ DOMAIN r.meta = 0 .. Count(r) - 1 /\ Count(r) \in Nat \ {0} /\ r.free = Cardinality(Zeros(r))
      /\ r.data % r.alignment = 0 /\ r.size = r.alignment * Count(r)
      /\ r.alignment \in Nat \ {0} /\ r.data \in Nat
  BY Spans DEF SmallInv, Large
<1>2. PICK i \in Nat, n \in Nat : Has(r, b, i, n)
  BY DEF SmallInv
<1>. DEFINE run == i .. i + n - 1
<1>3. q = Release(r, i)
  <2>1. r.alignment * i \in Nat /\ (r.alignment * i) \div r.alignment = i
    BY <1>1, TimesMono, Exact
  <2>2. b.ptr - r.data = r.alignment * i
    BY <1>1, <1>2, <2>1 DEF Has
  <2>. QED  BY <2>1, <2>2
<1>. HIDE DEF q
<1>4. /\ q \in Regions /\ q.free = r.free + n /\ DOMAIN q.meta = DOMAIN r.meta
      /\ \A k \in DOMAIN r.meta : q.meta[k] = IF k \in run THEN 0 ELSE r.meta[k]
      /\ q.start = r.start /\ q.desc = r.desc /\ q.data = r.data /\ q.size = r.size
      /\ q.alignment = r.alignment /\ ~Large(q) /\ Count(q) = Count(r)
  <2>1. SameShape(q, r, r.free + n, Released(r, i, n))
    BY <1>1, <1>2, <1>3, ReleaseIs
  <2>2. /\ DOMAIN Released(r, i, n) = DOMAIN r.meta
        /\ \A k \in DOMAIN r.meta : Released(r, i, n)[k] = IF k \in run THEN 0 ELSE r.meta[k]
    BY DEF Released
  <2>. QED  BY <2>1, <2>2 DEF SameShape, Count
<1>5. i + n <= Count(r) /\ n # 0 /\ run \subseteq DOMAIN r.meta /\ \A k \in run : r.meta[k] # 0
  <2>1. i + n <= Count(r) /\ n # 0
    BY <1>1, <1>2 DEF Has
  <2>2. ASSUME NEW k \in run PROVE k \in DOMAIN r.meta /\ r.meta[k] # 0
    <3>1. k \in 0 .. Count(r) - 1 /\ (k \in i .. i + n - 2 \/ k = i + n - 1)
      BY <1>1, <2>1
    <3>2. k \in i .. i + n - 2 => r.meta[k] = 2
      BY <1>2 DEF Has
    <3>3. r.meta[i + n - 1] = 1
      BY <1>2 DEF Has
    <3>. QED  BY <1>1, <3>1, <3>2, <3>3
  <2>. QED  BY <2>1, <2>2
<1>6. IsFiniteSet(run) /\ Cardinality(run) = n
  <2>1. i \in Int /\ i + n - 1 \in Int /\ ~(i > i + n - 1) /\ (i + n - 1) - i + 1 = n
    BY <1>5
  <2>. QED  BY <2>1, FS_Interval
<1>. HIDE DEF run
<1>7. Zeros(q) = Zeros(r) \cup run /\ Zeros(r) \cap run = {}
  BY <1>4, <1>5 DEF Zeros
<1>8. q.free = Cardinality(Zeros(q))
  <2>1. IsFiniteSet(Zeros(r)) /\ Cardinality({}) = 0
    BY <1>1, ElementsFinite, FS_EmptySet
  <2>2. Cardinality(Zeros(q)) = Cardinality(Zeros(r)) + n - 0
    BY <1>6, <1>7, <2>1, FS_Union
  <2>3. r.free \in Nat
    BY Spans
  <2>. QED  BY <1>1, <1>4, <2>2, <2>3
<1>9. ASSUME NEW c \in B \ {b}, NEW j \in Nat, NEW m \in Nat, Has(r, c, j, m)
      PROVE  Has(q, c, j, m) /\ j + m - 1 \in DOMAIN r.meta \ Zeros(q)
  <2>1. (i + n <= j \/ j + m <= i) /\ m # 0 /\ j + m <= Count(r)
    <3>1. i + n <= j \/ j + m <= i
      BY <1>2, <1>9 DEF SmallInv
    <3>2. m # 0 /\ j + m <= Count(r)
      BY <1>1, <1>9 DEF Has
    <3>. QED  BY <3>1, <3>2
  <2>2. \A k \in j .. j + m - 1 : k \notin run /\ k \in DOMAIN r.meta
    BY <1>1, <1>5, <2>1 DEF run
  <2>3. Has(q, c, j, m)
    BY <1>4, <1>9, <2>2, HasMoves
  <2>4. j + m - 1 \in j .. j + m - 1
    BY <2>1
  <2>. QED  BY <1>4, <2>2, <2>3, <2>4 DEF Has, Zeros
<1>10. ASSUME NEW c \in B \ {b}, NEW j \in Nat, NEW m \in Nat, Has(q, c, j, m)
       PROVE  Has(r, c, j, m)
  <2>1. PICK j1 \in Nat, m1 \in Nat : Has(r, c, j1, m1)
    BY DEF SmallInv
  <2>2. Has(q, c, j1, m1)
    BY <1>9, <2>1
  <2>3. j = j1 /\ m = m1
    BY <1>1, <1>4, <1>10, <2>2, HasUnique
  <2>. QED  BY <2>1, <2>3
<1>11. ASSUME NEW c \in B \ {b} PROVE \E j, m \in Nat : Has(q, c, j, m)
  <2>1. \E j, m \in Nat : Has(r, c, j, m)
    BY DEF SmallInv
  <2>. QED  BY <1>9, <2>1
<1>12. ASSUME NEW k \in DOMAIN q.meta \ Zeros(q)
       PROVE  \E c \in B \ {b} : \E j, m \in Nat : Has(q, c, j, m) /\ k \in j .. j + m - 1
  <2>1. k \in DOMAIN r.meta \ Zeros(r) /\ k \notin run
    BY <1>4, <1>7
  <2>2. PICK c \in B : \E j, m \in Nat : Has(r, c, j, m) /\ k \in j .. j + m - 1
    BY <2>1 DEF SmallInv
  <2>3. PICK j \in Nat, m \in Nat : Has(r, c, j, m) /\ k \in j .. j + m - 1
    BY <2>2
  <2>4. c # b
    <3>1. SUFFICES ASSUME c = b PROVE FALSE
      OBVIOUS
    <3>2. i = j /\ n = m
      BY <1>1, <1>2, <2>3, <3>1, HasUnique
    <3>. QED  BY <2>1, <2>3, <3>2 DEF run
  <2>. QED  BY <1>9, <2>3, <2>4
<1>13. ASSUME NEW c \in B \ {b}, NEW e \in B \ {b}, NEW j \in Nat, NEW k \in Nat, NEW m \in Nat, NEW l \in Nat,
              c # e, Has(q, c, j, m), Has(q, e, k, l)
       PROVE  j + m <= k \/ k + l <= j
  <2>1. Has(r, c, j, m) /\ Has(r, e, k, l)
    BY <1>10, <1>13
  <2>. QED  BY <1>13, <2>1 DEF SmallInv
<1>14. SmallInv(q, B \ {b})
  BY <1>1, <1>4, <1>8, <1>11, <1>12, <1>13 DEF SmallInv
<1>15. Unused(q) <=> Zeros(q) = DOMAIN q.meta
  <2>1. q.size \div q.alignment = Count(q)
    BY <1>1, <1>4, Exact
  <2>2. Cardinality(Zeros(q)) = Count(q) <=> Zeros(q) = DOMAIN q.meta
    BY <1>1, <1>4, ElementsFinite
  <2>. QED  BY <1>4, <1>8, <2>1, <2>2 DEF Unused
<1>16. Zeros(q) = DOMAIN q.meta <=> B = {b}
  <2>1. ASSUME B = {b} PROVE Zeros(q) = DOMAIN q.meta
    <3>1. \A k \in DOMAIN q.meta : k \in Zeros(q)
      BY <1>12, <2>1
    <3>. QED  BY <3>1 DEF Zeros
  <2>2. ASSUME NEW c \in B \ {b} PROVE Zeros(q) # DOMAIN q.meta
    <3>1. \E j, m \in Nat : Has(r, c, j, m)
      BY DEF SmallInv
    <3>. QED  BY <1>4, <1>9, <3>1
  <2>. QED  BY <2>1, <2>2
<1>17. SmallAfter(q, r, B \ {b})
  BY <1>4, <1>14 DEF SmallAfter
<1>. QED  BY <1>15, <1>16, <1>17 DEF q

-----------------------------------------------------------------------------
\* Lists of regions.

\* The regions of all lists.
LEMMA InAll ==
  ASSUME NEW g, NEW d \in MemoryTypes, Lists(g, d)
  PROVE  /\ \A t \in MemoryTypes : \A k \in DOMAIN g[t] :
              g[t][k] \in All(g) /\ g[t][k] \in Regions /\ k \in 1 .. Len(g[t]) /\ t \in {"heap", d}
         /\ \A r \in All(g) : \E t \in MemoryTypes : \E k \in DOMAIN g[t] : r = g[t][k]
         /\ \A t, u \in MemoryTypes : \A k \in DOMAIN g[t], j \in DOMAIN g[u] :
              g[t][k].start = g[u][j].start => t = u /\ k = j
<1>1. ASSUME NEW t \in MemoryTypes, NEW k \in DOMAIN g[t]
      PROVE  g[t][k] \in All(g) /\ g[t][k] \in Regions /\ k \in 1 .. Len(g[t]) /\ t \in {"heap", d}
  <2>1. g[t] \in Seq(Regions)
    BY DEF Lists
  <2>2. g[t][k] \in Regions /\ k \in 1 .. Len(g[t])
    BY <2>1
  <2>3. t \in {"heap", d}
    BY DEF Lists, MemoryTypes
  <2>. QED  BY <2>2, <2>3 DEF All
<1>2. \A r \in All(g) : \E t \in MemoryTypes : \E k \in DOMAIN g[t] : r = g[t][k]
  BY DEF All
<1>3. ASSUME NEW t \in MemoryTypes, NEW u \in MemoryTypes, NEW k \in DOMAIN g[t], NEW j \in DOMAIN g[u],
             g[t][k].start = g[u][j].start
      PROVE  t = u /\ k = j
  <2>1. g[t][k].start \in Area(t) /\ g[u][j].start \in Area(u)
    BY DEF Lists, ListOf
  <2>2. t = u
    BY <1>3, <2>1, Places DEF MemoryTypes
  <2>. QED  BY <1>3, <2>2 DEF Lists, ListOf
<1>. QED  BY <1>1, <1>2, <1>3

Elems(s) == {s[k] : k \in DOMAIN s}

\* Another list for one type.
Replaced(f, g, t, p) ==
  f \in [MemoryTypes -> Seq(Regions)] /\ f[t] = p /\ \A u \in MemoryTypes : u # t => f[u] = g[u]

\* One list changes.
LEMMA ListChange ==
  ASSUME NEW g, NEW d \in MemoryTypes, Lists(g, d), NEW t \in {"heap", d}, NEW p, ListOf(p, t),
         NEW f, Replaced(f, g, t, p)
  PROVE  /\ Lists(f, d)
         /\ \E Rest : /\ All(g) = Elems(g[t]) \cup Rest /\ All(f) = Elems(p) \cup Rest
                      /\ \A r \in Rest : r.start \notin Area(t)
<1>1. t \in MemoryTypes /\ g \in [MemoryTypes -> Seq(Regions)]
  BY DEF Lists, MemoryTypes
<1>2. /\ f \in [MemoryTypes -> Seq(Regions)] /\ f[t] = p
      /\ \A u \in MemoryTypes : u # t => f[u] = g[u]
  BY DEF Replaced
<1>3. d = "heap" => f["dma"] = <<>>
  BY <1>2 DEF Lists, MemoryTypes
<1>4. Lists(f, d)
  BY <1>2, <1>3 DEF Lists
<1>5. PICK u \in MemoryTypes : u # t /\ MemoryTypes = {t, u}
  BY DEF MemoryTypes
<1>6. \A x : All(x) = Elems(x[t]) \cup Elems(x[u])
  BY <1>5 DEF All, Elems
<1>7. \A r \in Elems(g[u]) : r.start \notin Area(t)
  <2>1. \A k \in DOMAIN g[u] : g[u][k].start \in Area(u)
    BY DEF Lists, ListOf
  <2>. QED  BY <1>5, <2>1, Places DEF Elems, MemoryTypes
<1>. QED  BY <1>2, <1>4, <1>5, <1>6, <1>7

\* A region is put in front.
LEMMA ListPush ==
  ASSUME NEW g, NEW d \in MemoryTypes, Lists(g, d), NEW t \in {"heap", d}, NEW r \in Regions,
         r.start \in Area(t), r.start \notin Starts(All(g)),
         NEW f, f = [g EXCEPT ![t] = <<r>> \o @]
  PROVE  Lists(f, d) /\ All(f) = All(g) \cup {r}
<1>. DEFINE s == g[t]  p == <<r>> \o s
<1>1. t \in MemoryTypes /\ s \in Seq(Regions)
  BY DEF Lists, MemoryTypes
<1>2. /\ p \in Seq(Regions) /\ DOMAIN p = 1 .. Len(s) + 1 /\ p[1] = r
      /\ \A k \in 2 .. Len(s) + 1 : p[k] = s[k - 1] /\ k - 1 \in DOMAIN s
      /\ DOMAIN s = 1 .. Len(s) /\ Len(s) \in Nat
  BY <1>1
<1>3. /\ f \in [MemoryTypes -> Seq(Regions)] /\ f[t] = p
      /\ \A u \in MemoryTypes : u # t => f[u] = g[u]
  BY <1>1, <1>2 DEF Lists
<1>. HIDE DEF p, s
<1>4. \A k \in DOMAIN p : k \in Nat /\ ((p[k] = r /\ k = 1) \/ (k - 1 \in DOMAIN s /\ p[k] = s[k - 1]))
  BY <1>2
<1>5. /\ 1 \in DOMAIN p
      /\ \A k \in DOMAIN s : k + 1 \in DOMAIN p /\ p[k + 1] = s[k]
  <2>1. ASSUME NEW k \in DOMAIN s PROVE k + 1 \in DOMAIN p /\ p[k + 1] = s[k]
    <3>1. k + 1 \in 2 .. Len(s) + 1 /\ (k + 1) - 1 = k
      BY <1>2
    <3>. QED  BY <1>2, <3>1
  <2>. QED  BY <1>2, <2>1
<1>6. \A k \in DOMAIN s : s[k].start # r.start /\ s[k].start \in Area(t)
  <2>1. \A k \in DOMAIN s : s[k] \in All(g)
    BY <1>1, InAll DEF s
  <2>. QED  BY <1>1, <2>1 DEF Starts, Lists, ListOf, s
<1>7. ASSUME NEW k \in DOMAIN p
      PROVE  p[k].start \in Area(t) /\ \A j \in DOMAIN p : p[j].start = p[k].start => j = k
  <2>1. p[k].start \in Area(t)
    BY <1>4, <1>6
  <2>2. ASSUME NEW j \in DOMAIN p, p[j].start = p[k].start PROVE j = k
    <3>1. \A i, l \in DOMAIN s : s[i].start = s[l].start => i = l
      BY <1>1 DEF Lists, ListOf, s
    <3>. QED  BY <1>4, <1>6, <2>2, <3>1
  <2>. QED  BY <2>1, <2>2
<1>a. ListOf(p, t)
  BY <1>7 DEF ListOf
<1>b. Replaced(f, g, t, p)
  BY <1>3 DEF Replaced
<1>8. Elems(p) = Elems(s) \cup {r}
  BY <1>2, <1>4, <1>5 DEF Elems
<1>9. PICK Rest : All(g) = Elems(g[t]) \cup Rest /\ All(f) = Elems(p) \cup Rest
  BY ONLY <1>a, <1>b, ListChange, Lists(g, d), d \in MemoryTypes, t \in {"heap", d}
<1>10. Lists(f, d)
  BY ONLY <1>a, <1>b, ListChange, Lists(g, d), d \in MemoryTypes, t \in {"heap", d}
<1>. QED  BY <1>8, <1>9, <1>10 DEF s

PutAt(f, g, t, k, q) == f = [g EXCEPT ![t][k] = q]

\* A region is replaced in its place.
LEMMA ListPut ==
  ASSUME NEW g, NEW d \in MemoryTypes, Lists(g, d), NEW t \in {"heap", d}, NEW k \in DOMAIN g[t],
         NEW q \in Regions, q.start = g[t][k].start,
         NEW f, PutAt(f, g, t, k, q)
  PROVE  Lists(f, d) /\ All(f) = (All(g) \ {g[t][k]}) \cup {q}
<1>. DEFINE s == g[t]  p == [s EXCEPT ![k] = q]
<1>1. t \in MemoryTypes /\ s \in Seq(Regions) /\ g \in [MemoryTypes -> Seq(Regions)]
  BY DEF Lists, MemoryTypes
<1>2. /\ p \in Seq(Regions) /\ DOMAIN p = DOMAIN s /\ p[k] = q
      /\ \A j \in DOMAIN s : j # k => p[j] = s[j]
  BY <1>1
<1>3. /\ f \in [MemoryTypes -> Seq(Regions)] /\ f[t] = p
      /\ \A u \in MemoryTypes : u # t => f[u] = g[u]
  BY <1>1, <1>2 DEF PutAt
<1>. HIDE DEF p
<1>4. /\ \A j, i \in DOMAIN s : s[i].start = s[j].start => i = j
      /\ \A j \in DOMAIN s : s[j].start \in Area(t)
  BY <1>1 DEF Lists, ListOf
<1>5. \A j \in DOMAIN p : p[j].start = s[j].start
  BY <1>2
<1>6. ListOf(p, t)
  BY <1>2, <1>4, <1>5 DEF ListOf
<1>b. Replaced(f, g, t, p)
  BY <1>3 DEF Replaced
<1>. HIDE DEF s
<1>7. PICK Rest : /\ All(g) = Elems(g[t]) \cup Rest /\ All(f) = Elems(p) \cup Rest
                  /\ \A r \in Rest : r.start \notin Area(t)
  BY <1>6, <1>b, ListChange
<1>8. Elems(p) = (Elems(s) \ {s[k]}) \cup {q} /\ s[k] \notin Rest
  <2>1. k \in DOMAIN s
    BY DEF s
  <2>2. \A j \in DOMAIN s : s[j] = s[k] => j = k
    BY <1>4, <2>1
  <2>. QED  BY <1>2, <1>4, <1>7, <2>1, <2>2 DEF Elems
<1>9. Lists(f, d)
  BY <1>6, <1>b, ListChange
<1>10. All(f) = (All(g) \ {s[k]}) \cup {q}
  BY <1>7, <1>8 DEF s
<1>. QED  BY <1>9, <1>10 DEF s

DropAt(f, g, t, k) == f = [g EXCEPT ![t] = SubSeq(g[t], 1, k - 1) \o SubSeq(g[t], k + 1, Len(g[t]))]

\* A region is taken out.
LEMMA ListDrop ==
  ASSUME NEW g, NEW d \in MemoryTypes, Lists(g, d), NEW t \in {"heap", d}, NEW k \in DOMAIN g[t],
         NEW f, DropAt(f, g, t, k)
  PROVE  Lists(f, d) /\ All(f) = All(g) \ {g[t][k]}
<1>. DEFINE s == g[t]  a == SubSeq(s, 1, k - 1)  b == SubSeq(s, k + 1, Len(s))  p == a \o b
            From(j) == IF j < k THEN j ELSE j + 1
<1>1. /\ t \in MemoryTypes /\ s \in Seq(Regions) /\ k \in 1 .. Len(s) /\ Len(s) \in Nat
      /\ DOMAIN s = 1 .. Len(s) /\ \A j \in 1 .. Len(s) : s[j] \in Regions
  BY DEF Lists, MemoryTypes
<1>2. /\ f[t] = p /\ DOMAIN f = MemoryTypes /\ f = [u \in MemoryTypes |-> f[u]]
      /\ \A u \in MemoryTypes : u # t => f[u] = g[u] /\ g[u] \in Seq(Regions)
  BY <1>1 DEF Lists, DropAt
<1>3. /\ a \in Seq(Regions) /\ Len(a) = k - 1 /\ \A j \in 1 .. k - 1 : a[j] = s[j]
      /\ b \in Seq(Regions) /\ Len(b) = Len(s) - k /\ \A j \in 1 .. Len(s) - k : b[j] = s[k + j]
  <2>. HIDE DEF s
  <2>1. /\ \A j \in 1 .. k - 1 : s[j] \in Regions
        /\ \A j \in k + 1 .. Len(s) : s[j] \in Regions
        /\ 1 \in Int /\ k - 1 \in Int /\ k + 1 \in Int /\ Len(s) \in Int
    BY <1>1
  <2>2. /\ a \in Seq(Regions) /\ Len(a) = IF 1 <= k - 1 THEN (k - 1) - 1 + 1 ELSE 0
        /\ \A j \in 1 .. (k - 1) - 1 + 1 : a[j] = s[1 + j - 1]
    BY <2>1, SubSeqProperties
  <2>3. /\ b \in Seq(Regions) /\ Len(b) = IF k + 1 <= Len(s) THEN Len(s) - (k + 1) + 1 ELSE 0
        /\ \A j \in 1 .. Len(s) - (k + 1) + 1 : b[j] = s[k + 1 + j - 1]
    BY <2>1, SubSeqProperties
  <2>. HIDE DEF a, b
  <2>4. Len(a) = k - 1 /\ Len(b) = Len(s) - k
    BY <1>1, <2>2, <2>3
  <2>5. ASSUME NEW j \in 1 .. k - 1 PROVE a[j] = s[j]
    <3>1. j \in 1 .. (k - 1) - 1 + 1 /\ 1 + j - 1 = j
      BY <1>1
    <3>. QED  BY <2>2, <3>1
  <2>6. ASSUME NEW j \in 1 .. Len(s) - k PROVE b[j] = s[k + j]
    <3>1. j \in 1 .. Len(s) - (k + 1) + 1 /\ k + 1 + j - 1 = k + j
      BY <1>1
    <3>. QED  BY <2>3, <3>1
  <2>. QED  BY <2>2, <2>3, <2>4, <2>5, <2>6
<1>. HIDE DEF s, a, b
<1>4. /\ p \in Seq(Regions) /\ DOMAIN p = 1 .. Len(s) - 1
      /\ \A j \in 1 .. Len(s) - 1 : p[j] = IF j <= k - 1 THEN a[j] ELSE b[j - (k - 1)]
  <2>1. /\ p \in Seq(Regions) /\ Len(p) = (k - 1) + (Len(s) - k)
        /\ \A j \in 1 .. (k - 1) + (Len(s) - k) : p[j] = IF j <= k - 1 THEN a[j] ELSE b[j - (k - 1)]
    <3>1. /\ a \o b \in Seq(Regions) /\ Len(a \o b) = Len(a) + Len(b)
          /\ \A j \in 1 .. Len(a) + Len(b) : (a \o b)[j] = IF j <= Len(a) THEN a[j] ELSE b[j - Len(a)]
      BY <1>3, ConcatProperties
    <3>2. Len(a) = k - 1 /\ Len(b) = Len(s) - k /\ p = a \o b
      BY <1>3
    <3>. HIDE DEF p
    <3>. QED  BY <3>1, <3>2
  <2>2. (k - 1) + (Len(s) - k) = Len(s) - 1
    BY <1>1
  <2>. HIDE DEF p
  <2>3. DOMAIN p = 1 .. Len(p)
    BY <2>1
  <2>. QED  BY <2>1, <2>2, <2>3
<1>. HIDE DEF p
<1>5. \A j \in DOMAIN p : p[j] = s[From(j)]
  <2>1. ASSUME NEW j \in DOMAIN p PROVE p[j] = s[From(j)]
    <3>1. CASE j < k
      <4>1. j \in 1 .. k - 1 /\ j <= k - 1
        BY <1>1, <1>4, <3>1
      <4>2. p[j] = a[j] /\ a[j] = s[j]
        BY <1>3, <1>4, <4>1
      <4>. QED  BY <3>1, <4>2
    <3>2. CASE ~(j < k)
      <4>1. j - (k - 1) \in 1 .. Len(s) - k /\ k + (j - (k - 1)) = j + 1 /\ ~(j <= k - 1)
        BY <1>1, <1>4, <3>2
      <4>2. p[j] = b[j - (k - 1)] /\ b[j - (k - 1)] = s[k + (j - (k - 1))]
        BY <1>3, <1>4, <4>1
      <4>. QED  BY <3>2, <4>1, <4>2
    <3>. QED  BY <3>1, <3>2
  <2>. QED  BY <2>1
<1>6. /\ \A j \in DOMAIN p : From(j) \in DOMAIN s /\ From(j) # k
      /\ \A i, j \in DOMAIN p : From(i) = From(j) => i = j
      /\ \A i \in DOMAIN s : i # k => \E j \in DOMAIN p : i = From(j)
  <2>1. ASSUME NEW j \in DOMAIN p PROVE From(j) \in DOMAIN s /\ From(j) # k
    BY <1>1, <1>4
  <2>2. ASSUME NEW i \in DOMAIN p, NEW j \in DOMAIN p, From(i) = From(j) PROVE i = j
    BY <1>1, <1>4, <2>2
  <2>3. ASSUME NEW i \in DOMAIN s, i # k PROVE \E j \in DOMAIN p : i = From(j)
    <3>1. CASE i < k
      <4>1. i \in DOMAIN p /\ i = From(i)
        BY <1>1, <1>4, <3>1
      <4>. QED  BY <4>1
    <3>2. CASE ~(i < k)
      <4>1. i - 1 \in DOMAIN p /\ ~(i - 1 < k) /\ (i - 1) + 1 = i
        BY <1>1, <1>4, <2>3, <3>2
      <4>. QED  BY <4>1
    <3>. QED  BY <3>1, <3>2
  <2>. QED  BY <2>1, <2>2, <2>3
<1>. HIDE DEF From
<1>7. /\ \A i, j \in DOMAIN s : s[i].start = s[j].start => i = j
      /\ \A j \in DOMAIN s : s[j].start \in Area(t)
  BY <1>1 DEF Lists, ListOf, s
<1>8. ListOf(p, t)
  BY <1>5, <1>6, <1>7 DEF ListOf
<1>b. Replaced(f, g, t, p)
  BY <1>2, <1>4 DEF Replaced
<1>9. PICK Rest : /\ All(g) = Elems(g[t]) \cup Rest /\ All(f) = Elems(p) \cup Rest
                  /\ \A r \in Rest : r.start \notin Area(t)
  BY ONLY <1>8, <1>b, ListChange, Lists(g, d), d \in MemoryTypes, t \in {"heap", d}
<1>10. Elems(p) = Elems(s) \ {s[k]} /\ s[k] \notin Rest
  <2>1. k \in DOMAIN s
    BY DEF s
  <2>2. \A j \in DOMAIN s : s[j] = s[k] => j = k
    BY <1>7, <2>1
  <2>3. s[k] \notin Rest
    BY <1>7, <1>9, <2>1
  <2>4. ASSUME NEW x \in Elems(p) PROVE x \in Elems(s) \ {s[k]}
    <3>1. PICK j \in DOMAIN p : x = p[j]
      BY DEF Elems
    <3>. QED  BY <1>5, <1>6, <2>2, <3>1 DEF Elems
  <2>5. ASSUME NEW x \in Elems(s), x # s[k] PROVE x \in Elems(p)
    <3>1. PICK i \in DOMAIN s : x = s[i]
      BY DEF Elems
    <3>2. PICK j \in DOMAIN p : i = From(j)
      BY <1>6, <2>5, <3>1
    <3>. QED  BY <1>5, <3>1, <3>2 DEF Elems
  <2>. QED  BY <2>3, <2>4, <2>5
<1>11. Lists(f, d)
  BY ONLY <1>8, <1>b, ListChange, Lists(g, d), d \in MemoryTypes, t \in {"heap", d}
<1>12. All(f) = All(g) \ {s[k]}
  BY <1>9, <1>10 DEF s
<1>. QED  BY <1>11, <1>12 DEF s

-----------------------------------------------------------------------------
\* The calls, for the callers' blocks.

\* Every block and every region lies in the memory of a type.
LEMMA OwnMemory ==
  ASSUME NEW h, NEW d, NEW R, NEW L, NEW S, Own(h, d, R, L, S)
  PROVE  /\ \A b \in L : /\ b.ptr \in Area("heap") \cup Area("dma")
                         /\ Extent(b) \subseteq Area("heap") \cup Area("dma")
         /\ \A r \in R : \A t \in MemoryTypes :
              r.start \in Area(t) => r.start .. r.data + r.size - 1 \subseteq Area(t) /\ t \in {"heap", d}
<1>1. d \in MemoryTypes /\ Sound(h, d)
  BY DEF Own
<1>2. ASSUME NEW b \in L PROVE b.ptr \in Extent(b) /\ Extent(b) \subseteq Area("heap") \cup Area("dma")
  <2>1. PICK u \in Used(h, d) : Extent(b) \subseteq Room(h, u)
    BY Homes
  <2>2. Room(h, u) \subseteq Area("heap") \cup Area("dma")
    BY <1>1, UsedFacts DEF MemoryTypes
  <2>3. b.ptr \in Extent(b)
    BY Extents DEF Own
  <2>. QED  BY <2>1, <2>2, <2>3
<1>3. ASSUME NEW r \in R, NEW t \in MemoryTypes, r.start \in Area(t)
      PROVE  r.start .. r.data + r.size - 1 \subseteq Area(t) /\ t \in {"heap", d}
  <2>1. /\ r.start \in Used(h, d) /\ Span(r) \subseteq Room(h, r.start) /\ r.start <= r.data
        /\ r.start \in Nat /\ r.data \in Nat /\ r.size \in Nat
    BY Homes, Spans DEF Own, Placed
  <2>2. PICK u \in {"heap", d} :
          r.start \in Area(u) /\ SizeAt(h, r.start) \in Nat /\ Room(h, r.start) \subseteq Area(u)
    BY <1>1, <2>1, UsedFacts
  <2>3. u = t
    BY <1>1, <1>3, <2>2, Places DEF MemoryTypes
  <2>4. r.data + r.size - 1 \in Span(r)
    <3>1. PICK b \in In(r, L) : Extent(b) \subseteq Span(r) /\ b \in L
      BY Homes DEF Own
    <3>2. b.ptr \in Span(r)
      BY <3>1, Extents DEF Own
    <3>. QED  BY <2>1, <3>2 DEF Span
  <2>5. r.start .. r.data + r.size - 1 \subseteq Room(h, r.start)
    <3>1. r.data + r.size - 1 \in Room(h, r.start)
      BY <2>1, <2>4
    <3>. QED  BY <2>1, <2>2, <3>1 DEF Room
  <2>. QED  BY <2>2, <2>3, <2>5
<1>. QED  BY <1>2, <1>3

\* The same lists, first elements and structure, with other headers and blocks.
LEMMA AccountedSame ==
  ASSUME NEW h, NEW d, NEW dp, NEW fs, NEW g, NEW L, Accounted(h, d, dp, fs, g, L),
         NEW c, Sound(c, d), OnGrid(c), Used(c, d) = Used(h, d),
         \A w \in Used(h, d) : SizeAt(c, w) = SizeAt(h, w)
  PROVE  Accounted(c, d, dp, fs, g, L)
<1>1. Own(h, d, All(g), L, Special(dp, fs)) /\ d \in MemoryTypes
  BY DEF Accounted, Own
<1>2. Own(c, d, All(g), L, Special(dp, fs))
  BY <1>1, OwnSame
<1>. QED  BY <1>2 DEF Accounted

\* What a caller sees of a step.
Fresh(b) ==
  /\ b.align \in Aligns \cup {HdrSize} /\ b.ptr % b.align = 0
  /\ b = [ptr |-> b.ptr, len |-> b.len, align |-> b.align]
  /\ \A x \in live : Extent(x) \cap Extent(b) = {}
  /\ live' = live \cup {b}
CallerSees ==
  live' = live \/ (\E b : Fresh(b)) \/ \E b \in live : live' = live \ {b}

\* malloc() and dma_malloc().
LEMMA MallocOwn ==
  ASSUME OwnInv, NEW t \in {"heap", dma_type}, NEW n \in Lens, Malloc(t, n)
  PROVE  OwnInv' /\ CallerSees
<1>. DEFINE a == Alloc(hdr, t, n)  d == dma_type  S == Special(dma_ptr, first)
            b == [ptr |-> a.ptr, len |-> n, align |-> HdrSize]
<1>1. /\ Own(hdr, d, All(regions), live, S) /\ d \in MemoryTypes /\ Sound(hdr, d) /\ OnGrid(hdr)
      /\ n \in Nat
  BY MallocAssumption DEF OwnInv, Accounted, Own
<1>2. Allocated(hdr, d, t, n, a)
  BY <1>1, AllocFacts
<1>3. /\ hdr' = a.hdr /\ UNCHANGED <<dma_type, dma_ptr, first, regions>>
      /\ IF a.ptr = Null THEN live' = live ELSE live' = live \cup {b}
  BY DEF Malloc, Gives
<1>. HIDE DEF a, S
<1>4. CASE a.ptr = Null
  <2>1. Accounted(a.hdr, d, dma_ptr, first, regions, live)
    BY <1>2, <1>4, AccountedSame DEF Allocated, OwnInv
  <2>. QED  BY <1>3, <1>4, <2>1 DEF OwnInv, CallerSees
<1>5. CASE a.ptr # Null
  <2>1. /\ Sound(a.hdr, d) /\ OnGrid(a.hdr)
        /\ \A w \in Used(hdr, d) : SizeAt(a.hdr, w) = SizeAt(hdr, w)
        /\ a.ptr \notin Used(hdr, d) /\ Used(a.hdr, d) = Used(hdr, d) \cup {a.ptr}
        /\ n <= SizeAt(a.hdr, a.ptr) /\ n \in Nat \ {0} /\ a.ptr % HdrSize = 0
    BY <1>1, <1>2, <1>5 DEF Allocated
  <2>2. b.ptr = a.ptr /\ b.len = n /\ b.align = HdrSize
    OBVIOUS
  <2>3. b = [ptr |-> b.ptr, len |-> b.len, align |-> b.align]
    OBVIOUS
  <2>. HIDE DEF b
  <2>4. /\ Own(a.hdr, d, All(regions), live \cup {b}, S)
        /\ \A x \in live : Extent(x) \cap Extent(b) = {}
    BY <1>1, <2>1, <2>2, OwnGrowPlain
  <2>5. Accounted(a.hdr, d, dma_ptr, first, regions, live \cup {b})
    BY <2>2, <2>4 DEF OwnInv, Accounted, S
  <2>6. Fresh(b)
    BY <1>3, <1>5, <2>1, <2>2, <2>3, <2>4 DEF Fresh
  <2>. QED  BY <1>3, <1>5, <2>5, <2>6 DEF OwnInv, CallerSees
<1>. QED  BY <1>4, <1>5

\* The first element of the list for a type.
LEMMA WithFirstOwn ==
  ASSUME OwnInv, NEW t \in {"heap", dma_type}
  PROVE  LET f == WithFirst(t)
         IN  /\ f.ptr = Null => Accounted(f.hdr, dma_type, dma_ptr, first, regions, live)
             /\ f.ptr # Null => Accounted(f.hdr, dma_type, dma_ptr, [first EXCEPT ![t] = f.ptr], regions, live)
<1>. DEFINE f == WithFirst(t)  d == dma_type  S == Special(dma_ptr, first)
            fs == [first EXCEPT ![t] = f.ptr]
<1>1. /\ Own(hdr, d, All(regions), live, S) /\ d \in MemoryTypes /\ Sound(hdr, d) /\ OnGrid(hdr)
      /\ t \in MemoryTypes /\ RegionSize \in Nat /\ first \in [MemoryTypes -> Nat]
  BY MallocAssumption DEF OwnInv, Accounted, Own, MemoryTypes
<1>2. CASE first[t] # Null
  <2>1. f.hdr = hdr /\ f.ptr = first[t]
    BY <1>2 DEF WithFirst
  <2>. HIDE DEF f
  <2>2. fs = first
    BY <1>1, <2>1
  <2>. HIDE DEF fs
  <2>. QED  BY <1>2, <2>1, <2>2 DEF OwnInv, f, fs
<1>3. CASE first[t] = Null
  <2>1. f = Alloc(hdr, "heap", RegionSize)
    BY <1>3 DEF WithFirst
  <2>. HIDE DEF f
  <2>2. Allocated(hdr, d, "heap", RegionSize, f)
    BY <1>1, <2>1, AllocFacts
  <2>3. CASE f.ptr = Null
    <3>1. Accounted(f.hdr, d, dma_ptr, first, regions, live)
      BY <2>2, <2>3, AccountedSame DEF Allocated, OwnInv
    <3>. QED  BY <2>3, <3>1 DEF f
  <2>4. CASE f.ptr # Null
    <3>1. /\ Sound(f.hdr, d) /\ OnGrid(f.hdr)
          /\ \A w \in Used(hdr, d) : SizeAt(f.hdr, w) = SizeAt(hdr, w)
          /\ f.ptr \notin Used(hdr, d) /\ Used(f.hdr, d) = Used(hdr, d) \cup {f.ptr}
          /\ f.ptr \in Area("heap") /\ f.ptr \in Nat \ {0}
      BY <2>2, <2>4 DEF Allocated
    <3>. HIDE DEF S
    <3>2. Own(f.hdr, d, All(regions), live, S \cup {f.ptr})
      BY <1>1, <3>1, OwnGrowSpecial
    <3>3. fs \in [MemoryTypes -> Nat] /\ Special(dma_ptr, fs) = S \cup {f.ptr}
      <4>1. /\ fs[t] = f.ptr /\ \A u \in MemoryTypes : u # t => fs[u] = first[u]
            /\ fs \in [MemoryTypes -> Nat]
        BY <1>1, <3>1
      <4>. HIDE DEF fs
      <4>. QED  BY <1>1, <1>3, <2>4, <4>1 DEF Special, S
    <3>. HIDE DEF fs
    <3>4. Accounted(f.hdr, d, dma_ptr, fs, regions, live)
      BY <3>1, <3>2, <3>3 DEF OwnInv, Accounted, S
    <3>. QED  BY <2>4, <3>4 DEF f, fs
  <2>. QED  BY <2>3, <2>4
<1>. QED  BY <1>2, <1>3

-----------------------------------------------------------------------------
\* memalign().

\* What allocate_region() makes of two blocks, and the first block in it.
NewRegion(r, align, num, size) ==
  /\ r.start \in Nat /\ r.desc \in Nat
  /\ r = [alignment |-> IF num = 0 THEN 0 ELSE align, size |-> IF num = 0 THEN size ELSE num * align,
          free |-> num, meta |-> [i \in 0 .. num - 1 |-> 0],
          start |-> r.start, data |-> AlignUp(r.start + num, align), desc |-> r.desc]
FirstBlock(q, r, b, align, num) ==
  /\ q \in Regions /\ q.start = r.start /\ q.desc = r.desc /\ q.data = r.data /\ q.size = r.size
  /\ LargeInv(q, {b}) /\ SmallInv(q, {b})
  /\ r.data \in Nat /\ r.size \in Nat
  /\ r.data % align = 0 /\ r.start <= r.data /\ r.data + r.size <= r.start + r.size + align + num

\* A large region holds its block at its start.
LEMMA FreshLarge ==
  ASSUME NEW align \in Nat \ {0}, NEW n \in Nat \ {0}, NEW r, NewRegion(r, align, 0, n),
         NEW b, b.ptr = r.data, b.len = n
  PROVE  FirstBlock(r, r, b, align, 0)
<1>1. /\ r.start \in Nat /\ r.desc \in Nat /\ r.alignment = 0 /\ r.size = n /\ r.free = 0
      /\ r.meta = [i \in 0 .. 0 - 1 |-> 0] /\ r.data = AlignUp(r.start, align)
  BY DEF NewRegion
<1>2. r.data \in Nat /\ r.start <= r.data /\ r.data <= r.start + align - 1 /\ r.data % align = 0
  BY <1>1, AlignUpIs
<1>3. r.meta \in Metas
  <2>1. r.meta \in [0 .. 0 - 1 -> 0 .. 2]
    BY <1>1
  <2>. QED  BY <2>1 DEF Metas
<1>4. r \in Regions
  <2>1. r = [alignment |-> r.alignment, size |-> r.size, free |-> r.free, meta |-> r.meta,
             start |-> r.start, data |-> r.data, desc |-> r.desc]
    BY DEF NewRegion
  <2>. QED  BY <1>1, <1>2, <1>3, <2>1 DEF Regions
<1>5. LargeInv(r, {b}) /\ SmallInv(r, {b})
  BY <1>1 DEF LargeInv, SmallInv, Large
<1>. QED  BY <1>1, <1>2, <1>4, <1>5 DEF FirstBlock

\* Another one holds it in its first elements.
LEMMA FreshSmall ==
  ASSUME NEW align \in Nat \ {0}, NEW n \in Nat \ {0}, NEW num \in Nat \ {0}, n <= align * num,
         NEW r, NewRegion(r, align, num, n), NEW b, b.ptr = r.data, b.len = n
  PROVE  FirstBlock(Reserve(r, 0, Elements(align, n)), r, b, align, num)
<1>. DEFINE e == Elements(align, n)  q == Reserve(r, 0, e)
<1>1. /\ r.start \in Nat /\ r.desc \in Nat /\ r.alignment = align /\ r.size = align * num /\ r.free = num
      /\ r.meta = [i \in 0 .. num - 1 |-> 0] /\ r.data = AlignUp(r.start + num, align)
  BY DEF NewRegion
<1>2. /\ r.data \in Nat /\ r.start + num <= r.data /\ r.data <= r.start + num + align - 1
      /\ r.data % align = 0 /\ align * num \in Nat
  <2>1. r.start + num \in Nat
    BY <1>1
  <2>2. align * num \in Nat
    BY TimesMono
  <2>. QED  BY <1>1, <2>1, <2>2, AlignUpIs
<1>3. /\ DOMAIN r.meta = 0 .. num - 1 /\ Zeros(r) = 0 .. num - 1 /\ \A k \in 0 .. num - 1 : r.meta[k] = 0
      /\ ~Large(r)
  BY <1>1 DEF Zeros, Large
<1>4. Cardinality(0 .. num - 1) = num
  <2>1. num - 1 \in Int /\ 0 \in Int
    OBVIOUS
  <2>2. Cardinality(0 .. num - 1) = IF 0 > num - 1 THEN 0 ELSE num - 1 - 0 + 1
    BY <2>1, FS_Interval
  <2>. QED  BY <2>2
<1>5. Count(r) = num
  BY <1>3, <1>4 DEF Count
<1>6. r \in Regions
  <2>1. r.meta \in [0 .. num - 1 -> 0 .. 2]
    BY <1>1
  <2>2. r.meta \in Metas
    BY <2>1 DEF Metas
  <2>3. r = [alignment |-> r.alignment, size |-> r.size, free |-> r.free, meta |-> r.meta,
             start |-> r.start, data |-> r.data, desc |-> r.desc]
    BY DEF NewRegion
  <2>. QED  BY <1>1, <1>2, <2>2, <2>3 DEF Regions
<1>7. SmallInv(r, {})
  BY <1>1, <1>2, <1>3, <1>4, <1>5 DEF SmallInv
<1>8. e \in Nat \ {0} /\ n <= align * e /\ e <= num
  BY ElementsIs
<1>. HIDE DEF e
<1>9. 0 \in Runs(r, e)
  BY <1>3, <1>5, <1>8 DEF Runs, Count
<1>10. b.ptr = r.data + r.alignment * 0 /\ b.len <= r.alignment * e /\ b.len \in Nat \ {0}
  BY <1>1, <1>2, <1>8
<1>11. SmallAfter(q, r, {} \cup {b})
  BY <1>3, <1>6, <1>7, <1>8, <1>9, <1>10, SmallReserve
<1>. HIDE DEF q
<1>12. SmallInv(q, {b}) /\ LargeInv(q, {b})
  <2>1. {} \cup {b} = {b}
    OBVIOUS
  <2>. QED  BY <1>11, <2>1 DEF LargeInv, SmallAfter
<1>13. r.data + r.size <= r.start + r.size + align + num
  BY <1>1, <1>2
<1>14. FirstBlock(q, r, b, align, num)
  BY <1>1, <1>2, <1>11, <1>12, <1>13 DEF FirstBlock, SmallAfter
<1>. QED  BY <1>14 DEF q, e

\* memalign() without room for the first element of a list.
LEMMA MemalignFailsOwn ==
  ASSUME OwnInv, NEW t \in {"heap", dma_type}, NEW n \in Lens, MemalignFails(t, n)
  PROVE  OwnInv' /\ CallerSees
<1>. DEFINE f == WithFirst(t)
<1>1. /\ f.ptr = Null /\ hdr' = f.hdr
      /\ UNCHANGED <<dma_type, dma_ptr, first, regions, live>>
  BY DEF MemalignFails
<1>2. f.ptr = Null => Accounted(f.hdr, dma_type, dma_ptr, first, regions, live)
  BY WithFirstOwn
<1>. HIDE DEF f
<1>. QED  BY <1>1, <1>2 DEF OwnInv, CallerSees

\* The elements of a new region.
LEMMA NewElements ==
  ASSUME NEW align \in Aligns, NEW n \in Lens, n > 0, n < LargeRequest, align < LargeRequest
  PROVE  LargeRequest \div align \in Nat \ {0} /\ n <= align * (LargeRequest \div align)
<1>. DEFINE num == LargeRequest \div align
<1>1. align \in Nat \ {0} /\ LargeRequest \in Nat \ {0} /\ n \in Nat /\ LargeRequest % align = 0
  BY MallocAssumption
<1>2. num \in Nat /\ LargeRequest = align * num + (LargeRequest % align)
  BY <1>1, Quotient
<1>. HIDE DEF num
<1>3. align * num = LargeRequest
  <2>1. align * num \in Nat
    BY <1>1, <1>2, TimesMono
  <2>. QED  BY <1>1, <1>2, <2>1
<1>4. num # 0
  BY <1>1, <1>3
<1>5. num \in Nat \ {0} /\ n <= align * num
  BY <1>1, <1>2, <1>3, <1>4
<1>. QED  BY <1>5 DEF num

\* memalign() with a new region, or without room for one.
LEMMA MemalignNewOwn ==
  ASSUME OwnInv, NEW t \in {"heap", dma_type}, NEW n \in Lens, NEW align \in Aligns,
         MemalignNew(t, align, n)
  PROVE  OwnInv' /\ CallerSees
<1>. DEFINE f == WithFirst(t)  d == dma_type  fs == [first EXCEPT ![t] = f.ptr]
            large == n >= LargeRequest \/ align >= LargeRequest
            num == IF large THEN 0 ELSE LargeRequest \div align
            new == AllocateRegion(f.hdr, t, align, num, n)
            r == new.region
            q == IF large THEN r ELSE Reserve(r, 0, Elements(align, n))
            b == [ptr |-> r.data, len |-> n, align |-> align]
            S == Special(dma_ptr, fs)
<1>1. /\ n > 0 /\ f.ptr # Null
      /\ hdr' = new.hdr /\ first' = fs /\ UNCHANGED <<dma_type, dma_ptr>>
      /\ IF new.ok THEN regions' = [regions EXCEPT ![t] = <<q>> \o @] /\ live' = live \cup {b}
                   ELSE UNCHANGED <<regions, live>>
  BY DEF MemalignNew, Gives
<1>2. f.ptr # Null => Accounted(f.hdr, d, dma_ptr, fs, regions, live)
  BY WithFirstOwn
<1>3. /\ n \in Nat \ {0} /\ align \in Nat \ {0} /\ LargeRequest \in Nat \ {0}
  BY <1>1, MallocAssumption
<1>4. /\ num \in Nat /\ (large <=> num = 0)
      /\ ~large => num # 0 /\ n <= align * num
  <2>1. ~large => n < LargeRequest /\ align < LargeRequest
    BY <1>3
  <2>2. ~large => LargeRequest \div align \in Nat \ {0} /\ n <= align * (LargeRequest \div align)
    BY <1>1, <2>1, NewElements
  <2>. QED  BY <2>2
<1>. HIDE DEF f, fs, large, num
<1>5. /\ Accounted(f.hdr, d, dma_ptr, fs, regions, live)
      /\ Own(f.hdr, d, All(regions), live, S) /\ d \in MemoryTypes /\ Sound(f.hdr, d) /\ OnGrid(f.hdr)
      /\ Lists(regions, d)
  BY <1>1, <1>2 DEF Accounted, Own
<1>6. Regioned(f.hdr, t, align, num, n, new)
  BY <1>3, <1>4, <1>5, RegionFacts
<1>. HIDE DEF new
<1>7. CASE ~new.ok
  <2>1. Accounted(new.hdr, d, dma_ptr, fs, regions, live)
    BY <1>5, <1>6, <1>7, AccountedSame DEF Regioned
  <2>. QED  BY <1>1, <1>7, <2>1 DEF OwnInv, CallerSees
<1>8. CASE new.ok
  <2>1. /\ Sound(new.hdr, d) /\ OnGrid(new.hdr)
        /\ \A w \in Used(f.hdr, d) : SizeAt(new.hdr, w) = SizeAt(f.hdr, w)
        /\ Used(new.hdr, d) = Used(f.hdr, d) \cup {r.start, r.desc}
        /\ {r.start, r.desc} \cap Used(f.hdr, d) = {} /\ r.start # r.desc
        /\ r.start \in Area(t) /\ r.desc \in Area("heap")
        /\ SizeAt(new.hdr, r.start) \in Nat
    BY <1>6, <1>8 DEF Regioned
  <2>2. NewRegion(r, align, num, n) /\ r.size + align + num <= SizeAt(new.hdr, r.start)
    <3>1. r.size = IF num = 0 THEN n ELSE num * align
      BY <1>6, <1>8 DEF Regioned
    <3>. QED  BY <1>6, <1>8, <3>1 DEF Regioned, NewRegion
  <2>3. b.ptr = r.data /\ b.len = n /\ b.align = align /\ b = [ptr |-> b.ptr, len |-> b.len, align |-> b.align]
    OBVIOUS
  <2>. HIDE DEF r, b
  <2>4. FirstBlock(q, r, b, align, num)
    <3>1. CASE large
      BY <1>3, <1>4, <2>2, <2>3, <3>1, FreshLarge
    <3>2. CASE ~large
      BY <1>3, <1>4, <2>2, <2>3, <3>2, FreshSmall
    <3>. QED  BY <3>1, <3>2
  <2>. HIDE DEF q
  <2>5. /\ q \in Regions /\ q.start = r.start /\ q.desc = r.desc /\ q.data = r.data
        /\ LargeInv(q, {b}) /\ SmallInv(q, {b}) /\ q.start <= q.data /\ b.ptr = q.data
        /\ b.len \in Nat \ {0}
    BY <1>3, <2>3, <2>4 DEF FirstBlock
  <2>6. Span(q) \subseteq Room(new.hdr, q.start)
    <3>1. /\ r.start \in Nat /\ r.data \in Nat /\ r.size \in Nat /\ r.start <= r.data
          /\ r.data + r.size <= r.start + r.size + align + num
          /\ q.data = r.data /\ q.size = r.size /\ q.start = r.start
      BY <2>2, <2>4 DEF FirstBlock, NewRegion
    <3>2. r.data + r.size <= r.start + SizeAt(new.hdr, r.start)
      BY <1>3, <1>4, <2>1, <2>2, <3>1
    <3>. QED  BY <2>1, <3>1, <3>2 DEF Span, Room
  <2>7. /\ Own(new.hdr, d, All(regions) \cup {q}, live \cup {b}, S)
        /\ \A x \in live : Extent(x) \cap Extent(b) = {}
    BY <1>5, <2>1, <2>5, <2>6, OwnNewRegion
  <2>8. q.start \notin Starts(All(regions))
    BY <1>5, <2>1, <2>5, Homes DEF Starts
  <2>9. Lists(regions', d) /\ All(regions') = All(regions) \cup {q}
    BY <1>1, <1>5, <1>8, <2>1, <2>5, <2>8, ListPush
  <2>10. /\ Descs(All(regions')) \cup S \subseteq Area("heap")
         /\ \A x \in live \cup {b} : x.len \in Lens
         /\ fs \in [MemoryTypes -> Nat] /\ dma_ptr \in Nat /\ (d = "heap" => dma_ptr = Null)
    BY <1>5, <2>1, <2>3, <2>5, <2>9 DEF Accounted, Descs
  <2>11. Accounted(new.hdr, d, dma_ptr, fs, regions', live \cup {b})
    BY <2>7, <2>9, <2>10 DEF Accounted
  <2>12. b.ptr % b.align = 0 /\ b.align \in Aligns
    BY <2>3, <2>4 DEF FirstBlock
  <2>13. Fresh(b)
    BY <1>1, <1>8, <2>3, <2>7, <2>12 DEF Fresh
  <2>. QED  BY <1>1, <1>8, <2>11, <2>13 DEF OwnInv, CallerSees
<1>. QED  BY <1>7, <1>8

\* What is inside of a region is apart from what is outside.
LEMMA InsideApart ==
  ASSUME NEW h, NEW d, NEW R, NEW L, NEW S, Own(h, d, R, L, S), NEW r \in R,
         NEW E, E \subseteq Span(r), NEW c \in L, c \notin In(r, L)
  PROVE  Extent(c) \cap E = {}
<1>1. d \in MemoryTypes /\ Sound(h, d) /\ r \in Regions /\ Span(r) \subseteq Nat
  BY Spans DEF Own
<1>2. r.start \in Used(h, d) /\ Span(r) \subseteq Room(h, r.start)
  BY Homes
<1>3. CASE c \in Plain(R, L)
  <2>1. c.ptr \in Used(h, d) /\ Extent(c) \subseteq Room(h, c.ptr)
    BY <1>3, Homes
  <2>2. c.ptr # r.start
    BY <1>3 DEF Own, Owned, Ptrs, Starts
  <2>3. ASSUME NEW x \in Extent(c), x \in E PROVE FALSE
    BY <1>1, <1>2, <2>1, <2>2, <2>3, RoomsApart
  <2>. QED  BY <2>3
<1>4. CASE c \notin Plain(R, L)
  <2>1. PICK q \in R : c \in In(q, L)
    BY <1>4, Homes
  <2>2. q # r /\ Extent(c) \subseteq Span(q)
    BY <2>1, Homes
  <2>3. ASSUME NEW x \in Extent(c), x \in E PROVE FALSE
    BY <2>2, <2>3, Homes
  <2>. QED  BY <2>3
<1>. QED  BY <1>3, <1>4

\* A block more in a region that has elements for it.
Put(h, d, R, L, S, r, q, b) ==
  /\ Own(h, d, (R \ {r}) \cup {q}, L \cup {b}, S)
  /\ q \in Regions /\ q.start = r.start /\ q.desc = r.desc
  /\ \A x \in L : Extent(x) \cap Extent(b) = {}
  /\ b.ptr % r.alignment = 0

\* The accounts stay right.
LEMMA OwnPutBlock ==
  ASSUME NEW h, NEW d, NEW R, NEW L, NEW S, Own(h, d, R, L, S), NEW r \in R, ~Large(r),
         NEW n \in Nat \ {0}, NEW i \in Runs(r, n),
         NEW b, b.ptr = r.data + r.alignment * i, b.len \in Nat \ {0}, b.len <= r.alignment * n
  PROVE  Put(h, d, R, L, S, r, Reserve(r, i, n), b)
<1>. DEFINE q == Reserve(r, i, n)  B == In(r, L)  K == L \cup {b}
<1>1. /\ r \in Regions /\ LargeInv(r, B) /\ SmallInv(r, B) /\ B # {}
      /\ \A x \in L : x.ptr \in Nat /\ x.len \in Nat \ {0}
      /\ Apart(L)
  BY DEF Own
<1>2. /\ r.data \in Nat /\ r.alignment \in Nat \ {0} /\ r.data % r.alignment = 0 /\ i \in Nat
  <2>1. i \in Nat
    <3>1. Count(r) \in Nat /\ i \in 0 .. Count(r) - n
      BY <1>1 DEF Runs, Count, SmallInv
    <3>. QED  BY <3>1
  <2>. QED  BY <1>1, <2>1, Spans DEF Large, SmallInv
<1>3. b.ptr \in Nat /\ b.ptr % r.alignment = 0
  <2>1. r.alignment * i \in Nat /\ (r.alignment * i) % r.alignment = 0
    BY <1>2, TimesMono, Exact
  <2>2. (r.data + r.alignment * i) % r.alignment = 0
    BY <1>2, <2>1, Aligned
  <2>. QED  BY <1>2, <2>1, <2>2
<1>4. /\ SmallAfter(q, r, B \cup {b})
      /\ \A c \in B : c.ptr \in Nat /\ c.len \in Nat => Extent(c) \cap Extent(b) = {}
  BY <1>1, SmallReserve
<1>. HIDE DEF q
<1>5. /\ q \in Regions /\ ~Large(q) /\ SmallInv(q, B \cup {b}) /\ LargeInv(q, B \cup {b})
      /\ q.start = r.start /\ q.desc = r.desc /\ q.data = r.data /\ q.size = r.size
  BY <1>4 DEF SmallAfter, LargeInv
<1>6. Extent(b) \subseteq Span(r) /\ InRegion(r, b.ptr)
  <2>1. Extent(b) \subseteq Span(q)
    <3>. DEFINE C == B \cup {b}
    <3>1. b \in C /\ LargeInv(q, C) /\ SmallInv(q, C)
      BY <1>5
    <3>. HIDE DEF C
    <3>. QED  BY <1>3, <1>5, <3>1, Inside
  <2>2. Extent(b) \subseteq Span(r)
    BY <1>5, <2>1 DEF Span
  <2>3. b.ptr \in Span(r)
    BY <1>3, <2>2, Extents
  <2>. QED  BY <1>1, <1>3, <2>2, <2>3, Spans
<1>7. In(q, K) = B \cup {b} /\ In(r, K) = B \cup {b}
  BY <1>5, <1>6 DEF In, InRegion
<1>8. \A x \in L : Extent(x) \cap Extent(b) = {}
  <2>1. ASSUME NEW x \in L PROVE Extent(x) \cap Extent(b) = {}
    <3>1. CASE x \in B
      BY <1>1, <1>4, <3>1
    <3>2. CASE x \notin B
      BY <1>6, <3>2, InsideApart
    <3>. QED  BY <3>1, <3>2
  <2>. QED  BY <2>1
<1>9. Apart(K)
  BY <1>1, <1>8 DEF Apart
<1>10. K \ In(r, K) = L \ In(r, L)
  BY <1>6, <1>7 DEF In
<1>11. \A x \in K : x.ptr \in Nat /\ x.len \in Nat \ {0}
  BY <1>1, <1>3
<1>12. In(q, K) # {} /\ LargeInv(q, In(q, K)) /\ SmallInv(q, In(q, K))
  BY <1>5, <1>7
<1>13. Own(h, d, (R \ {r}) \cup {q}, K, S)
  <2>. HIDE DEF K
  <2>. QED  BY <1>5, <1>9, <1>10, <1>11, <1>12, OwnInside
<1>14. Put(h, d, R, L, S, r, q, b)
  BY <1>3, <1>5, <1>8, <1>13 DEF Put
<1>. QED  BY <1>14 DEF q

\* memalign() in a region that is there.
LEMMA MemalignOldOwn ==
  ASSUME OwnInv, NEW t \in {"heap", dma_type}, NEW n \in Lens, NEW align \in Aligns,
         MemalignOld(t, align, n)
  PROVE  OwnInv' /\ CallerSees
<1>. DEFINE d == dma_type  count == Elements(align, n)
            among == Candidates(t, align, count)
            k == CHOOSE k \in among : \A j \in among : k <= j
            r == regions[t][k]
            i == FirstRun(r, count)
            q == Reserve(r, i, count)
            b == [ptr |-> r.data + align * i, len |-> n, align |-> align]
            S == Special(dma_ptr, first)
<1>1. /\ n > 0 /\ among # {}
      /\ regions' = [regions EXCEPT ![t][k] = q]
      /\ live' = live \cup {b}
      /\ UNCHANGED <<hdr, dma_type, dma_ptr, first>>
  BY DEF MemalignOld, Gives
<1>2. n \in Nat \ {0} /\ align \in Nat \ {0}
  BY <1>1, MallocAssumption
<1>3. count \in Nat \ {0} /\ n <= align * count
  <2>1. 0 \in Nat
    OBVIOUS
  <2>. QED  BY <1>2, <2>1, ElementsIs
<1>4. /\ Own(hdr, d, All(regions), live, S) /\ d \in MemoryTypes /\ Lists(regions, d) /\ t \in MemoryTypes
  BY DEF OwnInv, Accounted, Own, MemoryTypes
<1>. HIDE DEF count, S
<1>5. k \in among
  <2>1. among \subseteq Nat
    <3>1. \A j \in DOMAIN regions[t] : j \in 1 .. Len(regions[t])
      BY <1>4, InAll
    <3>2. regions[t] \in Seq(Regions)
      BY <1>4 DEF Lists
    <3>. QED  BY <3>1, <3>2 DEF Candidates
  <2>. HIDE DEF among
  <2>2. \E j \in among : \A m \in among : j <= m
    BY <1>1, <2>1, Least
  <2>. QED  BY <2>2
<1>. HIDE DEF k
<1>6. k \in DOMAIN regions[t] /\ r.alignment = align /\ Runs(r, count) # {}
  BY <1>5 DEF Candidates
<1>7. r \in All(regions) /\ r \in Regions /\ ~Large(r)
  BY <1>2, <1>4, <1>6, InAll DEF Large
<1>. HIDE DEF r
<1>8. i \in Runs(r, count)
  <2>1. Runs(r, count) \subseteq Nat
    <3>1. Count(r) \in Nat
      BY <1>4, <1>7 DEF Own, SmallInv
    <3>. QED  BY <1>3, <3>1 DEF Runs, Count
  <2>2. \E j \in Runs(r, count) : \A m \in Runs(r, count) : j <= m
    BY <1>6, <2>1, Least
  <2>. QED  BY <2>2 DEF FirstRun
<1>. HIDE DEF i
<1>9. /\ b.ptr = r.data + r.alignment * i /\ b.len = n /\ b.align = align
      /\ b = [ptr |-> b.ptr, len |-> b.len, align |-> b.align]
      /\ b.len \in Nat \ {0} /\ b.len <= r.alignment * count
  BY <1>2, <1>3, <1>6
<1>. HIDE DEF b
<1>10. /\ Own(hdr, d, (All(regions) \ {r}) \cup {q}, live \cup {b}, S)
       /\ q \in Regions /\ q.start = r.start /\ q.desc = r.desc
       /\ \A x \in live : Extent(x) \cap Extent(b) = {}
       /\ b.ptr % r.alignment = 0
  <2>1. Put(hdr, d, All(regions), live, S, r, q, b)
    BY <1>3, <1>4, <1>7, <1>8, <1>9, OwnPutBlock
  <2>. HIDE DEF q
  <2>. QED  BY <2>1 DEF Put
<1>. HIDE DEF q
<1>11. Lists(regions', d) /\ All(regions') = (All(regions) \ {r}) \cup {q}
  <2>1. q.start = regions[t][k].start
    BY <1>10 DEF r
  <2>2. PutAt(regions', regions, t, k, q)
    BY <1>1 DEF PutAt
  <2>3. Lists(regions', d) /\ All(regions') = (All(regions) \ {regions[t][k]}) \cup {q}
    BY <1>4, <1>6, <1>10, <2>1, <2>2, ListPut
  <2>. QED  BY <2>3 DEF r
<1>12. /\ Descs(All(regions')) \cup S \subseteq Area("heap")
       /\ \A x \in live \cup {b} : x.len \in Lens
       /\ first \in [MemoryTypes -> Nat] /\ dma_ptr \in Nat /\ (d = "heap" => dma_ptr = Null)
  BY <1>7, <1>9, <1>10, <1>11 DEF OwnInv, Accounted, Descs, S
<1>13. Accounted(hdr, d, dma_ptr, first, regions', live \cup {b})
  BY <1>10, <1>11, <1>12 DEF Accounted, S
<1>14. Fresh(b)
  BY <1>1, <1>6, <1>9, <1>10 DEF Fresh
<1>. QED  BY <1>1, <1>13, <1>14 DEF OwnInv, CallerSees

-----------------------------------------------------------------------------
\* free().

\* It looks for the region of a block where it is.
LEMMA AroundIs ==
  ASSUME OwnInv, NEW b \in live, NEW t, t = Owner(b.ptr)
  PROVE  /\ t \in {"heap", dma_type}
         /\ Around(t, b.ptr) = {} => b \in Plain(All(regions), live)
         /\ \A k \in Around(t, b.ptr) :
              /\ k \in DOMAIN regions[t] /\ k \in Nat
              /\ regions[t][k] \in All(regions) /\ regions[t][k] \in Regions
              /\ b \in In(regions[t][k], live)
<1>. DEFINE S == Special(dma_ptr, first)
<1>1. /\ Own(hdr, dma_type, All(regions), live, S) /\ dma_type \in MemoryTypes /\ Lists(regions, dma_type)
  BY DEF OwnInv, Accounted, Own
<1>2. t \in {"heap", dma_type} /\ t \in MemoryTypes
  BY <1>1 DEF Owner, MemoryTypes
<1>3. b.ptr \in Nat
  BY <1>1 DEF Own
<1>. HIDE DEF S
<1>4. ASSUME NEW r \in All(regions), InRegion(r, b.ptr)
      PROVE  \E k \in Around(t, b.ptr) : r = regions[t][k]
  <2>1. PICK u \in MemoryTypes : \E k \in DOMAIN regions[u] : r = regions[u][k]
    BY <1>1, InAll
  <2>2. PICK k \in DOMAIN regions[u] : r = regions[u][k]
    BY <2>1
  <2>3. r.start \in Area(u)
    BY <1>1, <2>2 DEF Lists, ListOf
  <2>4. r.start .. r.data + r.size - 1 \subseteq Area(u) /\ u \in {"heap", dma_type}
    BY <1>1, <2>3, OwnMemory
  <2>5. /\ r.start <= r.data /\ r.start \in Nat /\ r.data \in Nat /\ r.size \in Nat
    BY <1>1, Spans DEF Own, Placed
  <2>6. b.ptr \in Area(u)
    BY <1>3, <1>4, <2>4, <2>5 DEF InRegion
  <2>7. u = t
    BY <1>1, <2>4, <2>6, Places DEF Owner, MemoryTypes
  <2>. QED  BY <1>4, <2>2, <2>7 DEF Around
<1>5. Around(t, b.ptr) = {} => b \in Plain(All(regions), live)
  BY <1>4 DEF Plain
<1>6. ASSUME NEW k \in Around(t, b.ptr)
      PROVE  /\ k \in DOMAIN regions[t] /\ k \in Nat
             /\ regions[t][k] \in All(regions) /\ regions[t][k] \in Regions
             /\ b \in In(regions[t][k], live)
  <2>1. k \in DOMAIN regions[t] /\ InRegion(regions[t][k], b.ptr)
    BY DEF Around
  <2>2. /\ regions[t][k] \in All(regions) /\ regions[t][k] \in Regions
        /\ k \in 1 .. Len(regions[t])
    BY <1>1, <1>2, <2>1, InAll
  <2>3. Len(regions[t]) \in Nat
    BY <1>1, <1>2 DEF Lists
  <2>. QED  BY <2>1, <2>2, <2>3 DEF In
<1>. QED  BY <1>2, <1>5, <1>6

\* free() of a block in no region.
LEMMA FreePlainOwn ==
  ASSUME OwnInv, NEW b \in live, FreePlain(b), Free(b)
  PROVE  OwnInv' /\ CallerSees
<1>. DEFINE d == dma_type  S == Special(dma_ptr, first)  c == FreeBlock(hdr, b.ptr)  K == live \ {b}
<1>1. /\ hdr' = c /\ live' = K /\ UNCHANGED <<dma_type, dma_ptr, first, regions>>
      /\ Around(Owner(b.ptr), b.ptr) = {}
  BY DEF FreePlain, Free
<1>2. /\ Own(hdr, d, All(regions), live, S) /\ d \in MemoryTypes /\ Sound(hdr, d) /\ OnGrid(hdr)
  BY DEF OwnInv, Accounted, Own
<1>. HIDE DEF S
<1>3. b \in Plain(All(regions), live)
  BY <1>1, AroundIs
<1>4. b.ptr \in Used(hdr, d)
  BY <1>2, <1>3, Homes
<1>5. /\ Sound(c, d) /\ OnGrid(c) /\ Used(c, d) = Used(hdr, d) \ {b.ptr}
      /\ \A w \in Used(hdr, d) \ {b.ptr} : SizeAt(c, w) = SizeAt(hdr, w)
  BY <1>2, <1>4, FreeUsed
<1>. HIDE DEF c
<1>6. Own(c, d, All(regions), K, S)
  BY <1>2, <1>3, <1>5, OwnDropPlain
<1>7. Accounted(c, d, dma_ptr, first, regions, K)
  BY <1>6 DEF OwnInv, Accounted, S
<1>. QED  BY <1>1, <1>7 DEF OwnInv, CallerSees

\* A block of a region goes, and with the last one the region.
Taken(h, d, R, L, S, r, q, b) ==
  /\ q.start = r.start /\ q.desc = r.desc /\ q \in Regions
  /\ Unused(q) => In(r, L) = {b}
  /\ ~Unused(q) => Own(h, d, (R \ {r}) \cup {q}, L \ {b}, S)

\* Unless it was the last, the accounts of the region stay right.
LEMMA OwnTakeBlock ==
  ASSUME NEW h, NEW d, NEW R, NEW L, NEW S, Own(h, d, R, L, S), NEW r \in R, NEW b \in In(r, L),
         NEW q, q = IF Large(r) THEN r ELSE Release(r, (b.ptr - r.data) \div r.alignment)
  PROVE  Taken(h, d, R, L, S, r, q, b)
<1>. DEFINE B == In(r, L)  K == L \ {b}
<1>1. /\ r \in Regions /\ LargeInv(r, B) /\ SmallInv(r, B)
      /\ \A x \in L : x.ptr \in Nat /\ x.len \in Nat \ {0}
      /\ Apart(L)
  BY DEF Own
<1>2. CASE Large(r)
  <2>1. q = r /\ Unused(q)
    BY <1>2 DEF Unused
  <2>2. B = {b}
    BY <1>1, <1>2 DEF LargeInv
  <2>. QED  BY <1>1, <2>1, <2>2 DEF Taken
<1>3. CASE ~Large(r)
  <2>1. q = Release(r, (b.ptr - r.data) \div r.alignment)
    BY <1>3
  <2>2. SmallAfter(q, r, B \ {b}) /\ (Unused(q) <=> B = {b})
    <3>. DEFINE z == Release(r, (b.ptr - r.data) \div r.alignment)
    <3>1. SmallAfter(z, r, B \ {b}) /\ (Unused(z) <=> B = {b})
      <4>. HIDE DEF B
      <4>1. b \in B
        BY DEF B
      <4>. QED  BY <1>1, <1>3, <4>1, SmallRelease
    <3>. QED  BY <2>1, <3>1
  <2>3. /\ q \in Regions /\ ~Large(q) /\ SmallInv(q, B \ {b}) /\ LargeInv(q, B \ {b})
        /\ q.start = r.start /\ q.desc = r.desc /\ q.data = r.data /\ q.size = r.size
    BY <2>2 DEF SmallAfter, LargeInv
  <2>4. ASSUME ~Unused(q) PROVE Own(h, d, (R \ {r}) \cup {q}, K, S)
    <3>1. In(q, K) = B \ {b} /\ In(r, K) = B \ {b} /\ B \ {b} # {}
      BY <2>2, <2>3, <2>4 DEF In, InRegion
    <3>2. K \ In(r, K) = L \ In(r, L)
      BY <3>1
    <3>3. Apart(K) /\ \A x \in K : x.ptr \in Nat /\ x.len \in Nat \ {0}
      BY <1>1 DEF Apart
    <3>4. In(q, K) # {} /\ LargeInv(q, In(q, K)) /\ SmallInv(q, In(q, K))
      BY <2>3, <3>1
    <3>. HIDE DEF K
    <3>. QED  BY <2>3, <3>2, <3>3, <3>4, OwnInside
  <2>. QED  BY <2>2, <2>3, <2>4 DEF Taken
<1>. QED  BY <1>2, <1>3

\* free() of a block in a region.
LEMMA FreeAlignedOwn ==
  ASSUME OwnInv, NEW b \in live, FreeAligned(b), Free(b)
  PROVE  OwnInv' /\ CallerSees
<1>. DEFINE d == dma_type  S == Special(dma_ptr, first)  K == live \ {b}  t == Owner(b.ptr)
            k == CHOOSE k \in Around(t, b.ptr) : \A j \in Around(t, b.ptr) : k <= j
            r == regions[t][k]
            q == IF Large(r) THEN r ELSE Release(r, (b.ptr - r.data) \div r.alignment)
<1>1. /\ Around(t, b.ptr) # {} /\ live' = K /\ UNCHANGED <<dma_type, dma_ptr, first>>
      /\ IF Unused(q)
         THEN /\ DropAt(regions', regions, t, k)
              /\ hdr' = FreeBlock(FreeBlock(hdr, q.start), q.desc)
         ELSE PutAt(regions', regions, t, k, q) /\ hdr' = hdr
  BY DEF FreeAligned, Free, DropAt, PutAt
<1>2. /\ Own(hdr, d, All(regions), live, S) /\ d \in MemoryTypes /\ Sound(hdr, d) /\ OnGrid(hdr)
      /\ Lists(regions, d)
  BY DEF OwnInv, Accounted, Own
<1>. HIDE DEF S
<1>3. t \in {"heap", d} /\ k \in Around(t, b.ptr)
  <2>1. t \in {"heap", d} /\ Around(t, b.ptr) \subseteq Nat
    BY AroundIs
  <2>. HIDE DEF t
  <2>2. \E j \in Around(t, b.ptr) : \A m \in Around(t, b.ptr) : j <= m
    BY <1>1, <2>1, Least
  <2>. QED  BY <2>1, <2>2
<1>. HIDE DEF k
<1>4. k \in DOMAIN regions[t] /\ r \in All(regions) /\ r \in Regions /\ b \in In(r, live)
  BY <1>3, AroundIs
<1>. HIDE DEF t, r
<1>5. /\ q.start = r.start /\ q.desc = r.desc /\ q \in Regions
      /\ Unused(q) => In(r, live) = {b}
      /\ ~Unused(q) => Own(hdr, d, (All(regions) \ {r}) \cup {q}, K, S)
  <2>1. q = IF Large(r) THEN r ELSE Release(r, (b.ptr - r.data) \div r.alignment)
    OBVIOUS
  <2>. HIDE DEF q
  <2>2. Taken(hdr, d, All(regions), live, S, r, q, b)
    BY <1>2, <1>4, <2>1, OwnTakeBlock
  <2>. QED  BY <2>2 DEF Taken
<1>. HIDE DEF q
<1>6. CASE Unused(q)
  <2>. DEFINE h == FreeBlock(hdr, r.start)  c == FreeBlock(h, r.desc)
  <2>1. hdr' = c
    BY <1>1, <1>5, <1>6
  <2>2. r.start \in Used(hdr, d) /\ r.desc \in Used(hdr, d) /\ r.start # r.desc
    <3>1. r.start # r.desc
      BY <1>2, <1>4 DEF Own, Owned, Starts, Descs
    <3>. QED  BY <1>2, <1>4, <3>1, Homes
  <2>3. /\ Sound(h, d) /\ OnGrid(h) /\ Used(h, d) = Used(hdr, d) \ {r.start}
        /\ \A w \in Used(hdr, d) \ {r.start} : SizeAt(h, w) = SizeAt(hdr, w)
    BY <1>2, <2>2, FreeUsed
  <2>. HIDE DEF h
  <2>4. /\ Sound(c, d) /\ OnGrid(c) /\ Used(c, d) = Used(h, d) \ {r.desc}
        /\ \A w \in Used(h, d) \ {r.desc} : SizeAt(c, w) = SizeAt(h, w)
    BY <1>2, <2>2, <2>3, FreeUsed
  <2>. HIDE DEF c
  <2>5. /\ Used(c, d) = (Used(hdr, d) \ {r.start}) \ {r.desc}
        /\ \A w \in (Used(hdr, d) \ {r.start}) \ {r.desc} : SizeAt(c, w) = SizeAt(hdr, w)
    BY <2>3, <2>4
  <2>6. Own(c, d, All(regions) \ {r}, K, S)
    BY <1>2, <1>4, <1>5, <1>6, <2>4, <2>5, OwnDropRegion
  <2>7. Lists(regions', d) /\ All(regions') = All(regions) \ {r}
    <3>1. DropAt(regions', regions, t, k)
      BY <1>1, <1>6
    <3>2. Lists(regions', d) /\ All(regions') = All(regions) \ {regions[t][k]}
      BY <1>2, <1>3, <1>4, <3>1, ListDrop
    <3>. QED  BY <3>2 DEF r
  <2>8. Accounted(c, d, dma_ptr, first, regions', K)
    BY <2>6, <2>7 DEF OwnInv, Accounted, S, Descs
  <2>. QED  BY <1>1, <2>1, <2>8 DEF OwnInv, CallerSees
<1>7. CASE ~Unused(q)
  <2>1. PutAt(regions', regions, t, k, q) /\ hdr' = hdr
    BY <1>1, <1>7
  <2>2. q.start = regions[t][k].start
    BY <1>5 DEF r
  <2>3. Lists(regions', d) /\ All(regions') = (All(regions) \ {r}) \cup {q}
    <3>1. Lists(regions', d) /\ All(regions') = (All(regions) \ {regions[t][k]}) \cup {q}
      BY <1>2, <1>3, <1>4, <1>5, <2>1, <2>2, ListPut
    <3>. QED  BY <3>1 DEF r
  <2>4. Own(hdr, d, (All(regions) \ {r}) \cup {q}, K, S)
    BY <1>5, <1>7
  <2>5. Accounted(hdr, d, dma_ptr, first, regions', K)
    BY <1>4, <1>5, <2>3, <2>4 DEF OwnInv, Accounted, S, Descs
  <2>. QED  BY <1>1, <2>1, <2>5 DEF OwnInv, CallerSees
<1>. QED  BY <1>6, <1>7

-----------------------------------------------------------------------------
\* init_dma_memory(), the start, and what follows.

\* init_dma_memory() adds memory and takes one block of the heap.
LEMMA InitDmaOwn ==
  ASSUME OwnInv, InitDmaMemory
  PROVE  OwnInv' /\ CallerSees
<1>. DEFINE c == Cleared  a == Alloc(c, "heap", TypeSize)  S == Special(dma_ptr, first)
<1>1. /\ hdr' = a.hdr /\ dma_ptr' = a.ptr /\ dma_type' = "dma" /\ a.ptr # Null /\ dma_type = "heap"
      /\ UNCHANGED <<first, regions, live>>
  BY DEF InitDmaMemory, Cleared
<1>2. /\ Own(hdr, "heap", All(regions), live, S) /\ Sound(hdr, "heap") /\ OnGrid(hdr)
      /\ dma_ptr = Null
  BY <1>1 DEF OwnInv, Accounted, Own
<1>3. "heap" \in MemoryTypes /\ "dma" \in MemoryTypes /\ TypeSize \in Nat
  BY MallocAssumption DEF MemoryTypes
<1>4. Sound(c, "dma") /\ Heads(c, "dma") = {} /\ SameHeads(c, hdr, "heap")
  BY <1>1, <1>2, <1>3, ClearedSound DEF MallocInv
<1>5. OnGrid(c)
  BY <1>2 DEF OnGrid, Cleared
<1>. HIDE DEF c, S
<1>6. UsedHeads(c, "dma") = UsedHeads(hdr, "heap")
  BY <1>4 DEF UsedHeads, SameHeads
<1>7. Used(c, "dma") = Used(hdr, "heap") /\ \A w \in Used(hdr, "heap") : SizeAt(c, w) = SizeAt(hdr, w)
  <2>1. Used(c, "dma") = Used(hdr, "heap")
    BY <1>2, <1>3, <1>4, <1>6, UsedSizes
  <2>2. ASSUME NEW w \in Used(hdr, "heap") PROVE SizeAt(c, w) = SizeAt(hdr, w)
    <3>1. w - HdrSize \in UsedHeads(hdr, "heap")
      BY <1>2, <1>3, UsedSizes
    <3>2. c[w - HdrSize] = hdr[w - HdrSize]
      BY <1>4, <3>1 DEF UsedHeads, SameHeads
    <3>. QED  BY <3>2 DEF SizeAt
  <2>. QED  BY <2>1, <2>2
<1>8. Own(c, "dma", All(regions), live, S)
  BY <1>2, <1>3, <1>4, <1>5, <1>7, OwnSame
<1>9. Allocated(c, "dma", "heap", TypeSize, a)
  BY <1>3, <1>4, <1>5, AllocFacts
<1>. HIDE DEF a
<1>10. /\ Sound(a.hdr, "dma") /\ OnGrid(a.hdr)
       /\ \A w \in Used(c, "dma") : SizeAt(a.hdr, w) = SizeAt(c, w)
       /\ a.ptr \notin Used(c, "dma") /\ Used(a.hdr, "dma") = Used(c, "dma") \cup {a.ptr}
       /\ a.ptr \in Area("heap") /\ a.ptr \in Nat \ {0}
  BY <1>1, <1>9 DEF Allocated
<1>11. Own(a.hdr, "dma", All(regions), live, S \cup {a.ptr})
  BY <1>3, <1>8, <1>10, OwnGrowSpecial
<1>12. Special(a.ptr, first) = S \cup {a.ptr}
  BY <1>1, <1>2 DEF Special, S
<1>13. Lists(regions, "dma")
  BY <1>1 DEF OwnInv, Accounted, Lists
<1>14. Accounted(a.hdr, "dma", a.ptr, first, regions, live)
  BY <1>10, <1>11, <1>12, <1>13 DEF OwnInv, Accounted, S
<1>. QED  BY <1>1, <1>14 DEF OwnInv, CallerSees

\* At the start no block is in use.
LEMMA MallocInitOwn ==
  ASSUME MallocInit
  PROVE  OwnInv
<1>1. /\ dma_type = "heap" /\ dma_ptr = Null /\ live = {}
      /\ first = [t \in MemoryTypes |-> Null] /\ regions = [t \in MemoryTypes |-> <<>>]
  BY DEF MallocInit
<1>2. Sound(hdr, "heap") /\ "heap" \in MemoryTypes
  BY <1>1, MallocInitInv DEF MallocInv
<1>3. OnGrid(hdr) /\ Heads(hdr, "heap") = {}
  <2>1. \A p \in DOMAIN hdr : p = DmaStart
    BY DEF MallocInit
  <2>2. DmaStart % HdrSize = 0
    BY MallocAssumption DEF MemoryTypes, StartOf
  <2>3. DmaStart \notin Area("heap")
    BY Places DEF MemoryTypes, StartOf
  <2>. QED  BY <2>1, <2>2, <2>3 DEF OnGrid, Heads
<1>4. Used(hdr, "heap") = {}
  BY <1>3 DEF Used
<1>5. All(regions) = {} /\ Special(dma_ptr, first) = {}
  BY <1>1 DEF All, Special
<1>6. Own(hdr, "heap", {}, {}, {})
  BY <1>2, <1>3, <1>4 DEF Own, Owned, Placed, Apart, Ptrs, Plain, Starts, Descs
<1>7. Lists(regions, "heap")
  <2>1. regions \in [MemoryTypes -> Seq(Regions)] /\ \A t \in MemoryTypes : regions[t] = <<>>
    BY <1>1
  <2>2. \A t \in MemoryTypes : ListOf(regions[t], t)
    BY <2>1 DEF ListOf
  <2>. QED  BY <2>1, <2>2 DEF Lists, MemoryTypes
<1>8. first \in [MemoryTypes -> Nat] /\ dma_ptr \in Nat
  BY <1>1 DEF Null
<1>. QED  BY <1>1, <1>5, <1>6, <1>7, <1>8 DEF OwnInv, Accounted, Descs

\* A step keeps the accounts, and gives a caller or takes from one at most one block.
LEMMA OwnStep ==
  ASSUME OwnInv, [MallocNext]_mallocVars
  PROVE  OwnInv' /\ CallerSees
<1>1. CASE UNCHANGED mallocVars
  BY <1>1 DEF mallocVars, OwnInv, CallerSees
<1>2. ASSUME NEW t \in {"heap", dma_type}, NEW n \in Lens, NEW align \in Aligns, Memalign(t, align, n)
      PROVE  OwnInv' /\ CallerSees
  BY <1>2, MemalignFailsOwn, MemalignNewOwn, MemalignOldOwn DEF Memalign
<1>3. ASSUME NEW b \in live, Free(b)
      PROVE  OwnInv' /\ CallerSees
  BY <1>3, FreePlainOwn, FreeAlignedOwn DEF Free
<1>4. ASSUME NEW t \in {"heap", dma_type}, NEW n \in Lens, Malloc(t, n)
      PROVE  OwnInv' /\ CallerSees
  BY <1>4, MallocOwn
<1>. QED  BY <1>1, <1>2, <1>3, <1>4, InitDmaOwn DEF MallocNext

\* Whatever is allocated, aligned, freed or refused, every block in use has exactly one
\* owner, and the marks of every region say which of its elements are whose.
THEOREM OwnInvHolds == MallocSpec => []OwnInv
<1>1. MallocInit => OwnInv
  BY MallocInitOwn
<1>2. OwnInv /\ [MallocNext]_mallocVars => OwnInv'
  BY OwnStep
<1>. QED  BY <1>1, <1>2, PTL DEF MallocSpec

\* Every block in use is a caller's, or a region with a block in it, or its descriptor, or
\* one of the few that the allocator keeps: no failing call loses one, and no region
\* outlives its last block.
THEOREM NothingLostHolds == MallocSpec => []NothingLost
<1>1. OwnInv => NothingLost
  <2>. SUFFICES ASSUME OwnInv PROVE NothingLost
    OBVIOUS
  <2>1. Own(hdr, dma_type, All(regions), live, Special(dma_ptr, first))
    BY DEF OwnInv, Accounted
  <2>2. AllRegions = All(regions) /\ UsedBlocks = Used(hdr, dma_type)
    BY DEF AllRegions, All, UsedBlocks, Used
  <2>3. \A r : Held(r) = In(r, live)
    BY DEF Held, In
  <2>4. UsedBlocks =
          {b.ptr : b \in {c \in live : \A r \in AllRegions : ~InRegion(r, c.ptr)}}
            \cup {r.start : r \in AllRegions} \cup {r.desc : r \in AllRegions}
            \cup (({dma_ptr} \cup {first[t] : t \in MemoryTypes}) \ {Null})
    BY <2>1, <2>2 DEF Own, Owned, Ptrs, Plain, Starts, Descs, Special
  <2>5. ASSUME NEW r \in AllRegions
        PROVE  IF Large(r) THEN Cardinality(Held(r)) = 1
               ELSE Held(r) # {} /\ r.free = Cardinality({i \in DOMAIN r.meta : r.meta[i] = 0})
    <3>1. In(r, live) # {} /\ LargeInv(r, In(r, live)) /\ SmallInv(r, In(r, live))
      BY <2>1, <2>2 DEF Own
    <3>2. CASE Large(r)
      <4>1. PICK b \in In(r, live) : In(r, live) = {b}
        BY <3>1, <3>2 DEF LargeInv
      <4>. QED  BY <2>3, <3>2, <4>1, FS_Singleton
    <3>3. CASE ~Large(r)
      BY <2>3, <3>1, <3>3 DEF SmallInv, Zeros
    <3>. QED  BY <3>2, <3>3
  <2>. QED  BY <2>4, <2>5 DEF NothingLost
<1>. QED  BY <1>1, OwnInvHolds, PTL

\* Headers, regions and blocks are of their types, and regions lie in their memory.
THEOREM MallocTypes == MallocSpec => []MallocTypeOK
<1>1. OwnInv => MallocTypeOK
  <2>. SUFFICES ASSUME OwnInv PROVE MallocTypeOK
    OBVIOUS
  <2>. DEFINE S == Special(dma_ptr, first)
  <2>1. /\ Own(hdr, dma_type, All(regions), live, S) /\ Lists(regions, dma_type)
        /\ dma_type \in MemoryTypes /\ Sound(hdr, dma_type)
        /\ Descs(All(regions)) \cup S \subseteq Area("heap")
    BY DEF OwnInv, Accounted, Own
  <2>2. {dma_ptr, first["heap"], first["dma"]} \subseteq {Null} \cup Area("heap")
    BY <2>1 DEF Special, MemoryTypes
  <2>3. \A b \in live : b.len \in Lens \ {0}
    BY <2>1 DEF OwnInv, Accounted, Own
  <2>4. ASSUME NEW t \in MemoryTypes, NEW k \in DOMAIN regions[t], NEW r, r = regions[t][k]
        PROVE  /\ r.desc \in Area("heap") /\ r.start .. r.data + r.size - 1 \subseteq Area(t)
               /\ Large(r) \/ r.size = r.alignment * Cardinality(DOMAIN r.meta)
               /\ \A i \in DOMAIN r.meta : r.meta[i] \in 0 .. 2
    <3>1. r \in All(regions) /\ r \in Regions /\ r.start \in Area(t)
      BY <2>1, <2>4, InAll DEF Lists, ListOf
    <3>2. r.start .. r.data + r.size - 1 \subseteq Area(t)
      BY <2>1, <3>1, OwnMemory
    <3>3. r.desc \in Area("heap")
      BY <2>1, <3>1 DEF Descs
    <3>4. Large(r) \/ r.size = r.alignment * Cardinality(DOMAIN r.meta)
      BY <2>1, <3>1 DEF Own, SmallInv, Count
    <3>5. \A i \in DOMAIN r.meta : r.meta[i] \in 0 .. 2
      <4>1. PICK n \in Nat : r.meta \in [0 .. n - 1 -> 0 .. 2]
        BY <3>1 DEF Regions, Metas
      <4>. QED  BY <4>1
    <3>. QED  BY <3>2, <3>3, <3>4, <3>5
  <2>. QED  BY <2>1, <2>2, <2>3, <2>4 DEF MallocTypeOK, Sound
<1>. QED  BY <1>1, OwnInvHolds, PTL

\* What callers see of malloc(), memalign(), dma_malloc(), dma_memalign() and free() is what
\* Allocator promises: a block is memory that nobody else has, aligned as asked for.
THEOREM AllocatorImplemented == MallocSpec => ImplementsAllocator
<1>1. MallocInit => Promise!AllocatorInit
  BY DEF MallocInit, Promise!AllocatorInit
<1>2. OwnInv /\ OwnInv' /\ [MallocNext]_mallocVars => [Promise!AllocatorNext]_live
  <2>. SUFFICES ASSUME OwnInv, OwnInv', [MallocNext]_mallocVars PROVE [Promise!AllocatorNext]_live
    OBVIOUS
  <2>1. CallerSees
    BY OwnStep
  <2>2. CASE live' = live
    BY <2>2
  <2>3. ASSUME NEW b, Fresh(b) PROVE Promise!AllocatorNext
    <3>1. b \in live'
      BY <2>3 DEF Fresh
    <3>2. /\ Own(hdr', dma_type', All(regions'), live', Special(dma_ptr', first'))
          /\ \A x \in live' : x.len \in Lens
      BY DEF OwnInv, Accounted
    <3>3. /\ b.ptr \in Area("heap") \cup Area("dma") /\ Extent(b) \subseteq Area("heap") \cup Area("dma")
          /\ b.len \in Lens \ {0}
      <4>1. b.len \in Lens \ {0}
        BY <3>1, <3>2 DEF Own
      <4>. QED  BY <3>1, <3>2, <4>1, OwnMemory
    <3>4. b \in Promise!Blocks
      BY <2>3, <3>3 DEF Fresh, Promise!Blocks
    <3>5. Promise!Get(b)
      BY <2>3, <3>3, <3>4 DEF Fresh, Promise!Get, Promise!Extent, Extent
    <3>. QED  BY <3>1, <3>5 DEF Promise!AllocatorNext
  <2>4. ASSUME NEW b \in live, live' = live \ {b} PROVE Promise!AllocatorNext
    BY <2>4 DEF Promise!AllocatorNext, Promise!GiveBack
  <2>. QED  BY <2>1, <2>2, <2>3, <2>4 DEF CallerSees
<1>. QED  BY <1>1, <1>2, OwnInvHolds, PTL DEF MallocSpec, ImplementsAllocator
=============================================================================

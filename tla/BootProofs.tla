----------------------------- MODULE BootProofs -----------------------------
(***************************************************************************)
(* The boot flow, for every memory map and every set of read-write images: *)
(* RAM that is not in use is cleared, all of it and nothing else, what     *)
(* vboot refuses stays refused, RAM is clear in time, and what runs after  *)
(* depthcharge finds the devices at rest.                                  *)
(***************************************************************************)
EXTENDS MCBoot, MallocProofs, TLAPS, FiniteSetTheorems, WellFoundedInduction

-----------------------------------------------------------------------------
(***************************************************************************)
(* memory_wipe_unused(): the invariant.                                    *)
(***************************************************************************)

\* A list of edges that the code can have built: every range is closed again.
Edges(E) == E \in SUBSET Nat /\ IsFiniteSet(E) /\ ~Odd(E)

\* The lists are closed, and nothing is cleared before the last loop.
WipeLists ==
  /\ e820 \in Maps \cup {NoMap}
  /\ initialized \in BOOLEAN
  /\ wipe_pc \in WipePcs
  /\ entry \in Nat
  /\ marks \in SUBSET (Marks \cup {Image})
  /\ Edges(used) /\ Edges(ranges) /\ Edges(left)
  /\ \A x \in wiped : x \in Nat
  /\ wipe_pc \in {"idle", "map", "exclude", "failed", "aborted"} => wiped = {}
  /\ wipe_pc \in {"map", "exclude", "wipe", "done"} => e820 \in Maps

\* "used" is what has been marked; until it is set up, that is the image.
UsedIsInUse ==
  IF initialized THEN \A x \in Nat : Included(used, x) <=> InUse(x)
  ELSE marks = {Image}

\* Reading the map: "ranges" is what the entries so far say.
MapLoop ==
  wipe_pc = "map" =>
    /\ e820 \in Maps
    /\ entry \in 1 .. Len(e820) + 1
    /\ \A x \in Nat : Included(ranges, x) <=> RamAfter(entry - 1, x)

\* Taking out what is used: all but what the loop has not come to.
ExcludeLoop ==
  wipe_pc = "exclude" =>
    /\ initialized = TRUE
    /\ \A x \in Nat :
         /\ Included(left, x) => Included(used, x)
         /\ Included(ranges, x) <=>
              /\ RamAfter(Len(e820), x)
              /\ ~(Included(used, x) /\ ~Included(left, x))

\* Clearing: all of "ranges" but what the loop has not come to.
WipeLoop ==
  wipe_pc = "wipe" =>
    \A x \in Nat :
      /\ Included(ranges, x) <=> RamAfter(Len(e820), x) /\ ~InUse(x)
      /\ Included(left, x) => Included(ranges, x)
      /\ x \in wiped <=> Included(ranges, x) /\ ~Included(left, x)

AllWiped ==
  wipe_pc = "done" =>
    \A x \in Nat : x \in wiped <=> RamAfter(Len(e820), x) /\ ~InUse(x)

WipeInv == WipeLists /\ UsedIsInUse /\ MapLoop /\ ExcludeLoop /\ WipeLoop /\ AllWiped

-----------------------------------------------------------------------------
(***************************************************************************)
(* What ranges_set_region_to() and one step of ranges_for_each() do to the *)
(* set of addresses that the edges stand for.                              *)
(***************************************************************************)

\* Edges that are passed in two groups toggle "included" once for each group.
LEMMA OddUnion ==
  ASSUME NEW S, IsFiniteSet(S), NEW T, IsFiniteSet(T), S \cap T = {}
  PROVE  /\ IsFiniteSet(S \cup T)
         /\ Odd(S \cup T) <=> (Odd(S) # Odd(T))
<1>1. /\ IsFiniteSet(S \cup T)
      /\ Cardinality(S \cup T) = Cardinality(S) + Cardinality(T) - Cardinality({})
  BY FS_Union
<1>2. /\ Cardinality(S) \in Nat /\ Cardinality(T) \in Nat
      /\ Cardinality({}) = 0
  BY FS_CardinalityType, FS_EmptySet
<1>3. ASSUME NEW m \in Nat, NEW n \in Nat
      PROVE  (m + n - 0) % 2 = 1 <=> ((m % 2 = 1) # (n % 2 = 1))
  OBVIOUS
<1>4. (Cardinality(S) + Cardinality(T) - 0) % 2 = 1
        <=> ((Cardinality(S) % 2 = 1) # (Cardinality(T) % 2 = 1))
  BY <1>2, <1>3
<1>. QED  BY <1>1, <1>2, <1>4 DEF Odd

\* No edge leaves "included" as it is, and one edge toggles it.
LEMMA OddSmall ==
  /\ IsFiniteSet({}) /\ ~Odd({})
  /\ \A e : IsFiniteSet({e}) /\ Odd({e})
BY FS_EmptySet, FS_Singleton DEF Odd

\* An edge that is inserted exactly when two states differ makes them agree.
LEMMA OddToggle ==
  ASSUME NEW S, IsFiniteSet(S), NEW e, e \notin S, NEW new \in BOOLEAN
  PROVE  LET T == IF Odd(S) # new THEN {e} ELSE {}
         IN  IsFiniteSet(S \cup T) /\ Odd(S \cup T) = new
<1>1. CASE Odd(S) # new
  <2>1. S \cap {e} = {}
    OBVIOUS
  <2>2. IsFiniteSet(S \cup {e}) /\ (Odd(S \cup {e}) <=> (Odd(S) # Odd({e})))
    BY <2>1, OddUnion, OddSmall
  <2>. QED  BY <1>1, <2>2, OddSmall DEF Odd
<1>2. CASE Odd(S) = new
  BY <1>2
<1>. QED  BY <1>1, <1>2

-----------------------------------------------------------------------------
\* ranges_set_region_to().

\* The addresses of the region are in the collection afterwards exactly when
\* that was asked for, all others as before, and every range is closed.
LEMMA SetRegionToCorrect ==
  ASSUME NEW E, Edges(E), NEW s \in Nat, NEW e \in Nat, s < e, NEW new \in BOOLEAN
  PROVE  LET R == SetRegionTo(E, s, e, new)
         IN  /\ Edges(R)
             /\ \A x \in Nat : Included(R, x) =
                  (IF s <= x /\ x < e THEN new ELSE Included(E, x))
<1>. DEFINE before == {f \in E : f < s}
            after == {f \in E : f > e}
            upto == E \ after
            S == IF Odd(before) # new THEN {s} ELSE {}
            low == before \cup S
            T == IF Odd(upto) # new THEN {e} ELSE {}
            mid == low \cup T
            R == SetRegionTo(E, s, e, new)
<1>1. R = mid \cup after
  BY DEF SetRegionTo
<1>. /\ \A f \in S : f = s
     /\ \A f \in T : f = e
  OBVIOUS
<1>2. /\ \A f \in E : f \in Nat
      /\ IsFiniteSet(E) /\ ~Odd(E)
      /\ IsFiniteSet(before) /\ IsFiniteSet(after) /\ IsFiniteSet(upto)
      /\ \A x \in Nat : IsFiniteSet({f \in after : f <= x})
  BY FS_Subset DEF Edges
<1>3. IsFiniteSet(low) /\ Odd(low) = new
  <2>1. s \notin before
    BY <1>2
  <2>. QED  BY <1>2, <2>1, OddToggle
<1>4. IsFiniteSet(mid) /\ Odd(mid) = Odd(upto)
  <2>1. e \notin low
    BY <1>2
  <2>2. CASE Odd(upto) # new
    <3>1. low \cap {e} = {}
      BY <2>1
    <3>2. IsFiniteSet(low \cup {e}) /\ (Odd(low \cup {e}) <=> (Odd(low) # Odd({e})))
      BY <1>3, <3>1, OddUnion, OddSmall
    <3>. QED  BY <1>3, <2>2, <3>2, OddSmall DEF Odd
  <2>3. CASE Odd(upto) = new
    BY <1>3, <2>3
  <2>. QED  BY <2>2, <2>3
<1>5. \A f \in mid : f \in Nat /\ f <= e
  BY <1>2
<1>6. ASSUME NEW A, A \subseteq after, IsFiniteSet(A)
      PROVE  /\ IsFiniteSet(mid \cup A) /\ IsFiniteSet(upto \cup A)
             /\ Odd(mid \cup A) = Odd(upto \cup A)
  <2>1. mid \cap A = {} /\ upto \cap A = {}
    BY <1>2, <1>5, <1>6
  <2>2. /\ IsFiniteSet(mid \cup A) /\ IsFiniteSet(upto \cup A)
        /\ Odd(mid \cup A) <=> (Odd(mid) # Odd(A))
        /\ Odd(upto \cup A) <=> (Odd(upto) # Odd(A))
    BY <1>2, <1>4, <1>6, <2>1, OddUnion
  <2>. QED  BY <1>4, <2>2 DEF Odd
<1>7. Edges(R)
  <2>1. upto \cup after = E
    OBVIOUS
  <2>. QED  BY <1>1, <1>2, <1>5, <1>6, <2>1 DEF Edges
<1>8. ASSUME NEW x \in Nat
      PROVE  Included(R, x) = (IF s <= x /\ x < e THEN new ELSE Included(E, x))
  <2>1. CASE x < s
    <3>1. {f \in R : f <= x} = {f \in E : f <= x}
      BY <1>1, <1>2, <2>1
    <3>. QED  BY <2>1, <3>1 DEF Included
  <2>2. CASE s <= x /\ x < e
    <3>1. {f \in R : f <= x} = low
      BY <1>1, <1>2, <2>2
    <3>. QED  BY <1>3, <2>2, <3>1 DEF Included
  <2>3. CASE e <= x
    <3>1. {f \in R : f <= x} = mid \cup {f \in after : f <= x}
      BY <1>1, <1>5, <2>3
    <3>2. {f \in E : f <= x} = upto \cup {f \in after : f <= x}
      BY <1>2, <2>3
    <3>3. Odd(mid \cup {f \in after : f <= x}) = Odd(upto \cup {f \in after : f <= x})
      BY <1>2, <1>6
    <3>4. Included(R, x) = Included(E, x)
      BY <3>1, <3>2, <3>3 DEF Included
    <3>. QED  BY <2>3, <3>4
  <2>. QED  BY <2>1, <2>2, <2>3
<1>. QED  BY <1>7, <1>8

-----------------------------------------------------------------------------
\* ranges_for_each().

\* The first edge of a list is the lowest.
LEMMA FirstIsLowest ==
  ASSUME NEW E \in SUBSET Nat, E # {}
  PROVE  First(E) \in E /\ \A f \in E : First(E) <= f
<1>1. PICK e \in E : \A f \in E : ~(<<f, e>> \in OpToRel(<, Nat))
  BY NatLessThanWellFounded, WFMin, Zenon
<1>2. ASSUME NEW f \in E
      PROVE  e <= f
  <2>1. <<f, e>> \in Nat \X Nat
    OBVIOUS
  <2>2. ~(<<f, e>>[1] < <<f, e>>[2])
    BY <1>1, <2>1, Zenon DEF OpToRel
  <2>. QED  BY <2>2
<1>. QED  BY <1>2 DEF First

\* A step of the loop takes the lowest range away and leaves the others.
LEMMA RestCorrect ==
  ASSUME NEW E, Edges(E), AnotherRange(E)
  PROVE  /\ First(E) \in Nat /\ Second(E) \in Nat /\ First(E) < Second(E)
         /\ Edges(Rest(E))
         /\ \A x \in Nat :
              /\ First(E) <= x /\ x < Second(E) => Included(E, x)
              /\ Included(Rest(E), x) <=>
                   Included(E, x) /\ ~(First(E) <= x /\ x < Second(E))
<1>. DEFINE a == First(E)
            b == Second(E)
            rest == Rest(E)
<1>1. /\ \A f \in E : f \in Nat
      /\ IsFiniteSet(E) /\ ~Odd(E) /\ Cardinality(E) >= 2
  BY DEF Edges, AnotherRange
<1>2. E # {} /\ E \ {a} # {}
  <2>1. E # {}
    BY <1>1, FS_EmptySet
  <2>2. ASSUME E \ {a} = {}
        PROVE  FALSE
    <3>1. E = {a}
      BY <2>1, <2>2
    <3>. QED  BY <1>1, <3>1, FS_Singleton
  <2>. QED  BY <2>1, <2>2
<1>3. a \in E /\ \A f \in E : a <= f
  BY <1>1, <1>2, FirstIsLowest
<1>4. b \in E \ {a} /\ \A f \in E \ {a} : b <= f
  BY <1>1, <1>2, FirstIsLowest DEF Second
<1>5. a \in Nat /\ b \in Nat /\ a < b
  BY <1>1, <1>3, <1>4
<1>6. /\ rest = E \ {a, b}
      /\ \A f \in rest : f \in Nat /\ f > b
  BY <1>1, <1>3, <1>4 DEF Rest
<1>7. ASSUME NEW A, A \subseteq rest, IsFiniteSet(A)
      PROVE  Odd({a, b} \cup A) = Odd(A)
  <2>1. IsFiniteSet({a, b}) /\ ~Odd({a, b})
    <3>1. {a} \cap {b} = {}
      BY <1>5
    <3>2. IsFiniteSet({a}) /\ Odd({a}) /\ IsFiniteSet({b}) /\ Odd({b})
      BY OddSmall
    <3>3. IsFiniteSet({a} \cup {b}) /\ (Odd({a} \cup {b}) <=> (Odd({a}) # Odd({b})))
      BY <3>1, <3>2, OddUnion
    <3>4. Odd({a}) = Odd({b})
      BY <3>2 DEF Odd
    <3>5. IsFiniteSet({a} \cup {b}) /\ ~Odd({a} \cup {b})
      BY <3>3, <3>4
    <3>6. {a} \cup {b} = {a, b}
      OBVIOUS
    <3>. QED  BY <3>5, <3>6, Zenon
  <2>2. {a, b} \cap A = {}
    BY <1>6, <1>7
  <2>3. Odd({a, b} \cup A) <=> (Odd({a, b}) # Odd(A))
    BY <1>7, <2>1, <2>2, OddUnion
  <2>. QED  BY <2>1, <2>3 DEF Odd
<1>8. Edges(rest)
  <2>1. IsFiniteSet(rest) /\ rest \in SUBSET Nat
    BY <1>1, <1>6, FS_Subset
  <2>2. {a, b} \cup rest = E
    BY <1>3, <1>4, <1>6
  <2>. QED  BY <1>1, <1>7, <2>1, <2>2 DEF Edges
<1>9. ASSUME NEW x \in Nat
      PROVE  /\ a <= x /\ x < b => Included(E, x)
             /\ Included(rest, x) <=> Included(E, x) /\ ~(a <= x /\ x < b)
  <2>1. CASE x < a
    <3>1. {f \in E : f <= x} = {} /\ {f \in rest : f <= x} = {}
      BY <1>1, <1>3, <1>5, <1>6, <2>1
    <3>. QED  BY <1>5, <2>1, <3>1, OddSmall DEF Included
  <2>2. CASE a <= x /\ x < b
    <3>1. {f \in E : f <= x} = {a}
      BY <1>1, <1>3, <1>4, <1>5, <2>2
    <3>2. {f \in rest : f <= x} = {}
      BY <1>5, <1>6, <2>2
    <3>. QED  BY <2>2, <3>1, <3>2, OddSmall DEF Included
  <2>3. CASE b <= x
    <3>1. {f \in E : f <= x} = {a, b} \cup {f \in rest : f <= x}
      BY <1>1, <1>3, <1>4, <1>5, <1>6, <2>3
    <3>2. IsFiniteSet({f \in rest : f <= x})
      BY <1>8, FS_Subset DEF Edges
    <3>3. Odd({a, b} \cup {f \in rest : f <= x}) = Odd({f \in rest : f <= x})
      BY <1>7, <3>2
    <3>. QED  BY <1>5, <2>3, <3>1, <3>3 DEF Included
  <2>. QED  BY <1>5, <2>1, <2>2, <2>3
<1>. QED  BY <1>5, <1>8, <1>9

\* When the loop ends, it has come to every range.
LEMMA NoRangeLeft ==
  ASSUME NEW E, Edges(E), ~AnotherRange(E)
  PROVE  \A x : ~Included(E, x)
<1>1. IsFiniteSet(E) /\ Cardinality(E) \in Nat /\ Cardinality(E) % 2 # 1 /\ ~(Cardinality(E) >= 2)
  BY FS_CardinalityType DEF Edges, Odd, AnotherRange
<1>2. Cardinality(E) = 0
  BY <1>1
<1>3. E = {}
  BY <1>1, <1>2, FS_EmptySet
<1>. QED  BY <1>3, OddSmall DEF Included

-----------------------------------------------------------------------------
\* Lemmas.

LEMMA NoEdges == Edges({}) /\ \A x : ~Included({}, x)
<1>1. Edges({})
  BY OddSmall DEF Edges
<1>2. ASSUME NEW x
      PROVE  ~Included({}, x)
  <2>1. {e \in {} : e <= x} = {}
    OBVIOUS
  <2>. QED  BY <2>1, OddSmall DEF Included
<1>. QED  BY <1>1, <1>2

\* The entries of a memory map.
LEMMA EntryType ==
  ASSUME e820 \in Maps
  PROVE  /\ Len(e820) \in Nat
         /\ \A k \in 1 .. Len(e820) :
              e820[k].base \in Nat /\ e820[k].size \in Nat /\ e820[k].type \in Types
<1>. DEFINE Entries == [base : Nat, size : Nat, type : Types]
<1>1. e820 \in Seq(Entries)
  BY WipeAssumption
<1>2. Len(e820) \in Nat /\ \A k \in 1 .. Len(e820) : e820[k] \in Entries
  <2>. HIDE DEF Entries
  <2>. QED  BY <1>1
<1>. QED  BY <1>2

\* What the next entry of the map changes.
LEMMA RamStep ==
  ASSUME NEW n \in Nat, NEW x \in Nat
  PROVE  RamAfter(n + 1, x) <=>
           IF CoveredBy(n + 1, x) THEN e820[n + 1].type = "ram" ELSE RamAfter(n, x)
<1>1. CASE CoveredBy(n + 1, x)
  <2>1. ASSUME RamAfter(n + 1, x)
        PROVE  e820[n + 1].type = "ram"
    <3>1. PICK j \in 1 .. n + 1 : /\ CoveredBy(j, x) /\ e820[j].type = "ram"
                                  /\ \A k \in j + 1 .. n + 1 : ~CoveredBy(k, x)
      BY <2>1 DEF RamAfter
    <3>2. j = n + 1
      BY <1>1, <3>1
    <3>. QED  BY <3>1, <3>2
  <2>2. ASSUME e820[n + 1].type = "ram"
        PROVE  RamAfter(n + 1, x)
    BY <1>1, <2>2 DEF RamAfter
  <2>. QED  BY <1>1, <2>1, <2>2
<1>2. CASE ~CoveredBy(n + 1, x)
  <2>1. ASSUME RamAfter(n + 1, x)
        PROVE  RamAfter(n, x)
    <3>1. PICK j \in 1 .. n + 1 : /\ CoveredBy(j, x) /\ e820[j].type = "ram"
                                  /\ \A k \in j + 1 .. n + 1 : ~CoveredBy(k, x)
      BY <2>1 DEF RamAfter
    <3>2. j \in 1 .. n
      BY <1>2, <3>1
    <3>. QED  BY <3>1, <3>2 DEF RamAfter
  <2>2. ASSUME RamAfter(n, x)
        PROVE  RamAfter(n + 1, x)
    <3>1. PICK j \in 1 .. n : /\ CoveredBy(j, x) /\ e820[j].type = "ram"
                              /\ \A k \in j + 1 .. n : ~CoveredBy(k, x)
      BY <2>2 DEF RamAfter
    <3>2. \A k \in j + 1 .. n + 1 : ~CoveredBy(k, x)
      BY <1>2, <3>1
    <3>. QED  BY <3>1, <3>2 DEF RamAfter
  <2>. QED  BY <1>2, <2>1, <2>2
<1>. QED  BY <1>1, <1>2

\* used_list_initialize() leaves a list of what is in use.
LEMMA UsedListCorrect ==
  ASSUME WipeLists, UsedIsInUse
  PROVE  Edges(UsedList) /\ \A x \in Nat : Included(UsedList, x) <=> InUse(x)
<1>1. CASE initialized
  BY <1>1 DEF WipeLists, UsedIsInUse, UsedList
<1>2. CASE ~initialized
  <2>1. Image.start \in Nat /\ Image.end \in Nat /\ Image.start < Image.end
    BY WipeAssumption
  <2>2. UsedList = SetRegionTo({}, Image.start, Image.end, TRUE)
    BY <1>2 DEF UsedList, Add
  <2>3. /\ Edges(UsedList)
        /\ \A x \in Nat : Included(UsedList, x) =
             (IF Image.start <= x /\ x < Image.end THEN TRUE ELSE Included({}, x))
    BY <2>1, <2>2, NoEdges, SetRegionToCorrect
  <2>4. \A x \in Nat : InUse(x) <=> Image.start <= x /\ x < Image.end
    BY <1>2 DEF UsedIsInUse, InUse
  <2>. QED  BY <2>3, <2>4, NoEdges
<1>. QED  BY <1>1, <1>2 DEF WipeLists

\* Neither what the map says nor what is in use changes in memory_wipe_unused().
LEMMA SameFacts ==
  ASSUME e820' = e820
  PROVE  /\ \A n, x : RamAfter(n, x)' <=> RamAfter(n, x)
         /\ marks' = marks => \A x : InUse(x)' <=> InUse(x)
BY DEF RamAfter, CoveredBy, InUse

-----------------------------------------------------------------------------
\* The invariant.

LEMMA InitInv == WipeInit => WipeInv
<1>. SUFFICES ASSUME WipeInit
              PROVE  WipeInv
  OBVIOUS
<1>1. WipeLists
  BY NoEdges DEF WipeInit, WipeLists, WipePcs
<1>. QED  BY <1>1 DEF WipeInit, WipeInv, UsedIsInUse, MapLoop, ExcludeLoop, WipeLoop, AllWiped

LEMMA MarkInv ==
  ASSUME WipeInv, NEW m \in Marks, MemoryMarkUsed(m)
  PROVE  WipeInv'
<1>1. m.start \in Nat /\ m.end \in Nat /\ m.start < m.end
  BY WipeAssumption
<1>2. /\ Edges(UsedList) /\ \A x \in Nat : Included(UsedList, x) <=> InUse(x)
  BY UsedListCorrect DEF WipeInv
<1>3. used' = SetRegionTo(UsedList, m.start, m.end, TRUE)
  BY DEF MemoryMarkUsed, Add
<1>4. /\ Edges(used')
      /\ \A x \in Nat : Included(used', x) =
           (IF m.start <= x /\ x < m.end THEN TRUE ELSE Included(UsedList, x))
  BY ZenonT(60), <1>1, <1>2, <1>3, SetRegionToCorrect
<1>5. \A x \in Nat : InUse(x)' <=> InUse(x) \/ (m.start <= x /\ x < m.end)
  BY DEF MemoryMarkUsed, InUse
<1>6. WipeLists'
  BY <1>4 DEF WipeInv, WipeLists, MemoryMarkUsed
<1>7. UsedIsInUse'
  BY <1>2, <1>4, <1>5 DEF UsedIsInUse, MemoryMarkUsed
<1>. QED
  BY <1>6, <1>7 DEF WipeInv, MemoryMarkUsed, MapLoop, ExcludeLoop, WipeLoop, AllWiped

LEMMA CallInv ==
  ASSUME WipeInv, MemoryWipeUnused
  PROVE  WipeInv'
<1>1. WipeLists'
  BY NoEdges DEF WipeInv, WipeLists, MemoryWipeUnused, WipePcs
<1>2. UsedIsInUse'
  BY DEF WipeInv, UsedIsInUse, MemoryWipeUnused, InUse
<1>3. MapLoop'
  <2>. SUFFICES ASSUME wipe_pc' = "map"
                PROVE  MapLoop'
    BY DEF MapLoop
  <2>1. e820' \in Maps /\ e820 \in Maps /\ e820' = e820 /\ entry' = 1 /\ ranges' = {}
    BY DEF WipeInv, WipeLists, MemoryWipeUnused
  <2>2. Len(e820') \in Nat
    BY <2>1, EntryType
  <2>3. \A x : ~RamAfter(0, x)
    BY DEF RamAfter
  <2>. QED  BY <2>1, <2>2, <2>3, NoEdges, SameFacts DEF MapLoop
<1>. QED
  BY <1>1, <1>2, <1>3 DEF WipeInv, MemoryWipeUnused, ExcludeLoop, WipeLoop, AllWiped

LEMMA MapEntryInv ==
  ASSUME WipeInv, MapEntry
  PROVE  WipeInv'
<1>. DEFINE r == e820[entry]
            ram == r.type = "ram"
<1>1. UsedIsInUse'
  BY DEF WipeInv, UsedIsInUse, MapEntry, InUse
<1>2. /\ e820 \in Maps /\ entry \in 1 .. Len(e820) /\ Len(e820) \in Nat
      /\ r.base \in Nat /\ r.size \in Nat
  <2>1. e820 \in Maps /\ entry \in 1 .. Len(e820) + 1 /\ entry <= Len(e820)
    BY DEF WipeInv, MapEntry, MapLoop
  <2>2. Len(e820) \in Nat /\ entry \in 1 .. Len(e820)
    BY <2>1, EntryType
  <2>. QED  BY <2>1, <2>2, EntryType
<1>3. CASE wipe_pc' \in {"failed", "aborted"} /\ UNCHANGED <<ranges, entry>>
  <2>1. WipeLists'
    BY <1>3 DEF WipeInv, WipeLists, MapEntry, WipePcs
  <2>. QED
    BY <1>1, <1>3, <2>1 DEF WipeInv, MapLoop, ExcludeLoop, WipeLoop, AllWiped
<1>4. CASE /\ r.size # 0
           /\ ranges' = SetRegionTo(ranges, r.base, r.base + r.size, r.type = "ram")
           /\ entry' = entry + 1
           /\ UNCHANGED wipe_pc
  <2>1. r.base + r.size \in Nat /\ r.base < r.base + r.size
    BY <1>2, <1>4
  <2>2. Edges(ranges)
    BY DEF WipeInv, WipeLists
  <2>3. /\ Edges(ranges')
        /\ \A x \in Nat : Included(ranges', x) =
             (IF r.base <= x /\ x < r.base + r.size THEN ram ELSE Included(ranges, x))
    <3>1. ram \in BOOLEAN
      OBVIOUS
    <3>2. ranges' = SetRegionTo(ranges, r.base, r.base + r.size, ram)
      BY <1>4
    <3>. HIDE DEF ram, r
    <3>. QED  BY <1>2, <2>1, <2>2, <3>1, <3>2, SetRegionToCorrect
  <2>4. WipeLists'
    BY <1>2, <1>4, <2>3 DEF WipeInv, WipeLists, MapEntry
  <2>5. ASSUME NEW x \in Nat
        PROVE  Included(ranges', x) <=> RamAfter(entry - 1, x)'
    <3>1. Included(ranges, x) <=> RamAfter(entry - 1, x)
      BY DEF WipeInv, MapLoop, MapEntry
    <3>2. entry - 1 \in Nat /\ entry - 1 + 1 = entry /\ entry' - 1 = entry
      BY <1>2, <1>4
    <3>3. RamAfter(entry, x) <=>
            IF CoveredBy(entry, x) THEN e820[entry].type = "ram" ELSE RamAfter(entry - 1, x)
      BY <3>2, RamStep
    <3>4. RamAfter(entry - 1, x)' <=> RamAfter(entry, x)
      BY <3>2 DEF MapEntry, RamAfter, CoveredBy
    <3>5. CoveredBy(entry, x) <=> r.base <= x /\ x < r.base + r.size
      BY DEF CoveredBy
    <3>. QED  BY <2>3, <3>1, <3>3, <3>4, <3>5
  <2>6. e820' \in Maps /\ entry' \in (1 .. Len(e820) + 1)'
    BY <1>2, <1>4 DEF MapEntry
  <2>7. MapLoop'
    BY <2>5, <2>6 DEF MapLoop
  <2>. QED
    BY <1>1, <1>4, <2>4, <2>7 DEF WipeInv, MapEntry, ExcludeLoop, WipeLoop, AllWiped
<1>. QED  BY <1>3, <1>4 DEF MapEntry

LEMMA MapDoneInv ==
  ASSUME WipeInv, MapDone
  PROVE  WipeInv'
<1>1. /\ Edges(UsedList) /\ \A x \in Nat : Included(UsedList, x) <=> InUse(x)
  BY UsedListCorrect DEF WipeInv
<1>2. WipeLists'
  BY <1>1 DEF WipeInv, WipeLists, MapDone, WipePcs
<1>3. UsedIsInUse'
  BY <1>1, SameFacts DEF WipeInv, UsedIsInUse, MapDone
<1>4. entry - 1 = Len(e820)
  <2>1. e820 \in Maps /\ entry \in 1 .. Len(e820) + 1 /\ entry > Len(e820)
    BY DEF WipeInv, MapLoop, MapDone
  <2>2. Len(e820) \in Nat
    BY <2>1, WipeAssumption
  <2>. QED  BY <2>1, <2>2
<1>5. \A x \in Nat : Included(ranges, x) <=> RamAfter(Len(e820), x)
  BY <1>4 DEF WipeInv, MapLoop, MapDone
<1>6. ExcludeLoop'
  BY <1>5, SameFacts DEF ExcludeLoop, MapDone
<1>. QED
  BY <1>2, <1>3, <1>6 DEF WipeInv, MapDone, MapLoop, WipeLoop, AllWiped

LEMMA ExcludeUsedInv ==
  ASSUME WipeInv, ExcludeUsed
  PROVE  WipeInv'
<1>. DEFINE a == First(left)
            b == Second(left)
<1>1. Edges(left) /\ Edges(ranges) /\ AnotherRange(left)
  BY DEF WipeInv, WipeLists, ExcludeUsed
<1>2. /\ a \in Nat /\ b \in Nat /\ a < b
      /\ Edges(Rest(left))
      /\ \A x \in Nat :
           /\ a <= x /\ x < b => Included(left, x)
           /\ Included(Rest(left), x) <=> Included(left, x) /\ ~(a <= x /\ x < b)
  BY <1>1, RestCorrect
<1>3. /\ ranges' = SetRegionTo(ranges, a, b, FALSE)
      /\ left' = Rest(left)
  BY DEF ExcludeUsed, Sub
<1>4. /\ Edges(ranges')
      /\ \A x \in Nat : Included(ranges', x) =
           (IF a <= x /\ x < b THEN FALSE ELSE Included(ranges, x))
  <2>1. a \in Nat /\ b \in Nat /\ a < b
    BY <1>2
  <2>2. ranges' = SetRegionTo(ranges, a, b, FALSE) /\ FALSE \in BOOLEAN
    BY <1>3
  <2>. HIDE DEF a, b
  <2>. QED  BY <1>1, <2>1, <2>2, SetRegionToCorrect
<1>5. WipeLists'
  BY <1>2, <1>3, <1>4 DEF WipeInv, WipeLists, ExcludeUsed
<1>6. UsedIsInUse'
  BY SameFacts DEF WipeInv, UsedIsInUse, ExcludeUsed
<1>7. ASSUME NEW x \in Nat
      PROVE  /\ Included(left', x) => Included(used', x)
             /\ Included(ranges', x) <=>
                  /\ RamAfter(Len(e820), x)'
                  /\ ~(Included(used', x) /\ ~Included(left', x))
  <2>1. /\ Included(left, x) => Included(used, x)
        /\ Included(ranges, x) <=>
             RamAfter(Len(e820), x) /\ ~(Included(used, x) /\ ~Included(left, x))
    BY DEF WipeInv, ExcludeLoop, ExcludeUsed
  <2>2. used' = used /\ (RamAfter(Len(e820), x)' <=> RamAfter(Len(e820), x))
    BY SameFacts DEF ExcludeUsed
  <2>3. Included(left', x) <=> Included(left, x) /\ ~(a <= x /\ x < b)
    BY <1>2, <1>3
  <2>. QED  BY <1>2, <1>4, <2>1, <2>2, <2>3
<1>8. ExcludeLoop'
  BY <1>7 DEF WipeInv, ExcludeLoop, ExcludeUsed
<1>. QED
  BY <1>5, <1>6, <1>8 DEF WipeInv, ExcludeUsed, MapLoop, WipeLoop, AllWiped

LEMMA ExcludeDoneInv ==
  ASSUME WipeInv, ExcludeDone
  PROVE  WipeInv'
<1>1. \A x : ~Included(left, x)
  BY NoRangeLeft DEF WipeInv, WipeLists, ExcludeDone
<1>2. \A x \in Nat : Included(ranges, x) <=> RamAfter(Len(e820), x) /\ ~InUse(x)
  BY <1>1 DEF WipeInv, UsedIsInUse, ExcludeLoop, ExcludeDone
<1>3. WipeLists'
  BY DEF WipeInv, WipeLists, ExcludeDone, WipePcs
<1>4. UsedIsInUse'
  BY SameFacts DEF WipeInv, UsedIsInUse, ExcludeDone
<1>5. WipeLoop'
  <2>1. wiped' = {} /\ ranges' = ranges /\ left' = ranges
    BY DEF WipeInv, WipeLists, ExcludeDone
  <2>. QED  BY <1>2, <2>1, SameFacts DEF WipeLoop, ExcludeDone
<1>. QED
  BY <1>3, <1>4, <1>5 DEF WipeInv, ExcludeDone, MapLoop, ExcludeLoop, AllWiped

LEMMA WipeRangeInv ==
  ASSUME WipeInv, WipeRange
  PROVE  WipeInv'
<1>. DEFINE a == First(left)
            b == Second(left)
<1>1. Edges(left) /\ AnotherRange(left)
  BY DEF WipeInv, WipeLists, WipeRange
<1>2. /\ a \in Nat /\ b \in Nat /\ a < b
      /\ Edges(Rest(left))
      /\ \A x \in Nat :
           /\ a <= x /\ x < b => Included(left, x)
           /\ Included(Rest(left), x) <=> Included(left, x) /\ ~(a <= x /\ x < b)
  BY <1>1, RestCorrect
<1>3. /\ \A x \in Nat : x \in wiped' <=> x \in wiped \/ (a <= x /\ x < b)
      /\ \A x \in wiped' : x \in Nat
  BY <1>2 DEF WipeInv, WipeLists, WipeRange
<1>4. WipeLists'
  BY <1>2, <1>3 DEF WipeInv, WipeLists, WipeRange
<1>5. UsedIsInUse'
  BY SameFacts DEF WipeInv, UsedIsInUse, WipeRange
<1>6. ASSUME NEW x \in Nat
      PROVE  /\ Included(ranges', x) <=> (RamAfter(Len(e820), x) /\ ~InUse(x))'
             /\ Included(left', x) => Included(ranges', x)
             /\ x \in wiped' <=> Included(ranges', x) /\ ~Included(left', x)
  <2>1. /\ Included(ranges, x) <=> RamAfter(Len(e820), x) /\ ~InUse(x)
        /\ Included(left, x) => Included(ranges, x)
        /\ x \in wiped <=> Included(ranges, x) /\ ~Included(left, x)
    BY DEF WipeInv, WipeLoop, WipeRange
  <2>2. /\ ranges' = ranges /\ left' = Rest(left)
        /\ (RamAfter(Len(e820), x) /\ ~InUse(x))' <=> (RamAfter(Len(e820), x) /\ ~InUse(x))
    BY SameFacts DEF WipeRange
  <2>3. Included(left', x) <=> Included(left, x) /\ ~(a <= x /\ x < b)
    BY <1>2, <2>2
  <2>. QED  BY <1>2, <1>3, <2>1, <2>2, <2>3
<1>7. WipeLoop'
  BY <1>6 DEF WipeLoop
<1>. QED
  BY <1>4, <1>5, <1>7 DEF WipeInv, WipeRange, MapLoop, ExcludeLoop, AllWiped

LEMMA WipeDoneInv ==
  ASSUME WipeInv, WipeDone
  PROVE  WipeInv'
<1>1. \A x : ~Included(left, x)
  BY NoRangeLeft DEF WipeInv, WipeLists, WipeDone
<1>2. \A x \in Nat : x \in wiped <=> RamAfter(Len(e820), x) /\ ~InUse(x)
  BY <1>1 DEF WipeInv, WipeLoop, WipeDone
<1>3. WipeLists'
  BY NoEdges DEF WipeInv, WipeLists, WipeDone, WipePcs
<1>4. UsedIsInUse'
  BY SameFacts DEF WipeInv, UsedIsInUse, WipeDone
<1>5. AllWiped'
  BY <1>2, SameFacts DEF AllWiped, WipeDone
<1>. QED
  BY <1>3, <1>4, <1>5 DEF WipeInv, WipeDone, MapLoop, ExcludeLoop, WipeLoop

LEMMA StutterInv ==
  ASSUME WipeInv, UNCHANGED wipeVars
  PROVE  WipeInv'
<1>1. /\ \A n, x : RamAfter(n, x)' <=> RamAfter(n, x)
      /\ \A x : InUse(x)' <=> InUse(x)
  BY SameFacts DEF wipeVars
<1>. QED
  BY <1>1 DEF WipeInv, wipeVars, WipeLists, UsedIsInUse, MapLoop, ExcludeLoop, WipeLoop, AllWiped

\* Every step keeps the invariant.
LEMMA StepInv == WipeInv /\ [WipeNext]_wipeVars => WipeInv'
BY MarkInv, CallInv, MapEntryInv, MapDoneInv, ExcludeUsedInv, ExcludeDoneInv,
   WipeRangeInv, WipeDoneInv, StutterInv DEF WipeNext, WipeSteps

THEOREM WipeInvHolds == WipeSpec => []WipeInv
BY InitInv, StepInv, PTL DEF WipeSpec

-----------------------------------------------------------------------------
\* Every variable keeps its type, whatever the memory map.
THEOREM WipeTypeCorrect == WipeSpec => []WipeTypeOK
<1>1. WipeInv => WipeTypeOK
  BY DEF WipeInv, WipeLists, Edges, WipeTypeOK
<1>. QED  BY <1>1, WipeInvHolds, PTL

\* memory_wipe_unused() never clears an address that is marked as used, that is
\* inside the image or that the memory map does not give as RAM.
THEOREM WipeIsSafe == WipeSpec => []NothingInUseIsWiped
<1>1. WipeInv => NothingInUseIsWiped
  <2>. SUFFICES ASSUME WipeInv, NEW x \in wiped
                PROVE  ~InUse(x) /\ RamAfter(Len(e820), x)
    BY DEF NothingInUseIsWiped
  <2>1. x \in Nat /\ wipe_pc \in {"wipe", "done"}
    BY DEF WipeInv, WipeLists, WipePcs
  <2>. QED  BY <2>1 DEF WipeInv, WipeLoop, AllWiped
<1>. QED  BY <1>1, WipeInvHolds, PTL

\* When memory_wipe_unused() returns 0, all RAM that is not in use is clear.
THEOREM WipeIsComplete == WipeSpec => []AllElseIsWiped
<1>1. WipeInv => AllElseIsWiped
  <2>. SUFFICES ASSUME WipeInv, wipe_pc = "done",
                       NEW k \in 1 .. Len(e820),
                       NEW x \in e820[k].base .. e820[k].base + e820[k].size - 1,
                       RamAfter(Len(e820), x), ~InUse(x)
                PROVE  x \in wiped
    BY DEF AllElseIsWiped
  <2>1. e820[k].base \in Nat /\ e820[k].size \in Nat
    BY EntryType DEF WipeInv, WipeLists
  <2>2. x \in Nat
    BY <2>1
  <2>. QED  BY <2>2 DEF WipeInv, AllWiped
<1>. QED  BY <1>1, WipeInvHolds, PTL

\* Together: whatever the memory map and the marks, the wipe is exact.
THEOREM WipeIsExact == WipeSpec => []WipesWhatIsUnused
BY WipeIsSafe, WipeIsComplete, PTL DEF WipesWhatIsUnused

-----------------------------------------------------------------------------
(***************************************************************************)
(* The boot flow: the invariant.                                           *)
(***************************************************************************)

\* A device that the image has started has a handler.
Handled ==
  /\ started \subseteq handlers
  /\ stuck \subseteq handlers
  /\ handlers \subseteq Devices
  /\ up \subseteq Devices

Flow ==
  /\ image \in {"ro", "rw"} /\ pc \in Pcs
  /\ out_flags \in SUBSET {"clear_ram", "enable_developer"}
  /\ answers \in [Calls -> Answers \cup {"none"}]

Refusal == {"reboot_ec_to_ro", "power_off", "cold_reboot", "reset", "off", "halted"}

\* RefusalIsFinal, and the way to it: the machine is not about to be reset either.
Final ==
  /\ \A c \in Calls : answers[c] \notin {"none", "success"} => pc \in Refusal
  /\ answers["VbSelectAndLoadKernel"] \in {"ec_reboot", "shutdown"} =>
       pc \notin {"cold_reboot", "reset"}

BootInv == Flow /\ Handled /\ Final /\ ClearedFirst /\ NothingLeftRunning

-----------------------------------------------------------------------------
\* The boot clears RAM as MemoryWipe says: once, and marks nothing afterwards.
LEMMA BootWipes == BootSpec => WipeSpec
<1>1. BootInit => WipeInit
  BY DEF BootInit
<1>2. ASSUME [BootNext]_bootVars
      PROVE  [WipeNext]_wipeVars
  <2>1. CASE MarkUsed
    BY <2>1 DEF MarkUsed, WipeNext
  <2>2. CASE OutFlags
    BY <2>2 DEF OutFlags, WipeNext
  <2>3. CASE Wiping
    BY <2>3 DEF Wiping, WipeNext
  <2>4. CASE \/ InitFuncs \/ UseDevice \/ VbInitReturns \/ WipeReturns \/ KeyboardPrepare
             \/ SelectFirmware \/ VbSelectFirmwareReturns \/ StartModule
    BY <2>4 DEF InitFuncs, UseDevice, VbInitReturns, WipeReturns, KeyboardPrepare,
                SelectFirmware, VbSelectFirmwareReturns, StartModule
  <2>5. CASE \/ LoadKernel \/ VbSelectAndLoadKernelReturns \/ BootKernel
             \/ Legacy \/ LegacyReturns \/ RebootEcToRo \/ ColdReboot \/ PowerOff
    BY <2>5 DEF LoadKernel, VbSelectAndLoadKernelReturns, BootKernel, Legacy,
                LegacyReturns, RebootEcToRo, ColdReboot, PowerOff, Power
  <2>6. CASE UNCHANGED bootVars
    BY <2>6 DEF bootVars
  <2>. QED  BY <1>2, <2>1, <2>2, <2>3, <2>4, <2>5, <2>6 DEF BootNext
<1>. QED  BY <1>1, <1>2, PTL DEF BootSpec, WipeSpec

-----------------------------------------------------------------------------
\* The flow from stage to stage.

LEMMA FlowStep ==
  ASSUME BootInv, [BootNext]_bootVars
  PROVE  Flow'
<1>. USE DEF BootInv, Flow, Pcs, Calls, Ends, Goto, OrHalts
<1>1. CASE MarkUsed
  BY <1>1 DEF MarkUsed, flowVars
<1>2. CASE InitFuncs
  BY <1>2 DEF InitFuncs
<1>3. CASE UseDevice
  BY <1>3 DEF UseDevice, flowVars
<1>4. CASE VbInitReturns
  BY <1>4 DEF VbInitReturns, Proceed, Refused, Answers
<1>5. CASE OutFlags
  BY <1>5 DEF OutFlags
<1>6. CASE Wiping
  BY <1>6 DEF Wiping, flowVars
<1>7. CASE WipeReturns
  BY <1>7 DEF WipeReturns
<1>8. CASE KeyboardPrepare
  BY <1>8 DEF KeyboardPrepare
<1>9. CASE SelectFirmware
  BY <1>9 DEF SelectFirmware
<1>10. CASE VbSelectFirmwareReturns
  BY <1>10 DEF VbSelectFirmwareReturns, Proceed, Refused, Answers
<1>11. CASE StartModule
  BY <1>11 DEF StartModule
<1>12. CASE LoadKernel
  BY <1>12 DEF LoadKernel
<1>13. CASE VbSelectAndLoadKernelReturns
  BY <1>13 DEF VbSelectAndLoadKernelReturns, Proceed, Refused, Answers
<1>14. CASE BootKernel
  BY <1>14 DEF BootKernel
<1>15. CASE Legacy \/ LegacyReturns
  BY <1>15 DEF Legacy, LegacyReturns
<1>16. CASE RebootEcToRo
  BY <1>16 DEF RebootEcToRo
<1>17. CASE ColdReboot \/ PowerOff
  BY <1>17 DEF ColdReboot, PowerOff, Power
<1>18. CASE UNCHANGED bootVars
  BY <1>18 DEF bootVars, flowVars
<1>. QED
  BY <1>1, <1>2, <1>3, <1>4, <1>5, <1>6, <1>7, <1>8, <1>9, <1>10, <1>11, <1>12,
     <1>13, <1>14, <1>15, <1>16, <1>17, <1>18 DEF BootNext

\* A refusal can only be followed by what it asks for.
LEMMA FinalStep ==
  ASSUME BootInv, [BootNext]_bootVars
  PROVE  Final'
<1>. USE DEF BootInv, Flow, Final, Refusal, Calls, Goto, OrHalts
<1>1. CASE MarkUsed
  BY <1>1 DEF MarkUsed, flowVars
<1>2. CASE InitFuncs
  BY <1>2 DEF InitFuncs
<1>3. CASE UseDevice
  BY <1>3 DEF UseDevice, flowVars
<1>4. CASE VbInitReturns
  BY <1>4 DEF VbInitReturns, Proceed, Refused, Answers
<1>5. CASE OutFlags
  BY <1>5 DEF OutFlags
<1>6. CASE Wiping
  BY <1>6 DEF Wiping, flowVars
<1>7. CASE WipeReturns
  BY <1>7 DEF WipeReturns
<1>8. CASE KeyboardPrepare
  BY <1>8 DEF KeyboardPrepare
<1>9. CASE SelectFirmware
  BY <1>9 DEF SelectFirmware
<1>10. CASE VbSelectFirmwareReturns
  BY <1>10 DEF VbSelectFirmwareReturns, Proceed, Refused, Answers
<1>11. CASE StartModule
  BY <1>11 DEF StartModule
<1>12. CASE LoadKernel
  BY <1>12 DEF LoadKernel
<1>13. CASE VbSelectAndLoadKernelReturns
  BY <1>13 DEF VbSelectAndLoadKernelReturns, Proceed, Refused, Answers
<1>14. CASE BootKernel
  BY <1>14 DEF BootKernel
<1>15. CASE Legacy \/ LegacyReturns
  BY <1>15 DEF Legacy, LegacyReturns
<1>16. CASE RebootEcToRo
  BY <1>16 DEF RebootEcToRo
<1>17. CASE ColdReboot \/ PowerOff
  BY <1>17 DEF ColdReboot, PowerOff, Power
<1>18. CASE UNCHANGED bootVars
  BY <1>18 DEF bootVars, flowVars
<1>. QED
  BY <1>1, <1>2, <1>3, <1>4, <1>5, <1>6, <1>7, <1>8, <1>9, <1>10, <1>11, <1>12,
     <1>13, <1>14, <1>15, <1>16, <1>17, <1>18 DEF BootNext

\* Between the answer that asks for it and the choice of the firmware, RAM is
\* cleared; afterwards it stays so, because nothing more can be marked.
LEMMA ClearedStep ==
  ASSUME BootInv, [BootNext]_bootVars
  PROVE  ClearedFirst'
<1>. USE DEF BootInv, Flow, ClearedFirst, Calls, Goto, OrHalts
<1>1. CASE MarkUsed
  BY <1>1 DEF MarkUsed, flowVars, MemoryMarkUsed
<1>2. CASE Wiping
  BY <1>2 DEF Wiping, flowVars
<1>3. CASE OutFlags
  BY <1>3 DEF OutFlags
<1>4. CASE WipeReturns
  BY <1>4 DEF WipeReturns, wipeVars
<1>5. CASE VbInitReturns
  BY <1>5 DEF VbInitReturns, Proceed, Refused, Answers
<1>6. CASE InitFuncs \/ UseDevice \/ KeyboardPrepare \/ SelectFirmware \/ StartModule
  BY <1>6 DEF InitFuncs, UseDevice, KeyboardPrepare, SelectFirmware, StartModule,
              wipeVars, flowVars
<1>7. CASE VbSelectFirmwareReturns \/ VbSelectAndLoadKernelReturns
  BY <1>7 DEF VbSelectFirmwareReturns, VbSelectAndLoadKernelReturns, wipeVars
<1>8. CASE \/ LoadKernel \/ BootKernel \/ Legacy \/ LegacyReturns \/ RebootEcToRo
           \/ ColdReboot \/ PowerOff
  BY <1>8 DEF LoadKernel, BootKernel, Legacy, LegacyReturns, RebootEcToRo,
              ColdReboot, PowerOff, Power, wipeVars
<1>9. CASE UNCHANGED bootVars
  BY <1>9 DEF bootVars, flowVars, wipeVars
<1>. QED
  BY <1>1, <1>2, <1>3, <1>4, <1>5, <1>6, <1>7, <1>8, <1>9 DEF BootNext

-----------------------------------------------------------------------------
\* The devices.

\* Whatever handlers fail, each device that has one is at rest, or its handler is
\* among those that failed.
LEMMA TriggerStops ==
  ASSUME Handled, NEW type, NEW failing, CleanupTrigger(type, failing)
  PROVE  /\ Handled'
         /\ \A d \in started : type \in HandlerTypes(d) =>
              d \notin up' \/ (d \in failing /\ d \in stuck')
<1>. DEFINE run == {d \in handlers : type \in HandlerTypes(d)}
<1>1. /\ failing \subseteq run
      /\ up' = up \ (run \ failing)
      /\ stuck' = (stuck \ run) \cup failing
      /\ started' = started /\ handlers' = handlers
  BY DEF CleanupTrigger
<1>2. \A d \in started : type \in HandlerTypes(d) => d \in run
  BY DEF Handled
<1>3. run \subseteq handlers
  OBVIOUS
<1>. HIDE DEF run
<1>4. Handled'
  BY <1>1, <1>3 DEF Handled
<1>. QED  BY <1>1, <1>2, <1>4

LEMMA StartHandled ==
  ASSUME Handled, NEW devs \in SUBSET Devices, Start(devs)
  PROVE  Handled'
BY DEF Handled, Start

LEMMA DeviceStep ==
  ASSUME BootInv, [BootNext]_bootVars
  PROVE  Handled' /\ NothingLeftRunning'
<1>. USE DEF BootInv
<1>1. CASE InitFuncs
  BY <1>1 DEF InitFuncs, OrHalts, Goto, Handled, Devices, NothingLeftRunning
<1>2. CASE UseDevice
  <2>1. pc' \in Calls
    BY <1>2 DEF UseDevice, flowVars
  <2>2. Handled'
    BY <1>2, StartHandled DEF UseDevice
  <2>. QED  BY <2>1, <2>2 DEF Calls, NothingLeftRunning
<1>3. CASE KeyboardPrepare
  <2>1. pc' = "select"
    BY <1>3 DEF KeyboardPrepare, Goto
  <2>2. {"usb", "ps2"} \in SUBSET Devices
    BY DEF Devices
  <2>3. Handled'
    <3>1. CASE Start({"usb", "ps2"})
      BY <2>2, <3>1, StartHandled
    <3>2. CASE UNCHANGED deviceVars
      BY <3>2 DEF Handled, deviceVars
    <3>. QED  BY <1>3, <3>1, <3>2 DEF KeyboardPrepare
  <2>. QED  BY <2>1, <2>3 DEF NothingLeftRunning
<1>4. CASE StartModule
  BY <1>4 DEF StartModule, Goto, deviceVars, Handled, NothingLeftRunning
<1>5. CASE BootKernel \/ Legacy
  <2>1. CASE pc' = "halted" /\ UNCHANGED deviceVars
    BY <2>1 DEF deviceVars, Handled, NothingLeftRunning
  <2>2. CASE /\ pc' \in {"kernel", "legacy"}
             /\ \E failing \in SUBSET Devices, type \in {"handoff", "legacy"} :
                  CleanupTrigger(type, failing)
    <3>1. PICK failing \in SUBSET Devices, type \in {"handoff", "legacy"} :
                 CleanupTrigger(type, failing)
      BY <2>2
    <3>2. /\ Handled'
          /\ \A d \in started : type \in HandlerTypes(d) => d \notin up' \/ d \in stuck'
      BY <3>1, TriggerStops
    <3>3. \A d : type \in HandlerTypes(d)
      BY DEF HandlerTypes
    <3>4. started' = started
      BY <3>1 DEF CleanupTrigger
    <3>. QED  BY <2>2, <3>2, <3>3, <3>4 DEF NothingLeftRunning
  <2>. QED  BY <1>5, <2>1, <2>2 DEF BootKernel, Legacy, Goto
<1>6. CASE ColdReboot \/ PowerOff
  <2>1. PICK failing \in SUBSET Devices, type \in {"reboot", "poweroff"} :
               /\ CleanupTrigger(type, failing)
               /\ pc' \in {"reset", "off", "halted"}
               /\ failing # {} => pc' = "halted"
    BY <1>6 DEF ColdReboot, PowerOff, Power, OrHalts, Goto
  <2>2. /\ Handled'
        /\ \A d \in started : type \in HandlerTypes(d) => d \notin up' \/ d \in failing
    BY <2>1, TriggerStops
  <2>3. type \in HandlerTypes("tpm")
    BY DEF HandlerTypes
  <2>4. started' = started
    BY <2>1 DEF CleanupTrigger
  <2>. QED  BY <2>1, <2>2, <2>3, <2>4 DEF NothingLeftRunning
<1>7. CASE /\ UNCHANGED deviceVars
           /\ pc' \in {"kernel", "legacy", "reset", "off"} => pc' = pc
  BY <1>7 DEF deviceVars, Handled, NothingLeftRunning
<1>8. CASE \/ MarkUsed \/ VbInitReturns \/ OutFlags \/ Wiping \/ WipeReturns
           \/ SelectFirmware \/ VbSelectFirmwareReturns
  BY <1>7, <1>8 DEF MarkUsed, VbInitReturns, OutFlags, Wiping, WipeReturns,
     SelectFirmware, VbSelectFirmwareReturns, OrHalts, Goto, flowVars, Proceed, Refused
<1>9. CASE LoadKernel \/ VbSelectAndLoadKernelReturns \/ LegacyReturns \/ RebootEcToRo
  BY <1>7, <1>9 DEF LoadKernel, VbSelectAndLoadKernelReturns, LegacyReturns,
     RebootEcToRo, OrHalts, Goto, Proceed, Refused
<1>10. CASE UNCHANGED bootVars
  BY <1>7, <1>10 DEF bootVars, flowVars, deviceVars
<1>. QED
  BY <1>1, <1>2, <1>3, <1>4, <1>5, <1>6, <1>8, <1>9, <1>10 DEF BootNext

-----------------------------------------------------------------------------
LEMMA BootInitInv == BootInit => BootInv
BY DEF BootInit, BootInv, Flow, Handled, Final, ClearedFirst, NothingLeftRunning,
   Pcs, Calls, Answers

THEOREM BootInvHolds == BootSpec => []BootInv
<1>1. BootInv /\ [BootNext]_bootVars => BootInv'
  BY FlowStep, DeviceStep, FinalStep, ClearedStep DEF BootInv
<1>. QED  BY <1>1, BootInitInv, PTL DEF BootSpec

\* Every variable keeps its type, and a device that the image has started has a
\* handler.
THEOREM BootTypeCorrect == BootSpec => []BootTypeOK
<1>1. BootInv /\ WipeTypeOK => BootTypeOK
  BY DEF BootInv, Flow, Handled, BootTypeOK
<1>. QED  BY <1>1, BootInvHolds, BootWipes, WipeTypeCorrect, PTL

\* Once vboot has refused, no other image and no kernel runs, and where power off
\* was asked for the machine is not reset instead.
THEOREM RefusalHolds == BootSpec => []RefusalIsFinal
<1>1. BootInv => RefusalIsFinal
  BY DEF BootInv, Final, Refusal, Calls, RefusalIsFinal
<1>. QED  BY <1>1, BootInvHolds, PTL

\* When vboot asks for it, all RAM that is not in use has been cleared before the
\* firmware is chosen, and nothing that is in use.
THEOREM ClearedBeforeUse ==
  BootSpec => [](ClearedFirst /\ WipesWhatIsUnused)
<1>1. BootInv => ClearedFirst
  BY DEF BootInv
<1>. QED  BY <1>1, BootInvHolds, BootWipes, WipeIsExact, PTL

\* What runs after depthcharge finds no device running that the last image has
\* started, unless its handler failed; and a reset never cuts off an open TPM.
THEOREM DevicesAtRest == BootSpec => []NothingLeftRunning
<1>1. BootInv => NothingLeftRunning
  BY DEF BootInv
<1>. QED  BY <1>1, BootInvHolds, PTL

-----------------------------------------------------------------------------
(***************************************************************************)
(* A boot beside the allocator that it works with.                         *)
(***************************************************************************)

\* In a behaviour of either, each keeps its types: the other leaves its variables alone.
THEOREM BootPartsTypeCorrect == MCSpec => []BootPartsTypeOK
<1>1. MCInit => BootInit /\ MallocInit
  BY DEF MCInit
<1>2. [MCNext]_<<bootVars, mallocVars, part>> => [BootNext]_bootVars /\ [MallocNext]_mallocVars
  BY DEF MCNext
<1>3. MCSpec => BootSpec /\ MallocSpec
  BY <1>1, <1>2, PTL DEF MCSpec, BootSpec, MallocSpec
<1>4. BootTypeOK /\ MallocTypeOK => BootPartsTypeOK
  BY DEF BootPartsTypeOK
<1>5. MallocSpec => []MallocTypeOK
  BY MallocTypes
<1>. QED  BY <1>3, <1>4, <1>5, BootTypeCorrect, PTL
=============================================================================

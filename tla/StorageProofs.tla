---------------------------- MODULE StorageProofs ----------------------------
(***************************************************************************)
(* flash_storage_write() keeps the promise of StorageDevice: for every     *)
(* size of the flash and of its sectors, every contents, every buffer at   *)
(* every offset, and whatever command fails or loses its power.            *)
(***************************************************************************)
EXTENDS FlashStorage, TLAPS, WellFoundedInduction

\* The loop and the buffer stay in step, sector after sector.
InStep ==
  /\ request \in Requests /\ request.offset + Len(request.data) <= Size
  /\ input_pos \in 0 .. Len(request.data) /\ extra_low \in 0 .. EraseSize - 1
  /\ pos \in Nat /\ pos % EraseSize = 0 /\ pos <= End
  /\ pos < End => pos + extra_low = request.offset + input_pos
  /\ pos = End => input_pos = Len(request.data)

\* Programming the merged sector stores it: every bit that is to be one is one.
Programmable ==
  /\ existing \in [1 .. EraseSize -> Bytes]
  /\ \A i \in 1 .. EraseSize : Merged[i] \subseteq flash[pos + i - 1]

StorageInv ==
  /\ flash \in [Addrs -> Bytes]
  /\ fs_pc \in FsPcs /\ ret \in {"ok", "failed", "none"}
  /\ fs_pc = "idle" => request = NoWrite /\ input_pos = 0
  /\ fs_pc \in {"idle", "loop"} => existing = <<>>
  /\ fs_pc # "idle" => InStep
  /\ fs_pc \in {"erase", "program"} => pos < End
  /\ fs_pc = "erase" => existing = Slice(flash, pos, EraseSize)
  /\ fs_pc = "program" => Programmable

-----------------------------------------------------------------------------
(***************************************************************************)
(* Numbers and sectors.                                                    *)
(***************************************************************************)

LEMMA Least ==
  ASSUME NEW S, S \subseteq Nat, S # {}
  PROVE  \E x \in S : \A y \in S : x <= y
<1>1. PICK x \in S : \A y \in S : ~(<<y, x>> \in OpToRel(<, Nat))
  BY NatLessThanWellFounded, WFMin, Zenon
<1>2. ASSUME NEW y \in S
      PROVE  x <= y
  <2>1. <<y, x>> \in Nat \X Nat
    OBVIOUS
  <2>2. ~(<<y, x>>[1] < <<y, x>>[2])
    BY <1>1, <2>1, Zenon DEF OpToRel
  <2> QED BY <2>2
<1> QED BY <1>2

LEMMA Greatest ==
  ASSUME NEW n \in Nat, NEW S, S \subseteq 1 .. n, S # {}
  PROVE  \E x \in S : \A y \in S : y <= x
<1> DEFINE T == {n - x : x \in S}
<1>1. T \subseteq Nat /\ T # {}
  <2>1. \A x \in S : n - x \in Nat
    OBVIOUS
  <2> QED BY <2>1
<1>2. PICK t \in T : \A u \in T : t <= u
  <2> HIDE DEF T
  <2> QED BY <1>1, Least
<1>3. PICK x \in S : t = n - x
  OBVIOUS
<1>4. ASSUME NEW y \in S PROVE y <= x
  <2>1. t <= n - y
    BY <1>2
  <2> QED BY <1>3, <2>1
<1> QED BY <1>4

LEMMA Times ==
  ASSUME NEW j \in Nat, NEW n \in Nat
  PROVE  j * n \in Nat
OBVIOUS

LEMMA Multiple ==
  ASSUME NEW x \in Nat, NEW n \in Nat \ {0}
  PROVE  \E q \in Nat : q = x \div n /\ x % n \in 0 .. n - 1 /\ x = q * n + (x % n)
<1>1. x \div n \in Nat /\ x % n \in 0 .. n - 1
  OBVIOUS
<1>2. x = (x \div n) * n + (x % n)
  OBVIOUS
<1> QED BY <1>1, <1>2

\* Between two neighbouring multiples of n lies no other.
LEMMA MultiplesApart ==
  ASSUME NEW j \in Nat, NEW k \in Nat, NEW n \in Nat \ {0}, j * n < k * n
  PROVE  j * n + n <= k * n
<1>1. j < k
  <2>1. ASSUME k <= j PROVE FALSE
    <3>1. PICK d \in Nat : j = k + d
      BY <2>1
    <3>2. j * n = k * n + d * n
      BY <3>1
    <3>3. j * n \in Nat /\ k * n \in Nat /\ d * n \in Nat
      BY Times
    <3> QED BY <3>2, <3>3
  <2> QED BY <2>1
<1>2. PICK d \in Nat : k = j + 1 + d
  BY <1>1
<1>3. k * n = j * n + n + d * n
  BY <1>2
<1>4. j * n \in Nat /\ d * n \in Nat
  BY Times
<1> QED BY <1>3, <1>4

LEMMA AlignedIs ==
  ASSUME NEW x \in Nat, NEW n \in Nat \ {0}
  PROVE  x % n = 0 <=> \E k \in Nat : x = k * n
<1>1. PICK q \in Nat : x % n \in 0 .. n - 1 /\ x = q * n + (x % n)
  BY Multiple
<1>2. q * n \in Nat
  BY Times
<1>3. ASSUME x % n = 0 PROVE x = q * n
  BY <1>1, <1>2, <1>3
<1>4. ASSUME NEW k \in Nat, x = k * n PROVE x % n = 0
  <2>1. ~(q * n < k * n)
    <3>1. ASSUME q * n < k * n PROVE FALSE
      <4>1. q * n + n <= k * n
        BY <3>1, MultiplesApart
      <4> QED BY <1>1, <1>2, <1>4, <4>1
    <3> QED BY <3>1
  <2> QED BY <1>1, <1>2, <1>4, <2>1
<1> QED BY <1>3, <1>4

LEMMA AlignedApart ==
  ASSUME NEW x \in Nat, NEW y \in Nat, NEW n \in Nat \ {0}, x % n = 0, y % n = 0, x < y
  PROVE  x + n <= y
<1>1. PICK j \in Nat : x = j * n
  BY AlignedIs
<1>2. PICK k \in Nat : y = k * n
  BY AlignedIs
<1> QED BY <1>1, <1>2, MultiplesApart

LEMMA AlignedNext ==
  ASSUME NEW x \in Nat, NEW n \in Nat \ {0}, x % n = 0
  PROVE  (x + n) % n = 0
<1>1. PICK k \in Nat : x = k * n
  BY AlignedIs
<1>2. x + n = (k + 1) * n /\ k + 1 \in Nat /\ x + n \in Nat
  BY <1>1
<1> QED BY <1>2, AlignedIs

LEMMA SectorFacts ==
  ASSUME NEW x \in Nat
  PROVE  /\ SectorOf(x) \in Nat /\ SectorOf(x) % EraseSize = 0
         /\ SectorOf(x) <= x /\ x < SectorOf(x) + EraseSize
<1>1. EraseSize \in Nat \ {0}
  BY FlashAssumption
<1>2. PICK q \in Nat : x % EraseSize \in 0 .. EraseSize - 1 /\ x = q * EraseSize + (x % EraseSize)
  BY <1>1, Multiple
<1>3. q * EraseSize \in Nat
  BY <1>1, Times
<1>4. SectorOf(x) = q * EraseSize
  BY <1>1, <1>2, <1>3 DEF SectorOf
<1>5. SectorOf(x) % EraseSize = 0
  BY <1>1, <1>3, <1>4, AlignedIs
<1> QED BY <1>1, <1>2, <1>3, <1>4, <1>5

LEMMA SectorIs ==
  ASSUME NEW p \in Nat, p % EraseSize = 0, NEW x \in Nat, p <= x, x < p + EraseSize
  PROVE  SectorOf(x) = p
<1>1. EraseSize \in Nat \ {0}
  BY FlashAssumption
<1>2. ~(p < SectorOf(x)) /\ ~(SectorOf(x) < p)
  BY <1>1, SectorFacts, AlignedApart
<1> QED BY <1>2, SectorFacts

-----------------------------------------------------------------------------
(***************************************************************************)
(* One sector of a write.                                                  *)
(***************************************************************************)

\* The end of the last sector that a write up to x touches.
LEMMA EndFacts ==
  ASSUME NEW x \in Nat, x <= Size
  PROVE  LET e == SectorOf(x + EraseSize - 1)
         IN  e \in Nat /\ e % EraseSize = 0 /\ x <= e /\ e < x + EraseSize /\ e <= Size
<1> DEFINE e == SectorOf(x + EraseSize - 1)
<1>1. EraseSize \in Nat \ {0} /\ Size \in Nat /\ Size % EraseSize = 0
  BY FlashAssumption
<1>2. x + EraseSize - 1 \in Nat
  BY <1>1
<1>3. e \in Nat /\ e % EraseSize = 0 /\ e <= x + EraseSize - 1 /\ x + EraseSize - 1 < e + EraseSize
  BY <1>2, SectorFacts
<1> HIDE DEF e
<1>4. ~(Size < e)
  <2>1. ASSUME Size < e PROVE FALSE
    <3>1. Size + EraseSize <= e
      BY <1>1, <1>3, <2>1, AlignedApart
    <3> QED BY <1>1, <1>3, <3>1
  <2> QED BY <2>1
<1>5. e \in Nat /\ e % EraseSize = 0 /\ x <= e /\ e < x + EraseSize /\ e <= Size
  BY <1>1, <1>3, <1>4
<1> QED BY <1>5 DEF e

LEMMA RequestFacts ==
  ASSUME NEW r \in Requests
  PROVE  r.offset \in Nat /\ r.data \in Seq(Bytes) /\ Len(r.data) \in Nat
BY StorageAssumption

LEMMA InStepFacts ==
  ASSUME InStep
  PROVE  /\ End \in Nat /\ End % EraseSize = 0 /\ End <= Size
         /\ request.offset + Len(request.data) <= End
         /\ End < request.offset + Len(request.data) + EraseSize
         /\ pos < End => pos + EraseSize <= End /\ pos + EraseSize <= Size
<1>1. /\ EraseSize \in Nat \ {0} /\ Size \in Nat
  BY FlashAssumption
<1> DEFINE x == request.offset + Len(request.data)
<1>2. x \in Nat /\ x <= Size
  BY RequestFacts DEF InStep
<1>3. End = SectorOf(x + EraseSize - 1)
  BY DEF End
<1>4. End \in Nat /\ End % EraseSize = 0 /\ x <= End /\ End < x + EraseSize /\ End <= Size
  <2> HIDE DEF x
  <2> QED BY <1>2, <1>3, EndFacts
<1>5. pos < End => pos + EraseSize <= End
  BY <1>1, <1>4, AlignedApart DEF InStep
<1> QED BY <1>1, <1>4, <1>5 DEF InStep

\* What of the buffer goes into this sector.
LEMMA ChunkFacts ==
  ASSUME InStep, pos < End
  PROVE  /\ Len(Chunk) \in Nat
         /\ extra_low + Len(Chunk) <= EraseSize
         /\ input_pos + Len(Chunk) <= Len(request.data)
         /\ extra_low + Len(Chunk) = EraseSize \/ input_pos + Len(Chunk) = Len(request.data)
         /\ \A k \in 1 .. Len(Chunk) : Chunk[k] = request.data[input_pos + k] /\ Chunk[k] \in Bytes
<1> DEFINE room == EraseSize - extra_low
           left == Len(request.data) - input_pos
           n == IF room < left THEN room ELSE left
<1>1. /\ request.data \in Seq(Bytes) /\ Len(request.data) \in Nat
      /\ input_pos \in Nat /\ extra_low \in Nat /\ EraseSize \in Nat
      /\ room \in Nat /\ left \in Nat /\ n \in Nat
      /\ extra_low + n <= EraseSize /\ input_pos + n <= Len(request.data)
      /\ n = room \/ n = left
  BY RequestFacts, FlashAssumption DEF InStep
<1>2. Chunk = SubSeq(request.data, input_pos + 1, input_pos + n)
  BY DEF Chunk
<1> HIDE DEF n
<1>3. /\ Len(Chunk) = n
      /\ \A k \in 1 .. n : Chunk[k] = request.data[input_pos + k]
  BY <1>1, <1>2
<1>4. \A k \in 1 .. n : request.data[input_pos + k] \in Bytes
  BY <1>1
<1> QED BY <1>1, <1>3, <1>4

\* Where the addresses of a sector are.
LEMMA SectorAddrs ==
  ASSUME InStep, pos < End
  PROVE  /\ pos \in Nat /\ pos + EraseSize <= Size
         /\ \A a \in Addrs : SectorOf(a) = pos <=> a - pos + 1 \in 1 .. EraseSize
         /\ \A i \in 1 .. EraseSize : pos + i - 1 \in Addrs /\ SectorOf(pos + i - 1) = pos
<1>1. /\ pos \in Nat /\ pos % EraseSize = 0 /\ pos + EraseSize <= Size
      /\ EraseSize \in Nat \ {0} /\ Size \in Nat
  BY InStepFacts, FlashAssumption DEF InStep
<1>2. ASSUME NEW a \in Addrs PROVE SectorOf(a) = pos <=> a - pos + 1 \in 1 .. EraseSize
  <2>1. a \in Nat
    BY <1>1 DEF Addrs
  <2>2. SectorOf(a) = pos => pos <= a /\ a < pos + EraseSize
    BY <2>1, SectorFacts
  <2>3. pos <= a /\ a < pos + EraseSize => SectorOf(a) = pos
    BY <1>1, <2>1, SectorIs
  <2> QED BY <1>1, <2>1, <2>2, <2>3
<1>3. ASSUME NEW i \in 1 .. EraseSize PROVE pos + i - 1 \in Addrs /\ SectorOf(pos + i - 1) = pos
  BY <1>1, SectorIs DEF Addrs
<1> QED BY <1>1, <1>2, <1>3

LEMMA MergedFacts ==
  ASSUME InStep, pos < End, existing \in [1 .. EraseSize -> Bytes]
  PROVE  /\ Merged \in [1 .. EraseSize -> Bytes] /\ Merged \in Seq(Bytes) /\ Len(Merged) = EraseSize
         /\ \A i \in 1 .. EraseSize :
              Merged[i] = IF i - extra_low \in 1 .. Len(Chunk) THEN Chunk[i - extra_low] ELSE existing[i]
<1>1. EraseSize \in Nat
  BY FlashAssumption
<1>2. Merged \in [1 .. EraseSize -> Bytes]
  BY ChunkFacts DEF Merged
<1>3. \A i \in 1 .. EraseSize :
        Merged[i] = IF i - extra_low \in 1 .. Len(Chunk) THEN Chunk[i - extra_low] ELSE existing[i]
  BY DEF Merged
<1>4. Merged \in Seq(Bytes) /\ Len(Merged) = EraseSize
  BY <1>1, <1>2
<1> QED BY <1>2, <1>3, <1>4

\* The trimmed write leaves the sector as the whole of it would.
LEMMA SectorProgrammedIs ==
  ASSUME InStep, pos < End, Programmable, flash \in [Addrs -> Bytes]
  PROVE  /\ SectorProgrammed \in [Addrs -> Bytes]
         /\ \A a \in Addrs :
              SectorProgrammed[a] = IF SectorOf(a) = pos THEN Merged[a - pos + 1] ELSE flash[a]
<1> DEFINE M == Merged
           kept == {i \in 1 .. EraseSize : M[i] # Bits}
           first == CHOOSE i \in kept : \A j \in kept : i <= j
           last == CHOOSE i \in kept : \A j \in kept : j <= i
<1>1. EraseSize \in Nat \ {0} /\ Size \in Nat
  BY FlashAssumption
<1>2. /\ M \in [1 .. EraseSize -> Bytes] /\ M \in Seq(Bytes) /\ Len(M) = EraseSize
      /\ \A i \in 1 .. EraseSize : M[i] \subseteq flash[pos + i - 1] /\ M[i] \subseteq Bits
  BY MergedFacts DEF Programmable, Bytes
<1>3. WriteBuf = IF kept = {} THEN [offset |-> pos, data |-> <<>>]
                 ELSE [offset |-> pos + first - 1, data |-> SubSeq(M, first, last)]
  BY <1>2 DEF WriteBuf
<1>4. \A a \in Addrs : a \in Int /\ flash[a] \subseteq Bits
  BY <1>1 DEF Addrs, Bytes
<1>5. \E lo \in Nat, hi \in Nat :
        /\ 1 <= lo /\ hi <= EraseSize
        /\ \A i \in kept : lo <= i /\ i <= hi
        /\ \A a \in Addrs :
             SectorProgrammed[a] = IF a - pos + 1 \in lo .. hi THEN flash[a] \cap M[a - pos + 1] ELSE flash[a]
  <2>1. CASE kept = {}
    <3>1. WriteBuf.offset = pos /\ WriteBuf.data = <<>>
      BY <1>3, <2>1
    <3>2. \A a \in Addrs : ~Covers(WriteBuf.offset, WriteBuf.data, a)
      BY <1>4, <3>1, SectorAddrs DEF Covers
    <3>3. \A a \in Addrs : SectorProgrammed[a] = flash[a]
      BY <3>2 DEF SectorProgrammed, Programmed
    <3>4. \A a \in Addrs : a - pos + 1 \notin 1 .. 0
      OBVIOUS
    <3> QED BY <1>1, <2>1, <3>3, <3>4
  <2>2. CASE kept # {}
    <3>1. first \in kept /\ \A j \in kept : first <= j
      <4>1. kept \subseteq Nat
        BY <1>1
      <4>2. \E i \in kept : \A j \in kept : i <= j
        <5> HIDE DEF kept
        <5> QED BY <2>2, <4>1, Least
      <4> HIDE DEF kept
      <4> QED BY <4>2
    <3>2. last \in kept /\ \A j \in kept : j <= last
      <4>1. kept \subseteq 1 .. EraseSize /\ EraseSize \in Nat
        BY <1>1
      <4>2. \E i \in kept : \A j \in kept : j <= i
        <5> HIDE DEF kept
        <5> QED BY <2>2, <4>1, Greatest
      <4> HIDE DEF kept
      <4> QED BY <4>2
    <3>3. /\ first \in Nat /\ last \in Nat /\ first <= last /\ 1 <= first /\ last <= EraseSize
          /\ pos \in Nat
          /\ \A i \in kept : first <= i /\ i <= last
      <4>1. first \in 1 .. EraseSize /\ last \in 1 .. EraseSize /\ first <= last
        BY <3>1, <3>2
      <4>2. \A i \in kept : first <= i /\ i <= last
        <5> HIDE DEF kept, first, last
        <5> QED BY <3>1, <3>2
      <4>3. first \in Nat /\ last \in Nat /\ 1 <= first /\ last <= EraseSize
        <5> HIDE DEF first, last
        <5> QED BY <1>1, <4>1
      <4> QED BY <4>1, <4>2, <4>3, SectorAddrs
    <3>4. WriteBuf.offset = pos + first - 1 /\ WriteBuf.data = SubSeq(M, first, last)
      BY <1>3, <2>2
    <3> HIDE DEF first, last, M
    <3>5. /\ Len(WriteBuf.data) = last - first + 1
          /\ \A i \in 1 .. Len(WriteBuf.data) : WriteBuf.data[i] = M[first + i - 1]
      BY <1>2, <3>3, <3>4
    <3>6. ASSUME NEW a \in Addrs
          PROVE  SectorProgrammed[a] = IF a - pos + 1 \in first .. last THEN flash[a] \cap M[a - pos + 1]
                                       ELSE flash[a]
      <4>1. Covers(WriteBuf.offset, WriteBuf.data, a) <=> a - pos + 1 \in first .. last
        BY <1>4, <3>3, <3>4, <3>5 DEF Covers
      <4>2. a - pos + 1 \in first .. last => WriteBuf.data[a - WriteBuf.offset + 1] = M[a - pos + 1]
        <5>1. SUFFICES ASSUME a - pos + 1 \in first .. last
                       PROVE  WriteBuf.data[a - WriteBuf.offset + 1] = M[a - pos + 1]
          OBVIOUS
        <5>2. a - WriteBuf.offset + 1 = (a - pos + 1) - first + 1
          BY <1>4, <3>3, <3>4, SectorAddrs
        <5> DEFINE k == a - pos + 1
        <5>3. k \in Int /\ k - first + 1 \in 1 .. Len(WriteBuf.data) /\ first + (k - first + 1) - 1 = k
          BY <1>4, <3>3, <3>5, <5>1
        <5> QED BY <3>5, <5>2, <5>3
      <4> QED BY <4>1, <4>2 DEF SectorProgrammed, Programmed
    <3> HIDE DEF kept
    <3> QED BY <3>3, <3>6
  <2> QED BY <2>1, <2>2
<1>6. PICK lo \in Nat, hi \in Nat :
        /\ 1 <= lo /\ hi <= EraseSize
        /\ \A i \in kept : lo <= i /\ i <= hi
        /\ \A a \in Addrs :
             SectorProgrammed[a] = IF a - pos + 1 \in lo .. hi THEN flash[a] \cap M[a - pos + 1] ELSE flash[a]
  BY <1>5
<1> HIDE DEF M
<1>7. ASSUME NEW a \in Addrs
      PROVE  SectorProgrammed[a] = IF SectorOf(a) = pos THEN M[a - pos + 1] ELSE flash[a]
  <2>1. CASE SectorOf(a) = pos
    <3> DEFINE i == a - pos + 1
    <3>1. i \in 1 .. EraseSize /\ pos + i - 1 = a
      BY <1>4, <2>1, SectorAddrs
    <3>2. M[i] \subseteq flash[a] /\ (i \notin lo .. hi => M[i] = Bits)
      BY <1>2, <1>6, <3>1
    <3> HIDE DEF i
    <3> QED BY <1>4, <1>6, <2>1, <3>2 DEF i
  <2>2. CASE SectorOf(a) # pos
    <3>1. a - pos + 1 \notin 1 .. EraseSize /\ a - pos + 1 \in Int
      BY <1>4, <2>2, SectorAddrs
    <3>2. a - pos + 1 \notin lo .. hi
      BY <1>1, <1>6, <3>1
    <3> QED BY <1>6, <2>2, <3>2
  <2> QED BY <2>1, <2>2
<1>8. SectorProgrammed \in [Addrs -> Bytes]
  <2>1. \A a \in Addrs : SectorProgrammed[a] \in Bytes
    BY <1>2, <1>7, SectorAddrs DEF Bytes
  <2> QED BY <2>1 DEF SectorProgrammed, Programmed
<1> QED BY <1>7, <1>8 DEF M

\* A command that is cut short damages no other sector.
LEMMA CutShortFacts ==
  ASSUME NEW f \in [Addrs -> Bytes], NEW g \in [Addrs -> Bytes], NEW h \in CutShort(f, g)
  PROVE  h \in [Addrs -> Bytes] /\ \A a \in Addrs : h[a] \in {f[a], g[a]}
<1>1. PICK done \in SUBSET {a \in Addrs : f[a] # g[a]} :
        h = [a \in Addrs |-> IF a \in done THEN g[a] ELSE f[a]]
  BY DEF CutShort
<1> QED BY <1>1

LEMMA ErasedFacts ==
  ASSUME flash \in [Addrs -> Bytes]
  PROVE  /\ Erased(flash, pos) \in [Addrs -> Bytes]
         /\ \A a \in Addrs : Erased(flash, pos)[a] = IF SectorOf(a) = pos THEN Bits ELSE flash[a]
BY DEF Erased, Bytes

LEMMA OneSectorAtMost ==
  ASSUME StorageInv,
         NEW h, \/ fs_pc = "erase" /\ h \in EraseCutShort
                \/ fs_pc = "program" /\ h \in CutShort(flash, SectorProgrammed)
  PROVE  h \in [Addrs -> Bytes] /\ \A a \in Addrs : SectorOf(a) # pos => h[a] = flash[a]
<1>1. flash \in [Addrs -> Bytes]
  BY DEF StorageInv
<1>2. CASE fs_pc = "erase" /\ h \in EraseCutShort
  <2>1. h \in CutShort(flash, Erased(flash, pos)) \/ h \in {flash, Erased(flash, pos)}
    BY <1>2 DEF EraseCutShort
  <2> QED BY <1>1, <2>1, ErasedFacts, CutShortFacts
<1>3. CASE fs_pc = "program" /\ h \in CutShort(flash, SectorProgrammed)
  <2>1. InStep /\ pos < End /\ Programmable
    BY <1>3 DEF StorageInv
  <2> QED BY <1>1, <1>3, <2>1, SectorProgrammedIs, CutShortFacts
<1> QED BY <1>2, <1>3

-----------------------------------------------------------------------------
(***************************************************************************)
(* The invariant.                                                          *)
(***************************************************************************)

LEMMA StorageInitInv == Init => StorageInv
BY DEF Init, StorageInit, StorageInv, FsPcs

LEMMA WriteInv ==
  ASSUME StorageInv, NEW r \in Requests, FlashStorageWrite(r)
  PROVE  StorageInv'
<1>1. CASE r.offset + Len(r.data) > Size
  <2>1. /\ UNCHANGED <<flash, fs_pc, request, pos, input_pos, extra_low, existing>>
        /\ fs_pc = "idle" /\ ret' = "failed"
    BY <1>1 DEF FlashStorageWrite
  <2> QED BY <2>1 DEF StorageInv
<1>2. CASE ~(r.offset + Len(r.data) > Size)
  <2>1. /\ fs_pc = "idle" /\ fs_pc' = "loop" /\ ret' = "none" /\ UNCHANGED <<flash, existing>>
        /\ request' = r /\ pos' = SectorOf(r.offset) /\ extra_low' = r.offset - pos' /\ input_pos' = 0
    BY <1>2 DEF FlashStorageWrite
  <2> DEFINE x == r.offset + Len(r.data)
             p == SectorOf(r.offset)
  <2>2. /\ r.offset \in Nat /\ r.data \in Seq(Bytes) /\ Len(r.data) \in Nat /\ Size \in Nat
        /\ EraseSize \in Nat \ {0}
    BY RequestFacts, FlashAssumption
  <2>3. p \in Nat /\ p % EraseSize = 0 /\ p <= r.offset /\ r.offset < p + EraseSize
    BY <2>2, SectorFacts
  <2>4. x \in Nat /\ x <= Size
    BY <1>2, <2>2
  <2>5. End' = SectorOf(x + EraseSize - 1)
    BY <2>1 DEF End
  <2>6. x <= End' /\ End' \in Nat
    <3> HIDE DEF x
    <3> QED BY <2>4, <2>5, EndFacts
  <2> HIDE DEF p
  <2>7. InStep'
    <3>1. request' = r /\ pos' = p /\ extra_low' = r.offset - p /\ input_pos' = 0
      BY <2>1 DEF p
    <3>2. r.offset + Len(r.data) <= Size /\ r.offset - p \in 0 .. EraseSize - 1
      BY <2>2, <2>3, <2>4
    <3>3. p <= End' /\ p + (r.offset - p) = r.offset + 0
      BY <2>2, <2>3, <2>6
    <3>4. p = End' => 0 = Len(r.data)
      BY <2>2, <2>3, <2>6
    <3> QED BY <2>2, <2>3, <3>1, <3>2, <3>3, <3>4 DEF InStep
  <2> QED BY <2>1, <2>7 DEF StorageInv, FsPcs
<1> QED BY <1>1, <1>2

\* A write that ends, in whatever way, leaves nothing but what is in the flash.
LEMMA ReturnInv ==
  ASSUME StorageInv, NEW result \in {"ok", "failed", "none"}, Return(result), flash' \in [Addrs -> Bytes]
  PROVE  StorageInv'
BY DEF StorageInv, Return, FsPcs

LEMMA ReadSectorInv ==
  ASSUME StorageInv, ReadSector
  PROVE  StorageInv'
<1>1. CASE Return("failed")
  BY <1>1, ReturnInv DEF ReadSector, StorageInv
<1>2. CASE ~Return("failed")
  <2>1. /\ fs_pc = "loop" /\ pos < End /\ existing' = Slice(flash, pos, EraseSize)
        /\ fs_pc' = IF NeedsErase(existing', Chunk) THEN "erase" ELSE "program"
        /\ UNCHANGED <<request, pos, input_pos, extra_low, ret, flash>>
    BY <1>2 DEF ReadSector
  <2>2. InStep /\ InStep' /\ (pos < End)' /\ flash \in [Addrs -> Bytes]
    BY <2>1 DEF StorageInv, InStep, End
  <2>3. /\ existing' \in [1 .. EraseSize -> Bytes]
        /\ \A i \in 1 .. EraseSize : existing'[i] = flash[pos + i - 1]
    BY <2>1, <2>2, SectorAddrs DEF Slice
  <2>4. ASSUME ~NeedsErase(existing', Chunk) PROVE Programmable'
    <3>1. /\ Chunk' = Chunk
          /\ Merged' = [i \in 1 .. EraseSize |->
               IF i - extra_low \in 1 .. Len(Chunk) THEN Chunk[i - extra_low] ELSE existing'[i]]
      BY <2>1 DEF Merged, Chunk
    <3>2. \A k \in 1 .. Len(Chunk) : Chunk[k] \subseteq existing'[extra_low + k]
      BY <2>4 DEF NeedsErase
    <3>3. ASSUME NEW i \in 1 .. EraseSize PROVE Merged'[i] \subseteq existing'[i]
      <4>1. CASE i - extra_low \in 1 .. Len(Chunk)
        <5>1. extra_low + (i - extra_low) = i
          BY <2>2, FlashAssumption DEF InStep
        <5>2. Chunk[i - extra_low] \subseteq existing'[extra_low + (i - extra_low)]
          BY <3>2, <4>1
        <5> QED BY <3>1, <4>1, <5>1, <5>2
      <4>2. CASE i - extra_low \notin 1 .. Len(Chunk)
        BY <3>1, <4>2
      <4> QED BY <4>1, <4>2
    <3> QED BY <2>1, <2>3, <3>3 DEF Programmable
  <2> QED BY <2>1, <2>2, <2>4 DEF StorageInv, FsPcs
<1> QED BY <1>1, <1>2

LEMMA EraseSectorInv ==
  ASSUME StorageInv, EraseSector
  PROVE  StorageInv'
<1>1. CASE flash' \in EraseCutShort /\ Return("failed")
  BY <1>1, OneSectorAtMost, ReturnInv DEF EraseSector
<1>2. CASE /\ flash' = Erased(flash, pos) /\ fs_pc' = "program"
           /\ UNCHANGED <<request, pos, input_pos, extra_low, existing, ret>>
  <2>1. /\ InStep /\ InStep' /\ pos < End /\ (pos < End)' /\ flash \in [Addrs -> Bytes]
        /\ existing = Slice(flash, pos, EraseSize)
    BY <1>2 DEF EraseSector, StorageInv, InStep, End
  <2>2. existing \in [1 .. EraseSize -> Bytes]
    BY <2>1, SectorAddrs DEF Slice
  <2>3. flash' \in [Addrs -> Bytes] /\ \A i \in 1 .. EraseSize : flash'[pos + i - 1] = Bits
    BY <1>2, <2>1, ErasedFacts, SectorAddrs
  <2>4. Merged' = Merged
    BY <1>2 DEF Merged, Chunk
  <2>5. Programmable'
    <3>1. \A i \in 1 .. EraseSize : Merged[i] \subseteq Bits
      BY <2>1, <2>2, MergedFacts DEF Bytes
    <3> QED BY <1>2, <2>2, <2>3, <2>4, <3>1 DEF Programmable
  <2> QED BY <1>2, <2>1, <2>3, <2>5 DEF StorageInv, FsPcs
<1> QED BY <1>1, <1>2 DEF EraseSector

LEMMA ProgramSectorInv ==
  ASSUME StorageInv, ProgramSector
  PROVE  StorageInv'
<1>1. CASE flash' \in CutShort(flash, SectorProgrammed) /\ Return("failed")
  BY <1>1, OneSectorAtMost, ReturnInv DEF ProgramSector
<1>2. CASE /\ flash' = SectorProgrammed /\ fs_pc' = "loop"
           /\ input_pos' = input_pos + Len(Chunk) /\ pos' = pos + EraseSize
           /\ extra_low' = 0 /\ existing' = <<>>
           /\ UNCHANGED <<request, ret>>
  <2>1. InStep /\ pos < End /\ Programmable /\ flash \in [Addrs -> Bytes]
    BY DEF ProgramSector, StorageInv
  <2>2. flash' \in [Addrs -> Bytes]
    BY <1>2, <2>1, SectorProgrammedIs
  <2>3. End' = End
    BY <1>2 DEF End
  <2>4. InStep'
    <3> DEFINE n == Len(Chunk)
               e == End
    <3>1. /\ n \in Nat /\ extra_low + n <= EraseSize /\ input_pos + n <= Len(request.data)
          /\ extra_low + n = EraseSize \/ input_pos + n = Len(request.data)
      BY <2>1, ChunkFacts
    <3>2. /\ e \in Nat /\ e % EraseSize = 0 /\ request.offset + Len(request.data) <= e
          /\ e < request.offset + Len(request.data) + EraseSize /\ pos + EraseSize <= e
      BY <2>1, InStepFacts
    <3>3. /\ request.offset \in Nat /\ Len(request.data) \in Nat /\ input_pos \in Nat /\ extra_low \in Nat
          /\ EraseSize \in Nat \ {0} /\ pos \in Nat /\ pos + extra_low = request.offset + input_pos
      BY <2>1, RequestFacts, FlashAssumption DEF InStep
    <3>4. (pos + EraseSize) % EraseSize = 0
      BY <2>1, <3>3, AlignedNext DEF InStep
    <3> HIDE DEF n, e
    <3>5. pos + EraseSize < e => pos + EraseSize = request.offset + (input_pos + n)
      <4> DEFINE q == pos + EraseSize
      <4>1. q \in Nat /\ q % EraseSize = 0
        BY <3>3, <3>4
      <4>2. q < e => q + EraseSize <= e
        <5> HIDE DEF q
        <5> QED BY <3>2, <3>3, <4>1, AlignedApart
      <4> QED BY SMTT(40), <3>1, <3>2, <3>3, <4>2
    <3>6. pos + EraseSize = e => input_pos + n = Len(request.data)
      BY SMTT(40), <3>1, <3>2, <3>3
    <3>7. /\ request \in Requests /\ request.offset + Len(request.data) <= Size
          /\ input_pos + n \in 0 .. Len(request.data)
          /\ pos + EraseSize \in Nat
          /\ 0 \in 0 .. EraseSize - 1
      BY <2>1, <3>1, <3>3 DEF InStep
    <3>8. /\ input_pos' = input_pos + n /\ pos' = pos + EraseSize /\ extra_low' = 0 /\ request' = request
          /\ End' = e
      BY <1>2, <2>3 DEF n, e
    <3> QED BY <3>2, <3>4, <3>5, <3>6, <3>7, <3>8 DEF InStep
  <2> QED BY <1>2, <2>2, <2>4 DEF StorageInv, FsPcs
<1> QED BY <1>1, <1>2 DEF ProgramSector

LEMMA PowerLossInv ==
  ASSUME StorageInv, PowerLoss
  PROVE  StorageInv'
<1>1. CASE fs_pc = "erase" \/ fs_pc = "program"
  BY <1>1, OneSectorAtMost, ReturnInv DEF PowerLoss
<1>2. CASE fs_pc # "erase" /\ fs_pc # "program"
  BY <1>2, ReturnInv DEF PowerLoss, StorageInv
<1> QED BY <1>1, <1>2

LEMMA StorageStepInv == StorageInv /\ [Next]_<<flash, storageVars>> => StorageInv'
<1> SUFFICES ASSUME StorageInv, [Next]_<<flash, storageVars>>
             PROVE  StorageInv'
  OBVIOUS
<1>1. CASE WriteReturns
  BY <1>1, ReturnInv DEF WriteReturns, StorageInv
<1>2. CASE UNCHANGED <<flash, storageVars>>
  BY <1>2 DEF storageVars, StorageInv, InStep, Programmable, Merged, Chunk, End
<1> QED BY <1>1, <1>2, WriteInv, ReadSectorInv, EraseSectorInv, ProgramSectorInv, PowerLossInv
     DEF Next, StorageStep

LEMMA StorageInvHolds == Spec => []StorageInv
BY StorageInitInv, StorageStepInv, PTL DEF Spec

-----------------------------------------------------------------------------
(***************************************************************************)
(* The theorems.                                                           *)
(***************************************************************************)

\* The invariant says what the types say.
LEMMA InvTypeOK == StorageInv => StorageTypeOK
<1> SUFFICES ASSUME StorageInv
             PROVE  StorageTypeOK
  OBVIOUS
<1>1. fs_pc = "idle" <=> request = NoWrite
  BY StorageAssumption DEF StorageInv, InStep
<1>2. existing = <<>> \/ existing \in [1 .. EraseSize -> Bytes]
  <2>1. CASE fs_pc = "erase"
    BY <2>1, SectorAddrs DEF StorageInv, Slice
  <2>2. CASE fs_pc # "erase"
    BY <2>2 DEF StorageInv, FsPcs, Programmable
  <2> QED BY <2>1, <2>2
<1>3. ASSUME fs_pc # "idle"
      PROVE  /\ pos \in Sectors \cup {Size}
             /\ input_pos \in 0 .. Len(request.data)
             /\ extra_low \in 0 .. EraseSize - 1
             /\ pos + extra_low = request.offset + input_pos \/ pos = End
  <2>1. InStep
    BY <1>3 DEF StorageInv
  <2>2. pos \in Nat /\ pos % EraseSize = 0 /\ pos <= End /\ End \in Nat /\ End <= Size /\ Size \in Nat
    BY <2>1, InStepFacts, FlashAssumption DEF InStep
  <2>3. pos \in Sectors \cup {Size}
    BY <2>2 DEF Sectors, Addrs
  <2>4. pos < End \/ pos = End
    BY <2>2
  <2> QED BY <2>1, <2>3, <2>4 DEF InStep
<1>4. request \in Requests \cup {NoWrite}
  BY DEF StorageInv, InStep
<1> QED BY <1>1, <1>2, <1>3, <1>4 DEF StorageInv, StorageTypeOK

\* Every variable of flash_storage_write() holds a value of its type, and the loop
\* over the sectors stays in step with the buffer.
THEOREM StorageTypeCorrect == Spec => []StorageTypeOK
BY InvTypeOK, StorageInvHolds, PTL

-----------------------------------------------------------------------------
(***************************************************************************)
(* The steps, seen through Store.                                          *)
(***************************************************************************)

LEMMA DeviceSector ==
  ASSUME NEW a
  PROVE  Device!SectorOf(a) = SectorOf(a)
BY DEF Device!SectorOf, SectorOf

\* Between two writes, and between two sectors, the store is the flash.
LEMMA StoreIsFlash ==
  ASSUME flash \in [Addrs -> Bytes], fs_pc \notin {"erase", "program"}
  PROVE  Store = flash
BY DEF Store

LEMMA StoreType ==
  ASSUME StorageInv
  PROVE  Store \in [Addrs -> Bytes]
<1>1. CASE fs_pc \in {"erase", "program"}
  <2>1. InStep /\ pos < End /\ flash \in [Addrs -> Bytes]
    BY <1>1 DEF StorageInv
  <2>2. existing \in [1 .. EraseSize -> Bytes]
    BY <1>1, <2>1, SectorAddrs DEF StorageInv, Slice, Programmable
  <2> QED BY <2>1, <2>2, SectorAddrs DEF Store
<1>2. CASE fs_pc \notin {"erase", "program"}
  BY <1>2, StoreIsFlash DEF StorageInv
<1> QED BY <1>1, <1>2

\* While a write runs, the sector it has come to is the one of its next byte.
LEMMA WhereItIs ==
  ASSUME InStep, pos < End
  PROVE  Device!SectorOf(request.offset + input_pos) = pos
<1>1. /\ pos \in Nat /\ pos % EraseSize = 0 /\ extra_low \in 0 .. EraseSize - 1
      /\ pos + extra_low = request.offset + input_pos /\ EraseSize \in Nat
  BY FlashAssumption DEF InStep
<1>2. pos + extra_low \in Nat /\ pos <= pos + extra_low /\ pos + extra_low < pos + EraseSize
  BY <1>1
<1>3. SectorOf(pos + extra_low) = pos
  BY <1>1, <1>2, SectorIs
<1> QED BY <1>1, <1>3, DeviceSector

\* A write that fails, or that the power fails on, damages at most that sector.
LEMMA ReturnImplements ==
  ASSUME StorageInv, fs_pc # "idle", NEW result \in {"failed", "none"}, Return(result),
         flash' \in [Addrs -> Bytes],
         \/ flash' = flash
         \/ fs_pc \in {"erase", "program"} /\ \A a \in Addrs : SectorOf(a) # pos => flash'[a] = flash[a]
  PROVE  Device!Fail
<1>1. request # NoWrite /\ InStep
  BY StorageAssumption DEF StorageInv, InStep
<1>2. Store' = flash' /\ Store \in [Addrs -> Bytes] /\ DOMAIN Store = Addrs
  <2>1. (flash \in [Addrs -> Bytes])' /\ (fs_pc \notin {"erase", "program"})'
    BY DEF Return
  <2>2. Store' = flash'
    BY <2>1 DEF Store
  <2> QED BY <2>2, StoreType
<1>3. ASSUME NEW a \in Addrs, Store'[a] # Store[a]
      PROVE  Device!SectorOf(a) = Device!SectorOf(request.offset + input_pos)
  <2>1. CASE fs_pc \in {"erase", "program"}
    <3>1. pos < End
      BY <2>1 DEF StorageInv
    <3>2. SectorOf(a) # pos => Store[a] = flash[a]
      BY <2>1 DEF Store
    <3>3. SectorOf(a) # pos => flash'[a] = flash[a]
      BY <2>1
    <3> QED BY <1>1, <1>2, <1>3, <3>1, <3>2, <3>3, WhereItIs, DeviceSector
  <2>2. CASE fs_pc \notin {"erase", "program"}
    <3>1. Store = flash
      BY <2>2, StoreIsFlash DEF StorageInv
    <3> QED BY <1>2, <1>3, <2>2, <3>1
  <2> QED BY <2>1, <2>2
<1>4. Store' \in [DOMAIN Store -> SUBSET Bits]
  BY <1>2 DEF Bytes
<1>5. ret' \in {"failed", "none"} /\ request' = NoWrite /\ input_pos' = 0
  BY DEF Return
<1> QED BY <1>1, <1>2, <1>3, <1>4, <1>5 DEF Device!Fail

LEMMA WriteImplements ==
  ASSUME StorageInv, NEW r \in Requests, FlashStorageWrite(r)
  PROVE  Device!Begin \/ Device!Reject
<1>1. fs_pc = "idle" /\ request = NoWrite /\ input_pos = 0 /\ Store = flash
  BY StoreIsFlash DEF StorageInv, FlashStorageWrite
<1>2. Store' = Store
  <2>1. fs_pc' \in {"idle", "loop"} /\ UNCHANGED flash
    BY <1>1 DEF FlashStorageWrite
  <2> QED BY <1>1, <2>1 DEF Store
<1>3. CASE r.offset + Len(r.data) > Size
  BY <1>1, <1>2, <1>3 DEF FlashStorageWrite, Device!Reject
<1>4. CASE ~(r.offset + Len(r.data) > Size)
  <2>1. r.offset + Len(r.data) <= Size
    BY <1>4, RequestFacts, FlashAssumption
  <2> QED BY <1>1, <1>2, <1>4, <2>1 DEF FlashStorageWrite, Device!Begin
<1> QED BY <1>3, <1>4

LEMMA ReadSectorImplements ==
  ASSUME StorageInv, ReadSector
  PROVE  Device!Fail \/ UNCHANGED Device!vars
<1>1. CASE Return("failed")
  BY <1>1, ReturnImplements DEF ReadSector, StorageInv
<1>2. CASE ~Return("failed")
  <2>1. /\ fs_pc = "loop" /\ pos < End /\ existing' = Slice(flash, pos, EraseSize)
        /\ fs_pc' \in {"erase", "program"}
        /\ UNCHANGED <<request, pos, input_pos, extra_low, ret, flash>>
    BY <1>2 DEF ReadSector
  <2>2. InStep /\ flash \in [Addrs -> Bytes] /\ Store = flash
    BY <2>1, StoreIsFlash DEF StorageInv
  <2>3. ASSUME NEW a \in Addrs, SectorOf(a) = pos PROVE existing'[a - pos + 1] = flash[a]
    <3>1. a \in Int /\ pos \in Int /\ a - pos + 1 \in 1 .. EraseSize
      BY <2>1, <2>2, <2>3, SectorAddrs DEF Addrs
    <3>2. pos + (a - pos + 1) - 1 = a
      BY <3>1
    <3> QED BY <2>1, <3>1, <3>2 DEF Slice
  <2>4. Store' = flash
    BY <2>1, <2>2, <2>3 DEF Store
  <2> QED BY <2>1, <2>2, <2>4 DEF Device!vars
<1> QED BY <1>1, <1>2

LEMMA EraseSectorImplements ==
  ASSUME StorageInv, EraseSector
  PROVE  Device!Fail \/ UNCHANGED Device!vars
<1>1. CASE flash' \in EraseCutShort /\ Return("failed")
  BY <1>1, OneSectorAtMost, ReturnImplements DEF EraseSector
<1>2. CASE /\ flash' = Erased(flash, pos) /\ fs_pc' = "program"
           /\ UNCHANGED <<request, pos, input_pos, extra_low, existing, ret>>
  <2>1. Store' = Store
    BY <1>2, ErasedFacts DEF EraseSector, Store, StorageInv
  <2> QED BY <1>2, <2>1 DEF Device!vars
<1> QED BY <1>1, <1>2 DEF EraseSector

\* The sector is stored: the bytes of the buffer that belong to it.
LEMMA ProgramSectorImplements ==
  ASSUME StorageInv, ProgramSector
  PROVE  Device!Fail \/ Device!Store \/ UNCHANGED Device!vars
<1>1. CASE flash' \in CutShort(flash, SectorProgrammed) /\ Return("failed")
  BY <1>1, OneSectorAtMost, ReturnImplements DEF ProgramSector
<1>2. CASE /\ flash' = SectorProgrammed /\ fs_pc' = "loop"
           /\ input_pos' = input_pos + Len(Chunk)
           /\ UNCHANGED <<request, ret>>
  <2> DEFINE n == Len(Chunk)
             first == request.offset + input_pos
  <2>1. /\ InStep /\ pos < End /\ Programmable /\ flash \in [Addrs -> Bytes]
        /\ fs_pc = "program" /\ request # NoWrite
    BY StorageAssumption DEF ProgramSector, StorageInv, InStep
  <2>2. /\ n \in Nat /\ input_pos + n <= Len(request.data)
        /\ \A k \in 1 .. n : Chunk[k] = request.data[input_pos + k]
    BY <2>1, ChunkFacts
  <2>3. /\ request.offset \in Nat /\ Len(request.data) \in Nat /\ input_pos \in Nat /\ extra_low \in Nat
        /\ EraseSize \in Nat \ {0} /\ pos \in Nat /\ pos + extra_low = first
        /\ extra_low + n <= EraseSize
    BY <2>1, RequestFacts, ChunkFacts, FlashAssumption DEF InStep
  <2>4. Store' = flash'
    BY <1>2 DEF Store, SectorProgrammed, Programmed
  <2>5. Store \in [Addrs -> Bytes] /\ DOMAIN Store = Addrs
    BY StoreType
  <2>6. ASSUME NEW a \in Addrs
        PROVE  flash'[a] = LET i == a - request.offset
                           IN  IF i \in input_pos .. input_pos + n - 1 THEN request.data[i + 1] ELSE Store[a]
    <3> DEFINE i == a - request.offset
               j == a - pos + 1
    <3>1. a \in Int /\ i \in Int /\ j \in Int
      BY <2>3, FlashAssumption DEF Addrs
    <3>2. /\ j - extra_low \in 1 .. n <=> i \in input_pos .. input_pos + n - 1
          /\ input_pos + (j - extra_low) = i + 1
      <4> HIDE DEF n
      <4> QED BY <2>2, <2>3, <3>1
    <3>3. i \in input_pos .. input_pos + n - 1 => SectorOf(a) = pos
      <4>1. i \in input_pos .. input_pos + n - 1 => j \in 1 .. EraseSize
        <5>1. j = (i - input_pos) + extra_low + 1
          BY SMTT(40), <2>3, <3>1
        <5> HIDE DEF i, j, n
        <5> QED BY <2>2, <2>3, <3>1, <5>1
      <4> QED BY <2>1, <4>1, SectorAddrs
    <3>4. CASE SectorOf(a) = pos
      <4>1. j \in 1 .. EraseSize
        BY <2>1, <3>4, SectorAddrs
      <4>2. flash'[a] = Merged[j]
        BY <1>2, <2>1, <3>4, SectorProgrammedIs
      <4>3. Merged[j] = IF j - extra_low \in 1 .. n THEN Chunk[j - extra_low] ELSE existing[j]
        BY <2>1, <4>1, MergedFacts DEF Programmable
      <4>4. Store[a] = existing[j]
        BY <2>1, <3>4 DEF Store
      <4> HIDE DEF i, j, n
      <4>5. j - extra_low \in 1 .. n => Chunk[j - extra_low] = request.data[i + 1]
        BY <2>2, <3>2
      <4> QED BY <3>2, <4>2, <4>3, <4>4, <4>5 DEF i
    <3>5. CASE SectorOf(a) # pos
      <4>1. flash'[a] = flash[a]
        BY <1>2, <2>1, <3>5, SectorProgrammedIs
      <4>2. Store[a] = flash[a]
        BY <3>5 DEF Store
      <4> QED BY <3>3, <3>5, <4>1, <4>2
    <3> QED BY <3>4, <3>5
  <2>7. CASE n = 0
    <3>1. ASSUME NEW a \in Addrs PROVE flash'[a] = Store[a]
      BY <2>3, <2>6, <2>7
    <3>2. flash' \in [Addrs -> Bytes]
      BY <1>2, <2>1, SectorProgrammedIs
    <3>3. Store' = Store
      BY <2>4, <2>5, <3>1, <3>2
    <3>4. input_pos' = input_pos
      BY <1>2, <2>3, <2>7
    <3> QED BY <1>2, <3>3, <3>4 DEF Device!vars
  <2>8. CASE n # 0
    <3>1. input_pos' = input_pos + n
      BY <1>2
    <3>2. input_pos' \in input_pos + 1 .. Len(request.data)
      <4> HIDE DEF n
      <4> QED BY <2>2, <2>3, <2>8, <3>1
    <3>3. flash' \in [Addrs -> Bytes]
      BY <1>2, <2>1, SectorProgrammedIs
    <3>4. flash' = [a \in Addrs |->
                     LET i == a - request.offset
                     IN  IF i \in input_pos .. input_pos' - 1 THEN request.data[i + 1] ELSE Store[a]]
      <4>1. input_pos' - 1 = input_pos + n - 1
        <5> HIDE DEF n
        <5> QED BY <2>2, <2>3, <3>1
      <4>2. \A a \in Addrs :
              flash'[a] = LET i == a - request.offset
                          IN  IF i \in input_pos .. input_pos' - 1 THEN request.data[i + 1] ELSE Store[a]
        <5> HIDE DEF n
        <5> QED BY <2>6, <4>1
      <4> DEFINE g == [a \in Addrs |->
                        LET i == a - request.offset
                        IN  IF i \in input_pos .. input_pos' - 1 THEN request.data[i + 1] ELSE Store[a]]
      <4>3. \A a \in Addrs : flash'[a] = g[a]
        BY <4>2, Zenon
      <4>4. flash' = [a \in Addrs |-> flash'[a]] /\ g = [a \in Addrs |-> g[a]]
        BY <3>3
      <4> HIDE DEF g
      <4>5. flash' = g
        BY <4>3, <4>4
      <4> QED BY <4>5 DEF g
    <3> QED BY <1>2, <2>1, <2>4, <2>5, <3>2, <3>4 DEF Device!Store
  <2> QED BY <2>7, <2>8
<1> QED BY <1>1, <1>2 DEF ProgramSector

LEMMA WriteReturnsImplements ==
  ASSUME StorageInv, WriteReturns
  PROVE  Device!Succeed
<1>1. InStep /\ request # NoWrite /\ fs_pc = "loop" /\ UNCHANGED flash /\ pos >= End
  BY StorageAssumption DEF StorageInv, WriteReturns, InStep
<1>2. input_pos = Len(request.data)
  <2>1. pos \in Nat /\ End \in Nat /\ pos <= End
    BY <1>1, InStepFacts DEF InStep
  <2>2. pos = End
    BY <1>1, <2>1
  <2> QED BY <1>1, <2>2 DEF InStep
<1>3. Store' = Store
  BY <1>1 DEF WriteReturns, Return, Store
<1> QED BY <1>1, <1>2, <1>3 DEF WriteReturns, Return, Device!Succeed

LEMMA PowerLossImplements ==
  ASSUME StorageInv, PowerLoss
  PROVE  Device!Fail \/ Device!Reject
<1>1. CASE fs_pc \in {"erase", "program"}
  BY <1>1, OneSectorAtMost, ReturnImplements DEF PowerLoss
<1>2. CASE fs_pc = "loop"
  BY <1>2, ReturnImplements DEF PowerLoss, StorageInv
<1>3. CASE fs_pc = "idle"
  <2>1. Store' = Store
    BY <1>3 DEF PowerLoss, Return, Store
  <2> QED BY <1>3, <2>1 DEF PowerLoss, Return, StorageInv, Device!Reject
<1> QED BY <1>1, <1>2, <1>3 DEF StorageInv, FsPcs

\* Whatever the flash held and whichever command fails or loses its power,
\* flash_storage_write() stores the buffer in order, keeps the neighbours that share
\* its sectors, returns 0 only when all is stored, and damages one sector at most.
THEOREM StorageIsDevice == Spec => ImplementsStorageDevice
<1>1. Init => Device!Init
  <2> SUFFICES ASSUME Init
               PROVE  Device!Init
    OBVIOUS
  <2>1. Store \in [Addrs -> Bytes]
    BY StoreIsFlash DEF Init, StorageInit
  <2> QED BY <2>1 DEF Init, StorageInit, Device!Init, Addrs, Bytes
<1>2. StorageInv /\ [Next]_<<flash, storageVars>> => [Device!Next]_(Device!vars)
  <2> SUFFICES ASSUME StorageInv, [Next]_<<flash, storageVars>>
               PROVE  Device!Next \/ UNCHANGED Device!vars
    OBVIOUS
  <2>1. CASE UNCHANGED <<flash, storageVars>>
    BY <2>1 DEF storageVars, Device!vars, Store
  <2> QED BY <2>1, WriteImplements, ReadSectorImplements, EraseSectorImplements, ProgramSectorImplements,
         WriteReturnsImplements, PowerLossImplements DEF Next, StorageStep, Device!Next
<1> QED BY <1>1, <1>2, StorageInvHolds, PTL DEF Spec, ImplementsStorageDevice, Device!Spec
=============================================================================

----------------------------- MODULE FlashProofs -----------------------------
(***************************************************************************)
(* What stands on flash_storage_write(): the log of NVRAM blobs that is    *)
(* written with it.  For every size of the flash and of the blobs,         *)
(* whatever is lost or fails, the log in one sector stays a log, and       *)
(* nothing outside its area changes.                                       *)
(***************************************************************************)
EXTENDS NvStorageFlash, TLAPS

SP == INSTANCE StorageProofs WITH Requests <- NvRequests

-----------------------------------------------------------------------------
(***************************************************************************)
(* The NVRAM log: the invariant.                                           *)
(***************************************************************************)

\* The area of one sector: what is erased is all of the log.
OneSector == AreaSize = EraseSize

\* The blobs behind place o are empty, and those before it are not, but for the first:
\* the log as it is before, during and after a write of the blob at o.
Log(f, o) ==
  /\ o \in Offsets
  /\ \A p \in Offsets : p > o => BlobAt(f, p) = EmptyBlob
  /\ \A p \in Offsets : 0 < p /\ p < o => BlobAt(f, p) # EmptyBlob

\* The blob at o is the current one.
IsCurrent(f, o) == Log(f, o) /\ (o = 0 \/ BlobAt(f, o) # EmptyBlob)

\* What vboot's callbacks have in hand.
NvControl ==
  /\ nv_pc \in NvPcs /\ nv_ret \in {"none", "success", "unknown"}
  /\ nvram_storage \in BOOLEAN /\ nv_failed \in BOOLEAN
  /\ nvram_blob_offset \in Offsets
  /\ nvram_storage => nvram_cache \in [1 .. BlobSize -> Bytes]
  /\ ~nvram_storage => nvram_cache = NoBlob
  /\ nv_pc \in {"ready", "crashed"} => nv_buf = NoBlob /\ fs_pc = "idle"
  /\ nv_pc \in {"erasing", "writing"} => nv_buf \in Blobs /\ nvram_storage /\ nv_ret = "none"
  /\ nv_ret = "success" => nvram_storage

\* The request is the log's own, and takes one turn of the loop.
NvRequest == IF nv_pc = "erasing" THEN Area(0, Empty) ELSE Area(nvram_blob_offset, nv_buf)
FirstTurn == fs_pc # "idle" /\ pos = AreaStart
Through == (fs_pc = "loop" /\ pos = AreaStart + EraseSize) \/ (fs_pc = "idle" /\ ret = "ok")

NvLoop ==
  fs_pc # "idle" =>
    /\ request = NvRequest
    /\ \/ pos = AreaStart /\ input_pos = 0 /\ extra_low = request.offset - AreaStart
       \/ pos = AreaStart + EraseSize /\ fs_pc = "loop"

\* A write puts the blob at its place, which has all the bits it needs.
WriteInv ==
  nv_pc = "writing" =>
    /\ Log(flash, nvram_blob_offset)
    /\ fs_pc # "erase"
    /\ fs_pc = "program" => existing = Slice(flash, pos, EraseSize)
    /\ FirstTurn => \A i \in 1 .. BlobSize : nv_buf[i] \subseteq BlobAt(flash, nvram_blob_offset)[i]
    /\ Through => BlobAt(flash, nvram_blob_offset) = nv_buf

\* An erase is of a log that is full.
EraseInv ==
  nv_pc = "erasing" =>
    /\ FirstTurn /\ fs_pc # "program" => BlobAt(flash, AreaSize - BlobSize) # EmptyBlob
    /\ Through => \A p \in Offsets : BlobAt(flash, p) = EmptyBlob

LogInv ==
  /\ \E o \in Offsets : Log(flash, o)
  /\ nv_pc = "ready" /\ nvram_storage =>
       IsCurrent(flash, nvram_blob_offset) /\ nvram_cache = BlobAt(flash, nvram_blob_offset)
  /\ WriteInv
  /\ EraseInv

AreaInv == NvLoop /\ (~nv_failed => LogInv)
NvInv == NvControl /\ AreaInv

-----------------------------------------------------------------------------
(***************************************************************************)
(* Places in the area.                                                     *)
(***************************************************************************)

LEMMA NvNumbers ==
  /\ AreaStart \in Nat /\ AreaSize \in Nat \ {0} /\ BlobSize \in Nat \ {0}
  /\ Size \in Nat \ {0} /\ EraseSize \in Nat \ {0} /\ AreaStart + AreaSize <= Size
  /\ AreaSize % BlobSize = 0 /\ AreaStart % EraseSize = 0
  /\ Blobs \subseteq [1 .. BlobSize -> Bytes] /\ EmptyBlob \notin Blobs
  /\ NoBlob \notin [1 .. BlobSize -> Bytes]
BY NvAssumption, FlashAssumption DEF EmptyBlob

\* flash_storage_write() is proved about for whatever the log may write.
LEMMA Applies ==
  /\ Size \in Nat \ {0} /\ EraseSize \in Nat \ {0} /\ Size % EraseSize = 0
  /\ \A r \in NvRequests : r.offset \in Nat /\ r.data \in Seq(SP!Bytes)
  /\ NoWrite \notin NvRequests
  /\ FlashFails \in BOOLEAN /\ PowerFails \in BOOLEAN /\ EraseTears \in BOOLEAN
<1>1. ASSUME NEW r \in NvRequests
      PROVE  r.offset \in Nat /\ r.data \in Seq(SP!Bytes)
  <2>1. CASE r = Area(0, Empty)
    BY <2>1, NvNumbers DEF Area, Empty, SP!Bytes, Bytes
  <2>2. ASSUME NEW o \in Offsets, NEW b \in Blobs, r = Area(o, b)
        PROVE  r.offset \in Nat /\ r.data \in Seq(SP!Bytes)
    BY <2>2, NvNumbers DEF Area, Offsets, SP!Bytes, Bytes
  <2> QED BY <2>1, <2>2 DEF NvRequests
<1> QED BY <1>1, FlashAssumption, NvRequestAssumption

LEMMA AlignedBefore ==
  ASSUME NEW x \in Nat, NEW n \in Nat \ {0}, x % n = 0, x > 0
  PROVE  x - n \in Nat /\ (x - n) % n = 0
<1>1. PICK k \in Nat : x = k * n
  BY SP!AlignedIs, Applies
<1>2. k # 0
  BY <1>1
<1>3. k - 1 \in Nat /\ x = (k - 1) * n + n /\ (k - 1) * n \in Nat
  BY <1>1, <1>2
<1>4. x - n = (k - 1) * n
  BY <1>3
<1> QED BY <1>3, <1>4, SP!AlignedIs, Applies

LEMMA OffsetFacts ==
  /\ \A o \in Offsets : o \in Nat /\ o + BlobSize <= AreaSize
  /\ \A o, p \in Offsets : o < p => o + BlobSize <= p
  /\ 0 \in Offsets /\ AreaSize - BlobSize \in Offsets
  /\ \A o \in Offsets : o + BlobSize < AreaSize => o + BlobSize \in Offsets
  /\ \A o \in Offsets : o > 0 => o - BlobSize \in Offsets
<1>1. /\ AreaSize \in Nat \ {0} /\ BlobSize \in Nat \ {0} /\ AreaSize % BlobSize = 0
  BY NvNumbers
<1>2. \A o : o \in Offsets <=> o \in 0 .. AreaSize - 1 /\ o % BlobSize = 0
  BY DEF Offsets
<1>3. ASSUME NEW o \in Offsets PROVE o \in Nat /\ o + BlobSize <= AreaSize
  BY <1>1, <1>2, SP!AlignedApart, Applies
<1>4. ASSUME NEW o \in Offsets, NEW p \in Offsets, o < p PROVE o + BlobSize <= p
  BY <1>1, <1>2, <1>4, SP!AlignedApart, Applies
<1>5. 0 \in Offsets
  BY <1>1, <1>2
<1>6. AreaSize - BlobSize \in Offsets
  <2>1. AreaSize \in Nat /\ AreaSize > 0
    BY <1>1
  <2>2. AreaSize - BlobSize \in Nat /\ (AreaSize - BlobSize) % BlobSize = 0
    BY <1>1, <2>1, AlignedBefore, Zenon
  <2> QED BY <1>1, <1>2, <2>2
<1>7. ASSUME NEW o \in Offsets, o + BlobSize < AreaSize PROVE o + BlobSize \in Offsets
  BY <1>1, <1>2, <1>7, SP!AlignedNext, Applies
<1>8. ASSUME NEW o \in Offsets, o > 0 PROVE o - BlobSize \in Offsets
  <2>1. o \in Nat /\ o % BlobSize = 0 /\ o <= AreaSize
    BY <1>1, <1>2, <1>3
  <2>2. o - BlobSize \in Nat /\ (o - BlobSize) % BlobSize = 0
    BY <1>1, <1>8, <2>1, AlignedBefore, Zenon
  <2> QED BY <1>1, <1>2, <2>1, <2>2
<1> QED BY <1>3, <1>4, <1>5, <1>6, <1>7, <1>8

LEMMA BlobFacts ==
  ASSUME NEW f, NEW p \in Offsets
  PROVE  /\ \A i \in 1 .. BlobSize : /\ AreaStart + p + i - 1 \in Addrs
                                     /\ BlobAt(f, p)[i] = f[AreaStart + p + i - 1]
         /\ f \in [Addrs -> Bytes] => BlobAt(f, p) \in [1 .. BlobSize -> Bytes]
         /\ \A g : BlobAt(f, p) = BlobAt(g, p)
                     <=> \A i \in 1 .. BlobSize : f[AreaStart + p + i - 1] = g[AreaStart + p + i - 1]
<1>1. \A h : BlobAt(h, p) = [i \in 1 .. BlobSize |-> h[AreaStart + p + i - 1]]
  BY DEF BlobAt, Slice
<1>2. ASSUME NEW i \in 1 .. BlobSize PROVE AreaStart + p + i - 1 \in Addrs
  <2>1. p \in Nat /\ p + BlobSize <= AreaSize
    BY OffsetFacts
  <2> QED BY <2>1, NvNumbers DEF Addrs
<1>3. \A i \in 1 .. BlobSize : BlobAt(f, p)[i] = f[AreaStart + p + i - 1]
  BY <1>1
<1>4. f \in [Addrs -> Bytes] => BlobAt(f, p) \in [1 .. BlobSize -> Bytes]
  BY <1>1, <1>2
<1>5. ASSUME NEW g
      PROVE  BlobAt(f, p) = BlobAt(g, p)
               <=> \A i \in 1 .. BlobSize : f[AreaStart + p + i - 1] = g[AreaStart + p + i - 1]
  <2>1. /\ BlobAt(f, p) = [i \in 1 .. BlobSize |-> f[AreaStart + p + i - 1]]
        /\ BlobAt(g, p) = [i \in 1 .. BlobSize |-> g[AreaStart + p + i - 1]]
    BY <1>1
  <2>2. ASSUME BlobAt(f, p) = BlobAt(g, p), NEW i \in 1 .. BlobSize
        PROVE  f[AreaStart + p + i - 1] = g[AreaStart + p + i - 1]
    BY <2>1, <2>2, Zenon
  <2>3. ASSUME \A i \in 1 .. BlobSize : f[AreaStart + p + i - 1] = g[AreaStart + p + i - 1]
        PROVE  BlobAt(f, p) = BlobAt(g, p)
    BY <2>1, <2>3, Zenon
  <2> QED BY <2>2, <2>3
<1> QED BY <1>2, <1>3, <1>4, <1>5

\* An address in the area is in its only sector.
LEMMA AreaFacts ==
  ASSUME OneSector
  PROVE  /\ \A p \in Offsets, i \in 1 .. BlobSize :
              /\ p + i \in 1 .. EraseSize
              /\ SP!SectorOf(AreaStart + p + i - 1) = AreaStart
         /\ \A a \in Addrs : SP!SectorOf(a) = AreaStart <=> a \in AreaStart .. AreaStart + AreaSize - 1
<1>1. ASSUME NEW p \in Offsets, NEW i \in 1 .. BlobSize
      PROVE  /\ p + i \in 1 .. EraseSize /\ AreaStart + p + i - 1 \in Nat
             /\ AreaStart <= AreaStart + p + i - 1 /\ AreaStart + p + i - 1 < AreaStart + EraseSize
  <2>1. p \in Nat /\ p + BlobSize <= AreaSize
    BY OffsetFacts
  <2> QED BY <2>1, NvNumbers DEF OneSector
<1>2. AreaStart \in Nat /\ AreaStart % EraseSize = 0 /\ EraseSize \in Nat \ {0}
  BY NvNumbers
<1>3. ASSUME NEW x \in Nat PROVE SP!SectorOf(x) = AreaStart <=> AreaStart <= x /\ x < AreaStart + EraseSize
  BY <1>2, SP!SectorIs, SP!SectorFacts, Applies
<1>4. ASSUME NEW a \in Addrs
      PROVE  SP!SectorOf(a) = AreaStart <=> a \in AreaStart .. AreaStart + AreaSize - 1
  BY <1>2, <1>3, NvNumbers DEF Addrs, OneSector
<1> QED BY <1>1, <1>3, <1>4

-----------------------------------------------------------------------------
(***************************************************************************)
(* The log.                                                                *)
(***************************************************************************)

LEMMA LastOffsetType ==
  ASSUME NEW f
  PROVE  LastOffset(f) \in Offsets
<1> DEFINE empty == {q \in Offsets \ {0} : BlobAt(f, q) = EmptyBlob}
<1>1. CASE empty = {}
  BY <1>1, OffsetFacts DEF LastOffset
<1>2. CASE empty # {}
  <2>1. empty \subseteq Nat
    BY OffsetFacts
  <2>2. \E x \in empty : \A y \in empty : x <= y
    <3> HIDE DEF empty
    <3> QED BY <1>2, <2>1, SP!Least, Applies
  <2>3. PICK x \in empty : LastOffset(f) = x - BlobSize
    <3>1. LastOffset(f) = (CHOOSE x \in empty : \A y \in empty : x <= y) - BlobSize
      BY <1>2 DEF LastOffset
    <3> HIDE DEF empty
    <3> QED BY <2>2, <3>1
  <2> QED BY <2>3, OffsetFacts
<1> QED BY <1>1, <1>2

\* flash_nvram_init() finds the current blob.
LEMMA LastOffsetIs ==
  ASSUME NEW f, NEW o, IsCurrent(f, o)
  PROVE  LastOffset(f) = o
<1> DEFINE empty == {q \in Offsets \ {0} : BlobAt(f, q) = EmptyBlob}
<1>1. /\ o \in Offsets /\ o \in Nat /\ BlobSize \in Nat \ {0} /\ AreaSize \in Nat
      /\ o + BlobSize <= AreaSize
  BY OffsetFacts, NvNumbers DEF IsCurrent, Log
<1>2. ASSUME NEW p \in empty PROVE p \in Nat /\ p < AreaSize /\ o + BlobSize <= p
  <2>1. p \in Nat /\ p < AreaSize /\ p # 0 /\ p \in Offsets
    BY <1>1, OffsetFacts DEF Offsets
  <2>2. ~(p < o) /\ p # o
    BY <1>1, <2>1 DEF IsCurrent, Log
  <2> QED BY <1>1, <2>1, <2>2, OffsetFacts
<1>3. CASE o + BlobSize < AreaSize
  <2>1. o + BlobSize \in empty
    BY <1>1, <1>3, OffsetFacts DEF IsCurrent, Log
  <2> HIDE DEF empty
  <2> DEFINE first == CHOOSE q \in empty : \A p \in empty : q <= p
  <2>2. first \in empty /\ first <= o + BlobSize
    BY <1>2, <2>1
  <2>3. first = o + BlobSize
    BY <1>1, <1>2, <2>2
  <2>4. LastOffset(f) = first - BlobSize
    BY <2>1 DEF LastOffset, empty
  <2> HIDE DEF first
  <2> QED BY <1>1, <2>3, <2>4
<1>4. CASE ~(o + BlobSize < AreaSize)
  <2>1. o = AreaSize - BlobSize
    BY <1>1, <1>4
  <2>2. ASSUME NEW p \in empty PROVE FALSE
    <3> HIDE DEF empty
    <3> QED BY <1>1, <1>2, <1>4
  <2> QED BY <2>1, <2>2 DEF LastOffset
<1> QED BY <1>3, <1>4

LEMMA LogIsCurrent ==
  ASSUME NEW f, NEW o, Log(f, o)
  PROVE  IsCurrent(f, LastOffset(f))
<1>1. \E q : IsCurrent(f, q)
  <2>1. CASE o = 0 \/ BlobAt(f, o) # EmptyBlob
    BY <2>1 DEF IsCurrent
  <2>2. CASE o # 0 /\ BlobAt(f, o) = EmptyBlob
    <3>1. /\ o \in Offsets /\ o \in Nat /\ o - BlobSize \in Offsets /\ o - BlobSize \in Nat
          /\ BlobSize \in Nat \ {0}
      BY <2>2, OffsetFacts, NvNumbers DEF Log
    <3>2. ASSUME NEW p \in Offsets, p > o - BlobSize PROVE BlobAt(f, p) = EmptyBlob
      <4>1. p \in Nat /\ (o - BlobSize) + BlobSize <= p
        BY <3>1, <3>2, OffsetFacts
      <4>2. p = o \/ p > o
        BY <3>1, <4>1
      <4> QED BY <2>2, <4>2 DEF Log
    <3>3. ASSUME NEW p \in Offsets, 0 < p, p <= o - BlobSize PROVE BlobAt(f, p) # EmptyBlob
      BY <3>1, <3>3, OffsetFacts DEF Log
    <3>4. Log(f, o - BlobSize)
      BY <3>1, <3>2, <3>3, OffsetFacts DEF Log
    <3>5. o - BlobSize = 0 \/ BlobAt(f, o - BlobSize) # EmptyBlob
      BY <3>1, <3>3
    <3> QED BY <3>4, <3>5 DEF IsCurrent
  <2> QED BY <2>1, <2>2
<1> QED BY <1>1, LastOffsetIs

\* Whatever becomes of the blob at o, the others stay: the log is one.
LEMMA LogOther ==
  ASSUME NEW f, NEW g, NEW o, Log(f, o), \A p \in Offsets : p # o => BlobAt(g, p) = BlobAt(f, p)
  PROVE  Log(g, o)
<1>1. \A p \in Offsets : p \in Nat
  BY OffsetFacts
<1> QED BY <1>1 DEF Log

LEMMA EmptyLog ==
  ASSUME NEW f, \A p \in Offsets : BlobAt(f, p) = EmptyBlob
  PROVE  Log(f, 0)
<1>1. \A p \in Offsets : p \in Nat
  BY OffsetFacts
<1> QED BY <1>1, OffsetFacts DEF Log

\* A full log, or one that the next blob extends.
LEMMA NextBlob ==
  ASSUME NEW f, NEW o, IsCurrent(f, o), BlobAt(f, o) # EmptyBlob
  PROVE  /\ o + BlobSize < AreaSize =>
              Log(f, o + BlobSize) /\ BlobAt(f, o + BlobSize) = EmptyBlob
         /\ o + BlobSize >= AreaSize => o = AreaSize - BlobSize
<1>1. /\ o \in Offsets /\ o \in Nat /\ BlobSize \in Nat \ {0} /\ AreaSize \in Nat
      /\ o + BlobSize <= AreaSize
  BY OffsetFacts, NvNumbers DEF IsCurrent, Log
<1>2. ASSUME o + BlobSize < AreaSize
      PROVE  Log(f, o + BlobSize) /\ BlobAt(f, o + BlobSize) = EmptyBlob
  <2>1. o + BlobSize \in Offsets
    BY <1>1, <1>2, OffsetFacts
  <2>2. \A p \in Offsets : p \in Nat /\ (p > o => BlobAt(f, p) = EmptyBlob)
    BY OffsetFacts DEF IsCurrent, Log
  <2>3. ASSUME NEW p \in Offsets, 0 < p, p < o + BlobSize PROVE BlobAt(f, p) # EmptyBlob
    <3>1. p \in Nat /\ ~(o < p)
      BY <1>1, <2>3, OffsetFacts
    <3>2. p = o \/ p < o
      BY <1>1, <3>1
    <3> QED BY <2>3, <3>2 DEF IsCurrent, Log
  <2>4. \A p \in Offsets : p > o + BlobSize => p > o
    BY <1>1, <2>2
  <2> QED BY <1>1, <2>1, <2>2, <2>3, <2>4 DEF Log
<1> QED BY <1>1, <1>2

-----------------------------------------------------------------------------
(***************************************************************************)
(* The writes of the log are writes of flash_storage_write().              *)
(***************************************************************************)

LEMMA SameFlash ==
  /\ SP!Addrs = Addrs /\ SP!Bytes = Bytes
  /\ \A f, x, n : SP!Slice(f, x, n) = Slice(f, x, n)
  /\ Storage!Addrs = SP!Addrs
  /\ \A a : Storage!SectorOf(a) = SP!SectorOf(a)
  /\ \A f, x, n : Storage!Slice(f, x, n) = SP!Slice(f, x, n)
  /\ \A f, g : Storage!CutShort(f, g) = SP!CutShort(f, g)
  /\ \A f, s : Storage!Erased(f, s) = SP!Erased(f, s)
  /\ \A f, x, d : Storage!Programmed(f, x, d) = SP!Programmed(f, x, d)
BY DEF SP!Addrs, Addrs, SP!Bytes, Bytes, SP!Slice, Slice, Storage!Addrs, Storage!SectorOf, SP!SectorOf,
   Storage!Slice, Storage!CutShort, SP!CutShort, Storage!Erased, SP!Erased, Storage!Programmed,
   SP!Programmed, Storage!Covers, SP!Covers

LEMMA SameSector ==
  /\ Storage!Chunk = SP!Chunk /\ Storage!End = SP!End
  /\ Storage!EraseCutShort = SP!EraseCutShort
  /\ Storage!SectorProgrammed = SP!SectorProgrammed
<1>1. Storage!Chunk = SP!Chunk /\ Storage!End = SP!End
  BY SameFlash DEF Storage!Chunk, SP!Chunk, Storage!End, SP!End
<1>2. Storage!EraseCutShort = SP!EraseCutShort
  BY SameFlash DEF Storage!EraseCutShort, SP!EraseCutShort
<1>3. Storage!Merged = SP!Merged
  BY <1>1 DEF Storage!Merged, SP!Merged
<1>4. Storage!WriteBuf = SP!WriteBuf
  BY <1>3 DEF Storage!WriteBuf, SP!WriteBuf
<1>5. Storage!SectorProgrammed = SP!SectorProgrammed
  BY <1>4, SameFlash DEF Storage!SectorProgrammed, SP!SectorProgrammed
<1> QED BY <1>1, <1>2, <1>5

LEMMA SameWrite ==
  ASSUME NEW r, Storage!FlashStorageWrite(r)
  PROVE  SP!FlashStorageWrite(r)
BY SameFlash DEF Storage!FlashStorageWrite, SP!FlashStorageWrite

LEMMA SameRead ==
  ASSUME Storage!ReadSector
  PROVE  SP!ReadSector
BY SameFlash, SameSector DEF Storage!ReadSector, SP!ReadSector, Storage!Return, SP!Return,
   Storage!NeedsErase, SP!NeedsErase

LEMMA SameSteps ==
  ASSUME Storage!StorageStep
  PROVE  SP!StorageStep
<1>1. ASSUME Storage!EraseSector PROVE SP!EraseSector
  BY <1>1, SameFlash, SameSector DEF Storage!EraseSector, SP!EraseSector, Storage!Return, SP!Return
<1>2. ASSUME Storage!ProgramSector PROVE SP!ProgramSector
  BY <1>2, SameFlash, SameSector DEF Storage!ProgramSector, SP!ProgramSector, Storage!Return, SP!Return
<1>3. ASSUME Storage!WriteReturns PROVE SP!WriteReturns
  BY <1>3, SameSector DEF Storage!WriteReturns, SP!WriteReturns, Storage!Return, SP!Return
<1> QED BY <1>1, <1>2, <1>3, SameRead DEF Storage!StorageStep, SP!StorageStep

LEMMA SamePowerLoss ==
  ASSUME Storage!PowerLoss
  PROVE  SP!PowerLoss
BY SameFlash, SameSector DEF Storage!PowerLoss, SP!PowerLoss, Storage!Return, SP!Return

-----------------------------------------------------------------------------
(***************************************************************************)
(* One turn of the loop.                                                   *)
(***************************************************************************)

\* A request of the log lies in its sector.
LEMMA RequestFacts ==
  ASSUME OneSector, NvControl, nv_pc \in {"erasing", "writing"}
  PROVE  /\ NvRequest \in NvRequests
         /\ NvRequest.offset - AreaStart \in Offsets /\ NvRequest.offset \in Nat
         /\ NvRequest.offset = AreaStart + (NvRequest.offset - AreaStart)
         /\ Len(NvRequest.data) \in Nat \ {0}
         /\ NvRequest.offset + Len(NvRequest.data) <= AreaStart + EraseSize
         /\ nv_pc = "writing" => /\ NvRequest.offset - AreaStart = nvram_blob_offset
                                 /\ NvRequest.data = nv_buf /\ Len(NvRequest.data) = BlobSize
         /\ nv_pc = "erasing" => /\ NvRequest.offset - AreaStart = 0
                                 /\ NvRequest.data = Empty /\ Len(NvRequest.data) = EraseSize
<1>1. CASE nv_pc = "erasing"
  <2>1. NvRequest = [offset |-> AreaStart + 0, data |-> Empty] /\ NvRequest \in NvRequests
    BY <1>1 DEF NvRequest, Area, NvRequests
  <2>2. Len(Empty) = AreaSize
    BY NvNumbers DEF Empty
  <2> QED BY <1>1, <2>1, <2>2, NvNumbers, OffsetFacts DEF OneSector
<1>2. CASE nv_pc = "writing"
  <2>1. nvram_blob_offset \in Offsets /\ nv_buf \in Blobs
    BY <1>2 DEF NvControl
  <2>2. /\ NvRequest = [offset |-> AreaStart + nvram_blob_offset, data |-> nv_buf]
        /\ NvRequest \in NvRequests
    BY <1>2, <2>1 DEF NvRequest, Area, NvRequests
  <2>3. Len(nv_buf) = BlobSize
    BY <2>1, NvNumbers
  <2>4. nvram_blob_offset \in Nat /\ nvram_blob_offset + BlobSize <= AreaSize
    BY <2>1, OffsetFacts
  <2> QED BY <1>2, <2>1, <2>2, <2>3, <2>4, NvNumbers DEF OneSector
<1> QED BY <1>1, <1>2

LEMMA TurnFacts ==
  ASSUME OneSector, NvControl, NvLoop, SP!StorageInv, fs_pc # "idle"
  PROVE  /\ nv_pc \in {"erasing", "writing"} /\ request = NvRequest
         /\ SP!InStep /\ SP!End = AreaStart + EraseSize
         /\ pos < SP!End <=> pos = AreaStart
         /\ pos = AreaStart \/ (pos = AreaStart + EraseSize /\ fs_pc = "loop")
<1>1. nv_pc \in {"erasing", "writing"} /\ request = NvRequest /\ SP!InStep
  BY DEF NvControl, NvPcs, NvLoop, SP!StorageInv
<1>2. /\ AreaStart \in Nat /\ EraseSize \in Nat \ {0} /\ AreaStart % EraseSize = 0
  BY NvNumbers
<1> DEFINE e == SP!End
           x == request.offset + Len(request.data)
<1>3. x \in Nat /\ AreaStart < x /\ x <= AreaStart + EraseSize
  <2>1. /\ request.offset \in Nat /\ Len(request.data) \in Nat \ {0}
        /\ request.offset - AreaStart \in Offsets
        /\ request.offset + Len(request.data) <= AreaStart + EraseSize
    BY <1>1, RequestFacts
  <2>2. request.offset - AreaStart \in Nat
    BY <2>1, OffsetFacts
  <2> QED BY <1>2, <2>1, <2>2
<1>4. e \in Nat /\ e % EraseSize = 0 /\ x <= e /\ e < x + EraseSize
  BY <1>1, SP!InStepFacts, Applies
<1> HIDE DEF e, x
<1>5. AreaStart + EraseSize <= e
  <2>1. AreaStart < e
    BY <1>2, <1>3, <1>4
  <2> QED BY <1>2, <1>4, <2>1, SP!AlignedApart, Applies
<1>6. (AreaStart + EraseSize) % EraseSize = 0
  BY <1>2, SP!AlignedNext, Applies
<1>7. e = AreaStart + EraseSize
  <2> DEFINE n == AreaStart + EraseSize
  <2>1. n \in Nat /\ n % EraseSize = 0
    BY <1>2, <1>6
  <2> HIDE DEF n
  <2>2. n < e => n + EraseSize <= e
    BY <1>2, <1>4, <2>1, SP!AlignedApart, Applies
  <2> QED BY <1>2, <1>3, <1>4, <1>5, <2>2 DEF n
<1>8. pos = AreaStart \/ (pos = AreaStart + EraseSize /\ fs_pc = "loop")
  BY DEF NvLoop
<1> QED BY <1>1, <1>2, <1>7, <1>8 DEF e

LEMMA TurnChunk ==
  ASSUME OneSector, NvControl, NvLoop, SP!StorageInv, FirstTurn
  PROVE  /\ input_pos = 0 /\ extra_low = request.offset - AreaStart
         /\ Len(SP!Chunk) = Len(request.data)
         /\ \A k \in 1 .. Len(request.data) : SP!Chunk[k] = request.data[k]
<1>1. /\ fs_pc # "idle" /\ pos = AreaStart /\ pos < SP!End /\ SP!InStep /\ request = NvRequest
      /\ nv_pc \in {"erasing", "writing"}
  BY TurnFacts DEF FirstTurn
<1>2. AreaStart \in Nat /\ EraseSize \in Nat \ {0}
  BY NvNumbers
<1>3. input_pos = 0 /\ extra_low = request.offset - AreaStart
  BY <1>1, <1>2 DEF NvLoop
<1>4. /\ Len(SP!Chunk) \in Nat /\ extra_low + Len(SP!Chunk) <= EraseSize
      /\ input_pos + Len(SP!Chunk) <= Len(request.data)
      /\ extra_low + Len(SP!Chunk) = EraseSize \/ input_pos + Len(SP!Chunk) = Len(request.data)
      /\ \A k \in 1 .. Len(SP!Chunk) : SP!Chunk[k] = request.data[input_pos + k]
  BY <1>1, SP!ChunkFacts, Applies
<1>5. /\ request.offset \in Nat /\ Len(request.data) \in Nat
      /\ request.offset + Len(request.data) <= AreaStart + EraseSize
  BY <1>1, RequestFacts
<1>6. Len(SP!Chunk) = Len(request.data)
  BY <1>2, <1>3, <1>4, <1>5
<1>7. ASSUME NEW k \in 1 .. Len(request.data) PROVE SP!Chunk[k] = request.data[k]
  <2>1. input_pos + k = k
    BY <1>3, <1>5
  <2> QED BY <1>4, <1>6, <2>1
<1> QED BY <1>3, <1>6, <1>7

\* The sector with the chunk in it, by places of the area.
LEMMA ProgrammedArea ==
  ASSUME OneSector, NvControl, NvLoop, SP!StorageInv, fs_pc = "program",
         NEW p \in Offsets, NEW i \in 1 .. BlobSize
  PROVE  /\ SP!SectorProgrammed[AreaStart + p + i - 1] =
              LET k == (p + i) - (request.offset - AreaStart)
              IN  IF k \in 1 .. Len(request.data) THEN request.data[k] ELSE existing[p + i]
         /\ SP!SectorProgrammed[AreaStart + p + i - 1] \subseteq flash[AreaStart + p + i - 1]
         /\ flash[AreaStart + p + i - 1] \subseteq Bits
<1> DEFINE a == AreaStart + p + i - 1
           k == (p + i) - (request.offset - AreaStart)
<1>1. /\ pos = AreaStart /\ SP!InStep /\ pos < SP!End /\ SP!Programmable
      /\ flash \in [SP!Addrs -> SP!Bytes]
  BY TurnFacts DEF SP!StorageInv
<1>2. AreaStart \in Nat /\ p \in Nat /\ i \in Nat
  BY NvNumbers, OffsetFacts
<1>3. a \in SP!Addrs /\ SP!SectorOf(a) = pos /\ p + i \in 1 .. EraseSize /\ a - pos + 1 = p + i
      /\ pos + (p + i) - 1 = a
  <2>1. a \in Addrs /\ SP!SectorOf(a) = AreaStart /\ p + i \in 1 .. EraseSize
    BY BlobFacts, AreaFacts
  <2>2. a - AreaStart + 1 = p + i /\ AreaStart + (p + i) - 1 = a
    BY <1>2
  <2> QED BY <1>1, <2>1, <2>2, SameFlash
<1> HIDE DEF a
<1>4. SP!SectorProgrammed[a] = SP!Merged[p + i]
  BY <1>1, <1>3, SP!SectorProgrammedIs, Applies
<1>5. SP!Merged[p + i] = IF (p + i) - extra_low \in 1 .. Len(SP!Chunk)
                         THEN SP!Chunk[(p + i) - extra_low] ELSE existing[p + i]
  BY <1>1, <1>3, SP!MergedFacts, Applies DEF SP!Programmable
<1>6. FirstTurn
  BY <1>1 DEF FirstTurn
<1>7. SP!Merged[p + i] = IF k \in 1 .. Len(request.data) THEN request.data[k] ELSE existing[p + i]
  <2>1. /\ extra_low = request.offset - AreaStart /\ Len(SP!Chunk) = Len(request.data)
        /\ \A j \in 1 .. Len(request.data) : SP!Chunk[j] = request.data[j]
    BY <1>6, TurnChunk
  <2>2. (p + i) - extra_low = k
    BY <2>1
  <2> HIDE DEF k
  <2> QED BY <1>5, <2>1, <2>2
<1>8. SP!Merged[p + i] \subseteq flash[pos + (p + i) - 1]
  BY <1>1, <1>3 DEF SP!Programmable
<1>9. flash[a] \subseteq Bits
  BY <1>1, <1>3 DEF SP!Bytes
<1> QED BY <1>3, <1>4, <1>7, <1>8, <1>9 DEF a

LEMMA BetweenFacts ==
  ASSUME SP!StorageInv, fs_pc = "program",
         NEW h, h = SP!SectorProgrammed \/ h \in SP!CutShort(flash, SP!SectorProgrammed)
  PROVE  /\ \A a \in Addrs : h[a] \in {flash[a], SP!SectorProgrammed[a]}
         /\ \A a \in Addrs : SP!SectorOf(a) # pos => h[a] = flash[a]
         /\ \A a \in Addrs : h[a] \subseteq flash[a]
<1>1. SP!InStep /\ pos < SP!End /\ SP!Programmable /\ flash \in [SP!Addrs -> SP!Bytes]
  BY DEF SP!StorageInv
<1>2. /\ SP!SectorProgrammed \in [SP!Addrs -> SP!Bytes]
      /\ \A a \in SP!Addrs :
           SP!SectorProgrammed[a] = IF SP!SectorOf(a) = pos THEN SP!Merged[a - pos + 1] ELSE flash[a]
  BY <1>1, SP!SectorProgrammedIs, Applies
<1>3. \A a \in SP!Addrs : h[a] \in {flash[a], SP!SectorProgrammed[a]}
  BY <1>1, <1>2, SP!CutShortFacts, Applies
<1>4. ASSUME NEW a \in SP!Addrs PROVE SP!SectorProgrammed[a] \subseteq flash[a]
  <2>1. CASE SP!SectorOf(a) = pos
    <3>1. a - pos + 1 \in 1 .. EraseSize
      BY <1>1, <2>1, SP!SectorAddrs, Applies
    <3>2. pos + (a - pos + 1) - 1 = a
      BY <1>1 DEF SP!InStep, SP!Addrs
    <3>3. SP!Merged[a - pos + 1] \subseteq flash[pos + (a - pos + 1) - 1]
      BY <1>1, <3>1 DEF SP!Programmable
    <3> QED BY <1>2, <2>1, <3>2, <3>3
  <2> QED BY <1>2, <2>1
<1> QED BY <1>2, <1>3, <1>4, SameFlash

\* A blob that is written changes no other, and is there when the write is through.
LEMMA ProgramsBlob ==
  ASSUME OneSector, NvControl, NvLoop, SP!StorageInv, nv_pc = "writing", fs_pc = "program",
         existing = Slice(flash, pos, EraseSize),
         NEW h, h = SP!SectorProgrammed \/ h \in SP!CutShort(flash, SP!SectorProgrammed)
  PROVE  /\ \A p \in Offsets : p # nvram_blob_offset => BlobAt(h, p) = BlobAt(flash, p)
         /\ h = SP!SectorProgrammed => BlobAt(h, nvram_blob_offset) = nv_buf
<1> DEFINE o == nvram_blob_offset
           g == SP!SectorProgrammed
<1>1. /\ request.offset - AreaStart = o /\ request.data = nv_buf /\ Len(nv_buf) = BlobSize
      /\ o \in Offsets /\ nv_buf \in [1 .. BlobSize -> Bytes] /\ pos = AreaStart
  BY TurnFacts, RequestFacts, NvNumbers DEF NvControl
<1>2. AreaStart \in Nat /\ BlobSize \in Nat \ {0} /\ o \in Nat
  BY <1>1, NvNumbers, OffsetFacts
<1>3. ASSUME NEW p \in Offsets, NEW i \in 1 .. BlobSize
      PROVE  g[AreaStart + p + i - 1] =
               IF (p + i) - o \in 1 .. BlobSize THEN nv_buf[(p + i) - o] ELSE flash[AreaStart + p + i - 1]
  <2>1. g[AreaStart + p + i - 1] =
          IF (p + i) - o \in 1 .. BlobSize THEN nv_buf[(p + i) - o] ELSE existing[p + i]
    BY <1>1, ProgrammedArea
  <2>2. p + i \in 1 .. EraseSize /\ p \in Nat
    BY AreaFacts, OffsetFacts
  <2>3. existing[p + i] = flash[AreaStart + (p + i) - 1]
    BY <1>1, <2>2 DEF Slice
  <2>4. AreaStart + (p + i) - 1 = AreaStart + p + i - 1
    BY <1>2, <2>2
  <2> QED BY <2>1, <2>3, <2>4
<1>4. ASSUME NEW p \in Offsets, p # o
      PROVE  BlobAt(h, p) = BlobAt(flash, p)
  <2>1. p \in Nat /\ (p + BlobSize <= o \/ o + BlobSize <= p)
    BY <1>1, <1>2, <1>4, OffsetFacts
  <2>2. \A i \in 1 .. BlobSize : ~((p + i) - o \in 1 .. BlobSize)
    BY <1>2, <2>1
  <2>3. \A i \in 1 .. BlobSize : h[AreaStart + p + i - 1] = flash[AreaStart + p + i - 1]
    BY <1>3, <2>2, BetweenFacts, BlobFacts
  <2> QED BY <2>3, BlobFacts
<1>5. ASSUME h = g PROVE BlobAt(h, o) = nv_buf
  <2>1. ASSUME NEW i \in 1 .. BlobSize PROVE BlobAt(h, o)[i] = nv_buf[i]
    <3>1. (o + i) - o = i
      BY <1>2
    <3> QED BY <1>1, <1>3, <1>5, <3>1, BlobFacts
  <2>2. BlobAt(h, o) = [i \in 1 .. BlobSize |-> BlobAt(h, o)[i]]
    BY DEF BlobAt, Slice
  <2> QED BY <1>1, <2>1, <2>2
<1> QED BY <1>4, <1>5

\* The write of all ones leaves nothing but empty blobs, whatever of it is done.
LEMMA ProgramsEmpty ==
  ASSUME OneSector, NvControl, NvLoop, SP!StorageInv, nv_pc = "erasing", fs_pc = "program",
         NEW h, h = SP!SectorProgrammed \/ h \in SP!CutShort(flash, SP!SectorProgrammed)
  PROVE  \A p \in Offsets : BlobAt(h, p) = EmptyBlob
<1>1. /\ request.offset - AreaStart = 0 /\ request.data = Empty /\ Len(Empty) = EraseSize
  BY TurnFacts, RequestFacts
<1>2. ASSUME NEW p \in Offsets, NEW i \in 1 .. BlobSize PROVE h[AreaStart + p + i - 1] = Bits
  <2>1. p + i \in 1 .. EraseSize /\ (p + i) - 0 = p + i
    BY AreaFacts, OffsetFacts
  <2>2. SP!SectorProgrammed[AreaStart + p + i - 1] = Empty[p + i]
    BY <1>1, <2>1, ProgrammedArea
  <2>3. Empty[p + i] = Bits
    BY <2>1 DEF Empty, OneSector
  <2>4. flash[AreaStart + p + i - 1] = Bits
    <3>1. /\ SP!SectorProgrammed[AreaStart + p + i - 1] \subseteq flash[AreaStart + p + i - 1]
          /\ flash[AreaStart + p + i - 1] \subseteq Bits
      BY ProgrammedArea
    <3> QED BY <2>2, <2>3, <3>1
  <2> QED BY <2>2, <2>3, <2>4, BetweenFacts, BlobFacts
<1> QED BY <1>2 DEF BlobAt, Slice, EmptyBlob

LEMMA ErasesEmpty ==
  ASSUME OneSector, NEW h, h = SP!Erased(flash, AreaStart)
  PROVE  \A p \in Offsets : BlobAt(h, p) = EmptyBlob
<1>1. ASSUME NEW p \in Offsets, NEW i \in 1 .. BlobSize PROVE h[AreaStart + p + i - 1] = Bits
  <2>1. AreaStart + p + i - 1 \in Addrs /\ SP!SectorOf(AreaStart + p + i - 1) = AreaStart
    BY BlobFacts, AreaFacts
  <2> QED BY <2>1, SameFlash DEF SP!Erased
<1> QED BY <1>1 DEF BlobAt, Slice, EmptyBlob

-----------------------------------------------------------------------------
(***************************************************************************)
(* The invariant is kept.                                                  *)
(***************************************************************************)

LEMMA NvInitInv == NvInit => NvInv /\ SP!Init
<1> SUFFICES ASSUME NvInit
             PROVE  NvInv /\ SP!Init
  OBVIOUS
<1>1. SP!Init
  <2>1. flash \in [SP!Addrs -> SP!Bytes]
    BY SameFlash DEF NvInit, Bytes
  <2> QED BY <2>1 DEF NvInit, SP!Init, SP!StorageInit, Storage!StorageInit
<1>2. \A p \in Offsets : BlobAt(flash, p) = EmptyBlob
  <2>1. ASSUME NEW p \in Offsets, NEW i \in 1 .. BlobSize PROVE flash[AreaStart + p + i - 1] = Bits
    <3>1. p \in Nat /\ p + BlobSize <= AreaSize /\ AreaStart + p + i - 1 \in Addrs
      BY OffsetFacts, BlobFacts
    <3>2. AreaStart + p + i - 1 \in AreaStart .. AreaStart + AreaSize - 1
      BY <3>1, NvNumbers
    <3> QED BY <3>1, <3>2 DEF NvInit
  <2> QED BY <2>1 DEF BlobAt, Slice, EmptyBlob
<1>3. /\ nv_pc = "ready" /\ nv_buf = NoBlob /\ nvram_storage = FALSE /\ nvram_blob_offset = 0
      /\ nvram_cache = NoBlob /\ nv_ret = "none" /\ nv_failed = FALSE /\ fs_pc = "idle"
  BY DEF NvInit, Storage!StorageInit
<1>4. NvControl /\ NvLoop
  BY <1>3, OffsetFacts DEF NvControl, NvPcs, NvLoop
<1>5. LogInv
  <2>1. Log(flash, 0) /\ 0 \in Offsets
    BY <1>2, EmptyLog, OffsetFacts
  <2> QED BY <1>3, <2>1 DEF LogInv, WriteInv, EraseInv
<1> QED BY <1>1, <1>4, <1>5 DEF NvInv, AreaInv

\* What a call works with.
LEMMA CurrentFacts ==
  ASSUME NvControl, nv_pc = "ready", flash \in [Addrs -> Bytes]
  PROVE  /\ BlobOffset \in Offsets /\ Cache \in [1 .. BlobSize -> Bytes]
         /\ LogInv => IsCurrent(flash, BlobOffset) /\ Cache = BlobAt(flash, BlobOffset)
<1>1. CASE nvram_storage
  BY <1>1 DEF BlobOffset, Cache, NvControl, LogInv
<1>2. CASE ~nvram_storage
  <2>1. BlobOffset = LastOffset(flash) /\ Cache = BlobAt(flash, LastOffset(flash))
    BY <1>2 DEF BlobOffset, Cache
  <2>2. LastOffset(flash) \in Offsets
    BY LastOffsetType
  <2>3. BlobAt(flash, LastOffset(flash)) \in [1 .. BlobSize -> Bytes]
    BY <2>2, BlobFacts
  <2>4. LogInv => IsCurrent(flash, LastOffset(flash))
    BY LogIsCurrent DEF LogInv
  <2> QED BY <2>1, <2>2, <2>3, <2>4
<1> QED BY <1>1, <1>2

\* A request of the log is one that flash_storage_write() can be asked for, and what is
\* in hand stays what it should be, for an area of any size.
LEMMA ControlStep ==
  ASSUME NvControl, SP!StorageInv, [Next]_vars
  PROVE  NvControl' /\ [SP!Next]_<<flash, SP!storageVars>>
<1>0. flash \in [Addrs -> Bytes]
  BY SameFlash DEF SP!StorageInv
<1>1. ASSUME NEW o \in Offsets, NEW d, Area(o, d) \in NvRequests, StorageWrite(o, d)
      PROVE  SP!Next /\ UNCHANGED flash
  BY <1>1, SameWrite DEF StorageWrite, FmapWrite, SP!Next, SP!FlashStorageWrite
<1>2. ASSUME NEW buf \in Blobs, NvWrite(buf)
      PROVE  NvControl' /\ [SP!Next]_<<flash, SP!storageVars>>
  <2> DEFINE n == NewOffset(buf)
  <2>1. /\ BlobOffset \in Offsets /\ Cache \in [1 .. BlobSize -> Bytes]
        /\ nv_pc = "ready" /\ nvram_storage' = TRUE /\ nvram_cache' = Cache /\ nv_failed' = nv_failed
    BY <1>0, <1>2, CurrentFacts DEF NvWrite
  <2>2. n < AreaSize => n \in Offsets
    BY <2>1, OffsetFacts DEF NewOffset
  <2> HIDE DEF n
  <2>3. CASE UNCHANGED <<flash, fsVars, nv_pc, nv_buf, nv_failed>> /\ nv_ret' = "success"
             /\ nvram_blob_offset' = BlobOffset
    BY <2>1, <2>3 DEF NvControl, NvPcs, fsVars, SP!storageVars
  <2>4. CASE /\ n < AreaSize /\ nv_pc' = "writing" /\ nv_buf' = buf /\ nv_ret' = "none"
             /\ nvram_blob_offset' = n /\ StorageWrite(n, buf)
    <3>1. Area(n, buf) \in NvRequests
      BY <2>2, <2>4 DEF NvRequests
    <3>2. SP!Next
      BY <1>1, <2>2, <2>4, <3>1
    <3> QED BY <2>1, <2>2, <2>4, <3>2 DEF NvControl, NvPcs
  <2>5. CASE /\ nv_pc' = "erasing" /\ nv_buf' = buf /\ nv_ret' = "none"
             /\ nvram_blob_offset' = BlobOffset /\ StorageWrite(0, Empty)
    <3>1. Area(0, Empty) \in NvRequests /\ 0 \in Offsets
      BY OffsetFacts DEF NvRequests
    <3>2. SP!Next
      BY <1>1, <2>5, <3>1
    <3> QED BY <2>1, <2>5, <3>2 DEF NvControl, NvPcs
  <2> QED BY <1>2, <2>3, <2>4, <2>5 DEF NvWrite, n
<1>3. ASSUME EraseReturns
      PROVE  NvControl' /\ [SP!Next]_<<flash, SP!storageVars>>
  <2>1. /\ nv_pc = "erasing" /\ nv_pc' = "writing" /\ nvram_blob_offset' = 0 /\ StorageWrite(0, nv_buf)
        /\ UNCHANGED <<nv_buf, nvram_storage, nvram_cache, nv_ret, nv_failed>>
    BY <1>3 DEF EraseReturns
  <2>2. nv_buf \in Blobs /\ 0 \in Offsets
    BY <2>1, OffsetFacts DEF NvControl
  <2>3. Area(0, nv_buf) \in NvRequests
    BY <2>2 DEF NvRequests
  <2>4. SP!Next
    BY <1>1, <2>1, <2>2, <2>3
  <2> QED BY <2>1, <2>2, <2>4 DEF NvControl, NvPcs
<1>4. ASSUME StorageRuns
      PROVE  NvControl' /\ [SP!Next]_<<flash, SP!storageVars>>
  BY <1>4, SameSteps DEF StorageRuns, nvVars, NvControl, SP!Next
<1>5. ASSUME NvPowerLoss
      PROVE  NvControl' /\ [SP!Next]_<<flash, SP!storageVars>>
  BY <1>5, SamePowerLoss, OffsetFacts DEF NvPowerLoss, NvControl, NvPcs, SP!Next, SP!PowerLoss, SP!Return
<1>6. ASSUME NvInitCrash \/ NvInitFails \/ NvRead \/ WriteReturns \/ NvWriteFails \/ UNCHANGED vars
      PROVE  NvControl' /\ [SP!Next]_<<flash, SP!storageVars>>
  <2>1. UNCHANGED <<flash, SP!storageVars>> /\ UNCHANGED <<fs_pc, ret>>
    BY <1>6 DEF NvInitCrash, NvInitFails, NvRead, WriteReturns, NvWriteFails, vars, fsVars, SP!storageVars
  <2>2. CASE NvRead
    BY <1>0, <2>1, <2>2, CurrentFacts DEF NvRead, NvControl, NvPcs
  <2>3. CASE WriteReturns
    BY <2>1, <2>3, NvNumbers DEF WriteReturns, NvControl, NvPcs
  <2>4. CASE NvInitCrash
    <3>1. nv_pc = "ready" /\ nv_pc' = "crashed"
          /\ UNCHANGED <<flash, fsVars, nv_buf, nvram_storage, nvram_blob_offset, nvram_cache, nv_ret, nv_failed>>
      BY <2>4 DEF NvInitCrash
    <3> QED BY <2>1, <3>1 DEF NvControl, NvPcs
  <2>7. CASE NvInitFails
    <3>1. nv_pc = "ready" /\ nv_ret' = "unknown" /\ nv_failed' = TRUE
          /\ UNCHANGED <<flash, fsVars, nv_pc, nv_buf, nvram_storage, nvram_blob_offset, nvram_cache>>
      BY <2>7 DEF NvInitFails
    <3> QED BY <2>1, <3>1 DEF NvControl, NvPcs
  <2>5. CASE NvWriteFails
    BY <2>1, <2>5 DEF NvWriteFails, NvControl, NvPcs
  <2>6. CASE UNCHANGED vars
    BY <2>1, <2>6 DEF NvControl, vars, nvVars
  <2> QED BY <1>6, <2>2, <2>3, <2>4, <2>5, <2>6, <2>7
<1> QED BY <1>2, <1>3, <1>4, <1>5, <1>6 DEF Next, NvStep

\* storage_write() begins.
LEMMA BeginsWrite ==
  ASSUME OneSector, SP!StorageInv, NEW o \in Offsets, NEW d, Area(o, d) \in NvRequests,
         Len(d) \in Nat, o + Len(d) <= AreaSize, StorageWrite(o, d)
  PROVE  /\ fs_pc = "idle" /\ fs_pc' = "loop" /\ request' = Area(o, d) /\ ret' = "none"
         /\ pos' = AreaStart /\ input_pos' = 0 /\ extra_low' = request'.offset - AreaStart
         /\ UNCHANGED <<flash, existing>>
<1>1. SP!FlashStorageWrite(Area(o, d))
  BY SameWrite DEF StorageWrite, FmapWrite
<1>2. AreaStart \in Nat /\ o \in Nat /\ Size \in Nat /\ EraseSize \in Nat \ {0} /\ BlobSize \in Nat \ {0}
      /\ AreaStart + AreaSize <= Size /\ o + BlobSize <= AreaSize /\ AreaSize \in Nat
      /\ AreaStart % EraseSize = 0
  BY NvNumbers, OffsetFacts
<1>3. Area(o, d).offset = AreaStart + o /\ Area(o, d).data = d
  BY DEF Area
<1>4. ~(Area(o, d).offset + Len(Area(o, d).data) > Size)
  BY <1>2, <1>3
<1>5. SP!SectorOf(AreaStart + o) = AreaStart
  <2>1. AreaStart + o \in Nat /\ AreaStart <= AreaStart + o /\ AreaStart + o < AreaStart + EraseSize
    BY <1>2 DEF OneSector
  <2> QED BY <1>2, <2>1, SP!SectorIs, Applies
<1> QED BY <1>1, <1>3, <1>4, <1>5 DEF SP!FlashStorageWrite

\* VbExNvStorageWrite(), up to storage_write().
LEMMA NvWriteInv ==
  ASSUME OneSector, NvInv, SP!StorageInv, NEW buf \in Blobs, NvWrite(buf)
  PROVE  AreaInv'
<1> DEFINE o == BlobOffset
           c == Cache
           n == NewOffset(buf)
<1>0. /\ flash \in [Addrs -> Bytes] /\ NvControl /\ nv_pc = "ready" /\ nv_buf = NoBlob
      /\ fs_pc = "idle"
  BY SameFlash DEF SP!StorageInv, NvInv, NvWrite, NvControl
<1>1. /\ o \in Offsets /\ c \in [1 .. BlobSize -> Bytes]
      /\ ~nv_failed => IsCurrent(flash, o) /\ c = BlobAt(flash, o)
  BY <1>0, CurrentFacts DEF NvInv, AreaInv
<1>2. /\ nvram_storage' = TRUE /\ nvram_cache' = c /\ UNCHANGED nv_failed
      /\ n = IF InPlace(buf) THEN o ELSE o + BlobSize
  BY DEF NvWrite, NewOffset
<1>3. InPlace(buf) <=> \A i \in 1 .. BlobSize : buf[i] \subseteq c[i]
  BY DEF InPlace
<1>4. ~InPlace(buf) => c # EmptyBlob
  BY <1>3, NvNumbers DEF EmptyBlob, Bytes
<1>5. /\ o \in Nat /\ BlobSize \in Nat \ {0} /\ AreaSize \in Nat /\ o + BlobSize <= AreaSize
      /\ buf \in [1 .. BlobSize -> Bytes] /\ Len(buf) = BlobSize /\ buf # EmptyBlob
  BY <1>1, OffsetFacts, NvNumbers
<1> HIDE DEF o, c, n
<1>6. CASE buf = c /\ nv_ret' = "success" /\ nvram_blob_offset' = o
           /\ UNCHANGED <<flash, fsVars, nv_pc, nv_buf, nv_failed>>
  <2>1. UNCHANGED <<flash, SP!storageVars, fs_pc, ret>>
    BY <1>6 DEF fsVars, SP!storageVars
  <2>2. NvLoop'
    BY <1>0, <1>1, <1>2, <1>6, <2>1 DEF NvControl, NvPcs, NvLoop
  <2>3. ASSUME ~nv_failed' PROVE LogInv'
    BY <1>0, <1>1, <1>2, <1>6, <2>1, <2>3 DEF LogInv, WriteInv, EraseInv, NvInv, AreaInv
  <2> QED BY <2>1, <2>2, <2>3 DEF NvInv, AreaInv
<1>7. CASE /\ n < AreaSize
           /\ nv_pc' = "writing" /\ nv_buf' = buf /\ nv_ret' = "none"
           /\ nvram_blob_offset' = n /\ StorageWrite(n, buf)
  <2>1. n \in Offsets /\ n + BlobSize <= AreaSize /\ Area(n, buf) \in NvRequests
    <3>1. n \in Offsets
      BY <1>1, <1>2, <1>7, OffsetFacts
    <3> QED BY <3>1, OffsetFacts DEF NvRequests
  <2>2. /\ fs_pc' = "loop" /\ request' = Area(n, buf) /\ ret' = "none"
        /\ pos' = AreaStart /\ input_pos' = 0 /\ extra_low' = request'.offset - AreaStart
        /\ UNCHANGED <<flash, existing>>
    BY <1>5, <1>7, <2>1, BeginsWrite
  <2>4. NvLoop'
    BY <1>7, <2>2 DEF NvLoop, NvRequest
  <2>5. ASSUME ~nv_failed' PROVE LogInv'
    <3>1. IsCurrent(flash, o) /\ c = BlobAt(flash, o)
      BY <1>1, <1>2, <2>5
    <3>2. Log(flash, n) /\ \A i \in 1 .. BlobSize : buf[i] \subseteq BlobAt(flash, n)[i]
      <4>1. CASE InPlace(buf)
        BY <1>2, <1>3, <3>1, <4>1 DEF IsCurrent
      <4>2. CASE ~InPlace(buf)
        <5>1. Log(flash, n) /\ BlobAt(flash, n) = EmptyBlob
          BY <1>2, <1>4, <1>7, <3>1, <4>2, NextBlob
        <5>2. \A i \in 1 .. BlobSize : buf[i] \subseteq EmptyBlob[i]
          BY <1>5 DEF EmptyBlob, Bytes
        <5> QED BY <5>1, <5>2
      <4> QED BY <4>1, <4>2
    <3>3. fs_pc' = "loop" /\ pos' # AreaStart + EraseSize
      BY <2>2, NvNumbers
    <3> QED BY <1>7, <2>1, <2>2, <3>2, <3>3 DEF LogInv, WriteInv, EraseInv, FirstTurn, Through
  <2> QED BY <2>2, <2>4, <2>5 DEF NvInv, AreaInv
<1>8. CASE /\ n >= AreaSize
           /\ nv_pc' = "erasing" /\ nv_buf' = buf /\ nv_ret' = "none"
           /\ nvram_blob_offset' = o /\ StorageWrite(0, Empty)
  <2>1. 0 \in Offsets /\ Len(Empty) = AreaSize /\ Area(0, Empty) \in NvRequests /\ 0 + AreaSize <= AreaSize
    BY <1>5, OffsetFacts DEF NvRequests, Empty
  <2>2. /\ fs_pc' = "loop" /\ request' = Area(0, Empty) /\ ret' = "none"
        /\ pos' = AreaStart /\ input_pos' = 0 /\ extra_low' = request'.offset - AreaStart
        /\ UNCHANGED <<flash, existing>>
    BY <1>5, <1>8, <2>1, BeginsWrite
  <2>4. NvLoop'
    BY <1>8, <2>2 DEF NvLoop, NvRequest
  <2>5. ASSUME ~nv_failed' PROVE LogInv'
    <3>1. IsCurrent(flash, o) /\ c = BlobAt(flash, o)
      BY <1>1, <1>2, <2>5
    <3>2. ~InPlace(buf) /\ n = o + BlobSize
      BY <1>2, <1>5, <1>8
    <3>3. BlobAt(flash, AreaSize - BlobSize) # EmptyBlob
      BY <1>4, <1>8, <3>1, <3>2, NextBlob
    <3>4. fs_pc' = "loop" /\ pos' # AreaStart + EraseSize
      BY <2>2, NvNumbers
    <3>5. Log(flash, o)
      BY <3>1 DEF IsCurrent
    <3> QED BY <1>1, <1>8, <2>2, <3>3, <3>4, <3>5 DEF LogInv, WriteInv, EraseInv, FirstTurn, Through
  <2> QED BY <2>2, <2>4, <2>5 DEF NvInv, AreaInv
<1> QED BY <1>6, <1>7, <1>8 DEF NvWrite, o, c, n

\* The area is erased: the blob goes to its start.
LEMMA EraseReturnsInv ==
  ASSUME OneSector, NvInv, SP!StorageInv, EraseReturns
  PROVE  AreaInv'
<1>0. /\ NvControl /\ nv_pc = "erasing" /\ fs_pc = "idle" /\ ret = "ok" /\ nv_pc' = "writing"
      /\ nvram_blob_offset' = 0 /\ StorageWrite(0, nv_buf) /\ nv_buf \in Blobs
      /\ UNCHANGED <<nv_buf, nvram_storage, nvram_cache, nv_ret, nv_failed>>
  BY DEF NvInv, AreaInv, NvControl, EraseReturns
<1>1. /\ 0 \in Offsets /\ Area(0, nv_buf) \in NvRequests /\ Len(nv_buf) = BlobSize
      /\ BlobSize \in Nat /\ 0 + BlobSize <= AreaSize /\ nv_buf \in [1 .. BlobSize -> Bytes]
  <2>1. 0 \in Offsets /\ 0 + BlobSize <= AreaSize
    BY OffsetFacts
  <2>2. nv_buf \in [1 .. BlobSize -> Bytes] /\ BlobSize \in Nat
    BY <1>0, NvNumbers
  <2>3. Len(nv_buf) = BlobSize
    BY <2>2
  <2> QED BY <1>0, <2>1, <2>2, <2>3 DEF NvRequests
<1>2. /\ fs_pc' = "loop" /\ request' = Area(0, nv_buf) /\ ret' = "none"
      /\ pos' = AreaStart /\ input_pos' = 0 /\ extra_low' = request'.offset - AreaStart
      /\ UNCHANGED <<flash, existing>>
  BY <1>0, <1>1, BeginsWrite
<1>4. NvLoop'
  BY <1>0, <1>2 DEF NvLoop, NvRequest
<1>5. ASSUME ~nv_failed' PROVE LogInv'
  <2>1. \A p \in Offsets : BlobAt(flash, p) = EmptyBlob
    BY <1>0, <1>5 DEF NvInv, AreaInv, LogInv, EraseInv, Through
  <2>2. Log(flash, 0)
    BY <2>1, EmptyLog
  <2>3. \A i \in 1 .. BlobSize : nv_buf[i] \subseteq BlobAt(flash, 0)[i]
    <3>1. BlobAt(flash, 0) = EmptyBlob
      BY <1>1, <2>1
    <3> QED BY <1>1, <3>1 DEF EmptyBlob, Bytes
  <2>4. fs_pc' = "loop" /\ pos' # AreaStart + EraseSize
    BY <1>2, NvNumbers
  <2> QED BY <1>0, <1>1, <1>2, <2>2, <2>3, <2>4 DEF LogInv, WriteInv, EraseInv, FirstTurn, Through
<1> QED BY <1>2, <1>4, <1>5 DEF NvInv, AreaInv

\* The steps that leave the storage alone.
LEMMA NvOtherInv ==
  ASSUME OneSector, NvInv, SP!StorageInv,
         NvInitCrash \/ NvInitFails \/ NvRead \/ WriteReturns \/ NvWriteFails
  PROVE  AreaInv'
<1>0. NvControl /\ flash \in [Addrs -> Bytes] /\ (~nv_failed => LogInv)
  BY SameFlash DEF NvInv, AreaInv, SP!StorageInv
<1>1. CASE NvInitCrash
  BY <1>0, <1>1 DEF NvInitCrash, NvInv, AreaInv, NvControl, NvPcs, NvLoop, LogInv, WriteInv, EraseInv, fsVars
<1>2. CASE NvInitFails
  BY <1>0, <1>2 DEF NvInitFails, NvInv, AreaInv, NvControl, NvPcs, NvLoop, fsVars
<1>3. CASE NvRead
  <2>1. /\ nv_pc = "ready" /\ nvram_storage' = TRUE /\ nvram_blob_offset' = BlobOffset
        /\ nvram_cache' = Cache /\ nv_ret' \in {nv_ret, "success"}
        /\ UNCHANGED <<flash, fsVars, nv_pc, nv_buf, nv_failed>>
    BY <1>3 DEF NvRead
  <2>2. /\ BlobOffset \in Offsets /\ Cache \in [1 .. BlobSize -> Bytes]
        /\ LogInv => IsCurrent(flash, BlobOffset) /\ Cache = BlobAt(flash, BlobOffset)
    BY <1>0, <2>1, CurrentFacts
  <2>3. NvLoop'
    BY <1>0, <2>1, <2>2 DEF NvControl, NvPcs, NvLoop, fsVars
  <2>4. ASSUME ~nv_failed' PROVE LogInv'
    <3>1. LogInv /\ IsCurrent(flash, nvram_blob_offset') /\ nvram_cache' = BlobAt(flash, nvram_blob_offset')
      BY <1>0, <2>1, <2>2, <2>4
    <3> QED BY <2>1, <3>1 DEF LogInv, WriteInv, EraseInv
  <2> QED BY <2>1, <2>3, <2>4 DEF NvInv, AreaInv
<1>4. CASE WriteReturns
  <2>1. /\ nv_pc = "writing" /\ fs_pc = "idle" /\ ret = "ok" /\ nv_pc' = "ready" /\ nv_buf' = NoBlob
        /\ nvram_cache' = nv_buf /\ nv_ret' = "success" /\ nv_buf \in Blobs /\ nvram_storage
        /\ UNCHANGED <<flash, fsVars, nvram_storage, nvram_blob_offset, nv_failed>>
    BY <1>0, <1>4 DEF WriteReturns, NvControl
  <2>2. nv_buf \in [1 .. BlobSize -> Bytes] /\ nv_buf # EmptyBlob
    BY <2>1, NvNumbers
  <2>3. NvLoop'
    BY <1>0, <2>1, <2>2 DEF NvControl, NvPcs, NvLoop, fsVars
  <2>4. ASSUME ~nv_failed' PROVE LogInv'
    <3>1. LogInv /\ Log(flash, nvram_blob_offset) /\ BlobAt(flash, nvram_blob_offset) = nv_buf
      BY <1>0, <2>1, <2>4 DEF LogInv, WriteInv, Through
    <3>2. IsCurrent(flash, nvram_blob_offset)
      BY <2>2, <3>1 DEF IsCurrent
    <3> QED BY <2>1, <3>1, <3>2 DEF LogInv, WriteInv, EraseInv
  <2> QED BY <2>1, <2>3, <2>4 DEF NvInv, AreaInv
<1>5. CASE NvWriteFails
  BY <1>0, <1>5 DEF NvWriteFails, NvInv, AreaInv, NvControl, NvPcs, NvLoop, fsVars
<1> QED BY <1>1, <1>2, <1>3, <1>4, <1>5

\* flash_storage_write() gives up, or has come to its end.
LEMMA StorageReturnsInv ==
  ASSUME OneSector, NvInv, SP!StorageInv, nv_pc \in {"erasing", "writing"}, UNCHANGED nvVars,
         NEW result \in {"ok", "failed"}, SP!Return(result),
         result = "ok" => UNCHANGED flash /\ Through,
         ~nv_failed =>
           /\ \E o \in Offsets : Log(flash', o)
           /\ nv_pc = "writing" => Log(flash', nvram_blob_offset)
  PROVE  AreaInv'
<1>1. /\ NvControl /\ fs_pc' = "idle" /\ ret' = result
      /\ UNCHANGED <<nv_pc, nv_buf, nvram_storage, nvram_blob_offset, nvram_cache, nv_ret, nv_failed>>
  BY DEF NvInv, AreaInv, SP!Return, nvVars
<1>2. NvLoop'
  BY <1>1 DEF NvControl, NvLoop
<1>3. ASSUME ~nv_failed' PROVE LogInv'
  <2>1. ~FirstTurn' /\ (Through' => Through /\ UNCHANGED flash)
    BY <1>1 DEF FirstTurn, Through
  <2>2. LogInv /\ (\E o \in Offsets : Log(flash', o)) /\ (nv_pc = "writing" => Log(flash', nvram_blob_offset))
    BY <1>1, <1>3 DEF NvInv, AreaInv
  <2> QED BY <1>1, <2>1, <2>2 DEF LogInv, WriteInv, EraseInv
<1> QED BY <1>2, <1>3 DEF NvInv, AreaInv

LEMMA ReadRunsInv ==
  ASSUME OneSector, NvInv, SP!StorageInv, nv_pc \in {"erasing", "writing"}, UNCHANGED nvVars,
         SP!ReadSector
  PROVE  AreaInv'
<1>1. CASE SP!Return("failed")
  BY <1>1, StorageReturnsInv DEF SP!ReadSector, NvInv, AreaInv, LogInv, WriteInv
<1>2. CASE ~SP!Return("failed")
  <2>1. /\ fs_pc = "loop" /\ pos < SP!End /\ existing' = SP!Slice(flash, pos, EraseSize)
        /\ fs_pc' = IF SP!NeedsErase(existing', SP!Chunk) THEN "erase" ELSE "program"
        /\ UNCHANGED <<request, pos, input_pos, extra_low, ret, flash>>
        /\ UNCHANGED <<nv_pc, nv_buf, nvram_storage, nvram_blob_offset, nvram_cache, nv_ret, nv_failed>>
    BY <1>2 DEF SP!ReadSector, nvVars
  <2>2. NvControl /\ NvLoop /\ (~nv_failed => LogInv) /\ fs_pc # "idle"
    BY <2>1 DEF NvInv, AreaInv
  <2>3. pos = AreaStart /\ FirstTurn /\ request = NvRequest
    BY <2>1, <2>2, TurnFacts DEF FirstTurn
  <2>5. NvLoop'
    BY <2>1, <2>2, <2>3, NvNumbers DEF NvLoop, NvRequest
  <2>6. ASSUME ~nv_failed' PROVE LogInv'
    <3>1. LogInv
      BY <2>1, <2>2, <2>6
    <3>2. ~Through' /\ existing' = Slice(flash, pos, EraseSize)
      BY <2>1, SameFlash DEF Through
    <3>3. CASE nv_pc = "erasing"
      BY <2>1, <2>3, <3>1, <3>2, <3>3 DEF LogInv, WriteInv, EraseInv, FirstTurn
    <3>4. CASE nv_pc = "writing"
      <4> DEFINE o == nvram_blob_offset
      <4>1. /\ o \in Offsets /\ extra_low = o /\ Len(SP!Chunk) = BlobSize
            /\ \A k \in 1 .. BlobSize : SP!Chunk[k] = nv_buf[k]
        <5>1. /\ request.offset - AreaStart = o /\ request.data = nv_buf /\ Len(nv_buf) = BlobSize
          BY <2>2, <2>3, <3>4, RequestFacts
        <5> QED BY <2>2, <2>3, <5>1, TurnChunk DEF NvControl
      <4>2. \A i \in 1 .. BlobSize : nv_buf[i] \subseteq BlobAt(flash, o)[i]
        BY <2>3, <3>1, <3>4 DEF LogInv, WriteInv
      <4>3. ASSUME NEW i \in 1 .. BlobSize PROVE existing'[o + i] = BlobAt(flash, o)[i]
        <5>1. o + i \in 1 .. EraseSize /\ o \in Nat /\ AreaStart \in Nat /\ BlobSize \in Nat
          BY <4>1, AreaFacts, OffsetFacts, NvNumbers
        <5>2. existing'[o + i] = flash[AreaStart + (o + i) - 1]
          BY <2>3, <3>2, <5>1 DEF Slice
        <5>3. AreaStart + (o + i) - 1 = AreaStart + o + i - 1
          BY <5>1
        <5> QED BY <4>1, <5>2, <5>3, BlobFacts
      <4>4. ~SP!NeedsErase(existing', SP!Chunk)
        BY <4>1, <4>2, <4>3 DEF SP!NeedsErase
      <4>5. fs_pc' = "program"
        BY <2>1, <4>4
      <4> QED BY <2>1, <2>3, <3>1, <3>2, <3>4, <4>5 DEF LogInv, WriteInv, EraseInv, FirstTurn
    <3> QED BY <3>3, <3>4
  <2> QED BY <2>5, <2>6 DEF NvInv, AreaInv
<1> QED BY <1>1, <1>2

\* What one command of the flash may leave of the log.
LEMMA EraseLeaves ==
  ASSUME OneSector, ~EraseTears, NvInv, SP!StorageInv, fs_pc = "erase",
         NEW h, h = SP!Erased(flash, pos) \/ h \in SP!EraseCutShort, ~nv_failed
  PROVE  /\ nv_pc = "erasing" /\ BlobAt(flash, AreaSize - BlobSize) # EmptyBlob
         /\ \E o \in Offsets : Log(h, o)
<1>1. NvControl /\ NvLoop /\ LogInv
  BY DEF NvInv, AreaInv
<1>2. pos = AreaStart /\ nv_pc \in {"erasing", "writing"}
  BY <1>1, TurnFacts
<1>3. nv_pc = "erasing" /\ BlobAt(flash, AreaSize - BlobSize) # EmptyBlob
  BY <1>1, <1>2 DEF LogInv, WriteInv, EraseInv, FirstTurn
<1>4. h \in {flash, SP!Erased(flash, AreaStart)}
  BY <1>2 DEF SP!EraseCutShort
<1>5. ASSUME h = flash PROVE \E o \in Offsets : Log(h, o)
  BY <1>1, <1>5 DEF LogInv
<1>6. ASSUME h = SP!Erased(flash, AreaStart) PROVE \E o \in Offsets : Log(h, o)
  <2>1. Log(h, 0)
    BY <1>6, ErasesEmpty, EmptyLog
  <2> QED BY <2>1, OffsetFacts
<1> QED BY <1>3, <1>4, <1>5, <1>6

LEMMA ProgramLeaves ==
  ASSUME OneSector, NvInv, SP!StorageInv, fs_pc = "program",
         NEW h, h = SP!SectorProgrammed \/ h \in SP!CutShort(flash, SP!SectorProgrammed), ~nv_failed
  PROVE  /\ nv_pc \in {"erasing", "writing"}
         /\ \E o \in Offsets : Log(h, o)
         /\ nv_pc = "writing" => Log(h, nvram_blob_offset)
         /\ h = SP!SectorProgrammed =>
              /\ nv_pc = "writing" => BlobAt(h, nvram_blob_offset) = nv_buf
              /\ nv_pc = "erasing" => \A p \in Offsets : BlobAt(h, p) = EmptyBlob
<1>1. NvControl /\ NvLoop /\ LogInv
  BY DEF NvInv, AreaInv
<1>2. nv_pc \in {"erasing", "writing"}
  BY <1>1, TurnFacts
<1>3. CASE nv_pc = "writing"
  <2>1. Log(flash, nvram_blob_offset) /\ existing = Slice(flash, pos, EraseSize)
    BY <1>1, <1>3 DEF LogInv, WriteInv
  <2>2. /\ \A p \in Offsets : p # nvram_blob_offset => BlobAt(h, p) = BlobAt(flash, p)
        /\ h = SP!SectorProgrammed => BlobAt(h, nvram_blob_offset) = nv_buf
    BY <1>1, <1>3, <2>1, ProgramsBlob
  <2>3. Log(h, nvram_blob_offset)
    BY <2>1, <2>2, LogOther
  <2>4. nvram_blob_offset \in Offsets
    BY <1>1 DEF NvControl
  <2> QED BY <1>3, <2>2, <2>3, <2>4
<1>4. CASE nv_pc = "erasing"
  <2>1. \A p \in Offsets : BlobAt(h, p) = EmptyBlob
    BY <1>1, <1>4, ProgramsEmpty
  <2>2. Log(h, 0) /\ 0 \in Offsets
    BY <2>1, EmptyLog, OffsetFacts
  <2> QED BY <1>4, <2>1, <2>2
<1> QED BY <1>2, <1>3, <1>4

LEMMA EraseRunsInv ==
  ASSUME OneSector, ~EraseTears, NvInv, SP!StorageInv, nv_pc \in {"erasing", "writing"},
         UNCHANGED nvVars, SP!EraseSector
  PROVE  AreaInv'
<1>0. fs_pc = "erase"
  BY DEF SP!EraseSector
<1>1. CASE flash' \in SP!EraseCutShort /\ SP!Return("failed")
  <2>1. ~nv_failed => nv_pc = "erasing" /\ \E o \in Offsets : Log(flash', o)
    BY <1>0, <1>1, EraseLeaves
  <2> QED BY <1>1, <2>1, StorageReturnsInv
<1>2. CASE /\ flash' = SP!Erased(flash, pos) /\ fs_pc' = "program"
           /\ UNCHANGED <<request, pos, input_pos, extra_low, existing, ret>>
  <2>1. /\ NvControl /\ NvLoop
        /\ UNCHANGED <<nv_pc, nv_buf, nvram_storage, nvram_blob_offset, nvram_cache, nv_ret, nv_failed>>
    BY DEF NvInv, AreaInv, nvVars
  <2>2. pos = AreaStart /\ request = NvRequest
    BY <1>0, <2>1, TurnFacts
  <2>4. NvLoop'
    BY <1>0, <1>2, <2>1, <2>2, NvNumbers DEF NvLoop, NvRequest
  <2>5. ASSUME ~nv_failed' PROVE LogInv'
    <3>1. nv_pc = "erasing" /\ \E o \in Offsets : Log(flash', o)
      BY <1>0, <1>2, <2>1, <2>5, EraseLeaves
    <3> QED BY <1>2, <2>1, <3>1 DEF LogInv, WriteInv, EraseInv, Through
  <2> QED BY <2>4, <2>5 DEF NvInv, AreaInv
<1> QED BY <1>1, <1>2 DEF SP!EraseSector

LEMMA ProgramRunsInv ==
  ASSUME OneSector, NvInv, SP!StorageInv, nv_pc \in {"erasing", "writing"},
         UNCHANGED nvVars, SP!ProgramSector
  PROVE  AreaInv'
<1>0. fs_pc = "program"
  BY DEF SP!ProgramSector
<1>1. CASE flash' \in SP!CutShort(flash, SP!SectorProgrammed) /\ SP!Return("failed")
  <2>1. ~nv_failed => /\ \E o \in Offsets : Log(flash', o)
                      /\ nv_pc = "writing" => Log(flash', nvram_blob_offset)
    BY <1>0, <1>1, ProgramLeaves
  <2> QED BY <1>1, <2>1, StorageReturnsInv
<1>2. CASE /\ flash' = SP!SectorProgrammed /\ fs_pc' = "loop"
           /\ pos' = pos + EraseSize /\ existing' = <<>> /\ UNCHANGED <<request, ret>>
  <2>1. /\ NvControl /\ NvLoop
        /\ UNCHANGED <<nv_pc, nv_buf, nvram_storage, nvram_blob_offset, nvram_cache, nv_ret, nv_failed>>
    BY DEF NvInv, AreaInv, nvVars
  <2>2. pos = AreaStart /\ request = NvRequest
    BY <1>0, <2>1, TurnFacts
  <2>3. pos' = AreaStart + EraseSize /\ pos' # AreaStart
    BY <1>2, <2>2, NvNumbers
  <2>5. NvLoop'
    BY <1>2, <2>1, <2>2, <2>3 DEF NvLoop, NvRequest
  <2>6. ASSUME ~nv_failed' PROVE LogInv'
    <3>1. /\ \E o \in Offsets : Log(flash', o)
          /\ nv_pc = "writing" =>
               Log(flash', nvram_blob_offset) /\ BlobAt(flash', nvram_blob_offset) = nv_buf
          /\ nv_pc = "erasing" => \A p \in Offsets : BlobAt(flash', p) = EmptyBlob
      BY <1>0, <1>2, <2>1, <2>6, ProgramLeaves
    <3> QED BY <1>2, <2>1, <2>3, <3>1 DEF LogInv, WriteInv, EraseInv, FirstTurn
  <2> QED BY <2>5, <2>6 DEF NvInv, AreaInv
<1> QED BY <1>1, <1>2 DEF SP!ProgramSector

LEMMA StorageRunsInv ==
  ASSUME OneSector, ~EraseTears, NvInv, SP!StorageInv, StorageRuns
  PROVE  AreaInv'
<1>1. SP!StorageStep /\ nv_pc \in {"erasing", "writing"} /\ UNCHANGED nvVars
  BY SameSteps DEF StorageRuns
<1>2. CASE SP!WriteReturns
  <2>1. fs_pc = "loop" /\ pos >= SP!End /\ SP!Return("ok") /\ UNCHANGED flash
    BY <1>2 DEF SP!WriteReturns
  <2>2. Through
    <3>1. SP!End = AreaStart + EraseSize /\ (pos = AreaStart \/ pos = AreaStart + EraseSize)
      BY <2>1, TurnFacts DEF NvInv, AreaInv
    <3> QED BY <2>1, <3>1, NvNumbers DEF Through
  <2>3. ~nv_failed => LogInv
    BY DEF NvInv, AreaInv
  <2> QED BY <1>1, <2>1, <2>2, <2>3, StorageReturnsInv DEF LogInv, WriteInv
<1> QED BY <1>1, <1>2, ReadRunsInv, EraseRunsInv, ProgramRunsInv DEF SP!StorageStep

LEMMA NvPowerLossInv ==
  ASSUME OneSector, ~EraseTears, NvInv, SP!StorageInv, NvPowerLoss
  PROVE  AreaInv'
<1>1. /\ SP!PowerLoss /\ nv_pc' = "ready" /\ nv_buf' = NoBlob /\ nvram_storage' = FALSE
      /\ nvram_blob_offset' = 0 /\ nvram_cache' = NoBlob /\ nv_ret' = "none" /\ UNCHANGED nv_failed
  BY SamePowerLoss DEF NvPowerLoss
<1>2. fs_pc' = "idle" /\ ret' = "none" /\ nv_failed \in BOOLEAN
  BY <1>1 DEF SP!PowerLoss, SP!Return, NvInv, AreaInv, NvControl
<1>3. NvLoop'
  BY <1>1, <1>2, OffsetFacts DEF NvControl, NvPcs, NvLoop
<1>4. ASSUME ~nv_failed' PROVE \E o \in Offsets : Log(flash', o)
  <2>1. ~nv_failed /\ LogInv
    BY <1>1, <1>4 DEF NvInv, AreaInv
  <2>2. CASE fs_pc = "erase"
    BY <1>1, <2>1, <2>2, EraseLeaves DEF SP!PowerLoss
  <2>3. CASE fs_pc = "program"
    BY <1>1, <2>1, <2>3, ProgramLeaves DEF SP!PowerLoss
  <2>4. CASE fs_pc # "erase" /\ fs_pc # "program"
    BY <1>1, <2>1, <2>4 DEF SP!PowerLoss, LogInv
  <2> QED BY <2>2, <2>3, <2>4
<1>5. ~nv_failed' => LogInv'
  BY <1>1, <1>4 DEF LogInv, WriteInv, EraseInv
<1> QED BY <1>1, <1>3, <1>5 DEF NvInv, AreaInv

LEMMA NvStepInv ==
  ASSUME OneSector, ~EraseTears, NvInv, SP!StorageInv, [Next]_vars
  PROVE  NvInv'
<1>1. CASE NvStep
  BY <1>1, NvWriteInv, EraseReturnsInv, NvOtherInv, StorageRunsInv, ControlStep DEF NvStep, NvInv
<1>2. CASE NvPowerLoss
  BY <1>2, NvPowerLossInv, ControlStep DEF NvInv
<1>3. CASE UNCHANGED vars
  <2>1. UNCHANGED <<flash, fs_pc, request, pos, input_pos, extra_low, existing, ret, nvVars>>
    BY <1>3 DEF vars, fsVars
  <2>2. NvLoop'
    BY <2>1 DEF NvInv, AreaInv, NvLoop, NvRequest, nvVars
  <2>3. LogInv => LogInv'
    BY <2>1 DEF LogInv, WriteInv, EraseInv, FirstTurn, Through, nvVars
  <2> QED BY <2>1, <2>2, <2>3, ControlStep DEF NvInv, AreaInv, nvVars
<1> QED BY <1>1, <1>2, <1>3 DEF Next

-----------------------------------------------------------------------------
(***************************************************************************)
(* The theorems about the log.                                             *)
(***************************************************************************)

\* For an area of any size.
LEMMA NvControlHolds == Spec => [](NvControl /\ SP!StorageInv)
<1>1. NvInit => NvControl /\ SP!StorageInv
  BY NvInitInv, SP!StorageInitInv, Applies DEF NvInv
<1>2. NvControl /\ SP!StorageInv /\ [Next]_vars => (NvControl /\ SP!StorageInv)'
  BY ControlStep, SP!StorageStepInv, Applies
<1> QED BY <1>1, <1>2, PTL DEF Spec

\* A write that the log makes touches no sector but the area's: its request begins and
\* ends there, and the area begins and ends with a sector.
LEMMA SectorsOfArea ==
  ASSUME SP!StorageInv, fs_pc \in {"erase", "program"}, NEW a \in Addrs, SP!SectorOf(a) = pos
  PROVE  a \in AreaStart .. AreaStart + AreaSize - 1
<1>1. SP!InStep /\ pos < SP!End /\ request \in NvRequests
  BY DEF SP!StorageInv, SP!InStep
<1>2. /\ AreaStart \in Nat /\ AreaSize \in Nat \ {0} /\ BlobSize \in Nat \ {0} /\ EraseSize \in Nat \ {0}
      /\ AreaStart % EraseSize = 0 /\ AreaSize % EraseSize = 0 /\ Size \in Nat
  BY NvNumbers, NvAssumption
<1> DEFINE x == request.offset + Len(request.data)
           e == SP!End
           z == AreaStart + AreaSize
<1>3. request.offset \in Nat /\ AreaStart <= request.offset /\ x \in Nat /\ x <= z
  <2>1. CASE request = Area(0, Empty)
    <3>1. Len(Empty) = AreaSize
      BY NvNumbers DEF Empty
    <3> QED BY <1>2, <2>1, <3>1 DEF Area
  <2>2. ASSUME NEW o \in Offsets, NEW b \in Blobs, request = Area(o, b)
        PROVE  request.offset \in Nat /\ AreaStart <= request.offset /\ x \in Nat /\ x <= z
    <3>1. Len(b) = BlobSize
      BY NvNumbers
    <3>2. o \in Nat /\ o + BlobSize <= AreaSize
      BY OffsetFacts
    <3> QED BY <1>2, <2>2, <3>1, <3>2 DEF Area
  <2> QED BY <1>1, <2>1, <2>2 DEF NvRequests
<1>4. z \in Nat /\ z % EraseSize = 0
  <2>1. PICK j \in Nat : AreaStart = j * EraseSize
    BY <1>2, SP!AlignedIs, Applies
  <2>2. PICK k \in Nat : AreaSize = k * EraseSize
    BY <1>2, SP!AlignedIs, Applies
  <2>3. z = (j + k) * EraseSize /\ z \in Nat /\ j + k \in Nat
    BY <1>2, <2>1, <2>2
  <2> QED BY <1>2, <2>3, SP!AlignedIs, Applies
<1>5. /\ e \in Nat /\ e % EraseSize = 0 /\ e < x + EraseSize
      /\ pos \in Nat /\ pos % EraseSize = 0 /\ pos < e /\ pos + EraseSize <= e
      /\ pos + extra_low = request.offset + input_pos
      /\ extra_low \in 0 .. EraseSize - 1 /\ input_pos \in Nat
  BY <1>1, SP!InStepFacts, Applies DEF SP!InStep
<1> HIDE DEF e, x, z
<1>6. e <= z
  <2>1. z < e => z + EraseSize <= e
    BY <1>2, <1>4, <1>5, SP!AlignedApart, Applies
  <2> QED BY <1>2, <1>3, <1>4, <1>5, <2>1
<1>7. AreaStart <= pos
  <2>1. pos < AreaStart => pos + EraseSize <= AreaStart
    BY <1>2, <1>5, SP!AlignedApart, Applies
  <2> QED BY <1>2, <1>3, <1>5, <2>1
<1>8. a \in Nat /\ pos <= a /\ a < pos + EraseSize
  <2>1. a \in Nat
    BY DEF Addrs
  <2> QED BY <2>1, SP!SectorFacts, Applies
<1> QED BY <1>2, <1>4, <1>5, <1>6, <1>7, <1>8 DEF z

\* A step that changes the flash is one command of the write that runs.
LEMMA FlashChanges ==
  ASSUME SP!StorageInv, [Next]_vars, flash' # flash
  PROVE  \/ fs_pc = "erase" /\ (flash' = SP!Erased(flash, pos) \/ flash' \in SP!EraseCutShort)
         \/ fs_pc = "program" /\ (flash' = SP!SectorProgrammed \/ flash' \in SP!CutShort(flash, SP!SectorProgrammed))
<1>1. ASSUME NEW o, NEW d, StorageWrite(o, d) PROVE UNCHANGED flash
  BY <1>1, SameWrite DEF StorageWrite, FmapWrite, SP!FlashStorageWrite
<1>2. CASE StorageRuns
  <2>1. SP!StorageStep
    BY <1>2, SameSteps DEF StorageRuns
  <2> QED BY <2>1 DEF SP!StorageStep, SP!ReadSector, SP!EraseSector, SP!ProgramSector, SP!WriteReturns
<1>3. CASE NvPowerLoss
  <2>1. SP!PowerLoss
    BY <1>3, SamePowerLoss DEF NvPowerLoss
  <2> QED BY <2>1 DEF SP!PowerLoss
<1>4. ASSUME NEW buf \in Blobs, NvWrite(buf) PROVE UNCHANGED flash
  BY <1>1, <1>4 DEF NvWrite
<1>5. CASE EraseReturns
  BY <1>1, <1>5 DEF EraseReturns
<1>6. CASE NvInitCrash \/ NvInitFails \/ NvRead \/ WriteReturns \/ NvWriteFails \/ UNCHANGED vars
  BY <1>6 DEF NvInitCrash, NvInitFails, NvRead, WriteReturns, NvWriteFails, vars
<1> QED BY <1>2, <1>3, <1>4, <1>5, <1>6 DEF Next, NvStep

LEMMA KeepsOutside ==
  ASSUME SP!StorageInv, [Next]_vars
  PROVE  \A a \in Addrs \ (AreaStart .. AreaStart + AreaSize - 1) : flash'[a] = flash[a]
<1> SUFFICES ASSUME NEW a \in Addrs, a \notin AreaStart .. AreaStart + AreaSize - 1, flash' # flash
             PROVE  flash'[a] = flash[a]
  OBVIOUS
<1>1. \/ fs_pc = "erase" /\ (flash' = SP!Erased(flash, pos) \/ flash' \in SP!EraseCutShort)
      \/ fs_pc = "program" /\ (flash' = SP!SectorProgrammed \/ flash' \in SP!CutShort(flash, SP!SectorProgrammed))
  BY FlashChanges
<1>2. SP!SectorOf(a) # pos
  BY <1>1, SectorsOfArea
<1>3. CASE flash' = SP!Erased(flash, pos)
  BY <1>2, <1>3, SameFlash DEF SP!Erased
<1>4. CASE fs_pc = "erase" /\ flash' \in SP!EraseCutShort
  <2>1. \A b \in SP!Addrs : SP!SectorOf(b) # pos => flash'[b] = flash[b]
    BY <1>4, SP!OneSectorAtMost, Applies
  <2> QED BY <1>2, <2>1, SameFlash
<1>5. CASE fs_pc = "program"
  BY <1>1, <1>2, <1>5, BetweenFacts
<1> QED BY <1>1, <1>3, <1>4, <1>5

\* Every variable of the callbacks and of flash_storage_write() holds a value of its
\* type, in an area of any size: no offset leaves the log's grid, and no cache is used
\* that flash_nvram_init() has not read.
THEOREM NvTypeCorrect == Spec => []NvTypeOK
<1>1. ASSUME NvControl, SP!StorageInv
      PROVE  NvTypeOK
  <2>1. SP!StorageTypeOK
    BY <1>1, SP!InvTypeOK, Applies
  <2>2. SP!End = Storage!End
    BY SameSector
  <2>3. Storage!StorageTypeOK
    BY <2>1, <2>2, SameFlash DEF SP!StorageTypeOK, Storage!StorageTypeOK, SP!FsPcs, Storage!FsPcs,
       SP!Sectors, Storage!Sectors, Storage!Bytes, SP!Bytes
  <2>4. nv_buf \in Blobs \cup {NoBlob}
    BY <1>1 DEF NvControl, NvPcs
  <2> QED BY <1>1, <2>3, <2>4 DEF NvControl, NvTypeOK
<1> QED BY <1>1, NvControlHolds, PTL

\* Whatever fails, and however many sectors the area has, the callbacks change nothing
\* in the flash but the area: the write that fmap_storage_write() passes on stays in it.
THEOREM NvKeepsOutside ==
  Spec => [][\A a \in Addrs \ (AreaStart .. AreaStart + AreaSize - 1) : flash'[a] = flash[a]]_vars
<1>1. ASSUME NvControl, SP!StorageInv, [Next]_vars
      PROVE  [\A a \in Addrs \ (AreaStart .. AreaStart + AreaSize - 1) : flash'[a] = flash[a]]_vars
  BY <1>1, KeepsOutside
<1> QED BY <1>1, NvControlHolds, PTL DEF Spec

\* An area of one sector, with erases that are done or not.
LEMMA NvInvHolds ==
  ASSUME OneSector, ~EraseTears
  PROVE  Spec => [](NvInv /\ SP!StorageInv)
<1>1. NvInit => NvInv /\ SP!StorageInv
  BY NvInitInv, SP!StorageInitInv, Applies
<1>2. NvInv /\ SP!StorageInv /\ [Next]_vars => (NvInv /\ SP!StorageInv)'
  BY NvStepInv, ControlStep, SP!StorageStepInv, Applies DEF NvInv
<1> QED BY <1>1, <1>2, PTL DEF Spec

\* In an area of one sector, a write that vboot was told has succeeded is found by the
\* next start, wherever the power was lost before it, and at the offset in hand.
THEOREM NvWrittenIsCurrent ==
  ASSUME OneSector, ~EraseTears
  PROVE  Spec => []WrittenIsCurrent
<1>1. ASSUME NvInv
      PROVE  WrittenIsCurrent
  <2> SUFFICES ASSUME nv_pc = "ready", nv_ret = "success", ~Failed
               PROVE  /\ LastOffset(flash) = nvram_blob_offset
                      /\ BlobAt(flash, nvram_blob_offset) = nvram_cache
    BY DEF WrittenIsCurrent
  <2>1. NvControl /\ LogInv
    BY <1>1 DEF NvInv, AreaInv, Failed
  <2>2. IsCurrent(flash, nvram_blob_offset) /\ nvram_cache = BlobAt(flash, nvram_blob_offset)
    BY <2>1 DEF NvControl, LogInv
  <2> QED BY <2>2, LastOffsetIs
<1> QED BY <1>1, NvInvHolds, PTL

\* In an area of one sector, a loss of power between or within any two commands leaves
\* the written blobs before the empty ones, as long as no command has failed.
THEOREM NvLogHasNoHoles ==
  ASSUME OneSector, ~EraseTears
  PROVE  Spec => []LogHasNoHoles
<1>1. ASSUME NvInv
      PROVE  LogHasNoHoles
  <2> SUFFICES ASSUME ~Failed, NEW o \in Offsets, BlobAt(flash, o) # EmptyBlob,
                      NEW p \in Offsets, p < o, p # 0
               PROVE  BlobAt(flash, p) # EmptyBlob
    BY DEF LogHasNoHoles
  <2>1. PICK q \in Offsets : Log(flash, q)
    BY <1>1 DEF NvInv, AreaInv, Failed, LogInv
  <2>2. o \in Nat /\ p \in Nat /\ q \in Nat
    BY <2>1, OffsetFacts
  <2>3. ~(o > q)
    BY <2>1 DEF Log
  <2>4. 0 < p /\ p < q
    BY <2>2, <2>3
  <2> QED BY <2>1, <2>4 DEF Log
<1> QED BY <1>1, NvInvHolds, PTL

\* In an area of one sector, only a full log is erased: what clears bits or fits in the
\* next blob costs no erase, whatever the order of writes and losses of power.
THEOREM NvSparesTheFlash ==
  ASSUME OneSector, ~EraseTears
  PROVE  Spec => SparesTheFlash
<1>1. ASSUME NvInv, SP!StorageInv, [Next]_vars
      PROVE  [/\ \A a \in Addrs \ (AreaStart .. AreaStart + AreaSize - 1) : flash'[a] = flash[a]
              /\ ~Failed' /\ (\E a \in Addrs : ~(flash'[a] \subseteq flash[a]))
                   => BlobAt(flash, AreaSize - BlobSize) # EmptyBlob]_vars
  <2>1. \A a \in Addrs \ (AreaStart .. AreaStart + AreaSize - 1) : flash'[a] = flash[a]
    BY <1>1, KeepsOutside
  <2>2. ASSUME ~Failed', NEW a \in Addrs, ~(flash'[a] \subseteq flash[a])
        PROVE  BlobAt(flash, AreaSize - BlobSize) # EmptyBlob
    <3>1. ~nv_failed
      <4>1. ~nv_failed' /\ nv_failed \in BOOLEAN
        BY <1>1, <2>2 DEF Failed, NvInv, NvControl
      <4> QED BY <1>1, <4>1 DEF Next, NvStep, NvInitCrash, NvInitFails, NvRead, NvWrite, StorageRuns,
             EraseReturns, WriteReturns, NvWriteFails, NvPowerLoss, vars, nvVars
    <3>2. flash' # flash
      BY <2>2
    <3>3. ~(fs_pc = "program" /\ (flash' = SP!SectorProgrammed \/ flash' \in SP!CutShort(flash, SP!SectorProgrammed)))
      BY <1>1, <2>2, BetweenFacts
    <3> QED BY <1>1, <3>1, <3>2, <3>3, FlashChanges, EraseLeaves
  <2> QED BY <2>1, <2>2
<1> QED BY <1>1, NvInvHolds, PTL DEF Spec, SparesTheFlash

\* Every write that the log makes keeps the promise of flash_storage_write(): what was
\* proved of that function for any request is proved of the requests of the callbacks.
THEOREM NvWritesToDevice == Spec => SP!ImplementsStorageDevice
<1>1. NvInit => SP!Init
  BY NvInitInv
<1>2. NvControl /\ SP!StorageInv /\ [Next]_vars => [SP!Next]_<<flash, SP!storageVars>>
  BY ControlStep
<1>3. Spec => SP!Spec
  BY <1>1, <1>2, NvControlHolds, PTL DEF Spec, SP!Spec
<1>4. SP!Spec => SP!ImplementsStorageDevice
  BY SP!StorageIsDevice, Applies
<1> QED BY <1>3, <1>4, PTL
=============================================================================

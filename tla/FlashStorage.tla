---------------------------- MODULE FlashStorage ----------------------------
(***************************************************************************)
(* flash_storage_write() of drivers/storage/flash.c: a write of any bytes  *)
(* anywhere becomes, for one sector after the other, a read, an erase if a *)
(* bit has to go from zero to one, and a write of the whole sector.  Each  *)
(* flash command may fail and the power may be lost at any of them.        *)
(***************************************************************************)
EXTENDS Flash

CONSTANTS
  Requests,      \* the writes callers make: [offset, data]
  NoWrite,       \* none of them
  FlashFails,    \* flash commands may return an error
  PowerFails,    \* the power may be lost
  EraseTears     \* an erase cut short may leave its sector partly erased

ASSUME StorageAssumption ==
  /\ \A r \in Requests : r.offset \in Nat /\ r.data \in Seq(Bytes)
  /\ NoWrite \notin Requests
  /\ FlashFails \in BOOLEAN /\ PowerFails \in BOOLEAN /\ EraseTears \in BOOLEAN

VARIABLES
  fs_pc,         \* where flash_storage_write() is, see below
  request,       \* its arguments offset and buffer
  pos,           \* the sector the loop has come to
  input_pos,     \* bytes of the buffer already written
  extra_low,     \* bytes of this sector below the request
  existing,      \* the sector as it was read into the driver's cache
  ret            \* "ok", "failed" or "none"

storageVars == <<fs_pc, request, pos, input_pos, extra_low, existing, ret>>

\* fs_pc: not running; at the top of the loop; before the erase; before the
\* write of the sector.
FsPcs == {"idle", "loop", "erase", "program"}

-----------------------------------------------------------------------------
\* The write begins.
FlashStorageWrite(r) ==
  /\ fs_pc = "idle"
  /\ IF r.offset + Len(r.data) > Size
     THEN ret' = "failed" /\ UNCHANGED <<fs_pc, request, pos, input_pos, extra_low>>
     ELSE /\ fs_pc' = "loop"
          /\ request' = r
          /\ pos' = SectorOf(r.offset)
          /\ extra_low' = r.offset - pos'
          /\ input_pos' = 0
          /\ ret' = "none"
  /\ UNCHANGED <<flash, existing>>

\* The locals go out of scope.
Return(result) ==
  /\ fs_pc' = "idle" /\ ret' = result
  /\ request' = NoWrite
  /\ pos' = 0 /\ input_pos' = 0 /\ extra_low' = 0 /\ existing' = <<>>

\* How much of the buffer goes into this sector, and which part.
Chunk ==
  LET room == EraseSize - extra_low
      left == Len(request.data) - input_pos
  IN  SubSeq(request.data, input_pos + 1, input_pos + IF room < left THEN room ELSE left)

\* aligned_offset + aligned_size.
End == SectorOf(request.offset + Len(request.data) + EraseSize - 1)

\* "A straight overwrite isn't possible, so we need to erase this sector."
NeedsErase(sector, chunk) ==
  \E i \in 1 .. Len(chunk) : ~(chunk[i] \subseteq sector[extra_low + i])

ReadSector ==
  /\ fs_pc = "loop" /\ pos < End
  /\ \/ /\ existing' = Slice(flash, pos, EraseSize)
        /\ fs_pc' = IF NeedsErase(existing', Chunk) THEN "erase" ELSE "program"
        /\ UNCHANGED <<request, pos, input_pos, extra_low, ret>>
     \/ FlashFails /\ Return("failed")
  /\ UNCHANGED flash

EraseCutShort ==
  IF EraseTears THEN CutShort(flash, Erased(flash, pos)) ELSE {flash, Erased(flash, pos)}

EraseSector ==
  /\ fs_pc = "erase"
  /\ \/ /\ flash' = Erased(flash, pos)
        /\ fs_pc' = "program"
        /\ UNCHANGED <<request, pos, input_pos, extra_low, existing, ret>>
     \/ FlashFails /\ flash' \in EraseCutShort /\ Return("failed")

\* The sector with the chunk copied into it, as it was read.
MergedMutant ==
  [i \in 1 .. EraseSize |->
     IF i - extra_low \in 1 .. Len(Chunk) THEN Chunk[i - extra_low] ELSE Bits]
Merged ==
  [i \in 1 .. EraseSize |->
     IF i - extra_low \in 1 .. Len(Chunk) THEN Chunk[i - extra_low] ELSE existing[i]]

\* Bytes that are all ones at either end are not sent to the flash, which would
\* not change them.
WriteBuf ==
  LET kept == {i \in 1 .. Len(Merged) : Merged[i] # Bits}
      first == CHOOSE i \in kept : \A j \in kept : i <= j
      last == CHOOSE i \in kept : \A j \in kept : j <= i
  IN  IF kept = {} THEN [offset |-> pos, data |-> <<>>]
      ELSE [offset |-> pos + first - 1, data |-> SubSeq(Merged, first, last)]

SectorProgrammed == Programmed(flash, WriteBuf.offset, WriteBuf.data)

ProgramSector ==
  /\ fs_pc = "program"
  /\ \/ /\ flash' = SectorProgrammed
        /\ input_pos' = input_pos + Len(Chunk)
        /\ pos' = pos + EraseSize
        /\ extra_low' = 0
        /\ existing' = <<>>
        /\ fs_pc' = "loop"
        /\ UNCHANGED <<request, ret>>
     \/ FlashFails /\ flash' \in CutShort(flash, SectorProgrammed) /\ Return("failed")

WriteReturns ==
  /\ fs_pc = "loop" /\ pos >= End
  /\ Return("ok")
  /\ UNCHANGED flash

\* The power is lost, in the middle of a command or between two.
PowerLoss ==
  /\ PowerFails
  /\ flash' \in CASE fs_pc = "erase"   -> EraseCutShort
                  [] fs_pc = "program" -> CutShort(flash, SectorProgrammed)
                  [] OTHER             -> {flash}
  /\ Return("none")

-----------------------------------------------------------------------------
StorageInit ==
  /\ fs_pc = "idle" /\ request = NoWrite
  /\ pos = 0 /\ input_pos = 0 /\ extra_low = 0 /\ existing = <<>>
  /\ ret = "none"

StorageStep == ReadSector \/ EraseSector \/ ProgramSector \/ WriteReturns

Init == flash \in [Addrs -> Bytes] /\ StorageInit

Next == (\E r \in Requests : FlashStorageWrite(r)) \/ StorageStep \/ PowerLoss

Spec == Init /\ [][Next]_<<flash, storageVars>>

-----------------------------------------------------------------------------
\* Properties.

\* Every variable holds a value of its type, and the loop stays in step: all of
\* the buffer up to pos has been written.
StorageTypeOK ==
  /\ flash \in [Addrs -> Bytes]
  /\ fs_pc \in FsPcs
  /\ request \in Requests \cup {NoWrite}
  /\ fs_pc = "idle" <=> request = NoWrite
  /\ existing = <<>> \/ existing \in [1 .. EraseSize -> Bytes]
  /\ ret \in {"ok", "failed", "none"}
  /\ fs_pc # "idle" =>
       /\ pos \in Sectors \cup {Size}
       /\ input_pos \in 0 .. Len(request.data)
       /\ extra_low \in 0 .. EraseSize - 1
       /\ pos + extra_low = request.offset + input_pos \/ pos = End

\* The sector being rewritten still counts as it was: its contents are in
\* "existing" until the write of the sector is through.
Store ==
  [a \in Addrs |->
     IF fs_pc \in {"erase", "program"} /\ SectorOf(a) = pos THEN existing[a - pos + 1]
     ELSE flash[a]]

Device == INSTANCE StorageDevice WITH
  store <- Store, writing <- request, written <- input_pos

\* Whatever the flash held, flash_storage_write() stores the buffer, keeps the
\* neighbours that share its sectors, returns 0 only when all is stored, and
\* when it is cut short damages one sector at most.
ImplementsStorageDevice == Device!Spec
=============================================================================

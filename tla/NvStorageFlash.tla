--------------------------- MODULE NvStorageFlash ---------------------------
(***************************************************************************)
(* vboot/callbacks/nvstorage_flash.c: a log of NVRAM blobs in an area of   *)
(* flash, of which the last is the current one.  It writes through the     *)
(* FMAP area of drivers/storage/fmap.c and flash_storage_write().  A loss  *)
(* of power takes the variables and leaves the flash.                      *)
(***************************************************************************)
EXTENDS Flash

CONSTANTS
  AreaStart, AreaSize,    \* the FMAP area RW_NVRAM
  BlobSize,               \* VBNV_BLOCK_SIZE
  Blobs,                  \* the contents vboot writes
  NoBlob, NoWrite, FlashFails, PowerFails, EraseTears

ASSUME NvAssumption ==
  /\ AreaStart \in Nat /\ AreaSize \in Nat \ {0} /\ BlobSize \in Nat \ {0}
  /\ AreaStart + AreaSize <= Size
  /\ AreaSize % BlobSize = 0 /\ EraseSize % BlobSize = 0
  /\ AreaStart % EraseSize = 0 /\ AreaSize % EraseSize = 0
  /\ Blobs \subseteq [1 .. BlobSize -> Bytes]
  /\ [i \in 1 .. BlobSize |-> Bits] \notin Blobs
  /\ NoBlob \notin [1 .. BlobSize -> Bytes]

VARIABLES
  fs_pc, request, pos, input_pos, extra_low, existing, ret,
  nv_pc,               \* where the call is: see below
  nv_buf,              \* VbExNvStorageWrite()'s argument
  nvram_storage,       \* whether the pointer is set
  nvram_blob_offset,
  nvram_cache,
  nv_ret,              \* what the last call returned, or "none" since the start
  nv_failed            \* history: a call has failed

Empty == [i \in 1 .. AreaSize |-> Bits]
EmptyBlob == [i \in 1 .. BlobSize |-> Bits]

nvVars == <<nv_pc, nv_buf, nvram_storage, nvram_blob_offset, nvram_cache, nv_ret,
            nv_failed>>
fsVars == <<fs_pc, request, pos, input_pos, extra_low, existing, ret>>
vars == <<flash, fsVars, nvVars>>

Offsets == {o \in 0 .. AreaSize - 1 : o % BlobSize = 0}

Area(offset, data) == [offset |-> AreaStart + offset, data |-> data]

\* Every write the log makes: of one blob, or of the whole area.
NvRequests ==
  {Area(o, b) : o \in Offsets, b \in Blobs} \cup {Area(0, Empty)}

ASSUME NvRequestAssumption ==
  NoWrite \notin NvRequests /\ {FlashFails, PowerFails, EraseTears} \subseteq BOOLEAN

Storage == INSTANCE FlashStorage WITH Requests <- NvRequests

\* nv_pc: no call running; in the storage_write() that erases the area; in the
\* one that writes the blob; gone through a null pointer.
NvPcs == {"ready", "erasing", "writing", "crashed"}

-----------------------------------------------------------------------------
\* fmap_storage_write(): within the area, then at its place in the flash.
FmapWrite(offset, data) == Area(offset, data)

StorageWrite(offset, data) == Storage!FlashStorageWrite(FmapWrite(offset, data))

BlobAt(f, offset) == Slice(f, AreaStart + offset, BlobSize)

\* The loop of flash_nvram_init(): the blob before the first empty one, not
\* counting the first of all.
LastOffsetMutant(f) ==
  LET empty == {o \in Offsets \ {0} : BlobAt(f, o) = EmptyBlob}
  IN  IF empty = {} THEN AreaSize - BlobSize
      ELSE CHOOSE o \in empty : \A p \in empty : o <= p
LastOffsetFirstMutant(f) ==
  LET empty == {o \in Offsets : BlobAt(f, o) = EmptyBlob}
  IN  IF empty = {} THEN AreaSize - BlobSize
      ELSE (CHOOSE o \in empty : \A p \in empty : o <= p) - BlobSize
LastOffset(f) ==
  LET empty == {o \in Offsets \ {0} : BlobAt(f, o) = EmptyBlob}
  IN  IF empty = {} THEN AreaSize - BlobSize
      ELSE (CHOOSE o \in empty : \A p \in empty : o <= p) - BlobSize

\* What the two variables hold once flash_nvram_init() has run.
BlobOffset == IF nvram_storage THEN nvram_blob_offset ELSE LastOffset(flash)
Cache == IF nvram_storage THEN nvram_cache ELSE BlobAt(flash, LastOffset(flash))

\* flash_nvram_init() calls storage_size() and storage_read() through
\* nvram_storage, which is null until it has returned.  What comes of that is up
\* to the build: either it ends here, until a reset, or it goes on as it was
\* meant, with the local variable "storage".
NvInitCrash ==
  /\ nv_pc = "ready" /\ ~nvram_storage
  /\ nv_pc' = "crashed"
  /\ UNCHANGED <<flash, fsVars, nv_buf, nvram_storage, nvram_blob_offset,
                 nvram_cache, nv_ret, nv_failed>>

\* The area cannot be read.
NvInitFails ==
  /\ nv_pc = "ready" /\ ~nvram_storage /\ FlashFails
  /\ nv_ret' = "unknown" /\ nv_failed' = TRUE
  /\ UNCHANGED <<flash, fsVars, nv_pc, nv_buf, nvram_storage, nvram_blob_offset,
                 nvram_cache>>

\* VbExNvStorageRead().
NvRead ==
  /\ nv_pc = "ready"
  /\ nvram_storage' = TRUE /\ nvram_blob_offset' = BlobOffset /\ nvram_cache' = Cache
  /\ nv_ret' = IF nvram_storage THEN nv_ret ELSE "success"
  /\ UNCHANGED <<flash, fsVars, nv_pc, nv_buf, nv_failed>>

\* Whether the current blob can become the new one by clearing bits.
InPlaceMutant(buf) == TRUE
InPlace(buf) == \A i \in 1 .. BlobSize : buf[i] \subseteq Cache[i]

\* Where the new blob goes, or the end of the area when there is no room.
NewOffset(buf) == IF InPlace(buf) THEN BlobOffset ELSE BlobOffset + BlobSize

\* VbExNvStorageWrite() up to its first storage_write(), or its return.  Note
\* that nvram_blob_offset moves before the blob is written.
NvWrite(buf) ==
  /\ nv_pc = "ready"
  /\ nvram_storage' = TRUE /\ nvram_cache' = Cache
  /\ \/ /\ buf = Cache
        /\ nv_ret' = "success"
        /\ nvram_blob_offset' = BlobOffset
        /\ UNCHANGED <<flash, fsVars, nv_pc, nv_buf, nv_failed>>
     \/ /\ buf # Cache /\ NewOffset(buf) < AreaSize
        /\ nv_pc' = "writing" /\ nv_buf' = buf /\ nv_ret' = "none"
        /\ nvram_blob_offset' = NewOffset(buf)
        /\ StorageWrite(NewOffset(buf), buf)
     \/ /\ buf # Cache /\ NewOffset(buf) >= AreaSize
        /\ nv_pc' = "erasing" /\ nv_buf' = buf /\ nv_ret' = "none"
        /\ nvram_blob_offset' = BlobOffset
        /\ StorageWrite(0, Empty)
  /\ UNCHANGED nv_failed

StorageRuns ==
  /\ nv_pc \in {"erasing", "writing"}
  /\ Storage!StorageStep
  /\ UNCHANGED nvVars

\* storage_write() has erased the area: the blob goes to its start.
EraseReturnsMutant ==
  /\ nv_pc = "erasing" /\ fs_pc = "idle" /\ ret = "ok"
  /\ nv_pc' = "writing"
  /\ StorageWrite(nvram_blob_offset, nv_buf)
  /\ UNCHANGED <<nv_buf, nvram_storage, nvram_blob_offset, nvram_cache, nv_ret, nv_failed>>
EraseReturns ==
  /\ nv_pc = "erasing" /\ fs_pc = "idle" /\ ret = "ok"
  /\ nv_pc' = "writing"
  /\ nvram_blob_offset' = 0
  /\ StorageWrite(0, nv_buf)
  /\ UNCHANGED <<nv_buf, nvram_storage, nvram_cache, nv_ret, nv_failed>>

\* The blob is written: only now does the cache change.
WriteReturns ==
  /\ nv_pc = "writing" /\ fs_pc = "idle" /\ ret = "ok"
  /\ nv_pc' = "ready" /\ nv_buf' = NoBlob
  /\ nvram_cache' = nv_buf
  /\ nv_ret' = "success"
  /\ UNCHANGED <<flash, fsVars, nvram_storage, nvram_blob_offset, nv_failed>>

\* Either storage_write() has failed: VBERROR_UNKNOWN, and nothing is undone.
NvWriteFails ==
  /\ nv_pc \in {"erasing", "writing"} /\ fs_pc = "idle" /\ ret = "failed"
  /\ nv_pc' = "ready" /\ nv_buf' = NoBlob
  /\ nv_ret' = "unknown" /\ nv_failed' = TRUE
  /\ UNCHANGED <<flash, fsVars, nvram_storage, nvram_blob_offset, nvram_cache>>

\* All but the flash is lost.
NvPowerLoss ==
  /\ Storage!PowerLoss
  /\ nv_pc' = "ready" /\ nv_buf' = NoBlob
  /\ nvram_storage' = FALSE /\ nvram_blob_offset' = 0 /\ nvram_cache' = NoBlob
  /\ nv_ret' = "none"
  /\ UNCHANGED nv_failed

-----------------------------------------------------------------------------
\* The area is delivered empty (wipe-value ff), the rest of the flash in use.
NvInit ==
  /\ flash = [a \in Addrs |-> IF a \in AreaStart .. AreaStart + AreaSize - 1 THEN Bits ELSE {}]
  /\ Storage!StorageInit
  /\ nv_pc = "ready" /\ nv_buf = NoBlob
  /\ nvram_storage = FALSE /\ nvram_blob_offset = 0 /\ nvram_cache = NoBlob
  /\ nv_ret = "none" /\ nv_failed = FALSE

NvStep ==
  \/ NvInitCrash \/ NvInitFails \/ NvRead \/ (\E buf \in Blobs : NvWrite(buf))
  \/ StorageRuns \/ EraseReturns \/ WriteReturns \/ NvWriteFails

Next == NvStep \/ NvPowerLoss

Spec == NvInit /\ [][Next]_vars

-----------------------------------------------------------------------------
\* Properties.

\* Every variable holds a value of its type.
NvTypeOK ==
  /\ Storage!StorageTypeOK
  /\ nv_pc \in NvPcs
  /\ nv_buf \in Blobs \cup {NoBlob}
  /\ nvram_storage \in BOOLEAN
  /\ nvram_blob_offset \in Offsets
  /\ nvram_cache \in [1 .. BlobSize -> Bytes] \cup {NoBlob}
  /\ nv_ret \in {"none", "success", "unknown"}
  /\ nv_failed \in BOOLEAN

\* Losses of power do not count as failures, errors of the flash do.
Failed == nv_failed \/ ret = "failed"

\* "It becomes the last non-erased blob, which is by definition the current
\* NVRAM contents" (line 40): after a write that succeeded, the blob that was
\* written is the one the next start finds, at the offset the OS is told.
WrittenIsCurrent ==
  nv_pc = "ready" /\ nv_ret = "success" /\ ~Failed =>
    /\ LastOffset(flash) = nvram_blob_offset
    /\ BlobAt(flash, nvram_blob_offset) = nvram_cache

\* The blobs are a prefix of the area: no empty blob has a written one behind
\* it, or a later start would take the wrong one for the last.
LogHasNoHoles ==
  ~Failed =>
    \A o \in Offsets : BlobAt(flash, o) # EmptyBlob =>
       \A p \in Offsets : p < o => p = 0 \/ BlobAt(flash, p) # EmptyBlob

\* Whatever fails, the flash outside the area is never changed.  Until a call has
\* failed, a sector is erased only when all blobs are used up: changes that clear bits
\* and those that fit in the next blob cost no erase.
SparesTheFlash ==
  [][/\ \A a \in Addrs \ (AreaStart .. AreaStart + AreaSize - 1) : flash'[a] = flash[a]
     /\ ~Failed' /\ (\E a \in Addrs : ~(flash'[a] \subseteq flash[a]))
          => BlobAt(flash, AreaSize - BlobSize) # EmptyBlob]_vars
=============================================================================

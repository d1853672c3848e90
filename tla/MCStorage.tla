------------------------------ MODULE MCStorage -----------------------------
(***************************************************************************)
(* A small instance for TLC of the six parts that keep data: the SPI       *)
(* flash driver, the storage layer over a flash, the update of the EC, the *)
(* disks of USB mass storage, the cards of MMC and the firmware database.  *)
(* They have nothing in common, so a behaviour is one of one part, and the *)
(* others stay where they start.                                           *)
(***************************************************************************)
EXTENDS SpiFlash, FlashStorage, Ec, UsbMsc, Mmc, Fwdb, TLC

CONSTANTS name1, name2

VARIABLE part

Reads == {[op |-> "read", offset |-> 1, size |-> 3]}

\* Within a page, of a whole page and of more.
PageWrites == {[op |-> "write", offset |-> o, size |-> n] : o \in 0 .. 1, n \in 1 .. 6}

\* From the start of the flash, aligned or not.
FirstErases == {[op |-> "erase", offset |-> 0, size |-> n] : n \in 0 .. RomSize}

MCCalls == Reads \cup PageWrites \cup FirstErases

\* Bytes of one bit: a bit to set, a bit to clear.
b0 == {}
b1 == {1}

Buffers == {<<b0>>, <<b1>>, <<b0, b1>>, <<b1, b0>>, <<b1, b0, b1>>, <<b0, b1, b1, b0>>, <<b1, b1, b0, b1>>}

\* Every alignment, inside one sector and across two and three, and beyond the end.
MCRequests == {[offset |-> o, data |-> d] : o \in 0 .. Size - 1, d \in Buffers}

\* The size field and the name fill a unit, or take one more.
MCNameLen == name1 :> 1 @@ name2 :> 2

allStorage == <<flash, storageVars>>

MCInit ==
  /\ SpiInit /\ StorageInit /\ EcInit /\ MscInit /\ MmcInit /\ FwdbInit
  /\ part \in {"spi", "storage", "ec", "disk", "card", "fwdb"}
  /\ IF part = "storage" THEN flash \in [Addrs -> Bytes] ELSE flash = [a \in Addrs |-> Bits]
  /\ part # "ec" => ~wp /\ ~protect.boot

MCNext ==
  /\ \/ part = "spi" /\ SpiNext /\ UNCHANGED <<allStorage, ecVars, mscVars, mmcVars, fwdbVars>>
     \/ part = "storage" /\ Next /\ UNCHANGED <<spiVars, ecVars, mscVars, mmcVars, fwdbVars>>
     \/ part = "ec" /\ EcNext /\ UNCHANGED <<spiVars, allStorage, mscVars, mmcVars, fwdbVars>>
     \/ part = "disk" /\ MscNext /\ UNCHANGED <<spiVars, allStorage, ecVars, mmcVars, fwdbVars>>
     \/ part = "card" /\ MmcNext /\ UNCHANGED <<spiVars, allStorage, ecVars, mscVars, fwdbVars>>
     \/ part = "fwdb" /\ FwdbNext /\ UNCHANGED <<spiVars, allStorage, ecVars, mscVars, mmcVars>>
  /\ UNCHANGED part

MCSpec == MCInit /\ [][MCNext]_<<spiVars, allStorage, ecVars, mscVars, mmcVars, fwdbVars, part>>

\* Every variable of the six holds a value of its type.
StoragePartsTypeOK == SpiTypeOK /\ StorageTypeOK /\ EcTypeOK /\ MscTypeOK /\ MmcTypeOK /\ FwdbTypeOK
=============================================================================

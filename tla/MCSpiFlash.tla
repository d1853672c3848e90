----------------------------- MODULE MCSpiFlash -----------------------------
(***************************************************************************)
(* The SPI driver alone, with erases from anywhere.                        *)
(***************************************************************************)
EXTENDS SpiFlash

Erases == {c \in [op : {"erase"}, offset : 0 .. RomSize, size : 0 .. RomSize] :
             c.offset + c.size <= RomSize}
=============================================================================

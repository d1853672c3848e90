------------------------------- MODULE Flash -------------------------------
(***************************************************************************)
(* NOR flash as drivers/flash/flash.h offers it: programming clears bits,  *)
(* erasing sets all the bits of whole sectors, and either may be cut short *)
(* by an error or a loss of power.  A byte is the set of its bits that are *)
(* one.                                                                    *)
(***************************************************************************)
EXTENDS Integers, Sequences

CONSTANTS
  Bits,          \* the bits of a byte
  Size,          \* flash_size()
  EraseSize      \* flash_erase_size()

ASSUME FlashAssumption ==
  /\ Size \in Nat \ {0}
  /\ EraseSize \in Nat \ {0}
  /\ Size % EraseSize = 0

VARIABLE flash

Bytes == SUBSET Bits
Addrs == 0 .. Size - 1
Sectors == {a \in Addrs : a % EraseSize = 0}

\* The first address of the sector of a.
SectorOf(a) == a - (a % EraseSize)

\* flash_read(): size bytes from offset.
Slice(f, offset, size) == [i \in 1 .. size |-> f[offset + i - 1]]

Covers(offset, data, a) == a \in offset .. offset + Len(data) - 1

\* What reading back gives when data has been stored at offset.
Overwritten(f, offset, data) ==
  [a \in Addrs |-> IF Covers(offset, data, a) THEN data[a - offset + 1] ELSE f[a]]

\* flash_write(): bits only go from one to zero.
Programmed(f, offset, data) ==
  [a \in Addrs |-> IF Covers(offset, data, a) THEN f[a] \cap data[a - offset + 1] ELSE f[a]]

\* flash_erase() of one sector.
Erased(f, sector) == [a \in Addrs |-> IF SectorOf(a) = sector THEN Bits ELSE f[a]]

\* What a command that turns f into g leaves behind when it is cut short: some
\* bytes are done and others not.
CutShort(f, g) ==
  {[a \in Addrs |-> IF a \in done THEN g[a] ELSE f[a]] :
     done \in SUBSET {a \in Addrs : f[a] # g[a]}}
=============================================================================

------------------------------ MODULE SpiFlash ------------------------------
(***************************************************************************)
(* drivers/flash/spi.c: how reads, writes and erases become commands to a  *)
(* SPI flash chip, which does nothing unless it is enabled and idle.  The  *)
(* bytes themselves are left out: what matters is where each command goes. *)
(***************************************************************************)
EXTENDS Integers, FiniteSets

CONSTANTS
  RomSize, SectorSize, PageSize,
  Modulus,       \* of uint32_t
  Calls,         \* the calls made: [op, offset, size], op "read", "write" or "erase"
  NoCall

ASSUME SpiAssumption ==
  /\ RomSize \in Nat \ {0} /\ SectorSize \in Nat \ {0} /\ PageSize \in Nat \ {0}
  /\ RomSize % SectorSize = 0
  /\ Modulus \in Nat /\ Modulus % PageSize = 0 /\ Modulus > RomSize + PageSize
  /\ \A c \in Calls : /\ c.op \in {"read", "write", "erase"}
                      /\ {c.offset, c.size} \subseteq Nat /\ c.offset + c.size <= RomSize
  /\ NoCall \notin Calls

VARIABLES
  call,          \* the call being served, or NoCall
  step,          \* its next command: "enable", "send", "wait" or "done"
  offset, size,  \* the loop's variables
  spi_ret,           \* what the last call returned
  wip, wel,      \* the chip: a write is in progress, writes are enabled
  touched,       \* the bytes programmed or erased since the call began
  obeyed,        \* whether the chip has obeyed every command of the call
  trouble        \* whether a call has failed: the chip may be left busy or enabled

chipVars == <<wip, wel>>
ghostVars == <<touched, obeyed, trouble>>
spiVars == <<call, step, offset, size, spi_ret, chipVars, ghostVars>>

-----------------------------------------------------------------------------
\* The chip.

EnableCommand == IF wip THEN UNCHANGED chipVars ELSE wel' = TRUE /\ UNCHANGED wip

Obeys == wel /\ ~wip

\* A program or erase command for the bytes of where; one without data is void.
ChangeCommand(where) ==
  /\ obeyed' = (obeyed /\ (Obeys \/ where = {}))
  /\ touched' = IF Obeys THEN touched \cup where ELSE touched
  /\ IF Obeys /\ where # {} THEN wip' = TRUE /\ wel' = FALSE ELSE UNCHANGED chipVars
  /\ UNCHANGED trouble

ChipFinishes ==
  /\ wip
  /\ wip' = FALSE
  /\ UNCHANGED <<call, step, offset, size, spi_ret, wel, ghostVars>>

-----------------------------------------------------------------------------
\* The driver.

\* Erases that are not aligned are refused.
Begin(c) ==
  /\ call = NoCall
  /\ touched' = {} /\ obeyed' = TRUE
  /\ IF c.op = "erase" /\ ((c.offset % SectorSize) # 0 \/ (c.size % SectorSize) # 0)
     THEN spi_ret' = 1 /\ UNCHANGED <<call, step, offset, size>>
     ELSE /\ call' = c /\ spi_ret' = 0
          /\ offset' = IF c.op = "erase" THEN 0 ELSE c.offset
          /\ size' = c.size
          /\ step' = IF c.size = 0 THEN "done" ELSE IF c.op = "read" THEN "send" ELSE "enable"
  /\ UNCHANGED <<chipVars, trouble>>

Finish(result) ==
  /\ call' = NoCall /\ step' = "done" /\ offset' = 0 /\ size' = 0
  /\ spi_ret' = result

\* A transfer or the waiting fails, or the two seconds are over.
GiveUp == Finish(1) /\ trouble' = TRUE /\ UNCHANGED <<touched, obeyed>>

WriteEnableMutant ==
  /\ step = "enable"
  /\ step' = "send"
  /\ UNCHANGED <<call, offset, size, spi_ret, chipVars, ghostVars>>
WriteEnable ==
  /\ step = "enable"
  /\ \/ EnableCommand /\ step' = "send" /\ UNCHANGED <<call, offset, size, spi_ret, ghostVars>>
     \/ GiveUp /\ UNCHANGED chipVars

ReadCommand ==
  /\ step = "send" /\ call.op = "read"
  /\ \/ Finish(0) /\ UNCHANGED ghostVars
     \/ GiveUp
  /\ UNCHANGED chipVars

\* const uint32_t write_size = PageSize - (size & ~OffsetMask), in 32 bits.
WriteSize == (PageSize + Modulus - (size - (size % PageSize))) % Modulus

\* The chip programs within one page: what goes beyond wraps to its start.
Page(a) == (a - (a % PageSize)) .. (a - (a % PageSize)) + PageSize - 1
Programs(a, n) == IF n >= PageSize THEN Page(a)
                  ELSE {b \in Page(a) : (b - a) % PageSize < n}

WriteCommand ==
  /\ step = "send" /\ call.op = "write"
  /\ \/ /\ ChangeCommand(Programs(offset, WriteSize))
        /\ step' = "wait"
        /\ UNCHANGED <<call, offset, size, spi_ret>>
     \/ GiveUp /\ UNCHANGED chipVars

\* The erase command carries the loop's offset, which starts at 0.
EraseCommand ==
  /\ step = "send" /\ call.op = "erase"
  /\ \/ /\ ChangeCommand(offset .. offset + SectorSize - 1)
        /\ step' = "wait"
        /\ UNCHANGED <<call, offset, size, spi_ret>>
     \/ GiveUp /\ UNCHANGED chipVars

\* The loop goes on, or ends.
NextOffsetMutant ==
  IF call.op = "erase" THEN offset + SectorSize ELSE offset + WriteSize
NextOffset == IF call.op = "erase" THEN offset + SectorSize ELSE (offset + WriteSize) % Modulus
NextSize == IF call.op = "erase" THEN size ELSE (size + Modulus - WriteSize) % Modulus
MoreMutant == IF call.op = "erase" THEN offset + 2 * SectorSize < size ELSE NextSize # 0
More == IF call.op = "erase" THEN NextOffset < size ELSE NextSize # 0

\* wait_for_wip() sees the bit clear.
WipClear == ~wip

WaitForWip ==
  /\ step = "wait"
  /\ \/ /\ WipClear
        /\ offset' = NextOffset /\ size' = NextSize
        /\ step' = IF More THEN "enable" ELSE "done"
        /\ UNCHANGED <<call, spi_ret, ghostVars>>
     \/ GiveUp
  /\ UNCHANGED chipVars

SpiReturn ==
  /\ call # NoCall /\ step = "done"
  /\ Finish(0)
  /\ UNCHANGED <<chipVars, ghostVars>>

Driver ==
  \/ (\E c \in Calls : Begin(c))
  \/ WriteEnable \/ ReadCommand \/ WriteCommand \/ EraseCommand \/ WaitForWip \/ SpiReturn

SpiInit ==
  /\ call = NoCall /\ step = "done" /\ offset = 0 /\ size = 0 /\ spi_ret = 0
  /\ wip = FALSE /\ wel = FALSE
  /\ touched = {} /\ obeyed = TRUE /\ trouble = FALSE

SpiNext == Driver \/ ChipFinishes

SpiSpec == SpiInit /\ [][SpiNext]_spiVars

-----------------------------------------------------------------------------
\* Properties.

\* Every variable holds a value of its type.
SpiTypeOK ==
  /\ call \in Calls \cup {NoCall}
  /\ step \in {"enable", "send", "wait", "done"}
  /\ offset \in 0 .. Modulus - 1 /\ size \in 0 .. Modulus - 1
  /\ spi_ret \in {0, 1}
  /\ wip \in BOOLEAN /\ wel \in BOOLEAN

\* Until a call fails, the chip obeys every command: each is preceded by its own
\* enable and sent only when the one before is finished.
EveryCommandObeyed == ~trouble => obeyed

\* What a call asks to change.
Asked(c) == c.offset .. c.offset + c.size - 1

\* An erase that returns 0 has erased every sector asked for.
ErasesAll ==
  [][call # NoCall /\ call' = NoCall /\ spi_ret' = 0 /\ call.op = "erase" /\ ~trouble
       => Asked(call) \subseteq touched]_spiVars

\* "A straight overwrite isn't possible, so we need to erase this sector"
\* (drivers/storage/flash.c:94): flash_erase() erases what it is asked to, and
\* nothing else.
ErasesWhatIsAsked ==
  call # NoCall /\ call.op = "erase" => touched \subseteq Asked(call)
=============================================================================

--------------------------- MODULE StorageDevice ---------------------------
(***************************************************************************)
(* What StorageOps.write promises its callers: the bytes are stored in     *)
(* order, nothing else changes, and the call returns 0 only when all are   *)
(* stored.  A call that fails, or that the power fails on, may leave one   *)
(* erase sector damaged: the one it had got to.                            *)
(***************************************************************************)
EXTENDS Integers, Sequences

CONSTANTS Bits, Size, EraseSize, Requests, NoWrite

VARIABLES
  store,       \* what a read would find
  writing,     \* the write being served, or NoWrite
  written,     \* how many of its bytes are stored
  ret          \* what the last write returned, or "none"

vars == <<store, writing, written, ret>>

SectorOf(a) == a - (a % EraseSize)

Init ==
  /\ store \in [0 .. Size - 1 -> SUBSET Bits]
  /\ writing = NoWrite /\ written = 0
  /\ ret = "none"

Begin ==
  /\ writing = NoWrite
  /\ writing' \in Requests
  /\ writing'.offset + Len(writing'.data) <= Size
  /\ written' = 0
  /\ ret' = "none"
  /\ UNCHANGED store

\* A write beyond the end is refused, and a restart forgets the last result.
Reject ==
  /\ writing = NoWrite
  /\ ret' \in {"failed", "none"}
  /\ UNCHANGED <<store, writing, written>>

\* Some more of the bytes.
Store ==
  /\ writing # NoWrite
  /\ written' \in written + 1 .. Len(writing.data)
  /\ store' = [a \in DOMAIN store |->
                 LET i == a - writing.offset
                 IN  IF i \in written .. written' - 1 THEN writing.data[i + 1] ELSE store[a]]
  /\ UNCHANGED <<writing, ret>>

Succeed ==
  /\ writing # NoWrite /\ written = Len(writing.data)
  /\ ret' = "ok"
  /\ writing' = NoWrite /\ written' = 0
  /\ UNCHANGED store

\* An error, or a loss of power.
Fail ==
  /\ writing # NoWrite
  /\ \A a \in DOMAIN store :
       store'[a] # store[a] => SectorOf(a) = SectorOf(writing.offset + written)
  /\ store' \in [DOMAIN store -> SUBSET Bits]
  /\ ret' \in {"failed", "none"}
  /\ writing' = NoWrite /\ written' = 0

Next == Begin \/ Reject \/ Store \/ Succeed \/ Fail

Spec == Init /\ [][Next]_vars
=============================================================================

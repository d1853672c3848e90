----------------------------- MODULE Allocator ------------------------------
(***************************************************************************)
(* What a caller of malloc(), memalign() and free() may rely on: a block   *)
(* is memory that nobody else has, at the alignment that was asked for,    *)
(* until it is given back.  A call may always fail.                        *)
(***************************************************************************)
EXTENDS Naturals

CONSTANTS
  Memory,           \* the addresses there are
  Sizes, Alignments \* what may be asked for, all above 0
VARIABLE live       \* the blocks that callers have

Blocks == [ptr : Memory, len : Sizes, align : Alignments]
Extent(b) == b.ptr .. b.ptr + b.len - 1

AllocatorInit == live = {}

Get(b) ==
  /\ b \in Blocks /\ Extent(b) \subseteq Memory /\ b.ptr % b.align = 0
  /\ \A c \in live : Extent(b) \cap Extent(c) = {}
  /\ live' = live \cup {b}

GiveBack(b) == live' = live \ {b}

\* The bound is what Get() does to "live", so that a step can be tested without
\* all of Blocks at hand.
AllocatorNext ==
  \/ \E b \in live' : Get(b)
  \/ \E b \in live : GiveBack(b)

AllocatorSpec == AllocatorInit /\ [][AllocatorNext]_live
=============================================================================

------------------------------- MODULE MCBoot -------------------------------
(***************************************************************************)
(* A small instance for TLC of one boot and of the memory allocator.  A    *)
(* behaviour is one of the two; the other stays where it starts.           *)
(***************************************************************************)
EXTENDS Boot, Malloc

VARIABLE part

Entry(base, size, type) == [base |-> base, size |-> size, type |-> type]

\* RAM with a hole, a region inside it, RAM that overlaps both, RAM next to it, an entry without
\* extent and one of a type that is not known.
MCEntries ==
  {Entry(0, 4, "ram"), Entry(1, 2, "reserved"), Entry(2, 3, "ram"),
   Entry(4, 2, "ram"), Entry(3, 0, "ram"), Entry(6, 1, "unknown")}

\* All maps of up to two entries, and three entries that overlap one another.
MCMaps ==
  UNION {[1 .. n -> MCEntries] : n \in 0 .. 2}
  \cup {<<Entry(0, 4, "ram"), Entry(1, 2, "reserved"), Entry(2, 3, "ram")>>}
MCImage == [start |-> 1, end |-> 2]
MCMarks == {[start |-> 3, end |-> 5]}

MCInit ==
  /\ BootInit /\ MallocInit
  /\ \/ part = "boot" /\ DOMAIN hdr = {}
     \/ part = "malloc" /\ e820 = NoMap

MCNext ==
  /\ \/ part = "boot" /\ BootNext /\ UNCHANGED mallocVars
     \/ part = "malloc" /\ MallocNext /\ UNCHANGED bootVars
  /\ UNCHANGED part

MCSpec == MCInit /\ [][MCNext]_<<bootVars, mallocVars, part>>

\* Every variable of the two holds a value of its type.
BootPartsTypeOK == BootTypeOK /\ MallocTypeOK
=============================================================================

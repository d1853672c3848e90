------------------------------- MODULE Ranges -------------------------------
(***************************************************************************)
(* base/ranges.c: a collection of ranges of addresses, kept as the edges   *)
(* between what is in the collection and what is not.  The linked list is  *)
(* sorted and holds no position twice, so it is modelled by the set of the *)
(* positions; the loops that walk it, by the edges they have passed.       *)
(***************************************************************************)
EXTENDS Naturals, FiniteSets

\* "included" is toggled at every edge that is passed.
Odd(edges) == Cardinality(edges) % 2 = 1

\* Whether an address is in the collection.
Included(edges, x) == Odd({e \in edges : e <= x})

\* ranges_set_region_to(): the edges inside the region and at its ends give way
\* to those that the state on either side calls for.
SetRegionToMutant(edges, start, end, new_included) ==
  LET before == {e \in edges : e < start}
      after == {e \in edges : e >= end}
  IN  before \cup after
        \cup (IF Odd(before) # new_included THEN {start} ELSE {})
        \cup (IF Odd(edges \ after) # new_included THEN {end} ELSE {})
SetRegionTo(edges, start, end, new_included) ==
  LET before == {e \in edges : e < start}
      after == {e \in edges : e > end}
  IN  before \cup after
        \cup (IF Odd(before) # new_included THEN {start} ELSE {})
        \cup (IF Odd(edges \ after) # new_included THEN {end} ELSE {})

Add(edges, start, end) == SetRegionTo(edges, start, end, TRUE)
Sub(edges, start, end) == SetRegionTo(edges, start, end, FALSE)

\* The next two edges of ranges_for_each(), and whether there are two.
First(edges) == CHOOSE e \in edges : \A f \in edges : e <= f
Second(edges) == First(edges \ {First(edges)})
AnotherRange(edges) == Cardinality(edges) >= 2
Rest(edges) == edges \ {First(edges), Second(edges)}
=============================================================================

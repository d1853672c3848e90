----------------------------- MODULE MemoryWipe -----------------------------
(***************************************************************************)
(* vboot/util/memory.c: the memory that is in use is noted while the       *)
(* firmware comes up, and memory_wipe_unused() clears all other RAM of the *)
(* memory map, one range after the other.                                  *)
(***************************************************************************)
EXTENDS Ranges, Sequences

CONSTANTS
  Maps,          \* the memory maps: sequences of [base, size, type]
  NoMap,         \* get_e820_mem_ranges() found none
  Image,         \* where depthcharge is: [start, end], from _start to _end
  Marks          \* what may be passed to memory_mark_used(): [start, end]

\* The types: RAM, the four that are left alone, and any other number.
Types == {"ram", "reserved", "unknown"}

ASSUME WipeAssumption ==
  /\ \A m \in Maps : m \in Seq([base : Nat, size : Nat, type : Types])
  /\ NoMap \notin Maps
  /\ \A r \in Marks \cup {Image} : r.start \in Nat /\ r.end \in Nat /\ r.start < r.end

VARIABLES
  e820,              \* the memory map
  used,              \* the edges of "used"
  initialized,       \* of used_list_initialize()
  wipe_pc,           \* where memory_wipe_unused() is, see below
  entry,             \* the loop's variable i, from 1
  ranges,            \* the edges of the local "ranges"
  left,              \* those that ranges_for_each() has not come to
  wiped,             \* the addresses that have been cleared
  marks              \* history: what is in use

wipeVars == <<e820, used, initialized, wipe_pc, entry, ranges, left, wiped, marks>>

\* Not called yet; reading the map; taking out what is used; clearing; returned
\* 0; returned 1; stopped by an assertion.
WipePcs == {"idle", "map", "exclude", "wipe", "done", "failed", "aborted"}

-----------------------------------------------------------------------------
\* used_list_initialize(), before anything else is done with "used".
UsedList == IF initialized THEN used ELSE Add({}, Image.start, Image.end)

MemoryMarkUsed(m) ==
  /\ wipe_pc = "idle"
  /\ used' = Add(UsedList, m.start, m.end)
  /\ initialized' = TRUE
  /\ marks' = marks \cup {m}
  /\ UNCHANGED <<e820, wipe_pc, entry, ranges, left, wiped>>

MemoryWipeUnused ==
  /\ wipe_pc = "idle"
  /\ wipe_pc' = IF e820 = NoMap THEN "failed" ELSE "map"
  /\ ranges' = {}
  /\ entry' = 1
  /\ UNCHANGED <<e820, used, initialized, left, wiped, marks>>

\* One entry of the map.  ranges_set_region_to() asserts that it is not empty.
MapEntry ==
  /\ wipe_pc = "map" /\ entry <= Len(e820)
  /\ LET r == e820[entry]
         region == SetRegionTo(ranges, r.base, r.base + r.size, r.type = "ram")
     IN  \/ /\ r.type = "unknown"
            /\ wipe_pc' = "failed"
            /\ UNCHANGED <<ranges, entry>>
         \/ /\ r.type # "unknown" /\ r.size = 0
            /\ wipe_pc' = "aborted"
            /\ UNCHANGED <<ranges, entry>>
         \/ /\ r.type # "unknown" /\ r.size # 0
            /\ ranges' = region
            /\ entry' = entry + 1
            /\ UNCHANGED wipe_pc
  /\ UNCHANGED <<e820, used, initialized, left, wiped, marks>>

\* The map is read: now "used" is walked.
MapDone ==
  /\ wipe_pc = "map" /\ entry > Len(e820)
  /\ used' = UsedList /\ initialized' = TRUE
  /\ left' = used'
  /\ wipe_pc' = "exclude"
  /\ UNCHANGED <<e820, entry, ranges, wiped, marks>>

ExcludeUsed ==
  /\ wipe_pc = "exclude" /\ AnotherRange(left)
  /\ ranges' = Sub(ranges, First(left), Second(left))
  /\ left' = Rest(left)
  /\ UNCHANGED <<e820, used, initialized, wipe_pc, entry, wiped, marks>>

ExcludeDone ==
  /\ wipe_pc = "exclude" /\ ~AnotherRange(left)
  /\ left' = ranges
  /\ wipe_pc' = "wipe"
  /\ UNCHANGED <<e820, used, initialized, entry, ranges, wiped, marks>>

\* unused_memset() of one range.
WipeRange ==
  /\ wipe_pc = "wipe" /\ AnotherRange(left)
  /\ wiped' = wiped \cup First(left) .. Second(left) - 1
  /\ left' = Rest(left)
  /\ UNCHANGED <<e820, used, initialized, wipe_pc, entry, ranges, marks>>

\* ranges_teardown(), and 0 is returned.
WipeDone ==
  /\ wipe_pc = "wipe" /\ ~AnotherRange(left)
  /\ wipe_pc' = "done"
  /\ ranges' = {} /\ left' = {}
  /\ UNCHANGED <<e820, used, initialized, entry, wiped, marks>>

-----------------------------------------------------------------------------
WipeInit ==
  /\ e820 \in Maps \cup {NoMap}
  /\ used = {} /\ initialized = FALSE
  /\ wipe_pc = "idle" /\ entry = 1
  /\ ranges = {} /\ left = {} /\ wiped = {}
  /\ marks = {Image}

WipeSteps ==
  MapEntry \/ MapDone \/ ExcludeUsed \/ ExcludeDone \/ WipeRange \/ WipeDone

WipeNext == (\E m \in Marks : MemoryMarkUsed(m)) \/ MemoryWipeUnused \/ WipeSteps

WipeSpec == WipeInit /\ [][WipeNext]_wipeVars

-----------------------------------------------------------------------------
\* Properties.

\* Every variable holds a value of its type.
WipeTypeOK ==
  /\ e820 \in Maps \cup {NoMap}
  /\ used \in SUBSET Nat /\ ranges \in SUBSET Nat /\ left \in SUBSET Nat
  /\ initialized \in BOOLEAN
  /\ wipe_pc \in WipePcs
  /\ entry \in Nat
  /\ wiped \in SUBSET Nat
  /\ marks \in SUBSET (Marks \cup {Image})

InUse(x) == \E m \in marks : m.start <= x /\ x < m.end

CoveredBy(k, x) == e820[k].base <= x /\ x < e820[k].base + e820[k].size

\* "New ranges take precedence over older ranges they overlap with" (ranges.c:33):
\* an address is what the last of the first n entries that cover it says.
RamAfter(n, x) ==
  \E j \in 1 .. n :
    /\ CoveredBy(j, x) /\ e820[j].type = "ram"
    /\ \A k \in j + 1 .. n : ~CoveredBy(k, x)

\* At no time has anything been cleared that is in use or that is not RAM.
NothingInUseIsWiped ==
  \A x \in wiped : ~InUse(x) /\ RamAfter(Len(e820), x)

\* When memory_wipe_unused() returns 0, all RAM that is not in use is clear.
AllElseIsWiped ==
  wipe_pc = "done" =>
    \A k \in 1 .. Len(e820) : \A x \in e820[k].base .. e820[k].base + e820[k].size - 1 :
      RamAfter(Len(e820), x) /\ ~InUse(x) => x \in wiped

\* memory_wipe_unused() clears what is asked, and nothing else.
WipesWhatIsUnused == NothingInUseIsWiped /\ AllElseIsWiped
=============================================================================

-------------------------------- MODULE Fwdb --------------------------------
(***************************************************************************)
(* The firmware database, base/fwdb.c: a list of named entries in memory,  *)
(* which one image hands to the next (arch/x86/*/handoff/module.c), and    *)
(* the storage on top of it, drivers/storage/fwdb.c.                       *)
(*                                                                         *)
(* There is one thread, so a call is a step.  Memory is in units of the    *)
(* size field; a cell is the number that is read there and the name, if    *)
(* one was written there.                                                  *)
(***************************************************************************)
EXTENDS Integers, FiniteSetsExt

CONSTANTS
  FwdbMaxSize,  \* max_size, which fwdb_create_db() is given
  HeaderSize,   \* header_size, a multiple of Unit
  Unit,         \* sizeof(uint64_t), in sizes of a uint32_t
  EntryNames,   \* the names in use, with ...
  NameLen,      \* ... their lengths
  DataSizes,    \* how much data callers have
  NoName

ASSUME FwdbAssumption ==
  /\ {HeaderSize, Unit} \subseteq Nat \ {0} /\ HeaderSize % Unit = 0
  /\ FwdbMaxSize \in Nat /\ HeaderSize + 1 <= FwdbMaxSize
  /\ NoName \notin EntryNames
  /\ NameLen \in [EntryNames -> Nat \ {0}] /\ DataSizes \subseteq Nat

VARIABLES
  mem,          \* the memory that the database may take, and a bit more
  created,      \* fwdb_create_db() has run
  in_use,       \* fwdb_header of the image that runs is not null
  entries       \* the entries that clients of this image have pointers to

fwdbVars == <<mem, created, in_use, entries>>

Cell(n) == [n |-> n, name |-> NoName]
Junk == Cell(1)
Aligned(a) == ((a + Unit - 1) \div Unit) * Unit

FwdbInit ==
  /\ mem = [a \in 0 .. FwdbMaxSize + Unit |-> Junk]
  /\ created = FALSE /\ in_use = FALSE /\ entries = {}

-----------------------------------------------------------------------------
\* The list.

\* The size fields: the first, and the one behind each entry.
Fields(m) ==
  LET IsField[a \in 0 .. FwdbMaxSize + Unit] ==
        \/ a = HeaderSize
        \/ \E b \in HeaderSize .. a - 1 :
             b % Unit = 0 /\ m[b].n # 0 /\ Aligned(b + m[b].n) = a /\ IsField[b]
  IN  {a \in HeaderSize .. FwdbMaxSize + Unit : a % Unit = 0 /\ IsField[a]}
EntriesIn(m) == {a \in Fields(m) : m[a].n # 0}
ListEnd(m) == Max(Fields(m))

DataOffset(name) == Aligned(1 + NameLen[name])
EntryAt(m, a) ==
  [ptr |-> a + DataOffset(m[a + 1].name), size |-> m[a].n - DataOffset(m[a + 1].name)]

\* fwdb_use_db(): the padding between entries is not counted.
Accepts(m) ==
  /\ HeaderSize + MapThenSumSet(LAMBDA a : m[a].n, EntriesIn(m)) + 1 <= FwdbMaxSize
  /\ \A a \in EntriesIn(m) : m[a + 1].name # NoName

\* Room for a new entry, without the size field behind it.
HasRoomMutant(name, size) == ListEnd(mem) + DataOffset(name) + size <= FwdbMaxSize

\* Room for both.
HasRoom(name, size) == Aligned(ListEnd(mem) + DataOffset(name) + size) + 1 <= FwdbMaxSize

\* The new entry, and the zero size field behind it.
NewEntry(m, name, size, value) ==
  LET a == ListEnd(m)
      data == a + DataOffset(name)
  IN  [b \in DOMAIN m |->
         IF b = a THEN Cell(DataOffset(name) + size)
         ELSE IF b = a + 1 THEN [n |-> 1, name |-> name]
         ELSE IF b \in a + 2 .. data - 1 \/ b = data + Aligned(size) THEN Cell(0)
         ELSE IF b \in data .. data + size - 1 THEN Cell(value)
         ELSE m[b]]

-----------------------------------------------------------------------------
\* The calls.

CreateDb ==
  /\ ~created /\ created' = TRUE
  /\ mem' = [mem EXCEPT ![HeaderSize] = Cell(0)]
  /\ in_use' = Accepts(mem')
  /\ UNCHANGED entries

Found(name) == {a \in EntriesIn(mem) : mem[a + 1].name = name}

\* fwdb_access() of an entry that is there: its place, if the caller wants it.
LocateEntry(name) ==
  /\ in_use /\ Found(name) # {}
  /\ LET a == CHOOSE a \in Found(name) : \A b \in Found(name) : a <= b
     IN  entries' = entries \cup {EntryAt(mem, a)}
  /\ UNCHANGED <<mem, created, in_use>>

\* fwdb_access() with "new_entry", of an entry that is not there.  The data is zero or
\* the caller's.
CreateEntry(name, size, value) ==
  /\ in_use /\ Found(name) = {} /\ HasRoom(name, size)
  /\ mem' = NewEntry(mem, name, size, value)
  /\ entries' = entries \cup {[ptr |-> ListEnd(mem) + DataOffset(name), size |-> size]}
  /\ UNCHANGED <<created, in_use>>

\* fwdb_storage_write(), and whoever else has a pointer from fwdb_access().
WriteData(e, offset, value) ==
  /\ offset < e.size
  /\ mem' = [mem EXCEPT ![e.ptr + offset] = Cell(value)]
  /\ UNCHANGED <<created, in_use, entries>>

\* The next image: nobody looks at what fwdb_use_db() returns.
HandOff ==
  /\ in_use
  /\ in_use' = Accepts(mem)
  /\ entries' = {}
  /\ UNCHANGED <<mem, created>>

FwdbNext ==
  \/ CreateDb \/ HandOff
  \/ \E name \in EntryNames : LocateEntry(name)
  \/ \E name \in EntryNames, size \in DataSizes, value \in 0 .. 1 : CreateEntry(name, size, value)
  \/ \E e \in entries, value \in 0 .. 1 : \E offset \in 0 .. e.size : WriteData(e, offset, value)

FwdbSpec == FwdbInit /\ [][FwdbNext]_fwdbVars

-----------------------------------------------------------------------------
\* Properties.

FwdbTypeOK ==
  /\ mem \in [0 .. FwdbMaxSize + Unit -> [n : 0 .. FwdbMaxSize, name : EntryNames \cup {NoName}]]
  /\ {created, in_use} \subseteq BOOLEAN
  /\ entries \subseteq [ptr : 0 .. FwdbMaxSize, size : DataSizes]

\* What the database of the running image says.
TableOf(m) ==
  LET list == EntriesIn(m)
      at == [name \in {m[a + 1].name : a \in list} |->
               EntryAt(m, CHOOSE a \in list : m[a + 1].name = name)]
  IN  [name \in DOMAIN at |-> [i \in 1 .. at[name].size |-> m[at[name].ptr + i - 1].n]]
CurrentTable == IF in_use THEN TableOf(mem) ELSE <<>>
Table == INSTANCE FwdbTable WITH table <- CurrentTable, Names <- EntryNames, Values <- 0 .. 1

\* Whoever writes to an entry, up to its end, and whatever is added: an entry stays
\* where it is, keeps its size, and only its own writers change its data.  The next image
\* has all of it, for fwdb_use_db() accepts what fwdb_access() has built, full to the last
\* byte or not.  And what is behind the database is left alone.
ImplementsTable ==
  /\ Table!TableSpec
  /\ [](\A a \in DOMAIN mem : a >= FwdbMaxSize => mem[a] = Junk)
=============================================================================

\* Maps of up to three entries below address 7, one range marked as used.
\* A heap of twelve words and DMA memory of two, a word is 2; a request of 8 is large.
SPECIFICATION MCSpec
CONSTANTS
  Maps <- MCMaps
  NoMap = NoMap
  Image <- MCImage
  Marks <- MCMarks
  Firmware = {A, B}
  A = A
  B = B
  HeapStart = 4
  HeapEnd = 28
  DmaStart = 30
  DmaEnd = 34
  HdrSize = 2
  RegionSize = 2
  TypeSize = 2
  LargeRequest = 8
  Lens = {0, 2, 3}
  Aligns = {2, 8}
  MaxLive = 4
INVARIANTS
  BootPartsTypeOK
  RefusalIsFinal
  ClearedFirst
  WipesWhatIsUnused
  NothingLeftRunning
  HeapIsTiled
  NothingLost
PROPERTY ImplementsAllocator
\* A boot ends, and memory_wipe_unused() may stop at an assertion.
CHECK_DEADLOCK FALSE

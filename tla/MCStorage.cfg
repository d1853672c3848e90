\* Erases from the start of the flash; three sectors of two bytes, any contents, every error
\* and loss of power; a region of four write blocks, written two at a time; two units whose
\* media come and go; a card of five blocks, two to a transfer; a database of 13 words, of
\* which the header takes two.
SPECIFICATION MCSpec
CONSTANTS
  RomSize = 12
  SectorSize = 4
  PageSize = 2
  Modulus = 32
  Calls <- MCCalls
  NoCall = NoCall
  Bits = {1}
  Size = 6
  EraseSize = 2
  Requests <- MCRequests
  NoWrite = NoWrite
  FlashFails = TRUE
  PowerFails = TRUE
  EraseTears = TRUE
  RwSize = 8
  WriteBlock = 2
  MaxData = 5
  Ver0Size = 2
  HasVer1 = TRUE
  ImageSizes = {0, 3, 5, 8, 9}
  RebootTries = 2
  Luns = {0, 1}
  Chunks = 2
  SpinTries = 2
  CapacityTries = 2
  Late = 1
  MediaMove = TRUE
  BlockCount = 5
  BMax = 2
  NoTransfer = NoTransfer
  FwdbMaxSize = 13
  HeaderSize = 2
  Unit = 2
  name1 = name1
  name2 = name2
  EntryNames = {name1, name2}
  NameLen <- MCNameLen
  DataSizes = {0, 1, 2, 3, 5}
  NoName = NoName
\* A behaviour of the disks ends where freed memory is used.
CHECK_DEADLOCK FALSE
INVARIANTS StoragePartsTypeOK EveryCommandObeyed UpdateIsWhole OkMeansDone NoUseAfterDetach ListedIsReady BufferIsExchanged
PROPERTIES ErasesAll ImplementsStorageDevice ImplementsTable

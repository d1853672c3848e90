\* An area of two sectors, as on veyron_rialto; the power may be lost.
SPECIFICATION Spec
CONSTANTS
  Bits = {1}
  Size = 12
  EraseSize = 4
  AreaStart = 4
  AreaSize = 8
  BlobSize = 2
  Blobs <- MCBlobs
  NoBlob = NoBlob
  NoWrite = NoWrite
  FlashFails = FALSE
  PowerFails = TRUE
  EraseTears = FALSE
INVARIANT WrittenIsCurrent

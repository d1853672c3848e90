\* One sector of three blobs; the power may be lost, any flash command may fail.
SPECIFICATION Spec
CONSTANTS
  Bits = {1}
  Size = 18
  EraseSize = 9
  AreaStart = 9
  AreaSize = 9
  BlobSize = 3
  Blobs <- MCBlobs
  NoBlob = NoBlob
  NoWrite = NoWrite
  FlashFails = TRUE
  PowerFails = TRUE
  EraseTears = FALSE
INVARIANTS NvTypeOK WrittenIsCurrent LogHasNoHoles
PROPERTY SparesTheFlash

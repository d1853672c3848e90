\* One restart of the protection; any command or its answer may be lost.
SPECIFICATION EcSpec
CONSTANTS
  RwSize = 8
  WriteBlock = 2
  MaxData = 5
  Ver0Size = 2
  HasVer1 = TRUE
  ImageSizes = {5}
  RebootTries = 2
CHECK_DEADLOCK FALSE
INVARIANT ProtectOkIsProtected

\* Erases of any sectors.
SPECIFICATION SpiSpec
CONSTANTS
  RomSize = 12
  SectorSize = 4
  PageSize = 2
  Modulus = 32
  Calls <- Erases
  NoCall = NoCall
INVARIANT ErasesWhatIsAsked

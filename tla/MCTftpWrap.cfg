\* A file with more blocks than the wire has block numbers.
SPECIFICATION Spec
CONSTANTS
  kernel = kernel
  args = args
  Me = Me
  Forgets = TRUE
  Server = Server
  Broadcast = Broadcast
  NumConns = 2
  FirstPort = 10
  PortRestart = 20
  PortLimit = 30
  TftpPort = 69
  Files <- MCFiles
  MaxBlockSize = 2
  FileSize <- LongAndShort
  Sessions = {101}
  Wire = 2
  MaxSize = 9
  MaxReads = 1
CHECK_DEADLOCK FALSE
PROPERTY IgnoresOnlyDuplicates

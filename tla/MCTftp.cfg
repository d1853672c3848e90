\* Two calls, two sessions, one file fits exactly and the other does not.
SPECIFICATION Spec
CONSTANTS
  kernel = kernel
  args = args
  Me = Me
  Forgets = FALSE
  Server = Server
  Broadcast = Broadcast
  NumConns = 2
  FirstPort = 10
  PortRestart = 20
  PortLimit = 30
  TftpPort = 69
  Files <- MCFiles
  MaxBlockSize = 2
  FileSize <- LongAndExact
  Sessions = {101, 102}
  Wire = 4
  MaxSize = 4
  MaxReads = 2
CHECK_DEADLOCK FALSE
INVARIANTS TypeOK ReceivedIsPrefix SizeIsExact OneSessionAcked Lockstep ConnReleased
PROPERTY ImplementsFileTransfer

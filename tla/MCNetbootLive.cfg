\* One attempt at DHCP and a single session, over a network that forgets.
SPECIFICATION FairSpec
CONSTANTS
  kernel = kernel
  args = args
  empty = empty
  None = None
  Me = Me
  Forgets = TRUE
  Server = Server
  Broadcast = Broadcast
  NumConns = 1
  FirstPort = 10
  PortRestart = 20
  PortLimit = 30
  DhcpServerPort = 67
  DhcpClientPort = 68
  DhcpServers = {s1}
  Addrs = {a1}
  Quirks = {"short"}
  MaxAttempts = 1
  TftpPort = 69
  Files <- MCFiles
  FileSize <- OneBlock
  MaxBlockSize = 2
  Sessions = {101}
  Wire = 4
  MaxSize = 4
  MaxReads = 2
  bootfile = kernel
  ArgsFiles = {None}
  HasArgs = FALSE
CHECK_DEADLOCK FALSE
PROPERTY Settles

\* A refused DHCP request may leak one of two connections, of two servers; payload and command line follow, or an empty file for it.
SPECIFICATION Spec
CONSTANTS
  kernel = kernel
  args = args
  empty = empty
  None = None
  Me = Me
  Forgets = FALSE
  Server = Server
  Broadcast = Broadcast
  NumConns = 2
  FirstPort = 10
  PortRestart = 20
  PortLimit = 30
  DhcpServerPort = 67
  DhcpClientPort = 68
  DhcpServers = {s1, s2}
  Addrs = {a1}
  Quirks = {}
  MaxAttempts = 2
  TftpPort = 69
  Files <- MCFiles
  FileSize <- TwoBlocks
  MaxBlockSize = 2
  Sessions = {101, 102}
  Wire = 4
  MaxSize = 4
  MaxReads = 2
  bootfile = kernel
  ArgsFiles = {args, empty}
  HasArgs = TRUE
CHECK_DEADLOCK FALSE
SYMMETRY ServerSymmetry
INVARIANTS NetbootTypeOK BootsWhole NetbootHasSlot BoundToGrant

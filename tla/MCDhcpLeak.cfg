\* More calls than slots of the connection table.
SPECIFICATION Spec
CONSTANTS
  Me = Me
  Forgets = FALSE
  Broadcast = Broadcast
  None = None
  FirstPort = 10
  PortRestart = 20
  PortLimit = 30
  DhcpServerPort = 67
  DhcpClientPort = 68
  NumConns = 1
  DhcpServers = {s1}
  Addrs = {a1}
  Quirks = {"short"}
  MaxAttempts = 2
CHECK_DEADLOCK FALSE
PROPERTY RetryAsks

CONSTANTS
  c1 = c1  c2 = c2  short = short  long = long  ipv6 = ipv6
  SESSION_MAX_COUNT = 2
  Clients = {c1}
  Hosts = {short, ipv6}
  ColonHosts = {ipv6}
  HostLen <- MCHostLen
  NoHost = NoHost
  Mixed = Mixed
  Ports = {0, 80}
  MaxLen = 1
  MaxCalls = 4
  MaxFd = 4
  Spurious = TRUE
CHECK_DEADLOCK FALSE
SPECIFICATION Spec
INVARIANT FdOwnership
PROPERTY ImplementsTable

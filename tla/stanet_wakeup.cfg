CONSTANTS
  c1 = c1  c2 = c2  short = short  long = long  ipv6 = ipv6
  SESSION_MAX_COUNT = 1
  Clients = {c1, c2}
  Hosts = {short}
  ColonHosts = {}
  HostLen <- MCHostLen
  NoHost = NoHost
  Mixed = Mixed
  Ports = {0, 80}
  MaxLen = 1
  MaxCalls = 2
  MaxFd = 3
  Spurious = FALSE
CHECK_DEADLOCK FALSE
SPECIFICATION FairSpec
PROPERTY RequestIsTaken

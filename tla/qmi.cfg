CONSTANTS
  server = server
  qmi = qmi
  SESSION_MAX_COUNT = 3
  Clients = {qmi}
  Hosts = {server}
  ColonHosts = {}
  HostLen <- MCHostLen
  NoHost = NoHost
  Mixed = Mixed
  Ports = {80}
  MaxLen = 2
  MaxCalls = 3
  MaxFd = 3
  Spurious = FALSE
  QmiHost = server
  QmiPort = 80
  HeaderLen = 1
  ReadLen = 2
CHECK_DEADLOCK FALSE
SPECIFICATION QmiFairSpec
INVARIANT RememberedIsConnected
INVARIANT NoDescriptorLost
PROPERTY QmiRequestIsTaken

CONSTANTS
  MaxConns = 3
  Collectors = {2, 3}
  Lossy = {1}
  VIDEO_CLIENT_MAX = 2
  MaxFd = 4
  Room = 1
  BUF_SIZE = 1
  MaxFrames = 1
CHECK_DEADLOCK FALSE
SPECIFICATION FairSpec
INVARIANT NoViewerLost
INVARIANT CollectorOpen
PROPERTY FramesRead

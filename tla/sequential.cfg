CONSTANTS
  MBTK_SOCK_NUM_MAX = 2
  MaxFd = 3
  MaxCalls = 7
  Request = 2
  Answer = 5
  Newlines = {2}
  ZeroBytes = {1, 4}
  MaxLen = 3
  MaxGets = 3
  Texts <- TextsUpTo4
  Patterns <- PatternsUpTo2
  MaxIndex = 4
  Starts <- AddrStarts
  Keys <- AddrKeys
  MaxTyped = 5
  XRes = 7
  YRes = 6
  Xs = {0, 1, 2, 4, 7}
  Ys = {1, 3, 6, 7}
  Radii = {0, 1, 2, 4}
  Sizes = {0, 2}
  FileLen = 3
  MaxFds = 2
  Widths = {0, 1, 2, 3, 4}
  Heights = {1, 2, 4}
  Factors = {0, 41, 67}
  MaxExtra = 1
  ShortWrites = {3}
  Paths <- LogPaths
  MaxLines = 4
  Heads = {qa, qb}
  Cells = {1, 2, 3}
  MaxPuts = 3
CHECK_DEADLOCK FALSE
SPECIFICATION MCSpec
INVARIANT SlotOwnsFd
INVARIANT ReportedIsConnected
INVARIANT CallsIndependent
INVARIANT StringsExact
INVARIANT PtonExact
INVARIANT DrawingExact
INVARIANT ConversionExact
INVARIANT QueuesExact
PROPERTY ConnReturns
PROPERTY LogAsAsked

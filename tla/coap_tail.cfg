CONSTANTS
  MaxCmds = 2
  LastBlock = 0
  IdMod = 8
  ServerIds = {}
  Lossy = FALSE
CHECK_DEADLOCK FALSE
SPECIFICATION Spec
INVARIANT TailIsLast

CONSTANTS
  MaxCmds = 3
  LastBlock = 0
  IdMod = 2
  ServerIds = {}
  Lossy = TRUE
CHECK_DEADLOCK FALSE
SPECIFICATION Spec
INVARIANT ListShape

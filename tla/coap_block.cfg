CONSTANTS
  MaxCmds = 1
  LastBlock = 3
  IdMod = 8
  ServerIds = {7}
  Lossy = FALSE
CHECK_DEADLOCK FALSE
SPECIFICATION FairSpec
PROPERTY BlocksInOrder
PROPERTY DroppedWhenAnswered
PROPERTY TransferEnds

CONSTANTS
  Numbers = {3, 11, 16, 271, 285}
  Lens = {0, 2, 13}
  Blocks = {15, 4095, 65536}
  TokenLens = {0, 2, 4}
  PayloadLens = {0, 1, 3}
  Uris <- MCUris
  Capacity = 36
  MaxOps = 3
SPECIFICATION Spec
INVARIANT BytesAreContent
INVARIANT ReceiverReads
INVARIANT ValuesReadBack

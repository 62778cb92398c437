SPECIFICATION FairSpec
CONSTANTS
  Frames <- FarFrames
  BufferSize = 5
  RxSize = 3
  TxSize = 2
  Addresses = {0, 1}
  MaxLosses = 0
  ShortReads = FALSE
PROPERTY EveryRequestAnswered
CHECK_DEADLOCK FALSE

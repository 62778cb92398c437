SPECIFICATION FairSpec
CONSTANTS
  Frames <- MixedFrames
  BufferSize = 5
  RxSize = 6
  TxSize = 2
  Addresses = {0, 1}
  MaxLosses = 1
  ShortReads = FALSE
INVARIANTS WholeUnlessCut ExecutedOnce NoStall
PROPERTIES AnswersTruthful RequestsAnswered
CHECK_DEADLOCK FALSE

SPECIFICATION FairSpec
CONSTANTS
  FifoSize = 1
  HwSize = 1
  TxTrigger = 0
  MaxHeard = 1
  Unset <- StaticBuffer
  InSize = 2
  PacketSize = 2
  OutSize = 1
  MaxGiven = 0
  MaxToggles = 2
PROPERTY OpenNoticed
CHECK_DEADLOCK FALSE

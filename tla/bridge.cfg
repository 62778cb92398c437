SPECIFICATION FairSpec
CONSTANTS
  FifoSize = 2
  HwSize = 1
  TxTrigger = 0
  MaxHeard = 3
  Unset <- StaticBuffer
  InSize = 2
  PacketSize = 2
  OutSize = 1
  MaxGiven = 2
  MaxToggles = 2
INVARIANTS BytesInOrder Attended
PROPERTY AllDelivered
CHECK_DEADLOCK FALSE

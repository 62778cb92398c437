SPECIFICATION Spec
CONSTANTS
  Size = 3
  Producer = producer
  Irqs = {}
  Readers = {reader}
  Backlog = 4
  IrqSizes = {1, 2}
  ReadSizes = {2}
  MaxBytes = 6
  MaxClears = 0
  ClearRaces = FALSE
  PartialDone = FALSE
  LoopTests = {TRUE, FALSE}
  ReadsUntilEmpty = FALSE
PROPERTY ShortReadMeansEmpty
CHECK_DEADLOCK FALSE

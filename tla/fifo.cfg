SPECIFICATION FifosSpec
CONSTANTS
  Size = 3
  Producer = producer
  Irqs = {irq}
  Readers = {reader}
  Backlog = 0
  IrqSizes = {1, 4}
  ReadSizes = {1, 2, 3}
  MaxBytes = 6
  MaxClears = 1
  ClearRaces = FALSE
  PartialDone = FALSE
  LoopTests = {TRUE, FALSE}
  ReadsUntilEmpty = TRUE
  Size2 = 2
  Readers2 = {reader1, reader2}
  Backlog2 = 2
  Sizes2 = {1, 2}
  MaxBytes2 = 3
INVARIANTS SpaceConserved RegionsDisjoint StreamInOrder PeekIsPrefix SecondNobodyStranded
PROPERTIES ImplementsStream SecondDelivered
CHECK_DEADLOCK FALSE

SPECIFICATION FairSpec
CONSTANTS
  Size = 3
  Irqs = {irq1, irq2}
  MaxMessages = 6
  Backlog = 3
  DrainsAll = TRUE
INVARIANTS RingConsistent NoStrandedEntry NoStrandedProducer
PROPERTIES ImplementsSpec AllDelivered
CHECK_DEADLOCK FALSE

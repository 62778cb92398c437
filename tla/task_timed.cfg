SPECIFICATION FairSpec
CONSTANTS
  t1 = t1
  t2 = t2
  t3 = t3
  irq1 = irq1
  irq2 = irq2
  Tasks = {t1, t2, t3}
  NULL = NULL
  Irqs = {irq1}
  OneCore = TRUE
  Delays = {1, 2}
  MaxTime = 2
  AlarmIds = {1, 2, 3, 4, 5, 6, 7, 8}
  PoolSize = 4
  InitialAlarm = 0
  HandlerCalls = 1
  HandlerExec <- Everybody
  HandlerExecIn <- SelfRearming
  IrqExec = {t3}
  IrqExecIn = {}
INVARIANTS TypeOK ListsSound
PROPERTIES ImplementsSpec PendingRuns WaitingEnds
CONSTRAINT UntilRaced

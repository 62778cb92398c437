SPECIFICATION Spec
CONSTANTS
  t1 = t1
  t2 = t2
  t3 = t3
  irq1 = irq1
  irq2 = irq2
  Tasks = {t1, t2}
  NULL = NULL
  Irqs = {irq1}
  OneCore = FALSE
  Delays = {1, 2}
  MaxTime = 2
  AlarmIds = {1, 2, 3, 4, 5, 6, 7, 8}
  PoolSize = 2
  InitialAlarm = 0
  HandlerCalls = 1
  HandlerExec <- Nobody
  HandlerExecIn <- SelfFirst
  IrqExec = {}
  IrqExecIn = {t2}
INVARIANT AlarmCovers
PROPERTY ImplementsSpec
CONSTRAINT UntilRefused

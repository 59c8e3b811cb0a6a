SPECIFICATION MCSpec
CONSTANTS
  NumberOfCores = 2
  idle0 = idle0  idle1 = idle1  irq0 = irq0  irq1 = irq1
  Tasks = {idle0, idle1, irq0, irq1, owner, t1, t2, t3}
  None = None
  Queues = {legacy}
  LegacyQueue = legacy
  IrqTasks = {irq0, irq1}
  Owner = owner
  Clients = {t1, t2, t3}
  Blockers = {t1}
INVARIANT OwnerComesBack
PROPERTY IsNestedUse

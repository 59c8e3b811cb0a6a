CONSTANTS
  idle0 = idle0
  idle1 = idle1
  manager = manager
  irq0 = irq0
  irq1 = irq1
  ticker = ticker
  a = a
  responder = responder
  sender = sender
  b = b
  d = d
  e = e
  irqs = irqs
  mail = mail
  Tasks = {idle0, idle1, manager, irq0, irq1, ticker, a, responder, sender, b, d, e}
  Queues = {irqs, mail}
  None = None
  NumberOfCores = 2
  Manager = manager
  IrqTasks <- MCIrqTasks
  Ticker = ticker
  Users = {ticker, a, e, responder}
  IrqOf <- MCIrqOf
  Clients = {a, e}
  IrqQueue = irqs
  Word1 = {3, 7}
  Word2 = {}
  Base = {65}
  Fast = {7}
  Responder = responder
  Sender = sender
  Requesters = {b, d}
  MailQueue = mail
  Slots = {0, 1}
  MailFull = 3
SPECIFICATION MCSpec
INVARIANTS NoCoreStops EnteredTasksAreHeld TickerWhereTimerIs RequestsComeBack

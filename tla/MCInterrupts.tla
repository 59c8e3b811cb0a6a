----------------------------- MODULE MCInterrupts -----------------------------
EXTENDS Mailbox, TLC

CONSTANTS idle0, idle1, manager, irq0, irq1, ticker, a, responder, sender, b, d, e, irqs, mail

MCIrqTasks == <<irq0, irq1>>
MCIrqOf    == (a :> 7 @@ e :> 3 @@ responder :> 65)

\* Both cores are booted and execute their idle tasks; c_init of both modules
\* have made their queues.
Booted ==
  /\ running = (0 :> <<idle0>> @@ 1 :> <<idle1>>)
  /\ idle = (0 :> idle0 @@ 1 :> idle1)
  /\ interrupted_tasks = [c \in Cores |-> <<>>]
  /\ masked = [c \in Cores |-> FALSE]
  /\ step = [c \in Cores |-> "usr"]
  /\ hand = [c \in Cores |-> <<>>]
  /\ moving = <<>> /\ sleeping = <<>>
  /\ isRunning = [t \in Tasks |-> t \in {idle0, idle1}]
  /\ r0 = [t \in Tasks |-> None]
  /\ controller = [t \in Tasks |-> <<>>]
  /\ ended = {}
  /\ queue_pool = <<>>
  /\ queue = [p \in Queues |-> <<>>]
  /\ swi_core = [t \in Tasks |-> 0]
  /\ client = None
  /\ gpu_task = [n \in GpuIrqs |-> None] /\ local_task = [c \in Cores |-> None]
  /\ device = {} /\ enabled = {} /\ gpu_core = 0
  /\ timer = FALSE /\ timer_core = None
  /\ seen = {} /\ word = 1 /\ todo = {}
  /\ seen_timer = [c \in Cores |-> FALSE]
  /\ request = [s \in Slots |-> [task |-> None, address |-> None]]
  /\ config = FALSE /\ to_gpu = <<>> /\ from_gpu = <<>>
  /\ asker = None /\ slot = 0 /\ response = None /\ i = 0

\* Either QA7 is about to start, with another module's task that will use it, ..
QA7Starts ==
  /\ Booted
  /\ task_pool = <<irq0, irq1, ticker>>
  /\ runnable = <<manager, a>>
  /\ irq_task = [c \in Cores |-> None]
  /\ irqsOff = [t \in Tasks |-> FALSE]
  /\ handlers = [p \in Queues |-> <<>>]
  /\ pc = [t \in Tasks |-> IF t = manager THEN "create" ELSE "start"]
  /\ gpu_handler = None /\ core_irq_task = [c \in Cores |-> None]

\* .. or it has started, with no ticker, and the mailbox module is about to, with
\* two tasks that make requests, or one and another task with an interrupt.
MailboxStarts ==
  /\ Booted
  /\ task_pool = <<sender>>
  /\ \E t \in {d, e} : runnable = <<responder, b, t>>
  /\ irq_task = (0 :> irq0 @@ 1 :> irq1)
  /\ irqsOff = [t \in Tasks |-> t \in {irq0, irq1, manager}]
  /\ handlers = [p \in Queues |-> IF p = irqs THEN <<manager>> ELSE <<>>]
  /\ pc = [t \in Tasks |-> CASE t = manager        -> "serve"
                             [] t \in {irq0, irq1} -> "woken"
                             [] OTHER              -> "start"]
  /\ gpu_handler = irq0 /\ core_irq_task = (0 :> irq0 @@ 1 :> irq1)

MCSpec == (QA7Starts \/ MailboxStarts) /\ [][MailboxNext]_mailboxVars
===============================================================================

------------------------------- MODULE MCLegacy -------------------------------
EXTENDS Legacy, TLC

CONSTANTS idle0, idle1, irq0, irq1

\* Both cores are booted and startup() has made the queue and the owner; clients
\* are about to run.
MCInit ==
  /\ running = (0 :> <<idle0>> @@ 1 :> <<idle1>>)
  /\ idle = (0 :> idle0 @@ 1 :> idle1)
  /\ irq_task = (0 :> irq0 @@ 1 :> irq1)
  /\ interrupted_tasks = [c \in Cores |-> <<>>]
  /\ masked = [c \in Cores |-> FALSE]
  /\ step = [c \in Cores |-> "usr"]
  /\ hand = [c \in Cores |-> <<>>]
  /\ task_pool = <<>> /\ moving = <<>> /\ sleeping = <<>>
  /\ runnable \in {<<Owner>> \o s : s \in SetToSeqs(Clients)}
  /\ isRunning = [t \in Tasks |-> t \in {idle0, idle1}]
  /\ irqsOff = [t \in Tasks |-> t \in IrqTasks]
  /\ r0 = [t \in Tasks |-> None]
  /\ controller = [t \in Tasks |-> <<>>]
  /\ ended = {}
  /\ queue_pool = <<>>
  /\ queue = [q \in Queues |-> <<>>]
  /\ handlers = [q \in Queues |-> <<>>]
  /\ frame = <<>> /\ sp = <<>>
  /\ pc = [t \in Tasks |-> IF t = Owner THEN "wait" ELSE "usr"]
  /\ served = None
  /\ unblocks = [c \in Cores |-> FALSE]

MCSpec == MCInit /\ [][LegacyNext]_legacyVars
===============================================================================

--------------------------- MODULE MCSchedulerLive ---------------------------
EXTENDS Scheduler, TLC

CONSTANTS idle0, idle1, a, b

\* Both cores are booted, each executes a task and no other task is left: a has
\* created and released b, and core 1 has taken it.
BusyInit ==
  /\ running = (0 :> <<a, idle0>> @@ 1 :> <<b, idle1>>)
  /\ idle = (0 :> idle0 @@ 1 :> idle1)
  /\ irq_task = [c \in Cores |-> None]
  /\ interrupted_tasks = [c \in Cores |-> <<>>]
  /\ masked = [c \in Cores |-> FALSE]
  /\ step = [c \in Cores |-> "usr"]
  /\ hand = [c \in Cores |-> <<>>]
  /\ task_pool = <<>> /\ runnable = <<>> /\ moving = <<>> /\ sleeping = <<>>
  /\ isRunning = [t \in Tasks |-> t \in {a, b}]
  /\ irqsOff = [t \in Tasks |-> FALSE]
  /\ r0 = [t \in Tasks |-> None]
  /\ controller = [t \in Tasks |-> <<>>]
  /\ ended = {}

\* The tasks keep the rules of the SWIs, and a task waits for every interrupt.
NextByTheRules ==
  \E c \in Cores :
     \/ InterruptSwi(c) \/ irq_handler(c) \/ IdleYield(c) \/ Kernel(c)
     \/ OrdinarySwi(c) /\ step'[c] # "panic"

LiveSpec == BusyInit /\ [][NextByTheRules]_vars /\ Fairness
=============================================================================

------------------------------- MODULE MCQueues -------------------------------
EXTENDS TaskSlots, TLC

CONSTANTS t1, t2, t3, t4, t5

MCTasks == {t1, t2, t3, t4, t5}
SameSlots == Permutations(Slots)

\* The SWIs that run MCScheduler also checks are left out, but for those that
\* put tasks in the lists the queues share with them, or move them to another core.
QueueUsers ==
  \E c \in Cores :
    \/ QueueStep(c)
    \/ UNCHANGED queueVars /\
         (Yield(c) \/ ReleaseTask(c) \/ IdleYield(c) \/ Kernel(c))

\* Before anything else core 0 is booted, and then core 1.
BootInOrder == \E c \in Cores : Boots(c) /\ \A d \in 0 .. c - 1 : step[d] # "off"
Booted == \A c \in Cores : step[c] # "off"

\* There are no interrupts here, and no task is saved with them disabled.
Unmasked == \A t \in Tasks : ~irqsOff'[t]

MCNext ==
  /\ \/ BootInOrder
     \/ /\ Booted
        /\ \/ QueueUsers /\ Maps
           \/ \E c \in Cores : Creates(c) \/ RunForTask(c) \/ Finished(c)
  /\ Unmasked

\* The tasks are taken from the pool in their order.
MCInit == TaskSlotsInit /\ task_pool = <<t1, t2, t3, t4, t5>>

MCSpec == MCInit /\ [][MCNext]_taskSlotsVars
===============================================================================

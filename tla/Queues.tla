-------------------------------- MODULE Queues --------------------------------
(***************************************************************************)
(* Queues (OSTask/queues.c): a task that makes a SWI which a queue deals   *)
(* with waits there until another task, a handler, takes control of it;    *)
(* handlers wait for such tasks.  All that is done to a queue is done with *)
(* queues_lock held, in one step; a caller has been stopped before that.   *)
(*                                                                         *)
(* A queue is two rings of tasks, queue and handlers; dll_attach makes the *)
(* new task the head of its ring, and the head is what is taken.           *)
(***************************************************************************)
EXTENDS Scheduler

CONSTANTS Queues         \* OSQueue_free_pool

ASSUME QueuesAssumption == IsFiniteSet(Queues)

VARIABLES
  queue_pool,
  queue,       \* callers that no handler has taken yet
  handlers     \* tasks in QueueWait

queueVars == <<queue_pool, queue, handlers>>
queuesVars == <<vars, queueVars>>

QueuesInit ==
  /\ Init
  /\ queue_pool \in SetToSeqs(Queues)
  /\ queue = [q \in Queues |-> <<>>]
  /\ handlers = [q \in Queues |-> <<>>]

-----------------------------------------------------------------------------
\* Every queue that has been created; any task may use its handle.
Created == Queues \ ToSet(queue_pool)

\* No queue is ever given back.
QueueCreate(c) ==
  /\ Swi(c)
  /\ queue_pool # <<>>
  /\ queue' = [queue EXCEPT ![Head(queue_pool)] = <<>>]
  /\ handlers' = [handlers EXCEPT ![Head(queue_pool)] = <<>>]
  /\ queue_pool' = Tail(queue_pool)
  /\ UNCHANGED vars

\* QueueWait, when there is nothing to remove: the task waits.
HandlerWaits(c, q) ==
  /\ Swi(c)
  /\ queue[q] = <<>>
  /\ stop_running_task(c)
  /\ handlers' = [handlers EXCEPT ![q] = <<Current(c)>> \o @]
  /\ GoTo(c, "resume")
  /\ UNCHANGED <<idle, irq_task, interrupted_tasks, masked, hand, sharedVars,
                 r0, controller, ended, queue_pool, queue>>

\* QueueWait, when there is: the head is under the task's control from now on.
TakesQueued(c, q) ==
  /\ Swi(c)
  /\ queue[q] # <<>>
  /\ queue' = [queue EXCEPT ![q] = Tail(@)]
  /\ controller' = [controller EXCEPT
       ![Head(queue[q])] = push_controller(@, Current(c))]
  /\ UNCHANGED <<coreVars, sharedVars, isRunning, irqsOff, r0, ended,
                 queue_pool, handlers>>

\* A SWI for the queue q: whatever happens, the caller stops.
QueueSwi(c) ==
  /\ Swi(c)
  /\ Created # {}
  /\ StopFor(c, "queue")
  /\ UNCHANGED <<idle, irq_task, interrupted_tasks, masked, sharedVars,
                 r0, controller, ended, queueVars>>

\* Mutant: the handler stays in the queue.
HandlerTakesAndStays(c, q) ==
  /\ step[c] = "queue"
  /\ handlers[q] # <<>>
  /\ controller' = [controller EXCEPT
       ![Head(hand[c])] = push_controller(@, Head(handlers[q]))]
  /\ running' = [running EXCEPT ![c] = <<Head(handlers[q])>> \o @]
  /\ hand' = [hand EXCEPT ![c] = <<>>]
  /\ GoTo(c, "resume")
  /\ UNCHANGED <<idle, irq_task, interrupted_tasks, masked, sharedVars,
                 isRunning, irqsOff, r0, ended, queueVars>>

\* Mutant: the handler gets no control.
HandlerTakesNoControl(c, q) ==
  /\ step[c] = "queue"
  /\ handlers[q] # <<>>
  /\ handlers' = [handlers EXCEPT ![q] = Tail(@)]
  /\ running' = [running EXCEPT ![c] = <<Head(handlers[q])>> \o @]
  /\ hand' = [hand EXCEPT ![c] = <<>>]
  /\ GoTo(c, "resume")
  /\ UNCHANGED <<idle, irq_task, interrupted_tasks, masked, sharedVars,
                 isRunning, irqsOff, r0, ended, controller, queue_pool, queue>>

\* A handler waits: it goes on, on this core and wherever it came from, with
\* the caller under its control.  (QueueWait lets no handler ask for certain
\* SWIs or cores, so the head always matches.)
HandlerTakes(c, q) ==
  /\ step[c] = "queue"
  /\ handlers[q] # <<>>
  /\ handlers' = [handlers EXCEPT ![q] = Tail(@)]
  /\ controller' = [controller EXCEPT
       ![Head(hand[c])] = push_controller(@, Head(handlers[q]))]
  /\ running' = [running EXCEPT ![c] = <<Head(handlers[q])>> \o @]
  /\ hand' = [hand EXCEPT ![c] = <<>>]
  /\ GoTo(c, "resume")
  /\ UNCHANGED <<idle, irq_task, interrupted_tasks, masked, sharedVars,
                 isRunning, irqsOff, r0, ended, queue_pool, queue>>

\* None does: the caller waits.
Queued(c, q) ==
  /\ step[c] = "queue"
  /\ handlers[q] = <<>>
  /\ queue' = [queue EXCEPT ![q] = hand[c] \o @]
  /\ hand' = [hand EXCEPT ![c] = <<>>]
  /\ GoTo(c, "resume")
  /\ UNCHANGED <<running, idle, irq_task, interrupted_tasks, masked,
                 sharedVars, taskVars, queue_pool, handlers>>

\* TaskOpSetRegisters: any context, of which the interrupt bit is modelled, for
\* a task the caller controls.
SetRegisters(c) ==
  /\ Swi(c)
  /\ \E t \in Tasks, off \in BOOLEAN :
       /\ Controls(Current(c), t)
       /\ irqsOff' = [irqsOff EXCEPT ![t] = off]
  /\ UNCHANGED <<coreVars, sharedVars, isRunning, r0, controller, ended,
                 queueVars>>

QueueStep(c) ==
  \/ QueueCreate(c) \/ QueueSwi(c) \/ SetRegisters(c)
  \/ \E q \in Created : HandlerWaits(c, q) \/ TakesQueued(c, q)
                          \/ HandlerTakes(c, q) \/ Queued(c, q)

QueuesNext ==
  \/ Next /\ UNCHANGED queueVars
  \/ \E c \in Cores : QueueStep(c)

QueuesSpec == QueuesInit /\ [][QueuesNext]_queuesVars

-----------------------------------------------------------------------------
InQueues(t) ==
  ({"queue"} \X {q \in Queues : t \in ToSet(queue[q])})
    \cup ({"handlers"} \X {q \in Queues : t \in ToSet(handlers[q])})

\* The places of OnePlace, and those in the queues: a caller or a handler is in
\* exactly one of them, and once; a task executes only while nobody controls
\* it, and a task that nobody controls is not forgotten.
OnePlaceWithQueues ==
  /\ \A t \in Tasks : Cardinality(Places(t) \cup InQueues(t)) = 1
  /\ \A q \in Queues : IsInjective(queue[q]) /\ IsInjective(handlers[q])

\* A caller leaves the kernel, or its queue, only into the control of the
\* handler that gets its handle, and which executes at that moment.
CallersAreControlled ==
  [][\A t \in Tasks :
       LET waited == \/ \E q \in Queues : t \in ToSet(queue[q])
                     \/ \E c \in Cores : step[c] = "queue" /\ t \in ToSet(hand[c])
           waits == \/ \E q \in Queues : t \in ToSet(queue'[q])
                    \/ \E c \in Cores : step'[c] = "queue" /\ t \in ToSet(hand'[c])
       IN  (waited /\ ~waits) =>
             \E c \in Cores : /\ running'[c] # <<>>
                              /\ controller'[t] = <<Head(running'[c])>>]_queuesVars

===============================================================================

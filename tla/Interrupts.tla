------------------------------ MODULE Interrupts ------------------------------
(***************************************************************************)
(* The QA7 module (Modules/System/Pi/QA7/module.c) on the kernel of        *)
(* Scheduler and Queues: a manager that serves the SWIs "claim interrupt"  *)
(* and "wait for interrupt", a task for each core that is resumed by its   *)
(* interrupts, the ticker, and tasks of other modules that wait for a GPU  *)
(* interrupt.  Each has a program, pc says where in it a task is; a step   *)
(* is one SWI, or one access to the shared workspace or to a device.       *)
(*                                                                         *)
(* The device registers are what this module's accesses make of them:      *)
(* enabled and pending bits, and where interrupts go.  The module's words  *)
(* of 32 GPU interrupts are sets of their numbers.                         *)
(***************************************************************************)
EXTENDS Queues

CONSTANTS
  Manager, IrqTasks, Ticker,  \* irq_manager; core_irq_task for cores 0, 1, ..; ticker
  Users, IrqOf,               \* the ticker, and tasks that use a GPU interrupt each: which
  Clients,                    \* of these, those whose device is of no concern here
  IrqQueue,                   \* workspace.queue
  Word1, Word2, Base,         \* GPU interrupts: 0 .. 31, 32 .. 63, 64 .. 71
  Fast                        \* those of the first two that base_pending has bits for

VARIABLES
  pc,
  swi_core,           \* per task: swi.core, where it made its last SWI
  client,             \* the manager's: the task it serves
  gpu_handler, core_irq_task, gpu_task, local_task,  \* its workspace
  device, enabled, gpu_core,             \* GPU: asserted, enabled, routed to
  timer, timer_core,                     \* QA7: asserted, routed to (or None: off)
  seen, word, todo,                      \* release_gpu_handlers
  seen_timer                             \* per core: the timer's bit in interrupts

tables   == <<gpu_handler, core_irq_task, gpu_task, local_task>>
hardware == <<device, enabled, gpu_core, timer, timer_core>>
locals   == <<swi_core, client, seen, word, todo, seen_timer>>
irqVars  == <<queuesVars, pc, tables, hardware, locals>>

GpuIrqs == Word1 \cup Word2 \cup Base

\* The core that an interrupt task is for.
CoreOf(t) == (CHOOSE i \in DOMAIN IrqTasks : IrqTasks[i] = t) - 1

Pending == device \cap enabled

\* Bit 8 and the timer's of Core_IRQ_Source.
Gpu(c)   == gpu_core = c /\ Pending # {}
Timer(c) == timer_core = c /\ timer

-----------------------------------------------------------------------------
\* Task t is the one that core c executes, at l in its program.
At(c, t, l) == Swi(c) /\ Current(c) = t /\ pc[t] = l

Goes(t, l) == pc' = [pc EXCEPT ![t] = l]

\* A SWI that only the scheduler is concerned with.
Only(t, l) == Goes(t, l) /\ UNCHANGED <<queueVars, tables, hardware, locals>>

\* An instruction outside the kernel.
User(t, l) == Goes(t, l) /\ UNCHANGED queuesVars

\* ReleaseTask( t, 0 ) leaves the saved context as it is.
Release(c, t) ==
  IF Controls(Current(c), t)
  THEN ReleaseTask(c) /\ irqsOff' = irqsOff /\ controller'[t] # controller[t]
  ELSE Panic(c)

MoveTo(c, core) == SwitchToCore(c) /\ r0'[Current(c)] = core

-----------------------------------------------------------------------------
\* irq_manager.

\* The interrupt tasks, one after the other.
ManagerCreates(c) ==
  /\ At(c, Manager, "create")
  /\ Create(c)
  /\ Only(Manager, "release")

ManagerReleases(c) ==
  LET made == {t \in ToSet(IrqTasks) \cup {Ticker} : Controls(Manager, t)}
  IN /\ At(c, Manager, "release")
     /\ \E t \in made :
          /\ Release(c, t)
          /\ Only(Manager, CASE t = Ticker         -> "serve"
                             [] t = Last(IrqTasks) -> "look"
                             [] OTHER              -> "create")

\* Mutant: it does not wait for the other cores.
ManagerLooksHere(c) ==
  /\ At(c, Manager, "look")
  /\ IF core_irq_task[c] = None
     THEN Yield(c) /\ Only(Manager, "look")
     ELSE User(Manager, "enabling") /\ UNCHANGED <<tables, hardware, locals>>

\* It yields until all of them are ready.
ManagerLooks(c) ==
  /\ At(c, Manager, "look")
  /\ IF \E d \in Cores : core_irq_task[d] = None
     THEN Yield(c) /\ Only(Manager, "look")
     ELSE User(Manager, "enabling") /\ UNCHANGED <<tables, hardware, locals>>

\* From now on it executes with interrupts disabled.
ManagerEnabling(c) ==
  /\ At(c, Manager, "enabling")
  /\ EnablingInterrupts(c)
  /\ Only(Manager, "create")

ManagerWaits(c) ==
  /\ At(c, Manager, "serve")
  /\ HandlerWaits(c, IrqQueue)
  /\ UNCHANGED <<pc, tables, hardware, locals>>

\* What the manager does next for a task.
Serves(t) ==
  /\ client' = t
  /\ Goes(Manager, IF pc[t] = "claimed" THEN "move" ELSE "control")
  /\ UNCHANGED <<tables, hardware, swi_core, seen, word, todo, seen_timer>>

ManagerTakes(c) ==
  /\ At(c, Manager, "serve")
  /\ TakesQueued(c, IrqQueue)
  /\ Serves(Head(queue[IrqQueue]))

\* The SWI that core c has just stopped a task for is one of this module's.
ForManager(c) == step[c] = "queue" /\ Head(hand[c]) \in Users

ManagerIsGiven(c) ==
  ForManager(c) /\ HandlerTakes(c, IrqQueue) /\ Serves(Head(hand[c]))

CallerIsQueued(c) ==
  /\ ForManager(c)
  /\ Queued(c, IrqQueue)
  /\ UNCHANGED <<pc, tables, hardware, locals>>

\* Claim interrupt: the manager goes to the client's core ..
ManagerMoves(c) ==
  /\ At(c, Manager, "move")
  /\ IF swi_core[client] = c
     THEN User(Manager, "let go") /\ UNCHANGED <<tables, hardware, locals>>
     ELSE MoveTo(c, swi_core[client]) /\ Only(Manager, "let go")

\* .. and lets the client go on.
ManagerLetsGo(c) ==
  /\ At(c, Manager, "let go")
  /\ Release(c, client)
  /\ Only(Manager, "serve")

\* Wait for interrupt: the task that will be told of it, ..
HandlerFor(t) == IF t = Ticker THEN core_irq_task[swi_core[t]] ELSE gpu_handler

\* Mutant: the interrupt's task is told of the client before it controls it.
ManagerControlsLate(c) ==
  LET handler == HandlerFor(client)
      changed == [controller EXCEPT ![client] = <<handler>> \o Tail(@)]
  IN
  \/ /\ At(c, Manager, "control")
     /\ User(Manager, "enter")
     /\ IF client = Ticker
        THEN /\ local_task' = [local_task EXCEPT ![swi_core[client]] = client]
             /\ UNCHANGED gpu_task
        ELSE /\ gpu_task' = [gpu_task EXCEPT ![IrqOf[client]] = client]
             /\ UNCHANGED local_task
     /\ UNCHANGED <<gpu_handler, core_irq_task, hardware, locals>>
  \/ /\ At(c, Manager, "enter")
     /\ ChangeController(c) /\ controller' = changed
     /\ Only(Manager, "enable")

\* .. which gets control of the client, before it can find it in its table.
\* (bkpt 2: with interrupts enabled; bkpt 7: nobody handles the interrupt.)
ManagerControls(c) ==
  LET handler == HandlerFor(client)
      changed == [controller EXCEPT ![client] = <<handler>> \o Tail(@)]
  IN
  \/ /\ At(c, Manager, "control")
     /\ IF handler = None \/ ~irqsOff[client] THEN Panic(c)
        ELSE ChangeController(c) /\ controller' = changed
     /\ Only(Manager, "enter")
  \/ /\ At(c, Manager, "enter")
     /\ User(Manager, "enable")
     /\ IF client = Ticker
        THEN /\ local_task' = [local_task EXCEPT ![swi_core[client]] = client]
             /\ UNCHANGED gpu_task
        ELSE /\ gpu_task' = [gpu_task EXCEPT ![IrqOf[client]] = client]
             /\ UNCHANGED local_task
     /\ UNCHANGED <<gpu_handler, core_irq_task, hardware, locals>>

\* Last, a GPU interrupt is enabled.
ManagerEnables(c) ==
  /\ At(c, Manager, "enable")
  /\ User(Manager, "serve")
  /\ enabled' = enabled \cup (IF client = Ticker THEN {} ELSE {IrqOf[client]})
  /\ UNCHANGED <<tables, device, gpu_core, timer, timer_core, locals>>

ManagerNext(c) ==
  \/ ManagerCreates(c) \/ ManagerReleases(c) \/ ManagerLooks(c) \/ ManagerEnabling(c)
  \/ ManagerWaits(c) \/ ManagerTakes(c)
  \/ ManagerMoves(c) \/ ManagerLetsGo(c) \/ ManagerControls(c) \/ ManagerEnables(c)

-----------------------------------------------------------------------------
\* core_irq_task.

IrqTaskStarts(c, t) ==
  /\ At(c, t, "start")
  /\ IF CoreOf(t) = c
     THEN User(t, "enabling") /\ UNCHANGED <<tables, hardware, locals>>
     ELSE MoveTo(c, CoreOf(t)) /\ Only(t, "enabling")

IrqTaskEnabling(c, t) ==
  /\ At(c, t, "enabling")
  /\ EnablingInterrupts(c)
  /\ Only(t, "gpu")

\* The first one gets the GPU's interrupts.
IrqTaskClaimsGpu(c, t) ==
  /\ At(c, t, "gpu")
  /\ User(t, "ready")
  /\ IF gpu_handler = None
     THEN gpu_handler' = t /\ enabled' = {} /\ gpu_core' = c
     ELSE UNCHANGED <<gpu_handler, enabled, gpu_core>>
  /\ UNCHANGED <<core_irq_task, gpu_task, local_task, device, timer, timer_core, locals>>

IrqTaskReady(c, t) ==
  /\ At(c, t, "ready")
  /\ User(t, "wait")
  /\ core_irq_task' = [core_irq_task EXCEPT ![CoreOf(t)] = t]
  /\ UNCHANGED <<gpu_handler, gpu_task, local_task, hardware, locals>>

IrqTaskWaits(c, t) ==
  /\ At(c, t, "wait")
  /\ IF masked[c] /\ irq_task[c] = None THEN WaitForInterrupt(c) ELSE Panic(c)
  /\ Only(t, "woken")

\* Core_IRQ_Source is read, and if the GPU is one, base_pending (the GPU's other
\* registers are not touched by anyone else in between).
IrqTaskWoken(c, t) ==
  /\ At(c, t, "woken")
  /\ IF Gpu(c) /\ t # gpu_handler THEN Panic(c) ELSE UNCHANGED vars
  /\ Goes(t, IF Gpu(c) THEN "words" ELSE "local")
  /\ seen_timer' = [seen_timer EXCEPT ![c] = Timer(c)]
  /\ IF Gpu(c) THEN seen' = Pending /\ word' = 1 ELSE UNCHANGED <<seen, word>>
  /\ UNCHANGED <<queueVars, tables, hardware, swi_core, client, todo>>

\* What release_gpu_handlers takes for pending in each of the words: bit 8 and 9
\* of base_pending tell that one of the others is.
InWord(w) ==
  CASE w = 1 -> IF seen \cap Word1 \subseteq Fast THEN seen \cap Word1 ELSE Pending \cap Word1
    [] w = 2 -> IF seen \cap Word2 \subseteq Fast THEN seen \cap Word2 ELSE Pending \cap Word2
    [] w = 3 -> seen \cap Base

\* They are disabled, ..
IrqTaskTakesWord(c, t) ==
  /\ At(c, t, "words") /\ todo = {}
  /\ User(t, IF word = 3 /\ InWord(word) = {} THEN "local" ELSE "words")
  /\ todo' = InWord(word)
  /\ word' = word + 1
  /\ enabled' = enabled \ InWord(word)
  /\ UNCHANGED <<tables, device, gpu_core, timer, timer_core,
                 swi_core, client, seen, seen_timer>>

\* release_irq_tasks finds nobody in the table: it writes to a page that is only
\* mapped for DEBUG__EMERGENCY_UART_ACCESS, and the fault stops the core.
FindsNobody(c, t, who) == Panic(c) /\ Goes(t, who)

\* .. and their tasks released, one after the other.  (Between reading the word in
\* the table and clearing it the manager does not write there: it only has the
\* interrupt's client to enter again after it has been released.)
IrqTaskReleases(c, t) ==
  /\ At(c, t, "words")
  /\ \E irq \in todo :
       /\ \A other \in todo : irq <= other
       /\ gpu_task' = [gpu_task EXCEPT ![irq] = None]
       /\ todo' = todo \ {irq}
       /\ IF gpu_task[irq] = None
          THEN FindsNobody(c, t, "no client")
          ELSE /\ Release(c, gpu_task[irq])
               /\ Goes(t, IF todo' = {} /\ word > 3 THEN "local" ELSE "words")
  /\ UNCHANGED <<queueVars, gpu_handler, core_irq_task, local_task, hardware,
                 swi_core, client, seen, word, seen_timer>>

\* The core's own interrupts are not disabled; the table may be empty.
IrqTaskLocal(c, t) ==
  /\ At(c, t, "local")
  /\ local_task' = [local_task EXCEPT ![c] = IF seen_timer[c] THEN None ELSE @]
  /\ CASE ~seen_timer[c]        -> UNCHANGED vars /\ Goes(t, "wait")
       [] local_task[c] = None  -> FindsNobody(c, t, "no ticker")
       [] OTHER                 -> Release(c, local_task[c]) /\ Goes(t, "wait")
  /\ UNCHANGED <<queueVars, gpu_handler, core_irq_task, gpu_task, hardware, locals>>

IrqTaskNext(c, t) ==
  \/ IrqTaskStarts(c, t) \/ IrqTaskEnabling(c, t) \/ IrqTaskClaimsGpu(c, t)
  \/ IrqTaskReady(c, t) \/ IrqTaskWaits(c, t) \/ IrqTaskWoken(c, t)
  \/ IrqTaskTakesWord(c, t) \/ IrqTaskReleases(c, t) \/ IrqTaskLocal(c, t)

-----------------------------------------------------------------------------
\* The ticker and the GPU's clients: both claim an interrupt first (SWI 1000),
\* then say that they will enable it, and wait for it again and again (1001).

Asks(c, t, from, to) ==
  /\ At(c, t, from)
  /\ QueueSwi(c)
  /\ swi_core' = [swi_core EXCEPT ![t] = c]
  /\ Goes(t, to)
  /\ UNCHANGED <<tables, hardware, client, seen, word, todo, seen_timer>>

ClaimInterrupt(c, t)   == Asks(c, t, "start", "claimed")
WaitForTheIrq(c, t) == Asks(c, t, "ask", "serve")

ClientEnabling(c, t) ==
  /\ At(c, t, "claimed")
  /\ EnablingInterrupts(c)
  /\ Only(t, IF t = Ticker THEN "route" ELSE "ask")

\* Mutant: the interrupt goes to the core where the ticker claimed it.
TickerRoutesBack(c) ==
  /\ At(c, Ticker, "route")
  /\ User(Ticker, "ask")
  /\ timer_core' = swi_core[Ticker]
  /\ UNCHANGED <<tables, device, enabled, gpu_core, timer, locals>>

\* The timer's interrupts to this core, please, and start it.
TickerRoutes(c) ==
  /\ At(c, Ticker, "route")
  /\ User(Ticker, "ask")
  /\ timer_core' = c
  /\ UNCHANGED <<tables, device, enabled, gpu_core, timer, locals>>

\* OSTask_Tick, with no task asleep; the flag is cleared after it.
TickerClears(c) ==
  /\ At(c, Ticker, "serve")
  /\ User(Ticker, "ask")
  /\ timer' = FALSE
  /\ UNCHANGED <<tables, device, enabled, gpu_core, timer_core, locals>>

\* A client does what its device wants.
ClientServes(c, t) ==
  /\ At(c, t, "serve")
  /\ User(t, "ask")
  /\ device' = device \ {IrqOf[t]}
  /\ UNCHANGED <<tables, enabled, gpu_core, timer, timer_core, locals>>

ClientNext(c, t) ==
  ClientEnabling(c, t) \/ (t # Ticker /\ ClientServes(c, t))

-----------------------------------------------------------------------------
DeviceAsserts ==
  /\ \E irq \in {IrqOf[t] : t \in Clients} \ device : device' = device \cup {irq}
  /\ UNCHANGED <<queuesVars, pc, tables, enabled, gpu_core, timer, timer_core, locals>>

TimerAsserts ==
  /\ timer_core # None /\ ~timer
  /\ timer' = TRUE
  /\ UNCHANGED <<queuesVars, pc, tables, device, enabled, gpu_core, timer_core, locals>>

\* What the kernel does on its own.
KernelNext(c) ==
  /\ \/ Kernel(c) \/ IdleYield(c)
     \/ (Gpu(c) \/ Timer(c)) /\ Interrupt(c)
  /\ UNCHANGED <<queueVars, pc, tables, hardware, locals>>

IrqNext ==
  \/ \E c \in Cores :
       \/ KernelNext(c) \/ ManagerIsGiven(c) \/ CallerIsQueued(c)
       \/ ManagerNext(c)
       \/ \E t \in ToSet(IrqTasks) : IrqTaskNext(c, t)
       \/ \E t \in Users : ClaimInterrupt(c, t) \/ WaitForTheIrq(c, t)
       \/ \E t \in Clients \cup {Ticker} : ClientNext(c, t)
       \/ TickerRoutes(c) \/ TickerClears(c)
  \/ DeviceAsserts \/ TimerAsserts

-----------------------------------------------------------------------------
\* The tasks that are in a table, and the one that will look for them there.
Waiting ==
  {<<gpu_task[i], gpu_handler>> : i \in {j \in GpuIrqs : gpu_task[j] # None}}
    \cup {<<local_task[c], core_irq_task[c]>> : c \in {d \in Cores : local_task[d] # None}}

\* A core stops in one case only, however interrupts, claims and waits follow each
\* other on the cores: the timer's interrupt comes when the ticker has cleared the
\* last one but the manager has not entered it again.  Otherwise an interrupt
\* finds its core's task in WaitForInterrupt, only the core with the GPU's
\* interrupts gets one, and its task in the table; nobody waits for an interrupt
\* that has no task, and the tasks released are their releaser's to release.
NoCoreStops ==
  \A c \in Cores :
    step[c] = "panic" => c = timer_core /\ pc[Current(c)] = "no ticker"

\* A task in a table can be released by the one who finds it there, at any
\* moment from its entry on: it has been stopped, is in no list, is controlled by
\* that task, and will go on with interrupts disabled.  No task is in two.
EnteredTasksAreHeld ==
  /\ \A w \in Waiting :
       /\ Controls(w[2], w[1]) /\ irqsOff[w[1]]
       /\ Places(w[1]) = {<<"shared", "held">>} /\ InQueues(w[1]) = {}
  /\ \A i, j \in GpuIrqs : gpu_task[i] # None /\ gpu_task[i] = gpu_task[j] => i = j

\* The ticker waits in the table of the core that the timer interrupts, whichever
\* cores it executed on before it disabled interrupts.
TickerWhereTimerIs == \A c \in Cores : local_task[c] = Ticker => timer_core = c
===============================================================================

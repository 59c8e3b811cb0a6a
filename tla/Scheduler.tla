------------------------------ MODULE Scheduler ------------------------------
(***************************************************************************)
(* The OSTask scheduler (OSTask/ostask.c, ostask.h): which list every task *)
(* is in, and which core may touch it.                                     *)
(*                                                                         *)
(* A core keeps a circular list of tasks, workspace.ostask.running, whose  *)
(* head is the task it executes; its idle task never leaves that core.     *)
(* All other lists are shared by the cores and each operation on one is    *)
(* atomic (module MpSafeList shows why).  A SWI runs with interrupts off,  *)
(* so a core's own state changes in one step, but between two operations   *)
(* on shared lists other cores run: step[c] says where core c is, hand[c]  *)
(* holds the tasks it has taken from one list and not yet put in another.  *)
(***************************************************************************)
EXTENDS Naturals, FiniteSets, Functions, SequencesExt

CONSTANTS
  NumberOfCores,   \* shared.ostask.number_of_cores
  Tasks,           \* OSTask_free_pool
  None             \* the null pointer

ASSUME CoresAssumption == NumberOfCores \in Nat \ {0}
ASSUME TasksAssumption == IsFiniteSet(Tasks)
ASSUME NoneAssumption  == None \notin Tasks

Cores == 0 .. NumberOfCores - 1     \* workspace.core

\* What SwitchToCore lets through: its check is `core > number_of_cores'.
CoreNumbers == 0 .. NumberOfCores

VARIABLES
  \* Per core: workspace.ostask
  running,            \* circular list, head first
  idle,
  irq_task,           \* task in WaitForInterrupt
  interrupted_tasks,  \* list put aside until the interrupt tasks are done
  masked,             \* are interrupts disabled in the code being executed?
  step,               \* where the core is in the kernel, "usr" when outside
  hand,               \* tasks in no list, that the core is moving
  \* Shared: shared.ostask
  task_pool,          \* never given anything back
  runnable,
  moving,
  sleeping,
  \* Per task
  isRunning,          \* the task's running bit
  irqsOff,            \* I bit of the saved spsr
  r0,                 \* core number the task asked for, None when dead
  controller,         \* stack of controllers, latest first
  ended               \* left hanging by EndTask

coreVars   == <<running, idle, irq_task, interrupted_tasks, masked, step, hand>>
sharedVars == <<task_pool, runnable, moving, sleeping>>
taskVars   == <<isRunning, irqsOff, r0, controller, ended>>
vars       == <<coreVars, sharedVars, taskVars>>

\* Steps of a core: "off" before boot, "usr" executing the head of its list,
\* "panic" in PANIC's endless loop, the others inside a SWI.
Steps == {"off", "usr", "panic", "resume", "yield", "sleep", "switch",
          "release", "wake", "queue", "find moving", "find runnable"}

TypeOK ==
  /\ running \in [Cores -> Seq(Tasks)]
  /\ idle \in [Cores -> Tasks \cup {None}]
  /\ irq_task \in [Cores -> Tasks \cup {None}]
  /\ interrupted_tasks \in [Cores -> Seq(Tasks)]
  /\ masked \in [Cores -> BOOLEAN]
  /\ step \in [Cores -> Steps]
  /\ hand \in [Cores -> Seq(Tasks)]
  /\ task_pool \in Seq(Tasks)
  /\ runnable \in Seq(Tasks)
  /\ moving \in Seq(Tasks)
  /\ sleeping \in Seq(Tasks)
  /\ isRunning \in [Tasks -> BOOLEAN]
  /\ irqsOff \in [Tasks -> BOOLEAN]
  /\ r0 \in [Tasks -> CoreNumbers \cup {None}]
  /\ controller \in [Tasks -> Seq(Tasks)]
  /\ ended \in SUBSET Tasks

Init ==
  /\ running = [c \in Cores |-> <<>>]
  /\ idle = [c \in Cores |-> None]
  /\ irq_task = [c \in Cores |-> None]
  /\ interrupted_tasks = [c \in Cores |-> <<>>]
  /\ masked = [c \in Cores |-> TRUE]
  /\ step = [c \in Cores |-> "off"]
  /\ hand = [c \in Cores |-> <<>>]
  /\ task_pool \in SetToSeqs(Tasks)   \* any order
  /\ runnable = <<>>
  /\ moving = <<>>
  /\ sleeping = <<>>
  /\ isRunning = [t \in Tasks |-> FALSE]
  /\ irqsOff = [t \in Tasks |-> FALSE]
  /\ r0 = [t \in Tasks |-> None]
  /\ controller = [t \in Tasks |-> <<>>]
  /\ ended = {}

-----------------------------------------------------------------------------
\* The pieces the SWIs are made of.

Current(c) == Head(running[c])

\* The task core c executes, and which is not its idle task, makes a SWI.
Swi(c) == step[c] = "usr" /\ Current(c) # idle[c]

\* The circular list s with its second item as head.
Rotate(s) == Tail(s) \o <<Head(s)>>

\* The circular list s without its task t.
Detached(s, t) == RemoveAt(s, CHOOSE i \in DOMAIN s : s[i] = t)

GoTo(c, s) == step' = [step EXCEPT ![c] = s]

\* The running task's state is saved and the task detached: next is the head.
stop_running_task(c) ==
  /\ running' = [running EXCEPT ![c] = Tail(@)]
  /\ isRunning' = [isRunning EXCEPT ![Current(c)] = FALSE]
  /\ irqsOff' = [irqsOff EXCEPT ![Current(c)] = masked[c]]

\* The stop, with the task in the core's hand for the step s that follows.
StopFor(c, s) ==
  /\ stop_running_task(c)
  /\ GoTo(c, s)
  /\ hand' = [hand EXCEPT ![c] = <<Current(c)>>]

\* The loop that should shift a stack of controllers up is entered only with
\* two entries or more; with one, the new controller replaces it.
push_controller(stack, t) == IF stack = <<>> THEN <<t>> ELSE <<t>> \o Tail(stack)

pop_controller(stack) == IF stack = <<>> THEN <<>> ELSE Tail(stack)

\* PANIC: the core loops for ever, and keeps what it has.
Panic(c) ==
  /\ GoTo(c, "panic")
  /\ UNCHANGED <<running, idle, irq_task, interrupted_tasks, masked, hand,
                 sharedVars, taskVars>>

\* return_to_swi_caller: the head of the list executes, from its saved state.
Resume(c) ==
  /\ step[c] = "resume"
  /\ GoTo(c, "usr")
  /\ isRunning' = [isRunning EXCEPT ![Current(c)] = TRUE]
  /\ masked' = [masked EXCEPT ![c] = irqsOff[Current(c)]]
  /\ UNCHANGED <<running, idle, irq_task, interrupted_tasks, hand, sharedVars,
                 irqsOff, r0, controller, ended>>

-----------------------------------------------------------------------------
\* Boot.

\* The first core in sets up the pools and runs startup() beside its idle task.
BootFirst(c) ==
  /\ \A d \in Cores : step[d] = "off"
  /\ Len(task_pool) > 1
  /\ task_pool' = SubSeq(task_pool, 3, Len(task_pool))
  /\ running' = [running EXCEPT ![c] = SubSeq(task_pool, 1, 2)]
  /\ idle' = [idle EXCEPT ![c] = task_pool[2]]
  /\ isRunning' = [isRunning EXCEPT ![task_pool[1]] = TRUE]
  /\ masked' = [masked EXCEPT ![c] = FALSE]
  /\ GoTo(c, "usr")
  /\ UNCHANGED <<irq_task, interrupted_tasks, hand, runnable, moving, sleeping,
                 irqsOff, r0, controller, ended>>

\* The code that boots any other core becomes that core's idle task.
BootOther(c) ==
  /\ step[c] = "off"
  /\ \E d \in Cores : step[d] # "off"
  /\ task_pool # <<>>
  /\ task_pool' = Tail(task_pool)
  /\ running' = [running EXCEPT ![c] = <<Head(task_pool)>>]
  /\ idle' = [idle EXCEPT ![c] = Head(task_pool)]
  /\ isRunning' = [isRunning EXCEPT ![Head(task_pool)] = TRUE]
  /\ masked' = [masked EXCEPT ![c] = FALSE]
  /\ GoTo(c, "usr")
  /\ UNCHANGED <<irq_task, interrupted_tasks, hand, runnable, moving, sleeping,
                 irqsOff, r0, controller, ended>>

-----------------------------------------------------------------------------
\* SWIs of ordinary tasks.

\* TaskOpYield, and TaskOpSleep with a zero time.
Yield(c) ==
  /\ Swi(c)
  /\ StopFor(c, "yield")
  /\ UNCHANGED <<idle, irq_task, interrupted_tasks, masked, sharedVars,
                 r0, controller, ended>>

YieldInsert(c) ==
  /\ step[c] = "yield"
  /\ runnable' = runnable \o hand[c]
  /\ hand' = [hand EXCEPT ![c] = <<>>]
  /\ GoTo(c, "resume")
  /\ UNCHANGED <<running, idle, irq_task, interrupted_tasks, masked,
                 task_pool, moving, sleeping, taskVars>>

Sleep(c) ==
  /\ Swi(c)
  /\ StopFor(c, "sleep")
  /\ UNCHANGED <<idle, irq_task, interrupted_tasks, masked, sharedVars,
                 r0, controller, ended>>

\* sleeping_tasks_add: the times, left out here, decide the place.
SleepInsert(c) ==
  /\ step[c] = "sleep"
  /\ \E i \in 1 .. Len(sleeping) + 1 :
       sleeping' = InsertAt(sleeping, i, Head(hand[c]))
  /\ hand' = [hand EXCEPT ![c] = <<>>]
  /\ GoTo(c, "resume")
  /\ UNCHANGED <<running, idle, irq_task, interrupted_tasks, masked,
                 task_pool, runnable, moving, taskVars>>

\* TaskOpSwitchToCore, to another core (to the same one it does nothing).
SwitchToCore(c) ==
  /\ Swi(c)
  /\ StopFor(c, "switch")
  /\ \E core \in CoreNumbers \ {c} : r0' = [r0 EXCEPT ![Current(c)] = core]
  /\ UNCHANGED <<idle, irq_task, interrupted_tasks, masked, sharedVars,
                 controller, ended>>

\* Mutant: last come, first served.
SwitchInsertAtHead(c) ==
  /\ step[c] = "switch"
  /\ moving' = hand[c] \o moving
  /\ hand' = [hand EXCEPT ![c] = <<>>]
  /\ GoTo(c, "resume")
  /\ UNCHANGED <<running, idle, irq_task, interrupted_tasks, masked,
                 task_pool, runnable, sleeping, taskVars>>

SwitchInsert(c) ==
  /\ step[c] = "switch"
  /\ moving' = moving \o hand[c]
  /\ hand' = [hand EXCEPT ![c] = <<>>]
  /\ GoTo(c, "resume")
  /\ UNCHANGED <<running, idle, irq_task, interrupted_tasks, masked,
                 task_pool, runnable, sleeping, taskVars>>

\* TaskOpEndTask: the task is in no list any more, and not in the pool either.
EndTask(c) ==
  /\ Swi(c)
  /\ stop_running_task(c)
  /\ ended' = ended \cup {Current(c)}
  /\ GoTo(c, "resume")
  /\ UNCHANGED <<idle, irq_task, interrupted_tasks, masked, hand, sharedVars,
                 r0, controller>>

\* TaskOpCreate, from a pool that is not empty; the new task is in no list.
Create(c) ==
  /\ Swi(c)
  /\ task_pool # <<>>
  /\ task_pool' = Tail(task_pool)
  /\ controller' = [controller EXCEPT
       ![Head(task_pool)] = push_controller(<<>>, Current(c))]
  /\ irqsOff' = [irqsOff EXCEPT ![Head(task_pool)] = FALSE]
  /\ UNCHANGED <<coreVars, runnable, moving, sleeping, isRunning, r0, ended>>

Controls(t, held) == controller[held] # <<>> /\ Head(controller[held]) = t

\* Mutant: the task always stays on this core.
ReleaseTaskHere(c) ==
  /\ Swi(c)
  /\ \E t \in Tasks, off \in BOOLEAN :
       /\ Controls(Current(c), t)
       /\ controller' = [controller EXCEPT ![t] = pop_controller(@)]
       /\ irqsOff' = [irqsOff EXCEPT ![t] = off]
       /\ running' = [running EXCEPT ![c] = InsertAt(@, 2, t)]
  /\ UNCHANGED <<idle, irq_task, interrupted_tasks, masked, step, hand,
                 sharedVars, isRunning, r0, ended>>

\* TaskOpReleaseTask: off is the I bit of the context given, or of the saved
\* one.  A task with interrupts off stays on this core, right behind the caller.
ReleaseTask(c) ==
  /\ Swi(c)
  /\ \E t \in Tasks, off \in BOOLEAN :
       /\ Controls(Current(c), t)
       /\ controller' = [controller EXCEPT ![t] = pop_controller(@)]
       /\ irqsOff' = [irqsOff EXCEPT ![t] = off]
       /\ IF off
          THEN /\ running' = [running EXCEPT ![c] = InsertAt(@, 2, t)]
               /\ UNCHANGED <<step, hand>>
          ELSE /\ hand' = [hand EXCEPT ![c] = <<t>>]
               /\ GoTo(c, "release")
               /\ UNCHANGED running
  /\ UNCHANGED <<idle, irq_task, interrupted_tasks, masked, sharedVars,
                 isRunning, r0, ended>>

ReleaseInsert(c) ==
  /\ step[c] = "release"
  /\ runnable' = runnable \o hand[c]
  /\ hand' = [hand EXCEPT ![c] = <<>>]
  /\ GoTo(c, "usr")
  /\ UNCHANGED <<running, idle, irq_task, interrupted_tasks, masked,
                 task_pool, moving, sleeping, taskVars>>

\* TaskOpChangeController, to any task there is.
ChangeController(c) ==
  /\ Swi(c)
  /\ \E held \in Tasks, new \in Tasks \ ToSet(task_pool) :
       /\ Controls(Current(c), held)
       /\ controller' = [controller EXCEPT ![held] = <<new>> \o Tail(@)]
  /\ UNCHANGED <<coreVars, sharedVars, isRunning, irqsOff, r0, ended>>

\* A SWI that breaks a rule: TaskOpCreate with an empty pool, ReleaseTask or
\* ChangeController of another's task, SwitchToCore past the last number,
\* WaitForInterrupt with interrupts enabled or when a task waits already.
SwiPanics(c) == Swi(c) /\ Panic(c)

-----------------------------------------------------------------------------
\* Interrupt tasks.

EnablingInterrupts(c) ==
  /\ Swi(c)
  /\ masked' = [masked EXCEPT ![c] = TRUE]
  /\ UNCHANGED <<running, idle, irq_task, interrupted_tasks, step, hand,
                 sharedVars, taskVars>>

WaitForInterrupt(c) ==
  /\ Swi(c)
  /\ masked[c]
  /\ irq_task[c] = None
  /\ stop_running_task(c)
  /\ irq_task' = [irq_task EXCEPT ![c] = Current(c)]
  /\ GoTo(c, "resume")
  /\ UNCHANGED <<idle, interrupted_tasks, masked, hand, sharedVars,
                 r0, controller, ended>>

\* Mutant: the idle task is put aside as well.
irq_handlerNoIdle(c) ==
  /\ step[c] = "usr"
  /\ ~masked[c]
  /\ interrupted_tasks[c] = <<>>
  /\ irq_task[c] # None
  /\ isRunning' = [isRunning EXCEPT ![Current(c)] = FALSE]
  /\ interrupted_tasks' = [interrupted_tasks EXCEPT ![c] = running[c]]
  /\ irqsOff' = [irqsOff EXCEPT ![Current(c)] = masked[c]]
  /\ running' = [running EXCEPT ![c] = <<irq_task[c]>>]
  /\ irq_task' = [irq_task EXCEPT ![c] = None]
  /\ GoTo(c, "resume")
  /\ UNCHANGED <<idle, masked, hand, sharedVars, r0, controller, ended>>

\* irq_handler, out of user mode: the tasks on the core are put aside, but for
\* the idle task, which will run with interrupts off until they are back.
irq_handler(c) ==
  LET interrupted == Current(c)
      saved == [irqsOff EXCEPT ![interrupted] = masked[c]]
  IN
  /\ step[c] = "usr"
  /\ ~masked[c]
  /\ interrupted_tasks[c] = <<>>
  /\ irq_task[c] # None
  /\ isRunning' = [isRunning EXCEPT ![interrupted] = FALSE]
  /\ interrupted_tasks' = [interrupted_tasks EXCEPT
       ![c] = IF Len(running[c]) > 1 THEN Detached(running[c], idle[c]) ELSE @]
  /\ irqsOff' = [saved EXCEPT ![idle[c]] = TRUE]
  /\ running' = [running EXCEPT ![c] = <<irq_task[c], idle[c]>>]
  /\ irq_task' = [irq_task EXCEPT ![c] = None]
  /\ GoTo(c, "resume")
  /\ UNCHANGED <<idle, masked, hand, sharedVars, r0, controller, ended>>

\* An interrupt with tasks put aside already, or with no task waiting for it.
IrqFails(c) ==
  /\ step[c] = "usr"
  /\ ~masked[c]
  /\ interrupted_tasks[c] # <<>> \/ irq_task[c] = None
  /\ Panic(c)

\* OSTask_Tick: a head of the sleeping list is detached...
Tick(c) ==
  /\ Swi(c)
  /\ \E n \in 1 .. Len(sleeping) :
       /\ hand' = [hand EXCEPT ![c] = SubSeq(sleeping, 1, n)]
       /\ sleeping' = SubSeq(sleeping, n + 1, Len(sleeping))
  /\ GoTo(c, "wake")
  /\ UNCHANGED <<running, idle, irq_task, interrupted_tasks, masked,
                 task_pool, runnable, moving, taskVars>>

\* ... and then put, whole, at the tail of the runnable list.
TickInsert(c) ==
  /\ step[c] = "wake"
  /\ runnable' = runnable \o hand[c]
  /\ hand' = [hand EXCEPT ![c] = <<>>]
  /\ GoTo(c, "usr")
  /\ UNCHANGED <<running, idle, irq_task, interrupted_tasks, masked,
                 task_pool, moving, sleeping, taskVars>>

-----------------------------------------------------------------------------
\* The idle task yields (IdleTaskYield).

IdleYields(c) == step[c] = "usr" /\ Current(c) = idle[c]
Alone(c) == Len(running[c]) = 1

\* Mutant: the idle task's running flag is not cleared.
IdleToNextStillRunning(c) ==
  /\ IdleYields(c)
  /\ ~Alone(c)
  /\ running' = [running EXCEPT ![c] = Rotate(@)]
  /\ GoTo(c, "resume")
  /\ UNCHANGED <<idle, irq_task, interrupted_tasks, masked, hand, sharedVars,
                 taskVars>>

\* Another task is in the core's list: it goes first.  Nothing is saved.
IdleToNext(c) ==
  /\ IdleYields(c)
  /\ ~Alone(c)
  /\ running' = [running EXCEPT ![c] = Rotate(@)]
  /\ isRunning' = [isRunning EXCEPT ![idle[c]] = FALSE]
  /\ GoTo(c, "resume")
  /\ UNCHANGED <<idle, irq_task, interrupted_tasks, masked, hand, sharedVars,
                 irqsOff, r0, controller, ended>>

\* Mutant: interrupted_tasks is not reset.
IdleEndsInterruptNoReset(c) ==
  /\ IdleYields(c)
  /\ Alone(c)
  /\ masked[c]
  /\ masked' = [masked EXCEPT ![c] = FALSE]
  /\ interrupted_tasks[c] # <<>>
  /\ running' = [running EXCEPT
       ![c] = <<idle[c]>> \o Rotate(interrupted_tasks[c])]
  /\ UNCHANGED <<idle, irq_task, interrupted_tasks, step, hand, sharedVars,
                 taskVars>>

\* Mutant: the tasks put aside are forgotten.
IdleForgetsInterrupted(c) ==
  /\ IdleYields(c)
  /\ Alone(c)
  /\ masked[c]
  /\ masked' = [masked EXCEPT ![c] = FALSE]
  /\ UNCHANGED <<running, idle, irq_task, interrupted_tasks, step, hand,
                 sharedVars, taskVars>>

\* Mutant: interrupts are enabled for all tasks put aside as well.
IdleEnablesAll(c) ==
  /\ IdleYields(c)
  /\ Alone(c)
  /\ masked[c]
  /\ masked' = [masked EXCEPT ![c] = FALSE]
  /\ interrupted_tasks[c] # <<>>
  /\ running' = [running EXCEPT
       ![c] = <<idle[c]>> \o Rotate(interrupted_tasks[c])]
  /\ interrupted_tasks' = [interrupted_tasks EXCEPT ![c] = <<>>]
  /\ irqsOff' = [t \in Tasks |->
                   irqsOff[t] /\ t \notin ToSet(interrupted_tasks[c])]
  /\ UNCHANGED <<idle, irq_task, step, hand, sharedVars, isRunning, r0,
                 controller, ended>>

\* The interrupt tasks are done: the tasks put aside are back behind the idle
\* task, the interrupted one last, and interrupts are enabled.
IdleEndsInterrupt(c) ==
  /\ IdleYields(c)
  /\ Alone(c)
  /\ masked[c]
  /\ masked' = [masked EXCEPT ![c] = FALSE]
  /\ IF interrupted_tasks[c] # <<>>
     THEN /\ running' = [running EXCEPT
                 ![c] = <<idle[c]>> \o Rotate(interrupted_tasks[c])]
          /\ interrupted_tasks' = [interrupted_tasks EXCEPT ![c] = <<>>]
     ELSE UNCHANGED <<running, interrupted_tasks>>
  /\ UNCHANGED <<idle, irq_task, step, hand, sharedVars, taskVars>>

\* Nothing to run on this core: save the idle task's state and look around.
IdleLooks(c) ==
  /\ IdleYields(c)
  /\ Alone(c)
  /\ ~masked[c]
  /\ isRunning' = [isRunning EXCEPT ![idle[c]] = FALSE]
  /\ irqsOff' = [irqsOff EXCEPT ![idle[c]] = FALSE]
  /\ GoTo(c, "find moving")
  /\ UNCHANGED <<running, idle, irq_task, interrupted_tasks, masked, hand,
                 sharedVars, r0, controller, ended>>

\* Mutant: the first task, whatever core it asks for.
FirstForAny(c) == {i \in DOMAIN moving : i = 1}

\* for_core: the first task that asks for this core.
FirstFor(c) == {i \in DOMAIN moving :
                  /\ r0[moving[i]] = c
                  /\ \A j \in 1 .. i - 1 : r0[moving[j]] # c}

\* find_task_for_this_core.
FindMoving(c) ==
  /\ step[c] = "find moving"
  /\ IF FirstFor(c) = {}
     THEN /\ GoTo(c, "find runnable")
          /\ UNCHANGED <<running, moving, r0>>
     ELSE \E i \in FirstFor(c) :
            /\ moving' = RemoveAt(moving, i)
            /\ running' = [running EXCEPT ![c] = <<moving[i]>> \o @]
            /\ r0' = [r0 EXCEPT ![moving[i]] = None]
            /\ GoTo(c, "resume")
  /\ UNCHANGED <<idle, irq_task, interrupted_tasks, masked, hand, task_pool,
                 runnable, sleeping, isRunning, irqsOff, controller, ended>>

\* The head of the runnable list, or the idle task again.
FindRunnable(c) ==
  /\ step[c] = "find runnable"
  /\ IF runnable # <<>>
     THEN /\ running' = [running EXCEPT ![c] = <<Head(runnable)>> \o @]
          /\ runnable' = Tail(runnable)
          /\ GoTo(c, "resume")
          /\ UNCHANGED isRunning
     ELSE /\ isRunning' = [isRunning EXCEPT ![idle[c]] = TRUE]
          /\ GoTo(c, "usr")
          /\ UNCHANGED <<running, runnable>>
  /\ UNCHANGED <<idle, irq_task, interrupted_tasks, masked, hand, task_pool,
                 moving, sleeping, irqsOff, r0, controller, ended>>

-----------------------------------------------------------------------------
\* Every core in PANIC's loop, or with no task left to boot with: the end.
Stopped ==
  /\ \A c \in Cores : step[c] = "panic" \/ (step[c] = "off" /\ task_pool = <<>>)
  /\ UNCHANGED vars

Boot(c) == BootFirst(c) \/ BootOther(c)

OrdinarySwi(c) ==
  \/ Yield(c) \/ Sleep(c) \/ SwitchToCore(c) \/ EndTask(c)
  \/ Create(c) \/ ReleaseTask(c) \/ ChangeController(c) \/ SwiPanics(c)

InterruptSwi(c) == EnablingInterrupts(c) \/ WaitForInterrupt(c) \/ Tick(c)

Interrupt(c) == irq_handler(c) \/ IrqFails(c)

IdleYield(c) == IdleToNext(c) \/ IdleEndsInterrupt(c) \/ IdleLooks(c)

\* A SWI already begun: it ends without waiting for anything.
Kernel(c) ==
  \/ YieldInsert(c) \/ SleepInsert(c) \/ SwitchInsert(c) \/ ReleaseInsert(c)
  \/ TickInsert(c) \/ FindMoving(c) \/ FindRunnable(c) \/ Resume(c)

Next ==
  \/ \E c \in Cores :
       Boot(c) \/ OrdinarySwi(c) \/ InterruptSwi(c) \/ Interrupt(c)
         \/ IdleYield(c) \/ Kernel(c)
  \/ Stopped

Spec == Init /\ [][Next]_vars

\* The task that core c executes gives it up.
GivesUp(c) ==
  Yield(c) \/ Sleep(c) \/ SwitchToCore(c) \/ EndTask(c) \/ WaitForInterrupt(c)

\* The kernel never waits for anything, every core boots and the idle task only
\* yields.  Of the tasks it is assumed that none computes for ever, in spite of
\* the interrupts or with interrupts disabled (nothing but itself makes a task
\* give up its core); of the interrupts, that one does not always come between
\* the idle task's execution and its next yield.
Fairness ==
  \A c \in Cores :
    /\ WF_vars(Boot(c)) /\ WF_vars(Kernel(c)) /\ WF_vars(IdleYield(c))
    /\ SF_vars(IdleYield(c) /\ ~masked[c])
    /\ SF_vars(GivesUp(c) /\ ~masked[c])
    /\ SF_vars(GivesUp(c) /\ masked[c])

-----------------------------------------------------------------------------
\* Properties.

Holders(f, t) == {c \in Cores : t \in ToSet(f[c])}

SharedLists == [pool |-> ToSet(task_pool), runnable |-> ToSet(runnable),
                moving |-> ToSet(moving), sleeping |-> ToSet(sleeping),
                ended |-> ended, held |-> {t \in Tasks : controller[t] # <<>>}]

\* Everywhere a task is.
Places(t) ==
  ({"running"} \X Holders(running, t))
    \cup ({"interrupted"} \X Holders(interrupted_tasks, t))
    \cup ({"hand"} \X Holders(hand, t))
    \cup ({"interrupt task"} \X {c \in Cores : irq_task[c] = t})
    \cup ({"shared"} \X {l \in DOMAIN SharedLists : t \in SharedLists[l]})

\* Every task is in exactly one place, and once: on a list of one core, on a
\* shared list, in the hands of a core between two, held by a controller, ended
\* or in the pool.  Two places would let two cores execute it (the lists are
\* intrusive: next and prev would be overwritten), none would lose it.
OnePlace ==
  /\ \A t \in Tasks : Cardinality(Places(t)) = 1
  /\ \A c \in Cores : /\ IsInjective(running[c])
                       /\ IsInjective(interrupted_tasks[c])
                       /\ IsInjective(hand[c])
  /\ IsInjective(runnable) /\ IsInjective(moving) /\ IsInjective(sleeping)

\* The running bit is set exactly in the tasks that execute: the PANICs of
\* save_task_state and the asserts of IdleTaskYield never fail.
RunningBit ==
  \A t \in Tasks :
    isRunning[t] <=> \E c \in Cores :
      step[c] \in {"usr", "release", "wake", "panic"} /\ Current(c) = t

\* The idle task never leaves its core, where it is either executing or last
\* in the list.  So no list a SWI leaves behind is empty: there is always a
\* task to return to.
IdleStays ==
  \A c \in Cores : step[c] # "off" =>
    \/ running[c] # <<>> /\ Current(c) = idle[c]
    \/ running[c] # <<>> /\ Last(running[c]) = idle[c]

\* While tasks are put aside for an interrupt, all that can run on the core
\* has interrupts disabled: the assert of irq_handler, that nothing is put
\* aside yet, cannot fail.
NothingPutAsideTwice ==
  \A c \in Cores :
    (step[c] = "usr" /\ ~masked[c]) => interrupted_tasks[c] = <<>>

\* A task that asked for a core is next executed by that core, whatever
\* happens in between.
AskedForCore ==
  [][\A c \in Cores : \A t \in ToSet(running'[c]) \ ToSet(running[c]) :
       r0[t] # None => r0[t] = c]_vars

\* "The task being scheduled is always saved": once off its core, neither the
\* interrupt bit a task is saved with nor its running bit changes until a core
\* has taken it to its own list again.
SavedStateKept ==
  [][\A t \in ToSet(runnable) \cup ToSet(moving) \cup ToSet(sleeping)
               \cup UNION {ToSet(interrupted_tasks[c]) : c \in Cores} :
       irqsOff'[t] = irqsOff[t] /\ isRunning'[t] = isRunning[t]]_vars

\* A task that asked for a core gets there, however many other tasks ask for it
\* and are runnable, unless that core was never booted, or panics.
MovingTaskArrives ==
  \A t \in Tasks :
    (t \in ToSet(moving) /\ r0[t] \in Cores)
      ~> \E c \in Cores : t \in ToSet(running[c]) \/ step[c] \in {"off", "panic"}

\* The tasks put aside for an interrupt come back, unless the core panics.
PutAsideComeBack ==
  \A c \in Cores :
    interrupted_tasks[c] # <<>> ~> (interrupted_tasks[c] = <<>> \/ step[c] = "panic")

=============================================================================

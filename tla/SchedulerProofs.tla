--------------------------- MODULE SchedulerProofs ----------------------------
(***************************************************************************)
(* The scheduler, for any number of cores and tasks: there is always a     *)
(* task to return to, because the idle task never leaves its core; every   *)
(* task is in one place, and what follows from it.                         *)
(***************************************************************************)
EXTENDS Scheduler, ListLemmas

\* A booted core has an idle task, which executes or is last in its list.
IdleIsThere(c) ==
  step[c] # "off" =>
    /\ idle[c] \in Tasks
    /\ running[c] # <<>>
    /\ Current(c) = idle[c] \/ Last(running[c]) = idle[c]

\* A core only looks for tasks when it has none but its idle task.
LooksAlone(c) ==
  step[c] \in {"find moving", "find runnable"} => running[c] = <<idle[c]>>

\* TaskOpSleep has a task to put to sleep.
HasSleeper(c) == step[c] = "sleep" => hand[c] # <<>>

CoreInv(c) == IdleIsThere(c) /\ LooksAlone(c) /\ HasSleeper(c)

\* The inductive invariant.
IInv == TypeOK /\ \A c \in Cores : CoreInv(c)

\* Before any core is booted IInv holds.
LEMMA InitIInv == Init => IInv
<1> SUFFICES ASSUME Init PROVE IInv
  OBVIOUS
<1>1. task_pool \in Seq(Tasks)
  BY TasksAssumption, OrdersAreSequences DEF Init
<1>2. TypeOK
  BY <1>1 DEF Init, TypeOK, Steps
<1> QED BY <1>2 DEF Init, IInv, CoreInv, IdleIsThere, LooksAlone, HasSleeper

\* What a step of core c must keep of the other cores: their own state.
LEMMA OthersKeep ==
  ASSUME IInv, NEW c \in Cores, TypeOK', CoreInv(c)',
         \A d \in Cores \ {c} : /\ running'[d] = running[d] /\ idle'[d] = idle[d]
                                /\ step'[d] = step[d] /\ hand'[d] = hand[d]
  PROVE  IInv'
  BY DEF IInv, CoreInv, IdleIsThere, LooksAlone, HasSleeper, Current

\* The task that executes, and what it leaves behind if it is not the idle one.
LEMMA SwiType ==
  ASSUME IInv, NEW c \in Cores, Swi(c)
  PROVE  /\ Current(c) \in Tasks /\ idle[c] \in Tasks
         /\ running[c] \in Seq(Tasks) /\ running[c] # <<>>
         /\ Last(running[c]) = idle[c] /\ 2 <= Len(running[c])
         /\ Tail(running[c]) \in Seq(Tasks) /\ Tail(running[c]) # <<>>
         /\ Last(Tail(running[c])) = idle[c]
<1>1. /\ running[c] \in Seq(Tasks) /\ running[c] # <<>>
      /\ idle[c] \in Tasks /\ Last(running[c]) = idle[c] /\ Current(c) # idle[c]
  BY DEF IInv, TypeOK, CoreInv, IdleIsThere, Swi
<1>2. /\ Tail(running[c]) \in Seq(Tasks) /\ Tail(running[c]) # <<>>
      /\ Last(Tail(running[c])) = idle[c]
  BY <1>1, LastOfTail DEF Current
<1>3. Current(c) \in Tasks
  BY <1>1, HeadTailProperties DEF Current
<1>4. 2 <= Len(running[c])
  <2> DEFINE n == Len(running[c])
  <2>1. n \in Nat /\ n # 0
    BY <1>1, LenProperties, EmptySeq
  <2>2. Len(Tail(running[c])) = n - 1
    BY <1>1, HeadTailProperties
  <2>3. Len(Tail(running[c])) # 0
    BY <1>2, EmptySeq
  <2>4. n - 1 # 0
    BY <2>2, <2>3
  <2> HIDE DEF n
  <2>5. 2 <= n
    BY <2>1, <2>4
  <2> QED BY <2>5 DEF n
<1> QED BY <1>1, <1>2, <1>3, <1>4

-----------------------------------------------------------------------------
\* SWIs that stop the running task.
LEMMA StopIInv ==
  ASSUME IInv, NEW c \in Cores,
         Yield(c) \/ Sleep(c) \/ SwitchToCore(c) \/ EndTask(c) \/ WaitForInterrupt(c)
  PROVE  IInv'
<1>1. Swi(c)
  BY DEF Yield, Sleep, SwitchToCore, EndTask, WaitForInterrupt
<1>2. /\ running' = [running EXCEPT ![c] = Tail(running[c])]
      /\ isRunning' = [isRunning EXCEPT ![Current(c)] = FALSE]
      /\ irqsOff' = [irqsOff EXCEPT ![Current(c)] = masked[c]]
      /\ idle' = idle
      /\ UNCHANGED <<interrupted_tasks, masked, sharedVars, controller>>
  BY DEF Yield, Sleep, SwitchToCore, EndTask, WaitForInterrupt, StopFor,
         stop_running_task, Current
<1>3. /\ step' \in [Cores -> Steps]
      /\ step'[c] \in {"yield", "sleep", "switch", "resume"}
      /\ \A d \in Cores \ {c} : step'[d] = step[d]
  BY DEF IInv, TypeOK, Yield, Sleep, SwitchToCore, EndTask, WaitForInterrupt,
         StopFor, GoTo, Steps
<1>4. /\ hand' \in [Cores -> Seq(Tasks)]
      /\ step'[c] = "sleep" => hand'[c] # <<>>
      /\ \A d \in Cores \ {c} : hand'[d] = hand[d]
  <2>1. <<Current(c)>> \in Seq(Tasks) /\ <<Current(c)>> # <<>>
    BY <1>1, SwiType
  <2>2. CASE hand' = [hand EXCEPT ![c] = <<Current(c)>>]
    BY <2>1, <2>2 DEF IInv, TypeOK
  <2>3. CASE step'[c] = "resume" /\ hand' = hand
    BY <2>3 DEF IInv, TypeOK
  <2>4. (EndTask(c) \/ WaitForInterrupt(c)) => step'[c] = "resume" /\ hand' = hand
    BY DEF IInv, TypeOK, EndTask, WaitForInterrupt, GoTo
  <2> QED
    BY <2>2, <2>3, <2>4 DEF Yield, Sleep, SwitchToCore, StopFor
<1>5. /\ irq_task' \in [Cores -> Tasks \cup {None}]
      /\ r0' \in [Tasks -> CoreNumbers \cup {None}]
      /\ ended' \in SUBSET Tasks
  <2>1. Current(c) \in Tasks
    BY <1>1, SwiType
  <2> QED
    BY <2>1 DEF IInv, TypeOK, Yield, Sleep, SwitchToCore, EndTask, WaitForInterrupt
<1>6. TypeOK'
  BY <1>1, <1>2, <1>3, <1>4, <1>5, SwiType DEF IInv, TypeOK, sharedVars
<1>7. CoreInv(c)'
  BY <1>1, <1>2, <1>3, <1>4, SwiType
     DEF IInv, TypeOK, CoreInv, IdleIsThere, LooksAlone, HasSleeper, Current
<1> QED BY <1>2, <1>3, <1>4, <1>6, <1>7, OthersKeep DEF IInv, TypeOK

\* The rest of such a SWI, and of ReleaseTask and Tick: what is in the core's
\* hand goes to a shared list.
LEMMA InsertIInv ==
  ASSUME IInv, NEW c \in Cores,
         \/ YieldInsert(c) \/ SleepInsert(c) \/ SwitchInsert(c)
         \/ ReleaseInsert(c) \/ TickInsert(c)
  PROVE  IInv'
<1>1. /\ hand' = [hand EXCEPT ![c] = <<>>]
      /\ step[c] # "off"
      /\ step' \in [Cores -> Steps] /\ step'[c] \in {"usr", "resume"}
      /\ \A d \in Cores \ {c} : step'[d] = step[d]
      /\ UNCHANGED <<running, idle, irq_task, interrupted_tasks, masked,
                     task_pool, taskVars>>
  BY DEF IInv, TypeOK, Steps, GoTo, YieldInsert, SleepInsert, SwitchInsert,
         ReleaseInsert, TickInsert
<1>2. /\ hand[c] \in Seq(Tasks)
      /\ runnable \in Seq(Tasks) /\ moving \in Seq(Tasks) /\ sleeping \in Seq(Tasks)
  BY DEF IInv, TypeOK
<1>3. runnable \o hand[c] \in Seq(Tasks) /\ moving \o hand[c] \in Seq(Tasks)
  BY <1>2, Joined
<1>4. step[c] = "sleep" => \A i \in 1 .. Len(sleeping) + 1 :
        InsertAt(sleeping, i, Head(hand[c])) \in Seq(Tasks)
  <2> SUFFICES ASSUME step[c] = "sleep", NEW i \in 1 .. Len(sleeping) + 1
               PROVE  InsertAt(sleeping, i, Head(hand[c])) \in Seq(Tasks)
    OBVIOUS
  <2>1. hand[c] # <<>>
    BY DEF IInv, CoreInv, HasSleeper
  <2>2. Head(hand[c]) \in Tasks
    BY <1>2, <2>1, HeadTailProperties
  <2> QED BY <1>2, <2>2, Inserted
<1>5. runnable' \in Seq(Tasks) /\ moving' \in Seq(Tasks) /\ sleeping' \in Seq(Tasks)
  BY <1>2, <1>3, <1>4 DEF YieldInsert, SleepInsert, SwitchInsert, ReleaseInsert, TickInsert
<1>6. TypeOK'
  BY <1>1, <1>5 DEF IInv, TypeOK, taskVars
<1>7. CoreInv(c)'
  BY <1>1 DEF IInv, TypeOK, CoreInv, IdleIsThere, LooksAlone, HasSleeper, Current
<1> QED BY <1>1, <1>6, <1>7, OthersKeep DEF IInv, TypeOK

-----------------------------------------------------------------------------
\* SWIs after which the running task goes on.
LEMMA ReleaseIInv == ASSUME IInv, NEW c \in Cores, ReleaseTask(c) PROVE IInv'
<1>1. Swi(c)
  BY DEF ReleaseTask
<1>2. PICK t \in Tasks, off \in BOOLEAN :
        /\ Controls(Current(c), t)
        /\ controller' = [controller EXCEPT ![t] = pop_controller(@)]
        /\ irqsOff' = [irqsOff EXCEPT ![t] = off]
        /\ IF off
           THEN /\ running' = [running EXCEPT ![c] = InsertAt(@, 2, t)]
                /\ UNCHANGED <<step, hand>>
           ELSE /\ hand' = [hand EXCEPT ![c] = <<t>>]
                /\ GoTo(c, "release")
                /\ UNCHANGED running
  BY DEF ReleaseTask
<1>3. UNCHANGED <<idle, irq_task, interrupted_tasks, masked, sharedVars,
                  isRunning, r0, ended>>
  BY DEF ReleaseTask
<1>4. pop_controller(controller[t]) \in Seq(Tasks)
  <2>1. controller[t] \in Seq(Tasks)
    BY DEF IInv, TypeOK
  <2>2. controller[t] # <<>> => Tail(controller[t]) \in Seq(Tasks)
    BY <2>1, HeadTailProperties
  <2> QED BY <2>2 DEF pop_controller
<1>5. controller' \in [Tasks -> Seq(Tasks)] /\ irqsOff' \in [Tasks -> BOOLEAN]
  BY <1>2, <1>4 DEF IInv, TypeOK
<1>6. CASE off
  <2>1. /\ InsertAt(running[c], 2, t) \in Seq(Tasks) /\ InsertAt(running[c], 2, t) # <<>>
        /\ Last(InsertAt(running[c], 2, t)) = idle[c]
    <3>1. /\ running[c] \in Seq(Tasks) /\ 2 <= Len(running[c])
          /\ Last(running[c]) = idle[c]
      BY <1>1, SwiType
    <3>2. 2 \in 1 .. Len(running[c]) + 1
      BY <3>1, LenProperties
    <3> QED BY <3>1, <3>2, Inserted
  <2>2. /\ running' = [running EXCEPT ![c] = InsertAt(running[c], 2, t)]
        /\ UNCHANGED <<step, hand>>
    BY <1>2, <1>6
  <2>3. TypeOK'
    BY <1>3, <1>5, <2>1, <2>2 DEF IInv, TypeOK, sharedVars
  <2>4. CoreInv(c)'
    BY <1>1, <1>3, <2>1, <2>2
       DEF IInv, TypeOK, CoreInv, IdleIsThere, LooksAlone, HasSleeper, Current, Swi
  <2> QED BY <1>3, <2>2, <2>3, <2>4, OthersKeep DEF IInv, TypeOK
<1>7. CASE ~off
  <2>1. /\ hand' = [hand EXCEPT ![c] = <<t>>] /\ step' = [step EXCEPT ![c] = "release"]
        /\ UNCHANGED running
    BY <1>2, <1>7 DEF GoTo
  <2>2. TypeOK'
    <3>1. <<t>> \in Seq(Tasks)
      OBVIOUS
    <3>2. hand' \in [Cores -> Seq(Tasks)] /\ step' \in [Cores -> Steps]
      BY <2>1, <3>1 DEF IInv, TypeOK, Steps
    <3> QED BY <1>3, <1>5, <2>1, <3>2 DEF IInv, TypeOK, sharedVars
  <2>3. CoreInv(c)'
    BY <1>1, <1>3, <2>1
       DEF IInv, TypeOK, CoreInv, IdleIsThere, LooksAlone, HasSleeper, Current, Swi
  <2> QED BY <1>3, <2>1, <2>2, <2>3, OthersKeep DEF IInv, TypeOK
<1> QED BY <1>6, <1>7

\* ChangeController and Create touch no core's list.
LEMMA ControllerIInv ==
  ASSUME IInv, NEW c \in Cores, Create(c) \/ ChangeController(c)
  PROVE  IInv'
<1>1. Swi(c) /\ Current(c) \in Tasks
  BY SwiType DEF Create, ChangeController
<1>2. UNCHANGED <<coreVars, runnable, moving, sleeping, isRunning, r0, ended>>
  BY DEF Create, ChangeController, sharedVars
<1>3. /\ task_pool' \in Seq(Tasks) /\ irqsOff' \in [Tasks -> BOOLEAN]
      /\ controller' \in [Tasks -> Seq(Tasks)]
  <2>1. CASE Create(c)
    <3>1. Head(task_pool) \in Tasks /\ Tail(task_pool) \in Seq(Tasks)
      BY <2>1, HeadTailProperties DEF Create, IInv, TypeOK
    <3>2. push_controller(<<>>, Current(c)) \in Seq(Tasks)
      BY <1>1 DEF push_controller
    <3> QED BY <2>1, <3>1, <3>2 DEF Create, IInv, TypeOK
  <2>2. CASE ChangeController(c)
    <3>1. PICK held \in Tasks, new \in Tasks :
            /\ Controls(Current(c), held)
            /\ controller' = [controller EXCEPT ![held] = <<new>> \o Tail(@)]
      BY <2>2 DEF ChangeController
    <3>2. Tail(controller[held]) \in Seq(Tasks)
      BY <3>1, HeadTailProperties DEF Controls, IInv, TypeOK
    <3>3. <<new>> \o Tail(controller[held]) \in Seq(Tasks)
      BY <3>2, Prefixed
    <3> QED BY <2>2, <3>1, <3>3 DEF ChangeController, IInv, TypeOK, sharedVars
  <2> QED BY <2>1, <2>2
<1>4. TypeOK'
  BY <1>2, <1>3 DEF IInv, TypeOK, coreVars
<1> QED
  BY <1>2, <1>4 DEF IInv, CoreInv, IdleIsThere, LooksAlone, HasSleeper, Current, coreVars

\* No list changes.
LEMMA KeepingIInv ==
  ASSUME IInv, NEW c \in Cores,
         EnablingInterrupts(c) \/ SwiPanics(c) \/ IrqFails(c) \/ Resume(c)
  PROVE  IInv'
<1>1. /\ UNCHANGED <<running, idle, irq_task, interrupted_tasks, hand, sharedVars,
                     irqsOff, r0, controller, ended>>
      /\ step' \in [Cores -> Steps] /\ step[c] # "off"
      /\ step' = step \/ step' = [step EXCEPT ![c] = "panic"]
                      \/ step' = [step EXCEPT ![c] = "usr"]
  BY DEF EnablingInterrupts, SwiPanics, IrqFails, Resume, Swi, Panic, GoTo, Steps,
         IInv, TypeOK, taskVars
<1>2. masked' \in [Cores -> BOOLEAN] /\ isRunning' \in [Tasks -> BOOLEAN]
  <2>1. CASE Resume(c)
    <3>1. running[c] \in Seq(Tasks) /\ running[c] # <<>>
      BY <2>1 DEF Resume, IInv, TypeOK, CoreInv, IdleIsThere
    <3>2. Current(c) \in Tasks
      BY <3>1, HeadTailProperties DEF Current
    <3> QED BY <2>1, <3>2 DEF Resume, IInv, TypeOK
  <2>2. CASE ~Resume(c)
    BY <2>2 DEF EnablingInterrupts, SwiPanics, IrqFails, Panic, IInv, TypeOK, taskVars
  <2> QED BY <2>1, <2>2
<1>3. TypeOK'
  BY <1>1, <1>2 DEF IInv, TypeOK, sharedVars
<1>4. CoreInv(c)'
  BY <1>1 DEF IInv, TypeOK, CoreInv, IdleIsThere, LooksAlone, HasSleeper, Current
<1> QED BY <1>1, <1>3, <1>4, OthersKeep DEF IInv, TypeOK

\* The woken tasks are tasks, whatever part of the sleeping list they are.
LEMMA TickIInv == ASSUME IInv, NEW c \in Cores, Tick(c) PROVE IInv'
<1>1. PICK n \in 1 .. Len(sleeping) :
        /\ hand' = [hand EXCEPT ![c] = SubSeq(sleeping, 1, n)]
        /\ sleeping' = SubSeq(sleeping, n + 1, Len(sleeping))
  BY DEF Tick
<1>2. /\ step' = [step EXCEPT ![c] = "wake"] /\ step[c] = "usr"
      /\ UNCHANGED <<running, idle, irq_task, interrupted_tasks, masked,
                     task_pool, runnable, moving, taskVars>>
  BY DEF Tick, GoTo, Swi
<1>3. SubSeq(sleeping, 1, n) \in Seq(Tasks) /\ sleeping' \in Seq(Tasks)
  BY <1>1, Removed DEF IInv, TypeOK
<1>4. TypeOK'
  BY <1>1, <1>2, <1>3 DEF IInv, TypeOK, Steps, taskVars
<1>5. CoreInv(c)'
  BY <1>2 DEF IInv, TypeOK, CoreInv, IdleIsThere, LooksAlone, HasSleeper, Current
<1> QED BY <1>1, <1>2, <1>4, <1>5, OthersKeep DEF IInv, TypeOK

-----------------------------------------------------------------------------
\* A core is booted.
LEMMA BootIInv ==
  ASSUME IInv, NEW c \in Cores, BootFirst(c) \/ BootOther(c)
  PROVE  IInv'
<1> DEFINE n == Len(task_pool)
<1>1. task_pool \in Seq(Tasks) /\ n \in Nat
  BY LenProperties DEF IInv, TypeOK
<1>2. \E list \in Seq(Tasks), i \in Tasks, t \in Tasks, pool \in Seq(Tasks) :
        /\ running' = [running EXCEPT ![c] = list]
        /\ idle' = [idle EXCEPT ![c] = i]
        /\ isRunning' = [isRunning EXCEPT ![t] = TRUE]
        /\ task_pool' = pool
        /\ list # <<>> /\ Last(list) = i
  <2>1. CASE BootFirst(c)
    <3>1. n > 1
      BY <2>1 DEF BootFirst
    <3>2. /\ task_pool[1] \in Tasks /\ task_pool[2] \in Tasks
          /\ SubSeq(task_pool, 1, 2) \in Seq(Tasks) /\ SubSeq(task_pool, 1, 2) # <<>>
          /\ Last(SubSeq(task_pool, 1, 2)) = task_pool[2]
          /\ SubSeq(task_pool, 3, n) \in Seq(Tasks)
      BY <1>1, <3>1, FirstTwo
    <3> QED BY <2>1, <3>2 DEF BootFirst
  <2>2. CASE BootOther(c)
    <3>1. Head(task_pool) \in Tasks /\ Tail(task_pool) \in Seq(Tasks)
      BY <2>2, <1>1, HeadTailProperties DEF BootOther
    <3>2. /\ <<Head(task_pool)>> \in Seq(Tasks) /\ <<Head(task_pool)>> # <<>>
          /\ Last(<<Head(task_pool)>>) = Head(task_pool)
      BY <3>1 DEF Last
    <3> QED BY <2>2, <3>1, <3>2 DEF BootOther
  <2> QED BY <2>1, <2>2
<1>3. /\ masked' = [masked EXCEPT ![c] = FALSE]
      /\ step' = [step EXCEPT ![c] = "usr"]
      /\ UNCHANGED <<irq_task, interrupted_tasks, hand, runnable, moving, sleeping,
                     irqsOff, r0, controller, ended>>
  BY DEF BootFirst, BootOther, GoTo
<1>4. TypeOK'
  <2>1. /\ running' \in [Cores -> Seq(Tasks)] /\ idle' \in [Cores -> Tasks \cup {None}]
        /\ isRunning' \in [Tasks -> BOOLEAN] /\ task_pool' \in Seq(Tasks)
    BY <1>2 DEF IInv, TypeOK
  <2>2. masked' \in [Cores -> BOOLEAN] /\ step' \in [Cores -> Steps]
    BY <1>3 DEF IInv, TypeOK, Steps
  <2> QED BY <1>3, <2>1, <2>2 DEF IInv, TypeOK
<1>5. CoreInv(c)'
  BY <1>2, <1>3 DEF IInv, TypeOK, CoreInv, IdleIsThere, LooksAlone, HasSleeper, Current
<1> QED BY <1>2, <1>3, <1>4, <1>5, OthersKeep DEF IInv, TypeOK

-----------------------------------------------------------------------------
\* The interrupted tasks make room for the interrupt's task.
LEMMA InterruptIInv == ASSUME IInv, NEW c \in Cores, irq_handler(c) PROVE IInv'
<1>1. /\ running[c] \in Seq(Tasks) /\ running[c] # <<>> /\ idle[c] \in Tasks
      /\ Current(c) = idle[c] \/ Last(running[c]) = idle[c]
      /\ irq_task[c] \in Tasks
  BY DEF irq_handler, IInv, TypeOK, CoreInv, IdleIsThere
<1>2. Current(c) \in Tasks
  BY <1>1, HeadTailProperties DEF Current
<1>3. /\ <<irq_task[c], idle[c]>> \in Seq(Tasks) /\ <<irq_task[c], idle[c]>> # <<>>
      /\ Last(<<irq_task[c], idle[c]>>) = idle[c]
  BY <1>1 DEF Last
<1>4. Detached(running[c], idle[c]) \in Seq(Tasks)
  <2> DEFINE s == running[c]
  <2>1. Len(s) \in Nat /\ Len(s) # 0 /\ DOMAIN s = 1 .. Len(s) /\ Head(s) = s[1]
    BY <1>1, LenProperties, EmptySeq, HeadTailProperties
  <2>2. \E i \in DOMAIN s : s[i] = idle[c]
    BY <1>1, <2>1 DEF Current, Last
  <2>3. (CHOOSE i \in DOMAIN s : s[i] = idle[c]) \in 1 .. Len(s)
    BY <2>1, <2>2
  <2> QED BY <1>1, <2>3, Removed DEF Detached
<1>5. /\ interrupted_tasks' \in [Cores -> Seq(Tasks)]
      /\ irqsOff' \in [Tasks -> BOOLEAN] /\ isRunning' \in [Tasks -> BOOLEAN]
  BY <1>1, <1>2, <1>4 DEF irq_handler, IInv, TypeOK
<1>6. /\ running' = [running EXCEPT ![c] = <<irq_task[c], idle[c]>>]
      /\ irq_task' = [irq_task EXCEPT ![c] = None]
      /\ step' = [step EXCEPT ![c] = "resume"]
      /\ UNCHANGED <<idle, masked, hand, sharedVars, r0, controller, ended>>
  BY DEF irq_handler, GoTo
<1>7. TypeOK'
  <2>1. running' \in [Cores -> Seq(Tasks)]
    BY <1>3, <1>6 DEF IInv, TypeOK
  <2>2. irq_task' \in [Cores -> Tasks \cup {None}] /\ step' \in [Cores -> Steps]
    BY <1>6 DEF IInv, TypeOK, Steps
  <2> QED BY <1>5, <1>6, <2>1, <2>2 DEF IInv, TypeOK, sharedVars
<1>8. CoreInv(c)'
  BY <1>1, <1>3, <1>6
     DEF IInv, TypeOK, CoreInv, IdleIsThere, LooksAlone, HasSleeper, Current
<1> QED BY <1>6, <1>7, <1>8, OthersKeep DEF IInv, TypeOK

-----------------------------------------------------------------------------
\* The idle task yields.
LEMMA IdleType ==
  ASSUME IInv, NEW c \in Cores, IdleYields(c)
  PROVE  /\ running[c] \in Seq(Tasks) /\ running[c] # <<>>
         /\ idle[c] \in Tasks /\ Head(running[c]) = idle[c]
         /\ Alone(c) => running[c] = <<idle[c]>>
<1>1. /\ running[c] \in Seq(Tasks) /\ running[c] # <<>>
      /\ idle[c] \in Tasks /\ Head(running[c]) = idle[c]
  BY DEF IInv, TypeOK, CoreInv, IdleIsThere, IdleYields, Current
<1>2. ASSUME Alone(c) PROVE running[c] = <<idle[c]>>
  BY <1>1, <1>2, HeadTailProperties DEF Alone
<1> QED BY <1>1, <1>2

\* The idle task goes from the head of its core's list to its end.
LEMMA IdleToNextIInv == ASSUME IInv, NEW c \in Cores, IdleToNext(c) PROVE IInv'
<1>1. /\ idle[c] \in Tasks
      /\ Rotate(running[c]) \in Seq(Tasks) /\ Rotate(running[c]) # <<>>
      /\ Last(Rotate(running[c])) = idle[c]
  BY IdleType, Rotated DEF IdleToNext, Rotate
<1>2. /\ running' = [running EXCEPT ![c] = Rotate(running[c])]
      /\ isRunning' = [isRunning EXCEPT ![idle[c]] = FALSE]
      /\ step' = [step EXCEPT ![c] = "resume"]
      /\ UNCHANGED <<idle, irq_task, interrupted_tasks, masked, hand, sharedVars,
                     irqsOff, r0, controller, ended>>
  BY DEF IdleToNext, GoTo
<1>3. TypeOK'
  <2>1. running' \in [Cores -> Seq(Tasks)] /\ isRunning' \in [Tasks -> BOOLEAN]
    BY <1>1, <1>2 DEF IInv, TypeOK
  <2>2. step' \in [Cores -> Steps]
    BY <1>2 DEF IInv, TypeOK, Steps
  <2> QED BY <1>2, <2>1, <2>2 DEF IInv, TypeOK, sharedVars
<1>4. CoreInv(c)'
  BY <1>1, <1>2 DEF IInv, TypeOK, CoreInv, IdleIsThere, LooksAlone, HasSleeper, Current
<1> QED BY <1>2, <1>3, <1>4, OthersKeep DEF IInv, TypeOK

\* The idle task is the head of the list that is put back behind it.
LEMMA IdleEndsInterruptIInv ==
  ASSUME IInv, NEW c \in Cores, IdleEndsInterrupt(c)
  PROVE  IInv'
<1>1. /\ step[c] = "usr" /\ masked' = [masked EXCEPT ![c] = FALSE]
      /\ UNCHANGED <<idle, irq_task, step, hand, sharedVars, taskVars>>
  BY DEF IdleEndsInterrupt, IdleYields
<1>2. CASE interrupted_tasks[c] = <<>>
  <2>1. UNCHANGED <<running, interrupted_tasks>>
    BY <1>2 DEF IdleEndsInterrupt
  <2>2. TypeOK'
    BY <1>1, <2>1 DEF IInv, TypeOK, sharedVars, taskVars
  <2> QED
    BY <1>1, <2>1, <2>2 DEF IInv, CoreInv, IdleIsThere, LooksAlone, HasSleeper, Current
<1>3. CASE interrupted_tasks[c] # <<>>
  <2> DEFINE list == <<idle[c]>> \o Rotate(interrupted_tasks[c])
  <2>1. idle[c] \in Tasks
    BY IdleType DEF IdleEndsInterrupt
  <2>2. Rotate(interrupted_tasks[c]) \in Seq(Tasks)
    BY <1>3, Rotated DEF IInv, TypeOK, Rotate
  <2>3. list \in Seq(Tasks) /\ list # <<>> /\ Head(list) = idle[c]
    BY <2>1, <2>2, Prefixed
  <2>4. /\ running' = [running EXCEPT ![c] = list]
        /\ interrupted_tasks' = [interrupted_tasks EXCEPT ![c] = <<>>]
    BY <1>3 DEF IdleEndsInterrupt
  <2> HIDE DEF list
  <2>5. TypeOK'
    BY <1>1, <2>3, <2>4 DEF IInv, TypeOK, sharedVars, taskVars
  <2>6. CoreInv(c)'
    BY <1>1, <2>1, <2>3, <2>4
       DEF IInv, TypeOK, CoreInv, IdleIsThere, LooksAlone, HasSleeper, Current
  <2> QED BY <1>1, <2>4, <2>5, <2>6, OthersKeep DEF IInv, TypeOK
<1> QED BY <1>2, <1>3

\* A core that looks for a task has its idle task only.
LEMMA IdleLooksIInv == ASSUME IInv, NEW c \in Cores, IdleLooks(c) PROVE IInv'
<1>1. idle[c] \in Tasks /\ running[c] # <<>> /\ running[c] = <<idle[c]>>
      /\ Current(c) = idle[c]
  BY IdleType DEF IdleLooks, Current
<1>2. /\ isRunning' = [isRunning EXCEPT ![idle[c]] = FALSE]
      /\ irqsOff' = [irqsOff EXCEPT ![idle[c]] = FALSE]
      /\ step' = [step EXCEPT ![c] = "find moving"]
      /\ UNCHANGED <<running, idle, irq_task, interrupted_tasks, masked, hand,
                     sharedVars, r0, controller, ended>>
  BY DEF IdleLooks, GoTo
<1>3. TypeOK'
  BY <1>1, <1>2 DEF IInv, TypeOK, sharedVars, Steps
<1>4. CoreInv(c)'
  BY <1>1, <1>2 DEF IInv, TypeOK, CoreInv, IdleIsThere, LooksAlone, HasSleeper, Current
<1> QED BY <1>2, <1>3, <1>4, OthersKeep DEF IInv, TypeOK

\* What the idle task finds goes before it.
LEMMA FindIInv ==
  ASSUME IInv, NEW c \in Cores, FindMoving(c) \/ FindRunnable(c)
  PROVE  IInv'
<1>1. /\ idle[c] \in Tasks /\ running[c] \in Seq(Tasks) /\ running[c] # <<>>
      /\ running[c] = <<idle[c]>>
  BY DEF FindMoving, FindRunnable, IInv, TypeOK, CoreInv, IdleIsThere, LooksAlone
<1>2. Last(running[c]) = idle[c] /\ Current(c) = idle[c]
  BY <1>1 DEF Last, Current
<1>3. /\ UNCHANGED <<idle, irq_task, interrupted_tasks, masked, hand, task_pool,
                     sleeping, irqsOff, controller, ended>>
      /\ runnable' = runnable \/ moving' = moving
  BY DEF FindMoving, FindRunnable
<1>4. CASE \E t \in Tasks : /\ running' = [running EXCEPT ![c] = <<t>> \o running[c]]
                            /\ moving' \in Seq(Tasks) /\ runnable' \in Seq(Tasks)
                            /\ r0' \in [Tasks -> CoreNumbers \cup {None}]
                            /\ isRunning' = isRunning
                            /\ step' = [step EXCEPT ![c] = "resume"]
  <2>1. PICK t \in Tasks : /\ running' = [running EXCEPT ![c] = <<t>> \o running[c]]
                           /\ moving' \in Seq(Tasks) /\ runnable' \in Seq(Tasks)
                           /\ r0' \in [Tasks -> CoreNumbers \cup {None}]
                           /\ isRunning' = isRunning
                           /\ step' = [step EXCEPT ![c] = "resume"]
    BY <1>4
  <2> DEFINE list == <<t>> \o running[c]
  <2>2. list \in Seq(Tasks) /\ list # <<>> /\ Last(list) = idle[c]
    BY <1>1, <1>2, Prefixed
  <2> HIDE DEF list
  <2>3. running' = [running EXCEPT ![c] = list]
    BY <2>1 DEF list
  <2>4. TypeOK'
    BY ZenonT(40), <1>3, <2>1, <2>2, <2>3 DEF IInv, TypeOK, Steps
  <2>5. CoreInv(c)'
    BY <1>1, <1>3, <2>1, <2>2, <2>3
       DEF IInv, TypeOK, CoreInv, IdleIsThere, LooksAlone, HasSleeper, Current
  <2> QED BY <1>3, <2>1, <2>3, <2>4, <2>5, OthersKeep DEF IInv, TypeOK
<1>5. CASE /\ running' = running /\ moving' = moving /\ runnable' = runnable /\ r0' = r0
           /\ isRunning' \in {isRunning, [isRunning EXCEPT ![idle[c]] = TRUE]}
           /\ \E s \in {"find runnable", "usr"} : step' = [step EXCEPT ![c] = s]
  <2>1. TypeOK'
    BY ZenonT(40), <1>1, <1>3, <1>5 DEF IInv, TypeOK, Steps
  <2>2. CoreInv(c)'
    BY <1>1, <1>2, <1>3, <1>5
       DEF IInv, TypeOK, CoreInv, IdleIsThere, LooksAlone, HasSleeper, Current
  <2> QED BY <1>3, <1>5, <2>1, <2>2, OthersKeep DEF IInv, TypeOK
<1>6. CASE FindMoving(c)
  <2>1. CASE FirstFor(c) = {}
    BY <1>5, <1>6, <2>1 DEF FindMoving, GoTo
  <2>2. CASE FirstFor(c) # {}
    <3>1. PICK i \in FirstFor(c) :
            /\ moving' = RemoveAt(moving, i)
            /\ running' = [running EXCEPT ![c] = <<moving[i]>> \o @]
            /\ r0' = [r0 EXCEPT ![moving[i]] = None]
            /\ GoTo(c, "resume")
      BY <1>6, <2>2 DEF FindMoving
    <3>2. moving \in Seq(Tasks) /\ i \in 1 .. Len(moving)
      BY LenProperties DEF IInv, TypeOK, FirstFor
    <3>3. moving[i] \in Tasks /\ RemoveAt(moving, i) \in Seq(Tasks)
      BY <3>2, ElementOfSeq, Removed
    <3>4. r0' \in [Tasks -> CoreNumbers \cup {None}] /\ runnable' \in Seq(Tasks)
          /\ isRunning' = isRunning
      BY <1>6, <3>1, <3>3 DEF FindMoving, IInv, TypeOK
    <3> QED BY <1>4, <3>1, <3>3, <3>4 DEF GoTo
  <2> QED BY <2>1, <2>2
<1>7. CASE FindRunnable(c)
  <2>1. CASE runnable = <<>>
    BY <1>5, <1>7, <2>1 DEF FindRunnable, GoTo
  <2>2. CASE runnable # <<>>
    <3>1. Head(runnable) \in Tasks /\ Tail(runnable) \in Seq(Tasks)
      BY <2>2, HeadTailProperties DEF IInv, TypeOK
    <3>2. moving' \in Seq(Tasks) /\ r0' \in [Tasks -> CoreNumbers \cup {None}]
      BY <1>7 DEF FindRunnable, IInv, TypeOK
    <3> QED BY <1>4, <1>7, <2>2, <3>1, <3>2 DEF FindRunnable, GoTo
  <2> QED BY <2>1, <2>2
<1> QED BY <1>6, <1>7

-----------------------------------------------------------------------------
\* Every step of the scheduler keeps IInv.
LEMMA NextIInv == IInv /\ [Next]_vars => IInv'
<1> SUFFICES ASSUME IInv, [Next]_vars PROVE IInv'
  OBVIOUS
<1>1. ASSUME NEW c \in Cores, Boot(c) PROVE IInv'
  BY <1>1, BootIInv DEF Boot
<1>2. ASSUME NEW c \in Cores, OrdinarySwi(c) PROVE IInv'
  BY <1>2, StopIInv, ControllerIInv, ReleaseIInv, KeepingIInv DEF OrdinarySwi
<1>3. ASSUME NEW c \in Cores, InterruptSwi(c) PROVE IInv'
  BY <1>3, StopIInv, KeepingIInv, TickIInv DEF InterruptSwi
<1>4. ASSUME NEW c \in Cores, Interrupt(c) PROVE IInv'
  BY <1>4, InterruptIInv, KeepingIInv DEF Interrupt
<1>5. ASSUME NEW c \in Cores, IdleYield(c) PROVE IInv'
  BY <1>5, IdleToNextIInv, IdleEndsInterruptIInv, IdleLooksIInv DEF IdleYield
<1>6. ASSUME NEW c \in Cores, Kernel(c) PROVE IInv'
  BY <1>6, InsertIInv, FindIInv, KeepingIInv DEF Kernel
<1>7. ASSUME UNCHANGED vars PROVE IInv'
  BY <1>7 DEF vars, coreVars, sharedVars, taskVars, IInv, TypeOK, CoreInv,
              IdleIsThere, LooksAlone, HasSleeper, Current
<1> QED
  BY <1>1, <1>2, <1>3, <1>4, <1>5, <1>6, <1>7 DEF Next, Stopped

\* The inductive invariant of every behaviour of the scheduler.
THEOREM Invariant == Spec => []IInv
<1> QED BY InitIInv, NextIInv, PTL DEF Spec

\* Every list of the scheduler is a list of tasks, and a task stopped by
\* SwitchToCore asks for a core number that its check lets through, for any
\* number of cores and tasks.
THEOREM TypeCorrect == Spec => []TypeOK
<1>1. IInv => TypeOK
  BY DEF IInv
<1> QED BY <1>1, Invariant, PTL

\* The idle task never leaves its core: whatever SWI a task makes and whatever
\* interrupts it, return_to_swi_caller finds a task at the head of the list.
THEOREM IdleTaskStays == Spec => []IdleStays
<1>1. IInv => IdleStays
  BY DEF IInv, CoreInv, IdleIsThere, IdleStays
<1> QED BY <1>1, Invariant, PTL

-----------------------------------------------------------------------------
\* Sets kept apart, at places.

\* Nothing is at two places.
Apart(at) == \A p, q \in DOMAIN at : p # q => at[p] \cap at[q] = {}

\* Everything that is at a place.
AtAll(at) == UNION {at[p] : p \in DOMAIN at}

\* What moves from its place to another is not at two places, nor lost.
LEMMA Moved ==
  ASSUME NEW at, NEW to, DOMAIN to = DOMAIN at, Apart(at),
         NEW p \in DOMAIN at, NEW q \in DOMAIN at, p # q, NEW M \in SUBSET at[p],
         to[p] = at[p] \ M, to[q] = at[q] \cup M,
         \A r \in DOMAIN at \ {p, q} : to[r] = at[r]
  PROVE  Apart(to) /\ AtAll(to) = AtAll(at)
<1>1. Apart(to)
  BY DEF Apart
<1>2. ASSUME NEW t PROVE t \in AtAll(to) <=> t \in AtAll(at)
  <2>1. ASSUME NEW r \in DOMAIN at, t \in at[r] PROVE \E s \in DOMAIN to : t \in to[s]
    BY <2>1
  <2>2. ASSUME NEW r \in DOMAIN to, t \in to[r] PROVE \E s \in DOMAIN at : t \in at[s]
    BY <2>2
  <2> QED BY <2>1, <2>2 DEF AtAll
<1> QED BY <1>1, <1>2

-----------------------------------------------------------------------------
\* The places of Places, and the tasks that are there.
PlaceNames ==
  ({"running", "interrupted", "hand", "interrupt task"} \X Cores)
    \cup ({"shared"} \X {"pool", "runnable", "moving", "sleeping", "ended", "held"})

Where == [p \in PlaceNames |->
  CASE p[1] = "running"        -> ToSet(running[p[2]])
    [] p[1] = "interrupted"    -> ToSet(interrupted_tasks[p[2]])
    [] p[1] = "hand"           -> ToSet(hand[p[2]])
    [] p[1] = "interrupt task" -> {t \in Tasks : irq_task[p[2]] = t}
    [] OTHER                   -> SharedLists[p[2]]]

Held == {t \in Tasks : controller[t] # <<>>}

\* What that says of the places of a core, and of the others.
CoreSays(c) ==
  /\ Where[<<"running", c>>] = ToSet(running[c])
  /\ Where[<<"interrupted", c>>] = ToSet(interrupted_tasks[c])
  /\ Where[<<"hand", c>>] = ToSet(hand[c])
  /\ Where[<<"interrupt task", c>>] = {t \in Tasks : irq_task[c] = t}

SharedSays ==
  /\ Where[<<"shared", "pool">>] = ToSet(task_pool)
  /\ Where[<<"shared", "runnable">>] = ToSet(runnable)
  /\ Where[<<"shared", "moving">>] = ToSet(moving)
  /\ Where[<<"shared", "sleeping">>] = ToSet(sleeping)
  /\ Where[<<"shared", "ended">>] = ended
  /\ Where[<<"shared", "held">>] = Held
  /\ DOMAIN Where = PlaceNames

\* Before a step and after it.
LEMMA WhereIs ==
  ASSUME NEW c \in Cores
  PROVE  CoreSays(c) /\ CoreSays(c)' /\ SharedSays /\ SharedSays'
<1>1. CoreSays(c) /\ SharedSays
  BY DEF CoreSays, SharedSays, Where, PlaceNames, SharedLists, Held
<1>2. CoreSays(c)' /\ SharedSays'
  BY DEF CoreSays, SharedSays, Where, PlaceNames, SharedLists, Held
<1> QED BY <1>1, <1>2

\* The places that a step of core c can reach.
PlacesOf(c) ==
  {<<"running", c>>, <<"interrupted", c>>, <<"hand", c>>, <<"interrupt task", c>>,
   <<"shared", "pool">>, <<"shared", "runnable">>, <<"shared", "moving">>,
   <<"shared", "sleeping">>, <<"shared", "ended">>, <<"shared", "held">>}

\* A step leaves everything that belongs to the other cores as it is.
OthersSame(c) ==
  \A d \in Cores \ {c} :
    /\ running'[d] = running[d] /\ idle'[d] = idle[d] /\ step'[d] = step[d]
    /\ hand'[d] = hand[d] /\ masked'[d] = masked[d]
    /\ irq_task'[d] = irq_task[d] /\ interrupted_tasks'[d] = interrupted_tasks[d]

\* Then only the tasks at the places that it can reach may move.
LEMMA OthersStay ==
  ASSUME NEW c \in Cores, OthersSame(c)
  PROVE  /\ PlacesOf(c) \subseteq PlaceNames
         /\ \A r \in PlaceNames \ PlacesOf(c) : Where'[r] = Where[r]
<1>1. PlacesOf(c) \subseteq PlaceNames
  <2>1. /\ <<"running", c>> \in PlaceNames /\ <<"interrupted", c>> \in PlaceNames
        /\ <<"hand", c>> \in PlaceNames /\ <<"interrupt task", c>> \in PlaceNames
    BY DEF PlaceNames
  <2>2. /\ <<"shared", "pool">> \in PlaceNames /\ <<"shared", "runnable">> \in PlaceNames
        /\ <<"shared", "moving">> \in PlaceNames /\ <<"shared", "sleeping">> \in PlaceNames
        /\ <<"shared", "ended">> \in PlaceNames /\ <<"shared", "held">> \in PlaceNames
    BY DEF PlaceNames
  <2> QED BY <2>1, <2>2 DEF PlacesOf
<1>2. ASSUME NEW r \in PlaceNames \ PlacesOf(c) PROVE Where'[r] = Where[r]
  <2> DEFINE K == {"running", "interrupted", "hand", "interrupt task"}
           L == {"pool", "runnable", "moving", "sleeping", "ended", "held"}
  <2>1. r \in K \X Cores
    <3>1. r \in (K \X Cores) \cup ({"shared"} \X L)
      BY DEF PlaceNames
    <3>2. ASSUME r \in {"shared"} \X L PROVE FALSE
      <4>1. \E l \in L : r = <<"shared", l>>
        BY <3>2
      <4> QED BY <4>1 DEF PlacesOf
    <3> HIDE DEF K, L
    <3> QED BY <3>1, <3>2
  <2>2. PICK k \in K, d \in Cores : r = <<k, d>>
    <3> HIDE DEF K
    <3> QED BY <2>1
  <2>3. d \in Cores \ {c}
    BY <2>2 DEF PlacesOf
  <2>4. /\ running'[d] = running[d] /\ hand'[d] = hand[d]
        /\ irq_task'[d] = irq_task[d] /\ interrupted_tasks'[d] = interrupted_tasks[d]
    BY <2>3 DEF OthersSame
  <2>5. CoreSays(d) /\ CoreSays(d)'
    BY WhereIs
  <2> HIDE DEF K
  <2>6. \A l \in K : Where'[<<l, d>>] = Where[<<l, d>>]
    BY <2>4, <2>5 DEF K, CoreSays
  <2> QED BY <2>2, <2>6
<1> QED BY <1>1, <1>2

\* Nothing moves...
LEMMA NothingMoves ==
  ASSUME NEW c \in Cores, OthersSame(c),
         \A r \in PlacesOf(c) : Where'[r] = Where[r]
  PROVE  Where' = Where
<1>1. \A r \in PlaceNames : Where'[r] = Where[r]
  BY OthersStay
<1>2. /\ Where = [r \in PlaceNames |-> Where[r]]
      /\ Where' = [r \in PlaceNames |-> Where'[r]]
  BY DEF Where
<1> QED BY <1>1, <1>2

\* ... or tasks move from one place to another: no task is lost, or put in two.
LEMMA TasksMove ==
  ASSUME Apart(Where), NEW c \in Cores, OthersSame(c),
         NEW p \in PlacesOf(c), NEW q \in PlacesOf(c), p # q,
         NEW M \in SUBSET Where[p],
         Where'[p] = Where[p] \ M, Where'[q] = Where[q] \cup M,
         \A r \in PlacesOf(c) \ {p, q} : Where'[r] = Where[r]
  PROVE  Apart(Where)' /\ AtAll(Where)' = AtAll(Where)
<1>1. /\ p \in PlaceNames /\ q \in PlaceNames
      /\ \A r \in PlaceNames \ {p, q} : Where'[r] = Where[r]
  BY OthersStay
<1>2. DOMAIN Where = PlaceNames /\ DOMAIN Where' = PlaceNames
  BY DEF Where
<1> DEFINE at == Where
           to == Where'
<1>3. /\ DOMAIN to = DOMAIN at /\ Apart(at) /\ p \in DOMAIN at /\ q \in DOMAIN at
      /\ M \in SUBSET at[p] /\ to[p] = at[p] \ M /\ to[q] = at[q] \cup M
      /\ \A r \in DOMAIN at \ {p, q} : to[r] = at[r]
  BY <1>1, <1>2
<1> HIDE DEF at, to
<1>4. Apart(to) /\ AtAll(to) = AtAll(at)
  BY <1>3, Moved
<1> QED BY <1>4 DEF at, to, Apart, AtAll

-----------------------------------------------------------------------------
\* The inductive invariant: IInv, every task is at no more than one place...

\* ... and there only once;
ListsOnce(c) ==
  IsInjective(running[c]) /\ IsInjective(interrupted_tasks[c]) /\ IsInjective(hand[c])

SharedOnce ==
  /\ IsInjective(task_pool) /\ IsInjective(runnable)
  /\ IsInjective(moving) /\ IsInjective(sleeping)

\* a core has tasks in its hand only between two lists, and one for TaskOpSleep;
HandSteps == {"yield", "sleep", "switch", "release", "wake", "queue"}

HandInv(c) ==
  /\ hand[c] # <<>> => step[c] \in HandSteps
  /\ step[c] = "sleep" => hand[c] = <<Head(hand[c])>>

\* a core that is not booted has no tasks;
OffInv(c) == step[c] = "off" => running[c] = <<>> /\ interrupted_tasks[c] = <<>>

\* no task has two controllers, the running bit is that of the tasks which execute,
OneController == \A t \in Tasks : Len(controller[t]) <= 1

\* and only tasks on their way ask for a core.
Asking ==
  \A t \in Tasks : r0[t] # None =>
    \/ t \in ToSet(moving)
    \/ \E c \in Cores : step[c] = "switch" /\ t \in ToSet(hand[c])

PInv ==
  /\ IInv /\ Apart(Where) /\ SharedOnce /\ OneController /\ RunningBit /\ Asking
  /\ \A c \in Cores : ListsOnce(c) /\ HandInv(c) /\ OffInv(c)

\* What else there is of interrupts: while tasks are put aside, what runs on the core
\* does so with interrupts off.
AsideInv(c) ==
  /\ interrupted_tasks[c] # <<>> =>
       /\ \A t \in ToSet(running[c]) : irqsOff[t]
       /\ step[c] \in {"usr", "release", "wake"} => masked[c]
       /\ step[c] \notin {"find moving", "find runnable"}
  /\ irq_task[c] # None => irqsOff[irq_task[c]]

Aside == \A c \in Cores : AsideInv(c)

-----------------------------------------------------------------------------
\* What follows from it.

\* A task at one place is at no other.
LEMMA Elsewhere ==
  ASSUME Apart(Where), NEW p \in PlaceNames, NEW t \in Where[p]
  PROVE  /\ \A d \in Cores :
              /\ p # <<"running", d>> => t \notin ToSet(running[d])
              /\ p # <<"interrupted", d>> => t \notin ToSet(interrupted_tasks[d])
              /\ p # <<"hand", d>> => t \notin ToSet(hand[d])
              /\ p # <<"interrupt task", d>> /\ t \in Tasks => irq_task[d] # t
         /\ p # <<"shared", "pool">> => t \notin ToSet(task_pool)
         /\ p # <<"shared", "runnable">> => t \notin ToSet(runnable)
         /\ p # <<"shared", "moving">> => t \notin ToSet(moving)
         /\ p # <<"shared", "sleeping">> => t \notin ToSet(sleeping)
         /\ p # <<"shared", "ended">> => t \notin ended
         /\ p # <<"shared", "held">> => t \notin Held
<1>1. \A q \in PlaceNames : p # q => t \notin Where[q]
  <2>1. DOMAIN Where = PlaceNames
    BY DEF Where
  <2> QED BY <2>1 DEF Apart
<1>2. ASSUME NEW d \in Cores
      PROVE  /\ p # <<"running", d>> => t \notin ToSet(running[d])
             /\ p # <<"interrupted", d>> => t \notin ToSet(interrupted_tasks[d])
             /\ p # <<"hand", d>> => t \notin ToSet(hand[d])
             /\ p # <<"interrupt task", d>> /\ t \in Tasks => irq_task[d] # t
  <2>1. /\ <<"running", d>> \in PlaceNames /\ <<"interrupted", d>> \in PlaceNames
        /\ <<"hand", d>> \in PlaceNames /\ <<"interrupt task", d>> \in PlaceNames
    BY DEF PlaceNames
  <2>2. CoreSays(d)
    BY WhereIs
  <2> QED BY <1>1, <2>1, <2>2 DEF CoreSays
<1>3. /\ p # <<"shared", "pool">> => t \notin ToSet(task_pool)
      /\ p # <<"shared", "runnable">> => t \notin ToSet(runnable)
      /\ p # <<"shared", "moving">> => t \notin ToSet(moving)
      /\ p # <<"shared", "sleeping">> => t \notin ToSet(sleeping)
      /\ p # <<"shared", "ended">> => t \notin ended
      /\ p # <<"shared", "held">> => t \notin Held
  <2>1. /\ <<"shared", "pool">> \in PlaceNames /\ <<"shared", "runnable">> \in PlaceNames
        /\ <<"shared", "moving">> \in PlaceNames /\ <<"shared", "sleeping">> \in PlaceNames
        /\ <<"shared", "ended">> \in PlaceNames /\ <<"shared", "held">> \in PlaceNames
    BY DEF PlaceNames
  <2>2. 0 \in Cores /\ SharedSays
    BY CoresAssumption, WhereIs DEF Cores
  <2> QED BY <1>1, <2>1, <2>2 DEF SharedSays
<1> QED BY <1>2, <1>3

\* A task on core c is on no other core, and not in its interrupt's lists.
LEMMA OnOneCore ==
  ASSUME Apart(Where), IInv, NEW c \in Cores, NEW d \in Cores
  PROVE  /\ ToSet(running[c]) \subseteq Tasks
         /\ c # d => ToSet(running[c]) \cap ToSet(running[d]) = {}
         /\ ToSet(running[c]) \cap ToSet(interrupted_tasks[d]) = {}
         /\ ToSet(running[c]) \cap ToSet(hand[d]) = {}
         /\ irq_task[d] \notin ToSet(running[c])
         /\ ToSet(running[c]) \cap ToSet(task_pool) = {}
         /\ ToSet(running[c]) \cap ToSet(runnable) = {}
         /\ ToSet(running[c]) \cap ToSet(moving) = {}
         /\ ToSet(running[c]) \cap ToSet(sleeping) = {}
         /\ ToSet(running[c]) \cap Held = {}
<1>1. running[c] \in Seq(Tasks)
  BY DEF IInv, TypeOK
<1>2. ToSet(running[c]) \subseteq Tasks
  BY <1>1, LenProperties, ElementOfSeq DEF ToSet
<1> DEFINE p == <<"running", c>>
<1>3. p \in PlaceNames /\ Where[p] = ToSet(running[c])
  BY WhereIs DEF PlaceNames, CoreSays
<1>4. /\ c # d => p # <<"running", d>>
      /\ p # <<"interrupted", d>> /\ p # <<"hand", d>> /\ p # <<"interrupt task", d>>
      /\ p # <<"shared", "pool">> /\ p # <<"shared", "runnable">>
      /\ p # <<"shared", "moving">> /\ p # <<"shared", "sleeping">>
      /\ p # <<"shared", "ended">> /\ p # <<"shared", "held">>
  OBVIOUS
<1> HIDE DEF p
<1> QED BY ZenonT(40), <1>2, <1>3, <1>4, Elsewhere

\* The task that waits for core c's interrupts does nothing else.
LEMMA WaitsForInterrupt ==
  ASSUME Apart(Where), NEW c \in Cores, irq_task[c] \in Tasks
  PROVE  /\ irq_task[c] \notin ToSet(task_pool)
         /\ irq_task[c] \notin ToSet(runnable) /\ irq_task[c] \notin ToSet(moving)
         /\ irq_task[c] \notin ToSet(sleeping) /\ irq_task[c] \notin Held
         /\ \A d \in Cores : /\ irq_task[c] \notin ToSet(running[d])
                             /\ irq_task[c] \notin ToSet(interrupted_tasks[d])
                             /\ irq_task[c] \notin ToSet(hand[d])
<1> DEFINE p == <<"interrupt task", c>>
           t == irq_task[c]
<1>1. p \in PlaceNames /\ t \in Where[p]
  BY WhereIs DEF PlaceNames, CoreSays
<1>2. /\ \A d \in Cores : p # <<"running", d>> /\ p # <<"interrupted", d>> /\ p # <<"hand", d>>
      /\ p # <<"shared", "pool">> /\ p # <<"shared", "runnable">>
      /\ p # <<"shared", "moving">> /\ p # <<"shared", "sleeping">> /\ p # <<"shared", "held">>
  OBVIOUS
<1> HIDE DEF p, t
<1> QED BY <1>1, <1>2, Elsewhere DEF t

Executing == {"usr", "release", "wake", "panic"}

Runs(c, t) == step[c] \in Executing /\ Current(c) = t

\* A booted core's list has a head.
LEMMA CurrentIsOn ==
  ASSUME IInv, NEW c \in Cores, step[c] # "off"
  PROVE  Current(c) \in ToSet(running[c]) /\ idle[c] \in ToSet(running[c])
<1>1. /\ running[c] \in Seq(Tasks) /\ running[c] # <<>>
      /\ Current(c) = idle[c] \/ Last(running[c]) = idle[c]
  BY DEF IInv, TypeOK, CoreInv, IdleIsThere
<1>2. Len(running[c]) \in DOMAIN running[c] /\ Current(c) \in ToSet(running[c])
  BY <1>1, Tailed, LenProperties, EmptySeq DEF Current
<1> QED BY <1>1, <1>2 DEF Last, ToSet

\* The running bit of the tasks on core c, and of those on none.
LEMMA BitsOf ==
  ASSUME IInv, Apart(Where), RunningBit, NEW c \in Cores, NEW t \in Tasks
  PROVE  /\ t \in ToSet(running[c]) => (isRunning[t] <=> Runs(c, t))
         /\ (\A d \in Cores : t \notin ToSet(running[d])) => ~isRunning[t]
<1>1. \A d \in Cores : Runs(d, t) => t \in ToSet(running[d])
  BY CurrentIsOn DEF Runs, Executing
<1>2. isRunning[t] <=> \E d \in Cores : Runs(d, t)
  BY DEF RunningBit, Runs, Executing
<1>3. ASSUME t \in ToSet(running[c]), NEW d \in Cores, d # c PROVE ~Runs(d, t)
  BY <1>1, <1>3, OnOneCore
<1> QED BY <1>1, <1>2, <1>3

\* If a step of core c leaves the bits of the tasks on it as they should be, and
\* no other's changes, all are.
LEMMA BitsKept ==
  ASSUME IInv, Apart(Where), RunningBit, IInv', Apart(Where)',
         NEW c \in Cores, OthersSame(c),
         \A t \in ToSet(running'[c]) : isRunning'[t] <=> Runs(c, t)',
         \A t \in ToSet(running[c]) \ ToSet(running'[c]) : ~isRunning'[t],
         \A t \in Tasks \ (ToSet(running[c]) \cup ToSet(running'[c])) :
           isRunning'[t] = isRunning[t]
  PROVE  RunningBit'
<1> SUFFICES ASSUME NEW t \in Tasks PROVE isRunning'[t] <=> \E d \in Cores : Runs(d, t)'
  BY DEF RunningBit, Runs, Executing
<1>1. \A d \in Cores : Runs(d, t)' => t \in ToSet(running'[d])
  <2> SUFFICES ASSUME NEW d \in Cores, Runs(d, t)' PROVE t \in ToSet(running'[d])
    OBVIOUS
  <2>1. step'[d] # "off" /\ Current(d)' = t
    BY DEF Runs, Executing
  <2>2. /\ running'[d] \in Seq(Tasks) /\ running'[d] # <<>>
    BY <2>1 DEF IInv, TypeOK, CoreInv, IdleIsThere
  <2> QED BY <2>1, <2>2, Tailed DEF Current
<1>2. \A d \in Cores \ {c} : Runs(d, t)' <=> Runs(d, t)
  BY DEF OthersSame, Runs, Current
<1>3. isRunning[t] <=> \E d \in Cores : Runs(d, t)
  BY DEF RunningBit, Runs, Executing
<1>4. Runs(c, t) => t \in ToSet(running[c])
  BY CurrentIsOn DEF Runs, Executing
<1>5. CASE t \in ToSet(running'[c])
  <2>1. \A d \in Cores \ {c} : t \notin ToSet(running'[d])
    <3>1. \A p, q \in PlaceNames : p # q => Where'[p] \cap Where'[q] = {}
      BY ZenonT(40) DEF Apart, Where
    <3> SUFFICES ASSUME NEW d \in Cores \ {c} PROVE t \notin ToSet(running'[d])
      OBVIOUS
    <3>2. /\ <<"running", c>> \in PlaceNames /\ <<"running", d>> \in PlaceNames
          /\ <<"running", c>> # <<"running", d>>
          /\ Where'[<<"running", c>>] = ToSet(running'[c])
          /\ Where'[<<"running", d>>] = ToSet(running'[d])
      BY WhereIs DEF PlaceNames, CoreSays
    <3> QED BY <1>5, <3>1, <3>2
  <2> QED BY <1>1, <1>5, <2>1
<1>6. CASE t \in ToSet(running[c]) \ ToSet(running'[c])
  <2>1. \A d \in Cores \ {c} : t \notin ToSet(running[d])
    BY <1>6, OnOneCore
  <2> QED BY <1>1, <1>6, <2>1 DEF OthersSame
<1>7. CASE t \notin ToSet(running[c]) \cup ToSet(running'[c])
  BY <1>1, <1>2, <1>3, <1>4, <1>7
<1> QED BY <1>5, <1>6, <1>7

-----------------------------------------------------------------------------
\* What any step of core c leaves alone.
CoreStep(c) ==
  Boot(c) \/ OrdinarySwi(c) \/ InterruptSwi(c) \/ Interrupt(c) \/ IdleYield(c) \/ Kernel(c)

\* Only tasks on the core, new ones or those it controls get another saved state.
SavedKept(c) ==
  \A t \in Tasks \ (ToSet(running[c]) \cup ToSet(task_pool) \cup Held) :
    irqsOff'[t] = irqsOff[t] /\ isRunning'[t] = isRunning[t]

\* The other cores' lists and steps.
LEMMA OthersOfStep ==
  ASSUME IInv, NEW c \in Cores, CoreStep(c)
  PROVE  OthersSame(c)
<1>1. CASE Boot(c)
  BY <1>1 DEF Boot, BootFirst, BootOther, GoTo, IInv, TypeOK, OthersSame
<1>2. CASE OrdinarySwi(c)
  <2>1. CASE Yield(c) \/ Sleep(c) \/ SwitchToCore(c) \/ EndTask(c)
    BY <2>1 DEF Yield, Sleep, SwitchToCore, EndTask, StopFor, stop_running_task,
                GoTo, IInv, TypeOK, OthersSame
  <2>2. CASE ReleaseTask(c)
    BY <2>2 DEF ReleaseTask, GoTo, IInv, TypeOK, OthersSame
  <2>3. CASE Create(c) \/ ChangeController(c) \/ SwiPanics(c)
    BY <2>3 DEF Create, ChangeController, SwiPanics, Panic, GoTo, coreVars, IInv, TypeOK,
                OthersSame
  <2> QED BY <1>2, <2>1, <2>2, <2>3 DEF OrdinarySwi
<1>3. CASE InterruptSwi(c)
  BY <1>3 DEF InterruptSwi, EnablingInterrupts, WaitForInterrupt, Tick, GoTo,
              stop_running_task, IInv, TypeOK, OthersSame
<1>4. CASE Interrupt(c)
  BY <1>4 DEF Interrupt, irq_handler, IrqFails, Panic, GoTo, IInv, TypeOK, OthersSame
<1>5. CASE IdleYield(c)
  BY <1>5 DEF IdleYield, IdleToNext, IdleEndsInterrupt, IdleLooks, GoTo, IInv, TypeOK,
              OthersSame
<1>6. CASE Kernel(c)
  BY <1>6 DEF Kernel, YieldInsert, SleepInsert, SwitchInsert, ReleaseInsert, TickInsert,
              FindMoving, FindRunnable, Resume, GoTo, IInv, TypeOK, OthersSame
<1> QED BY <1>1, <1>2, <1>3, <1>4, <1>5, <1>6 DEF CoreStep

\* What the other tasks were saved with.
LEMMA SavedOfStep ==
  ASSUME IInv, NEW c \in Cores, CoreStep(c)
  PROVE  SavedKept(c)
<1> SUFFICES ASSUME NEW t \in Tasks,
                    t \notin ToSet(running[c]) \cup ToSet(task_pool) \cup Held
             PROVE  irqsOff'[t] = irqsOff[t] /\ isRunning'[t] = isRunning[t]
  BY DEF SavedKept
<1>1. step[c] # "off" => t # Current(c) /\ t # idle[c]
  BY CurrentIsOn
<1>2. task_pool # <<>> => t # Head(task_pool)
  BY Tailed DEF IInv, TypeOK
<1>3. \A h \in Tasks : Controls(Current(c), h) => t # h
  BY DEF Controls, Held
<1>4. irqsOff \in [Tasks -> BOOLEAN] /\ isRunning \in [Tasks -> BOOLEAN]
  BY DEF IInv, TypeOK
<1>5. CASE Boot(c)
  <2>1. Len(task_pool) > 1 => t # task_pool[1]
    BY LenProperties DEF IInv, TypeOK, ToSet
  <2> QED BY <1>2, <1>4, <1>5, <2>1 DEF Boot, BootFirst, BootOther
<1>6. CASE OrdinarySwi(c)
  <2>1. CASE Yield(c) \/ Sleep(c) \/ SwitchToCore(c) \/ EndTask(c)
    BY <1>1, <1>4, <2>1 DEF Yield, Sleep, SwitchToCore, EndTask, StopFor, Swi, stop_running_task
  <2>2. CASE ReleaseTask(c)
    BY <1>3, <1>4, <2>2 DEF ReleaseTask
  <2>3. CASE Create(c) \/ ChangeController(c) \/ SwiPanics(c)
    BY <1>2, <1>4, <2>3 DEF Create, ChangeController, SwiPanics, Panic, taskVars
  <2> QED BY <1>6, <2>1, <2>2, <2>3 DEF OrdinarySwi
<1>7. CASE InterruptSwi(c)
  BY <1>1, <1>4, <1>7 DEF InterruptSwi, EnablingInterrupts, WaitForInterrupt, Tick,
                          Swi, stop_running_task, taskVars
<1>8. CASE Interrupt(c)
  BY <1>1, <1>4, <1>8 DEF Interrupt, irq_handler, IrqFails, Panic, taskVars
<1>9. CASE IdleYield(c)
  BY <1>1, <1>4, <1>9 DEF IdleYield, IdleToNext, IdleEndsInterrupt, IdleLooks, IdleYields,
                          taskVars
<1>10. CASE Kernel(c)
  BY <1>1, <1>4, <1>10 DEF Kernel, YieldInsert, SleepInsert, SwitchInsert, ReleaseInsert,
              TickInsert, FindMoving, FindRunnable, Resume, taskVars
<1> QED BY <1>5, <1>6, <1>7, <1>8, <1>9, <1>10 DEF CoreStep

\* So the other cores' part of the invariant is kept.
LEMMA OthersPInv ==
  ASSUME PInv, NEW c \in Cores, OthersSame(c), SavedKept(c), NEW d \in Cores \ {c}
  PROVE  ListsOnce(d)' /\ HandInv(d)' /\ OffInv(d)' /\ (Aside => AsideInv(d)')
<1>1. /\ running'[d] = running[d] /\ step'[d] = step[d] /\ hand'[d] = hand[d]
      /\ masked'[d] = masked[d] /\ irq_task'[d] = irq_task[d]
      /\ interrupted_tasks'[d] = interrupted_tasks[d]
  BY DEF OthersSame
<1>2. ListsOnce(d)' /\ HandInv(d)' /\ OffInv(d)'
  BY <1>1 DEF PInv, ListsOnce, HandInv, OffInv
<1>3. \A t \in ToSet(running[d]) : irqsOff'[t] = irqsOff[t]
  BY OnOneCore DEF PInv, SavedKept
<1>4. irq_task[d] # None => irqsOff'[irq_task[d]] = irqsOff[irq_task[d]]
  <2> SUFFICES ASSUME irq_task[d] # None PROVE irqsOff'[irq_task[d]] = irqsOff[irq_task[d]]
    OBVIOUS
  <2>1. irq_task[d] \in Tasks
    BY DEF PInv, IInv, TypeOK
  <2>2. irq_task[d] \notin ToSet(running[c])
    BY OnOneCore DEF PInv
  <2>3. irq_task[d] \notin ToSet(task_pool) \cup Held
    BY <2>1, WaitsForInterrupt DEF PInv
  <2> QED BY <2>1, <2>2, <2>3 DEF SavedKept
<1>5. Aside => AsideInv(d)'
  BY <1>1, <1>3, <1>4 DEF Aside, AsideInv
<1> QED BY <1>2, <1>5

\* What is left to show for a step of core c.
LEMMA PInvFrom ==
  ASSUME PInv, NEW c \in Cores, OthersSame(c), SavedKept(c), step'[c] # "off",
         IInv', Apart(Where)', SharedOnce', OneController', Asking',
         ListsOnce(c)', HandInv(c)',
         \A t \in ToSet(running'[c]) : isRunning'[t] <=> Runs(c, t)',
         \A t \in ToSet(running[c]) \ ToSet(running'[c]) : ~isRunning'[t],
         \A t \in Tasks \ (ToSet(running[c]) \cup ToSet(running'[c])) :
           isRunning'[t] = isRunning[t]
  PROVE  PInv' /\ ((Aside => AsideInv(c)') => (Aside => Aside'))
<1>1. RunningBit'
  BY BitsKept DEF PInv
<1>2. \A d \in Cores : ListsOnce(d)' /\ HandInv(d)' /\ OffInv(d)'
  BY OthersPInv DEF OffInv
<1>3. (Aside => AsideInv(c)') => (Aside => Aside')
  BY OthersPInv DEF Aside
<1> QED BY <1>1, <1>2, <1>3 DEF PInv

\* Nobody on the way to the moving list, no change of who asks.
LEMMA AskingKept ==
  ASSUME Asking, NEW c \in Cores, OthersSame(c), step[c] # "switch",
         UNCHANGED <<r0, moving>>
  PROVE  Asking'
BY DEF Asking, OthersSame

\* The places whose lists do not change, or change into lists of the same.
LEMMA SamePlaces ==
  ASSUME NEW c \in Cores
  PROVE  /\ ToSet(running'[c]) = ToSet(running[c])
              => Where'[<<"running", c>>] = Where[<<"running", c>>]
         /\ ToSet(interrupted_tasks'[c]) = ToSet(interrupted_tasks[c])
              => Where'[<<"interrupted", c>>] = Where[<<"interrupted", c>>]
         /\ hand'[c] = hand[c] => Where'[<<"hand", c>>] = Where[<<"hand", c>>]
         /\ irq_task'[c] = irq_task[c]
              => Where'[<<"interrupt task", c>>] = Where[<<"interrupt task", c>>]
         /\ task_pool' = task_pool => Where'[<<"shared", "pool">>] = Where[<<"shared", "pool">>]
         /\ runnable' = runnable
              => Where'[<<"shared", "runnable">>] = Where[<<"shared", "runnable">>]
         /\ moving' = moving => Where'[<<"shared", "moving">>] = Where[<<"shared", "moving">>]
         /\ sleeping' = sleeping
              => Where'[<<"shared", "sleeping">>] = Where[<<"shared", "sleeping">>]
         /\ ended' = ended => Where'[<<"shared", "ended">>] = Where[<<"shared", "ended">>]
         /\ Held' = Held => Where'[<<"shared", "held">>] = Where[<<"shared", "held">>]
<1>1. CoreSays(c) /\ CoreSays(c)' /\ SharedSays /\ SharedSays'
  BY WhereIs
<1>2. /\ ToSet(running'[c]) = ToSet(running[c])
           => Where'[<<"running", c>>] = Where[<<"running", c>>]
      /\ ToSet(interrupted_tasks'[c]) = ToSet(interrupted_tasks[c])
           => Where'[<<"interrupted", c>>] = Where[<<"interrupted", c>>]
      /\ hand'[c] = hand[c] => Where'[<<"hand", c>>] = Where[<<"hand", c>>]
      /\ irq_task'[c] = irq_task[c]
           => Where'[<<"interrupt task", c>>] = Where[<<"interrupt task", c>>]
  BY <1>1 DEF CoreSays
<1>3. /\ task_pool' = task_pool => Where'[<<"shared", "pool">>] = Where[<<"shared", "pool">>]
      /\ runnable' = runnable
           => Where'[<<"shared", "runnable">>] = Where[<<"shared", "runnable">>]
      /\ moving' = moving => Where'[<<"shared", "moving">>] = Where[<<"shared", "moving">>]
      /\ sleeping' = sleeping
           => Where'[<<"shared", "sleeping">>] = Where[<<"shared", "sleeping">>]
      /\ ended' = ended => Where'[<<"shared", "ended">>] = Where[<<"shared", "ended">>]
      /\ Held' = Held => Where'[<<"shared", "held">>] = Where[<<"shared", "held">>]
  BY <1>1 DEF SharedSays
<1> QED BY <1>2, <1>3

-----------------------------------------------------------------------------
\* SWIs that stop the running task: it goes into the core's hand, is ended or
\* waits for an interrupt.
LEMMA StopPlaces ==
  ASSUME PInv, NEW c \in Cores, CoreStep(c),
         Yield(c) \/ Sleep(c) \/ SwitchToCore(c) \/ EndTask(c) \/ WaitForInterrupt(c)
  PROVE  Apart(Where)' /\ AtAll(Where)' = AtAll(Where)
<1> DEFINE t == Current(c)
           p == <<"running", c>>
           M == {t}
<1>1. Swi(c) /\ OthersSame(c) /\ t \in Tasks
  BY OthersOfStep, SwiType DEF PInv, Yield, Sleep, SwitchToCore, EndTask, WaitForInterrupt
<1>2. hand[c] = <<>>
  BY <1>1 DEF PInv, HandInv, HandSteps, Swi
<1>3. /\ running'[c] = Tail(running[c]) /\ Held' = Held
      /\ UNCHANGED <<interrupted_tasks, sharedVars, controller>>
  BY DEF Yield, Sleep, SwitchToCore, EndTask, WaitForInterrupt, StopFor, stop_running_task,
         PInv, IInv, TypeOK, Held
<1>4. t \in ToSet(running[c]) /\ ToSet(running'[c]) = ToSet(running[c]) \ M
  BY <1>1, <1>3, SwiType, TailedOnce DEF PInv, ListsOnce, Current
<1>5. CoreSays(c) /\ CoreSays(c)' /\ SharedSays /\ SharedSays'
  BY WhereIs
<1>6. p \in PlacesOf(c) /\ Where'[p] = Where[p] \ M /\ M \in SUBSET Where[p]
  BY <1>4, <1>5 DEF CoreSays, PlacesOf
<1>7. CASE Yield(c) \/ Sleep(c) \/ SwitchToCore(c)
  <2> DEFINE q == <<"hand", c>>
  <2>1. hand'[c] = <<t>> /\ UNCHANGED <<irq_task, ended>>
    BY <1>7 DEF Yield, Sleep, SwitchToCore, StopFor, PInv, IInv, TypeOK
  <2>2. Where[q] = {} /\ Where'[q] = M
    BY <1>2, <1>5, <2>1, ShortLists DEF CoreSays
  <2>3. /\ q \in PlacesOf(c) /\ p # q
        /\ \A r \in PlacesOf(c) \ {p, q} : Where'[r] = Where[r]
    BY <1>3, <2>1, SamePlaces DEF PlacesOf, sharedVars
  <2> HIDE DEF p, q, M
  <2> QED BY <1>1, <1>6, <2>2, <2>3, TasksMove DEF PInv
<1>8. CASE EndTask(c)
  <2> DEFINE q == <<"shared", "ended">>
  <2>1. UNCHANGED <<hand, irq_task>> /\ ended' = ended \cup M
    BY <1>8 DEF EndTask
  <2>2. Where'[q] = Where[q] \cup M
    BY <1>5, <2>1 DEF SharedSays
  <2>3. /\ q \in PlacesOf(c) /\ p # q
        /\ \A r \in PlacesOf(c) \ {p, q} : Where'[r] = Where[r]
    BY <1>3, <2>1, SamePlaces DEF PlacesOf, sharedVars
  <2> HIDE DEF p, q, M
  <2> QED BY <1>1, <1>6, <2>2, <2>3, TasksMove DEF PInv
<1>9. CASE WaitForInterrupt(c)
  <2> DEFINE q == <<"interrupt task", c>>
  <2>1. UNCHANGED <<hand, ended>> /\ irq_task[c] = None /\ irq_task'[c] = t
    BY <1>9 DEF WaitForInterrupt, PInv, IInv, TypeOK
  <2>2. Where[q] = {} /\ Where'[q] = M
    BY <1>1, <1>5, <2>1, NoneAssumption DEF CoreSays
  <2>3. /\ q \in PlacesOf(c) /\ p # q
        /\ \A r \in PlacesOf(c) \ {p, q} : Where'[r] = Where[r]
    BY <1>3, <2>1, SamePlaces DEF PlacesOf, sharedVars
  <2> HIDE DEF p, q, M
  <2> QED BY <1>1, <1>6, <2>2, <2>3, TasksMove DEF PInv
<1> QED BY <1>7, <1>8, <1>9

\* The task is saved as it was: masked, if tasks are put aside.
LEMMA StopPInv ==
  ASSUME PInv, NEW c \in Cores, CoreStep(c),
         Yield(c) \/ Sleep(c) \/ SwitchToCore(c) \/ EndTask(c) \/ WaitForInterrupt(c)
  PROVE  PInv' /\ (Aside => Aside')
<1> DEFINE t == Current(c)
<1>1. /\ Swi(c) /\ OthersSame(c) /\ SavedKept(c) /\ IInv' /\ Apart(Where)'
      /\ t \in Tasks /\ hand[c] = <<>> /\ TypeOK
  BY OthersOfStep, SavedOfStep, StopIInv, StopPlaces, SwiType
     DEF PInv, IInv, HandInv, HandSteps, Swi, Yield, Sleep, SwitchToCore, EndTask,
         WaitForInterrupt
<1>2. /\ running'[c] = Tail(running[c])
      /\ isRunning' = [isRunning EXCEPT ![t] = FALSE]
      /\ irqsOff' = [irqsOff EXCEPT ![t] = masked[c]]
      /\ UNCHANGED <<interrupted_tasks, masked, sharedVars, controller>>
  BY DEF Yield, Sleep, SwitchToCore, EndTask, WaitForInterrupt, StopFor, stop_running_task,
         PInv, IInv, TypeOK
<1>3. /\ t \in ToSet(running[c]) /\ IsInjective(running'[c])
      /\ ToSet(running'[c]) = ToSet(running[c]) \ {t}
  BY <1>1, <1>2, SwiType, TailedOnce DEF PInv, ListsOnce, Current
<1>4. \/ /\ step'[c] \in {"yield", "sleep", "switch"} /\ hand'[c] = <<t>>
         /\ irq_task' = irq_task
      \/ /\ step'[c] = "resume" /\ hand'[c] = <<>>
         /\ \/ irq_task' = irq_task
            \/ irq_task'[c] = t /\ masked[c]
  <2>1. CASE Yield(c) \/ Sleep(c) \/ SwitchToCore(c)
    BY <1>1, <2>1 DEF Yield, Sleep, SwitchToCore, StopFor, GoTo, TypeOK
  <2>2. CASE EndTask(c) \/ WaitForInterrupt(c)
    BY <1>1, <2>2 DEF EndTask, WaitForInterrupt, GoTo, TypeOK
  <2> QED BY <2>1, <2>2
<1>5. SharedOnce' /\ OneController'
  BY <1>2 DEF PInv, SharedOnce, OneController, sharedVars
<1>6. Asking'
  <2>1. CASE SwitchToCore(c)
    <3>1. /\ \A u \in Tasks \ {t} : r0'[u] = r0[u]
          /\ moving' = moving /\ step[c] = "usr"
          /\ step'[c] = "switch" /\ t \in ToSet(hand'[c])
      <4>1. hand'[c] = <<t>> /\ step'[c] = "switch"
        BY <1>1, <2>1 DEF SwitchToCore, StopFor, GoTo, TypeOK
      <4> QED BY <1>1, <2>1, <4>1, ShortLists DEF SwitchToCore, Swi, sharedVars, TypeOK
    <3> QED BY <1>1, <3>1 DEF PInv, Asking, OthersSame
  <2>2. CASE ~SwitchToCore(c)
    <3>1. UNCHANGED <<r0, moving>> /\ step[c] # "switch"
      BY <1>1, <1>2, <2>2 DEF Yield, Sleep, EndTask, WaitForInterrupt, Swi, sharedVars
    <3> QED BY <1>1, <3>1, AskingKept DEF PInv
  <2> QED BY <2>1, <2>2
<1>7. ListsOnce(c)' /\ HandInv(c)'
  <2>1. hand'[c] # <<>> => hand'[c] = <<t>> /\ step'[c] \in HandSteps
    BY <1>4 DEF HandSteps
  <2>2. IsInjective(hand'[c]) /\ Head(<<t>>) = t
    <3>1. IsInjective(<<t>>) /\ IsInjective(<<>>)
      BY ShortLists
    <3> QED BY <1>4, <3>1
  <2>3. step'[c] = "sleep" => hand'[c] = <<Head(hand'[c])>>
    BY <1>4, <2>2
  <2> QED BY <1>2, <1>3, <2>1, <2>2, <2>3 DEF PInv, ListsOnce, HandInv
<1>8. Aside => AsideInv(c)'
  <2> SUFFICES ASSUME Aside PROVE AsideInv(c)'
    OBVIOUS
  <2>1. interrupted_tasks[c] # <<>> => \A u \in ToSet(running'[c]) : irqsOff'[u]
    <3>1. ToSet(running[c]) \subseteq Tasks
      BY <1>1, OnOneCore DEF PInv
    <3> QED BY <1>1, <1>2, <1>3, <3>1 DEF PInv, Aside, AsideInv, TypeOK
  <2>2. irq_task'[c] # None => irqsOff'[irq_task'[c]]
    <3>1. CASE irq_task'[c] = t /\ masked[c]
      BY <1>1, <1>2, <3>1 DEF TypeOK
    <3>2. CASE irq_task' = irq_task
      <4>1. irq_task[c] \in Tasks \cup {None} /\ irq_task[c] # t
        BY <1>1, <1>3, OnOneCore DEF PInv, TypeOK
      <4> QED BY <1>1, <1>2, <3>2, <4>1 DEF PInv, Aside, AsideInv, TypeOK
    <3> QED BY <1>4, <3>1, <3>2
  <2> QED BY <1>2, <1>4, <2>1, <2>2 DEF Aside, AsideInv
<1>9. /\ \A u \in ToSet(running'[c]) : isRunning'[u] <=> Runs(c, u)'
      /\ \A u \in ToSet(running[c]) \ ToSet(running'[c]) : ~isRunning'[u]
      /\ \A u \in Tasks \ (ToSet(running[c]) \cup ToSet(running'[c])) :
           isRunning'[u] = isRunning[u]
  <2>1. /\ isRunning'[t] = FALSE
        /\ \A u \in Tasks \ {t} : isRunning'[u] = isRunning[u]
    BY <1>1, <1>2 DEF TypeOK
  <2>2. ToSet(running[c]) \subseteq Tasks
    BY <1>1, OnOneCore DEF PInv
  <2>3. \A u \in ToSet(running[c]) : isRunning[u] <=> Runs(c, u)
    BY <2>2, BitsOf DEF PInv
  <2>4. \A u : ~Runs(c, u)'
    BY <1>4 DEF Runs, Executing
  <2> QED BY <1>3, <2>1, <2>2, <2>3, <2>4 DEF Runs
<1> QED BY <1>1, <1>4, <1>5, <1>6, <1>7, <1>8, <1>9, PInvFrom

-----------------------------------------------------------------------------
\* The rest of such a SWI, and of ReleaseTask and Tick: what is in the core's
\* hand goes to a shared list, and only there.
LEMMA InsertPlaces ==
  ASSUME PInv, NEW c \in Cores, CoreStep(c),
         \/ YieldInsert(c) \/ SleepInsert(c) \/ SwitchInsert(c)
         \/ ReleaseInsert(c) \/ TickInsert(c)
  PROVE  Apart(Where)' /\ AtAll(Where)' = AtAll(Where) /\ SharedOnce'
<1> DEFINE p == <<"hand", c>>
           M == ToSet(hand[c])
<1>1. /\ hand'[c] = <<>> /\ Held' = Held
      /\ UNCHANGED <<running, idle, irq_task, interrupted_tasks, task_pool, taskVars>>
  BY DEF YieldInsert, SleepInsert, SwitchInsert, ReleaseInsert, TickInsert, taskVars,
         PInv, IInv, TypeOK, Held
<1>2. OthersSame(c)
  BY OthersOfStep DEF PInv
<1>3. CoreSays(c) /\ CoreSays(c)' /\ SharedSays /\ SharedSays'
  BY WhereIs
<1>4. p \in PlacesOf(c) /\ Where[p] = M /\ Where'[p] = Where[p] \ M /\ M \in SUBSET Where[p]
  BY ZenonT(40), <1>1, <1>3, ShortLists DEF CoreSays, PlacesOf
<1>5. /\ hand[c] \in Seq(Tasks) /\ IsInjective(hand[c])
      /\ runnable \in Seq(Tasks) /\ moving \in Seq(Tasks) /\ sleeping \in Seq(Tasks)
      /\ IsInjective(task_pool) /\ IsInjective(runnable)
      /\ IsInjective(moving) /\ IsInjective(sleeping)
  BY DEF PInv, IInv, TypeOK, ListsOnce, SharedOnce
<1>6. /\ M \cap ToSet(runnable) = {} /\ M \cap ToSet(moving) = {}
      /\ M \cap ToSet(sleeping) = {}
  <2>1. p \in PlaceNames /\ p # <<"shared", "runnable">> /\ p # <<"shared", "moving">>
        /\ p # <<"shared", "sleeping">>
    BY DEF PlaceNames
  <2> HIDE DEF p, M
  <2> QED BY <1>4, <2>1, Elsewhere DEF PInv
<1>7. CASE YieldInsert(c) \/ ReleaseInsert(c) \/ TickInsert(c)
  <2> DEFINE q == <<"shared", "runnable">>
  <2>1. runnable' = runnable \o hand[c] /\ UNCHANGED <<moving, sleeping>>
    BY <1>7 DEF YieldInsert, ReleaseInsert, TickInsert
  <2>2. IsInjective(runnable') /\ ToSet(runnable') = ToSet(runnable) \cup M
    BY <1>5, <1>6, <2>1, JoinedOnce
  <2>3. Where'[q] = Where[q] \cup M
    BY <1>3, <2>2 DEF SharedSays
  <2>4. /\ q \in PlacesOf(c) /\ p # q
        /\ \A r \in PlacesOf(c) \ {p, q} : Where'[r] = Where[r]
    BY <1>1, <2>1, SamePlaces DEF PlacesOf, taskVars
  <2>5. SharedOnce'
    BY <1>1, <1>5, <2>1, <2>2 DEF SharedOnce
  <2> HIDE DEF p, q, M
  <2> QED BY <1>2, <1>4, <2>3, <2>4, <2>5, TasksMove DEF PInv
<1>8. CASE SwitchInsert(c)
  <2> DEFINE q == <<"shared", "moving">>
  <2>1. moving' = moving \o hand[c] /\ UNCHANGED <<runnable, sleeping>>
    BY <1>8 DEF SwitchInsert
  <2>2. IsInjective(moving') /\ ToSet(moving') = ToSet(moving) \cup M
    BY <1>5, <1>6, <2>1, JoinedOnce
  <2>3. Where'[q] = Where[q] \cup M
    BY <1>3, <2>2 DEF SharedSays
  <2>4. /\ q \in PlacesOf(c) /\ p # q
        /\ \A r \in PlacesOf(c) \ {p, q} : Where'[r] = Where[r]
    BY <1>1, <2>1, SamePlaces DEF PlacesOf, taskVars
  <2>5. SharedOnce'
    BY <1>1, <1>5, <2>1, <2>2 DEF SharedOnce
  <2> HIDE DEF p, q, M
  <2> QED BY <1>2, <1>4, <2>3, <2>4, <2>5, TasksMove DEF PInv
<1>9. CASE SleepInsert(c)
  <2> DEFINE q == <<"shared", "sleeping">>
             t == Head(hand[c])
  <2>1. PICK i \in 1 .. Len(sleeping) + 1 : sleeping' = InsertAt(sleeping, i, t)
    BY <1>9 DEF SleepInsert
  <2>2. UNCHANGED <<runnable, moving>> /\ hand[c] = <<t>> /\ t \in Tasks /\ M = {t}
    <3>1. hand[c] = <<t>> /\ hand[c] # <<>>
      BY <1>9 DEF SleepInsert, PInv, HandInv
    <3>2. t \in Tasks
      BY <1>5, <3>1, Tailed
    <3> HIDE DEF t
    <3>3. M = {t}
      BY <3>1, ShortLists
    <3> QED BY <1>9, <3>1, <3>2, <3>3 DEF SleepInsert
  <2> HIDE DEF t
  <2>3. IsInjective(sleeping') /\ ToSet(sleeping') = ToSet(sleeping) \cup M
    BY <1>5, <1>6, <2>1, <2>2, InsertedOnce
  <2>4. Where'[q] = Where[q] \cup M
    BY <1>3, <2>3 DEF SharedSays
  <2>5. /\ q \in PlacesOf(c) /\ p # q
        /\ \A r \in PlacesOf(c) \ {p, q} : Where'[r] = Where[r]
    BY <1>1, <2>2, SamePlaces DEF PlacesOf, taskVars
  <2>6. SharedOnce'
    BY <1>1, <1>5, <2>2, <2>3 DEF SharedOnce
  <2> HIDE DEF p, q, M
  <2> QED BY <1>2, <1>4, <2>4, <2>5, <2>6, TasksMove DEF PInv
<1> QED BY <1>7, <1>8, <1>9

\* A core that goes on in user mode is still masked if tasks are put aside.
LEMMA InsertPInv ==
  ASSUME PInv, NEW c \in Cores, CoreStep(c),
         \/ YieldInsert(c) \/ SleepInsert(c) \/ SwitchInsert(c)
         \/ ReleaseInsert(c) \/ TickInsert(c)
  PROVE  PInv' /\ (Aside => Aside')
<1>1. /\ OthersSame(c) /\ SavedKept(c) /\ IInv' /\ Apart(Where)' /\ SharedOnce' /\ TypeOK
  BY OthersOfStep, SavedOfStep, InsertIInv, InsertPlaces DEF PInv, IInv
<1>2. /\ hand'[c] = <<>>
      /\ UNCHANGED <<running, irq_task, interrupted_tasks, masked, taskVars>>
      /\ \/ step[c] \in {"yield", "sleep", "switch"} /\ step'[c] = "resume"
         \/ step[c] \in {"release", "wake"} /\ step'[c] = "usr"
  BY <1>1 DEF YieldInsert, SleepInsert, SwitchInsert, ReleaseInsert, TickInsert, GoTo, TypeOK
<1>3. OneController'
  BY <1>2 DEF PInv, OneController, taskVars
<1>4. Asking'
  <2>1. CASE SwitchInsert(c)
    <3>1. ToSet(moving') = ToSet(moving) \cup ToSet(hand[c]) /\ r0' = r0
      BY <1>1, <1>2, <2>1, JoinedOnce DEF SwitchInsert, TypeOK, taskVars
    <3> QED BY <1>1, <3>1 DEF PInv, Asking, OthersSame
  <2>2. CASE ~SwitchInsert(c)
    BY <1>1, <1>2, <2>2, AskingKept
       DEF PInv, YieldInsert, SleepInsert, ReleaseInsert, TickInsert, taskVars
  <2> QED BY <2>1, <2>2
<1>5. ListsOnce(c)' /\ HandInv(c)'
  BY <1>2, ShortLists DEF PInv, ListsOnce, HandInv
<1>6. Aside => AsideInv(c)'
  BY <1>2 DEF PInv, Aside, AsideInv, taskVars
<1>7. ToSet(running[c]) \subseteq Tasks
  BY <1>1, OnOneCore DEF PInv
<1>8. \A u \in ToSet(running[c]) : isRunning[u] <=> Runs(c, u)
  BY <1>7, BitsOf DEF PInv
<1>9. \A u : Runs(c, u)' <=> Runs(c, u)
  BY <1>2 DEF Runs, Executing, Current
<1> QED BY <1>1, <1>2, <1>3, <1>4, <1>5, <1>6, <1>8, <1>9, PInvFrom DEF taskVars

-----------------------------------------------------------------------------
\* SWIs after which the running task goes on.

\* A task that is controlled has one controller, and is not free otherwise.
LEMMA HeldBy ==
  ASSUME PInv, NEW t \in Held
  PROVE  /\ t \in Tasks /\ controller[t] \in Seq(Tasks) /\ controller[t] # <<>>
         /\ Tail(controller[t]) = <<>>
         /\ \A c \in Cores : /\ t \notin ToSet(running[c]) /\ t # irq_task[c]
                             /\ t \notin ToSet(interrupted_tasks[c])
                             /\ t \notin ToSet(hand[c])
         /\ t \notin ToSet(runnable) /\ t \notin ToSet(moving) /\ t \notin ToSet(sleeping)
         /\ t \notin ToSet(task_pool)
<1>1. t \in Tasks /\ controller[t] \in Seq(Tasks) /\ controller[t] # <<>>
  BY DEF Held, PInv, IInv, TypeOK
<1>2. Tail(controller[t]) = <<>>
  <2>1. /\ Len(controller[t]) \in Nat \ {0} /\ Len(controller[t]) <= 1
        /\ Tail(controller[t]) \in Seq(Tasks)
        /\ Len(Tail(controller[t])) = Len(controller[t]) - 1
    BY <1>1, EmptySeq, HeadTailProperties DEF PInv, OneController
  <2> QED BY <2>1, EmptySeq
<1> DEFINE p == <<"shared", "held">>
<1>3. p \in PlaceNames /\ t \in Where[p]
  <2>1. 0 \in Cores
    BY CoresAssumption DEF Cores
  <2> QED BY <2>1, WhereIs DEF PlaceNames, SharedSays
<1>4. /\ \A c \in Cores : /\ p # <<"running", c>> /\ p # <<"interrupted", c>>
                          /\ p # <<"hand", c>> /\ p # <<"interrupt task", c>>
      /\ p # <<"shared", "pool">> /\ p # <<"shared", "runnable">>
      /\ p # <<"shared", "moving">> /\ p # <<"shared", "sleeping">>
  OBVIOUS
<1> HIDE DEF p
<1> QED BY <1>1, <1>2, <1>3, <1>4, Elsewhere DEF PInv

\* The released task is on this core's list, or in its hand, and not held.
LEMMA ReleasePlaces ==
  ASSUME PInv, NEW c \in Cores, ReleaseTask(c), OthersSame(c),
         NEW t \in Tasks, NEW off \in BOOLEAN, Controls(Current(c), t),
         controller' = [controller EXCEPT ![t] = pop_controller(@)],
         IF off THEN /\ running' = [running EXCEPT ![c] = InsertAt(@, 2, t)]
                     /\ UNCHANGED <<step, hand>>
                ELSE /\ hand' = [hand EXCEPT ![c] = <<t>>]
                     /\ GoTo(c, "release")
                     /\ UNCHANGED running
  PROVE  /\ Apart(Where)' /\ AtAll(Where)' = AtAll(Where) /\ OneController'
         /\ off => /\ ToSet(running'[c]) = ToSet(running[c]) \cup {t}
                   /\ IsInjective(running'[c]) /\ Current(c)' = Current(c)
<1> DEFINE p == <<"shared", "held">>
           M == {t}
<1>1. t \in Held /\ Swi(c) /\ TypeOK
  BY DEF Controls, Held, ReleaseTask, PInv, IInv
<1>2. /\ controller'[t] = <<>> /\ controller' \in [Tasks -> Seq(Tasks)]
      /\ \A u \in Tasks \ {t} : controller'[u] = controller[u]
  <2>1. pop_controller(controller[t]) = <<>>
    BY <1>1, HeldBy DEF pop_controller
  <2> QED BY <1>1, <2>1 DEF TypeOK
<1>3. Held' = Held \ M
  BY <1>2 DEF Held
<1>4. OneController'
  <2>1. Len(<<>>) = 0
    OBVIOUS
  <2> QED BY <1>2, <2>1 DEF PInv, OneController
<1>5. CoreSays(c) /\ CoreSays(c)' /\ SharedSays /\ SharedSays'
  BY WhereIs
<1>6. p \in PlacesOf(c) /\ Where'[p] = Where[p] \ M /\ M \in SUBSET Where[p]
  BY <1>1, <1>3, <1>5 DEF SharedSays, PlacesOf
<1>7. UNCHANGED <<irq_task, interrupted_tasks, task_pool, runnable, moving, sleeping, ended>>
  BY DEF ReleaseTask, sharedVars
<1>8. CASE off
  <2> DEFINE q == <<"running", c>>
  <2>1. running'[c] = InsertAt(running[c], 2, t) /\ hand' = hand
    BY <1>1, <1>8 DEF TypeOK
  <2>2. /\ ToSet(running'[c]) = ToSet(running[c]) \cup M
        /\ IsInjective(running'[c]) /\ Current(c)' = Current(c)
    <3>1. /\ running[c] \in Seq(Tasks) /\ 2 <= Len(running[c]) /\ running[c] # <<>>
          /\ IsInjective(running[c]) /\ t \notin ToSet(running[c])
      BY <1>1, SwiType, HeldBy DEF PInv, ListsOnce
    <3>2. 2 \in 1 .. Len(running[c]) + 1
      BY <3>1, LenProperties
    <3> QED BY <2>1, <3>1, <3>2, InsertedOnce DEF Current
  <2>3. Where'[q] = Where[q] \cup M
    BY <1>5, <2>2 DEF CoreSays
  <2>4. /\ q \in PlacesOf(c) /\ p # q
        /\ \A r \in PlacesOf(c) \ {p, q} : Where'[r] = Where[r]
    BY <1>7, <2>1, SamePlaces DEF PlacesOf
  <2> HIDE DEF p, q, M
  <2>5. Apart(Where)' /\ AtAll(Where)' = AtAll(Where)
    BY <1>6, <2>3, <2>4, TasksMove DEF PInv
  <2> QED BY <1>4, <2>2, <2>5 DEF M
<1>9. CASE ~off
  <2> DEFINE q == <<"hand", c>>
  <2>1. hand[c] = <<>> /\ hand'[c] = <<t>> /\ running' = running
    BY <1>1, <1>9 DEF TypeOK, PInv, HandInv, HandSteps, Swi
  <2>2. Where[q] = {} /\ Where'[q] = M
    BY <1>5, <2>1, ShortLists DEF CoreSays
  <2>3. /\ q \in PlacesOf(c) /\ p # q
        /\ \A r \in PlacesOf(c) \ {p, q} : Where'[r] = Where[r]
    BY <1>7, <2>1, SamePlaces DEF PlacesOf
  <2> HIDE DEF p, q, M
  <2>4. Apart(Where)' /\ AtAll(Where)' = AtAll(Where)
    BY <1>6, <2>2, <2>3, TasksMove DEF PInv
  <2> QED BY <1>4, <1>9, <2>4
<1> QED BY <1>8, <1>9

\* A task that stays on a core where others are put aside is masked.
LEMMA ReleasePInv ==
  ASSUME PInv, NEW c \in Cores, ReleaseTask(c)
  PROVE  PInv' /\ (Aside => Aside') /\ AtAll(Where)' = AtAll(Where)
<1>1. PICK t \in Tasks, off \in BOOLEAN :
        /\ Controls(Current(c), t)
        /\ controller' = [controller EXCEPT ![t] = pop_controller(@)]
        /\ irqsOff' = [irqsOff EXCEPT ![t] = off]
        /\ IF off THEN /\ running' = [running EXCEPT ![c] = InsertAt(@, 2, t)]
                       /\ UNCHANGED <<step, hand>>
                  ELSE /\ hand' = [hand EXCEPT ![c] = <<t>>]
                       /\ GoTo(c, "release")
                       /\ UNCHANGED running
  BY DEF ReleaseTask
<1>2. /\ OthersSame(c) /\ SavedKept(c) /\ IInv' /\ TypeOK /\ Swi(c)
      /\ UNCHANGED <<irq_task, interrupted_tasks, masked, sharedVars, isRunning, r0>>
  BY OthersOfStep, SavedOfStep, ReleaseIInv
     DEF CoreStep, OrdinarySwi, PInv, IInv, ReleaseTask
<1>3. /\ Apart(Where)' /\ AtAll(Where)' = AtAll(Where) /\ OneController'
      /\ off => /\ ToSet(running'[c]) = ToSet(running[c]) \cup {t}
                /\ IsInjective(running'[c]) /\ Current(c)' = Current(c)
  BY <1>1, <1>2, ReleasePlaces
<1>4. /\ t \in Held /\ hand[c] = <<>> /\ step[c] = "usr"
      /\ t \notin ToSet(running[c]) /\ irq_task[c] # t
  <2>1. t \in Held
    BY <1>1 DEF Controls, Held
  <2> QED BY <1>2, <2>1, HeldBy DEF PInv, HandInv, HandSteps, Swi
<1>5. \/ off /\ step'[c] = "usr" /\ hand'[c] = <<>>
      \/ ~off /\ step'[c] = "release" /\ hand'[c] = <<t>> /\ running' = running
  BY <1>1, <1>2, <1>4 DEF GoTo, TypeOK
<1>6. SharedOnce' /\ Asking'
  <2>1. SharedOnce'
    BY <1>2 DEF PInv, SharedOnce, sharedVars
  <2>2. Asking'
    BY <1>2, <1>4, AskingKept DEF PInv, sharedVars
  <2> QED BY <2>1, <2>2
<1>7. ListsOnce(c)' /\ HandInv(c)'
  <2>1. IsInjective(<<t>>) /\ IsInjective(<<>>)
    BY ShortLists
  <2>2. IsInjective(running'[c])
    BY <1>3, <1>5 DEF PInv, ListsOnce
  <2> QED BY <1>2, <1>5, <2>1, <2>2 DEF PInv, ListsOnce, HandInv, HandSteps
<1>8. /\ ToSet(running[c]) \subseteq Tasks
      /\ irqsOff'[t] = off /\ \A u \in Tasks \ {t} : irqsOff'[u] = irqsOff[u]
  BY <1>1, <1>2, OnOneCore DEF PInv, TypeOK
<1>9. Aside => AsideInv(c)'
  <2> SUFFICES ASSUME Aside PROVE AsideInv(c)'
    OBVIOUS
  <2>1. interrupted_tasks[c] # <<>> => \A u \in ToSet(running'[c]) : irqsOff'[u]
    BY <1>3, <1>4, <1>5, <1>8 DEF PInv, Aside, AsideInv
  <2>2. irq_task[c] # None => irqsOff'[irq_task[c]]
    <3>1. irq_task[c] \in Tasks \cup {None} /\ (irq_task[c] # None => irqsOff[irq_task[c]])
      BY <1>2 DEF PInv, Aside, AsideInv, TypeOK
    <3> QED BY <1>4, <1>8, <3>1
  <2> QED BY <1>2, <1>4, <1>5, <2>1, <2>2 DEF PInv, Aside, AsideInv
<1>10. \A u \in ToSet(running[c]) : isRunning[u] <=> Runs(c, u)
  BY <1>8, BitsOf DEF PInv
<1>11. Current(c)' = Current(c) /\ Current(c) \in ToSet(running[c])
  <2>1. Current(c) \in ToSet(running[c])
    BY <1>4, CurrentIsOn DEF PInv
  <2> QED BY <1>3, <1>5, <2>1 DEF Current
<1>12. ~isRunning[t]
  <2>1. \A d \in Cores : t \notin ToSet(running[d])
    BY <1>4, HeldBy
  <2> QED BY <2>1, BitsOf, CoresAssumption DEF PInv
<1>13. \A u \in ToSet(running'[c]) : isRunning'[u] <=> Runs(c, u)'
  <2>1. \A u : Runs(c, u)' <=> Runs(c, u)
    BY <1>4, <1>5, <1>11 DEF Runs, Executing
  <2>2. ~Runs(c, t)
    BY <1>4, <1>11 DEF Runs
  <2> QED BY <1>2, <1>3, <1>5, <1>10, <1>12, <2>1, <2>2
<1>14. \A u \in ToSet(running[c]) \ ToSet(running'[c]) : ~isRunning'[u]
  BY <1>3, <1>5
<1> QED BY <1>2, <1>3, <1>5, <1>6, <1>7, <1>9, <1>13, <1>14, PInvFrom

\* No task begins to execute or stops.
LEMMA SameBits ==
  ASSUME PInv, NEW c \in Cores, isRunning' = isRunning,
         ToSet(running'[c]) = ToSet(running[c]), Current(c)' = Current(c),
         step[c] \in Executing <=> step'[c] \in Executing
  PROVE  /\ \A u \in ToSet(running'[c]) : isRunning'[u] <=> Runs(c, u)'
         /\ \A u \in ToSet(running[c]) \ ToSet(running'[c]) : ~isRunning'[u]
<1>1. ToSet(running[c]) \subseteq Tasks
  BY OnOneCore DEF PInv
<1>2. \A u \in ToSet(running[c]) : isRunning[u] <=> Runs(c, u)
  BY <1>1, BitsOf DEF PInv
<1>3. \A u : Runs(c, u)' <=> Runs(c, u)
  BY DEF Runs
<1> QED BY <1>2, <1>3

\* The new task is out of the pool, and held by the one that created it;
\* a held task stays held when its controller changes.
LEMMA ControllerPlaces ==
  ASSUME PInv, NEW c \in Cores, Create(c) \/ ChangeController(c), OthersSame(c)
  PROVE  /\ Apart(Where)' /\ AtAll(Where)' = AtAll(Where)
         /\ OneController' /\ SharedOnce'
<1>1. /\ TypeOK /\ Swi(c) /\ Current(c) \in Tasks
      /\ UNCHANGED <<coreVars, runnable, moving, sleeping, ended>>
  BY SwiType DEF Create, ChangeController, PInv, IInv, sharedVars
<1>2. CASE Create(c)
  <2> DEFINE t == Head(task_pool)
             p == <<"shared", "pool">>
             q == <<"shared", "held">>
             M == {t}
  <2>1. /\ t \in Tasks /\ t \in ToSet(task_pool) /\ ToSet(task_pool') = ToSet(task_pool) \ M
        /\ IsInjective(task_pool')
    BY <1>1, <1>2, TailedOnce DEF Create, PInv, SharedOnce, TypeOK
  <2>2. controller' = [controller EXCEPT ![t] = <<Current(c)>>]
    BY <1>2 DEF Create, push_controller
  <2> HIDE DEF t
  <2>3. Held' = Held \cup M /\ OneController'
    <3>1. /\ controller'[t] = <<Current(c)>> /\ <<Current(c)>> # <<>>
          /\ Len(<<Current(c)>>) <= 1
          /\ \A u \in Tasks \ {t} : controller'[u] = controller[u]
      BY <1>1, <2>1, <2>2 DEF TypeOK
    <3> QED BY <2>1, <3>1 DEF Held, PInv, OneController
  <2>4. CoreSays(c) /\ CoreSays(c)' /\ SharedSays /\ SharedSays'
    BY WhereIs
  <2>5. /\ Where'[p] = Where[p] \ M /\ M \in SUBSET Where[p] /\ Where'[q] = Where[q] \cup M
    BY <2>1, <2>3, <2>4 DEF SharedSays
  <2>6. /\ p \in PlacesOf(c) /\ q \in PlacesOf(c) /\ p # q
        /\ \A r \in PlacesOf(c) \ {p, q} : Where'[r] = Where[r]
    BY <1>1, SamePlaces DEF PlacesOf, coreVars
  <2>7. SharedOnce'
    BY <1>1, <2>1 DEF PInv, SharedOnce
  <2> HIDE DEF p, q, M
  <2> QED BY <2>3, <2>5, <2>6, <2>7, TasksMove DEF PInv
<1>3. CASE ChangeController(c)
  <2>1. PICK t \in Tasks, new \in Tasks :
          /\ Controls(Current(c), t)
          /\ controller' = [controller EXCEPT ![t] = <<new>> \o Tail(@)]
    BY <1>3 DEF ChangeController
  <2>2. t \in Held
    BY <2>1 DEF Controls, Held
  <2>3. Tail(controller[t]) = <<>>
    BY <2>2, HeldBy
  <2>4. /\ controller'[t] = <<new>> \o <<>>
        /\ \A u \in Tasks \ {t} : controller'[u] = controller[u]
    BY <1>1, <2>1, <2>3 DEF TypeOK
  <2>5. controller'[t] # <<>> /\ Len(controller'[t]) <= 1
    <3> DEFINE w == <<new>> \o <<>>
    <3>1. <<>> \in Seq(Tasks) /\ <<new>> \in Seq(Tasks) /\ Len(<<>>) = 0 /\ Len(<<new>>) = 1
      OBVIOUS
    <3>2. w # <<>> /\ Len(w) = 1
      <4>1. w # <<>>
        BY <2>1, <3>1, Prefixed
      <4>2. Len(w) = Len(<<new>>) + Len(<<>>)
        BY <3>1, Joined
      <4> QED BY <3>1, <4>1, <4>2
    <3> QED BY <2>4, <3>2
  <2>6. Held' = Held /\ OneController' /\ task_pool' = task_pool
    BY <1>3, <2>2, <2>4, <2>5 DEF Held, PInv, OneController, ChangeController, sharedVars
  <2>7. \A r \in PlacesOf(c) : Where'[r] = Where[r]
    BY <1>1, <2>6, SamePlaces DEF PlacesOf, coreVars
  <2>8. Where' = Where
    BY <2>7, NothingMoves
  <2>9. SharedOnce'
    BY <1>1, <2>6 DEF PInv, SharedOnce
  <2> QED BY <2>6, <2>8, <2>9 DEF PInv, Apart, AtAll
<1> QED BY <1>2, <1>3

\* Neither is on a core.
LEMMA ControllerPInv ==
  ASSUME PInv, NEW c \in Cores, Create(c) \/ ChangeController(c)
  PROVE  PInv' /\ (Aside => Aside') /\ AtAll(Where)' = AtAll(Where)
<1>1. /\ OthersSame(c) /\ SavedKept(c) /\ IInv' /\ TypeOK /\ step[c] = "usr"
      /\ UNCHANGED <<coreVars, runnable, moving, sleeping, isRunning, r0>>
  BY OthersOfStep, SavedOfStep, ControllerIInv
     DEF CoreStep, OrdinarySwi, PInv, IInv, Create, ChangeController, Swi, sharedVars
<1>2. /\ Apart(Where)' /\ AtAll(Where)' = AtAll(Where) /\ OneController' /\ SharedOnce'
  BY <1>1, ControllerPlaces
<1>3. Asking'
  BY <1>1, AskingKept DEF PInv
<1>4. ListsOnce(c)' /\ HandInv(c)'
  BY <1>1 DEF PInv, ListsOnce, HandInv, coreVars
<1>5. \/ irqsOff' = irqsOff
      \/ task_pool # <<>> /\ irqsOff' = [irqsOff EXCEPT ![Head(task_pool)] = FALSE]
  BY DEF Create, ChangeController
<1>6. Aside => AsideInv(c)'
  <2> SUFFICES ASSUME Aside PROVE AsideInv(c)'
    OBVIOUS
  <2>1. ASSUME task_pool # <<>>
        PROVE  Head(task_pool) \notin ToSet(running[c]) /\ irq_task[c] # Head(task_pool)
    <3>1. Head(task_pool) \in ToSet(task_pool) /\ Head(task_pool) \in Tasks
      BY <1>1, <2>1, Tailed DEF TypeOK
    <3> QED BY <3>1, OnOneCore, WaitsForInterrupt DEF PInv
  <2>2. ToSet(running[c]) \subseteq Tasks
    BY OnOneCore DEF PInv
  <2>3. irq_task[c] \in Tasks \cup {None} /\ irqsOff \in [Tasks -> BOOLEAN]
    BY <1>1 DEF TypeOK
  <2>4. /\ \A u \in ToSet(running[c]) : irqsOff'[u] = irqsOff[u]
        /\ irq_task[c] # None => irqsOff'[irq_task[c]] = irqsOff[irq_task[c]]
    BY <1>5, <2>1, <2>2, <2>3
  <2> QED BY <1>1, <2>4 DEF PInv, Aside, AsideInv, coreVars
<1>7. /\ \A u \in ToSet(running'[c]) : isRunning'[u] <=> Runs(c, u)'
      /\ \A u \in ToSet(running[c]) \ ToSet(running'[c]) : ~isRunning'[u]
  BY <1>1, SameBits DEF coreVars, Current
<1> QED BY <1>1, <1>2, <1>3, <1>4, <1>6, <1>7, PInvFrom DEF coreVars

-----------------------------------------------------------------------------
\* No task moves.
LEMMA KeepingPInv ==
  ASSUME PInv, NEW c \in Cores,
         EnablingInterrupts(c) \/ SwiPanics(c) \/ IrqFails(c) \/ Resume(c)
  PROVE  PInv' /\ (Aside => Aside') /\ AtAll(Where)' = AtAll(Where)
<1>1. /\ OthersSame(c) /\ SavedKept(c) /\ IInv' /\ TypeOK /\ step[c] \in {"usr", "resume"}
      /\ UNCHANGED <<running, irq_task, interrupted_tasks, hand, sharedVars, irqsOff, r0,
                     controller, ended>>
  BY OthersOfStep, SavedOfStep, KeepingIInv
     DEF CoreStep, OrdinarySwi, InterruptSwi, Interrupt, Kernel, PInv, IInv, SwiPanics,
         EnablingInterrupts, IrqFails, Resume, Swi, Panic, taskVars
<1>2. /\ hand[c] = <<>>
      /\ step'[c] \in {"usr", "panic"}
      /\ (step'[c] = "usr" /\ ~masked'[c]) =>
           \/ masked'[c] = masked[c] /\ step[c] = "usr"
           \/ masked'[c] = irqsOff[Current(c)]
  BY <1>1 DEF PInv, HandInv, HandSteps, EnablingInterrupts, SwiPanics, IrqFails, Resume,
              Swi, Panic, GoTo, TypeOK
<1>3. \A r \in PlacesOf(c) : Where'[r] = Where[r]
  BY <1>1, SamePlaces DEF PlacesOf, sharedVars, Held
<1>4. Where' = Where
  BY <1>1, <1>3, NothingMoves
<1>5. Apart(Where)' /\ AtAll(Where)' = AtAll(Where)
  BY <1>4 DEF PInv, Apart, AtAll
<1>6. SharedOnce' /\ OneController'
  BY <1>1 DEF PInv, SharedOnce, OneController, sharedVars
<1>7. Asking'
  BY <1>1, AskingKept DEF PInv, sharedVars
<1>8. ListsOnce(c)' /\ HandInv(c)'
  BY <1>1, <1>2 DEF PInv, ListsOnce, HandInv
<1>9. Current(c) \in ToSet(running[c]) /\ ToSet(running[c]) \subseteq Tasks
  BY <1>1, CurrentIsOn, OnOneCore DEF PInv
<1>10. Aside => AsideInv(c)'
  BY <1>1, <1>2, <1>9 DEF PInv, Aside, AsideInv
<1>11. /\ \A u \in ToSet(running'[c]) : isRunning'[u] <=> Runs(c, u)'
       /\ \A u \in ToSet(running[c]) \ ToSet(running'[c]) : ~isRunning'[u]
       /\ \A u \in Tasks \ ToSet(running[c]) : isRunning'[u] = isRunning[u]
  <2>1. CASE isRunning' = isRunning /\ step[c] = "usr"
    BY <1>1, <1>2, <2>1, SameBits DEF Current, Executing
  <2>2. CASE Resume(c)
    <3>1. /\ isRunning'[Current(c)] = TRUE
          /\ \A u \in Tasks \ {Current(c)} : isRunning'[u] = isRunning[u]
      BY <1>1, <1>9, <2>2 DEF Resume, TypeOK
    <3>2. \A u \in ToSet(running[c]) : ~isRunning[u]
      BY <1>9, <2>2, BitsOf DEF PInv, Resume, Runs, Executing
    <3>3. \A u : Runs(c, u)' <=> u = Current(c)
      BY <1>1, <1>2 DEF Runs, Executing, Current
    <3> QED BY <1>1, <1>9, <3>1, <3>2, <3>3
  <2> QED
    BY <2>1, <2>2 DEF EnablingInterrupts, SwiPanics, IrqFails, Swi, Panic, taskVars
<1> QED BY <1>1, <1>2, <1>5, <1>6, <1>7, <1>8, <1>10, <1>11, PInvFrom

\* The first n sleeping tasks are in the core's hand.
LEMMA TickPInv ==
  ASSUME PInv, NEW c \in Cores, Tick(c)
  PROVE  PInv' /\ (Aside => Aside') /\ AtAll(Where)' = AtAll(Where)
<1>1. PICK n \in 1 .. Len(sleeping) :
        /\ hand' = [hand EXCEPT ![c] = SubSeq(sleeping, 1, n)]
        /\ sleeping' = SubSeq(sleeping, n + 1, Len(sleeping))
  BY DEF Tick
<1>2. /\ OthersSame(c) /\ SavedKept(c) /\ IInv' /\ TypeOK
      /\ step[c] = "usr" /\ step'[c] = "wake" /\ hand[c] = <<>>
      /\ UNCHANGED <<running, irq_task, interrupted_tasks, masked, task_pool, runnable,
                     moving, taskVars>>
  BY OthersOfStep, SavedOfStep, TickIInv
     DEF CoreStep, InterruptSwi, PInv, IInv, TypeOK, Tick, Swi, GoTo, HandInv, HandSteps
<1> DEFINE p == <<"shared", "sleeping">>
           q == <<"hand", c>>
           M == ToSet(hand'[c])
<1>3. /\ ToSet(sleeping) = M \cup ToSet(sleeping') /\ M \cap ToSet(sleeping') = {}
      /\ IsInjective(hand'[c]) /\ IsInjective(sleeping')
  <2>1. n \in 0 .. Len(sleeping) /\ hand'[c] = SubSeq(sleeping, 1, n)
    BY <1>1, <1>2, LenProperties DEF TypeOK
  <2> QED BY <1>1, <1>2, <2>1, CutOnce DEF TypeOK, PInv, SharedOnce
<1>4. CoreSays(c) /\ CoreSays(c)' /\ SharedSays /\ SharedSays'
  BY WhereIs
<1>5. /\ p \in PlacesOf(c) /\ q \in PlacesOf(c) /\ p # q
      /\ M \in SUBSET Where[p] /\ Where'[p] = Where[p] \ M
  BY <1>3, <1>4 DEF PlacesOf, SharedSays
<1>6. Where'[q] = Where[q] \cup M
  BY ZenonT(40), <1>2, <1>4, ShortLists DEF CoreSays
<1>7. \A r \in PlacesOf(c) \ {p, q} : Where'[r] = Where[r]
  BY <1>2, SamePlaces DEF PlacesOf, taskVars, Held
<1>8. Apart(Where)' /\ AtAll(Where)' = AtAll(Where)
  <2> HIDE DEF p, q, M
  <2> QED BY <1>2, <1>5, <1>6, <1>7, TasksMove DEF PInv
<1>9. SharedOnce' /\ OneController' /\ Asking'
  <2>1. SharedOnce' /\ OneController'
    BY <1>2, <1>3 DEF PInv, SharedOnce, OneController, taskVars
  <2>2. Asking'
    BY <1>2, AskingKept DEF PInv, taskVars
  <2> QED BY <2>1, <2>2
<1>10. ListsOnce(c)' /\ HandInv(c)' /\ (Aside => AsideInv(c)')
  BY <1>2, <1>3 DEF PInv, ListsOnce, HandInv, HandSteps, Aside, AsideInv, taskVars
<1>11. /\ \A u \in ToSet(running'[c]) : isRunning'[u] <=> Runs(c, u)'
       /\ \A u \in ToSet(running[c]) \ ToSet(running'[c]) : ~isRunning'[u]
  BY <1>2, SameBits DEF Current, Executing, taskVars
<1> QED BY <1>2, <1>8, <1>9, <1>10, <1>11, PInvFrom DEF taskVars

-----------------------------------------------------------------------------
\* The idle task yields.  What is on the core stays there...
LEMMA IdleKeepsPInv ==
  ASSUME PInv, NEW c \in Cores, IdleToNext(c) \/ IdleLooks(c)
  PROVE  PInv' /\ (Aside => Aside') /\ AtAll(Where)' = AtAll(Where)
<1>1. /\ OthersSame(c) /\ SavedKept(c) /\ IInv' /\ TypeOK /\ IdleYields(c)
      /\ step'[c] \in {"resume", "find moving"}
      /\ isRunning' = [isRunning EXCEPT ![idle[c]] = FALSE]
      /\ UNCHANGED <<irq_task, interrupted_tasks, hand, masked, sharedVars, r0, controller,
                     ended>>
  BY OthersOfStep, SavedOfStep, IdleToNextIInv, IdleLooksIInv
     DEF CoreStep, IdleYield, PInv, IInv, TypeOK, IdleToNext, IdleLooks, GoTo
<1>2. /\ idle[c] \in Tasks /\ running[c] \in Seq(Tasks) /\ running[c] # <<>>
      /\ idle[c] \in ToSet(running[c]) /\ Current(c) = idle[c]
      /\ step[c] = "usr" /\ hand[c] = <<>>
  <2>1. step[c] = "usr" /\ Current(c) = idle[c]
    BY <1>1 DEF IdleYields
  <2>2. idle[c] \in Tasks /\ running[c] \in Seq(Tasks) /\ running[c] # <<>>
    BY <1>1, IdleType DEF PInv
  <2>3. idle[c] \in ToSet(running[c])
    BY <2>1, CurrentIsOn DEF PInv
  <2>4. hand[c] = <<>>
    BY <2>1 DEF PInv, HandInv, HandSteps
  <2> QED BY <2>1, <2>2, <2>3, <2>4
<1>3. ToSet(running'[c]) = ToSet(running[c]) /\ IsInjective(running'[c])
  <2>1. running'[c] = running[c] \/ running'[c] = Tail(running[c]) \o <<Head(running[c])>>
    BY <1>1 DEF IdleToNext, IdleLooks, Rotate, TypeOK
  <2> QED BY <1>2, <2>1, RotatedOnce DEF PInv, ListsOnce
<1>4. \A r \in PlacesOf(c) : Where'[r] = Where[r]
  BY <1>1, <1>3, SamePlaces DEF PlacesOf, sharedVars, Held
<1>5. Where' = Where
  BY <1>1, <1>4, NothingMoves
<1>6. Apart(Where)' /\ AtAll(Where)' = AtAll(Where)
  BY <1>5 DEF PInv, Apart, AtAll
<1>7. SharedOnce' /\ OneController'
  BY <1>1 DEF PInv, SharedOnce, OneController, sharedVars
<1>8. Asking'
  BY <1>1, <1>2, AskingKept DEF PInv, sharedVars
<1>9. ListsOnce(c)' /\ HandInv(c)'
  BY <1>1, <1>2, <1>3 DEF PInv, ListsOnce, HandInv
<1>10. Aside => AsideInv(c)'
  <2> SUFFICES ASSUME Aside PROVE AsideInv(c)'
    OBVIOUS
  <2>1. CASE IdleToNext(c)
    BY <1>1, <1>3, <2>1 DEF PInv, Aside, AsideInv, IdleToNext, GoTo, TypeOK
  <2>2. CASE IdleLooks(c)
    <3>1. interrupted_tasks[c] = <<>>
      BY <1>2, <2>2 DEF IdleLooks, PInv, Aside, AsideInv
    <3>2. irq_task[c] # idle[c] /\ irq_task[c] \in Tasks \cup {None}
      BY <1>1, <1>2, OnOneCore DEF PInv, TypeOK
    <3>3. irq_task[c] # None => irqsOff'[irq_task[c]] = irqsOff[irq_task[c]]
      BY <1>1, <1>2, <2>2, <3>2 DEF IdleLooks, TypeOK
    <3> QED BY <1>1, <3>1, <3>3 DEF PInv, Aside, AsideInv
  <2> QED BY <2>1, <2>2
<1>11. /\ \A u \in ToSet(running'[c]) : isRunning'[u] <=> Runs(c, u)'
       /\ \A u \in ToSet(running[c]) \ ToSet(running'[c]) : ~isRunning'[u]
       /\ \A u \in Tasks \ ToSet(running[c]) : isRunning'[u] = isRunning[u]
  <2>1. ToSet(running[c]) \subseteq Tasks
    BY OnOneCore DEF PInv
  <2>2. \A u \in ToSet(running[c]) : isRunning[u] <=> Runs(c, u)
    BY <2>1, BitsOf DEF PInv
  <2>3. /\ isRunning'[idle[c]] = FALSE
        /\ \A u \in Tasks \ {idle[c]} : isRunning'[u] = isRunning[u]
    BY <1>1, <1>2 DEF TypeOK
  <2>4. \A u : Runs(c, u) => u = idle[c]
    BY <1>2 DEF Runs
  <2>5. \A u : ~Runs(c, u)'
    BY <1>1 DEF Runs, Executing
  <2> QED BY <1>2, <1>3, <2>1, <2>2, <2>3, <2>4, <2>5
<1> QED BY <1>1, <1>3, <1>6, <1>7, <1>8, <1>9, <1>10, <1>11, PInvFrom

\* ... and the tasks put aside come back: no task is on the core but the idle one.
LEMMA IdleEndsInterruptPInv ==
  ASSUME PInv, NEW c \in Cores, IdleEndsInterrupt(c)
  PROVE  PInv' /\ (Aside => Aside') /\ AtAll(Where)' = AtAll(Where)
<1> DEFINE p == <<"interrupted", c>>
           q == <<"running", c>>
           M == ToSet(interrupted_tasks[c])
           i == idle[c]
<1>1. /\ OthersSame(c) /\ SavedKept(c) /\ IInv' /\ TypeOK /\ IdleYields(c) /\ Alone(c)
      /\ UNCHANGED <<idle, irq_task, step, hand, sharedVars, taskVars>>
  BY OthersOfStep, SavedOfStep, IdleEndsInterruptIInv
     DEF CoreStep, IdleYield, PInv, IInv, IdleEndsInterrupt
<1>2. /\ i \in Tasks /\ running[c] = <<i>> /\ Current(c) = i
      /\ step[c] = "usr" /\ hand[c] = <<>> /\ interrupted_tasks[c] \in Seq(Tasks)
  BY <1>1, IdleType DEF PInv, IdleYields, HandInv, HandSteps, TypeOK
<1>3. i \notin M /\ \A u \in M, d \in Cores : u \notin ToSet(running[d])
  <2>1. i \in ToSet(running[c])
    BY <1>2, CurrentIsOn DEF PInv
  <2> QED BY <2>1, OnOneCore DEF PInv
<1>4. /\ interrupted_tasks'[c] = <<>>
      /\ ToSet(running'[c]) = {i} \cup M /\ IsInjective(running'[c]) /\ Current(c)' = i
  <2>1. CASE interrupted_tasks[c] = <<>>
    <3>1. M = {} /\ ToSet(<<i>>) = {i}
      BY <2>1, ShortLists
    <3> QED BY <1>2, <2>1, <3>1 DEF IdleEndsInterrupt, PInv, ListsOnce, Current
  <2>2. CASE interrupted_tasks[c] # <<>>
    <3> DEFINE back == Tail(interrupted_tasks[c]) \o <<Head(interrupted_tasks[c])>>
    <3>1. interrupted_tasks'[c] = <<>> /\ running'[c] = <<i>> \o back
      BY <1>1, <2>2 DEF IdleEndsInterrupt, Rotate, TypeOK
    <3>2. back \in Seq(Tasks) /\ ToSet(back) = M /\ IsInjective(back)
      BY <1>2, <2>2, Rotated, RotatedOnce DEF PInv, ListsOnce
    <3> DEFINE one == <<i>>
    <3>3. one \in Seq(Tasks) /\ ToSet(one) = {i} /\ IsInjective(one)
      BY <1>2, ShortLists
    <3>4. Head(one \o back) = i
      <4> HIDE DEF back
      <4> QED BY <1>2, <3>2, Prefixed
    <3> HIDE DEF back, M, i, one
    <3>5. i \notin M
      BY <1>3
    <3>6. /\ ToSet(one \o back) = {i} \cup M /\ IsInjective(one \o back)
      BY <3>2, <3>3, <3>5, JoinedOnce
    <3> QED BY <3>1, <3>4, <3>6 DEF Current, one
  <2> QED BY <2>1, <2>2
<1>5. CoreSays(c) /\ CoreSays(c)' /\ SharedSays /\ SharedSays'
  BY WhereIs
<1>6. /\ p \in PlacesOf(c) /\ q \in PlacesOf(c) /\ p # q
      /\ Where'[p] = Where[p] \ M /\ M \in SUBSET Where[p] /\ Where'[q] = Where[q] \cup M
  <2>1. Where'[p] = {} /\ Where[p] = M
    BY <1>4, <1>5, ShortLists DEF CoreSays
  <2>2. Where[q] = {i} /\ Where'[q] = {i} \cup M
    BY <1>2, <1>4, <1>5, ShortLists DEF CoreSays
  <2> QED BY <2>1, <2>2 DEF PlacesOf
<1>7. \A r \in PlacesOf(c) \ {p, q} : Where'[r] = Where[r]
  BY <1>1, SamePlaces DEF PlacesOf, taskVars, sharedVars, Held
<1>8. Apart(Where)' /\ AtAll(Where)' = AtAll(Where)
  <2> HIDE DEF p, q, M
  <2> QED BY <1>1, <1>6, <1>7, TasksMove DEF PInv
<1>9. SharedOnce' /\ OneController'
  BY <1>1 DEF PInv, SharedOnce, OneController, sharedVars, taskVars
<1>10. Asking'
  BY <1>1, <1>2, AskingKept DEF PInv, sharedVars, taskVars
<1>11. ListsOnce(c)' /\ HandInv(c)' /\ (Aside => AsideInv(c)')
  BY <1>1, <1>2, <1>4, ShortLists DEF PInv, ListsOnce, HandInv, Aside, AsideInv, taskVars
<1>12. /\ \A u \in ToSet(running'[c]) : isRunning'[u] <=> Runs(c, u)'
       /\ \A u \in ToSet(running[c]) \ ToSet(running'[c]) : ~isRunning'[u]
  <2>1. isRunning[i]
    BY <1>1, <1>2, CurrentIsOn, BitsOf DEF PInv, Runs, Executing
  <2>2. M \subseteq Tasks
    BY <1>2, LenProperties, ElementOfSeq DEF ToSet
  <2>3. \A u \in M : ~isRunning[u]
    BY <1>3, <2>2, BitsOf DEF PInv
  <2>4. \A u : Runs(c, u)' <=> u = i
    BY <1>1, <1>2, <1>4 DEF Runs, Executing
  <2>5. ToSet(running[c]) = {i} /\ isRunning' = isRunning
    BY <1>1, <1>2, ShortLists DEF taskVars
  <2> HIDE DEF M, i
  <2> QED BY <1>3, <1>4, <2>1, <2>3, <2>4, <2>5
<1> QED BY <1>1, <1>2, <1>8, <1>9, <1>10, <1>11, <1>12, PInvFrom DEF taskVars

-----------------------------------------------------------------------------
\* The idle task looks for another.  If there is none, it executes again...
LEMMA FindNonePInv ==
  ASSUME PInv, NEW c \in Cores,
         \/ FindMoving(c) /\ FirstFor(c) = {}
         \/ FindRunnable(c) /\ runnable = <<>>
  PROVE  PInv' /\ (Aside => Aside') /\ AtAll(Where)' = AtAll(Where)
<1>1. /\ OthersSame(c) /\ SavedKept(c) /\ IInv' /\ TypeOK
      /\ UNCHANGED <<running, idle, irq_task, interrupted_tasks, masked, hand, sharedVars,
                     irqsOff, r0, controller, ended>>
  BY OthersOfStep, SavedOfStep, FindIInv
     DEF CoreStep, Kernel, PInv, IInv, FindMoving, FindRunnable, sharedVars
<1>2. \/ step[c] = "find moving" /\ step'[c] = "find runnable" /\ isRunning' = isRunning
      \/ /\ step[c] = "find runnable" /\ step'[c] = "usr"
         /\ isRunning' = [isRunning EXCEPT ![idle[c]] = TRUE]
  BY <1>1 DEF FindMoving, FindRunnable, GoTo, TypeOK
<1>3. /\ hand[c] = <<>> /\ (Aside => interrupted_tasks[c] = <<>>)
      /\ running[c] = <<idle[c]>> /\ idle[c] \in Tasks
  BY <1>2 DEF PInv, HandInv, HandSteps, Aside, AsideInv, IInv, CoreInv, LooksAlone, IdleIsThere
<1>4. ToSet(running[c]) = {idle[c]} /\ Current(c) = idle[c]
  BY <1>3, ShortLists DEF Current
<1>5. \A r \in PlacesOf(c) : Where'[r] = Where[r]
  BY <1>1, SamePlaces DEF PlacesOf, sharedVars, Held
<1>6. Where' = Where
  BY <1>1, <1>5, NothingMoves
<1>7. Apart(Where)' /\ AtAll(Where)' = AtAll(Where)
  BY <1>6 DEF PInv, Apart, AtAll
<1>8. SharedOnce' /\ OneController'
  BY <1>1 DEF PInv, SharedOnce, OneController, sharedVars
<1>9. Asking'
  BY <1>1, <1>2, AskingKept DEF PInv, sharedVars
<1>10. ListsOnce(c)' /\ HandInv(c)' /\ (Aside => AsideInv(c)')
  BY <1>1, <1>2, <1>3 DEF PInv, ListsOnce, HandInv, Aside, AsideInv
<1>11. /\ \A u \in ToSet(running'[c]) : isRunning'[u] <=> Runs(c, u)'
       /\ \A u \in ToSet(running[c]) \ ToSet(running'[c]) : ~isRunning'[u]
       /\ \A u \in Tasks \ ToSet(running[c]) : isRunning'[u] = isRunning[u]
  <2>1. isRunning[idle[c]] <=> Runs(c, idle[c])
    BY <1>3, <1>4, BitsOf DEF PInv
  <2>2. Runs(c, idle[c]) <=> step[c] \in Executing
    BY <1>4 DEF Runs
  <2>3. Runs(c, idle[c])' <=> step'[c] \in Executing
    BY <1>1, <1>4 DEF Runs, Current
  <2>4. isRunning'[idle[c]] <=> step'[c] \in Executing
    BY <1>1, <1>2, <1>3, <2>1, <2>2 DEF Executing, TypeOK
  <2>5. \A u \in Tasks \ {idle[c]} : isRunning'[u] = isRunning[u]
    BY <1>1, <1>2 DEF TypeOK
  <2> QED BY <1>1, <1>4, <2>3, <2>4, <2>5
<1> QED BY <1>1, <1>2, <1>7, <1>8, <1>9, <1>10, <1>11, PInvFrom

\* ... and one that it finds comes from the moving or the runnable list.
LEMMA FoundPlaces ==
  ASSUME PInv, NEW c \in Cores, OthersSame(c), NEW t \in Tasks,
         running[c] = <<idle[c]>>, running'[c] = <<t>> \o running[c],
         UNCHANGED <<hand, irq_task, interrupted_tasks, task_pool, sleeping, ended, controller>>,
         NEW name \in {"moving", "runnable"},
         t \in Where[<<"shared", name>>],
         Where'[<<"shared", name>>] = Where[<<"shared", name>>] \ {t},
         name = "moving" => runnable' = runnable,
         name = "runnable" => moving' = moving
  PROVE  /\ Apart(Where)' /\ AtAll(Where)' = AtAll(Where)
         /\ ToSet(running'[c]) = ToSet(running[c]) \cup {t} /\ IsInjective(running'[c])
         /\ \A d \in Cores : t \notin ToSet(running[d]) /\ t # irq_task[d]
<1> DEFINE p == <<"shared", name>>
           q == <<"running", c>>
           M == {t}
<1>1. p \in PlaceNames /\ p \in PlacesOf(c) /\ q \in PlacesOf(c) /\ p # q
      /\ M \in SUBSET Where[p]
  BY DEF PlaceNames, PlacesOf
<1>2. \A d \in Cores : t \notin ToSet(running[d]) /\ t # irq_task[d]
  <2>1. \A d \in Cores : p # <<"running", d>> /\ p # <<"interrupt task", d>>
    OBVIOUS
  <2> HIDE DEF p
  <2> QED BY <1>1, <2>1, Elsewhere DEF PInv
<1>3. ToSet(running'[c]) = ToSet(running[c]) \cup {t} /\ IsInjective(running'[c])
  <2> DEFINE one == <<t>>
  <2>1. one \in Seq(Tasks) /\ ToSet(one) = {t} /\ IsInjective(one)
    BY ShortLists
  <2>2. running[c] \in Seq(Tasks) /\ IsInjective(running[c]) /\ t \notin ToSet(running[c])
    BY <1>2 DEF PInv, IInv, TypeOK, ListsOnce
  <2> HIDE DEF one
  <2>3. /\ ToSet(one \o running[c]) = ToSet(running[c]) \cup {t}
        /\ IsInjective(one \o running[c])
    BY <2>1, <2>2, JoinedOnce
  <2> QED BY <2>3 DEF one
<1>4. Where'[q] = Where[q] \cup M
  BY <1>3, WhereIs DEF CoreSays
<1>5. Where'[p] = Where[p] \ M
  OBVIOUS
<1>6. \A r \in PlacesOf(c) \ {p, q} : Where'[r] = Where[r]
  <2>1. CASE name = "moving"
    BY <2>1, SamePlaces DEF PlacesOf, Held
  <2>2. CASE name = "runnable"
    BY <2>2, SamePlaces DEF PlacesOf, Held
  <2> QED BY <2>1, <2>2
<1>7. Apart(Where)' /\ AtAll(Where)' = AtAll(Where)
  <2> HIDE DEF p, q, M
  <2> QED BY <1>1, <1>4, <1>5, <1>6, TasksMove DEF PInv
<1> QED BY <1>2, <1>3, <1>7

\* A task that is found asks for no core any more, and no task executes yet.
LEMMA FoundPInv ==
  ASSUME PInv, NEW c \in Cores,
         \/ FindMoving(c) /\ FirstFor(c) # {}
         \/ FindRunnable(c) /\ runnable # <<>>
  PROVE  PInv' /\ (Aside => Aside') /\ AtAll(Where)' = AtAll(Where)
<1>1. /\ OthersSame(c) /\ SavedKept(c) /\ IInv' /\ TypeOK
      /\ step[c] \in {"find moving", "find runnable"} /\ step'[c] = "resume"
      /\ UNCHANGED <<idle, irq_task, interrupted_tasks, masked, hand, task_pool, sleeping,
                     isRunning, irqsOff, controller, ended>>
  BY OthersOfStep, SavedOfStep, FindIInv
     DEF CoreStep, Kernel, PInv, IInv, TypeOK, FindMoving, FindRunnable, GoTo
<1>2. hand[c] = <<>> /\ (Aside => interrupted_tasks[c] = <<>>) /\ running[c] = <<idle[c]>>
  BY <1>1 DEF PInv, HandInv, HandSteps, Aside, AsideInv, IInv, CoreInv, LooksAlone
<1>3. \E t \in Tasks, name \in {"moving", "runnable"} :
        /\ running'[c] = <<t>> \o running[c]
        /\ t \in Where[<<"shared", name>>]
        /\ Where'[<<"shared", name>>] = Where[<<"shared", name>>] \ {t}
        /\ name = "moving" => runnable' = runnable
        /\ name = "runnable" => moving' = moving
        /\ \A u \in Tasks \ {t} : r0'[u] = r0[u]
        /\ ToSet(moving') = ToSet(moving) \ {t}
        /\ r0'[t] = None
        /\ IsInjective(moving') /\ IsInjective(runnable')
  <2>1. CASE FindMoving(c)
    <3>1. PICK i \in FirstFor(c) :
            /\ moving' = RemoveAt(moving, i)
            /\ running' = [running EXCEPT ![c] = <<moving[i]>> \o @]
            /\ r0' = [r0 EXCEPT ![moving[i]] = None]
      BY <1>1, <2>1 DEF FindMoving, FindRunnable
    <3> DEFINE t == moving[i]
    <3>2. moving \in Seq(Tasks) /\ IsInjective(moving) /\ i \in 1 .. Len(moving)
      BY <1>1, LenProperties DEF PInv, SharedOnce, TypeOK, FirstFor
    <3>3. /\ t \in Tasks /\ t \in ToSet(moving)
          /\ ToSet(moving') = ToSet(moving) \ {t} /\ IsInjective(moving')
      BY <3>1, <3>2, RemovedOnce, ElementOfSeq
    <3> HIDE DEF t
    <3>4. running'[c] = <<t>> \o running[c] /\ runnable' = runnable
      BY <1>1, <2>1, <3>1 DEF FindMoving, TypeOK, t
    <3>5. (\A u \in Tasks \ {t} : r0'[u] = r0[u]) /\ r0'[t] = None
      BY <1>1, <3>1, <3>3 DEF TypeOK, t
    <3>6. /\ t \in Where[<<"shared", "moving">>]
          /\ Where'[<<"shared", "moving">>] = Where[<<"shared", "moving">>] \ {t}
      BY <3>3, WhereIs DEF SharedSays
    <3> QED BY <3>3, <3>4, <3>5, <3>6 DEF PInv, SharedOnce
  <2>2. CASE FindRunnable(c)
    <3> DEFINE t == Head(runnable)
    <3>1. /\ runnable # <<>> /\ runnable' = Tail(runnable) /\ UNCHANGED <<moving, r0>>
          /\ running' = [running EXCEPT ![c] = <<t>> \o @]
      BY <2>2 DEF FindMoving, FindRunnable
    <3>2. /\ t \in Tasks /\ t \in ToSet(runnable)
          /\ ToSet(runnable') = ToSet(runnable) \ {t} /\ IsInjective(runnable')
      BY <1>1, <3>1, TailedOnce DEF PInv, SharedOnce, TypeOK
    <3> HIDE DEF t
    <3>3. /\ t \in Where[<<"shared", "runnable">>]
          /\ Where'[<<"shared", "runnable">>] = Where[<<"shared", "runnable">>] \ {t}
      BY <3>2, WhereIs DEF SharedSays
    <3>4. t \notin ToSet(moving)
      <4>1. <<"shared", "runnable">> \in PlaceNames
        BY DEF PlaceNames
      <4> QED BY <3>3, <4>1, Elsewhere DEF PInv
    <3>5. \A d \in Cores : t \notin ToSet(hand[d])
      <4>1. <<"shared", "runnable">> \in PlaceNames
        BY DEF PlaceNames
      <4> QED BY <3>3, <4>1, Elsewhere DEF PInv
    <3>6. r0[t] = None
      BY <3>2, <3>4, <3>5 DEF PInv, Asking
    <3>7. running'[c] = <<t>> \o running[c]
      BY <1>1, <3>1 DEF TypeOK
    <3> QED BY <3>1, <3>2, <3>3, <3>4, <3>6, <3>7 DEF PInv, SharedOnce
  <2> QED BY <2>1, <2>2
<1>4. PICK t \in Tasks, name \in {"moving", "runnable"} :
        /\ running'[c] = <<t>> \o running[c]
        /\ t \in Where[<<"shared", name>>]
        /\ Where'[<<"shared", name>>] = Where[<<"shared", name>>] \ {t}
        /\ name = "moving" => runnable' = runnable
        /\ name = "runnable" => moving' = moving
        /\ \A u \in Tasks \ {t} : r0'[u] = r0[u]
        /\ ToSet(moving') = ToSet(moving) \ {t}
        /\ r0'[t] = None
        /\ IsInjective(moving') /\ IsInjective(runnable')
  BY <1>3
<1>5. /\ Apart(Where)' /\ AtAll(Where)' = AtAll(Where)
      /\ ToSet(running'[c]) = ToSet(running[c]) \cup {t} /\ IsInjective(running'[c])
      /\ \A d \in Cores : t \notin ToSet(running[d]) /\ t # irq_task[d]
  <2>1. UNCHANGED <<hand, irq_task, interrupted_tasks, task_pool, sleeping, ended, controller>>
    BY <1>1
  <2>2. OthersSame(c) /\ running[c] = <<idle[c]>>
    BY <1>1, <1>2
  <2> QED BY <1>4, <2>1, <2>2, FoundPlaces
<1>6. SharedOnce' /\ OneController'
  BY <1>1, <1>4 DEF PInv, SharedOnce, OneController
<1>7. Asking'
  BY <1>1, <1>4 DEF PInv, Asking, OthersSame
<1>8. ListsOnce(c)' /\ HandInv(c)' /\ (Aside => AsideInv(c)')
  BY <1>1, <1>2, <1>5 DEF PInv, ListsOnce, HandInv, Aside, AsideInv
<1>9. /\ \A u \in ToSet(running'[c]) : isRunning'[u] <=> Runs(c, u)'
      /\ \A u \in ToSet(running[c]) \ ToSet(running'[c]) : ~isRunning'[u]
  <2>1. ToSet(running[c]) \subseteq Tasks
    BY OnOneCore DEF PInv
  <2>2. \A u \in ToSet(running[c]) : isRunning[u] <=> Runs(c, u)
    BY <2>1, BitsOf DEF PInv
  <2>3. ~isRunning[t]
    BY <1>5, BitsOf DEF PInv
  <2>4. \A u : ~Runs(c, u) /\ ~Runs(c, u)'
    BY <1>1 DEF Runs, Executing
  <2> QED BY <1>1, <1>5, <2>2, <2>3, <2>4
<1> QED BY <1>1, <1>5, <1>6, <1>7, <1>8, <1>9, PInvFrom

-----------------------------------------------------------------------------
\* A booted core's tasks come from the pool; the first of them executes.
LEMMA BootPlaces ==
  ASSUME PInv, NEW c \in Cores, Boot(c)
  PROVE  \E list \in Seq(Tasks) :
           /\ running'[c] = list /\ list # <<>> /\ IsInjective(list)
           /\ ToSet(list) \subseteq ToSet(task_pool)
           /\ ToSet(task_pool') = ToSet(task_pool) \ ToSet(list) /\ IsInjective(task_pool')
           /\ isRunning' = [isRunning EXCEPT ![Head(list)] = TRUE]
           /\ step[c] = "off"
<1>1. task_pool \in Seq(Tasks) /\ IsInjective(task_pool) /\ TypeOK
  BY DEF PInv, IInv, TypeOK, SharedOnce
<1>2. CASE BootFirst(c)
  <2> DEFINE list == SubSeq(task_pool, 1, 2)
             rest == SubSeq(task_pool, 3, Len(task_pool))
  <2>1. 1 < Len(task_pool) /\ Len(task_pool) \in Nat /\ 2 \in 0 .. Len(task_pool)
        /\ 1 \in 1 .. Len(task_pool) /\ 2 \in 1 .. Len(task_pool)
    BY <1>1, <1>2, LenProperties DEF BootFirst
  <2>2. list \in Seq(Tasks) /\ list # <<>>
    BY <1>1, <2>1, FirstTwo
  <2>3. /\ ToSet(task_pool) = ToSet(list) \cup ToSet(rest)
        /\ IsInjective(list) /\ IsInjective(rest) /\ ToSet(list) \cap ToSet(rest) = {}
    <3>1. 2 + 1 = 3
      OBVIOUS
    <3> QED BY <1>1, <2>1, <3>1, CutOnce
  <2>4. Head(list) = task_pool[1]
    BY <1>1, <2>1, HeadTailOfSubSeq
  <2> HIDE DEF list, rest
  <2>5. /\ running'[c] = list /\ task_pool' = rest
        /\ isRunning' = [isRunning EXCEPT ![Head(list)] = TRUE] /\ step[c] = "off"
    BY <1>1, <1>2, <2>4 DEF BootFirst, list, rest, TypeOK
  <2> QED BY <2>2, <2>3, <2>5
<1>3. CASE BootOther(c)
  <2> DEFINE t == Head(task_pool)
             list == <<t>>
  <2>1. /\ t \in Tasks /\ t \in ToSet(task_pool) /\ IsInjective(task_pool')
        /\ ToSet(task_pool') = ToSet(task_pool) \ {t}
    BY <1>1, <1>3, TailedOnce DEF BootOther
  <2>2. /\ running'[c] = list /\ isRunning' = [isRunning EXCEPT ![t] = TRUE]
        /\ step[c] = "off"
    BY <1>1, <1>3 DEF BootOther, TypeOK
  <2> HIDE DEF t
  <2>3. list \in Seq(Tasks) /\ list # <<>> /\ Head(list) = t
    BY <2>1
  <2>4. ToSet(list) = {t} /\ IsInjective(list)
    BY ShortLists
  <2> HIDE DEF list
  <2> QED BY <2>1, <2>2, <2>3, <2>4
<1> QED BY <1>2, <1>3 DEF Boot

\* The core had none before.
LEMMA BootPInv ==
  ASSUME PInv, NEW c \in Cores, Boot(c)
  PROVE  PInv' /\ (Aside => Aside') /\ AtAll(Where)' = AtAll(Where)
<1>1. PICK list \in Seq(Tasks) :
        /\ running'[c] = list /\ list # <<>> /\ IsInjective(list)
        /\ ToSet(list) \subseteq ToSet(task_pool)
        /\ ToSet(task_pool') = ToSet(task_pool) \ ToSet(list) /\ IsInjective(task_pool')
        /\ isRunning' = [isRunning EXCEPT ![Head(list)] = TRUE]
        /\ step[c] = "off"
  BY BootPlaces
<1>2. /\ OthersSame(c) /\ SavedKept(c) /\ IInv' /\ TypeOK /\ step'[c] = "usr"
      /\ UNCHANGED <<irq_task, interrupted_tasks, hand, runnable, moving, sleeping,
                     irqsOff, r0, controller, ended>>
  BY OthersOfStep, SavedOfStep, BootIInv
     DEF CoreStep, Boot, PInv, IInv, TypeOK, BootFirst, BootOther, GoTo
<1>3. running[c] = <<>> /\ interrupted_tasks[c] = <<>> /\ hand[c] = <<>>
  BY <1>1 DEF PInv, OffInv, HandInv, HandSteps
<1> DEFINE p == <<"shared", "pool">>
           q == <<"running", c>>
           M == ToSet(list)
<1>4. CoreSays(c) /\ CoreSays(c)' /\ SharedSays /\ SharedSays'
  BY WhereIs
<1>5. /\ p \in PlacesOf(c) /\ q \in PlacesOf(c) /\ p # q
      /\ M \in SUBSET Where[p] /\ Where'[p] = Where[p] \ M
  BY <1>1, <1>4 DEF PlacesOf, SharedSays
<1>6. Where'[q] = Where[q] \cup M
  <2>1. ToSet(running[c]) = {} /\ ToSet(running'[c]) = M
    BY <1>1, <1>3, ShortLists
  <2> HIDE DEF M
  <2> QED BY ZenonT(40), <1>4, <2>1 DEF CoreSays
<1>7. \A r \in PlacesOf(c) \ {p, q} : Where'[r] = Where[r]
  BY <1>2, SamePlaces DEF PlacesOf, Held
<1>8. Apart(Where)' /\ AtAll(Where)' = AtAll(Where)
  <2> HIDE DEF p, q, M
  <2> QED BY <1>2, <1>5, <1>6, <1>7, TasksMove DEF PInv
<1>9. SharedOnce' /\ OneController'
  BY <1>1, <1>2 DEF PInv, SharedOnce, OneController
<1>10. Asking'
  BY <1>1, <1>2, AskingKept DEF PInv
<1>11. ListsOnce(c)' /\ HandInv(c)' /\ (Aside => AsideInv(c)')
  BY <1>1, <1>2, <1>3 DEF PInv, ListsOnce, HandInv, Aside, AsideInv
<1>12. /\ \A u \in ToSet(running'[c]) : isRunning'[u] <=> Runs(c, u)'
       /\ \A u \in ToSet(running[c]) \ ToSet(running'[c]) : ~isRunning'[u]
       /\ \A u \in Tasks \ ToSet(running'[c]) : isRunning'[u] = isRunning[u]
  <2> DEFINE t == Head(list)
  <2>1. t \in M /\ M \subseteq Tasks
    BY <1>1, Tailed, LenProperties, ElementOfSeq DEF ToSet
  <2>2. \A u \in M, d \in Cores : u \notin ToSet(running[d])
    BY <1>1, OnOneCore DEF PInv
  <2>3. \A u \in M : ~isRunning[u]
    BY <2>1, <2>2, BitsOf DEF PInv
  <2>4. Current(c)' = t /\ ToSet(running[c]) = {}
    BY <1>1, <1>3, ShortLists DEF Current
  <2>5. \A u : Runs(c, u)' <=> u = t
    BY <1>2, <2>4 DEF Runs, Executing
  <2>6. isRunning'[t] = TRUE /\ \A u \in Tasks \ {t} : isRunning'[u] = isRunning[u]
    BY <1>1, <1>2, <2>1 DEF TypeOK
  <2> HIDE DEF t
  <2>7. ToSet(running'[c]) = M
    BY <1>1
  <2> HIDE DEF M
  <2> QED BY <2>1, <2>3, <2>4, <2>5, <2>6, <2>7
<1> QED BY <1>2, <1>8, <1>9, <1>10, <1>11, <1>12, PInvFrom

-----------------------------------------------------------------------------
\* An interrupt: of the tasks on the core the idle task stays, the others are
\* put aside, and the interrupt's task takes their place.
LEMMA PutAside ==
  ASSUME PInv, NEW c \in Cores, irq_handler(c)
  PROVE  /\ interrupted_tasks[c] = <<>> /\ idle[c] \in ToSet(running[c])
         /\ ToSet(interrupted_tasks'[c]) = ToSet(running[c]) \ {idle[c]}
         /\ IsInjective(interrupted_tasks'[c])
         /\ irq_task[c] \in Tasks /\ irq_task[c] \notin ToSet(running[c])
         /\ running'[c] = <<irq_task[c], idle[c]>>
         /\ ToSet(running'[c]) = {irq_task[c], idle[c]} /\ IsInjective(running'[c])
<1> DEFINE s == running[c]
           i == idle[c]
<1>1. TypeOK /\ step[c] = "usr" /\ ~masked[c]
  BY DEF PInv, IInv, irq_handler
<1>2. /\ s \in Seq(Tasks) /\ IsInjective(s) /\ i \in ToSet(s)
      /\ Current(c) = i \/ Last(s) = i
      /\ s # <<>>
  BY <1>1, CurrentIsOn DEF PInv, ListsOnce, IInv, CoreInv, IdleIsThere, TypeOK
<1>3. interrupted_tasks[c] = <<>>
  BY DEF irq_handler
<1>4. irq_task[c] \in Tasks /\ irq_task[c] \notin ToSet(s)
  <2>1. irq_task[c] \in Tasks
    BY <1>1 DEF irq_handler, TypeOK
  <2> QED BY <2>1, OnOneCore DEF PInv
<1>5. /\ running'[c] = <<irq_task[c], i>>
      /\ interrupted_tasks'[c] = IF Len(s) > 1 THEN Detached(s, i) ELSE <<>>
  BY <1>1, <1>3 DEF irq_handler, TypeOK
<1>6. ToSet(interrupted_tasks'[c]) = ToSet(s) \ {i} /\ IsInjective(interrupted_tasks'[c])
  <2>1. CASE Len(s) > 1
    <3>1. PICK j \in DOMAIN s : j = CHOOSE k \in DOMAIN s : s[k] = i
      BY <1>2 DEF ToSet
    <3>2. j \in 1 .. Len(s) /\ s[j] = i
      <4>1. \E k \in DOMAIN s : s[k] = i
        BY <1>2 DEF ToSet
      <4> QED BY <1>2, <3>1, <4>1, LenProperties
    <3>3. interrupted_tasks'[c] = RemoveAt(s, j)
      BY <1>5, <2>1, <3>1 DEF Detached
    <3> HIDE DEF s, i
    <3> QED BY <1>2, <3>2, <3>3, RemovedOnce
  <2>2. CASE ~(Len(s) > 1)
    <3>1. s = <<Head(s)>>
      <4> DEFINE n == Len(s)
      <4>1. n \in Nat /\ n # 0
        BY <1>2, LenProperties, EmptySeq
      <4>2. ~(n > 1)
        BY <2>2
      <4> HIDE DEF n
      <4>3. n = 1
        BY <4>1, <4>2
      <4> QED BY <1>2, <4>3, HeadTailProperties DEF n
    <3>2. ToSet(s) = {Head(s)}
      BY <3>1, ShortLists
    <3>3. interrupted_tasks'[c] = <<>>
      BY <1>5, <2>2
    <3> HIDE DEF s, i
    <3> QED BY <1>2, <3>2, <3>3, ShortLists
  <2> QED BY <2>1, <2>2
<1>7. ToSet(running'[c]) = {irq_task[c], i} /\ IsInjective(running'[c])
  BY <1>2, <1>4, <1>5, ShortLists
<1> QED BY <1>2, <1>3, <1>4, <1>5, <1>6, <1>7

\* That is two moves, one after the other.
LEMMA InterruptPlaces ==
  ASSUME PInv, NEW c \in Cores, irq_handler(c), OthersSame(c)
  PROVE  Apart(Where)' /\ AtAll(Where)' = AtAll(Where)
<1> DEFINE run == <<"running", c>>
           aside == <<"interrupted", c>>
           waits == <<"interrupt task", c>>
           t == irq_task[c]
           i == idle[c]
           others == ToSet(running[c]) \ {i}
<1>1. /\ interrupted_tasks[c] = <<>> /\ i \in ToSet(running[c])
      /\ ToSet(interrupted_tasks'[c]) = others /\ t \in Tasks /\ t # None
      /\ ToSet(running'[c]) = {t, i}
  BY PutAside, NoneAssumption
<1>2. /\ irq_task'[c] = None /\ None \notin Tasks
      /\ UNCHANGED <<hand, sharedVars, ended, controller>>
  BY NoneAssumption DEF irq_handler, PInv, IInv, TypeOK
<1>3. CoreSays(c) /\ CoreSays(c)' /\ SharedSays /\ SharedSays'
  BY WhereIs
<1>4. /\ Where[run] = ToSet(running[c]) /\ Where[aside] = {} /\ Where[waits] = {t}
      /\ Where'[run] = {t, i} /\ Where'[aside] = others /\ Where'[waits] = {}
  <2>1. Where[aside] = {} /\ Where[run] = ToSet(running[c])
    BY <1>1, <1>3, ShortLists DEF CoreSays
  <2>2. Where[waits] = {t} /\ Where'[waits] = {}
    BY <1>1, <1>2, <1>3 DEF CoreSays
  <2>3. Where'[run] = {t, i} /\ Where'[aside] = others
    BY <1>1, <1>3 DEF CoreSays
  <2> QED BY <2>1, <2>2, <2>3
<1>5. /\ run \in PlacesOf(c) /\ aside \in PlacesOf(c) /\ waits \in PlacesOf(c)
      /\ run # aside /\ run # waits /\ aside # waits
      /\ \A r \in PlacesOf(c) \ {run, aside, waits} : Where'[r] = Where[r]
  BY <1>2, SamePlaces DEF PlacesOf, sharedVars, Held
<1> DEFINE at == Where
           to == Where'
<1>6. DOMAIN at = PlaceNames /\ DOMAIN to = PlaceNames /\ Apart(at)
  BY DEF Where, PInv
<1>7. /\ run \in PlaceNames /\ aside \in PlaceNames /\ waits \in PlaceNames
      /\ \A r \in PlaceNames \ {run, aside, waits} : to[r] = at[r]
  BY <1>5, OthersStay
<1> HIDE DEF run, aside, waits, others, t, i
<1>8. /\ at[run] = others \cup {i} /\ i \notin others /\ at[aside] = {} /\ at[waits] = {t}
      /\ to[run] = {t, i} /\ to[aside] = others /\ to[waits] = {}
  BY <1>1, <1>4 DEF others
<1> HIDE DEF at, to
<1> DEFINE half == [r \in PlaceNames |->
                      IF r = run THEN {i} ELSE IF r = aside THEN others ELSE at[r]]
<1>9. Apart(half) /\ AtAll(half) = AtAll(at)
  <2>1. /\ DOMAIN half = DOMAIN at /\ half[run] = at[run] \ others
        /\ half[aside] = at[aside] \cup others /\ others \in SUBSET at[run]
        /\ \A r \in DOMAIN at \ {run, aside} : half[r] = at[r]
    BY <1>5, <1>6, <1>7, <1>8
  <2> HIDE DEF half
  <2> QED BY <1>5, <1>6, <1>7, <2>1, Moved
<1>10. Apart(to) /\ AtAll(to) = AtAll(half)
  <2> DEFINE M == {t}
  <2>1. /\ DOMAIN to = DOMAIN half /\ waits \in DOMAIN half /\ run \in DOMAIN half
        /\ to[waits] = half[waits] \ M /\ to[run] = half[run] \cup M
        /\ M \in SUBSET half[waits]
        /\ \A r \in DOMAIN half \ {waits, run} : to[r] = half[r]
    BY <1>5, <1>6, <1>7, <1>8
  <2> HIDE DEF half, M
  <2> QED BY <1>5, <1>9, <2>1, Moved
<1> QED BY <1>9, <1>10 DEF at, to, Apart, AtAll

\* Both tasks that are left have interrupts off.
LEMMA InterruptPInv ==
  ASSUME PInv, NEW c \in Cores, irq_handler(c)
  PROVE  PInv' /\ (Aside => Aside') /\ AtAll(Where)' = AtAll(Where)
<1> DEFINE t == irq_task[c]
           i == idle[c]
<1>1. /\ OthersSame(c) /\ SavedKept(c) /\ IInv' /\ TypeOK
      /\ step[c] = "usr" /\ step'[c] = "resume"
      /\ UNCHANGED <<hand, masked, sharedVars, r0, controller, ended>>
      /\ isRunning' = [isRunning EXCEPT ![Current(c)] = FALSE]
      /\ irq_task'[c] = None
  BY OthersOfStep, SavedOfStep, InterruptIInv
     DEF CoreStep, Interrupt, PInv, IInv, TypeOK, irq_handler, GoTo
<1>2. /\ interrupted_tasks[c] = <<>> /\ i \in ToSet(running[c])
      /\ IsInjective(interrupted_tasks'[c])
      /\ t \in Tasks /\ t \notin ToSet(running[c])
      /\ ToSet(running'[c]) = {t, i} /\ IsInjective(running'[c])
      /\ hand[c] = <<>> /\ i \in Tasks
  <2>1. hand[c] = <<>> /\ i \in Tasks
    BY <1>1 DEF PInv, HandInv, HandSteps, IInv, CoreInv, IdleIsThere
  <2> QED BY <2>1, PutAside
<1>3. Apart(Where)' /\ AtAll(Where)' = AtAll(Where)
  BY <1>1, InterruptPlaces
<1>4. SharedOnce' /\ OneController'
  BY <1>1 DEF PInv, SharedOnce, OneController, sharedVars
<1>5. Asking'
  BY <1>1, AskingKept DEF PInv, sharedVars
<1>6. ListsOnce(c)' /\ HandInv(c)'
  BY <1>1, <1>2 DEF PInv, ListsOnce, HandInv
<1>7. Current(c) \in ToSet(running[c]) /\ ToSet(running[c]) \subseteq Tasks
  BY <1>1, CurrentIsOn, OnOneCore DEF PInv
<1>8. Aside => AsideInv(c)'
  <2> SUFFICES ASSUME Aside PROVE AsideInv(c)'
    OBVIOUS
  <2>1. irqsOff[t]
    BY <1>2, NoneAssumption DEF PInv, Aside, AsideInv
  <2>2. irqsOff'[t]
    BY <1>1, <1>2, <1>7, <2>1 DEF irq_handler, TypeOK
  <2>3. irqsOff'[i]
    BY <1>1, <1>2, <1>7 DEF irq_handler, TypeOK
  <2> QED BY <1>1, <1>2, <2>2, <2>3 DEF Aside, AsideInv
<1>9. /\ \A u \in ToSet(running'[c]) : isRunning'[u] <=> Runs(c, u)'
      /\ \A u \in ToSet(running[c]) \ ToSet(running'[c]) : ~isRunning'[u]
      /\ \A u \in Tasks \ ToSet(running[c]) : isRunning'[u] = isRunning[u]
  <2>1. isRunning'[Current(c)] = FALSE
        /\ \A u \in Tasks \ {Current(c)} : isRunning'[u] = isRunning[u]
    BY <1>1, <1>7 DEF TypeOK
  <2>2. \A u \in ToSet(running[c]) : isRunning[u] <=> Runs(c, u)
    BY <1>7, BitsOf DEF PInv
  <2>3. \A u \in ToSet(running[c]) : ~isRunning'[u]
    BY <1>7, <2>1, <2>2 DEF Runs
  <2>4. ~isRunning[t]
    <3>1. \A d \in Cores : t \notin ToSet(running[d])
      BY <1>2, WaitsForInterrupt DEF PInv
    <3> QED BY <1>2, <3>1, BitsOf DEF PInv
  <2>5. \A u : ~Runs(c, u)'
    BY <1>1 DEF Runs, Executing
  <2>6. ~isRunning'[t]
    BY <1>2, <1>7, <2>1, <2>4
  <2> HIDE DEF t, i
  <2> QED BY <1>2, <1>7, <2>1, <2>3, <2>5, <2>6
<1> QED BY <1>1, <1>2, <1>3, <1>4, <1>5, <1>6, <1>8, <1>9, PInvFrom

-----------------------------------------------------------------------------
\* Every task is somewhere.
WholePInv == PInv /\ Aside /\ AtAll(Where) = Tasks

\* The places, one by one.
LEMMA EachPlace ==
  ASSUME NEW p
  PROVE  p \in PlaceNames <=>
           \/ \E d \in Cores : p \in {<<"running", d>>, <<"interrupted", d>>, <<"hand", d>>,
                                      <<"interrupt task", d>>}
           \/ p \in {<<"shared", "pool">>, <<"shared", "runnable">>, <<"shared", "moving">>,
                     <<"shared", "sleeping">>, <<"shared", "ended">>, <<"shared", "held">>}
<1> DEFINE K == {"running", "interrupted", "hand", "interrupt task"}
           L == {"pool", "runnable", "moving", "sleeping", "ended", "held"}
<1>1. p \in PlaceNames <=> p \in K \X Cores \/ p \in {"shared"} \X L
  BY DEF PlaceNames
<1>2. p \in K \X Cores <=> \E k \in K, d \in Cores : p = <<k, d>>
  <2> HIDE DEF K
  <2> QED OBVIOUS
<1>3. p \in {"shared"} \X L <=> \E l \in L : p = <<"shared", l>>
  <2> HIDE DEF L
  <2> QED OBVIOUS
<1>4. (\E k \in K, d \in Cores : p = <<k, d>>) <=>
        \E d \in Cores : p \in {<<"running", d>>, <<"interrupted", d>>, <<"hand", d>>,
                                <<"interrupt task", d>>}
  BY Zenon
<1>5. (\E l \in L : p = <<"shared", l>>) <=>
        p \in {<<"shared", "pool">>, <<"shared", "runnable">>, <<"shared", "moving">>,
               <<"shared", "sleeping">>, <<"shared", "ended">>, <<"shared", "held">>}
  BY Zenon
<1> QED BY <1>1, <1>2, <1>3, <1>4, <1>5

\* Before any core is booted all tasks are in the pool.
LEMMA InitPInv == Init => WholePInv
<1> SUFFICES ASSUME Init PROVE WholePInv
  OBVIOUS
<1>1. task_pool \in Seq(Tasks) /\ IsInjective(task_pool) /\ ToSet(task_pool) = Tasks
  BY TasksAssumption, OrdersOnce DEF Init
<1> DEFINE pool == <<"shared", "pool">>
<1>2. pool \in PlaceNames /\ Where[pool] = Tasks
  <2>1. 0 \in Cores
    BY CoresAssumption DEF Cores
  <2> QED BY <1>1, <2>1, WhereIs, EachPlace DEF SharedSays
<1>3. ASSUME NEW p \in PlaceNames, p # pool PROVE Where[p] = {}
  <2>1. ASSUME NEW d \in Cores,
               p \in {<<"running", d>>, <<"interrupted", d>>, <<"hand", d>>,
                      <<"interrupt task", d>>}
        PROVE  Where[p] = {}
    <3>1. /\ running[d] = <<>> /\ interrupted_tasks[d] = <<>> /\ hand[d] = <<>>
          /\ irq_task[d] = None
      BY DEF Init
    <3>2. CoreSays(d) /\ \A t \in Tasks : t # None
      BY WhereIs, NoneAssumption
    <3> QED BY <2>1, <3>1, <3>2, ShortLists DEF CoreSays
  <2>2. ASSUME p \in {<<"shared", "runnable">>, <<"shared", "moving">>,
                      <<"shared", "sleeping">>, <<"shared", "ended">>, <<"shared", "held">>}
        PROVE  Where[p] = {}
    <3>1. /\ runnable = <<>> /\ moving = <<>> /\ sleeping = <<>> /\ ended = {}
          /\ Held = {}
      BY DEF Init, Held
    <3>2. SharedSays
      BY CoresAssumption, WhereIs DEF Cores
    <3> QED BY <2>2, <3>1, <3>2, ShortLists DEF SharedSays
  <2> QED BY <1>3, <2>1, <2>2, EachPlace
<1>4. Apart(Where) /\ AtAll(Where) = Tasks
  <2>1. DOMAIN Where = PlaceNames
    BY DEF Where
  <2> HIDE DEF pool
  <2>2. Apart(Where)
    BY <1>2, <1>3, <2>1 DEF Apart
  <2>3. ASSUME NEW t PROVE t \in AtAll(Where) <=> t \in Tasks
    BY <1>2, <1>3, <2>1 DEF AtAll
  <2> QED BY <2>2, <2>3
<1>5. IInv
  BY InitIInv
<1>6. SharedOnce
  BY <1>1, ShortLists DEF Init, SharedOnce
<1>7. OneController /\ RunningBit /\ Asking
  <2>1. Len(<<>>) = 0
    OBVIOUS
  <2> QED BY <2>1 DEF Init, OneController, RunningBit, Asking
<1>8. \A c \in Cores : ListsOnce(c) /\ HandInv(c) /\ AsideInv(c) /\ OffInv(c)
  BY ShortLists DEF Init, ListsOnce, HandInv, AsideInv, OffInv
<1> QED BY <1>4, <1>5, <1>6, <1>7, <1>8 DEF PInv, Aside, WholePInv

\* Nothing changes.
LEMMA StopsPInv ==
  ASSUME PInv, UNCHANGED vars
  PROVE  PInv' /\ (Aside => Aside') /\ AtAll(Where)' = AtAll(Where)
<1>1. /\ running' = running /\ idle' = idle /\ irq_task' = irq_task
      /\ interrupted_tasks' = interrupted_tasks /\ masked' = masked /\ step' = step
      /\ hand' = hand
  BY DEF vars, coreVars
<1>2. UNCHANGED <<task_pool, runnable, moving, sleeping>>
  BY DEF vars, sharedVars
<1>3. UNCHANGED <<isRunning, irqsOff, r0, controller, ended>>
  BY DEF vars, taskVars
<1>4. \A c \in Cores : Current(c)' = Current(c)
  BY <1>1 DEF Current
<1>5. Where' = Where
  BY <1>1, <1>2, <1>3 DEF Where, SharedLists
<1>6. IInv' /\ SharedOnce' /\ OneController' /\ Asking'
  <2>1. IInv'
    BY NextIInv DEF PInv
  <2> QED BY <1>1, <1>2, <1>3, <2>1 DEF PInv, SharedOnce, OneController, Asking
<1>7. RunningBit'
  BY <1>1, <1>3, <1>4 DEF PInv, RunningBit
<1>8. \A c \in Cores : ListsOnce(c)' /\ HandInv(c)' /\ OffInv(c)'
  BY <1>1, <1>3 DEF PInv, ListsOnce, HandInv, OffInv
<1>9. Aside => Aside'
  BY <1>1, <1>3 DEF Aside, AsideInv
<1> QED BY <1>5, <1>6, <1>7, <1>8, <1>9 DEF PInv, Apart, AtAll

\* Every step of the scheduler keeps every task in the one place where it is, or
\* moves it to another.
LEMMA StepPInv ==
  ASSUME PInv, [Next]_vars
  PROVE  PInv' /\ (Aside => Aside') /\ AtAll(Where)' = AtAll(Where)
<1> DEFINE Kept == PInv' /\ (Aside => Aside') /\ AtAll(Where)' = AtAll(Where)
<1>1. ASSUME NEW c \in Cores, Boot(c) PROVE Kept
  BY <1>1, BootPInv
<1>2. ASSUME NEW c \in Cores, OrdinarySwi(c) PROVE Kept
  <2>1. CASE Yield(c) \/ Sleep(c) \/ SwitchToCore(c) \/ EndTask(c)
    BY <1>2, <2>1, StopPlaces, StopPInv DEF CoreStep
  <2> QED BY <1>2, <2>1, ReleasePInv, ControllerPInv, KeepingPInv DEF OrdinarySwi
<1>3. ASSUME NEW c \in Cores, InterruptSwi(c) PROVE Kept
  <2>1. CASE WaitForInterrupt(c)
    BY <1>3, <2>1, StopPlaces, StopPInv DEF CoreStep
  <2> QED BY <1>3, <2>1, KeepingPInv, TickPInv DEF InterruptSwi
<1>4. ASSUME NEW c \in Cores, Interrupt(c) PROVE Kept
  BY <1>4, InterruptPInv, KeepingPInv DEF Interrupt
<1>5. ASSUME NEW c \in Cores, IdleYield(c) PROVE Kept
  BY <1>5, IdleKeepsPInv, IdleEndsInterruptPInv DEF IdleYield
<1>6. ASSUME NEW c \in Cores, Kernel(c) PROVE Kept
  <2>1. CASE \/ YieldInsert(c) \/ SleepInsert(c) \/ SwitchInsert(c)
             \/ ReleaseInsert(c) \/ TickInsert(c)
    BY <1>6, <2>1, InsertPlaces, InsertPInv DEF CoreStep
  <2>2. CASE FindMoving(c) \/ FindRunnable(c)
    BY <2>2, FindNonePInv, FoundPInv
  <2> QED BY <1>6, <2>1, <2>2, KeepingPInv DEF Kernel
<1>7. ASSUME UNCHANGED vars PROVE Kept
  BY <1>7, StopsPInv
<1> QED
  BY <1>1, <1>2, <1>3, <1>4, <1>5, <1>6, <1>7 DEF Next, Stopped

\* So none is lost.
LEMMA NextPInv == WholePInv /\ [Next]_vars => WholePInv'
BY StepPInv DEF WholePInv

\* The inductive invariant of every behaviour of the scheduler.
THEOREM PlacesInvariant == Spec => []WholePInv
<1> QED BY InitPInv, NextPInv, PTL DEF Spec

-----------------------------------------------------------------------------
\* The pairs of one thing and those of a set.
LEMMA Pairs ==
  ASSUME NEW e, NEW S, NEW p
  PROVE  p \in {e} \X S <=> \E d \in S : p = <<e, d>>
OBVIOUS

\* Places, by the places' names.
LEMMA PlacesByName ==
  ASSUME NEW t \in Tasks
  PROVE  Places(t) = {p \in PlaceNames : t \in Where[p]}
<1> DEFINE core(p, d) ==
             \/ p = <<"running", d>> /\ t \in ToSet(running[d])
             \/ p = <<"interrupted", d>> /\ t \in ToSet(interrupted_tasks[d])
             \/ p = <<"hand", d>> /\ t \in ToSet(hand[d])
             \/ p = <<"interrupt task", d>> /\ irq_task[d] = t
           shared(p) ==
             \/ p = <<"shared", "pool">> /\ t \in ToSet(task_pool)
             \/ p = <<"shared", "runnable">> /\ t \in ToSet(runnable)
             \/ p = <<"shared", "moving">> /\ t \in ToSet(moving)
             \/ p = <<"shared", "sleeping">> /\ t \in ToSet(sleeping)
             \/ p = <<"shared", "ended">> /\ t \in ended
             \/ p = <<"shared", "held">> /\ t \in Held
<1>1. ASSUME NEW p
      PROVE  p \in Places(t) <=> (\E d \in Cores : core(p, d)) \/ shared(p)
  <2>1. p \in {"running"} \X Holders(running, t)
          <=> \E d \in Cores : p = <<"running", d>> /\ t \in ToSet(running[d])
    BY DEF Holders
  <2>2. p \in {"interrupted"} \X Holders(interrupted_tasks, t)
          <=> \E d \in Cores : p = <<"interrupted", d>> /\ t \in ToSet(interrupted_tasks[d])
    BY DEF Holders
  <2>3. p \in {"hand"} \X Holders(hand, t)
          <=> \E d \in Cores : p = <<"hand", d>> /\ t \in ToSet(hand[d])
    BY DEF Holders
  <2>4. p \in {"interrupt task"} \X {d \in Cores : irq_task[d] = t}
          <=> \E d \in Cores : p = <<"interrupt task", d>> /\ irq_task[d] = t
    <3> DEFINE W == {d \in Cores : irq_task[d] = t}
    <3>1. \A d : d \in W <=> d \in Cores /\ irq_task[d] = t
      OBVIOUS
    <3> HIDE DEF W
    <3> DEFINE name == "interrupt task"
    <3> HIDE DEF name
    <3>2. p \in {name} \X W <=> \E d \in W : p = <<name, d>>
      BY Pairs
    <3>3. p \in {name} \X W <=> \E d \in Cores : p = <<name, d>> /\ irq_task[d] = t
      BY <3>1, <3>2
    <3> QED BY <3>3 DEF W, name
  <2>5. p \in {"shared"} \X {l \in DOMAIN SharedLists : t \in SharedLists[l]} <=> shared(p)
    <3>1. p \in {"shared"} \X {l \in DOMAIN SharedLists : t \in SharedLists[l]}
            <=> \E l \in DOMAIN SharedLists : p = <<"shared", l>> /\ t \in SharedLists[l]
      OBVIOUS
    <3>2. /\ DOMAIN SharedLists =
               {"pool", "runnable", "moving", "sleeping", "ended", "held"}
          /\ SharedLists["pool"] = ToSet(task_pool)
          /\ SharedLists["runnable"] = ToSet(runnable)
          /\ SharedLists["moving"] = ToSet(moving)
          /\ SharedLists["sleeping"] = ToSet(sleeping)
          /\ SharedLists["ended"] = ended /\ SharedLists["held"] = Held
      BY DEF SharedLists, Held
    <3> HIDE DEF shared
    <3>3. (\E l \in DOMAIN SharedLists : p = <<"shared", l>> /\ t \in SharedLists[l])
            <=> shared(p)
      BY <3>2, Zenon DEF shared
    <3> QED BY <3>1, <3>3
  <2> DEFINE A == {"running"} \X Holders(running, t)
             B == {"interrupted"} \X Holders(interrupted_tasks, t)
             C == {"hand"} \X Holders(hand, t)
             D == {"interrupt task"} \X {d \in Cores : irq_task[d] = t}
             E == {"shared"} \X {l \in DOMAIN SharedLists : t \in SharedLists[l]}
  <2>6. Places(t) = A \cup B \cup C \cup D \cup E
    BY DEF Places
  <2>7. /\ p \in A <=> \E d \in Cores : p = <<"running", d>> /\ t \in ToSet(running[d])
        /\ p \in B <=> \E d \in Cores : /\ p = <<"interrupted", d>>
                                       /\ t \in ToSet(interrupted_tasks[d])
        /\ p \in C <=> \E d \in Cores : p = <<"hand", d>> /\ t \in ToSet(hand[d])
        /\ p \in D <=> \E d \in Cores : p = <<"interrupt task", d>> /\ irq_task[d] = t
        /\ p \in E <=> shared(p)
    BY <2>1, <2>2, <2>3, <2>4, <2>5
  <2> HIDE DEF A, B, C, D, E, shared
  <2> QED BY <2>6, <2>7
<1>2. ASSUME NEW p
      PROVE  p \in PlaceNames /\ t \in Where[p] <=> (\E d \in Cores : core(p, d)) \/ shared(p)
  <2>1. ASSUME NEW d \in Cores,
               p \in {<<"running", d>>, <<"interrupted", d>>, <<"hand", d>>,
                      <<"interrupt task", d>>}
        PROVE  t \in Where[p] <=> core(p, d)
    <3>1. CoreSays(d)
      BY WhereIs
    <3>2. p = <<"running", d>> => (t \in Where[p] <=> core(p, d))
      BY <3>1 DEF CoreSays
    <3>3. p = <<"interrupted", d>> => (t \in Where[p] <=> core(p, d))
      BY <3>1 DEF CoreSays
    <3>4. p = <<"hand", d>> => (t \in Where[p] <=> core(p, d))
      BY <3>1 DEF CoreSays
    <3>5. p = <<"interrupt task", d>> => (t \in Where[p] <=> core(p, d))
      BY <3>1 DEF CoreSays
    <3> HIDE DEF core
    <3> QED BY <2>1, <3>2, <3>3, <3>4, <3>5
  <2>2. ASSUME p \in {<<"shared", "pool">>, <<"shared", "runnable">>, <<"shared", "moving">>,
                      <<"shared", "sleeping">>, <<"shared", "ended">>, <<"shared", "held">>}
        PROVE  t \in Where[p] <=> shared(p)
    <3>1. SharedSays
      BY CoresAssumption, WhereIs DEF Cores
    <3> QED BY <2>2, <3>1 DEF SharedSays
  <2>3. \A d \in Cores : core(p, d) =>
          p \in {<<"running", d>>, <<"interrupted", d>>, <<"hand", d>>,
                 <<"interrupt task", d>>}
    OBVIOUS
  <2>4. shared(p) =>
          p \in {<<"shared", "pool">>, <<"shared", "runnable">>, <<"shared", "moving">>,
                 <<"shared", "sleeping">>, <<"shared", "ended">>, <<"shared", "held">>}
    OBVIOUS
  <2> HIDE DEF core, shared
  <2> QED BY <2>1, <2>2, <2>3, <2>4, EachPlace
<1> HIDE DEF core, shared
<1> QED BY <1>1, <1>2

\* Every task is in exactly one place, and once, for any number of cores and
\* tasks: on a list of one core, on a shared list, in a core's hand, waiting for
\* an interrupt, held, ended or in the pool (OnePlace).
THEOREM EveryTaskInOnePlace == Spec => []OnePlace
<1>1. WholePInv => OnePlace
  <2> SUFFICES ASSUME WholePInv PROVE OnePlace
    OBVIOUS
  <2>1. ASSUME NEW t \in Tasks PROVE Cardinality(Places(t)) = 1
    <3>1. DOMAIN Where = PlaceNames
      BY DEF Where
    <3>2. PICK p \in PlaceNames : t \in Where[p]
      BY <3>1 DEF WholePInv, AtAll
    <3>3. \A q \in PlaceNames : t \in Where[q] => q = p
      BY <3>1, <3>2 DEF WholePInv, PInv, Apart
    <3>4. Places(t) = {p}
      BY <3>2, <3>3, PlacesByName
    <3> QED BY <3>4, FS_Singleton
  <2> QED BY <2>1 DEF OnePlace, WholePInv, PInv, ListsOnce, SharedOnce
<1> QED BY <1>1, PlacesInvariant, PTL

\* The running bit is set exactly in the tasks that execute: save_task_state and
\* IdleTaskYield never PANIC, for any number of cores and tasks (RunningBit).
THEOREM BitOfThoseThatRun == Spec => []RunningBit
<1>1. WholePInv => RunningBit
  BY DEF WholePInv, PInv
<1> QED BY <1>1, PlacesInvariant, PTL

\* The assert of irq_handler, that nothing is put aside on the core yet, cannot
\* fail (NothingPutAsideTwice).
THEOREM PutAsideOnce == Spec => []NothingPutAsideTwice
<1>1. WholePInv => NothingPutAsideTwice
  BY DEF WholePInv, Aside, AsideInv, NothingPutAsideTwice
<1> QED BY <1>1, PlacesInvariant, PTL

\* Once off its core, what a task was saved with does not change until a core
\* has taken it to its own list again (SavedStateKept).
THEOREM StateIsKept == Spec => SavedStateKept
<1> DEFINE Off == ToSet(runnable) \cup ToSet(moving) \cup ToSet(sleeping)
                    \cup UNION {ToSet(interrupted_tasks[c]) : c \in Cores}
<1>1. ASSUME WholePInv, [Next]_vars
      PROVE  [\A t \in Off : irqsOff'[t] = irqsOff[t] /\ isRunning'[t] = isRunning[t]]_vars
  <2> SUFFICES ASSUME Next, NEW t \in Off, vars' # vars
               PROVE  irqsOff'[t] = irqsOff[t] /\ isRunning'[t] = isRunning[t]
    BY <1>1
  <2>1. PICK c \in Cores : CoreStep(c)
    BY DEF Next, Stopped, CoreStep
  <2>2. SavedKept(c) /\ PInv /\ TypeOK
    BY <1>1, <2>1, SavedOfStep DEF WholePInv, PInv, IInv
  <2>3. t \in Tasks
    <3>1. /\ runnable \in Seq(Tasks) /\ moving \in Seq(Tasks) /\ sleeping \in Seq(Tasks)
          /\ \A d \in Cores : interrupted_tasks[d] \in Seq(Tasks)
      BY <2>2 DEF TypeOK
    <3>2. \A s \in Seq(Tasks) : ToSet(s) \subseteq Tasks
      BY LenProperties, ElementOfSeq DEF ToSet
    <3> QED BY <3>1, <3>2
  <2>4. PICK p \in PlaceNames : /\ t \in Where[p] /\ p # <<"running", c>>
                                /\ p # <<"shared", "pool">> /\ p # <<"shared", "held">>
    <3>1. CASE \E d \in Cores : t \in ToSet(interrupted_tasks[d])
      <4>1. PICK d \in Cores : t \in ToSet(interrupted_tasks[d])
        BY <3>1
      <4>2. <<"interrupted", d>> \in PlaceNames /\ t \in Where[<<"interrupted", d>>]
        BY <4>1, WhereIs, EachPlace DEF CoreSays
      <4> QED BY <4>2
    <3>2. CASE t \in ToSet(runnable) \cup ToSet(moving) \cup ToSet(sleeping)
      <4>1. SharedSays
        BY WhereIs
      <4>2. /\ <<"shared", "runnable">> \in PlaceNames
            /\ <<"shared", "moving">> \in PlaceNames
            /\ <<"shared", "sleeping">> \in PlaceNames
        BY EachPlace
      <4>3. \E l \in {"runnable", "moving", "sleeping"} :
              <<"shared", l>> \in PlaceNames /\ t \in Where[<<"shared", l>>]
        BY <3>2, <4>1, <4>2 DEF SharedSays
      <4> QED BY <4>3
    <3> QED BY <3>1, <3>2
  <2>5. t \notin ToSet(running[c]) \cup ToSet(task_pool) \cup Held
    BY <2>2, <2>4, Elsewhere DEF PInv
  <2> QED BY <2>2, <2>3, <2>5 DEF SavedKept
<1> QED BY <1>1, PlacesInvariant, PTL DEF Spec, SavedStateKept

-----------------------------------------------------------------------------
\* A task that is not on its way asks for no core.
LEMMA NotAsking ==
  ASSUME PInv, NEW p \in PlaceNames, NEW t \in Where[p], t \in Tasks,
         p # <<"shared", "moving">>, \A d \in Cores : p # <<"hand", d>>
  PROVE  r0[t] = None
<1>1. t \notin ToSet(moving) /\ \A d \in Cores : t \notin ToSet(hand[d])
  BY Elsewhere DEF PInv
<1> QED BY <1>1 DEF PInv, Asking

\* Something before a list.
LEMMA PutBefore ==
  ASSUME NEW e \in Tasks, NEW s \in Seq(Tasks)
  PROVE  ToSet(<<e>> \o s) = {e} \cup ToSet(s)
<1> DEFINE one == <<e>>
<1>1. one \in Seq(Tasks) /\ ToSet(one) = {e}
  BY ShortLists
<1> HIDE DEF one
<1>2. ToSet(one \o s) = {e} \cup ToSet(s)
  BY <1>1, JoinedOnce
<1> QED BY <1>2 DEF one

\* Where the tasks come from that were not on a core before.
LEMMA ComesFrom ==
  ASSUME PInv, NEW c \in Cores, CoreStep(c),
         NEW t \in ToSet(running'[c]) \ ToSet(running[c])
  PROVE  /\ t \in Tasks
         /\ \/ r0[t] = c
            \/ \E p \in PlaceNames : /\ t \in Where[p] /\ p # <<"shared", "moving">>
                                     /\ \A d \in Cores : p # <<"hand", d>>
<1> DEFINE Off(p) == p # <<"shared", "moving">> /\ \A d \in Cores : p # <<"hand", d>>
<1>1. TypeOK /\ IInv' /\ running[c] \in Seq(Tasks) /\ running'[c] \in Seq(Tasks)
  <2>1. IInv'
    BY NextIInv DEF PInv, CoreStep, Next
  <2> QED BY <2>1 DEF PInv, IInv, TypeOK
<1>2. t \in Tasks
  BY <1>1, LenProperties, ElementOfSeq DEF ToSet
<1>3. /\ CoreSays(c) /\ SharedSays
      /\ <<"interrupted", c>> \in PlaceNames /\ <<"interrupt task", c>> \in PlaceNames
      /\ <<"shared", "pool">> \in PlaceNames /\ <<"shared", "runnable">> \in PlaceNames
      /\ <<"shared", "held">> \in PlaceNames
  BY WhereIs, EachPlace
<1>4. /\ Off(<<"interrupted", c>>) /\ Off(<<"interrupt task", c>>)
      /\ Off(<<"shared", "pool">>) /\ Off(<<"shared", "runnable">>)
      /\ Off(<<"shared", "held">>)
  OBVIOUS
<1> HIDE DEF Off
<1>5. ~(ToSet(running'[c]) \subseteq ToSet(running[c]))
  OBVIOUS
<1>6. CASE Boot(c)
  <2>1. t \in ToSet(task_pool)
    BY <1>6, BootPlaces
  <2> QED BY <1>2, <1>3, <1>4, <2>1 DEF SharedSays, Off
<1>7. CASE OrdinarySwi(c)
  <2>1. CASE Yield(c) \/ Sleep(c) \/ SwitchToCore(c) \/ EndTask(c)
    <3>1. running'[c] = Tail(running[c]) /\ Swi(c)
      BY <1>1, <2>1 DEF Yield, Sleep, SwitchToCore, EndTask, StopFor, stop_running_task, TypeOK
    <3>2. ToSet(running'[c]) \subseteq ToSet(running[c])
      BY <1>1, <3>1, SwiType, Tailed DEF PInv
    <3> QED BY <1>5, <3>2
  <2>2. CASE ReleaseTask(c)
    <3>1. PICK u \in Tasks, off \in BOOLEAN :
            /\ Controls(Current(c), u)
            /\ IF off THEN running' = [running EXCEPT ![c] = InsertAt(@, 2, u)]
                      ELSE running' = running
      BY <2>2 DEF ReleaseTask
    <3>2. running'[c] = InsertAt(running[c], 2, u)
      BY <1>1, <3>1 DEF TypeOK
    <3>3. 2 \in 1 .. Len(running[c]) + 1
      <4>1. Swi(c)
        BY <2>2 DEF ReleaseTask
      <4> QED BY <1>1, <4>1, SwiType, LenProperties DEF PInv
    <3>4. ToSet(running'[c]) = ToSet(running[c]) \cup {u}
      BY <1>1, <3>2, <3>3, InsertedOnce
    <3>5. t = u /\ t \in Held
      BY <3>1, <3>4 DEF Controls, Held
    <3> QED BY <1>2, <1>3, <1>4, <3>5 DEF SharedSays, Off
  <2>3. CASE Create(c) \/ ChangeController(c) \/ SwiPanics(c)
    <3>1. running' = running
      BY <2>3 DEF Create, ChangeController, SwiPanics, Panic, coreVars
    <3> QED BY <3>1
  <2> QED BY <1>7, <2>1, <2>2, <2>3 DEF OrdinarySwi
<1>8. CASE InterruptSwi(c)
  <2>1. running' = running \/ (running'[c] = Tail(running[c]) /\ Swi(c))
    BY <1>1, <1>8 DEF InterruptSwi, EnablingInterrupts, Tick, WaitForInterrupt,
                      stop_running_task, TypeOK
  <2>2. ToSet(running'[c]) \subseteq ToSet(running[c])
    BY <1>1, <2>1, SwiType, Tailed DEF PInv
  <2> QED BY <1>5, <2>2
<1>9. CASE Interrupt(c)
  <2>1. CASE irq_handler(c)
    <3>1. t = irq_task[c]
      BY <2>1, PutAside
    <3> QED BY <1>2, <1>3, <1>4, <3>1 DEF CoreSays, Off
  <2>2. CASE IrqFails(c)
    BY <2>2 DEF IrqFails, Panic
  <2> QED BY <1>9, <2>1, <2>2 DEF Interrupt
<1>10. CASE IdleYield(c)
  <2>1. CASE IdleToNext(c) \/ IdleLooks(c)
    <3>1. running'[c] = running[c] \/ running'[c] = Tail(running[c]) \o <<Head(running[c])>>
      BY <1>1, <2>1 DEF IdleToNext, IdleLooks, Rotate, TypeOK
    <3>2. running[c] # <<>>
      BY <2>1, IdleType DEF IdleToNext, IdleLooks, PInv
    <3>3. ToSet(running'[c]) \subseteq ToSet(running[c])
      BY <1>1, <3>1, <3>2, RotatedOnce
    <3> QED BY <1>5, <3>3
  <2>2. CASE IdleEndsInterrupt(c)
    <3>1. CASE interrupted_tasks[c] = <<>>
      BY <2>2, <3>1 DEF IdleEndsInterrupt
    <3>2. CASE interrupted_tasks[c] # <<>>
      <4> DEFINE back == Tail(interrupted_tasks[c]) \o <<Head(interrupted_tasks[c])>>
      <4>1. running'[c] = <<idle[c]>> \o back /\ IdleYields(c) /\ step[c] # "off"
        BY <1>1, <2>2, <3>2 DEF IdleEndsInterrupt, Rotate, TypeOK, IdleYields
      <4>2. back \in Seq(Tasks) /\ ToSet(back) = ToSet(interrupted_tasks[c])
        BY <1>1, <3>2, Rotated, RotatedOnce DEF TypeOK
      <4> HIDE DEF back
      <4>3. idle[c] \in Tasks /\ idle[c] \in ToSet(running[c])
        BY <4>1, IdleType, CurrentIsOn DEF PInv
      <4>4. t \in ToSet(interrupted_tasks[c])
        BY <4>1, <4>2, <4>3, PutBefore
      <4> QED BY <1>2, <1>3, <1>4, <4>4 DEF CoreSays, Off
    <3> QED BY <3>1, <3>2
  <2> QED BY <1>10, <2>1, <2>2 DEF IdleYield
<1>11. CASE Kernel(c)
  <2>1. CASE FindMoving(c)
    <3>1. PICK i \in FirstFor(c) : running' = [running EXCEPT ![c] = <<moving[i]>> \o @]
      BY <2>1 DEF FindMoving
    <3>2. moving[i] \in Tasks /\ r0[moving[i]] = c
      BY <1>1, LenProperties, ElementOfSeq DEF FirstFor, TypeOK
    <3>3. running'[c] = <<moving[i]>> \o running[c]
      BY <1>1, <3>1 DEF TypeOK
    <3>4. t = moving[i]
      BY <1>1, <3>2, <3>3, PutBefore
    <3> QED BY <1>2, <3>2, <3>4
  <2>2. CASE FindRunnable(c)
    <3>1. running'[c] = <<Head(runnable)>> \o running[c] /\ runnable # <<>>
      BY <1>1, <2>2 DEF FindRunnable, TypeOK
    <3>2. Head(runnable) \in Tasks /\ Head(runnable) \in ToSet(runnable)
      BY <1>1, <3>1, Tailed DEF TypeOK
    <3>3. t \in ToSet(runnable)
      BY <1>1, <3>1, <3>2, PutBefore
    <3> QED BY <1>2, <1>3, <1>4, <3>3 DEF SharedSays, Off
  <2>3. ASSUME ~FindMoving(c), ~FindRunnable(c) PROVE running' = running
    BY <1>11, <2>3 DEF Kernel, YieldInsert, SleepInsert, SwitchInsert, ReleaseInsert,
                       TickInsert, Resume
  <2> QED BY <2>1, <2>2, <2>3
<1> QED BY <1>6, <1>7, <1>8, <1>9, <1>10, <1>11 DEF CoreStep

\* A task that asked for a core is next executed by that core, whatever happens
\* in between (AskedForCore).
THEOREM GoesWhereItAsked == Spec => AskedForCore
<1>1. ASSUME WholePInv, [Next]_vars
      PROVE  [\A c \in Cores : \A t \in ToSet(running'[c]) \ ToSet(running[c]) :
                r0[t] # None => r0[t] = c]_vars
  <2> SUFFICES ASSUME Next, vars' # vars, NEW c \in Cores,
                      NEW t \in ToSet(running'[c]) \ ToSet(running[c]), r0[t] # None
               PROVE  r0[t] = c
    BY <1>1
  <2>1. PICK d \in Cores : CoreStep(d)
    BY DEF Next, Stopped, CoreStep
  <2>2. PInv /\ IInv
    BY <1>1 DEF WholePInv, PInv
  <2>3. c = d
    BY <2>1, <2>2, OthersOfStep DEF OthersSame
  <2> QED BY <2>1, <2>2, <2>3, ComesFrom, NotAsking
<1> QED BY <1>1, PlacesInvariant, PTL DEF Spec, AskedForCore
===============================================================================

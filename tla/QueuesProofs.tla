----------------------------- MODULE QueuesProofs -----------------------------
(***************************************************************************)
(* Queues, and the slots of the tasks that use them, for any number of     *)
(* cores, tasks, queues and slots: a task is in one place, the queues are  *)
(* places too; a caller leaves its queue into the control of its handler;  *)
(* and a core that executes a task has mapped the slot the task is in.     *)
(***************************************************************************)
EXTENDS TaskSlots, SchedulerProofs

-----------------------------------------------------------------------------
\* Things that leave all the places that `at' is about, or come to one of them.

\* What leaves is nowhere any more...
LEMMA Left ==
  ASSUME NEW at, NEW to, DOMAIN to = DOMAIN at, Apart(at),
         NEW p \in DOMAIN at, NEW M \in SUBSET at[p], to[p] = at[p] \ M,
         \A r \in DOMAIN at \ {p} : to[r] = at[r]
  PROVE  Apart(to) /\ AtAll(to) = AtAll(at) \ M
<1>1. Apart(to)
  BY DEF Apart
<1>2. ASSUME NEW t PROVE t \in AtAll(to) <=> t \in AtAll(at) /\ t \notin M
  <2>1. \A r \in DOMAIN at \ {p} : at[r] \cap M = {}
    BY DEF Apart
  <2>2. (\E r \in DOMAIN to : t \in to[r]) <=> (\E r \in DOMAIN at : t \in at[r]) /\ t \notin M
    BY <2>1
  <2> QED BY <2>2 DEF AtAll
<1> QED BY <1>1, <1>2

\* ... what comes is at one place.
LEMMA Came ==
  ASSUME NEW at, NEW to, DOMAIN to = DOMAIN at, Apart(at),
         NEW q \in DOMAIN at, NEW M, M \cap AtAll(at) = {}, to[q] = at[q] \cup M,
         \A r \in DOMAIN at \ {q} : to[r] = at[r]
  PROVE  Apart(to) /\ AtAll(to) = AtAll(at) \cup M
<1>1. \A r \in DOMAIN at : at[r] \cap M = {}
  BY DEF AtAll
<1>2. Apart(to)
  BY <1>1 DEF Apart
<1>3. ASSUME NEW t PROVE t \in AtAll(to) <=> t \in AtAll(at) \/ t \in M
  <2>1. (\E r \in DOMAIN to : t \in to[r]) <=> (\E r \in DOMAIN at : t \in at[r]) \/ t \in M
    OBVIOUS
  <2> QED BY <2>1 DEF AtAll
<1> QED BY <1>2, <1>3

-----------------------------------------------------------------------------
\* The places in the queues, and the tasks that are there.
QueueNames == {"queue", "handlers"} \X Queues

InQueue == [p \in QueueNames |->
  IF p[1] = "queue" THEN ToSet(queue[p[2]]) ELSE ToSet(handlers[p[2]])]

\* One by one, before a step and after it.
LEMMA InQueueIs ==
  /\ DOMAIN InQueue = QueueNames /\ DOMAIN InQueue' = QueueNames
  /\ \A q \in Queues :
       /\ <<"queue", q>> \in QueueNames /\ <<"handlers", q>> \in QueueNames
       /\ InQueue[<<"queue", q>>] = ToSet(queue[q])
       /\ InQueue'[<<"queue", q>>] = ToSet(queue'[q])
       /\ InQueue[<<"handlers", q>>] = ToSet(handlers[q])
       /\ InQueue'[<<"handlers", q>>] = ToSet(handlers'[q])
  /\ \A p \in QueueNames : \E q \in Queues : p = <<"queue", q>> \/ p = <<"handlers", q>>
<1>1. DOMAIN InQueue = QueueNames /\ DOMAIN InQueue' = QueueNames
  BY DEF InQueue
<1>2. ASSUME NEW q \in Queues
      PROVE  /\ <<"queue", q>> \in QueueNames /\ <<"handlers", q>> \in QueueNames
             /\ InQueue[<<"queue", q>>] = ToSet(queue[q])
             /\ InQueue'[<<"queue", q>>] = ToSet(queue'[q])
             /\ InQueue[<<"handlers", q>>] = ToSet(handlers[q])
             /\ InQueue'[<<"handlers", q>>] = ToSet(handlers'[q])
  BY DEF InQueue, QueueNames
<1>3. ASSUME NEW p \in QueueNames
      PROVE  \E q \in Queues : p = <<"queue", q>> \/ p = <<"handlers", q>>
  BY DEF QueueNames
<1> QED BY <1>1, <1>2, <1>3

\* The rings, no task twice in one of them, and none in a queue yet to be made.
Rings ==
  /\ queue_pool \in Seq(Queues) /\ IsInjective(queue_pool)
  /\ queue \in [Queues -> Seq(Tasks)] /\ handlers \in [Queues -> Seq(Tasks)]
  /\ \A q \in Queues : IsInjective(queue[q]) /\ IsInjective(handlers[q])
  /\ \A q \in ToSet(queue_pool) : queue[q] = <<>> /\ handlers[q] = <<>>

\* The core holds the caller, and has others to go on with.
AtQueue(c) ==
  step[c] = "queue" => hand[c] = <<Head(hand[c])>> /\ Last(running[c]) = idle[c]

\* The inductive invariant: the scheduler's, but for what there is of interrupts,
\* which queues do break; and the same of the queues.
QInv ==
  /\ PInv /\ Rings /\ \A c \in Cores : AtQueue(c)
  /\ Apart(InQueue)
  /\ AtAll(Where) \cap AtAll(InQueue) = {}
  /\ AtAll(Where) \cup AtAll(InQueue) = Tasks

\* At first all tasks are in the pool, and all queues in theirs.
LEMMA InitQInv == QueuesInit => QInv
<1> SUFFICES ASSUME QueuesInit PROVE QInv
  OBVIOUS
<1>1. PInv /\ AtAll(Where) = Tasks
  BY InitPInv DEF QueuesInit, WholePInv
<1>2. Rings
  <2>1. <<>> \in Seq(Tasks) /\ IsInjective(<<>>)
    BY ShortLists
  <2>2. /\ queue_pool \in Seq(Queues) /\ IsInjective(queue_pool)
        /\ ToSet(queue_pool) = Queues
    BY QueuesAssumption, OrdersOnce DEF QueuesInit
  <2> QED BY <2>1, <2>2 DEF QueuesInit, Rings
<1>3. \A c \in Cores : AtQueue(c)
  BY DEF QueuesInit, Init, AtQueue
<1>4. \A p \in QueueNames : InQueue[p] = {}
  <2>1. \A q \in Queues : queue[q] = <<>> /\ handlers[q] = <<>>
    BY DEF QueuesInit
  <2> QED BY <2>1, InQueueIs, ShortLists
<1>5. Apart(InQueue) /\ AtAll(InQueue) = {}
  BY <1>4, InQueueIs DEF Apart, AtAll
<1> QED BY <1>1, <1>2, <1>3, <1>5 DEF QInv

-----------------------------------------------------------------------------
\* The scheduler's steps.

\* They neither begin a SWI for a queue nor end one.
LEMMA NotAtQueue ==
  ASSUME IInv, NEW c \in Cores, CoreStep(c)
  PROVE  step[c] # "queue" /\ step'[c] # "queue"
<1>1. CASE Boot(c)
  BY <1>1 DEF Boot, BootFirst, BootOther, GoTo, IInv, TypeOK
<1>2. CASE OrdinarySwi(c)
  <2>1. step[c] = "usr"
    BY <1>2 DEF OrdinarySwi, Yield, Sleep, SwitchToCore, EndTask, Create, ReleaseTask,
                ChangeController, SwiPanics, Swi
  <2>2. step' = step \/ \E s \in {"yield", "sleep", "switch", "resume", "release", "panic"} :
          step' = [step EXCEPT ![c] = s]
    BY <1>2 DEF OrdinarySwi, Yield, Sleep, SwitchToCore, EndTask, Create, ReleaseTask,
                ChangeController, SwiPanics, Panic, StopFor, GoTo, coreVars
  <2> QED BY <2>1, <2>2 DEF IInv, TypeOK
<1>3. CASE InterruptSwi(c)
  BY <1>3 DEF InterruptSwi, EnablingInterrupts, WaitForInterrupt, Tick, Swi, GoTo,
              IInv, TypeOK
<1>4. CASE Interrupt(c)
  BY <1>4 DEF Interrupt, irq_handler, IrqFails, Panic, GoTo, IInv, TypeOK
<1>5. CASE IdleYield(c)
  BY <1>5 DEF IdleYield, IdleToNext, IdleEndsInterrupt, IdleLooks, IdleYields, GoTo,
              IInv, TypeOK
<1>6. CASE Kernel(c)
  BY <1>6 DEF Kernel, YieldInsert, SleepInsert, SwitchInsert, ReleaseInsert, TickInsert,
              FindMoving, FindRunnable, Resume, GoTo, IInv, TypeOK
<1> QED BY <1>1, <1>2, <1>3, <1>4, <1>5, <1>6 DEF CoreStep

\* What AtQueue says of the other cores stays.
LEMMA OthersAtQueue ==
  ASSUME \A c \in Cores : AtQueue(c), NEW c \in Cores, OthersSame(c), AtQueue(c)'
  PROVE  \A d \in Cores : AtQueue(d)'
BY DEF AtQueue, OthersSame

\* No queue changes, and what is on the scheduler's lists stays there.
LEMMA SchedulerQInv ==
  ASSUME QInv, [Next]_vars, UNCHANGED queueVars
  PROVE  QInv'
<1>1. PInv' /\ AtAll(Where)' = AtAll(Where)
  BY StepPInv DEF QInv
<1>2. UNCHANGED <<queue_pool, queue, handlers>>
  BY DEF queueVars
<1>3. Rings' /\ InQueue' = InQueue
  BY <1>2 DEF QInv, Rings, InQueue
<1>4. ASSUME NEW c \in Cores PROVE AtQueue(c)'
  <2>1. CASE UNCHANGED vars
    BY <2>1 DEF QInv, AtQueue, vars, coreVars
  <2>2. CASE \E d \in Cores : CoreStep(d)
    <3>1. PICK d \in Cores : CoreStep(d)
      BY <2>2
    <3>2. OthersSame(d) /\ step'[d] # "queue"
      BY <3>1, OthersOfStep, NotAtQueue DEF QInv, PInv
    <3> QED BY <3>2, OthersAtQueue DEF QInv, AtQueue
  <2> QED BY <2>1, <2>2 DEF Next, Stopped, CoreStep
<1> QED BY <1>1, <1>3, <1>4 DEF QInv, Apart, AtAll

-----------------------------------------------------------------------------
\* The steps of the queues.

\* A task in a queue is at no other place.
LEMMA QueuedElsewhere ==
  ASSUME QInv, NEW p \in QueueNames, NEW t \in InQueue[p]
  PROVE  /\ t \in Tasks /\ \A r \in PlaceNames : t \notin Where[r]
         /\ \A c \in Cores : t \notin ToSet(running[c]) /\ t \notin ToSet(hand[c])
         /\ controller[t] = <<>>
<1>1. t \in AtAll(InQueue)
  BY InQueueIs DEF AtAll
<1>2. t \in Tasks /\ t \notin AtAll(Where)
  BY <1>1 DEF QInv
<1>3. \A r \in PlaceNames : t \notin Where[r]
  BY <1>2 DEF AtAll, Where
<1>4. \A c \in Cores : /\ <<"running", c>> \in PlaceNames /\ <<"hand", c>> \in PlaceNames
                       /\ <<"shared", "held">> \in PlaceNames
                       /\ CoreSays(c) /\ SharedSays
  BY WhereIs, EachPlace
<1>5. 0 \in Cores
  BY CoresAssumption DEF Cores
<1>6. ASSUME NEW c \in Cores
      PROVE  t \notin ToSet(running[c]) /\ t \notin ToSet(hand[c])
  <2>1. t \notin Where[<<"running", c>>] /\ t \notin Where[<<"hand", c>>]
    BY <1>3, <1>4
  <2> QED BY <1>4, <2>1 DEF CoreSays
<1>7. t \notin Held
  BY <1>3, <1>4, <1>5 DEF SharedSays
<1> QED BY <1>2, <1>3, <1>6, <1>7 DEF Held

\* Everything but the controllers and the saved states stays.
LEMMA KeepPInv ==
  ASSUME PInv, UNCHANGED <<coreVars, sharedVars, isRunning, r0, ended>>,
         irqsOff' \in [Tasks -> BOOLEAN], controller' \in [Tasks -> Seq(Tasks)],
         OneController', Apart(Where)'
  PROVE  PInv'
<1>1. /\ running' = running /\ idle' = idle /\ irq_task' = irq_task
      /\ interrupted_tasks' = interrupted_tasks /\ masked' = masked /\ step' = step
      /\ hand' = hand
      /\ UNCHANGED <<task_pool, runnable, moving, sleeping, isRunning, r0, ended>>
  BY DEF coreVars, sharedVars
<1>2. TypeOK'
  BY <1>1 DEF PInv, IInv, TypeOK
<1>3. \A c \in Cores : Current(c)' = Current(c)
  BY <1>1 DEF Current
<1>4. IInv'
  BY <1>1, <1>2, <1>3 DEF PInv, IInv, CoreInv, IdleIsThere, LooksAlone, HasSleeper
<1>5. SharedOnce' /\ RunningBit' /\ Asking'
  BY <1>1, <1>3 DEF PInv, SharedOnce, RunningBit, Asking
<1>6. \A c \in Cores : ListsOnce(c)' /\ HandInv(c)' /\ OffInv(c)'
  BY <1>1 DEF PInv, ListsOnce, HandInv, OffInv
<1> QED BY <1>4, <1>5, <1>6 DEF PInv

\* A queue is made, and is empty like all that are still in the pool.
LEMMA CreateQInv ==
  ASSUME QInv, NEW c \in Cores, QueueCreate(c)
  PROVE  QInv' /\ UNCHANGED <<queue, handlers>>
<1> DEFINE q == Head(queue_pool)
<1>1. /\ q \in Queues /\ Tail(queue_pool) \in Seq(Queues) /\ IsInjective(Tail(queue_pool))
      /\ q \in ToSet(queue_pool) /\ ToSet(Tail(queue_pool)) = ToSet(queue_pool) \ {q}
  BY TailedOnce DEF QueueCreate, QInv, Rings
<1>2. queue[q] = <<>> /\ handlers[q] = <<>>
  BY <1>1 DEF QInv, Rings
<1>3. UNCHANGED <<vars, queue, handlers>> /\ queue_pool' = Tail(queue_pool)
  BY <1>2 DEF QueueCreate, QInv, Rings
<1>4. Rings' /\ InQueue' = InQueue
  BY <1>1, <1>3 DEF QInv, Rings, InQueue
<1>5. PInv' /\ AtAll(Where)' = AtAll(Where)
  BY <1>3, StopsPInv DEF QInv
<1>6. \A d \in Cores : AtQueue(d)'
  BY <1>3 DEF QInv, AtQueue, vars, coreVars
<1>7. /\ Apart(InQueue)' /\ AtAll(Where)' \cap AtAll(InQueue)' = {}
      /\ AtAll(Where)' \cup AtAll(InQueue)' = Tasks
  BY <1>4, <1>5 DEF QInv, Apart, AtAll
<1>8. UNCHANGED <<queue, handlers>>
  BY <1>3
<1> QED BY <1>4, <1>5, <1>6, <1>7, <1>8 DEF QInv

\* A saved state is set; nothing moves.
LEMMA SetRegistersQInv ==
  ASSUME QInv, NEW c \in Cores, SetRegisters(c)
  PROVE  QInv'
<1>1. /\ UNCHANGED <<coreVars, sharedVars, isRunning, r0, controller, ended, queueVars>>
      /\ irqsOff' \in [Tasks -> BOOLEAN]
  BY DEF SetRegisters, QInv, PInv, IInv, TypeOK
<1>2. UNCHANGED <<running, idle, irq_task, interrupted_tasks, step, hand, task_pool, runnable,
                  moving, sleeping, queue_pool, queue, handlers>>
  BY <1>1 DEF coreVars, sharedVars, queueVars
<1>3. Where' = Where /\ InQueue' = InQueue /\ Rings'
  BY <1>1, <1>2 DEF Where, SharedLists, InQueue, QInv, Rings
<1>4. PInv'
  BY <1>1, <1>3, KeepPInv DEF QInv, PInv, IInv, TypeOK, OneController, Apart
<1>5. \A d \in Cores : AtQueue(d)'
  BY <1>2 DEF QInv, AtQueue
<1> QED BY <1>3, <1>4, <1>5 DEF QInv, Apart, AtAll

\* The head of a ring is one of the tasks in it, and is taken.
LEMMA HeadTaken ==
  ASSUME NEW ring \in [Queues -> Seq(Tasks)], NEW ring1, NEW q \in Queues,
         IsInjective(ring[q]), ring[q] # <<>>, ring1 = [ring EXCEPT ![q] = Tail(ring[q])]
  PROVE  /\ Head(ring[q]) \in Tasks /\ Head(ring[q]) \in ToSet(ring[q])
         /\ ring1 \in [Queues -> Seq(Tasks)] /\ IsInjective(ring1[q])
         /\ ToSet(ring1[q]) = ToSet(ring[q]) \ {Head(ring[q])}
         /\ \A r \in Queues \ {q} : ring1[r] = ring[r]
<1>1. /\ Head(ring[q]) \in Tasks /\ Head(ring[q]) \in ToSet(ring[q])
      /\ Tail(ring[q]) \in Seq(Tasks) /\ IsInjective(Tail(ring[q]))
      /\ ToSet(Tail(ring[q])) = ToSet(ring[q]) \ {Head(ring[q])}
  BY TailedOnce
<1> QED BY <1>1

\* A task becomes the head of a ring.
LEMMA HeadPut ==
  ASSUME NEW s \in Seq(Tasks), NEW one \in Seq(Tasks), IsInjective(s), IsInjective(one),
         ToSet(one) \cap ToSet(s) = {}
  PROVE  /\ one \o s \in Seq(Tasks) /\ IsInjective(one \o s)
         /\ ToSet(one \o s) = ToSet(s) \cup ToSet(one)
BY Joined, JoinedOnce

\* A task that goes from the scheduler's places into a queue.
LEMMA IntoQueue ==
  ASSUME QInv, NEW c \in Cores, OthersSame(c), NEW p \in PlacesOf(c), NEW k \in QueueNames,
         NEW t \in Where[p], Where'[p] = Where[p] \ {t}, InQueue'[k] = InQueue[k] \cup {t},
         \A r \in PlacesOf(c) \ {p} : Where'[r] = Where[r],
         \A r \in QueueNames \ {k} : InQueue'[r] = InQueue[r]
  PROVE  /\ Apart(Where)' /\ Apart(InQueue)'
         /\ AtAll(Where)' \cap AtAll(InQueue)' = {}
         /\ AtAll(Where)' \cup AtAll(InQueue)' = Tasks
<1> DEFINE M == {t}
           at == Where
           to == Where'
           from == InQueue
           in == InQueue'
<1>1. /\ p \in PlaceNames /\ \A r \in PlaceNames \ {p} : to[r] = at[r]
      /\ DOMAIN at = PlaceNames /\ DOMAIN to = PlaceNames
  BY OthersStay DEF Where
<1>2. Apart(at) /\ Apart(from) /\ DOMAIN from = QueueNames /\ DOMAIN in = QueueNames
  BY InQueueIs DEF QInv, PInv
<1>3. t \in AtAll(at) /\ M \cap AtAll(from) = {} /\ M \in SUBSET at[p]
  BY <1>1 DEF QInv, AtAll
<1>4. to[p] = at[p] \ M /\ in[k] = from[k] \cup M
  OBVIOUS
<1>5. AtAll(at) \cap AtAll(from) = {} /\ AtAll(at) \cup AtAll(from) = Tasks
  BY DEF QInv
<1>6. \A r \in QueueNames \ {k} : in[r] = from[r]
  OBVIOUS
<1> HIDE DEF at, to, from, in, M
<1>7. Apart(to) /\ AtAll(to) = AtAll(at) \ M
  BY <1>1, <1>2, <1>3, <1>4, Left
<1>8. Apart(in) /\ AtAll(in) = AtAll(from) \cup M
  BY <1>2, <1>3, <1>4, <1>6, Came
<1>9. AtAll(to) \cap AtAll(in) = {} /\ AtAll(to) \cup AtAll(in) = Tasks
  BY <1>3, <1>5, <1>7, <1>8 DEF M
<1>10. Apart(to) /\ Apart(in)
  BY <1>7, <1>8
<1> QED BY <1>9, <1>10 DEF to, in, Apart, AtAll

\* And one that goes the other way.
LEMMA OutOfQueue ==
  ASSUME QInv, NEW c \in Cores, OthersSame(c), NEW p \in PlacesOf(c), NEW k \in QueueNames,
         NEW t \in InQueue[k], InQueue'[k] = InQueue[k] \ {t}, Where'[p] = Where[p] \cup {t},
         \A r \in PlacesOf(c) \ {p} : Where'[r] = Where[r],
         \A r \in QueueNames \ {k} : InQueue'[r] = InQueue[r]
  PROVE  /\ Apart(Where)' /\ Apart(InQueue)'
         /\ AtAll(Where)' \cap AtAll(InQueue)' = {}
         /\ AtAll(Where)' \cup AtAll(InQueue)' = Tasks
<1> DEFINE M == {t}
           at == Where
           to == Where'
           from == InQueue
           in == InQueue'
<1>1. /\ p \in PlaceNames /\ \A r \in PlaceNames \ {p} : to[r] = at[r]
      /\ DOMAIN at = PlaceNames /\ DOMAIN to = PlaceNames
  BY OthersStay DEF Where
<1>2. Apart(at) /\ Apart(from) /\ DOMAIN from = QueueNames /\ DOMAIN in = QueueNames
  BY InQueueIs DEF QInv, PInv
<1>3. t \in AtAll(from) /\ M \cap AtAll(at) = {} /\ M \in SUBSET from[k]
  BY <1>2 DEF QInv, AtAll
<1>4. to[p] = at[p] \cup M /\ in[k] = from[k] \ M
  OBVIOUS
<1>5. AtAll(at) \cap AtAll(from) = {} /\ AtAll(at) \cup AtAll(from) = Tasks
  BY DEF QInv
<1>6. \A r \in QueueNames \ {k} : in[r] = from[r]
  OBVIOUS
<1> HIDE DEF at, to, from, in, M
<1>7. Apart(to) /\ AtAll(to) = AtAll(at) \cup M
  BY <1>1, <1>2, <1>3, <1>4, Came
<1>8. Apart(in) /\ AtAll(in) = AtAll(from) \ M
  BY <1>2, <1>3, <1>4, <1>6, Left
<1>9. AtAll(to) \cap AtAll(in) = {} /\ AtAll(to) \cup AtAll(in) = Tasks
  BY <1>3, <1>5, <1>7, <1>8 DEF M
<1>10. Apart(to) /\ Apart(in)
  BY <1>7, <1>8
<1> QED BY <1>9, <1>10 DEF to, in, Apart, AtAll

\* One ring of a queue there is changes.
LEMMA QueueChanges ==
  ASSUME Rings, NEW q \in Queues, q \notin ToSet(queue_pool), UNCHANGED <<queue_pool, handlers>>,
         queue' \in [Queues -> Seq(Tasks)], IsInjective(queue'[q]),
         \A r \in Queues \ {q} : queue'[r] = queue[r]
  PROVE  /\ Rings'
         /\ \A k \in QueueNames \ {<<"queue", q>>} : InQueue'[k] = InQueue[k]
<1>1. ToSet(queue_pool) \subseteq Queues
  BY LenProperties, ElementOfSeq DEF Rings, ToSet
<1>2. Rings'
  BY <1>1 DEF Rings
<1>3. ASSUME NEW k \in QueueNames \ {<<"queue", q>>} PROVE InQueue'[k] = InQueue[k]
  <2>1. PICK r \in Queues : k = <<"queue", r>> \/ k = <<"handlers", r>>
    BY InQueueIs
  <2>2. k = <<"queue", r>> => r # q
    BY <1>3
  <2>3. /\ InQueue[<<"queue", r>>] = ToSet(queue[r])
        /\ InQueue'[<<"queue", r>>] = ToSet(queue'[r])
        /\ InQueue[<<"handlers", r>>] = ToSet(handlers[r])
        /\ InQueue'[<<"handlers", r>>] = ToSet(handlers'[r])
    BY InQueueIs
  <2>4. CASE k = <<"queue", r>>
    BY <2>2, <2>3, <2>4
  <2>5. CASE k = <<"handlers", r>>
    BY <2>2, <2>3, <2>5
  <2> QED BY <2>1, <2>4, <2>5
<1> QED BY <1>2, <1>3

\* The same of the other.
LEMMA HandlersChange ==
  ASSUME Rings, NEW q \in Queues, q \notin ToSet(queue_pool), UNCHANGED <<queue_pool, queue>>,
         handlers' \in [Queues -> Seq(Tasks)], IsInjective(handlers'[q]),
         \A r \in Queues \ {q} : handlers'[r] = handlers[r]
  PROVE  /\ Rings'
         /\ \A k \in QueueNames \ {<<"handlers", q>>} : InQueue'[k] = InQueue[k]
<1>1. ToSet(queue_pool) \subseteq Queues
  BY LenProperties, ElementOfSeq DEF Rings, ToSet
<1>2. Rings'
  BY <1>1 DEF Rings
<1>3. ASSUME NEW k \in QueueNames \ {<<"handlers", q>>} PROVE InQueue'[k] = InQueue[k]
  <2>1. PICK r \in Queues : k = <<"queue", r>> \/ k = <<"handlers", r>>
    BY InQueueIs
  <2>2. k = <<"handlers", r>> => r # q
    BY <1>3
  <2>3. /\ InQueue[<<"queue", r>>] = ToSet(queue[r])
        /\ InQueue'[<<"queue", r>>] = ToSet(queue'[r])
        /\ InQueue[<<"handlers", r>>] = ToSet(handlers[r])
        /\ InQueue'[<<"handlers", r>>] = ToSet(handlers'[r])
    BY InQueueIs
  <2>4. CASE k = <<"queue", r>>
    BY <2>2, <2>3, <2>4
  <2>5. CASE k = <<"handlers", r>>
    BY <2>2, <2>3, <2>5
  <2> QED BY <2>1, <2>4, <2>5
<1> QED BY <1>2, <1>3

\* TakesQueued: the head of the callers is under the task's control.
LEMMA TakesQueuedQInv ==
  ASSUME QInv, NEW c \in Cores, NEW q \in Queues, TakesQueued(c, q)
  PROVE  /\ QInv' /\ running' = running /\ handlers' = handlers /\ running[c] # <<>>
         /\ ToSet(queue'[q]) = ToSet(queue[q]) \ {Head(queue[q])}
         /\ \A r \in Queues \ {q} : queue'[r] = queue[r]
         /\ controller'[Head(queue[q])] = <<Current(c)>>
<1> DEFINE t == Head(queue[q])
           k == <<"queue", q>>
           p == <<"shared", "held">>
<1>1. Swi(c) /\ Current(c) \in Tasks /\ running[c] # <<>> /\ TypeOK
  BY SwiType DEF TakesQueued, QInv, PInv, IInv
<1>2. UNCHANGED <<coreVars, sharedVars, isRunning, irqsOff, r0, ended, queue_pool, handlers>>
  BY DEF TakesQueued
<1>3. /\ t \in Tasks /\ t \in ToSet(queue[q])
      /\ queue' \in [Queues -> Seq(Tasks)] /\ IsInjective(queue'[q])
      /\ ToSet(queue'[q]) = ToSet(queue[q]) \ {t}
      /\ \A r \in Queues \ {q} : queue'[r] = queue[r]
  <2>1. queue \in [Queues -> Seq(Tasks)] /\ IsInjective(queue[q]) /\ queue[q] # <<>>
    BY DEF TakesQueued, QInv, Rings
  <2>2. queue' = [queue EXCEPT ![q] = Tail(queue[q])]
    BY DEF TakesQueued
  <2> QED BY <2>1, <2>2, HeadTaken
<1>4. k \in QueueNames /\ t \in InQueue[k] /\ controller[t] = <<>>
  <2>1. k \in QueueNames /\ InQueue[k] = ToSet(queue[q]) /\ InQueue'[k] = ToSet(queue'[q])
    BY InQueueIs
  <2> HIDE DEF t, k
  <2> QED BY <1>3, <2>1, QueuedElsewhere
<1>5. controller' = [controller EXCEPT ![t] = <<Current(c)>>]
  <2>1. controller' = [controller EXCEPT ![t] = push_controller(controller[t], Current(c))]
    BY DEF TakesQueued
  <2> QED BY <1>4, <2>1 DEF push_controller
<1> HIDE DEF t
<1>6. /\ controller'[t] = <<Current(c)>> /\ <<Current(c)>> # <<>> /\ Len(<<Current(c)>>) <= 1
      /\ controller' \in [Tasks -> Seq(Tasks)]
      /\ \A u \in Tasks \ {t} : controller'[u] = controller[u]
  BY <1>1, <1>3, <1>5 DEF TypeOK
<1>7. Held' = Held \cup {t} /\ OneController'
  BY <1>3, <1>6 DEF Held, QInv, PInv, OneController
<1>8. /\ OthersSame(c) /\ UNCHANGED <<running, step, hand, idle, irq_task, interrupted_tasks>>
      /\ UNCHANGED <<task_pool, runnable, moving, sleeping>>
  BY <1>2 DEF OthersSame, coreVars, sharedVars
<1>9. /\ p \in PlacesOf(c) /\ Where'[p] = Where[p] \cup {t}
      /\ \A r \in PlacesOf(c) \ {p} : Where'[r] = Where[r]
  <2>1. SharedSays /\ SharedSays'
    BY WhereIs
  <2>2. Where'[p] = Where[p] \cup {t}
    BY <1>7, <2>1 DEF SharedSays
  <2>3. \A r \in PlacesOf(c) \ {p} : Where'[r] = Where[r]
    BY <1>2, <1>8, SamePlaces DEF PlacesOf
  <2> QED BY <2>2, <2>3 DEF PlacesOf
<1>10. q \notin ToSet(queue_pool)
  BY <1>3, ShortLists DEF TakesQueued, QInv, Rings
<1>11. /\ InQueue'[k] = InQueue[k] \ {t} /\ Rings'
       /\ \A r \in QueueNames \ {k} : InQueue'[r] = InQueue[r]
  <2>1. InQueue'[k] = InQueue[k] \ {t}
    BY <1>3, InQueueIs
  <2>2. Rings' /\ \A r \in QueueNames \ {k} : InQueue'[r] = InQueue[r]
    BY <1>2, <1>3, <1>10, QueueChanges DEF QInv
  <2> QED BY <2>1, <2>2
<1>12. /\ Apart(Where)' /\ Apart(InQueue)'
       /\ AtAll(Where)' \cap AtAll(InQueue)' = {}
       /\ AtAll(Where)' \cup AtAll(InQueue)' = Tasks
  <2> HIDE DEF p, k
  <2> QED BY <1>4, <1>8, <1>9, <1>11, OutOfQueue
<1>13. PInv'
  BY <1>1, <1>2, <1>6, <1>7, <1>12, KeepPInv DEF QInv, TypeOK
<1>14. \A d \in Cores : AtQueue(d)'
  BY <1>8 DEF QInv, AtQueue
<1>15. QInv'
  BY <1>11, <1>12, <1>13, <1>14 DEF QInv
<1> QED BY <1>1, <1>2, <1>3, <1>6, <1>8, <1>15 DEF t

-----------------------------------------------------------------------------
\* A task stops, for a queue (and is in the core's hand), or in one.
LEMMA StopsPInvFrom ==
  ASSUME PInv, NEW c \in Cores, Swi(c), stop_running_task(c),
         UNCHANGED <<idle, irq_task, interrupted_tasks, masked, sharedVars, r0, controller,
                     ended>>,
         \/ step' = [step EXCEPT ![c] = "queue"] /\ hand' = [hand EXCEPT ![c] = <<Current(c)>>]
         \/ step' = [step EXCEPT ![c] = "resume"] /\ hand' = hand
  PROVE  /\ OthersSame(c)
         /\ IInv' /\ Last(running'[c]) = idle[c]
         /\ Current(c) \in Tasks /\ hand[c] = <<>>
         /\ Current(c) \in ToSet(running[c])
         /\ ToSet(running'[c]) = ToSet(running[c]) \ {Current(c)}
         /\ Apart(Where)' => PInv'
<1> DEFINE t == Current(c)
<1>1. /\ TypeOK /\ IInv /\ t \in Tasks /\ hand[c] = <<>> /\ step[c] = "usr"
      /\ running[c] \in Seq(Tasks) /\ running[c] # <<>>
      /\ Tail(running[c]) \in Seq(Tasks) /\ Tail(running[c]) # <<>>
      /\ Last(Tail(running[c])) = idle[c] /\ idle[c] \in Tasks
  BY SwiType DEF PInv, IInv, HandInv, HandSteps, Swi
<1>2. /\ running' = [running EXCEPT ![c] = Tail(running[c])]
      /\ isRunning' = [isRunning EXCEPT ![t] = FALSE]
      /\ irqsOff' = [irqsOff EXCEPT ![t] = masked[c]]
  BY DEF stop_running_task, Current
<1>3. OthersSame(c)
  BY <1>1, <1>2 DEF OthersSame, TypeOK
<1>4. SavedKept(c)
  <2>1. t \in ToSet(running[c])
    BY <1>1, CurrentIsOn
  <2> QED BY <1>1, <1>2, <2>1 DEF SavedKept, TypeOK
<1>5. step'[c] \in {"queue", "resume"} /\ step' \in [Cores -> Steps]
  BY <1>1 DEF TypeOK, Steps
<1>6. /\ hand' \in [Cores -> Seq(Tasks)]
      /\ \/ hand'[c] = <<t>> /\ step'[c] = "queue"
         \/ hand'[c] = <<>>
  <2>1. <<t>> \in Seq(Tasks)
    BY <1>1
  <2> QED BY <1>1, <2>1 DEF TypeOK
<1>7. running'[c] = Tail(running[c]) /\ running' \in [Cores -> Seq(Tasks)]
  BY <1>1, <1>2 DEF TypeOK
<1>8. TypeOK'
  BY <1>1, <1>2, <1>5, <1>6, <1>7 DEF TypeOK, sharedVars
<1>9. IInv'
  <2>1. CoreInv(c)'
    BY <1>1, <1>5, <1>7 DEF CoreInv, IdleIsThere, LooksAlone, HasSleeper
  <2> QED BY <1>1, <1>3, <1>8, <2>1, OthersKeep DEF OthersSame
<1>10. /\ t \in ToSet(running[c]) /\ IsInjective(running'[c])
       /\ ToSet(running'[c]) = ToSet(running[c]) \ {t}
  BY <1>1, <1>7, TailedOnce DEF PInv, ListsOnce, Current
<1>11. ASSUME Apart(Where)' PROVE PInv'
  <2>1. SharedOnce' /\ OneController'
    BY DEF PInv, SharedOnce, OneController, sharedVars
  <2>2. Asking'
    BY <1>1, <1>3, AskingKept DEF PInv, sharedVars
  <2>3. ListsOnce(c)' /\ HandInv(c)'
    BY <1>5, <1>6, <1>10, ShortLists DEF PInv, ListsOnce, HandInv, HandSteps
  <2>4. /\ \A u \in ToSet(running'[c]) : isRunning'[u] <=> Runs(c, u)'
        /\ \A u \in ToSet(running[c]) \ ToSet(running'[c]) : ~isRunning'[u]
        /\ \A u \in Tasks \ (ToSet(running[c]) \cup ToSet(running'[c])) :
             isRunning'[u] = isRunning[u]
    <3>1. /\ isRunning'[t] = FALSE
          /\ \A u \in Tasks \ {t} : isRunning'[u] = isRunning[u]
      BY <1>1, <1>2 DEF TypeOK
    <3>2. ToSet(running[c]) \subseteq Tasks
      BY OnOneCore DEF PInv
    <3>3. \A u \in ToSet(running[c]) : isRunning[u] <=> Runs(c, u)
      BY <3>2, BitsOf DEF PInv
    <3>4. \A u : ~Runs(c, u)'
      BY <1>5 DEF Runs, Executing
    <3> QED BY <1>10, <3>1, <3>2, <3>3, <3>4 DEF Runs
  <2>5. step'[c] # "off"
    BY <1>5
  <2> QED BY <1>3, <1>4, <1>9, <1>11, <2>1, <2>2, <2>3, <2>4, <2>5, PInvFrom
<1> QED BY <1>1, <1>3, <1>7, <1>9, <1>10, <1>11

\* QueueSwi: the caller is in the core's hand.
LEMMA QueueSwiQInv ==
  ASSUME QInv, NEW c \in Cores, QueueSwi(c)
  PROVE  QInv' /\ OthersSame(c) /\ step[c] # "queue" /\ UNCHANGED <<queue, handlers>>
<1> DEFINE t == Current(c)
           p == <<"running", c>>
           h == <<"hand", c>>
           M == {t}
<1>1. /\ Swi(c) /\ stop_running_task(c) /\ PInv /\ TypeOK /\ step[c] # "queue"
      /\ UNCHANGED <<idle, irq_task, interrupted_tasks, masked, sharedVars, r0, controller,
                     ended>>
      /\ step' = [step EXCEPT ![c] = "queue"] /\ hand' = [hand EXCEPT ![c] = <<t>>]
      /\ UNCHANGED <<queue_pool, queue, handlers>>
  BY DEF QueueSwi, StopFor, GoTo, Swi, QInv, PInv, IInv, queueVars
<1>2. /\ OthersSame(c) /\ Last(running'[c]) = idle[c]
      /\ t \in Tasks /\ hand[c] = <<>> /\ t \in ToSet(running[c])
      /\ ToSet(running'[c]) = ToSet(running[c]) \ {t}
      /\ Apart(Where)' => PInv'
  BY <1>1, StopsPInvFrom
<1>3. hand'[c] = <<t>> /\ step'[c] = "queue" /\ Held' = Held
  BY <1>1 DEF TypeOK, Held
<1>4. /\ Where'[p] = Where[p] \ M /\ M \in SUBSET Where[p]
      /\ Where'[h] = Where[h] \cup M
  <2>1. CoreSays(c) /\ CoreSays(c)'
    BY WhereIs
  <2>2. Where'[p] = Where[p] \ M /\ M \in SUBSET Where[p]
    BY <1>2, <2>1 DEF CoreSays
  <2>3. Where[h] = {} /\ Where'[h] = M
    BY <1>2, <1>3, <2>1, ShortLists DEF CoreSays
  <2> QED BY <2>2, <2>3
<1>5. /\ p \in PlacesOf(c) /\ h \in PlacesOf(c) /\ p # h
      /\ \A r \in PlacesOf(c) \ {p, h} : Where'[r] = Where[r]
  BY <1>1, <1>3, SamePlaces DEF PlacesOf, sharedVars
<1>6. Apart(Where)' /\ AtAll(Where)' = AtAll(Where)
  <2> HIDE DEF p, h, M
  <2> QED BY <1>1, <1>2, <1>4, <1>5, TasksMove DEF PInv
<1>7. Rings' /\ InQueue' = InQueue
  BY <1>1 DEF QInv, Rings, InQueue
<1>8. \A d \in Cores : AtQueue(d)'
  <2>1. Head(<<t>>) = t
    OBVIOUS
  <2>2. AtQueue(c)'
    BY <1>1, <1>2, <1>3, <2>1 DEF AtQueue
  <2> QED BY <1>2, <2>2, OthersAtQueue DEF QInv
<1>9. QInv'
  BY <1>2, <1>6, <1>7, <1>8 DEF QInv, Apart, AtAll
<1> QED BY <1>1, <1>2, <1>9

\* A queue that a task uses has been made.
LEMMA CreatedQueue ==
  ASSUME QInv, NEW q \in Created PROVE q \in Queues /\ q \notin ToSet(queue_pool)
BY DEF Created

\* QueueWait with nothing to take: the task is with the handlers that wait.
LEMMA HandlerWaitsQInv ==
  ASSUME QInv, NEW c \in Cores, NEW q \in Created, HandlerWaits(c, q)
  PROVE  QInv' /\ OthersSame(c) /\ step[c] # "queue" /\ queue' = queue
<1> DEFINE t == Current(c)
           p == <<"running", c>>
           k == <<"handlers", q>>
<1>1. /\ Swi(c) /\ stop_running_task(c) /\ PInv /\ TypeOK /\ step[c] # "queue"
      /\ UNCHANGED <<idle, irq_task, interrupted_tasks, masked, sharedVars, r0, controller,
                     ended>>
      /\ step' = [step EXCEPT ![c] = "resume"] /\ hand' = hand
      /\ UNCHANGED <<queue_pool, queue>>
      /\ handlers' = [handlers EXCEPT ![q] = <<t>> \o handlers[q]]
  BY DEF HandlerWaits, GoTo, Swi, QInv, PInv, IInv
<1>2. /\ OthersSame(c) /\ t \in Tasks /\ t \in ToSet(running[c])
      /\ ToSet(running'[c]) = ToSet(running[c]) \ {t}
      /\ Apart(Where)' => PInv'
  BY <1>1, StopsPInvFrom
<1>3. q \in Queues /\ q \notin ToSet(queue_pool)
  BY CreatedQueue
<1>4. t \notin ToSet(handlers[q])
  <2>1. <<"handlers", q>> \in QueueNames /\ InQueue[<<"handlers", q>>] = ToSet(handlers[q])
    BY <1>3, InQueueIs
  <2> HIDE DEF t
  <2> QED BY <1>2, <2>1, QueuedElsewhere
<1>5. /\ handlers' \in [Queues -> Seq(Tasks)] /\ IsInjective(handlers'[q])
      /\ ToSet(handlers'[q]) = ToSet(handlers[q]) \cup {t}
      /\ \A r \in Queues \ {q} : handlers'[r] = handlers[r]
  <2>1. handlers \in [Queues -> Seq(Tasks)] /\ IsInjective(handlers[q])
    BY <1>3 DEF QInv, Rings
  <2> DEFINE one == <<t>>
  <2>2. /\ handlers' = [handlers EXCEPT ![q] = one \o handlers[q]]
        /\ one \in Seq(Tasks) /\ IsInjective(one) /\ ToSet(one) = {t}
    BY <1>1, <1>2, ShortLists
  <2> HIDE DEF t, one
  <2>3. ToSet(one) \cap ToSet(handlers[q]) = {}
    BY <1>4, <2>2
  <2>4. handlers[q] \in Seq(Tasks)
    BY <1>3, <2>1
  <2> DEFINE s == handlers[q]
             new == one \o s
  <2>5. new \in Seq(Tasks) /\ IsInjective(new) /\ ToSet(new) = ToSet(s) \cup ToSet(one)
    <3> HIDE DEF s
    <3>1. s \in Seq(Tasks) /\ IsInjective(s) /\ ToSet(one) \cap ToSet(s) = {}
      BY <2>1, <2>3, <2>4 DEF s
    <3> QED BY <2>2, <3>1, HeadPut
  <2>6. handlers' = [handlers EXCEPT ![q] = new]
    BY <2>2
  <2> HIDE DEF new
  <2> QED BY <1>3, <2>1, <2>2, <2>5, <2>6
<1>6. Rings' /\ \A r \in QueueNames \ {k} : InQueue'[r] = InQueue[r]
  BY <1>1, <1>3, <1>5, HandlersChange DEF QInv
<1>7. k \in QueueNames /\ InQueue'[k] = InQueue[k] \cup {t}
  BY <1>3, <1>5, InQueueIs
<1>8. /\ p \in PlacesOf(c) /\ Where'[p] = Where[p] \ {t} /\ t \in Where[p]
      /\ \A r \in PlacesOf(c) \ {p} : Where'[r] = Where[r]
  <2>1. CoreSays(c) /\ CoreSays(c)'
    BY WhereIs
  <2>2. Where'[p] = Where[p] \ {t} /\ t \in Where[p]
    BY <1>2, <2>1 DEF CoreSays
  <2>3. \A r \in PlacesOf(c) \ {p} : Where'[r] = Where[r]
    BY <1>1, SamePlaces DEF PlacesOf, sharedVars, Held
  <2> QED BY <2>2, <2>3 DEF PlacesOf
<1>9. /\ Apart(Where)' /\ Apart(InQueue)'
      /\ AtAll(Where)' \cap AtAll(InQueue)' = {}
      /\ AtAll(Where)' \cup AtAll(InQueue)' = Tasks
  <2> HIDE DEF p, k, t
  <2> QED BY <1>2, <1>6, <1>7, <1>8, IntoQueue
<1>10. \A d \in Cores : AtQueue(d)'
  <2>1. AtQueue(c)'
    BY <1>1 DEF AtQueue, TypeOK
  <2> QED BY <1>2, <2>1, OthersAtQueue DEF QInv
<1>11. QInv'
  BY <1>2, <1>6, <1>9, <1>10 DEF QInv
<1> QED BY <1>1, <1>2, <1>11

-----------------------------------------------------------------------------
\* The caller is in the core's hand, and only it.
LEMMA CallerInHand ==
  ASSUME QInv, NEW c \in Cores, step[c] = "queue"
  PROVE  /\ Head(hand[c]) \in Tasks /\ hand[c] = <<Head(hand[c])>>
         /\ ToSet(hand[c]) = {Head(hand[c])} /\ controller[Head(hand[c])] = <<>>
         /\ running[c] \in Seq(Tasks) /\ running[c] # <<>> /\ Last(running[c]) = idle[c]
         /\ \A u \in ToSet(running[c]) : ~isRunning[u]
<1> DEFINE t == Head(hand[c])
           h == <<"hand", c>>
<1>1. hand[c] = <<t>> /\ Last(running[c]) = idle[c] /\ hand[c] \in Seq(Tasks)
  BY DEF QInv, AtQueue, PInv, IInv, TypeOK
<1>2. ToSet(hand[c]) = {t}
  <2> HIDE DEF t
  <2> QED BY <1>1, ShortLists
<1>3. t \in Tasks
  <2>1. Len(<<t>>) = 1 /\ <<t>>[1] = t
    OBVIOUS
  <2> HIDE DEF t
  <2>2. Len(hand[c]) = 1 /\ hand[c][1] = t
    BY <1>1, <2>1
  <2> QED BY <1>1, <2>2, LenProperties, ElementOfSeq
<1>4. controller[t] = <<>>
  <2>1. h \in PlaceNames /\ t \in Where[h] /\ h # <<"shared", "held">>
    BY <1>2, WhereIs DEF PlaceNames, CoreSays
  <2> HIDE DEF h, t
  <2>2. t \notin Held
    BY <2>1, Elsewhere DEF QInv, PInv
  <2> QED BY <1>3, <2>2 DEF Held
<1>5. running[c] \in Seq(Tasks) /\ running[c] # <<>>
  BY DEF QInv, PInv, IInv, TypeOK, CoreInv, IdleIsThere
<1>6. \A u \in ToSet(running[c]) : ~isRunning[u]
  <2>1. ToSet(running[c]) \subseteq Tasks
    BY OnOneCore DEF QInv, PInv
  <2> QED BY <2>1, BitsOf DEF QInv, PInv, Runs, Executing
<1> QED BY <1>1, <1>2, <1>3, <1>4, <1>5, <1>6

\* What there is to show at the end of such a SWI.
LEMMA QueueSwiEnds ==
  ASSUME QInv, NEW c \in Cores, step[c] = "queue",
         step' = [step EXCEPT ![c] = "resume"], hand' = [hand EXCEPT ![c] = <<>>],
         NEW list \in Seq(Tasks), running' = [running EXCEPT ![c] = list],
         list # <<>>, Last(list) = idle[c], IsInjective(list),
         ToSet(running[c]) \subseteq ToSet(list), \A u \in ToSet(list) : ~isRunning[u],
         UNCHANGED <<idle, irq_task, interrupted_tasks, masked, sharedVars, isRunning,
                     irqsOff, r0, ended>>,
         controller' \in [Tasks -> Seq(Tasks)], OneController'
  PROVE  /\ OthersSame(c) /\ (Apart(Where)' => PInv')
         /\ \A d \in Cores : AtQueue(d)'
<1>1. TypeOK /\ PInv /\ IInv
  BY DEF QInv, PInv, IInv
<1>2. OthersSame(c) /\ SavedKept(c)
  BY <1>1 DEF OthersSame, SavedKept, TypeOK
<1>3. running'[c] = list /\ step'[c] = "resume" /\ hand'[c] = <<>>
  BY <1>1 DEF TypeOK
<1>4. TypeOK'
  <2>1. <<>> \in Seq(Tasks) /\ "resume" \in Steps
    BY DEF Steps
  <2> QED BY <1>1, <2>1 DEF TypeOK, sharedVars
<1>5. IInv'
  <2>1. CoreInv(c)'
    BY <1>1, <1>3 DEF IInv, CoreInv, IdleIsThere, LooksAlone, HasSleeper
  <2> QED BY <1>1, <1>2, <1>4, <2>1, OthersKeep DEF OthersSame
<1>6. ASSUME Apart(Where)' PROVE PInv'
  <2>1. SharedOnce'
    BY <1>1 DEF PInv, SharedOnce, sharedVars
  <2>2. Asking'
    BY <1>1, <1>2, AskingKept DEF PInv, sharedVars
  <2>3. ListsOnce(c)' /\ HandInv(c)'
    BY <1>1, <1>3, ShortLists DEF PInv, ListsOnce, HandInv
  <2>4. /\ \A u \in ToSet(running'[c]) : isRunning'[u] <=> Runs(c, u)'
        /\ \A u \in ToSet(running[c]) \ ToSet(running'[c]) : ~isRunning'[u]
    BY <1>3 DEF Runs, Executing
  <2>5. step'[c] # "off"
    BY <1>3
  <2> QED BY <1>1, <1>2, <1>5, <1>6, <2>1, <2>2, <2>3, <2>4, <2>5, PInvFrom
<1>7. \A d \in Cores : AtQueue(d)'
  <2>1. AtQueue(c)'
    BY <1>3 DEF AtQueue
  <2> QED BY <1>2, <2>1, OthersAtQueue DEF QInv
<1> QED BY <1>2, <1>6, <1>7

\* Queued: no handler waits, and the caller does.
LEMMA QueuedQInv ==
  ASSUME QInv, NEW c \in Cores, NEW q \in Created, Queued(c, q)
  PROVE  /\ QInv' /\ OthersSame(c)
         /\ ToSet(queue'[q]) = ToSet(queue[q]) \cup ToSet(hand[c])
         /\ \A r \in Queues \ {q} : queue'[r] = queue[r]
<1> DEFINE t == Head(hand[c])
           p == <<"hand", c>>
           k == <<"queue", q>>
<1>1. /\ TypeOK /\ step[c] = "queue"
      /\ step' = [step EXCEPT ![c] = "resume"] /\ hand' = [hand EXCEPT ![c] = <<>>]
      /\ queue' = [queue EXCEPT ![q] = hand[c] \o queue[q]]
      /\ UNCHANGED <<running, idle, irq_task, interrupted_tasks, masked, sharedVars,
                     isRunning, irqsOff, r0, controller, ended, queue_pool, handlers>>
  BY DEF Queued, GoTo, QInv, PInv, IInv, taskVars
<1>2. /\ t \in Tasks /\ hand[c] = <<t>> /\ ToSet(hand[c]) = {t}
      /\ running[c] \in Seq(Tasks) /\ running[c] # <<>> /\ Last(running[c]) = idle[c]
      /\ \A u \in ToSet(running[c]) : ~isRunning[u]
  BY <1>1, CallerInHand
<1> HIDE DEF t
<1>3. q \in Queues /\ q \notin ToSet(queue_pool)
  BY CreatedQueue
<1>4. t \notin ToSet(queue[q])
  <2>1. <<"queue", q>> \in QueueNames /\ InQueue[<<"queue", q>>] = ToSet(queue[q])
    BY <1>3, InQueueIs
  <2> QED BY <1>2, <2>1, QueuedElsewhere
<1>5. /\ queue' \in [Queues -> Seq(Tasks)] /\ IsInjective(queue'[q])
      /\ ToSet(queue'[q]) = ToSet(queue[q]) \cup {t}
      /\ \A r \in Queues \ {q} : queue'[r] = queue[r]
  <2>1. queue \in [Queues -> Seq(Tasks)] /\ IsInjective(queue[q])
    BY <1>3 DEF QInv, Rings
  <2>2. hand[c] \in Seq(Tasks) /\ IsInjective(hand[c])
    BY DEF QInv, PInv, IInv, TypeOK, ListsOnce
  <2>3. ToSet(hand[c]) = {t} /\ queue' = [queue EXCEPT ![q] = hand[c] \o queue[q]]
    BY <1>1, <1>2
  <2>4. ToSet(hand[c]) \cap ToSet(queue[q]) = {}
    BY <1>4, <2>3
  <2>5. queue[q] \in Seq(Tasks)
    BY <1>3, <2>1
  <2> DEFINE s == queue[q]
             one == hand[c]
             new == one \o s
  <2>6. new \in Seq(Tasks) /\ IsInjective(new) /\ ToSet(new) = ToSet(s) \cup ToSet(one)
    <3>1. /\ s \in Seq(Tasks) /\ IsInjective(s) /\ one \in Seq(Tasks) /\ IsInjective(one)
          /\ ToSet(one) \cap ToSet(s) = {}
      BY <2>1, <2>2, <2>4, <2>5
    <3> HIDE DEF s, one
    <3> QED BY <3>1, HeadPut
  <2>7. queue' = [queue EXCEPT ![q] = new]
    BY <2>3
  <2> HIDE DEF new
  <2> QED BY <1>3, <2>1, <2>3, <2>6, <2>7
<1>6. Rings' /\ \A r \in QueueNames \ {k} : InQueue'[r] = InQueue[r]
  BY <1>1, <1>3, <1>5, QueueChanges DEF QInv
<1>7. k \in QueueNames /\ InQueue'[k] = InQueue[k] \cup {t}
  BY <1>3, <1>5, InQueueIs
<1>8. /\ OthersSame(c) /\ (Apart(Where)' => PInv')
      /\ \A d \in Cores : AtQueue(d)'
  <2>1. running' = [running EXCEPT ![c] = running[c]]
    BY <1>1 DEF TypeOK
  <2>2. IsInjective(running[c]) /\ OneController' /\ controller' \in [Tasks -> Seq(Tasks)]
    BY <1>1 DEF QInv, PInv, ListsOnce, OneController, TypeOK
  <2> QED BY <1>1, <1>2, <2>1, <2>2, QueueSwiEnds
<1>9. /\ p \in PlacesOf(c) /\ Where'[p] = Where[p] \ {t} /\ t \in Where[p]
      /\ \A r \in PlacesOf(c) \ {p} : Where'[r] = Where[r]
  <2>1. CoreSays(c) /\ CoreSays(c)' /\ hand'[c] = <<>>
    BY <1>1, WhereIs DEF TypeOK
  <2>2. Where[p] = {t} /\ Where'[p] = {}
    BY <1>2, <2>1, ShortLists DEF CoreSays
  <2>3. \A r \in PlacesOf(c) \ {p} : Where'[r] = Where[r]
    BY <1>1, SamePlaces DEF PlacesOf, sharedVars, Held
  <2> QED BY <2>2, <2>3 DEF PlacesOf
<1>10. /\ Apart(Where)' /\ Apart(InQueue)'
       /\ AtAll(Where)' \cap AtAll(InQueue)' = {}
       /\ AtAll(Where)' \cup AtAll(InQueue)' = Tasks
  <2> HIDE DEF p, k
  <2> QED BY <1>6, <1>7, <1>8, <1>9, IntoQueue
<1>11. QInv'
  BY <1>6, <1>8, <1>10 DEF QInv
<1> QED BY <1>2, <1>5, <1>8, <1>11

\* The caller goes from the hand to those that are held, the handler from its
\* queue to those on the core.
LEMMA CallerAndHandler ==
  ASSUME NEW at, NEW to, NEW from, NEW in, DOMAIN to = DOMAIN at, DOMAIN in = DOMAIN from,
         Apart(at), Apart(from), AtAll(at) \cap AtAll(from) = {},
         NEW p \in DOMAIN at, NEW l \in DOMAIN at, NEW r \in DOMAIN at, p # l, p # r, l # r,
         NEW t \in at[p], NEW k \in DOMAIN from, NEW h \in from[k],
         to[p] = at[p] \ {t}, to[l] = at[l] \cup {t}, to[r] = at[r] \cup {h},
         \A s \in DOMAIN at \ {p, l, r} : to[s] = at[s],
         in[k] = from[k] \ {h}, \A s \in DOMAIN from \ {k} : in[s] = from[s]
  PROVE  /\ Apart(to) /\ Apart(in) /\ AtAll(to) \cap AtAll(in) = {}
         /\ AtAll(to) \cup AtAll(in) = AtAll(at) \cup AtAll(from)
<1> DEFINE mid == [s \in DOMAIN at |-> IF s = r THEN at[r] ELSE to[s]]
           T == {t}
           H == {h}
<1>1. /\ DOMAIN mid = DOMAIN at /\ DOMAIN to = DOMAIN mid
      /\ mid[p] = at[p] \ T /\ mid[l] = at[l] \cup T /\ mid[r] = at[r]
      /\ \A s \in DOMAIN at \ {p, l} : mid[s] = at[s]
      /\ to[r] = mid[r] \cup H /\ \A s \in DOMAIN mid \ {r} : to[s] = mid[s]
  OBVIOUS
<1>2. T \in SUBSET at[p] /\ H \in SUBSET from[k] /\ in[k] = from[k] \ H
  OBVIOUS
<1>3. h \in AtAll(from)
  BY DEF AtAll
<1>4. H = {h}
  OBVIOUS
<1> HIDE DEF mid, T, H
<1>5. Apart(mid) /\ AtAll(mid) = AtAll(at)
  BY <1>1, <1>2, Moved
<1>6. H \cap AtAll(mid) = {} /\ r \in DOMAIN mid
  BY <1>1, <1>3, <1>4, <1>5
<1>7. Apart(to) /\ AtAll(to) = AtAll(mid) \cup H
  <2>1. \A s \in DOMAIN mid : mid[s] \cap H = {}
    BY <1>6 DEF AtAll
  <2>2. Apart(to)
    BY <1>1, <1>5, <2>1 DEF Apart
  <2>3. AtAll(to) = AtAll(mid) \cup H
    BY <1>1, <1>6 DEF AtAll
  <2> QED BY <2>2, <2>3
<1>8. Apart(in) /\ AtAll(in) = AtAll(from) \ H
  BY <1>2, Left
<1> QED BY <1>3, <1>4, <1>5, <1>7, <1>8

\* HandlerTakes: a handler goes on where the caller was, and has control of it.
LEMMA HandlerTakesQInv ==
  ASSUME QInv, NEW c \in Cores, NEW q \in Created, HandlerTakes(c, q)
  PROVE  /\ QInv' /\ OthersSame(c) /\ queue' = queue /\ hand'[c] = <<>>
         /\ ToSet(hand[c]) = {Head(hand[c])}
         /\ running'[c] # <<>> /\ controller'[Head(hand[c])] = <<Head(running'[c])>>
<1> DEFINE t == Head(hand[c])
           h == Head(handlers[q])
           list == <<h>> \o running[c]
           p == <<"hand", c>>
           r == <<"running", c>>
           l == <<"shared", "held">>
           k == <<"handlers", q>>
<1>1. /\ TypeOK /\ step[c] = "queue" /\ handlers[q] # <<>>
      /\ step' = [step EXCEPT ![c] = "resume"] /\ hand' = [hand EXCEPT ![c] = <<>>]
      /\ running' = [running EXCEPT ![c] = list]
      /\ handlers' = [handlers EXCEPT ![q] = Tail(handlers[q])]
      /\ controller' = [controller EXCEPT ![t] = push_controller(controller[t], h)]
      /\ UNCHANGED <<idle, irq_task, interrupted_tasks, masked, sharedVars,
                     isRunning, irqsOff, r0, ended, queue_pool, queue>>
  BY DEF HandlerTakes, GoTo, QInv, PInv, IInv
<1>2. /\ t \in Tasks /\ hand[c] = <<t>> /\ ToSet(hand[c]) = {t} /\ controller[t] = <<>>
      /\ running[c] \in Seq(Tasks) /\ running[c] # <<>> /\ Last(running[c]) = idle[c]
      /\ \A u \in ToSet(running[c]) : ~isRunning[u]
  BY <1>1, CallerInHand
<1>3. q \in Queues /\ q \notin ToSet(queue_pool)
  BY CreatedQueue
<1>4. /\ h \in Tasks /\ h \in ToSet(handlers[q])
      /\ handlers' \in [Queues -> Seq(Tasks)] /\ IsInjective(handlers'[q])
      /\ ToSet(handlers'[q]) = ToSet(handlers[q]) \ {h}
      /\ \A s \in Queues \ {q} : handlers'[s] = handlers[s]
  <2>1. handlers \in [Queues -> Seq(Tasks)] /\ IsInjective(handlers[q]) /\ handlers[q] # <<>>
    BY <1>1, <1>3 DEF QInv, Rings
  <2>2. handlers' = [handlers EXCEPT ![q] = Tail(handlers[q])]
    BY <1>1
  <2> QED BY <1>3, <2>1, <2>2, HeadTaken
<1> HIDE DEF t, h
<1>5. /\ k \in QueueNames /\ InQueue[k] = ToSet(handlers[q]) /\ InQueue'[k] = ToSet(handlers'[q])
      /\ DOMAIN InQueue = QueueNames /\ DOMAIN InQueue' = QueueNames
  BY <1>3, InQueueIs
<1>6. h \in InQueue[k] /\ InQueue'[k] = InQueue[k] \ {h}
  BY <1>4, <1>5
<1>7. h \notin ToSet(running[c]) /\ h \notin Where[l]
  <2>1. l \in PlaceNames
    BY DEF PlaceNames
  <2> HIDE DEF k, l
  <2> QED BY <1>5, <1>6, <2>1, QueuedElsewhere
<1>8. ~isRunning[h]
  <2>1. \A d \in Cores : h \notin ToSet(running[d])
    <3> HIDE DEF k
    <3> QED BY <1>5, <1>6, QueuedElsewhere
  <2> QED BY <1>4, <2>1, BitsOf DEF QInv, PInv
<1>9. /\ list \in Seq(Tasks) /\ list # <<>> /\ Head(list) = h /\ Last(list) = idle[c]
      /\ IsInjective(list) /\ ToSet(list) = ToSet(running[c]) \cup {h}
  <2> DEFINE one == <<h>>
             rest == running[c]
  <2>1. list \in Seq(Tasks) /\ list # <<>> /\ Head(list) = h /\ Last(list) = Last(running[c])
    BY <1>2, <1>4, Prefixed
  <2>2. one \in Seq(Tasks) /\ IsInjective(one) /\ ToSet(one) = {h} /\ list = one \o rest
    BY <1>4, ShortLists
  <2>3. rest \in Seq(Tasks) /\ IsInjective(rest) /\ ToSet(rest) = ToSet(running[c])
    BY <1>2 DEF QInv, PInv, ListsOnce
  <2> HIDE DEF list, one, rest
  <2>4. IsInjective(list) /\ ToSet(list) = ToSet(running[c]) \cup {h}
    <3>1. ToSet(one) \cap ToSet(rest) = {}
      BY <1>7, <2>2, <2>3
    <3>2. IsInjective(one \o rest) /\ ToSet(one \o rest) = ToSet(rest) \cup ToSet(one)
      BY <2>2, <2>3, <3>1, HeadPut
    <3> QED BY <2>2, <2>3, <3>2
  <2> QED BY <1>2, <2>1, <2>4
<1>10. /\ controller'[t] = <<h>> /\ <<h>> # <<>> /\ Len(<<h>>) <= 1
       /\ controller' \in [Tasks -> Seq(Tasks)]
       /\ \A u \in Tasks \ {t} : controller'[u] = controller[u]
  <2>1. controller' = [controller EXCEPT ![t] = <<h>>]
    BY <1>1, <1>2 DEF push_controller
  <2> DEFINE one == <<h>>
  <2>2. one \in Seq(Tasks) /\ one # <<>> /\ Len(one) <= 1
    BY <1>4
  <2>3. controller \in [Tasks -> Seq(Tasks)]
    BY <1>1 DEF TypeOK
  <2> HIDE DEF one
  <2>4. /\ controller'[t] = one /\ controller' \in [Tasks -> Seq(Tasks)]
        /\ \A u \in Tasks \ {t} : controller'[u] = controller[u]
    BY <1>2, <2>1, <2>2, <2>3 DEF one
  <2> QED BY <2>2, <2>4 DEF one
<1>11. Held' = Held \cup {t} /\ OneController'
  BY <1>2, <1>10 DEF Held, QInv, PInv, OneController
<1>12. running'[c] = list /\ hand'[c] = <<>>
  BY <1>1 DEF TypeOK
<1>13. /\ OthersSame(c) /\ (Apart(Where)' => PInv')
       /\ \A d \in Cores : AtQueue(d)'
  <2>1. ToSet(running[c]) \subseteq ToSet(list) /\ \A u \in ToSet(list) : ~isRunning[u]
    BY <1>2, <1>8, <1>9
  <2> HIDE DEF list
  <2> QED BY <1>1, <1>2, <1>9, <1>10, <1>11, <2>1, QueueSwiEnds
<1>14. Rings' /\ \A s \in QueueNames \ {k} : InQueue'[s] = InQueue[s]
  BY <1>1, <1>3, <1>4, HandlersChange DEF QInv
<1>15. /\ Where'[p] = Where[p] \ {t} /\ t \in Where[p] /\ Where'[l] = Where[l] \cup {t}
       /\ Where'[r] = Where[r] \cup {h}
  <2>1. CoreSays(c) /\ CoreSays(c)' /\ SharedSays /\ SharedSays'
    BY WhereIs
  <2>2. Where[p] = {t} /\ Where'[p] = {}
    BY <1>2, <1>12, <2>1, ShortLists DEF CoreSays
  <2>3. Where'[l] = Where[l] \cup {t}
    BY <1>11, <2>1 DEF SharedSays
  <2>4. Where'[r] = Where[r] \cup {h}
    <3> HIDE DEF list
    <3> QED BY <1>9, <1>12, <2>1 DEF CoreSays
  <2> QED BY <2>2, <2>3, <2>4
<1>16. /\ p \in PlaceNames /\ l \in PlaceNames /\ r \in PlaceNames /\ p # l /\ p # r /\ l # r
       /\ \A s \in PlaceNames \ {p, l, r} : Where'[s] = Where[s]
       /\ DOMAIN Where = PlaceNames /\ DOMAIN Where' = PlaceNames
  <2>1. p \in PlacesOf(c) /\ l \in PlacesOf(c) /\ r \in PlacesOf(c)
    BY DEF PlacesOf
  <2>2. \A s \in PlacesOf(c) \ {p, l, r} : Where'[s] = Where[s]
    BY <1>1, SamePlaces DEF PlacesOf, sharedVars
  <2>3. PlacesOf(c) \subseteq PlaceNames /\ \A s \in PlaceNames \ PlacesOf(c) : Where'[s] = Where[s]
    BY <1>13, OthersStay
  <2>4. p # l /\ p # r /\ l # r
    OBVIOUS
  <2> HIDE DEF p, l, r
  <2> QED BY <2>1, <2>2, <2>3, <2>4 DEF Where
<1>17. /\ Apart(Where)' /\ Apart(InQueue)'
       /\ AtAll(Where)' \cap AtAll(InQueue)' = {}
       /\ AtAll(Where)' \cup AtAll(InQueue)' = Tasks
  <2> DEFINE at == Where
             to == Where'
             from == InQueue
             in == InQueue'
  <2>1. /\ Apart(at) /\ Apart(from) /\ AtAll(at) \cap AtAll(from) = {}
        /\ AtAll(at) \cup AtAll(from) = Tasks
    BY DEF QInv, PInv
  <2>2. /\ DOMAIN to = DOMAIN at /\ DOMAIN in = DOMAIN from
        /\ p \in DOMAIN at /\ l \in DOMAIN at /\ r \in DOMAIN at /\ p # l /\ p # r /\ l # r
        /\ \A s \in DOMAIN at \ {p, l, r} : to[s] = at[s]
    BY <1>5, <1>16
  <2>3. /\ t \in at[p] /\ to[p] = at[p] \ {t} /\ to[l] = at[l] \cup {t} /\ to[r] = at[r] \cup {h}
    BY <1>15
  <2>4. /\ k \in DOMAIN from /\ h \in from[k] /\ in[k] = from[k] \ {h}
        /\ \A s \in DOMAIN from \ {k} : in[s] = from[s]
    BY <1>5, <1>6, <1>14
  <2> HIDE DEF at, to, from, in, p, l, r, k
  <2>5. /\ Apart(to) /\ Apart(in) /\ AtAll(to) \cap AtAll(in) = {}
        /\ AtAll(to) \cup AtAll(in) = AtAll(at) \cup AtAll(from)
    BY <2>1, <2>2, <2>3, <2>4, CallerAndHandler
  <2> QED BY <2>1, <2>5 DEF at, to, from, in, Apart, AtAll
<1>18. QInv'
  BY <1>13, <1>14, <1>17 DEF QInv
<1>19. running'[c] # <<>> /\ Head(running'[c]) = h
  BY <1>9, <1>12
<1> QED BY <1>1, <1>2, <1>10, <1>12, <1>13, <1>18, <1>19 DEF t

-----------------------------------------------------------------------------
\* QInv is inductive.
LEMMA NextQInv == QInv /\ [QueuesNext]_queuesVars => QInv'
<1> SUFFICES ASSUME QInv, [QueuesNext]_queuesVars PROVE QInv'
  OBVIOUS
<1>1. CASE QueuesNext
  <2>1. CASE Next /\ UNCHANGED queueVars
    BY <2>1, SchedulerQInv
  <2>2. ASSUME NEW c \in Cores, QueueStep(c) PROVE QInv'
    <3>1. CASE QueueCreate(c) \/ QueueSwi(c) \/ SetRegisters(c)
      BY <3>1, CreateQInv, QueueSwiQInv, SetRegistersQInv
    <3>2. ASSUME NEW q \in Created,
                 HandlerWaits(c, q) \/ TakesQueued(c, q) \/ HandlerTakes(c, q) \/ Queued(c, q)
          PROVE  QInv'
      BY <3>2, CreatedQueue, HandlerWaitsQInv, TakesQueuedQInv, HandlerTakesQInv, QueuedQInv
    <3> QED BY <2>2, <3>1, <3>2 DEF QueueStep
  <2> QED BY <1>1, <2>1, <2>2 DEF QueuesNext
<1>2. CASE UNCHANGED queuesVars
  BY <1>2, SchedulerQInv DEF queuesVars
<1> QED BY <1>1, <1>2

\* The inductive invariant of every behaviour with queues.
THEOREM QueuesInvariant == QueuesSpec => []QInv
<1> QED BY InitQInv, NextQInv, PTL DEF QueuesSpec

\* Every task is in exactly one of the lists, queues and hands, and once, for any
\* number of cores, tasks and queues: no two cores execute it or hand it on, and
\* none waits where nobody would find it (OnePlaceWithQueues).
THEOREM EveryTaskInOnePlaceOrQueue == QueuesSpec => []OnePlaceWithQueues
<1>1. QInv => OnePlaceWithQueues
  <2> SUFFICES ASSUME QInv PROVE OnePlaceWithQueues
    OBVIOUS
  <2>1. DOMAIN Where = PlaceNames /\ DOMAIN InQueue = QueueNames
    BY DEF Where, InQueue
  <2>2. ASSUME NEW t \in Tasks PROVE InQueues(t) = {k \in QueueNames : t \in InQueue[k]}
    <3>1. ASSUME NEW k PROVE k \in InQueues(t) <=> k \in QueueNames /\ t \in InQueue[k]
      <4>1. k \in InQueues(t) <=>
              \E q \in Queues : \/ k = <<"queue", q>> /\ t \in ToSet(queue[q])
                                \/ k = <<"handlers", q>> /\ t \in ToSet(handlers[q])
        BY DEF InQueues
      <4>2. k \in QueueNames <=>
              \E q \in Queues : k = <<"queue", q>> \/ k = <<"handlers", q>>
        BY DEF QueueNames
      <4> QED BY <4>1, <4>2, InQueueIs
    <3> QED BY <3>1
  <2>3. ASSUME NEW t \in Tasks PROVE Cardinality(Places(t) \cup InQueues(t)) = 1
    <3>1. \A p \in PlaceNames, k \in QueueNames : ~(t \in Where[p] /\ t \in InQueue[k])
      BY QueuedElsewhere
    <3>2. \A p, r \in PlaceNames : t \in Where[p] /\ t \in Where[r] => p = r
      BY <2>1 DEF QInv, PInv, Apart
    <3>3. \A k, l \in QueueNames : t \in InQueue[k] /\ t \in InQueue[l] => k = l
      BY <2>1 DEF QInv, Apart
    <3>4. (\E p \in PlaceNames : t \in Where[p]) \/ (\E k \in QueueNames : t \in InQueue[k])
      BY <2>1 DEF QInv, AtAll
    <3> DEFINE places == Places(t)
               queues == InQueues(t)
    <3>5. /\ places = {p \in PlaceNames : t \in Where[p]}
          /\ queues = {k \in QueueNames : t \in InQueue[k]}
      BY <2>2, PlacesByName
    <3> HIDE DEF places, queues
    <3>6. ASSUME NEW p \in PlaceNames, t \in Where[p] PROVE places \cup queues = {p}
      BY <3>1, <3>2, <3>5, <3>6
    <3>7. ASSUME NEW k \in QueueNames, t \in InQueue[k] PROVE places \cup queues = {k}
      BY <3>1, <3>3, <3>5, <3>7
    <3>8. \E p : places \cup queues = {p}
      BY <3>4, <3>6, <3>7
    <3> QED BY <3>8, FS_Singleton DEF places, queues
  <2> QED BY <2>3 DEF OnePlaceWithQueues, QInv, Rings
<1> QED BY <1>1, QueuesInvariant, PTL

\* A caller waits: in a queue, or in the hand of the core that deals with it.
Waiting(t) ==
  \/ \E q \in Queues : t \in ToSet(queue[q])
  \/ \E c \in Cores : step[c] = "queue" /\ t \in ToSet(hand[c])

\* A caller goes on only under the control of the handler that has its handle, on
\* whichever core and after however many steps of others (CallersAreControlled).
THEOREM CallersGoToHandlers == QueuesSpec => CallersAreControlled
<1> DEFINE Taken(t) == \E c \in Cores : /\ running'[c] # <<>>
                                        /\ controller'[t] = <<Head(running'[c])>>
           Kept == \A t \in Tasks : Waiting(t) /\ ~Waiting(t)' => Taken(t)
<1>1. ASSUME QInv, [QueuesNext]_queuesVars PROVE [Kept]_queuesVars
  <2> SUFFICES ASSUME QueuesNext PROVE Kept
    BY <1>1
  <2> SUFFICES ASSUME NEW t \in Tasks, Waiting(t), ~Waiting(t)' PROVE Taken(t)
    OBVIOUS
  <2>1. CASE UNCHANGED <<queue, step, hand>>
    BY <2>1 DEF Waiting
  <2>2. ASSUME NEW c \in Cores, OthersSame(c), step[c] # "queue", queue' = queue PROVE FALSE
    BY <2>2 DEF OthersSame, Waiting
  <2>3. CASE Next /\ UNCHANGED queueVars
    <3>1. CASE UNCHANGED vars
      BY <2>1, <2>3, <3>1 DEF vars, coreVars, queueVars
    <3>2. ASSUME NEW c \in Cores, CoreStep(c) PROVE FALSE
      BY <1>1, <2>2, <2>3, <3>2, OthersOfStep, NotAtQueue DEF QInv, PInv, queueVars
    <3> QED BY <2>3, <3>1, <3>2 DEF Next, Stopped, CoreStep
  <2>4. ASSUME NEW c \in Cores, QueueCreate(c) \/ QueueSwi(c) \/ SetRegisters(c)
        PROVE  Taken(t)
    <3>1. CASE QueueCreate(c)
      BY <1>1, <2>1, <3>1, CreateQInv DEF QueueCreate, vars, coreVars
    <3>2. CASE QueueSwi(c)
      BY <1>1, <2>2, <3>2, QueueSwiQInv
    <3>3. CASE SetRegisters(c)
      BY <2>1, <3>3 DEF SetRegisters, coreVars, queueVars
    <3> QED BY <2>4, <3>1, <3>2, <3>3
  <2>5. ASSUME NEW c \in Cores, NEW q \in Created, HandlerWaits(c, q) PROVE FALSE
    BY <1>1, <2>2, <2>5, HandlerWaitsQInv
  <2>6. ASSUME NEW c \in Cores, NEW q \in Created, TakesQueued(c, q) PROVE Taken(t)
    <3>1. q \in Queues
      BY <1>1, CreatedQueue
    <3>2. /\ running' = running /\ running[c] # <<>>
          /\ ToSet(queue'[q]) = ToSet(queue[q]) \ {Head(queue[q])}
          /\ \A r \in Queues \ {q} : queue'[r] = queue[r]
          /\ controller'[Head(queue[q])] = <<Current(c)>>
      BY <1>1, <2>6, <3>1, TakesQueuedQInv
    <3>3. step' = step /\ hand' = hand
      BY <2>6 DEF TakesQueued, coreVars
    <3>4. t = Head(queue[q])
      BY <3>1, <3>2, <3>3 DEF Waiting
    <3> QED BY <3>2, <3>4 DEF Current
  <2>7. ASSUME NEW c \in Cores, NEW q \in Created, HandlerTakes(c, q) PROVE Taken(t)
    <3>1. /\ OthersSame(c) /\ queue' = queue /\ ToSet(hand[c]) = {Head(hand[c])}
          /\ running'[c] # <<>> /\ controller'[Head(hand[c])] = <<Head(running'[c])>>
      BY <1>1, <2>7, HandlerTakesQInv
    <3>2. t = Head(hand[c])
      BY <3>1 DEF OthersSame, Waiting
    <3> QED BY <3>1, <3>2
  <2>8. ASSUME NEW c \in Cores, NEW q \in Created, Queued(c, q) PROVE FALSE
    <3>1. /\ OthersSame(c) /\ ToSet(queue'[q]) = ToSet(queue[q]) \cup ToSet(hand[c])
          /\ \A r \in Queues \ {q} : queue'[r] = queue[r]
      BY <1>1, <2>8, QueuedQInv
    <3>2. q \in Queues
      BY <1>1, CreatedQueue
    <3> QED BY <3>1, <3>2 DEF OthersSame, Waiting
  <2>9. ASSUME NEW c \in Cores, QueueStep(c) PROVE Taken(t)
    BY <2>4, <2>5, <2>6, <2>7, <2>8, <2>9 DEF QueueStep
  <2> QED BY <2>3, <2>9 DEF QueuesNext
<1>2. ASSUME QInv, [QueuesNext]_queuesVars
      PROVE  [\A t \in Tasks :
       LET waited == \/ \E q \in Queues : t \in ToSet(queue[q])
                     \/ \E c \in Cores : step[c] = "queue" /\ t \in ToSet(hand[c])
           waits == \/ \E q \in Queues : t \in ToSet(queue'[q])
                    \/ \E c \in Cores : step'[c] = "queue" /\ t \in ToSet(hand'[c])
       IN  (waited /\ ~waits) =>
             \E c \in Cores : /\ running'[c] # <<>>
                              /\ controller'[t] = <<Head(running'[c])>>]_queuesVars
  BY <1>1, <1>2 DEF Waiting
<1> QED BY <1>2, QueuesInvariant, PTL DEF QueuesSpec, CallersAreControlled

-----------------------------------------------------------------------------
\* Slots.

\* A core at one of these steps executes the head of its list, or a SWI for it:
\* no other task has been given the core since it was resumed.
InTask == {"usr", "release", "wake", "find moving", "find runnable"}

SlotsTyped ==
  /\ slot_pool \subseteq Slots
  /\ slot \in [Tasks -> Slots \cup {None}] /\ home \in [Tasks -> Slots \cup {None}]
  /\ mapped \in [Cores -> Slots \cup {None}] /\ first \in Slots \cup {None}

\* The inductive invariant: every task that was ever created has a slot, and the
\* cores have mapped those of the tasks they execute, in the kernel as well.
SlotsInv ==
  /\ QInv /\ SlotsTyped
  /\ \A t \in Tasks \ ToSet(task_pool) : slot[t] # None
  /\ \A c \in Cores : step[c] \in InTask => mapped[c] = slot[Current(c)]

LEMMA InitSlotsInv == TaskSlotsInit => SlotsInv
<1> SUFFICES ASSUME TaskSlotsInit PROVE SlotsInv
  OBVIOUS
<1>1. QInv
  BY InitQInv DEF TaskSlotsInit
<1>2. ToSet(task_pool) = Tasks
  BY TasksAssumption, OrdersOnce DEF TaskSlotsInit, QueuesInit, Init
<1>3. \A c \in Cores : step[c] \notin InTask
  BY DEF TaskSlotsInit, QueuesInit, Init, InTask
<1> QED BY <1>1, <1>2, <1>3 DEF TaskSlotsInit, SlotsInv, SlotsTyped

\* What a core executes has been created, and no other core executes it.
LEMMA CurrentOnce ==
  ASSUME PInv, NEW c \in Cores, step[c] # "off"
  PROVE  /\ Current(c) \in Tasks \ ToSet(task_pool)
         /\ \A d \in Cores \ {c} : step[d] # "off" => Current(d) # Current(c)
<1>1. \A d \in Cores : step[d] # "off" => Current(d) \in ToSet(running[d])
  BY CurrentIsOn DEF PInv
<1> QED BY <1>1, OnOneCore DEF PInv

\* A task under control has been created as well.
LEMMA HeldNotInPool ==
  ASSUME PInv PROVE Held \cap ToSet(task_pool) = {}
<1> DEFINE p == <<"shared", "held">>
           l == <<"shared", "pool">>
<1>1. 0 \in Cores
  BY CoresAssumption DEF Cores
<1>2. p \in PlaceNames /\ l \in PlaceNames /\ p # l /\ Where[p] = Held /\ Where[l] = ToSet(task_pool)
  BY <1>1, WhereIs, EachPlace DEF SharedSays
<1>3. DOMAIN Where = PlaceNames
  BY DEF Where
<1> HIDE DEF p, l
<1> QED BY <1>2, <1>3 DEF PInv, Apart

\* The head of its list changes only where the core is about to resume another.
LEMMA SchedulerCurrent ==
  ASSUME IInv, NEW c \in Cores, CoreStep(c), ~Boot(c), step'[c] \in InTask
  PROVE  /\ Current(c)' = Current(c)
         /\ step[c] \in InTask \/ (step[c] = "resume" /\ step'[c] = "usr")
<1>1. TypeOK
  BY DEF IInv
<1>2. CASE OrdinarySwi(c)
  <2>1. step[c] = "usr"
    BY <1>2 DEF OrdinarySwi, Yield, Sleep, SwitchToCore, EndTask, Create, ReleaseTask,
                ChangeController, SwiPanics, Swi
  <2>2. CASE Yield(c) \/ Sleep(c) \/ SwitchToCore(c) \/ EndTask(c) \/ SwiPanics(c)
    BY <1>1, <2>2 DEF Yield, Sleep, SwitchToCore, EndTask, SwiPanics, Panic, StopFor, GoTo,
                      InTask, TypeOK
  <2>3. CASE Create(c) \/ ChangeController(c)
    BY <2>3 DEF Create, ChangeController, coreVars, Current
  <2>4. CASE ReleaseTask(c)
    <3>1. \/ running' = running
          \/ \E t \in Tasks : running' = [running EXCEPT ![c] = InsertAt(running[c], 2, t)]
      BY <2>4 DEF ReleaseTask
    <3>2. running[c] \in Seq(Tasks) /\ running[c] # <<>> /\ 2 \in 1 .. Len(running[c]) + 1
      BY <2>4, SwiType, LenProperties DEF ReleaseTask
    <3>3. \A t \in Tasks : Head(InsertAt(running[c], 2, t)) = Head(running[c])
      BY <3>2, InsertedOnce
    <3>4. Head(running'[c]) = Head(running[c])
      <4>1. running \in [Cores -> Seq(Tasks)]
        BY <1>1 DEF TypeOK
      <4>2. ASSUME NEW t \in Tasks, running' = [running EXCEPT ![c] = InsertAt(running[c], 2, t)]
            PROVE  Head(running'[c]) = Head(running[c])
        <5>1. running'[c] = InsertAt(running[c], 2, t)
          BY <4>1, <4>2
        <5> QED BY <3>3, <5>1
      <4> QED BY <3>1, <4>2
    <3> QED BY <2>1, <3>4 DEF Current, InTask
  <2> QED BY <1>2, <2>1, <2>2, <2>3, <2>4 DEF OrdinarySwi, InTask
<1>3. CASE InterruptSwi(c)
  BY <1>1, <1>3 DEF InterruptSwi, EnablingInterrupts, WaitForInterrupt, Tick, Swi, GoTo,
                    TypeOK, InTask, Current
<1>4. CASE Interrupt(c)
  BY <1>1, <1>4 DEF Interrupt, irq_handler, IrqFails, Panic, GoTo, TypeOK, InTask
<1>5. CASE IdleYield(c)
  <2>1. step[c] = "usr" /\ Current(c) = idle[c] /\ idle[c] \in Tasks
    BY <1>5, IdleType DEF IdleYield, IdleToNext, IdleEndsInterrupt, IdleLooks, IdleYields
  <2>2. CASE IdleToNext(c)
    BY <1>1, <2>2 DEF IdleToNext, GoTo, TypeOK, InTask
  <2>3. CASE IdleLooks(c)
    BY <2>1, <2>3 DEF IdleLooks, Current, InTask
  <2>4. CASE IdleEndsInterrupt(c)
    <3>1. CASE interrupted_tasks[c] # <<>>
      <4> DEFINE rest == Rotate(interrupted_tasks[c])
      <4>1. rest \in Seq(Tasks)
        BY <1>1, <3>1, Rotated DEF Rotate, TypeOK
      <4>2. running' = [running EXCEPT ![c] = <<idle[c]>> \o rest]
        BY <2>4, <3>1 DEF IdleEndsInterrupt
      <4> HIDE DEF rest
      <4>3. Head(<<idle[c]>> \o rest) = idle[c]
        BY <2>1, <4>1, Prefixed
      <4> QED BY <1>1, <2>1, <4>2, <4>3 DEF Current, TypeOK, InTask
    <3>2. CASE interrupted_tasks[c] = <<>>
      BY <2>1, <2>4, <3>2 DEF IdleEndsInterrupt, Current, InTask
    <3> QED BY <3>1, <3>2
  <2> QED BY <1>5, <2>2, <2>3, <2>4 DEF IdleYield
<1>6. CASE Kernel(c)
  BY <1>1, <1>6 DEF Kernel, YieldInsert, SleepInsert, SwitchInsert, ReleaseInsert, TickInsert,
              FindMoving, FindRunnable, Resume, GoTo, TypeOK, InTask, Current
<1> QED BY <1>2, <1>3, <1>4, <1>5, <1>6 DEF CoreStep

\* Nor do queues change it under the task.
LEMMA QueueCurrent ==
  ASSUME QInv, NEW c \in Cores, QueueStep(c), NEW d \in Cores, step'[d] \in InTask
  PROVE  Current(d)' = Current(d) /\ step[d] \in InTask
<1>1. TypeOK
  BY DEF QInv, PInv, IInv
<1>2. CASE UNCHANGED <<running, step>>
  BY <1>2 DEF Current
<1>3. ASSUME OthersSame(c), step'[c] \in {"queue", "resume"}
      PROVE  Current(d)' = Current(d) /\ step[d] \in InTask
  <2>1. d # c
    BY <1>3 DEF InTask
  <2> QED BY <1>3, <2>1 DEF OthersSame, Current
<1>4. CASE QueueCreate(c) \/ SetRegisters(c)
  BY <1>2, <1>4 DEF QueueCreate, SetRegisters, vars, coreVars
<1>5. CASE QueueSwi(c)
  BY <1>1, <1>3, <1>5, QueueSwiQInv DEF QueueSwi, StopFor, GoTo, TypeOK
<1>6. ASSUME NEW q \in Created,
             HandlerWaits(c, q) \/ TakesQueued(c, q) \/ HandlerTakes(c, q) \/ Queued(c, q)
      PROVE  Current(d)' = Current(d) /\ step[d] \in InTask
  <2>1. CASE HandlerWaits(c, q)
    BY <1>1, <1>3, <2>1, HandlerWaitsQInv DEF HandlerWaits, GoTo, TypeOK
  <2>2. CASE TakesQueued(c, q)
    BY <1>2, <2>2 DEF TakesQueued, coreVars
  <2>3. CASE HandlerTakes(c, q)
    BY <1>1, <1>3, <2>3, HandlerTakesQInv DEF HandlerTakes, GoTo, TypeOK
  <2>4. CASE Queued(c, q)
    BY <1>1, <1>3, <2>4, QueuedQInv DEF Queued, GoTo, TypeOK
  <2> QED BY <1>6, <2>1, <2>2, <2>3, <2>4
<1> QED BY <1>4, <1>5, <1>6 DEF QueueStep

\* Boot takes its tasks from the pool.
LEMMA BootTakes ==
  ASSUME PInv, NEW c \in Cores, Boot(c)
  PROVE  /\ step'[c] = "usr" /\ task_pool' # task_pool
         /\ ToSet(running'[c]) = ToSet(task_pool) \ ToSet(task_pool')
         /\ ToSet(task_pool') \subseteq ToSet(task_pool)
         /\ Current(c)' \in Tasks /\ Current(c)' \in ToSet(running'[c])
<1>1. PICK list \in Seq(Tasks) :
        /\ running'[c] = list /\ list # <<>>
        /\ ToSet(list) \subseteq ToSet(task_pool)
        /\ ToSet(task_pool') = ToSet(task_pool) \ ToSet(list)
  BY BootPlaces
<1>2. Head(list) \in ToSet(list) /\ Head(list) \in Tasks
  BY <1>1, Tailed
<1>3. step'[c] = "usr"
  BY DEF Boot, BootFirst, BootOther, GoTo, PInv, IInv, TypeOK
<1>4. task_pool' # task_pool
  BY <1>1, <1>2
<1> QED BY <1>1, <1>2, <1>3, <1>4 DEF Current

\* The first task of a booted core, and no other, executes with what it has mapped.
LEMMA BootsSlotsInv ==
  ASSUME SlotsInv, NEW c \in Cores, Boots(c)
  PROVE  SlotsInv' /\ \A t \in Tasks \ ToSet(task_pool) : slot'[t] = slot[t]
<1>1. Boot(c) /\ UNCHANGED home /\ UNCHANGED queueVars
  BY DEF Boots
<1>2. OthersSame(c) /\ QInv'
  <2>1. CoreStep(c) /\ [Next]_vars
    BY <1>1 DEF CoreStep, Next
  <2> QED BY <1>1, <2>1, OthersOfStep, SchedulerQInv DEF SlotsInv, QInv, PInv
<1>3. /\ step'[c] = "usr" /\ ToSet(running'[c]) = ToSet(task_pool) \ ToSet(task_pool')
      /\ ToSet(task_pool') \subseteq ToSet(task_pool)
  BY <1>1, BootTakes DEF SlotsInv, QInv
<1>4. first' \in Slots /\ slot_pool' \subseteq Slots
  BY DEF Boots, SlotsInv, SlotsTyped
<1>5. /\ slot' = [t \in Tasks |-> IF t \in ToSet(running'[c]) THEN first' ELSE slot[t]]
      /\ mapped' = [mapped EXCEPT ![c] = first']
  BY DEF Boots, map_slot
<1>6. SlotsTyped'
  BY <1>1, <1>4, <1>5 DEF SlotsInv, SlotsTyped
<1>7. \A t \in Tasks \ ToSet(task_pool') : slot'[t] # None
  BY <1>3, <1>4, <1>5, SlotsAssumption DEF SlotsInv
<1>8. ASSUME NEW d \in Cores, step'[d] \in InTask PROVE mapped'[d] = slot'[Current(d)']
  <2>1. CASE d = c
    <3>1. Current(c)' \in Tasks /\ Current(c)' \in ToSet(running'[c])
      BY <1>1, BootTakes DEF SlotsInv, QInv
    <3> QED BY <1>5, <2>1, <3>1 DEF SlotsInv, SlotsTyped
  <2>2. CASE d # c
    <3>1. /\ step[d] \in InTask /\ Current(d)' = Current(d)
          /\ mapped'[d] = slot[Current(d)]
      BY <1>2, <1>5, <1>8, <2>2 DEF OthersSame, Current, SlotsInv, SlotsTyped
    <3>2. Current(d) \in Tasks \ ToSet(task_pool)
      BY <3>1, CurrentOnce DEF SlotsInv, QInv, InTask
    <3> QED BY <1>3, <1>5, <3>1, <3>2
  <2> QED BY <2>1, <2>2
<1>9. \A t \in Tasks \ ToSet(task_pool) : slot'[t] = slot[t]
  BY <1>3, <1>5
<1> QED BY <1>2, <1>6, <1>7, <1>8, <1>9 DEF SlotsInv

\* A new task has its creator's slot, or a new one.
LEMMA CreatesSlotsInv ==
  ASSUME SlotsInv, NEW c \in Cores, Creates(c)
  PROVE  SlotsInv' /\ \A t \in Tasks \ ToSet(task_pool) : slot'[t] = slot[t]
<1> DEFINE new == Head(task_pool)
<1>1. /\ Create(c) /\ UNCHANGED <<first, home, mapped>> /\ UNCHANGED queueVars
      /\ Swi(c) /\ task_pool # <<>> /\ task_pool' = Tail(task_pool)
      /\ UNCHANGED <<running, step>>
  BY DEF Creates, Create, coreVars
<1>2. QInv'
  <2>1. [Next]_vars
    BY <1>1 DEF Next, OrdinarySwi
  <2> QED BY <1>1, <2>1, SchedulerQInv DEF SlotsInv
<1>3. /\ new \in Tasks /\ new \in ToSet(task_pool)
      /\ ToSet(task_pool') = ToSet(task_pool) \ {new}
  BY <1>1, TailedOnce DEF SlotsInv, QInv, PInv, IInv, TypeOK, SharedOnce
<1>4. slot[Current(c)] \in Slots
  BY <1>1, CurrentOnce DEF Swi, SlotsInv, SlotsTyped, QInv
<1>5. PICK s \in Slots : slot' = [slot EXCEPT ![new] = s] /\ slot_pool' = slot_pool \ {s}
  BY <1>4 DEF Creates, SlotsInv, SlotsTyped
<1> HIDE DEF new
<1>6. SlotsTyped'
  BY <1>1, <1>5 DEF SlotsInv, SlotsTyped
<1>7. \A t \in Tasks \ ToSet(task_pool') : slot'[t] # None
  BY <1>3, <1>5, SlotsAssumption DEF SlotsInv, SlotsTyped
<1>8. ASSUME NEW d \in Cores, step'[d] \in InTask PROVE mapped'[d] = slot'[Current(d)']
  <2>1. step[d] \in InTask /\ Current(d)' = Current(d)
    BY <1>1, <1>8 DEF Current
  <2>2. Current(d) \in Tasks \ ToSet(task_pool)
    BY <2>1, CurrentOnce DEF SlotsInv, QInv, InTask
  <2> QED BY <1>1, <1>3, <1>5, <2>1, <2>2 DEF SlotsInv, SlotsTyped
<1>9. \A t \in Tasks \ ToSet(task_pool) : slot'[t] = slot[t]
  BY <1>3, <1>5 DEF SlotsInv, SlotsTyped
<1> QED BY <1>2, <1>6, <1>7, <1>8, <1>9 DEF SlotsInv

\* The task of core c goes into another slot, and the core maps it.
LEMMA ChangesSlot ==
  ASSUME SlotsInv, NEW c \in Cores, Swi(c), UNCHANGED <<slot_pool, first, queuesVars>>,
         NEW s \in Slots, slot' = [slot EXCEPT ![Current(c)] = s], map_slot(c, s),
         home' \in [Tasks -> Slots \cup {None}]
  PROVE  SlotsInv'
<1>1. /\ UNCHANGED <<vars, queueVars>> /\ UNCHANGED <<running, step, task_pool>>
      /\ mapped' = [mapped EXCEPT ![c] = s]
  BY DEF queuesVars, vars, coreVars, sharedVars, map_slot
<1>2. QInv'
  BY <1>1, SchedulerQInv DEF SlotsInv
<1>3. /\ Current(c) \in Tasks
      /\ \A d \in Cores \ {c} : step[d] # "off" => Current(d) # Current(c)
  BY CurrentOnce DEF Swi, SlotsInv, QInv
<1>4. SlotsTyped'
  BY <1>1 DEF SlotsInv, SlotsTyped
<1>5. \A t \in Tasks \ ToSet(task_pool') : slot'[t] # None
  BY <1>1, SlotsAssumption DEF SlotsInv, SlotsTyped
<1>6. ASSUME NEW d \in Cores, step'[d] \in InTask PROVE mapped'[d] = slot'[Current(d)']
  <2>1. step[d] \in InTask /\ Current(d)' = Current(d) /\ step[d] # "off"
    BY <1>1, <1>6 DEF Current, InTask
  <2>2. Current(d) \in Tasks
    BY <2>1, CurrentOnce DEF SlotsInv, QInv
  <2> QED BY <1>1, <1>3, <2>1, <2>2 DEF SlotsInv, SlotsTyped
<1> QED BY <1>2, <1>4, <1>5, <1>6 DEF SlotsInv

\* RunForTask: into the client's slot, and its own is kept at home.
LEMMA RunForTaskSlotsInv ==
  ASSUME SlotsInv, NEW c \in Cores, RunForTask(c)
  PROVE  SlotsInv' /\ \A t \in Tasks : Own(t)' = Own(t)
<1>1. /\ Swi(c) /\ home[Current(c)] = None /\ UNCHANGED <<slot_pool, first, queuesVars>>
      /\ home' = [home EXCEPT ![Current(c)] = slot[Current(c)]]
  BY DEF RunForTask
<1>2. PICK client \in Tasks :
        /\ Controls(Current(c), client)
        /\ slot' = [slot EXCEPT ![Current(c)] = slot[client]]
        /\ map_slot(c, slot[client])
  BY DEF RunForTask
<1>3. Current(c) \in Tasks \ ToSet(task_pool)
  BY <1>1, CurrentOnce DEF Swi, SlotsInv, QInv
<1>4. slot[Current(c)] \in Slots
  BY <1>3 DEF SlotsInv, SlotsTyped
<1>5. slot[client] \in Slots
  <2>1. client \in Held
    BY <1>2 DEF Held, Controls
  <2>2. Held \cap ToSet(task_pool) = {}
    BY HeldNotInPool DEF SlotsInv, QInv
  <2> QED BY <2>1, <2>2 DEF SlotsInv, SlotsTyped
<1>6. SlotsInv'
  BY <1>1, <1>2, <1>4, <1>5, ChangesSlot DEF SlotsInv, SlotsTyped
<1>7. \A t \in Tasks : Own(t)' = Own(t)
  BY <1>1, <1>2, <1>4, SlotsAssumption DEF Own, SlotsInv, SlotsTyped
<1> QED BY <1>6, <1>7

\* Finished: back into its own.
LEMMA FinishedSlotsInv ==
  ASSUME SlotsInv, NEW c \in Cores, Finished(c)
  PROVE  SlotsInv' /\ \A t \in Tasks : Own(t)' = Own(t)
<1>1. /\ Swi(c) /\ home[Current(c)] # None /\ UNCHANGED <<slot_pool, first, queuesVars>>
      /\ slot' = [slot EXCEPT ![Current(c)] = home[Current(c)]]
      /\ home' = [home EXCEPT ![Current(c)] = None]
      /\ map_slot(c, home[Current(c)])
  BY DEF Finished
<1>2. home[Current(c)] \in Slots
  BY <1>1, CurrentOnce DEF Swi, SlotsInv, SlotsTyped, QInv
<1>3. SlotsInv'
  BY <1>1, <1>2, ChangesSlot DEF SlotsInv, SlotsTyped
<1>4. \A t \in Tasks : Own(t)' = Own(t)
  BY <1>1, <1>2 DEF Own, SlotsInv, SlotsTyped
<1> QED BY <1>3, <1>4

\* All other steps change no slot; the core that resumes a task maps its slot.
LEMMA MapsSlotsInv ==
  ASSUME SlotsInv, QueuesNext, UNCHANGED task_pool, Maps
  PROVE  SlotsInv'
<1>1. QInv'
  BY NextQInv DEF SlotsInv
<1>2. /\ mapped' = [d \in Cores |->
           IF step[d] = "resume" /\ step'[d] = "usr" THEN slot[Current(d)] ELSE mapped[d]]
      /\ UNCHANGED <<slot_pool, first, slot, home>>
  BY DEF Maps
<1>3. ASSUME NEW d \in Cores, step'[d] \in InTask
      PROVE  /\ Current(d)' = Current(d)
             /\ step[d] \in InTask \/ (step[d] = "resume" /\ step'[d] = "usr")
  <2>1. CASE UNCHANGED vars
    BY <1>3, <2>1 DEF vars, coreVars, Current
  <2>2. ASSUME NEW c \in Cores, CoreStep(c)
        PROVE  /\ Current(d)' = Current(d)
               /\ step[d] \in InTask \/ (step[d] = "resume" /\ step'[d] = "usr")
    <3>1. CASE d = c
      <4>1. ~Boot(c)
        BY BootTakes DEF SlotsInv, QInv
      <4> QED BY <1>3, <2>2, <3>1, <4>1, SchedulerCurrent DEF SlotsInv, QInv, PInv
    <3>2. CASE d # c
      BY <1>3, <2>2, <3>2, OthersOfStep DEF OthersSame, Current, SlotsInv, QInv, PInv
    <3> QED BY <3>1, <3>2
  <2>3. CASE Next /\ UNCHANGED queueVars
    BY <2>1, <2>2, <2>3 DEF Next, Stopped, CoreStep
  <2>4. ASSUME NEW c \in Cores, QueueStep(c)
        PROVE  Current(d)' = Current(d) /\ step[d] \in InTask
    BY <1>3, <2>4, QueueCurrent DEF SlotsInv
  <2> QED BY <2>3, <2>4 DEF QueuesNext
<1>4. ASSUME NEW d \in Cores, step'[d] \in InTask PROVE mapped'[d] = slot'[Current(d)']
  BY <1>2, <1>3, <1>4 DEF SlotsInv, InTask
<1>5. SlotsTyped'
  <2>1. \A d \in Cores : step[d] # "off" => slot[Current(d)] \in Slots
    BY CurrentOnce DEF SlotsInv, SlotsTyped, QInv
  <2> QED BY <1>2, <2>1 DEF SlotsInv, SlotsTyped
<1> QED BY <1>1, <1>2, <1>4, <1>5 DEF SlotsInv

\* SlotsInv is inductive, and no step changes what slot a task belongs to.
LEMMA NextSlotsInv ==
  ASSUME SlotsInv, [TaskSlotsNext]_taskSlotsVars
  PROVE  SlotsInv' /\ \A t \in Tasks \ ToSet(task_pool) : Own(t)' = Own(t)
<1>1. ASSUME NEW c \in Cores, Boots(c) \/ Creates(c)
      PROVE  SlotsInv' /\ \A t \in Tasks \ ToSet(task_pool) : Own(t)' = Own(t)
  <2>1. SlotsInv' /\ \A t \in Tasks \ ToSet(task_pool) : slot'[t] = slot[t]
    BY <1>1, BootsSlotsInv, CreatesSlotsInv
  <2>2. home' = home
    BY <1>1 DEF Boots, Creates
  <2> QED BY <2>1, <2>2 DEF Own
<1>2. ASSUME NEW c \in Cores, RunForTask(c) \/ Finished(c)
      PROVE  SlotsInv' /\ \A t \in Tasks \ ToSet(task_pool) : Own(t)' = Own(t)
  BY <1>2, RunForTaskSlotsInv, FinishedSlotsInv
<1>3. CASE QueuesNext /\ UNCHANGED task_pool /\ Maps
  BY <1>3, MapsSlotsInv DEF Maps, Own
<1>4. CASE UNCHANGED taskSlotsVars
  <2>1. /\ UNCHANGED <<vars, queueVars, slot_pool, first, slot, home, mapped>>
        /\ UNCHANGED <<running, step, task_pool>>
    BY <1>4 DEF taskSlotsVars, queuesVars, slotVars, vars, coreVars, sharedVars
  <2>2. QInv' /\ \A d \in Cores : Current(d)' = Current(d)
    BY <2>1, SchedulerQInv DEF SlotsInv, Current
  <2> QED BY <2>1, <2>2 DEF SlotsInv, SlotsTyped, Own
<1> QED BY <1>1, <1>2, <1>3, <1>4 DEF TaskSlotsNext

\* The inductive invariant of the slots.
THEOREM SlotsInvariant == TaskSlotsSpec => []SlotsInv
<1> QED BY InitSlotsInv, NextSlotsInv, PTL DEF TaskSlotsSpec

\* On every core, whatever the others do, the memory mapped while a task executes
\* is that of the slot the task is in (SlotIsMapped).
THEOREM SlotOfTheTaskIsMapped == TaskSlotsSpec => []SlotIsMapped
<1>1. SlotsInv => SlotIsMapped
  BY DEF SlotsInv, InTask, SlotIsMapped
<1> QED BY <1>1, SlotsInvariant, PTL

\* A task belongs to one slot for as long as it exists, whomever it runs for
\* (OwnSlotStays).
THEOREM TasksKeepTheirSlots == TaskSlotsSpec => OwnSlotStays
<1>1. ASSUME SlotsInv, [TaskSlotsNext]_taskSlotsVars
      PROVE  [\A t \in Tasks \ ToSet(task_pool) : Own(t)' = Own(t)]_taskSlotsVars
  BY <1>1, NextSlotsInv
<1> QED BY <1>1, SlotsInvariant, PTL DEF TaskSlotsSpec, OwnSlotStays

\* With slots, the system is still the one with queues only: every step is a step
\* of the queues or the scheduler, or one that they do not see.
THEOREM SlotsChangeNoQueue == TaskSlotsSpec => QueuesSpec
<1>1. TaskSlotsInit => QueuesInit
  BY DEF TaskSlotsInit
<1>2. [TaskSlotsNext]_taskSlotsVars => [QueuesNext]_queuesVars
  BY DEF TaskSlotsNext, taskSlotsVars, Boots, Creates, RunForTask, Finished, QueuesNext,
         Next, OrdinarySwi
<1> QED BY <1>1, <1>2, PTL DEF TaskSlotsSpec, QueuesSpec
===============================================================================

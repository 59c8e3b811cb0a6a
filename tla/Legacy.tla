-------------------------------- MODULE Legacy --------------------------------
(***************************************************************************)
(* The legacy stack (Legacy/kernel_swis.c, Legacy/user.c): RISC OS SWIs    *)
(* need the one SVC stack there is for them.  Their callers queue for it;  *)
(* the owner, a task in serve_legacy_swis, takes them from the queue and   *)
(* makes a SWI that gives its core and the stack to the caller.  The owner *)
(* is then in no list, until the caller has left the stack or is blocked.  *)
(*                                                                         *)
(* This is on the kernel of Scheduler and Queues.  pc says what a client   *)
(* is doing: "usr", outside; "asks", queued for the stack; "svc", legacy   *)
(* code; "interrupted", in it; "blocked", stopped in it, with the return   *)
(* address BlockedLegacy; "ready", queued because it could go on;          *)
(* "resumable", it will once it is innermost.  The owner is at "wait" or   *)
(* at "run"; interrupt tasks only wait for the next interrupt.             *)
(***************************************************************************)
EXTENDS Queues

CONSTANTS
  Owner,         \* shared.legacy.owner
  Clients,       \* tasks that make legacy SWIs
  Blockers,      \* of these, those that a legacy SWI may block
  IrqTasks,      \* interrupt tasks of the cores
  LegacyQueue    \* shared.legacy.queue

ASSUME LegacyAssumption ==
  Blockers \subseteq Clients /\ Owner \notin Clients /\ LegacyQueue \in Queues

VARIABLES
  frame,      \* the frames of the stack, innermost first
  sp,         \* those that shared.legacy.sp links: interrupted tasks, latest first
  pc,
  served,     \* the owner's: the task it was given
  unblocks    \* per core: is the owner still to be put back?

legacyVars == <<queuesVars, frame, sp, pc, served, unblocks>>

-----------------------------------------------------------------------------
Goes(t, l) == pc' = [pc EXCEPT ![t] = l]

At(c, t, l) == Swi(c) /\ Current(c) = t /\ pc[t] = l

\* A client on core c, at l.
Client(c, l) == Swi(c) /\ Current(c) \in Clients /\ pc[Current(c)] = l

Plain == UNCHANGED <<queueVars, frame, sp, pc, served, unblocks>>

\* execute_swi, for a task that needs the stack and does not have it.
AsksForStack(c) ==
  /\ Client(c, "usr")
  /\ QueueSwi(c)
  /\ Goes(Current(c), "asks")
  /\ UNCHANGED <<frame, sp, served, unblocks>>

\* A client's other SWIs.
OtherSwi(c) == Client(c, "usr") /\ Yield(c) /\ Plain

\* The owner is the queue's only handler.
Given(t) ==
  /\ served' = t
  /\ Goes(Owner, "run")
  /\ UNCHANGED <<frame, sp, unblocks>>

OwnerIsGiven(c) == HandlerTakes(c, LegacyQueue) /\ Given(Head(hand[c]))

OwnerTakes(c) ==
  /\ At(c, Owner, "wait")
  /\ TakesQueued(c, LegacyQueue)
  /\ Given(Head(queue[LegacyQueue]))

OwnerWaits(c) ==
  /\ At(c, Owner, "wait")
  /\ HandlerWaits(c, LegacyQueue)
  /\ UNCHANGED <<frame, sp, pc, served, unblocks>>

IsQueued(c) ==
  /\ Queued(c, LegacyQueue)
  /\ UNCHANGED <<frame, sp, pc, served, unblocks>>

-----------------------------------------------------------------------------
\* The owner's SWI (OS_CallASWIR12): the owner stops, and lets go of the task.

\* Mutant: the owner is only put behind other tasks.
OwnerStopsFor(c, first) ==
  /\ running' = [running EXCEPT ![c] = first \o Tail(@)]
  /\ isRunning' = [isRunning EXCEPT ![Owner] = FALSE]
  /\ runnable' = Append(runnable, Owner)
  /\ controller' = [controller EXCEPT ![served] = pop_controller(@)]
  /\ GoTo(c, "resume")
  /\ UNCHANGED <<idle, irq_task, interrupted_tasks, masked, hand, task_pool, moving,
                 sleeping, irqsOff, r0, ended, queueVars, sp, served, unblocks>>

OwnerStops(c, first) ==
  /\ running' = [running EXCEPT ![c] = first \o Tail(@)]
  /\ isRunning' = [isRunning EXCEPT ![Owner] = FALSE]
  /\ controller' = [controller EXCEPT ![served] = pop_controller(@)]
  /\ GoTo(c, "resume")
  /\ UNCHANGED <<idle, irq_task, interrupted_tasks, masked, hand, sharedVars,
                 irqsOff, r0, ended, queueVars, sp, served, unblocks>>

\* For a task that asks, there is a new frame.
OwnerGivesStack(c) ==
  /\ At(c, Owner, "run")
  /\ pc[served] = "asks"
  /\ OwnerStops(c, <<served>>)
  /\ frame' = <<[caller |-> served, resumed |-> FALSE]>> \o frame
  /\ pc' = [pc EXCEPT ![Owner] = "wait", ![served] = "svc"]

\* One that is ready goes on where its frame is the innermost; otherwise that is
\* noted, and this core goes on with its next task.
OwnerResumes(c) ==
  /\ At(c, Owner, "run")
  /\ pc[served] = "ready"
  /\ LET f == CHOOSE i \in DOMAIN frame : frame[i].caller = served
     IN  /\ frame' = [frame EXCEPT ![f].resumed = TRUE]
         /\ OwnerStops(c, IF f = 1 THEN <<served>> ELSE <<>>)
         /\ pc' = [pc EXCEPT ![Owner] = "wait",
                             ![served] = IF f = 1 THEN "svc" ELSE "resumable"]

-----------------------------------------------------------------------------
\* Mutant: the owner is not put back.
IsBlockedOnly(c) ==
  /\ Client(c, "svc")
  /\ Current(c) \in Blockers
  /\ Sleep(c)
  /\ Goes(Current(c), "blocked")
  /\ frame' = [frame EXCEPT ![1].resumed = FALSE]
  /\ UNCHANGED <<queueVars, sp, served, unblocks>>

\* A SWI made in legacy code stops the task; here, it sleeps.
IsBlocked(c) ==
  /\ Client(c, "svc")
  /\ Current(c) \in Blockers
  /\ Sleep(c)
  /\ Goes(Current(c), "blocked")
  /\ frame' = [frame EXCEPT ![1].resumed = FALSE]
  /\ unblocks' = [unblocks EXCEPT ![c] = TRUE]
  /\ UNCHANGED <<queueVars, sp, served>>

\* After that, when other cores may have woken it already, the owner is put back.
PutsOwnerBack(c) ==
  /\ step[c] = "resume"
  /\ unblocks[c]
  /\ runnable' = Append(runnable, Owner)
  /\ unblocks' = [unblocks EXCEPT ![c] = FALSE]
  /\ UNCHANGED <<coreVars, task_pool, moving, sleeping, taskVars, queueVars,
                 frame, sp, pc, served>>

\* The task to go on with has the return address BlockedLegacy: it is queued for
\* the owner instead.
BlockedIsReady(c) ==
  /\ step[c] = "resume"
  /\ ~unblocks[c]
  /\ pc[Current(c)] = "blocked"
  /\ running' = [running EXCEPT ![c] = Tail(@)]
  /\ hand' = [hand EXCEPT ![c] = <<Current(c)>>]
  /\ GoTo(c, "queue")
  /\ Goes(Current(c), "ready")
  /\ UNCHANGED <<idle, irq_task, interrupted_tasks, masked, sharedVars, taskVars,
                 queueVars, frame, sp, served, unblocks>>

\* ResumeLegacy, for a task that was interrupted in legacy code: its stack is
\* the one saved last.
OtherResumes(c) ==
  /\ ~unblocks[c]
  /\ pc[Current(c)] # "blocked"
  /\ Resume(c)
  /\ IF pc[Current(c)] = "interrupted"
     THEN Goes(Current(c), "svc") /\ sp' = Tail(sp)
     ELSE UNCHANGED <<pc, sp>>
  /\ UNCHANGED <<queueVars, frame, served, unblocks>>

\* What is made runnable when the client on core c leaves the stack.
LeavesStackFor(c, next) ==
  /\ frame' = Tail(frame)
  /\ runnable' = Append(runnable, next)
  /\ pc' = [t \in DOMAIN pc |-> CASE t = Current(c) -> "usr"
                                  [] t = next /\ t # Owner -> "svc"
                                  [] OTHER -> pc[t]]
  /\ GoTo(c, "resume")
  /\ UNCHANGED <<running, idle, irq_task, interrupted_tasks, masked, hand, task_pool,
                 moving, sleeping, taskVars, queueVars, sp, served, unblocks>>

\* The SWI returns to user mode: the task of the next frame goes on if it has
\* been resumed, or else the owner takes another.
LeavesStack(c) ==
  /\ Client(c, "svc")
  /\ LeavesStackFor(c, IF Len(frame) > 1 /\ frame[2].resumed
                       THEN frame[2].caller ELSE Owner)

\* OS_Module enters a module: the stack is left for good, for the owner.
EntersModule(c) == Client(c, "svc") /\ LeavesStackFor(c, Owner)

\* interrupting_privileged_code: the stack pointer of an interrupted task is saved
\* beside the stack.
IsInterrupted(c) ==
  /\ Current(c) \notin IrqTasks
  /\ irq_handler(c)
  /\ IF pc[Current(c)] = "svc"
     THEN Goes(Current(c), "interrupted") /\ sp' = <<Current(c)>> \o sp
     ELSE UNCHANGED <<pc, sp>>
  /\ UNCHANGED <<queueVars, frame, served, unblocks>>

InterruptEnds(c) ==
  Swi(c) /\ Current(c) \in IrqTasks /\ WaitForInterrupt(c) /\ Plain

\* The ticker is not modelled here, only that it wakes the tasks.
Wakes ==
  /\ \E n \in 1 .. Len(sleeping) :
       /\ runnable' = runnable \o SubSeq(sleeping, 1, n)
       /\ sleeping' = SubSeq(sleeping, n + 1, Len(sleeping))
  /\ UNCHANGED <<coreVars, task_pool, moving, taskVars>>
  /\ Plain

Scheduling(c) ==
  /\ \/ YieldInsert(c) \/ SleepInsert(c) \/ FindMoving(c) \/ FindRunnable(c)
     \/ IdleToNext(c) \/ IdleLooks(c) \/ IdleEndsInterrupt(c)
  /\ Plain

LegacyNext ==
  \/ \E c \in Cores :
       \/ AsksForStack(c) \/ OtherSwi(c)
       \/ OwnerIsGiven(c) \/ OwnerTakes(c) \/ OwnerWaits(c) \/ IsQueued(c)
       \/ OwnerGivesStack(c) \/ OwnerResumes(c)
       \/ IsBlocked(c) \/ PutsOwnerBack(c) \/ BlockedIsReady(c) \/ OtherResumes(c)
       \/ LeavesStack(c) \/ EntersModule(c)
       \/ IsInterrupted(c) \/ InterruptEnds(c)
       \/ Scheduling(c)
  \/ Wakes

-----------------------------------------------------------------------------
InLegacyCode(t) == pc[t] \in {"svc", "interrupted"}

\* Legacy code is executed by one task at a time, that of the innermost frame,
\* whatever cores the callers and the owner are on, and however tasks are blocked
\* in it, woken, and queue again.
Stack == INSTANCE NestedUse WITH
  Users <- Clients,
  users <- [i \in DOMAIN frame |-> frame[i].caller],
  active <- frame # <<>> /\ InLegacyCode(frame[1].caller)
IsNestedUse == Stack!Spec

\* The owner is in no list only while a task executes legacy code, or a core is
\* about to put it back; otherwise nobody would ever get the stack again.
OwnerComesBack ==
  \/ \E c \in Cores :
       Owner \in ToSet(running[c] \o interrupted_tasks[c] \o hand[c]) \/ unblocks[c]
  \/ Owner \in ToSet(runnable \o handlers[LegacyQueue])
  \/ frame # <<>> /\ InLegacyCode(frame[1].caller)

===============================================================================

------------------------------ MODULE TaskSlots ------------------------------
(***************************************************************************)
(* Which slot's memory a core has mapped while it executes a task          *)
(* (OSTask/ostask.c, ostask.h).  A task that controls another, a queue's   *)
(* handler for instance, may run in the other's slot: RunForTask changes   *)
(* its slot, Finished changes it back, and whichever core goes on with a   *)
(* task maps the slot it is in then.  What mapping comes to is in Memory.  *)
(***************************************************************************)
EXTENDS Queues

CONSTANTS
  Slots          \* OSTaskSlot_free_pool

ASSUME SlotsAssumption == None \notin Slots

VARIABLES
  slot_pool,     \* shared.ostask.slot_pool, in any order
  first,         \* shared.ostask.first, or None
  slot,          \* task->slot, or None
  home,          \* task->home, or None
  mapped         \* workspace.ostask.currently_mapped, or None

slotVars == <<slot_pool, first, slot, home, mapped>>
taskSlotsVars == <<queuesVars, slotVars>>

TaskSlotsInit ==
  /\ QueuesInit
  /\ slot_pool = Slots
  /\ first = None
  /\ slot = [t \in Tasks |-> None]
  /\ home = [t \in Tasks |-> None]
  /\ mapped = [c \in Cores |-> None]

map_slot(c, s) == mapped' = [mapped EXCEPT ![c] = s]

\* The first core in takes the first slot; all tasks made at boot are in it.
Boots(c) ==
  /\ Boot(c)
  /\ IF first = None
     THEN first' \in slot_pool /\ slot_pool' = slot_pool \ {first'}
     ELSE UNCHANGED <<first, slot_pool>>
  /\ slot' = [t \in Tasks |-> IF t \in ToSet(running'[c]) THEN first' ELSE slot[t]]
  /\ map_slot(c, first')
  /\ UNCHANGED <<home, queueVars>>

\* TaskOpCreate, in the creator's slot of the moment, or (spawn) in a new one.
Creates(c) ==
  /\ Create(c)
  /\ \E s \in {slot[Current(c)]} \cup slot_pool :
       /\ slot' = [slot EXCEPT ![Head(task_pool)] = s]
       /\ slot_pool' = slot_pool \ {s}
  /\ UNCHANGED <<first, home, mapped, queueVars>>

\* Mutant: a task may run for a second one.
RunForAnother(c) ==
  /\ Swi(c)
  /\ \E client \in Tasks :
       /\ Controls(Current(c), client)
       /\ slot' = [slot EXCEPT ![Current(c)] = slot[client]]
       /\ map_slot(c, slot[client])
  /\ home' = [home EXCEPT ![Current(c)] = slot[Current(c)]]
  /\ UNCHANGED <<slot_pool, first, queuesVars>>

\* TaskOpRunForTask, for a task it controls and none other yet (or a PANIC).
RunForTask(c) ==
  /\ Swi(c)
  /\ home[Current(c)] = None
  /\ \E client \in Tasks :
       /\ Controls(Current(c), client)
       /\ slot' = [slot EXCEPT ![Current(c)] = slot[client]]
       /\ map_slot(c, slot[client])
  /\ home' = [home EXCEPT ![Current(c)] = slot[Current(c)]]
  /\ UNCHANGED <<slot_pool, first, queuesVars>>

\* Mutant: the client's slot stays mapped until the task is stopped.
FinishedLater(c) ==
  /\ Swi(c)
  /\ home[Current(c)] # None
  /\ slot' = [slot EXCEPT ![Current(c)] = home[Current(c)]]
  /\ home' = [home EXCEPT ![Current(c)] = None]
  /\ UNCHANGED <<slot_pool, first, mapped, queuesVars>>

\* TaskOpFinished
Finished(c) ==
  /\ Swi(c)
  /\ home[Current(c)] # None
  /\ slot' = [slot EXCEPT ![Current(c)] = home[Current(c)]]
  /\ home' = [home EXCEPT ![Current(c)] = None]
  /\ map_slot(c, home[Current(c)])
  /\ UNCHANGED <<slot_pool, first, queuesVars>>

\* return_to_swi_caller, where the task that goes on is not the one that made
\* the SWI; other steps of the kernel map nothing.
Maps ==
  /\ mapped' = [c \in Cores |->
       IF step[c] = "resume" /\ step'[c] = "usr" THEN slot[Current(c)] ELSE mapped[c]]
  /\ UNCHANGED <<slot_pool, first, slot, home>>

\* Boots and Creates are the steps that take tasks from the pool.
TaskSlotsNext ==
  \/ \E c \in Cores : Boots(c) \/ Creates(c) \/ RunForTask(c) \/ Finished(c)
  \/ QueuesNext /\ UNCHANGED task_pool /\ Maps

TaskSlotsSpec == TaskSlotsInit /\ [][TaskSlotsNext]_taskSlotsVars

-----------------------------------------------------------------------------
\* The memory a core has mapped is that of the slot its task is in, though tasks
\* change their slots and their cores, are interrupted by others, and are stopped
\* and resumed in the slots of their clients.
SlotIsMapped ==
  \A c \in Cores : step[c] = "usr" => mapped[c] = slot[Current(c)]

\* A task's own slot, whether it runs for another or not.
Own(t) == IF home[t] = None THEN slot[t] ELSE home[t]

\* A task belongs to the slot it was created in, whomever it runs for and on
\* whichever core, and wherever the task that created it was at that moment.
OwnSlotStays ==
  [][\A t \in Tasks \ ToSet(task_pool) : Own(t)' = Own(t)]_taskSlotsVars
===============================================================================

# SimpleAsPi in TLA+

SimpleAsPi is a small multi-core kernel for the Raspberry Pi (ARMv7): tasks,
interrupt tasks, locks, queues, pipes and memory, under modules that may be
written as tasks, and a layer that runs RISC OS code. This directory holds TLA+
models of it, the TLC configurations that check them, and theorems about them
that TLAPS proves. `PROJECT.json` maps each definition to the lines it models.

All definitions are read off the source; where a comment says something else,
*Where the code and its comments differ* describes it.

## The system

One copy of the kernel runs on all cores. A core executes one task at a time,
the head of its own circular list `workspace.ostask.running`; the last task of
that list is the core's idle task. A SWI runs with interrupts disabled, changes
the core's own state and lists that all cores share, and returns the task to
resume. Nothing preempts a task but an interrupt, and after the interrupt is
dealt with the core's tasks go on.

| Component | State | Operations | Interaction | What is hard |
|---|---|---|---|---|
| Task scheduler (`OSTask/ostask.c`, `ostask.h`) | per core: `running`, `idle`, `irq_task`, `interrupted_tasks`, `currently_mapped`; shared: `runnable`, `moving`, `sleeping`, `task_pool`; per task: registers, running bit, controllers, slot | Yield, Sleep, Create, Spawn, EndTask, SwitchToCore, Release/ChangeController, RunForTask/Finished, EnablingInterrupts, WaitForInterrupt, Tick, the IRQ handler, the idle task's yield | all SWIs; the shared lists | a task is off one list before it is on the next; a core must never be left without a task; interrupts between SWIs |
| Shared lists (`Utilities/*.h`) | links in the items; the head pointer, which is also the lock | insert at head, after head, at tail; detach head; detach what a function chooses; splice | every pool and every shared list | an insertion without lock, wfe/sev, a lock-free reader |
| Task locks (`OSTask/locks.c`) | the lock word, in user memory; `shared.ostask.blocked` | LockClaim, LockRelease | the runnable list | owner checked before the kernel lock, one list for all locks |
| Sleeping tasks (`OSTask/sleep.c`) | list with relative times | Sleep, Tick | runnable list | relative times |
| Queues and controllers (`OSTask/queues.c`, `ostask.h`) | per queue: waiting callers, waiting handlers; per task a stack of controllers | QueueCreate, QueueWait, a SWI that a queue serves, SetRegisters | scheduler's lists | who may resume a task |
| Pipes and log (`OSTask/pipes.c`) | indices, sender, receiver, what each waits for, mappings | create, wait for space/data, filled, consumed, pass on, finish; LogString | scheduler, slots | both ends at once, either end finishing, the log without the lock |
| Slots (`OSTask/memory.c`) | sorted array of blocks per slot; mapped slot per core | map, AppMemoryTop, map_slot, lookup on a fault | MMU, raw memory | limits, stale mappings |
| Physical memory (`RawMemory/`) | a bit per MiB, a table of page runs | claim, free | all of the above | boundary arithmetic |
| Heap (`SimpleHeap/`) | list of free blocks | allocate | | exact fits |
| MMU (`Processor/VMSAv6/mmu.c`) | first level table per core, pool of second level tables, global tables | map, clear, fault handling, boot | slots, all cores | lazily copied entries, shared tables |
| Interrupt manager (`Modules/System/Pi/QA7`) | table of waiting tasks, interrupt task per core; QA7 and GPU registers | claim, wait, dispatch, ticker | queues, controllers, SwitchToCore, WaitForInterrupt | order of entering, controlling and enabling |
| GPU mailbox (`.../GPUMailbox`) | table of outstanding requests, two FIFOs | request, response | queues, interrupt manager | responses against requests |
| Modules (`Modules/osmodule.c`) | list of modules, `in_init`, SWI handlers | load, instances, service calls, register handlers, dispatch | legacy stack, queues | loads nest, fail, and run beside SWIs |
| Legacy RISC OS interface (`Legacy/`) | one SVC stack: its frames, its owner, saved stack pointers | queue for it, give it, leave, be blocked, resume | queues, interrupts, scheduler | blocked tasks that another core resumes |
| Boot (`boot_with_stack`, `Processor/`) | which core was first; lock | | all | first core against the others |
| Device, display and logging modules | device registers | | mailbox, interrupts, pipes | not modelled |

What makes each component correct: *scheduler* - no task is lost or executed
twice, every core has a task to execute, a task gets to the core it asked for,
what an interrupt puts aside comes back, the mapped slot is the task's; *lists* -
each call is one atomic operation, nobody sleeps for ever; *locks* - exclusion,
no waiting task forgotten; *sleep* - a task wakes at its tick, not before;
*queues* - each caller is handled once and only its handler may resume it;
*pipes* - bytes arrive once and in order, a waiting end is woken; *memory* - no
page and no table has two uses, and no core reaches another slot's memory;
*interrupts* - no interrupt finds a core unprepared, no waiting task is
forgotten; *modules* - every SWI gets to a module that is ready; *legacy* - one
task at a time on the stack, and the stack always available again.

## The modules

| Module | Models | Notes |
|---|---|---|
| `Scheduler` | `ostask.c`, `ostask.h`, the list side of `sleep.c` | `MCScheduler`, `MCSchedulerLive` instantiate it |
| `DoublyLinkedList`, `MpSafeList` | `doubly_linked_list.h`; `mpsafe_dll.h`, `change_word_if_equal`, `wfe`/`sev`, and the functions that `for_core`, `wakey_wakey` and `add_woken` pass to it | one action per memory access to the shared word |
| `AtomicList` | what those functions promise | `MpSafeList` implements it (`IsAtomic`) |
| `Locks` | `locks.c` | |
| `Queues` | `queues.c`, SetRegisters | EXTENDS `Scheduler` |
| `TaskSlots` | RunForTask, Finished, the mapping in `return_to_swi_caller` | EXTENDS `Queues`; `MCQueues` |
| `PipeMemory`, `Pipes` | `pipes.c` | `PipeMemory` is the pipes' part of a slot, pure operators |
| `ByteStream` | what a pipe promises | `Pipes` implements it (`IsStream`) |
| `Sleep` / `Alarms` | `sleep.c` / what it promises | `IsAlarms` |
| `RawMemory`, `Mmu`, `Memory` | `raw_memory_manager.c`, `mmu.c`, `memory.c` with the memory part of the boot | the first two are pure operators |
| `Interrupts` | the QA7 module | EXTENDS `Queues`, that is, it is composed with the scheduler |
| `Mailbox` | the GPUMailbox module | EXTENDS `Interrupts`; `MCInterrupts` |
| `OSModule` | `osmodule.c` and its callers in `kernel_swis.c` | |
| `Legacy` / `NestedUse` | the legacy stack of `kernel_swis.c` and `user.c` / what sharing it comes to | EXTENDS `Queues`; `IsNestedUse` |
| `ListLemmas` | | lemmas about sequences, which all proofs share |
| `SchedulerProofs` | | theorems about `Scheduler`: its types, then its places |
| `MpSafeListProofs` | | theorems about `MpSafeList`: its lock, then its links |
| `QueuesProofs` | | theorems about `Queues` and `TaskSlots` |
| `LocksProofs`, `SleepProofs`, `PipesProofs`, `OSModuleProofs` | | theorems about `Locks`, `Sleep`, `Pipes`, `OSModule` |

Operators whose comment calls them a mutant, or a bug the code might have, are
used by no specification: they are variants of the definition after them, with
which the property named in `PROJECT.json` fails.

**Scheduler.** `running[c]` is core c's circular list from its head; `step[c]`
says where the core is: `"usr"` when it executes the head, the name of a SWI
between its parts, `"resume"` before `return_to_swi_caller`. A core's own state
changes in one step, as interrupts are disabled in a SWI; each operation on a
shared list is a step of its own, so that other cores run in between.
`hand[c]` holds tasks that are in no list meanwhile. This granularity is what
`MpSafeList` justifies: its `IsAtomic` shows that a call on a shared list is one
step. `masked[c]` is the I bit of the code that executes; `irqsOff[t]` the one
saved with task t, which ReleaseTask's caller may set. A PANIC is `step[c] =
"panic"`, for ever. The SWIs that break a rule (`SwiPanics`) are one action:
the code PANICs in each of them, except Create with an empty pool, which goes
on with a null pointer. EndTask leaves the task in no list, in `ended`.
The push_controller of the code replaces the only entry of a stack, and so
does the model's. An interrupt that finds tasks put aside already, or no task
waiting for it, is `IrqFails`: the handler's assertion (1381) and its PANIC (1385).

**MpSafeList.** A core's call goes through `"read"` (of the pointer), `"wfe"` if
it was 1, `"cas"` (`ldrex`/`strex`), `"update"` of the links with the lock held,
`"release"` (the store of the pointer) and `"signal"` (`sev`). `event[c]` is the
register `wfe` waits for. The links are `next` and `prev` as in memory;
`Ring` follows them. The release of `mpsafe_insert_at_head` is an exclusive
store which its assertion says cannot fail; `OneCoreWorks` is why. Memory is
sequentially consistent: the barriers (`dmb`, `dsb`) are taken at their word.
What a core may insert: what it has detached before. `Wants` is the core a task
asks for, which is in its `r0` and does not change while it is in the list.

**Locks.** The word is `[owner, wanted]`; `Junk` is an owner that is no task.
Claim and Release hold the kernel's lock, so each is a step, but for Release's
check of the owner, which comes before (`CheckOwner`). Registers r0 and r1 of a
waiting task are kept, as Release reads them. A lock is a word in one slot's
memory, at an `Address` that a lock of another slot may have too: Claim and
Release's own word are of the caller's slot, while the waiting tasks are all in
one list and told apart by the address (`SameAddress`). A task may claim any lock, since
it may change slots between its calls. `owns` (what each task believes), `honest` (whether every
waiting task had its own handle in r1) and `apart` (whether each lock was claimed
while those at its address in other slots were idle) are history variables; no
action reads them.

**Queues, TaskSlots.** A queue is two rings, `queue` (callers) and `handlers`;
the newest of each is served first, as `dll_attach` makes it the head. The
caller of a queue's SWI is stopped in one step and matched or queued in
another (`step[c] = "queue"`, under `queues_lock`). A handler that is waiting is
attached to the list of the core that makes the SWI. `slot`, `home` and
`mapped` are which memory a task uses, where it belongs, and what its core has
mapped. Boot and Create, which take tasks from the pool, give them a slot
(`Boots`, `Creates`); `Maps` is conjoined with every other step of the kernel and
says that only return_to_swi_caller maps.

**Pipes.** One step per SWI, as they hold `pipes_lock`; WaitForData is two, since
LogString does not take the lock, and LogString is five: it writes (`LogString`),
moves the index and reads the receiver (`LogFills`), reads what that waits for to
check it (`LogChecks`) and again to decide (`LogDecides`), and puts it in `runnable`
(`LogWakes`). If the receiver is still in its core's list then, or another task
waits by now, LogString's task is `"astray"`, where the model ends (*Pipes*, below).
A core takes any task from `runnable` (`Run`). A unit of data is known by its index, indices
are modulo `Word`, and `store` is what the memory holds, so a lost or
overwritten unit shows. `pipe_mem` is each slot's array of blocks.

**RawMemory, Mmu, Memory.** Addresses are page numbers; sections have
`PagesPerSection` pages. `raw` is the state of the page allocator; `m` (variable
`mmu`) that of the tables: each core's first level, the pool of second level
tables, the global ones, which are core 0's. An access (`Access`) is looked up,
and a fault goes through the handler its entry names, up to `map_memory`.
`stage[c]` is a core's place in the boot, where steps of other cores come
between. The memory there is at boot is one of `FreeCounts`, so that claims fail
early, late or never: `ClaimOrPanic` is where the code looks whether one did,
`ClaimAndMap` and AppMemoryTop are where it does not. `cleared` and `failed` (the
slots that were given memory that there was not) are history variables.

**Interrupts, Mailbox.** Each task has a program and `pc[t]` says where it is in
it; its SWIs are the actions of `Scheduler` and `Queues`, so that all their
interleavings, interrupts among them, are there. The devices are what the
module's accesses make of them: asserted and enabled bits, and the core they are
routed to (`DeviceAsserts`, `TimerAsserts` at any time). An interrupt whose entry in the
table is empty is `FindsNobody`, which stops the core. `request`, `to_gpu`,
`from_gpu` are the table and the two FIFOs; the GPU answers in any order.

**OSModule.** `frames` are the loads and service calls under way, innermost
first; a load at the top that fails may stop everything, as HAL's does, or only
return its error. `mods[m].next` are the links, which the list of all modules and the
list of a base's instances share. `direct` is a SWI that was found not to need
the legacy stack and is about to be run. **Legacy.** `frame` is the stack of
frames, `sp` the stack pointers of interrupted tasks; `unblocks[c]` says that
core c is still to put the owner back.

## The runs

| Run | Instance | States | Shows |
|---|---|---|---|
| `scheduler` | 2 cores, 5 tasks, symmetric | 562 705 | nothing lost, executed twice, or changed while it is elsewhere |
| `scheduler_liveness` | 2 cores, their idle tasks and two tasks | 28 065 | `MovingTaskArrives`, `PutAsideComeBack` |
| `list` | 2 cores, 4 items | 53 677 | atomicity, no lost wake-up |
| `locks` | 3 tasks, 3 locks at 2 addresses | 6 880 243 | exclusion, FIFO, wanted bits |
| `queues` | 2 cores, 5 tasks, 2 slots, 1 queue | 636 366 | callers, handlers, slots |
| `pipes` | 2 tasks in 2 slots, a pipe, a log pipe | 462 522 | streams, wake-ups, mappings |
| `memory` | 2 cores, 2 slots, 6 sections of 4 pages, 6 tables, 3 sizes of memory | 358 995 | one use of tables and pages, isolation |
| `interrupts` | 2 cores, QA7's tasks, a client; or the mailbox's tasks and two requesters | 714 666 | no PANIC but one, held tasks, requests |
| `modules` | 3 modules, one of which also as two instances, 4 loads | 620 260 | the list, handlers, service calls |
| `sleep` | 4 tasks, 4 times | 2 721 | waking times |
| `legacy` | 2 cores, 3 clients, of which one is blocked | 215 104 | the owner, nesting |
| `legacy_owner` | 2 cores, 2 clients, both blocked | violation | the owner is lost |

*Bounds.* The scheduler, lists, locks, queues, interrupts and the legacy stack
have no counters: their state spaces are finite and complete for the instance.
Two cores are enough for every race between a core and another.

* `scheduler`: two idle tasks, a first task and two that it creates, so that
  the moving, runnable and sleeping lists hold more than one task, and an
  interrupt finds one task waiting for it, others in the core's list and others
  in shared lists.
* `list`: four items give each core one to insert, while two are left: the
  one-item, two-item and longer special cases of the rings all occur.
* `locks`: three tasks, and locks at two addresses, are the least for a list of
  waiting tasks in which the first waits at another address than the one
  released; the third lock is another slot's at one of them. `Codes`, what a
  waiting task may have in r1, are the three handles, so it may be the wrong one; the
  theorems are for any contents.
* `queues`: two idle tasks, the first task and two that it or they create, in its
  slot or in the other; two of the three can wait in the queue, on either side,
  and a task can control two of the others'. The cores boot in their order
  (`BootInOrder`), and only the SWIs that share lists with queues, or move tasks
  between cores, take part (`QueueUsers`; `TaskSlotsSpec` has all of them, and the
  theorems are about that). `Unmasked` leaves out tasks saved
  with interrupts disabled, and there are no interrupts: `scheduler` and
  `interrupts` have both.
* `pipes`: `BlockSize` 2 and `Word` 4, so a pipe can be empty, half full and
  full, and indices wrap around the block and the word. The second initial state
  is a log pipe that is full and that nobody reads. A behaviour ends when LogString
  has gone astray.
* `memory`: `Pages` are one page each of a slot's two sections, of what modules
  share and of the top section; `Tops` a section and a half, and two; `MaxBlocks`
  2 blocks per slot; `MaxCalls` 3 calls after the boot (accesses are not
  counted). Devices and shared pages once each. Of the three sizes of memory
  (`FreeCounts`, in pages) the least stops the boot, the second is used up
  by what slots and modules ask for after it, the third is enough for everything.
* `interrupts`: GPU interrupt 7 and 3 of the first word, 65 of the basic ones;
  `Slots` is two of 16, so that the table can be full, and `MailFull` 3 of the
  GPU's 8, which two requesters cannot fill (the code stops there). The module starts in one
  initial state, and serves the mailbox in the other.
* `modules`: `MaxModules` 4 loads, `MaxInstances` 2 of one header, so that the
  list of its instances can be torn; loads nest as deep as that. `MaxTold` 5
  calls for one service, more than there are modules: a walk along a torn list
  need not end. The header with instances is the one whose modules have code
  that loads others while they start.
* `sleep`: times 1, 2, 3 and 5 give equal times, sums that meet, and gaps.
* `legacy`: `Blockers` is the one client that a SWI blocks. With two the owner
  is lost (`legacy_owner`), and nothing else could be said of the stack.

**scheduler.** `OnePlace`: each task is in exactly one place and once - one list
of one core, one shared list, a core's hand, held by a controller, ended, in the
pool. `RunningBit`: a task's running bit is set exactly while it executes, so
the PANIC of `save_task_state` and the asserts on it cannot fail. `IdleStays`: the
idle task is always the head or the end of its core's list.
`NothingPutAsideTwice`: the assert at the head of the IRQ handler's work cannot
fail, since all that runs on a core while tasks are put aside has interrupts
disabled. `AskedForCore`: a task that asked for a core is next executed there.
`SavedStateKept`: what was saved of a task is not touched while it is in a shared
list or put aside.

**scheduler_liveness.** The fairness assumed (`Fairness`): the kernel never waits
for anything, so its steps are weakly fair, and cores do boot. An idle task
only yields: weakly fair, and strongly fair with interrupts enabled, that is,
an interrupt does not come every time just before the idle task's SWI - the
hardware gives no more than that, and less would let interrupts keep the core.
A task gives up its core in time, with and without interrupts enabled
(strongly fair): nothing in the kernel preempts a task, so the code gives no
liveness to the others without this. The initial state is one the program
reaches once a task has created and released another; tasks keep the rules of
the SWIs there (a PANIC stops the core and with it all promises). Other
components promise their clients nothing in time: their queues and tables are
last-in first-out or scanned from the start, so only safety is stated of them.

**queues.** `OnePlaceWithQueues` is OnePlace with the queues as places.
`CallersAreControlled`: a caller leaves the kernel, or its queue, only into the
control of the handler that executes at that moment. `SlotIsMapped`: whatever
moves between cores, a core has mapped the slot its task is in. `OwnSlotStays`: a
task belongs to the slot it was created in for ever, though it runs in others
and creates tasks there.

**locks.** `WaitersAreSeen` and `OwnedWordKept` hold whatever is in r1 and
whichever locks share an address: a waiting task is visible in its own lock's
word, and nobody writes a word that another owns. `OwnersOwn`, which is exclusion,
needs both `honest` and `apart`: without either TLC finds a task that has claimed
a lock and is not its owner.
`FirstComeFirstServed` is the order at an address.

**pipes.** `IsStream`: a pipe, the log with its unlocked writer among them, is a
bounded stream whoever has its ends. `SleepersKnown` and `NobodyForgotten`: an
end sleeps for one pipe, which will wake it, and never for what is already
there. `SleepersKnown` says so, and that only tasks asleep are in `runnable`, of
all states before LogString goes astray. `EndsAreMapped`: the addresses at which tasks use a pipe are the ones their
slots have it at, blocks do not overlap. `NobodyForgotten` is not stated of the
log: below.

**memory.** `TablesHaveOneUse`, `SharedIsTheSame`: second level tables that several
cores take, share, copy and give back. `MemoryGivenOnce`: the page allocator with
all that use it - slots, and what the kernel has mapped for itself on any core -
before and after there is no memory left; a failed claim has given nothing. `NoOtherSlotsMemory`: cores clear their tables lazily, so what
is left must never lead to another slot's memory, below what was cleared.
`VectorsAreWritten`: boots overlap.

**interrupts.** `NoCoreStops`: one PANIC only of the kernel or of the module, on
either core, whatever comes when - the interrupt task of a core is in WaitForInterrupt
whenever one can arrive, nobody releases a task that is not its own, and a GPU
interrupt finds its client in the table. The one: a tick that comes before the
manager has entered the ticker again (*Interrupts*, below).
`EnteredTasksAreHeld`, `TickerWhereTimerIs`, `RequestsComeBack` relate the tables
to the scheduler's state and the devices.

**modules.** `ListIsWhole`, `HandlersAreTheirOwn`, `EveryoneIsTold`: nested loads.
`SwisGetToReadyModules`: SWIs on other cores during all that. Instances are left
out of the last two where the code differs, below; `ListIsWhole` and
`EveryoneIsTold` are about the states in which no header has a second one
(`OneInstanceEach`), the others about all.

**legacy.** `OwnerComesBack`: the task that gives out the stack is always coming
back. `IsNestedUse`: the stack is used by one task at a time, nested.

Deadlock is checked in every run but `memory`, whose calls are counted, and
`modules`, whose loads are. The specifications that can stop otherwise say so
with a stuttering action (`Stopped`: all cores in PANIC or without a task to
boot with; `Stuck`: all tasks waiting for locks, or for the
other end of a pipe, or in PANIC).

## What is proved

For any number of cores, tasks, items, locks, queues, slots, pipes and modules, from the assumptions
the modules name (finite sets, null pointers that are no items). Where a theorem
holds up to an event that the code does not exclude, the condition is a state of
the model (`honest`, `apart`, `Astray`, `OneInstanceEach`), in the property that
TLC checks too, and never a bound on the constants. Every invariant below
is shown to hold at first, to be kept by each action, and to imply the property.

* **Scheduler** (`SchedulerProofs`): `TypeCorrect`, `IdleTaskStays`,
  `EveryTaskInOnePlace` (`[]OnePlace`), `BitOfThoseThatRun` (`[]RunningBit`),
  `PutAsideOnce` (`[]NothingPutAsideTwice`), `StateIsKept` (`SavedStateKept`),
  `GoesWhereItAsked` (`AskedForCore`).

  Type correctness is not free here: that `Tail(running[c])` can be taken and
  that a list has a head needs the place of the idle task. So the first invariant,
  `IInv`, is `TypeOK` with, per core, where the idle task is (`IdleIsThere`), that
  a core that looks for work has only its idle task (`LooksAlone`), and that a
  task is in hand in `put_to_sleep` (`HasSleeper`). There is a lemma for each kind
  of step; `OthersKeep` reduces all of them to the core that takes the step.

  `PInv` adds where all tasks are. `Where` names the places, and `Moved` says once
  that what goes from a place to another stays in one. `OnePlace` alone is
  not inductive. A list must not have a task twice (`ListsOnce`, `SharedOnce`);
  a core has tasks in its hand only between two lists (`HandInv`); a stack of
  controllers has one entry at most (`OneController`); and of interrupts
  `AsideInv`, the part of `WholePInv` that `PInv` does not have, says that, while tasks are put aside, all tasks in the core's list
  have interrupts disabled, executing or saved, and the core does not look for
  others in the shared lists. This is why the handler's assert cannot fail: tasks
  with interrupts enabled only come to a core that has put none aside.
  `RunningBit` is part of the invariant, and `Asking` says who may have a core in
  `r0`: nobody but tasks in the moving list or in `SwitchToCore`'s hand. No task is
  lost: `WholePInv` has the places' union, which no step changes.
* **Queues and slots** (`QueuesProofs`): `EveryTaskInOnePlaceOrQueue`
  (`[]OnePlaceWithQueues`), `CallersGoToHandlers` (`CallersAreControlled`),
  `SlotOfTheTaskIsMapped` (`[]SlotIsMapped`), `TasksKeepTheirSlots` (`OwnSlotStays`),
  `SlotsChangeNoQueue` (`TaskSlotsSpec => QueuesSpec`).

  They are about every step of the scheduler and the queues, interrupts among
  them, of any number of cores, tasks, queues and slots. `PInv` is kept by the
  queues, but `AsideInv` is not: an interrupt task whose SWI goes to a queue may
  let a handler run, with interrupts enabled, while tasks are put aside (see
  *Queues*, below). That is why `PInv` leaves `AsideInv` to `WholePInv`, and why
  nothing of it is used here. `QInv` adds the rings (`Rings`), that a core dealing with a
  caller holds it and has others to go on with (`AtQueue`: the caller was not the
  idle task), and that the places in the queues and the scheduler's are
  disjoint and have all tasks together. Steps of the scheduler do not see the
  queues (`NotAtQueue`), so they keep what `StepPInv` says; each step of a queue takes a task
  from one kind of place to the other (`IntoQueue`, `OutOfQueue`), or, where a
  handler takes a caller, one each way (`CallerAndHandler`). That a task in a queue has no controller
  (`QueuedElsewhere`: it would be held) is why a caller gets its handler as its
  only controller.

  For slots, `SlotsInv` says that a core has mapped its task's slot also inside a SWI
  that returns to the same task (`InTask`), and that every task ever created has
  one, so none goes home to a null pointer (the PANIC at `ostask.c:342`).
  `SchedulerCurrent` and `QueueCurrent` say that the head of a core's list only
  changes on the way to `"resume"`, where it is mapped; `CurrentOnce` is why
  RunForTask and Finished change the slot of a task that no other core executes.
* **Lists** (`MpSafeListProofs`): `OneCoreAtATime`,
  `NoWakeUpIsLost`; `NoRingIsTorn` (`[]RingsAreWhole`) and `OperationsAreAtomic`
  (`IsAtomic`, that is, `MpSafeList` implements `AtomicList`).

  The first two follow from an invariant that the word is 1 exactly while a
  core works on the list. A core in wfe without an event saw the 1, so whoever
  stored it has still to signal. For the links `RInv` says that there are
  sequences, one for the shared list and one for what each core holds, that
  share no item, and whose items the links of the memory join to rings
  (`Describes`), also between a core's lock and its release; and what each function
  is called with (`Calls`). The lemmas on `Path` and `IsRing` say what each of the
  C functions makes of the rings; that the walk `Ring` takes finds the sequence is
  what the refinement mapping needs. Every step of a core is a stutter of
  `AtomicList`, but for the `update` of the links, which is the operation.
* **Locks** (`LocksProofs`): `WaitersSeen`, `OwnersAreOwners`, `MutualExclusion`,
  `OwnedWordIsKept`, `WaitersListed` (`[]EveryWaiterListed`), `FirstIsServedFirst`
  (`FirstComeFirstServed`). The invariant adds to the properties that a task
  between its check and the rest of Release is still the owner (`ReleasersOwn`),
  which is what makes the early check sound, and that a waiting task waits for a
  lock and, if honest, has its handle in r1 (`WaitersWait`); that, if apart, of the
  locks at one address one at most is not idle, so that a release finds
  waiting tasks of its own lock only; and that the list has those that wait, once. That last part is what `WaitersListed` states: no waiting
  task is left out of the list, or in it twice; it is proved and not a property of
  the run.
* **Sleeping tasks** (`SleepProofs`): `TasksWakeOnTime` (`IsAlarms`: `Sleep`
  implements `Alarms`). The invariant: the first waits for a tick at least, each is
  in the list once, and there is a waking time for each such that the relative
  times are its differences (`Due`). `LeftIs` is the mapping: what `Left` adds up is
  that time. A task that is inserted in the middle, at the same time as another,
  or at the end, shortens its successor's wait by what it waits itself
  (`TaskIsInserted`), and a tick takes one from the first and so from all.
* **Pipes** (`PipesProofs`): `PipesTypes` (`[]TypeOK`), `NobodyIsForgotten`
  (`[]NobodyForgotten`), `SleepersAreKnown` (`[]SleepersKnown`), `EndsAreAlwaysMapped`
  (`[]EndsAreMapped`), `PipesAreStreams` (`IsStream`: `Pipes` implements `ByteStream`).

  The block size and the width of the indices are any numbers of which the first
  divides the second and is less (`WordAssumption`); the code's are a power of two,
  by default, and 2^32. `Inv` says what the free records are (`PoolInv`); that
  whoever is between the two halves of WaitForData has the lock (`LockInv`); that
  no more is between the indices than fits (`DataInv`), which is what makes a
  difference modulo `Word` the amount; that, until LogString has gone astray, a task asleep is runnable, down at
  one end of one pipe, or about to be woken by LogString, and one of these only
  (`SleepInv`; `WokenInv` is about the last case); that a task about to sleep on another pipe than
  the log still lacks what it wants (`ForgetInv`); and that blocks of a slot are in
  order of their addresses, and an end's address, if it has one, is that of a mapping (`MapInv`). The
  first conjunct of `MapInv` is what keeps the insertion in the middle of a slot's
  array from overlapping, the others rely on a freed record having no addresses.
  For the log, LogString's steps outside the lock are in `DataInv`: one
  task at a time writes, and what it writes still fits, as nobody else moves the
  write index, and readers only make more space.

  For `IsStream`, `Unread` is what `store` holds between the indices. Each action
  moves one index or writes behind the last unread unit: `StreamPutIn`, `StreamTake`
  and the like say what this makes of the stream, from `location`'s being one to one
  on a block (`WordAssumption` again). LogString puts its units behind the others
  before it moves the index, so `ByteStream` sees them when the index moves.
* **Modules** (`OSModuleProofs`): `TypesStay`, `HandlersOwned`
  (`[]HandlersAreTheirOwn`), `ListStaysWhole` (`[]ListIsWhole`), `EveryoneHears`
  (`[]EveryoneIsTold`), and `SwisReachReadyModules` (`SwisGetToReadyModules` in all states with
  `OneInstanceEach`).

  `Own` says that `in_init` is the module of the innermost initialisation, that
  each one remembers the next further out (`Nesting`), and that who
  has not registered has no handlers (`Waiting`): the word that nested loads share
  is a stack, kept in their frames. `Whole` says that the links
  join the ready modules in order (`Chain`), and that all others, also one that is
  being initialised, lead nowhere (`Unready`), so that it can be listed last.
  `Swis` is that a module prefers itself or an instance, and that handlers, once
  found, stay. `AllTell` says how far each service call has come: it is at the
  p-th of the ready modules, those before were told, and only modules at the
  end are added behind it. That they are is why a call under way, which looks
  for the next module after the last one has returned, misses none of them.

  `MaxInstances` is any number. new_module links a second instance of a base by the
  word that links all modules, and may take one out of the list (*Modules*,
  below): from then on nothing is said of the list. As nothing undoes a load,
  `OneInstanceEach` in a state means that it was so in all states before, and
  the invariants need it in the state they are about only. That SWIs get to ready
  modules is proved from the list; TLC finds no violation with two instances
  either. `HandlersOwned` and `TypesStay` need no condition.
* `ListLemmas`: what appending, removing, inserting, rotating do to the members,
  the last item and the injectivity of a sequence.

Walks along links and sums along a list are inductions over data. Here they
are done by the least number at which a walk would go wrong (`LeastNumber`), so
no theorem with an operator for a parameter is needed.

*Only model-checked.*

* Liveness (`MovingTaskArrives`, `PutAsideComeBack`): TLAPS proves nothing about
  fairness or ENABLED.
* `memory`, `interrupts`, `legacy`: all of their properties, the refinement
  `IsNestedUse` among them. The tables of `Mmu` are folds over
  sets of entries, of which TLAPS knows nothing.

## Where the code and its comments differ

* **The owner of the legacy stack is lost** (`legacy_owner`,
  `Legacy/kernel_swis.c:1258-1264`). When a task that was blocked in legacy code
  may go on and its frame is not the innermost, the owner resumes it - that is,
  notes it in its frame - and is then in no list, as after any SWI that gives
  the stack away; but no task has the stack and would put it back. The comment at
  1285-1291 only knows the two other cases.

Further ones are in the models as the code has them, and are no property of a
run:

* *Scheduler.* SwitchToCore compares the core number with `>` (`ostask.c:991`), so
  the first number past the last is let through and the task is in the moving
  list for ever. The comment at `ostask.c:662-667` hopes that after an interrupt
  a task it has activated goes first, and asks "Does that actually work?": it
  does not, as the tasks put aside are already back in the core's list, and
  with two tasks in it the idle task's yield goes to them (634). The list of the
  pool is never filled again (882), and Create from an empty pool goes on with a
  null pointer (809).
* *Locks.* The new owner is read from the resumed task's r1 (`locks.c:132`), which
  `Task_LockClaim` never sets; `OwnersOwn` says what is guaranteed if it were.
  The loop that looks for a task waiting for the released lock ends before its
  first step (110): if a task that waits at another address is first, the lock
  stays with the task that released it. All slots' waiting tasks are in one
  list and compared by the address only (110, 114, 136): a release resumes
  the first that waits for any slot's lock at that address, writes its r1 to
  its own slot's word, and the task returns believing that it has its own
  slot's lock, which may still be another's. Hence `apart`, which the code does not
  ensure: each program has its locks where it likes. A lock at
  several addresses, in memory that modules share, is not modelled: such tasks
  would not find each other.
* *Queues.* The newest caller is served first (`queues.c:245`), so the first one
  may wait for ever. push_controller replaces the only entry of a stack
  (`ostask.h:290`). A task that makes the SWI with interrupts disabled and has a
  handler with interrupts enabled attached to its core breaks the assertion
  `ostask.c:1381` if one comes then: in `Queues` that is `IrqFails`, while in
  `Scheduler` alone it cannot happen (`PutAsideOnce`).
* *Pipes.* The sender that waits for more space than the block has waits for ever
  (`pipes.c:468`), where `ostaskops.h:501` says that the call "will return immediately";
  NoMoreData and NotListening PANIC when the other end waits (611, 755).
  LogString reads and writes without the lock: the receiver may go to sleep on
  what has just been written (so `NobodyForgotten` leaves the log out), and
  when LogString reads no receiver, and then one that waits, it PANICs.
  "If the receiver is running, it is not waiting for data." (514) is not so on
  another core, between the receiver's saying what it waits for (650) and its leaving
  its core's list (653): LogString then inserts it in `runnable` (533), though it is
  still the head of its core's list, and another core may take it (`ostask.c:700`
  checks nothing). Likewise, when the log has been passed on since LogString has
  read its receiver, the one that had it is inserted, wherever it is. What two
  cores do with a task in two lists is not modelled: `Pipes` ends there (`Astray`).
  What LogString stores in the receiver's registers (521-522) is no state of the
  model: saving the task's registers overwrites it in the first case. The
  memory of a freed pipe is not freed; none of the SWIs that finish an end
  checks that the caller has it; a block size that does not divide 2^32 loses
  its place after 4GiB (`WordAssumption`).
* *Memory.* `mmu.h:101` says that the old map is no longer translated, and the
  function that clears it is told the `old` slot (`memory.c:242`), but asks for the
  top of the running task's, the new one: a slot that grows later finds on this
  core what the other slot had above (hence `cleared` in `NoOtherSlotsMemory`).
  Memory given up, and slots that have ended, are
  not freed (`memory.c:101`), so what is left behind is nobody else's. A block
  that crosses a section is mapped in one table and faults for ever. A section-mapped
  block followed by a smaller slot PANICs, as does an access to an unmapped
  page of a shared section (`mmu.c:659`). A device below the application base
  makes its end the top of memory. `VectorsAreWritten` excludes core 0 while
  another core boots, as the vectors' page is then the other's, and not yet
  written (`ostask.c:1469`).
  "Returns -1 if unavailable" (`raw_memory_manager.c:135`) is not looked at by
  AppMemoryTop (`memory.c:76`), for the legacy scratch space (258, where it is
  compared with 0), nor when modules' memory is mapped (`Legacy/kernel_swis.c:88`
  and others): what is mapped then is the last page there could be and the first
  ones of all memory, which two such slots share with each other and with the
  kernel. Those are in the models (`failed`), and are not what `MemoryGivenOnce`
  calls given; `setup_pools`, `create_log_pipe` and `mmu_establish_resources` PANIC.
* *Interrupts.* An interrupt whose entry in the table is empty makes
  release_irq_tasks write to 0xfffff000 (QA7, 140-146), which is mapped with
  `DEBUG__EMERGENCY_UART_ACCESS` only (`mmu.c:835-847`; nothing in the repository's
  builds sets it): otherwise the fault is a PANIC (`mmu.c:663-666`), as in
  `FindsNobody`. It happens when the timer's next interrupt comes after the ticker has
  cleared the last one, and before the manager has entered the ticker again
  (`NoCoreStops`): interrupts are disabled in the manager, so that "the core
  requesting the services" is not interrupted (554-556), but the ticker may be on
  another core than the manager. A second task that waits for an interrupt replaces the first in
  the table (QA7, 608): `IrqOf` gives each its own. Ticks that come while one is
  served are one tick.
* *Mailbox.* The 17th request, and one when the FIFO is full, stop the core
  (`bkpt`). Two tasks that use one block of memory may be released for each
  other; here each has its own.
* *Modules.* An instance becomes preferred before it is initialised and even if
  that fails (`osmodule.c:139`), and shares its link with the list of all modules
  (92-94): SWIs may get to it too early, modules that follow it may be told of a
  service twice. Two instances of a base take modules out of the list, put one
  in it that is not ready, or, if the second is loaded while the first is
  initialised, make a cycle of it, along which a service call goes for ever.
  new_module compares a failed allocation with 0xffffffff, while it is 0 (114).
* *Legacy.* Waiting tasks are served last-in first-out. EntersModule does not look
  for a next frame that may go on (TODO at `kernel_swis.c:906`). The comment
  at 1711 says every tenth tick, and the code returns every ninth.

## What is not modelled

* *Registers, assembler, debug output.* The content of registers but for those
  named; entry and exit sequences, caches, barriers, descriptor bits and address
  space identifiers; logging within the kernel. `SetController` begins with
  PANIC, `dll_move` is not called.
* *Physical memory.* A free of a run that begins inside a section and ends with it,
  which calls itself for ever (`raw_memory_manager.c:41`; `FreeEnds` is the
  assumption), and more than a few words of sections.
* *Heap.* One list under a lock; a block within 32 bytes of what is wanted PANICs
  (`heap.c:93`), and nothing that is freed is joined or found again.
* *Modules.* OS_Module's other reasons, and walks past a failed instance, where
  the code leaves the list (1496).
* *Legacy.* What RISC OS SWIs do: they end in a binary ROM which is not in the
  repository. Dynamic areas (`Legacy/memory.c`): tables of numbers and sizes
  without concurrency. Which stack pointer a blocked caller gets when it goes on
  (1538) and what is on the stack by then is not in `frame`, which has the
  nesting only. Of dynamic areas, enumeration from -1 skips the first area and
  fails on unknown numbers, and a failed claim is compared with 0.
* *Logging modules.* They read the log pipes as `Pipes`' readers do. LogToUART hands
  a lock over with the r1 of Locks, above.
* *Device modules*, `NoLegacy` and tests: device registers, stubs, examples;
  DisplayManager is an unfinished copy of GPUMailbox.

## Plan

1. *Done*: all modules above; the theorems about the scheduler, queues and slots,
   the shared lists, the locks, sleeping tasks, pipes and modules.
2. `IsNestedUse` of the legacy stack, from an invariant that `frame` and `pc` agree.
3. `[]MemoryGivenOnce` from what `RawMemory`'s operators return, and the tables, once
   the folds of `Mmu` are stated as functions that lemmas can be about.

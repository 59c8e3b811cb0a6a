-------------------------------- MODULE Pipes --------------------------------
(***************************************************************************)
(* Pipes (OSTask/pipes.c): a block of memory with a task at either end.    *)
(* The pipe SWIs hold pipes_lock from their first to their last access, so *)
(* each is one step, but for WaitForData: LogString, which fills the log   *)
(* pipe of its core, does not take the lock, and the steps of both may be  *)
(* mixed.  A PANIC stops a core for ever, with the lock if it holds it.    *)
(*                                                                         *)
(* LogString may then make a task runnable that is still in its core's     *)
(* list, or one that does not receive the log any more.  What the cores    *)
(* do with such lists is not modelled: the model stops there (Astray).     *)
(*                                                                         *)
(* Of the scheduler there is what a task is doing (state), and the shared  *)
(* list runnable.  Pipes own their memory (allocated_mem = 0).             *)
(***************************************************************************)
EXTENDS PipeMemory, FiniteSets

CONSTANTS
  Pipes,      \* the OSPipe records
  LogPipe,    \* the one of these that is workspace.ostask.log_pipe
  Tasks,
  Slots,
  SlotOf,     \* task->slot
  BlockSize,  \* max_block_size, in units of data
  Word,       \* indices are modulo this, 2^32; a unit of data is known by its index
  None,       \* the null pointer
  Finished    \* (void*) -1

ASSUME PipesAssumption ==
  /\ LogPipe \in Pipes
  /\ SlotOf \in [Tasks -> Slots]
  /\ IsFiniteSet(Tasks) /\ IsFiniteSet(Pipes)
  /\ None \notin Tasks /\ Finished \notin Tasks /\ None # Finished

\* The code does not check this: it holds for block sizes that are powers of
\* two, and for the others until the first 4GiB have gone through.
ASSUME WordAssumption ==
  Word \in Nat /\ BlockSize \in Nat \ {0} /\ Word % BlockSize = 0 /\ BlockSize < Word

VARIABLES
  pipes_lock,             \* the task in whose SWI it is held, or None
  pipe_pool, pipes,       \* unused records; the others
  sender, receiver,
  sender_waiting_for, receiver_waiting_for,
  sender_va, receiver_va, \* 0: not mapped
  write_index, read_index,
  store,                  \* the memory
  pipe_mem,               \* per slot
  state,                  \* what a task does
  asks,                   \* what a task in WaitForData or LogString is about
  runnable,
  log_receiver            \* a local variable in LogString

endVars   == <<sender, receiver, sender_waiting_for, receiver_waiting_for>>
indexVars == <<write_index, read_index, store>>
mapVars   == <<sender_va, receiver_va, pipe_mem>>
poolVars  == <<pipe_pool, pipes>>
taskVars  == <<pipes_lock, state, asks, runnable, log_receiver>>
vars      == <<endVars, indexVars, mapVars, poolVars, taskVars>>

Ends == Tasks \cup {None, Finished}
Logging == {"logs", "logged", "checked", "waking"}
States == {"usr", "blocks", "stopping", "stopped", "panic", "astray"} \cup Logging
Nothing == [pipe |-> LogPipe, amount |-> 0]

TypeOK ==
  /\ pipes_lock \in Tasks \cup {None}
  /\ pipe_pool \in Seq(Pipes) /\ pipes \subseteq Pipes
  /\ sender \in [Pipes -> Ends] /\ receiver \in [Pipes -> Ends]
  /\ sender_waiting_for \in [Pipes -> Nat]
  /\ receiver_waiting_for \in [Pipes -> Nat]
  /\ sender_va \in [Pipes -> Nat] /\ receiver_va \in [Pipes -> Nat]
  /\ write_index \in [Pipes -> 0 .. Word - 1]
  /\ read_index \in [Pipes -> 0 .. Word - 1]
  /\ store \in [Pipes -> [0 .. BlockSize - 1 -> 0 .. Word - 1]]
  /\ pipe_mem \in [Slots -> Seq([pipe : Pipes, va : Nat, writable : BOOLEAN])]
  /\ state \in [Tasks -> States]
  /\ asks \in [Tasks -> [pipe : Pipes, amount : Nat]]
  /\ runnable \subseteq Tasks
  /\ log_receiver \in Ends

-----------------------------------------------------------------------------
data_in_pipe(p) == (write_index[p] + Word - read_index[p]) % Word
space_in_pipe(p) == BlockSize - data_in_pipe(p)

Advance(i, n) == (i + n) % Word

\* The n-th unit from index i on: what read_location, write_location lead to.
location(i, n) == (i + n) % BlockSize

\* The memory after the units i, i + 1, .. i + amount - 1 have been written.
Written(mem, i, amount) ==
  [l \in DOMAIN mem |->
     IF \E n \in 0 .. amount - 1 : location(i, n) = l
     THEN Advance(i, CHOOSE n \in 0 .. amount - 1 :
                       location(i, n) = l /\ amount <= n + BlockSize)
     ELSE mem[l]]

\* New memory, whatever is in it.
Fresh == [l \in 0 .. BlockSize - 1 |-> 0]

\* The records in pool are unused, the log pipe has a receiver and some text.
Start(pool, listener, text) ==
  /\ pipes_lock = None
  /\ pipe_pool = pool
  /\ pipes = {LogPipe}
  /\ sender = [p \in Pipes |-> None]
  /\ receiver = [p \in Pipes |-> IF p = LogPipe THEN listener ELSE None]
  /\ sender_waiting_for = [p \in Pipes |-> 0]
  /\ receiver_waiting_for = [p \in Pipes |-> 0]
  /\ sender_va = [p \in Pipes |-> IF p = LogPipe THEN PipesTop ELSE 0]
  /\ receiver_va = [p \in Pipes |-> 0]
  /\ write_index = [p \in Pipes |-> IF p = LogPipe THEN text ELSE 0]
  /\ read_index = [p \in Pipes |-> 0]
  /\ store = [p \in Pipes |->
                IF p = LogPipe THEN Written(Fresh, 0, text) ELSE Fresh]
  /\ pipe_mem = [s \in Slots |-> <<>>]
  /\ state = [t \in Tasks |-> "usr"]
  /\ asks = [t \in Tasks |-> Nothing]
  /\ runnable = {}
  /\ log_receiver = None

\* create_log_pipe puts a unit of text in.
Init == \E pool \in SetToSeqs(Pipes \ {LogPipe}) : Start(pool, None, 1)

\* A task makes a pipe SWI, on a pipe it has the handle of.
PipeSwi(t, p) == state[t] = "usr" /\ pipes_lock = None /\ p \in pipes

Mem(t) == pipe_mem[SlotOf[t]]

GoTo(t, s) == state' = [state EXCEPT ![t] = s]

\* A core picks up a runnable task.
Run(t) ==
  /\ t \in runnable
  /\ runnable' = runnable \ {t}
  /\ GoTo(t, "usr")
  /\ UNCHANGED <<endVars, indexVars, mapVars, poolVars, pipes_lock,
                 asks, log_receiver>>

\* A PANIC under pipes_lock: nobody gets the lock again.
Panic(t) ==
  /\ GoTo(t, "panic")
  /\ pipes_lock' = t
  /\ UNCHANGED <<endVars, indexVars, mapVars, poolVars, asks,
                 runnable, log_receiver>>

PipeCreate(t) ==
  /\ state[t] = "usr" /\ pipes_lock = None
  /\ pipe_pool # <<>>
  /\ LET p == Head(pipe_pool)
     IN  /\ pipes' = pipes \cup {p}
         /\ sender' = [sender EXCEPT ![p] = t]
         /\ receiver' = [receiver EXCEPT ![p] = t]
         /\ sender_va' = [sender_va EXCEPT ![p] = 0]
         /\ receiver_va' = [receiver_va EXCEPT ![p] = 0]
         /\ sender_waiting_for' = [sender_waiting_for EXCEPT ![p] = 0]
         /\ receiver_waiting_for' = [receiver_waiting_for EXCEPT ![p] = 0]
         /\ write_index' = [write_index EXCEPT ![p] = 0]
         /\ read_index' = [read_index EXCEPT ![p] = 0]
         /\ store' = [store EXCEPT ![p] = Fresh]
  /\ pipe_pool' = Tail(pipe_pool)
  /\ UNCHANGED <<pipe_mem, taskVars>>

-----------------------------------------------------------------------------
\* The sender's end.

set_sender_va(t, p) ==
  IF sender_va[p] # 0 THEN UNCHANGED <<sender_va, pipe_mem>>
  ELSE /\ sender_va' = [sender_va EXCEPT ![p] = gap_va(Mem(t))]
       /\ pipe_mem' = [pipe_mem EXCEPT
            ![SlotOf[t]] = insert_pipe_in_gap(@, p, TRUE)]

\* amount at most what there is, or the receiver is gone: the task goes on.
\* Else it is stopped until there is as much space as it asked for.
WaitForSpace(t, p, amount) ==
  /\ PipeSwi(t, p)
  /\ sender[p] \in {t, None}
  /\ sender_va[p] = 0 => ~no_gap(Mem(t))
  /\ sender' = [sender EXCEPT ![p] = t]
  /\ set_sender_va(t, p)
  /\ IF space_in_pipe(p) >= amount \/ receiver[p] = Finished
     THEN UNCHANGED <<sender_waiting_for, state>>
     ELSE /\ sender_waiting_for' = [sender_waiting_for EXCEPT ![p] = amount]
          /\ GoTo(t, "stopped")
  /\ UNCHANGED <<receiver, receiver_waiting_for, receiver_va, indexVars,
                 poolVars, pipes_lock, asks, runnable, log_receiver>>

\* Mutant: a receiver is woken only by more than it asked for.
WakeReceiverLate(p, data) ==
  IF receiver_waiting_for[p] \in 1 .. data - 1
  THEN /\ receiver_waiting_for' = [receiver_waiting_for EXCEPT ![p] = 0]
       /\ runnable' = runnable \cup {receiver[p]}
  ELSE UNCHANGED <<receiver_waiting_for, runnable>>

\* The receiver's r1, and where it goes on, once there is enough for it.
WakeReceiver(p, data) ==
  IF receiver_waiting_for[p] \in 1 .. data
  THEN /\ receiver_waiting_for' = [receiver_waiting_for EXCEPT ![p] = 0]
       /\ runnable' = runnable \cup {receiver[p]}
  ELSE UNCHANGED <<receiver_waiting_for, runnable>>

\* What the task has written since it was told where to.
SpaceFilled(t, p, amount) ==
  /\ PipeSwi(t, p)
  /\ sender[p] = t
  /\ amount <= space_in_pipe(p)
  /\ store' = [store EXCEPT ![p] = Written(@, write_index[p], amount)]
  /\ write_index' = [write_index EXCEPT ![p] = Advance(@, amount)]
  /\ WakeReceiver(p, data_in_pipe(p) + amount)
  /\ UNCHANGED <<sender, receiver, sender_waiting_for, read_index, mapVars,
                 poolVars, pipes_lock, state, asks, log_receiver>>

SameSlot(t, u) == t \in Tasks /\ u \in Tasks /\ SlotOf[t] = SlotOf[u]

\* Mutant: the blocks stay when another slot gets the pipe.
SetSenderKeepingBlocks(t, p, new) ==
  /\ PipeSwi(t, p)
  /\ sender[p] \in {t, None}
  /\ sender' = [sender EXCEPT ![p] = new]
  /\ UNCHANGED <<receiver, sender_waiting_for, receiver_waiting_for, indexVars,
                 mapVars, poolVars, taskVars>>

\* PipeSetSender, to a task or to none.
SetSender(t, p, new) ==
  /\ PipeSwi(t, p)
  /\ sender[p] \in {t, None}
  /\ IF SameSlot(sender[p], new) THEN UNCHANGED <<sender_va, pipe_mem>>
     ELSE /\ sender_va' = [sender_va EXCEPT ![p] = 0]
          /\ IF sender[p] = None THEN UNCHANGED pipe_mem
             ELSE pipe_mem' = [pipe_mem EXCEPT
                    ![SlotOf[t]] = unmap_and_free(@, sender_va[p])]
  /\ sender' = [sender EXCEPT ![p] = new]
  /\ UNCHANGED <<receiver, sender_waiting_for, receiver_waiting_for,
                 receiver_va, indexVars, poolVars, taskVars>>

\* free_pipe, when the other end is finished too.  The memory is not freed.
free_pipe(p, other) ==
  IF other = Finished
  THEN pipes' = pipes \ {p} /\ pipe_pool' = Append(pipe_pool, p)
  ELSE UNCHANGED poolVars

NoMoreData(t, p) ==
  /\ PipeSwi(t, p)
  /\ receiver[p] = Finished \/ receiver_waiting_for[p] = 0
  /\ sender' = [sender EXCEPT ![p] = Finished]
  /\ free_pipe(p, receiver[p])
  /\ UNCHANGED <<receiver, sender_waiting_for, receiver_waiting_for, indexVars,
                 mapVars, taskVars>>

-----------------------------------------------------------------------------
\* The receiver's end.

set_receiver_va(t, p) ==
  IF receiver_va[p] # 0 THEN UNCHANGED <<receiver_va, pipe_mem>>
  ELSE /\ receiver_va' = [receiver_va EXCEPT ![p] = gap_va(Mem(t))]
       /\ pipe_mem' = [pipe_mem EXCEPT
            ![SlotOf[t]] = insert_pipe_in_gap(@, p, FALSE)]

\* PipeWaitForData, up to the comparison.
WaitForData(t, p, amount) ==
  /\ PipeSwi(t, p)
  /\ receiver[p] \in {t, None}
  /\ receiver_va[p] = 0 => ~no_gap(Mem(t))
  /\ receiver' = [receiver EXCEPT ![p] = t]
  /\ set_receiver_va(t, p)
  /\ IF data_in_pipe(p) >= amount \/ sender[p] = Finished
     THEN UNCHANGED <<state, pipes_lock, asks>>
     ELSE /\ GoTo(t, "blocks")
          /\ pipes_lock' = t
          /\ asks' = [asks EXCEPT ![t] = [pipe |-> p, amount |-> amount]]
  /\ UNCHANGED <<sender, sender_waiting_for, receiver_waiting_for, sender_va,
                 indexVars, poolVars, runnable, log_receiver>>

\* It says what it waits for,
Blocks(t) ==
  /\ state[t] = "blocks"
  /\ receiver_waiting_for' =
       [receiver_waiting_for EXCEPT ![asks[t].pipe] = asks[t].amount]
  /\ GoTo(t, "stopping")
  /\ UNCHANGED <<sender, receiver, sender_waiting_for, indexVars, mapVars,
                 poolVars, pipes_lock, asks, runnable, log_receiver>>

\* and only now its state is saved and it leaves its core's list.
Stops(t) ==
  /\ state[t] = "stopping"
  /\ GoTo(t, "stopped")
  /\ pipes_lock' = None
  /\ asks' = [asks EXCEPT ![t] = Nothing]
  /\ UNCHANGED <<endVars, indexVars, mapVars, poolVars, runnable,
                 log_receiver>>

\* Mutant: the sender is not made runnable.
WakesNoSender(p, space) ==
  /\ sender_waiting_for' = [sender_waiting_for EXCEPT ![p] = 0]
  /\ UNCHANGED runnable

WakeSender(p, space) ==
  IF sender_waiting_for[p] \in 1 .. space
  THEN /\ sender_waiting_for' = [sender_waiting_for EXCEPT ![p] = 0]
       /\ runnable' = runnable \cup {sender[p]}
  ELSE UNCHANGED <<sender_waiting_for, runnable>>

DataConsumed(t, p, amount) ==
  /\ PipeSwi(t, p)
  /\ receiver[p] = t
  /\ amount <= data_in_pipe(p)
  /\ read_index' = [read_index EXCEPT ![p] = Advance(@, amount)]
  /\ WakeSender(p, space_in_pipe(p) + amount)
  /\ UNCHANGED <<sender, receiver, receiver_waiting_for, write_index, store,
                 mapVars, poolVars, pipes_lock, state, asks, log_receiver>>

\* PipeSetReceiver forgets the address before it looks for the blocks there:
\* it finds none, and they stay.
SetReceiver(t, p, new) ==
  /\ PipeSwi(t, p)
  /\ receiver[p] \in {t, None}
  /\ IF SameSlot(receiver[p], new) THEN UNCHANGED <<receiver_va, pipe_mem>>
     ELSE /\ receiver_va' = [receiver_va EXCEPT ![p] = 0]
          /\ IF receiver[p] = None THEN UNCHANGED pipe_mem
             ELSE pipe_mem' = [pipe_mem EXCEPT
                    ![SlotOf[t]] = unmap_and_free(@, 0)]
  /\ receiver' = [receiver EXCEPT ![p] = new]
  /\ UNCHANGED <<sender, sender_waiting_for, receiver_waiting_for, sender_va,
                 indexVars, poolVars, taskVars>>

NotListening(t, p) ==
  /\ PipeSwi(t, p)
  /\ sender[p] = Finished \/ sender_waiting_for[p] = 0
  /\ receiver' = [receiver EXCEPT ![p] = Finished]
  /\ free_pipe(p, sender[p])
  /\ UNCHANGED <<sender, sender_waiting_for, receiver_waiting_for, indexVars,
                 mapVars, taskVars>>

\* The PANICs of the pipe SWIs: no room to map the pipe, and an end that
\* finishes while the other waits.
PipePanics(t, p) ==
  /\ PipeSwi(t, p)
  /\ \/ p # LogPipe /\ sender[p] \in {t, None} /\ sender_va[p] = 0 /\ no_gap(Mem(t))
     \/ receiver[p] \in {t, None} /\ receiver_va[p] = 0 /\ no_gap(Mem(t))
     \/ sender[p] = t /\ receiver[p] # Finished /\ receiver_waiting_for[p] > 0
     \/ receiver[p] = t /\ sender[p] # Finished /\ sender_waiting_for[p] > 0
  /\ Panic(t)

-----------------------------------------------------------------------------
\* The log.

\* Mutant: the text may be longer than the space that is left.
LogStringOverfills(t, length) ==
  /\ state[t] = "usr"
  /\ \A u \in Tasks : state[u] \notin Logging
  /\ store' = [store EXCEPT ![LogPipe] = Written(@, write_index[LogPipe], length)]
  /\ asks' = [asks EXCEPT ![t] = [pipe |-> LogPipe, amount |-> length]]
  /\ GoTo(t, "logs")
  /\ UNCHANGED <<endVars, write_index, read_index, mapVars, poolVars,
                 pipes_lock, runnable, log_receiver>>

\* TaskOpLogString, on the core the log pipe belongs to: the text is copied if
\* there is space, and dropped if not.
LogString(t, length) ==
  /\ state[t] = "usr"
  /\ \A u \in Tasks : state[u] \notin Logging
  /\ length <= space_in_pipe(LogPipe)
  /\ store' = [store EXCEPT ![LogPipe] = Written(@, write_index[LogPipe], length)]
  /\ asks' = [asks EXCEPT ![t] = [pipe |-> LogPipe, amount |-> length]]
  /\ GoTo(t, "logs")
  /\ UNCHANGED <<endVars, write_index, read_index, mapVars, poolVars,
                 pipes_lock, runnable, log_receiver>>

\* PipeSpaceFilled without the lock: the index, and who is to be told.
LogFills(t) ==
  /\ state[t] = "logs"
  /\ write_index' = [write_index EXCEPT ![LogPipe] = Advance(@, asks[t].amount)]
  /\ log_receiver' = receiver[LogPipe]
  /\ GoTo(t, "logged")
  /\ UNCHANGED <<endVars, read_index, store, mapVars, poolVars,
                 pipes_lock, asks, runnable>>

\* t is done with the log.
LogEnds(t, s) ==
  /\ GoTo(t, s)
  /\ log_receiver' = None
  /\ asks' = [asks EXCEPT ![t] = Nothing]

\* A receiver that has come since is a PANIC, if it already waits.
LogChecks(t) ==
  /\ state[t] = "logged"
  /\ IF log_receiver \in {None, t} /\ receiver_waiting_for[LogPipe] # 0
     THEN LogEnds(t, "panic")
     ELSE GoTo(t, "checked") /\ UNCHANGED <<log_receiver, asks>>
  /\ UNCHANGED <<endVars, indexVars, mapVars, poolVars, pipes_lock, runnable>>

\* Is there enough for who waits now?  If that is not the receiver that is to be
\* told, it will never be.
LogDecides(t) ==
  /\ state[t] = "checked"
  /\ IF receiver_waiting_for[LogPipe] \in 1 .. data_in_pipe(LogPipe)
     THEN /\ receiver_waiting_for' = [receiver_waiting_for EXCEPT ![LogPipe] = 0]
          /\ GoTo(t, IF log_receiver = receiver[LogPipe] THEN "waking" ELSE "astray")
          /\ UNCHANGED <<log_receiver, asks>>
     ELSE LogEnds(t, "usr") /\ UNCHANGED receiver_waiting_for
  /\ UNCHANGED <<sender, receiver, sender_waiting_for, indexVars, mapVars,
                 poolVars, pipes_lock, runnable>>

\* The receiver is made runnable, even if it is still in its core's list: "If the
\* receiver is running, it is not waiting for data" is not so in WaitForData.
LogWakes(t) ==
  /\ state[t] = "waking"
  /\ runnable' = runnable \cup {log_receiver}
  /\ LogEnds(t, IF state[log_receiver] = "stopped" THEN "usr" ELSE "astray")
  /\ UNCHANGED <<endVars, indexVars, mapVars, poolVars, pipes_lock>>

\* TaskOpGetLogPipe gives the handle only of a log that nobody receives.
GetLogPipePanics(t) ==
  /\ state[t] = "usr"
  /\ receiver[LogPipe] # None
  /\ GoTo(t, "panic")
  /\ UNCHANGED <<endVars, indexVars, mapVars, poolVars, pipes_lock,
                 asks, runnable, log_receiver>>

-----------------------------------------------------------------------------
\* What tasks do: they write to their own pipes, and finish only their own end
\* (the code checks neither).  More than the block may be asked for.
Amounts == 1 .. BlockSize + 1

Sends(t, p) ==
  \/ \E n \in Amounts : WaitForSpace(t, p, n)
  \/ \E n \in 1 .. BlockSize : SpaceFilled(t, p, n)
  \/ \E new \in Tasks \cup {None} : SetSender(t, p, new)
  \/ sender[p] = t /\ NoMoreData(t, p)

Receives(t, p) ==
  \/ \E n \in Amounts : WaitForData(t, p, n)
  \/ \E n \in 1 .. BlockSize : DataConsumed(t, p, n)
  \/ \E new \in Tasks \cup {None} : SetReceiver(t, p, new)
  \/ receiver[p] = t /\ NotListening(t, p)

Logs(t) ==
  \/ \E n \in 1 .. BlockSize : LogString(t, n)
  \/ LogFills(t) \/ LogChecks(t) \/ LogDecides(t) \/ LogWakes(t)

\* The log has woken a task that had not stopped yet, or not the one that waits.
Astray == \E t \in Tasks : state[t] = "astray"

\* Every task waits for the others, or for a core in PANIC; or the model stops.
Stuck ==
  /\ \/ Astray
     \/ \A t \in Tasks : \/ state[t] = "stopped" /\ t \notin runnable
                         \/ state[t] = "panic"
                         \/ pipes_lock # None /\ state[pipes_lock] = "panic"
  /\ UNCHANGED vars

Next ==
  \/ /\ ~Astray
     /\ \E t \in Tasks :
          \/ PipeCreate(t) \/ Run(t) \/ Blocks(t) \/ Stops(t)
          \/ Logs(t) \/ GetLogPipePanics(t)
          \/ \E p \in Pipes : PipePanics(t, p) \/ Receives(t, p)
          \/ \E p \in Pipes \ {LogPipe} : Sends(t, p)
  \/ Stuck

Spec == Init /\ [][Next]_vars

-----------------------------------------------------------------------------
\* What is in the pipes is a bounded stream: see ByteStream.
Stream == INSTANCE ByteStream WITH
  Capacity <- BlockSize,
  AtBoot <- {LogPipe},
  Values <- 0 .. Word - 1,
  open <- pipes,
  unread <- [p \in Pipes |-> IF p \notin pipes THEN <<>>
              ELSE [n \in 1 .. data_in_pipe(p) |->
                      store[p][location(read_index[p], n - 1)]]]

\* Nothing is lost, doubled, overwritten or out of order between the ends of a
\* pipe, whoever they are passed on to, and whenever the log is written.
IsStream == Stream!Spec

\* An end that waits on an ordinary pipe waits for more than there is: nobody
\* sleeps on what is already there.
NobodyForgotten ==
  \A p \in Pipes \ {LogPipe} :
    /\ sender_waiting_for[p] > 0 => sender_waiting_for[p] > space_in_pipe(p)
    /\ receiver_waiting_for[p] > 0 => receiver_waiting_for[p] > data_in_pipe(p)

WaitsAsSender(t, p) == sender[p] = t /\ sender_waiting_for[p] > 0
WaitsAsReceiver(t, p) == receiver[p] = t /\ receiver_waiting_for[p] > 0

\* Is the log about to make t runnable?
IsWoken(t) == log_receiver = t /\ \E u \in Tasks : state[u] = "waking"

\* A stopped task is either runnable, or about to be made so by the log, or waits
\* at one end of one pipe, which will wake it; no pipe waits for anything else,
\* and no task is runnable that has not left its core's list.  All of it but for
\* what LogString's lack of the lock makes of it (Astray).
SleepersKnown ==
  ~Astray =>
    /\ \A t \in Tasks : state[t] = "stopped" =>
         Cardinality({p \in Pipes : WaitsAsSender(t, p)})
           + Cardinality({p \in Pipes : WaitsAsReceiver(t, p)})
           = IF t \in runnable \/ IsWoken(t) THEN 0 ELSE 1
    /\ \A p \in Pipes :
         /\ sender_waiting_for[p] > 0 =>
              sender[p] \in Tasks /\ state[sender[p]] = "stopped"
         /\ receiver_waiting_for[p] > 0 =>
              receiver[p] \in Tasks /\ state[receiver[p]] \in {"stopping", "stopped"}
    /\ \A t \in runnable : state[t] = "stopped" /\ ~IsWoken(t)

MappedTwice(p, va, writable, mem) ==
  \E i \in 1 .. Len(mem) - 1 :
    /\ mem[i] = block(p, va, writable)
    /\ mem[i + 1] = block(p, va + BlockPages, writable)

\* Blocks never overlap, and the addresses an end uses are those where its
\* slot has the pipe, twice in a row, marked as writable for the sender only.
EndsAreMapped ==
  /\ \A s \in Slots : Ascending(pipe_mem[s])
  /\ \A p \in pipes :
       /\ (sender[p] \in Tasks /\ sender_va[p] # 0 /\ p # LogPipe) =>
            MappedTwice(p, sender_va[p], TRUE, pipe_mem[SlotOf[sender[p]]])
       /\ (receiver[p] \in Tasks /\ receiver_va[p] # 0) =>
            MappedTwice(p, receiver_va[p], FALSE, pipe_mem[SlotOf[receiver[p]]])

===============================================================================

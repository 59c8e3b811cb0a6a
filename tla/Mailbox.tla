------------------------------- MODULE Mailbox -------------------------------
(***************************************************************************)
(* The GPUMailbox module (Modules/System/Pi/GPUMailbox/module.c) on the    *)
(* interrupt manager: mailbox_manager passes the requests of tasks on to   *)
(* the GPU, response_manager waits for the GPU's interrupt and releases    *)
(* the task whose request a response is.  The GPU answers every request    *)
(* once, in any order.  A request is its address and channel: each task    *)
(* has its own.                                                            *)
(***************************************************************************)
EXTENDS Interrupts

CONSTANTS
  Responder, Sender,   \* response_manager, mailbox_manager
  Requesters,          \* tasks that make the mailbox SWI
  MailQueue,           \* workspace.queue
  Slots,               \* 0 .. MAX_REQUESTS - 1
  MailFull             \* requests in the mailbox when it is full

VARIABLES
  request,             \* the workspace: [task, address] per slot
  config,              \* GPU: not-empty interrupts are enabled
  to_gpu, from_gpu,    \* mailbox[1], and what the GPU is about; mailbox[0]
  asker, slot,         \* mailbox_manager's client and req
  response, i          \* response_manager's

mailVars    == <<request, config, to_gpu, from_gpu, asker, slot, response, i>>
mailboxVars == <<irqVars, mailVars>>

devVars == <<tables, gpu_core, enabled, timer, timer_core, locals>>
MailIrq == IrqOf[Responder]

Free(s) == request[s].task = None

-----------------------------------------------------------------------------
\* response_manager, once it has claimed the interrupt.
ResponderCreates(c) ==
  \/ /\ At(c, Responder, "claimed")
     /\ Create(c)
     /\ Only(Responder, "start sender")
     /\ UNCHANGED mailVars
  \/ /\ At(c, Responder, "start sender")
     /\ Release(c, Sender)
     /\ Only(Responder, "enabling")
     /\ UNCHANGED mailVars

ResponderEnabling(c) ==
  /\ At(c, Responder, "enabling")
  /\ EnablingInterrupts(c)
  /\ Only(Responder, "config")
  /\ UNCHANGED mailVars

\* The mailbox's interrupt is asserted while there is something in it.
ResponderConfigures(c) ==
  /\ At(c, Responder, "config")
  /\ User(Responder, "ask")
  /\ config' = TRUE
  /\ device' = IF from_gpu = <<>> THEN device ELSE device \cup {MailIrq}
  /\ UNCHANGED <<devVars, request, to_gpu, from_gpu, asker, slot, response, i>>

\* After the interrupt: the next response, or back to wait.
ResponderReads(c) ==
  /\ At(c, Responder, "serve")
  /\ IF from_gpu = <<>>
     THEN /\ User(Responder, "ask")
          /\ UNCHANGED <<device, mailVars>>
     ELSE /\ User(Responder, "search")
          /\ response' = Head(from_gpu) /\ from_gpu' = Tail(from_gpu) /\ i' = 0
          /\ device' = IF from_gpu' = <<>> THEN device \ {MailIrq} ELSE device
          /\ UNCHANGED <<request, config, to_gpu, asker, slot>>
  /\ UNCHANGED devVars

\* Mutant: the entry is not freed.
ResponderSearchesOnly(c) ==
  LET found == ~Free(i) /\ request[i].address = response
  IN /\ At(c, Responder, "search")
     /\ IF found THEN Release(c, request[i].task) ELSE UNCHANGED vars
     /\ Goes(Responder, IF found \/ i + 1 \notin Slots THEN "serve" ELSE "search")
     /\ i' = i + 1
     /\ UNCHANGED <<queueVars, device, devVars, config, to_gpu, from_gpu, asker, slot,
                    response, request>>

\* The entry is freed, and its task released.
ResponderSearches(c) ==
  LET found == ~Free(i) /\ request[i].address = response
  IN /\ At(c, Responder, "search")
     /\ IF found
        THEN /\ request' = [request EXCEPT ![i].task = None]
             /\ Release(c, request[i].task)
        ELSE UNCHANGED <<request, vars>>
     /\ Goes(Responder, IF found \/ i + 1 \notin Slots THEN "serve" ELSE "search")
     /\ i' = i + 1
     /\ UNCHANGED <<queueVars, device, devVars, config, to_gpu, from_gpu, asker, slot, response>>

ResponderNext(c) ==
  \/ ResponderCreates(c) \/ ResponderEnabling(c) \/ ResponderConfigures(c)
  \/ ResponderReads(c) \/ ResponderSearches(c)

-----------------------------------------------------------------------------
\* mailbox_manager.

ForSender(c) == step[c] = "queue" /\ Head(hand[c]) \in Requesters

\* The sender has been given a task.
Asked(t) ==
  /\ asker' = t
  /\ Goes(Sender, "find")
  /\ UNCHANGED <<tables, hardware, locals, request, config, to_gpu, from_gpu,
                 slot, response, i>>

SenderWaits(c) ==
  \/ /\ At(c, Sender, "start")
     /\ HandlerWaits(c, MailQueue)
     /\ UNCHANGED <<pc, tables, hardware, locals, mailVars>>
  \/ /\ At(c, Sender, "start")
     /\ TakesQueued(c, MailQueue)
     /\ Asked(Head(queue[MailQueue]))
  \/ /\ ForSender(c)
     /\ HandlerTakes(c, MailQueue)
     /\ Asked(Head(hand[c]))
  \/ /\ ForSender(c)
     /\ Queued(c, MailQueue)
     /\ UNCHANGED <<pc, tables, hardware, locals, mailVars>>

\* The first free entry gets the task (bkpt 1: there is none), ..
SenderFinds(c) ==
  /\ At(c, Sender, "find")
  /\ IF \E s \in Slots : Free(s)
     THEN /\ slot' = CHOOSE s \in Slots : Free(s) /\ \A r \in Slots : Free(r) => s <= r
          /\ request' = [request EXCEPT ![slot'].task = asker]
          /\ UNCHANGED vars
     ELSE UNCHANGED <<slot, request>> /\ Panic(c)
  /\ Goes(Sender, "address")
  /\ UNCHANGED <<queueVars, device, devVars, config, to_gpu, from_gpu, asker, response, i>>

\* .. then its request, ..
SenderSetsAddress(c) ==
  /\ At(c, Sender, "address")
  /\ User(Sender, "control")
  /\ request' = [request EXCEPT ![slot].address = asker]
  /\ UNCHANGED <<device, devVars, config, to_gpu, from_gpu, asker, slot, response, i>>

\* .. response_manager gets control of the task, ..
SenderControls(c) ==
  /\ At(c, Sender, "control")
  /\ ChangeController(c)
  /\ controller' = [controller EXCEPT ![asker] = <<Responder>> \o Tail(@)]
  /\ Only(Sender, "send")
  /\ UNCHANGED mailVars

\* .. and the GPU the request.  (bkpt 77: that was the last one it had room for.)
SenderSends(c) ==
  /\ At(c, Sender, "send")
  /\ to_gpu' = Append(to_gpu, asker)
  /\ IF Len(to_gpu') >= MailFull THEN Panic(c) ELSE UNCHANGED vars
  /\ Goes(Sender, "start")
  /\ UNCHANGED <<queueVars, device, devVars, request, config, from_gpu, asker, slot, response, i>>

SenderNext(c) ==
  \/ SenderWaits(c) \/ SenderFinds(c) \/ SenderSetsAddress(c)
  \/ SenderControls(c) \/ SenderSends(c)

\* A task asks, and again when it has its answer.
RequesterAsks(c, t) ==
  /\ At(c, t, "start")
  /\ QueueSwi(c)
  /\ UNCHANGED <<pc, tables, hardware, locals, mailVars>>

GpuAnswers ==
  /\ \E n \in 1 .. Len(to_gpu) :
       /\ from_gpu' = Append(from_gpu, to_gpu[n])
       /\ to_gpu' = RemoveAt(to_gpu, n)
  /\ device' = IF config THEN device \cup {MailIrq} ELSE device
  /\ UNCHANGED <<queuesVars, pc, devVars, request, config, asker, slot, response, i>>

MailboxNext ==
  \/ IrqNext /\ UNCHANGED mailVars
  \/ \E c \in Cores :
       \/ ResponderNext(c) \/ SenderNext(c)
       \/ \E t \in Requesters : RequesterAsks(c, t)
  \/ GpuAnswers

-----------------------------------------------------------------------------
\* A request is on its way: to the GPU, back, or being looked for.
OnItsWay(a) ==
  Cardinality({n \in DOMAIN to_gpu : to_gpu[n] = a})
    + Cardinality({n \in DOMAIN from_gpu : from_gpu[n] = a})
    + (IF pc[Responder] = "search" /\ response = a THEN 1 ELSE 0)

\* Every task in the table is one that waits there, once, under the control of
\* response_manager from before its request is sent, and its request will come
\* back once, although entries are reused while the other task is searching them.
RequestsComeBack ==
  \A s \in Slots : ~Free(s) =>
    LET t == request[s].task
        making == t = asker /\ pc[Sender] \in {"address", "control", "send"}
    IN /\ \A r \in Slots : request[r].task = t => r = s
       /\ Places(t) = {<<"shared", "held">>} /\ InQueues(t) = {}
       /\ making => OnItsWay(t) = 0
       /\ ~making => /\ OnItsWay(t) = 1 /\ request[s].address = t
                     /\ Controls(Responder, t)
==============================================================================

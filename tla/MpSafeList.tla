----------------------------- MODULE MpSafeList -----------------------------
(***************************************************************************)
(* The lists that all cores share (Utilities/mpsafe_dll.h): runnable,      *)
(* moving, sleeping and the pools.                                         *)
(*                                                                         *)
(* The head pointer is also the lock.  A core that wants to work on the    *)
(* list replaces the pointer by 1 (LOCKED) with an exclusive load and      *)
(* store, works on its own copy of the pointer, and stores that back.  A   *)
(* core that reads 1 sleeps in wfe until another core signals an event.    *)
(***************************************************************************)
EXTENDS DoublyLinkedList, SequencesExt

CONSTANTS
  Cores,
  LOCKED,    \* the pointer value 1
  Wants      \* the core an item asks for: its regs.r[0], read by for_core

ASSUME LOCKEDAssumption == LOCKED \notin Items \cup {NULL}
ASSUME WantsAssumption == Wants \in [Items -> Cores]

VARIABLES
  next, prev,  \* the items' links
  head,        \* *head, the shared word
  pc,          \* per core: where it is in the function
  op,          \* per core: which function
  head_item,   \* per core: its copy of the word (old, in the insertions),
               \* NULL when out of scope
  hold,        \* per core: a list it has taken, or is to insert
  event        \* per core: the event register that wfe waits for

vars == <<next, prev, head, pc, op, head_item, hold, event>>

Memory_ == [next |-> next, prev |-> prev]

\* The two functions that may insert without taking the lock, and the others:
\* DO_NOT_USE_insert_tail, add_woken; DO_NOT_USE_detach_head, for_core and
\* wakey_wakey, passed to mpsafe_manipulate.
OneItemInserts == {"insert_at_head", "insert_after_head"}
Inserts == {"insert_tail", "add_woken"}
Takes == {"detach_head", "for_core", "wakey_wakey"}

\* "outside" the functions; before "read" and "cas" of *head; in "wfe"; with
\* the lock: "update", "release"; before the "signal".
Places == {"outside", "read", "wfe", "cas", "update", "release", "signal"}

TypeOK ==
  /\ next \in [Items -> Items]
  /\ prev \in [Items -> Items]
  /\ head \in Items \cup {NULL, LOCKED}
  /\ pc \in [Cores -> Places]
  /\ op \in [Cores -> OneItemInserts \cup Inserts \cup Takes \cup {"none"}]
  /\ head_item \in [Cores -> Items \cup {NULL, LOCKED}]
  /\ hold \in [Cores -> Items \cup {NULL}]
  /\ event \in [Cores -> BOOLEAN]

\* A pool, as setup_pools leaves it: all items are in the list, in any order.
Init ==
  /\ \E order \in SetToSeqs(Items) :
       LET ring == dll_ring(order) IN
       next = ring.next /\ prev = ring.prev /\ head = Head(order)
  /\ pc = [c \in Cores |-> "outside"]
  /\ op = [c \in Cores |-> "none"]
  /\ head_item = [c \in Cores |-> NULL]
  /\ hold = [c \in Cores |-> NULL]
  /\ event = [c \in Cores |-> FALSE]

-----------------------------------------------------------------------------
Goto(c, place) == pc' = [pc EXCEPT ![c] = place]

\* A single item is inserted by any function, a longer list by add_woken.
Call(c) ==
  /\ pc[c] = "outside"
  /\ \E f \in IF hold[c] = NULL THEN Takes
              ELSE IF next[hold[c]] = hold[c] THEN OneItemInserts \cup Inserts
              ELSE {"add_woken"} :
       op' = [op EXCEPT ![c] = f]
  /\ Goto(c, "read")
  /\ UNCHANGED <<next, prev, head, head_item, hold, event>>

Read(c) ==
  /\ pc[c] = "read"
  /\ head_item' = [head_item EXCEPT ![c] = head]
  /\ Goto(c, IF head = LOCKED THEN "wfe" ELSE "cas")
  /\ UNCHANGED <<next, prev, head, op, hold, event>>

wait_for_event(c) ==
  /\ pc[c] = "wfe"
  /\ event[c]
  /\ event' = [event EXCEPT ![c] = FALSE]
  /\ head_item' = [head_item EXCEPT ![c] = NULL]
  /\ Goto(c, "read")
  /\ UNCHANGED <<next, prev, head, op, hold>>

\* The two insertions put an item in an empty list without locking it.
InsertsIntoEmpty(c) == op[c] \in OneItemInserts /\ head_item[c] = NULL

\* change_word_if_equal( head, 0, item ).
InsertIntoEmpty(c) ==
  /\ pc[c] = "cas"
  /\ InsertsIntoEmpty(c)
  /\ head = NULL
  /\ head' = hold[c]
  /\ hold' = [hold EXCEPT ![c] = NULL]
  /\ Goto(c, "signal")
  /\ UNCHANGED <<next, prev, op, head_item, event>>

\* Mutant: the word is not compared with what was read.
LockUncompared(c) ==
  /\ pc[c] = "cas"
  /\ ~InsertsIntoEmpty(c)
  /\ head' = LOCKED
  /\ Goto(c, "update")
  /\ UNCHANGED <<next, prev, op, head_item, hold, event>>

\* change_word_if_equal( head, head_item, 1 ).
Lock(c) ==
  /\ pc[c] = "cas"
  /\ ~InsertsIntoEmpty(c)
  /\ head = head_item[c]
  /\ head' = LOCKED
  /\ Goto(c, "update")
  /\ UNCHANGED <<next, prev, op, head_item, hold, event>>

\* The word has changed since it was read.
CasFails(c) ==
  /\ pc[c] = "cas"
  /\ head # head_item[c]
  /\ head_item' = [head_item EXCEPT ![c] = NULL]
  /\ Goto(c, "read")
  /\ UNCHANGED <<next, prev, head, op, hold, event>>

\* The links become m, c's copy of the pointer l, and c then holds h.
Leaves(c, m, l, h) ==
  /\ next' = m.next
  /\ prev' = m.prev
  /\ head_item' = [head_item EXCEPT ![c] = l]
  /\ hold' = [hold EXCEPT ![c] = h]

insert_at_head(c) ==
  /\ op[c] = "insert_at_head"
  /\ Leaves(c, dll_attach(Memory_, hold[c], head_item[c]), hold[c], NULL)

\* Attached to the list that starts behind the head: which stays the head.
insert_after_head(c) ==
  /\ op[c] = "insert_after_head"
  /\ Leaves(c, dll_attach(Memory_, hold[c], next[head_item[c]]), head_item[c], NULL)

\* Mutant: the item stays the head.
insert_tailAsHead(c) ==
  /\ op[c] = "insert_tail"
  /\ Leaves(c, dll_attach(Memory_, hold[c], head_item[c]), hold[c], NULL)

\* Attached as the head, which is then the item that follows.
insert_tail(c) ==
  LET attached == dll_attach(Memory_, hold[c], head_item[c]) IN
  /\ op[c] = "insert_tail"
  /\ Leaves(c, attached, attached.next[hold[c]], NULL)

\* The list is inserted before the head, which stays the head.
add_woken(c) ==
  /\ op[c] = "add_woken"
  /\ Leaves(c, dll_insert_list_at_head(Memory_, hold[c], head_item[c]),
            IF head_item[c] = NULL THEN hold[c] ELSE head_item[c], NULL)

FindsNothing(c) == Leaves(c, Memory_, head_item[c], NULL)

\* The list without item i, which core c then holds.
Detach(c, i) ==
  Leaves(c, dll_detach(Memory_, i),
         IF next[i] = i THEN NULL
         ELSE IF i = head_item[c] THEN next[i] ELSE head_item[c], i)

detach_head(c) ==
  /\ op[c] = "detach_head"
  /\ IF head_item[c] = NULL THEN FindsNothing(c) ELSE Detach(c, head_item[c])

\* The first item of the list that asks for core c.
Finds(c, i) ==
  LET list == Ring(Memory_, head_item[c]) IN
  \E k \in DOMAIN list :
    /\ list[k] = i /\ Wants[i] = c
    /\ \A j \in 1 .. k - 1 : Wants[list[j]] # c

for_core(c) ==
  /\ op[c] = "for_core"
  /\ \/ (\A i \in Items : ~Finds(c, i)) /\ FindsNothing(c)
     \/ \E i \in Items : Finds(c, i) /\ Detach(c, i)

\* All items from the head to one of the list, if the head's time is up.
wakey_wakey(c) ==
  /\ op[c] = "wakey_wakey"
  /\ \/ FindsNothing(c)
     \/ \E end \in Items :
          /\ end \in ToSet(Ring(Memory_, head_item[c]))
          /\ Leaves(c, dll_detach_until(Memory_, head_item[c], end),
                    detach_until_head(Memory_, head_item[c], end), head_item[c])

Update(c) ==
  /\ pc[c] = "update"
  /\ \/ insert_at_head(c) \/ insert_after_head(c) \/ insert_tail(c) \/ add_woken(c)
     \/ detach_head(c) \/ for_core(c) \/ wakey_wakey(c)
  /\ Goto(c, "release")
  /\ UNCHANGED <<head, op, event>>

\* Mutant: no event is signalled.
ReleaseSilently(c) ==
  /\ pc[c] = "release"
  /\ head' = head_item[c]
  /\ head_item' = [head_item EXCEPT ![c] = NULL]
  /\ op' = [op EXCEPT ![c] = "none"]
  /\ Goto(c, "outside")
  /\ UNCHANGED <<next, prev, hold, event>>

\* *head = head_item.
Release(c) ==
  /\ pc[c] = "release"
  /\ head' = head_item[c]
  /\ head_item' = [head_item EXCEPT ![c] = NULL]
  /\ Goto(c, "signal")
  /\ UNCHANGED <<next, prev, op, hold, event>>

\* sev: every core's event register is set.
signal_event(c) ==
  /\ pc[c] = "signal"
  /\ event' = [d \in Cores |-> TRUE]
  /\ op' = [op EXCEPT ![c] = "none"]
  /\ Goto(c, "outside")
  /\ UNCHANGED <<next, prev, head, head_item, hold>>

\* The steps of a function once it is called.
Step(c) ==
  \/ Read(c) \/ wait_for_event(c) \/ InsertIntoEmpty(c) \/ Lock(c) \/ CasFails(c)
  \/ Update(c) \/ Release(c) \/ signal_event(c)

Next == \E c \in Cores : Call(c) \/ Step(c)

Spec == Init /\ [][Next]_vars

-----------------------------------------------------------------------------
\* The lock protects the list: one core at a time works on it, and only while
\* the word is 1 (the functions' dll_assert that it still is 1 cannot fail).
Works(c) == pc[c] \in {"update", "release"}

OneCoreWorks ==
  \A c \in Cores : Works(c) => head = LOCKED /\ \A d \in Cores \ {c} : ~Works(d)

\* A core asleep in wfe is woken: its event register is set, or a core that
\* will signal an event is at work on the list.
WillBeWoken ==
  \A c \in Cores : (pc[c] = "wfe" /\ ~event[c]) =>
    \E d \in Cores : pc[d] \in {"update", "release", "signal"}

\* prev and next are inverse: no insertion or removal has torn a ring.
RingsAreWhole == \A i \in Items : prev[next[i]] = i /\ next[prev[i]] = i

\* The list is one whole operation after another: what each function is used
\* as.  An operation takes effect when it changes the links, under the lock,
\* or replaces an empty list by an item.
ListPointer ==
  IF head = LOCKED THEN head_item[CHOOSE c \in Cores : Works(c)] ELSE head

Atomic == INSTANCE AtomicList WITH
  list <- Ring(Memory_, ListPointer),
  hold <- [c \in Cores |-> Ring(Memory_, hold[c])],
  done <- [c \in Cores |-> pc[c] \in {"release", "signal"}]

IsAtomic == Atomic!Spec
=============================================================================

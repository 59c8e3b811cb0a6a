----------------------------- MODULE AtomicList -----------------------------
(***************************************************************************)
(* What the functions of Utilities/mpsafe_dll.h promise: whatever the      *)
(* other cores do, a call is one atomic operation on the shared list,      *)
(* which happens once, between the call and the return.                    *)
(***************************************************************************)
EXTENDS Naturals, SequencesExt

CONSTANTS Cores, Items,
  Wants      \* the core each item asks for

VARIABLES
  list,      \* the shared list, from its head
  hold,      \* per core: the items it has taken from it, or is to insert
  op,        \* per core: the function called, or "none"
  done       \* per core: has the operation happened?

vars == <<list, hold, op, done>>

Init ==
  /\ list \in SetToSeqs(Items)
  /\ hold = [c \in Cores |-> <<>>]
  /\ op = [c \in Cores |-> "none"]
  /\ done = [c \in Cores |-> FALSE]

Call(c) ==
  /\ op[c] = "none"
  /\ \E f \in {"insert_at_head", "insert_after_head", "insert_tail", "add_woken",
               "detach_head", "for_core", "wakey_wakey"} :
       op' = [op EXCEPT ![c] = f]
  /\ UNCHANGED <<list, hold, done>>

Return(c) ==
  /\ done[c]
  /\ op' = [op EXCEPT ![c] = "none"]
  /\ done' = [done EXCEPT ![c] = FALSE]
  /\ UNCHANGED <<list, hold>>

\* The list becomes l, and core c holds h.
Leaves(c, l, h) == list' = l /\ hold' = [hold EXCEPT ![c] = h]

Insert(c) ==
  \/ op[c] = "insert_at_head" /\ Leaves(c, hold[c] \o list, <<>>)
  \/ /\ op[c] = "insert_after_head"
     /\ Leaves(c, IF list = <<>> THEN hold[c]
                  ELSE <<Head(list)>> \o hold[c] \o Tail(list), <<>>)
  \/ op[c] \in {"insert_tail", "add_woken"} /\ Leaves(c, list \o hold[c], <<>>)

TakeFirst(c, n) == Leaves(c, SubSeq(list, n + 1, Len(list)), SubSeq(list, 1, n))

\* The places of the items that ask for core c.
Mine(c) == {i \in DOMAIN list : Wants[list[i]] = c}

Take(c) ==
  \/ op[c] = "detach_head" /\ TakeFirst(c, IF list = <<>> THEN 0 ELSE 1)
  \/ op[c] = "wakey_wakey" /\ \E n \in 0 .. Len(list) : TakeFirst(c, n)
  \/ op[c] = "for_core" /\ Mine(c) = {} /\ UNCHANGED <<list, hold>>
  \/ /\ op[c] = "for_core"
     /\ \E i \in Mine(c) :
          /\ \A j \in Mine(c) : i <= j
          /\ Leaves(c, RemoveAt(list, i), <<list[i]>>)

Do(c) ==
  /\ op[c] # "none" /\ ~done[c]
  /\ Insert(c) \/ Take(c)
  /\ done' = [done EXCEPT ![c] = TRUE]
  /\ UNCHANGED op

Next == \E c \in Cores : Call(c) \/ Do(c) \/ Return(c)

Spec == Init /\ [][Next]_vars
=============================================================================

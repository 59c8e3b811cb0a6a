--------------------------- MODULE DoublyLinkedList ---------------------------
(***************************************************************************)
(* The intrusive circular lists of Utilities/doubly_linked_list.h.         *)
(*                                                                         *)
(* m is the memory of the items' links, [next |-> ..., prev |-> ...]; a    *)
(* list is a pointer to its first item, or NULL.  An operator gives the    *)
(* memory its function leaves.  Where the function changes the list        *)
(* pointer too, a second operator gives that.                              *)
(***************************************************************************)
EXTENDS Naturals, Sequences, FiniteSets

CONSTANTS Items, NULL

ASSUME NULLAssumption == NULL \notin Items
ASSUME ItemsAssumption == IsFiniteSet(Items) /\ Items # {}

Memory == [next : [Items -> Items], prev : [Items -> Items]]

\* The items of the sequence s, in that order: what setup_pools makes of them.
dll_ring(s) ==
  LET n == Len(s)
      place(i) == CHOOSE k \in 1 .. n : s[k] = i
  IN [next |-> [i \in Items |-> s[(place(i) % n) + 1]],
      prev |-> [i \in Items |-> s[((place(i) + n - 2) % n) + 1]]]

\* Item i, in no other list, becomes the head.
dll_attach(m, i, l) ==
  IF l = NULL THEN m
  ELSE [next |-> [m.next EXCEPT ![i] = l, ![m.prev[l]] = i],
        prev |-> [m.prev EXCEPT ![i] = m.prev[l], ![l] = i]]

\* Mutant: the next item's prev is left.
dll_detachHalf(m, i) ==
  [next |-> [m.next EXCEPT ![m.prev[i]] = m.next[i], ![i] = i],
   prev |-> [m.prev EXCEPT ![i] = i]]

dll_detach(m, i) ==
  [next |-> [m.next EXCEPT ![m.prev[i]] = m.next[i], ![i] = i],
   prev |-> [m.prev EXCEPT ![m.next[i]] = m.prev[i], ![i] = i]]

\* The items from the head l to last leave the list, as a list of their own.
dll_detach_until(m, l, last) ==
  LET new_head == m.next[last] IN
  IF new_head = l THEN m
  ELSE [next |-> [m.next EXCEPT ![m.prev[l]] = new_head, ![last] = l],
        prev |-> [m.prev EXCEPT ![new_head] = m.prev[l], ![l] = last]]

detach_until_head(m, l, last) == IF m.next[last] = l THEN NULL ELSE m.next[last]

\* All of the list insert goes before the head l; the list is then insert.
dll_insert_list_at_head(m, insert, l) ==
  IF l = NULL THEN m
  ELSE [next |-> [m.next EXCEPT ![m.prev[insert]] = l, ![m.prev[l]] = insert],
        prev |-> [m.prev EXCEPT ![l] = m.prev[insert], ![insert] = m.prev[l]]]

\* The items of the list l, from its head, following next.
Ring(m, l) ==
  LET item[n \in Nat] == IF n = 0 THEN l ELSE m.next[item[n - 1]]
      N == Cardinality(Items)
      length == CHOOSE n \in 1 .. N :
                  (item[n] = l \/ n = N) /\ \A k \in 1 .. n - 1 : item[k] # l
  IN IF l = NULL THEN <<>> ELSE [k \in 1 .. length |-> item[k - 1]]
=============================================================================

--------------------------- MODULE MpSafeListProofs ---------------------------
(***************************************************************************)
(* The shared lists, for any number of cores and items: the head pointer   *)
(* is a lock, so one core at a time works on a list, and one that sleeps   *)
(* until it is free is woken; the links make whole rings, in every state;  *)
(* and what a core does to them is one operation of AtomicList.            *)
(***************************************************************************)
EXTENDS MpSafeList, ListLemmas

Pointers == Items \cup {NULL}

\* The functions of doubly_linked_list.h leave links between items.
LEMMA LinksType ==
  ASSUME NEW m \in Memory
  PROVE  /\ \A i \in Items : dll_detach(m, i) \in Memory
         /\ \A i \in Items, l \in Pointers :
              /\ dll_attach(m, i, l) \in Memory
              /\ dll_insert_list_at_head(m, i, l) \in Memory
         /\ \A l, last \in Items :
              /\ dll_detach_until(m, l, last) \in Memory
              /\ detach_until_head(m, l, last) \in Pointers
<1> USE DEF Memory, Pointers
<1>1. ASSUME NEW i \in Items PROVE dll_detach(m, i) \in Memory
  BY DEF dll_detach
<1>2. ASSUME NEW i \in Items, NEW l \in Pointers
      PROVE  dll_attach(m, i, l) \in Memory /\ dll_insert_list_at_head(m, i, l) \in Memory
  BY DEF dll_attach, dll_insert_list_at_head
<1>3. ASSUME NEW l \in Items, NEW last \in Items
      PROVE  dll_detach_until(m, l, last) \in Memory /\ detach_until_head(m, l, last) \in Pointers
  BY DEF dll_detach_until, detach_until_head
<1> QED BY <1>1, <1>2, <1>3

\* A ring of all items links items.
LEMMA RingType ==
  ASSUME NEW order \in SetToSeqs(Items)
  PROVE  dll_ring(order) \in Memory /\ Head(order) \in Items
<1> DEFINE n == Cardinality(Items)
<1>1. n \in Nat \ {0} /\ IsFiniteSet(Items)
  BY ItemsAssumption, FS_CardinalityType, FS_EmptySet
<1>2. order \in [1 .. n -> Items] /\ order \in Injection(1 .. n, Items)
  BY DEF SetToSeqs, Injection, IsInjective
<1>3. Cardinality(1 .. n) = n
  BY <1>1, FS_Interval
<1>4. order \in Surjection(1 .. n, Items)
  BY <1>1, <1>2, <1>3, FS_Injection
<1>5. order \in Seq(Items) /\ Len(order) = n
  BY <1>1, <1>2, IsASeq, LenProperties
<1>6. Head(order) \in Items
  BY <1>1, <1>5, HeadTailProperties, EmptySeq
<1>7. ASSUME NEW i \in Items
      PROVE  LET k == CHOOSE k \in 1 .. Len(order) : order[k] = i
             IN  order[(k % n) + 1] \in Items /\ order[((k + n - 2) % n) + 1] \in Items
  <2> DEFINE k == CHOOSE k \in 1 .. Len(order) : order[k] = i
  <2>1. k \in 1 .. n
    BY <1>4, <1>5 DEF Surjection
  <2> HIDE DEF k
  <2>2. k % n \in 0 .. n - 1 /\ (k + n - 2) % n \in 0 .. n - 1
    BY <1>1, <2>1
  <2>3. (k % n) + 1 \in 1 .. n /\ ((k + n - 2) % n) + 1 \in 1 .. n
    BY <1>1, <2>2
  <2>4. order[(k % n) + 1] \in Items /\ order[((k + n - 2) % n) + 1] \in Items
    BY <2>3, <1>2
  <2> QED BY <2>4 DEF k
<1>8. dll_ring(order) \in Memory
  BY <1>5, <1>7 DEF dll_ring, Memory
<1> QED BY <1>6, <1>8

-----------------------------------------------------------------------------
\* The pointer is 1 exactly while a core works on the list.
LockIsHeld == head = LOCKED => \E c \in Cores : Works(c)

\* A core that goes on from a pointer it has read goes on from a pointer.
CopiesArePointers ==
  \A c \in Cores : pc[c] \in {"cas", "update", "release"} => head_item[c] \in Pointers

\* A core in an insertion has something to insert until it has done so, and an
\* insertion that locks the list for one item knows that it is not empty.
InsertersHold ==
  \A c \in Cores : (op[c] \in OneItemInserts \cup Inserts
                    /\ pc[c] \in {"read", "wfe", "cas", "update"}) =>
    /\ hold[c] # NULL
    /\ pc[c] = "update" /\ op[c] \in OneItemInserts => head_item[c] # NULL

\* The inductive invariant.
IInv ==
  TypeOK /\ OneCoreWorks /\ WillBeWoken /\ LockIsHeld /\ CopiesArePointers /\ InsertersHold

\* A pool as setup_pools leaves it satisfies IInv.
LEMMA InitIInv == Init => IInv
<1> SUFFICES ASSUME Init PROVE IInv
  OBVIOUS
<1>1. PICK order \in SetToSeqs(Items) :
        next = dll_ring(order).next /\ prev = dll_ring(order).prev /\ head = Head(order)
  BY DEF Init
<1>2. next \in [Items -> Items] /\ prev \in [Items -> Items] /\ head \in Items
  BY <1>1, RingType DEF Memory
<1>3. TypeOK
  BY <1>2 DEF Init, TypeOK, Places
<1>4. head # LOCKED
  BY <1>2, LOCKEDAssumption
<1> QED
  BY <1>3, <1>4 DEF Init, IInv, OneCoreWorks, WillBeWoken, LockIsHeld,
                    CopiesArePointers, InsertersHold, Works

\* The links, the pointer and what is held after the work on the list.
LEMMA UpdateType ==
  ASSUME IInv, NEW c \in Cores, Update(c)
  PROVE  /\ next' \in [Items -> Items] /\ prev' \in [Items -> Items]
         /\ \E l \in Pointers, h \in Pointers :
              /\ head_item' = [head_item EXCEPT ![c] = l]
              /\ hold' = [hold EXCEPT ![c] = h]
<1> USE DEF Pointers
<1>1. Memory_ \in Memory
  BY DEF IInv, TypeOK, Memory_, Memory
<1>2. head_item[c] \in Pointers /\ hold[c] \in Pointers
  BY DEF IInv, TypeOK, CopiesArePointers, Update
<1>3. ASSUME NEW m \in Memory, NEW l \in Pointers, NEW h \in Pointers, Leaves(c, m, l, h)
      PROVE  /\ next' \in [Items -> Items] /\ prev' \in [Items -> Items]
             /\ \E ll \in Pointers, hh \in Pointers :
                  /\ head_item' = [head_item EXCEPT ![c] = ll]
                  /\ hold' = [hold EXCEPT ![c] = hh]
  BY <1>3 DEF Leaves, Memory
<1>4. op[c] \in OneItemInserts \cup Inserts => hold[c] \in Items
  BY <1>2 DEF IInv, InsertersHold, Update
<1>5. op[c] \in OneItemInserts => head_item[c] \in Items
  BY <1>2 DEF IInv, InsertersHold, Update
<1>6. \A i \in Items : next[i] \in Items
  BY DEF IInv, TypeOK
<1>7. ASSUME FindsNothing(c)
      PROVE  \E m \in Memory, l, h \in Pointers : Leaves(c, m, l, h)
  BY <1>1, <1>2, <1>7 DEF FindsNothing
<1>8. ASSUME NEW i \in Items, Detach(c, i)
      PROVE  \E m \in Memory, l, h \in Pointers : Leaves(c, m, l, h)
  BY <1>1, <1>2, <1>6, <1>8, LinksType DEF Detach
<1>9. ASSUME insert_at_head(c) \/ insert_after_head(c)
      PROVE  \E m \in Memory, l, h \in Pointers : Leaves(c, m, l, h)
  <2>1. op[c] \in OneItemInserts
    BY <1>9 DEF insert_at_head, insert_after_head, OneItemInserts
  <2> QED
    BY <1>1, <1>4, <1>5, <1>6, <1>9, <2>1, LinksType DEF insert_at_head, insert_after_head
<1>10. ASSUME insert_tail(c) \/ add_woken(c)
       PROVE  \E m \in Memory, l, h \in Pointers : Leaves(c, m, l, h)
  <2>1. op[c] \in Inserts
    BY <1>10 DEF insert_tail, add_woken, Inserts
  <2>2. /\ hold[c] \in Items
        /\ dll_attach(Memory_, hold[c], head_item[c]) \in Memory
        /\ dll_insert_list_at_head(Memory_, hold[c], head_item[c]) \in Memory
    BY <1>1, <1>2, <1>4, <2>1, LinksType
  <2>3. dll_attach(Memory_, hold[c], head_item[c]).next[hold[c]] \in Items
    BY <2>2 DEF Memory
  <2> QED
    BY <1>2, <1>10, <2>2, <2>3 DEF insert_tail, add_woken
<1>11. ASSUME detach_head(c) \/ for_core(c)
       PROVE  \E m \in Memory, l, h \in Pointers : Leaves(c, m, l, h)
  <2>1. FindsNothing(c) \/ \E i \in Items : Detach(c, i)
    BY <1>2, <1>11 DEF detach_head, for_core
  <2> QED BY <2>1, <1>7, <1>8
<1>12. ASSUME wakey_wakey(c)
       PROVE  \E m \in Memory, l, h \in Pointers : Leaves(c, m, l, h)
  <2>1. CASE FindsNothing(c)
    BY <2>1, <1>7
  <2>2. CASE ~FindsNothing(c)
    <3>1. PICK end \in Items :
            /\ end \in ToSet(Ring(Memory_, head_item[c]))
            /\ Leaves(c, dll_detach_until(Memory_, head_item[c], end),
                      detach_until_head(Memory_, head_item[c], end), head_item[c])
      BY <1>12, <2>2 DEF wakey_wakey
    <3>2. Ring(Memory_, NULL) = <<>>
      BY Zenon DEF Ring
    <3>3. ToSet(<<>>) = {}
      BY DEF ToSet
    <3>4. head_item[c] \in Items
      BY <3>1, <3>2, <3>3, <1>2
    <3> QED BY <3>1, <3>4, <1>1, LinksType
  <2> QED BY <2>1, <2>2
<1>13. \E m \in Memory, l, h \in Pointers : Leaves(c, m, l, h)
  BY <1>9, <1>10, <1>11, <1>12 DEF Update
<1> QED BY <1>3, <1>13

-----------------------------------------------------------------------------
\* Every step of a function of mpsafe_dll.h keeps IInv.
LEMMA NextIInv == IInv /\ [Next]_vars => IInv'
<1> SUFFICES ASSUME IInv, [Next]_vars PROVE IInv'
  OBVIOUS
<1> USE DEF IInv, TypeOK, Places, OneCoreWorks, WillBeWoken, LockIsHeld,
            CopiesArePointers, InsertersHold, Works, Pointers
<1> USE LOCKEDAssumption, NULLAssumption
<1>1. ASSUME NEW c \in Cores, Call(c) PROVE IInv'
  <2>1. PICK f \in OneItemInserts \cup Inserts \cup Takes :
          /\ op' = [op EXCEPT ![c] = f]
          /\ f \in OneItemInserts \cup Inserts => hold[c] # NULL
    BY <1>1 DEF Call, OneItemInserts, Inserts, Takes
  <2>2. /\ pc[c] = "outside" /\ pc' = [pc EXCEPT ![c] = "read"]
        /\ UNCHANGED <<next, prev, head, head_item, hold, event>>
    BY <1>1 DEF Call, Goto
  <2> QED BY <2>1, <2>2
<1>2. ASSUME NEW c \in Cores, Read(c) PROVE IInv'
  <2>1. CASE head = LOCKED
    BY <1>2, <2>1 DEF Read, Goto
  <2>2. CASE head # LOCKED
    BY <1>2, <2>2 DEF Read, Goto
  <2> QED BY <2>1, <2>2
<1>3. ASSUME NEW c \in Cores, wait_for_event(c) PROVE IInv'
  BY <1>3 DEF wait_for_event, Goto
<1>4. ASSUME NEW c \in Cores, InsertIntoEmpty(c) PROVE IInv'
  BY <1>4 DEF InsertIntoEmpty, InsertsIntoEmpty, Goto
<1>5. ASSUME NEW c \in Cores, Lock(c) PROVE IInv'
  BY <1>5 DEF Lock, InsertsIntoEmpty, Goto
<1>6. ASSUME NEW c \in Cores, CasFails(c) PROVE IInv'
  BY <1>6 DEF CasFails, Goto
<1>7. ASSUME NEW c \in Cores, Update(c) PROVE IInv'
  <2>1. /\ next' \in [Items -> Items] /\ prev' \in [Items -> Items]
        /\ \E l \in Pointers, h \in Pointers :
             /\ head_item' = [head_item EXCEPT ![c] = l]
             /\ hold' = [hold EXCEPT ![c] = h]
    BY <1>7, UpdateType
  <2>2. /\ pc[c] = "update" /\ pc' = [pc EXCEPT ![c] = "release"]
        /\ UNCHANGED <<head, op, event>>
    BY <1>7 DEF Update, Goto
  <2> QED BY <2>1, <2>2
<1>8. ASSUME NEW c \in Cores, Release(c) PROVE IInv'
  BY <1>8 DEF Release, Goto
<1>9. ASSUME NEW c \in Cores, signal_event(c) PROVE IInv'
  BY <1>9 DEF signal_event, Goto
<1>10. ASSUME UNCHANGED vars PROVE IInv'
  BY <1>10 DEF vars
<1> QED
  BY <1>1, <1>2, <1>3, <1>4, <1>5, <1>6, <1>7, <1>8, <1>9, <1>10 DEF Next, Step

-----------------------------------------------------------------------------
\* The inductive invariant of every behaviour of the list's functions.
THEOREM Invariant == Spec => []IInv
<1> QED BY InitIInv, NextIInv, PTL DEF Spec

\* The links are links between items, and the word that is list head and lock
\* is a pointer or 1, whatever the cores do (mpsafe_dll.h).
THEOREM TypeCorrect == Spec => []TypeOK
<1>1. IInv => TypeOK
  BY DEF IInv
<1> QED BY <1>1, Invariant, PTL

\* The word is a lock: two cores are never at work on one list, for any number
\* of cores (change_word_if_equal in mpsafe_manipulate and the insertions).
THEOREM OneCoreAtATime == Spec => []OneCoreWorks
<1>1. IInv => OneCoreWorks
  BY DEF IInv
<1> QED BY <1>1, Invariant, PTL

\* No wake-up is lost: a core that sleeps in wfe has an event pending, or a
\* core that will signal one is at work on the list.
THEOREM NoWakeUpIsLost == Spec => []WillBeWoken
<1>1. IInv => WillBeWoken
  BY DEF IInv
<1> QED BY <1>1, Invariant, PTL

-----------------------------------------------------------------------------
\* The links of the shared lists: they make whole rings, in every state, and what
\* a core does to them is one operation of AtomicList.

\* j is next after i, in both directions; and the items of s follow each
\* other, in a row, or in a ring that a pointer l to its first stands for.
Linked(m, i, j) == m.next[i] = j /\ m.prev[j] = i
Path(m, s) ==
  /\ s \in Seq(Items) /\ s # <<>> /\ IsInjective(s)
  /\ \A k \in 1 .. Len(s) - 1 : Linked(m, s[k], s[k + 1])
IsRing(m, s) == Path(m, s) /\ Linked(m, Last(s), Head(s))
IsList(m, l, s) == IF l = NULL THEN s = <<>> ELSE IsRing(m, s) /\ l = Head(s)

\* Ring follows next from l until it is back there.
Walk(m, l) == CHOOSE item : item = [n \in Nat |-> IF n = 0 THEN l ELSE m.next[item[n - 1]]]
Round(m, l, n) ==
  /\ Walk(m, l)[n] = l \/ n = Cardinality(Items)
  /\ \A k \in 1 .. n - 1 : Walk(m, l)[k] # l
Length(m, l) == CHOOSE n \in 1 .. Cardinality(Items) : Round(m, l, n)

\* What Ring is, with names for its parts.
LEMMA RingUnfolds ==
  ASSUME NEW m, NEW l, l # NULL
  PROVE  Ring(m, l) = [k \in 1 .. Length(m, l) |-> Walk(m, l)[k - 1]]
  BY Zenon DEF Ring, Walk, Round, Length

\* A number has one remainder.
LEMMA OneRemainder ==
  ASSUME NEW n \in Nat \ {0}, NEW a \in Int, NEW b \in Int,
         NEW r \in 0 .. n - 1, NEW t \in 0 .. n - 1, n * a + r = n * b + t
  PROVE  r = t
<1>1. n * (a - b) = t - r
  OBVIOUS
<1>2. CASE a = b
  BY <1>2
<1>3. CASE a > b
  <2>1. n * (a - b) >= n BY <1>3
  <2> QED BY <1>1, <2>1
<1>4. CASE a < b
  <2>1. n * (b - a) >= n BY <1>4
  <2>2. n * (b - a) = r - t BY <1>1
  <2> QED BY <2>1, <2>2
<1> QED BY <1>2, <1>3, <1>4

\* Counting on goes round.
LEMMA NextPlace ==
  ASSUME NEW n \in Nat \ {0}, NEW k \in Nat \ {0}
  PROVE  /\ (k - 1) % n \in 0 .. n - 1
         /\ k % n = IF (k - 1) % n = n - 1 THEN 0 ELSE ((k - 1) % n) + 1
         /\ 0 % n = 0
<1> DEFINE q == (k - 1) \div n
           r == (k - 1) % n
           a == k \div n
           t == k % n
<1>1. k - 1 = n * q + r /\ q \in Int /\ r \in 0 .. n - 1
  <2>1. k - 1 \in Nat OBVIOUS
  <2>2. \A i \in Nat : i = n * (i \div n) + (i % n) /\ i \div n \in Int /\ i % n \in 0 .. n - 1
    OBVIOUS
  <2> QED BY <2>1, <2>2
<1>2. k = n * a + t /\ a \in Int /\ t \in 0 .. n - 1
  OBVIOUS
<1> HIDE DEF q, r, a, t
<1>3. CASE r = n - 1
  <2>1. n * a + t = n * (q + 1) + 0
    BY <1>1, <1>2, <1>3
  <2>2. t = 0
    BY <1>1, <1>2, <2>1, OneRemainder
  <2>3. (k - 1) % n = n - 1 /\ k % n = 0
    BY <1>3, <2>2 DEF r, t
  <2> QED BY <1>1, <2>3
<1>4. CASE r # n - 1
  <2>1. n * a + t = n * q + (r + 1) /\ r + 1 \in 0 .. n - 1
    BY <1>1, <1>2, <1>4
  <2>2. t = r + 1
    BY <1>1, <1>2, <2>1, OneRemainder
  <2> QED BY <1>1, <1>2, <1>4, <2>2 DEF r, t
<1> QED BY <1>3, <1>4

\* Following next along a ring gives its items.
LEMMA WalkOfRing ==
  ASSUME NEW m, NEW s, IsRing(m, s)
  PROVE  LET w == Walk(m, Head(s))
         IN  /\ \A k \in 1 .. Len(s) : w[k - 1] = s[k]
             /\ w[Len(s)] = Head(s)
<1> DEFINE n == Len(s)
           l == Head(s)
           w == Walk(m, l)
           g == [k \in Nat |-> s[(k % n) + 1]]
<1>1. /\ n \in Nat \ {0} /\ l = s[1] /\ Last(s) = s[n]
      /\ m.next[s[n]] = s[1] /\ \A k \in 1 .. n - 1 : m.next[s[k]] = s[k + 1]
  <2>1. s \in Seq(Items) /\ s # <<>>
    BY DEF IsRing, Path
  <2>2. n \in Nat \ {0} /\ l = s[1] /\ Last(s) = s[n]
    BY <2>1 DEF Last
  <2> QED BY <2>2 DEF IsRing, Path, Linked
<1>2. g = [k \in Nat |-> IF k = 0 THEN l ELSE m.next[g[k - 1]]]
  <2> SUFFICES ASSUME NEW k \in Nat
               PROVE  g[k] = IF k = 0 THEN l ELSE m.next[g[k - 1]]
    OBVIOUS
  <2>1. CASE k = 0
    <3>1. k % n = 0 BY <1>1, <2>1, NextPlace
    <3> QED BY <1>1, <2>1, <3>1
  <2>2. CASE k # 0
    <3> DEFINE i == (k - 1) % n
               j == k % n
    <3>1. i \in 0 .. n - 1 /\ j = IF i = n - 1 THEN 0 ELSE i + 1
      BY <1>1, <2>2, NextPlace
    <3>2. g[k] = s[j + 1] /\ g[k - 1] = s[i + 1]
      BY <2>2
    <3> HIDE DEF i, j, g, n, l
    <3>3. m.next[s[i + 1]] = s[j + 1]
      BY <1>1, <3>1
    <3> QED BY <3>2, <3>3, <2>2
  <2> QED BY <2>1, <2>2
<1>3. w = [k \in Nat |-> IF k = 0 THEN l ELSE m.next[w[k - 1]]]
  <2> HIDE DEF l, g
  <2> QED BY <1>2, Zenon DEF Walk
<1>4. /\ w[0] = l
      /\ \A k \in Nat \ {0} : w[k] = m.next[w[k - 1]]
  <2> HIDE DEF w, l
  <2>1. w[0] = l BY <1>3
  <2>2. ASSUME NEW k \in Nat \ {0} PROVE w[k] = m.next[w[k - 1]]
    BY <1>3
  <2> QED BY <2>1, <2>2
<1> HIDE DEF w, g, l, n
<1>5. \A k \in 1 .. n : w[k - 1] = s[k]
  <2> DEFINE T == {k \in 1 .. n : w[k - 1] # s[k]}
  <2> SUFFICES ASSUME T # {} PROVE FALSE
    OBVIOUS
  <2>1. PICK k \in T : \A j \in T : k <= j
    <3>1. T \subseteq Nat BY <1>1
    <3> QED BY <3>1, LeastNumber, Zenon
  <2>2. k \in 1 .. n /\ w[k - 1] # s[k]
    BY <2>1
  <2>3. CASE k = 1
    BY <1>1, <1>4, <2>2, <2>3
  <2>4. CASE k > 1
    <3>1. k - 1 \in 1 .. n /\ k - 1 \notin T
      BY <1>1, <2>1, <2>2, <2>4
    <3>2. w[(k - 1) - 1] = s[k - 1]
      BY <3>1
    <3>3. k - 1 \in Nat \ {0} /\ k - 1 \in 1 .. n - 1 /\ (k - 1) + 1 = k
      BY <1>1, <2>2, <2>4
    <3>4. w[k - 1] = m.next[s[k - 1]]
      BY <1>4, <3>2, <3>3
    <3> QED BY <1>1, <2>2, <3>3, <3>4
  <2> QED BY <1>1, <2>2, <2>3, <2>4
<1>6. w[n] = l
  <2>1. w[n] = m.next[w[n - 1]] /\ w[n - 1] = s[n]
    BY <1>1, <1>4, <1>5
  <2> QED BY <1>1, <2>1
<1> QED BY <1>5, <1>6 DEF w, l, n

\* So Ring, on a pointer to a ring, is its items from there.
LEMMA RingIs ==
  ASSUME NEW m, NEW l, NEW s, IsList(m, l, s), NULL \notin Items
  PROVE  Ring(m, l) = s
<1>1. CASE l = NULL
  BY <1>1, Zenon DEF IsList, Ring
<1>2. CASE l # NULL
  <2> DEFINE n == Len(s)
             N == Cardinality(Items)
             w == Walk(m, l)
             Goes(j) == Round(m, l, j)
             length == Length(m, l)
  <2>1. IsRing(m, s) /\ l = Head(s)
    BY <1>2 DEF IsList
  <2>2. (\A k \in 1 .. n : w[k - 1] = s[k]) /\ w[n] = l
    BY <2>1, WalkOfRing
  <2>3. s \in Seq(Items) /\ n \in Nat \ {0} /\ l = s[1] /\ IsInjective(s) /\ DOMAIN s = 1 .. n
    BY <2>1 DEF IsRing, Path
  <2>4. N \in Nat /\ n <= N
    <3>1. s \in Injection(1 .. n, Items)
      BY <2>3, LenProperties DEF Injection, IsInjective
    <3>2. IsFiniteSet(1 .. n) /\ Cardinality(1 .. n) = n
      BY <2>3, FS_Interval
    <3> QED BY <3>1, <3>2, <2>3, FS_Injection, ItemsAssumption, FS_CardinalityType
  <2>5. \A k \in 1 .. n - 1 : w[k] # l
    <3>1. ASSUME NEW k \in 1 .. n - 1 PROVE w[k] # l
      <4>1. k + 1 \in 1 .. n /\ 1 \in 1 .. n /\ (k + 1) - 1 = k /\ k + 1 # 1
        BY <2>3
      <4>2. w[k] = s[k + 1] /\ s[k + 1] # s[1]
        BY <2>2, <2>3, <4>1 DEF IsInjective
      <4> QED BY <2>3, <4>2
    <3> QED BY <3>1
  <2> HIDE DEF n, N, w
  <2>6. n \in 1 .. N /\ Goes(n)
    BY <2>2, <2>3, <2>4, <2>5 DEF Round, w, N
  <2>7. ASSUME NEW j \in 1 .. N, Goes(j) PROVE j = n
    <3>1. ~(j < n)
      <4> SUFFICES ASSUME j < n PROVE FALSE OBVIOUS
      <4>1. j \in 1 .. n - 1 /\ j # N
        BY <2>3, <2>4
      <4> QED BY <4>1, <2>5, <2>7 DEF Goes, Round, w, N
    <3>2. ~(n < j)
      <4> SUFFICES ASSUME n < j PROVE FALSE OBVIOUS
      <4>1. n \in 1 .. j - 1
        BY <2>3, <2>4
      <4> QED BY <4>1, <2>2, <2>7, <2>3 DEF Goes, Round, w, N
    <3> QED BY <3>1, <3>2, <2>3, <2>4
  <2> HIDE DEF Goes
  <2>8. length = n
    <3>1. length \in 1 .. N /\ Goes(length)
      BY <2>6, Zenon DEF Length, Goes, N
    <3> HIDE DEF length
    <3> QED BY <3>1, <2>7
  <2>9. Ring(m, l) = [k \in 1 .. length |-> w[k - 1]]
    BY <1>2, RingUnfolds, Zenon DEF w
  <2> HIDE DEF length
  <2>10. s = [k \in 1 .. n |-> s[k]]
    BY <2>3
  <2>11. [k \in 1 .. n |-> w[k - 1]] = [k \in 1 .. n |-> s[k]]
    BY <2>2, Zenon
  <2> QED BY <2>8, <2>9, <2>10, <2>11
<1> QED BY <1>1, <1>2

\* What a path is made of.
LEMMA PathEnds ==
  ASSUME NEW m, NEW s, Path(m, s)
  PROVE  /\ s \in Seq(Items) /\ Len(s) \in Nat \ {0} /\ DOMAIN s = 1 .. Len(s)
         /\ Head(s) = s[1] /\ Last(s) = s[Len(s)]
         /\ Head(s) \in ToSet(s) /\ Last(s) \in ToSet(s) /\ ToSet(s) \subseteq Items
         /\ \A k \in 1 .. Len(s) : s[k] \in ToSet(s)
         /\ \A j, k \in 1 .. Len(s) : s[j] = s[k] => j = k
<1>1. s \in Seq(Items) /\ s # <<>> /\ IsInjective(s)
  BY DEF Path
<1>2. Len(s) \in Nat \ {0} /\ DOMAIN s = 1 .. Len(s) /\ Head(s) = s[1] /\ Last(s) = s[Len(s)]
  BY <1>1 DEF Last
<1>3. 1 \in DOMAIN s /\ Len(s) \in DOMAIN s
  BY <1>2
<1>4. \A k \in DOMAIN s : s[k] \in ToSet(s) /\ s[k] \in Items
  BY <1>1, <1>2 DEF ToSet
<1>5. ToSet(s) \subseteq Items
  BY <1>4 DEF ToSet
<1>6. \A j, k \in 1 .. Len(s) : s[j] = s[k] => j = k
  BY <1>1, <1>2 DEF IsInjective
<1> HIDE DEF Path
<1> QED BY <1>1, <1>2, <1>3, <1>4, <1>5, <1>6

\* A path stays as long as its links do.
LEMMA PathKept ==
  ASSUME NEW m, NEW p, NEW s, Path(m, s),
         \A i \in ToSet(s) \ {Last(s)} : p.next[i] = m.next[i],
         \A i \in ToSet(s) \ {Head(s)} : p.prev[i] = m.prev[i]
  PROVE  Path(p, s)
<1> SUFFICES ASSUME NEW k \in 1 .. Len(s) - 1
             PROVE  Linked(p, s[k], s[k + 1])
  BY DEF Path
<1>1. /\ Len(s) \in Nat \ {0} /\ Head(s) = s[1] /\ Last(s) = s[Len(s)]
      /\ \A j \in 1 .. Len(s) : s[j] \in ToSet(s)
      /\ \A i, j \in 1 .. Len(s) : s[i] = s[j] => i = j
  BY PathEnds
<1>2. Linked(m, s[k], s[k + 1])
  BY DEF Path
<1>3. k \in 1 .. Len(s) /\ k + 1 \in 1 .. Len(s) /\ k # Len(s) /\ k + 1 # 1
      /\ 1 \in 1 .. Len(s) /\ Len(s) \in 1 .. Len(s)
  BY <1>1
<1>4. s[k] \in ToSet(s) \ {Last(s)} /\ s[k + 1] \in ToSet(s) \ {Head(s)}
  BY <1>1, <1>3
<1> QED BY <1>2, <1>4 DEF Linked

\* A ring is two paths, each linked to the other.
LEMMA RingOfTwo ==
  ASSUME NEW m, NEW s \in Seq(Items), NEW t \in Seq(Items), s # <<>>, t # <<>>
  PROVE  IsRing(m, s \o t) <=> /\ Path(m, s) /\ Path(m, t)
                               /\ ToSet(s) \cap ToSet(t) = {}
                               /\ Linked(m, Last(s), Head(t))
                               /\ Linked(m, Last(t), Head(s))
<1> DEFINE u == s \o t
           a == Len(s)
           b == Len(t)
<1>1. /\ a \in Nat \ {0} /\ b \in Nat \ {0}
      /\ u \in Seq(Items) /\ Len(u) = a + b /\ u # <<>>
      /\ \A i \in 1 .. a + b : u[i] = IF i <= a THEN s[i] ELSE t[i - a]
  BY ConcatProperties, EmptySeq
<1>2. Head(s) = s[1] /\ Head(t) = t[1] /\ Last(s) = s[a] /\ Last(t) = t[b]
      /\ Head(u) = u[1] /\ Last(u) = u[a + b]
  BY <1>1 DEF Last
<1>3. IsInjective(u) <=> IsInjective(s) /\ IsInjective(t) /\ ToSet(s) \cap ToSet(t) = {}
  BY JoinedOnce
<1> HIDE DEF u, a, b
<1>4. Head(u) = Head(s) /\ Last(u) = Last(t)
  <2>1. 1 \in 1 .. a + b /\ 1 <= a /\ a + b \in 1 .. a + b /\ ~(a + b <= a) /\ (a + b) - a = b
    BY <1>1
  <2> QED BY <1>1, <1>2, <2>1
<1>5. (\A k \in 1 .. Len(u) - 1 : Linked(m, u[k], u[k + 1]))
        <=> /\ \A k \in 1 .. a - 1 : Linked(m, s[k], s[k + 1])
            /\ \A k \in 1 .. b - 1 : Linked(m, t[k], t[k + 1])
            /\ Linked(m, Last(s), Head(t))
  <2>1. ASSUME \A k \in 1 .. Len(u) - 1 : Linked(m, u[k], u[k + 1])
        PROVE  /\ \A k \in 1 .. a - 1 : Linked(m, s[k], s[k + 1])
               /\ \A k \in 1 .. b - 1 : Linked(m, t[k], t[k + 1])
               /\ Linked(m, Last(s), Head(t))
    <3>1. ASSUME NEW k \in 1 .. a - 1 PROVE Linked(m, s[k], s[k + 1])
      <4>1. k \in 1 .. Len(u) - 1 /\ u[k] = s[k] /\ u[k + 1] = s[k + 1]
        BY <1>1
      <4> QED BY <2>1, <4>1
    <3>2. ASSUME NEW k \in 1 .. b - 1 PROVE Linked(m, t[k], t[k + 1])
      <4>1. /\ a + k \in 1 .. Len(u) - 1
            /\ a + k \in 1 .. a + b /\ ~(a + k <= a) /\ (a + k) - a = k
            /\ (a + k) + 1 \in 1 .. a + b /\ ~((a + k) + 1 <= a) /\ ((a + k) + 1) - a = k + 1
        BY <1>1
      <4>2. u[a + k] = t[k] /\ u[(a + k) + 1] = t[k + 1]
        BY <1>1, <4>1
      <4> QED BY <2>1, <4>1, <4>2
    <3>3. Linked(m, Last(s), Head(t))
      <4>1. a \in 1 .. Len(u) - 1 /\ u[a] = s[a] /\ u[a + 1] = t[1]
        BY <1>1
      <4> QED BY <1>2, <2>1, <4>1
    <3> QED BY <3>1, <3>2, <3>3
  <2>2. ASSUME \A k \in 1 .. a - 1 : Linked(m, s[k], s[k + 1]),
               \A k \in 1 .. b - 1 : Linked(m, t[k], t[k + 1]),
               Linked(m, Last(s), Head(t)),
               NEW k \in 1 .. Len(u) - 1
        PROVE  Linked(m, u[k], u[k + 1])
    <3>0. k \in 1 .. a + b /\ k + 1 \in 1 .. a + b
      BY <1>1
    <3>1. CASE k < a
      <4>1. k \in 1 .. a - 1 /\ u[k] = s[k] /\ u[k + 1] = s[k + 1]
        BY <1>1, <3>0, <3>1
      <4> QED BY <2>2, <4>1
    <3>2. CASE k = a
      <4>1. u[k] = s[a] /\ u[k + 1] = t[1]
        BY <1>1, <3>0, <3>2
      <4> QED BY <1>2, <2>2, <4>1
    <3>3. CASE k > a
      <4>1. /\ k - a \in 1 .. b - 1 /\ ~(k <= a) /\ ~(k + 1 <= a)
            /\ (k + 1) - a = (k - a) + 1
        BY <1>1, <3>0, <3>3
      <4>2. u[k] = t[k - a] /\ u[k + 1] = t[(k - a) + 1]
        BY <1>1, <3>0, <4>1
      <4> QED BY <2>2, <4>1, <4>2
    <3> QED BY <1>1, <3>0, <3>1, <3>2, <3>3
  <2> QED BY <2>1, <2>2
<1> QED BY <1>1, <1>3, <1>4, <1>5 DEF IsRing, Path, u, a, b

\* Turned so that another item is first, it is the same ring.
LEMMA RingTurns ==
  ASSUME NEW m, NEW s \in Seq(Items), NEW t \in Seq(Items), IsRing(m, s \o t)
  PROVE  IsRing(m, t \o s)
<1>1. CASE s # <<>> /\ t # <<>>
  BY <1>1, RingOfTwo
<1>2. CASE s = <<>> \/ t = <<>>
  <2>1. s \o t = t \o s
    BY <1>2
  <2> QED BY <2>1
<1> QED BY <1>1, <1>2

-----------------------------------------------------------------------------
\* Insertion and removal exchange what follows two items: x and y are followed
\* by l and i then, and all others by what followed them before.
Exchanged(m, p, x, l, y, i) ==
  /\ x \in Items /\ y \in Items /\ i \in Items /\ l \in Items
  /\ p \in Memory
  /\ Linked(p, x, l) /\ Linked(p, y, i)
  /\ \A j \in Items \ {x, y} : p.next[j] = m.next[j]
  /\ \A j \in Items \ {i, l} : p.prev[j] = m.prev[j]

\* Two rings become one,
LEMMA RingsJoin ==
  ASSUME NEW m, NEW p, NEW h, NEW s, IsRing(m, h), IsRing(m, s),
         ToSet(h) \cap ToSet(s) = {},
         Exchanged(m, p, Last(h), Head(s), Last(s), Head(h))
  PROVE  IsRing(p, h \o s) /\ IsRing(p, s \o h)
<1>1. Path(m, h) /\ Path(m, s)
  BY DEF IsRing
<1>2. /\ h \in Seq(Items) /\ h # <<>> /\ s \in Seq(Items) /\ s # <<>>
  BY <1>1 DEF Path
<1>3. /\ Head(h) \in ToSet(h) /\ Last(h) \in ToSet(h) /\ ToSet(h) \subseteq Items
      /\ Head(s) \in ToSet(s) /\ Last(s) \in ToSet(s) /\ ToSet(s) \subseteq Items
  BY <1>1, PathEnds
<1>4. Path(p, h)
  <2>1. \A i \in ToSet(h) \ {Last(h)} : p.next[i] = m.next[i]
    BY <1>3 DEF Exchanged
  <2>2. \A i \in ToSet(h) \ {Head(h)} : p.prev[i] = m.prev[i]
    BY <1>3 DEF Exchanged
  <2> QED BY <1>1, <2>1, <2>2, PathKept
<1>5. Path(p, s)
  <2>1. \A i \in ToSet(s) \ {Last(s)} : p.next[i] = m.next[i]
    BY <1>3 DEF Exchanged
  <2>2. \A i \in ToSet(s) \ {Head(s)} : p.prev[i] = m.prev[i]
    BY <1>3 DEF Exchanged
  <2> QED BY <1>1, <2>1, <2>2, PathKept
<1>6. IsRing(p, h \o s)
  BY <1>2, <1>4, <1>5, RingOfTwo DEF Exchanged
<1> QED BY <1>2, <1>6, RingTurns

\* or one becomes two,
LEMMA RingSplits ==
  ASSUME NEW m, NEW p, NEW a \in Seq(Items), NEW b \in Seq(Items),
         a # <<>>, b # <<>>, IsRing(m, a \o b),
         Exchanged(m, p, Last(a), Head(a), Last(b), Head(b))
  PROVE  IsRing(p, a) /\ IsRing(p, b)
<1>1. Path(m, a) /\ Path(m, b) /\ ToSet(a) \cap ToSet(b) = {}
  BY RingOfTwo
<1>3. /\ Head(a) \in ToSet(a) /\ Last(a) \in ToSet(a) /\ ToSet(a) \subseteq Items
      /\ Head(b) \in ToSet(b) /\ Last(b) \in ToSet(b) /\ ToSet(b) \subseteq Items
  BY <1>1, PathEnds
<1>4. Path(p, a)
  <2>1. \A i \in ToSet(a) \ {Last(a)} : p.next[i] = m.next[i]
    BY <1>1, <1>3 DEF Exchanged
  <2>2. \A i \in ToSet(a) \ {Head(a)} : p.prev[i] = m.prev[i]
    BY <1>1, <1>3 DEF Exchanged
  <2> QED BY <1>1, <2>1, <2>2, PathKept
<1>5. Path(p, b)
  <2>1. \A i \in ToSet(b) \ {Last(b)} : p.next[i] = m.next[i]
    BY <1>1, <1>3 DEF Exchanged
  <2>2. \A i \in ToSet(b) \ {Head(b)} : p.prev[i] = m.prev[i]
    BY <1>1, <1>3 DEF Exchanged
  <2> QED BY <1>1, <2>1, <2>2, PathKept
<1> QED BY <1>4, <1>5 DEF IsRing, Exchanged

\* and the other rings do not change.
LEMMA OtherRings ==
  ASSUME NEW m, NEW p, NEW x, NEW l, NEW y, NEW i, Exchanged(m, p, x, l, y, i),
         NEW r, IsRing(m, r), x \notin ToSet(r), l \notin ToSet(r),
         y \notin ToSet(r), i \notin ToSet(r)
  PROVE  IsRing(p, r)
<1>1. Path(m, r) /\ Linked(m, Last(r), Head(r))
  BY DEF IsRing
<1>2. Head(r) \in ToSet(r) /\ Last(r) \in ToSet(r) /\ ToSet(r) \subseteq Items
  BY <1>1, PathEnds
<1>3. \A j \in ToSet(r) : p.next[j] = m.next[j] /\ p.prev[j] = m.prev[j]
  BY <1>2 DEF Exchanged
<1>4. Path(p, r)
  BY <1>1, <1>3, PathKept
<1> QED BY <1>1, <1>2, <1>3, <1>4 DEF IsRing, Linked

\* The rings that have none of the items of S stay.
Keeps(m, p, S) == \A r : (IsRing(m, r) /\ ToSet(r) \cap S = {}) => IsRing(p, r)

\* A ring of one, and its links.
LEMMA Single ==
  ASSUME NEW m, NEW i \in Items
  PROVE  IsRing(m, <<i>>) <=> m.next[i] = i /\ m.prev[i] = i
<1>1. /\ <<i>> \in Seq(Items) /\ <<i>> # <<>> /\ IsInjective(<<i>>)
      /\ Head(<<i>>) = i /\ Last(<<i>>) = i /\ Len(<<i>>) = 1
  BY ShortLists DEF Last
<1>2. \A k \in 1 .. Len(<<i>>) - 1 : FALSE
  BY <1>1
<1> HIDE DEF Last
<1>3. Path(m, <<i>>)
  BY <1>1, <1>2 DEF Path
<1> QED BY <1>1, <1>3 DEF IsRing, Linked

\* What a ring is made of.
LEMMA RingParts ==
  ASSUME NEW m, NEW s, IsRing(m, s)
  PROVE  /\ s \in Seq(Items) /\ s # <<>> /\ IsInjective(s) /\ ToSet(s) \subseteq Items
         /\ Head(s) \in ToSet(s) /\ Last(s) \in ToSet(s)
         /\ m.next[Last(s)] = Head(s) /\ m.prev[Head(s)] = Last(s)
         /\ (m.next[Head(s)] = Head(s)) <=> (s = <<Head(s)>>)
<1>1. Path(m, s)
  BY DEF IsRing
<1>2. /\ s \in Seq(Items) /\ Len(s) \in Nat \ {0} /\ Head(s) = s[1] /\ Last(s) = s[Len(s)]
      /\ Head(s) \in ToSet(s) /\ Last(s) \in ToSet(s) /\ ToSet(s) \subseteq Items
      /\ \A j, k \in 1 .. Len(s) : s[j] = s[k] => j = k
  BY <1>1, PathEnds
<1>3. m.next[Last(s)] = Head(s) /\ m.prev[Head(s)] = Last(s)
  BY DEF IsRing, Linked
<1>4. ASSUME m.next[Head(s)] = Head(s) PROVE s = <<Head(s)>>
  <2>1. Len(s) = 1
    <3> SUFFICES ASSUME Len(s) # 1 PROVE FALSE
      OBVIOUS
    <3>1. 1 \in 1 .. Len(s) - 1 /\ 1 \in 1 .. Len(s) /\ 2 \in 1 .. Len(s) /\ 1 + 1 = 2
      <4> DEFINE n == Len(s)
      <4>1. n \in Nat \ {0} /\ n # 1
        BY <1>2
      <4> HIDE DEF n
      <4>2. 1 \in 1 .. n - 1 /\ 1 \in 1 .. n /\ 2 \in 1 .. n
        BY <4>1
      <4> QED BY <4>2 DEF n
    <3>2. m.next[s[1]] = s[2]
      BY <1>1, <3>1 DEF Path, Linked
    <3>3. s[1] = s[2]
      BY <1>2, <1>4, <3>2
    <3>4. 1 = 2
      BY <1>2, <3>1, <3>3
    <3> QED BY <3>4
  <2> QED BY <1>2, <2>1
<1>5. ASSUME s = <<Head(s)>> PROVE m.next[Head(s)] = Head(s)
  <2> DEFINE i == Head(s)
  <2>1. IsRing(m, <<i>>) /\ i \in Items
    BY <1>2, <1>5
  <2> HIDE DEF i
  <2>2. m.next[i] = i
    BY <2>1, Single
  <2> QED BY <2>2 DEF i
<1> QED BY <1>1, <1>2, <1>3, <1>4, <1>5 DEF Path

\* dll_insert_list_at_head joins two rings.
LEMMA InsertsList ==
  ASSUME NEW m \in Memory, NEW h, NEW s, IsRing(m, h), IsRing(m, s),
         ToSet(h) \cap ToSet(s) = {}
  PROVE  LET p == dll_insert_list_at_head(m, Head(h), Head(s))
         IN  /\ p \in Memory
             /\ IsRing(p, h \o s) /\ IsRing(p, s \o h)
             /\ Keeps(m, p, ToSet(h) \cup ToSet(s))
<1> DEFINE p == dll_insert_list_at_head(m, Head(h), Head(s))
           x == Last(h)
           l == Head(s)
           y == Last(s)
           i == Head(h)
<1>1. /\ i \in ToSet(h) /\ x \in ToSet(h) /\ m.next[x] = i /\ m.prev[i] = x
      /\ l \in ToSet(s) /\ y \in ToSet(s) /\ m.next[y] = l /\ m.prev[l] = y
      /\ ToSet(h) \subseteq Items /\ ToSet(s) \subseteq Items
  BY RingParts
<1>2. x # y /\ l # i /\ {x, l, y, i} \subseteq Items
  BY <1>1
<1>3. p = [next |-> [m.next EXCEPT ![x] = l, ![y] = i],
           prev |-> [m.prev EXCEPT ![l] = x, ![i] = y]]
  <2> HIDE DEF x, l, y, i
  <2>1. p = dll_insert_list_at_head(m, i, l)
    BY DEF i, l
  <2>2. l # NULL
    BY <1>2, NULLAssumption
  <2> HIDE DEF p
  <2> QED BY <1>1, <2>1, <2>2 DEF dll_insert_list_at_head
<1> HIDE DEF p
<1>4. Exchanged(m, p, x, l, y, i)
  <2> HIDE DEF x, l, y, i
  <2> QED BY <1>2, <1>3 DEF Exchanged, Linked, Memory
<1>5. IsRing(p, h \o s) /\ IsRing(p, s \o h)
  BY <1>4, RingsJoin
<1>6. Keeps(m, p, ToSet(h) \cup ToSet(s))
  <2> HIDE DEF x, l, y, i
  <2> SUFFICES ASSUME NEW r, IsRing(m, r), ToSet(r) \cap (ToSet(h) \cup ToSet(s)) = {}
               PROVE  IsRing(p, r)
    BY DEF Keeps
  <2>1. x \notin ToSet(r) /\ l \notin ToSet(r) /\ y \notin ToSet(r) /\ i \notin ToSet(r)
    BY <1>1
  <2> QED BY <1>4, <2>1, OtherRings
<1> QED BY <1>4, <1>5, <1>6 DEF Exchanged, p

\* dll_attach, of one item, does the same.
LEMMA Attaches ==
  ASSUME NEW m \in Memory, NEW i \in Items, NEW s, IsRing(m, <<i>>), IsRing(m, s),
         i \notin ToSet(s)
  PROVE  LET p == dll_attach(m, i, Head(s))
         IN  /\ p \in Memory
             /\ IsRing(p, <<i>> \o s) /\ IsRing(p, s \o <<i>>)
             /\ Keeps(m, p, {i} \cup ToSet(s))
<1> DEFINE l == Head(s)
           y == Last(s)
           h == <<i>>
<1>1. m.next[i] = i /\ m.prev[i] = i
  BY Single
<1>2. l \in ToSet(s) /\ y \in ToSet(s) /\ m.prev[l] = y /\ ToSet(s) \subseteq Items
  BY RingParts
<1>3. l # NULL /\ l # i /\ y # i /\ l \in Items /\ y \in Items
  BY <1>2, NULLAssumption
<1> HIDE DEF l, y
<1>4. dll_attach(m, i, l) = dll_insert_list_at_head(m, i, l)
  <2>1. [m.next EXCEPT ![i] = l, ![m.prev[l]] = i]
          = [m.next EXCEPT ![m.prev[i]] = l, ![m.prev[l]] = i]
    BY <1>1
  <2>2. [m.prev EXCEPT ![i] = m.prev[l], ![l] = i]
          = [m.prev EXCEPT ![l] = m.prev[i], ![i] = m.prev[l]]
    BY <1>1, <1>3 DEF Memory
  <2> QED BY <1>3, <2>1, <2>2 DEF dll_attach, dll_insert_list_at_head
<1>5. Head(h) = i /\ ToSet(h) = {i} /\ ToSet(h) \cap ToSet(s) = {}
  BY ShortLists
<1>6. IsRing(m, h)
  OBVIOUS
<1> HIDE DEF h
<1>7. LET p == dll_insert_list_at_head(m, Head(h), Head(s))
      IN  /\ p \in Memory
          /\ IsRing(p, h \o s) /\ IsRing(p, s \o h)
          /\ Keeps(m, p, ToSet(h) \cup ToSet(s))
  BY <1>5, <1>6, InsertsList
<1> QED BY <1>4, <1>5, <1>7 DEF l, h

\* dll_detach_until splits a ring behind its first part.
LEMMA DetachesUntil ==
  ASSUME NEW m \in Memory, NEW a \in Seq(Items), NEW b \in Seq(Items),
         a # <<>>, IsRing(m, a \o b)
  PROVE  LET p == dll_detach_until(m, Head(a), Last(a))
         IN  /\ p \in Memory
             /\ IsRing(p, a)
             /\ IsList(p, detach_until_head(m, Head(a), Last(a)), b)
             /\ Keeps(m, p, ToSet(a) \cup ToSet(b))
<1> DEFINE p == dll_detach_until(m, Head(a), Last(a))
           last == Last(a)
           l == Head(a)
           y == Last(b)
           i == Head(b)
<1>1. CASE b = <<>>
  <2>1. IsRing(m, a)
    BY <1>1
  <2>2. m.next[last] = l
    BY <2>1, RingParts
  <2>3. p = m /\ detach_until_head(m, l, last) = NULL
    BY <2>2 DEF dll_detach_until, detach_until_head
  <2> QED BY <1>1, <2>1, <2>3 DEF IsList, Keeps
<1>2. CASE b # <<>>
  <2>1. /\ Path(m, a) /\ Path(m, b) /\ ToSet(a) \cap ToSet(b) = {}
        /\ m.next[last] = i /\ m.prev[i] = last /\ m.next[y] = l /\ m.prev[l] = y
    BY <1>2, RingOfTwo DEF Linked
  <2>2. /\ l \in ToSet(a) /\ last \in ToSet(a) /\ ToSet(a) \subseteq Items
        /\ i \in ToSet(b) /\ y \in ToSet(b) /\ ToSet(b) \subseteq Items
    BY <2>1, PathEnds
  <2>3. last # y /\ l # i /\ {last, l, y, i} \subseteq Items
    BY <2>1, <2>2
  <2>4. p = [next |-> [m.next EXCEPT ![y] = i, ![last] = l],
             prev |-> [m.prev EXCEPT ![i] = y, ![l] = last]]
    <3> HIDE DEF last, l, y, i
    <3>1. p = dll_detach_until(m, l, last)
      BY DEF last, l
    <3> HIDE DEF p
    <3> QED BY <2>1, <2>3, <3>1 DEF dll_detach_until
  <2>5. detach_until_head(m, l, last) = i
    BY <2>1, <2>3 DEF detach_until_head
  <2> HIDE DEF p
  <2>6. Exchanged(m, p, last, l, y, i)
    <3> HIDE DEF last, l, y, i
    <3> QED BY <2>3, <2>4 DEF Exchanged, Linked, Memory
  <2>7. IsRing(p, a) /\ IsRing(p, b)
    BY <1>2, <2>6, RingSplits
  <2>8. Keeps(m, p, ToSet(a) \cup ToSet(b))
    <3> HIDE DEF last, l, y, i
    <3> SUFFICES ASSUME NEW r, IsRing(m, r), ToSet(r) \cap (ToSet(a) \cup ToSet(b)) = {}
                 PROVE  IsRing(p, r)
      BY DEF Keeps
    <3>1. last \notin ToSet(r) /\ l \notin ToSet(r) /\ y \notin ToSet(r) /\ i \notin ToSet(r)
      BY <2>2
    <3> QED BY <2>6, <3>1, OtherRings
  <2>9. i # NULL
    BY <2>3, NULLAssumption
  <2> QED BY <2>5, <2>6, <2>7, <2>8, <2>9 DEF IsList, Exchanged, p
<1> QED BY <1>1, <1>2

\* dll_detach takes an item out of its ring.
LEMMA Detaches ==
  ASSUME NEW m \in Memory, NEW a \in Seq(Items), NEW b \in Seq(Items), NEW i \in Items,
         IsRing(m, (a \o <<i>>) \o b)
  PROVE  LET p == dll_detach(m, i)
         IN  /\ p \in Memory
             /\ IsRing(p, <<i>>)
             /\ (m.next[i] = i) <=> (a \o b = <<>>)
             /\ a \o b # <<>> => IsRing(p, a \o b)
             /\ b # <<>> => m.next[i] = Head(b)
             /\ b = <<>> /\ a # <<>> => m.next[i] = Head(a)
             /\ Keeps(m, p, (ToSet(a) \cup {i}) \cup ToSet(b))
<1> DEFINE p == dll_detach(m, i)
           h == <<i>>
           r == b \o a
<1>1. h \in Seq(Items) /\ h # <<>> /\ Head(h) = i /\ Last(h) = i /\ ToSet(h) = {i}
  BY ShortLists DEF Last
<1> HIDE DEF h
<1>2. r \in Seq(Items) /\ ToSet(r) = ToSet(a) \cup ToSet(b)
  BY JoinedOnce, ConcatProperties
<1>3. IsRing(m, h \o r)
  <2>1. (a \o h) \o b = a \o (h \o b) /\ h \o b \in Seq(Items) /\ (h \o b) \o a = h \o r
    <3>0. a \in Seq(Items) /\ b \in Seq(Items) /\ h \in Seq(Items)
      BY <1>1
    <3>1. (a \o h) \o b = a \o (h \o b)
      BY ONLY <3>0, ConcatAssociative
    <3>2. (h \o b) \o a = h \o (b \o a)
      BY ONLY SMTT(20), <3>0, ConcatAssociative
    <3> QED BY <1>1, <3>1, <3>2, ConcatProperties
  <2>2. IsRing(m, a \o (h \o b))
    BY <2>1 DEF h
  <2> QED BY <2>1, <2>2, RingTurns
<1>4. /\ m.prev[m.next[i]] = i /\ m.next[i] \in Items /\ m.prev[i] \in Items
      /\ (m.next[i] = i) <=> (r = <<>>)
      /\ r # <<>> => m.next[i] = Head(r) /\ m.prev[i] # i
  <2>1. CASE r = <<>>
    <3>1. IsRing(m, h)
      BY <1>1, <1>3, <2>1
    <3>2. m.next[i] = i /\ m.prev[i] = i
      BY <3>1, Single DEF h
    <3> HIDE DEF r
    <3> QED BY <2>1, <3>2
  <2>2. CASE r # <<>>
    <3> HIDE DEF r
    <3>1. Path(m, r) /\ ToSet(h) \cap ToSet(r) = {} /\ Linked(m, i, Head(r)) /\ Linked(m, Last(r), i)
      <4>1. h \in Seq(Items) /\ h # <<>> /\ r \in Seq(Items)
        BY <1>1, <1>2
      <4>2. /\ Path(m, r) /\ ToSet(h) \cap ToSet(r) = {}
            /\ Linked(m, Last(h), Head(r)) /\ Linked(m, Last(r), Head(h))
        BY <4>1, <1>3, <2>2, RingOfTwo
      <4> QED BY <4>2, <1>1
    <3>2. Head(r) \in ToSet(r) /\ Last(r) \in ToSet(r)
      BY <3>1, PathEnds
    <3> QED BY <1>1, <2>2, <3>1, <3>2 DEF Memory, Linked
  <2> QED BY <2>1, <2>2
<1>5. p = dll_detach_until(m, i, i)
  <2>1. CASE m.next[i] = i
    <3>1. m.prev[i] = i
      BY <1>4, <2>1
    <3>2. p = [next |-> [m.next EXCEPT ![i] = i, ![i] = i],
               prev |-> [m.prev EXCEPT ![i] = i, ![i] = i]]
      BY <2>1, <3>1 DEF dll_detach
    <3>3. [m.next EXCEPT ![i] = i, ![i] = i] = m.next /\ [m.prev EXCEPT ![i] = i, ![i] = i] = m.prev
      BY <2>1, <3>1 DEF Memory
    <3>4. p = m
      BY <3>2, <3>3 DEF Memory
    <3> QED BY <2>1, <3>4 DEF dll_detach_until
  <2>2. CASE m.next[i] # i
    BY <2>2 DEF dll_detach, dll_detach_until
  <2> QED BY <2>1, <2>2
<1> HIDE DEF p
<1>6. /\ p \in Memory /\ IsRing(p, h)
      /\ IsList(p, detach_until_head(m, i, i), r)
      /\ Keeps(m, p, ToSet(h) \cup ToSet(r))
  BY <1>1, <1>2, <1>3, <1>5, DetachesUntil
<1>7. r = <<>> <=> a \o b = <<>>
  BY <1>2, ConcatProperties, EmptySeq
<1>8. r # <<>> => IsRing(p, a \o b)
  <2> SUFFICES ASSUME r # <<>> PROVE IsRing(p, a \o b)
    OBVIOUS
  <2>1. detach_until_head(m, i, i) # NULL
    BY <1>4, NULLAssumption DEF detach_until_head
  <2>2. IsRing(p, b \o a)
    BY <1>6, <2>1 DEF IsList
  <2> QED BY <2>2, RingTurns
<1>9. /\ b # <<>> => r # <<>> /\ Head(r) = Head(b)
      /\ b = <<>> => r = a
  BY HeadOfJoined
<1>10. ToSet(h) \cup ToSet(r) = (ToSet(a) \cup {i}) \cup ToSet(b)
  BY <1>1, <1>2
<1> HIDE DEF r
<1>11. /\ b # <<>> => m.next[i] = Head(b)
       /\ b = <<>> /\ a # <<>> => m.next[i] = Head(a)
  BY <1>4, <1>9
<1>12. (m.next[i] = i) <=> (a \o b = <<>>)
  BY <1>4, <1>7
<1>13. a \o b # <<>> => IsRing(p, a \o b)
  BY <1>7, <1>8
<1>14. IsRing(p, <<i>>)
  BY <1>6 DEF h
<1>15. Keeps(m, p, (ToSet(a) \cup {i}) \cup ToSet(b))
  BY <1>6, <1>10
<1> QED BY <1>6, <1>11, <1>12, <1>13, <1>14, <1>15 DEF p

-----------------------------------------------------------------------------
\* A list list, and the items held that core c holds, before the operation; p are
\* the links, l the list and h what c holds afterwards, which are the
\* sequences new and has.  No other ring has changed.
Result(m, list, held, p, l, h, new, has) ==
  /\ p \in Memory
  /\ new \in Seq(Items) /\ has \in Seq(Items)
  /\ IsList(p, l, new) /\ IsList(p, h, has)
  /\ ToSet(new) \cup ToSet(has) = ToSet(list) \cup ToSet(held)
  /\ ToSet(new) \cap ToSet(has) = {}
  /\ Keeps(m, p, ToSet(list) \cup ToSet(held))

\* A list, of a pointer.
LEMMA ListType ==
  ASSUME NEW m, NEW l, NEW s, IsList(m, l, s)
  PROVE  /\ s \in Seq(Items) /\ ToSet(s) \subseteq Items
         /\ IsInjective(s)
         /\ l = NULL <=> s = <<>>
         /\ l # NULL => IsRing(m, s) /\ l = Head(s) /\ l \in ToSet(s) /\ l \in Items
<1>1. CASE l = NULL
  BY <1>1, ShortLists DEF IsList
<1>2. CASE l # NULL
  <2>1. IsRing(m, s) /\ l = Head(s)
    BY <1>2 DEF IsList
  <2> QED BY <1>2, <2>1, RingParts
<1> QED BY <1>1, <1>2

\* A ring is the list of its head.
LEMMA ListOfRing ==
  ASSUME NEW m, NEW s, IsRing(m, s)
  PROVE  IsList(m, Head(s), s)
  BY RingParts, NULLAssumption DEF IsList

\* No item is held.
LEMMA EmptyList ==
  ASSUME NEW m PROVE IsList(m, NULL, <<>>) /\ <<>> \in Seq(Items) /\ ToSet(<<>>) = {}
  BY ShortLists DEF IsList

\* insert_at_head, of a list that is not empty.
LEMMA AtHead ==
  ASSUME NEW m \in Memory, NEW l \in Items, NEW h \in Items, NEW list,
         IsList(m, l, list), IsRing(m, <<h>>), h \notin ToSet(list)
  PROVE  Result(m, list, <<h>>, dll_attach(m, h, l), h, NULL, <<h>> \o list, <<>>)
<1> DEFINE p == dll_attach(m, h, l)
<1>1. list \in Seq(Items) /\ IsRing(m, list) /\ l = Head(list)
  BY ListType, NULLAssumption
<1>2. p \in Memory /\ IsRing(p, <<h>> \o list) /\ Keeps(m, p, {h} \cup ToSet(list))
  BY <1>1, Attaches
<1> HIDE DEF p
<1>3. Head(<<h>> \o list) = h /\ <<h>> \o list \in Seq(Items)
  BY <1>1, Prefixed
<1>4. ToSet(<<h>>) = {h} /\ ToSet(<<h>> \o list) = {h} \cup ToSet(list)
  <2> DEFINE i == <<h>>
  <2>1. i \in Seq(Items) OBVIOUS
  <2>2. ToSet(i) = {h} BY ShortLists
  <2> HIDE DEF i
  <2>3. ToSet(i \o list) = ToSet(i) \cup ToSet(list)
    BY <1>1, <2>1, JoinedOnce
  <2> QED BY <2>2, <2>3 DEF i
<1>5. IsList(p, h, <<h>> \o list)
  BY <1>2, <1>3, NULLAssumption DEF IsList
<1> QED BY <1>2, <1>3, <1>4, <1>5, EmptyList DEF Result, p

\* insert_after_head, of a list that is not empty.
LEMMA AfterHead ==
  ASSUME NEW m \in Memory, NEW l \in Items, NEW h \in Items, NEW list,
         IsList(m, l, list), IsRing(m, <<h>>), h \notin ToSet(list)
  PROVE  Result(m, list, <<h>>, dll_attach(m, h, m.next[l]), l, NULL,
                <<Head(list)>> \o <<h>> \o Tail(list), <<>>)
<1> DEFINE p == dll_attach(m, h, m.next[l])
           t == Tail(list)
           one == <<l>>
           i == <<h>>
<1>1. list \in Seq(Items) /\ IsRing(m, list) /\ l = Head(list) /\ list # <<>> /\ IsInjective(list)
  BY ListType, NULLAssumption, EmptySeq
<1>2. t \in Seq(Items) /\ list = one \o t /\ ToSet(list) = {l} \cup ToSet(t)
  BY <1>1, Tailed
<1>3. one \in Seq(Items) /\ one # <<>> /\ Head(one) = l /\ ToSet(one) = {l}
      /\ i \in Seq(Items) /\ i # <<>> /\ ToSet(i) = {h} /\ IsRing(m, i)
      /\ Last(one) = l
  <2>1. ToSet(one) = {l} /\ ToSet(i) = {h}
    BY ShortLists
  <2>2. /\ one \in Seq(Items) /\ one # <<>> /\ Head(one) = l /\ Last(one) = l
        /\ i \in Seq(Items) /\ i # <<>>
    BY DEF Last
  <2> QED BY <2>1, <2>2
<1> HIDE DEF t, one, i
<1>4. IsRing(m, t \o one) /\ ToSet(t \o one) = ToSet(list) /\ t \o one \in Seq(Items)
  BY <1>1, <1>2, <1>3, RingTurns, JoinedOnce, ConcatProperties
<1>5. m.next[l] = Head(t \o one)
  <2>1. CASE t = <<>>
    <3>1. list = one /\ t \o one = one
      BY <1>2, <1>3, <2>1
    <3>2. m.next[l] = l
      BY <1>1, <1>3, <3>1, RingParts DEF one
    <3> QED BY <1>3, <3>1, <3>2
  <2>2. CASE t # <<>>
    <3>0. IsRing(m, one \o t)
      BY <1>1, <1>2
    <3>1. Linked(m, Last(one), Head(t)) /\ Last(one) = l
      BY <1>2, <1>3, <2>2, <3>0, RingOfTwo
    <3> QED BY <1>2, <1>3, <2>2, <3>1, HeadOfJoined DEF Linked
  <2> QED BY <2>1, <2>2
<1>6. /\ p \in Memory /\ IsRing(p, i \o (t \o one))
      /\ Keeps(m, p, {h} \cup ToSet(list))
  BY <1>4, <1>5, Attaches DEF i
<1> HIDE DEF p
<1>7. IsRing(p, (one \o i) \o t)
  <2>1. i \o t \in Seq(Items) /\ i \o (t \o one) = (i \o t) \o one
        /\ one \o (i \o t) = (one \o i) \o t
    <3>1. i \o t \in Seq(Items)
      BY <1>2, <1>3, ConcatProperties
    <3>0. i \in Seq(Items) /\ t \in Seq(Items) /\ one \in Seq(Items)
      BY <1>2, <1>3
    <3>2. i \o (t \o one) = (i \o t) \o one
      BY ONLY SMTT(20), <3>0, ConcatAssociative
    <3>3. one \o (i \o t) = (one \o i) \o t
      BY ONLY SMTT(20), <3>0, ConcatAssociative
    <3> QED BY <3>1, <3>2, <3>3
  <2> QED BY <1>3, <1>6, <2>1, RingTurns
<1>8. one \o i \in Seq(Items) /\ one \o i # <<>> /\ Head(one \o i) = l
      /\ ToSet(one \o i) = {l} \cup {h}
  BY <1>3, HeadOfJoined, JoinedOnce, ConcatProperties
<1>9. (one \o i) \o t \in Seq(Items) /\ Head((one \o i) \o t) = l
      /\ ToSet((one \o i) \o t) = ({l} \cup {h}) \cup ToSet(t)
  BY ZenonT(40), <1>2, <1>8, HeadOfJoined, JoinedOnce, ConcatProperties
<1>10. IsList(p, l, (one \o i) \o t)
  BY <1>7, <1>9, NULLAssumption DEF IsList
<1>11. Result(m, list, i, p, l, NULL, (one \o i) \o t, <<>>)
  BY <1>2, <1>3, <1>6, <1>9, <1>10, EmptyList DEF Result
<1> QED BY <1>1, <1>11 DEF p, one, t, i

\* insert_tail.
LEMMA AtTail ==
  ASSUME NEW m \in Memory, NEW l, NEW h \in Items, NEW list,
         IsList(m, l, list), IsRing(m, <<h>>), h \notin ToSet(list)
  PROVE  LET p == dll_attach(m, h, l)
         IN  Result(m, list, <<h>>, p, p.next[h], NULL, list \o <<h>>, <<>>)
<1> DEFINE p == dll_attach(m, h, l)
           i == <<h>>
<1>1. list \in Seq(Items) /\ (l = NULL <=> list = <<>>)
      /\ (l # NULL => IsRing(m, list) /\ l = Head(list) /\ l \in Items)
  BY ListType
<1>2. i \in Seq(Items) /\ i # <<>> /\ ToSet(i) = {h} /\ Head(i) = h /\ Last(i) = h /\ IsRing(m, i)
  BY ShortLists DEF Last
<1>3. CASE l = NULL
  <2>1. p = m /\ list \o i = i /\ m.next[h] = h /\ ToSet(list) = {}
    BY <1>1, <1>2, <1>3, Single, ShortLists DEF dll_attach
  <2> HIDE DEF p, i
  <2>2. IsList(m, h, i)
    BY <1>2, NULLAssumption DEF IsList
  <2>3. Result(m, list, i, p, p.next[h], NULL, list \o i, <<>>)
    BY <1>2, <2>1, <2>2, EmptyList DEF Result, Keeps
  <2> QED BY <2>3 DEF p, i
<1>4. CASE l # NULL
  <2>1. /\ p \in Memory /\ IsRing(p, i \o list) /\ IsRing(p, list \o i)
        /\ Keeps(m, p, {h} \cup ToSet(list)) /\ list # <<>>
    BY <1>1, <1>4, Attaches
  <2> HIDE DEF p, i
  <2>2. p.next[h] = l
    BY <1>1, <1>2, <1>4, <2>1, RingOfTwo DEF Linked
  <2>3. list \o i \in Seq(Items) /\ Head(list \o i) = l /\ ToSet(list \o i) = ToSet(list) \cup {h}
    BY <1>1, <1>2, <1>4, <2>1, HeadOfJoined, JoinedOnce, ConcatProperties
  <2>4. IsList(p, l, list \o i)
    BY <1>4, <2>1, <2>3 DEF IsList
  <2>5. Result(m, list, i, p, p.next[h], NULL, list \o i, <<>>)
    <3>1. ToSet(list \o i) = ToSet(list) \cup ToSet(i) /\ ToSet(list) \cup ToSet(i) = {h} \cup ToSet(list)
      BY <1>2, <2>3
    <3> QED BY <2>1, <2>2, <2>3, <2>4, <3>1, EmptyList DEF Result
  <2> QED BY <2>5 DEF p, i
<1> QED BY <1>3, <1>4

\* add_woken.
LEMMA Woken ==
  ASSUME NEW m \in Memory, NEW l, NEW list, NEW held, IsList(m, l, list), IsRing(m, held),
         ToSet(held) \cap ToSet(list) = {}
  PROVE  Result(m, list, held, dll_insert_list_at_head(m, Head(held), l),
                IF l = NULL THEN Head(held) ELSE l, NULL, list \o held, <<>>)
<1> DEFINE p == dll_insert_list_at_head(m, Head(held), l)
<1>1. list \in Seq(Items) /\ (l = NULL <=> list = <<>>)
      /\ (l # NULL => IsRing(m, list) /\ l = Head(list) /\ l \in Items)
  BY ListType
<1>2. held \in Seq(Items) /\ held # <<>> /\ IsList(m, Head(held), held)
  BY RingParts, ListOfRing
<1>3. CASE l = NULL
  <2>1. p = m /\ list \o held = held /\ ToSet(list) = {}
    BY <1>1, <1>2, <1>3, ShortLists DEF dll_insert_list_at_head
  <2> HIDE DEF p
  <2>2. Result(m, list, held, p, Head(held), NULL, list \o held, <<>>)
    BY <1>2, <2>1, EmptyList DEF Result, Keeps
  <2> QED BY <1>3, <2>2 DEF p
<1>4. CASE l # NULL
  <2>1. /\ p \in Memory /\ IsRing(p, list \o held)
        /\ Keeps(m, p, ToSet(held) \cup ToSet(list)) /\ list # <<>>
    BY <1>1, <1>4, InsertsList
  <2> HIDE DEF p
  <2>2. list \o held \in Seq(Items) /\ Head(list \o held) = l
        /\ ToSet(list \o held) = ToSet(list) \cup ToSet(held)
    BY <1>1, <1>2, <1>4, <2>1, HeadOfJoined, JoinedOnce, ConcatProperties
  <2>3. IsList(p, l, list \o held)
    BY <1>4, <2>1, <2>2 DEF IsList
  <2>4. Result(m, list, held, p, l, NULL, list \o held, <<>>)
    <3>1. ToSet(list) \cup ToSet(held) = ToSet(held) \cup ToSet(list)
      OBVIOUS
    <3> QED BY <2>1, <2>2, <2>3, <3>1, EmptyList DEF Result
  <2> QED BY <1>4, <2>4 DEF p
<1> QED BY <1>3, <1>4

\* An operation that finds nothing.
LEMMA TakesNone ==
  ASSUME NEW m \in Memory, NEW l, NEW list, IsList(m, l, list)
  PROVE  Result(m, list, <<>>, m, l, NULL, list, <<>>)
  BY ListType, EmptyList DEF Result, Keeps

\* Detach, of the k-th item.
LEMMA TakesOne ==
  ASSUME NEW m \in Memory, NEW l, NEW list, IsList(m, l, list), NEW k \in 1 .. Len(list)
  PROVE  LET i == list[k]
         IN  Result(m, list, <<>>, dll_detach(m, i),
                    IF m.next[i] = i THEN NULL ELSE IF i = l THEN m.next[i] ELSE l, i,
                    RemoveAt(list, k), <<i>>)
<1> DEFINE i == list[k]
           p == dll_detach(m, i)
           n == Len(list)
           a == SubSeq(list, 1, k - 1)
           b == SubSeq(list, k + 1, n)
           new == IF m.next[i] = i THEN NULL ELSE IF i = l THEN m.next[i] ELSE l
           h == <<i>>
<1>1. list \in Seq(Items) /\ IsInjective(list) /\ n \in Nat \ {0} /\ i \in Items
      /\ IsRing(m, list) /\ l = Head(list) /\ l = list[1]
  <2>1. list \in Seq(Items) /\ n \in Nat
    BY ListType
  <2>2. list # <<>>
    BY <2>1, EmptySeq
  <2> QED BY <2>1, <2>2, ListType
<1>2. /\ a \in Seq(Items) /\ b \in Seq(Items) /\ Len(a) = k - 1
      /\ list = (a \o h) \o b
      /\ \A j \in 1 .. k - 1 : a[j] = list[j]
  <2>1. /\ SubSeq(list, 1, k) = a \o h
        /\ SubSeq(list, 1, k) \o b = SubSeq(list, 1, n) /\ SubSeq(list, 1, n) = list
    BY <1>1, SubSeqRecursiveSecond, ConcatAdjacentSubSeq, SubSeqFull
  <2>2. a \in Seq(Items) /\ b \in Seq(Items) /\ Len(a) = k - 1
    BY <1>1, SubSeqProperties
  <2>3. \A j \in 1 .. k - 1 : a[j] = list[j]
    BY <1>1
  <2> QED BY <2>1, <2>2, <2>3
<1>3. RemoveAt(list, k) = a \o b
  BY DEF RemoveAt
<1>4. /\ RemoveAt(list, k) \in Seq(Items) /\ i \in ToSet(list)
      /\ ToSet(RemoveAt(list, k)) = ToSet(list) \ {i}
  BY <1>1, RemovedOnce
<1> HIDE DEF a, b
<1>5. a = <<>> => i = l
  <2> SUFFICES ASSUME a = <<>> PROVE i = l OBVIOUS
  <2>1. k = 1 BY <1>2
  <2> QED BY <1>1, <2>1
<1>6. a # <<>> => i # l /\ Head(a) = l /\ Head(a \o b) = l
  <2> SUFFICES ASSUME a # <<>> PROVE i # l /\ Head(a) = l /\ Head(a \o b) = l
    OBVIOUS
  <2>1. k - 1 \in Nat \ {0}
    BY <1>1, <1>2, EmptySeq
  <2>2. Head(a) = a[1] /\ a[1] = list[1]
    BY <1>2, <2>1
  <2>3. i # l
    BY <1>1, <2>1 DEF IsInjective
  <2> QED BY <1>1, <1>2, <2>2, <2>3, HeadOfJoined
<1>7. a = <<>> => a \o b = b
  BY <1>2
<1> HIDE DEF i
<1>8. /\ p \in Memory
      /\ IsRing(p, <<i>>)
      /\ (m.next[i] = i) <=> (a \o b = <<>>)
      /\ a \o b # <<>> => IsRing(p, a \o b)
      /\ b # <<>> => m.next[i] = Head(b)
      /\ b = <<>> /\ a # <<>> => m.next[i] = Head(a)
      /\ Keeps(m, p, (ToSet(a) \cup {i}) \cup ToSet(b))
  BY <1>1, <1>2, Detaches
<1>9. (ToSet(a) \cup {i}) \cup ToSet(b) = ToSet(list)
  <2>1. ToSet(list) = ToSet(a \o b) \cup {i} /\ ToSet(a \o b) = ToSet(a) \cup ToSet(b)
    <3>1. ToSet(a \o b) = ToSet(a) \cup ToSet(b)
      BY <1>2, JoinedOnce
    <3> QED BY <1>3, <1>4, <3>1
  <2> QED BY <2>1
<1>10. a \o b # <<>> => new = Head(a \o b) /\ new # NULL
  <2> SUFFICES ASSUME a \o b # <<>> PROVE new = Head(a \o b) /\ new # NULL
    OBVIOUS
  <2>1. IsRing(p, a \o b) /\ m.next[i] # i
    BY <1>8
  <2>2. Head(a \o b) \in Items
    BY <2>1, RingParts
  <2>3. new = Head(a \o b)
    <3>1. CASE a = <<>>
      <4>1. b # <<>> /\ a \o b = b
        BY <1>7, <3>1
      <4> QED BY <1>5, <1>8, <2>1, <3>1, <4>1
    <3>2. CASE a # <<>>
      BY <1>6, <2>1, <3>2
    <3> QED BY <3>1, <3>2
  <2> QED BY <2>2, <2>3, NULLAssumption
<1>11. IsList(p, new, a \o b)
  <2>1. CASE a \o b = <<>>
    <3>1. new = NULL
      BY <1>8, <2>1
    <3> QED BY <2>1, <3>1 DEF IsList
  <2>2. CASE a \o b # <<>>
    <3> HIDE DEF new, p
    <3> QED BY <1>8, <1>10, <2>2 DEF IsList
  <2> QED BY <2>1, <2>2
<1>12. h \in Seq(Items) /\ ToSet(h) = {i} /\ Head(h) = i
  BY <1>1, ShortLists
<1>13. IsList(p, i, h)
  BY <1>1, <1>8, <1>12, NULLAssumption DEF IsList
<1> HIDE DEF new, p, h
<1>14. Result(m, list, <<>>, p, new, i, RemoveAt(list, k), h)
  <2>1. ToSet(list) \cup ToSet(<<>>) = ToSet(list)
    BY ShortLists
  <2> QED BY <1>3, <1>4, <1>8, <1>9, <1>11, <1>12, <1>13, <2>1 DEF Result
<1> QED BY <1>14 DEF new, p, h, i

\* wakey_wakey, up to the n-th item.
LEMMA TakesUntil ==
  ASSUME NEW m \in Memory, NEW l, NEW list, IsList(m, l, list), NEW n \in 1 .. Len(list)
  PROVE  Result(m, list, <<>>, dll_detach_until(m, l, list[n]),
                detach_until_head(m, l, list[n]), l,
                SubSeq(list, n + 1, Len(list)), SubSeq(list, 1, n))
<1> DEFINE a == SubSeq(list, 1, n)
           b == SubSeq(list, n + 1, Len(list))
           last == list[n]
           p == dll_detach_until(m, l, last)
<1>1. list \in Seq(Items) /\ IsInjective(list) /\ Len(list) \in Nat
  BY ListType
<1>2. IsRing(m, list) /\ l = Head(list) /\ l = list[1] /\ l # NULL
  <2>1. list # <<>>
    BY <1>1, EmptySeq
  <2> QED BY <1>1, <2>1, ListType
<1>3. /\ a \in Seq(Items) /\ Len(a) = n /\ a[1] = list[1] /\ a[n] = list[n]
  <2>1. \A j \in 1 .. n : list[j] \in Items
    BY <1>1
  <2>2. n - 1 + 1 = n /\ 1 <= n /\ 1 \in 1 .. n /\ n \in 1 .. n /\ \A j \in 1 .. n : 1 + j - 1 = j
    BY <1>1
  <2> QED BY <1>1, <2>1, <2>2, SubSeqProperties
<1>4. /\ a # <<>> /\ Head(a) = l /\ Last(a) = last
  <2>1. a # <<>>
    BY <1>1, <1>3, EmptySeq
  <2> HIDE DEF a
  <2> QED BY <1>2, <1>3, <2>1 DEF Last
<1>5. /\ b \in Seq(Items) /\ ToSet(list) = ToSet(a) \cup ToSet(b) /\ ToSet(a) \cap ToSet(b) = {}
  BY <1>1, CutOnce
<1>6. list = a \o b
  BY <1>1, ConcatAdjacentSubSeq, SubSeqFull
<1> HIDE DEF a, b
<1>7. LET q == dll_detach_until(m, Head(a), Last(a))
      IN  /\ q \in Memory
          /\ IsRing(q, a)
          /\ IsList(q, detach_until_head(m, Head(a), Last(a)), b)
          /\ Keeps(m, q, ToSet(a) \cup ToSet(b))
  BY <1>2, <1>3, <1>4, <1>5, <1>6, DetachesUntil
<1>8. /\ p \in Memory
      /\ IsRing(p, a)
      /\ IsList(p, detach_until_head(m, l, last), b)
      /\ Keeps(m, p, ToSet(list))
  BY <1>4, <1>5, <1>7
<1>9. IsList(p, l, a)
  BY <1>2, <1>4, <1>8 DEF IsList
<1> HIDE DEF p, last
<1>10. ToSet(b) \cup ToSet(a) = ToSet(list) \cup ToSet(<<>>) /\ ToSet(b) \cap ToSet(a) = {}
       /\ ToSet(list) \cup ToSet(<<>>) = ToSet(list)
  BY <1>5, ShortLists
<1>11. Result(m, list, <<>>, p, detach_until_head(m, l, last), l, b, a)
  BY <1>3, <1>5, <1>8, <1>9, <1>10 DEF Result
<1> QED BY <1>11 DEF p, a, b, last

-----------------------------------------------------------------------------
\* What the links m, the list pointer l and the pointers h of the cores stand
\* for: the list, and what each core holds, and every item is in one of them.
Describes(m, l, h, list, held) ==
  /\ held \in [Cores -> Seq(Items)]
  /\ IsList(m, l, list)
  /\ \A c \in Cores : IsList(m, h[c], held[c])
  /\ \A c \in Cores : ToSet(held[c]) \cap ToSet(list) = {}
  /\ \A c, d \in Cores : c # d => ToSet(held[c]) \cap ToSet(held[d]) = {}
  /\ \A i \in Items : i \in ToSet(list) \/ \E c \in Cores : i \in ToSet(held[c])

\* What a core does to the list and to what it holds leaves the others alone.
LEMMA OneCoreChanges ==
  ASSUME NEW m, NEW l, NEW h \in [Cores -> Pointers], NEW list, NEW held,
         Describes(m, l, h, list, held), NEW c \in Cores,
         NEW p, NEW k, NEW g, NEW new, NEW has,
         Result(m, list, held[c], p, k, g, new, has)
  PROVE  Describes(p, k, [h EXCEPT ![c] = g], new, [held EXCEPT ![c] = has])
<1> DEFINE gs == [h EXCEPT ![c] = g]
           now == [held EXCEPT ![c] = has]
<1>1. /\ held \in [Cores -> Seq(Items)]
      /\ \A d \in Cores : IsList(m, h[d], held[d])
      /\ \A d \in Cores : ToSet(held[d]) \cap ToSet(list) = {}
      /\ \A d, e \in Cores : d # e => ToSet(held[d]) \cap ToSet(held[e]) = {}
      /\ \A i \in Items : i \in ToSet(list) \/ \E d \in Cores : i \in ToSet(held[d])
  BY DEF Describes
<1>2. /\ new \in Seq(Items) /\ has \in Seq(Items)
      /\ IsList(p, k, new) /\ IsList(p, g, has)
      /\ ToSet(new) \cup ToSet(has) = ToSet(list) \cup ToSet(held[c])
      /\ ToSet(new) \cap ToSet(has) = {}
      /\ Keeps(m, p, ToSet(list) \cup ToSet(held[c]))
  BY DEF Result
<1>3. /\ now \in [Cores -> Seq(Items)] /\ now[c] = has /\ gs[c] = g
      /\ \A d \in Cores \ {c} : now[d] = held[d] /\ gs[d] = h[d]
  BY <1>1, <1>2
<1> HIDE DEF gs, now
<1>4. \A d \in Cores \ {c} : ToSet(held[d]) \cap (ToSet(new) \cup ToSet(has)) = {}
  BY <1>1, <1>2
<1>5. ASSUME NEW d \in Cores PROVE IsList(p, gs[d], now[d])
  <2>1. CASE d = c
    BY <1>2, <1>3, <2>1
  <2>2. CASE d # c
    <3>1. IsList(m, h[d], held[d]) /\ gs[d] = h[d] /\ now[d] = held[d]
      BY <1>1, <1>3, <2>2
    <3>2. ToSet(held[d]) \cap (ToSet(list) \cup ToSet(held[c])) = {}
      BY <1>1, <2>2
    <3>3. IsList(p, h[d], held[d])
      <4>1. CASE h[d] = NULL
        BY <3>1, <4>1 DEF IsList
      <4>2. CASE h[d] # NULL
        BY <1>2, <3>1, <3>2, <4>2 DEF IsList, Keeps
      <4> QED BY <4>1, <4>2
    <3> QED BY <3>1, <3>3
  <2> QED BY <2>1, <2>2
<1>6. \A d \in Cores : ToSet(now[d]) \cap ToSet(new) = {}
  BY <1>2, <1>3, <1>4
<1>7. \A d, e \in Cores : d # e => ToSet(now[d]) \cap ToSet(now[e]) = {}
  BY <1>1, <1>3, <1>4
<1>8. ASSUME NEW i \in Items
      PROVE  i \in ToSet(new) \/ \E d \in Cores : i \in ToSet(now[d])
  <2>1. CASE i \in ToSet(list) \cup ToSet(held[c])
    BY <1>2, <1>3, <2>1
  <2>2. CASE i \notin ToSet(list) \cup ToSet(held[c])
    <3>1. PICK d \in Cores : i \in ToSet(held[d])
      BY <1>1, <2>2
    <3> QED BY <1>3, <2>2, <3>1
  <2> QED BY <2>1, <2>2
<1> QED BY <1>2, <1>3, <1>5, <1>6, <1>7, <1>8 DEF Describes, gs, now

\* What is described is what Ring finds.
LEMMA DescribedIs ==
  ASSUME NEW m, NEW l, NEW h, NEW list, NEW held, Describes(m, l, h, list, held)
  PROVE  Ring(m, l) = list /\ [c \in Cores |-> Ring(m, h[c])] = held
<1>1. Ring(m, l) = list
  BY RingIs, NULLAssumption DEF Describes
<1>2. \A c \in Cores : Ring(m, h[c]) = held[c]
  BY RingIs, NULLAssumption DEF Describes
<1>3. held = [c \in Cores |-> held[c]]
  BY DEF Describes
<1> QED BY <1>1, <1>2, <1>3

\* A description's links are inverse: every item is in a ring.
LEMMA DescribedIsWhole ==
  ASSUME NEW m \in Memory, NEW l, NEW h, NEW list, NEW held, Describes(m, l, h, list, held),
         NEW i \in Items
  PROVE  m.prev[m.next[i]] = i /\ m.next[m.prev[i]] = i
<1>1. ASSUME NEW s, IsRing(m, s), i \in ToSet(s)
      PROVE  m.prev[m.next[i]] = i /\ m.next[m.prev[i]] = i
  <2> DEFINE n == Len(s)
  <2>1. Path(m, s)
    BY <1>1 DEF IsRing
  <2>2. n \in Nat \ {0} /\ Head(s) = s[1] /\ Last(s) = s[n] /\ DOMAIN s = 1 .. n
    BY <2>1, PathEnds
  <2>3. m.next[s[n]] = s[1] /\ m.prev[s[1]] = s[n]
    BY <1>1, <2>2 DEF IsRing, Linked
  <2>4. \A k \in 1 .. n - 1 : m.next[s[k]] = s[k + 1] /\ m.prev[s[k + 1]] = s[k]
    BY <2>1 DEF Path, Linked
  <2>5. PICK k \in 1 .. n : s[k] = i
    BY <1>1, <2>2 DEF ToSet
  <2> HIDE DEF n
  <2>6. m.prev[m.next[i]] = i
    <3>1. CASE k = n
      BY <2>3, <2>5, <3>1
    <3>2. CASE k # n
      <4>1. k \in 1 .. n - 1 BY <2>2, <3>2
      <4> QED BY <2>4, <2>5, <4>1
    <3> QED BY <3>1, <3>2
  <2>7. m.next[m.prev[i]] = i
    <3>1. CASE k = 1
      BY <2>3, <2>5, <3>1
    <3>2. CASE k # 1
      <4>1. k - 1 \in 1 .. n - 1 /\ (k - 1) + 1 = k BY <2>2, <3>2
      <4>2. m.prev[s[k]] = s[k - 1] /\ m.next[s[k - 1]] = s[k]
        BY <2>4, <4>1
      <4> QED BY <2>5, <4>2
    <3> QED BY <3>1, <3>2
  <2> QED BY <2>6, <2>7
<1>2. ASSUME NEW k, NEW s, IsList(m, k, s), i \in ToSet(s) PROVE IsRing(m, s)
  BY <1>2, ListType, EmptyList
<1>3. CASE i \in ToSet(list)
  BY <1>1, <1>2, <1>3 DEF Describes
<1>4. CASE i \notin ToSet(list)
  <2>1. PICK c \in Cores : i \in ToSet(held[c])
    BY <1>4 DEF Describes
  <2>2. IsRing(m, held[c])
    BY <1>2, <2>1 DEF Describes
  <2> QED BY <1>1, <2>1, <2>2
<1> QED BY <1>3, <1>4

-----------------------------------------------------------------------------
\* An operation has been called and has not happened yet.
Entered(c) == pc[c] \in {"read", "wfe", "cas", "update"}

\* Who takes from the list holds nothing before, and who inserts one item holds
\* one: what the functions rely on, and the other cores do not disturb.
Calls ==
  \A c \in Cores :
    /\ op[c] = "none" <=> pc[c] = "outside"
    /\ (Entered(c) /\ op[c] \in Takes) => hold[c] = NULL
    /\ (Entered(c) /\ op[c] \in OneItemInserts \cup {"insert_tail"}) =>
         next[hold[c]] = hold[c]

\* The shared list and what the cores hold are whole rings.
Rings == \E list, held : Describes(Memory_, ListPointer, hold, list, held)

\* The inductive invariant of the links.
RInv == IInv /\ Calls /\ Rings

\* What the operation of core c makes of the list and of what c holds.
Does(c, list, held, new, has) ==
  \/ op[c] = "insert_at_head" /\ new = held \o list /\ has = <<>>
  \/ /\ op[c] = "insert_after_head"
     /\ new = IF list = <<>> THEN held ELSE <<Head(list)>> \o held \o Tail(list)
     /\ has = <<>>
  \/ op[c] \in {"insert_tail", "add_woken"} /\ new = list \o held /\ has = <<>>
  \/ /\ op[c] = "detach_head"
     /\ \E n \in 0 .. Len(list) :
          /\ n = IF list = <<>> THEN 0 ELSE 1
          /\ new = SubSeq(list, n + 1, Len(list)) /\ has = SubSeq(list, 1, n)
  \/ /\ op[c] = "wakey_wakey"
     /\ \E n \in 0 .. Len(list) :
          new = SubSeq(list, n + 1, Len(list)) /\ has = SubSeq(list, 1, n)
  \/ /\ op[c] = "for_core"
     /\ \A i \in DOMAIN list : Wants[list[i]] # c
     /\ new = list /\ has = held
  \/ /\ op[c] = "for_core"
     /\ \E i \in DOMAIN list :
          /\ Wants[list[i]] = c
          /\ \A j \in DOMAIN list : Wants[list[j]] = c => i <= j
          /\ new = RemoveAt(list, i) /\ has = <<list[i]>>

\* The list pointer: the copy of the core at work, or the word.
LEMMA PointerIs ==
  ASSUME IInv
  PROVE  /\ head # LOCKED => ListPointer = head
         /\ \A c \in Cores : Works(c) => ListPointer = head_item[c]
         /\ ListPointer \in Pointers
<1>1. head # LOCKED => ListPointer = head /\ head \in Pointers
  BY DEF ListPointer, IInv, TypeOK, Pointers
<1>2. ASSUME NEW c \in Cores, Works(c)
      PROVE  ListPointer = head_item[c] /\ head_item[c] \in Pointers
  <2>1. head = LOCKED /\ \A d \in Cores : Works(d) => d = c
    BY <1>2 DEF IInv, OneCoreWorks
  <2>2. (CHOOSE d \in Cores : Works(d)) = c
    BY <1>2, <2>1
  <2>3. head_item[c] \in Pointers
    BY <1>2 DEF IInv, CopiesArePointers, Works
  <2> QED BY <2>1, <2>2, <2>3 DEF ListPointer
<1>3. head = LOCKED => \E c \in Cores : Works(c)
  BY DEF IInv, LockIsHeld
<1> QED BY <1>1, <1>2, <1>3

\* The links, the pointer and what c holds after its operation.
LEMMA LeftBehind ==
  ASSUME IInv, NEW list, NEW held, Describes(Memory_, ListPointer, hold, list, held),
         NEW c \in Cores, NEW p, NEW l, NEW h, NEW new, NEW has, Leaves(c, p, l, h),
         Result(Memory_, list, held[c], p, l, h, new, has)
  PROVE  Describes(Memory_', head_item'[c], hold', new, [held EXCEPT ![c] = has])
<1>1. Describes(p, l, [hold EXCEPT ![c] = h], new, [held EXCEPT ![c] = has])
  BY OneCoreChanges DEF IInv, TypeOK, Pointers
<1>2. p \in Memory
  BY DEF Result
<1>3. p = [next |-> p.next, prev |-> p.prev]
  BY <1>2 DEF Memory
<1>4. Memory_' = p /\ hold' = [hold EXCEPT ![c] = h]
  BY <1>3 DEF Leaves, Memory_
<1>5. head_item'[c] = l
  BY DEF Leaves, IInv, TypeOK
<1> QED BY <1>1, <1>4, <1>5

\* Every function of mpsafe_dll.h, when it works on the list, does to the list
\* and to what it holds what it is for.
LEMMA UpdateDoes ==
  ASSUME IInv, Calls, NEW list, NEW held,
         Describes(Memory_, ListPointer, hold, list, held),
         NEW c \in Cores, Update(c)
  PROVE  \E new, has :
           /\ Does(c, list, held[c], new, has)
           /\ Describes(Memory_', head_item'[c], hold', new, [held EXCEPT ![c] = has])
<1> DEFINE l == head_item[c]
           h == hold[c]
           mine == held[c]
           Done(p, k, g, new, has) ==
             /\ Does(c, list, mine, new, has)
             /\ Result(Memory_, list, mine, p, k, g, new, has)
<1>1. pc[c] = "update" /\ Entered(c) /\ Works(c)
  BY DEF Update, Entered, Works
<1>2. Memory_ \in Memory /\ Memory_.next = next
  BY DEF IInv, TypeOK, Memory_, Memory
<1>3. /\ IsList(Memory_, l, list) /\ IsList(Memory_, h, mine)
      /\ ToSet(mine) \cap ToSet(list) = {} /\ mine \in Seq(Items)
  <2>1. ListPointer = l
    BY <1>1, PointerIs
  <2> QED BY <2>1 DEF Describes
<1>4. /\ list \in Seq(Items) /\ (l = NULL <=> list = <<>>)
      /\ (l # NULL => l = Head(list) /\ l \in Items)
  BY <1>3, ListType
<1>5. op[c] \in OneItemInserts \cup Inserts => h \in Items /\ IsRing(Memory_, mine) /\ h = Head(mine)
  <2> SUFFICES ASSUME op[c] \in OneItemInserts \cup Inserts
               PROVE  h \in Items /\ IsRing(Memory_, mine) /\ h = Head(mine)
    OBVIOUS
  <2>1. h # NULL
    BY <1>1 DEF IInv, InsertersHold
  <2> QED BY <1>3, <2>1, ListType
<1>6. op[c] \in OneItemInserts \cup {"insert_tail"} =>
        /\ h \in Items /\ mine = <<h>> /\ IsRing(Memory_, <<h>>) /\ h \notin ToSet(list)
  <2> SUFFICES ASSUME op[c] \in OneItemInserts \cup {"insert_tail"}
               PROVE  h \in Items /\ mine = <<h>> /\ IsRing(Memory_, <<h>>) /\ h \notin ToSet(list)
    OBVIOUS
  <2>1. h \in Items /\ IsRing(Memory_, mine) /\ h = Head(mine)
    BY <1>5 DEF Inserts
  <2>2. Memory_.next[h] = h
    BY <1>1, <1>2 DEF Calls
  <2>3. mine = <<h>>
    BY <2>1, <2>2, RingParts
  <2>4. h \notin ToSet(list)
    BY <1>3, <2>1, RingParts
  <2> QED BY <2>1, <2>3, <2>4
<1>7. op[c] \in OneItemInserts => l # NULL /\ l \in Items /\ list # <<>>
  BY <1>1, <1>4 DEF IInv, InsertersHold
<1>8. op[c] \in Takes => mine = <<>>
  BY <1>1, <1>3, ListType DEF Calls
<1> HIDE DEF l, h, mine
<1>9. ASSUME NEW p, NEW k, NEW g, NEW new, NEW has, Leaves(c, p, k, g), Done(p, k, g, new, has)
      PROVE  \E a, b :
               /\ Does(c, list, mine, a, b)
               /\ Describes(Memory_', head_item'[c], hold', a, [held EXCEPT ![c] = b])
  BY <1>9, LeftBehind DEF mine
<1>10. ASSUME op[c] \in Takes, FindsNothing(c), Does(c, list, mine, list, <<>>)
       PROVE  \E p, k, g, new, has : Leaves(c, p, k, g) /\ Done(p, k, g, new, has)
  <2>1. Result(Memory_, list, mine, Memory_, l, NULL, list, <<>>)
    BY <1>2, <1>3, <1>8, <1>10, TakesNone
  <2>2. Leaves(c, Memory_, l, NULL)
    BY <1>10 DEF FindsNothing, l
  <2> QED BY <1>10, <2>1, <2>2
<1>11. ASSUME op[c] \in Takes, NEW k \in 1 .. Len(list), Detach(c, list[k]),
              Does(c, list, mine, RemoveAt(list, k), <<list[k]>>)
       PROVE  \E p, j, g, new, has : Leaves(c, p, j, g) /\ Done(p, j, g, new, has)
  <2> DEFINE i == list[k]
             p == dll_detach(Memory_, i)
             j == IF next[i] = i THEN NULL ELSE IF i = l THEN next[i] ELSE l
  <2>1. Result(Memory_, list, mine, p, j, i, RemoveAt(list, k), <<i>>)
    BY <1>2, <1>3, <1>8, <1>11, TakesOne
  <2>2. Leaves(c, p, j, i)
    BY <1>11 DEF Detach, l
  <2> HIDE DEF p, j
  <2> QED BY <1>11, <2>1, <2>2
<1>12. ASSUME op[c] = "insert_at_head" /\ insert_at_head(c)
       PROVE  \E p, k, g, new, has : Leaves(c, p, k, g) /\ Done(p, k, g, new, has)
  <2>0. op[c] \in OneItemInserts
    BY <1>12 DEF OneItemInserts
  <2>1. Result(Memory_, list, mine, dll_attach(Memory_, h, l), h, NULL, mine \o list, <<>>)
    BY <1>2, <1>3, <1>6, <1>7, <2>0, AtHead
  <2>2. Leaves(c, dll_attach(Memory_, h, l), h, NULL)
    BY <1>12 DEF insert_at_head, h, l
  <2>3. Does(c, list, mine, mine \o list, <<>>)
    BY <1>12 DEF Does
  <2> QED BY <2>1, <2>2, <2>3
<1>13. ASSUME op[c] = "insert_after_head" /\ insert_after_head(c)
       PROVE  \E p, k, g, new, has : Leaves(c, p, k, g) /\ Done(p, k, g, new, has)
  <2> DEFINE new == <<Head(list)>> \o mine \o Tail(list)
             p == dll_attach(Memory_, h, next[l])
  <2>0. op[c] \in OneItemInserts
    BY <1>13 DEF OneItemInserts
  <2>1. Result(Memory_, list, mine, p, l, NULL, new, <<>>)
    BY <1>2, <1>3, <1>6, <1>7, <2>0, AfterHead
  <2>2. Leaves(c, p, l, NULL)
    BY <1>13 DEF insert_after_head, h, l
  <2> HIDE DEF p
  <2>3. Does(c, list, mine, new, <<>>)
    BY <1>7, <1>13, <2>0 DEF Does
  <2> HIDE DEF new
  <2> QED BY <2>1, <2>2, <2>3
<1>14. ASSUME op[c] = "insert_tail" /\ insert_tail(c)
       PROVE  \E p, k, g, new, has : Leaves(c, p, k, g) /\ Done(p, k, g, new, has)
  <2> DEFINE p == dll_attach(Memory_, h, l)
  <2>1. Result(Memory_, list, mine, p, p.next[h], NULL, list \o mine, <<>>)
    BY <1>2, <1>3, <1>6, <1>14, AtTail
  <2>2. Leaves(c, p, p.next[h], NULL)
    BY <1>14 DEF insert_tail, h, l
  <2> HIDE DEF p
  <2>3. Does(c, list, mine, list \o mine, <<>>)
    BY <1>14 DEF Does
  <2> QED BY <2>1, <2>2, <2>3
<1>15. ASSUME op[c] = "add_woken" /\ add_woken(c)
       PROVE  \E p, k, g, new, has : Leaves(c, p, k, g) /\ Done(p, k, g, new, has)
  <2> DEFINE p == dll_insert_list_at_head(Memory_, h, l)
             k == IF l = NULL THEN h ELSE l
  <2>0. IsRing(Memory_, mine) /\ h = Head(mine)
    BY <1>5, <1>15 DEF Inserts
  <2>1. Result(Memory_, list, mine, p, k, NULL, list \o mine, <<>>)
    BY <1>2, <1>3, <2>0, Woken
  <2>2. Leaves(c, p, k, NULL)
    BY <1>15 DEF add_woken, h, l
  <2> HIDE DEF p, k
  <2>3. Does(c, list, mine, list \o mine, <<>>)
    BY <1>15 DEF Does
  <2> QED BY <2>1, <2>2, <2>3
<1>16. ASSUME op[c] = "detach_head" /\ detach_head(c)
       PROVE  \E p, k, g, new, has : Leaves(c, p, k, g) /\ Done(p, k, g, new, has)
  <2>0. op[c] \in Takes
    BY <1>16 DEF Takes
  <2>1. CASE l = NULL
    <3>1. list = <<>> /\ SubSeq(<<>>, 1, 0) = <<>> /\ SubSeq(<<>>, 0 + 1, 0) = <<>> /\ Len(<<>>) = 0
      BY <1>4, <2>1, SubSeqEmpty
    <3>2. 0 \in 0 .. Len(list) /\ list = SubSeq(list, 0 + 1, Len(list)) /\ <<>> = SubSeq(list, 1, 0)
      BY <3>1
    <3>3. Does(c, list, mine, list, <<>>)
      BY <1>16, <3>1, <3>2 DEF Does
    <3>4. FindsNothing(c)
      BY <1>16, <2>1 DEF detach_head, l
    <3> QED BY <1>10, <2>0, <3>3, <3>4
  <2>2. CASE l # NULL
    <3>1. list # <<>> /\ Len(list) \in Nat \ {0} /\ l = list[1]
      BY <1>4, <2>2, EmptySeq
    <3>2. /\ 1 \in 1 .. Len(list) /\ 1 \in 0 .. Len(list)
          /\ RemoveAt(list, 1) = SubSeq(list, 1 + 1, Len(list))
          /\ <<list[1]>> = SubSeq(list, 1, 1)
      <4>1. 1 \in 1 .. Len(list) /\ 1 \in 0 .. Len(list)
        BY <3>1
      <4>2. SubSeq(list, 1, 1 - 1) = <<>>
        BY SubSeqEmpty
      <4>3. SubSeq(list, 1 + 1, Len(list)) \in Seq(Items)
        BY <1>4, <4>1, Removed
      <4>4. RemoveAt(list, 1) = SubSeq(list, 1 + 1, Len(list))
        BY <4>2, <4>3 DEF RemoveAt
      <4>5. SubSeq(list, 1, 1) = << list[1] >> \o SubSeq(list, 1 + 1, 1)
        BY <1>4, <4>1, SubSeqRecursiveFirst
      <4>6. SubSeq(list, 1 + 1, 1) = <<>>
        BY SubSeqEmpty
      <4>7. << list[1] >> \o <<>> = << list[1] >>
        OBVIOUS
      <4> QED BY <4>1, <4>4, <4>5, <4>6, <4>7
    <3>3. Does(c, list, mine, RemoveAt(list, 1), <<list[1]>>)
      BY <1>16, <3>1, <3>2 DEF Does
    <3>4. Detach(c, list[1])
      BY <1>16, <2>2, <3>1 DEF detach_head, l
    <3> QED BY <1>11, <2>0, <3>2, <3>3, <3>4
  <2> QED BY <2>1, <2>2
<1>17. ASSUME op[c] = "for_core" /\ for_core(c)
       PROVE  \E p, k, g, new, has : Leaves(c, p, k, g) /\ Done(p, k, g, new, has)
  <2>0. op[c] \in Takes /\ mine = <<>>
    BY <1>8, <1>17 DEF Takes
  <2>1. Ring(Memory_, l) = list /\ DOMAIN list = 1 .. Len(list) /\ Len(list) \in Nat
    BY <1>3, <1>4, RingIs, NULLAssumption
  <2>2. \A i : Finds(c, i) <=> \E k \in DOMAIN list :
                 /\ list[k] = i /\ Wants[i] = c
                 /\ \A j \in 1 .. k - 1 : Wants[list[j]] # c
    BY <2>1 DEF Finds, l
  <2>3. CASE \E i \in Items : Finds(c, i) /\ Detach(c, i)
    <3>1. PICK k \in DOMAIN list :
            /\ Detach(c, list[k]) /\ Wants[list[k]] = c
            /\ \A j \in 1 .. k - 1 : Wants[list[j]] # c
      BY <2>2, <2>3
    <3>2. \A j \in DOMAIN list : Wants[list[j]] = c => k <= j
      BY <2>1, <3>1
    <3>3. Does(c, list, mine, RemoveAt(list, k), <<list[k]>>)
      BY <1>17, <3>1, <3>2 DEF Does
    <3>4. k \in 1 .. Len(list)
      BY <2>1
    <3> QED BY <1>11, <2>0, <3>1, <3>3, <3>4
  <2>4. CASE (\A i \in Items : ~Finds(c, i)) /\ FindsNothing(c)
    <3>1. \A i \in DOMAIN list : Wants[list[i]] # c
      <4> DEFINE T == {i \in DOMAIN list : Wants[list[i]] = c}
      <4> SUFFICES ASSUME T # {} PROVE FALSE
        OBVIOUS
      <4>1. T \subseteq Nat
        BY <2>1
      <4>2. PICK k \in T : \A j \in T : k <= j
        <5> HIDE DEF T
        <5> QED BY <4>1, LeastNumber
      <4>3. k \in 1 .. Len(list) /\ Wants[list[k]] = c
        BY <2>1
      <4>4. \A j \in 1 .. k - 1 : Wants[list[j]] # c
        <5> SUFFICES ASSUME NEW j \in 1 .. k - 1, Wants[list[j]] = c PROVE FALSE
          OBVIOUS
        <5>1. j \in DOMAIN list /\ ~(k <= j)
          BY <2>1, <4>3
        <5> QED BY <4>2, <5>1
      <4>5. Finds(c, list[k]) /\ list[k] \in Items
        BY <1>4, <2>1, <2>2, <4>3, <4>4
      <4> QED BY <2>4, <4>5
    <3>2. Does(c, list, mine, list, <<>>)
      BY <1>17, <2>0, <3>1 DEF Does
    <3> QED BY <1>10, <2>0, <2>4, <3>2
  <2> QED BY <1>17, <2>3, <2>4 DEF for_core
<1>18. ASSUME op[c] = "wakey_wakey" /\ wakey_wakey(c)
       PROVE  \E p, k, g, new, has : Leaves(c, p, k, g) /\ Done(p, k, g, new, has)
  <2>0. op[c] \in Takes /\ mine = <<>> /\ Len(list) \in Nat
    BY <1>4, <1>8, <1>18 DEF Takes
  <2>1. CASE FindsNothing(c)
    <3>1. SubSeq(list, 0 + 1, Len(list)) = list /\ SubSeq(list, 1, 0) = <<>> /\ 0 \in 0 .. Len(list)
      BY <1>4, <2>0, SubSeqFull, SubSeqEmpty
    <3>2. Does(c, list, mine, list, <<>>)
      BY <1>18, <3>1 DEF Does
    <3> QED BY <1>10, <2>0, <2>1, <3>2
  <2>2. CASE ~FindsNothing(c)
    <3>1. Ring(Memory_, l) = list
      BY <1>3, RingIs, NULLAssumption
    <3>2. PICK end \in ToSet(list) :
            Leaves(c, dll_detach_until(Memory_, l, end), detach_until_head(Memory_, l, end), l)
      BY <1>18, <2>2, <3>1 DEF wakey_wakey, l
    <3>3. PICK n \in 1 .. Len(list) : end = list[n]
      BY <1>4 DEF ToSet
    <3> DEFINE p == dll_detach_until(Memory_, l, end)
               k == detach_until_head(Memory_, l, end)
               new == SubSeq(list, n + 1, Len(list))
               has == SubSeq(list, 1, n)
    <3>4. Result(Memory_, list, mine, p, k, l, new, has)
      BY <1>2, <1>3, <2>0, <3>3, TakesUntil
    <3>5. Does(c, list, mine, new, has)
      <4>1. n \in 0 .. Len(list)
        BY <2>0
      <4> QED BY <1>18, <4>1 DEF Does
    <3> HIDE DEF p, k, new, has
    <3>6. Leaves(c, p, k, l)
      BY <3>2 DEF p, k
    <3> QED BY <3>4, <3>5, <3>6
  <2> QED BY <2>1, <2>2
<1>19. \E p, k, g, new, has : Leaves(c, p, k, g) /\ Done(p, k, g, new, has)
  BY <1>12, <1>13, <1>14, <1>15, <1>16, <1>17, <1>18
     DEF Update, insert_at_head, insert_after_head, insert_tail, add_woken,
         detach_head, for_core, wakey_wakey
<1> HIDE DEF Done
<1> QED BY <1>9, <1>19 DEF mine

\* A pool as setup_pools leaves it is one ring of all items, in their order.
LEMMA PoolIsRing ==
  ASSUME NEW s \in SetToSeqs(Items)
  PROVE  /\ dll_ring(s) \in Memory
         /\ IsRing(dll_ring(s), s) /\ IsInjective(s) /\ ToSet(s) = Items
<1> DEFINE n == Len(s)
           m == dll_ring(s)
           place(i) == CHOOSE k \in 1 .. n : s[k] = i
<1>1. s \in Seq(Items) /\ IsInjective(s) /\ ToSet(s) = Items
  BY ItemsAssumption, OrdersOnce
<1>2. m \in Memory /\ Head(s) \in Items
  BY RingType
<1>3. s # <<>> /\ n \in Nat \ {0} /\ DOMAIN s = 1 .. n /\ Head(s) = s[1] /\ Last(s) = s[n]
  <2>1. s # <<>>
    BY <1>1, ItemsAssumption, ShortLists
  <2> QED BY <1>1, <2>1, EmptySeq DEF Last
<1>4. \A j, k \in 1 .. n : s[j] = s[k] => j = k
  BY <1>1, <1>3 DEF IsInjective
<1>5. \A k \in 1 .. n : s[k] \in Items
  BY <1>1, <1>3
<1>6. \A i \in Items : m.next[i] = s[(place(i) % n) + 1] /\ m.prev[i] = s[((place(i) + n - 2) % n) + 1]
  BY DEF dll_ring
<1> HIDE DEF m, n
<1>7. \A k \in 1 .. n : place(s[k]) = k
  BY <1>4
<1> HIDE DEF place
<1>8. \A k \in 0 .. n - 1 : k % n = k /\ (k + n) % n = k
  BY <1>3
<1>9. \A k \in 1 .. n - 1 : Linked(m, s[k], s[k + 1])
  <2> SUFFICES ASSUME NEW k \in 1 .. n - 1 PROVE Linked(m, s[k], s[k + 1])
    OBVIOUS
  <2>1. k \in 1 .. n /\ k + 1 \in 1 .. n /\ k \in 0 .. n - 1 /\ k - 1 \in 0 .. n - 1
        /\ (k + 1) + n - 2 = (k - 1) + n /\ (k - 1) + 1 = k
    BY <1>3
  <2>2. m.next[s[k]] = s[(k % n) + 1] /\ m.prev[s[k + 1]] = s[(((k + 1) + n - 2) % n) + 1]
    BY <1>5, <1>6, <1>7, <2>1
  <2> QED BY <1>8, <2>1, <2>2 DEF Linked
<1>10. Linked(m, s[n], s[1])
  <2>1. n \in 1 .. n /\ 1 \in 1 .. n /\ 0 \in 0 .. n - 1 /\ n - 1 \in 0 .. n - 1
        /\ 0 + n = n /\ 1 + n - 2 = n - 1 /\ (n - 1) + 1 = n /\ 0 + 1 = 1
    BY <1>3
  <2>2. m.next[s[n]] = s[(n % n) + 1] /\ m.prev[s[1]] = s[((1 + n - 2) % n) + 1]
    BY <1>5, <1>6, <1>7, <2>1
  <2> QED BY <1>8, <2>1, <2>2 DEF Linked
<1>11. IsRing(m, s)
  BY <1>1, <1>3, <1>9, <1>10 DEF IsRing, Path, n
<1> QED BY <1>1, <1>2, <1>11 DEF m

\* At first everything is in the list, in some order.
LEMMA InitDescribed ==
  ASSUME Init
  PROVE  \E order \in SetToSeqs(Items) :
           Describes(Memory_, ListPointer, hold, order, [c \in Cores |-> <<>>])
<1>1. PICK s \in SetToSeqs(Items) :
        next = dll_ring(s).next /\ prev = dll_ring(s).prev /\ head = Head(s)
  BY DEF Init
<1>2. /\ dll_ring(s) \in Memory /\ IsRing(dll_ring(s), s) /\ ToSet(s) = Items
  BY PoolIsRing
<1>3. dll_ring(s) = [next |-> dll_ring(s).next, prev |-> dll_ring(s).prev]
  BY <1>2 DEF Memory
<1>4. Memory_ = dll_ring(s)
  BY <1>1, <1>3 DEF Memory_
<1>5. ListPointer = head /\ head = Head(s)
  <2>1. head \in Items
    BY <1>1, RingType
  <2> QED BY <1>1, <2>1, LOCKEDAssumption DEF ListPointer
<1>6. IsList(Memory_, ListPointer, s)
  BY <1>2, <1>4, <1>5, ListOfRing
<1>7. \A c \in Cores : hold[c] = NULL /\ IsList(Memory_, hold[c], <<>>)
  BY EmptyList DEF Init
<1>8. [c \in Cores |-> <<>>] \in [Cores -> Seq(Items)]
  BY EmptyList
<1> DEFINE held == [c \in Cores |-> <<>>]
<1>9. \A c \in Cores : held[c] = <<>> /\ ToSet(held[c]) = {}
  BY EmptyList
<1> HIDE DEF held
<1>10. Describes(Memory_, ListPointer, hold, s, held)
  BY <1>2, <1>6, <1>7, <1>8, <1>9 DEF Describes, held
<1> QED BY <1>10 DEF held

\* The invariant holds at first.
LEMMA InitRInv == Init => RInv
<1> SUFFICES ASSUME Init PROVE RInv
  OBVIOUS
<1>1. IInv
  BY InitIInv
<1>2. Rings
  BY InitDescribed DEF Rings
<1>3. Calls
  BY DEF Init, Calls, Entered
<1> QED BY <1>1, <1>2, <1>3 DEF RInv

-----------------------------------------------------------------------------
\* What the list pointer is, in words to be said of the next state too.
PointerFacts ==
  /\ head # LOCKED => ListPointer = head
  /\ \A c \in Cores : Works(c) => ListPointer = head_item[c]

\* They are facts of every reachable state, and of the next one.
LEMMA PointerFactsHold == IInv => PointerFacts
  BY PointerIs DEF PointerFacts

\* The list pointer of the next state.
LEMMA NextPointerIs ==
  IInv' => /\ head' # LOCKED => ListPointer' = head'
           /\ \A c \in Cores : Works(c)' => ListPointer' = head_item'[c]
<1>1. IInv' => PointerFacts'
  BY PointerFactsHold, PTL
<1> QED BY <1>1 DEF PointerFacts

\* Steps that leave the lists alone.
Elsewhere(c) ==
  \/ Call(c) \/ Read(c) \/ wait_for_event(c) \/ Lock(c) \/ CasFails(c)
  \/ Release(c) \/ signal_event(c)

\* The list is not changed by taking the lock, or giving it back.
LEMMA ElsewhereKeeps ==
  ASSUME IInv, IInv', NEW c \in Cores, Elsewhere(c)
  PROVE  Memory_' = Memory_ /\ ListPointer' = ListPointer /\ hold' = hold
<1> USE DEF Goto
<1>1. Memory_' = Memory_ /\ hold' = hold
  BY DEF Elsewhere, Call, Read, wait_for_event, Lock, CasFails, Release, signal_event, Memory_
<1>2. CASE Lock(c)
  <2>1. head = head_item[c] /\ head_item'[c] = head_item[c] /\ Works(c)'
    BY <1>2 DEF Lock, Works, IInv, TypeOK
  <2>2. head # LOCKED
    BY <1>2, <2>1, LOCKEDAssumption DEF Lock, IInv, CopiesArePointers, Pointers
  <2>3. ListPointer = head
    BY <2>2, PointerIs
  <2>4. ListPointer' = head_item'[c]
    BY <2>1, NextPointerIs
  <2> QED BY <1>1, <2>1, <2>3, <2>4
<1>3. CASE Release(c)
  <2>1. Works(c) /\ head' = head_item[c] /\ head_item[c] \in Pointers
    BY <1>3 DEF Release, Works, IInv, CopiesArePointers
  <2>2. head' # LOCKED
    BY <2>1, LOCKEDAssumption DEF Pointers
  <2> QED BY <1>1, <2>1, <2>2, PointerIs, NextPointerIs
<1>4. CASE Call(c) \/ Read(c) \/ wait_for_event(c) \/ CasFails(c) \/ signal_event(c)
  <2>1. head' = head
    BY <1>4 DEF Call, Read, wait_for_event, CasFails, signal_event
  <2>2. \A d \in Cores : Works(d) => Works(d)' /\ head_item'[d] = head_item[d]
    BY <1>4 DEF Call, Read, wait_for_event, CasFails, signal_event, Works, IInv, TypeOK
  <2>3. CASE head # LOCKED
    BY <1>1, <2>1, <2>3, PointerIs, NextPointerIs
  <2>4. CASE head = LOCKED
    <3>1. PICK d \in Cores : Works(d)
      BY <2>4 DEF IInv, LockIsHeld
    <3> QED BY <1>1, <2>2, <3>1, PointerIs, NextPointerIs
  <2> QED BY <2>3, <2>4
<1> QED BY <1>2, <1>3, <1>4 DEF Elsewhere

\* A step changes what is described as the operation it completes says.
LEMMA StepDescribed ==
  ASSUME IInv, IInv', Calls, NEW list, NEW held,
         Describes(Memory_, ListPointer, hold, list, held),
         NEW c \in Cores, Update(c) \/ InsertIntoEmpty(c)
  PROVE  \E new, has :
           /\ Does(c, list, held[c], new, has)
           /\ Describes(Memory_', ListPointer', hold', new, [held EXCEPT ![c] = has])
<1>1. CASE Update(c)
  <2>1. Works(c)'
    BY <1>1 DEF Update, Goto, Works, IInv, TypeOK
  <2>2. ListPointer' = head_item'[c]
    BY <2>1, NextPointerIs
  <2> QED BY <1>1, <2>2, UpdateDoes
<1>2. CASE InsertIntoEmpty(c)
  <2>1. /\ head = NULL /\ head' = hold[c] /\ hold' = [hold EXCEPT ![c] = NULL]
        /\ op[c] \in OneItemInserts /\ Memory_' = Memory_ /\ Memory_ \in Memory
    BY <1>2 DEF InsertIntoEmpty, InsertsIntoEmpty, Memory_, IInv, TypeOK, Memory
  <2>2. ListPointer = NULL /\ list = <<>>
    <3>1. ListPointer = NULL
      BY <2>1, PointerIs, LOCKEDAssumption
    <3> QED BY <3>1, ListType DEF Describes
  <2>3. hold[c] \in Pointers /\ hold \in [Cores -> Pointers]
    BY DEF IInv, TypeOK, Pointers
  <2>4. ListPointer' = hold[c]
    BY <2>1, <2>3, NextPointerIs, LOCKEDAssumption DEF Pointers
  <2>5. IsList(Memory_, hold[c], held[c]) /\ held[c] \in Seq(Items) /\ ToSet(held[c]) \subseteq Items
    BY ListType DEF Describes
  <2>6. Result(Memory_, list, held[c], Memory_, hold[c], NULL, held[c], <<>>)
    BY <2>1, <2>2, <2>5, EmptyList DEF Result, Keeps
  <2>7. Describes(Memory_', ListPointer', hold', held[c], [held EXCEPT ![c] = <<>>])
    BY <2>1, <2>3, <2>4, <2>6, OneCoreChanges
  <2>8. held[c] \o list = held[c]
    BY <2>2, <2>5
  <2>9. Does(c, list, held[c], held[c], <<>>)
    BY <2>1, <2>2, <2>8 DEF Does, OneItemInserts
  <2> QED BY <2>7, <2>9
<1> QED BY <1>1, <1>2

\* A core that has one item to insert still has one after a step of another.
LEMMA SinglesStay ==
  ASSUME IInv, NEW list, NEW held, Describes(Memory_, ListPointer, hold, list, held),
         NEW c \in Cores, NEW new, NEW has,
         Describes(Memory_', ListPointer', hold', new, [held EXCEPT ![c] = has]),
         NEW d \in Cores \ {c}, hold[d] \in Items, next[hold[d]] = hold[d], hold'[d] = hold[d]
  PROVE  next'[hold'[d]] = hold'[d]
<1> DEFINE h == hold[d]
           now == [held EXCEPT ![c] = has]
<1>1. IsList(Memory_, h, held[d]) /\ now[d] = held[d]
  BY DEF Describes
<1>2. IsRing(Memory_, held[d]) /\ h = Head(held[d])
  BY <1>1, ListType, NULLAssumption
<1>3. held[d] = <<h>>
  BY <1>2, RingParts DEF Memory_
<1>4. IsList(Memory_', h, held[d])
  <2> HIDE DEF now
  <2>1. IsList(Memory_', hold'[d], now[d])
    BY DEF Describes, now
  <2> QED BY <1>1, <2>1
<1>5. IsRing(Memory_', <<h>>)
  BY <1>3, <1>4, ListType, NULLAssumption
<1> HIDE DEF h
<1>6. (Memory_').next[h] = h
  BY <1>5, Single DEF h
<1> QED BY <1>6 DEF Memory_, h

\* Every step keeps Calls.
LEMMA NextCalls ==
  ASSUME RInv, IInv', [Next]_vars
  PROVE  Calls'
<1>1. IInv /\ Calls
  BY DEF RInv
<1>2. PICK list, held : Describes(Memory_, ListPointer, hold, list, held)
  BY DEF RInv, Rings
<1>3. ASSUME NEW c \in Cores, Call(c) PROVE Calls'
  <2>1. PICK f \in OneItemInserts \cup Inserts \cup Takes :
          /\ op' = [op EXCEPT ![c] = f]
          /\ f \in Takes => hold[c] = NULL
          /\ f \in OneItemInserts \cup {"insert_tail"} => next[hold[c]] = hold[c]
    <3>1. CASE hold[c] = NULL
      BY <1>3, <3>1 DEF Call, Takes, OneItemInserts
    <3>2. CASE hold[c] # NULL /\ next[hold[c]] = hold[c]
      BY <1>3, <3>2 DEF Call, Takes, OneItemInserts, Inserts
    <3>3. CASE hold[c] # NULL /\ next[hold[c]] # hold[c]
      BY <1>3, <3>3 DEF Call, Takes, OneItemInserts, Inserts
    <3> QED BY <3>1, <3>2, <3>3
  <2>2. f # "none"
    BY DEF Takes, OneItemInserts, Inserts
  <2>3. pc' = [pc EXCEPT ![c] = "read"] /\ UNCHANGED <<next, hold>>
    BY <1>3 DEF Call, Goto
  <2> QED BY <1>1, <2>1, <2>2, <2>3 DEF Calls, Entered, IInv, TypeOK
<1>4. ASSUME NEW c \in Cores, Read(c) \/ wait_for_event(c) \/ Lock(c) \/ CasFails(c) \/ Release(c)
      PROVE  Calls'
  <2>1. PICK place \in {"read", "wfe", "cas", "update", "signal"} :
          /\ pc' = [pc EXCEPT ![c] = place] /\ pc[c] # "outside"
          /\ place = "signal" \/ Entered(c)
    BY <1>4 DEF Read, wait_for_event, Lock, CasFails, Release, Goto, Entered
  <2>2. UNCHANGED <<next, hold, op>>
    BY <1>4 DEF Read, wait_for_event, Lock, CasFails, Release
  <2> QED BY <1>1, <2>1, <2>2 DEF Calls, Entered, IInv, TypeOK
<1>5. ASSUME NEW c \in Cores, signal_event(c) PROVE Calls'
  BY <1>1, <1>5 DEF signal_event, Goto, Calls, Entered, IInv, TypeOK
<1>6. ASSUME NEW c \in Cores, Update(c) \/ InsertIntoEmpty(c) PROVE Calls'
  <2>1. PICK new, has : Describes(Memory_', ListPointer', hold', new, [held EXCEPT ![c] = has])
    BY <1>1, <1>2, <1>6, StepDescribed
  <2>2. /\ \A d \in Cores \ {c} : hold'[d] = hold[d] /\ pc'[d] = pc[d]
        /\ op' = op
        /\ pc[c] # "outside" /\ pc'[c] \in {"release", "signal"}
    <3>1. CASE Update(c)
      <4>1. PICK h : hold' = [hold EXCEPT ![c] = h]
        BY <1>1, <3>1, UpdateType
      <4> QED BY <1>1, <3>1, <4>1 DEF Update, Goto, IInv, TypeOK
    <3>2. CASE InsertIntoEmpty(c)
      BY <1>1, <3>2 DEF InsertIntoEmpty, Goto, IInv, TypeOK
    <3> QED BY <1>6, <3>1, <3>2
  <2>3. ASSUME NEW d \in Cores \ {c}, Entered(d), op[d] \in OneItemInserts \cup {"insert_tail"}
        PROVE  next'[hold'[d]] = hold'[d]
    <3>1. hold[d] \in Items /\ next[hold[d]] = hold[d]
      BY <1>1, <2>3 DEF Calls, IInv, TypeOK, InsertersHold, Entered, Inserts
    <3> QED BY <1>1, <1>2, <2>1, <2>2, <3>1, SinglesStay
  <2> QED BY <1>1, <2>2, <2>3 DEF Calls, Entered
<1>7. ASSUME UNCHANGED vars PROVE Calls'
  BY <1>1, <1>7 DEF vars, Calls, Entered
<1> QED BY <1>3, <1>4, <1>5, <1>6, <1>7 DEF Next, Step

\* Every step keeps RInv.
LEMMA NextRInv == RInv /\ [Next]_vars => RInv'
<1> SUFFICES ASSUME RInv, [Next]_vars PROVE RInv'
  OBVIOUS
<1>1. IInv /\ IInv' /\ Calls /\ Calls'
  BY NextIInv, NextCalls DEF RInv
<1>2. PICK list, held : Describes(Memory_, ListPointer, hold, list, held)
  BY DEF RInv, Rings
<1>3. ASSUME NEW c \in Cores, Elsewhere(c) PROVE Rings'
  BY <1>1, <1>2, <1>3, ElsewhereKeeps DEF Rings
<1>4. ASSUME NEW c \in Cores, Update(c) \/ InsertIntoEmpty(c) PROVE Rings'
  BY <1>1, <1>2, <1>4, StepDescribed DEF Rings
<1>5. ASSUME UNCHANGED vars PROVE Rings'
  <2>1. Memory_' = Memory_ /\ hold' = hold /\ ListPointer' = ListPointer
    BY <1>5 DEF vars, Memory_, ListPointer, Works
  <2> QED BY <1>2, <2>1 DEF Rings
<1>6. Rings'
  BY <1>3, <1>4, <1>5 DEF Next, Step, Elsewhere
<1> QED BY <1>1, <1>6 DEF RInv

\* The inductive invariant of the links, in every behaviour.
THEOREM LinksInvariant == Spec => []RInv
<1> QED BY InitRInv, NextRInv, PTL DEF Spec

\* No insertion or removal of any core tears a ring: prev and next stay inverse
\* (doubly_linked_list.h, called under the lock of mpsafe_dll.h).
THEOREM NoRingIsTorn == Spec => []RingsAreWhole
<1>1. RInv => RingsAreWhole
  <2> SUFFICES ASSUME RInv, NEW i \in Items PROVE prev[next[i]] = i /\ next[prev[i]] = i
    BY DEF RingsAreWhole
  <2>1. PICK list, held : Describes(Memory_, ListPointer, hold, list, held)
    BY DEF RInv, Rings
  <2>2. Memory_ \in Memory /\ Memory_.next = next /\ Memory_.prev = prev
    BY DEF RInv, IInv, TypeOK, Memory_, Memory
  <2> QED BY <2>1, <2>2, DescribedIsWhole
<1> QED BY <1>1, LinksInvariant, PTL

-----------------------------------------------------------------------------
\* The values of the variables of AtomicList.
TheList == Ring(Memory_, ListPointer)
TheHeld == [c \in Cores |-> Ring(Memory_, hold[c])]
IsDone  == [c \in Cores |-> pc[c] \in {"release", "signal"}]

\* What an operation does is what AtomicList says of it.
LEMMA DoesIsDo ==
  ASSUME NEW c \in Cores, NEW list, NEW held, NEW new, NEW has,
         list \in Seq(Items), held \in [Cores -> Seq(Items)],
         Does(c, list, held[c], new, has),
         TheList = list, TheHeld = held,
         TheList' = new, TheHeld' = [held EXCEPT ![c] = has],
         op[c] # "none", UNCHANGED op, ~IsDone[c], IsDone' = [IsDone EXCEPT ![c] = TRUE]
  PROVE  Atomic!Do(c)
<1>1. CASE op[c] = "insert_at_head" /\ new = held[c] \o list /\ has = <<>>
  BY <1>1 DEF Atomic!Do, Atomic!Insert, Atomic!Leaves, TheList, TheHeld, IsDone
<1>2. CASE /\ op[c] = "insert_after_head"
           /\ new = IF list = <<>> THEN held[c] ELSE <<Head(list)>> \o held[c] \o Tail(list)
           /\ has = <<>>
  BY <1>2 DEF Atomic!Do, Atomic!Insert, Atomic!Leaves, TheList, TheHeld, IsDone
<1>3. CASE op[c] \in {"insert_tail", "add_woken"} /\ new = list \o held[c] /\ has = <<>>
  BY <1>3 DEF Atomic!Do, Atomic!Insert, Atomic!Leaves, TheList, TheHeld, IsDone
<1>4. CASE /\ op[c] = "detach_head"
           /\ \E n \in 0 .. Len(list) :
                /\ n = IF list = <<>> THEN 0 ELSE 1
                /\ new = SubSeq(list, n + 1, Len(list)) /\ has = SubSeq(list, 1, n)
  BY <1>4 DEF Atomic!Do, Atomic!Take, Atomic!TakeFirst, Atomic!Leaves, TheList, TheHeld, IsDone
<1>5. CASE /\ op[c] = "wakey_wakey"
           /\ \E n \in 0 .. Len(list) :
                new = SubSeq(list, n + 1, Len(list)) /\ has = SubSeq(list, 1, n)
  BY ZenonT(40), <1>5 DEF Atomic!Do, Atomic!Take, Atomic!TakeFirst, Atomic!Leaves, TheList, TheHeld, IsDone
<1>6. CASE /\ op[c] = "for_core"
           /\ \A i \in DOMAIN list : Wants[list[i]] # c
           /\ new = list /\ has = held[c]
  <2>1. [held EXCEPT ![c] = has] = held
    BY <1>6
  <2>2. {i \in DOMAIN list : Wants[list[i]] = c} = {}
    BY <1>6
  <2> QED BY <1>6, <2>1, <2>2
          DEF Atomic!Do, Atomic!Take, Atomic!Mine, TheList, TheHeld, IsDone
<1>7. CASE /\ op[c] = "for_core"
           /\ \E i \in DOMAIN list :
                /\ Wants[list[i]] = c
                /\ \A j \in DOMAIN list : Wants[list[j]] = c => i <= j
                /\ new = RemoveAt(list, i) /\ has = <<list[i]>>
  <2>1. PICK i \in DOMAIN list :
          /\ Wants[list[i]] = c
          /\ \A j \in DOMAIN list : Wants[list[j]] = c => i <= j
          /\ new = RemoveAt(list, i) /\ has = <<list[i]>>
    BY <1>7
  <2>2. i \in Atomic!Mine(c) /\ \A j \in Atomic!Mine(c) : i <= j
    BY <2>1 DEF Atomic!Mine, TheList
  <2>3. Atomic!Leaves(c, Atomic!RemoveAt(list, i), <<list[i]>>)
    BY <2>1 DEF Atomic!Leaves, TheList, TheHeld, RemoveAt, Atomic!RemoveAt
  <2>4. Atomic!Take(c)
    BY <1>7, <2>2, <2>3 DEF Atomic!Take, TheList
  <2> QED BY <2>4 DEF Atomic!Do, IsDone
<1> QED BY <1>1, <1>2, <1>3, <1>4, <1>5, <1>6, <1>7 DEF Does

\* At first the list is all there is.
LEMMA InitAtomic == Init => Atomic!Init
<1> SUFFICES ASSUME Init PROVE Atomic!Init
  OBVIOUS
<1>1. PICK s \in SetToSeqs(Items) :
        Describes(Memory_, ListPointer, hold, s, [c \in Cores |-> <<>>])
  BY InitDescribed
<1>2. TheList = s /\ TheHeld = [c \in Cores |-> <<>>]
  BY <1>1, DescribedIs DEF TheList, TheHeld
<1>3. pc = [c \in Cores |-> "outside"] /\ op = [c \in Cores |-> "none"]
  BY DEF Init
<1>4. IsDone = [c \in Cores |-> FALSE]
  <2>1. \A c \in Cores : (pc[c] \in {"release", "signal"}) = FALSE
    BY <1>3
  <2> QED BY <2>1, Zenon DEF IsDone
<1>5. Ring(Memory_, ListPointer) \in Atomic!SetToSeqs(Items)
  BY <1>2 DEF TheList, SetToSeqs, Atomic!SetToSeqs, Cardinality, Atomic!Cardinality
<1> QED BY <1>2, <1>3, <1>4, <1>5 DEF Atomic!Init, TheHeld, IsDone

\* Every step is a step of AtomicList, or one it does not see.
LEMMA StepAtomic == RInv /\ RInv' /\ [Next]_vars => [Atomic!Next]_(Atomic!vars)
<1> SUFFICES ASSUME RInv, RInv', [Next]_vars PROVE [Atomic!Next]_(Atomic!vars)
  OBVIOUS
<1>1. IInv /\ IInv' /\ Calls
  BY DEF RInv
<1>2. PICK list, held : Describes(Memory_, ListPointer, hold, list, held)
  BY DEF RInv, Rings
<1>3. TheList = list /\ TheHeld = held /\ list \in Seq(Items) /\ held \in [Cores -> Seq(Items)]
  BY <1>2, DescribedIs, ListType DEF TheList, TheHeld, Describes
<1>4. ASSUME TheList' = TheList, TheHeld' = TheHeld, IsDone' = IsDone, op' = op
      PROVE  UNCHANGED Atomic!vars
  BY <1>4 DEF Atomic!vars, TheList, TheHeld, IsDone
<1>5. ASSUME NEW c \in Cores, Elsewhere(c) PROVE [Atomic!Next]_(Atomic!vars)
  <2>1. TheList' = TheList /\ TheHeld' = TheHeld
    BY <1>1, <1>5, ElsewhereKeeps DEF TheList, TheHeld
  <2>2. CASE Call(c)
    <3>1. op[c] = "none"
      BY <1>1, <2>2 DEF Call, Calls
    <3>2. PICK f \in {"insert_at_head", "insert_after_head", "insert_tail", "add_woken",
                      "detach_head", "for_core", "wakey_wakey"} : op' = [op EXCEPT ![c] = f]
      BY <2>2 DEF Call, OneItemInserts, Inserts, Takes
    <3>3. IsDone' = IsDone
      <4>1. pc' = [pc EXCEPT ![c] = "read"] /\ pc[c] = "outside" /\ pc \in [Cores -> Places]
        BY <1>1, <2>2 DEF Call, Goto, IInv, TypeOK
      <4>2. \A d \in Cores : (pc'[d] \in {"release", "signal"}) = (pc[d] \in {"release", "signal"})
        BY <4>1
      <4> QED BY <4>2, Zenon DEF IsDone
    <3>4. Atomic!Call(c)
      BY <2>1, <3>1, <3>2, <3>3 DEF Atomic!Call, TheList, TheHeld, IsDone
    <3> QED BY <3>4 DEF Atomic!Next
  <2>3. CASE signal_event(c)
    <3>1. /\ pc' = [pc EXCEPT ![c] = "outside"] /\ pc[c] = "signal" /\ pc \in [Cores -> Places]
          /\ op' = [op EXCEPT ![c] = "none"]
      BY <1>1, <2>3 DEF signal_event, Goto, IInv, TypeOK
    <3>3. IsDone[c]
      BY <3>1 DEF IsDone
    <3>4. IsDone' = [IsDone EXCEPT ![c] = FALSE]
      <4>1. \A d \in Cores : d # c => (pc'[d] \in {"release", "signal"}) = (pc[d] \in {"release", "signal"})
        BY <3>1
      <4>2. (pc'[c] \in {"release", "signal"}) = FALSE
        BY <3>1
      <4> QED BY <4>1, <4>2, Zenon DEF IsDone
    <3>2. Atomic!Return(c)
      BY <2>1, <3>1, <3>3, <3>4 DEF Atomic!Return, TheList, TheHeld, IsDone
    <3> QED BY <3>2 DEF Atomic!Next
  <2>4. CASE Read(c) \/ wait_for_event(c) \/ Lock(c) \/ CasFails(c) \/ Release(c)
    <3>1. IsDone' = IsDone /\ op' = op
      BY <1>1, <2>4 DEF Read, wait_for_event, Lock, CasFails, Release, Goto, IsDone, IInv, TypeOK
    <3> QED BY <1>4, <2>1, <3>1
  <2> QED BY <1>5, <2>2, <2>3, <2>4 DEF Elsewhere
<1>6. ASSUME NEW c \in Cores, Update(c) \/ InsertIntoEmpty(c)
      PROVE  [Atomic!Next]_(Atomic!vars)
  <2>1. PICK new, has :
          /\ Does(c, list, held[c], new, has)
          /\ Describes(Memory_', ListPointer', hold', new, [held EXCEPT ![c] = has])
    BY <1>1, <1>2, <1>6, StepDescribed
  <2>2. TheList' = new /\ TheHeld' = [held EXCEPT ![c] = has]
    BY <2>1, DescribedIs DEF TheList, TheHeld
  <2>3. op[c] # "none" /\ op' = op /\ ~IsDone[c] /\ IsDone' = [IsDone EXCEPT ![c] = TRUE]
    BY <1>1, <1>6 DEF Update, InsertIntoEmpty, Goto, IsDone, IInv, TypeOK, Calls
  <2>4. Atomic!Do(c)
    BY <1>3, <2>1, <2>2, <2>3, DoesIsDo
  <2> QED BY <2>4 DEF Atomic!Next
<1>7. ASSUME UNCHANGED vars PROVE [Atomic!Next]_(Atomic!vars)
  <2>1. TheList' = TheList /\ TheHeld' = TheHeld /\ IsDone' = IsDone /\ op' = op
    BY <1>7 DEF vars, TheList, TheHeld, IsDone, Memory_, ListPointer, Works
  <2> QED BY <1>4, <2>1
<1> QED BY <1>5, <1>6, <1>7 DEF Next, Step, Elsewhere

\* For any number of cores and items, a function of mpsafe_dll.h is one atomic
\* operation on a sequence: what its loops, exclusive stores and pointers do is
\* what AtomicList says, whatever the other cores do in between.
THEOREM OperationsAreAtomic == Spec => IsAtomic
<1>1. RInv /\ [Next]_vars => RInv'
  BY NextRInv
<1> QED BY InitAtomic, StepAtomic, LinksInvariant, <1>1, PTL DEF Spec, IsAtomic, Atomic!Spec
===============================================================================

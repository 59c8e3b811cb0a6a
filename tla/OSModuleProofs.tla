----------------------------- MODULE OSModuleProofs -----------------------------
(***************************************************************************)
(* Proofs about OSModule: the list of modules is whole, the handlers a     *)
(* module registers are its own, no SWI gets to a module that is not       *)
(* ready, and every module is told of a service.                           *)
(***************************************************************************)
EXTENDS OSModule, ListLemmas

\* A struct module, when n have been allocated.
Module(n) ==
  [header : Headers, next : 0 .. n, instances : 0 .. n, base : 0 .. n,
   preferred : 0 .. n, handlers : 0 .. n]

Closed(ms) == ms \in Seq(Module(Len(ms)))

-----------------------------------------------------------------------------
\* The walk that List makes: along next, and then it stays at 0.
After(x) == IF x = 0 THEN 0 ELSE mods[x].next

Along(m) ==
  LET at[k \in 0 .. Len(mods)] ==
        IF k = 0 THEN m ELSE IF at[k - 1] = 0 THEN 0 ELSE mods[at[k - 1]].next
  IN  at

\* What List is, with a name for the walk.
LEMMA ListUnfolds ==
  ASSUME NEW m
  PROVE  List(m) = [k \in 1 .. Cardinality({j \in DOMAIN Along(m) : Along(m)[j] # 0})
                      |-> Along(m)[k - 1]]
  BY Zenon DEF List, Along

\* Every link leads to a module or nowhere.
LEMMA LinksStay ==
  ASSUME Closed(mods)
  PROVE  /\ Len(mods) \in Nat /\ Modules = 1 .. Len(mods)
         /\ \A x \in Modules : mods[x] \in Module(Len(mods))
         /\ \A x \in 0 .. Len(mods) : After(x) \in 0 .. Len(mods)
<1> DEFINE n == Len(mods)
<1>1. mods \in Seq(Module(n))
  BY DEF Closed
<1>2. n \in Nat /\ Modules = 1 .. n /\ \A x \in 1 .. n : mods[x] \in Module(n)
  <2> HIDE DEF n
  <2>1. Len(mods) \in Nat /\ DOMAIN mods = 1 .. Len(mods)
        /\ \A x \in 1 .. Len(mods) : mods[x] \in Module(n)
    BY <1>1, LenProperties, ElementOfSeq
  <2> QED BY <2>1 DEF Modules, n
<1> HIDE DEF n
<1>3. ASSUME NEW x \in 0 .. n PROVE After(x) \in 0 .. n
  <2>1. CASE x = 0
    BY <2>1, <1>2 DEF After
  <2>2. CASE x # 0
    <3>1. x \in 1 .. n
      BY <1>2, <2>2
    <3>2. mods[x].next \in 0 .. n
      BY <1>2, <3>1 DEF Module
    <3> QED BY <2>2, <3>2 DEF After
  <2> QED BY <2>1, <2>2
<1> QED BY <1>2, <1>3 DEF n

\* There is such a walk, of any length.
LEMMA ThereIsAWalk ==
  ASSUME Closed(mods), NEW m \in 0 .. Len(mods), NEW l \in Nat
  PROVE  \E f \in [0 .. l -> 0 .. Len(mods)] :
           f[0] = m /\ \A k \in 1 .. l : f[k] = After(f[k - 1])
<1> DEFINE n == Len(mods)
           Is(f, k) == /\ f \in [0 .. k -> 0 .. n]
                       /\ f[0] = m /\ \A j \in 1 .. k : f[j] = After(f[j - 1])
           T == {k \in Nat : ~ \E f : Is(f, k)}
<1>1. n \in Nat /\ \A x \in 0 .. n : After(x) \in 0 .. n
  BY LinksStay
<1> HIDE DEF n
<1>2. ASSUME T # {} PROVE FALSE
  <2>1. PICK k \in T : \A j \in T : k <= j
    <3>1. T \subseteq Nat
      OBVIOUS
    <3> HIDE DEF T
    <3> QED BY <1>2, <3>1, LeastNumber, Zenon
  <2>2. k \in Nat /\ ~ \E f : Is(f, k)
    BY <2>1
  <2>3. CASE k = 0
    <3> DEFINE f == [j \in 0 .. 0 |-> m]
    <3>1. f \in [0 .. 0 -> 0 .. n] /\ f[0] = m
      BY DEF n
    <3>2. \A j \in 1 .. 0 : FALSE
      OBVIOUS
    <3> HIDE DEF f
    <3>3. Is(f, 0)
      BY <3>1, <3>2
    <3> QED BY <2>2, <2>3, <3>3
  <2>4. CASE k # 0
    <3>1. k - 1 \in Nat /\ ~ (k <= k - 1)
      BY <2>2, <2>4
    <3>2. k - 1 \notin T
      BY <2>1, <3>1
    <3>3. PICK f : Is(f, k - 1)
      BY <3>1, <3>2
    <3> DEFINE g == [j \in 0 .. k |-> IF j = k THEN After(f[k - 1]) ELSE f[j]]
    <3>4. /\ 0 \in 0 .. k - 1 /\ k - 1 \in 0 .. k - 1 /\ k \in 0 .. k
          /\ \A j \in 0 .. k : j # k => j \in 0 .. k - 1
          /\ \A j \in 1 .. k : j # k => j \in 1 .. k - 1
          /\ \A j \in 1 .. k : j - 1 \in 0 .. k /\ j - 1 # k /\ j \in 0 .. k
          /\ 0 \in 0 .. k /\ 0 # k
      BY <2>2, <2>4
    <3>5. g \in [0 .. k -> 0 .. n]
      BY <1>1, <3>3, <3>4
    <3>6. g[0] = m
      BY <3>3, <3>4
    <3>7. ASSUME NEW j \in 1 .. k PROVE g[j] = After(g[j - 1])
      <4>1. g[j - 1] = f[j - 1]
        BY <3>4
      <4>2. CASE j = k
        BY <3>4, <4>1, <4>2
      <4>3. CASE j # k
        <5>1. g[j] = f[j]
          BY <3>4, <4>3
        <5>2. f[j] = After(f[j - 1])
          BY <3>3, <3>4, <4>3
        <5> QED BY <4>1, <5>1, <5>2
      <4> QED BY <4>2, <4>3
    <3> HIDE DEF g
    <3>8. Is(g, k)
      BY <3>5, <3>6, <3>7
    <3> QED BY <2>2, <3>8
  <2> QED BY <2>3, <2>4
<1>3. \E f : Is(f, l)
  BY <1>2
<1> QED BY <1>3 DEF n

\* So Along is one.
LEMMA AlongWalks ==
  ASSUME Closed(mods), NEW m \in 0 .. Len(mods)
  PROVE  /\ Along(m) \in [0 .. Len(mods) -> 0 .. Len(mods)]
         /\ Along(m)[0] = m
         /\ \A k \in 1 .. Len(mods) : Along(m)[k] = After(Along(m)[k - 1])
<1> DEFINE n == Len(mods)
           w == Along(m)
<1>1. n \in Nat /\ \A x \in 0 .. n : After(x) \in 0 .. n
  BY LinksStay
<1>2. PICK f \in [0 .. n -> 0 .. n] :
        f[0] = m /\ \A k \in 1 .. n : f[k] = After(f[k - 1])
  BY <1>1, ThereIsAWalk
<1>3. f = [k \in 0 .. n |-> IF k = 0 THEN m
                            ELSE IF f[k - 1] = 0 THEN 0 ELSE mods[f[k - 1]].next]
  <2> SUFFICES ASSUME NEW k \in 0 .. n
               PROVE f[k] = IF k = 0 THEN m
                            ELSE IF f[k - 1] = 0 THEN 0 ELSE mods[f[k - 1]].next
    BY <1>2
  <2> HIDE DEF n
  <2>1. k # 0 => k \in 1 .. n
    BY <1>1
  <2> QED BY <1>2, <2>1 DEF After
<1>4. w = [k \in 0 .. n |-> IF k = 0 THEN m
                            ELSE IF w[k - 1] = 0 THEN 0 ELSE mods[w[k - 1]].next]
  BY <1>3, Zenon DEF Along
<1> HIDE DEF w, n
<1>5. w[0] = m
  BY <1>1, <1>4
<1>6. ASSUME NEW k \in 1 .. n PROVE w[k] = After(w[k - 1])
  <2>1. k \in 0 .. n /\ k # 0
    BY <1>1
  <2> QED BY <1>4, <2>1 DEF After
<1>7. \A k \in 0 .. n : w[k] \in 0 .. n
  <2> DEFINE T == {k \in 0 .. n : w[k] \notin 0 .. n}
  <2> SUFFICES ASSUME T # {} PROVE FALSE
    OBVIOUS
  <2>1. PICK k \in T : \A j \in T : k <= j
    <3>1. T \subseteq Nat
      BY <1>1
    <3> HIDE DEF T
    <3> QED BY <3>1, LeastNumber, Zenon
  <2>2. k \in 0 .. n /\ w[k] \notin 0 .. n
    BY <2>1
  <2>3. k # 0
    BY <1>5, <2>2 DEF n
  <2>4. k \in 1 .. n /\ k - 1 \in 0 .. n /\ ~ (k <= k - 1)
    BY <1>1, <2>2, <2>3
  <2>5. w[k - 1] \in 0 .. n
    BY <2>1, <2>4
  <2> QED BY <1>1, <1>6, <2>2, <2>4, <2>5
<1>8. w \in [0 .. n -> 0 .. n]
  <2>1. w = [k \in 0 .. n |-> w[k]]
    BY <1>4, Zenon
  <2> QED BY <1>7, <2>1
<1> QED BY <1>5, <1>6, <1>8 DEF w, n

\* The modules before the walk's first 0 are the list.
LEMMA ListIsAPrefix ==
  ASSUME Closed(mods), NEW m \in 0 .. Len(mods)
  PROVE  \E c \in 0 .. Len(mods) + 1 :
           /\ \A k \in 0 .. Len(mods) : Along(m)[k] # 0 <=> k < c
           /\ List(m) = [k \in 1 .. c |-> Along(m)[k - 1]]
<1> DEFINE n == Len(mods)
           w == Along(m)
           T == {k \in 0 .. n : w[k] = 0}
           S == {k \in 0 .. n : w[k] # 0}
<1>1. n \in Nat
  BY LinksStay
<1>2. w \in [0 .. n -> 0 .. n] /\ \A k \in 1 .. n : w[k] = After(w[k - 1])
  BY AlongWalks
<1>3. List(m) = [k \in 1 .. Cardinality(S) |-> w[k - 1]]
  <2>1. DOMAIN w = 0 .. n
    BY <1>2
  <2>2. {j \in DOMAIN w : w[j] # 0} = S
    BY <2>1, Zenon
  <2> HIDE DEF S
  <2> QED BY <2>2, ListUnfolds, Zenon DEF w
<1> HIDE DEF w, n
<1>4. PICK c \in 0 .. n + 1 : \A k \in 0 .. n : w[k] # 0 <=> k < c
  <2>1. CASE T = {}
    <3>1. n + 1 \in 0 .. n + 1 /\ \A k \in 0 .. n : k < n + 1
      BY <1>1
    <3>2. \A k \in 0 .. n : w[k] # 0 <=> k < n + 1
      BY <2>1, <3>1
    <3> QED BY <3>1, <3>2
  <2>2. CASE T # {}
    <3>1. PICK c \in T : \A j \in T : c <= j
      <4>1. T \subseteq Nat
        BY <1>1
      <4> HIDE DEF T
      <4> QED BY <2>2, <4>1, LeastNumber, Zenon
    <3>2. c \in 0 .. n /\ w[c] = 0 /\ c \in 0 .. n + 1
      BY <1>1, <3>1
    <3>3. ASSUME NEW k \in 0 .. n, k < c PROVE w[k] # 0
      <4>1. ~ (c <= k)
        BY <1>1, <3>2, <3>3
      <4> QED BY <3>1, <4>1
    <3>4. ASSUME NEW k \in 0 .. n, ~ (k < c) PROVE w[k] = 0
      <4> DEFINE U == {j \in 0 .. n : ~ (j < c) /\ w[j] # 0}
      <4> SUFFICES ASSUME U # {} PROVE FALSE
        BY <3>4
      <4>1. PICK j \in U : \A i \in U : j <= i
        <5>1. U \subseteq Nat
          BY <1>1
        <5> HIDE DEF U
        <5> QED BY <5>1, LeastNumber, Zenon
      <4>2. j \in 0 .. n /\ ~ (j < c) /\ w[j] # 0
        BY <4>1
      <4>3. j # c
        BY <3>2, <4>2
      <4>4. j \in 1 .. n /\ j - 1 \in 0 .. n /\ ~ (j - 1 < c) /\ ~ (j <= j - 1)
        BY <1>1, <3>2, <4>2, <4>3
      <4>5. w[j - 1] = 0
        BY <4>1, <4>4
      <4> QED BY <1>2, <4>2, <4>4, <4>5 DEF After
    <3> QED BY <3>2, <3>3, <3>4
  <2> QED BY <2>1, <2>2
<1>5. Cardinality(S) = c
  <2>1. S = 0 .. c - 1
    BY <1>1, <1>4
  <2>2. 0 \in Int /\ c - 1 \in Int
    BY <1>1, <1>4
  <2>3. Cardinality(0 .. c - 1) = IF 0 > c - 1 THEN 0 ELSE ((c - 1) - 0) + 1
    BY <2>2, FS_Interval
  <2>4. (IF 0 > c - 1 THEN 0 ELSE ((c - 1) - 0) + 1) = c
    BY <1>1, <1>4
  <2> QED BY <2>1, <2>3, <2>4
<1> QED BY <1>3, <1>4, <1>5 DEF w, n

\* A list is a sequence of modules, also one that has a cycle.
LEMMA ListsHaveModules ==
  ASSUME Closed(mods), NEW m \in 0 .. Len(mods)
  PROVE  List(m) \in Seq(Modules)
<1> DEFINE n == Len(mods)
           w == Along(m)
<1>1. n \in Nat /\ Modules = 1 .. n
  BY LinksStay
<1>2. PICK c \in 0 .. n + 1 : /\ \A k \in 0 .. n : w[k] # 0 <=> k < c
                              /\ List(m) = [k \in 1 .. c |-> w[k - 1]]
  BY ListIsAPrefix
<1>3. \A k \in 0 .. n : w[k] \in 0 .. n
  BY AlongWalks
<1> HIDE DEF w, n
<1>4. c \in Nat
  BY <1>1, <1>2
<1>5. ASSUME NEW k \in 1 .. c PROVE w[k - 1] \in Modules
  <2>1. k - 1 \in 0 .. n /\ k - 1 < c
    BY <1>1, <1>2
  <2> QED BY <1>1, <1>2, <1>3, <2>1
<1> QED BY <1>2, <1>4, <1>5

\* Modules that are linked, each once, are the list of the first.
LEMMA LinkedIsList ==
  ASSUME Closed(mods), NEW q \in Seq(Modules), IsInjective(q),
         NEW m, m = IF q = <<>> THEN 0 ELSE q[1],
         \A k \in 1 .. Len(q) :
           mods[q[k]].next = IF k = Len(q) THEN 0 ELSE q[k + 1]
  PROVE  List(m) = q
<1> DEFINE n == Len(mods)
           l == Len(q)
           w == Along(m)
<1>1. n \in Nat /\ Modules = 1 .. n
  BY LinksStay
<1>2. l \in Nat /\ DOMAIN q = 1 .. l /\ (q = <<>> <=> l = 0)
      /\ \A k \in 1 .. l : q[k] \in 1 .. n
  <2>1. l \in Nat /\ DOMAIN q = 1 .. l /\ (q = <<>> <=> l = 0)
    BY LenProperties, EmptySeq
  <2>2. \A k \in 1 .. l : q[k] \in Modules
    BY ElementOfSeq
  <2> QED BY <1>1, <2>1, <2>2
<1>3. l <= n
  <2>1. q \in Injection(1 .. l, 1 .. n)
    <3>1. q \in [1 .. l -> 1 .. n]
      BY <1>1, <1>2, LenProperties
    <3> QED BY <3>1 DEF Injection, IsInjective
  <2> HIDE DEF l, n
  <2>2. IsFiniteSet(1 .. l) /\ Cardinality(1 .. l) = l
    <3>1. l \in Nat
      BY <1>2
    <3> QED BY ONLY <3>1, FS_Interval
  <2>3. IsFiniteSet(1 .. n) /\ Cardinality(1 .. n) = n
    BY <1>1, FS_Interval
  <2> QED BY <1>1, <1>2, <2>1, <2>2, <2>3, FS_Injection
<1>4. m \in 0 .. n
  <2> HIDE DEF l, n
  <2>1. l # 0 => 1 \in 1 .. l
    BY <1>2
  <2> QED BY <1>1, <1>2, <2>1
<1>5. w[0] = m /\ \A k \in 1 .. n : w[k] = After(w[k - 1])
  BY <1>4, AlongWalks
<1>6. PICK c \in 0 .. n + 1 : /\ \A k \in 0 .. n : w[k] # 0 <=> k < c
                              /\ List(m) = [k \in 1 .. c |-> w[k - 1]]
  BY <1>4, ListIsAPrefix
<1>7. \A k \in 1 .. l : mods[q[k]].next = IF k = l THEN 0 ELSE q[k + 1]
  OBVIOUS
<1>8. m = IF q = <<>> THEN 0 ELSE q[1]
  OBVIOUS
<1> HIDE DEF w, n, l
<1>9. \A k \in 1 .. l : w[k - 1] = q[k]
  <2> DEFINE T == {k \in 1 .. l : w[k - 1] # q[k]}
  <2> SUFFICES ASSUME T # {} PROVE FALSE
    OBVIOUS
  <2>1. PICK k \in T : \A j \in T : k <= j
    <3>1. T \subseteq Nat
      BY <1>2
    <3> HIDE DEF T
    <3> QED BY <3>1, LeastNumber, Zenon
  <2>2. k \in 1 .. l /\ w[k - 1] # q[k]
    BY <2>1
  <2>3. CASE k = 1
    <3>1. l # 0
      BY <1>2, <2>2
    <3> QED BY <1>2, <1>5, <1>8, <2>2, <2>3, <3>1
  <2>4. CASE k # 1
    <3>1. k - 1 \in 1 .. l /\ ~ (k <= k - 1) /\ k - 1 # l /\ (k - 1) + 1 = k
          /\ k - 1 \in 1 .. n
      BY <1>1, <1>2, <1>3, <2>2, <2>4
    <3>2. w[(k - 1) - 1] = q[k - 1]
      BY <2>1, <3>1
    <3>3. w[k - 1] = After(q[k - 1])
      BY <1>5, <3>1, <3>2
    <3>4. After(q[k - 1]) = mods[q[k - 1]].next
      <4>1. q[k - 1] # 0
        BY <1>1, <1>2, <3>1
      <4> QED BY <4>1 DEF After
    <3>5. mods[q[k - 1]].next = q[k]
      BY <1>7, <3>1
    <3> QED BY <2>2, <3>3, <3>4, <3>5
  <2> QED BY <2>3, <2>4
<1>10. l \in 0 .. n => w[l] = 0
  <2>1. CASE l = 0
    BY <1>2, <1>5, <1>8, <2>1
  <2>2. CASE l # 0
    <3>1. l \in 1 .. l /\ l \in 1 .. n
      BY <1>1, <1>2, <1>3, <2>2
    <3>2. w[l] = After(q[l])
      BY <1>5, <1>9, <3>1
    <3>3. q[l] # 0
      BY <1>1, <1>2, <3>1
    <3> QED BY <1>7, <3>1, <3>2, <3>3 DEF After
  <2> QED BY <2>1, <2>2
<1>11. c = l
  <2>1. l \in 0 .. n
    BY <1>1, <1>2, <1>3
  <2>2. ~ (l < c)
    BY <1>6, <1>10, <2>1
  <2>3. ~ (c < l)
    <3> SUFFICES ASSUME c < l PROVE FALSE
      OBVIOUS
    <3>1. c + 1 \in 1 .. l /\ c \in 0 .. n /\ (c + 1) - 1 = c /\ ~ (c < c)
      BY <1>1, <1>2, <1>3, <1>6
    <3>2. w[c] = q[c + 1] /\ q[c + 1] # 0
      BY <1>1, <1>2, <1>9, <3>1
    <3> QED BY <1>6, <3>1, <3>2
  <2> QED BY <1>1, <1>2, <1>6, <2>2, <2>3
<1>12. q = [k \in 1 .. l |-> q[k]]
  BY <1>2, LenProperties DEF l
<1>13. [k \in 1 .. l |-> w[k - 1]] = [k \in 1 .. l |-> q[k]]
  BY <1>9, Zenon
<1> QED BY <1>6, <1>11, <1>12, <1>13

\* What is found is a module with that header.
LEMMA FoundIsThere ==
  ASSUME Closed(mods), modules \in 0 .. Len(mods), NEW h
  PROVE  /\ find(h) \in 0 .. Len(mods)
         /\ find(h) # 0 =>
              \E k \in DOMAIN List(modules) :
                /\ find(h) = List(modules)[k] /\ mods[find(h)].header = h
                /\ \A j \in DOMAIN List(modules) :
                     mods[List(modules)[j]].header = h => k <= j
         /\ find(h) = 0 => \A k \in DOMAIN List(modules) : mods[List(modules)[k]].header # h
<1> DEFINE list == List(modules)
           found == {k \in DOMAIN list : mods[list[k]].header = h}
           k == CHOOSE k \in found : \A j \in found : k <= j
<1>1. /\ list \in Seq(Modules) /\ Modules = 1 .. Len(mods) /\ Len(mods) \in Nat
      /\ Len(list) \in Nat /\ DOMAIN list = 1 .. Len(list)
      /\ \A j \in DOMAIN list : list[j] \in Modules
  <2>1. list \in Seq(Modules) /\ Modules = 1 .. Len(mods) /\ Len(mods) \in Nat
    BY LinksStay, ListsHaveModules
  <2> HIDE DEF list
  <2> QED BY <2>1, LenProperties, ElementOfSeq
<1>2. find(h) = IF found = {} THEN 0 ELSE list[k]
  BY DEF find
<1> HIDE DEF list
<1>3. CASE found = {}
  BY <1>1, <1>2, <1>3 DEF list
<1>4. CASE found # {}
  <2>1. k \in found /\ \A j \in found : k <= j
    <3>1. found \subseteq Nat
      BY <1>1
    <3> HIDE DEF found
    <3> QED BY <1>4, <3>1, LeastNumber, Zenon
  <2>2. find(h) = list[k]
    BY <1>2, <1>4
  <2> HIDE DEF k
  <2>3. k \in DOMAIN list /\ mods[list[k]].header = h /\ list[k] \in Modules
    BY <1>1, <2>1
  <2>4. find(h) \in 0 .. Len(mods) /\ find(h) # 0
    BY <1>1, <2>2, <2>3
  <2>5. \A j \in DOMAIN list : mods[list[j]].header = h => k <= j
    BY <2>1
  <2> QED BY <2>2, <2>3, <2>4, <2>5 DEF list
<1> QED BY <1>3, <1>4

-----------------------------------------------------------------------------
\* What each step does to the struct modules, field by field.

\* One link is set.
LEMMA NextIsSet ==
  ASSUME NEW n \in Nat, NEW ms \in Seq(Module(n)), NEW b \in 1 .. Len(ms), NEW x \in 0 .. n
  PROVE  LET t == [ms EXCEPT ![b].next = x]
         IN  /\ t \in Seq(Module(n)) /\ Len(t) = Len(ms)
             /\ \A y \in 1 .. Len(ms) :
                  /\ t[y].header = ms[y].header /\ t[y].base = ms[y].base
                  /\ t[y].handlers = ms[y].handlers
                  /\ t[y].preferred = ms[y].preferred
                  /\ t[y].instances = ms[y].instances
                  /\ t[y].next = IF y = b THEN x ELSE ms[y].next
<1> DEFINE e == [ms[b] EXCEPT !.next = x]
           t == [ms EXCEPT ![b] = e]
<1>1. ms[b] \in Module(n)
  BY ElementOfSeq
<1>2. /\ e \in Module(n) /\ e.header = ms[b].header /\ e.base = ms[b].base
      /\ e.handlers = ms[b].handlers /\ e.preferred = ms[b].preferred
      /\ e.instances = ms[b].instances /\ e.next = x
  BY <1>1 DEF Module
<1> HIDE DEF e
<1>3. /\ t \in Seq(Module(n)) /\ Len(t) = Len(ms)
      /\ \A y \in 1 .. Len(ms) : t[y] = IF y = b THEN e ELSE ms[y]
  BY <1>2, ExceptSeq
<1> HIDE DEF t
<1>4. \A y \in 1 .. Len(ms) :
        /\ t[y].header = ms[y].header /\ t[y].base = ms[y].base
        /\ t[y].handlers = ms[y].handlers
        /\ t[y].preferred = ms[y].preferred
        /\ t[y].instances = ms[y].instances
        /\ t[y].next = IF y = b THEN x ELSE ms[y].next
  BY <1>2, <1>3
<1> QED BY <1>3, <1>4 DEF t, e

\* The list of instances is begun.
LEMMA InstancesIsSet ==
  ASSUME NEW n \in Nat, NEW ms \in Seq(Module(n)), NEW b \in 1 .. Len(ms), NEW x \in 0 .. n
  PROVE  LET t == [ms EXCEPT ![b].instances = x]
         IN  /\ t \in Seq(Module(n)) /\ Len(t) = Len(ms)
             /\ \A y \in 1 .. Len(ms) :
                  /\ t[y].header = ms[y].header /\ t[y].base = ms[y].base
                  /\ t[y].handlers = ms[y].handlers
                  /\ t[y].preferred = ms[y].preferred
                  /\ t[y].next = ms[y].next
                  /\ t[y].instances = IF y = b THEN x ELSE ms[y].instances
<1> DEFINE e == [ms[b] EXCEPT !.instances = x]
           t == [ms EXCEPT ![b] = e]
<1>1. ms[b] \in Module(n)
  BY ElementOfSeq
<1>2. /\ e \in Module(n) /\ e.header = ms[b].header /\ e.base = ms[b].base
      /\ e.handlers = ms[b].handlers /\ e.preferred = ms[b].preferred
      /\ e.next = ms[b].next /\ e.instances = x
  BY <1>1 DEF Module
<1> HIDE DEF e
<1>3. /\ t \in Seq(Module(n)) /\ Len(t) = Len(ms)
      /\ \A y \in 1 .. Len(ms) : t[y] = IF y = b THEN e ELSE ms[y]
  BY <1>2, ExceptSeq
<1> HIDE DEF t
<1>4. \A y \in 1 .. Len(ms) :
        /\ t[y].header = ms[y].header /\ t[y].base = ms[y].base
        /\ t[y].handlers = ms[y].handlers
        /\ t[y].preferred = ms[y].preferred
        /\ t[y].next = ms[y].next
        /\ t[y].instances = IF y = b THEN x ELSE ms[y].instances
  BY <1>2, <1>3
<1> QED BY <1>3, <1>4 DEF t, e

\* Another instance is preferred.
LEMMA PreferredIsSet ==
  ASSUME NEW n \in Nat, NEW ms \in Seq(Module(n)), NEW b \in 1 .. Len(ms), NEW x \in 0 .. n
  PROVE  LET t == [ms EXCEPT ![b].preferred = x]
         IN  /\ t \in Seq(Module(n)) /\ Len(t) = Len(ms)
             /\ \A y \in 1 .. Len(ms) :
                  /\ t[y].header = ms[y].header /\ t[y].base = ms[y].base
                  /\ t[y].handlers = ms[y].handlers
                  /\ t[y].next = ms[y].next
                  /\ t[y].instances = ms[y].instances
                  /\ t[y].preferred = IF y = b THEN x ELSE ms[y].preferred
<1> DEFINE e == [ms[b] EXCEPT !.preferred = x]
           t == [ms EXCEPT ![b] = e]
<1>1. ms[b] \in Module(n)
  BY ElementOfSeq
<1>2. /\ e \in Module(n) /\ e.header = ms[b].header /\ e.base = ms[b].base
      /\ e.handlers = ms[b].handlers /\ e.instances = ms[b].instances
      /\ e.next = ms[b].next /\ e.preferred = x
  BY <1>1 DEF Module
<1> HIDE DEF e
<1>3. /\ t \in Seq(Module(n)) /\ Len(t) = Len(ms)
      /\ \A y \in 1 .. Len(ms) : t[y] = IF y = b THEN e ELSE ms[y]
  BY <1>2, ExceptSeq
<1> HIDE DEF t
<1>4. \A y \in 1 .. Len(ms) :
        /\ t[y].header = ms[y].header /\ t[y].base = ms[y].base
        /\ t[y].handlers = ms[y].handlers
        /\ t[y].next = ms[y].next
        /\ t[y].instances = ms[y].instances
        /\ t[y].preferred = IF y = b THEN x ELSE ms[y].preferred
  BY <1>2, <1>3
<1> QED BY <1>3, <1>4 DEF t, e

\* Handlers are registered.
LEMMA HandlersAreSet ==
  ASSUME NEW n \in Nat, NEW ms \in Seq(Module(n)), NEW b \in 1 .. Len(ms), NEW x \in 0 .. n
  PROVE  LET t == [ms EXCEPT ![b].handlers = x]
         IN  /\ t \in Seq(Module(n)) /\ Len(t) = Len(ms)
             /\ \A y \in 1 .. Len(ms) :
                  /\ t[y].header = ms[y].header /\ t[y].base = ms[y].base
                  /\ t[y].preferred = ms[y].preferred
                  /\ t[y].next = ms[y].next
                  /\ t[y].instances = ms[y].instances
                  /\ t[y].handlers = IF y = b THEN x ELSE ms[y].handlers
<1> DEFINE e == [ms[b] EXCEPT !.handlers = x]
           t == [ms EXCEPT ![b] = e]
<1>1. ms[b] \in Module(n)
  BY ElementOfSeq
<1>2. /\ e \in Module(n) /\ e.header = ms[b].header /\ e.base = ms[b].base
      /\ e.preferred = ms[b].preferred /\ e.instances = ms[b].instances
      /\ e.next = ms[b].next /\ e.handlers = x
  BY <1>1 DEF Module
<1> HIDE DEF e
<1>3. /\ t \in Seq(Module(n)) /\ Len(t) = Len(ms)
      /\ \A y \in 1 .. Len(ms) : t[y] = IF y = b THEN e ELSE ms[y]
  BY <1>2, ExceptSeq
<1> HIDE DEF t
<1>4. \A y \in 1 .. Len(ms) :
        /\ t[y].header = ms[y].header /\ t[y].base = ms[y].base
        /\ t[y].preferred = ms[y].preferred
        /\ t[y].next = ms[y].next
        /\ t[y].instances = ms[y].instances
        /\ t[y].handlers = IF y = b THEN x ELSE ms[y].handlers
  BY <1>2, <1>3
<1> QED BY <1>3, <1>4 DEF t, e

\* A module with header h and base b, or none, is allocated.  Where base b had no
\* instances nothing else is linked: Quiet.
Grows(ms, h, b) ==
  LET m == Len(mods) + 1
  IN  /\ Closed(ms) /\ Len(ms) = m
      /\ ms[m] = New(h, b, IF b = 0 THEN m ELSE 0)
      /\ \A x \in Modules :
           /\ ms[x].header = mods[x].header /\ ms[x].base = mods[x].base
           /\ ms[x].handlers = mods[x].handlers
           /\ ms[x].preferred = IF x = b THEN m ELSE mods[x].preferred

Quiet(ms, b) ==
  \A x \in Modules :
    /\ ms[x].next = mods[x].next
    /\ ms[x].instances = IF x = b THEN Len(mods) + 1 ELSE mods[x].instances

\* Modules that are already there stay closed, and a new one comes.
LEMMA OneMore ==
  ASSUME NEW ms, ms \in Seq(Module(Len(mods) + 1)), Len(ms) = Len(mods), Len(mods) \in Nat,
         NEW r \in Module(Len(mods) + 1)
  PROVE  LET t == Append(ms, r)
         IN  /\ Closed(t) /\ Len(t) = Len(mods) + 1 /\ t[Len(mods) + 1] = r
             /\ \A x \in 1 .. Len(mods) : t[x] = ms[x]
<1> DEFINE t == Append(ms, r)
           n == Len(mods) + 1
<1>1. /\ t \in Seq(Module(n)) /\ Len(t) = Len(ms) + 1 /\ t[Len(ms) + 1] = r
      /\ \A x \in 1 .. Len(ms) : t[x] = ms[x]
  <2> HIDE DEF n
  <2>1. ms \in Seq(Module(n)) /\ r \in Module(n)
    BY DEF n
  <2> QED BY ONLY <2>1, AppendProperties
<1> QED BY <1>1 DEF Closed

\* More modules, more links: the struct modules keep their type.
LEMMA WiderModules ==
  ASSUME NEW n \in Nat
  PROVE  Module(n) \subseteq Module(n + 1) /\ Seq(Module(n)) \subseteq Seq(Module(n + 1))
<1>1. Module(n) \subseteq Module(n + 1)
  <2>1. 0 .. n \subseteq 0 .. n + 1
    OBVIOUS
  <2> QED BY <2>1 DEF Module
<1>2. ASSUME NEW s \in Seq(Module(n)) PROVE s \in Seq(Module(n + 1))
  <2>1. Len(s) \in Nat /\ \A i \in 1 .. Len(s) : s[i] \in Module(n + 1)
    BY <1>1, LenProperties, ElementOfSeq
  <2>2. s \in [1 .. Len(s) -> Module(n)]
    BY LenProperties
  <2>3. s \in [1 .. Len(s) -> Module(n + 1)]
    BY <1>1, <2>2
  <2> QED BY <2>1, <2>3
<1> QED BY <1>1, <1>2

\* A module without a postfix: nothing but it is new.
LEMMA NewModule ==
  ASSUME Closed(mods), NEW h \in Headers
  PROVE  Grows(new_module(h), h, 0) /\ Quiet(new_module(h), 0)
<1> DEFINE n == Len(mods)
           r == New(h, 0, n + 1)
           t == new_module(h)
<1>1. n \in Nat /\ Modules = 1 .. n /\ mods \in Seq(Module(n + 1))
  BY LinksStay, WiderModules DEF Closed
<1>2. r \in Module(n + 1)
  BY <1>1 DEF New, Module
<1>3. /\ Closed(t) /\ Len(t) = n + 1 /\ t[n + 1] = r
      /\ \A x \in 1 .. n : t[x] = mods[x]
  BY <1>1, <1>2, OneMore DEF new_module
<1> HIDE DEF t, n
<1>4. \A x \in 1 .. n : x # 0
  BY <1>1
<1> QED BY <1>1, <1>3, <1>4 DEF Grows, Quiet, n, t

\* One with a postfix: its base prefers it, and has it in its instances.
LEMMA NewInstance ==
  ASSUME Closed(mods), modules \in 0 .. Len(mods), NEW h \in Headers, find(h) # 0
  PROVE  /\ Grows(new_instance(h), h, find(h))
         /\ mods[find(h)].instances = 0 => Quiet(new_instance(h), find(h))
<1> DEFINE n == Len(mods)
           b == find(h)
           m == n + 1
           i == List(mods[b].instances)
           linked == IF i = <<>> THEN [mods EXCEPT ![b].instances = m]
                                 ELSE [mods EXCEPT ![Last(i)].next = m]
           ms == [linked EXCEPT ![b].preferred = m]
           r == New(h, b, 0)
           t == Append(ms, r)
<1>0. new_instance(h) = t
  BY DEF new_instance
<1>1. /\ n \in Nat /\ m = n + 1 /\ m \in Nat /\ m \in 0 .. m
      /\ Modules = 1 .. n /\ mods \in Seq(Module(m))
      /\ \A x \in 1 .. n : mods[x] \in Module(n)
  BY LinksStay, WiderModules DEF Closed
<1>2. b \in 1 .. n
  <2>1. b \in 0 .. n
    BY FoundIsThere
  <2> QED BY <1>1, <2>1
<1>3. mods[b].instances \in 0 .. n
  BY <1>1, <1>2 DEF Module
<1>4. /\ i # <<>> => Last(i) \in 1 .. n
      /\ mods[b].instances = 0 => i = <<>>
  <2>1. i \in Seq(1 .. n)
    BY <1>1, <1>3, ListsHaveModules
  <2>2. i # <<>> => Last(i) \in 1 .. n
    <3> HIDE DEF i, n
    <3>1. i # <<>> => Len(i) \in 1 .. Len(i)
      BY <2>1, LenProperties, EmptySeq
    <3> QED BY <2>1, <3>1, ElementOfSeq DEF Last
  <2>3. ASSUME mods[b].instances = 0 PROVE i = <<>>
    <3>1. <<>> \in Seq(Modules) /\ IsInjective(<<>>) /\ Len(<<>>) = 0
          /\ \A k \in 1 .. Len(<<>>) : FALSE
      BY ShortLists
    <3> DEFINE e == <<>>
    <3> HIDE DEF e
    <3>2. List(0) = e
      <4>1. e \in Seq(Modules) /\ IsInjective(e) /\ (\A k \in 1 .. Len(e) : FALSE)
            /\ 0 = IF e = <<>> THEN 0 ELSE e[1]
        BY <3>1 DEF e
      <4> QED BY <4>1, LinkedIsList
    <3> QED BY <2>3, <3>2 DEF e
  <2> QED BY <2>2, <2>3
<1> HIDE DEF n, b, i, m
<1>5. /\ linked \in Seq(Module(m)) /\ Len(linked) = n
      /\ \A x \in 1 .. n :
           /\ linked[x].header = mods[x].header /\ linked[x].base = mods[x].base
           /\ linked[x].handlers = mods[x].handlers
           /\ linked[x].preferred = mods[x].preferred
           /\ i = <<>> => /\ linked[x].next = mods[x].next
                          /\ linked[x].instances = IF x = b THEN m ELSE mods[x].instances
  <2>0. Len(mods) = n
    BY DEF n
  <2>1. CASE i = <<>>
    <3> DEFINE u == [mods EXCEPT ![b].instances = m]
    <3>1. /\ u \in Seq(Module(m)) /\ Len(u) = n
          /\ \A x \in 1 .. n :
               /\ u[x].header = mods[x].header /\ u[x].base = mods[x].base
               /\ u[x].handlers = mods[x].handlers
               /\ u[x].preferred = mods[x].preferred
               /\ u[x].next = mods[x].next
               /\ u[x].instances = IF x = b THEN m ELSE mods[x].instances
      BY <1>1, <1>2, <2>0, InstancesIsSet
    <3>2. linked = u
      BY <2>1
    <3> HIDE DEF u, linked
    <3> QED BY <3>1, <3>2
  <2>2. CASE i # <<>>
    <3> DEFINE u == [mods EXCEPT ![Last(i)].next = m]
    <3>1. /\ u \in Seq(Module(m)) /\ Len(u) = n
          /\ \A x \in 1 .. n :
               /\ u[x].header = mods[x].header /\ u[x].base = mods[x].base
               /\ u[x].handlers = mods[x].handlers
               /\ u[x].preferred = mods[x].preferred
      BY <1>1, <1>4, <2>0, <2>2, NextIsSet
    <3>2. linked = u
      BY <2>2
    <3> HIDE DEF u, linked
    <3> QED BY <2>2, <3>1, <3>2
  <2> QED BY <2>1, <2>2
<1> HIDE DEF linked
<1>6. /\ ms \in Seq(Module(m)) /\ Len(ms) = n
      /\ \A x \in 1 .. n :
           /\ ms[x].header = linked[x].header /\ ms[x].base = linked[x].base
           /\ ms[x].handlers = linked[x].handlers
           /\ ms[x].next = linked[x].next
           /\ ms[x].instances = linked[x].instances
           /\ ms[x].preferred = IF x = b THEN m ELSE linked[x].preferred
  BY SMTT(20), <1>1, <1>2, <1>5, PreferredIsSet
<1> HIDE DEF ms
<1>7. r \in Module(m)
  BY <1>1, <1>2 DEF New, Module
<1>8. /\ Closed(t) /\ Len(t) = m /\ t[m] = r
      /\ \A x \in 1 .. n : t[x] = ms[x]
  <2>1. Len(mods) + 1 = m /\ Len(mods) = n
    BY <1>1 DEF n
  <2> QED BY <1>1, <1>6, <1>7, <2>1, OneMore
<1> HIDE DEF t
<1>9. \A x \in 1 .. n :
        /\ t[x].header = mods[x].header /\ t[x].base = mods[x].base
        /\ t[x].handlers = mods[x].handlers
        /\ t[x].preferred = IF x = b THEN m ELSE mods[x].preferred
        /\ i = <<>> => /\ t[x].next = mods[x].next
                       /\ t[x].instances = IF x = b THEN m ELSE mods[x].instances
  BY <1>5, <1>6, <1>8
<1>10. b # 0
  BY <1>1, <1>2
<1>11. Grows(t, h, b)
  BY <1>1, <1>8, <1>9, <1>10 DEF Grows, n
<1>12. mods[b].instances = 0 => Quiet(t, b)
  BY <1>1, <1>4, <1>9 DEF Quiet, n
<1> QED BY <1>0, <1>11, <1>12 DEF b

\* A module goes to the end of the list.
LEMMA ModuleListed ==
  ASSUME NEW ms, Closed(ms), NEW m \in 1 .. Len(ms), last \in 0 .. Len(ms),
         modules \in 0 .. Len(ms), append(ms, m)
  PROVE  /\ Closed(mods') /\ Len(mods') = Len(ms)
         /\ \A x \in 1 .. Len(ms) :
              /\ mods'[x].header = ms[x].header /\ mods'[x].base = ms[x].base
              /\ mods'[x].handlers = ms[x].handlers
              /\ mods'[x].preferred = ms[x].preferred
              /\ mods'[x].instances = ms[x].instances
              /\ mods'[x].next = IF x = last THEN m ELSE ms[x].next
         /\ last' = m /\ last' \in 0 .. Len(ms) /\ modules' \in 0 .. Len(ms)
         /\ modules' = IF modules = 0 THEN m ELSE modules
<1> DEFINE n == Len(ms)
<1>1. ms \in Seq(Module(n)) /\ n \in Nat /\ m \in 0 .. n
  <2>1. ms \in Seq(Module(n)) /\ n \in Nat
    BY LenProperties DEF Closed
  <2> HIDE DEF n
  <2> QED BY <2>1 DEF n
<1>2. /\ mods' = IF last = 0 THEN ms ELSE [ms EXCEPT ![last].next = m]
      /\ last' = m /\ modules' = IF modules = 0 THEN m ELSE modules
  BY Zenon DEF append
<1>3. CASE last = 0
  <2>1. \A x \in 1 .. n : x # last
    BY <1>1, <1>3
  <2>2. mods' = ms
    BY <1>2, <1>3, Zenon
  <2>3. last' \in 0 .. n /\ modules' \in 0 .. n /\ modules' = IF modules = 0 THEN m ELSE modules
    BY <1>1, <1>2
  <2> HIDE DEF n
  <2>4. Closed(ms) /\ Len(ms) = n
    BY DEF n
  <2>5. last' = m
    BY <1>2
  <2> QED BY <2>1, <2>2, <2>3, <2>4, <2>5 DEF n
<1>4. CASE last # 0
  <2> DEFINE t == [ms EXCEPT ![last].next = m]
  <2>1. last \in 1 .. n
    BY <1>1, <1>4
  <2>2. /\ t \in Seq(Module(n)) /\ Len(t) = n
        /\ \A y \in 1 .. n :
             /\ t[y].header = ms[y].header /\ t[y].base = ms[y].base
             /\ t[y].handlers = ms[y].handlers
             /\ t[y].preferred = ms[y].preferred
             /\ t[y].instances = ms[y].instances
             /\ t[y].next = IF y = last THEN m ELSE ms[y].next
    BY <1>1, <2>1, NextIsSet
  <2>3. mods' = t
    BY <1>2, <1>4, Zenon
  <2>4. last' \in 0 .. n /\ modules' \in 0 .. n /\ modules' = IF modules = 0 THEN m ELSE modules
    BY <1>1, <1>2
  <2> HIDE DEF t, n
  <2>5. Closed(mods') /\ Len(mods') = n
    BY <2>2, <2>3 DEF Closed
  <2>6. last' = m
    BY <1>2
  <2> QED BY <2>2, <2>3, <2>4, <2>5, <2>6 DEF n
<1> QED BY <1>3, <1>4

-----------------------------------------------------------------------------
\* What loads do to the frames.
Pushed(fs, f, gs) ==
  Len(gs) = Len(fs) + 1 /\ gs[1] = f /\ \A i \in 1 .. Len(fs) : gs[i + 1] = fs[i]
Replaced(fs, f, gs) ==
  Len(gs) = Len(fs) /\ gs[1] = f /\ \A i \in 2 .. Len(fs) : gs[i] = fs[i]
Popped(fs, gs) ==
  Len(gs) = Len(fs) - 1 /\ \A i \in 1 .. Len(fs) - 1 : gs[i] = fs[i + 1]

\* What the sequence operators of the frames do.
LEMMA FramePushed ==
  ASSUME NEW S, NEW fs \in Seq(S), NEW f \in S
  PROVE  <<f>> \o fs \in Seq(S) /\ Pushed(fs, f, <<f>> \o fs)
<1> DEFINE l == <<f>>
           n == Len(fs)
<1>1. l \in Seq(S) /\ Len(l) = 1 /\ l[1] = f /\ n \in Nat
  BY LenProperties
<1>2. /\ l \o fs \in Seq(S) /\ Len(l \o fs) = 1 + n
      /\ \A i \in 1 .. 1 + n : (l \o fs)[i] = IF i <= 1 THEN l[i] ELSE fs[i - 1]
  <2>1. l \in Seq(S) /\ fs \in Seq(S) /\ Len(l) = 1
    BY <1>1
  <2> QED BY <2>1, ConcatProperties
<1> HIDE DEF l, n
<1>3. 1 \in 1 .. 1 + n /\ \A i \in 1 .. n : i + 1 \in 1 .. 1 + n /\ ~ (i + 1 <= 1)
                                            /\ (i + 1) - 1 = i
  BY <1>1
<1>4. (l \o fs)[1] = f /\ \A i \in 1 .. n : (l \o fs)[i + 1] = fs[i]
  BY <1>1, <1>2, <1>3
<1>5. 1 + n = n + 1
  BY <1>1
<1> QED BY <1>2, <1>4, <1>5 DEF Pushed, l, n

\* The innermost frame is the first.
LEMMA FramePopped ==
  ASSUME NEW S, NEW fs \in Seq(S), fs # <<>>
  PROVE  /\ Tail(fs) \in Seq(S) /\ Popped(fs, Tail(fs)) /\ Head(fs) \in S
         /\ Head(fs) = fs[1] /\ Len(fs) \in Nat \ {0} /\ 1 \in 1 .. Len(fs)
<1>1. /\ Tail(fs) \in Seq(S) /\ Len(fs) \in Nat /\ Len(fs) # 0
      /\ Head(fs) = fs[1] /\ Head(fs) \in S
      /\ Len(Tail(fs)) = Len(fs) - 1
      /\ \A i \in 1 .. Len(Tail(fs)) : Tail(fs)[i] = fs[i + 1]
  BY HeadTailProperties, LenProperties, EmptySeq
<1> QED BY <1>1 DEF Popped

\* It changes, in either of the ways it is written.
LEMMA FrameReplaced ==
  ASSUME NEW S, NEW fs \in Seq(S), NEW f \in S, fs # <<>>
  PROVE  /\ <<f>> \o Tail(fs) \in Seq(S) /\ Replaced(fs, f, <<f>> \o Tail(fs))
         /\ [fs EXCEPT ![1] = f] \in Seq(S) /\ Replaced(fs, f, [fs EXCEPT ![1] = f])
<1> DEFINE t == Tail(fs)
           g == <<f>> \o t
           h == [fs EXCEPT ![1] = f]
           n == Len(fs)
<1>1. /\ t \in Seq(S) /\ Len(t) = n - 1 /\ n \in Nat \ {0} /\ 1 \in 1 .. n
      /\ \A i \in 1 .. n - 1 : t[i] = fs[i + 1]
  BY FramePopped DEF Popped
<1>2. /\ h \in Seq(S) /\ Len(h) = n
      /\ \A j \in 1 .. n : h[j] = IF j = 1 THEN f ELSE fs[j]
  BY <1>1, ExceptSeq
<1> HIDE DEF t
<1>3. g \in Seq(S) /\ Len(g) = Len(t) + 1 /\ g[1] = f
      /\ \A i \in 1 .. Len(t) : g[i + 1] = t[i]
  BY <1>1, FramePushed DEF Pushed
<1> HIDE DEF g, h, n
<1>4. \A i \in 2 .. n : i \in 1 .. n /\ i # 1 /\ i - 1 \in 1 .. n - 1 /\ (i - 1) + 1 = i
  BY <1>1
<1>5. \A i \in 2 .. n : h[i] = fs[i]
  BY <1>2, <1>4
<1>6. \A i \in 2 .. n : g[i] = fs[i]
  <2> SUFFICES ASSUME NEW i \in 2 .. n PROVE g[i] = fs[i]
    OBVIOUS
  <2> DEFINE j == i - 1
  <2>1. j \in 1 .. n - 1 /\ j + 1 = i
    BY <1>4
  <2> HIDE DEF j
  <2>2. j \in 1 .. Len(t)
    BY <1>1, <2>1
  <2>3. g[j + 1] = t[j] /\ t[j] = fs[j + 1]
    BY <1>1, <1>3, <2>1, <2>2
  <2> QED BY <2>1, <2>3
<1>7. Len(g) = n /\ h[1] = f
  BY <1>1, <1>2, <1>3
<1> QED BY <1>2, <1>3, <1>5, <1>6, <1>7 DEF Replaced, g, h, n, t

-----------------------------------------------------------------------------
\* The types of the variables, when n modules have been allocated.
InitFrame(n) == [kind : {"init"}, m : 1 .. n, old : 0 .. n, registered : BOOLEAN]
WalkFrame(n) == [kind : {"walk"}, at : 0 .. n, inst : 0 .. n, told : Seq(1 .. n)]
ToldFrame(n) == [kind : {"told"}, at : 1 .. n, inst : 0 .. n, told : Seq(1 .. n)]
Frame(n) == InitFrame(n) \cup WalkFrame(n) \cup ToldFrame(n)

Typed ==
  /\ Closed(mods)
  /\ modules \in 0 .. Len(mods)
  /\ last \in 0 .. Len(mods)
  /\ in_init \in 0 .. Len(mods)
  /\ frames \in Seq(Frame(Len(mods)))
  /\ finished \in Seq(1 .. Len(mods))
  /\ direct \subseteq Headers

\* Frames keep their type when a module is allocated.
LEMMA WiderFrames ==
  ASSUME NEW n \in Nat
  PROVE  Seq(Frame(n)) \subseteq Seq(Frame(n + 1)) /\ Seq(1 .. n) \subseteq Seq(1 .. n + 1)
<1>1. 0 .. n \subseteq 0 .. n + 1 /\ 1 .. n \subseteq 1 .. n + 1
  OBVIOUS
<1>2. Seq(1 .. n) \subseteq Seq(1 .. n + 1)
  BY <1>1, WiderSequences
<1>3. Frame(n) \subseteq Frame(n + 1)
  <2>1. InitFrame(n) \subseteq InitFrame(n + 1)
    BY <1>1 DEF InitFrame
  <2>2. WalkFrame(n) \subseteq WalkFrame(n + 1)
    BY <1>1, <1>2 DEF WalkFrame
  <2>3. ToldFrame(n) \subseteq ToldFrame(n + 1)
    BY <1>1, <1>2 DEF ToldFrame
  <2> QED BY <2>1, <2>2, <2>3 DEF Frame
<1> QED BY <1>2, <1>3, WiderSequences

\* The first frame has the type its kind says.
LEMMA FirstFrame ==
  ASSUME Typed, frames # <<>>
  PROVE  LET f == Head(frames)
             n == Len(mods)
         IN  /\ f \in Frame(n) /\ f = frames[1] /\ Len(frames) \in Nat \ {0}
             /\ f.kind = "init" => f \in InitFrame(n)
             /\ f.kind = "walk" => f \in WalkFrame(n)
             /\ f.kind = "told" => f \in ToldFrame(n)
<1>1. /\ Head(frames) \in Frame(Len(mods)) /\ Head(frames) = frames[1]
      /\ Len(frames) \in Nat \ {0}
  BY FramePopped DEF Typed
<1>2. "init" # "walk" /\ "init" # "told" /\ "walk" # "told"
  OBVIOUS
<1> QED BY <1>1, <1>2 DEF Frame, InitFrame, WalkFrame, ToldFrame

-----------------------------------------------------------------------------
\* A load, with or without a postfix, of a module that has initialisation code...
Begun(m) == [kind |-> "init", m |-> m, old |-> in_init, registered |-> FALSE]

Begins(h, b) ==
  /\ Grows(mods', h, b)
  /\ (b # 0 => mods[b].instances = 0) => Quiet(mods', b)
  /\ in_init' = Len(mods) + 1
  /\ frames' \in Seq(Frame(Len(mods) + 1))
  /\ Pushed(frames, Begun(Len(mods) + 1), frames')
  /\ UNCHANGED <<modules, last, finished, stopped>>

\* ... and of one that has not.
Arrives(h, b) ==
  \E ms : /\ Grows(ms, h, b)
          /\ (b # 0 => mods[b].instances = 0) => Quiet(ms, b)
          /\ append(ms, Len(mods) + 1)
          /\ finished' = Append(finished, Len(mods) + 1)
          /\ UNCHANGED <<in_init, frames, stopped>>

\* Without a base the core stops.
HasNoBase ==
  stopped' = "no base" /\ UNCHANGED <<mods, modules, last, in_init, frames, finished>>

LoadsOf(h, b) ==
  /\ MayLoad /\ Len(mods) < MaxModules
  /\ b # 0 => b = find(h)
  /\ Begins(h, b) \/ Arrives(h, b)

\* What run_initialisation_code leaves behind, with and without such code.
LEMMA Started ==
  ASSUME Typed, NEW h \in Headers, NEW b \in 0 .. Len(mods), NEW ms, Grows(ms, h, b),
         (b # 0 => mods[b].instances = 0) => Quiet(ms, b),
         Starts(ms, Len(mods) + 1), UNCHANGED stopped
  PROVE  Begins(h, b) \/ Arrives(h, b)
<1> DEFINE n == Len(mods)
           m == n + 1
           f == Begun(m)
<1>1. n \in Nat /\ ms[m] = New(h, b, IF b = 0 THEN m ELSE 0) /\ m \in 1 .. n + 1
      /\ in_init \in 0 .. n + 1
  <2>1. n \in Nat /\ in_init \in 0 .. n
    BY LinksStay DEF Typed
  <2> HIDE DEF n
  <2> QED BY <2>1 DEF Grows, n
<1>2. ms[m].header = h
  BY <1>1 DEF New
<1>3. CASE h \in HasInit
  <2>1. /\ mods' = ms /\ in_init' = m /\ frames' = <<f>> \o frames
        /\ UNCHANGED <<modules, last, finished>>
    BY <1>2, <1>3 DEF Starts, Begun
  <2>2. f \in Frame(n + 1)
    <3> HIDE DEF n
    <3> QED BY <1>1 DEF Begun, Frame, InitFrame
  <2>3. frames \in Seq(Frame(n + 1))
    BY <1>1, WiderFrames DEF Typed
  <2> HIDE DEF f
  <2>4. frames' \in Seq(Frame(n + 1)) /\ Pushed(frames, f, frames')
    BY <2>1, <2>2, <2>3, FramePushed
  <2> QED BY <2>1, <2>4 DEF Begins, f
<1>4. CASE h \notin HasInit
  <2>1. append(ms, m) /\ finished' = Append(finished, m) /\ UNCHANGED <<in_init, frames>>
    BY <1>2, <1>4, Zenon DEF Starts
  <2> QED BY <2>1, Zenon DEF Arrives
<1> QED BY <1>3, <1>4

\* Every load finds no base, or is one of the two.
LEMMA Loads ==
  ASSUME Typed,
         (\E h \in Headers : Load(h)) \/ (\E h \in Instanced : LoadInstance(h))
  PROVE  HasNoBase \/ \E h \in Headers, b \in 0 .. Len(mods) : LoadsOf(h, b)
<1>1. Closed(mods) /\ modules \in 0 .. Len(mods) /\ 0 \in 0 .. Len(mods)
  BY LinksStay DEF Typed
<1>2. ASSUME NEW h \in Headers, Load(h) PROVE LoadsOf(h, 0)
  <2>1. Grows(new_module(h), h, 0) /\ Quiet(new_module(h), 0)
    BY <1>1, NewModule
  <2>2. MayLoad /\ Len(mods) < MaxModules /\ Starts(new_module(h), Len(mods) + 1)
        /\ UNCHANGED stopped
    BY <1>2 DEF Load
  <2>3. Begins(h, 0) \/ Arrives(h, 0)
    BY <1>1, <2>1, <2>2, Started
  <2> QED BY <2>2, <2>3 DEF LoadsOf
<1>3. ASSUME NEW h \in Instanced, LoadInstance(h) PROVE HasNoBase \/ LoadsOf(h, find(h))
  <2>1. CASE find(h) = 0
    BY <1>3, <2>1 DEF LoadInstance, HasNoBase
  <2>2. CASE find(h) # 0
    <3>1. h \in Headers
      BY HeadersAssumption
    <3>2. find(h) \in 0 .. Len(mods)
      BY <1>1, FoundIsThere
    <3>3. /\ Grows(new_instance(h), h, find(h))
          /\ mods[find(h)].instances = 0 => Quiet(new_instance(h), find(h))
      BY <1>1, <2>2, <3>1, NewInstance
    <3>4. MayLoad /\ Len(mods) < MaxModules
          /\ Starts(new_instance(h), Len(mods) + 1) /\ UNCHANGED stopped
      BY <1>3, <2>2 DEF LoadInstance
    <3>5. Begins(h, find(h)) \/ Arrives(h, find(h))
      BY <2>2, <3>1, <3>2, <3>3, <3>4, Started
    <3> QED BY <3>4, <3>5 DEF LoadsOf
  <2> QED BY <2>1, <2>2
<1>4. \A h \in Instanced : h \in Headers
  BY HeadersAssumption
<1>5. \A h \in Instanced : find(h) \in 0 .. Len(mods)
  BY <1>1, FoundIsThere
<1> QED BY <1>1, <1>2, <1>3, <1>4, <1>5

\* What an init frame leaves when its code returns.
PostInit == [kind |-> "walk", at |-> modules', inst |-> 0, told |-> <<>>]

\* At first there are no modules.
LEMMA TypedInit == Init => Typed
<1> SUFFICES ASSUME Init PROVE Typed
  OBVIOUS
<1>1. /\ mods = <<>> /\ modules = 0 /\ last = 0 /\ in_init = 0 /\ frames = <<>>
      /\ finished = <<>> /\ direct = {}
  BY DEF Init
<1>2. <<>> \in Seq(Module(0)) /\ <<>> \in Seq(Frame(0)) /\ <<>> \in Seq(1 .. 0) /\ Len(<<>>) = 0
  OBVIOUS
<1> QED BY <1>1, <1>2 DEF Typed, Closed

\* A load allocates one module.
LEMMA TypedLoads ==
  ASSUME Typed, NEW h \in Headers, NEW b \in 0 .. Len(mods), LoadsOf(h, b), UNCHANGED direct
  PROVE  Typed' /\ Len(mods') = Len(mods) + 1
<1> DEFINE n == Len(mods)
           m == n + 1
<1>1. /\ n \in Nat /\ modules \in 0 .. n + 1 /\ last \in 0 .. n + 1 /\ in_init \in 0 .. n + 1
      /\ m \in 1 .. n + 1 /\ m \in 0 .. n + 1
      /\ frames \in Seq(Frame(n + 1)) /\ finished \in Seq(1 .. n + 1)
  <2>1. n \in Nat
    BY LinksStay DEF Typed
  <2>2. modules \in 0 .. n /\ last \in 0 .. n /\ in_init \in 0 .. n
        /\ frames \in Seq(Frame(n)) /\ finished \in Seq(1 .. n)
    BY DEF Typed
  <2> HIDE DEF n
  <2>3. frames \in Seq(Frame(n + 1)) /\ finished \in Seq(1 .. n + 1)
    BY <2>1, <2>2, WiderFrames
  <2> QED BY <2>1, <2>2, <2>3
<1>2. CASE Begins(h, b)
  <2>1. Closed(mods') /\ Len(mods') = m
    BY <1>2 DEF Begins, Grows
  <2>2. /\ in_init' = m /\ frames' \in Seq(Frame(n + 1))
        /\ UNCHANGED <<modules, last, finished>>
    BY <1>2 DEF Begins
  <2> HIDE DEF n
  <2> QED BY <1>1, <2>1, <2>2 DEF Typed, n
<1>3. CASE Arrives(h, b)
  <2>1. PICK ms : /\ Grows(ms, h, b) /\ append(ms, m)
                  /\ finished' = Append(finished, m)
                  /\ UNCHANGED <<in_init, frames>>
    BY <1>3 DEF Arrives
  <2>2. Closed(ms) /\ Len(ms) = m
    BY <2>1 DEF Grows
  <2> HIDE DEF n
  <2>3. /\ Closed(mods') /\ Len(mods') = m
        /\ last' \in 0 .. n + 1 /\ modules' \in 0 .. n + 1
    BY <1>1, <2>1, <2>2, ModuleListed
  <2>4. finished' \in Seq(1 .. n + 1)
    BY <1>1, <2>1, AppendProperties
  <2> QED BY <1>1, <2>1, <2>3, <2>4 DEF Typed, n
<1> QED BY <1>2, <1>3 DEF LoadsOf

\* Only what is registered changes.
Registers ==
  LET f == Head(frames)
  IN  /\ frames # <<>> /\ f.kind = "init" /\ ~f.registered
      /\ Replaced(frames, [f EXCEPT !.registered = TRUE], frames')
      /\ Len(mods') = Len(mods)
      /\ \A x \in Modules :
           /\ mods'[x].header = mods[x].header /\ mods'[x].base = mods[x].base
           /\ mods'[x].preferred = mods[x].preferred /\ mods'[x].next = mods[x].next
           /\ mods'[x].instances = mods[x].instances
           /\ mods'[x].handlers = IF x = in_init /\ mods[x].handlers = 0 THEN f.m
                                                                      ELSE mods[x].handlers
      /\ stopped' = IF in_init = 0 \/ mods[in_init].handlers # 0 THEN "registered twice"
                                                                ELSE stopped
      /\ UNCHANGED <<modules, last, in_init, finished>>

\* TaskOpRegisterSWIHandlers allocates none, and is Registers.
LEMMA TypedRegisters ==
  ASSUME Typed, RegisterSWIHandlers, UNCHANGED direct
  PROVE  Registers /\ Typed'
<1> DEFINE n == Len(mods)
           f == Head(frames)
           g == [f EXCEPT !.registered = TRUE]
<1>1. n \in Nat /\ mods \in Seq(Module(n)) /\ Modules = 1 .. n /\ Closed(mods)
  BY LinksStay DEF Typed, Closed
<1>2. frames # <<>> /\ f.kind = "init" /\ ~f.registered
  BY DEF RegisterSWIHandlers
<1>3. f \in InitFrame(n) /\ f = frames[1] /\ Len(frames) \in Nat \ {0}
  BY <1>2, FirstFrame
<1>4. g \in InitFrame(n) /\ g \in Frame(n) /\ f.m \in 1 .. n /\ f.m \in 0 .. n
  <2> HIDE DEF n, f
  <2>1. f.m \in 1 .. n /\ f.m \in 0 .. n
    BY <1>1, <1>3 DEF InitFrame
  <2>2. g \in InitFrame(n)
    BY <1>3, Zenon DEF InitFrame
  <2> QED BY <2>1, <2>2 DEF Frame
<1>5. frames' = [frames EXCEPT ![1] = g]
  <2>1. frames' = [frames EXCEPT ![1].registered = TRUE]
    BY DEF RegisterSWIHandlers
  <2> QED BY <1>3, <2>1
<1>6. frames' \in Seq(Frame(n)) /\ Replaced(frames, g, frames')
  <2> HIDE DEF g
  <2>1. frames \in Seq(Frame(n))
    BY DEF Typed
  <2> HIDE DEF n
  <2> QED BY <1>2, <1>4, <1>5, <2>1, FrameReplaced
<1>7. UNCHANGED <<modules, last, in_init, finished>>
  BY DEF RegisterSWIHandlers
<1> HIDE DEF g
<1>8. CASE in_init = 0 \/ mods[in_init].handlers # 0
  <2>1. stopped' = "registered twice" /\ UNCHANGED mods
    BY <1>8 DEF RegisterSWIHandlers
  <2>2. \A x \in Modules : ~ (x = in_init /\ mods[x].handlers = 0)
    BY <1>1, <1>8
  <2>3. Typed'
    BY <1>6, <1>7, <2>1 DEF Typed
  <2> QED BY <1>2, <1>6, <1>7, <1>8, <2>1, <2>2, <2>3 DEF Registers, g
<1>9. CASE in_init # 0 /\ mods[in_init].handlers = 0
  <2>1. mods' = [mods EXCEPT ![in_init].handlers = f.m] /\ UNCHANGED stopped
    BY <1>9 DEF RegisterSWIHandlers
  <2>2. in_init \in 1 .. n
    <3>1. in_init \in 0 .. n
      BY DEF Typed
    <3> QED BY <1>1, <1>9, <3>1
  <2> HIDE DEF f
  <2>3. /\ mods' \in Seq(Module(n)) /\ Len(mods') = n
        /\ \A x \in 1 .. n :
             /\ mods'[x].header = mods[x].header /\ mods'[x].base = mods[x].base
             /\ mods'[x].preferred = mods[x].preferred /\ mods'[x].next = mods[x].next
             /\ mods'[x].instances = mods[x].instances
             /\ mods'[x].handlers = IF x = in_init THEN f.m ELSE mods[x].handlers
    BY <1>1, <1>4, <2>1, <2>2, HandlersAreSet
  <2>4. Closed(mods')
    BY <2>3 DEF Closed
  <2>5. Typed'
    <3>1. modules' \in 0 .. n /\ last' \in 0 .. n /\ in_init' \in 0 .. n
          /\ finished' \in Seq(1 .. n) /\ direct' \subseteq Headers
      BY <1>7 DEF Typed
    <3> HIDE DEF n
    <3> QED BY <1>6, <2>3, <2>4, <3>1 DEF Typed
  <2>6. \A x \in Modules :
          mods'[x].handlers = IF x = in_init /\ mods[x].handlers = 0 THEN f.m
                                                                  ELSE mods[x].handlers
    BY <1>1, <1>9, <2>3
  <2>7. ~ (in_init = 0 \/ mods[in_init].handlers # 0)
    BY <1>9
  <2> QED BY <1>1, <1>2, <1>6, <1>7, <2>1, <2>3, <2>5, <2>6, <2>7 DEF Registers, g, f
<1> QED BY <1>8, <1>9

\* The module is listed, and its frame is that of a walk.
Succeeds ==
  LET f == Head(frames)
  IN  /\ stopped = "no"
      /\ frames # <<>> /\ f.kind = "init"
      /\ append(mods, f.m)
      /\ in_init' = f.old
      /\ finished' = Append(finished, f.m)
      /\ Replaced(frames, PostInit, frames')
      /\ UNCHANGED stopped

\* Initialisation code that succeeds is Succeeds.
LEMMA TypedSucceeds ==
  ASSUME Typed, InitSucceeds, UNCHANGED direct
  PROVE  Succeeds /\ Typed' /\ Len(mods') = Len(mods)
<1> DEFINE n == Len(mods)
           f == Head(frames)
<1>1. n \in Nat /\ Closed(mods) /\ last \in 0 .. n /\ modules \in 0 .. n
      /\ frames \in Seq(Frame(n)) /\ finished \in Seq(1 .. n) /\ direct \subseteq Headers
  BY LinksStay DEF Typed
<1>2. /\ frames # <<>> /\ f.kind = "init" /\ append(mods, f.m) /\ in_init' = f.old
      /\ finished' = Append(finished, f.m) /\ frames' = <<PostInit>> \o Tail(frames)
      /\ stopped = "no" /\ UNCHANGED stopped
  BY DEF InitSucceeds, PostInit
<1>3. f.m \in 1 .. n /\ f.old \in 0 .. n
  <2>1. f \in InitFrame(n)
    BY <1>2, FirstFrame
  <2> HIDE DEF f, n
  <2> QED BY <2>1 DEF InitFrame
<1> HIDE DEF f
<1>4. Closed(mods') /\ Len(mods') = n /\ last' \in 0 .. n /\ modules' \in 0 .. n
  BY <1>1, <1>2, <1>3, ModuleListed
<1> HIDE DEF n
<1>5. PostInit \in Frame(n)
  <2>1. <<>> \in Seq(1 .. n) /\ 0 \in 0 .. n
    BY <1>1
  <2> QED BY <1>4, <2>1 DEF PostInit, Frame, WalkFrame
<1> DEFINE p == PostInit
<1> HIDE DEF p
<1>6. frames' \in Seq(Frame(n)) /\ Replaced(frames, p, frames')
  <2>1. p \in Frame(n) /\ frames' = <<p>> \o Tail(frames)
    BY <1>2, <1>5 DEF p
  <2> QED BY <1>1, <1>2, <2>1, FrameReplaced
<1>7. finished' \in Seq(1 .. n)
  BY <1>1, <1>2, <1>3, AppendProperties
<1>8. Typed'
  BY <1>1, <1>2, <1>3, <1>4, <1>6, <1>7 DEF Typed
<1> QED BY <1>2, <1>4, <1>6, <1>8 DEF Succeeds, f, p, n

\* A frame ends.
Ends ==
  /\ frames # <<>> /\ Popped(frames, frames')
  /\ UNCHANGED <<mods, modules, last, finished>>

\* Code that fails, a call that is claimed and one that is over are Ends.
LEMMA TypedEnds ==
  ASSUME Typed, InitFails \/ Claims \/ WalkEnds, UNCHANGED direct
  PROVE  Ends /\ Typed'
<1>1. frames # <<>> /\ frames' = Tail(frames) /\ UNCHANGED <<mods, modules, last, finished>>
  BY DEF InitFails, Claims, WalkEnds, Walking
<1>2. /\ Tail(frames) \in Seq(Frame(Len(mods))) /\ Popped(frames, Tail(frames))
  BY <1>1, FramePopped DEF Typed
<1>3. in_init' \in 0 .. Len(mods)
  <2>1. CASE InitFails
    <3> DEFINE f == Head(frames)
               n == Len(mods)
    <3>1. in_init' = f.old /\ f.kind = "init"
      BY <2>1 DEF InitFails
    <3>2. f \in InitFrame(n)
      BY <1>1, <3>1, FirstFrame
    <3> HIDE DEF f, n
    <3>3. f.old \in 0 .. n
      BY <3>2 DEF InitFrame
    <3> QED BY <3>1, <3>3 DEF n
  <2>2. CASE Claims \/ WalkEnds
    BY <2>2 DEF Claims, WalkEnds, Typed
  <2> QED BY <2>1, <2>2
<1>4. Typed'
  BY <1>1, <1>2, <1>3 DEF Typed
<1> QED BY <1>1, <1>2, <1>4 DEF Ends

\* A module that does not listen is passed; ...
Passes(f, w) ==
  /\ f.kind = "walk" /\ f.at \in Modules /\ mods[f.at].header \notin HasService
  /\ w.kind = "walk" /\ w.at = mods[f.at].next /\ w.inst = f.inst /\ w.told = f.told
\* ... one that has no instances is called, ...
Calls(f, w) ==
  /\ f.kind = "walk" /\ f.at \in Modules /\ mods[f.at].header \in HasService
  /\ f.inst = 0 /\ mods[f.at].instances = 0
  /\ w.kind = "told" /\ w.at = f.at /\ w.inst = 0 /\ w.told = Append(f.told, f.at)
\* ... and of one that has, an instance is called.
CallsInstance(f, w) ==
  /\ f.kind = "walk" /\ f.at \in Modules /\ mods[f.at].header \in HasService
  /\ f.inst # 0 \/ mods[f.at].instances # 0
  /\ w.kind = "told" /\ w.at = f.at /\ \E i \in Modules : w.told = Append(f.told, i)
\* It returns.
Returns(f, w) ==
  /\ f.kind = "told" /\ f.at \in Modules
  /\ w.kind = "walk" /\ w.inst = f.inst /\ w.told = f.told
  /\ w.at = IF f.inst = 0 THEN mods[f.at].next ELSE f.at

Walked(w) ==
  /\ frames # <<>>
  /\ LET f == Head(frames)
     IN  Passes(f, w) \/ Calls(f, w) \/ CallsInstance(f, w) \/ Returns(f, w)
  /\ Replaced(frames, w, frames')
  /\ UNCHANGED <<mods, modules, last, in_init, finished, stopped>>

\* A service call goes to a module, or passes it.
LEMMA TypedTells ==
  ASSUME Typed, Tell
  PROVE  \E w \in Frame(Len(mods)) :
           Walks(w) /\ LET f == Head(frames)
                       IN  Passes(f, w) \/ Calls(f, w) \/ CallsInstance(f, w)
<1> DEFINE n == Len(mods)
           f == Head(frames)
           m == f.at
           i == IF f.inst # 0 THEN f.inst ELSE mods[m].instances
<1>1. n \in Nat /\ Modules = 1 .. n /\ \A x \in 1 .. n : mods[x] \in Module(n)
  BY LinksStay DEF Typed
<1>2. frames # <<>> /\ f.kind = "walk"
  BY DEF Tell, Walking
<1>3. f \in WalkFrame(n)
  BY <1>2, FirstFrame
<1>4. /\ m # 0
      /\ IF mods[m].header \notin HasService
         THEN Walks([f EXCEPT !.at = mods[m].next])
         ELSE IF i = 0
         THEN Walks([f EXCEPT !.kind = "told", !.told = Append(@, m)])
         ELSE Walks([kind |-> "told", at |-> m,
                     inst |-> mods[i].next, told |-> Append(f.told, i)])
  BY DEF Tell
<1> HIDE DEF n, f
<1>5. /\ m \in 0 .. n /\ f.inst \in 0 .. n /\ f.told \in Seq(1 .. n)
      /\ f = [kind |-> "walk", at |-> f.at, inst |-> f.inst, told |-> f.told]
  BY <1>3 DEF WalkFrame
<1>6. m \in 1 .. n
  BY <1>1, <1>4, <1>5
<1>7. mods[m].next \in 0 .. n /\ mods[m].instances \in 0 .. n
  BY <1>1, <1>6 DEF Module
<1> HIDE DEF m
<1>8. CASE mods[m].header \notin HasService
  <2> DEFINE w == [f EXCEPT !.at = mods[m].next]
  <2>1. w = [kind |-> "walk", at |-> mods[m].next, inst |-> f.inst, told |-> f.told]
    BY <1>5
  <2>2. Walks(w)
    BY <1>4, <1>8
  <2> HIDE DEF w
  <2>3. w \in Frame(n)
    BY <1>5, <1>7, <2>1 DEF Frame, WalkFrame
  <2>4. Passes(f, w)
    BY <1>1, <1>2, <1>6, <1>8, <2>1 DEF Passes, m
  <2> QED BY <2>2, <2>3, <2>4 DEF n, f
<1>9. CASE mods[m].header \in HasService /\ i = 0
  <2> DEFINE w == [f EXCEPT !.kind = "told", !.told = Append(@, m)]
  <2>1. w = [kind |-> "told", at |-> m, inst |-> f.inst, told |-> Append(f.told, m)]
    <3> DEFINE y == Append(f.told, m)
    <3>1. w = [f EXCEPT !.kind = "told", !.told = y]
      OBVIOUS
    <3> HIDE DEF y, w
    <3>2. w = [kind |-> "told", at |-> f.at, inst |-> f.inst, told |-> y]
      BY <1>5, <3>1
    <3> QED BY <3>2 DEF m, y
  <2>2. Walks(w)
    BY <1>4, <1>9
  <2>3. Append(f.told, m) \in Seq(1 .. n)
    BY <1>5, <1>6, AppendProperties
  <2>4. f.inst = 0 /\ mods[m].instances = 0
    BY <1>9
  <2> HIDE DEF w, i
  <2>5. w \in Frame(n)
    BY <1>5, <1>6, <2>1, <2>3 DEF Frame, ToldFrame
  <2>6. Calls(f, w)
    BY <1>1, <1>2, <1>6, <1>9, <2>1, <2>4 DEF Calls, m
  <2> QED BY <2>2, <2>5, <2>6 DEF n, f
<1>10. CASE mods[m].header \in HasService /\ i # 0
  <2> DEFINE w == [kind |-> "told", at |-> m, inst |-> mods[i].next, told |-> Append(f.told, i)]
  <2>1. Walks(w)
    BY <1>4, <1>10
  <2>2. i \in 1 .. n /\ (f.inst # 0 \/ mods[m].instances # 0)
    BY <1>1, <1>5, <1>7, <1>10
  <2> HIDE DEF i
  <2>3. Append(f.told, i) \in Seq(1 .. n)
    BY <1>5, <2>2, AppendProperties
  <2>4. mods[i].next \in 0 .. n
    BY <1>1, <2>2 DEF Module
  <2>5. w \in Frame(n)
    BY <1>6, <2>3, <2>4 DEF Frame, ToldFrame
  <2>6. w.kind = "told" /\ w.at = m /\ w.told = Append(f.told, i)
    OBVIOUS
  <2> HIDE DEF w
  <2>7. CallsInstance(f, w)
    BY <1>1, <1>2, <1>6, <1>10, <2>2, <2>6 DEF CallsInstance, m
  <2> QED BY <2>1, <2>5, <2>7 DEF n, f
<1> QED BY <1>8, <1>9, <1>10

\* It comes back from a module.
LEMMA TypedReturns ==
  ASSUME Typed, ToldReturns
  PROVE  \E w \in Frame(Len(mods)) : Walks(w) /\ Returns(Head(frames), w)
<1> DEFINE n == Len(mods)
           f == Head(frames)
           w == [f EXCEPT !.kind = "walk",
                          !.at = IF f.inst = 0 THEN mods[f.at].next ELSE f.at]
<1>1. n \in Nat /\ Modules = 1 .. n /\ \A x \in 1 .. n : mods[x] \in Module(n)
  BY LinksStay DEF Typed
<1>2. frames # <<>> /\ f.kind = "told" /\ Walks(w)
  BY DEF ToldReturns
<1>3. f \in ToldFrame(n)
  BY <1>2, FirstFrame
<1> HIDE DEF f, n
<1>4. /\ f.at \in 1 .. n /\ f.at \in 0 .. n /\ f.inst \in 0 .. n /\ f.told \in Seq(1 .. n)
      /\ f = [kind |-> "told", at |-> f.at, inst |-> f.inst, told |-> f.told]
  BY <1>1, <1>3 DEF ToldFrame
<1> DEFINE x == IF f.inst = 0 THEN mods[f.at].next ELSE f.at
<1>5. x \in 0 .. n
  <2>1. mods[f.at].next \in 0 .. n
    BY <1>1, <1>4 DEF Module
  <2> QED BY <1>4, <2>1
<1>6. w = [kind |-> "walk", at |-> x, inst |-> f.inst, told |-> f.told]
  <2> HIDE DEF x
  <2>1. w = [f EXCEPT !.kind = "walk", !.at = x]
    BY DEF x
  <2> HIDE DEF w
  <2> QED BY <1>4, <2>1
<1> HIDE DEF w, x
<1>7. w \in Frame(n)
  BY <1>4, <1>5, <1>6 DEF Frame, WalkFrame
<1>8. w.kind = "walk" /\ w.at = x /\ w.inst = f.inst /\ w.told = f.told
  BY <1>6
<1>9. Returns(f, w)
  BY <1>1, <1>2, <1>4, <1>8 DEF Returns, x
<1> QED BY <1>2, <1>7, <1>9 DEF f, n

\* Both are steps of the walk.
LEMMA TypedWalks ==
  ASSUME Typed, Tell \/ ToldReturns, UNCHANGED direct
  PROVE  (\E w \in Frame(Len(mods)) : Walked(w)) /\ Typed'
<1> DEFINE n == Len(mods)
<1>1. PICK w \in Frame(n) :
        Walks(w) /\ LET f == Head(frames)
                    IN  Passes(f, w) \/ Calls(f, w) \/ CallsInstance(f, w) \/ Returns(f, w)
  BY TypedTells, TypedReturns
<1>2. frames # <<>> /\ UNCHANGED <<mods, modules, last, in_init, finished, stopped>>
  BY DEF Tell, ToldReturns, Walking
<1>3. frames \in Seq(Frame(n)) /\ frames' = [frames EXCEPT ![1] = w]
  BY <1>1 DEF Typed, Walks
<1>4. frames' \in Seq(Frame(n)) /\ Replaced(frames, w, frames')
  <2> HIDE DEF n
  <2> QED BY <1>2, <1>3, FrameReplaced
<1>5. Walked(w)
  BY <1>1, <1>2, <1>4 DEF Walked
<1>6. Typed'
  BY <1>2, <1>4 DEF Typed
<1> QED BY <1>5, <1>6

\* The steps of loads, by what they do.
LEMMA StepsOfLoads ==
  ASSUME Typed, Loading, UNCHANGED direct
  PROVE  /\ \/ HasNoBase
            \/ \E h \in Headers, b \in 0 .. Len(mods) : LoadsOf(h, b)
            \/ Registers
            \/ Succeeds /\ Len(mods') = Len(mods)
            \/ Ends /\ (InitFails \/ Claims \/ WalkEnds)
            \/ \E w \in Frame(Len(mods)) : Walked(w)
         /\ Typed'
<1>1. CASE HasNoBase
  BY <1>1 DEF HasNoBase, Typed
<1>2. CASE \E h \in Headers, b \in 0 .. Len(mods) : LoadsOf(h, b)
  BY <1>2, TypedLoads
<1>3. CASE RegisterSWIHandlers
  BY <1>3, TypedRegisters
<1>4. CASE InitSucceeds
  BY <1>4, TypedSucceeds
<1>5. CASE InitFails \/ Claims \/ WalkEnds
  BY <1>5, TypedEnds
<1>6. CASE Tell \/ ToldReturns
  BY <1>6, TypedWalks
<1> QED BY <1>1, <1>2, <1>3, <1>4, <1>5, <1>6, Loads DEF Loading

\* So every step keeps the types.
LEMMA TypedNext == Typed /\ [Next]_vars => Typed'
<1> SUFFICES ASSUME Typed, [Next]_vars PROVE Typed'
  OBVIOUS
<1>1. CASE Loading /\ UNCHANGED direct
  BY <1>1, StepsOfLoads
<1>2. CASE (\E h \in Headers : SwiIsDirect(h)) \/ SwiRuns
  BY <1>2 DEF SwiIsDirect, SwiRuns, loadVars, Typed
<1>3. CASE UNCHANGED vars
  BY <1>3 DEF vars, loadVars, Typed
<1> QED BY <1>1, <1>2, <1>3 DEF Next

-----------------------------------------------------------------------------
\* in_init is the module of the innermost initialisation, and each frame of one
\* holds the module of the next one out.
Nearest(fs, i, k) ==
  /\ i < k /\ fs[k].kind = "init"
  /\ \A j \in 1 .. Len(fs) : i < j /\ j < k => fs[j].kind # "init"

Nesting(fs, x) ==
  /\ \A k \in 1 .. Len(fs) : Nearest(fs, 0, k) => x = fs[k].m
  /\ \A i, k \in 1 .. Len(fs) :
       fs[i].kind = "init" /\ Nearest(fs, i, k) => fs[i].old = fs[k].m

\* A load inside another remembers whose it was.
LEMMA NestingBegins ==
  ASSUME NEW fs, NEW gs, NEW x, NEW f, Len(fs) \in Nat, Nesting(fs, x),
         Pushed(fs, f, gs), f.kind = "init", f.old = x
  PROVE  Nesting(gs, f.m)
<1> DEFINE n == Len(fs)
<1>1. /\ n \in Nat /\ Len(gs) = n + 1 /\ gs[1] = f
      /\ \A i \in 1 .. n : i + 1 \in 1 .. n + 1 /\ gs[i + 1] = fs[i]
  BY DEF Pushed
<1>2. \A k \in 2 .. n + 1 : k - 1 \in 1 .. n /\ k \in 1 .. n + 1 /\ gs[k] = fs[k - 1]
  <2> HIDE DEF n
  <2> TAKE k \in 2 .. n + 1
  <2>1. k - 1 \in 1 .. n /\ (k - 1) + 1 = k /\ k \in 1 .. n + 1
    BY <1>1
  <2>2. gs[(k - 1) + 1] = fs[k - 1]
    BY <1>1, <2>1
  <2> QED BY <2>1, <2>2
<1> HIDE DEF n
<1>3. ASSUME NEW k \in 1 .. n + 1, Nearest(gs, 0, k) PROVE f.m = gs[k].m
  <2>1. CASE k = 1
    BY <1>1, <2>1
  <2>2. CASE k # 1
    <3>1. 1 \in 1 .. n + 1 /\ 0 < 1 /\ 1 < k
      BY <1>1, <2>2
    <3> QED BY <1>1, <1>3, <3>1 DEF Nearest
  <2> QED BY <2>1, <2>2
<1>4. ASSUME NEW i \in 1 .. n + 1, NEW k \in 1 .. n + 1,
             gs[i].kind = "init", Nearest(gs, i, k)
      PROVE  gs[i].old = gs[k].m
  <2>1. k \in 2 .. n + 1 /\ i < k
    BY <1>1, <1>4 DEF Nearest
  <2>2. Nearest(fs, i - 1, k - 1)
    <3>1. i - 1 < k - 1 /\ fs[k - 1].kind = "init"
      BY <1>1, <1>2, <1>4, <2>1 DEF Nearest
    <3>2. ASSUME NEW j \in 1 .. n, i - 1 < j, j < k - 1 PROVE fs[j].kind # "init"
      <4>1. j + 1 \in 1 .. n + 1 /\ i < j + 1 /\ j + 1 < k
        BY <1>1, <3>2
      <4>2. gs[j + 1].kind # "init"
        BY <1>1, <1>4, <4>1 DEF Nearest
      <4> QED BY <1>1, <4>2
    <3> QED BY <3>1, <3>2 DEF Nearest, n
  <2>3. CASE i = 1
    <3>1. x = fs[k - 1].m
      BY <1>2, <2>1, <2>2, <2>3 DEF Nesting, n
    <3> QED BY <1>1, <1>2, <2>1, <2>3, <3>1
  <2>4. CASE i # 1
    <3>1. i \in 2 .. n + 1
      BY <1>1, <2>4
    <3>2. fs[i - 1].old = fs[k - 1].m
      BY <1>2, <1>4, <2>1, <2>2, <3>1 DEF Nesting, n
    <3> QED BY <1>2, <2>1, <3>1, <3>2
  <2> QED BY <2>3, <2>4
<1> QED BY <1>1, <1>3, <1>4 DEF Nesting

\* When it ends in_init is that again.
LEMMA NestingEnds ==
  ASSUME NEW fs, NEW gs, NEW x, Len(fs) \in Nat \ {0}, Nesting(fs, x), Popped(fs, gs)
  PROVE  Nesting(gs, IF fs[1].kind = "init" THEN fs[1].old ELSE x)
<1> DEFINE n == Len(fs)
<1>1. /\ n \in Nat \ {0} /\ Len(gs) = n - 1 /\ 1 \in 1 .. n
      /\ \A i \in 1 .. n - 1 : i + 1 \in 1 .. n /\ gs[i] = fs[i + 1]
  BY DEF Popped
<1> HIDE DEF n
<1>2. ASSUME NEW i \in 0 .. n - 1, NEW k \in 1 .. n - 1, Nearest(gs, i, k)
      PROVE  /\ Nearest(fs, i + 1, k + 1)
             /\ i = 0 /\ fs[1].kind # "init" => Nearest(fs, 0, k + 1)
  <2>1. i + 1 < k + 1 /\ fs[k + 1].kind = "init" /\ 0 < k + 1
    BY <1>1, <1>2 DEF Nearest
  <2>2. ASSUME NEW j \in 1 .. n, i + 1 < j, j < k + 1 PROVE fs[j].kind # "init"
    <3>1. j - 1 \in 1 .. n - 1 /\ i < j - 1 /\ j - 1 < k /\ (j - 1) + 1 = j
      BY <1>1, <2>2
    <3>2. gs[j - 1].kind # "init"
      BY <1>1, <1>2, <3>1 DEF Nearest
    <3> QED BY <1>1, <3>1, <3>2
  <2>3. ASSUME i = 0, fs[1].kind # "init", NEW j \in 1 .. n, 0 < j, j < k + 1
        PROVE  fs[j].kind # "init"
    <3>1. j = 1 \/ i + 1 < j
      BY <1>1, <2>3
    <3> QED BY <2>2, <2>3, <3>1
  <2> QED BY <2>1, <2>2, <2>3 DEF Nearest, n
<1>3. ASSUME NEW k \in 1 .. n - 1, Nearest(gs, 0, k)
      PROVE  (IF fs[1].kind = "init" THEN fs[1].old ELSE x) = gs[k].m
  <2>1. 0 \in 0 .. n - 1 /\ k + 1 \in 1 .. n /\ gs[k] = fs[k + 1] /\ 0 + 1 = 1
    BY <1>1
  <2>2. /\ Nearest(fs, 1, k + 1)
        /\ fs[1].kind # "init" => Nearest(fs, 0, k + 1)
    BY <1>2, <1>3, <2>1
  <2>3. \A j, l \in 1 .. n : fs[j].kind = "init" /\ Nearest(fs, j, l) => fs[j].old = fs[l].m
    BY DEF Nesting, n
  <2>4. \A l \in 1 .. n : Nearest(fs, 0, l) => x = fs[l].m
    BY DEF Nesting, n
  <2>5. CASE fs[1].kind = "init"
    <3>0. 1 \in 1 .. n /\ k + 1 \in 1 .. n /\ Nearest(fs, 1, k + 1)
      BY <1>1, <2>1, <2>2
    <3>1. fs[1].old = fs[k + 1].m
      BY ONLY <2>3, <2>5, <3>0
    <3> QED BY <2>1, <2>5, <3>1
  <2>6. CASE fs[1].kind # "init"
    <3>1. x = fs[k + 1].m
      BY <2>1, <2>2, <2>4, <2>6
    <3> QED BY <2>1, <2>6, <3>1
  <2> QED BY <2>5, <2>6
<1>4. ASSUME NEW i \in 1 .. n - 1, NEW k \in 1 .. n - 1,
             gs[i].kind = "init", Nearest(gs, i, k)
      PROVE  gs[i].old = gs[k].m
  <2>0. i \in 0 .. n - 1
    BY <1>1
  <2>1. i + 1 \in 1 .. n /\ k + 1 \in 1 .. n /\ gs[i] = fs[i + 1] /\ gs[k] = fs[k + 1]
    BY <1>1
  <2>2. Nearest(fs, i + 1, k + 1)
    BY <1>2, <1>4, <2>0
  <2>3. \A j, l \in 1 .. n : fs[j].kind = "init" /\ Nearest(fs, j, l) => fs[j].old = fs[l].m
    BY DEF Nesting, n
  <2> QED BY <1>4, <2>1, <2>2, <2>3
<1> QED BY <1>1, <1>3, <1>4 DEF Nesting

\* Service calls change nothing in the nesting.
LEMMA NestingStays ==
  ASSUME NEW fs, NEW gs, NEW x, NEW f, Len(fs) \in Nat \ {0}, Nesting(fs, x),
         Replaced(fs, f, gs)
  PROVE  /\ f.kind # "init" =>
              Nesting(gs, IF fs[1].kind = "init" THEN fs[1].old ELSE x)
         /\ (f.kind = "init" /\ fs[1].kind = "init" /\ f.m = fs[1].m /\ f.old = fs[1].old) =>
              Nesting(gs, x)
<1> DEFINE n == Len(fs)
<1>1. /\ n \in Nat \ {0} /\ Len(gs) = n /\ 1 \in 1 .. n /\ gs[1] = f
      /\ \A i \in 2 .. n : i \in 1 .. n /\ gs[i] = fs[i]
  BY DEF Replaced
<1> HIDE DEF n
<1>2. \A i \in 1 .. n : i = 1 \/ i \in 2 .. n
  BY <1>1
<1>a. \A j, l \in 1 .. n : fs[j].kind = "init" /\ Nearest(fs, j, l) => fs[j].old = fs[l].m
  BY DEF Nesting, n
<1>b. \A l \in 1 .. n : Nearest(fs, 0, l) => x = fs[l].m
  BY DEF Nesting, n
<1>3. ASSUME f.kind # "init"
      PROVE  Nesting(gs, IF fs[1].kind = "init" THEN fs[1].old ELSE x)
  <2>1. ASSUME NEW i \in 0 .. n, NEW k \in 1 .. n, Nearest(gs, i, k)
        PROVE  /\ k \in 2 .. n
               /\ i # 0 => Nearest(fs, i, k)
               /\ Nearest(fs, 1, k) \/ i # 0
               /\ i = 0 /\ fs[1].kind # "init" => Nearest(fs, 0, k)
    <3>1. k # 1
      BY <1>1, <1>3, <2>1 DEF Nearest
    <3>2. k \in 2 .. n /\ gs[k] = fs[k] /\ fs[k].kind = "init" /\ i < k /\ 1 < k /\ 0 < k
      BY <1>1, <1>2, <2>1, <3>1 DEF Nearest
    <3>3. ASSUME NEW j \in 1 .. n, i < j, j < k, j # 1 PROVE fs[j].kind # "init"
      <4>1. gs[j].kind # "init"
        BY <1>1, <2>1, <3>3 DEF Nearest
      <4> QED BY <1>1, <1>2, <3>3, <4>1
    <3>4. \A j \in 1 .. n : (i # 0 /\ i < j) \/ 1 < j => j # 1
      BY <1>1
    <3>5. \A j \in 1 .. n : 1 < j /\ i = 0 => i < j
      BY <1>1
    <3>6. i # 0 => Nearest(fs, i, k)
      BY <3>2, <3>3, <3>4 DEF Nearest, n
    <3>7. i = 0 => Nearest(fs, 1, k)
      BY <3>2, <3>3, <3>4, <3>5 DEF Nearest, n
    <3>8. i = 0 /\ fs[1].kind # "init" => Nearest(fs, 0, k)
      BY <3>2, <3>3 DEF Nearest, n
    <3> QED BY <3>2, <3>6, <3>7, <3>8
  <2>2. ASSUME NEW k \in 1 .. n, Nearest(gs, 0, k)
        PROVE  (IF fs[1].kind = "init" THEN fs[1].old ELSE x) = gs[k].m
    <3>1. 0 \in 0 .. n
      BY <1>1
    <3>2. k \in 2 .. n /\ gs[k] = fs[k] /\ Nearest(fs, 1, k)
          /\ (fs[1].kind # "init" => Nearest(fs, 0, k))
      BY <1>1, <2>1, <2>2, <3>1
    <3> QED BY <1>1, <1>a, <1>b, <3>2
  <2>3. ASSUME NEW i \in 1 .. n, NEW k \in 1 .. n, gs[i].kind = "init", Nearest(gs, i, k)
        PROVE  gs[i].old = gs[k].m
    <3>1. i # 1 /\ i \in 0 .. n /\ i # 0
      BY <1>1, <1>3, <2>3
    <3>2. k \in 2 .. n /\ Nearest(fs, i, k) /\ i \in 2 .. n
      BY <1>2, <2>1, <2>3, <3>1
    <3> QED BY <1>1, <1>a, <2>3, <3>2
  <2> QED BY <1>1, <2>2, <2>3 DEF Nesting
<1>4. ASSUME f.kind = "init", fs[1].kind = "init", f.m = fs[1].m, f.old = fs[1].old
      PROVE  Nesting(gs, x)
  <2>1. \A i \in 1 .. n : /\ gs[i].kind = "init" <=> fs[i].kind = "init"
                          /\ gs[i].kind = "init" => gs[i].m = fs[i].m /\ gs[i].old = fs[i].old
    BY <1>1, <1>2, <1>4
  <2>2. \A i \in 0 .. n, k \in 1 .. n : Nearest(gs, i, k) <=> Nearest(fs, i, k)
    BY <1>1, <2>1 DEF Nearest, n
  <2>3. 0 \in 0 .. n /\ \A i \in 1 .. n : i \in 0 .. n
    BY <1>1
  <2>4. \A i \in 0 .. n, k \in 1 .. n : Nearest(gs, i, k) => gs[k].m = fs[k].m
    BY <2>1 DEF Nearest
  <2>5. \A k \in 1 .. n : Nearest(gs, 0, k) => x = gs[k].m
    BY <1>b, <2>2, <2>3, <2>4
  <2>6. ASSUME NEW i \in 1 .. n, NEW k \in 1 .. n, gs[i].kind = "init", Nearest(gs, i, k)
        PROVE  gs[i].old = gs[k].m
    <3>1. fs[i].old = fs[k].m /\ gs[k].m = fs[k].m
      BY <1>a, <2>1, <2>2, <2>3, <2>4, <2>6
    <3> QED BY <2>1, <2>6, <3>1
  <2> QED BY <1>1, <2>5, <2>6 DEF Nesting
<1> QED BY <1>3, <1>4

\* The frames' modules are there.
LEMMA FramesOfModules ==
  ASSUME Typed
  PROVE  /\ Len(frames) \in Nat /\ Len(mods) \in Nat /\ Modules = 1 .. Len(mods)
         /\ \A i \in 1 .. Len(frames) :
              /\ frames[i].kind = "init" => frames[i] \in InitFrame(Len(mods))
              /\ frames[i].kind = "init" => frames[i].m \in Modules
<1> DEFINE n == Len(mods)
<1>1. Len(mods) \in Nat /\ Modules = 1 .. Len(mods) /\ Len(frames) \in Nat
      /\ \A i \in 1 .. Len(frames) : frames[i] \in Frame(n)
  <2>1. frames \in Seq(Frame(n)) /\ Closed(mods)
    BY DEF Typed
  <2> HIDE DEF n
  <2> QED BY <2>1, LinksStay, ElementOfSeq, LenProperties
<1> HIDE DEF n
<1>2. ASSUME NEW g \in Frame(n), g.kind = "init" PROVE g \in InitFrame(n) /\ g.m \in 1 .. n
  BY <1>2 DEF Frame, InitFrame, WalkFrame, ToldFrame
<1> QED BY <1>1, <1>2 DEF n

\* Modules are numbered as they were allocated.
LEMMA ModulesAreNumbers == Typed => Modules = 1 .. Len(mods)
  BY FramesOfModules

\* A module whose initialisation has not registered handlers has none, and no
\* module is initialised twice at a time.
Waiting(fs, ms) ==
  \A i \in 1 .. Len(fs) :
    fs[i].kind = "init" /\ ~fs[i].registered => ms[fs[i].m].handlers = 0
Apart(fs) ==
  \A i, k \in 1 .. Len(fs) :
    fs[i].kind = "init" /\ fs[k].kind = "init" /\ fs[i].m = fs[k].m => i = k

Own ==
  /\ HandlersAreTheirOwn
  /\ Nesting(frames, in_init)
  /\ Waiting(frames, mods)
  /\ Apart(frames)

\* Handlers are their module's own: at first there are none.
LEMMA OwnInit == Init => Own
<1> SUFFICES ASSUME Init PROVE Own
  OBVIOUS
<1>1. mods = <<>> /\ frames = <<>> /\ stopped = "no"
  BY DEF Init
<1>2. \A i \in 1 .. Len(frames) : FALSE
  BY <1>1
<1>3. \A m \in Modules : FALSE
  BY <1>1 DEF Modules
<1> QED BY <1>1, <1>2, <1>3 DEF Own, HandlersAreTheirOwn, Nesting, Waiting, Apart

\* A load begins an initialisation that is the innermost.
LEMMA OwnLoads ==
  ASSUME Typed, Own, NEW h \in Headers, NEW b \in 0 .. Len(mods), LoadsOf(h, b),
         UNCHANGED direct
  PROVE  Own'
<1> DEFINE n == Len(mods)
           m == n + 1
           l == Len(frames)
<1>1. /\ n \in Nat /\ l \in Nat /\ Modules = 1 .. n /\ m \notin 1 .. n
      /\ \A i \in 1 .. l : frames[i].kind = "init" => frames[i].m \in 1 .. n
  BY FramesOfModules
<1>2. Modules' = 1 .. m
  <2>1. Typed' /\ Len(mods') = m
    BY TypedLoads
  <2>2. (Modules = 1 .. Len(mods))'
    BY <2>1, ModulesAreNumbers, PTL
  <2> QED BY <2>1, <2>2
<1>3. /\ \A x \in 1 .. n : mods[x].handlers \in {0, x}
      /\ stopped # "registered twice"
  BY <1>1 DEF Own, HandlersAreTheirOwn
<1>4. \A i \in 1 .. l : frames[i].kind = "init" /\ ~frames[i].registered =>
                          mods[frames[i].m].handlers = 0
  BY DEF Own, Waiting
<1>5. \A i, k \in 1 .. l :
        frames[i].kind = "init" /\ frames[k].kind = "init" /\ frames[i].m = frames[k].m => i = k
  BY DEF Own, Apart
<1>6. CASE Begins(h, b)
  <2> DEFINE f == Begun(m)
  <2>1. /\ mods'[m] = New(h, b, IF b = 0 THEN m ELSE 0)
        /\ \A x \in 1 .. n : mods'[x].handlers = mods[x].handlers
        /\ in_init' = m /\ Pushed(frames, f, frames') /\ UNCHANGED stopped
    BY <1>1, <1>6 DEF Begins, Grows
  <2>2. mods'[m].handlers = 0
    BY <2>1 DEF New
  <2>3. f.kind = "init" /\ f.m = m /\ f.old = in_init /\ ~f.registered
    BY DEF Begun
  <2> HIDE DEF f
  <2>4. Nesting(frames', in_init')
    <3>1. Nesting(frames, in_init)
      BY DEF Own
    <3>2. Nesting(frames', f.m)
      BY <1>1, <2>1, <2>3, <3>1, NestingBegins
    <3> QED BY <2>1, <2>3, <3>2
  <2> HIDE DEF m
  <2>5. \A x \in 1 .. m : x = m \/ x \in 1 .. n
    BY <1>1 DEF m
  <2>6. HandlersAreTheirOwn'
    BY <1>2, <1>3, <2>1, <2>2, <2>5 DEF HandlersAreTheirOwn
  <2> HIDE DEF n, l
  <2>7. Len(frames') = l + 1 /\ frames'[1] = f
        /\ \A i \in 1 .. l + 1 : (i = 1 \/ (i - 1 \in 1 .. l /\ frames'[i] = frames[i - 1]))
    <3>1. Len(frames') = l + 1 /\ frames'[1] = f /\ \A i \in 1 .. l : frames'[i + 1] = frames[i]
      BY <2>1 DEF Pushed, l
    <3>2. ASSUME NEW i \in 1 .. l + 1, i # 1 PROVE i - 1 \in 1 .. l /\ (i - 1) + 1 = i
      BY <1>1, <3>2
    <3> QED BY <3>1, <3>2
  <2>8. Waiting(frames', mods')
    <3> SUFFICES ASSUME NEW i \in 1 .. l + 1, frames'[i].kind = "init", ~frames'[i].registered
                 PROVE  mods'[frames'[i].m].handlers = 0
      BY <2>7 DEF Waiting
    <3>1. CASE i = 1
      BY <2>2, <2>3, <2>7, <3>1
    <3>2. CASE i # 1
      <4> DEFINE j == i - 1
      <4>1. j \in 1 .. l /\ frames'[i] = frames[j]
        BY <2>7, <3>2
      <4> HIDE DEF j
      <4> QED BY SMTT(20), <1>1, <1>4, <2>1, <4>1
    <3> QED BY <3>1, <3>2
  <2>9. Apart(frames')
    <3> SUFFICES ASSUME NEW i \in 1 .. l + 1, NEW k \in 1 .. l + 1,
                        frames'[i].kind = "init", frames'[k].kind = "init",
                        frames'[i].m = frames'[k].m
                 PROVE  i = k
      BY <2>7 DEF Apart
    <3>1. CASE i = 1 /\ k = 1
      BY <3>1
    <3>2. CASE i = 1 /\ k # 1
      BY <1>1, <2>3, <2>7, <3>2
    <3>3. CASE i # 1 /\ k = 1
      BY <1>1, <2>3, <2>7, <3>3
    <3>4. CASE i # 1 /\ k # 1
      <4>1. i - 1 = k - 1
        BY <1>5, <2>7, <3>4
      <4> QED BY <1>1, <4>1
    <3> QED BY <3>1, <3>2, <3>3, <3>4
  <2> QED BY <2>4, <2>6, <2>8, <2>9 DEF Own
<1>7. CASE Arrives(h, b)
  <2>1. PICK ms : /\ Grows(ms, h, b) /\ append(ms, m)
                  /\ UNCHANGED <<in_init, frames, stopped>>
    BY <1>7 DEF Arrives
  <2>2. /\ Closed(ms) /\ Len(ms) = m
        /\ ms[m] = New(h, b, IF b = 0 THEN m ELSE 0)
        /\ \A x \in 1 .. n : ms[x].handlers = mods[x].handlers
    BY <1>1, <2>1 DEF Grows
  <2>3. ms[m].handlers = 0
    BY <2>2 DEF New
  <2>4. \A x \in 1 .. m : mods'[x].handlers = ms[x].handlers
    <3>1. last \in 0 .. m /\ modules \in 0 .. m /\ m \in 1 .. m
      <4>1. last \in 0 .. n /\ modules \in 0 .. n
        BY DEF Typed
      <4> HIDE DEF n
      <4> QED BY <1>1, <4>1
    <3> HIDE DEF m
    <3> QED BY <2>1, <2>2, <3>1, ModuleListed
  <2>5. \A x \in 1 .. n : mods'[x].handlers = mods[x].handlers
    BY <1>1, <2>2, <2>4
  <2>6. mods'[m].handlers = 0
    BY <1>1, <2>3, <2>4
  <2> HIDE DEF m
  <2>7. \A x \in 1 .. m : x = m \/ x \in 1 .. n
    BY <1>1 DEF m
  <2>8. HandlersAreTheirOwn'
    BY <1>2, <1>3, <2>1, <2>5, <2>6, <2>7 DEF HandlersAreTheirOwn
  <2>9. Waiting(frames', mods')
    BY <1>1, <1>4, <2>1, <2>5 DEF Waiting
  <2> QED BY <2>1, <2>8, <2>9 DEF Own
<1> QED BY <1>6, <1>7 DEF LoadsOf

\* Handlers go to in_init, which is the module of the innermost one.
LEMMA OwnRegisters ==
  ASSUME Typed, Own, Registers, Typed'
  PROVE  Own'
<1> DEFINE n == Len(mods)
           l == Len(frames)
           f == Head(frames)
           g == [f EXCEPT !.registered = TRUE]
<1>1. /\ n \in Nat /\ l \in Nat /\ Modules = 1 .. n /\ Modules' = 1 .. n
      /\ \A i \in 1 .. l : frames[i].kind = "init" => frames[i].m \in 1 .. n
  <2>1. (Modules = 1 .. Len(mods))'
    BY ModulesAreNumbers, PTL
  <2>2. Len(mods') = n
    BY DEF Registers
  <2> QED BY <2>1, <2>2, FramesOfModules
<1>2. frames # <<>> /\ f.kind = "init" /\ ~f.registered /\ Replaced(frames, g, frames')
  BY DEF Registers
<1>3. f \in InitFrame(n) /\ f = frames[1] /\ l \in Nat \ {0} /\ 1 \in 1 .. l
  <2>1. f \in InitFrame(n) /\ f = frames[1] /\ l \in Nat \ {0}
    BY <1>2, FirstFrame
  <2> HIDE DEF l
  <2> QED BY <2>1
<1>4. g.kind = "init" /\ g.m = f.m /\ g.old = f.old /\ g.registered /\ f.m \in 1 .. n
  <2> HIDE DEF f, n
  <2>1. g.kind = "init" /\ g.m = f.m /\ g.old = f.old /\ f.m \in 1 .. n
    BY <1>2, <1>3 DEF InitFrame
  <2>2. g.registered
    BY <1>3, Zenon DEF InitFrame
  <2> QED BY <2>1, <2>2
<1>5. in_init = f.m
  <2>1. Nearest(frames, 0, 1)
    <3>1. \A j \in 1 .. l : ~ (0 < j /\ j < 1)
      BY <1>3
    <3> QED BY <1>2, <1>3, <3>1 DEF Nearest
  <2> QED BY <1>3, <2>1 DEF Own, Nesting
<1>6. mods[f.m].handlers = 0 /\ in_init # 0
  <2>1. mods[f.m].handlers = 0
    BY <1>2, <1>3 DEF Own, Waiting
  <2> QED BY <1>1, <1>4, <1>5, <2>1
<1>7. /\ UNCHANGED <<stopped, in_init>>
      /\ \A x \in 1 .. n : mods'[x].handlers = IF x = f.m THEN f.m ELSE mods[x].handlers
  BY <1>1, <1>5, <1>6 DEF Registers
<1>8. HandlersAreTheirOwn'
  BY <1>1, <1>7 DEF Own, HandlersAreTheirOwn
<1>9. Nesting(frames', in_init')
  <2>1. Nesting(frames, in_init)
    BY DEF Own
  <2> HIDE DEF f, g
  <2>2. Nesting(frames', in_init)
    BY <1>2, <1>3, <1>4, <2>1, NestingStays
  <2> QED BY <1>7, <2>2
<1> HIDE DEF g, f
<1>10. /\ Len(frames') = l
       /\ \A i \in 1 .. l : /\ frames'[i].kind = frames[i].kind
                            /\ frames[i].kind = "init" => frames'[i].m = frames[i].m
                            /\ i = 1 \/ frames'[i] = frames[i]
                            /\ i = 1 => frames'[i].registered
  <2>1. \A i \in 1 .. l : i = 1 \/ i \in 2 .. l
    BY <1>3
  <2>2. Len(frames') = l /\ frames'[1] = g /\ \A i \in 2 .. l : frames'[i] = frames[i]
    BY <1>2 DEF Replaced
  <2>3. \A i \in 1 .. l : i # 1 => frames'[i] = frames[i]
    BY <2>1, <2>2
  <2>4. frames'[1].kind = frames[1].kind /\ frames'[1].m = frames[1].m
    BY <1>2, <1>3, <1>4, <2>2
  <2>5. frames'[1].registered
    BY <1>4, <2>2, Zenon
  <2> QED BY <2>2, <2>3, <2>4, <2>5
<1>11. Apart(frames')
  BY <1>10 DEF Own, Apart
<1>12. Waiting(frames', mods')
  <2> SUFFICES ASSUME NEW i \in 1 .. l, frames'[i].kind = "init", ~frames'[i].registered
               PROVE  mods'[frames'[i].m].handlers = 0
    BY <1>10 DEF Waiting
  <2>1. i # 1 /\ frames'[i] = frames[i]
    BY <1>10
  <2>2. frames[i].m \in 1 .. n /\ mods[frames[i].m].handlers = 0
    BY <1>1, <2>1 DEF Own, Waiting
  <2>3. frames[i].m # f.m
    BY <1>2, <1>3, <2>1 DEF Own, Apart
  <2> QED BY <1>7, <2>1, <2>2, <2>3
<1> QED BY <1>8, <1>9, <1>11, <1>12 DEF Own

\* The innermost frame gives way to one that is not of an initialisation, or ends.
LEMMA OwnFrames ==
  ASSUME NEW fs, NEW gs, NEW ms, NEW f, Len(fs) \in Nat \ {0}, Waiting(fs, ms), Apart(fs)
  PROVE  /\ f.kind # "init" /\ Replaced(fs, f, gs) => Waiting(gs, ms) /\ Apart(gs)
         /\ Popped(fs, gs) => Waiting(gs, ms) /\ Apart(gs)
<1> DEFINE n == Len(fs)
<1>1. n \in Nat \ {0}
  OBVIOUS
<1> HIDE DEF n
<1>2. ASSUME f.kind # "init", Replaced(fs, f, gs) PROVE Waiting(gs, ms) /\ Apart(gs)
  <2>1. \A i \in 1 .. n : i = 1 \/ i \in 2 .. n
    BY <1>1
  <2>2. Len(gs) = n /\ \A i \in 1 .. n : gs[i].kind = "init" => gs[i] = fs[i]
    BY <1>2, <2>1 DEF Replaced, n
  <2> QED BY <2>2 DEF Waiting, Apart, n
<1>3. ASSUME Popped(fs, gs) PROVE Waiting(gs, ms) /\ Apart(gs)
  <2>1. Len(gs) = n - 1 /\ \A i \in 1 .. n - 1 : i + 1 \in 1 .. n /\ gs[i] = fs[i + 1]
    BY <1>1, <1>3 DEF Popped, n
  <2>2. Waiting(gs, ms)
    BY <2>1 DEF Waiting, n
  <2>3. Apart(gs)
    <3> SUFFICES ASSUME NEW i \in 1 .. n - 1, NEW k \in 1 .. n - 1,
                        gs[i].kind = "init", gs[k].kind = "init", gs[i].m = gs[k].m
                 PROVE  i = k
      BY <2>1 DEF Apart
    <3>1. i + 1 = k + 1
      BY <2>1 DEF Apart, n
    <3> QED BY <1>1, <3>1
  <2> QED BY <2>2, <2>3
<1> QED BY <1>2, <1>3

\* An initialisation that succeeds gives in_init back.
LEMMA OwnSucceeds ==
  ASSUME Typed, Own, Succeeds, Typed', Len(mods') = Len(mods)
  PROVE  Own'
<1> DEFINE n == Len(mods)
           l == Len(frames)
           f == Head(frames)
<1>1. /\ n \in Nat /\ Modules = 1 .. n /\ Modules' = 1 .. n
      /\ \A i \in 1 .. l : frames[i].kind = "init" => frames[i].m \in 1 .. n
  <2>1. (Modules = 1 .. Len(mods))'
    BY ModulesAreNumbers, PTL
  <2> QED BY <2>1, FramesOfModules
<1>2. /\ frames # <<>> /\ f.kind = "init" /\ append(mods, f.m) /\ in_init' = f.old
      /\ Replaced(frames, PostInit, frames') /\ UNCHANGED stopped
  BY DEF Succeeds
<1>3. f = frames[1] /\ l \in Nat \ {0} /\ f.m \in 1 .. n
  <2>1. f = frames[1] /\ l \in Nat \ {0} /\ 1 \in 1 .. l
    BY <1>2, FirstFrame
  <2> HIDE DEF f, l, n
  <2> QED BY <1>1, <1>2, <2>1
<1>4. \A x \in 1 .. n : mods'[x].handlers = mods[x].handlers
  <2>1. Closed(mods) /\ last \in 0 .. n /\ modules \in 0 .. n
    BY DEF Typed
  <2> HIDE DEF f
  <2> QED BY <1>2, <1>3, <2>1, ModuleListed
<1>5. PostInit.kind # "init"
  BY DEF PostInit
<1> DEFINE p == PostInit
<1> HIDE DEF p, f
<1>6. Nesting(frames', in_init')
  <2>1. Nesting(frames, in_init)
    BY DEF Own
  <2>2. p.kind # "init" /\ Replaced(frames, p, frames')
    BY <1>2, <1>5 DEF p
  <2> HIDE DEF l
  <2>3. Len(frames) \in Nat \ {0}
    BY <1>3 DEF l
  <2>4. Nesting(frames', IF frames[1].kind = "init" THEN frames[1].old ELSE in_init)
    BY <2>1, <2>2, <2>3, NestingStays
  <2> QED BY <1>2, <1>3, <2>4
<1>7. Waiting(frames', mods) /\ Apart(frames')
  <2>1. Waiting(frames, mods) /\ Apart(frames)
    BY DEF Own
  <2>2. p.kind # "init" /\ Replaced(frames, p, frames')
    BY <1>2, <1>5 DEF p
  <2> QED BY <1>3, <2>1, <2>2, OwnFrames
<1>8. \A i \in 1 .. Len(frames') : frames'[i].kind = "init" => frames'[i].m \in 1 .. n
  <2>1. Len(frames') = l /\ frames'[1] = PostInit /\ \A i \in 2 .. l : frames'[i] = frames[i]
    BY <1>2 DEF Replaced
  <2> HIDE DEF l
  <2>2. \A i \in 1 .. l : i = 1 \/ i \in 2 .. l
    BY <1>3
  <2> QED BY <1>1, <1>5, <2>1, <2>2
<1>9. Waiting(frames', mods')
  BY <1>4, <1>7, <1>8 DEF Waiting
<1>10. HandlersAreTheirOwn'
  BY <1>1, <1>2, <1>4 DEF Own, HandlersAreTheirOwn
<1> QED BY <1>6, <1>7, <1>9, <1>10 DEF Own

\* One that fails does too.
LEMMA OwnEnds ==
  ASSUME Typed, Own, Ends, InitFails \/ Claims \/ WalkEnds
  PROVE  Own'
<1>1. frames # <<>> /\ Popped(frames, frames') /\ UNCHANGED mods
  BY DEF Ends
<1>2. Len(frames) \in Nat \ {0} /\ Head(frames) = frames[1]
  BY <1>1, FirstFrame
<1>3. in_init' = IF frames[1].kind = "init" THEN frames[1].old ELSE in_init
  BY <1>2 DEF InitFails, Claims, WalkEnds, Walking
<1>4. stopped' # "registered twice"
  BY DEF InitFails, Claims, WalkEnds, Walking, Own, HandlersAreTheirOwn
<1>5. Nesting(frames', in_init')
  <2>1. Nesting(frames, in_init)
    BY DEF Own
  <2>2. Nesting(frames', IF frames[1].kind = "init" THEN frames[1].old ELSE in_init)
    BY <1>1, <1>2, <2>1, NestingEnds
  <2> QED BY <1>3, <2>2
<1>6. Waiting(frames', mods) /\ Apart(frames')
  <2>1. Waiting(frames, mods) /\ Apart(frames)
    BY DEF Own
  <2> QED BY <1>1, <1>2, <2>1, OwnFrames
<1>7. HandlersAreTheirOwn'
  BY <1>1, <1>4 DEF Own, HandlersAreTheirOwn, Modules
<1> QED BY <1>1, <1>5, <1>6, <1>7 DEF Own

\* A service call has nothing to do with it.
LEMMA OwnWalks ==
  ASSUME Typed, Own, NEW w, Walked(w)
  PROVE  Own'
<1> DEFINE f == Head(frames)
<1>1. /\ frames # <<>> /\ Replaced(frames, w, frames')
      /\ f.kind # "init" /\ w.kind # "init"
      /\ UNCHANGED <<mods, in_init, stopped>>
  BY DEF Walked, Passes, Calls, CallsInstance, Returns
<1>2. Len(frames) \in Nat \ {0} /\ f = frames[1]
  BY <1>1, FirstFrame
<1>3. Nesting(frames', in_init')
  <2>1. Nesting(frames, in_init)
    BY DEF Own
  <2> HIDE DEF f
  <2>2. Nesting(frames', IF frames[1].kind = "init" THEN frames[1].old ELSE in_init)
    BY <1>1, <1>2, <2>1, NestingStays
  <2> QED BY <1>1, <1>2, <2>2
<1>4. Waiting(frames', mods) /\ Apart(frames')
  <2>1. Waiting(frames, mods) /\ Apart(frames)
    BY DEF Own
  <2> HIDE DEF f
  <2> QED BY <1>1, <1>2, <2>1, OwnFrames
<1>5. HandlersAreTheirOwn'
  BY <1>1 DEF Own, HandlersAreTheirOwn, Modules
<1> QED BY <1>1, <1>3, <1>4, <1>5 DEF Own

\* So every step keeps whose handlers they are.
LEMMA OwnNext == Typed /\ Own /\ [Next]_vars => Own'
<1> SUFFICES ASSUME Typed, Own, [Next]_vars PROVE Own'
  OBVIOUS
<1>1. CASE Loading /\ UNCHANGED direct
  <2>1. Typed'
    BY <1>1, StepsOfLoads
  <2>2. CASE HasNoBase
    BY <2>2 DEF HasNoBase, Own, HandlersAreTheirOwn, Modules
  <2>3. CASE \E h \in Headers, b \in 0 .. Len(mods) : LoadsOf(h, b)
    BY <1>1, <2>3, OwnLoads
  <2>4. CASE Registers
    BY <2>1, <2>4, OwnRegisters
  <2>5. CASE Succeeds /\ Len(mods') = Len(mods)
    BY <2>1, <2>5, OwnSucceeds
  <2>6. CASE Ends /\ (InitFails \/ Claims \/ WalkEnds)
    BY <2>6, OwnEnds
  <2>7. CASE \E w \in Frame(Len(mods)) : Walked(w)
    BY <2>7, OwnWalks
  <2> QED BY <1>1, <2>2, <2>3, <2>4, <2>5, <2>6, <2>7, StepsOfLoads
<1>2. CASE (\E h \in Headers : SwiIsDirect(h)) \/ SwiRuns
  BY <1>2 DEF SwiIsDirect, SwiRuns, loadVars, Own, HandlersAreTheirOwn, Modules
<1>3. CASE UNCHANGED vars
  BY <1>3 DEF vars, loadVars, Own, HandlersAreTheirOwn, Modules
<1> QED BY <1>1, <1>2, <1>3 DEF Next

\* The modules' links, and what the frames hold, stay within the modules there are.
THEOREM TypesStay == Spec => []Typed
<1>1. Init => Typed
  BY TypedInit
<1>2. Typed /\ [Next]_vars => Typed'
  BY TypedNext
<1> QED BY <1>1, <1>2, PTL DEF Spec

\* The handlers that a module registers become that module's, however loads nest
\* and fail, and none is taken to register twice: in_init is the module whose
\* initialisation is the innermost.
THEOREM HandlersOwned == Spec => []HandlersAreTheirOwn
<1>1. Init => Own
  BY OwnInit
<1>2. Typed /\ Own /\ [Next]_vars => Own'
  BY OwnNext
<1>3. Own => HandlersAreTheirOwn
  BY DEF Own
<1> QED BY <1>1, <1>2, <1>3, TypesStay, PTL DEF Spec

-----------------------------------------------------------------------------
\* The modules that are ready are linked in the order they were ready in, and
\* lead nowhere else.
Chain(fs, ms) ==
  \A k \in 1 .. Len(fs) : ms[fs[k]].next = IF k = Len(fs) THEN 0 ELSE fs[k + 1]

LastOf(fs) == IF fs = <<>> THEN 0 ELSE fs[Len(fs)]
FirstOf(fs) == IF fs = <<>> THEN 0 ELSE fs[1]

\* None is ready while it is initialised, one that is not ready leads nowhere, and
\* an instance is one of its base's header.
Unready(fs, ms) == \A x \in 1 .. Len(ms) : x \notin ToSet(fs) => ms[x].next = 0
Initialising(gs, fs) ==
  \A i \in 1 .. Len(gs) : gs[i].kind = "init" => gs[i].m \notin ToSet(fs)
Instances(ms) ==
  \A x \in 1 .. Len(ms) :
    LET i == ms[x].instances
    IN  i # 0 => ms[i].base # 0 /\ ms[i].header = ms[x].header

Whole ==
  /\ IsInjective(finished)
  /\ modules = FirstOf(finished)
  /\ last = LastOf(finished)
  /\ Chain(finished, mods)
  /\ Unready(finished, mods)
  /\ Initialising(frames, finished)
  /\ Instances(mods)

\* What the first and the last of a list are, and of a longer one.
LEMMA EndsOf ==
  ASSUME NEW n \in Nat, NEW fs \in Seq(1 .. n), NEW m \in 1 .. n
  PROVE  /\ Len(fs) \in Nat /\ DOMAIN fs = 1 .. Len(fs)
         /\ fs = <<>> <=> Len(fs) = 0
         /\ \A k \in 1 .. Len(fs) : fs[k] \in 1 .. n /\ fs[k] \in ToSet(fs)
         /\ FirstOf(fs) = 0 <=> fs = <<>>
         /\ LastOf(fs) = 0 <=> fs = <<>>
         /\ LastOf(fs) # 0 => LastOf(fs) \in ToSet(fs)
         /\ LastOf(Append(fs, m)) = m
         /\ FirstOf(Append(fs, m)) = IF FirstOf(fs) = 0 THEN m ELSE FirstOf(fs)
<1> DEFINE l == Len(fs)
           a == Append(fs, m)
<1>1. l \in Nat /\ DOMAIN fs = 1 .. l /\ (fs = <<>> <=> l = 0)
      /\ \A k \in 1 .. l : fs[k] \in 1 .. n
  BY LenProperties, EmptySeq, ElementOfSeq
<1>2. Len(a) = l + 1 /\ a[l + 1] = m /\ (\A k \in 1 .. l : a[k] = fs[k]) /\ a \in Seq(1 .. n)
  BY AppendProperties
<1>3. a = <<>> <=> Len(a) = 0
  BY <1>2, EmptySeq
<1> HIDE DEF l, a
<1>4. \A k \in 1 .. l : fs[k] \in ToSet(fs)
  BY <1>1 DEF ToSet
<1>5. fs # <<>> => 1 \in 1 .. l /\ l \in 1 .. l
  BY <1>1
<1>6. a # <<>>
  BY <1>1, <1>2, <1>3
<1>7. FirstOf(fs) = 0 <=> fs = <<>>
  BY <1>1, <1>5 DEF FirstOf
<1>8. (LastOf(fs) = 0 <=> fs = <<>>) /\ (LastOf(fs) # 0 => LastOf(fs) \in ToSet(fs))
  BY <1>1, <1>4, <1>5 DEF LastOf, l
<1>9. LastOf(a) = m
  BY <1>1, <1>2, <1>6 DEF LastOf
<1>10. FirstOf(a) = IF FirstOf(fs) = 0 THEN m ELSE FirstOf(fs)
  <2>1. CASE fs = <<>>
    BY <1>1, <1>2, <1>6, <1>7, <2>1 DEF FirstOf
  <2>2. CASE fs # <<>>
    BY <1>2, <1>5, <1>6, <1>7, <2>2 DEF FirstOf
  <2> QED BY <2>1, <2>2
<1> QED BY <1>1, <1>4, <1>7, <1>8, <1>9, <1>10 DEF l, a

\* Of the first n modules, x leads to m now.
Relinked(ns, ms, n, x, m) ==
  \A y \in 1 .. n : ns[y].next = IF y = x THEN m ELSE ms[y].next

\* A module that is ready goes behind the last.
LEMMA ChainGrows ==
  ASSUME NEW n \in Nat, NEW fs \in Seq(1 .. n), NEW m \in 1 .. n, m \notin ToSet(fs),
         IsInjective(fs), NEW ms, NEW ns, Chain(fs, ms), ms[m].next = 0,
         Relinked(ns, ms, n, LastOf(fs), m)
  PROVE  Chain(Append(fs, m), ns)
<1> DEFINE l == Len(fs)
           a == Append(fs, m)
<1>1. /\ l \in Nat /\ DOMAIN fs = 1 .. l /\ (fs = <<>> <=> l = 0)
      /\ \A k \in 1 .. l : fs[k] \in 1 .. n /\ fs[k] \in ToSet(fs)
      /\ LastOf(fs) # 0 => LastOf(fs) \in ToSet(fs)
  BY EndsOf
<1>2. Len(a) = l + 1 /\ a[l + 1] = m /\ \A k \in 1 .. l : a[k] = fs[k]
  BY AppendProperties
<1>3. l # 0 => LastOf(fs) = fs[l]
  BY <1>1 DEF LastOf
<1>4. \A k \in 1 .. l : ms[fs[k]].next = IF k = l THEN 0 ELSE fs[k + 1]
  BY DEF Chain
<1>r. \A y \in 1 .. n : ns[y].next = IF y = LastOf(fs) THEN m ELSE ms[y].next
  BY DEF Relinked
<1> HIDE DEF l, a
<1>5. ASSUME NEW k \in 1 .. l + 1
      PROVE  ns[a[k]].next = IF k = l + 1 THEN 0 ELSE a[k + 1]
  <2>1. CASE k = l + 1
    <3>1. m # LastOf(fs)
      <4>1. m # 0
        OBVIOUS
      <4> QED BY <1>1, <4>1
    <3> QED BY <1>2, <1>r, <2>1, <3>1
  <2>2. CASE k = l
    <3>1. k \in 1 .. l /\ l # 0 /\ k # l + 1
      BY <1>1, <2>2
    <3>2. a[k] = LastOf(fs) /\ a[k] \in 1 .. n /\ a[k + 1] = m
      BY <1>1, <1>2, <1>3, <2>2, <3>1
    <3> QED BY <1>r, <3>1, <3>2
  <2>3. CASE k # l /\ k # l + 1
    <3>1. k \in 1 .. l /\ k + 1 \in 1 .. l /\ l \in 1 .. l /\ l # 0
      BY <1>1, <2>3
    <3>2. a[k] = fs[k] /\ a[k + 1] = fs[k + 1] /\ fs[k] \in 1 .. n
      BY <1>1, <1>2, <3>1
    <3>3. fs[k] # LastOf(fs)
      BY <1>1, <1>3, <2>3, <3>1 DEF IsInjective
    <3> QED BY <1>4, <1>r, <2>3, <3>2, <3>3, <3>1
  <2> QED BY <2>1, <2>2, <2>3
<1> QED BY <1>2, <1>5 DEF Chain, a

\* So the list is whole.
LEMMA WholeIsWhole ==
  ASSUME Typed, Whole
  PROVE  /\ List(modules) = finished
         /\ last = IF finished = <<>> THEN 0 ELSE Last(finished)
<1> DEFINE n == Len(mods)
<1>1. n \in Nat /\ Modules = 1 .. n /\ Closed(mods) /\ finished \in Seq(1 .. n)
  BY LinksStay DEF Typed
<1>2. List(modules) = finished
  <2>1. modules = IF finished = <<>> THEN 0 ELSE finished[1]
    BY DEF Whole, FirstOf
  <2>2. IsInjective(finished)
        /\ \A k \in 1 .. Len(finished) :
             mods[finished[k]].next = IF k = Len(finished) THEN 0 ELSE finished[k + 1]
    BY DEF Whole, Chain
  <2>3. finished \in Seq(Modules)
    BY <1>1
  <2> QED BY <1>1, <2>1, <2>2, <2>3, LinkedIsList
<1>3. last = IF finished = <<>> THEN 0 ELSE Last(finished)
  BY DEF Whole, LastOf, Last
<1> QED BY <1>2, <1>3

\* A load allocates one struct module, and the others keep their header and base.
LEMMA OneIsLoaded ==
  ASSUME Typed, NEW h, NEW b \in 0 .. Len(mods), LoadsOf(h, b)
  PROVE  LET m == Len(mods) + 1
         IN  /\ Len(mods') = m /\ mods'[m].header = h /\ mods'[m].base = b
             /\ \A x \in 1 .. Len(mods) :
                  mods'[x].header = mods[x].header /\ mods'[x].base = mods[x].base
<1> DEFINE n == Len(mods)
           m == n + 1
<1>1. /\ n \in Nat /\ Modules = 1 .. n /\ m \in 1 .. m
      /\ last \in 0 .. m /\ modules \in 0 .. m /\ \A x \in 1 .. n : x \in 1 .. m
  <2>1. n \in Nat /\ Modules = 1 .. n /\ last \in 0 .. n /\ modules \in 0 .. n
    BY LinksStay DEF Typed
  <2> HIDE DEF n
  <2> QED BY <2>1
<1>2. ASSUME NEW ms, Grows(ms, h, b)
      PROVE  /\ Len(ms) = m /\ Closed(ms) /\ ms[m].header = h /\ ms[m].base = b
             /\ \A x \in 1 .. n :
                  ms[x].header = mods[x].header /\ ms[x].base = mods[x].base
  BY <1>1, <1>2 DEF Grows, New
<1>3. CASE Begins(h, b)
  BY <1>2, <1>3 DEF Begins
<1>4. CASE Arrives(h, b)
  <2>1. PICK ms : Grows(ms, h, b) /\ append(ms, m)
    BY <1>4 DEF Arrives
  <2>2. /\ Len(ms) = m /\ Closed(ms) /\ ms[m].header = h /\ ms[m].base = b
        /\ \A x \in 1 .. n :
             ms[x].header = mods[x].header /\ ms[x].base = mods[x].base
    BY <1>2, <2>1
  <2> HIDE DEF m
  <2>3. /\ Len(mods') = m
        /\ \A x \in 1 .. m : mods'[x].header = ms[x].header /\ mods'[x].base = ms[x].base
    BY <1>1, <2>1, <2>2, ModuleListed
  <2> QED BY <1>1, <2>2, <2>3 DEF m
<1> QED BY <1>3, <1>4 DEF LoadsOf

\* No step of a load takes a module, its header or its base away.
LEMMA ModulesStay ==
  ASSUME Typed, Loading, UNCHANGED direct
  PROVE  /\ Modules \subseteq Modules'
         /\ \A x \in Modules :
              mods'[x].header = mods[x].header /\ mods'[x].base = mods[x].base
<1> DEFINE n == Len(mods)
<1>1. /\ n \in Nat /\ Modules = 1 .. n /\ Closed(mods)
      /\ last \in 0 .. n /\ modules \in 0 .. n
  BY LinksStay DEF Typed
<1>2. Len(mods') \in Nat /\ Modules' = 1 .. Len(mods')
  <2>1. Closed(mods')
    BY StepsOfLoads DEF Typed
  <2> DEFINE k == Len(mods')
  <2>2. mods' \in Seq(Module(k))
    BY <2>1 DEF Closed
  <2> HIDE DEF k
  <2> QED BY <2>2, LenProperties DEF Modules
<1>3. CASE HasNoBase
  BY <1>3 DEF HasNoBase, Modules
<1>4. CASE \E h \in Headers, b \in 0 .. n : LoadsOf(h, b)
  <2>1. /\ Len(mods') = n + 1
        /\ \A x \in 1 .. n :
             mods'[x].header = mods[x].header /\ mods'[x].base = mods[x].base
    BY <1>4, OneIsLoaded
  <2> HIDE DEF n
  <2>2. 1 .. n \subseteq 1 .. n + 1
    BY <1>1
  <2> QED BY <1>1, <1>2, <2>1, <2>2
<1>5. CASE Registers
  <2>1. Len(mods') = n /\ \A x \in 1 .. n :
          mods'[x].header = mods[x].header /\ mods'[x].base = mods[x].base
    BY <1>1, <1>5 DEF Registers
  <2> QED BY <1>1, <1>2, <2>1
<1>6. CASE Succeeds /\ Len(mods') = Len(mods)
  <2> DEFINE f == Head(frames)
  <2>1. frames # <<>> /\ f.kind = "init" /\ append(mods, f.m)
    BY <1>6 DEF Succeeds
  <2>2. f.m \in 1 .. n
    <3>1. f \in InitFrame(n)
      BY <2>1, FirstFrame
    <3> HIDE DEF f, n
    <3> QED BY <3>1 DEF InitFrame
  <2> HIDE DEF f
  <2>3. \A x \in 1 .. n :
          mods'[x].header = mods[x].header /\ mods'[x].base = mods[x].base
    BY <1>1, <2>1, <2>2, ModuleListed
  <2> QED BY <1>1, <1>2, <1>6, <2>3
<1>7. CASE Ends \/ \E w \in Frame(n) : Walked(w)
  BY <1>7 DEF Ends, Walked, Modules
<1> QED BY <1>3, <1>4, <1>5, <1>6, <1>7, StepsOfLoads

\* So there was one instance at most before any step that leaves it so.
LEMMA OneInstanceBefore ==
  ASSUME Typed, [Next]_vars, OneInstanceEach'
  PROVE  OneInstanceEach
<1>1. CASE Loading /\ UNCHANGED direct
  <2>1. /\ Modules \subseteq Modules'
        /\ \A x \in Modules :
             mods'[x].header = mods[x].header /\ mods'[x].base = mods[x].base
    BY <1>1, ModulesStay
  <2>2. \A m, n \in Modules' :
          /\ mods'[m].base # 0 /\ mods'[n].base # 0
          /\ mods'[m].header = mods'[n].header
          => m = n
    BY DEF OneInstanceEach
  <2> QED BY <2>1, <2>2 DEF OneInstanceEach
<1>2. CASE (\E h \in Headers : SwiIsDirect(h)) \/ SwiRuns \/ UNCHANGED vars
  <2>1. mods' = mods
    BY <1>2 DEF SwiIsDirect, SwiRuns, vars, loadVars
  <2> QED BY <2>1 DEF OneInstanceEach, Modules
<1> QED BY <1>1, <1>2 DEF Next

\* With one instance of a header at most, a base that gets one had none.
LEMMA FirstInstance ==
  ASSUME Typed, Whole, OneInstanceEach', NEW h, NEW b \in 0 .. Len(mods), LoadsOf(h, b)
  PROVE  b # 0 => /\ b \in Modules /\ mods[b].header = h
                  /\ mods[b].instances = 0
<1> SUFFICES ASSUME b # 0
             PROVE  b \in Modules /\ mods[b].header = h /\ mods[b].instances = 0
  OBVIOUS
<1> DEFINE n == Len(mods)
           m == n + 1
           i == mods[b].instances
<1>1. n \in Nat /\ Modules = 1 .. n /\ Closed(mods) /\ \A x \in 1 .. n : mods[x] \in Module(n)
  BY LinksStay DEF Typed
<1>2. b = find(h)
  BY DEF LoadsOf
<1>3. b \in 1 .. n
  BY <1>1
<1>4. mods[b].header = h
  <2>1. modules \in 0 .. n
    BY DEF Typed
  <2> QED BY <1>1, <1>2, <2>1, FoundIsThere
<1>5. ASSUME i # 0 PROVE FALSE
  <2>1. i \in 1 .. n
    <3>1. i \in 0 .. n
      BY <1>1, <1>3 DEF Module
    <3> HIDE DEF i
    <3> QED BY <1>1, <1>5, <3>1
  <2>2. mods[i].base # 0 /\ mods[i].header = h
    BY <1>3, <1>4, <1>5 DEF Whole, Instances
  <2>3. /\ Len(mods') = m /\ mods'[m].header = h /\ mods'[m].base = b
        /\ \A x \in 1 .. n :
             mods'[x].header = mods[x].header /\ mods'[x].base = mods[x].base
    BY OneIsLoaded
  <2>4. DOMAIN mods' = 1 .. m
    <3>1. mods' \in Seq(Module(m))
      <4>1. Closed(mods')
        <5>1. \A ms : Grows(ms, h, b) => Closed(ms) /\ Len(ms) = m
          BY DEF Grows
        <5>2. CASE Begins(h, b)
          BY <5>1, <5>2 DEF Begins
        <5>3. CASE Arrives(h, b)
          <6>1. PICK ms : Grows(ms, h, b) /\ append(ms, m)
            BY <5>3 DEF Arrives
          <6>2. Closed(ms) /\ Len(ms) = m
            BY <5>1, <6>1
          <6>3. m \in 1 .. m /\ last \in 0 .. m /\ modules \in 0 .. m
            <7>1. last \in 0 .. n /\ modules \in 0 .. n
              BY DEF Typed
            <7> HIDE DEF n
            <7> QED BY <1>1, <7>1
          <6> HIDE DEF m
          <6> QED BY <6>1, <6>2, <6>3, ModuleListed
        <5> QED BY <5>2, <5>3 DEF LoadsOf
      <4> QED BY <2>3, <4>1 DEF Closed
    <3> HIDE DEF m
    <3> QED BY <2>3, <3>1, LenProperties
  <2>5. i \in DOMAIN mods' /\ m \in DOMAIN mods' /\ i # m
    <3> HIDE DEF n, i
    <3> QED BY <1>1, <2>1, <2>4
  <2>6. mods'[i].base # 0 /\ mods'[i].header = h
    <3> HIDE DEF i
    <3> QED BY <2>1, <2>2, <2>3
  <2>7. \A x, y \in DOMAIN mods' :
          /\ mods'[x].base # 0 /\ mods'[y].base # 0
          /\ mods'[x].header = mods'[y].header
          => x = y
    BY DEF OneInstanceEach, Modules
  <2> HIDE DEF i, m
  <2> QED BY <2>3, <2>5, <2>6, <2>7
<1> QED BY <1>1, <1>3, <1>4, <1>5

\* The list is whole: at first it is empty.
LEMMA WholeInit == Init => Whole
<1> SUFFICES ASSUME Init PROVE Whole
  OBVIOUS
<1>1. mods = <<>> /\ frames = <<>> /\ finished = <<>> /\ modules = 0 /\ last = 0
  BY DEF Init
<1>2. \A i \in 1 .. Len(frames) : FALSE
  BY <1>1
<1>3. \A i \in 1 .. Len(finished) : FALSE
  BY <1>1
<1>4. \A i \in 1 .. Len(mods) : FALSE
  BY <1>1
<1>5. IsInjective(finished)
  BY <1>1, ShortLists
<1>6. FirstOf(finished) = 0 /\ LastOf(finished) = 0
  BY <1>1 DEF FirstOf, LastOf
<1> QED BY <1>1, <1>2, <1>3, <1>4, <1>5, <1>6 DEF Whole, Chain, Unready, Initialising, Instances

\* A new module is not ready, leads nowhere, and if it has a base is its instance.
LEMMA WholeGrows ==
  ASSUME Typed, Whole, NEW h, NEW b \in 0 .. Len(mods), NEW ms, Grows(ms, h, b),
         Quiet(ms, b), b # 0 => mods[b].header = h
  PROVE  LET m == Len(mods) + 1
         IN  /\ m \notin ToSet(finished) /\ ms[m].next = 0
             /\ Chain(finished, ms) /\ Unready(finished, ms) /\ Instances(ms)
<1> DEFINE n == Len(mods)
           m == n + 1
<1>1. /\ n \in Nat /\ Modules = 1 .. n /\ finished \in Seq(1 .. n)
      /\ \A x \in 1 .. n : mods[x] \in Module(n)
  BY LinksStay DEF Typed
<1>2. /\ Len(ms) = m /\ ms[m] = New(h, b, IF b = 0 THEN m ELSE 0)
      /\ \A x \in 1 .. n :
           /\ ms[x].header = mods[x].header /\ ms[x].base = mods[x].base
           /\ ms[x].next = mods[x].next
           /\ ms[x].instances = IF x = b THEN m ELSE mods[x].instances
  BY <1>1 DEF Grows, Quiet
<1>3. ms[m].next = 0 /\ ms[m].instances = 0 /\ ms[m].base = b /\ ms[m].header = h
  BY <1>2 DEF New
<1>4. m \notin 1 .. n /\ m \in Nat /\ \A x \in 1 .. m : x = m \/ x \in 1 .. n
  BY <1>1
<1> HIDE DEF m
<1>5. \A k \in 1 .. Len(finished) : finished[k] \in 1 .. n
  <2> HIDE DEF n
  <2> QED BY <1>1, ElementOfSeq
<1>6. ToSet(finished) \subseteq 1 .. n
  <2>1. DOMAIN finished = 1 .. Len(finished)
    <3> HIDE DEF n
    <3> QED BY <1>1, LenProperties
  <2> QED BY <1>5, <2>1 DEF ToSet
<1>7. Chain(finished, ms)
  BY <1>2, <1>5 DEF Whole, Chain
<1>8. Unready(finished, ms)
  BY <1>2, <1>3, <1>4 DEF Whole, Unready
<1>9. Instances(ms)
  <2> SUFFICES ASSUME NEW x \in 1 .. m, ms[x].instances # 0
               PROVE  ms[ms[x].instances].base # 0
                      /\ ms[ms[x].instances].header = ms[x].header
    BY <1>2 DEF Instances
  <2>1. x \in 1 .. n
    BY <1>3, <1>4
  <2>2. CASE x = b
    <3>1. ms[x].instances = m /\ b # 0 /\ mods[b].header = h
      BY <1>1, <1>2, <2>1, <2>2
    <3> QED BY <1>2, <1>3, <2>1, <2>2, <3>1
  <2>3. CASE x # b
    <3> DEFINE i == mods[x].instances
    <3>1. ms[x].instances = i /\ i # 0
      BY <1>2, <2>1, <2>3
    <3>2. i \in 0 .. n
      BY <1>1, <2>1 DEF Module
    <3>3. mods[i].base # 0 /\ mods[i].header = mods[x].header
      BY <2>1, <3>1 DEF Whole, Instances
    <3> HIDE DEF i
    <3>4. i \in 1 .. n
      BY <1>1, <3>1, <3>2
    <3> QED BY <1>2, <2>1, <3>1, <3>3, <3>4
  <2> QED BY <2>2, <2>3
<1> QED BY <1>3, <1>4, <1>6, <1>7, <1>8, <1>9 DEF m

\* A module that is ready goes to the end of the list.
LEMMA WholeListed ==
  ASSUME NEW ms, Closed(ms), NEW m \in 1 .. Len(ms), last \in 0 .. Len(ms),
         modules \in 0 .. Len(ms), append(ms, m),
         finished \in Seq(1 .. Len(ms)), finished' = Append(finished, m),
         m \notin ToSet(finished), ms[m].next = 0,
         IsInjective(finished), modules = FirstOf(finished), last = LastOf(finished),
         Chain(finished, ms), Unready(finished, ms), Instances(ms)
  PROVE  /\ IsInjective(finished') /\ ToSet(finished') = ToSet(finished) \cup {m}
         /\ modules' = FirstOf(finished') /\ last' = LastOf(finished')
         /\ Chain(finished', mods') /\ Unready(finished', mods') /\ Instances(mods')
<1> DEFINE n == Len(ms)
<1>1. n \in Nat /\ ms \in Seq(Module(n)) /\ \A x \in 1 .. n : ms[x] \in Module(n)
  <2>1. ms \in Seq(Module(n))
    BY DEF Closed
  <2> HIDE DEF n
  <2>2. Len(ms) \in Nat /\ \A x \in 1 .. Len(ms) : ms[x] \in Module(n)
    BY <2>1, ElementOfSeq, LenProperties
  <2> QED BY <2>1, <2>2 DEF n
<1>2. /\ Len(mods') = n /\ last' = m
      /\ \A x \in 1 .. n :
           /\ mods'[x].header = ms[x].header /\ mods'[x].base = ms[x].base
           /\ mods'[x].instances = ms[x].instances
           /\ mods'[x].next = IF x = last THEN m ELSE ms[x].next
      /\ modules' = IF modules = 0 THEN m ELSE modules
  <2> HIDE DEF n
  <2>1. /\ Closed(mods') /\ Len(mods') = Len(ms)
        /\ \A x \in 1 .. Len(ms) :
             /\ mods'[x].header = ms[x].header /\ mods'[x].base = ms[x].base
             /\ mods'[x].handlers = ms[x].handlers
             /\ mods'[x].preferred = ms[x].preferred
             /\ mods'[x].instances = ms[x].instances
             /\ mods'[x].next = IF x = last THEN m ELSE ms[x].next
        /\ last' = m /\ last' \in 0 .. Len(ms) /\ modules' \in 0 .. Len(ms)
        /\ modules' = IF modules = 0 THEN m ELSE modules
    <3>1. /\ Closed(ms) /\ m \in 1 .. Len(ms) /\ last \in 0 .. Len(ms)
          /\ modules \in 0 .. Len(ms) /\ append(ms, m)
      OBVIOUS
    <3> QED BY ONLY <3>1, ModuleListed
  <2> QED BY <2>1 DEF n
<1>3. finished \in Seq(1 .. n) /\ m \in 1 .. n
  OBVIOUS
<1> HIDE DEF n
<1>4. IsInjective(finished') /\ ToSet(finished') = ToSet(finished) \cup {m}
  BY <1>3, Appended
<1>5. modules' = FirstOf(finished') /\ last' = LastOf(finished')
  BY <1>1, <1>2, <1>3, EndsOf
<1>6. Chain(finished', mods')
  <2>1. Relinked(mods', ms, n, LastOf(finished), m)
    BY <1>2 DEF Relinked
  <2>2. Chain(Append(finished, m), mods')
    BY <1>1, <1>3, <2>1, ChainGrows
  <2> QED BY <2>2
<1>7. Unready(finished', mods')
  <2> SUFFICES ASSUME NEW x \in 1 .. n, x \notin ToSet(finished')
               PROVE  mods'[x].next = 0
    BY <1>2 DEF Unready
  <2>1. x \notin ToSet(finished) /\ x # m
    BY <1>4
  <2>2. x # last
    <3>1. last # 0 => last \in ToSet(finished)
      BY <1>1, <1>3, EndsOf
    <3>2. x # 0
      BY <1>1
    <3> QED BY <2>1, <3>1, <3>2
  <2> QED BY <1>2, <2>1, <2>2 DEF Unready, n
<1>8. Instances(mods')
  <2> SUFFICES ASSUME NEW x \in 1 .. n, mods'[x].instances # 0
               PROVE  mods'[mods'[x].instances].base # 0
                      /\ mods'[mods'[x].instances].header = mods'[x].header
    BY <1>2 DEF Instances
  <2> DEFINE i == ms[x].instances
  <2>1. mods'[x].instances = i /\ mods'[x].header = ms[x].header
    BY <1>2
  <2>2. i \in 0 .. n
    BY <1>1 DEF Module
  <2>3. i # 0 => ms[i].base # 0 /\ ms[i].header = ms[x].header
    BY DEF Instances, n
  <2> HIDE DEF i
  <2>4. i \in 1 .. n
    BY <1>1, <2>1, <2>2
  <2> QED BY <1>2, <2>1, <2>3, <2>4
<1> QED BY <1>4, <1>5, <1>6, <1>7, <1>8

\* A load allocates a module that is not ready, or lists it at once.
LEMMA WholeLoads ==
  ASSUME Typed, Whole, OneInstanceEach', NEW h \in Headers, NEW b \in 0 .. Len(mods),
         LoadsOf(h, b)
  PROVE  Whole'
<1> DEFINE n == Len(mods)
           m == n + 1
           l == Len(frames)
<1>1. /\ n \in Nat /\ Modules = 1 .. n /\ l \in Nat /\ finished \in Seq(1 .. n)
      /\ \A i \in 1 .. l : frames[i].kind = "init" => frames[i].m \in 1 .. n
  BY FramesOfModules DEF Typed
<1>2. b # 0 => mods[b].header = h /\ mods[b].instances = 0
  BY FirstInstance
<1>3. /\ IsInjective(finished) /\ modules = FirstOf(finished) /\ last = LastOf(finished)
      /\ Initialising(frames, finished)
  BY DEF Whole
<1>4. CASE Begins(h, b)
  <2>1. Grows(mods', h, b) /\ Quiet(mods', b)
    BY <1>2, <1>4 DEF Begins
  <2>2. /\ Pushed(frames, Begun(m), frames') /\ UNCHANGED <<modules, last, finished>>
    BY <1>4 DEF Begins
  <2>3. /\ m \notin ToSet(finished)
        /\ Chain(finished, mods') /\ Unready(finished, mods') /\ Instances(mods')
    BY <1>2, <2>1, WholeGrows
  <2>4. Initialising(frames', finished)
    <3>1. Len(frames') = l + 1 /\ frames'[1] = Begun(m)
          /\ \A i \in 1 .. l : frames'[i + 1] = frames[i]
      BY <2>2 DEF Pushed
    <3>2. Begun(m).m = m
      BY DEF Begun
    <3> HIDE DEF m
    <3> SUFFICES ASSUME NEW i \in 1 .. l + 1, frames'[i].kind = "init"
                 PROVE  frames'[i].m \notin ToSet(finished)
      BY <3>1 DEF Initialising
    <3>3. CASE i = 1
      BY <2>3, <3>1, <3>2, <3>3
    <3>4. CASE i # 1
      <4>1. i - 1 \in 1 .. l /\ (i - 1) + 1 = i
        BY <1>1, <3>4
      <4>2. frames'[i] = frames[i - 1]
        BY <3>1, <4>1
      <4> QED BY <1>3, <4>1, <4>2 DEF Initialising
    <3> QED BY <3>3, <3>4
  <2> QED BY <1>3, <2>2, <2>3, <2>4 DEF Whole
<1>5. CASE Arrives(h, b)
  <2>1. PICK ms : /\ Grows(ms, h, b) /\ Quiet(ms, b) /\ append(ms, m)
                  /\ finished' = Append(finished, m)
                  /\ UNCHANGED <<in_init, frames, stopped>>
    BY <1>2, <1>5 DEF Arrives
  <2>2. /\ m \notin ToSet(finished) /\ ms[m].next = 0
        /\ Chain(finished, ms) /\ Unready(finished, ms) /\ Instances(ms)
    BY <1>2, <2>1, WholeGrows
  <2>3. Closed(ms) /\ Len(ms) = m
    BY <2>1 DEF Grows
  <2>4. last \in 0 .. n /\ modules \in 0 .. n
    BY DEF Typed
  <2>5. last \in 0 .. m /\ modules \in 0 .. m /\ m \in 1 .. m /\ finished \in Seq(1 .. m)
    <3> HIDE DEF n
    <3> QED BY <1>1, <2>4, WiderFrames
  <2> HIDE DEF m
  <2>6. /\ IsInjective(finished') /\ ToSet(finished') = ToSet(finished) \cup {m}
        /\ modules' = FirstOf(finished') /\ last' = LastOf(finished')
        /\ Chain(finished', mods') /\ Unready(finished', mods') /\ Instances(mods')
    BY <1>3, <2>1, <2>2, <2>3, <2>5, WholeListed
  <2>7. Initialising(frames', finished')
    <3>1. m \notin 1 .. n
      BY <1>1 DEF m
    <3> QED BY <1>1, <1>3, <2>1, <2>6, <3>1 DEF Initialising
  <2> QED BY <2>6, <2>7 DEF Whole
<1> QED BY <1>4, <1>5 DEF LoadsOf

\* Frames that end or change do not make more initialisations.
LEMMA InitialisingStays ==
  ASSUME NEW fs, NEW gs, NEW f, NEW t, Len(fs) \in Nat \ {0}, Initialising(fs, t)
  PROVE  /\ (/\ Replaced(fs, f, gs)
             /\ f.kind = "init" => fs[1].kind = "init" /\ f.m = fs[1].m) =>
              Initialising(gs, t)
         /\ Popped(fs, gs) => Initialising(gs, t)
<1> DEFINE n == Len(fs)
<1>1. n \in Nat \ {0}
  OBVIOUS
<1>2. \A i \in 1 .. n : fs[i].kind = "init" => fs[i].m \notin ToSet(t)
  BY DEF Initialising
<1>3. ASSUME Replaced(fs, f, gs), f.kind = "init" => fs[1].kind = "init" /\ f.m = fs[1].m
      PROVE  Initialising(gs, t)
  <2>1. Len(gs) = n /\ gs[1] = f /\ \A i \in 2 .. n : gs[i] = fs[i]
    BY <1>3 DEF Replaced
  <2> HIDE DEF n
  <2>2. 1 \in 1 .. n /\ \A i \in 1 .. n : i = 1 \/ i \in 2 .. n
    BY <1>1
  <2> QED BY <1>2, <1>3, <2>1, <2>2 DEF Initialising
<1>4. ASSUME Popped(fs, gs) PROVE Initialising(gs, t)
  <2>1. Len(gs) = n - 1 /\ \A i \in 1 .. n - 1 : gs[i] = fs[i + 1]
    BY <1>4 DEF Popped
  <2> HIDE DEF n
  <2>2. \A i \in 1 .. n - 1 : i + 1 \in 1 .. n
    BY <1>1
  <2> QED BY <1>2, <2>1, <2>2 DEF Initialising
<1> QED BY <1>3, <1>4

\* Handlers are not links.
LEMMA WholeRegisters ==
  ASSUME Typed, Whole, Registers
  PROVE  Whole'
<1> DEFINE n == Len(mods)
           f == Head(frames)
           g == [f EXCEPT !.registered = TRUE]
<1>1. /\ n \in Nat /\ Modules = 1 .. n /\ finished \in Seq(1 .. n)
      /\ \A x \in 1 .. n : mods[x] \in Module(n)
  BY LinksStay DEF Typed
<1>2. /\ frames # <<>> /\ f.kind = "init" /\ Replaced(frames, g, frames') /\ Len(mods') = n
      /\ \A x \in 1 .. n :
           /\ mods'[x].header = mods[x].header /\ mods'[x].base = mods[x].base
           /\ mods'[x].next = mods[x].next /\ mods'[x].instances = mods[x].instances
      /\ UNCHANGED <<modules, last, finished>>
  BY <1>1 DEF Registers
<1>3. f = frames[1] /\ Len(frames) \in Nat \ {0} /\ f \in InitFrame(n)
  BY <1>2, FirstFrame
<1>4. Initialising(frames', finished)
  <2>1. g.m = f.m
    <3> HIDE DEF f, n
    <3> QED BY <1>3 DEF InitFrame
  <2>2. Initialising(frames, finished)
    BY DEF Whole
  <2> HIDE DEF f, g
  <2> QED BY <1>2, <1>3, <2>1, <2>2, InitialisingStays
<1>5. \A k \in 1 .. Len(finished) : finished[k] \in 1 .. n
  <2> HIDE DEF n
  <2> QED BY <1>1, ElementOfSeq
<1>6. Chain(finished, mods')
  BY <1>2, <1>5 DEF Whole, Chain
<1>7. Unready(finished, mods')
  BY <1>2 DEF Whole, Unready
<1>8. Instances(mods')
  <2> SUFFICES ASSUME NEW x \in 1 .. n, mods'[x].instances # 0
               PROVE  mods'[mods'[x].instances].base # 0
                      /\ mods'[mods'[x].instances].header = mods'[x].header
    BY <1>2 DEF Instances
  <2> DEFINE i == mods[x].instances
  <2>1. mods'[x].instances = i /\ mods'[x].header = mods[x].header
    BY <1>2
  <2>2. i \in 0 .. n
    BY <1>1 DEF Module
  <2>3. i # 0 => mods[i].base # 0 /\ mods[i].header = mods[x].header
    BY DEF Whole, Instances
  <2> HIDE DEF i
  <2>4. i \in 1 .. n
    BY <1>1, <2>1, <2>2
  <2> QED BY <1>2, <2>1, <2>3, <2>4
<1> QED BY <1>2, <1>4, <1>6, <1>7, <1>8 DEF Whole

\* The module that is ready was not listed, and leads nowhere before it is.
LEMMA WholeSucceeds ==
  ASSUME Typed, Own, Whole, Succeeds
  PROVE  Whole'
<1> DEFINE n == Len(mods)
           l == Len(frames)
           f == Head(frames)
           m == f.m
<1>1. /\ n \in Nat /\ Closed(mods) /\ last \in 0 .. n /\ modules \in 0 .. n
      /\ finished \in Seq(1 .. n)
      /\ \A i \in 1 .. l : frames[i].kind = "init" => frames[i].m \in 1 .. n
  BY FramesOfModules DEF Typed
<1>2. /\ frames # <<>> /\ f.kind = "init" /\ append(mods, m)
      /\ Replaced(frames, PostInit, frames') /\ finished' = Append(finished, m)
  BY DEF Succeeds
<1>3. f = frames[1] /\ l \in Nat \ {0} /\ 1 \in 1 .. l /\ m \in 1 .. n
  <2>1. f = frames[1] /\ l \in Nat \ {0} /\ f \in InitFrame(n)
    BY <1>2, FirstFrame
  <2> HIDE DEF l, n, f
  <2> QED BY <2>1 DEF InitFrame
<1>4. /\ IsInjective(finished) /\ modules = FirstOf(finished) /\ last = LastOf(finished)
      /\ Chain(finished, mods) /\ Unready(finished, mods) /\ Instances(mods)
      /\ Initialising(frames, finished)
  BY DEF Whole
<1>5. m \notin ToSet(finished) /\ mods[m].next = 0
  <2>1. m \notin ToSet(finished)
    BY <1>2, <1>3, <1>4 DEF Initialising
  <2> QED BY <1>3, <1>4, <2>1 DEF Unready
<1> HIDE DEF m, f
<1>6. /\ IsInjective(finished') /\ ToSet(finished') = ToSet(finished) \cup {m}
      /\ modules' = FirstOf(finished') /\ last' = LastOf(finished')
      /\ Chain(finished', mods') /\ Unready(finished', mods') /\ Instances(mods')
  BY <1>1, <1>2, <1>3, <1>4, <1>5, WholeListed
<1>7. Initialising(frames', finished')
  <2>1. Len(frames') = l /\ frames'[1] = PostInit /\ \A i \in 2 .. l : frames'[i] = frames[i]
    BY <1>2 DEF Replaced
  <2>2. PostInit.kind # "init"
    BY DEF PostInit
  <2> HIDE DEF l
  <2>3. \A i \in 1 .. l : i = 1 \/ (i \in 2 .. l /\ i # 1)
    BY <1>3
  <2> SUFFICES ASSUME NEW i \in 1 .. l, frames'[i].kind = "init"
               PROVE  frames'[i].m \notin ToSet(finished')
    BY <2>1 DEF Initialising
  <2>4. i \in 2 .. l /\ i # 1 /\ frames'[i] = frames[i]
    BY <2>1, <2>2, <2>3
  <2>5. frames[i].m \notin ToSet(finished)
    BY <1>4, <2>4 DEF Initialising, l
  <2>6. frames[i].m # m
    BY <1>2, <1>3, <2>4 DEF Own, Apart, l, m
  <2> QED BY <1>6, <2>4, <2>5, <2>6
<1> QED BY <1>6, <1>7 DEF Whole

\* Service calls and failures change no link.
LEMMA WholeFrames ==
  ASSUME Typed, Whole, Ends \/ \E w : Walked(w)
  PROVE  Whole'
<1>1. frames # <<>> /\ UNCHANGED <<mods, modules, last, finished>>
  BY DEF Ends, Walked
<1>2. Len(frames) \in Nat \ {0} /\ Initialising(frames, finished)
  BY <1>1, FirstFrame DEF Whole
<1>3. Initialising(frames', finished)
  <2>1. CASE Ends
    BY <1>2, <2>1, InitialisingStays DEF Ends
  <2>2. CASE \E w : Walked(w)
    <3>1. PICK w : Walked(w)
      BY <2>2
    <3>2. w.kind # "init" /\ Replaced(frames, w, frames')
      BY <3>1 DEF Walked, Passes, Calls, CallsInstance, Returns
    <3> QED BY <1>2, <3>2, InitialisingStays
  <2> QED BY <2>1, <2>2
<1> QED BY <1>1, <1>3 DEF Whole

\* So every step keeps the list whole.
LEMMA WholeNext ==
  Typed /\ Own /\ Whole /\ [Next]_vars /\ OneInstanceEach' => Whole'
<1> SUFFICES ASSUME Typed, Own, Whole, [Next]_vars, OneInstanceEach' PROVE Whole'
  OBVIOUS
<1>1. CASE Loading /\ UNCHANGED direct
  <2>1. CASE HasNoBase
    BY <2>1 DEF HasNoBase, Whole
  <2>2. CASE \E h \in Headers, b \in 0 .. Len(mods) : LoadsOf(h, b)
    BY <2>2, WholeLoads
  <2>3. CASE Registers
    BY <2>3, WholeRegisters
  <2>4. CASE Succeeds
    BY <2>4, WholeSucceeds
  <2>5. CASE Ends \/ \E w \in Frame(Len(mods)) : Walked(w)
    BY <2>5, WholeFrames
  <2> QED BY <1>1, <2>1, <2>2, <2>3, <2>4, <2>5, StepsOfLoads
<1>2. CASE (\E h \in Headers : SwiIsDirect(h)) \/ SwiRuns
  BY <1>2 DEF SwiIsDirect, SwiRuns, loadVars, Whole
<1>3. CASE UNCHANGED vars
  BY <1>3 DEF vars, loadVars, Whole
<1> QED BY <1>1, <1>2, <1>3 DEF Next

\* As long as no module has a second instance, the list is whole.
WholeWhileOne == OneInstanceEach => Whole

\* That, too, every step keeps.
LEMMA WholeWhileOneNext ==
  Typed /\ Own /\ WholeWhileOne /\ [Next]_vars => WholeWhileOne'
<1> SUFFICES ASSUME Typed, Own, WholeWhileOne, [Next]_vars, OneInstanceEach'
             PROVE  Whole'
  BY DEF WholeWhileOne
<1>1. Whole
  BY OneInstanceBefore DEF WholeWhileOne
<1> QED BY <1>1, WholeNext

\* However loads nest and fail the list is that of the modules that are ready,
\* each once and in order, until a header gets a second instance: new_module
\* links the first to it in the list that they share.
THEOREM ListStaysWhole == Spec => []ListIsWhole
<1>1. Init => Own /\ WholeWhileOne
  BY OwnInit, WholeInit DEF WholeWhileOne
<1>2. Typed /\ Own /\ WholeWhileOne /\ [Next]_vars => Own' /\ WholeWhileOne'
  BY OwnNext, WholeWhileOneNext
<1>3. Typed /\ WholeWhileOne => ListIsWhole
  BY WholeIsWhole DEF WholeWhileOne, ListIsWhole
<1> QED BY <1>1, <1>2, <1>3, TypesStay, PTL DEF Spec

-----------------------------------------------------------------------------
\* The first of the modules that are ready, with the header.
FirstWith(fs, ms, h, x) ==
  \/ x = 0 /\ \A k \in 1 .. Len(fs) : ms[fs[k]].header # h
  \/ \E k \in 1 .. Len(fs) :
       /\ x = fs[k] /\ ms[x].header = h
       /\ \A j \in 1 .. Len(fs) : j < k => ms[fs[j]].header # h

FindsFirst == \A h : FirstWith(finished, mods, h, find(h))

\* find gives the first module with the header that is ready.
LEMMA FindIsFirst == Typed /\ Whole => FindsFirst
<1> SUFFICES ASSUME Typed, Whole, NEW h PROVE FirstWith(finished, mods, h, find(h))
  BY DEF FindsFirst
<1> DEFINE x == find(h)
<1>1. List(modules) = finished
  BY WholeIsWhole
<1>2. DOMAIN finished = 1 .. Len(finished) /\ Len(finished) \in Nat
  BY LenProperties DEF Typed
<1>3. /\ x # 0 => \E k \in DOMAIN finished :
                    /\ x = finished[k] /\ mods[x].header = h
                    /\ \A j \in DOMAIN finished : mods[finished[j]].header = h => k <= j
      /\ x = 0 => \A k \in DOMAIN finished : mods[finished[k]].header # h
  <2>1. Closed(mods) /\ modules \in 0 .. Len(mods)
    BY DEF Typed
  <2> QED BY <1>1, <2>1, FoundIsThere
<1> HIDE DEF x
<1>4. CASE x = 0
  BY <1>2, <1>3, <1>4 DEF FirstWith, x
<1>5. CASE x # 0
  <2>1. PICK k \in 1 .. Len(finished) :
          /\ x = finished[k] /\ mods[x].header = h
          /\ \A j \in 1 .. Len(finished) : mods[finished[j]].header = h => k <= j
    BY <1>2, <1>3, <1>5
  <2>2. \A j \in 1 .. Len(finished) : j < k => mods[finished[j]].header # h
    BY <1>2, <2>1
  <2> QED BY <2>1, <2>2 DEF FirstWith, x
<1> QED BY <1>4, <1>5

\* What was found is found again when another is ready.
LEMMA FirstStays ==
  ASSUME NEW n \in Nat, NEW fs \in Seq(1 .. n), NEW gs, NEW ms, NEW ns, NEW h, NEW x, NEW y,
         gs = fs \/ \E m : gs = Append(fs, m),
         \A z \in 1 .. n : ns[z].header = ms[z].header,
         FirstWith(fs, ms, h, x), x # 0, FirstWith(gs, ns, h, y)
  PROVE  y = x
<1> DEFINE l == Len(fs)
<1>1. l \in Nat /\ \A k \in 1 .. l : fs[k] \in 1 .. n
  BY LenProperties, ElementOfSeq
<1>2. /\ Len(gs) \in {l, l + 1} /\ \A k \in 1 .. l : gs[k] = fs[k]
  <2>1. CASE gs = fs
    BY <2>1
  <2>2. CASE gs # fs
    <3>1. PICK m : gs = Append(fs, m)
      BY <2>2
    <3> DEFINE T == (1 .. n) \cup {m}
    <3>2. fs \in Seq(T) /\ m \in T
      BY WiderSequences
    <3> HIDE DEF T
    <3>3. Len(Append(fs, m)) = Len(fs) + 1 /\ \A k \in 1 .. Len(fs) : Append(fs, m)[k] = fs[k]
      BY ONLY <3>2, AppendProperties
    <3> QED BY <3>1, <3>3
  <2> QED BY <2>1, <2>2
<1>3. PICK k \in 1 .. l :
        /\ x = fs[k] /\ ms[x].header = h
        /\ \A j \in 1 .. l : j < k => ms[fs[j]].header # h
  BY DEF FirstWith
<1> HIDE DEF l
<1>4. k \in 1 .. Len(gs) /\ gs[k] = x /\ ns[x].header = h
  BY <1>1, <1>2, <1>3
<1>5. PICK i \in 1 .. Len(gs) :
        /\ y = gs[i] /\ ns[y].header = h
        /\ \A j \in 1 .. Len(gs) : j < i => ns[gs[j]].header # h
  BY <1>4 DEF FirstWith
<1>6. ~ (k < i)
  BY <1>4, <1>5
<1>7. ~ (i < k)
  <2> SUFFICES ASSUME i < k PROVE FALSE
    OBVIOUS
  <2>1. i \in 1 .. l
    BY <1>1, <1>2, <1>3, <1>5
  <2>2. gs[i] = fs[i] /\ fs[i] \in 1 .. n
    BY <1>1, <1>2, <2>1
  <2> QED BY <1>3, <1>5, <2>1, <2>2
<1>8. i = k
  BY <1>1, <1>2, <1>3, <1>5, <1>6, <1>7
<1> QED BY <1>4, <1>5, <1>8

\* What no step changes in a module that is there: another instance may be
\* preferred.
Kept ==
  /\ \A x \in Modules :
       /\ mods'[x].header = mods[x].header /\ mods'[x].base = mods[x].base
       /\ mods[x].handlers # 0 => mods'[x].handlers # 0
       /\ mods'[x].preferred # mods[x].preferred =>
            LET p == mods'[x].preferred IN p # 0 /\ mods'[p].base # 0
  /\ finished' = finished \/ \E m : finished' = Append(finished, m)

\* Every step of a load keeps it.
LEMMA StepsKeep ==
  ASSUME Typed, Loading, UNCHANGED direct
  PROVE  Kept
<1> DEFINE n == Len(mods)
           m == n + 1
<1>1. /\ n \in Nat /\ Modules = 1 .. n /\ \A x \in 1 .. n : mods[x] \in Module(n)
      /\ Closed(mods) /\ last \in 0 .. n /\ modules \in 0 .. n
  BY LinksStay DEF Typed
<1>2. CASE HasNoBase
  BY <1>2 DEF HasNoBase, Kept
<1>3. ASSUME NEW ms, NEW h, NEW b \in 0 .. n, Grows(ms, h, b)
      PROVE  /\ Len(ms) = m /\ Closed(ms)
             /\ ms[m].base = b
             /\ \A x \in 1 .. n :
                  /\ ms[x].header = mods[x].header /\ ms[x].base = mods[x].base
                  /\ ms[x].handlers = mods[x].handlers
                  /\ ms[x].preferred # mods[x].preferred => ms[x].preferred = m /\ b # 0
  <2>1. /\ Len(ms) = m /\ Closed(ms) /\ ms[m] = New(h, b, IF b = 0 THEN m ELSE 0)
        /\ \A x \in 1 .. n :
             /\ ms[x].header = mods[x].header /\ ms[x].base = mods[x].base
             /\ ms[x].handlers = mods[x].handlers
             /\ ms[x].preferred = IF x = b THEN m ELSE mods[x].preferred
    BY <1>1, <1>3 DEF Grows
  <2>2. ms[m].base = b
    BY <2>1 DEF New
  <2> HIDE DEF m
  <2>3. \A x \in 1 .. n : x # 0
    BY <1>1
  <2> QED BY <2>1, <2>2, <2>3
<1>4. CASE \E h \in Headers, b \in 0 .. n : LoadsOf(h, b)
  <2>1. PICK h \in Headers, b \in 0 .. n : LoadsOf(h, b)
    BY <1>4
  <2>2. m # 0 /\ m \in 1 .. m
    BY <1>1
  <2>3. CASE Begins(h, b)
    <3>1. Grows(mods', h, b) /\ finished' = finished
      BY <2>3 DEF Begins
    <3>2. /\ mods'[m].base = b
          /\ \A x \in 1 .. n :
               /\ mods'[x].header = mods[x].header /\ mods'[x].base = mods[x].base
               /\ mods'[x].handlers = mods[x].handlers
               /\ mods'[x].preferred # mods[x].preferred => mods'[x].preferred = m /\ b # 0
      BY <1>3, <3>1
    <3> HIDE DEF m
    <3> QED BY <1>1, <2>2, <3>1, <3>2 DEF Kept
  <2>4. CASE Arrives(h, b)
    <3>1. PICK ms : Grows(ms, h, b) /\ append(ms, m) /\ finished' = Append(finished, m)
      BY <2>4 DEF Arrives
    <3>2. /\ Len(ms) = m /\ Closed(ms)
          /\ ms[m].base = b
          /\ \A x \in 1 .. n :
               /\ ms[x].header = mods[x].header /\ ms[x].base = mods[x].base
               /\ ms[x].handlers = mods[x].handlers
               /\ ms[x].preferred # mods[x].preferred => ms[x].preferred = m /\ b # 0
      BY <1>3, <3>1
    <3>3. last \in 0 .. m /\ modules \in 0 .. m
      <4> HIDE DEF n
      <4> QED BY <1>1
    <3>4. \A x \in 1 .. n : x \in 1 .. m
      BY <1>1
    <3> HIDE DEF m
    <3>5. \A x \in 1 .. m :
            /\ mods'[x].header = ms[x].header /\ mods'[x].base = ms[x].base
            /\ mods'[x].handlers = ms[x].handlers
            /\ mods'[x].preferred = ms[x].preferred
      BY <2>2, <3>1, <3>2, <3>3, ModuleListed
    <3> QED BY <1>1, <2>2, <3>1, <3>2, <3>4, <3>5 DEF Kept
  <2> QED BY <2>1, <2>3, <2>4 DEF LoadsOf
<1>5. CASE Registers
  <2> DEFINE f == Head(frames)
  <2>1. /\ f.kind = "init" /\ frames # <<>> /\ UNCHANGED finished
        /\ \A x \in 1 .. n :
             /\ mods'[x].header = mods[x].header /\ mods'[x].base = mods[x].base
             /\ mods'[x].preferred = mods[x].preferred
             /\ mods[x].handlers # 0 => mods'[x].handlers = mods[x].handlers
    BY <1>1, <1>5 DEF Registers
  <2> QED BY <1>1, <2>1 DEF Kept
<1>6. CASE Succeeds
  <2> DEFINE f == Head(frames)
  <2>1. frames # <<>> /\ f.kind = "init" /\ append(mods, f.m) /\ finished' = Append(finished, f.m)
    BY <1>6 DEF Succeeds
  <2>2. f.m \in 1 .. n
    <3>1. f \in InitFrame(n)
      BY <2>1, FirstFrame
    <3> HIDE DEF f, n
    <3> QED BY <3>1 DEF InitFrame
  <2> HIDE DEF f
  <2>3. \A x \in 1 .. n :
          /\ mods'[x].header = mods[x].header /\ mods'[x].base = mods[x].base
          /\ mods'[x].handlers = mods[x].handlers
          /\ mods'[x].preferred = mods[x].preferred
    BY <1>1, <2>1, <2>2, ModuleListed
  <2> QED BY <1>1, <2>1, <2>3 DEF Kept
<1>7. CASE Ends \/ \E w \in Frame(n) : Walked(w)
  BY <1>7 DEF Ends, Walked, Kept
<1> QED BY <1>2, <1>4, <1>5, <1>6, <1>7, StepsOfLoads

\* A module prefers itself or an instance; and what was found not to need the
\* legacy stack has handlers, unless an instance has become preferred since.
Prefers(ms) ==
  \A x \in 1 .. Len(ms) :
    LET p == ms[x].preferred IN p # 0 /\ ms[p].base = 0 => p = x

DirectReady ==
  \A h \in direct :
    LET p == preferred(h)
    IN  p # 0 /\ (mods[p].base = 0 => mods[p].handlers # 0)

\* No step makes a module prefer another that is not its instance.
LEMMA PrefersStays ==
  ASSUME Typed, Loading, UNCHANGED direct, Prefers(mods)
  PROVE  Prefers(mods')
<1> DEFINE n == Len(mods)
           m == n + 1
<1>1. /\ n \in Nat /\ Modules = 1 .. n /\ \A x \in 1 .. n : mods[x] \in Module(n)
      /\ last \in 0 .. n /\ modules \in 0 .. n
  BY LinksStay DEF Typed
<1>2. \A x \in 1 .. n :
        /\ mods'[x].base = mods[x].base
        /\ mods'[x].preferred # mods[x].preferred =>
             LET p == mods'[x].preferred IN p # 0 /\ mods'[p].base # 0
  BY <1>1, StepsKeep DEF Kept
<1>3. Len(mods') = n \/ (Len(mods') = m /\ mods'[m].preferred \in {0, m})
  <2>1. CASE \E h \in Headers, b \in 0 .. n : LoadsOf(h, b)
    <3>1. PICK h \in Headers, b \in 0 .. n : LoadsOf(h, b)
      BY <2>1
    <3>2. \A ms : Grows(ms, h, b) => ms[m].preferred \in {0, m}
      BY DEF Grows, New
    <3>3. CASE Begins(h, b)
      <4>1. Grows(mods', h, b) /\ Len(mods') = m
        BY <3>3 DEF Begins, Grows
      <4> HIDE DEF m
      <4> QED BY <3>2, <4>1
    <3>4. CASE Arrives(h, b)
      <4>1. PICK ms : Grows(ms, h, b) /\ append(ms, m)
        BY <3>4 DEF Arrives
      <4>2. Len(ms) = m /\ Closed(ms)
        BY <4>1 DEF Grows
      <4>3. last \in 0 .. m /\ modules \in 0 .. m /\ m \in 1 .. m
        <5> HIDE DEF n
        <5> QED BY <1>1
      <4>4. ms[m].preferred \in {0, m}
        BY <3>2, <4>1
      <4> HIDE DEF m
      <4>5. Len(mods') = m /\ mods'[m].preferred = ms[m].preferred
        BY <4>1, <4>2, <4>3, ModuleListed
      <4> QED BY <4>4, <4>5
    <3> QED BY <3>1, <3>3, <3>4 DEF LoadsOf
  <2>2. CASE HasNoBase \/ Registers \/ Ends \/ \E w : Walked(w)
    BY <2>2 DEF HasNoBase, Registers, Ends, Walked
  <2> QED BY <2>1, <2>2, StepsOfLoads
<1>4. ASSUME NEW x \in 1 .. n, mods'[x].preferred # 0, mods'[mods'[x].preferred].base = 0
      PROVE  mods'[x].preferred = x
  <2> DEFINE p == mods[x].preferred
  <2>1. mods'[x].preferred = p
    BY <1>2, <1>4
  <2>2. p \in 0 .. n
    BY <1>1 DEF Module
  <2>3. p # 0 /\ mods[p].base = 0 => p = x
    BY DEF Prefers
  <2> HIDE DEF p
  <2>4. p \in 1 .. n
    BY <1>1, <1>4, <2>1, <2>2
  <2> QED BY <1>2, <1>4, <2>1, <2>3, <2>4
<1> HIDE DEF n
<1>5. \A x \in 1 .. m : x \in 1 .. n \/ x = m
  BY <1>1
<1> QED BY <1>3, <1>4, <1>5 DEF Prefers

\* What was found not to need the legacy stack still has its handlers.
LEMMA DirectStays ==
  ASSUME Typed, Whole, DirectReady, Kept, FindsFirst, FindsFirst', direct' \subseteq direct
  PROVE  DirectReady'
<1> DEFINE n == Len(mods)
<1>1. /\ n \in Nat /\ Modules = 1 .. n /\ \A x \in 1 .. n : mods[x] \in Module(n)
      /\ finished \in Seq(1 .. n)
  BY LinksStay DEF Typed
<1>2. /\ \A x \in 1 .. n :
           /\ mods'[x].header = mods[x].header /\ mods'[x].base = mods[x].base
           /\ mods[x].handlers # 0 => mods'[x].handlers # 0
           /\ mods'[x].preferred # mods[x].preferred =>
                LET p == mods'[x].preferred IN p # 0 /\ mods'[p].base # 0
      /\ finished' = finished \/ \E m : finished' = Append(finished, m)
  BY <1>1 DEF Kept
<1> HIDE DEF n
<1> SUFFICES ASSUME NEW h \in direct
             PROVE  LET p == preferred(h)'
                    IN  p # 0 /\ (mods'[p].base = 0 => mods'[p].handlers # 0)
  BY DEF DirectReady
<1> DEFINE x == find(h)
           y == find(h)'
           p == mods[x].preferred
<1>3. preferred(h) # 0 /\ (mods[preferred(h)].base = 0 => mods[preferred(h)].handlers # 0)
  BY DEF DirectReady
<1>4. x # 0 /\ preferred(h) = p
  BY <1>3 DEF preferred
<1>5. FirstWith(finished, mods, h, x) /\ FirstWith(finished', mods', h, y)
  BY DEF FindsFirst
<1> HIDE DEF x, y
<1>6. x \in 1 .. n
  <2>1. \A k \in 1 .. Len(finished) : finished[k] \in 1 .. n
    BY <1>1, ElementOfSeq
  <2> QED BY <1>4, <1>5, <2>1 DEF FirstWith
<1>7. y = x
  BY <1>1, <1>2, <1>4, <1>5, FirstStays
<1>8. preferred(h)' = mods'[x].preferred
  BY <1>4, <1>7 DEF preferred, y
<1>9. p \in 0 .. n
  BY <1>1, <1>6 DEF Module
<1>10. CASE mods'[x].preferred = p
  <2>1. p \in 1 .. n /\ p # 0
    BY <1>1, <1>3, <1>4, <1>9
  <2> QED BY <1>2, <1>3, <1>4, <1>8, <1>10, <2>1
<1>11. CASE mods'[x].preferred # p
  BY <1>2, <1>6, <1>8, <1>11
<1> QED BY <1>10, <1>11

\* So SWIs get to modules that are ready.
Swis == Prefers(mods) /\ DirectReady

\* Which is what SWIs rely on.
LEMMA SwisAreReady ==
  ASSUME Typed, Whole, Swis
  PROVE  SwisGetToReadyModules
<1> SUFFICES ASSUME NEW h \in Headers, preferred(h) # 0, mods[preferred(h)].base = 0
             PROVE  /\ preferred(h) \in ToSet(finished)
                    /\ h \in direct => run_module_swi(h) = "handlers"
  BY DEF SwisGetToReadyModules
<1> DEFINE n == Len(mods)
           x == find(h)
           p == mods[x].preferred
<1>1. n \in Nat /\ finished \in Seq(1 .. n)
  BY LinksStay DEF Typed
<1>2. x # 0 /\ preferred(h) = p
  BY DEF preferred
<1>3. FirstWith(finished, mods, h, x)
  BY FindIsFirst DEF FindsFirst
<1> HIDE DEF n, x
<1>4. x \in 1 .. n /\ x \in ToSet(finished)
  <2>1. \A k \in 1 .. Len(finished) : finished[k] \in 1 .. n
    BY <1>1, ElementOfSeq
  <2>2. DOMAIN finished = 1 .. Len(finished)
    BY <1>1, LenProperties
  <2> QED BY <1>2, <1>3, <2>1, <2>2 DEF FirstWith, ToSet
<1>5. p = x
  BY <1>2, <1>4 DEF Swis, Prefers, n
<1>6. h \in direct => mods[preferred(h)].handlers # 0
  BY DEF Swis, DirectReady
<1> QED BY <1>2, <1>4, <1>5, <1>6 DEF run_module_swi

\* At first there is no module to get to.
LEMMA SwisInit == Init => Swis
<1> SUFFICES ASSUME Init PROVE Swis
  OBVIOUS
<1>1. mods = <<>> /\ direct = {}
  BY DEF Init
<1>2. \A x \in 1 .. Len(mods) : FALSE
  BY <1>1
<1> QED BY <1>1, <1>2 DEF Swis, Prefers, DirectReady

\* Every step of a load, or of a SWI, keeps it.
LEMMA SwisNext ==
  Typed /\ Own /\ Whole /\ Swis /\ [Next]_vars /\ (Typed /\ Whole)' => Swis'
<1> SUFFICES ASSUME Typed, Own, Whole, Swis, [Next]_vars, (Typed /\ Whole)' PROVE Swis'
  OBVIOUS
<1>1. FindsFirst /\ FindsFirst'
  <2>1. FindsFirst
    BY FindIsFirst
  <2>2. FindsFirst'
    BY FindIsFirst, PTL
  <2> QED BY <2>1, <2>2
<1>2. CASE Loading /\ UNCHANGED direct
  <2>1. Prefers(mods')
    BY <1>2, PrefersStays DEF Swis
  <2>2. DirectReady'
    <3>1. Kept
      BY <1>2, StepsKeep
    <3> QED BY <1>1, <1>2, <3>1, DirectStays DEF Swis
  <2> QED BY <2>1, <2>2 DEF Swis
<1>3. CASE \E h \in Headers : SwiIsDirect(h)
  <2>1. PICK h \in Headers : SwiIsDirect(h)
    BY <1>3
  <2>2. preferred(h) # 0 /\ mods[preferred(h)].handlers # 0
    BY <2>1 DEF SwiIsDirect, needs_legacy_stack, handler_available
  <2>3. direct' = {h} /\ UNCHANGED mods
    BY <2>1 DEF SwiIsDirect, loadVars
  <2>4. preferred(h)' = preferred(h)
    BY <2>1 DEF SwiIsDirect, loadVars, preferred, find, List
  <2>5. DirectReady'
    BY <2>2, <2>3, <2>4 DEF DirectReady
  <2> QED BY <2>3, <2>5 DEF Swis
<1>4. CASE SwiRuns
  <2>1. direct' = {} /\ UNCHANGED mods
    BY <1>4 DEF SwiRuns, loadVars
  <2> QED BY <2>1 DEF Swis, DirectReady
<1>5. CASE UNCHANGED vars
  <2>1. direct' = direct /\ UNCHANGED <<mods, modules, finished>>
    BY <1>5 DEF vars, loadVars
  <2>2. Kept
    BY <2>1 DEF Kept
  <2>3. DirectReady'
    BY <1>1, <2>1, <2>2, DirectStays DEF Swis
  <2> QED BY <2>1, <2>3 DEF Swis
<1> QED BY <1>2, <1>3, <1>4, <1>5 DEF Next

\* As long as no module has a second instance, find gets to the modules that are
\* ready, and to no others.
SwisWhileOne == OneInstanceEach => Swis

\* Every step keeps that.
LEMMA SwisWhileOneNext ==
  Typed /\ Own /\ WholeWhileOne /\ SwisWhileOne /\ [Next]_vars
    /\ (Typed /\ WholeWhileOne)' => SwisWhileOne'
<1> SUFFICES ASSUME Typed, Own, WholeWhileOne, SwisWhileOne, [Next]_vars,
                    (Typed /\ WholeWhileOne)', OneInstanceEach'
             PROVE  Swis'
  BY DEF SwisWhileOne
<1>1. Whole /\ Swis /\ (Typed /\ Whole)'
  BY OneInstanceBefore DEF WholeWhileOne, SwisWhileOne
<1> QED BY <1>1, SwisNext

\* No SWI gets to a module without a postfix that is not ready, and one that was
\* found not to need the legacy stack has its handlers when it runs, whatever was
\* loaded meanwhile; until a header gets a second instance, as for the list.
THEOREM SwisReachReadyModules == Spec => [](OneInstanceEach => SwisGetToReadyModules)
<1>1. Init => Own /\ WholeWhileOne /\ SwisWhileOne
  BY OwnInit, WholeInit, SwisInit DEF WholeWhileOne, SwisWhileOne
<1>2. Typed /\ Own /\ WholeWhileOne /\ [Next]_vars => Own' /\ WholeWhileOne'
  BY OwnNext, WholeWhileOneNext
<1>3. Typed /\ Own /\ WholeWhileOne /\ SwisWhileOne /\ [Next]_vars
        /\ (Typed /\ WholeWhileOne)' => SwisWhileOne'
  BY SwisWhileOneNext
<1>4. Typed /\ WholeWhileOne /\ SwisWhileOne => (OneInstanceEach => SwisGetToReadyModules)
  BY SwisAreReady DEF WholeWhileOne, SwisWhileOne
<1> QED BY <1>1, <1>2, <1>3, <1>4, TypesStay, PTL DEF Spec

-----------------------------------------------------------------------------
\* How far a service call has come: the module it is at is the p-th of those that
\* are ready, or it is past them, and the first q have been told, if they are to
\* be.  Unless there are instances it told nobody else, and none twice.
Hears(ms, x) == ms[x].header \in HasService /\ ms[x].instances = 0
NoInstances(ms) == \A x \in 1 .. Len(ms) : ms[x].base = 0
Firsts(fs, q) == {fs[k] : k \in 1 .. q}

HasTold(f, fs, ms, p, q) ==
  /\ f.at = IF p = Len(fs) + 1 THEN 0 ELSE fs[p]
  /\ q = IF f.kind = "told" THEN p ELSE p - 1
  /\ \A k \in 1 .. q : Hears(ms, fs[k]) => fs[k] \in ToSet(f.told)
  /\ f.inst # 0 => f.at # 0 /\ ms[f.at].instances # 0 /\ ms[f.at].header \in HasService
  /\ NoInstances(ms) => IsInjective(f.told) /\ ToSet(f.told) \subseteq Firsts(fs, q)

Tells(f, fs, ms) ==
  \E p \in 1 .. Len(fs) + 1, q \in 0 .. Len(fs) : HasTold(f, fs, ms, p, q)

\* Only the innermost call goes on: further out, modules are being told.
AllTell ==
  \A i \in 1 .. Len(frames) :
    frames[i].kind # "init" => /\ Tells(frames[i], finished, mods)
                               /\ i # 1 => frames[i].kind = "told"

\* What a service call relies on in the modules.
Steady(ms, ns, n) ==
  /\ Len(ms) = n /\ Len(ns) \in Nat /\ n <= Len(ns)
  /\ \A x \in 1 .. n :
       /\ ns[x].header = ms[x].header /\ ns[x].base = ms[x].base
       /\ ms[x].instances # 0 => ns[x].instances # 0

\* While a module is told others may be ready, they are behind it.
LEMMA TellsStays ==
  ASSUME NEW n \in Nat, NEW fs \in Seq(1 .. n), NEW gs, NEW f, NEW ms, NEW ns,
         Tells(f, fs, ms), Steady(ms, ns, n),
         gs = fs \/ (f.kind = "told" /\ \E m : gs = Append(fs, m))
  PROVE  Tells(f, gs, ns)
<1> DEFINE l == Len(fs)
<1>1. l \in Nat /\ \A k \in 1 .. l : fs[k] \in 1 .. n
  BY LenProperties, ElementOfSeq
<1>2. /\ Len(gs) \in {l, l + 1} /\ \A k \in 1 .. l : gs[k] = fs[k]
      /\ Len(gs) # l => f.kind = "told"
  <2>1. CASE gs = fs
    BY <2>1
  <2>2. CASE gs # fs
    <3>1. PICK m : gs = Append(fs, m)
      BY <2>2
    <3> DEFINE T == (1 .. n) \cup {m}
    <3>2. fs \in Seq(T) /\ m \in T
      BY WiderSequences
    <3> HIDE DEF T
    <3>3. Len(Append(fs, m)) = Len(fs) + 1 /\ \A k \in 1 .. Len(fs) : Append(fs, m)[k] = fs[k]
      BY ONLY <3>2, AppendProperties
    <3> QED BY <2>2, <3>1, <3>3
  <2> QED BY <2>1, <2>2
<1>3. PICK p \in 1 .. l + 1, q \in 0 .. l : HasTold(f, fs, ms, p, q)
  BY DEF Tells
<1>4. /\ f.at = IF p = l + 1 THEN 0 ELSE fs[p]
      /\ q = IF f.kind = "told" THEN p ELSE p - 1
      /\ \A k \in 1 .. q : Hears(ms, fs[k]) => fs[k] \in ToSet(f.told)
      /\ f.inst # 0 => f.at # 0 /\ ms[f.at].instances # 0 /\ ms[f.at].header \in HasService
      /\ NoInstances(ms) => IsInjective(f.told) /\ ToSet(f.told) \subseteq Firsts(fs, q)
  BY <1>3 DEF HasTold
<1> HIDE DEF l
<1>5. /\ \A x \in 1 .. n : Hears(ns, x) => Hears(ms, x)
      /\ NoInstances(ns) => NoInstances(ms)
      /\ \A x \in 1 .. n : /\ ns[x].header = ms[x].header
                           /\ ms[x].instances # 0 => ns[x].instances # 0
  <2>1. \A x \in 1 .. n : x \in 1 .. Len(ns)
    BY DEF Steady
  <2> QED BY <2>1 DEF Steady, Hears, NoInstances
<1>6. p \in 1 .. Len(gs) + 1 /\ q \in 0 .. Len(gs) /\ (p = Len(gs) + 1 <=> p = l + 1)
  BY <1>1, <1>2, <1>3, <1>4
<1>7. f.at = IF p = Len(gs) + 1 THEN 0 ELSE gs[p]
  <2>1. p # l + 1 => p \in 1 .. l
    BY <1>1
  <2> QED BY <1>2, <1>4, <1>6, <2>1
<1>8. \A k \in 1 .. q : k \in 1 .. l /\ gs[k] = fs[k] /\ fs[k] \in 1 .. n
  BY <1>1, <1>2
<1>9. \A k \in 1 .. q : Hears(ns, gs[k]) => gs[k] \in ToSet(f.told)
  BY <1>4, <1>5, <1>8
<1>10. f.inst # 0 => f.at # 0 /\ ns[f.at].instances # 0 /\ ns[f.at].header \in HasService
  <2>1. f.at # 0 => f.at \in 1 .. n
    <3>1. p # l + 1 => p \in 1 .. l
      BY <1>1
    <3> QED BY <1>1, <1>4, <3>1
  <2> QED BY <1>4, <1>5, <2>1
<1>11. Firsts(gs, q) = Firsts(fs, q)
  BY <1>8 DEF Firsts
<1>12. HasTold(f, gs, ns, p, q)
  BY <1>4, <1>5, <1>7, <1>9, <1>10, <1>11 DEF HasTold
<1> QED BY <1>6, <1>12 DEF Tells

\* A service call begins at the first.
LEMMA TellsFromFirst ==
  ASSUME NEW f, NEW fs, NEW ms, Len(fs) \in Nat,
         f.kind = "walk", f.at = FirstOf(fs), f.inst = 0, f.told = <<>>,
         fs = <<>> <=> Len(fs) = 0
  PROVE  Tells(f, fs, ms)
<1>1. IsInjective(<<>>) /\ ToSet(<<>>) = {}
  BY ShortLists
<1>2. f.at = IF 1 = Len(fs) + 1 THEN 0 ELSE fs[1]
  BY DEF FirstOf
<1>3. \A k \in 1 .. 0 : FALSE
  OBVIOUS
<1>4. HasTold(f, fs, ms, 1, 0)
  BY <1>1, <1>2, <1>3 DEF HasTold
<1>5. 1 \in 1 .. Len(fs) + 1 /\ 0 \in 0 .. Len(fs)
  OBVIOUS
<1> QED BY <1>4, <1>5 DEF Tells

\* Who has been told when one more has.
LEMMA ToldOnceMore ==
  ASSUME NEW n \in Nat, NEW s \in Seq(1 .. n), NEW i \in 1 .. n
  PROVE  /\ ToSet(Append(s, i)) = ToSet(s) \cup {i}
         /\ (IsInjective(s) /\ i \notin ToSet(s)) => IsInjective(Append(s, i))
BY Appended

\* It goes on, module by module.
LEMMA GoesOn ==
  ASSUME NEW n \in Nat, NEW fs \in Seq(1 .. n), IsInjective(fs), Chain(fs, mods),
         Modules = 1 .. n,
         NoInstances(mods) => \A x \in 1 .. n : mods[x].instances = 0,
         NEW f, f.told \in Seq(1 .. n), NEW w,
         Passes(f, w) \/ Calls(f, w) \/ CallsInstance(f, w) \/ Returns(f, w),
         Tells(f, fs, mods)
  PROVE  Tells(w, fs, mods)
<1> DEFINE l == Len(fs)
<1>1. l \in Nat /\ DOMAIN fs = 1 .. l /\ \A k \in 1 .. l : fs[k] \in 1 .. n
  BY LenProperties, ElementOfSeq
<1>2. l = Len(fs)
  OBVIOUS
<1>3. \A k \in 1 .. l : mods[fs[k]].next = IF k = l THEN 0 ELSE fs[k + 1]
  BY DEF Chain
<1>4. PICK p \in 1 .. l + 1, q \in 0 .. l : HasTold(f, fs, mods, p, q)
  BY DEF Tells
<1>5. /\ f.at = IF p = l + 1 THEN 0 ELSE fs[p]
      /\ q = IF f.kind = "told" THEN p ELSE p - 1
      /\ \A k \in 1 .. q : Hears(mods, fs[k]) => fs[k] \in ToSet(f.told)
      /\ f.inst # 0 => f.at # 0 /\ mods[f.at].instances # 0
                       /\ mods[f.at].header \in HasService
      /\ NoInstances(mods) => IsInjective(f.told) /\ ToSet(f.told) \subseteq Firsts(fs, q)
  BY <1>4 DEF HasTold
<1> HIDE DEF l
<1>6. f.at \in 1 .. n
  BY DEF Passes, Calls, CallsInstance, Returns
<1>f. p # l + 1
  <2>1. p = l + 1 => f.at = 0
    BY <1>5
  <2> QED BY <1>6, <2>1
<1>7. /\ p \in 1 .. l /\ f.at = fs[p] /\ p # l + 1 /\ p + 1 \in 1 .. l + 1 /\ p \in 0 .. l
      /\ p - 1 \in 0 .. l /\ p \in 1 .. l + 1 /\ (p + 1) - 1 = p
      /\ (p + 1 = l + 1 <=> p = l)
      /\ \A k \in 1 .. p : k = p \/ k \in 1 .. p - 1
      /\ \A k \in 1 .. p - 1 : k \in 1 .. p /\ k # p /\ k \in 1 .. l
      /\ p \in 1 .. p
  <2>1. f.at = fs[p]
    BY <1>5, <1>f
  <2>2. /\ p \in 1 .. l /\ p # l + 1 /\ p + 1 \in 1 .. l + 1 /\ p \in 0 .. l
        /\ p - 1 \in 0 .. l /\ p \in 1 .. l + 1 /\ (p + 1) - 1 = p
        /\ (p + 1 = l + 1 <=> p = l) /\ p \in 1 .. p
    <3>1. l \in Nat
      BY <1>1
    <3>2. p \in Int /\ 1 <= p /\ p <= l
      BY <3>1, <1>f
    <3> QED BY <3>1, <3>2
  <2>3. /\ \A k \in 1 .. p : k = p \/ k \in 1 .. p - 1
        /\ \A k \in 1 .. p - 1 : k \in 1 .. p /\ k # p /\ k \in 1 .. l
    BY <1>1, <2>2
  <2> QED BY <2>1, <2>2, <2>3
<1>8. mods[f.at].next = IF p + 1 = l + 1 THEN 0 ELSE fs[p + 1]
  BY <1>3, <1>7
<1>9. /\ Firsts(fs, p - 1) \subseteq Firsts(fs, p) /\ fs[p] \in Firsts(fs, p)
      /\ fs[p] \notin Firsts(fs, p - 1)
  <2>1. \A k \in 1 .. p - 1 : fs[k] # fs[p]
    BY <1>1, <1>7 DEF IsInjective
  <2> QED BY <1>7, <2>1 DEF Firsts
<1>10. CASE Passes(f, w)
  <2>1. /\ f.kind = "walk" /\ mods[f.at].header \notin HasService /\ w.kind = "walk"
        /\ w.at = mods[f.at].next /\ w.inst = f.inst /\ w.told = f.told
    BY <1>10 DEF Passes
  <2>2. q = p - 1 /\ w.inst = 0 /\ ~ Hears(mods, fs[p])
    BY <1>5, <1>7, <2>1 DEF Hears
  <2>3. w.at = IF p + 1 = Len(fs) + 1 THEN 0 ELSE fs[p + 1]
    BY <1>2, <1>8, <2>1
  <2>4. p = IF w.kind = "told" THEN p + 1 ELSE (p + 1) - 1
    BY <1>7, <2>1
  <2>5. \A k \in 1 .. p : Hears(mods, fs[k]) => fs[k] \in ToSet(w.told)
    BY <1>5, <1>7, <2>1, <2>2
  <2>6. NoInstances(mods) => IsInjective(w.told) /\ ToSet(w.told) \subseteq Firsts(fs, p)
    BY <1>5, <1>9, <2>1, <2>2
  <2>7. HasTold(w, fs, mods, p + 1, p)
    BY <2>2, <2>3, <2>4, <2>5, <2>6 DEF HasTold
  <2> QED BY <1>2, <1>7, <2>7 DEF Tells
<1>11. CASE Calls(f, w)
  <2>1. /\ f.kind = "walk" /\ w.kind = "told" /\ w.at = f.at /\ w.inst = 0
        /\ w.told = Append(f.told, f.at)
    BY <1>11 DEF Calls
  <2>2. q = p - 1
    BY <1>5, <2>1
  <2>3. /\ ToSet(w.told) = ToSet(f.told) \cup {fs[p]}
        /\ (IsInjective(f.told) /\ fs[p] \notin ToSet(f.told)) => IsInjective(w.told)
    <3> DEFINE s == f.told
    <3>1. s \in Seq(1 .. n) /\ fs[p] \in 1 .. n /\ w.told = Append(s, fs[p])
      BY <1>6, <1>7, <2>1
    <3> HIDE DEF s
    <3> QED BY <3>1, ToldOnceMore DEF s
  <2>4. w.at = IF p = Len(fs) + 1 THEN 0 ELSE fs[p]
    BY <1>2, <1>7, <2>1
  <2>5. p = IF w.kind = "told" THEN p ELSE p - 1
    BY <2>1
  <2>6. \A k \in 1 .. p : Hears(mods, fs[k]) => fs[k] \in ToSet(w.told)
    BY <1>5, <1>7, <2>2, <2>3
  <2>7. NoInstances(mods) => IsInjective(w.told) /\ ToSet(w.told) \subseteq Firsts(fs, p)
    BY <1>5, <1>9, <2>2, <2>3
  <2>8. HasTold(w, fs, mods, p, p)
    BY <2>1, <2>4, <2>5, <2>6, <2>7 DEF HasTold
  <2> QED BY <1>2, <1>7, <2>8 DEF Tells
<1>12. CASE CallsInstance(f, w)
  <2>1. /\ f.kind = "walk" /\ mods[f.at].header \in HasService
        /\ f.inst # 0 \/ mods[f.at].instances # 0
        /\ w.kind = "told" /\ w.at = f.at
    BY <1>12 DEF CallsInstance
  <2>2. PICK i \in 1 .. n : w.told = Append(f.told, i)
    BY <1>12 DEF CallsInstance
  <2>3. q = p - 1 /\ mods[f.at].instances # 0 /\ f.at # 0
    BY <1>5, <1>6, <2>1
  <2>4. ToSet(w.told) = ToSet(f.told) \cup {i}
    <3> DEFINE s == f.told
    <3>1. s \in Seq(1 .. n) /\ w.told = Append(s, i)
      BY <2>2
    <3> HIDE DEF s
    <3> QED BY <3>1, ToldOnceMore DEF s
  <2>5. ~ NoInstances(mods) /\ ~ Hears(mods, fs[p])
    BY <1>6, <1>7, <2>3 DEF Hears
  <2>6. w.at = IF p = Len(fs) + 1 THEN 0 ELSE fs[p]
    BY <1>2, <1>7, <2>1
  <2>7. p = IF w.kind = "told" THEN p ELSE p - 1
    BY <2>1
  <2>8. \A k \in 1 .. p : Hears(mods, fs[k]) => fs[k] \in ToSet(w.told)
    BY <1>5, <1>7, <2>3, <2>4, <2>5
  <2>9. w.inst # 0 => w.at # 0 /\ mods[w.at].instances # 0 /\ mods[w.at].header \in HasService
    BY <2>1, <2>3
  <2>10. HasTold(w, fs, mods, p, p)
    BY <2>5, <2>6, <2>7, <2>8, <2>9 DEF HasTold
  <2> QED BY <1>2, <1>7, <2>10 DEF Tells
<1>13. CASE Returns(f, w)
  <2>1. /\ f.kind = "told" /\ w.kind = "walk" /\ w.inst = f.inst /\ w.told = f.told
        /\ w.at = IF f.inst = 0 THEN mods[f.at].next ELSE f.at
    BY <1>13 DEF Returns
  <2>2. q = p
    BY <1>5, <2>1
  <2>3. CASE f.inst = 0
    <3>1. w.at = IF p + 1 = Len(fs) + 1 THEN 0 ELSE fs[p + 1]
      BY <1>2, <1>8, <2>1, <2>3
    <3>2. p = IF w.kind = "told" THEN p + 1 ELSE (p + 1) - 1
      BY <1>7, <2>1
    <3>3. HasTold(w, fs, mods, p + 1, p)
      BY <1>5, <2>1, <2>2, <2>3, <3>1, <3>2 DEF HasTold
    <3> QED BY <1>2, <1>7, <3>3 DEF Tells
  <2>4. CASE f.inst # 0
    <3>1. ~ NoInstances(mods)
      BY <1>5, <1>6, <2>4
    <3>2. w.at = IF p = Len(fs) + 1 THEN 0 ELSE fs[p]
      BY <1>2, <1>7, <2>1, <2>4
    <3>3. p - 1 = IF w.kind = "told" THEN p ELSE p - 1
      BY <2>1
    <3>4. \A k \in 1 .. p - 1 : Hears(mods, fs[k]) => fs[k] \in ToSet(w.told)
      BY <1>5, <1>7, <2>1, <2>2
    <3>5. w.inst # 0 => w.at # 0 /\ mods[w.at].instances # 0 /\ mods[w.at].header \in HasService
      BY <1>5, <2>1, <2>4
    <3>6. HasTold(w, fs, mods, p, p - 1)
      BY <3>1, <3>2, <3>3, <3>4, <3>5 DEF HasTold
    <3> QED BY <1>2, <1>7, <3>6 DEF Tells
  <2> QED BY <2>3, <2>4
<1> QED BY <1>10, <1>11, <1>12, <1>13

\* The innermost frame goes on in such a way.
LEMMA TellsOn ==
  ASSUME Typed, Whole, NEW w, Walked(w), Tells(Head(frames), finished, mods)
  PROVE  Tells(w, finished, mods)
<1> DEFINE n == Len(mods)
           f == Head(frames)
<1>1. /\ n \in Nat /\ Modules = 1 .. n /\ \A x \in 1 .. n : mods[x] \in Module(n)
      /\ finished \in Seq(1 .. n)
  BY LinksStay DEF Typed
<1>2. /\ frames # <<>>
      /\ Passes(f, w) \/ Calls(f, w) \/ CallsInstance(f, w) \/ Returns(f, w)
  BY DEF Walked
<1>3. f.told \in Seq(1 .. n)
  <2>1. f.kind = "walk" \/ f.kind = "told"
    BY <1>2 DEF Passes, Calls, CallsInstance, Returns
  <2>2. f \in WalkFrame(n) \/ f \in ToldFrame(n)
    BY <1>2, <2>1, FirstFrame
  <2> HIDE DEF f, n
  <2> QED BY <2>2 DEF WalkFrame, ToldFrame
<1>4. NoInstances(mods) => \A x \in 1 .. n : mods[x].instances = 0
  <2> SUFFICES ASSUME NoInstances(mods), NEW x \in 1 .. n, mods[x].instances # 0
               PROVE  FALSE
    OBVIOUS
  <2> DEFINE i == mods[x].instances
  <2>1. i \in 0 .. n /\ i # 0
    BY <1>1 DEF Module
  <2>2. mods[i].base # 0
    BY DEF Whole, Instances
  <2> HIDE DEF i
  <2>3. i \in 1 .. n
    BY <1>1, <2>1
  <2> QED BY <2>2, <2>3 DEF NoInstances
<1>5. IsInjective(finished) /\ Chain(finished, mods) /\ Tells(f, finished, mods)
  BY DEF Whole
<1> HIDE DEF n, f
<1> QED BY <1>1, <1>2, <1>3, <1>4, <1>5, GoesOn

\* What a load relies on in the modules is kept: with one instance of a header at
\* most, no list of instances is lost.
LEMMA StepsAreSteady ==
  ASSUME Typed, Whole, OneInstanceEach', Loading, UNCHANGED direct
  PROVE  Steady(mods, mods', Len(mods))
<1> DEFINE n == Len(mods)
           m == n + 1
<1>1. /\ n \in Nat /\ Modules = 1 .. n /\ Closed(mods)
      /\ last \in 0 .. n /\ modules \in 0 .. n
  BY LinksStay DEF Typed
<1>2. CASE HasNoBase
  <2>1. mods' = mods
    BY <1>2 DEF HasNoBase
  <2> HIDE DEF n
  <2>2. Len(mods) = n /\ n <= n
    BY <1>1 DEF n
  <2> QED BY <1>1, <2>1, <2>2 DEF Steady
<1>3. ASSUME NEW ms, NEW h, NEW b \in 0 .. n, Grows(ms, h, b), Quiet(ms, b)
      PROVE  /\ Len(ms) = m /\ Closed(ms)
             /\ \A x \in 1 .. n :
                  /\ ms[x].header = mods[x].header /\ ms[x].base = mods[x].base
                  /\ mods[x].instances # 0 => ms[x].instances # 0
  <2>1. /\ Len(ms) = m /\ Closed(ms)
        /\ \A x \in 1 .. n :
             /\ ms[x].header = mods[x].header /\ ms[x].base = mods[x].base
             /\ ms[x].instances = IF x = b THEN m ELSE mods[x].instances
    BY <1>1, <1>3 DEF Grows, Quiet
  <2>2. m # 0
    BY <1>1
  <2> HIDE DEF m
  <2> QED BY <2>1, <2>2
<1>4. CASE \E h \in Headers, b \in 0 .. n : LoadsOf(h, b)
  <2>1. PICK h \in Headers, b \in 0 .. n : LoadsOf(h, b)
    BY <1>4
  <2>2. b # 0 => mods[b].instances = 0
    BY <2>1, FirstInstance
  <2>3. m \in Nat /\ n <= m
    BY <1>1
  <2>4. CASE Begins(h, b)
    <3>1. Grows(mods', h, b) /\ Quiet(mods', b)
      BY <2>2, <2>4 DEF Begins
    <3>2. /\ Len(mods') = m
          /\ \A x \in 1 .. n :
               /\ mods'[x].header = mods[x].header /\ mods'[x].base = mods[x].base
               /\ mods[x].instances # 0 => mods'[x].instances # 0
      BY <1>3, <3>1
    <3> HIDE DEF m
    <3> QED BY <2>3, <3>2 DEF Steady
  <2>5. CASE Arrives(h, b)
    <3>1. PICK ms : Grows(ms, h, b) /\ Quiet(ms, b) /\ append(ms, m)
      BY <2>2, <2>5 DEF Arrives
    <3>2. /\ Len(ms) = m /\ Closed(ms)
          /\ \A x \in 1 .. n :
               /\ ms[x].header = mods[x].header /\ ms[x].base = mods[x].base
               /\ mods[x].instances # 0 => ms[x].instances # 0
      BY <1>3, <3>1
    <3>3. last \in 0 .. m /\ modules \in 0 .. m /\ m \in 1 .. m
      <4> HIDE DEF n
      <4> QED BY <1>1
    <3>4. \A x \in 1 .. n : x \in 1 .. m
      BY <1>1
    <3> HIDE DEF m
    <3>5. /\ Len(mods') = m
          /\ \A x \in 1 .. m :
               /\ mods'[x].header = ms[x].header /\ mods'[x].base = ms[x].base
               /\ mods'[x].instances = ms[x].instances
      BY <3>1, <3>2, <3>3, ModuleListed
    <3> QED BY <2>3, <3>2, <3>4, <3>5 DEF Steady
  <2> QED BY <2>1, <2>4, <2>5 DEF LoadsOf
<1>5. CASE Registers
  <2>1. /\ Len(mods') = n
        /\ \A x \in 1 .. n :
             /\ mods'[x].header = mods[x].header /\ mods'[x].base = mods[x].base
             /\ mods'[x].instances = mods[x].instances
    BY <1>1, <1>5 DEF Registers
  <2> QED BY <1>1, <2>1 DEF Steady
<1>6. CASE Succeeds /\ Len(mods') = Len(mods)
  <2> DEFINE f == Head(frames)
  <2>1. frames # <<>> /\ f.kind = "init" /\ append(mods, f.m)
    BY <1>6 DEF Succeeds
  <2>2. f.m \in 1 .. n
    <3>1. f \in InitFrame(n)
      BY <2>1, FirstFrame
    <3> HIDE DEF f, n
    <3> QED BY <3>1 DEF InitFrame
  <2> HIDE DEF f
  <2>3. \A x \in 1 .. n :
          /\ mods'[x].header = mods[x].header /\ mods'[x].base = mods[x].base
          /\ mods'[x].instances = mods[x].instances
    BY <1>1, <2>1, <2>2, ModuleListed
  <2> QED BY <1>1, <1>6, <2>3 DEF Steady
<1>7. CASE Ends \/ \E w \in Frame(n) : Walked(w)
  BY <1>1, <1>7 DEF Ends, Walked, Steady
<1> QED BY <1>2, <1>4, <1>5, <1>6, <1>7, StepsOfLoads

\* A frame that stays as it is.
LEMMA FrameStillTells ==
  ASSUME Typed, AllTell, Steady(mods, mods', Len(mods)),
         NEW i \in 1 .. Len(frames), frames[i].kind # "init",
         \/ finished' = finished
         \/ frames[i].kind = "told" /\ \E m : finished' = Append(finished, m)
  PROVE  Tells(frames[i], finished', mods')
<1> DEFINE n == Len(mods)
<1>1. n \in Nat /\ finished \in Seq(1 .. n)
  BY LinksStay DEF Typed
<1>2. Tells(frames[i], finished, mods)
  BY DEF AllTell
<1> HIDE DEF n
<1> QED BY <1>1, <1>2, TellsStays DEF n

\* At first nobody is told anything.
LEMMA AllTellInit == Init => AllTell
<1> SUFFICES ASSUME Init PROVE AllTell
  OBVIOUS
<1>1. frames = <<>>
  BY DEF Init
<1>2. \A i \in 1 .. Len(frames) : FALSE
  BY <1>1
<1> QED BY <1>2 DEF AllTell

\* Every step keeps how far each call has come.
LEMMA AllTellNext ==
  Typed /\ Whole /\ AllTell /\ [Next]_vars /\ (Typed /\ Whole)' /\ OneInstanceEach'
    => AllTell'
<1> SUFFICES ASSUME Typed, Whole, AllTell, [Next]_vars, (Typed /\ Whole)', OneInstanceEach'
             PROVE  AllTell'
  OBVIOUS
<1> DEFINE n == Len(mods)
           l == Len(frames)
<1>1. l \in Nat
  BY FramesOfModules
<1>2. CASE Loading /\ UNCHANGED direct
  <2>1. Steady(mods, mods', n)
    BY <1>2, StepsAreSteady
  <2>2. ASSUME NEW i \in 1 .. l, frames[i].kind # "init",
               \/ finished' = finished
               \/ frames[i].kind = "told" /\ \E m : finished' = Append(finished, m)
        PROVE  Tells(frames[i], finished', mods')
    BY <2>1, <2>2, FrameStillTells
  <2>3. \A i \in 1 .. l : frames[i].kind # "init" /\ i # 1 => frames[i].kind = "told"
    BY DEF AllTell
  <2>4. frames # <<>> => Head(frames) = frames[1] /\ l # 0
    BY FirstFrame
  <2>5. MayLoad => \A i \in 1 .. l : frames[i].kind # "init" => frames[i].kind = "told"
    <3> SUFFICES ASSUME MayLoad, NEW i \in 1 .. l, frames[i].kind # "init"
                 PROVE  frames[i].kind = "told"
      OBVIOUS
    <3>1. frames # <<>>
      <4>1. frames = <<>> => l = 0
        OBVIOUS
      <4> QED BY <1>1, <4>1
    <3> QED BY <2>3, <2>4, <3>1 DEF MayLoad
  <2>6. CASE HasNoBase
    BY <2>6 DEF HasNoBase, AllTell
  <2>7. CASE \E h \in Headers, b \in 0 .. n : LoadsOf(h, b)
    <3>1. PICK h \in Headers, b \in 0 .. n : LoadsOf(h, b)
      BY <2>7
    <3>2. MayLoad /\ (Begins(h, b) \/ Arrives(h, b))
      BY <3>1 DEF LoadsOf
    <3>3. CASE Begins(h, b)
      <4> DEFINE f == Begun(n + 1)
      <4>1. /\ Len(frames') = l + 1 /\ frames'[1] = f
            /\ \A i \in 1 .. l : frames'[i + 1] = frames[i]
            /\ finished' = finished
        BY <3>3 DEF Begins, Pushed
      <4>2. f.kind = "init"
        BY DEF Begun
      <4> HIDE DEF f, l, n
      <4> SUFFICES ASSUME NEW i \in 1 .. l + 1, frames'[i].kind # "init"
                   PROVE  /\ Tells(frames'[i], finished', mods')
                          /\ i # 1 => frames'[i].kind = "told"
        BY <4>1 DEF AllTell
      <4> DEFINE j == i - 1
      <4>3. j \in 1 .. l /\ j + 1 = i
        <5>1. i # 1
          BY <4>1, <4>2
        <5> QED BY <1>1, <5>1
      <4> HIDE DEF j
      <4>4. frames'[i] = frames[j]
        BY <4>1, <4>3
      <4> QED BY <2>2, <2>5, <3>2, <4>1, <4>3, <4>4
    <3>4. CASE Arrives(h, b)
      <4>1. frames' = frames /\ \E m : finished' = Append(finished, m)
        BY <3>4 DEF Arrives
      <4> SUFFICES ASSUME NEW i \in 1 .. l, frames[i].kind # "init"
                   PROVE  Tells(frames[i], finished', mods') /\ frames[i].kind = "told"
        BY <4>1 DEF AllTell
      <4> QED BY <2>2, <2>5, <3>2, <4>1
    <3> QED BY <3>2, <3>3, <3>4
  <2>8. ASSUME NEW f, Replaced(frames, f, frames'),
               f.kind # "init" => Tells(f, finished', mods'),
               finished' = finished \/ \E m : finished' = Append(finished, m)
        PROVE  AllTell'
    <3>1. Len(frames') = l /\ frames'[1] = f /\ \A i \in 2 .. l : frames'[i] = frames[i]
      BY <2>8 DEF Replaced
    <3> HIDE DEF l
    <3> SUFFICES ASSUME NEW i \in 1 .. l, frames'[i].kind # "init"
                 PROVE  /\ Tells(frames'[i], finished', mods')
                        /\ i # 1 => frames'[i].kind = "told"
      BY <3>1 DEF AllTell
    <3>2. CASE i = 1
      BY <2>8, <3>1, <3>2
    <3>3. CASE i # 1
      <4>1. i \in 2 .. l /\ frames'[i] = frames[i]
        BY <1>1, <3>1, <3>3
      <4>2. frames[i].kind = "told"
        BY <2>3, <3>3, <4>1
      <4> QED BY <2>2, <2>8, <4>1, <4>2
    <3> QED BY <3>2, <3>3
  <2>9. CASE Registers
    <3> DEFINE f == Head(frames)
               g == [f EXCEPT !.registered = TRUE]
    <3>1. f.kind = "init" /\ frames # <<>> /\ Replaced(frames, g, frames') /\ finished' = finished
      BY <2>9 DEF Registers
    <3>2. g.kind = "init"
      <4>1. f \in InitFrame(n)
        BY <3>1, FirstFrame
      <4> HIDE DEF f, n
      <4> QED BY <4>1 DEF InitFrame
    <3> HIDE DEF f, g
    <3> QED BY <2>8, <3>1, <3>2
  <2>10. CASE Succeeds
    <3> DEFINE f == PostInit
    <3>1. /\ Replaced(frames, f, frames')
          /\ \E m : finished' = Append(finished, m)
      BY <2>10 DEF Succeeds
    <3>2. modules' = FirstOf(finished')
      BY DEF Whole
    <3>3. Len(finished') \in Nat /\ (finished' = <<>> <=> Len(finished') = 0)
      <4> DEFINE S == 1 .. Len(mods')
      <4>1. finished' \in Seq(S)
        BY DEF Typed
      <4> HIDE DEF S
      <4> QED BY <4>1, LenProperties, EmptySeq
    <3>4. f.kind = "walk" /\ f.at = FirstOf(finished') /\ f.inst = 0 /\ f.told = <<>>
      BY <3>2 DEF PostInit
    <3> HIDE DEF f
    <3>5. Tells(f, finished', mods')
      BY <3>3, <3>4, TellsFromFirst
    <3> QED BY <2>8, <3>1, <3>5
  <2>11. CASE Ends
    <3>1. /\ Len(frames') = l - 1 /\ \A i \in 1 .. l - 1 : frames'[i] = frames[i + 1]
          /\ finished' = finished
      BY <2>11 DEF Ends, Popped
    <3> HIDE DEF l
    <3> SUFFICES ASSUME NEW i \in 1 .. l - 1, frames'[i].kind # "init"
                 PROVE  Tells(frames'[i], finished', mods') /\ frames'[i].kind = "told"
      BY <3>1 DEF AllTell
    <3> DEFINE j == i + 1
    <3>2. j \in 1 .. l /\ j # 1 /\ frames'[i] = frames[j]
      BY <1>1, <3>1
    <3> HIDE DEF j
    <3> QED BY <2>2, <2>3, <3>1, <3>2
  <2>12. CASE \E w \in Frame(n) : Walked(w)
    <3>1. PICK w : Walked(w)
      BY <2>12
    <3>2. /\ frames # <<>> /\ Replaced(frames, w, frames')
          /\ finished' = finished /\ mods' = mods
          /\ Head(frames).kind # "init"
      BY <3>1 DEF Walked, Passes, Calls, CallsInstance, Returns
    <3>3. Head(frames) = frames[1] /\ 1 \in 1 .. l
      BY <1>1, <2>4, <3>2
    <3>4. Tells(Head(frames), finished, mods)
      BY <3>2, <3>3 DEF AllTell
    <3>5. Tells(w, finished, mods)
      BY <3>1, <3>4, TellsOn
    <3> QED BY <2>8, <3>2, <3>5
  <2> QED BY <1>2, <2>6, <2>7, <2>9, <2>10, <2>11, <2>12, StepsOfLoads
<1>3. CASE (\E h \in Headers : SwiIsDirect(h)) \/ SwiRuns
  BY <1>3 DEF SwiIsDirect, SwiRuns, loadVars, AllTell
<1>4. CASE UNCHANGED vars
  BY <1>4 DEF vars, loadVars, AllTell
<1> QED BY <1>2, <1>3, <1>4 DEF Next

\* Past the last module everyone was told.
LEMMA AllAreTold ==
  ASSUME Typed, AllTell
  PROVE  EveryoneIsTold
<1> SUFFICES ASSUME Walking, Head(frames).at = 0
             PROVE  LET told == Head(frames).told
                        Listens(m) == mods[m].header \in HasService /\ mods[m].instances = 0
                    IN  /\ {m \in ToSet(finished) : Listens(m)} \subseteq ToSet(told)
                        /\ (\A m \in Modules : mods[m].base = 0) => IsInjective(told)
  BY DEF EveryoneIsTold
<1> DEFINE n == Len(mods)
           l == Len(finished)
           f == Head(frames)
<1>1. n \in Nat /\ Modules = 1 .. n /\ finished \in Seq(1 .. n)
  BY LinksStay DEF Typed
<1>2. l \in Nat /\ DOMAIN finished = 1 .. l /\ \A k \in 1 .. l : finished[k] \in 1 .. n
  <2> HIDE DEF n
  <2> QED BY <1>1, LenProperties, ElementOfSeq
<1>3. frames # <<>> /\ f.kind = "walk" /\ f.at = 0
  BY DEF Walking
<1>4. f = frames[1] /\ 1 \in 1 .. Len(frames)
  BY <1>3, FirstFrame
<1>5. PICK p \in 1 .. l + 1, q \in 0 .. l : HasTold(f, finished, mods, p, q)
  BY <1>3, <1>4 DEF AllTell, Tells
<1>6. /\ f.at = IF p = l + 1 THEN 0 ELSE finished[p]
      /\ q = IF f.kind = "told" THEN p ELSE p - 1
      /\ \A k \in 1 .. q : Hears(mods, finished[k]) => finished[k] \in ToSet(f.told)
      /\ NoInstances(mods) => IsInjective(f.told)
  BY <1>5 DEF HasTold
<1> HIDE DEF n, l, f
<1>7. q = l
  <2>1. p # l + 1 => p \in 1 .. l
    BY <1>2
  <2>2. p = l + 1
    BY <1>1, <1>2, <1>3, <1>6, <2>1
  <2> QED BY <1>2, <1>3, <1>6, <2>2
<1>8. \A m \in ToSet(finished) : Hears(mods, m) => m \in ToSet(f.told)
  BY <1>2, <1>6, <1>7 DEF ToSet
<1>9. (\A m \in Modules : mods[m].base = 0) => IsInjective(f.told)
  BY <1>1, <1>6 DEF NoInstances, n
<1> QED BY <1>8, <1>9 DEF Hears, f

\* As long as no module has a second instance, each call has told those it passed.
TellWhileOne == OneInstanceEach => AllTell

\* Every step keeps that.
LEMMA TellWhileOneNext ==
  Typed /\ WholeWhileOne /\ TellWhileOne /\ [Next]_vars
    /\ (Typed /\ WholeWhileOne)' => TellWhileOne'
<1> SUFFICES ASSUME Typed, WholeWhileOne, TellWhileOne, [Next]_vars,
                    (Typed /\ WholeWhileOne)', OneInstanceEach'
             PROVE  AllTell'
  BY DEF TellWhileOne
<1>1. Whole /\ AllTell /\ (Typed /\ Whole)'
  BY OneInstanceBefore DEF WholeWhileOne, TellWhileOne
<1> QED BY <1>1, AllTellNext

\* A service call that nobody claims gets to every module that is ready when it
\* ends, those too that were loaded while it was under way, and to none twice
\* while there are no instances; until a header gets a second one.
THEOREM EveryoneHears == Spec => []EveryoneIsTold
<1>1. Init => Own /\ WholeWhileOne /\ TellWhileOne
  BY OwnInit, WholeInit, AllTellInit DEF WholeWhileOne, TellWhileOne
<1>2. Typed /\ Own /\ WholeWhileOne /\ [Next]_vars => Own' /\ WholeWhileOne'
  BY OwnNext, WholeWhileOneNext
<1>3. Typed /\ WholeWhileOne /\ TellWhileOne /\ [Next]_vars
        /\ (Typed /\ WholeWhileOne)' => TellWhileOne'
  BY TellWhileOneNext
<1>4. Typed /\ TellWhileOne => EveryoneIsTold
  BY AllAreTold DEF TellWhileOne, EveryoneIsTold
<1> QED BY <1>1, <1>2, <1>3, <1>4, TypesStay, PTL DEF Spec
===============================================================================

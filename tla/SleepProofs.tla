----------------------------- MODULE SleepProofs ------------------------------
(***************************************************************************)
(* The list of relative times keeps the absolute ones: Sleep implements    *)
(* Alarms, for any number of tasks and any times.                          *)
(***************************************************************************)
EXTENDS Sleep, ListLemmas

\* d says when each task of list s wakes, when r says how long each waits
\* after the one before it.
Due(s, r, d) ==
  /\ d \in [Tasks -> Nat]
  /\ \A t \in Tasks \ ToSet(s) : d[t] = 0
  /\ \A i \in 1 .. Len(s) : d[s[i]] = r[s[i]] + (IF i = 1 THEN 0 ELSE d[s[i - 1]])

IsSleepers(s, r) ==
  /\ s \in Seq(Tasks) /\ IsInjective(s)
  /\ r \in [Tasks -> Nat]
  /\ s # <<>> => r[s[1]] # 0

\* The inductive invariant: a task is in the list once, the first one waits
\* for at least a tick, and the waits add up to a waking time for each.
IInv ==
  /\ IsSleepers(sleeping, r0)
  /\ \E d : Due(sleeping, r0, d)

\* The sums of the waits.
Sums(s, r) ==
  CHOOSE sum : sum = [i \in 0 .. Len(s) |-> IF i = 0 THEN 0 ELSE sum[i - 1] + r[s[i]]]

\* What Ticks is, in terms of the list and the waits.
LEMMA TicksUnfolds == \A k : Ticks(k) = Sums(sleeping, r0)[k]
  BY Zenon DEF Ticks, Sums

\* The waits up to a task of the list add up to its waking time.
LEMMA SumsAreDue ==
  ASSUME NEW s, NEW r, NEW d, IsSleepers(s, r), Due(s, r, d)
  PROVE  \A k \in 0 .. Len(s) : Sums(s, r)[k] = IF k = 0 THEN 0 ELSE d[s[k]]
<1> DEFINE n == Len(s)
           g == [k \in 0 .. n |-> IF k = 0 THEN 0 ELSE d[s[k]]]
           w == Sums(s, r)
<1>1. /\ n \in Nat
      /\ \A i \in 1 .. n : s[i] \in Tasks /\ r[s[i]] \in Nat /\ d[s[i]] \in Nat
      /\ \A i \in 1 .. n : d[s[i]] = r[s[i]] + (IF i = 1 THEN 0 ELSE d[s[i - 1]])
  <2>1. s \in Seq(Tasks) /\ r \in [Tasks -> Nat] /\ d \in [Tasks -> Nat]
    BY DEF IsSleepers, Due
  <2>2. n \in Nat /\ \A i \in 1 .. n : s[i] \in Tasks
    BY <2>1
  <2> QED BY <2>1, <2>2 DEF Due
<1>2. g = [k \in 0 .. n |-> IF k = 0 THEN 0 ELSE g[k - 1] + r[s[k]]]
  <2> SUFFICES ASSUME NEW k \in 0 .. n
               PROVE  g[k] = IF k = 0 THEN 0 ELSE g[k - 1] + r[s[k]]
    OBVIOUS
  <2> HIDE DEF n
  <2>1. CASE k = 0
    BY <2>1
  <2>2. CASE k # 0
    <3>1. k \in 1 .. n /\ k - 1 \in 0 .. n /\ (k - 1 = 0 <=> k = 1)
      BY <1>1, <2>2
    <3>2. g[k] = d[s[k]] /\ g[k - 1] = IF k = 1 THEN 0 ELSE d[s[k - 1]]
      BY <3>1
    <3> HIDE DEF g
    <3>3. g[k - 1] \in Nat /\ r[s[k]] \in Nat
      <4>1. k # 1 => k - 1 \in 1 .. n
        BY <1>1, <3>1
      <4> QED BY <1>1, <3>1, <3>2, <4>1
    <3>4. d[s[k]] = r[s[k]] + g[k - 1]
      BY <1>1, <3>1, <3>2
    <3> QED BY <2>2, <3>2, <3>3, <3>4
  <2> QED BY <2>1, <2>2
<1>3. w = [k \in 0 .. n |-> IF k = 0 THEN 0 ELSE w[k - 1] + r[s[k]]]
  <2> HIDE DEF g
  <2> QED BY <1>2, Zenon DEF Sums
<1> HIDE DEF w, g, n
<1>4. w[0] = 0 /\ \A k \in 1 .. n : w[k] = w[k - 1] + r[s[k]]
  <2>1. 0 \in 0 .. n
    BY <1>1
  <2>2. w[0] = 0
    BY <1>3, <2>1
  <2>3. ASSUME NEW k \in 1 .. n PROVE w[k] = w[k - 1] + r[s[k]]
    <3>1. k \in 0 .. n /\ k # 0
      BY <1>1
    <3> QED BY <1>3, <3>1
  <2> QED BY <2>2, <2>3
<1>5. \A k \in 1 .. n : w[k] = d[s[k]]
  <2> DEFINE T == {k \in 1 .. n : w[k] # d[s[k]]}
  <2> SUFFICES ASSUME T # {} PROVE FALSE
    OBVIOUS
  <2>1. PICK k \in T : \A j \in T : k <= j
    <3>1. T \subseteq Nat
      BY <1>1
    <3> QED BY <3>1, LeastNumber, Zenon
  <2>2. k \in 1 .. n /\ w[k] # d[s[k]]
    BY <2>1
  <2>3. CASE k = 1
    BY <1>1, <1>4, <2>2, <2>3
  <2>4. CASE k # 1
    <3>1. k - 1 \in 1 .. n /\ k - 1 \notin T
      BY <1>1, <2>1, <2>2, <2>4
    <3>2. w[k - 1] = d[s[k - 1]]
      BY <3>1
    <3> QED BY <1>1, <1>4, <2>2, <2>4, <3>1, <3>2
  <2> QED BY <2>3, <2>4
<1>6. ASSUME NEW k \in 0 .. n PROVE w[k] = IF k = 0 THEN 0 ELSE d[s[k]]
  <2>1. k # 0 => k \in 1 .. n
    BY <1>1
  <2> QED BY <1>4, <1>5, <2>1
<1> QED BY <1>6 DEF w, n

\* So Left is what Alarms calls left.
LeftIsDue == \A d : Due(sleeping, r0, d) => Left = d

\* ... in every state of the invariant.
LEMMA LeftIs == IInv => LeftIsDue
<1> SUFFICES ASSUME IInv, NEW d, Due(sleeping, r0, d) PROVE Left = d
  BY DEF LeftIsDue
<1>1. IsSleepers(sleeping, r0) /\ sleeping \in Seq(Tasks) /\ d \in [Tasks -> Nat]
  BY DEF IInv, IsSleepers, Due
<1>2. \A k \in 1 .. Len(sleeping) : Ticks(k) = d[sleeping[k]]
  <2>1. \A k \in 0 .. Len(sleeping) : Ticks(k) = IF k = 0 THEN 0 ELSE d[sleeping[k]]
    BY <1>1, SumsAreDue, TicksUnfolds
  <2> QED BY <1>1, <2>1
<1>3. ASSUME NEW t \in Tasks PROVE Left[t] = d[t]
  <2>1. CASE t \in ToSet(sleeping)
    <3> DEFINE i == CHOOSE i \in DOMAIN sleeping : sleeping[i] = t
    <3>1. i \in DOMAIN sleeping /\ sleeping[i] = t
      BY <2>1 DEF ToSet
    <3>2. Left[t] = Ticks(i)
      BY <2>1 DEF Left
    <3> HIDE DEF i
    <3> QED BY <1>1, <1>2, <3>1, <3>2
  <2>2. CASE t \notin ToSet(sleeping)
    <3>1. Left[t] = 0
      BY <2>2 DEF Left
    <3> QED BY <2>2, <3>1 DEF Due
  <2> QED BY <2>1, <2>2
<1>4. Left = [t \in Tasks |-> Left[t]]
  BY DEF Left
<1> QED BY <1>1, <1>3, <1>4

\* A task goes to sleep after the first k of the list: it wakes when it asked
\* to, and the others when they did.
LEMMA TaskIsInserted ==
  ASSUME NEW s, NEW r, NEW d, IsSleepers(s, r), Due(s, r, d),
         NEW t \in Tasks, t \notin ToSet(s), NEW time \in Nat \ {0},
         NEW k \in 0 .. Len(s), NEW rest,
         k # 0 => d[s[k]] <= time,
         \/ k = Len(s)
         \/ d[s[k + 1]] > time
         \/ k > 0 /\ d[s[k]] = time,
         rest = time - (IF k = 0 THEN 0 ELSE d[s[k]])
  PROVE  LET l == InsertAt(s, k + 1, t)
             q == [u \in Tasks |->
                     IF u = t THEN rest
                     ELSE IF k < Len(s) /\ u = s[k + 1] THEN r[u] - rest
                     ELSE r[u]]
         IN  IsSleepers(l, q) /\ Due(l, q, [d EXCEPT ![t] = time])
<1> DEFINE n == Len(s)
           before == IF k = 0 THEN 0 ELSE d[s[k]]
           l == InsertAt(s, k + 1, t)
           q == [u \in Tasks |->
                     IF u = t THEN rest
                     ELSE IF k < Len(s) /\ u = s[k + 1] THEN r[u] - rest
                     ELSE r[u]]
           p == [d EXCEPT ![t] = time]
<1>1. /\ s \in Seq(Tasks) /\ n \in Nat /\ k \in 0 .. n /\ k + 1 \in 1 .. n + 1
      /\ DOMAIN s = 1 .. n
      /\ r \in [Tasks -> Nat] /\ d \in [Tasks -> Nat] /\ p \in [Tasks -> Nat]
      /\ \A i \in 1 .. n : s[i] \in Tasks /\ s[i] # t
      /\ \A i, j \in 1 .. n : s[i] = s[j] => i = j
  <2>1. s \in Seq(Tasks) /\ IsInjective(s) /\ r \in [Tasks -> Nat] /\ d \in [Tasks -> Nat]
    BY DEF IsSleepers, Due
  <2>2. n \in Nat /\ DOMAIN s = 1 .. n /\ \A i \in 1 .. n : s[i] \in Tasks
    BY <2>1
  <2>3. p \in [Tasks -> Nat]
    BY <2>1
  <2>4. \A i \in 1 .. n : s[i] # t
    BY <2>2 DEF ToSet
  <2>5. \A i, j \in 1 .. n : s[i] = s[j] => i = j
    BY <2>1, <2>2 DEF IsInjective
  <2>6. k \in 0 .. n /\ k + 1 \in 1 .. n + 1
    <3>1. n \in Nat /\ k \in 0 .. n
      BY <2>2
    <3> HIDE DEF n
    <3> QED BY <3>1
  <2> HIDE DEF n, p
  <2> QED BY <2>1, <2>2, <2>3, <2>4, <2>5, <2>6
<1>2. \A i \in 1 .. n : d[s[i]] = r[s[i]] + (IF i = 1 THEN 0 ELSE d[s[i - 1]])
  BY DEF Due
<1>0. n \in Nat /\ k \in 0 .. n
  BY <1>1
<1> HIDE DEF n, l, q, p
<1>3. before \in Nat /\ rest \in Nat /\ rest + before = time
  <2>0. \A i \in 1 .. n : d[s[i]] \in Nat
    BY <1>1
  <2>1. k # 0 => k \in 1 .. n /\ d[s[k]] \in Nat
    BY <1>0, <2>0
  <2>2. before \in Nat /\ before <= time /\ rest = time - before
    BY <2>1
  <2> HIDE DEF before
  <2> QED BY <2>2
<1>4. k < n => /\ d[s[k + 1]] = r[s[k + 1]] + before
               /\ r[s[k + 1]] >= rest
               /\ k = 0 => r[s[1]] > time
  <2> SUFFICES ASSUME k < n
               PROVE  /\ d[s[k + 1]] = r[s[k + 1]] + before
                      /\ r[s[k + 1]] >= rest
                      /\ k = 0 => r[s[1]] > time
    OBVIOUS
  <2>1. k + 1 \in 1 .. n /\ (k + 1 = 1 <=> k = 0) /\ (k + 1) - 1 = k
    BY <1>0
  <2>2. d[s[k + 1]] = r[s[k + 1]] + before
    BY <1>2, <2>1
  <2>3. r[s[k + 1]] \in Nat
    BY <1>1, <2>1
  <2>4. d[s[k + 1]] > time \/ (k > 0 /\ before = time)
    BY <1>0 DEF n
  <2> HIDE DEF before
  <2>5. r[s[k + 1]] >= rest
    BY SMTT(20), <1>3, <2>2, <2>3, <2>4
  <2>6. k = 0 => r[s[1]] > time
    <3> SUFFICES ASSUME k = 0 PROVE r[s[1]] > time
      OBVIOUS
    <3>1. before = 0
      BY DEF before
    <3> QED BY <2>2, <2>3, <2>4, <3>1
  <2> QED BY <2>2, <2>5, <2>6
<1>5. /\ Len(l) = n + 1 /\ l \in Seq(Tasks) /\ IsInjective(l)
      /\ ToSet(l) = ToSet(s) \cup {t}
      /\ \A j \in 1 .. n + 1 : l[j] = IF j < k + 1 THEN s[j] ELSE IF j = k + 1 THEN t ELSE s[j - 1]
  <2>1. IsInjective(s)
    BY DEF IsSleepers
  <2>2. k + 1 \in 1 .. Len(s) + 1 /\ s \in Seq(Tasks)
    BY <1>1 DEF n
  <2>3. l \in Seq(Tasks)
    BY <2>2, Inserted DEF l
  <2>4. ToSet(l) = ToSet(s) \cup {t} /\ IsInjective(l)
    BY <2>1, <2>2, InsertedOnce DEF l
  <2> QED BY <2>2, <2>3, <2>4, InsertedWhere DEF l, n
<1>6. /\ q \in [Tasks -> Nat] /\ q[t] = rest
      /\ \A i \in 1 .. n : q[s[i]] = IF i = k + 1 THEN r[s[i]] - rest ELSE r[s[i]]
  <2>1. \A i \in 1 .. n : q[s[i]] = IF i = k + 1 THEN r[s[i]] - rest ELSE r[s[i]]
    <3> SUFFICES ASSUME NEW i \in 1 .. n
                 PROVE  q[s[i]] = IF i = k + 1 THEN r[s[i]] - rest ELSE r[s[i]]
      OBVIOUS
    <3>1. (k < n /\ s[i] = s[k + 1]) <=> i = k + 1
      <4>1. n \in Nat /\ k \in 0 .. n /\ \A j \in 1 .. n : s[i] = s[j] => i = j
        BY <1>1
      <4>2. k < n => k + 1 \in 1 .. n
        BY <4>1
      <4>3. i = k + 1 => k < n
        BY <4>1
      <4> QED BY <4>1, <4>2, <4>3
    <3>2. s[i] \in Tasks /\ s[i] # t
      BY <1>1
    <3>3. q[s[i]] = IF k < n /\ s[i] = s[k + 1] THEN r[s[i]] - rest ELSE r[s[i]]
      BY <3>2 DEF q, n
    <3> QED BY <3>1, <3>3
  <2>2. ASSUME NEW u \in Tasks PROVE q[u] \in Nat
    <3>1. r[u] \in Nat /\ rest \in Nat
      BY <1>1, <1>3
    <3>2. k < n /\ u = s[k + 1] => r[u] - rest \in Nat
      BY <1>4, <3>1
    <3> QED BY <3>1, <3>2 DEF q, n
  <2>3. q = [u \in Tasks |-> q[u]] /\ q[t] = rest
    BY DEF q
  <2> QED BY <2>1, <2>2, <2>3
<1>7. \A i \in 1 .. n : p[s[i]] = d[s[i]]
  BY <1>1 DEF p
<1>8. p[t] = time
  BY <1>1 DEF p
<1> HIDE DEF before
<1>9. Due(l, q, p)
  <2>1. ASSUME NEW u \in Tasks \ ToSet(l) PROVE p[u] = 0
    <3>1. u # t /\ u \in Tasks \ ToSet(s)
      BY <1>5
    <3> QED BY <1>1, <3>1 DEF Due, p
  <2>2. ASSUME NEW i \in 1 .. n + 1
        PROVE  p[l[i]] = q[l[i]] + (IF i = 1 THEN 0 ELSE p[l[i - 1]])
    <3>1. CASE i < k + 1
      <4>1. i \in 1 .. n /\ l[i] = s[i] /\ (i # 1 => i - 1 \in 1 .. n /\ l[i - 1] = s[i - 1])
        <5>1. /\ i \in 1 .. n /\ i < k + 1 /\ i # k + 1 /\ i \in 1 .. n + 1
              /\ i # 1 => i - 1 \in 1 .. n /\ i - 1 \in 1 .. n + 1 /\ i - 1 < k + 1
          BY <1>0, <3>1
        <5> QED BY <1>5, <5>1
      <4>2. q[s[i]] = r[s[i]]
        BY <1>0, <1>6, <3>1, <4>1
      <4> QED BY <1>2, <1>7, <4>1, <4>2
    <3>2. CASE i = k + 1
      <4>1. l[i] = t /\ (i # 1 => i - 1 = k /\ k \in 1 .. n /\ l[i - 1] = s[k]) /\ (i = 1 <=> k = 0)
        <5>1. /\ k + 1 \in 1 .. n + 1 /\ ~(k + 1 < k + 1) /\ (i = 1 <=> k = 0)
              /\ i # 1 => i - 1 = k /\ k \in 1 .. n /\ k \in 1 .. n + 1 /\ k < k + 1
          BY <1>0, <3>2
        <5> QED BY <1>5, <3>2, <5>1
      <4>2. (IF i = 1 THEN 0 ELSE p[l[i - 1]]) = before
        BY <1>7, <4>1 DEF before
      <4> QED BY <1>3, <1>6, <1>8, <4>1, <4>2
    <3>3. CASE i = k + 2
      <4>1. i # 1 /\ k < n /\ k + 1 \in 1 .. n /\ i - 1 = k + 1 /\ l[i] = s[k + 1] /\ l[i - 1] = t
        <5>1. /\ i # 1 /\ k < n /\ k + 1 \in 1 .. n /\ i - 1 = k + 1 /\ k + 1 \in 1 .. n + 1
              /\ ~(i < k + 1) /\ i # k + 1
          BY <1>0, <3>3
        <5> QED BY <1>5, <5>1
      <4>2. q[l[i]] = r[s[k + 1]] - rest /\ p[l[i]] = r[s[k + 1]] + before /\ p[l[i - 1]] = time
        BY <1>4, <1>6, <1>7, <1>8, <4>1
      <4>3. r[s[k + 1]] \in Nat
        BY <1>1, <4>1
      <4> QED BY <1>3, <4>1, <4>2, <4>3
    <3>4. CASE i > k + 2
      <4>1. /\ i # 1 /\ i - 1 \in 1 .. n /\ i - 1 # 1 /\ i - 1 # k + 1 /\ (i - 1) - 1 \in 1 .. n
            /\ l[i] = s[i - 1] /\ l[i - 1] = s[(i - 1) - 1]
        <5>1. /\ i # 1 /\ i - 1 \in 1 .. n /\ i - 1 # 1 /\ i - 1 # k + 1 /\ (i - 1) - 1 \in 1 .. n
              /\ i - 1 \in 1 .. n + 1 /\ ~(i - 1 < k + 1) /\ ~(i < k + 1) /\ i # k + 1
          BY <1>0, <3>4
        <5> QED BY <1>5, <5>1
      <4>2. q[s[i - 1]] = r[s[i - 1]]
        BY <1>6, <4>1
      <4> QED BY <1>2, <1>7, <4>1, <4>2
    <3> QED BY <1>1, <3>1, <3>2, <3>3, <3>4
  <2> QED BY <1>1, <1>5, <2>1, <2>2 DEF Due
<1>10. IsSleepers(l, q)
  <2>1. q[l[1]] # 0
    <3>1. CASE k = 0
      <4>1. l[1] = t
        BY <1>1, <1>5, <3>1
      <4>2. rest = time
        BY <1>3, <3>1 DEF before
      <4> QED BY <1>6, <4>1, <4>2
    <3>2. CASE k # 0
      <4>1. l[1] = s[1] /\ 1 \in 1 .. n /\ 1 # k + 1 /\ s # <<>>
        <5>1. 1 \in 1 .. n /\ 1 \in 1 .. n + 1 /\ 1 < k + 1 /\ 1 # k + 1 /\ n # 0
          BY <1>0, <3>2
        <5>2. s # <<>>
          BY <5>1 DEF n
        <5> QED BY <1>5, <5>1, <5>2
      <4> QED BY <1>6, <4>1 DEF IsSleepers
    <3> QED BY <3>1, <3>2
  <2> QED BY <1>5, <1>6, <2>1 DEF IsSleepers
<1> QED BY <1>9, <1>10 DEF l, q, p

\* The first m - 1 tasks of the list have nothing left to wait.
Wakes(s, q, m) ==
  /\ \A i \in 1 .. m - 1 : q[s[i]] = 0
  /\ m # Len(s) + 1 => q[s[m]] # 0

\* The waits after a tick.
Ticked(s, r) == [r EXCEPT ![s[1]] = @ - 1]

\* The waking times after a tick.
Later(s, d) == [t \in Tasks |-> IF t \in ToSet(s) THEN d[t] - 1 ELSE 0]

\* A tick: the tasks whose time has come leave, they are the first m - 1 of
\* the list, and the others wake when they did.
LEMMA TasksAreWoken ==
  ASSUME NEW s, NEW r, NEW d, IsSleepers(s, r), Due(s, r, d), s # <<>>,
         NEW q, q = Ticked(s, r),
         NEW m \in 1 .. Len(s) + 1,
         Wakes(s, q, m)
  PROVE  LET l == SubSeq(s, m, Len(s))
         IN  /\ IsSleepers(l, q)
             /\ Due(l, q, Later(s, d))
             /\ ToSet(l) = {t \in ToSet(s) : d[t] > 1}
<1> DEFINE n == Len(s)
           l == SubSeq(s, m, n)
           p == Later(s, d)
<1>19. q = [r EXCEPT ![s[1]] = @ - 1]
  BY DEF Ticked
<1>0. /\ \A i \in 1 .. m - 1 : q[s[i]] = 0
      /\ m # Len(s) + 1 => q[s[m]] # 0
  BY DEF Wakes
<1>1. /\ s \in Seq(Tasks) /\ r \in [Tasks -> Nat] /\ d \in [Tasks -> Nat]
      /\ n \in Nat \ {0} /\ DOMAIN s = 1 .. n
  BY DEF IsSleepers, Due
<1>2. /\ \A i \in 1 .. n : s[i] \in Tasks /\ s[i] \in ToSet(s)
      /\ \A t \in ToSet(s) : t \in Tasks /\ \E i \in 1 .. n : s[i] = t
  <2>1. \A i \in 1 .. n : s[i] \in Tasks
    BY <1>1
  <2> HIDE DEF n
  <2> QED BY <1>1, <2>1 DEF ToSet
<1>3. \A i, j \in 1 .. n : s[i] = s[j] => i = j
  BY <1>1 DEF IsSleepers, IsInjective
<1>4. \A i \in 1 .. n : d[s[i]] = r[s[i]] + (IF i = 1 THEN 0 ELSE d[s[i - 1]])
  BY DEF Due
<1>5. m \in 1 .. n + 1 /\ 1 \in 1 .. n
  BY <1>1
<1> HIDE DEF n, l, p
<1>6. r[s[1]] \in Nat \ {0}
  BY <1>1, <1>2, <1>5 DEF IsSleepers
<1>7. /\ q \in [Tasks -> Nat] /\ q[s[1]] = r[s[1]] - 1
      /\ \A i \in 1 .. n : i # 1 => q[s[i]] = r[s[i]]
  <2>1. s[1] \in Tasks
    BY <1>2, <1>5
  <2>2. q[s[1]] = r[s[1]] - 1 /\ r[s[1]] - 1 \in Nat /\ q \in [Tasks -> Nat]
    BY <1>1, <1>6, <1>19, <2>1
  <2>3. ASSUME NEW i \in 1 .. n, i # 1 PROVE q[s[i]] = r[s[i]]
    <3>1. s[i] # s[1] /\ s[i] \in Tasks
      BY <1>2, <1>3, <1>5, <2>3
    <3> QED BY <1>1, <1>19, <3>1
  <2> QED BY <2>2, <2>3
<1>8. /\ d[s[1]] = q[s[1]] + 1
      /\ \A i \in 1 .. n : i # 1 => d[s[i]] = q[s[i]] + d[s[i - 1]]
      /\ \A i \in 1 .. n : q[s[i]] \in Nat /\ d[s[i]] \in Nat
  <2>1. d[s[1]] = q[s[1]] + 1
    BY <1>4, <1>5, <1>6, <1>7
  <2>2. ASSUME NEW i \in 1 .. n, i # 1 PROVE d[s[i]] = q[s[i]] + d[s[i - 1]]
    BY <1>4, <1>7, <2>2
  <2>3. \A i \in 1 .. n : q[s[i]] \in Nat /\ d[s[i]] \in Nat
    BY <1>1, <1>2, <1>7
  <2> QED BY <2>1, <2>2, <2>3
<1>9. \A i \in 1 .. m - 1 : d[s[i]] = 1
  <2> DEFINE T == {i \in 1 .. m - 1 : d[s[i]] # 1}
  <2> SUFFICES ASSUME T # {} PROVE FALSE
    OBVIOUS
  <2>1. PICK k \in T : \A j \in T : k <= j
    <3>1. T \subseteq Nat
      BY <1>5
    <3> QED BY <3>1, LeastNumber, Zenon
  <2>2. k \in 1 .. m - 1 /\ d[s[k]] # 1 /\ k \in 1 .. n /\ q[s[k]] = 0
    BY SMTT(20), <1>0, <1>1, <1>5, <2>1
  <2>3. CASE k = 1
    BY <1>8, <2>2, <2>3
  <2>4. CASE k # 1
    <3>1. k - 1 \in 1 .. m - 1 /\ k - 1 \notin T /\ k - 1 \in 1 .. n
      BY <1>1, <1>5, <2>1, <2>2, <2>4
    <3>2. d[s[k - 1]] = 1
      BY <3>1
    <3> QED BY <1>8, <2>2, <2>4, <3>2
  <2> QED BY <2>3, <2>4
<1>10. \A i \in m .. n : i \in 1 .. n /\ d[s[i]] > 1
  <2> DEFINE T == {i \in m .. n : ~(d[s[i]] > 1)}
  <2>0. \A i \in m .. n : i \in 1 .. n
    BY <1>1, <1>5
  <2> SUFFICES ASSUME T # {} PROVE FALSE
    BY <2>0
  <2>1. PICK k \in T : \A j \in T : k <= j
    <3>1. T \subseteq Nat
      BY <1>1, <1>5
    <3> QED BY <3>1, LeastNumber, Zenon
  <2>2. k \in m .. n /\ ~(d[s[k]] > 1) /\ k \in 1 .. n
    BY <2>0, <2>1
  <2>3. q[s[k]] \in Nat /\ d[s[k]] \in Nat
    BY <1>8, <2>2
  <2>4. CASE k = m
    <3>1. q[s[k]] # 0
      <4>1. m # Len(s) + 1
        BY <1>1, <2>2, <2>4 DEF n
      <4> QED BY <1>0, <2>4, <4>1
    <3>2. CASE k = 1
      <4>1. d[s[k]] = q[s[k]] + 1
        BY <1>8, <3>2
      <4> QED BY ONLY <2>2, <2>3, <3>1, <4>1
    <3>3. CASE k # 1
      <4>1. k - 1 \in 1 .. m - 1
        BY <1>5, <2>2, <2>4, <3>3
      <4>2. d[s[k - 1]] = 1
        BY <1>9, <4>1
      <4>3. d[s[k]] = q[s[k]] + 1
        BY <1>8, <2>2, <3>3, <4>2
      <4> QED BY ONLY <2>2, <2>3, <3>1, <4>3
    <3> QED BY <3>2, <3>3
  <2>5. CASE k # m
    <3>1. k - 1 \in m .. n /\ k - 1 \notin T /\ k # 1
      BY <1>1, <1>5, <2>1, <2>2, <2>5
    <3>2. d[s[k - 1]] > 1 /\ d[s[k - 1]] \in Nat
      BY <1>8, <2>0, <3>1
    <3>3. d[s[k]] = q[s[k]] + d[s[k - 1]]
      BY <1>8, <2>2, <3>1
    <3> QED BY <2>2, <2>3, <3>2, <3>3
  <2> QED BY <2>4, <2>5
<1>11. /\ l \in Seq(Tasks) /\ Len(l) = n + 1 - m
       /\ \A j \in 1 .. n + 1 - m : l[j] = s[(m + j) - 1]
  <2>1. m \in 1 .. Len(s) + 1
    OBVIOUS
  <2> QED BY ONLY <1>1, <2>1, RestOf DEF l, n
<1>12. DOMAIN l = 1 .. n + 1 - m
  BY <1>11
<1>13. ToSet(l) = {t \in ToSet(s) : d[t] > 1}
  <2>1. ASSUME NEW t \in ToSet(l) PROVE t \in ToSet(s) /\ d[t] > 1
    <3>1. PICK j \in 1 .. n + 1 - m : l[j] = t
      BY <1>12 DEF ToSet
    <3>2. (m + j) - 1 \in m .. n
      BY <1>1, <1>5
    <3> QED BY <1>2, <1>10, <1>11, <3>1, <3>2
  <2>2. ASSUME NEW t \in ToSet(s), d[t] > 1 PROVE t \in ToSet(l)
    <3>1. PICK i \in 1 .. n : s[i] = t
      BY <1>2
    <3>2. i \notin 1 .. m - 1
      BY <1>9, <2>2, <3>1
    <3>3. (i - m) + 1 \in 1 .. n + 1 - m /\ (m + ((i - m) + 1)) - 1 = i
      BY <1>1, <1>5, <3>2
    <3>4. l[(i - m) + 1] = t
      BY <1>11, <3>1, <3>3
    <3> QED BY <1>12, <3>3, <3>4 DEF ToSet
  <2> QED BY <2>1, <2>2
<1>14. p \in [Tasks -> Nat] /\ \A i \in 1 .. n : p[s[i]] = d[s[i]] - 1
  <2>1. \A i \in 1 .. n : d[s[i]] - 1 \in Nat
    <3> SUFFICES ASSUME NEW i \in 1 .. n PROVE d[s[i]] - 1 \in Nat
      OBVIOUS
    <3>1. i \in 1 .. m - 1 \/ i \in m .. n
      BY <1>1, <1>5
    <3>2. d[s[i]] \in Nat
      BY <1>8
    <3>3. d[s[i]] >= 1
      BY <1>9, <1>10, <3>1, <3>2
    <3> QED BY <3>2, <3>3
  <2>2. \A t \in ToSet(s) : d[t] - 1 \in Nat
    BY <1>2, <2>1
  <2> QED BY <1>2, <2>2 DEF p, Later
<1>15. Due(l, q, p)
  <2>1. ASSUME NEW t \in Tasks \ ToSet(l) PROVE p[t] = 0
    <3>1. CASE t \notin ToSet(s)
      BY <3>1 DEF p, Later
    <3>2. CASE t \in ToSet(s)
      <4>1. PICK i \in 1 .. n : s[i] = t
        BY <1>2, <3>2
      <4>2. i \in 1 .. m - 1 \/ i \in m .. n
        BY <1>1, <1>5
      <4>3. ~(d[s[i]] > 1)
        BY <1>13, <3>2, <4>1
      <4>4. d[s[i]] = 1
        BY <1>9, <1>10, <4>2, <4>3
      <4> QED BY <1>14, <4>1, <4>4
    <3> QED BY <3>1, <3>2
  <2>2. ASSUME NEW j \in 1 .. n + 1 - m
        PROVE  p[l[j]] = q[l[j]] + (IF j = 1 THEN 0 ELSE p[l[j - 1]])
    <3> DEFINE i == (m + j) - 1
    <3>1. i \in m .. n /\ i \in 1 .. n /\ (i = 1 => j = 1 /\ m = 1)
      BY <1>1, <1>5
    <3>2. l[j] = s[i]
      BY <1>11
    <3>3. p[s[i]] = d[s[i]] - 1 /\ q[s[i]] \in Nat /\ d[s[i]] \in Nat
      BY <1>8, <1>14, <3>1
    <3>4. CASE j = 1
      <4>1. i = m
        BY <1>5, <3>4
      <4>2. CASE m = 1
        BY <1>8, <3>2, <3>3, <3>4, <4>1, <4>2
      <4>3. CASE m # 1
        <5>1. m - 1 \in 1 .. m - 1 /\ m \in 1 .. n
          BY <1>5, <3>1, <4>1, <4>3
        <5>2. d[s[m - 1]] = 1
          BY <1>9, <5>1
        <5>3. d[s[m]] = q[s[m]] + 1
          BY <1>8, <4>3, <5>1, <5>2
        <5> QED BY SMTT(20), <3>2, <3>3, <3>4, <4>1, <5>3
      <4> QED BY <4>2, <4>3
    <3>5. CASE j # 1
      <4>1. j - 1 \in 1 .. n + 1 - m /\ (m + (j - 1)) - 1 = i - 1 /\ i - 1 \in 1 .. n /\ i # 1
        BY <1>1, <1>5, <3>5
      <4>2. l[j - 1] = s[i - 1]
        BY <1>11, <4>1
      <4>3. d[s[i]] = q[s[i]] + d[s[i - 1]]
        BY <1>8, <3>1, <4>1
      <4>4. p[s[i - 1]] = d[s[i - 1]] - 1 /\ d[s[i - 1]] \in Nat
        BY <1>8, <1>14, <4>1
      <4> HIDE DEF i
      <4> QED BY SMTT(20), <3>2, <3>3, <3>5, <4>2, <4>3, <4>4
    <3> QED BY <3>4, <3>5
  <2> QED BY <1>11, <1>14, <2>1, <2>2 DEF Due
<1>16. IsInjective(l)
  <2> SUFFICES ASSUME NEW i \in 1 .. n + 1 - m, NEW j \in 1 .. n + 1 - m, l[i] = l[j] PROVE i = j
    BY <1>12 DEF IsInjective
  <2>1. (m + i) - 1 \in 1 .. n /\ (m + j) - 1 \in 1 .. n
    BY <1>1, <1>5
  <2>2. (m + i) - 1 = (m + j) - 1
    BY <1>3, <1>11, <2>1
  <2> QED BY <1>5, <2>2
<1>17. l # <<>> => q[l[1]] # 0
  <2> SUFFICES ASSUME l # <<>> PROVE q[l[1]] # 0
    OBVIOUS
  <2>1. Len(l) # 0
    BY <1>11, EmptySeq
  <2>2. 1 \in 1 .. n + 1 - m /\ (m + 1) - 1 = m /\ m # n + 1
    BY <1>1, <1>5, <1>11, <2>1
  <2>3. l[1] = s[m]
    BY <1>11, <2>2
  <2> QED BY <1>0, <2>2, <2>3 DEF n
<1>18. IsSleepers(l, q)
  BY <1>7, <1>11, <1>16, <1>17 DEF IsSleepers
<1> QED BY <1>13, <1>15, <1>18 DEF l, p, n

\* The loop of put_to_sleep ends: it passes tasks that wake no later, and
\* stops at the end, at one that wakes later, or when no time is left.
LEMMA PassedEnds ==
  ASSUME NEW d, IsSleepers(sleeping, r0), Due(sleeping, r0, d), NEW time \in Nat
  PROVE  LET k == Passed(time)
         IN  /\ k \in 0 .. Len(sleeping)
             /\ k # 0 => d[sleeping[k]] <= time
             /\ \/ k = Len(sleeping)
                \/ d[sleeping[k + 1]] > time
                \/ k > 0 /\ d[sleeping[k]] = time
             /\ Ticks(k) = IF k = 0 THEN 0 ELSE d[sleeping[k]]
<1> DEFINE n == Len(sleeping)
           Stops(k) == \/ k = n
                       \/ Ticks(k + 1) > time
                       \/ k > 0 /\ Ticks(k) = time
           Goes(k) == Ticks(k + 1) <= time /\ (k > 0 => Ticks(k) # time)
           T == {k \in 0 .. n : Stops(k)}
<1>1. n \in Nat
  BY DEF IsSleepers
<1>2. \A k \in 0 .. n : Ticks(k) = IF k = 0 THEN 0 ELSE d[sleeping[k]]
  BY SumsAreDue, TicksUnfolds
<1>3. \A k \in 0 .. n : Ticks(k) \in Nat
  <2>1. \A k \in 1 .. n : d[sleeping[k]] \in Nat
    BY DEF IsSleepers, Due
  <2> HIDE DEF n
  <2>2. \A k \in 0 .. n : k # 0 => k \in 1 .. n
    BY <1>1
  <2> QED BY <1>2, <2>1, <2>2
<1> HIDE DEF n
<1>4. \E k \in 0 .. n : Stops(k) /\ \A i \in 0 .. k - 1 : Goes(i)
  <2>1. n \in T /\ T \subseteq Nat
    BY <1>1
  <2>2. PICK k \in T : \A j \in T : k <= j
    <3> HIDE DEF T
    <3> QED BY <2>1, LeastNumber, Zenon
  <2>3. ASSUME NEW i \in 0 .. k - 1 PROVE Goes(i)
    <3>1. i \in 0 .. n /\ i + 1 \in 0 .. n /\ ~(k <= i)
      BY <1>1, <2>2
    <3>2. ~Stops(i)
      BY <2>2, <3>1
    <3>3. Ticks(i + 1) \in Nat
      BY <1>3, <3>1
    <3> QED BY <3>2, <3>3
  <2> QED BY <2>2, <2>3
<1>5. Passed(time) = CHOOSE k \in 0 .. n : Stops(k) /\ \A i \in 0 .. k - 1 : Goes(i)
  BY DEF Passed, n
<1> DEFINE k == Passed(time)
<1> HIDE DEF Stops, Goes, k
<1>6. k \in 0 .. n /\ Stops(k) /\ \A i \in 0 .. k - 1 : Goes(i)
  BY <1>4, <1>5, Zenon DEF k
<1>7. k # 0 => d[sleeping[k]] <= time
  <2> SUFFICES ASSUME k # 0 PROVE d[sleeping[k]] <= time
    OBVIOUS
  <2>1. k - 1 \in 0 .. k - 1 /\ (k - 1) + 1 = k
    BY <1>1, <1>6
  <2>2. Goes(k - 1)
    BY <1>6, <2>1
  <2>3. Ticks(k) <= time
    BY <2>1, <2>2 DEF Goes
  <2> QED BY <1>2, <1>6, <2>3
<1>8. \/ k = n
      \/ d[sleeping[k + 1]] > time
      \/ k > 0 /\ d[sleeping[k]] = time
  <2>1. k # n => k + 1 \in 0 .. n /\ k + 1 # 0
    BY <1>1, <1>6
  <2> QED BY <1>1, <1>2, <1>6, <2>1 DEF Stops
<1> QED BY <1>2, <1>6, <1>7, <1>8 DEF k, n

\* A task goes to sleep.
LEMMA FallAsleepKeeps ==
  ASSUME IInv, NEW t \in Tasks, NEW time \in Times, FallAsleep(t, time),
         NEW d, Due(sleeping, r0, d)
  PROVE  /\ IsSleepers(sleeping, r0)'
         /\ Due(sleeping', r0', [d EXCEPT ![t] = time])
         /\ ToSet(sleeping') = ToSet(sleeping) \cup {t}
<1> DEFINE k == Passed(time)
           rest == time - Ticks(k)
<1>1. IsSleepers(sleeping, r0) /\ t \notin ToSet(sleeping) /\ time \in Nat \ {0}
  BY TimesAssumption DEF IInv, FallAsleep
<1>2. /\ k \in 0 .. Len(sleeping)
      /\ k # 0 => d[sleeping[k]] <= time
      /\ \/ k = Len(sleeping)
         \/ d[sleeping[k + 1]] > time
         \/ k > 0 /\ d[sleeping[k]] = time
      /\ Ticks(k) = IF k = 0 THEN 0 ELSE d[sleeping[k]]
  BY <1>1, PassedEnds
<1>3. /\ sleeping' = InsertAt(sleeping, k + 1, t)
      /\ r0' = [u \in Tasks |->
                  IF u = t THEN rest
                  ELSE IF k < Len(sleeping) /\ u = sleeping[k + 1] THEN r0[u] - rest
                  ELSE r0[u]]
  BY DEF FallAsleep, put_to_sleep
<1>4. rest = time - (IF k = 0 THEN 0 ELSE d[sleeping[k]])
  BY <1>2
<1> HIDE DEF k, rest
<1>5. IsSleepers(sleeping', r0') /\ Due(sleeping', r0', [d EXCEPT ![t] = time])
  BY SMTT(20), <1>1, <1>2, <1>3, <1>4, TaskIsInserted
<1>6. ToSet(sleeping') = ToSet(sleeping) \cup {t}
  <2>1. sleeping \in Seq(Tasks) /\ k + 1 \in 1 .. Len(sleeping) + 1
    BY <1>1, <1>2 DEF IsSleepers
  <2> QED BY <1>3, <2>1, InsertedOnce
<1> QED BY <1>5, <1>6

\* A tick wakes the tasks whose time has come.
LEMMA WakeyWakeyKeeps ==
  ASSUME IInv, wakey_wakey, NEW d, Due(sleeping, r0, d)
  PROVE  /\ IsSleepers(sleeping, r0)'
         /\ Due(sleeping', r0', Later(sleeping, d))
         /\ ToSet(sleeping') = {t \in ToSet(sleeping) : d[t] > 1}
<1> DEFINE n == Len(sleeping)
           later == {i \in DOMAIN sleeping : r0'[sleeping[i]] # 0}
<1>1. /\ IsSleepers(sleeping, r0) /\ sleeping # <<>> /\ sleeping \in Seq(Tasks)
      /\ n \in Nat \ {0} /\ DOMAIN sleeping = 1 .. n /\ Head(sleeping) = sleeping[1]
  BY DEF IInv, IsSleepers, wakey_wakey
<1>2. /\ r0' = [r0 EXCEPT ![sleeping[1]] = @ - 1]
      /\ sleeping' = IF later = {} THEN <<>>
                     ELSE SubSeq(sleeping, CHOOSE i \in later : \A j \in later : i <= j, n)
  BY <1>1 DEF wakey_wakey
<1>3. \E m \in 1 .. n + 1 :
        /\ sleeping' = SubSeq(sleeping, m, n)
        /\ \A i \in 1 .. m - 1 : r0'[sleeping[i]] = 0
        /\ m # n + 1 => r0'[sleeping[m]] # 0
  <2>1. later \subseteq 1 .. n /\ \A i \in 1 .. n : i \notin later => r0'[sleeping[i]] = 0
    BY <1>1
  <2>2. \A i \in later : r0'[sleeping[i]] # 0
    OBVIOUS
  <2> HIDE DEF later
  <2>3. CASE later = {}
    <3> DEFINE m == n + 1
    <3>1. \A i \in 1 .. m - 1 : r0'[sleeping[i]] = 0
      BY <1>1, <2>1, <2>3
    <3>2. SubSeq(sleeping, m, n) = <<>>
      <4>1. m \in 1 .. Len(sleeping) + 1
        BY <1>1
      <4>2. SubSeq(sleeping, m, n) \in Seq(Tasks) /\ Len(SubSeq(sleeping, m, n)) = (n + 1) - m
        BY <1>1, <4>1, RestOf
      <4>3. (n + 1) - m = 0
        BY <1>1
      <4> HIDE DEF m, n
      <4> QED BY <4>2, <4>3, EmptySeq
    <3>3. m \in 1 .. n + 1
      BY <1>1
    <3> HIDE DEF n
    <3> QED BY <1>2, <2>3, <3>1, <3>2, <3>3
  <2>4. CASE later # {}
    <3> DEFINE m == CHOOSE i \in later : \A j \in later : i <= j
    <3>1. \E i \in later : \A j \in later : i <= j
      <4>1. later \subseteq Nat
        BY <2>1
      <4> QED BY <2>4, <4>1, LeastNumber, Zenon
    <3>2. m \in later /\ \A j \in later : m <= j
      BY <3>1, Zenon
    <3>3. sleeping' = SubSeq(sleeping, m, n)
      BY <1>2, <2>4
    <3> HIDE DEF m, n
    <3>4. m \in 1 .. n + 1
      BY <1>1, <2>1, <3>2
    <3>5. ASSUME NEW i \in 1 .. m - 1 PROVE r0'[sleeping[i]] = 0
      <4>1. i \in 1 .. n /\ ~(m <= i)
        BY <1>1, <2>1, <3>2, <3>4
      <4> QED BY <2>1, <3>2, <4>1
    <3> QED BY <2>2, <3>2, <3>3, <3>4, <3>5
  <2> QED BY <2>3, <2>4
<1>4. PICK m \in 1 .. n + 1 :
        /\ sleeping' = SubSeq(sleeping, m, n)
        /\ \A i \in 1 .. m - 1 : r0'[sleeping[i]] = 0
        /\ m # n + 1 => r0'[sleeping[m]] # 0
  BY <1>3
<1> DEFINE q == r0'
<1>5. q = Ticked(sleeping, r0)
  BY <1>2 DEF Ticked
<1>7. m \in 1 .. Len(sleeping) + 1
  OBVIOUS
<1>8. Wakes(sleeping, q, m)
  BY <1>4 DEF Wakes
<1> HIDE DEF later, q
<1>6. /\ IsSleepers(SubSeq(sleeping, m, n), q)
      /\ Due(SubSeq(sleeping, m, n), q, Later(sleeping, d))
      /\ ToSet(SubSeq(sleeping, m, n)) = {t \in ToSet(sleeping) : d[t] > 1}
  BY <1>1, <1>5, <1>7, <1>8, TasksAreWoken
<1> QED BY <1>4, <1>6 DEF q

\* At first nobody sleeps.
LEMMA InitDue == Init => IInv /\ Due(sleeping, r0, [t \in Tasks |-> 0])
<1> SUFFICES ASSUME Init PROVE IInv /\ Due(sleeping, r0, [t \in Tasks |-> 0])
  OBVIOUS
<1>1. sleeping = <<>> /\ r0 = [t \in Tasks |-> 0]
  BY DEF Init
<1>2. IsSleepers(sleeping, r0)
  BY <1>1, ShortLists DEF IsSleepers
<1>3. Due(sleeping, r0, [t \in Tasks |-> 0])
  BY <1>1 DEF Due
<1> QED BY <1>2, <1>3 DEF IInv

\* The invariant is kept.
LEMMA NextIInv == IInv /\ [Next]_vars => IInv'
<1> SUFFICES ASSUME IInv, [Next]_vars PROVE IInv'
  OBVIOUS
<1>1. PICK d : Due(sleeping, r0, d)
  BY DEF IInv
<1>2. ASSUME NEW t \in Tasks, NEW time \in Times, FallAsleep(t, time) PROVE IInv'
  BY <1>1, <1>2, FallAsleepKeeps DEF IInv
<1>3. CASE wakey_wakey
  BY <1>1, <1>3, WakeyWakeyKeeps DEF IInv
<1>4. CASE UNCHANGED vars
  <2>1. sleeping' = sleeping /\ r0' = r0
    BY <1>4 DEF vars
  <2> QED BY <2>1 DEF IInv
<1> QED BY <1>2, <1>3, <1>4 DEF Next

\* The invariant of the list of relative times.
THEOREM SleepInvariant == Spec => []IInv
BY InitDue, NextIInv, PTL DEF Spec

\* Every step is a step of Alarms.
LEMMA StepAlarms == IInv /\ IInv' /\ [Next]_vars => [WakesOnTime!Next]_(WakesOnTime!vars)
<1> SUFFICES ASSUME IInv, IInv', [Next]_vars PROVE [WakesOnTime!Next]_(WakesOnTime!vars)
  OBVIOUS
<1>1. PICK d : Due(sleeping, r0, d)
  BY DEF IInv
<1>2. Left = d
  BY <1>1, LeftIs DEF LeftIsDue
<1>3. ASSUME NEW e, Due(sleeping', r0', e) PROVE Left' = e
  <2>1. IInv' => LeftIsDue'
    BY LeftIs, PTL
  <2>2. LeftIsDue'
    BY <2>1
  <2> QED BY <1>3, <2>2 DEF LeftIsDue
<1>4. ASSUME NEW t \in Tasks, NEW time \in Times, FallAsleep(t, time)
      PROVE  WakesOnTime!FallAsleep(t, time)
  <2>1. /\ Due(sleeping', r0', [d EXCEPT ![t] = time])
        /\ ToSet(sleeping') = ToSet(sleeping) \cup {t}
    BY <1>1, <1>4, FallAsleepKeeps
  <2>2. Left' = [Left EXCEPT ![t] = time]
    BY <1>2, <1>3, <2>1
  <2>3. t \notin ToSet(sleeping)
    BY <1>4 DEF FallAsleep
  <2> QED BY <2>1, <2>2, <2>3 DEF WakesOnTime!FallAsleep
<1>5. CASE wakey_wakey
  <2>1. /\ Due(sleeping', r0', Later(sleeping, d))
        /\ ToSet(sleeping') = {t \in ToSet(sleeping) : d[t] > 1}
    BY <1>1, <1>5, WakeyWakeyKeeps
  <2>2. Left' = [t \in Tasks |-> IF t \in ToSet(sleeping) THEN Left[t] - 1 ELSE 0]
    BY <1>2, <1>3, <2>1 DEF Later
  <2>3. WakesOnTime!Tick
    BY <1>2, <2>1, <2>2 DEF WakesOnTime!Tick
  <2> QED BY <2>3 DEF WakesOnTime!Next
<1>6. CASE UNCHANGED vars
  <2>1. sleeping' = sleeping /\ r0' = r0
    BY <1>6 DEF vars
  <2>2. Left' = Left
    BY <1>1, <1>2, <1>3, <2>1
  <2> QED BY <2>1, <2>2 DEF WakesOnTime!vars
<1> QED BY <1>4, <1>5, <1>6 DEF Next, WakesOnTime!Next

\* For any number of tasks and any times they ask for, every task is woken by
\* the tick it asked for and by no other, whatever other tasks are inserted
\* before and after it.
THEOREM TasksWakeOnTime == Spec => IsAlarms
<1>1. Init => WakesOnTime!Init
  <2> SUFFICES ASSUME Init PROVE WakesOnTime!Init
    OBVIOUS
  <2>1. Left = [t \in Tasks |-> 0]
    BY InitDue, LeftIs DEF LeftIsDue
  <2>2. ToSet(sleeping) = {}
    BY ShortLists DEF Init
  <2> QED BY <2>1, <2>2 DEF WakesOnTime!Init
<1> QED BY <1>1, StepAlarms, SleepInvariant, NextIInv, PTL DEF Spec, IsAlarms, WakesOnTime!Spec
====

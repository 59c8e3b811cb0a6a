----------------------------- MODULE LocksProofs -----------------------------
(***************************************************************************)
(* Locks, for any number of tasks, and of locks at any addresses: the      *)
(* wanted bit is set while a task waits, a lock that is owned only changes *)
(* as the comment at the head of locks.c says, and as long as the waiting  *)
(* tasks' handles are in r1 and no two slots use locks at one address, a   *)
(* task that has claimed a lock owns it.                                   *)
(***************************************************************************)
EXTENDS Locks, ListLemmas

\* A task that releases a lock is its owner: nobody changes the word between
\* its check and the rest of Release.
ReleasersOwn ==
  \A t \in Tasks : pc[t] = "releasing" => r0[t] \in Locks /\ word[r0[t]].owner = t

\* Waiting tasks wait for a lock, and have their handle in r1 if all had.
WaitersWait ==
  \A t \in Tasks : pc[t] = "claiming" =>
    r0[t] \in Locks /\ (honest => r1[t].owner = t)

\* At each address one lock at most is not idle.
OneUsed ==
  apart => \A l \in Locks : word[l] # Idle =>
    \A k \in SameAddress(l) : k # l => word[k] = Idle

\* The inductive invariant.
IInv ==
  /\ TypeOK /\ EveryWaiterListed /\ WaitersAreSeen /\ OwnersOwn /\ ReleasersOwn
  /\ WaitersWait /\ OneUsed

\* The states before the first step.
LEMMA InitIInv == Init => IInv
<1> SUFFICES ASSUME Init PROVE IInv
  OBVIOUS
<1> USE HandlesAssumption, NoLockAssumption, CodesAssumption DEF Init
<1>1. TypeOK
  BY DEF TypeOK, Idle, OSTaskLock
<1>2. ToSet(blocked) = {} /\ IsInjective(blocked)
  BY DEF ToSet, IsInjective
<1> QED
  BY <1>1, <1>2 DEF IInv, EveryWaiterListed, WaitersAreSeen, OwnersOwn,
                    ReleasersOwn, WaitersWait, OneUsed, SameAddress

\* A waiting task is resumed by the owner of the lock, and only if it is first.
LEMMA HandOverIInv ==
  ASSUME IInv, NEW t \in Tasks, NEW l \in Locks, HandOver(t, l)
  PROVE  IInv'
<1> DEFINE resume == Head(blocked)
<1> USE HandlesAssumption, NoLockAssumption, CodesAssumption
<1>1. /\ resume \in Tasks /\ Tail(blocked) \in Seq(Tasks)
      /\ resume \in ToSet(blocked) /\ ToSet(blocked) = ToSet(Tail(blocked)) \cup {resume}
      /\ IsInjective(Tail(blocked)) /\ resume \notin ToSet(Tail(blocked))
  BY Tailed DEF HandOver, IInv, TypeOK, EveryWaiterListed
<1>2. pc[resume] = "claiming" /\ resume # t /\ pc[t] = "releasing" /\ r0[t] = l
  BY <1>1 DEF HandOver, Releases, IInv, EveryWaiterListed
<1>3. word[l].owner = t /\ word[l] # Idle
  BY <1>2 DEF IInv, ReleasersOwn, Idle
<1>4. r0[resume] \in Locks /\ (apart => r0[resume] = l)
  <2>1. r0[resume] \in SameAddress(l)
    BY DEF HandOver
  <2>2. word[r0[resume]] # Idle
    BY <1>1 DEF IInv, WaitersAreSeen, Idle
  <2> QED BY <1>3, <2>1, <2>2 DEF IInv, OneUsed, SameAddress
<1>5. TypeOK'
  BY <1>1, <1>4 DEF HandOver, BothReturn, IInv, TypeOK, OSTaskLock, Idle
<1>6. /\ pc' = [u \in Tasks |-> IF u \in {t, resume} THEN "running" ELSE pc[u]]
      /\ r0' = [u \in Tasks |-> IF u \in {t, resume} THEN NoLock ELSE r0[u]]
      /\ \A u \in Tasks : u # resume => r1'[u] = r1[u]
      /\ \A u \in Tasks, k \in Locks :
           k \in owns'[u] =>
             (u = resume /\ k = r0[resume]) \/ (k \in owns[u] /\ (u # t \/ k # l))
      /\ \A k \in Locks : k # l => word'[k] = word[k]
      /\ word'[l].owner = r1[resume].owner
      /\ WaitsIn(Tail(blocked), l) => word'[l].wanted
      /\ honest' = honest /\ apart' = apart /\ blocked' = Tail(blocked)
  BY <1>1, <1>2 DEF HandOver, BothReturn, IInv, TypeOK, OSTaskLock
<1>7. EveryWaiterListed'
  BY <1>1, <1>2, <1>6 DEF IInv, TypeOK, EveryWaiterListed
<1>8. WaitersAreSeen'
  <2> SUFFICES ASSUME NEW u \in ToSet(Tail(blocked)) PROVE word'[r0'[u]].wanted
    BY <1>6 DEF WaitersAreSeen
  <2>1. u \in Tasks /\ pc[u] = "claiming" /\ u \notin {t, resume} /\ r0'[u] = r0[u]
        /\ r0[u] \in Locks
    BY <1>1, <1>2, <1>6 DEF IInv, EveryWaiterListed, WaitersWait
  <2>2. CASE r0[u] = l
    BY <2>1, <2>2, <1>6 DEF WaitsIn, SameAddress
  <2>3. CASE r0[u] # l
    BY <2>1, <2>3, <1>1, <1>6 DEF IInv, WaitersAreSeen
  <2> QED BY <2>2, <2>3
<1>9. OwnersOwn'
  <2> SUFFICES ASSUME honest, apart, NEW u \in Tasks, NEW k \in Locks, k \in owns'[u]
               PROVE  word'[k].owner = u
    BY <1>6 DEF OwnersOwn
  <2>1. CASE k = l
    <3>1. u = resume
      BY <2>1, <1>3, <1>6 DEF IInv, OwnersOwn
    <3> QED BY <3>1, <2>1, <1>1, <1>2, <1>6 DEF IInv, WaitersWait
  <2>2. CASE k # l
    BY <2>2, <1>6, <1>4 DEF IInv, OwnersOwn
  <2> QED BY <2>1, <2>2
<1>10. ReleasersOwn'
  BY <1>2, <1>3, <1>6 DEF IInv, ReleasersOwn
<1>11. WaitersWait'
  BY <1>6 DEF IInv, WaitersWait
<1>12. OneUsed'
  BY <1>3, <1>6 DEF IInv, OneUsed, SameAddress
<1> QED BY <1>5, <1>7, <1>8, <1>9, <1>10, <1>11, <1>12 DEF IInv

\* Every step keeps the invariant.
LEMMA NextIInv == IInv /\ [Next]_vars => IInv'
<1> SUFFICES ASSUME IInv, [Next]_vars PROVE IInv'
  OBVIOUS
<1> USE HandlesAssumption, NoLockAssumption, CodesAssumption
<1>1. ASSUME NEW t \in Tasks, NEW l \in Locks, ClaimIdle(t, l) PROVE IInv'
  <2>1. TypeOK'
    <3>1. apart' \in BOOLEAN
      BY <1>1 DEF ClaimIdle, IInv, TypeOK
    <3>2. word' \in [Locks -> OSTaskLock]
      BY <1>1 DEF ClaimIdle, IInv, TypeOK, OSTaskLock
    <3>3. owns' \in [Tasks -> SUBSET Locks]
      BY <1>1 DEF ClaimIdle, IInv, TypeOK
    <3> QED BY <1>1, <3>1, <3>2, <3>3 DEF ClaimIdle, IInv, TypeOK
  <2>2. /\ UNCHANGED <<blocked, r0, r1, pc, honest>>
        /\ word[l] = Idle /\ word'[l].owner = t
        /\ \A k \in Locks : k # l => word'[k] = word[k]
        /\ \A k \in Locks : word'[k].wanted = word[k].wanted
        /\ \A u \in Tasks, k \in Locks :
             k \in owns'[u] <=> (k \in owns[u] \/ (u = t /\ k = l))
    BY <1>1 DEF ClaimIdle, IInv, TypeOK, OSTaskLock
  <2>3. apart' => apart /\ \A k \in SameAddress(l) : word[k] = Idle
    BY <1>1 DEF ClaimIdle
  <2>4. EveryWaiterListed' /\ WaitersAreSeen' /\ WaitersWait'
    BY <2>2 DEF IInv, EveryWaiterListed, WaitersAreSeen, WaitersWait
  <2>5. OwnersOwn' /\ ReleasersOwn'
    BY <2>2, <2>3 DEF IInv, OwnersOwn, ReleasersOwn, Idle
  <2>6. OneUsed'
    <3> SUFFICES ASSUME apart', NEW m \in Locks, word'[m] # Idle,
                        NEW k \in SameAddress(m), k # m
                 PROVE  word'[k] = Idle
      BY DEF OneUsed
    <3>1. k \in Locks /\ m \in SameAddress(k)
      BY DEF SameAddress
    <3>2. CASE m = l
      BY <2>2, <2>3, <3>1, <3>2
    <3>3. CASE m # l
      <4>1. word[m] # Idle /\ k # l
        BY <2>2, <2>3, <3>1, <3>3
      <4> QED BY <2>2, <2>3, <3>1, <4>1 DEF IInv, OneUsed
    <3> QED BY <3>2, <3>3
  <2> QED BY <2>1, <2>4, <2>5, <2>6 DEF IInv
<1>2. ASSUME NEW t \in Tasks, NEW l \in Locks, ClaimOwned(t, l) PROVE IInv'
  <2>1. PICK code \in Codes :  /\ r1' = [r1 EXCEPT ![t] = code]
                                   /\ honest' = (honest /\ code.owner = t)
    BY <1>2 DEF ClaimOwned
  <2>2. t \notin ToSet(blocked)
    BY <1>2 DEF ClaimOwned, IInv, EveryWaiterListed
  <2>3. /\ blocked' \in Seq(Tasks) /\ ToSet(blocked') = ToSet(blocked) \cup {t}
        /\ IsInjective(blocked')
    BY <1>2, <2>2, Appended DEF ClaimOwned, IInv, TypeOK, EveryWaiterListed
  <2>4. TypeOK'
    <3>1. honest' \in BOOLEAN /\ apart' \in BOOLEAN
      BY <1>2, <2>1 DEF ClaimOwned, IInv, TypeOK
    <3>2. code \in OSTaskLock
      OBVIOUS
    <3>3. r1' \in [Tasks -> OSTaskLock]
      BY <2>1, <3>2 DEF IInv, TypeOK
    <3>4. word' \in [Locks -> OSTaskLock]
      <4>1. word \in [Locks -> OSTaskLock] /\ word' = [word EXCEPT ![l].wanted = TRUE]
        BY <1>2 DEF ClaimOwned, IInv, TypeOK
      <4> QED BY <4>1 DEF OSTaskLock
    <3>5. r0' \in [Tasks -> Locks \cup {NoLock}] /\ owns' \in [Tasks -> SUBSET Locks]
      BY <1>2 DEF ClaimOwned, IInv, TypeOK
    <3>6. pc' \in [Tasks -> {"running", "claiming", "releasing", "panic"}]
      BY <1>2 DEF ClaimOwned, IInv, TypeOK
    <3> QED BY <2>3, <3>1, <3>3, <3>4, <3>5, <3>6 DEF TypeOK
  <2>5. /\ pc[t] = "running" /\ owns' = owns
        /\ \A u \in Tasks : pc'[u] = IF u = t THEN "claiming" ELSE pc[u]
        /\ \A u \in Tasks : r0'[u] = IF u = t THEN l ELSE r0[u]
        /\ \A u \in Tasks : r1'[u] = IF u = t THEN code ELSE r1[u]
        /\ word'[l].wanted /\ word[l] # Idle /\ apart' = apart
        /\ \A k \in Locks : k # l => word'[k] = word[k]
        /\ \A k \in Locks : word'[k].owner = word[k].owner
    BY <1>2, <2>1 DEF ClaimOwned, IInv, TypeOK, OSTaskLock
  <2>6. EveryWaiterListed'
    BY <2>3, <2>5 DEF IInv, EveryWaiterListed
  <2>7. WaitersAreSeen'
    <3> SUFFICES ASSUME NEW u \in ToSet(blocked') PROVE word'[r0'[u]].wanted
      BY DEF WaitersAreSeen
    <3>1. u \in Tasks /\ (u # t => u \in ToSet(blocked) /\ r0[u] \in Locks)
      BY <2>3, <2>6 DEF IInv, EveryWaiterListed, WaitersWait
    <3> QED BY <3>1, <2>2, <2>3, <2>5 DEF IInv, WaitersAreSeen
  <2>8. OwnersOwn' /\ ReleasersOwn' /\ WaitersWait'
    <3>1. honest' => honest /\ code.owner = t
      BY <2>1
    <3> QED BY <3>1, <2>5 DEF IInv, OwnersOwn, ReleasersOwn, WaitersWait
  <2>9. OneUsed'
    BY <2>5 DEF IInv, OneUsed, SameAddress
  <2> QED BY <2>4, <2>6, <2>7, <2>8, <2>9 DEF IInv
<1>3. ASSUME NEW t \in Tasks, NEW l \in Locks, CheckOwner(t, l) PROVE IInv'
  <2>1. TypeOK'
    BY <1>3 DEF CheckOwner, IInv, TypeOK
  <2>2. /\ UNCHANGED <<word, blocked, r1, owns, honest, apart>>
        /\ pc[t] = "running" /\ pc'[t] \in {"releasing", "panic"}
        /\ \A u \in Tasks : u # t => pc'[u] = pc[u] /\ r0'[u] = r0[u]
        /\ pc'[t] = "releasing" => word[l].owner = t /\ r0'[t] = l
    BY <1>3 DEF CheckOwner, IInv, TypeOK
  <2>3. EveryWaiterListed'
    BY <2>2 DEF IInv, EveryWaiterListed
  <2>4. WaitersAreSeen'
    <3>1. \A u \in ToSet(blocked) : u \in Tasks /\ u # t
      BY <2>2 DEF IInv, EveryWaiterListed
    <3> QED BY <3>1, <2>2 DEF IInv, WaitersAreSeen
  <2>5. OwnersOwn' /\ ReleasersOwn' /\ WaitersWait' /\ OneUsed'
    BY <2>2 DEF IInv, OwnersOwn, ReleasersOwn, WaitersWait, OneUsed, SameAddress
  <2> QED BY <2>1, <2>3, <2>4, <2>5 DEF IInv
<1>4. ASSUME NEW t \in Tasks, NEW l \in Locks, ReleaseToIdle(t, l) PROVE IInv'
  <2>1. TypeOK'
    BY <1>4 DEF ReleaseToIdle, Returns, IInv, TypeOK, OSTaskLock, Idle
  <2>2. /\ blocked = <<>> /\ UNCHANGED <<blocked, r1, honest, apart>> /\ word'[l] = Idle
        /\ pc[t] = "releasing" /\ r0[t] = l
        /\ \A u \in Tasks : pc'[u] = IF u = t THEN "running" ELSE pc[u]
        /\ \A u \in Tasks : r0'[u] = IF u = t THEN NoLock ELSE r0[u]
        /\ \A u \in Tasks, k \in Locks :
             k \in owns'[u] => k \in owns[u] /\ (u # t \/ k # l)
        /\ \A k \in Locks : k # l => word'[k] = word[k]
    BY <1>4 DEF ReleaseToIdle, Returns, Releases, IInv, TypeOK
  <2>3. word[l].owner = t
    BY <2>2 DEF IInv, ReleasersOwn
  <2>4. EveryWaiterListed' /\ WaitersAreSeen'
    BY <2>2 DEF IInv, EveryWaiterListed, WaitersAreSeen, ToSet
  <2>5. OwnersOwn' /\ ReleasersOwn' /\ WaitersWait' /\ OneUsed'
    BY <2>2, <2>3 DEF IInv, OwnersOwn, ReleasersOwn, WaitersWait, OneUsed, SameAddress
  <2> QED BY <2>1, <2>4, <2>5 DEF IInv
<1>5. ASSUME NEW t \in Tasks, NEW l \in Locks, ReleaseStrands(t, l) PROVE IInv'
  <2>1. TypeOK'
    BY <1>5 DEF ReleaseStrands, Returns, IInv, TypeOK
  <2>2. /\ UNCHANGED <<word, blocked, r1, honest, apart>>
        /\ pc[t] = "releasing" /\ r0[t] = l
        /\ \A u \in Tasks : pc'[u] = IF u = t THEN "running" ELSE pc[u]
        /\ \A u \in Tasks : r0'[u] = IF u = t THEN NoLock ELSE r0[u]
        /\ \A u \in Tasks, k \in Locks :
             k \in owns'[u] => k \in owns[u] /\ (u # t \/ k # l)
    BY <1>5 DEF ReleaseStrands, Returns, Releases, IInv, TypeOK
  <2>3. EveryWaiterListed'
    BY <2>2 DEF IInv, EveryWaiterListed
  <2>4. WaitersAreSeen'
    <3>1. \A u \in ToSet(blocked) : u \in Tasks /\ u # t
      BY <2>2 DEF IInv, EveryWaiterListed
    <3> QED BY <3>1, <2>2 DEF IInv, WaitersAreSeen
  <2>5. OwnersOwn' /\ ReleasersOwn' /\ WaitersWait' /\ OneUsed'
    BY <2>2 DEF IInv, OwnersOwn, ReleasersOwn, WaitersWait, OneUsed, SameAddress
  <2> QED BY <2>1, <2>3, <2>4, <2>5 DEF IInv
<1>6. ASSUME UNCHANGED vars PROVE IInv'
  BY <1>6 DEF vars, IInv, TypeOK, EveryWaiterListed, WaitersAreSeen,
              OwnersOwn, ReleasersOwn, WaitersWait, OneUsed, SameAddress
<1> QED
  BY <1>1, <1>2, <1>3, <1>4, <1>5, <1>6, HandOverIInv DEF Next, Release, Stuck

\* Every state of TaskOpLockClaim and TaskOpLockRelease satisfies IInv.
THEOREM Invariant == Spec => []IInv
BY InitIInv, NextIInv, PTL DEF Spec

\* The types are right.
THEOREM TypeCorrect == Spec => []TypeOK
BY Invariant, PTL DEF IInv

\* The wanted bit of a lock is set as long as a task waits for it.
THEOREM WaitersSeen == Spec => []WaitersAreSeen
BY Invariant, PTL DEF IInv

\* As long as the waiting tasks had their handles in r1, and no two slots used
\* locks at one address at a time, who has claimed a lock owns it...
THEOREM OwnersAreOwners == Spec => []OwnersOwn
BY Invariant, PTL DEF IInv

\* ... so that no two tasks have claimed it.
THEOREM MutualExclusion ==
  Spec => [](honest /\ apart => \A t, u \in Tasks, l \in Locks :
                         l \in owns[t] /\ l \in owns[u] => t = u)
<1>1. OwnersOwn => (honest /\ apart => \A t, u \in Tasks, l \in Locks :
                                l \in owns[t] /\ l \in owns[u] => t = u)
  BY DEF OwnersOwn
<1> QED BY <1>1, OwnersAreOwners, PTL

\* An owned lock's word is changed by a task that starts to wait, which sets the
\* wanted bit, or by its owner's release: the comment at the head of locks.c.
THEOREM OwnedWordIsKept == Spec => OwnedWordKept
<1> DEFINE Kept ==
      \A l \in Locks : (word[l] # Idle /\ word'[l] # word[l]) =>
        \/ word'[l] = [word[l] EXCEPT !.wanted = TRUE]
        \/ \E t \in Tasks : word[l].owner = t /\ Releases(t, l) /\ pc'[t] = "running"
<1>1. IInv /\ [Next]_vars => [Kept]_vars
  <2> SUFFICES ASSUME IInv, Next, NEW l \in Locks, word[l] # Idle, word'[l] # word[l]
               PROVE  \/ word'[l] = [word[l] EXCEPT !.wanted = TRUE]
                      \/ \E t \in Tasks : /\ word[l].owner = t /\ Releases(t, l)
                                          /\ pc'[t] = "running"
    BY DEF vars
  <2> USE DEF IInv, TypeOK
  <2>1. ASSUME NEW t \in Tasks, NEW k \in Locks, ClaimIdle(t, k) \/ CheckOwner(t, k)
        PROVE  FALSE
    BY <2>1 DEF ClaimIdle, CheckOwner
  <2>2. ASSUME NEW t \in Tasks, NEW k \in Locks, ClaimOwned(t, k)
        PROVE  word'[l] = [word[l] EXCEPT !.wanted = TRUE]
    BY <2>2 DEF ClaimOwned
  <2>3. ASSUME NEW t \in Tasks, NEW k \in Locks, Release(t, k)
        PROVE  word[l].owner = t /\ Releases(t, l) /\ pc'[t] = "running"
    <3>1. k = l
      BY <2>3 DEF Release, ReleaseToIdle, HandOver, ReleaseStrands
    <3>2. Releases(t, l) /\ pc'[t] = "running"
      BY <2>3, <3>1 DEF Release, ReleaseToIdle, HandOver, ReleaseStrands, Returns,
                        BothReturn, Releases
    <3> QED BY <3>2 DEF ReleasersOwn, Releases
  <2> QED BY <2>1, <2>2, <2>3 DEF Next, Stuck, vars
<1> QED BY <1>1, Invariant, PTL DEF Spec, OwnedWordKept

\* The tasks that wait are those in the list, and each is there once: Release
\* finds them all, and resumes none that does not wait (EveryWaiterListed).
THEOREM WaitersListed == Spec => []EveryWaiterListed
BY Invariant, PTL DEF IInv

\* Of the tasks that wait at an address the first in the list is resumed first: a
\* waiting task goes on by a handover only, and that takes the list's head
\* (FirstComeFirstServed).
THEOREM FirstIsServedFirst == Spec => FirstComeFirstServed
<1> DEFINE Served ==
      \A i \in DOMAIN blocked : pc'[blocked[i]] = "running" =>
        \A j \in 1 .. i - 1 : r0[blocked[j]] \notin SameAddress(r0[blocked[i]])
<1>1. IInv /\ [Next]_vars => [Served]_vars
  <2> SUFFICES ASSUME IInv, Next, vars' # vars,
                      NEW i \in DOMAIN blocked, pc'[blocked[i]] = "running"
               PROVE  i = 1
    BY DEF vars
  <2> DEFINE w == blocked[i]
  <2>1. /\ blocked \in Seq(Tasks) /\ IsInjective(blocked) /\ TypeOK
        /\ w \in ToSet(blocked) /\ w \in Tasks /\ pc[w] = "claiming"
    BY LenProperties, ElementOfSeq DEF IInv, TypeOK, EveryWaiterListed, ToSet
  <2> HIDE DEF w
  <2>2. PICK t \in Tasks, l \in Locks :
          ClaimIdle(t, l) \/ ClaimOwned(t, l) \/ CheckOwner(t, l) \/ Release(t, l)
    BY DEF Next, Stuck
  <2>3. ~ClaimIdle(t, l) /\ ~ClaimOwned(t, l) /\ ~CheckOwner(t, l)
    BY <2>1 DEF ClaimIdle, ClaimOwned, CheckOwner, TypeOK, w
  <2>4. ~ReleaseToIdle(t, l) /\ ~ReleaseStrands(t, l)
    BY <2>1 DEF ReleaseToIdle, ReleaseStrands, Releases, Returns, TypeOK, w
  <2>5. HandOver(t, l)
    BY <2>2, <2>3, <2>4 DEF Release
  <2>6. blocked # <<>> /\ w \in {t, Head(blocked)} /\ pc[t] = "releasing"
    BY <2>1, <2>5 DEF HandOver, BothReturn, Releases, TypeOK, w
  <2>7. w = Head(blocked) /\ Head(blocked) = blocked[1] /\ 1 \in DOMAIN blocked
    BY <2>1, <2>6, LenProperties, EmptySeq, HeadTailProperties
  <2> QED BY <2>1, <2>7 DEF w, IsInjective
<1> QED BY <1>1, Invariant, PTL DEF Spec, FirstComeFirstServed
=============================================================================

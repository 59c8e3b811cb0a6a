-------------------------------- MODULE Locks --------------------------------
(***************************************************************************)
(* Task_LockClaim and Task_LockRelease (OSTask/locks.c).                   *)
(*                                                                         *)
(* A lock is a word in the tasks' memory: its owner's handle and, in bit   *)
(* 0, whether another task wants it.  The tasks that wait for any lock are *)
(* in one list, shared.ostask.blocked, for all slots, and Release looks    *)
(* there for the address in their r0.  The address is in the memory of the *)
(* task's slot: locks with the same address are in different slots, and    *)
(* Release takes a task that waits for another slot's lock for one that    *)
(* waits for its own.                                                      *)
(*                                                                         *)
(* Each operation holds the kernel's lock (lock_ostask), so it is one      *)
(* step, but for Release's check that the caller is the owner, which comes *)
(* before.  Any task may claim any lock: a task changes slot, to serve a   *)
(* queue's caller for example.                                             *)
(***************************************************************************)
EXTENDS Naturals, SequencesExt

CONSTANTS
  Tasks,
  Locks,
  Address,   \* of each lock, in its slot
  NoTask,    \* handle 0
  NoLock,
  Junk,      \* stands for all values that are no task's handle, nor 0
  Codes      \* what a task's r1 may contain when it calls Claim

ASSUME HandlesAssumption == NoTask \notin Tasks /\ Junk \notin Tasks /\ NoTask # Junk
ASSUME NoLockAssumption == NoLock \notin Locks

\* What a register or a lock may contain.
OSTaskLock == [owner : Tasks \cup {NoTask, Junk}, wanted : BOOLEAN]

ASSUME CodesAssumption == Codes \subseteq OSTaskLock

Idle == [owner |-> NoTask, wanted |-> FALSE]

\* The locks that Release takes for l: l and those of other slots.
SameAddress(l) == {k \in Locks : Address[k] = Address[l]}

VARIABLES
  word,      \* per lock
  blocked,   \* the waiting tasks, the next to be considered first
  r0, r1,    \* per task, inside Claim or Release: its registers, r0 as the lock
             \* of the task's slot that has its contents for an address
  pc,        \* per task
  owns,      \* per task: the locks it has claimed and not released (history)
  honest,    \* had each waiting task its own handle in r1? (history)
  apart      \* was each lock claimed while those of other slots at its address
             \* were idle? (history)

vars == <<word, blocked, r0, r1, pc, owns, honest, apart>>

TypeOK ==
  /\ word \in [Locks -> OSTaskLock]
  /\ blocked \in Seq(Tasks)
  /\ r0 \in [Tasks -> Locks \cup {NoLock}]
  /\ r1 \in [Tasks -> OSTaskLock]
  /\ pc \in [Tasks -> {"running", "claiming", "releasing", "panic"}]
  /\ owns \in [Tasks -> SUBSET Locks]
  /\ honest \in BOOLEAN
  /\ apart \in BOOLEAN

Init ==
  /\ word = [l \in Locks |-> Idle]
  /\ blocked = <<>>
  /\ r0 = [t \in Tasks |-> NoLock]
  /\ r1 = [t \in Tasks |-> Idle]
  /\ pc = [t \in Tasks |-> "running"]
  /\ owns = [t \in Tasks |-> {}]
  /\ honest = TRUE
  /\ apart = TRUE

-----------------------------------------------------------------------------
\* TaskOpLockClaim of an idle lock.  (Of a lock the word says is the caller's,
\* it only returns that.)
ClaimIdle(t, l) ==
  /\ pc[t] = "running"
  /\ word[l] = Idle
  /\ word' = [word EXCEPT ![l].owner = t]
  /\ owns' = [owns EXCEPT ![t] = @ \cup {l}]
  /\ apart' = (apart /\ \A k \in SameAddress(l) : word[k] = Idle)
  /\ UNCHANGED <<blocked, r0, r1, pc, honest>>

\* Mutant: the wanted bit is not set.
ClaimSilently(t, l) ==
  /\ pc[t] = "running"
  /\ word[l] # Idle
  /\ word[l].owner # t
  /\ pc' = [pc EXCEPT ![t] = "claiming"]
  /\ r0' = [r0 EXCEPT ![t] = l]
  /\ \E code \in Codes :
       /\ r1' = [r1 EXCEPT ![t] = code]
       /\ honest' = (honest /\ code.owner = t)
  /\ blocked' = Append(blocked, t)
  /\ UNCHANGED <<word, owns, apart>>

\* Mutant: the caller becomes the owner, as if the lock were idle.
ClaimSteals(t, l) ==
  /\ pc[t] = "running"
  /\ word[l] # Idle
  /\ word[l].owner # t
  /\ word' = [word EXCEPT ![l].owner = t]
  /\ owns' = [owns EXCEPT ![t] = @ \cup {l}]
  /\ UNCHANGED <<blocked, r0, r1, pc, honest, apart>>

\* TaskOpLockClaim of another task's lock.  The caller's r1 is whatever it is:
\* Task_LockClaim only loads r0.
ClaimOwned(t, l) ==
  /\ pc[t] = "running"
  /\ word[l] # Idle
  /\ word[l].owner # t
  /\ pc' = [pc EXCEPT ![t] = "claiming"]
  /\ r0' = [r0 EXCEPT ![t] = l]
  /\ \E code \in Codes :
       /\ r1' = [r1 EXCEPT ![t] = code]
       /\ honest' = (honest /\ code.owner = t)
  /\ blocked' = Append(blocked, t)
  /\ word' = [word EXCEPT ![l].wanted = TRUE]
  /\ UNCHANGED <<owns, apart>>

\* TaskOpLockRelease, before the kernel's lock is claimed.
CheckOwner(t, l) ==
  /\ pc[t] = "running"
  /\ IF word[l].owner = t
     THEN pc' = [pc EXCEPT ![t] = "releasing"] /\ r0' = [r0 EXCEPT ![t] = l]
     ELSE pc' = [pc EXCEPT ![t] = "panic"] /\ UNCHANGED r0
  /\ UNCHANGED <<word, blocked, r1, owns, honest, apart>>

\* The rest of TaskOpLockRelease.
Releases(t, l) == pc[t] = "releasing" /\ r0[t] = l

\* t returns from Release, and it alone.
Returns(t, l) ==
  /\ pc' = [pc EXCEPT ![t] = "running"]
  /\ r0' = [r0 EXCEPT ![t] = NoLock]
  /\ owns' = [owns EXCEPT ![t] = @ \ {l}]
  /\ UNCHANGED r1

\* t returns from Release, u from Claim: of the lock that it waited for.
BothReturn(t, u, l) ==
  /\ pc' = [pc EXCEPT ![t] = "running", ![u] = "running"]
  /\ r0' = [r0 EXCEPT ![t] = NoLock, ![u] = NoLock]
  /\ r1' = [r1 EXCEPT ![u] = Idle]
  /\ owns' = [owns EXCEPT ![t] = @ \ {l}, ![u] = @ \cup {r0[u]}]

\* Nobody waits, for any lock.
ReleaseToIdle(t, l) ==
  /\ Releases(t, l)
  /\ blocked = <<>>
  /\ word' = [word EXCEPT ![l] = Idle]
  /\ Returns(t, l)
  /\ UNCHANGED <<blocked, honest, apart>>

\* Does a task in the list s wait for a lock at l's address?
WaitsIn(s, l) == \E u \in ToSet(s) : r0[u] \in SameAddress(l)

\* Mutant: the last waiting task is resumed.
HandOverToLast(t, l) ==
  /\ Releases(t, l)
  /\ blocked # <<>>
  /\ r0[Last(blocked)] \in SameAddress(l)
  /\ word' = [word EXCEPT ![l] =
       [owner |-> r1[Last(blocked)].owner,
        wanted |-> r1[Last(blocked)].wanted \/ WaitsIn(Front(blocked), l)]]
  /\ blocked' = Front(blocked)
  /\ BothReturn(t, Last(blocked), l)
  /\ UNCHANGED <<honest, apart>>

\* Mutant: a handover leaves the lock with the task that releases it.
HandOverKeepingOwner(t, l) ==
  /\ Releases(t, l)
  /\ blocked # <<>>
  /\ r0[Head(blocked)] \in SameAddress(l)
  /\ word' = [word EXCEPT ![l].wanted = WaitsIn(Tail(blocked), l)]
  /\ blocked' = Tail(blocked)
  /\ BothReturn(t, Head(blocked), l)
  /\ UNCHANGED <<honest, apart>>

\* The first waiting task waits for this lock, or for one with its address in
\* another slot: it is resumed, and its r1 taken for its handle.
HandOver(t, l) ==
  LET resume == Head(blocked) IN
  /\ Releases(t, l)
  /\ blocked # <<>>
  /\ r0[resume] \in SameAddress(l)
  /\ word' = [word EXCEPT ![l] =
       [owner |-> r1[resume].owner,
        wanted |-> r1[resume].wanted \/ WaitsIn(Tail(blocked), l)]]
  /\ blocked' = Tail(blocked)
  /\ BothReturn(t, resume, l)
  /\ UNCHANGED <<honest, apart>>

\* The first waiting task waits at another address.  The loop that should go on
\* to the next ones ends at once (t starts as the list's head, which is also
\* where it ends), and the word is not written.
ReleaseStrands(t, l) ==
  /\ Releases(t, l)
  /\ blocked # <<>>
  /\ r0[Head(blocked)] \notin SameAddress(l)
  /\ Returns(t, l)
  /\ UNCHANGED <<word, blocked, honest, apart>>

Release(t, l) == ReleaseToIdle(t, l) \/ HandOver(t, l) \/ ReleaseStrands(t, l)

\* Everybody waits, or called Release without owning the lock.
Stuck == (\A t \in Tasks : pc[t] \in {"claiming", "panic"}) /\ UNCHANGED vars

Next ==
  \/ \E t \in Tasks, l \in Locks :
       ClaimIdle(t, l) \/ ClaimOwned(t, l) \/ CheckOwner(t, l) \/ Release(t, l)
  \/ Stuck

Spec == Init /\ [][Next]_vars

-----------------------------------------------------------------------------
\* The waiting tasks are the ones in the list, each once.
EveryWaiterListed ==
  /\ ToSet(blocked) = {t \in Tasks : pc[t] = "claiming"}
  /\ IsInjective(blocked)

\* While a task waits for a lock the wanted bit of the lock is set, even when a
\* handover has written a wrong owner, or another slot's.  So the owner's
\* tasks_waiting_for() is never false for a task that waits.
WaitersAreSeen == \A u \in ToSet(blocked) : word[r0[u]].wanted

\* "Once owned, the lock value will only be changed by a waiting task setting
\* bit 0, or the owning task releasing the lock": what makes it safe to check
\* the owner before claiming the kernel's lock.
OwnedWordKept ==
  [][\A l \in Locks : (word[l] # Idle /\ word'[l] # word[l]) =>
       \/ word'[l] = [word[l] EXCEPT !.wanted = TRUE]
       \/ \E t \in Tasks : word[l].owner = t /\ Releases(t, l) /\ pc'[t] = "running"]_vars

\* As long as every task that waited had its own handle in r1, and no two slots
\* used locks at one address at the same time, the locks are locks: a task that
\* has claimed one is the owner in the word, so no other task has, and it will
\* not panic in Release.  (A lock is used until its word is 0, which it is not
\* after a release that strands its waiting tasks.)
OwnersOwn ==
  honest /\ apart => \A t \in Tasks, l \in Locks : l \in owns[t] => word[l].owner = t

\* Of the tasks that wait at an address the first is resumed first.
FirstComeFirstServed ==
  [][\A i \in DOMAIN blocked : pc'[blocked[i]] = "running" =>
       \A j \in 1 .. i - 1 : r0[blocked[j]] \notin SameAddress(r0[blocked[i]])]_vars

=============================================================================

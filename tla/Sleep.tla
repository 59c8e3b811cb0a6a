-------------------------------- MODULE Sleep ---------------------------------
(***************************************************************************)
(* The sleeping tasks (OSTask/sleep.c): one list ordered by waking time,   *)
(* in which each task keeps, in its saved r0, how many ticks after its     *)
(* predecessor it is to wake, so that a tick only changes the head.        *)
(*                                                                         *)
(* The list is changed by atomic manipulations only (module MpSafeList);   *)
(* which core makes the change makes no difference here.  Woken tasks go   *)
(* to the runnable list, module Scheduler says what becomes of them.       *)
(***************************************************************************)
EXTENDS Naturals, SequencesExt

CONSTANTS
  Tasks,
  Times    \* what tasks ask for; TaskOpSleep(0) yields instead

ASSUME TimesAssumption == Times \subseteq Nat \ {0}

VARIABLES
  sleeping,   \* shared.ostask.sleeping, head first
  r0          \* regs.r[0] of the tasks

vars == <<sleeping, r0>>

\* The ticks until the first k tasks of the list have woken.
Ticks(k) ==
  LET sum[i \in 0 .. Len(sleeping)] ==
        IF i = 0 THEN 0 ELSE sum[i - 1] + r0[sleeping[i]]
  IN  sum[k]

Init ==
  /\ sleeping = <<>>
  /\ r0 = [t \in Tasks |-> 0]

-----------------------------------------------------------------------------
\* The loop of put_to_sleep: how many tasks it passes.  It stops at the first
\* one that wakes later, and also once nothing is left of the time.
Passed(time) ==
  CHOOSE k \in 0 .. Len(sleeping) :
    /\ \/ k = Len(sleeping)
       \/ Ticks(k + 1) > time
       \/ k > 0 /\ Ticks(k) = time
    /\ \A i \in 0 .. k - 1 :
         Ticks(i + 1) <= time /\ (i > 0 => Ticks(i) # time)

\* Mutant: the task that is overtaken still counts from its old predecessor.
put_to_sleepOnly(t, time) ==
  LET k == Passed(time)
  IN  /\ sleeping' = InsertAt(sleeping, k + 1, t)
      /\ r0' = [r0 EXCEPT ![t] = time - Ticks(k)]

\* The task that is overtaken counts from the new one.
put_to_sleep(t, time) ==
  LET k == Passed(time)
      rest == time - Ticks(k)
  IN  /\ sleeping' = InsertAt(sleeping, k + 1, t)
      /\ r0' = [u \in Tasks |->
           IF u = t THEN rest
           ELSE IF k < Len(sleeping) /\ u = sleeping[k + 1] THEN r0[u] - rest
           ELSE r0[u]]

\* TaskOpSleep, for any task that executes.
FallAsleep(t, time) ==
  /\ t \notin ToSet(sleeping)
  /\ put_to_sleep(t, time)

\* A tick: the head counts down; at zero it leaves, with all that follow it
\* without a tick in between.
wakey_wakey ==
  /\ sleeping # <<>>
  /\ r0' = [r0 EXCEPT ![Head(sleeping)] = @ - 1]
  /\ LET later == {i \in DOMAIN sleeping : r0'[sleeping[i]] # 0}
     IN  sleeping' = IF later = {} THEN <<>>
                     ELSE SubSeq(sleeping, CHOOSE i \in later : \A j \in later : i <= j,
                                 Len(sleeping))

Next == wakey_wakey \/ \E t \in Tasks, time \in Times : FallAsleep(t, time)

Spec == Init /\ [][Next]_vars

-----------------------------------------------------------------------------
\* What the list says of a task.
Left == [t \in Tasks |->
           IF t \in ToSet(sleeping)
           THEN Ticks(CHOOSE i \in DOMAIN sleeping : sleeping[i] = t)
           ELSE 0]

\* Every task wakes at the tick it asked for: insertions at the head, in the
\* middle, at the end and at equal times, and common wakings, keep all the
\* other tasks' times.
WakesOnTime == INSTANCE Alarms WITH asleep <- ToSet(sleeping), left <- Left
IsAlarms == WakesOnTime!Spec
===============================================================================

-------------------------------- MODULE Alarms --------------------------------
(***************************************************************************)
(* What sleeping promises (OSTask/sleep.c): a task that asks to sleep for  *)
(* n ticks is woken by the n-th tick that follows, whatever other tasks    *)
(* sleep, and in the meantime nothing else wakes it.                       *)
(***************************************************************************)
EXTENDS Naturals

CONSTANTS Tasks, Times

VARIABLES
  asleep,
  left      \* ticks until the task is woken, 0 when it is not asleep

vars == <<asleep, left>>

Init ==
  /\ asleep = {}
  /\ left = [t \in Tasks |-> 0]

FallAsleep(t, n) ==
  /\ t \notin asleep
  /\ asleep' = asleep \cup {t}
  /\ left' = [left EXCEPT ![t] = n]

Tick ==
  /\ left' = [t \in Tasks |-> IF t \in asleep THEN left[t] - 1 ELSE 0]
  /\ asleep' = {t \in asleep : left[t] > 1}

Next == Tick \/ \E t \in Tasks, n \in Times : FallAsleep(t, n)

Spec == Init /\ [][Next]_vars
===============================================================================

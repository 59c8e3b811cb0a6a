------------------------------- MODULE NestedUse ------------------------------
(***************************************************************************)
(* What sharing the legacy SVC stack comes to (Legacy/kernel_swis.c): one  *)
(* task at a time uses it; while that one is blocked another may use what  *)
(* is above, and has to leave before the first one goes on.                *)
(***************************************************************************)
EXTENDS Sequences

CONSTANT Users

VARIABLES
  users,    \* innermost first
  active    \* is the innermost executing, or about to?  Or blocked?

Init == users = <<>> /\ active = FALSE

Enter(t) ==
  /\ ~active
  /\ \A i \in DOMAIN users : users[i] # t
  /\ users' = <<t>> \o users
  /\ active' = TRUE

Block == active /\ active' = FALSE /\ UNCHANGED users

GoOn == users # <<>> /\ ~active /\ active' = TRUE /\ UNCHANGED users

\* The next one goes on at once when it is no longer blocked.
Leave ==
  /\ active
  /\ users' = Tail(users)
  /\ active' \in IF Len(users) = 1 THEN {FALSE} ELSE BOOLEAN

Next == Block \/ GoOn \/ Leave \/ \E t \in Users : Enter(t)

Spec == Init /\ [][Next]_<<users, active>>
===============================================================================

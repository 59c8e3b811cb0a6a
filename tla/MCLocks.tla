------------------------------- MODULE MCLocks -------------------------------
(***************************************************************************)
(* Two slots have a lock at the same address, and one has a second lock.   *)
(***************************************************************************)
EXTENDS Locks, TLC

CONSTANTS here, there, other, a1, a2

MCLocksAddress == [l \in Locks |-> IF l = other THEN a2 ELSE a1]

\* A task calls Claim with its own or another task's handle in r1.
MCLocksCodes == [owner : Tasks, wanted : {FALSE}]

Symmetry == Permutations(Tasks) \cup Permutations({here, there})
=============================================================================

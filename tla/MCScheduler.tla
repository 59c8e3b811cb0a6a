----------------------------- MODULE MCScheduler -----------------------------
EXTENDS Scheduler, TLC

\* Tasks only differ by what happens to them.
Symmetry == Permutations(Tasks)
=============================================================================

----------------------------- MODULE MCMpSafeList -----------------------------
EXTENDS MpSafeList, TLC

CONSTANTS c1, c2, c3, i1, i2, i3, i4

WantsC1 == [i \in Items |-> IF i = i3 THEN c2 ELSE c1]

Symmetry == Permutations(Items \ {i3})
=============================================================================

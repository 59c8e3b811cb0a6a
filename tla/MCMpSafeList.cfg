CONSTANTS
  c1 = c1  c2 = c2  c3 = c3
  i1 = i1  i2 = i2  i3 = i3  i4 = i4
  Cores = {c1, c2}
  Items = {i1, i2, i3, i4}
  NULL = NULL
  LOCKED = LOCKED
  Wants <- WantsC1
SPECIFICATION Spec
SYMMETRY Symmetry
INVARIANTS OneCoreWorks WillBeWoken RingsAreWhole
PROPERTY IsAtomic

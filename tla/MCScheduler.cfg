CONSTANTS
  Tasks = {t1, t2, t3, t4, t5}
  None = None
  NumberOfCores = 2
SPECIFICATION Spec
SYMMETRY Symmetry
INVARIANTS OnePlace RunningBit IdleStays NothingPutAsideTwice
PROPERTIES AskedForCore SavedStateKept

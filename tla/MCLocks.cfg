CONSTANTS
  here = here
  there = there
  other = other
  a1 = a1
  a2 = a2
  Tasks = {t1, t2, t3}
  Locks = {here, there, other}
  Address <- MCLocksAddress
  NoTask = NoTask
  NoLock = NoLock
  Junk = Junk
  Codes <- MCLocksCodes
SPECIFICATION Spec
SYMMETRY Symmetry
INVARIANTS WaitersAreSeen OwnersOwn
PROPERTIES OwnedWordKept FirstComeFirstServed

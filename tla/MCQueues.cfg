CONSTANTS
  t1 = t1
  t2 = t2
  t3 = t3
  t4 = t4
  t5 = t5
  Slots = {s1, s2}
  Tasks <- MCTasks
  Queues = {q}
  None = None
  NumberOfCores = 2
SYMMETRY SameSlots
SPECIFICATION MCSpec
INVARIANTS OnePlaceWithQueues SlotIsMapped
PROPERTIES CallersAreControlled OwnSlotStays

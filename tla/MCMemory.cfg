SPECIFICATION Spec
CONSTANTS
  Core0 = 0
  Cores = {0, 1}
  s0 = s0
  s1 = s1
  Slots = {s0, s1}
  FirstSlot = s0
  t1 = t1
  t2 = t2
  t3 = t3
  t4 = t4
  t5 = t5
  t6 = t6
  Tables = {t1, t2, t3, t4, t5, t6}
  Kernel = Kernel
  ask_slot = ask_slot
  check_global_table = check_global_table
  None = None
  PagesPerSection = 4
  BitsPerWord = 4
  FreeSections = {1, 2, 3, 4, 5, 6, 7, 8}
  Entries = 4
  Unavailable = 1023
  Frames = 1024
  Sections = {0, 1, 2, 3, 4, 5}
  BootSections = 1
  AppPages = 8
  AppBase = 2
  ScratchVa = 1
  ScratchPages = 1
  LogVa = 21
  LogPages = 1
  VectorsVa = 23
  TablesVa = 16
  Pools <- MCPools
  Shared <- MCShared
  Devices <- MCDevices
  FreeBase = 4
  FreeCounts = {12, 20, 24}
  Pages = {3, 4, 8, 9, 20}
  Tops = {6, 8}
  MayShrink = TRUE
  MaxBlocks = 2
  MaxCalls = 3
INVARIANTS TablesHaveOneUse SharedIsTheSame MemoryGivenOnce NoOtherSlotsMemory VectorsAreWritten
CHECK_DEADLOCK FALSE

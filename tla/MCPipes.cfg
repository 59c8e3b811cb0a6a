SPECIFICATION MCSpec
CONSTANTS
  a = a
  b = b
  app = app
  module = module
  pipe = pipe
  log = log
  Tasks <- MCTasks
  Slots <- MCSlots
  SlotOf <- MCSlotOf
  Pipes <- MCPipeSet
  LogPipe = log
  None = None
  Finished = Finished
  BlockSize = 2
  Word = 4
  PipesBase = 1
  PipesTop = 20
  PipeMemEntries = 5
  BlockPages = 1
INVARIANTS NobodyForgotten SleepersKnown EndsAreMapped
PROPERTY IsStream

SPECIFICATION Spec
CONSTANTS
  Headers = {h1, h2, h3}
  HasInit = {h1}
  HasService = {h1, h3}
  Instanced = {h1}
  MaxModules = 4
  MaxInstances = 2
  MaxTold = 5
INVARIANTS ListIsWhole HandlersAreTheirOwn SwisGetToReadyModules EveryoneIsTold
CHECK_DEADLOCK FALSE

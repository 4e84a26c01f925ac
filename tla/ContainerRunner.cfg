CONSTANTS
  Runs = {r1, r2}
  Cancels = {c1}
  None = None
  Leftover = Leftover
  Attempts = 3
  MayOverlap = FALSE
SPECIFICATION Spec
INVARIANTS ContainersAreTracked ShutdownIsClean
PROPERTIES ImplementsAgentRuntime EveryCallReturns
CHECK_DEADLOCK FALSE

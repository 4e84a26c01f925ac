CONSTANTS
  Sends = {s1,s2}
  Controls = {c1}
  Kinds = {"start", "stop", "delete", "shutdown"}
  None = None
  MaxFailures = 2
  MaxRestarts = 1
SPECIFICATION Spec
PROPERTIES EveryCallReturns EveryRunEnds
CHECK_DEADLOCK FALSE

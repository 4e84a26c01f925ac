CONSTANTS
  Sends = {s1,s2}
  Controls = {c1,c2}
  Kinds = {"start", "stop"}
  None = None
  MaxFailures = 0
  MaxRestarts = 0
SPECIFICATION Spec
INVARIANTS OneActiveRun
CHECK_DEADLOCK FALSE

SPECIFICATION Spec
CONSTANTS
  Agents = {1, 2}
  SeededAgent = 1
  Nothing = Nothing
  Statuses = {"unborn"}
  Timers = {1}
  Loads = {1, 2}
  Kinds = {"revoke", "delete", "send"}
  MaxRuns = 1
  MaxEvents = 1
  MaxSelects = 0
  MaxCalls = 2
  MaxFailures = 1
PROPERTIES EvidenceCatchesUp
CHECK_DEADLOCK FALSE

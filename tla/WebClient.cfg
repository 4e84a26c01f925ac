SPECIFICATION Spec
CONSTANTS
  Agents = {1, 2}
  SeededAgent = 1
  Nothing = Nothing
  Statuses = {"unborn", "stopped", "busy"}
  Timers = {1}
  Loads = {1, 2}
  Kinds = {"create", "save", "stop", "start", "delete", "rehearse", "send", "signOut"}
  MaxRuns = 1
  MaxEvents = 0
  MaxSelects = 1
  MaxCalls = 2
  MaxFailures = 0
INVARIANTS ShownBelongsToSelected OpenRunIsWatched
CHECK_DEADLOCK FALSE

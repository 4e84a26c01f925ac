CONSTANTS
  Sends = {s1,s2,s3}
  Controls = {c1,c2}
  Kinds = {"start", "stop", "rehearse", "shutdown"}
  None = None
  MaxFailures = 1
  MaxRestarts = 1
SPECIFICATION Spec
SYMMETRY Symmetric
INVARIANTS BusyHasOpenRun SerialUntilStop ThreadIsCurrentUntilStop ShutdownIsComplete
PROPERTIES RunsEndOnce StopIsFinal
CHECK_DEADLOCK FALSE

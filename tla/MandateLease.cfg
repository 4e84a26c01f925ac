SPECIFICATION Spec
CONSTANTS
  Ops = {o1, o2, o3, o4}
  Keys = {m1, m2}
  None = None
INVARIANTS
  MutualExclusion
  MapTracksPending
PROPERTIES
  ImplementsFifoLock
  EveryCallCompletes
CHECK_DEADLOCK FALSE

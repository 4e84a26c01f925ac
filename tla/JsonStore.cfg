CONSTANTS
  Calls = {c1, c2, c3}
  Boot = Boot
  None = None
  Recording = {c1, c3}
  History = History
  Evidence = Evidence
  Absent = Absent
  Torn = Torn
  Unsupported = Unsupported
  MaxRestarts = 2
SPECIFICATION Spec
INVARIANTS MemoryIsDurable OutcomesAreTrue
PROPERTIES FileMovesForward ImplementsDurableLog EveryMutationSettles
CHECK_DEADLOCK FALSE

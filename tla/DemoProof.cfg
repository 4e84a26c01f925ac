SPECIFICATION DemoSpec
CONSTANTS
  Requests = {r1, r2, r3}
  Admins = {a1}
  Mandates = {m0, m1}
  FirstMandate = m0
  Permanent = TRUE
  None = None
  PassportTTL = 1
  ReuseMargin = 0
  MandateTTL = 1
  MaxTime = 0
  MaxPassports = 2
  MaxRestarts = 0
  MaxInFlight = 2
  MaxSilent = 1
INVARIANTS
  SummaryIsReal
PROPERTIES
  PhaseAdvances
CHECK_DEADLOCK FALSE
SYMMETRY Symmetric

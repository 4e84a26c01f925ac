SPECIFICATION Spec
CONSTANTS
  Requests = {r1, r2}
  Admins = {a1}
  Mandates = {m0}
  FirstMandate = m0
  Permanent = FALSE
  None = None
  PassportTTL = 1
  ReuseMargin = 0
  MandateTTL = 1
  MaxTime = 1
  MaxPassports = 1
  MaxRestarts = 1
INVARIANTS
  AuditTruth
  AnswerTruth
PROPERTIES
  EveryCallReturns
CHECK_DEADLOCK FALSE

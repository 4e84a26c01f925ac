SPECIFICATION Spec
CONSTANTS
  Requests = {r1}
  Admins = {a1, a2}
  Mandates = {m0, m1, m2}
  FirstMandate = m0
  Permanent = TRUE
  None = None
  PassportTTL = 2
  ReuseMargin = 1
  MandateTTL = 2
  MaxTime = 2
  MaxPassports = 2
  MaxRestarts = 1
INVARIANTS
  OneActiveMandate
  LeaseProtectsRecord
PROPERTIES
  ReadsOnlyUnderLiveAuthority
  NoReadAfterRevocation
  RecordsMoveForward
  LeaseDiscipline
CHECK_DEADLOCK FALSE
SYMMETRY Symmetric

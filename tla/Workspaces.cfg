SPECIFICATION Spec
CONSTANTS
  Agents = {demo, a}
  DemoAgent = demo
  Requests = {r1, r2, r3}
  Server = server
  MaxVersion = 3
  MaxCalls = 3
  MaxFailures = 1
  MaxCrashes = 2
INVARIANTS StoredAgentIsWhole DeletedAgentHasNoAuthority InstructionsWereAccepted
PROPERTIES StartsRepair ServerComesUp
CHECK_DEADLOCK FALSE

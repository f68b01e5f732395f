\* Two rules for one process count it twice.
SPECIFICATION BridgeSpec
CONSTANTS
  a1 = a1
  a2 = a2
  p1 = p1
  p2 = p2
  Apps = {a1, a2}
  Idle = Idle
  Workloads <- MCWorkloads
  Admins = {a2}
  Pids = {p1, p2}
  RulesOn <- TwoRules
  Rights <- MCRights
  NoPid = NoPid
  NoToken = NoToken
  OldToken = OldToken
  MaxOutstanding = 2
CHECK_DEADLOCK FALSE
INVARIANT
  AppliedCounts

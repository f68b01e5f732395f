\* Both writers under every fault that leaves the books to the service.
SPECIFICATION RuleSpec
CONSTANTS
  p1 = p1
  p2 = p2
  app = app
  sys = sys
  Pids = {p1, p2}
  NoPid = NoPid
  Absent = Absent
  None = None
  Images = {app, sys}
  SystemWhitelist = {sys}
  Configs <- MCConfigs
  DefaultConfig <- Off
  CpuLevels = {0, 1}
  Classes = {2}
  Ios = {0}
  RuleSets <- NoRules
  Times = {0, 1}
  MaxCount = 1
  Faults = {"sampler", "write", "namesake", "reuse"}
  RuleLists <- Protective
  Unreadable = Unreadable
  RULE_APPLY_TICKS = 2
SYMMETRY Symmetric
CHECK_DEADLOCK FALSE
INVARIANTS
  ProtectionInTime
  LogMirrorsTracking
  EditsReachEngine

\* The rules and ProBalance settle, under edits, process churn and restarts.
SPECIFICATION RuleFairSpec
CONSTANTS
  p1 = p1
  p2 = p2
  app = app
  sys = sys
  Pids = {p1, p2}
  NoPid = NoPid
  Absent = Absent
  None = None
  Images = {app, sys}
  SystemWhitelist = {sys}
  Configs <- MCConfigs
  DefaultConfig <- Off
  CpuLevels = {0, 1}
  Classes = {2}
  Ios = {0}
  RuleSets <- NoRules
  Times = {0}
  MaxCount = 1
  Faults = {}
  RuleLists <- Disagreeing
  Unreadable = Unreadable
  RULE_APPLY_TICKS = 2
CHECK_DEADLOCK FALSE
PROPERTIES
  RulesPrevail
  OffBringsHome

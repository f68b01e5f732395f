\* A process id reused between the sample and the downgrade.
SPECIFICATION RuntimeSpec
CONSTANTS
  p1 = p1
  p2 = p2
  app = app
  sys = sys
  Pids = {p1, p2}
  NoPid = NoPid
  Absent = Absent
  None = None
  Images = {app, sys}
  SystemWhitelist = {sys}
  Configs <- QuickConfigs
  DefaultConfig <- Off
  CpuLevels = {0, 1}
  Classes = {1, 2}
  Ios = {0}
  RuleSets <- NoRules
  Times = {0, 1}
  MaxCount = 2
  Faults = {"reuse"}
SYMMETRY Symmetric
CHECK_DEADLOCK FALSE
INVARIANTS
  AllowlistUntouched

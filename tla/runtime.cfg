\* Crashes, stops, reused process ids and edits of the configuration,
\* boosts beside downgrades.
SPECIFICATION RuntimeSpec
CONSTANTS
  p1 = p1
  p2 = p2
  app = app
  sys = sys
  Pids = {p1, p2}
  NoPid = NoPid
  Absent = Absent
  None = None
  Images = {app, sys}
  SystemWhitelist = {sys}
  Configs <- MCConfigs
  DefaultConfig <- Off
  CpuLevels = {0, 1}
  Classes = {1, 3}
  Ios = {0, 2}
  RuleSets <- NoRules
  Times = {0, 1}
  MaxCount = 2
  Faults = {"load"}
SYMMETRY Symmetric
CHECK_DEADLOCK FALSE
INVARIANTS
  NobodyLeftBehind
  EngineSafe
  LogTruthful
  AllowlistUntouched

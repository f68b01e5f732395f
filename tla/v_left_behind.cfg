\* NobodyLeftBehind under one fault: a failed sampling round forgets lowered
\* processes.  With {"overlap"} instead, a boost on top of a downgrade; with
\* {"unlogged"}, death between lowering a process and logging it; with
\* {"append"}, death after a downgrade whose log entry could not be written.
SPECIFICATION RuntimeSpec
CONSTANTS
  p1 = p1
  p2 = p2
  app = app
  sys = sys
  Pids = {p1, p2}
  NoPid = NoPid
  Absent = Absent
  None = None
  Images = {app, sys}
  SystemWhitelist = {sys}
  Configs <- GameConfigs
  DefaultConfig <- Off
  CpuLevels = {0, 1}
  Classes = {1, 2}
  Ios = {0}
  RuleSets <- NoRules
  Times = {0, 1}
  MaxCount = 2
  Faults = {"sampler"}
SYMMETRY Symmetric
CHECK_DEADLOCK FALSE
INVARIANTS
  NobodyLeftBehind

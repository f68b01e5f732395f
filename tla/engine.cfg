\* The decision core: two processes, two images, the clock free to
\* jump in either direction.
SPECIFICATION FairSpec
CONSTANTS
  p1 = p1
  p2 = p2
  app = app
  sys = sys
  Pids = {p1, p2}
  NoPid = NoPid
  Images = {app, sys}
  SystemWhitelist = {sys}
  Configs <- MCConfigs
  CpuLevels = {0, 1, 2}
  Originals <- MCOriginals
  Times = {0, 2}
  MaxCount = 3
CHECK_DEADLOCK FALSE
INVARIANTS
  TypeOK
  TrackedOnlyWhileEngaged
  HysteresisExact
  NoOverdue
  DecisionsConsistent
PROPERTIES
  LeasesKept
  CalmReturnsAll

\* The table of processes: rounds, failed ones included, with refreshes, stops
\* and failed starts between them.
SPECIFICATION FairSpec
CONSTANTS
  p1 = p1
  p2 = p2
  t1 = t1
  t2 = t2
  Pids = {p1, p2}
  Threads = {t1}
  MaxQueue = 2
  Faults = {"scan", "spawn"}
CHECK_DEADLOCK FALSE
INVARIANTS
  DiffsKeepSync
PROPERTIES
  TableConverges
  ThreadsEnd

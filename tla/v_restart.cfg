\* A stop and a start before the thread has noticed.
SPECIFICATION Spec
CONSTANTS
  p1 = p1
  p2 = p2
  t1 = t1
  t2 = t2
  Pids = {p1}
  Threads = {t1, t2}
  MaxQueue = 2
  Faults = {"pause", "restart"}
CHECK_DEADLOCK FALSE
INVARIANT
  OneSampler

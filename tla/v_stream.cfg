\* DiffsKeepSync under one fault: a refresh inside a round of the stream.  With
\* {"pause"} instead, a stop inside a round, and with {"bootstrap"} rows of the
\* cached list that outlive their process because no full list has come.
SPECIFICATION Spec
CONSTANTS
  p1 = p1
  p2 = p2
  t1 = t1
  t2 = t2
  Pids = {p1}
  Threads = {t1}
  MaxQueue = 2
  Faults = {"overlap"}
CHECK_DEADLOCK FALSE
INVARIANT
  DiffsKeepSync

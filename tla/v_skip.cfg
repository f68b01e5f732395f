\* The same process under grouped masks and CPU Sets in turn.
SPECIFICATION AffinitySpec
CONSTANTS
  t1 = t1
  t2 = t2
  Threads = {t1, t2}
  Absent = Absent
  Idle = Idle
  ActiveCounts <- MCCounts
  Families <- MixedFamilies
  CPU_SET_BUFFER = 2
  MaxDisturbances = 4
INVARIANTS
  SkipIsSafe

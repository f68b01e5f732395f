\* Rules enforced on the threads of one process, two processor groups.
SPECIFICATION AffinitySpec
CONSTANTS
  t1 = t1
  t2 = t2
  Threads = {t1, t2}
  Absent = Absent
  Idle = Idle
  ActiveCounts <- MCCounts
  Families <- MCFamilies
  CPU_SET_BUFFER = 2
  MaxDisturbances = 4
INVARIANTS
  SkipIsSafe
PROPERTIES
  EnforcedInTheEnd
  Quiesces

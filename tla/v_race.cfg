\* A rotation between the two reads of the GUI.  The same instance refutes
\* NewestInGap: a read between the rename and the first line of the next file.
SPECIFICATION Spec
CONSTANTS
  p1 = p1
  p2 = p2
  Pids = {p1}
  Priorities = {"normal"}
  Garbage = Garbage
  Broken = Broken
  Limit = 2
  RotateLines = 1
  MaxEntries = 5
  Faults = {}
CHECK_DEADLOCK FALSE
INVARIANTS
  ReaderContiguous

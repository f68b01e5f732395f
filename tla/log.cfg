\* The action log under rotation, failed renames and torn lines, with the GUI
\* reading at any time.
SPECIFICATION Spec
CONSTANTS
  p1 = p1
  p2 = p2
  Pids = {p1}
  Priorities = {"normal"}
  Garbage = Garbage
  Broken = Broken
  Limit = 2
  RotateLines = 1
  MaxEntries = 4
  Faults = {"torn", "rename"}
CHECK_DEADLOCK FALSE
INVARIANTS
  OrphansExact
  RecentRetained
  ReaderInOrder
PROPERTY
  ReaderNewest

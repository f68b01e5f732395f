\* A line cut short by a full disk or a power failure swallows the next one.
\* The same instance refutes OnlyMalformedSkipped: one cut inside a character
\* makes its whole file unreadable.
SPECIFICATION Spec
CONSTANTS
  p1 = p1
  p2 = p2
  Pids = {p1}
  Priorities = {"normal"}
  Garbage = Garbage
  Broken = Broken
  Limit = 2
  RotateLines = 1
  MaxEntries = 4
  Faults = {"torn"}
CHECK_DEADLOCK FALSE
INVARIANTS
  LastLineReadable

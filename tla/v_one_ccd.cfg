\* A processor with one CCD and 16 logical processors is shown with two dies.
SPECIFICATION TopologySpec
CONSTANTS
  twoCcds = twoCcds
  noSmt = noSmt
  hidden = hidden
  oneCcd = oneCcd
  small = small
  intel = intel
  server = server
  Machines <- MCMachines
  Masks <- MCMasks
  None = None
  MaxChanges = 1
CHECK_DEADLOCK FALSE
INVARIANT
  OneCcdIsOneDie

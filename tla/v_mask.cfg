\* The mask of the app stays widened.
SPECIFICATION TopologySpec
CONSTANTS
  twoCcds = twoCcds
  noSmt = noSmt
  hidden = hidden
  oneCcd = oneCcd
  small = small
  intel = intel
  server = server
  Machines <- MCMachines
  Masks <- MCMasks
  None = None
  MaxChanges = 1
CHECK_DEADLOCK FALSE
INVARIANT
  MaskAlwaysRestored

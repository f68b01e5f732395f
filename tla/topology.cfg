\* Seven machines, and others who change the affinity mask of the app once.
SPECIFICATION TopologySpec
CONSTANTS
  twoCcds = twoCcds
  noSmt = noSmt
  hidden = hidden
  oneCcd = oneCcd
  small = small
  intel = intel
  server = server
  Machines <- MCMachines
  Masks <- MCMasks
  None = None
  MaxChanges = 1
CHECK_DEADLOCK FALSE
INVARIANTS
  DiesAreReal
  LpsAreThere
  MaskRestored

\* The cache of a machine with one socket fits its sibling with two: the
\* signature has the processors of the first group.
SPECIFICATION TopologySpec
CONSTANTS
  twoCcds = twoCcds
  noSmt = noSmt
  hidden = hidden
  oneCcd = oneCcd
  small = small
  intel = intel
  server = server
  Machines <- MCSockets
  Masks <- MCMasks
  None = None
  MaxChanges = 1
CHECK_DEADLOCK FALSE
INVARIANT
  LpsAreThere

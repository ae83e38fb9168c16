SPECIFICATION Spec
CONSTANTS
  c1 = c1  c2 = c2
  None = None
  Monitored = {1, 2, 3}
  Gettable = {1, 2}
  FastCandidates = {2}
  InfRequested = {1, 3}
  FastInterval = 1
  PollInterval = 2
  MaxInterval = 4
  MaxExponent = 2
  Lateness = 1
  Paces <- MCPaces
  Capacities <- MCCapacities
  Bundles <- MCBundles
  Consumers = {c1, c2}
  CycleNames = {1, 2}
SYMMETRY MCSymmetry
CHECK_DEADLOCK FALSE
INVARIANTS TypeOK OneCycle AvailabilityHonest NeverNeglected
PROPERTY PollsOnlyWanted

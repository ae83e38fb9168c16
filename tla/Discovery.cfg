SPECIFICATION Spec
CONSTANTS
  n1 = n1  n2 = n2  a1 = a1  a2 = a2
  None = None
  Nodes = {n1, n2}
  Addresses = {a1, a2}
  Tasks = {1, 2, 3, 4}
  MaxFramesPerAddress = 2
  MaxPendingAddresses = 1
  Limits <- MCLimits
SYMMETRY MCSymmetry
CHECK_DEADLOCK FALSE
INVARIANTS TypeOK AddressBook QueuedIsSought
PROPERTIES InOrder ReplayFollowsList

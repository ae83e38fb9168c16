SPECIFICATION Spec
CONSTANTS
  set = set  get = get  poll = poll  inf = inf
  nodeA = nodeA  nodeB = nodeB
  None = None
  Requests = {set, get, poll}
  Addresses = {nodeA, nodeB}
  AddressOf <- MCAddressOf
  PriorityOf <- MCPriorityOf
  ServiceOf <- MCServiceOf
  InfRequests <- MCInfRequests
  MaxTid = 4
  FirstTids = {3}
  MaxStarts = 1
  MaxProbes = 0
CHECK_DEADLOCK FALSE
INVARIANTS OneOutstanding SlotHasOwner NoLostWakeup AnswerIsOwn
PROPERTY ImplementsSlots

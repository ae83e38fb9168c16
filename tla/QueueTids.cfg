SPECIFICATION FairSpec
CONSTANTS
  set = set  get = get  poll = poll  inf = inf
  nodeA = nodeA  nodeB = nodeB
  None = None
  Requests = {get, poll, inf}
  Addresses = {nodeA, nodeB}
  AddressOf <- MCAddressOf
  PriorityOf <- MCPriorityOf
  ServiceOf <- MCServiceOf
  InfRequests <- MCInfRequests
  MaxTid = 1
  FirstTids = {0}
  MaxStarts = 1
  MaxProbes = 1
CHECK_DEADLOCK FALSE
INVARIANTS TypeOK PendingMatchesOutstanding AnswerIsDelivered
PROPERTY EveryRequestEnds

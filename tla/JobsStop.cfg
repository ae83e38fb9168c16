CONSTANTS
    nodeA = nodeA
    nodeB = nodeB
    aircon = aircon
    light = light
    None = None
    Nodes = {nodeA, nodeB}
    Objects = {aircon, light}
    InstancesOf <- TwoNodes
    RangeObjects = {}
    Workers = {1, 2, 3}
    MaxDeferred = 1
    MaxLists = 2
    MaxChanges = 0
    MaxStops = 1
    Refreshing = FALSE
SPECIFICATION Spec
INVARIANTS
    StopEndsWorkers
CHECK_DEADLOCK FALSE

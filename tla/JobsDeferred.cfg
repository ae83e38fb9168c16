CONSTANTS
    nodeA = nodeA
    nodeB = nodeB
    aircon = aircon
    light = light
    None = None
    Nodes = {nodeA}
    Objects = {aircon}
    InstancesOf <- OneObject
    RangeObjects = {}
    Workers = {1}
    MaxDeferred = 1
    MaxLists = 1
    MaxChanges = 2
    MaxStops = 0
    Refreshing = FALSE
SPECIFICATION Spec
INVARIANTS
    CacheIsCurrent
CHECK_DEADLOCK FALSE

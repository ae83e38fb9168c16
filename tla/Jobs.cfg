CONSTANTS
    nodeA = nodeA
    nodeB = nodeB
    aircon = aircon
    light = light
    None = None
    Nodes = {nodeA, nodeB}
    Objects = {aircon, light}
    InstancesOf <- TwoNodes
    RangeObjects = {aircon}
    Workers = {1, 2, 3}
    MaxDeferred = 4
    MaxLists = 3
    MaxChanges = 1
    MaxStops = 1
    Refreshing = TRUE
SPECIFICATION FairSpec
INVARIANTS
    TypeOK
    CacheIsCurrent
    DeferredIsTransient
    NodeIsSerial
    SetupIsExclusive
    AnnouncedOnce
PROPERTIES
    ListedIsTried
CHECK_DEADLOCK FALSE

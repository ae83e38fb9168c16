SPECIFICATION Spec
CONSTANTS
    maker = maker
    e1 = e1
    e2 = e2
    e3 = e3
    e4 = e4
    setup = setup
    setup2 = setup2
    get = get
    once = once
    Calls = {setup, setup2, get, once}
    Probing = {setup, setup2}
    Unsplit = {once}
    EPCs <- MCEPCs
    Maker = maker
    NoLimit = none
    Scenarios <- MCScenarios
INVARIANTS
    TypeOK
    NothingForgotten
    BatchAllowed
    RequestsBounded
    LearnedLimitHonest
    LimitNotTooSmall
    NothingMissed
PROPERTY
    CapacityShrinks
CHECK_DEADLOCK FALSE

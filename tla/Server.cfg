SPECIFICATION LiveSpec
CONSTANTS
    r1 = r1
    r2 = r2
    Requests = {r1, r2}
    Hanging = {r1}
    Sessions = {s1, s2}
    Conns = {c1}
    Configs <- SomeConfigs
    MaxSignals = 2
    None = None
    Dead = Dead
    Databases = {d1, d2}
    MaxChanges = 1
    MaxErrors = 1
CHECK_DEADLOCK FALSE
INVARIANTS
    TypeOK
    InOrder
PROPERTIES
    AllStops
    CachesFollow

SPECIFICATION Spec
CONSTANTS
    q1 = q1
    q2 = q2
    Clients = {q1}
    Writers = {}
    Rows = {a, b}
    NoOne = NoOne
    Partitions <- TwoTables
    Programs <- TheirPrograms
    Invalid <- BadPrograms
    Cancelers = {}
    Configs <- SomeConfigs
    CacheEntries = 1
CHECK_DEADLOCK FALSE
INVARIANT
    OnlyMatched

SPECIFICATION LiveSpec
CONSTANTS
    q1 = q1
    q2 = q2
    Clients = {q1, q2}
    Writers = {w1}
    Rows = {a, b}
    NoOne = NoOne
    Partitions <- OneTable
    Programs <- TheirPrograms
    Invalid <- BadPrograms
    Cancelers = {q1}
    Configs <- SomeConfigs
    CacheEntries = 1
CHECK_DEADLOCK FALSE
INVARIANTS
    TypeOK
    OnlyMatched
    OwnProgram
PROPERTIES
    AnswerTrue
    AllOrNone
    AllEnd

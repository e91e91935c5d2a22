CONSTANTS
    Requests = {r1, r2}
    Keys = {k1, k2}
    Roleless = {k2}
    SessionIds = {s1, s2}
    Conns = {c1}
    NoRole = NoRole
    NoSession = NoSession
    NoConn = NoConn
    Configs <- LiveConfigs
    Events = {"panic"}
SPECIFICATION FairSpec
PROPERTIES FreeSessionRetired WaiterServed

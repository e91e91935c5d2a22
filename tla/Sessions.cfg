CONSTANTS
    Requests = {r1, r2}
    Keys = {k1, k2}
    Roleless = {}
    SessionIds = {s1, s2}
    Conns = {c1, c2}
    NoRole = NoRole
    NoSession = NoSession
    NoConn = NoConn
    Configs <- AllConfigs
    Events = {"reject", "no connection", "prepare", "panic", "cancel", "death", "nested commit", "dangling"}
SPECIFICATION Spec
INVARIANTS TypeOK FreeFirst Exclusive NoLostConn RoleMatches OwnTransaction
PROPERTIES WatcherHandsOff SlotsSpec
SYMMETRY Symmetry

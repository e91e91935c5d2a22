CONSTANTS
    Requests = {r1}
    Keys = {k1}
    Roleless = {}
    SessionIds = {s1, s2}
    Conns = {c1}
    NoRole = NoRole
    NoSession = NoSession
    NoConn = NoConn
    Configs <- WithTransactions
    Events = {"nested rollback"}
SPECIFICATION Spec
INVARIANT RoleMatches

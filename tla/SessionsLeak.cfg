CONSTANTS
    Requests = {r1}
    Keys = {k1}
    Roleless = {}
    SessionIds = {s1, s2}
    Conns = {c1}
    NoRole = NoRole
    NoSession = NoSession
    NoConn = NoConn
    Configs <- NoTransactions
    Events = {"prepare"}
SPECIFICATION FairSpec
PROPERTY ReleasedInTheEnd

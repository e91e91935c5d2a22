CONSTANTS
    Callers = {c1, c2}
    Listeners = {}
    Deleters = {}
    Names = {n1}
    Databases = {d1, d2, d3}
    Ops = {"get", "get or create", "create"}
    Failures = {}
    None = None
SPECIFICATION Spec
INVARIANT ReturnedIsActivated

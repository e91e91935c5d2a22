CONSTANTS
    Callers = {c1, l}
    Listeners = {l}
    Deleters = {}
    Names = {n1}
    Databases = {d1, d2, d3}
    Ops = {"get", "get or create", "create"}
    Failures = {}
    None = None
SPECIFICATION Spec
INVARIANT ReloadIgnoresInactive

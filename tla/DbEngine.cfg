CONSTANTS
    Callers = {c, d, l}
    Listeners = {l}
    Deleters = {d}
    Names = {n1}
    Databases = {d1, d2, d3}
    Ops = {"get or create"}
    Failures = {"activate", "cancel", "reload"}
    None = None
SPECIFICATION FairSpec
INVARIANTS TypeOK OneActivator OpenPoolsReachable DropQuiesced
PROPERTY OperationsEnd
\* A crash of the process ends everything.
CHECK_DEADLOCK FALSE

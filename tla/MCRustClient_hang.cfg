SPECIFICATION FairSpec
CONSTANTS
    Callers = {c1}
    max_inflight = 1
    MaxCalls = 1
    MayCancel = FALSE
    MayClose = TRUE
    Damage = {}
    MaxStrays = 0
    Nobody = Nobody
    Closed = Closed
    Stray = Stray
PROPERTIES
    CallsReturn
CHECK_DEADLOCK FALSE

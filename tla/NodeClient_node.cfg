SPECIFICATION FairSpec
CONSTANTS
    Calls = {a, b, c, d, big}
    Oversized = {big}
    maxInflight = 2
    MayLose = TRUE
    MayClose = TRUE
    None = None
CHECK_DEADLOCK FALSE
INVARIANTS
    TypeOK
    NoCrossTalk
    OneHolderPerSlot
PROPERTIES
    CallsSettle
    OutstandingSettle
    ConnectSettles

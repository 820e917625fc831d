SPECIFICATION FairSpec
CONSTANTS
    Callers = {c1, c2, c3}
    max_inflight = 2
    MaxCalls = 3
    MayCancel = TRUE
    MayClose = TRUE
    Damage = {"cut", "long"}
    MaxStrays = 1
    Nobody = Nobody
    Closed = Closed
    Stray = Stray
INVARIANTS
    TypeOK
    NoCrossTalk
    SlotExclusive
    PermitsBalanced
    PermitGuaranteesSlotOpen
PROPERTIES
    CallsReturnOpen
    OutstandingReturn
CHECK_DEADLOCK FALSE

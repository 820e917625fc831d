SPECIFICATION Spec
CONSTANTS
    Keys = {k1, k2}
    Short = Short
    Long = Long
    Values = {Short, Long}
    None = None
    Junk = Junk
    Unknown = Unknown
    Faults = {"spill", "power", "io"}
    VLen <- MCVLen
    MaxVLen = 3
    EntryBase = 2
    Budget = 10
    SweepBudget = 1
    MangledLocs <- MCMangled
    TTLs = {1}
    MaxWrites = 2
    MaxTime = 2
    MaxCrashes = 2
SYMMETRY KeySymmetry
INVARIANTS
    TypeOK
    CacheBytesExact
    BudgetRespected
    ExpiryTracked
    CoherentWhileCounted
    SyncedSurvives

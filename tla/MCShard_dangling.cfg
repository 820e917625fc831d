SPECIFICATION Spec
CONSTANTS
    Keys = {k1, k2}
    Short = Short
    Long = Long
    Values = {Short, Long}
    None = None
    Junk = Junk
    Unknown = Unknown
    Faults = {"spill"}
    VLen <- MCVLen
    MaxVLen = 3
    EntryBase = 2
    Budget = 0
    SweepBudget = 1
    MangledLocs <- MCMangled
    TTLs = {1}
    MaxWrites = 2
    MaxTime = 1
    MaxCrashes = 1
INVARIANTS
    ServedIsLive

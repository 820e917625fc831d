SPECIFICATION Spec
CONSTANTS
    Keys = {k1}
    Short = Short
    Long = Long
    Values = {Short, Long}
    None = None
    Junk = Junk
    Unknown = Unknown
    Faults = {}
    VLen <- MCVLen
    MaxVLen = 3
    EntryBase = 2
    Budget = 0
    SweepBudget = 1
    MangledLocs = {}
    TTLs = {1}
    MaxWrites = 2
    MaxTime = 2
    MaxCrashes = 1
INVARIANTS
    ExpiredStaysGone

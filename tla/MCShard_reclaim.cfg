SPECIFICATION FairSpec
CONSTANTS
    Keys = {k1, k2}
    Short = Short
    Long = Long
    Values = {Short}
    None = None
    Junk = Junk
    Unknown = Unknown
    Faults = {}
    VLen <- MCVLen
    MaxVLen = 3
    EntryBase = 2
    Budget = 0
    SweepBudget = 1
    MangledLocs = {}
    TTLs = {1}
    MaxWrites = 3
    MaxTime = 3
    MaxCrashes = 1
PROPERTIES
    ExpiredReclaimed

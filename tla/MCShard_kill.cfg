SPECIFICATION Spec
CONSTANTS
    Keys = {k1, k2}
    Short = Short
    Long = Long
    Values = {Short, Long}
    None = None
    Junk = Junk
    Unknown = Unknown
    Faults = {}
    VLen <- MCVLen
    MaxVLen = 3
    EntryBase = 2
    Budget = 10
    SweepBudget = 1
    MangledLocs = {}
    TTLs = {1}
    MaxWrites = 3
    MaxTime = 2
    MaxCrashes = 1
SYMMETRY KeySymmetry
INVARIANTS
    JournalBehindCool
    NeverInvents
    ServedIsLive
PROPERTIES
    ImplementsKVStore

SPECIFICATION Spec
CONSTANTS
    c1 = c1
    c2 = c2
    Conns = {c1, c2}
    k1 = k1
    k2 = k2
    Keys = {k1, k2}
    Hash <- MCHash
    HashBits = 2
    None = None
    Traffic <- SetGet
    MAX_BATCH = 2
    WORKERS = {1, 2}
    MaxStarts = 2
CHECK_DEADLOCK FALSE
INVARIANTS
    KeysOwned

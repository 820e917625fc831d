SPECIFICATION FairSpec
CONSTANTS
    c1 = c1
    c2 = c2
    Conns = {c1, c2}
    k1 = k1
    k2 = k2
    Keys = {k1, k2}
    Hash <- MCHash
    HashBits = 2
    None = None
    Traffic <- MCTraffic
    MAX_BATCH = 2
    WORKERS = {3, 4}
    MaxStarts = 2
CHECK_DEADLOCK FALSE
INVARIANTS
    TypeOK
    OneReplyPerRequest
    HandshakeFirst
    ReadsFollowWrites
    KeysOwned
PROPERTIES
    RequestsAnswered
    ConnectionsEnd

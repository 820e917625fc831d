SPECIFICATION FairSpec
CONSTANTS
    LenMod = 8
    MAX_FRAME_SIZE = 8
    Ids = {0}
    Names <- MCNames
    Keys <- MCKeys
    Values <- MCValues
    TTLs = {5}
    None = None
    MaxCalls = 2
INVARIANTS
    TypeOK
    DecodedAsSent
    ValuesFitResponses
    AuthExact
PROPERTIES
    RequestsDecoded

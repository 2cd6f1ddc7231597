SPECIFICATION FairSpec
CONSTANTS
    k1 = k1
    k2 = k2
    SourceLen = 3
    ChunkSizes <- AllChunkSizes
    MAX_CHUNK_SIZE = 2
    U64Max = 3
    NoncePrefixes = {1, 2}
    Deks <- TwoKeys
    BaseNonces <- ThreeNonces
    MaxDamage = 1
INVARIANTS
    TypeOK
    NonceUnique
    OkMeansUndamagedPrefix
    EncryptOkIsComplete
    RoundTrip
PROPERTIES
    BothReturn
    CallsRunOut
    ImplementsPrefixRelease
CHECK_DEADLOCK FALSE

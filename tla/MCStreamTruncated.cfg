SPECIFICATION Spec
CONSTANTS
    k1 = k1
    k2 = k2
    SourceLen = 3
    ChunkSizes <- LegalChunkSizes
    MAX_CHUNK_SIZE = 2
    U64Max = 3
    NoncePrefixes = {1, 2}
    Deks <- OneKey
    BaseNonces <- ZeroNonce
    MaxDamage = 1
INVARIANT TruncatedContainerIsRejected
CHECK_DEADLOCK FALSE

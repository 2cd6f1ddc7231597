SPECIFICATION Spec
CONSTANTS
    ascii = ascii
    latin1 = latin1
    Passwords <- TwoPasswords
    Utf8Passwords <- OnePassword
    MaxChunks = 2
    MaxContainers = 2
    MaxDamage = 1
    STREAMING_CHUNK_SIZE = 4
    CHUNK_SIZE = 1
INVARIANTS
    TypeOK
    OutputIsOfOneContainer
    OkMeansUnmodified
    RoundTrip
PROPERTY ImplementsArchive
CHECK_DEADLOCK FALSE

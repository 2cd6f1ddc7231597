SPECIFICATION Spec
CONSTANTS
    p = p
    q = q
    r = r
    o1 = o1
    o2 = o2
    t1 = t1
    i1 = i1
    i2 = i2
    i3 = i3
    i4 = i4
    Procs <- ThreeProcs
    Kind <- ThreeKinds
    Cli <- Commands
    Out <- ThreeOnOne
    TempOf <- OneTemp
    Inodes <- TwoInodes
    NoInode = NoInode
    Blocks = 2
    MaxAttempts = 2
    Exclusive = TRUE
INVARIANTS
    TypeOK
    OnlyWholeFilesVisible
    NothingLeftBehind
PROPERTIES
    OkMeansInstalled
    ImplementsAtomicOutput
SYMMETRY TwoInodeSymmetry
CHECK_DEADLOCK FALSE

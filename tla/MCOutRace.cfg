SPECIFICATION Spec
CONSTANTS
    p = p
    q = q
    o1 = o1
    o2 = o2
    t1 = t1
    i1 = i1
    i2 = i2
    i3 = i3
    i4 = i4
    Procs <- TwoProcs
    r = r
    Cli <- Nobody
    Kind <- StreamingDecryptions
    Out <- SameOutput
    TempOf <- OneTemp
    Inodes <- FourInodes
    NoInode = NoInode
    Blocks = 2
    MaxAttempts = 1
    Exclusive = FALSE
INVARIANT OnlyWholeFilesVisible
SYMMETRY InodeSymmetry
CHECK_DEADLOCK FALSE

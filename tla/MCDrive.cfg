SPECIFICATION Spec
CONSTANTS
    w1 = w1 w2 = w2 a = a None = None
    Windows <- TwoWindows
    Device <- Apart
    Names <- OneName
    MaxId = 1
    Whole = 2
    PageSize = 1
    MaxFiles = 2
INVARIANTS
    TypeOK
    FoldersBounded
    DownloadIsWhole
    TemporariesRemoved
PROPERTIES
    ListsWhatStays
    ImplementsCustody
SYMMETRY Symmetry
CHECK_DEADLOCK FALSE

SPECIFICATION Spec
CONSTANTS
    w1 = w1 w2 = w2 a = a None = None
    Windows <- TwoWindows
    Device <- Together
    Names <- OneName
    MaxId = 2
    Whole = 2
    PageSize = 1
    MaxFiles = 2
INVARIANT NothingLost
CHECK_DEADLOCK FALSE

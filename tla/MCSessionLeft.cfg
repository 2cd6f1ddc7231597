SPECIFICATION FairSpec
CONSTANTS
    LockAfter = 5
    Margin = 4
    MinLife = 2
    Lifetimes <- ShortAndLong
    MaxGrants = 3
    MaxInputs = 5
    None = None
PROPERTY AutoLock
CHECK_DEADLOCK FALSE

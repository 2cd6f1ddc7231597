SPECIFICATION CooperativeSpec
CONSTANTS
    LockAfter = 5
    Margin = 4
    MinLife = 2
    Lifetimes <- ShortAndLong
    MaxGrants = 3
    MaxInputs = 8
    None = None
INVARIANTS
    TypeOK
    LockedInTime
PROPERTIES
    NotLockedEarly
    TokenLasts
    AutoLock
    ImplementsAccount
CHECK_DEADLOCK FALSE

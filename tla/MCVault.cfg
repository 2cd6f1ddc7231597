SPECIFICATION Spec
CONSTANTS
    alpha = alpha beta = beta w1 = w1 w2 = w2 p1 = p1 p2 = p2
    big = big other = other small = small None = None
    FileName <- FileNames
    NameOrder <- Names2
    Windows <- TwoWindows
    Passwords <- TwoPasswords
    Sources <- ThreeSources
    Large <- BigOnly
    LargePieces = 3
    Exclusive = TRUE
SYMMETRY Symmetry
INVARIANTS
    TypeOK
    ImportedStays
    ExportMatchesImport
    OnePasswordPerVault
    SelectionIsListed
PROPERTY ImplementsSafe
CHECK_DEADLOCK FALSE

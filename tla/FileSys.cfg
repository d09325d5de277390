SPECIFICATION UtilSpec
CONSTANTS
    fa = fa
    fb = fb
    fbad = fbad
    h1 = h1
    h2 = h2
    NONE = NONE
    Names = {fa, fb, fbad}
    BadNames = {fbad}
    Handles = {h1, h2}
    SECTORS = 10
    CELLS = 11
    ENTRY_CNT = 2
    Lengths <- MCLengths
    Offsets <- MCOffsets
    Values = {1}
    Fails = {0, 2, 3, 4, 5}
    Scripts <- MCScripts
    Scratches <- MCScratches
INVARIANTS DiskSound RecordsExact TransfersExact
PROPERTY StoreSpec
CHECK_DEADLOCK FALSE
SYMMETRY Symmetry
VIEW View

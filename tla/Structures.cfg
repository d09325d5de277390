SPECIFICATION LibrarySpec
CONSTANTS
    e1 = e1  e2 = e2  e3 = e3  e4 = e4  e5 = e5
    Elems = {e1, e2, e3, e4, e5}
    Listable = {e1, e2, e3, e4, e5}
    NULL = NULL
    Items = {1, 2, 3}
    Strings <- MCStrings
    MaxNodes = 5
    BTItems = {1, 2}
    BSTKeys = {1, 2, 3, 4}
    MaxTreeNodes = 4
    Value <- MCValue
    Lists <- MCLists
    HashOf <- MCHashOf
    MaxBuckets = 4
    MIN_BUCKETS = 1
    BEST_ELEMS_PER_BUCKET = 1
    MaxChar = 2
    MemSize = 5
    SortValues = {1, 2, 3}
    MaxArray = 6
    W = 4
    BufSizes = {0, 3, 30}
    CharBits = 4
    ShortBits = 8
    IntBits = 12
    LongBits = 16
    BufLen = 20
VIEW LibraryView
INVARIANTS LinksExact  
PROPERTIES ListStoreSpec HashStoreSpec
CHECK_DEADLOCK FALSE

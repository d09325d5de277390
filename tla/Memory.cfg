SPECIFICATION Spec
CONSTANTS
    Threads = {t1, t2}
    NONE = NONE
    MemoryMaps <- MCMaps
    KernelEnd = 5
    UserPageLimit = 2
    PGSIZE = 16
    ARENA = 2
    MinBlock = 4
    WORD <- MCWord
    Sizes = {3, 20}
    Products <- MCProducts
    PageCounts = {2}
    MaxHeld = 2
VIEW MCView
SYMMETRY Symmetry
INVARIANTS PagesExact ArenasExact ContentsKept
CHECK_DEADLOCK FALSE

SPECIFICATION Spec
CONSTANTS
    NONE = NONE
    Main = Main
    p1 = p1
    p2 = p2
    PGSIZE = 4
    FAN = 2
    KERN_BASE = 40
    USER_STACK = 32
    U32 = 4096
    JUNK = 99
    MaxPreemptions = 2
    KernelPools = {3, 5, 8, 18}
    UserPools = {1, 3, 8}
    Procs <- Two
    StoreVas = {5, 31}
    Programs <- Files
    KernelTables <- BaseTables
SYMMETRY Symmetry
INVARIANTS SpaceLive FramesExact LoadExact
CHECK_DEADLOCK FALSE

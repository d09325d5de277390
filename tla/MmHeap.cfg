SPECIFICATION MSpec
CONSTANTS
    MAX_HEAP = 144
    CHUNKSIZE = 32
    Sizes = {12, 32}
    Names = {a, b}
    MaxOps = 5
    CopyOrders = {"up"}
    a = a
    b = b
SYMMETRY Symmetry
INVARIANTS HeapExact  DriverAccepts
CHECK_DEADLOCK FALSE

SPECIFICATION WebSpec
CONSTANTS
    Threads = {t1, t2}
    Urls = {empty, small, other, large, huge}
    SizeOf <- MCSizeOf
    Blocks = {b1, b2, b3, b4, b5}
    MAX_CACHE_SIZE = 4
    MAX_OBJECT_SIZE = 2
    empty = empty
    small = small
    other = other
    large = large
    huge = huge
    b1 = b1
    b2 = b2
    b3 = b3
    b4 = b4
    b5 = b5
    NULL = NULL
    Bytes <- MCBytes
    Streams <- MCStreams
    Newline = "n"
    RIO_BUFSIZE = 2
    Counts = {1, 3}
    MaxAddresses = 2
    MaxCalls = 3
    MaxHeaders = 2
    MaxLines = 3
    t1 = t1
    t2 = t2
CHECK_DEADLOCK FALSE
SYMMETRY Symmetry
INVARIANT BlocksLive

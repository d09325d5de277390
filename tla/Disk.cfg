SPECIFICATION FairSpec
CONSTANTS
    Threads = {idle, main, t1}
    Main = main
    Idle = idle
    NULL = NULL
    TIME_SLICE = 1
    Semas = {completion_wait}
    Locks = {channel_lock}
    Conds = {}
    LockOf <- NoConds
    MaxValue = 0
    Ops = {"disk"}
    ChLock = channel_lock
    Completion = completion_wait
    Devices = {d0, d1}
    Sectors = {s0, s1}
    Values = {v0, v1}
    MaxCalls = 2
    idle = idle
    channel_lock = channel_lock
    completion_wait = completion_wait
    main = main
    t1 = t1
    d0 = d0
    d1 = d1
    s0 = s0
    s1 = s1
    v0 = v0
    v1 = v1
INVARIANT CommandsSound
PROPERTY SectorsAreAtomic
PROPERTIES CallsReturn UnitsAreTaken

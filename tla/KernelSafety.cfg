SPECIFICATION Spec
CONSTANTS
    Threads = {main, idle, t1, t2}
    Main = main
    Idle = idle
    NULL = NULL
    TIME_SLICE = 1
    Semas = {started, s1}
    Locks = {tid_lock, lk}
    Conds = {c1}
    LockOf <- MCLockOf
    MaxValue = 2
    Ops = {"create", "exit", "yield", "lock", "try", "cond", "bcast", "sema", "irq", "intr"}
    TidLock = tid_lock
    IdleStarted = started
    MaxTid = 4
    main = main
    idle = idle
    t1 = t1
    t2 = t2
    started = started
    s1 = s1
    tid_lock = tid_lock
    c1 = c1
    lk = lk
SYMMETRY Symmetry
INVARIANTS TypeOK ThreadsSound LockAccounting WakeupsKept AssertionsHold
PROPERTIES DeadStayDead LocksAreMutexes

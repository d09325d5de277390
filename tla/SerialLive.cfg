SPECIFICATION FairSpec
CONSTANTS
    Threads = {idle, main, t1}
    Main = main
    Idle = idle
    NULL = NULL
    TIME_SLICE = 1
    Semas = {}
    Locks = {input, txq, console}
    Conds = {}
    LockOf <- MCLockOf
    MaxValue = 0
    Ops = {"getc", "putbuf", "rx", "key"}
    InputQ = input
    TxQ = txq
    Console = console
    N = 2
    LINE = 2
    Readers = {main}
    Writers = {t1}
    idle = idle
    input = input
    txq = txq
    console = console
    main = main
    t1 = t1
INVARIANTS QueuesSound
PROPERTIES ReaderServed WriterServed ReadyRuns

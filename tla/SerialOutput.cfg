SPECIFICATION Spec
CONSTANTS
    Threads = {idle, main, t1}
    Main = main
    Idle = idle
    NULL = NULL
    TIME_SLICE = 1
    Semas = {}
    Locks = {input, txq, console}
    Conds = {}
    LockOf <- MCLockOf
    MaxValue = 0
    Ops = {"putbuf", "intr", "irq"}
    InputQ = input
    TxQ = txq
    Console = console
    N = 3
    LINE = 2
    Readers = {}
    Writers = {main, t1}
    idle = idle
    input = input
    txq = txq
    console = console
    main = main
    t1 = t1
INVARIANTS LinesAreWhole WaitersSound

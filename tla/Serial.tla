---------------------------- MODULE Serial ----------------------------
(***************************************************************************)
(* Console input and output of the Pintos kernel: the interrupt queues     *)
(* (devices/intq.c) between threads and interrupt handlers, the keyboard   *)
(* and serial drivers that fill and drain them (devices/input.c, kbd.c,    *)
(* serial.c), and the console lock (lib/kernel/console.c), on top of the   *)
(* scheduler and the locks of Synch.  The port is in QUEUE mode, with      *)
(* interrupts on: after serial_init_queue().                               *)
(*                                                                         *)
(* The code between an intr_disable() and the intr_set_level() after it    *)
(* is one step up to the point where it sleeps.  A queue is named by its   *)
(* lock.  The statements of threads, beside those of Synch:                *)
(*                                                                         *)
(*   getc, putc           at the head of the loop of intq_getc(&buffer) or *)
(*                        intq_putc(&txq), interrupts off                  *)
(*   getc_wait, putc_wait about to call wait(), the queue's lock held      *)
(*   getc_up, putc_up     woken in wait(), about to release the lock       *)
(*   putbuf               in the loop of putbuf(), console_lock held       *)
(*                                                                         *)
(* A byte is a pair: of a printing thread and the place of the character   *)
(* in its line, or of NULL and a serial number for input.                  *)
(***************************************************************************)
EXTENDS Synch, FiniteSets, SequencesExt

CONSTANTS
    InputQ, TxQ,      \* the queues buffer of input.c and txq of serial.c
    Console,          \* console_lock
    N,                \* INTQ_BUFSIZE
    LINE,             \* characters in a call of putbuf()
    Readers, Writers  \* threads that call input_getc() and putbuf()

Queues == {InputQ, TxQ}

ASSUME SerialAssumption ==
    /\ Locks = {InputQ, TxQ, Console} /\ Cardinality(Locks) = 3
    /\ IsFiniteSet(Threads)
    /\ N \in Nat /\ N >= 2
    /\ LINE \in Nat \ {0}
    /\ Readers \cup Writers \subseteq Threads \ {Idle}

Serials == 0..(N + 1)
Bytes == ({NULL} \X Serials) \cup (Writers \X (1..LINE))
IrqByte == <<NULL, 0>>   \* a character printed by an interrupt handler

VARIABLES
    buf, head, tail,      \* of each queue
    not_full, not_empty,  \* the thread that waits for it, of each queue
    ier,                  \* interrupts enabled in the UART, IER_REG
    rx_ready, thr_empty,  \* LSR_DR and LSR_THRE of the UART
    old_level,            \* the variable of each thread in its driver call
    printed,              \* characters of putbuf() each thread has sent
    next_in, next_out,    \* the next input byte to enter and to leave
    last_sent             \* the last byte of a thread to reach the port

queueVars == <<buf, head, tail, not_full, not_empty>>
portVars == <<ier, rx_ready, thr_empty>>
historyVars == <<next_in, next_out, last_sent>>
serialVars == <<queueVars, portVars, old_level, printed, historyVars>>
frameVars == <<at, obj, peer, level, asleep>>
vars == <<schedVars, synchVars, frameVars, serialVars>>

DriverLabels == {"getc", "getc_wait", "getc_up", "putc", "putc_wait",
                 "putc_up", "putbuf"}
Labels == SynchLabels \cup DriverLabels

----------------------------------------------------------------------------
\* next(pos)
NextPos(pos) == (pos + 1) % N

Count(q) == (head[q] + N - tail[q]) % N
Empty(q) == head[q] = tail[q]

Full(q) == NextPos(head[q]) = tail[q]

Room(q) == (N - 1) - Count(q)

\* The bytes in the queue, oldest first.
Contents(q) == [i \in 1..Count(q) |-> buf[q][(tail[q] + i - 1) % N]]

\* The position that is n positions after pos: next() n times.
Advance(pos, n) == (pos + n) % N

(***************************************************************************)
(* intq_putc() of the bytes in into InputQ or TxQ and intq_getc() of out   *)
(* bytes from the other or the same one, when there is room and data: in   *)
(* and out give the bytes added to each queue and the number removed.      *)
(* signal() wakes the waiting threads.                                     *)
(***************************************************************************)
Transfer(in, out) ==
    /\ buf' = [q \in Queues |-> [p \in DOMAIN buf[q] |->
          LET hits == {i \in DOMAIN in[q] : Advance(head[q], i - 1) = p}
          IN  IF hits = {} THEN buf[q][p]
              ELSE in[q][CHOOSE i \in hits : TRUE]]]
    /\ head' = [q \in Queues |-> Advance(head[q], Len(in[q]))]
    /\ tail' = [q \in Queues |-> Advance(tail[q], out[q])]

None == [q \in Queues |-> <<>>]
Add(q, bytes) == [None EXCEPT ![q] = bytes]
Take(q, n) == [[r \in Queues |-> 0] EXCEPT ![q] = n]

\* The threads that signal() wakes, in order.
Woken(in, out) ==
    LET Waiter(w, q, cond) == IF cond /\ w[q] # NULL THEN <<w[q]>> ELSE <<>>
    IN  Waiter(not_empty, InputQ, in[InputQ] # <<>>)
        \o Waiter(not_full, InputQ, out[InputQ] > 0)
        \o Waiter(not_full, TxQ, out[TxQ] > 0)
        \o Waiter(not_empty, TxQ, in[TxQ] # <<>>)

\* Faulty: the waiting thread is not reset.
BadSignal(in, out) ==
    LET woken == Woken(in, out) IN
    /\ status' = [t \in Threads |-> IF InList(t, woken) THEN "READY"
                                    ELSE status[t]]
    /\ ready_list' = ready_list \o woken
    /\ UNCHANGED <<current, idle_thread, destruction_req, thread_ticks,
                   not_empty, not_full>>

\* Faulty: the waiting thread is reset and not made ready.
BadSignalSilent(in, out) ==
    /\ not_empty' = [q \in Queues |-> IF in[q] # <<>> THEN NULL
                                      ELSE not_empty[q]]
    /\ not_full' = [q \in Queues |-> IF out[q] > 0 THEN NULL ELSE not_full[q]]
    /\ UNCHANGED schedVars

\* signal()
Signal(in, out) ==
    LET woken == Woken(in, out) IN
    /\ status' = [t \in Threads |-> IF InList(t, woken) THEN "READY"
                                    ELSE status[t]]
    /\ ready_list' = ready_list \o woken
    /\ not_empty' = [q \in Queues |-> IF in[q] # <<>> THEN NULL
                                      ELSE not_empty[q]]
    /\ not_full' = [q \in Queues |-> IF out[q] > 0 THEN NULL ELSE not_full[q]]
    /\ UNCHANGED <<current, idle_thread, destruction_req, thread_ticks>>

\* Faulty: transmit interrupts stay off.
BadIerBits == IF Full(InputQ) THEN {} ELSE {"recv"}

\* The interrupts write_ier() enables: transmit when txq holds data,
\* receive when the input buffer has room.
IerBits == (IF Empty(TxQ) THEN {} ELSE {"xmit"})
           \cup (IF Full(InputQ) THEN {} ELSE {"recv"})
WriteIer == ier' = IerBits'

OfThread(b) == b[1] # NULL

\* The bytes sent reach the port.
Transmit(bytes) ==
    LET mine == {i \in DOMAIN bytes : OfThread(bytes[i])}
    IN  last_sent' = IF mine = {} THEN last_sent ELSE bytes[Max(mine)]

noTransfer == UNCHANGED <<queueVars, portVars, historyVars>>

----------------------------------------------------------------------------
\* intr_disable() at the start of a driver function of the current thread.
Enter(label) ==
    /\ old_level' = [old_level EXCEPT ![current] = level[current]]
    /\ level' = [level EXCEPT ![current] = "off"]
    /\ Goto(label, NULL)

\* intr_set_level(old_level) at its end.
Leave(label) ==
    /\ level' = [level EXCEPT ![current] = old_level[current]]
    /\ Goto(label, NULL)

\* input_getc(), up to the loop of intq_getc().
StartGetc ==
    /\ AtClient("getc") /\ current \in Readers
    /\ Enter("getc")
    /\ noTransfer
    /\ UNCHANGED <<schedVars, synchVars, peer, asleep, printed>>

\* The loop of intq_getc(q) or intq_putc(q), cond being false:
\* lock_acquire (&q->lock).
WaitForLock(q, label, cond) ==
    /\ at[current] = label /\ ~cond
    /\ Goto("acquire", q)
    /\ noTransfer
    /\ UNCHANGED <<schedVars, synchVars, peer, level, asleep, old_level,
                   printed>>

\* Faulty: input_getc() does not call serial_notify().
BadGetc ==
    /\ at[current] = "getc" /\ ~Empty(InputQ)
    /\ Transfer(None, Take(InputQ, 1))
    /\ Signal(None, Take(InputQ, 1))
    /\ next_out' = (next_out + 1) % (N + 2)
    /\ Leave("client")
    /\ UNCHANGED <<portVars, next_in, last_sent, synchVars, peer, asleep,
                   old_level, printed>>

\* input_getc() from the end of the loop of intq_getc().
Getc ==
    /\ at[current] = "getc" /\ ~Empty(InputQ)
    /\ Transfer(None, Take(InputQ, 1))
    /\ Signal(None, Take(InputQ, 1))
    /\ WriteIer
    /\ next_out' = (next_out + 1) % (N + 2)
    /\ Leave("client")
    /\ UNCHANGED <<rx_ready, thr_empty, next_in, last_sent, synchVars, peer,
                   asleep, old_level, printed>>

\* wait(q, &q->not_empty) and wait(q, &q->not_full), when the assertion in
\* wait() holds; the kernel panics when it does not.
WaitNotEmpty ==
    /\ at[current] = "getc_wait" /\ Empty(InputQ)
    /\ not_empty' = [not_empty EXCEPT ![InputQ] = current]
    /\ Goto("getc_up", NULL)
    /\ UNCHANGED not_full

WaitNotFull ==
    /\ at[current] = "putc_wait" /\ Full(TxQ)
    /\ not_full' = [not_full EXCEPT ![TxQ] = current]
    /\ Goto("putc_up", NULL)
    /\ UNCHANGED not_empty

WaitOnQueue ==
    /\ WaitNotEmpty \/ WaitNotFull
    /\ Block
    /\ asleep' = [asleep EXCEPT ![current] = TRUE]
    /\ UNCHANGED <<buf, head, tail, portVars, historyVars, synchVars, peer,
                   level, old_level, printed>>

\* Woken in wait(): thread_block() returns and lock_release() begins.
WakeUp(q, label) ==
    /\ at[current] = label
    /\ lock_holder[q] = current
    /\ lock_holder' = [lock_holder EXCEPT ![q] = NULL]
    /\ asleep' = [asleep EXCEPT ![current] = FALSE]
    /\ Goto("release", q)
    /\ noTransfer
    /\ UNCHANGED <<schedVars, semaVars, cond_waiters, peer, level, old_level,
                   printed>>

----------------------------------------------------------------------------
\* putbuf(), up to acquire_console().
StartPutbuf ==
    /\ AtClient("putbuf") /\ current \in Writers
    /\ Goto("acquire", Console)
    /\ printed' = [printed EXCEPT ![current] = 0]
    /\ noTransfer
    /\ UNCHANGED <<schedVars, synchVars, peer, level, asleep, old_level>>

\* Faulty: console_lock is released after each character.
BadPutchar ==
    /\ at[current] = "putbuf" /\ printed[current] < LINE
    /\ ~(level[current] = "off" /\ Full(TxQ))
    /\ IF printed[current] > 0 /\ lock_holder[Console] = current
       THEN /\ lock_holder' = [lock_holder EXCEPT ![Console] = NULL]
            /\ Goto("release", Console)
            /\ UNCHANGED <<old_level, level>>
       ELSE /\ Enter("putc")
            /\ UNCHANGED lock_holder
    /\ noTransfer
    /\ UNCHANGED <<schedVars, semaVars, cond_waiters, peer, asleep, printed>>

\* serial_putc() in the loop of putbuf(), up to the loop of intq_putc().
Putchar ==
    /\ at[current] = "putbuf" /\ printed[current] < LINE
    /\ ~(level[current] = "off" /\ Full(TxQ))
    /\ Enter("putc")
    /\ noTransfer
    /\ UNCHANGED <<schedVars, synchVars, peer, asleep, printed>>

\* intq_putc(&txq, byte) and write_ier(), after n bytes were sent by polling.
Queue(byte, n) ==
    LET in == Add(TxQ, <<byte>>)
        out == Take(TxQ, n)
    IN  /\ Transfer(in, out)
        /\ Signal(in, out)
        /\ Transmit(SubSeq(Contents(TxQ), 1, n))
        /\ thr_empty' = (thr_empty /\ n = 0)
        /\ WriteIer
        /\ UNCHANGED <<rx_ready, next_in, next_out>>

NextByte == <<current, printed[current] + 1>>
CountPrinted == printed' = [printed EXCEPT ![current] = @ + 1]

\* serial_putc() from the end of the loop of intq_putc().
Putc ==
    /\ at[current] = "putc" /\ ~Full(TxQ)
    /\ Queue(NextByte, 0)
    /\ CountPrinted
    /\ Leave("putbuf")
    /\ UNCHANGED <<synchVars, peer, asleep, old_level>>

\* serial_putc() with interrupts off and txq full, a whole turn of the loop
\* of putbuf(): putc_poll() waits until the port takes the oldest byte.
PutcPolled ==
    /\ at[current] = "putbuf" /\ printed[current] < LINE
    /\ level[current] = "off" /\ Full(TxQ)
    /\ thr_empty
    /\ Queue(NextByte, 1)
    /\ CountPrinted
    /\ UNCHANGED <<synchVars, frameVars, old_level>>

\* putbuf(): release_console(), up to the sema_up() of lock_release().
EndPutbuf ==
    /\ at[current] = "putbuf" /\ printed[current] = LINE
    /\ ClearHolder(Console)
    /\ Goto("release", Console)
    /\ noTransfer
    /\ UNCHANGED <<old_level, printed>>

----------------------------------------------------------------------------
AfterHold(l) == CASE l = Console -> "putbuf"
                  [] l = InputQ  -> "getc_wait"
                  [] l = TxQ     -> "putc_wait"
AfterRelease(l) == CASE l = Console -> "client"
                     [] l = InputQ  -> "getc"
                     [] l = TxQ     -> "putc"

\* The steps of locks under way.
LockStep ==
    /\ \E l \in Locks : \/ at[current] = "acquire" /\ LockAcquire(l)
                        \/ SetHolder(l, AfterHold(l))
                        \/ ReleaseUp(l, AfterRelease(l))
    /\ UNCHANGED serialVars

\* Input bytes get their serial numbers as they enter the buffer.
Received(n) == [i \in 1..n |-> <<NULL, (next_in + i - 1) % (N + 2)>>]

\* input_putc() of n bytes, by an interrupt handler that takes out bytes
\* from txq.
InputPutc(n, out) ==
    /\ Transfer(Add(InputQ, Received(n)), out)
    /\ Signal(Add(InputQ, Received(n)), out)
    /\ next_in' = (next_in + n) % (N + 2)
    /\ WriteIer

\* keyboard_interrupt(), when a key makes a character: it is dropped when
\* the buffer is full.
KeyboardInterrupt ==
    /\ IntrOn /\ "key" \in Ops
    /\ ~Full(InputQ)
    /\ InputPutc(1, Take(InputQ, 0))
    /\ EndHlt
    /\ UNCHANGED <<rx_ready, thr_empty, next_out, last_sent, synchVars, obj,
                   peer, level, asleep, old_level, printed>>

\* serial_interrupt(), with in bytes received and out bytes transmitted:
\* one of each at least when the port is ready, and more when it is ready
\* again before the loops end.
SerialInterrupt(in, out) ==
    /\ IntrOn
    /\ ("recv" \in ier /\ rx_ready) \/ ("xmit" \in ier /\ thr_empty)
    /\ in \in 0..Room(InputQ)
    /\ in = 0 <=> (~rx_ready \/ Full(InputQ))
    /\ out \in 0..Count(TxQ)
    /\ out = 0 <=> (~thr_empty \/ Empty(TxQ))
    /\ InputPutc(in, Take(TxQ, out))
    /\ Transmit(SubSeq(Contents(TxQ), 1, out))
    /\ rx_ready' = (rx_ready /\ in = 0)
    /\ thr_empty' = (thr_empty /\ out = 0)
    /\ EndHlt
    /\ UNCHANGED <<next_out, synchVars, obj, peer, level, asleep, old_level,
                   printed>>

\* A character printed by an interrupt handler, which takes no lock.
InterruptPrint ==
    /\ IntrOn /\ "irq" \in Ops
    /\ Full(TxQ) => thr_empty
    /\ Queue(IrqByte, IF Full(TxQ) THEN 1 ELSE 0)
    /\ EndHlt
    /\ UNCHANGED <<synchVars, obj, peer, level, asleep, old_level, printed>>

\* The port receives a byte, or finishes sending one.
ByteArrives ==
    /\ "rx" \in Ops /\ ~rx_ready
    /\ rx_ready' = TRUE
    /\ UNCHANGED <<schedVars, synchVars, frameVars, queueVars, ier, thr_empty,
                   old_level, printed, historyVars>>

ThrEmpties ==
    /\ ~thr_empty
    /\ thr_empty' = TRUE
    /\ UNCHANGED <<schedVars, synchVars, frameVars, queueVars, ier, rx_ready,
                   old_level, printed, historyVars>>

----------------------------------------------------------------------------
\* The threads that use the console are ready to run and Main runs; the
\* idle thread has blocked in its loop.
Init ==
    /\ status = [t \in Threads |-> CASE t = Main -> "RUNNING"
                                     [] t = Idle -> "BLOCKED"
                                     [] OTHER    -> "READY"]
    /\ ready_list = SetToSeq(Threads \ {Main, Idle})
    /\ current = Main
    /\ idle_thread = Idle
    /\ destruction_req = <<>>
    /\ thread_ticks = 0
    /\ sema_value = [s \in SemaIds |-> IF s \in Locks THEN 1 ELSE 0]
    /\ sema_waiters = [s \in SemaIds |-> <<>>]
    /\ lock_holder = [l \in Locks |-> NULL]
    /\ cond_waiters = [c \in Conds |-> <<>>]
    /\ at = [t \in Threads |-> IF t = Idle THEN "idle_sti" ELSE "client"]
    /\ obj = [t \in Threads |-> NULL]
    /\ peer = [t \in Threads |-> NULL]
    /\ level = [t \in Threads |-> "on"]
    /\ asleep = [t \in Threads |-> t = Idle]
    /\ buf = [q \in Queues |-> [p \in 0..(N - 1) |-> IrqByte]]
    /\ head = [q \in Queues |-> 0]
    /\ tail = [q \in Queues |-> 0]
    /\ not_full = [q \in Queues |-> NULL]
    /\ not_empty = [q \in Queues |-> NULL]
    /\ ier = {"recv"}
    /\ rx_ready = FALSE
    /\ thr_empty = TRUE
    /\ old_level = [t \in Threads |-> "on"]
    /\ printed = [t \in Threads |-> 0]
    /\ next_in = 0
    /\ next_out = 0
    /\ last_sent = IrqByte

\* The steps that threads choose to take.
ClientStep ==
    \/ StartGetc \/ StartPutbuf
    \/ (IntrDisable \/ IntrEnable) /\ UNCHANGED serialVars

\* The steps of functions that are under way.
DriverStep ==
    \/ WaitForLock(InputQ, "getc", ~Empty(InputQ))
    \/ WaitForLock(TxQ, "putc", ~Full(TxQ))
    \/ LockStep
    \/ WaitOnQueue
    \/ WakeUp(InputQ, "getc_up") \/ WakeUp(TxQ, "putc_up")
    \/ Getc \/ Putchar \/ Putc \/ PutcPolled \/ EndPutbuf
    \/ (IdleBlock \/ IdleHlt) /\ UNCHANGED serialVars

TimerInterrupt == TimerTick /\ UNCHANGED serialVars

PortInterrupt == \E in, out \in 0..(N - 1) : SerialInterrupt(in, out)

Next ==
    \/ ClientStep
    \/ DriverStep
    \/ TimerInterrupt \/ KeyboardInterrupt \/ PortInterrupt \/ InterruptPrint
    \/ ByteArrives \/ ThrEmpties

Spec == Init /\ [][Next]_vars

(***************************************************************************)
(* A thread that runs again and again completes the statement it is at:    *)
(* a time slice is longer than a statement.  Interrupts that are pending   *)
(* are delivered when interrupts are on, and the port finishes sending.    *)
(***************************************************************************)
FairSpec ==
    /\ Spec
    /\ \A t \in Threads : SF_vars(current = t /\ DriverStep)
    /\ SF_vars(TimerInterrupt)
    /\ SF_vars(PortInterrupt)
    /\ WF_vars(ThrEmpties)

----------------------------------------------------------------------------
(***************************************************************************)
(* The interrupts enabled in the UART are those the queues call for, after *)
(* every change that a thread or a handler makes to either queue: else     *)
(* input or output stops for good (write_ier, serial_notify).              *)
(***************************************************************************)
IerFresh == ier = IerBits

(***************************************************************************)
(* Bytes leave the input buffer in the order they came in, each one once,  *)
(* whatever interrupts come between the steps of readers (intq.c).         *)
(***************************************************************************)
InputInOrder ==
    /\ \A i \in 1..Count(InputQ) :
          Contents(InputQ)[i] = <<NULL, (next_out + i - 1) % (N + 2)>>
    /\ next_in = (next_out + Count(InputQ)) % (N + 2)

\* The output from the last byte of a thread that was sent, and the places of
\* those of threads in it.
Output == <<last_sent>> \o Contents(TxQ)
OfThreads == {1} \cup {i \in DOMAIN Output : OfThread(Output[i])}

\* b may follow a in the output: the next character of a line, or the first
\* one of a line after the last one of another.
Follows(a, b) == \/ b[1] = a[1] /\ b[2] = a[2] + 1
                 \/ b[2] = 1 /\ (a = IrqByte \/ a[2] = LINE)

(***************************************************************************)
(* The lines that threads print come out of the port whole, in order and   *)
(* with no character lost or doubled, with interrupts on or off: the bytes *)
(* sent and queued follow one another up to what the holder of the console *)
(* has printed (the comment on console_lock, putbuf, serial_putc).         *)
(***************************************************************************)
LinesAreWhole ==
    /\ \A i, j \in OfThreads :
          i < j /\ (\A k \in OfThreads : k <= i \/ j <= k) =>
              Follows(Output[i], Output[j])
    /\ \A t \in Writers :
          at[t] \in {"putbuf", "putc"} /\ printed[t] > 0 =>
              Output[Max(OfThreads)] = <<t, printed[t]>>

(***************************************************************************)
(* A thread that a queue has as its waiter is blocked in wait(), holds the *)
(* lock of the queue, and the condition it waits for is false; a thread    *)
(* blocked in wait() is the waiter: no wakeup is lost, or comes twice.     *)
(***************************************************************************)
WaitersSound ==
    \A t \in Threads :
        /\ \A q \in Queues :
              /\ not_empty[q] = t => Empty(q) /\ at[t] = "getc_up"
              /\ not_full[q] = t => Full(q) /\ at[t] = "putc_up"
        /\ at[t] = "getc_up" =>
              /\ lock_holder[InputQ] = t
              /\ status[t] = "BLOCKED" <=> not_empty[InputQ] = t
        /\ at[t] = "putc_up" =>
              /\ lock_holder[TxQ] = t
              /\ status[t] = "BLOCKED" <=> not_full[TxQ] = t

\* The assertion of wait() holds when a thread reaches it: the queue is
\* still empty, or full (intq.c:84).
WaitAssertion ==
    /\ at[current] = "getc_wait" => Empty(InputQ)
    /\ at[current] = "putc_wait" => Full(TxQ)

\* Neither the bytes, nor who waits, nor the interrupts that are enabled go
\* stale in the steps of readers, writers and handlers.
QueuesSound == IerFresh /\ InputInOrder /\ WaitAssertion

\* A thread in input_getc() returns when there are bytes in the buffer.
ReaderServed ==
    \A t \in Readers :
        at[t] \in {"getc", "getc_wait", "getc_up"} /\ ~Empty(InputQ)
            ~> at[t] = "client"

\* A thread that has the console gets all of its line into txq, sleeping
\* while that is full, and releases the console.  (Threads that print all
\* the time may keep one that has been woken from acquiring it.)
WriterServed ==
    \A t \in Writers :
        lock_holder[Console] = t ~> lock_holder[Console] # t
=============================================================================

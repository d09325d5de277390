---------------------------- MODULE SerialProofs ----------------------------
(***************************************************************************)
(* Proofs about the interrupt queues (devices/intq.c) of the console, for  *)
(* any number of threads that read and print, any INTQ_BUFSIZE, and any    *)
(* interleaving with the keyboard, the port, the timer and handlers that   *)
(* print.                                                                  *)
(*                                                                         *)
(* wait() asserts that there is one waiter, and signal() wakes the one it  *)
(* finds: what makes that enough is the lock of the queue, which a thread  *)
(* takes before it waits and keeps while it sleeps.  The invariant follows *)
(* the lock (QueuesLocked: one thread at a time is past its semaphore, and *)
(* is the holder when it waits) down to the scheduler, because a waiter    *)
(* must be woken by signal() only: a thread that sleeps for a lock sleeps  *)
(* in lock_acquire() (SleepersKnown), one that runs or is ready does not   *)
(* sleep (ReadyKnown), and the idle thread takes no part (IdleLoops).      *)
(*                                                                         *)
(* The order of the input bytes (InOrder) needs no lock: a handler puts    *)
(* bytes where there is room, and a reader takes them out, each with the   *)
(* interrupts off.  The assertion of wait() needs more (CallInv): between  *)
(* the test of the queue and wait() the interrupts are off and the thread  *)
(* does not sleep for the queue's lock: who holds that would be another    *)
(* reader, or a second thread with console_lock.                           *)
(*                                                                         *)
(* The lines of the output (LineInv) rest on the same facts: the holder of *)
(* console_lock is in putbuf(), or in serial_putc() under it, and the last *)
(* byte of a thread, sent or in txq, is the one the holder printed last,   *)
(* or the end of a line (LineEnds).  Sending bytes and queueing one, by    *)
(* polling or not, keep the bytes of threads a chain (ChainTake,           *)
(* ChainPut), whatever bytes of handlers are between them.                 *)
(***************************************************************************)
EXTENDS Serial, TLAPS, FiniteSetTheorems, SequenceTheorems, WellFoundedInduction

\* The loop of idle().
Idling == {"idle_block", "idle_sti", "idle_hlt"}

\* The statements that threads get to.
Statements == {"client", "acquire", "hold", "release"} \cup Idling \cup DriverLabels

\* The types of the variables.
SerialTypes ==
    /\ current \in Threads /\ idle_thread = Idle /\ destruction_req = <<>>
    /\ status \in [Threads -> Statuses] /\ ready_list \in Seq(Threads)
    /\ sema_value \in [SemaIds -> Nat] /\ sema_waiters \in [SemaIds -> Seq(Threads)]
    /\ at \in [Threads -> Statements] /\ obj \in [Threads -> Locks \cup {NULL}]
    /\ lock_holder \in [Locks -> Threads \cup {NULL}]
    /\ head \in [Queues -> 0..(N - 1)] /\ tail \in [Queues -> 0..(N - 1)]
    /\ not_full \in [Queues -> Threads \cup {NULL}]
    /\ not_empty \in [Queues -> Threads \cup {NULL}]

\* A list has each thread once.
Single(list) == \A i, j \in 1..Len(list) : list[i] = list[j] => i = j

\* One thread runs, and those in the run queue are ready.
ReadyKnown ==
    /\ \A t \in Threads : status[t] = "RUNNING" <=> t = current
    /\ Single(ready_list)
    /\ \A t \in Threads : InList(t, ready_list) => status[t] = "READY"

\* The waiters of a semaphore are blocked, in the lock_acquire() of its lock.
SleepersKnown ==
    \A s \in SemaIds :
       /\ Single(sema_waiters[s])
       /\ \A t \in Threads : InList(t, sema_waiters[s]) =>
             status[t] = "BLOCKED" /\ at[t] = "acquire" /\ obj[t] = s

\* The idle thread does nothing else.
IdleLoops == \A t \in Threads : at[t] \in Idling <=> t = Idle

\* t has downed the semaphore of q's lock, and not yet upped it.
Has(t, q) ==
    \/ at[t] \in {"hold", "release"} /\ obj[t] = q
    \/ at[t] \in {"getc_wait", "getc_up"} /\ q = InputQ
    \/ at[t] \in {"putc_wait", "putc_up"} /\ q = TxQ

\* One thread at a time waits for a queue, or is about to.
QueuesLocked ==
    /\ \A q \in Queues :
          /\ sema_value[q] \in {0, 1}
          /\ \A t \in Threads : Has(t, q) => sema_value[q] = 0
          /\ \A t, u \in Threads : Has(t, q) /\ Has(u, q) => t = u
    /\ \A t \in Threads :
          /\ at[t] \in {"getc_wait", "getc_up"} => lock_holder[InputQ] = t
          /\ at[t] \in {"putc_wait", "putc_up"} => lock_holder[TxQ] = t

\* Who waits for a queue: readers for bytes, writers for room.
WaitersKnown ==
    /\ not_empty[TxQ] = NULL /\ not_full[InputQ] = NULL
    /\ WaitersSound

\* The inductive invariant.
SerialInv ==
    /\ SerialTypes /\ ReadyKnown /\ SleepersKnown
    /\ IdleLoops /\ QueuesLocked /\ WaitersKnown

----------------------------------------------------------------------------
(* Facts about the constants, and about lists.                             *)

\* The locks are three, and not threads.
LEMMA Names ==
    /\ InputQ # TxQ /\ Console \notin Queues /\ Queues \subseteq Locks /\ Console \in Locks
    /\ Locks \subseteq SemaIds /\ Locks \cap Threads = {} /\ NULL \notin Locks
    /\ Idle \in Threads /\ Main \in Threads /\ Idle # Main /\ NULL \notin Threads
<1>1. ASSUME NEW a, NEW b PROVE Cardinality({a, b}) # 3
  <2>1. Cardinality({a}) = 1 /\ IsFiniteSet({a})
    BY FS_Singleton
  <2>2. Cardinality({a} \cup {b}) \in {1, 2}
    BY <2>1, FS_AddElement
  <2>3. {a, b} = {a} \cup {b}
    OBVIOUS
  <2> QED BY <2>2, <2>3
<1>2. InputQ # TxQ /\ InputQ # Console /\ TxQ # Console
  <2>1. InputQ = TxQ => Locks = {TxQ, Console}
    BY SerialAssumption
  <2>2. InputQ = Console => Locks = {TxQ, Console}
    BY SerialAssumption
  <2>3. TxQ = Console => Locks = {InputQ, Console}
    BY SerialAssumption
  <2> QED BY <1>1, <2>1, <2>2, <2>3, SerialAssumption
<1> QED BY <1>2, SerialAssumption, SynchAssumption, SchedAssumption DEF Queues, SemaIds, Objects

\* list_push_back() of an element that is not in the list.
LEMMA SingleAppend ==
    ASSUME NEW S, NEW list \in Seq(S), NEW x \in S, Single(list), ~InList(x, list)
    PROVE  /\ Single(Append(list, x))
           /\ \A y : InList(y, Append(list, x)) <=> InList(y, list) \/ y = x
<1> DEFINE new == Append(list, x)
<1>1. /\ Len(list) \in Nat /\ Len(new) = Len(list) + 1 /\ new[Len(list) + 1] = x
      /\ \A i \in 1..Len(list) : new[i] = list[i]
  OBVIOUS
<1> HIDE DEF new
<1>2. Single(new)
  BY <1>1 DEF InList, Single
<1>3. \A i \in 1..Len(new) : i \in 1..Len(list) \/ i = Len(list) + 1
  BY <1>1
<1>4. Len(list) + 1 \in 1..Len(new) /\ \A i \in 1..Len(list) : i \in 1..Len(new)
  BY <1>1
<1>5. \A y : InList(y, new) <=> InList(y, list) \/ y = x
  BY <1>1, <1>3, <1>4 DEF InList
<1> QED BY <1>2, <1>5 DEF new

\* list_pop_front() leaves a list without the element it removes.
LEMMA SingleTail ==
    ASSUME NEW S, NEW list \in Seq(S), list # <<>>, Single(list)
    PROVE  /\ Head(list) \in S /\ InList(Head(list), list)
           /\ Tail(list) \in Seq(S) /\ Single(Tail(list)) /\ ~InList(Head(list), Tail(list))
           /\ \A y : InList(y, Tail(list)) => InList(y, list)
<1>1. /\ Len(list) \in Nat \ {0} /\ Len(Tail(list)) = Len(list) - 1 /\ Head(list) = list[1]
      /\ \A i \in 1..Len(Tail(list)) : Tail(list)[i] = list[i + 1] /\ i + 1 \in 1..Len(list)
      /\ Head(list) \in S /\ Tail(list) \in Seq(S)
  OBVIOUS
<1>2. 1 \in 1..Len(list)
  BY <1>1
<1>3. Single(Tail(list))
  BY <1>1 DEF Single
<1>4. ASSUME NEW i \in 1..Len(Tail(list)), Tail(list)[i] = Head(list) PROVE FALSE
  <2>1. i + 1 = 1
    BY <1>1, <1>2, <1>4 DEF Single
  <2> QED BY <2>1
<1>5. \A y : InList(y, Tail(list)) => InList(y, list)
  BY <1>1 DEF InList
<1> QED BY <1>1, <1>2, <1>3, <1>4, <1>5 DEF InList

----------------------------------------------------------------------------
(* The scheduler.                                                          *)

\* The threads that a step of the scheduler leaves blocked.
StayBlocked(T) == \A t \in Threads : t \in T /\ t # Idle =>
                     (status'[t] = "BLOCKED" <=> status[t] = "BLOCKED")

\* What a step of the scheduler keeps.
SchedKept ==
    /\ current' \in Threads /\ idle_thread' = Idle /\ destruction_req' = <<>>
    /\ status' \in [Threads -> Statuses] /\ ready_list' \in Seq(Threads)
    /\ ReadyKnown'

\* schedule()
LEMMA Scheduled ==
    ASSUME NEW st \in [Threads -> Statuses], NEW rl \in Seq(Threads), Schedule(st, rl, <<>>),
           idle_thread = Idle, current \in Threads, st[current] # "DYING", Single(rl),
           \A t \in Threads : InList(t, rl) => st[t] = "READY",
           \A t \in Threads : st[t] # "RUNNING"
    PROVE  /\ SchedKept
           /\ \A t \in Threads : t # Idle => (status'[t] = "BLOCKED" <=> st[t] = "BLOCKED")
<1> DEFINE next == NextThreadToRun(rl)
           rest == IF rl = <<>> THEN rl ELSE Tail(rl)
<1>1. \A y : InList(y, rest) => InList(y, rl)
  BY SingleTail
<1>2. next \in Threads /\ rest \in Seq(Threads) /\ Single(rest) /\ ~InList(next, rest)
  <2>1. CASE rl = <<>>
    BY <2>1, Names DEF NextThreadToRun, Single, InList
  <2>2. CASE rl # <<>>
    BY <2>2, SingleTail DEF NextThreadToRun
  <2> QED BY <2>1, <2>2
<1>3. /\ status' = [st EXCEPT ![next] = "RUNNING"] /\ ready_list' = rest /\ current' = next
      /\ idle_thread' = Idle /\ destruction_req' = <<>>
  BY DEF Schedule
<1>4. next = Idle \/ InList(next, rl)
  <2>1. CASE rl = <<>>
    BY <2>1 DEF NextThreadToRun
  <2>2. CASE rl # <<>>
    BY <2>2, SingleTail DEF NextThreadToRun
  <2> QED BY <2>1, <2>2
<1> HIDE DEF next, rest
<1>5. status' \in [Threads -> Statuses]
  BY <1>2, <1>3 DEF Statuses
<1>6. \A t \in Threads : status'[t] = IF t = next THEN "RUNNING" ELSE st[t]
  BY <1>3
<1>7. ReadyKnown'
  BY <1>1, <1>2, <1>3, <1>6 DEF ReadyKnown
<1> QED BY <1>2, <1>3, <1>4, <1>5, <1>6, <1>7 DEF SchedKept

\* thread_block()
LEMMA Blocks ==
    ASSUME SerialTypes, ReadyKnown, Block
    PROVE  /\ SchedKept /\ StayBlocked(Threads \ {current})
           /\ current # Idle => status'[current] = "BLOCKED"
<1> DEFINE st == [status EXCEPT ![current] = "BLOCKED"]
<1>1. /\ st \in [Threads -> Statuses] /\ st[current] = "BLOCKED"
      /\ \A t \in Threads : t # current => st[t] = status[t]
      /\ Schedule(st, ready_list, <<>>) /\ ready_list \in Seq(Threads)
      /\ current \in Threads /\ idle_thread = Idle
  BY DEF SerialTypes, Statuses, Block
<1> HIDE DEF st
<1>2. ~InList(current, ready_list)
  BY <1>1 DEF ReadyKnown
<1> QED BY <1>1, <1>2, Scheduled DEF ReadyKnown, StayBlocked

\* thread_yield()
LEMMA Yields ==
    ASSUME SerialTypes, ReadyKnown, Yield
    PROVE  SchedKept /\ StayBlocked(Threads)
<1> DEFINE st == [t \in Threads |->
                 CASE t = current                -> "READY"
                   [] InList(t, destruction_req) -> "FREE"
                   [] OTHER                      -> status[t]]
           rl == IF current = idle_thread THEN ready_list ELSE Append(ready_list, current)
<1>0. current \in Threads /\ ready_list \in Seq(Threads) /\ \A t \in Threads : ~InList(t, destruction_req)
  BY DEF SerialTypes, InList
<1>1. /\ st \in [Threads -> Statuses] /\ st[current] = "READY"
      /\ \A t \in Threads : t # current => st[t] = status[t]
  BY <1>0 DEF SerialTypes, Statuses
<1>2. ~InList(current, ready_list)
  BY <1>0 DEF ReadyKnown
<1>3. rl \in Seq(Threads) /\ Single(rl) /\ \A t \in Threads : InList(t, rl) => InList(t, ready_list) \/ t = current
  BY <1>0, <1>2, SingleAppend DEF ReadyKnown
<1>4. Schedule(st, rl, <<>>)
  BY DEF Yield, DoSchedule
<1> HIDE DEF st, rl
<1>5. /\ \A t \in Threads : InList(t, rl) => st[t] = "READY"
      /\ \A t \in Threads : st[t] # "RUNNING"
  BY <1>1, <1>3 DEF ReadyKnown
<1>6. idle_thread = Idle
  BY DEF SerialTypes
<1>7. SchedKept /\ \A t \in Threads : t # Idle => (status'[t] = "BLOCKED" <=> st[t] = "BLOCKED")
  BY <1>0, <1>1, <1>3, <1>4, <1>5, <1>6, Scheduled
<1> QED BY <1>0, <1>1, <1>7 DEF StayBlocked, ReadyKnown

\* thread_unblock() of a thread that is blocked.
LEMMA Unblocks ==
    ASSUME SerialTypes, ReadyKnown, NEW w \in Threads, status[w] = "BLOCKED", Unblock(w),
           UNCHANGED <<current, idle_thread, destruction_req>>
    PROVE  SchedKept /\ StayBlocked(Threads \ {w}) /\ status'[w] = "READY"
<1>1. ~InList(w, ready_list) /\ ready_list \in Seq(Threads) /\ w # current
  BY DEF ReadyKnown, SerialTypes
<1>2. /\ ready_list' \in Seq(Threads) /\ Single(ready_list')
      /\ \A t : InList(t, ready_list') <=> InList(t, ready_list) \/ t = w
  BY <1>1, SingleAppend DEF Unblock, ReadyKnown
<1>3. status' \in [Threads -> Statuses] /\ \A t \in Threads : status'[t] = IF t = w THEN "READY" ELSE status[t]
  BY DEF Unblock, SerialTypes, Statuses
<1> QED BY <1>1, <1>2, <1>3 DEF SchedKept, ReadyKnown, StayBlocked, SerialTypes

----------------------------------------------------------------------------
(* The queues.                                                             *)

\* The positions of a queue.
LEMMA Positions ==
    /\ \A p, n \in Nat : Advance(p, n) \in 0..(N - 1)
    /\ \A p \in 0..(N - 1) : Advance(p, 0) = p
<1>1. N \in Nat /\ N > 0
  BY SerialAssumption
<1>2. \A p \in Nat : p % N \in 0..(N - 1)
  BY <1>1
<1>3. \A p \in 0..(N - 1) : p % N = p
  BY <1>1
<1> QED BY <1>1, <1>2, <1>3 DEF Advance

\* Two lists with nothing in common make one.
LEMMA SingleConcat ==
    ASSUME NEW S, NEW a \in Seq(S), NEW b \in Seq(S), Single(a), Single(b),
           \A y \in S : ~(InList(y, a) /\ InList(y, b))
    PROVE  /\ a \o b \in Seq(S) /\ Single(a \o b)
           /\ \A y : InList(y, a \o b) <=> InList(y, a) \/ InList(y, b)
<1> DEFINE c == a \o b
<1>1. /\ c \in Seq(S) /\ Len(a) \in Nat /\ Len(b) \in Nat /\ Len(c) = Len(a) + Len(b)
      /\ \A i \in 1..Len(a) : c[i] = a[i] /\ a[i] \in S
      /\ \A i \in 1..Len(b) : c[Len(a) + i] = b[i]
  OBVIOUS
<1> HIDE DEF c
<1>2. \A i \in 1..Len(c) : i \in 1..Len(a) \/ i - Len(a) \in 1..Len(b)
  BY <1>1
<1>3. /\ \A i \in 1..Len(a) : i \in 1..Len(c)
      /\ \A i \in 1..Len(b) : Len(a) + i \in 1..Len(c)
      /\ \A i \in 1..Len(c) : i - Len(a) \in 1..Len(b) => c[i] = b[i - Len(a)]
  <2>1. ASSUME NEW i \in 1..Len(c), i - Len(a) \in 1..Len(b) PROVE c[i] = b[i - Len(a)]
    <3>1. Len(a) + (i - Len(a)) = i
      BY <1>1
    <3> QED BY <1>1, <2>1, <3>1
  <2>2. /\ \A i \in 1..Len(a) : i \in 1..Len(c)
        /\ \A i \in 1..Len(b) : Len(a) + i \in 1..Len(c)
    BY <1>1
  <2> QED BY <2>1, <2>2
<1>4. \A y : InList(y, c) <=> InList(y, a) \/ InList(y, b)
  BY <1>1, <1>2, <1>3 DEF InList
<1>5. Single(c)
  <2> SUFFICES ASSUME NEW i \in 1..Len(c), NEW j \in 1..Len(c), c[i] = c[j] PROVE i = j
    BY DEF Single
  <2>1. CASE i \in 1..Len(a) /\ j \in 1..Len(a)
    BY <1>1, <2>1 DEF Single
  <2>2. CASE i - Len(a) \in 1..Len(b) /\ j - Len(a) \in 1..Len(b)
    <3>1. i - Len(a) = j - Len(a)
      BY <1>3, <2>2 DEF Single
    <3> QED BY <1>1, <3>1
  <2>3. ASSUME NEW k \in 1..Len(a), NEW l \in 1..Len(c), l - Len(a) \in 1..Len(b), c[k] = c[l] PROVE FALSE
    BY <1>1, <1>3, <2>3 DEF InList
  <2> QED BY <1>2, <2>1, <2>2, <2>3
<1> QED BY <1>1, <1>4, <1>5 DEF c

\* What a transfer finds: room for what goes in, bytes for what goes out.
Fits(in, out) ==
    /\ out[InputQ] > 0 => ~Empty(InputQ)
    /\ in[TxQ] # <<>> /\ out[TxQ] = 0 => ~Full(TxQ)

\* The threads that signal() wakes.
LEMMA WokenAre ==
    ASSUME SerialInv, NEW in, NEW out
    PROVE  /\ Woken(in, out) \in Seq(Threads) /\ Single(Woken(in, out))
           /\ \A t \in Threads : InList(t, Woken(in, out)) <=>
                 \/ in[InputQ] # <<>> /\ not_empty[InputQ] = t
                 \/ out[TxQ] > 0 /\ not_full[TxQ] = t
<1> DEFINE a == IF in[InputQ] # <<>> /\ not_empty[InputQ] # NULL THEN <<not_empty[InputQ]>> ELSE <<>>
           b == IF out[TxQ] > 0 /\ not_full[TxQ] # NULL THEN <<not_full[TxQ]>> ELSE <<>>
<1>1. /\ not_empty[InputQ] \in Threads \cup {NULL} /\ not_full[TxQ] \in Threads \cup {NULL}
      /\ not_empty[TxQ] = NULL /\ not_full[InputQ] = NULL
  BY DEF SerialInv, SerialTypes, WaitersKnown, Queues
<1>2. \A t \in Threads : ~(not_empty[InputQ] = t /\ not_full[TxQ] = t)
  BY Names DEF SerialInv, WaitersKnown, WaitersSound, Queues
<1>3. /\ a \in Seq(Threads) /\ b \in Seq(Threads) /\ Single(a) /\ Single(b)
      /\ \A t \in Threads : InList(t, a) <=> in[InputQ] # <<>> /\ not_empty[InputQ] = t
      /\ \A t \in Threads : InList(t, b) <=> out[TxQ] > 0 /\ not_full[TxQ] = t
  <2>1. \A t \in Threads : /\ <<t>> \in Seq(Threads) /\ Single(<<t>>)
                           /\ \A u : InList(u, <<t>>) <=> u = t
    BY DEF Single, InList
  <2>2. <<>> \in Seq(Threads) /\ Single(<<>>) /\ \A u : ~InList(u, <<>>)
    BY DEF Single, InList
  <2>3. NULL \notin Threads
    BY Names
  <2> QED BY <1>1, <2>1, <2>2, <2>3
<1>4. Woken(in, out) = a \o <<>> \o b \o <<>>
  BY <1>1 DEF Woken
<1> HIDE DEF a, b
<1>5. Woken(in, out) = a \o b
  BY <1>3, <1>4
<1> QED BY <1>2, <1>3, <1>5, SingleConcat

\* intq_getc(), intq_putc() and signal(), and what they leave of the
\* scheduler's and the waiters' state.
LEMMA Signals ==
    ASSUME SerialInv, NEW in, NEW out, Transfer(in, out), Signal(in, out), Fits(in, out),
           \A q \in Queues : Len(in[q]) \in Nat /\ (Len(in[q]) = 0 <=> in[q] = <<>>) /\ out[q] \in Nat
    PROVE  /\ SchedKept
           /\ \A t \in Threads : at[t] \notin {"getc_up", "putc_up"} => status'[t] = status[t]
           /\ head' \in [Queues -> 0..(N - 1)] /\ tail' \in [Queues -> 0..(N - 1)]
           /\ not_empty' \in [Queues -> Threads \cup {NULL}] /\ not_full' \in [Queues -> Threads \cup {NULL}]
           /\ not_empty'[TxQ] = NULL /\ not_full'[InputQ] = NULL
           /\ \A t \in Threads :
                 /\ not_empty'[InputQ] = t => not_empty[InputQ] = t /\ Empty(InputQ)' /\ status'[t] = "BLOCKED"
                 /\ not_full'[TxQ] = t => not_full[TxQ] = t /\ Full(TxQ)' /\ status'[t] = "BLOCKED"
                 /\ at[t] = "getc_up" /\ status'[t] = "BLOCKED" => not_empty'[InputQ] = t
                 /\ at[t] = "putc_up" /\ status'[t] = "BLOCKED" => not_full'[TxQ] = t
<1> DEFINE w == Woken(in, out)
<1>0. /\ InputQ \in Queues /\ TxQ \in Queues /\ SerialTypes /\ ReadyKnown /\ WaitersKnown /\ InputQ # TxQ
  BY Names DEF SerialInv, Queues
<1>1. /\ w \in Seq(Threads) /\ Single(w)
      /\ \A t \in Threads : InList(t, w) <=>
                 \/ in[InputQ] # <<>> /\ not_empty[InputQ] = t
                 \/ out[TxQ] > 0 /\ not_full[TxQ] = t
  BY WokenAre
<1>2. \A t \in Threads : InList(t, w) => status[t] = "BLOCKED" /\ at[t] \in {"getc_up", "putc_up"}
  BY <1>0, <1>1 DEF WaitersKnown, WaitersSound
<1>3. /\ status' = [t \in Threads |-> IF InList(t, w) THEN "READY" ELSE status[t]]
      /\ ready_list' = ready_list \o w
      /\ UNCHANGED <<current, idle_thread, destruction_req>>
  BY DEF Signal
<1> HIDE DEF w
<1>4. /\ ready_list' \in Seq(Threads) /\ Single(ready_list')
      /\ \A y : InList(y, ready_list') <=> InList(y, ready_list) \/ InList(y, w)
  <2>1. \A t \in Threads : ~(InList(t, ready_list) /\ InList(t, w))
    BY <1>0, <1>2 DEF ReadyKnown
  <2> QED BY <1>0, <1>1, <1>3, <2>1, SingleConcat DEF ReadyKnown, SerialTypes
<1>5. SchedKept
  <2>1. status' \in [Threads -> Statuses]
    BY <1>0, <1>3 DEF SerialTypes, Statuses
  <2>2. ReadyKnown'
    BY <1>0, <1>2, <1>3, <1>4 DEF ReadyKnown, SerialTypes
  <2> QED BY <1>0, <1>3, <1>4, <2>1, <2>2 DEF SchedKept, SerialTypes
<1>6. \A t \in Threads : at[t] \notin {"getc_up", "putc_up"} => status'[t] = status[t]
  BY <1>2, <1>3
<1>7. /\ head' \in [Queues -> 0..(N - 1)] /\ tail' \in [Queues -> 0..(N - 1)]
      /\ \A q \in Queues : /\ in[q] = <<>> => head'[q] = head[q]
                           /\ out[q] = 0 => tail'[q] = tail[q]
  <2>1. \A q \in Queues : head[q] \in 0..(N - 1) /\ tail[q] \in 0..(N - 1) /\ head[q] \in Nat /\ tail[q] \in Nat
    BY <1>0 DEF SerialTypes
  <2> QED BY <2>1, Positions DEF Transfer
<1>8. /\ not_empty' = [q \in Queues |-> IF in[q] # <<>> THEN NULL ELSE not_empty[q]]
      /\ not_full' = [q \in Queues |-> IF out[q] > 0 THEN NULL ELSE not_full[q]]
  BY DEF Signal
<1>9. /\ not_empty' \in [Queues -> Threads \cup {NULL}] /\ not_full' \in [Queues -> Threads \cup {NULL}]
      /\ not_empty'[TxQ] = NULL /\ not_full'[InputQ] = NULL
  BY <1>0, <1>8 DEF SerialTypes, WaitersKnown
<1>10. ASSUME NEW t \in Threads, not_empty'[InputQ] = t
       PROVE  not_empty[InputQ] = t /\ Empty(InputQ)' /\ status'[t] = "BLOCKED"
  <2>1. in[InputQ] = <<>> /\ not_empty[InputQ] = t
    BY <1>0, <1>8, <1>10, Names
  <2>2. Empty(InputQ) /\ at[t] = "getc_up" /\ status[t] = "BLOCKED" /\ not_full[TxQ] # t
    BY <1>0, <2>1 DEF WaitersKnown, WaitersSound
  <2>3. out[InputQ] = 0
    BY <1>0, <2>2 DEF Fits
  <2> QED BY <1>0, <1>1, <1>3, <1>7, <2>1, <2>2, <2>3 DEF Empty
<1>11. ASSUME NEW t \in Threads, not_full'[TxQ] = t
       PROVE  not_full[TxQ] = t /\ Full(TxQ)' /\ status'[t] = "BLOCKED"
  <2>1. out[TxQ] = 0 /\ not_full[TxQ] = t
    BY <1>0, <1>8, <1>11, Names
  <2>2. Full(TxQ) /\ at[t] = "putc_up" /\ status[t] = "BLOCKED" /\ not_empty[InputQ] # t
    BY <1>0, <2>1 DEF WaitersKnown, WaitersSound
  <2>3. in[TxQ] = <<>>
    BY <1>0, <2>1, <2>2 DEF Fits
  <2> QED BY <1>0, <1>1, <1>3, <1>7, <2>1, <2>2, <2>3 DEF Full
<1>12. ASSUME NEW t \in Threads, status'[t] = "BLOCKED"
       PROVE  /\ at[t] = "getc_up" => not_empty'[InputQ] = t
              /\ at[t] = "putc_up" => not_full'[TxQ] = t
  <2>1. ~InList(t, w) /\ status[t] = "BLOCKED"
    BY <1>3, <1>12
  <2>2. /\ at[t] = "getc_up" => not_empty[InputQ] = t
        /\ at[t] = "putc_up" => not_full[TxQ] = t
    BY <1>0, <2>1 DEF WaitersKnown, WaitersSound
  <2> QED BY <1>0, <1>1, <1>8, <2>1, <2>2
<1> QED BY <1>5, <1>6, <1>7, <1>9, <1>10, <1>11, <1>12

----------------------------------------------------------------------------
(* Steps that change neither the queues nor who waits for them.            *)

\* t is neither in wait() nor has it the lock of a queue.
Plain(t) ==
    /\ at[t] \notin {"getc_wait", "getc_up", "putc_wait", "putc_up"}
    /\ at[t] \in {"hold", "release"} => obj[t] \notin Queues

\* The current thread may go from one such statement to another.
PlainStep ==
    \A t \in Threads :
       \/ at'[t] = at[t] /\ obj'[t] = obj[t]
       \/ /\ t = current /\ Plain(t) /\ Plain(t)' /\ (at'[t] \in Idling <=> at[t] \in Idling)

\* The types of what threads are at.
PlaceTypes == at' \in [Threads -> Statements] /\ obj' \in [Threads -> Locks \cup {NULL}]

\* No thread that sleeps for a lock wakes up.
SleepersStay ==
    \A t \in Threads : at[t] = "acquire" /\ status[t] = "BLOCKED" => status'[t] = "BLOCKED"

\* The threads that sleep for a lock stay where they are when only the
\* current thread moves.
LEMMA SleepersKept ==
    ASSUME SerialInv, SleepersStay, PlainStep \/ \A t \in Threads : t # current => at'[t] = at[t] /\ obj'[t] = obj[t],
           sema_waiters' = sema_waiters
    PROVE  SleepersKnown'
<1>1. ASSUME NEW t \in Threads, status[t] = "BLOCKED" PROVE at'[t] = at[t] /\ obj'[t] = obj[t]
  BY <1>1 DEF SerialInv, ReadyKnown, PlainStep
<1> QED BY <1>1 DEF SerialInv, SleepersKnown, SleepersStay

\* Plain steps change nothing of who has the lock of a queue.
LEMMA LocksKept ==
    ASSUME SerialInv, PlainStep, \A q \in Queues : sema_value'[q] = sema_value[q] /\ lock_holder'[q] = lock_holder[q]
    PROVE  IdleLoops' /\ QueuesLocked'
<1>1. \A t \in Threads : \A q \in Queues : Has(t, q)' <=> Has(t, q)
  BY DEF PlainStep, Plain, Has
<1>2. /\ \A t \in Threads : at'[t] \in {"getc_wait", "getc_up"} => at'[t] = at[t]
      /\ \A t \in Threads : at'[t] \in {"putc_wait", "putc_up"} => at'[t] = at[t]
  BY DEF PlainStep, Plain
<1>3. IdleLoops'
  BY DEF PlainStep, SerialInv, IdleLoops
<1>4. InputQ \in Queues /\ TxQ \in Queues
  BY DEF Queues
<1>5. QueuesLocked'
  BY <1>1, <1>2, <1>4 DEF SerialInv, QueuesLocked
<1> QED BY <1>3, <1>5

\* Plain steps change nothing of who waits for a queue.
LEMMA WaitersKept ==
    ASSUME SerialInv, PlainStep, UNCHANGED <<head, tail, not_empty, not_full>>,
           \A q \in Queues : lock_holder'[q] = lock_holder[q],
           \A t \in Threads : at[t] \in {"getc_up", "putc_up"} => (status'[t] = "BLOCKED" <=> status[t] = "BLOCKED")
    PROVE  WaitersKnown'
<1>1. \A t \in Threads : /\ at'[t] \in {"getc_up", "putc_up"} <=> at[t] \in {"getc_up", "putc_up"}
                         /\ at[t] \in {"getc_up", "putc_up"} => at'[t] = at[t]
  BY DEF PlainStep, Plain
<1>2. InputQ \in Queues /\ TxQ \in Queues
  BY DEF Queues
<1>3. \A q \in Queues : (Empty(q)' <=> Empty(q)) /\ (Full(q)' <=> Full(q))
  BY DEF Empty, Full
<1> QED BY <1>1, <1>2, <1>3 DEF SerialInv, WaitersKnown, WaitersSound

\* Plain steps keep the invariant.
LEMMA PlainKeeps ==
    ASSUME SerialInv, PlainStep, PlaceTypes, SchedKept, SleepersStay,
           UNCHANGED <<sema_waiters, head, tail, not_empty, not_full>>,
           sema_value' \in [SemaIds -> Nat], lock_holder' \in [Locks -> Threads \cup {NULL}],
           \A q \in Queues : sema_value'[q] = sema_value[q] /\ lock_holder'[q] = lock_holder[q],
           \A t \in Threads : at[t] \in {"getc_up", "putc_up"} => (status'[t] = "BLOCKED" <=> status[t] = "BLOCKED")
    PROVE  SerialInv'
<1>1. SerialTypes'
  BY DEF SerialInv, SerialTypes, SchedKept, PlaceTypes
<1> QED BY <1>1, SleepersKept, LocksKept, WaitersKept DEF SerialInv, SchedKept

\* The scheduler's part of a step that it does not see.
LEMMA QuietSched ==
    ASSUME SerialInv, UNCHANGED schedVars
    PROVE  SchedKept /\ SleepersStay /\ \A t \in Threads : status'[t] = status[t]
  BY DEF SerialInv, SerialTypes, SchedKept, SleepersStay, ReadyKnown, schedVars

USE DEF Goto, synchVars, semaVars, queueVars, portVars, historyVars, noTransfer, frameVars, serialVars, Statements, Idling, DriverLabels

\* The steps of the current thread that the scheduler does not see.
LEMMA ThreadSteps ==
    ASSUME SerialInv, \/ StartGetc \/ StartPutbuf \/ Putchar \/ EndPutbuf
                      \/ WaitForLock(InputQ, "getc", ~Empty(InputQ)) \/ WaitForLock(TxQ, "putc", ~Full(TxQ))
                      \/ (IntrDisable \/ IntrEnable \/ IdleHlt) /\ UNCHANGED serialVars
    PROVE  SerialInv'
<1>1. UNCHANGED <<schedVars, sema_value, sema_waiters, head, tail, not_empty, not_full>>
  BY
     DEF StartGetc, StartPutbuf, IntrDisable, IntrEnable, Putchar, EndPutbuf, IdleHlt,
         WaitForLock, ClearHolder
<1>2. PlaceTypes
  <2>1. UNCHANGED <<at, obj>> \/ \E label \in Statements, o \in Locks \cup {NULL} : Goto(label, o)
    BY Names
       DEF StartGetc, StartPutbuf, IntrDisable, IntrEnable, Putchar, EndPutbuf, IdleHlt,
           WaitForLock, Enter, Queues
  <2>2. at \in [Threads -> Statements] /\ obj \in [Threads -> Locks \cup {NULL}]
    BY DEF SerialInv, SerialTypes
  <2> QED BY <2>1, <2>2 DEF PlaceTypes
<1>3. PlainStep
  <2>1. at \in [Threads -> Statements] /\ obj \in [Threads -> Locks \cup {NULL}] /\ NULL \notin Queues /\ Console \notin Queues
    BY Names DEF SerialInv, SerialTypes, Queues
  <2>2. CASE StartGetc \/ StartPutbuf
    BY <2>1, <2>2 DEF StartGetc, StartPutbuf, Enter, AtClient, PlainStep, Plain
  <2>3. CASE Putchar \/ EndPutbuf
    BY <2>1, <2>3 DEF Putchar, EndPutbuf, Enter, PlainStep, Plain
  <2>4. CASE WaitForLock(InputQ, "getc", ~Empty(InputQ)) \/ WaitForLock(TxQ, "putc", ~Full(TxQ))
    BY <2>1, <2>4 DEF WaitForLock, PlainStep, Plain
  <2>5. CASE IntrDisable \/ IntrEnable \/ IdleHlt
    BY <2>1, <2>5 DEF IntrDisable, IntrEnable, IdleHlt, PlainStep, Plain
  <2> QED BY <2>2, <2>3, <2>4, <2>5
<1>4. /\ lock_holder' \in [Locks -> Threads \cup {NULL}]
      /\ \A q \in Queues : lock_holder'[q] = lock_holder[q]
  BY Names
     DEF StartGetc, StartPutbuf, IntrDisable, IntrEnable, Putchar, EndPutbuf, IdleHlt,
         WaitForLock, ClearHolder,
               SerialInv, SerialTypes
<1>5. sema_value \in [SemaIds -> Nat]
  BY DEF SerialInv, SerialTypes
<1> QED BY <1>1, <1>2, <1>3, <1>4, <1>5, QuietSched, PlainKeeps

\* The idle thread blocks.
LEMMA Idles ==
    ASSUME SerialInv, IdleBlock, UNCHANGED serialVars
    PROVE  SerialInv'
<1>1. current = Idle /\ current \in Threads /\ SerialTypes /\ ReadyKnown
  BY DEF IdleBlock, SerialInv, IdleLoops, SerialTypes
<1>2. SchedKept /\ StayBlocked(Threads \ {current})
  BY <1>1, Blocks DEF IdleBlock
<1>3. PlaceTypes /\ PlainStep
  BY <1>1, Names DEF IdleBlock, PlaceTypes, PlainStep, Plain, SerialTypes
<1>4. at[Idle] = "idle_block" /\ \A t \in Threads : t # Idle => (status'[t] = "BLOCKED" <=> status[t] = "BLOCKED")
  BY <1>1, <1>2 DEF IdleBlock, StayBlocked
<1>5. SleepersStay /\ \A t \in Threads : at[t] \in {"getc_up", "putc_up"} => (status'[t] = "BLOCKED" <=> status[t] = "BLOCKED")
  BY <1>4 DEF SleepersStay
<1> QED BY <1>1, <1>2, <1>3, <1>5, PlainKeeps DEF IdleBlock, SerialTypes

\* The timer, the port, and the steps that change nothing.
LEMMA Ticks ==
    ASSUME SerialInv, TimerInterrupt \/ ByteArrives \/ ThrEmpties \/ UNCHANGED vars
    PROVE  SerialInv'
<1>1. SerialTypes /\ ReadyKnown /\ \A t \in Threads : at[t] \in Idling <=> t = Idle
  BY DEF SerialInv, IdleLoops
<1>2. SchedKept /\ StayBlocked(Threads)
  <2>1. CASE Yield
    BY <1>1, <2>1, Yields
  <2>2. CASE UNCHANGED <<status, ready_list, current, idle_thread, destruction_req>>
    BY <1>1, <2>2 DEF SchedKept, StayBlocked, ReadyKnown, SerialTypes
  <2> QED BY <2>1, <2>2
    DEF TimerInterrupt, TimerTick, Tick, ByteArrives, ThrEmpties, vars, schedVars
<1>3. PlaceTypes /\ PlainStep
  BY <1>1, Names
     DEF TimerInterrupt, TimerTick, EndHlt, ByteArrives, ThrEmpties, vars, PlaceTypes,
         PlainStep, Plain,
     SerialTypes
<1>4. \A t \in Threads : at[t] \in {"acquire", "getc_up", "putc_up"} => (status'[t] = "BLOCKED" <=> status[t] = "BLOCKED")
  BY <1>1, <1>2 DEF StayBlocked
<1>5. SleepersStay
  BY <1>4 DEF SleepersStay
<1> QED BY <1>1, <1>2, <1>3, <1>4, <1>5, PlainKeeps
        DEF TimerInterrupt, TimerTick, ByteArrives, ThrEmpties, vars, SerialTypes

----------------------------------------------------------------------------
(* Steps that move bytes.                                                  *)

\* A transfer and its signals keep the invariant.
LEMMA TransfersKeep ==
    ASSUME SerialInv, NEW in, NEW out, Transfer(in, out), Signal(in, out), Fits(in, out),
           \A q \in Queues : Len(in[q]) \in Nat /\ (Len(in[q]) = 0 <=> in[q] = <<>>) /\ out[q] \in Nat,
           PlainStep, PlaceTypes, UNCHANGED <<synchVars>>
    PROVE  SerialInv'
<1>1. /\ SchedKept
      /\ \A t \in Threads : at[t] \notin {"getc_up", "putc_up"} => status'[t] = status[t]
      /\ head' \in [Queues -> 0..(N - 1)] /\ tail' \in [Queues -> 0..(N - 1)]
      /\ not_empty' \in [Queues -> Threads \cup {NULL}] /\ not_full' \in [Queues -> Threads \cup {NULL}]
      /\ not_empty'[TxQ] = NULL /\ not_full'[InputQ] = NULL
      /\ \A t \in Threads :
            /\ not_empty'[InputQ] = t => not_empty[InputQ] = t /\ Empty(InputQ)' /\ status'[t] = "BLOCKED"
            /\ not_full'[TxQ] = t => not_full[TxQ] = t /\ Full(TxQ)' /\ status'[t] = "BLOCKED"
            /\ at[t] = "getc_up" /\ status'[t] = "BLOCKED" => not_empty'[InputQ] = t
            /\ at[t] = "putc_up" /\ status'[t] = "BLOCKED" => not_full'[TxQ] = t
  BY Signals
<1>2. SerialTypes'
  BY <1>1 DEF SerialInv, SerialTypes, SchedKept, PlaceTypes
<1>3. SleepersKnown'
  BY <1>1, SleepersKept DEF SleepersStay
<1>4. IdleLoops' /\ QueuesLocked'
  BY LocksKept
<1>5. WaitersKnown'
  <2>1. \A t \in Threads : /\ at'[t] \in {"getc_up", "putc_up"} <=> at[t] \in {"getc_up", "putc_up"}
                           /\ at[t] \in {"getc_up", "putc_up"} => at'[t] = at[t]
    BY DEF PlainStep, Plain
  <2>2. \A t \in Threads : /\ not_empty[InputQ] = t => at[t] = "getc_up"
                           /\ not_full[TxQ] = t => at[t] = "putc_up"
                           /\ at[t] = "getc_up" => lock_holder[InputQ] = t
                           /\ at[t] = "putc_up" => lock_holder[TxQ] = t
    BY DEF SerialInv, WaitersKnown, WaitersSound, Queues
  <2>3. WaitersSound'
    BY <1>1, <2>1, <2>2, Names DEF WaitersSound, Queues
  <2> QED BY <1>1, <2>3 DEF WaitersKnown
<1> QED BY <1>1, <1>2, <1>3, <1>4, <1>5 DEF SerialInv, SchedKept

\* The transfers of input_getc(), serial_putc() and the interrupt handlers.
LEMMA Transfers ==
    ASSUME SerialInv, Getc \/ Putc \/ PutcPolled \/ KeyboardInterrupt \/ PortInterrupt \/ InterruptPrint
    PROVE  SerialInv'
<1>0. /\ InputQ \in Queues /\ TxQ \in Queues /\ InputQ # TxQ /\ current \in Threads /\ N \in Nat \ {0}
      /\ at \in [Threads -> Statements] /\ obj \in [Threads -> Locks \cup {NULL}]
      /\ \A t \in Threads : at[t] \in Idling <=> t = Idle
  BY Names, SerialAssumption DEF SerialInv, SerialTypes, IdleLoops, Queues
<1>1. /\ \A q \in Queues : \A bytes : /\ Add(q, bytes)[q] = bytes
                                      /\ \A r \in Queues : r # q => Add(q, bytes)[r] = <<>>
      /\ \A q \in Queues : \A n : /\ Take(q, n)[q] = n
                                  /\ \A r \in Queues : r # q => Take(q, n)[r] = 0
      /\ \A q \in Queues : None[q] = <<>>
  BY DEF Add, Take, None
<1>2. Len(<<>>) = 0 /\ \A b : Len(<<b>>) = 1 /\ <<b>> # <<>>
  OBVIOUS
<1>3. \A n \in Nat : Len(Received(n)) = n /\ (n = 0 <=> Received(n) = <<>>)
  BY DEF Received
<1>4. ASSUME EndHlt, obj' = obj PROVE PlainStep /\ PlaceTypes
  BY <1>0, <1>4 DEF EndHlt, PlainStep, PlaceTypes, Plain
<1>5. ASSUME NEW in, NEW out, Transfer(in, out), Signal(in, out), Fits(in, out),
             \A q \in Queues : Len(in[q]) \in Nat /\ (Len(in[q]) = 0 <=> in[q] = <<>>) /\ out[q] \in Nat,
             PlainStep, PlaceTypes, UNCHANGED synchVars
      PROVE  SerialInv'
  BY <1>5, TransfersKeep
<1>6. CASE Getc
  <2>1. PlainStep /\ PlaceTypes
    BY <1>0, <1>6, Names DEF Getc, Leave, PlainStep, PlaceTypes, Plain
  <2>2. Fits(None, Take(InputQ, 1))
    BY <1>0, <1>1, <1>6 DEF Getc, Fits
  <2>3. \A q \in Queues : /\ Len(None[q]) \in Nat /\ (Len(None[q]) = 0 <=> None[q] = <<>>)
                          /\ Take(InputQ, 1)[q] \in Nat
    BY <1>0, <1>1, <1>2
  <2> QED BY <1>5, <1>6, <2>1, <2>2, <2>3 DEF Getc
<1>7. ASSUME NEW byte, NEW n \in Nat, Queue(byte, n), n = 0 => ~Full(TxQ), PlainStep, PlaceTypes, UNCHANGED synchVars
      PROVE  SerialInv'
  <2> DEFINE in == Add(TxQ, <<byte>>)
             out == Take(TxQ, n)
  <2>1. Transfer(in, out) /\ Signal(in, out)
    BY <1>7 DEF Queue
  <2>2. Fits(in, out)
    BY <1>0, <1>1, <1>7 DEF Fits
  <2>3. \A q \in Queues : Len(in[q]) \in Nat /\ (Len(in[q]) = 0 <=> in[q] = <<>>) /\ out[q] \in Nat
    BY <1>0, <1>1, <1>2, <1>7
  <2> QED BY <1>5, <1>7, <2>1, <2>2, <2>3
<1>8. CASE Putc
  <2>1. PlainStep /\ PlaceTypes
    BY <1>0, <1>8, Names DEF Putc, Leave, PlainStep, PlaceTypes, Plain
  <2> QED BY <1>7, <1>8, <2>1 DEF Putc
<1>9. CASE PutcPolled
  <2>1. PlainStep /\ PlaceTypes
    BY <1>0, <1>9 DEF PutcPolled, PlainStep, PlaceTypes
  <2> QED BY <1>7, <1>9, <2>1 DEF PutcPolled
<1>10. CASE InterruptPrint
  BY <1>4, <1>7, <1>10 DEF InterruptPrint
<1>11. ASSUME NEW n \in Nat, NEW q \in Queues, NEW m \in Nat, InputPutc(n, Take(q, m)), m > 0 => q = TxQ,
              EndHlt, obj' = obj, UNCHANGED synchVars
       PROVE  SerialInv'
  <2> DEFINE in == Add(InputQ, Received(n))
             out == Take(q, m)
  <2>1. Transfer(in, out) /\ Signal(in, out)
    BY <1>11 DEF InputPutc
  <2>2. Fits(in, out)
    BY <1>0, <1>1, <1>11 DEF Fits
  <2>3. \A r \in Queues : Len(in[r]) \in Nat /\ (Len(in[r]) = 0 <=> in[r] = <<>>) /\ out[r] \in Nat
    BY <1>0, <1>1, <1>2, <1>3, <1>11
  <2> QED BY <1>4, <1>5, <1>11, <2>1, <2>2, <2>3
<1>12. CASE KeyboardInterrupt
  BY <1>0, <1>11, <1>12 DEF KeyboardInterrupt
<1>13. CASE PortInterrupt
  <2>1. PICK i, o \in 0..(N - 1) : SerialInterrupt(i, o)
    BY <1>13 DEF PortInterrupt
  <2> QED BY <1>0, <1>11, <2>1 DEF SerialInterrupt
<1> QED BY <1>6, <1>8, <1>9, <1>10, <1>12, <1>13

----------------------------------------------------------------------------
(* Steps of those who wait.                                                *)

\* The current thread has neither the lock's semaphore nor a turn in wait()
\* that another thread has.
LEMMA CurrentIs ==
    ASSUME SerialInv
    PROVE  /\ current \in Threads /\ status[current] = "RUNNING"
           /\ \A t \in Threads : status[t] = "BLOCKED" => t # current
           /\ current # Idle <=> at[current] \notin Idling
           /\ InputQ \in Queues /\ TxQ \in Queues /\ InputQ # TxQ /\ Queues = {InputQ, TxQ}
  BY Names DEF SerialInv, SerialTypes, ReadyKnown, IdleLoops, Queues

\* wait() makes the thread the waiter and blocks it.
LEMMA Waits ==
    ASSUME SerialInv, WaitOnQueue
    PROVE  SerialInv'
<1>0. /\ SerialTypes /\ ReadyKnown /\ current # Idle
      /\ (at[current] = "getc_wait" /\ Empty(InputQ)) \/ (at[current] = "putc_wait" /\ Full(TxQ))
  BY CurrentIs DEF WaitOnQueue, WaitNotEmpty, WaitNotFull, SerialInv
<1>1. SchedKept /\ StayBlocked(Threads \ {current}) /\ status'[current] = "BLOCKED"
  BY <1>0, Blocks DEF WaitOnQueue
<1>2. PICK o \in Threads : o = current
  BY CurrentIs
<1>3. /\ \A t \in Threads : t # o => at'[t] = at[t] /\ obj'[t] = obj[t]
      /\ at'[o] = (IF at[o] = "getc_wait" THEN "getc_up" ELSE "putc_up") /\ obj'[o] = NULL
      /\ PlaceTypes
  BY <1>0, <1>2 DEF WaitOnQueue, WaitNotEmpty, WaitNotFull, SerialTypes, PlaceTypes
<1>4. /\ UNCHANGED <<sema_value, sema_waiters, lock_holder, head, tail>>
      /\ not_empty' = IF at[o] = "getc_wait" THEN [not_empty EXCEPT ![InputQ] = o] ELSE not_empty
      /\ not_full' = IF at[o] = "putc_wait" THEN [not_full EXCEPT ![TxQ] = o] ELSE not_full
  BY <1>0, <1>2 DEF WaitOnQueue, WaitNotEmpty, WaitNotFull
<1>5. SerialTypes'
  BY <1>1, <1>2, <1>3, <1>4 DEF SerialTypes, SchedKept, PlaceTypes, SerialInv
<1>6. SleepersKnown'
  <2>1. SleepersStay
    BY <1>0, <1>1, <1>2 DEF SleepersStay, StayBlocked, SerialInv, IdleLoops, ReadyKnown
  <2> QED BY <1>2, <1>3, <1>4, <2>1, SleepersKept
<1>7. IdleLoops'
  BY <1>0, <1>2, <1>3 DEF SerialInv, IdleLoops
<1>8. \A t \in Threads : \A q \in Queues : Has(t, q)' <=> Has(t, q)
  BY <1>0, <1>2, <1>3, CurrentIs DEF Has
<1>9. QueuesLocked'
  BY <1>0, <1>2, <1>3, <1>4, <1>8 DEF SerialInv, QueuesLocked
<1>10. \A t \in Threads : t # o => ~(at[o] = "getc_wait" /\ at[t] = "getc_up") /\ ~(at[o] = "putc_wait" /\ at[t] = "putc_up")
  BY CurrentIs DEF SerialInv, QueuesLocked, Has
<1>11. WaitersKnown'
  <2>1. not_empty'[TxQ] = NULL /\ not_full'[InputQ] = NULL
    BY <1>4, CurrentIs DEF SerialInv, WaitersKnown, SerialTypes
  <2>2. ASSUME NEW t \in Threads, t # o
        PROVE  /\ \A q \in Queues :
                     /\ not_empty'[q] = t => Empty(q)' /\ at'[t] = "getc_up"
                     /\ not_full'[q] = t => Full(q)' /\ at'[t] = "putc_up"
               /\ at'[t] = "getc_up" =>
                     /\ lock_holder'[InputQ] = t
                     /\ status'[t] = "BLOCKED" <=> not_empty'[InputQ] = t
               /\ at'[t] = "putc_up" =>
                     /\ lock_holder'[TxQ] = t
                     /\ status'[t] = "BLOCKED" <=> not_full'[TxQ] = t
    <3>1. at[t] \in {"getc_up", "putc_up"} => (status'[t] = "BLOCKED" <=> status[t] = "BLOCKED")
      BY <1>1, <1>2, <2>2 DEF StayBlocked, SerialInv, IdleLoops
    <3>2. WaitersSound
      BY DEF SerialInv, WaitersKnown
    <3> QED BY <1>0, <1>2, <1>3, <1>4, <1>10, <2>2, <3>1, <3>2, CurrentIs
      DEF WaitersSound, SerialTypes, Empty, Full
  <2>3. /\ \A q \in Queues :
              /\ not_empty'[q] = o => Empty(q)' /\ at'[o] = "getc_up"
              /\ not_full'[q] = o => Full(q)' /\ at'[o] = "putc_up"
        /\ at'[o] = "getc_up" =>
              /\ lock_holder'[InputQ] = o
              /\ status'[o] = "BLOCKED" <=> not_empty'[InputQ] = o
        /\ at'[o] = "putc_up" =>
              /\ lock_holder'[TxQ] = o
              /\ status'[o] = "BLOCKED" <=> not_full'[TxQ] = o
    <3>1. WaitersSound /\ lock_holder[IF at[o] = "getc_wait" THEN InputQ ELSE TxQ] = o
      BY <1>0, <1>2 DEF SerialInv, WaitersKnown, QueuesLocked
    <3> QED BY <1>0, <1>1, <1>2, <1>3, <1>4, <3>1, CurrentIs
      DEF WaitersSound, SerialTypes, Empty, Full
  <2> QED BY <2>1, <2>2, <2>3 DEF WaitersKnown, WaitersSound
<1> QED BY <1>1, <1>5, <1>6, <1>7, <1>9, <1>11 DEF SerialInv, SchedKept

\* A thread that was woken in wait() begins lock_release().
LEMMA WakesUp ==
    ASSUME SerialInv, WakeUp(InputQ, "getc_up") \/ WakeUp(TxQ, "putc_up")
    PROVE  SerialInv'
<1>0. PICK o \in Threads, p \in Queues :
         /\ o = current /\ WakeUp(p, at[o])
         /\ at[o] = IF p = InputQ THEN "getc_up" ELSE "putc_up"
  BY CurrentIs DEF WakeUp
<1>1. /\ \A t \in Threads : t # o => at'[t] = at[t] /\ obj'[t] = obj[t]
      /\ at'[o] = "release" /\ obj'[o] = p /\ PlaceTypes
      /\ UNCHANGED <<schedVars, sema_value, sema_waiters, head, tail, not_empty, not_full>>
      /\ lock_holder' = [lock_holder EXCEPT ![p] = NULL]
  BY <1>0, CurrentIs, Names DEF WakeUp, SerialInv, SerialTypes, PlaceTypes
<1>2. SerialTypes' /\ ReadyKnown'
  BY <1>1, QuietSched DEF SerialInv, SerialTypes, PlaceTypes, SchedKept
<1>3. SleepersKnown'
  BY <1>0, <1>1, QuietSched, SleepersKept
<1>4. IdleLoops'
  BY <1>0, <1>1 DEF SerialInv, IdleLoops
<1>5. \A t \in Threads : \A q \in Queues : Has(t, q)' <=> Has(t, q)
  BY <1>0, <1>1, CurrentIs DEF Has
<1>6. \A t \in Threads : t # o => ~Has(t, p)
  BY <1>0, CurrentIs DEF SerialInv, QueuesLocked, Has
<1>7. QueuesLocked'
  <2>1. \A q \in Queues : lock_holder'[q] = IF q = p THEN NULL ELSE lock_holder[q]
    BY <1>1, Names DEF SerialInv, SerialTypes
  <2>2. \A q \in Queues :
           /\ sema_value'[q] \in {0, 1}
           /\ \A t \in Threads : Has(t, q)' => sema_value'[q] = 0
           /\ \A t, u \in Threads : Has(t, q)' /\ Has(u, q)' => t = u
    BY <1>1, <1>5 DEF SerialInv, QueuesLocked
  <2>3. ASSUME NEW t \in Threads
        PROVE  /\ at'[t] \in {"getc_wait", "getc_up"} => lock_holder'[InputQ] = t
               /\ at'[t] \in {"putc_wait", "putc_up"} => lock_holder'[TxQ] = t
    <3>1. CASE t = o
      BY <1>1, <3>1
    <3>2. CASE t # o
      <4>1. at'[t] = at[t] /\ ~Has(t, p)
        BY <1>1, <1>6, <3>2
      <4>2. /\ at[t] \in {"getc_wait", "getc_up"} => lock_holder[InputQ] = t /\ p # InputQ
            /\ at[t] \in {"putc_wait", "putc_up"} => lock_holder[TxQ] = t /\ p # TxQ
        BY <4>1 DEF SerialInv, QueuesLocked, Has
      <4> QED BY <2>1, <4>1, <4>2, CurrentIs
    <3> QED BY <3>1, <3>2
  <2> QED BY <2>2, <2>3 DEF QueuesLocked
<1>8. WaitersKnown'
  <2>1. \A t \in Threads : status'[t] = status[t]
    BY <1>1, QuietSched
  <2>2. WaitersSound /\ not_empty[InputQ] # o /\ not_full[TxQ] # o
    BY <1>0, CurrentIs DEF SerialInv, WaitersKnown, WaitersSound
  <2>3. \A q \in Queues : lock_holder'[q] = IF q = p THEN NULL ELSE lock_holder[q]
    BY <1>1, Names DEF SerialInv, SerialTypes
  <2>4. not_empty[TxQ] = NULL /\ not_full[InputQ] = NULL /\ NULL \notin Threads
    BY Names DEF SerialInv, WaitersKnown
  <2>5. \A q \in Queues : not_empty'[q] = not_empty[q] /\ not_full'[q] = not_full[q]
           /\ (Empty(q)' <=> Empty(q)) /\ (Full(q)' <=> Full(q))
    BY <1>1 DEF Empty, Full
  <2>6. ASSUME NEW t \in Threads
        PROVE  /\ \A q \in Queues :
                     /\ not_empty'[q] = t => Empty(q)' /\ at'[t] = "getc_up"
                     /\ not_full'[q] = t => Full(q)' /\ at'[t] = "putc_up"
               /\ at'[t] = "getc_up" =>
                     /\ lock_holder'[InputQ] = t
                     /\ status'[t] = "BLOCKED" <=> not_empty'[InputQ] = t
               /\ at'[t] = "putc_up" =>
                     /\ lock_holder'[TxQ] = t
                     /\ status'[t] = "BLOCKED" <=> not_full'[TxQ] = t
    <3>1. CASE t = o
      <4>1. \A q \in Queues : not_empty'[q] # t /\ not_full'[q] # t
        BY <2>2, <2>4, <2>5, <3>1, CurrentIs
      <4> QED BY <1>1, <3>1, <4>1
    <3>2. CASE t # o
      <4>1. at'[t] = at[t] /\ ~Has(t, p)
        BY <1>1, <1>6, <3>2
      <4>2. /\ at[t] = "getc_up" => lock_holder'[InputQ] = lock_holder[InputQ]
            /\ at[t] = "putc_up" => lock_holder'[TxQ] = lock_holder[TxQ]
        BY <2>3, <4>1, CurrentIs DEF Has
      <4> QED BY <2>1, <2>2, <2>5, <4>1, <4>2, CurrentIs DEF WaitersSound
    <3> QED BY <3>1, <3>2
  <2> QED BY <2>4, <2>5, <2>6, CurrentIs DEF WaitersKnown, WaitersSound
<1> QED BY <1>2, <1>3, <1>4, <1>7, <1>8 DEF SerialInv

----------------------------------------------------------------------------
(* The steps of locks.                                                     *)

\* What the steps of a lock have in common: only the current thread goes on,
\* and the queues stay as they are.
LockFrame ==
    /\ \A t \in Threads : t # current => at'[t] = at[t] /\ obj'[t] = obj[t]
    /\ PlaceTypes /\ at[current] \in {"acquire", "hold", "release"}
    /\ at'[current] \notin Idling \cup {"getc_up", "putc_up"}
    /\ UNCHANGED <<head, tail, not_empty, not_full>>

\* The threads in wait() are not disturbed by it.
LEMMA LockWaiters ==
    ASSUME SerialInv, LockFrame,
           \A q \in Queues : \A t \in Threads : t # current /\ lock_holder[q] = t /\ Has(t, q) => lock_holder'[q] = t,
           \A t \in Threads : at[t] \in {"getc_up", "putc_up"} => (status'[t] = "BLOCKED" <=> status[t] = "BLOCKED")
    PROVE  IdleLoops' /\ WaitersKnown'
<1>1. PICK o \in Threads : o = current
  BY CurrentIs
<1>2. /\ \A t \in Threads : t # o => at'[t] = at[t] /\ obj'[t] = obj[t]
      /\ at[o] \in {"acquire", "hold", "release"} /\ at'[o] \notin Idling \cup {"getc_up", "putc_up"}
  BY <1>1 DEF LockFrame
<1>3. \A t \in Threads : /\ at'[t] = "getc_up" <=> at[t] = "getc_up"
                         /\ at'[t] = "putc_up" <=> at[t] = "putc_up"
                         /\ at[t] \in {"getc_up", "putc_up"} => t # o
                         /\ at'[t] \in Idling <=> at[t] \in Idling
  BY <1>2
<1>4. \A q \in Queues : not_empty'[q] = not_empty[q] /\ not_full'[q] = not_full[q]
         /\ (Empty(q)' <=> Empty(q)) /\ (Full(q)' <=> Full(q))
  BY DEF Empty, Full, LockFrame
<1>5. WaitersSound /\ not_empty[TxQ] = NULL /\ not_full[InputQ] = NULL
  BY DEF SerialInv, WaitersKnown
<1>6. \A t \in Threads : /\ at[t] = "getc_up" => lock_holder'[InputQ] = t
                         /\ at[t] = "putc_up" => lock_holder'[TxQ] = t
  BY <1>1, <1>3, <1>5, CurrentIs DEF WaitersSound, Has
<1>7. WaitersSound'
  <2>1. ASSUME NEW t \in Threads
        PROVE  /\ \A q \in Queues :
                     /\ not_empty'[q] = t => Empty(q)' /\ at'[t] = "getc_up"
                     /\ not_full'[q] = t => Full(q)' /\ at'[t] = "putc_up"
               /\ at'[t] = "getc_up" =>
                     /\ lock_holder'[InputQ] = t
                     /\ status'[t] = "BLOCKED" <=> not_empty'[InputQ] = t
               /\ at'[t] = "putc_up" =>
                     /\ lock_holder'[TxQ] = t
                     /\ status'[t] = "BLOCKED" <=> not_full'[TxQ] = t
    BY <1>3, <1>4, <1>5, <1>6, CurrentIs DEF WaitersSound
  <2> QED BY <2>1 DEF WaitersSound
<1> QED BY <1>3, <1>4, <1>5, <1>7, CurrentIs DEF WaitersKnown, SerialInv, IdleLoops

\* The end of sema_down() in lock_acquire().
LEMMA TakesLock ==
    ASSUME SerialInv, NEW l \in Locks, at[current] = "acquire", obj[current] = l, SemaTake(l), Goto("hold", l),
           UNCHANGED <<lock_holder, head, tail, not_empty, not_full>>
    PROVE  SerialInv'
<1>1. PICK o \in Threads : o = current
  BY CurrentIs
<1>2. /\ at[o] = "acquire" /\ obj[o] = l /\ at'[o] = "hold" /\ obj'[o] = l
      /\ \A t \in Threads : t # o => at'[t] = at[t] /\ obj'[t] = obj[t]
      /\ PlaceTypes
  BY <1>1 DEF SerialInv, SerialTypes, PlaceTypes
<1>3. /\ UNCHANGED <<schedVars, sema_waiters>>
      /\ sema_value' \in [SemaIds -> Nat] /\ sema_value[l] > 0
      /\ \A s \in SemaIds : sema_value'[s] = IF s = l THEN sema_value[l] - 1 ELSE sema_value[s]
  BY Names DEF SemaTake, SerialInv, SerialTypes
<1>4. SchedKept /\ SleepersStay /\ \A t \in Threads : status'[t] = status[t]
  BY <1>3, QuietSched
<1>5. SerialTypes'
  BY <1>2, <1>3, <1>4 DEF SerialInv, SerialTypes, SchedKept, PlaceTypes
<1>6. SleepersKnown'
  BY <1>1, <1>2, <1>3, <1>4, SleepersKept
<1>7. IdleLoops' /\ WaitersKnown'
  BY <1>1, <1>2, <1>4, LockWaiters DEF LockFrame
<1>8. \A t \in Threads : \A q \in Queues : Has(t, q)' <=> (Has(t, q) \/ (t = o /\ q = l))
  BY <1>1, <1>2 DEF Has
<1>9. \A q \in Queues : sema_value'[q] = IF q = l THEN sema_value[l] - 1 ELSE sema_value[q]
  BY <1>3, Names
<1>10. QueuesLocked'
  <2>1. \A q \in Queues : sema_value[q] \in {0, 1}
           /\ (\A t \in Threads : Has(t, q) => sema_value[q] = 0)
           /\ (\A t, u \in Threads : Has(t, q) /\ Has(u, q) => t = u)
    BY DEF SerialInv, QueuesLocked
  <2>2. l \in Queues => sema_value'[l] = 0 /\ \A t \in Threads : ~Has(t, l)
    BY <1>3, <1>9, <2>1
  <2>3. ASSUME NEW q \in Queues
        PROVE  /\ sema_value'[q] \in {0, 1}
               /\ \A t \in Threads : Has(t, q)' => sema_value'[q] = 0
               /\ \A t, u \in Threads : Has(t, q)' /\ Has(u, q)' => t = u
    BY <1>8, <1>9, <2>1, <2>2
  <2>4. \A t \in Threads :
           /\ at'[t] \in {"getc_wait", "getc_up"} => lock_holder'[InputQ] = t
           /\ at'[t] \in {"putc_wait", "putc_up"} => lock_holder'[TxQ] = t
    BY <1>2 DEF SerialInv, QueuesLocked
  <2> QED BY <2>3, <2>4 DEF QueuesLocked
<1> QED BY <1>4, <1>5, <1>6, <1>7, <1>10 DEF SerialInv, SchedKept

\* A turn of the loop of sema_down() in lock_acquire().
LEMMA SleepsForLock ==
    ASSUME SerialInv, NEW l \in Locks, at[current] = "acquire", obj[current] = l, SemaSleep(l), Goto("acquire", l),
           UNCHANGED <<lock_holder, head, tail, not_empty, not_full>>
    PROVE  SerialInv'
<1>1. PICK o \in Threads : o = current
  BY CurrentIs
<1>2. /\ at[o] = "acquire" /\ obj[o] = l
      /\ \A t \in Threads : at'[t] = at[t] /\ obj'[t] = obj[t]
      /\ PlaceTypes
  BY <1>1 DEF SerialInv, SerialTypes, PlaceTypes
<1>3. SerialTypes /\ ReadyKnown /\ Block /\ o # Idle /\ status[o] = "RUNNING"
  BY <1>1, <1>2, CurrentIs DEF SerialInv, SemaSleep
<1>4. /\ SchedKept /\ status'[o] = "BLOCKED"
      /\ \A t \in Threads : t # o /\ t # Idle => (status'[t] = "BLOCKED" <=> status[t] = "BLOCKED")
  BY <1>1, <1>3, Blocks DEF StayBlocked
<1>5. /\ l \in SemaIds /\ sema_waiters[l] \in Seq(Threads) /\ Single(sema_waiters[l]) /\ ~InList(o, sema_waiters[l])
      /\ sema_value' = sema_value
      /\ sema_waiters' = [sema_waiters EXCEPT ![l] = Append(sema_waiters[l], o)]
      /\ sema_waiters \in [SemaIds -> Seq(Threads)]
  BY <1>1, <1>3, Names DEF SerialInv, SerialTypes, SleepersKnown, SemaSleep
<1>6. /\ Append(sema_waiters[l], o) \in Seq(Threads) /\ Single(Append(sema_waiters[l], o))
      /\ \A y : InList(y, Append(sema_waiters[l], o)) <=> InList(y, sema_waiters[l]) \/ y = o
  BY <1>5, SingleAppend
<1>7. SerialTypes'
  BY <1>2, <1>4, <1>5, <1>6 DEF SerialInv, SerialTypes, SchedKept, PlaceTypes
<1>8. SleepersKnown'
  <2>1. \A s \in SemaIds : sema_waiters'[s] = IF s = l THEN Append(sema_waiters[l], o) ELSE sema_waiters[s]
    BY <1>5
  <2>2. \A s \in SemaIds : Single(sema_waiters[s])
           /\ \A t \in Threads : InList(t, sema_waiters[s]) => status[t] = "BLOCKED" /\ at[t] = "acquire" /\ obj[t] = s
    BY DEF SerialInv, SleepersKnown
  <2>3. \A t \in Threads : at[t] = "acquire" => t # Idle
    BY DEF SerialInv, IdleLoops
  <2>4. ASSUME NEW s \in SemaIds
        PROVE  /\ Single(sema_waiters'[s])
               /\ \A t \in Threads : InList(t, sema_waiters'[s]) =>
                     status'[t] = "BLOCKED" /\ at'[t] = "acquire" /\ obj'[t] = s
    BY <1>2, <1>4, <1>6, <2>1, <2>2, <2>3
  <2> QED BY <2>4 DEF SleepersKnown
<1>9. PlainStep
  BY <1>2 DEF PlainStep
<1>10. \A t \in Threads : at[t] \in {"getc_up", "putc_up"} => (status'[t] = "BLOCKED" <=> status[t] = "BLOCKED")
  BY <1>2, <1>4 DEF SerialInv, IdleLoops
<1>11. IdleLoops' /\ QueuesLocked' /\ WaitersKnown'
  BY <1>5, <1>9, <1>10, LocksKept, WaitersKept
<1> QED BY <1>4, <1>7, <1>8, <1>11 DEF SerialInv, SchedKept

\* lock->holder = thread_current ().
LEMMA HoldsLock ==
    ASSUME SerialInv, NEW l \in Locks, SetHolder(l, AfterHold(l)), UNCHANGED <<head, tail, not_empty, not_full>>
    PROVE  SerialInv'
<1>0. /\ l = Console => AfterHold(l) = "putbuf"
      /\ l = InputQ => AfterHold(l) = "getc_wait"
      /\ l = TxQ => AfterHold(l) = "putc_wait"
      /\ l \in {InputQ, TxQ, Console} /\ InputQ # TxQ /\ Console # InputQ /\ Console # TxQ
  BY Names, SerialAssumption DEF AfterHold, Queues
<1>1. PICK o \in Threads : o = current
  BY CurrentIs
<1>2. /\ at[o] = "hold" /\ obj[o] = l /\ at'[o] = AfterHold(l) /\ obj'[o] = NULL
      /\ \A t \in Threads : t # o => at'[t] = at[t] /\ obj'[t] = obj[t]
      /\ PlaceTypes
  BY <1>0, <1>1 DEF SetHolder, SerialInv, SerialTypes, PlaceTypes
<1>3. /\ UNCHANGED <<schedVars, sema_value, sema_waiters>>
      /\ lock_holder' \in [Locks -> Threads \cup {NULL}]
      /\ \A k \in Locks : lock_holder'[k] = IF k = l THEN o ELSE lock_holder[k]
  BY <1>1 DEF SetHolder, SerialInv, SerialTypes
<1>4. SchedKept /\ SleepersStay /\ \A t \in Threads : status'[t] = status[t]
  BY <1>3, QuietSched
<1>5. SerialTypes'
  BY <1>2, <1>3, <1>4 DEF SerialInv, SerialTypes, SchedKept, PlaceTypes
<1>6. SleepersKnown'
  BY <1>1, <1>2, <1>3, <1>4, SleepersKept
<1>7. \A t \in Threads : \A q \in Queues : Has(t, q)' <=> Has(t, q)
  <2>1. \A q \in Queues : Has(o, q)' <=> Has(o, q)
    BY <1>0, <1>2, CurrentIs DEF Has
  <2>2. \A t \in Threads : t # o => \A q \in Queues : Has(t, q)' <=> Has(t, q)
    BY <1>2 DEF Has
  <2> QED BY <2>1, <2>2
<1>8. \A t \in Threads : \A q \in Queues : t # o /\ Has(t, q) => q # l
  BY <1>2 DEF SerialInv, QueuesLocked, Has
<1>9. \A q \in Queues : lock_holder'[q] = IF q = l THEN o ELSE lock_holder[q]
  BY <1>3, Names
<1>10. IdleLoops' /\ WaitersKnown'
  <2>1. LockFrame
    BY <1>0, <1>1, <1>2 DEF LockFrame
  <2>2. \A q \in Queues : \A t \in Threads : t # current /\ lock_holder[q] = t /\ Has(t, q) => lock_holder'[q] = t
    BY <1>1, <1>8, <1>9
  <2> QED BY <1>4, <2>1, <2>2, LockWaiters
<1>11. QueuesLocked'
  <2>1. \A t \in Threads : t # o =>
           /\ at'[t] \in {"getc_wait", "getc_up"} => lock_holder'[InputQ] = t
           /\ at'[t] \in {"putc_wait", "putc_up"} => lock_holder'[TxQ] = t
    BY <1>2, <1>8, <1>9, CurrentIs DEF SerialInv, QueuesLocked, Has
  <2>2. /\ at'[o] \in {"getc_wait", "getc_up"} => lock_holder'[InputQ] = o
        /\ at'[o] \in {"putc_wait", "putc_up"} => lock_holder'[TxQ] = o
    BY <1>0, <1>2, <1>9, CurrentIs
  <2>3. \A q \in Queues :
           /\ sema_value'[q] \in {0, 1}
           /\ \A t \in Threads : Has(t, q)' => sema_value'[q] = 0
           /\ \A t, u \in Threads : Has(t, q)' /\ Has(u, q)' => t = u
    BY <1>3, <1>7 DEF SerialInv, QueuesLocked
  <2> QED BY <2>1, <2>2, <2>3 DEF QueuesLocked
<1> QED BY <1>4, <1>5, <1>6, <1>10, <1>11 DEF SerialInv, SchedKept

\* The sema_up() of lock_release().
LEMMA ReleasesLock ==
    ASSUME SerialInv, NEW l \in Locks, ReleaseUp(l, AfterRelease(l)), UNCHANGED <<head, tail, not_empty, not_full>>
    PROVE  SerialInv'
<1>0. AfterRelease(l) \in {"client", "getc", "putc"}
  BY Names, SerialAssumption DEF AfterRelease, Queues
<1>1. PICK o \in Threads : o = current
  BY CurrentIs
<1>2. /\ at[o] = "release" /\ obj[o] = l /\ at'[o] = AfterRelease(l) /\ obj'[o] = NULL
      /\ \A t \in Threads : t # o => at'[t] = at[t] /\ obj'[t] = obj[t]
      /\ PlaceTypes
  BY <1>0, <1>1 DEF ReleaseUp, SerialInv, SerialTypes, PlaceTypes
<1>3. /\ SerialTypes /\ ReadyKnown /\ l \in SemaIds /\ SemaUp(l) /\ lock_holder' = lock_holder
      /\ sema_waiters \in [SemaIds -> Seq(Threads)] /\ sema_value \in [SemaIds -> Nat]
  BY Names DEF SerialInv, SerialTypes, ReleaseUp
<1>4. \A s \in SemaIds : Single(sema_waiters[s])
         /\ \A t \in Threads : InList(t, sema_waiters[s]) => status[t] = "BLOCKED" /\ at[t] = "acquire" /\ obj[t] = s
  BY DEF SerialInv, SleepersKnown
<1>5. /\ sema_value' \in [SemaIds -> Nat]
      /\ \A s \in SemaIds : sema_value'[s] = IF s = l THEN sema_value[l] + 1 ELSE sema_value[s]
  BY <1>3 DEF SemaUp
<1>6. \E woken \in SUBSET Threads :
         /\ SchedKept
         /\ \A t \in Threads : t # Idle /\ t \notin woken => (status'[t] = "BLOCKED" <=> status[t] = "BLOCKED")
         /\ \A t \in woken : at[t] = "acquire"
         /\ sema_waiters' \in [SemaIds -> Seq(Threads)]
         /\ \A s \in SemaIds : /\ Single(sema_waiters'[s])
                               /\ \A t \in Threads : InList(t, sema_waiters'[s]) => InList(t, sema_waiters[s]) /\ t \notin woken
  <2>1. CASE sema_waiters[l] = <<>> /\ UNCHANGED <<sema_waiters, status, ready_list>>
    <3>1. SchedKept
      BY <1>3, <2>1 DEF SemaUp, SchedKept, SerialTypes, ReadyKnown
    <3> WITNESS {} \in SUBSET Threads
    <3> QED BY <1>3, <1>4, <2>1, <3>1
  <2>2. CASE /\ sema_waiters[l] # <<>>
             /\ sema_waiters' = [sema_waiters EXCEPT ![l] = Tail(@)]
             /\ Unblock(Head(sema_waiters[l]))
    <3> DEFINE w == Head(sema_waiters[l])
    <3>1. /\ w \in Threads /\ InList(w, sema_waiters[l]) /\ Tail(sema_waiters[l]) \in Seq(Threads)
          /\ Single(Tail(sema_waiters[l])) /\ ~InList(w, Tail(sema_waiters[l]))
          /\ \A y : InList(y, Tail(sema_waiters[l])) => InList(y, sema_waiters[l])
      BY <1>3, <1>4, <2>2, SingleTail
    <3>2. sema_waiters' = [sema_waiters EXCEPT ![l] = Tail(sema_waiters[l])]
      BY <2>2
    <3>3. Unblock(w) /\ UNCHANGED <<current, idle_thread, destruction_req>>
      BY <1>3, <2>2 DEF SemaUp
    <3> HIDE DEF w
    <3>4. status[w] = "BLOCKED" /\ at[w] = "acquire" /\ obj[w] = l
      BY <1>3, <1>4, <3>1
    <3>5. SchedKept /\ StayBlocked(Threads \ {w})
      BY <1>3, <3>1, <3>3, <3>4, Unblocks
    <3>6. /\ sema_waiters' \in [SemaIds -> Seq(Threads)]
          /\ \A s \in SemaIds : sema_waiters'[s] = IF s = l THEN Tail(sema_waiters[l]) ELSE sema_waiters[s]
      BY <1>3, <3>1, <3>2
    <3>7. \A s \in SemaIds : s # l => ~InList(w, sema_waiters[s])
      BY <1>4, <3>1, <3>4
    <3>8. \A s \in SemaIds :
             /\ Single(sema_waiters'[s])
             /\ \A t \in Threads : InList(t, sema_waiters'[s]) => InList(t, sema_waiters[s]) /\ t # w
      BY <1>4, <3>1, <3>6, <3>7
    <3>9. \A t \in Threads : t # Idle /\ t \notin {w} => (status'[t] = "BLOCKED" <=> status[t] = "BLOCKED")
      BY <3>5 DEF StayBlocked
    <3>10. {w} \in SUBSET Threads /\ \A t : t \in {w} <=> t = w
      BY <3>1
    <3> QED BY <3>4, <3>5, <3>6, <3>8, <3>9, <3>10
  <2> QED BY <1>3, <2>1, <2>2 DEF SemaUp
<1>7. PICK woken \in SUBSET Threads :
         /\ SchedKept
         /\ \A t \in Threads : t # Idle /\ t \notin woken => (status'[t] = "BLOCKED" <=> status[t] = "BLOCKED")
         /\ \A t \in woken : at[t] = "acquire"
         /\ sema_waiters' \in [SemaIds -> Seq(Threads)]
         /\ \A s \in SemaIds : /\ Single(sema_waiters'[s])
                               /\ \A t \in Threads : InList(t, sema_waiters'[s]) => InList(t, sema_waiters[s]) /\ t \notin woken
  BY <1>6
<1>8. SerialTypes'
  BY <1>2, <1>3, <1>5, <1>7 DEF SerialInv, SerialTypes, SchedKept, PlaceTypes
<1>9. SleepersKnown'
  <2>1. \A t \in Threads : at[t] = "acquire" => t # Idle /\ t # o
    BY <1>2 DEF SerialInv, IdleLoops
  <2>2. ASSUME NEW s \in SemaIds, NEW t \in Threads, InList(t, sema_waiters'[s])
        PROVE  status'[t] = "BLOCKED" /\ at'[t] = "acquire" /\ obj'[t] = s
    BY <1>2, <1>4, <1>7, <2>1, <2>2
  <2> QED BY <1>7, <2>2 DEF SleepersKnown
<1>10. \A t \in Threads : at[t] \in {"getc_up", "putc_up"} => (status'[t] = "BLOCKED" <=> status[t] = "BLOCKED")
  <2>1. \A t \in Threads : at[t] \in {"getc_up", "putc_up"} => t # Idle /\ t \notin woken
    BY <1>7 DEF SerialInv, IdleLoops
  <2> QED BY <1>7, <2>1
<1>11. IdleLoops' /\ WaitersKnown'
  BY <1>0, <1>1, <1>2, <1>3, <1>10, LockWaiters DEF LockFrame
<1>12. \A t \in Threads : \A q \in Queues : Has(t, q)' <=> (Has(t, q) /\ ~(t = o /\ q = l))
  <2>1. \A q \in Queues : ~Has(o, q)' /\ (Has(o, q) <=> q = l)
    BY <1>0, <1>2 DEF Has
  <2>2. \A t \in Threads : t # o => \A q \in Queues : Has(t, q)' <=> Has(t, q)
    BY <1>2 DEF Has
  <2> QED BY <2>1, <2>2
<1>13. \A q \in Queues : sema_value'[q] = IF q = l THEN sema_value[l] + 1 ELSE sema_value[q]
  BY <1>5, Names
<1>14. QueuesLocked'
  <2>1. \A q \in Queues : sema_value[q] \in {0, 1}
           /\ (\A t \in Threads : Has(t, q) => sema_value[q] = 0)
           /\ (\A t, u \in Threads : Has(t, q) /\ Has(u, q) => t = u)
    BY DEF SerialInv, QueuesLocked
  <2>2. l \in Queues => Has(o, l)
    BY <1>2 DEF Has
  <2>3. l \in Queues => sema_value'[l] = 1 /\ \A t \in Threads : ~Has(t, l)'
    BY <1>12, <1>13, <2>1, <2>2
  <2>4. ASSUME NEW q \in Queues
        PROVE  /\ sema_value'[q] \in {0, 1}
               /\ \A t \in Threads : Has(t, q)' => sema_value'[q] = 0
               /\ \A t, u \in Threads : Has(t, q)' /\ Has(u, q)' => t = u
    BY <1>12, <1>13, <2>1, <2>3
  <2>5. \A t \in Threads :
           /\ at'[t] \in {"getc_wait", "getc_up"} => lock_holder'[InputQ] = t
           /\ at'[t] \in {"putc_wait", "putc_up"} => lock_holder'[TxQ] = t
    BY <1>0, <1>2, <1>3 DEF SerialInv, QueuesLocked
  <2> QED BY <2>4, <2>5 DEF QueuesLocked
<1> QED BY <1>7, <1>8, <1>9, <1>11, <1>14 DEF SerialInv, SchedKept

\* The steps of locks under way.
LEMMA LockSteps ==
    ASSUME SerialInv, LockStep
    PROVE  SerialInv'
<1>1. PICK l \in Locks : \/ at[current] = "acquire" /\ LockAcquire(l)
                         \/ SetHolder(l, AfterHold(l))
                         \/ ReleaseUp(l, AfterRelease(l))
  BY DEF LockStep
<1>2. UNCHANGED <<head, tail, not_empty, not_full>>
  BY DEF LockStep
<1>3. CASE at[current] = "acquire" /\ LockAcquire(l)
  <2>1. obj[current] = l
    BY <1>3 DEF LockAcquire, AtClient
  <2>2. lock_holder' = lock_holder
    BY <1>3 DEF LockAcquire
  <2> QED BY <1>2, <1>3, <2>1, <2>2, TakesLock, SleepsForLock DEF LockAcquire
<1> QED BY <1>1, <1>2, <1>3, HoldsLock, ReleasesLock

----------------------------------------------------------------------------
\* Initially the run queue holds the threads that are ready.
LEMMA SerialStarts ==
    ASSUME Init
    PROVE  SerialInv
<1> DEFINE S == Threads \ {Main, Idle}
<1>1. IsFiniteSet(S)
  BY SerialAssumption, FS_Subset
<1>2. ready_list \in Seq(Threads) /\ Single(ready_list) /\ \A t \in Threads : InList(t, ready_list) => t \in S
  <2> DEFINE n == Cardinality(S)
  <2>1. n \in Nat /\ ExistsBijection(1..n, S)
    BY <1>1, FS_CardinalityType
  <2>2. \E f \in [1..n -> S] : IsInjective(f)
    BY <2>1 DEF ExistsBijection, Bijection, Injection
  <2>3. ready_list \in [1..n -> S] /\ IsInjective(ready_list)
    BY <2>2 DEF SetToSeq, Init
  <2> HIDE DEF n
  <2>4. ready_list \in [1..n -> Threads]
    BY <2>3
  <2>5. ready_list \in Seq(Threads) /\ Len(ready_list) = n
    BY <2>1, <2>4, SeqDef
  <2> QED BY <2>3, <2>5 DEF Single, InList, IsInjective
<1>3. SerialTypes
  BY <1>2, Names, SerialAssumption DEF Init, SerialTypes, Statuses
<1>4. ReadyKnown
  BY <1>2, Names DEF Init, ReadyKnown
<1>5. SleepersKnown
  BY DEF Init, SleepersKnown, Single, InList
<1>6. IdleLoops
  BY Names DEF Init, IdleLoops
<1>7. QueuesLocked
  BY Names DEF Init, QueuesLocked, Has
<1>8. WaitersKnown
  BY Names DEF Init, WaitersKnown, WaitersSound, Queues
<1> QED BY <1>3, <1>4, <1>5, <1>6, <1>7, <1>8 DEF SerialInv

\* Every step keeps the invariant.
LEMMA SerialKept ==
    ASSUME SerialInv, [Next]_vars
    PROVE  SerialInv'
<1> HIDE DEF Goto, synchVars, semaVars, queueVars, portVars, historyVars, noTransfer, frameVars, serialVars
<1>1. CASE ClientStep
  BY ONLY SerialInv, ClientStep, <1>1, ThreadSteps DEF ClientStep
<1>2. CASE DriverStep
  <2>1. \/ WaitForLock(InputQ, "getc", ~Empty(InputQ)) \/ WaitForLock(TxQ, "putc", ~Full(TxQ))
        \/ Putchar \/ EndPutbuf \/ (IdleHlt /\ UNCHANGED serialVars)
        \/ LockStep \/ WaitOnQueue \/ WakeUp(InputQ, "getc_up") \/ WakeUp(TxQ, "putc_up")
        \/ Getc \/ Putc \/ PutcPolled \/ (IdleBlock /\ UNCHANGED serialVars)
    BY <1>2 DEF DriverStep
  <2>2. CASE \/ WaitForLock(InputQ, "getc", ~Empty(InputQ)) \/ WaitForLock(TxQ, "putc", ~Full(TxQ))
             \/ Putchar \/ EndPutbuf \/ (IdleHlt /\ UNCHANGED serialVars)
    BY <2>2, ThreadSteps
  <2>3. CASE LockStep
    BY <2>3, LockSteps
  <2>4. CASE WaitOnQueue
    BY <2>4, Waits
  <2>5. CASE WakeUp(InputQ, "getc_up") \/ WakeUp(TxQ, "putc_up")
    BY <2>5, WakesUp
  <2>6. CASE Getc \/ Putc \/ PutcPolled
    BY <2>6, Transfers
  <2>7. CASE IdleBlock /\ UNCHANGED serialVars
    BY <2>7, Idles
  <2> QED BY <2>1, <2>2, <2>3, <2>4, <2>5, <2>6, <2>7
<1>3. CASE TimerInterrupt \/ ByteArrives \/ ThrEmpties \/ UNCHANGED vars
  BY <1>3, Ticks
<1>4. CASE KeyboardInterrupt \/ PortInterrupt \/ InterruptPrint
  BY <1>4, Transfers
<1> QED BY <1>1, <1>2, <1>3, <1>4 DEF Next

(***************************************************************************)
(* For any number of threads, any size of the queues and any interleaving  *)
(* of threads and interrupt handlers: no wakeup of wait() and signal() in  *)
(* intq.c is lost or comes twice.  The thread that a queue names as its    *)
(* waiter is blocked in wait(), holds the queue's lock, and the queue is   *)
(* still empty, or full; and who is blocked in wait() is named.            *)
(***************************************************************************)
THEOREM WaitersAreSound == Spec => []WaitersSound
<1>1. Init => SerialInv
  BY SerialStarts
<1>2. SerialInv /\ [Next]_vars => SerialInv'
  BY SerialKept
<1>3. SerialInv => WaitersSound
  BY DEF SerialInv, WaitersKnown
<1> QED BY <1>1, <1>2, <1>3, PTL DEF Spec

----------------------------------------------------------------------------
\* write_ier() comes after every change of a queue.
LEMMA IerKept ==
    ASSUME IerFresh, [Next]_vars
    PROVE  IerFresh'
<1>1. ASSUME UNCHANGED <<head, tail, ier>> PROVE IerFresh'
  BY <1>1 DEF IerFresh, IerBits, Empty, Full
<1>2. ASSUME WriteIer PROVE IerFresh'
  BY <1>2 DEF IerFresh, WriteIer
<1>3. CASE ClientStep
  BY <1>1, <1>3 DEF ClientStep, StartGetc, StartPutbuf
<1>4. CASE LockStep \/ WaitOnQueue \/ WakeUp(InputQ, "getc_up") \/ WakeUp(TxQ, "putc_up")
  BY <1>1, <1>4 DEF LockStep, WaitOnQueue, WakeUp
<1>5. CASE Getc \/ Putc \/ PutcPolled
  BY <1>2, <1>5 DEF Getc, Putc, PutcPolled, Queue
<1>6. CASE WaitForLock(InputQ, "getc", ~Empty(InputQ)) \/ WaitForLock(TxQ, "putc", ~Full(TxQ))
  BY <1>1, <1>6 DEF WaitForLock
<1>7. CASE Putchar \/ EndPutbuf \/ ((IdleBlock \/ IdleHlt) /\ UNCHANGED serialVars)
  BY <1>1, <1>7 DEF Putchar, EndPutbuf
<1>8. CASE KeyboardInterrupt \/ PortInterrupt \/ InterruptPrint
  BY <1>2, <1>8
     DEF KeyboardInterrupt, PortInterrupt, SerialInterrupt, InterruptPrint, InputPutc, Queue
<1>9. CASE TimerInterrupt \/ ByteArrives \/ ThrEmpties \/ UNCHANGED vars
  BY <1>1, <1>9 DEF TimerInterrupt, ByteArrives, ThrEmpties, vars
<1>10. DriverStep =>
          \/ LockStep \/ WaitOnQueue \/ WakeUp(InputQ, "getc_up") \/ WakeUp(TxQ, "putc_up")
          \/ Getc \/ Putc \/ PutcPolled
          \/ WaitForLock(InputQ, "getc", ~Empty(InputQ)) \/ WaitForLock(TxQ, "putc", ~Full(TxQ))
          \/ Putchar \/ EndPutbuf \/ ((IdleBlock \/ IdleHlt) /\ UNCHANGED serialVars)
  <2> HIDE DEF serialVars
  <2> QED BY DEF DriverStep
<1>11. [Next]_vars =>
          \/ ClientStep \/ DriverStep \/ KeyboardInterrupt \/ PortInterrupt \/ InterruptPrint
          \/ TimerInterrupt \/ ByteArrives \/ ThrEmpties \/ UNCHANGED vars
  BY DEF Next
<1> QED BY <1>3, <1>4, <1>5, <1>6, <1>7, <1>8, <1>9, <1>10, <1>11

\* serial_init_queue() leaves both queues empty, and asks for input.
LEMMA IerStarts == Init => IerFresh
<1>1. ASSUME Init PROVE head[InputQ] = 0 /\ tail[InputQ] = 0 /\ head[TxQ] = 0 /\ tail[TxQ] = 0 /\ ier = {"recv"}
  BY <1>1 DEF Init, Queues
<1>2. (0 + 1) % N # 0
  BY SerialAssumption
<1> QED BY <1>1, <1>2 DEF IerFresh, IerBits, Empty, Full, NextPos

(***************************************************************************)
(* The interrupts enabled in the UART are always those that the queues     *)
(* call for: no path of input_getc(), serial_putc(), putc_poll() or of an  *)
(* interrupt handler leaves IER stale (write_ier and serial_notify in      *)
(* serial.c).                                                              *)
(***************************************************************************)
THEOREM IerIsFresh == Spec => []IerFresh
<1>1. Init => IerFresh
  BY IerStarts
<1>2. IerFresh /\ [Next]_vars => IerFresh'
  BY IerKept
<1> QED BY <1>1, <1>2, PTL DEF Spec

----------------------------------------------------------------------------
(* The input buffer is a ring: positions and serial numbers wrap around.   *)

\* Arithmetic modulo a number that a sum passes at most once.
LEMMA Wrap ==
    ASSUME NEW M \in Nat, M > 0, NEW x \in Nat, x < M + M
    PROVE  x % M = IF x < M THEN x ELSE x - M
<1>1. CASE x < M
  BY <1>1
<1>2. CASE x >= M
  <2>1. x - M \in 0..(M - 1)
    BY <1>2
  <2>2. x % M = x - M
    BY <1>2, <2>1, SMTT(30)
  <2> QED BY <1>2, <2>2
<1> QED BY <1>1, <1>2

\* The position of the n-th byte after one at p.
Pos(p, n) == IF p + n < N THEN p + n ELSE p + n - N

\* The number of bytes between tail t and head h.
Between(h, t) == IF h >= t THEN h - t ELSE h + N - t

\* The number of the n-th byte after number k.
Nth(k, n) == IF k + n < N + 2 THEN k + n ELSE k + n - (N + 2)

\* The remainders of Serial, at the positions and numbers it applies them to.
LEMMA Rings ==
    /\ \A p \in 0..(N - 1) : \A n \in 0..N : (p + n) % N = Pos(p, n)
    /\ \A h, t \in 0..(N - 1) : (h + N - t) % N = Between(h, t)
    /\ \A k \in Serials : \A n \in 0..(N + 1) : (k + n) % (N + 2) = Nth(k, n)
<1>1. N \in Nat /\ N > 0 /\ N + 2 \in Nat /\ N + 2 > 0
  BY SerialAssumption
<1>2. ASSUME NEW p \in 0..(N - 1), NEW n \in 0..N PROVE (p + n) % N = Pos(p, n)
  <2>1. p + n \in Nat /\ p + n < N + N
    BY <1>1
  <2>2. (p + n) % N = IF p + n < N THEN p + n ELSE p + n - N
    BY <1>1, <2>1, Wrap
  <2> QED BY <2>2 DEF Pos
<1>3. ASSUME NEW h \in 0..(N - 1), NEW t \in 0..(N - 1) PROVE (h + N - t) % N = Between(h, t)
  <2>1. h + N - t \in Nat /\ h + N - t < N + N
    BY <1>1
  <2>2. (h + N - t) % N = IF h + N - t < N THEN h + N - t ELSE h + N - t - N
    BY <1>1, <2>1, Wrap
  <2> QED BY <1>1, <2>2 DEF Between
<1>4. ASSUME NEW k \in Serials, NEW n \in 0..(N + 1) PROVE (k + n) % (N + 2) = Nth(k, n)
  <2> DEFINE M == N + 2
  <2>1. k \in Nat /\ n \in Nat /\ k + n \in Nat /\ k + n < M + M /\ M \in Nat /\ M > 0
    BY <1>1 DEF Serials
  <2> HIDE DEF M
  <2>2. (k + n) % M = IF k + n < M THEN k + n ELSE k + n - M
    BY <2>1, Wrap
  <2> QED BY <2>2 DEF Nth, M
<1> QED BY <1>2, <1>3, <1>4

\* The order of the bytes in the input buffer, without the remainders.
InOrder ==
    /\ \A i \in 0..(N - 1) : i < Between(head[InputQ], tail[InputQ]) =>
          buf[InputQ][Pos(tail[InputQ], i)] = <<NULL, Nth(next_out, i)>>
    /\ next_in = Nth(next_out, Between(head[InputQ], tail[InputQ]))

\* The types that the order needs.
OrderTypes ==
    /\ buf = [q \in Queues |-> [p \in 0..(N - 1) |-> buf[q][p]]]
    /\ head[InputQ] \in 0..(N - 1) /\ tail[InputQ] \in 0..(N - 1)
    /\ next_in \in Serials /\ next_out \in Serials

\* It is what InputInOrder says.
LEMMA OrderIs == OrderTypes => (InOrder <=> InputInOrder)
<1> SUFFICES ASSUME OrderTypes PROVE InOrder <=> InputInOrder
  OBVIOUS
<1> DEFINE c == Between(head[InputQ], tail[InputQ])
<1>1. N \in Nat /\ N >= 2 /\ c \in 0..(N - 1) /\ Count(InputQ) = c
  <2>1. N \in Nat /\ N >= 2
    BY SerialAssumption
  <2>2. Count(InputQ) = c
    BY Rings DEF OrderTypes, Count
  <2> QED BY <2>1, <2>2 DEF OrderTypes, Between
<1>2. \A i \in 1..c : /\ (tail[InputQ] + i - 1) % N = Pos(tail[InputQ], i - 1)
                      /\ (next_out + i - 1) % (N + 2) = Nth(next_out, i - 1)
  <2> SUFFICES ASSUME NEW i \in 1..c
               PROVE  /\ (tail[InputQ] + i - 1) % N = Pos(tail[InputQ], i - 1)
                      /\ (next_out + i - 1) % (N + 2) = Nth(next_out, i - 1)
    OBVIOUS
  <2>1. i - 1 \in 0..N /\ i - 1 \in 0..(N + 1)
    BY <1>1
  <2>2. tail[InputQ] + i - 1 = tail[InputQ] + (i - 1) /\ next_out + i - 1 = next_out + (i - 1)
    BY <1>1 DEF OrderTypes, Serials
  <2> QED BY <2>1, <2>2, Rings DEF OrderTypes
<1>3. (next_out + Count(InputQ)) % (N + 2) = Nth(next_out, c)
  <2>1. c \in 0..(N + 1)
    BY <1>1
  <2> QED BY <1>1, <2>1, Rings DEF OrderTypes
<1> HIDE DEF c
<1>4. \A i \in 1..c : Contents(InputQ)[i] = buf[InputQ][Pos(tail[InputQ], i - 1)]
  BY <1>1, <1>2 DEF Contents
<1>5. InputInOrder <=> /\ \A i \in 1..c : buf[InputQ][Pos(tail[InputQ], i - 1)] = <<NULL, Nth(next_out, i - 1)>>
                       /\ next_in = Nth(next_out, c)
  BY <1>1, <1>2, <1>3, <1>4 DEF InputInOrder
<1>6. InOrder <=> /\ \A i \in 0..(N - 1) : i < c => buf[InputQ][Pos(tail[InputQ], i)] = <<NULL, Nth(next_out, i)>>
                  /\ next_in = Nth(next_out, c)
  BY DEF InOrder, c
<1>8. (\A i \in 1..c : buf[InputQ][Pos(tail[InputQ], i - 1)] = <<NULL, Nth(next_out, i - 1)>>)
      <=> (\A i \in 0..(N - 1) : i < c => buf[InputQ][Pos(tail[InputQ], i)] = <<NULL, Nth(next_out, i)>>)
  <2>1. \A i \in 0..(N - 1) : i < c => i + 1 \in 1..c /\ (i + 1) - 1 = i
    BY <1>1
  <2>2. \A i \in 1..c : i - 1 \in 0..(N - 1) /\ i - 1 < c
    BY <1>1
  <2> QED BY <2>1, <2>2
<1> QED BY <1>5, <1>6, <1>8

\* What goes into the buffer and comes out of it keeps the order.
LEMMA RingPut ==
    ASSUME NEW h \in 0..(N - 1), NEW t \in 0..(N - 1), NEW n \in Nat, n <= N - 1 - Between(h, t)
    PROVE  /\ Pos(h, n) \in 0..(N - 1) /\ Between(Pos(h, n), t) = Between(h, t) + n
           /\ \A i, j \in 0..(N - 1) : i < n /\ j < n /\ Pos(h, i) = Pos(h, j) => i = j
           /\ \A i, j \in 0..(N - 1) : i < n /\ j < Between(h, t) => Pos(h, i) # Pos(t, j)
           /\ \A i \in 0..(N - 1) : i < n => Pos(t, Between(h, t) + i) = Pos(h, i)
<1>1. N \in Nat /\ N >= 2
  BY SerialAssumption
<1> QED BY <1>1 DEF Between, Pos

\* And a byte taken from it.
LEMMA RingTake ==
    ASSUME NEW h \in 0..(N - 1), NEW t \in 0..(N - 1), Between(h, t) > 0
    PROVE  /\ Pos(t, 1) \in 0..(N - 1) /\ Between(h, Pos(t, 1)) = Between(h, t) - 1
           /\ \A i \in 0..(N - 1) : i + 1 < N => Pos(Pos(t, 1), i) = Pos(t, i + 1)
<1>1. N \in Nat /\ N >= 2
  BY SerialAssumption
<1> QED BY <1>1 DEF Between, Pos

\* Serial numbers count on.
LEMMA NthIs ==
    /\ \A k \in Serials : \A n \in 0..(N + 1) : Nth(k, n) \in Serials /\ Nth(k, 0) = k
    /\ \A k \in Serials : \A m, n \in Nat : m + n < N => Nth(Nth(k, m), n) = Nth(k, m + n)
<1>1. N \in Nat /\ N >= 2
  BY SerialAssumption
<1> QED BY <1>1 DEF Nth, Serials

\* What a transfer does to the input buffer.
LEMMA Moved ==
    ASSUME OrderTypes, NEW in, NEW out, Transfer(in, out), Len(in[InputQ]) \in 0..(N - 1), out[InputQ] \in {0, 1}
    PROVE  /\ buf' = [q \in Queues |-> [p \in 0..(N - 1) |-> buf'[q][p]]]
           /\ head'[InputQ] = Pos(head[InputQ], Len(in[InputQ])) /\ tail'[InputQ] = Pos(tail[InputQ], out[InputQ])
           /\ \A p \in 0..(N - 1) :
                 LET hits == {i \in DOMAIN in[InputQ] : Advance(head[InputQ], i - 1) = p}
                 IN  buf'[InputQ][p] = IF hits = {} THEN buf[InputQ][p] ELSE in[InputQ][CHOOSE i \in hits : TRUE]
<1>1. InputQ \in Queues /\ N \in Nat /\ N >= 2
  BY SerialAssumption DEF Queues
<1>2. \A q \in Queues : DOMAIN buf[q] = 0..(N - 1)
  BY DEF OrderTypes
<1>3. buf' = [q \in Queues |-> [p \in 0..(N - 1) |->
                LET hits == {i \in DOMAIN in[q] : Advance(head[q], i - 1) = p}
                IN  IF hits = {} THEN buf[q][p] ELSE in[q][CHOOSE i \in hits : TRUE]]]
  BY <1>2 DEF Transfer
<1>4. Len(in[InputQ]) \in 0..N /\ out[InputQ] \in 0..N
  BY <1>1
<1>5. head'[InputQ] = Advance(head[InputQ], Len(in[InputQ])) /\ tail'[InputQ] = Advance(tail[InputQ], out[InputQ])
  BY <1>1 DEF Transfer
<1>6. head'[InputQ] = Pos(head[InputQ], Len(in[InputQ])) /\ tail'[InputQ] = Pos(tail[InputQ], out[InputQ])
  BY <1>4, <1>5, Rings DEF Advance, OrderTypes
<1> QED BY <1>1, <1>3, <1>6

\* Bytes are received.
LEMMA Puts ==
    ASSUME OrderTypes, InOrder, NEW n \in Nat, n <= N - 1 - Count(InputQ), NEW out, out[InputQ] = 0,
           Transfer(Add(InputQ, Received(n)), out), next_in' = (next_in + n) % (N + 2), next_out' = next_out
    PROVE  OrderTypes' /\ InOrder'
<1> DEFINE in == Add(InputQ, Received(n))
<1>1. PICK h, t, k, m, b : /\ h = head[InputQ] /\ t = tail[InputQ] /\ k = next_out /\ m = next_in
                           /\ b = buf[InputQ]
  OBVIOUS
<1>2. PICK c : c = Between(h, t)
  OBVIOUS
<1>3. /\ N \in Nat /\ N >= 2 /\ h \in 0..(N - 1) /\ t \in 0..(N - 1) /\ k \in Serials /\ m \in Serials
      /\ c \in 0..(N - 1) /\ n <= N - 1 - c /\ m = Nth(k, c)
  <2>1. N \in Nat /\ N >= 2
    BY SerialAssumption
  <2>2. Count(InputQ) = c
    BY <1>1, <1>2, Rings DEF OrderTypes, Count
  <2>3. h \in 0..(N - 1) /\ t \in 0..(N - 1) /\ k \in Serials /\ m \in Serials
    BY <1>1 DEF OrderTypes
  <2>4. c \in 0..(N - 1)
    BY <1>2, <2>1, <2>3 DEF Between
  <2>5. m = Nth(k, c)
    BY <1>1, <1>2 DEF InOrder
  <2>6. n <= N - 1 - c
    BY <2>2
  <2> QED BY <2>1, <2>3, <2>4, <2>5, <2>6
<1>4. /\ in[InputQ] = Received(n) /\ Len(Received(n)) = n /\ DOMAIN Received(n) = 1..n
      /\ \A i \in 1..n : Received(n)[i] = <<NULL, Nth(m, i - 1)>>
  <2>1. in[InputQ] = Received(n)
    BY DEF Add, None, Queues
  <2>2. \A i \in 1..n : (next_in + i - 1) % (N + 2) = Nth(m, i - 1)
    <3> SUFFICES ASSUME NEW i \in 1..n PROVE (next_in + i - 1) % (N + 2) = Nth(m, i - 1)
      OBVIOUS
    <3>1. i - 1 \in 0..(N + 1) /\ next_in + i - 1 = m + (i - 1)
      BY <1>1, <1>3 DEF Serials
    <3> QED BY <1>3, <3>1, Rings
  <2> QED BY <2>1, <2>2 DEF Received
<1>5. /\ \A p \in 0..(N - 1) :
            LET hits == {i \in 1..n : Advance(h, i - 1) = p}
            IN  buf'[InputQ][p] = IF hits = {} THEN b[p] ELSE Received(n)[CHOOSE i \in hits : TRUE]
      /\ buf' = [q \in Queues |-> [p \in 0..(N - 1) |-> buf'[q][p]]]
      /\ head'[InputQ] = Pos(h, n) /\ tail'[InputQ] = t
  <2>1. Len(in[InputQ]) \in 0..(N - 1)
    BY <1>3, <1>4
  <2>2. Pos(t, 0) = t
    BY <1>3 DEF Pos
  <2>3. DOMAIN in[InputQ] = 1..n /\ Len(in[InputQ]) = n
    BY <1>4
  <2>4. Transfer(in, out) /\ out[InputQ] \in {0, 1}
    OBVIOUS
  <2>5. in[InputQ] = Received(n)
    BY <1>4
  <2> HIDE DEF in
  <2>6. /\ buf' = [q \in Queues |-> [p \in 0..(N - 1) |-> buf'[q][p]]]
        /\ head'[InputQ] = Pos(head[InputQ], Len(in[InputQ])) /\ tail'[InputQ] = Pos(tail[InputQ], out[InputQ])
        /\ \A p \in 0..(N - 1) :
              LET hits == {i \in DOMAIN in[InputQ] : Advance(head[InputQ], i - 1) = p}
              IN  buf'[InputQ][p] = IF hits = {} THEN buf[InputQ][p] ELSE in[InputQ][CHOOSE i \in hits : TRUE]
    BY <2>1, <2>4, Moved
  <2>7. head'[InputQ] = Pos(h, n) /\ tail'[InputQ] = t
    BY <1>1, <2>2, <2>3, <2>6
  <2>8. \A p \in 0..(N - 1) :
           LET hits == {i \in 1..n : Advance(h, i - 1) = p}
           IN  buf'[InputQ][p] = IF hits = {} THEN b[p] ELSE Received(n)[CHOOSE i \in hits : TRUE]
    BY <1>1, <2>3, <2>5, <2>6
  <2> QED BY <2>6, <2>7, <2>8
<1>6. next_in' = Nth(m, n) /\ next_out' = k
  <2>1. n \in 0..(N + 1)
    BY <1>3
  <2> QED BY <1>1, <1>3, <2>1, Rings
<1>7. /\ Pos(h, n) \in 0..(N - 1) /\ Between(Pos(h, n), t) = c + n
      /\ \A i, j \in 0..(N - 1) : i < n /\ j < n /\ Pos(h, i) = Pos(h, j) => i = j
      /\ \A i, j \in 0..(N - 1) : i < n /\ j < c => Pos(h, i) # Pos(t, j)
      /\ \A i \in 0..(N - 1) : i < n => Pos(t, c + i) = Pos(h, i)
  BY <1>2, <1>3, RingPut
<1>8. \A i \in 1..n : i - 1 \in 0..(N - 1) /\ i - 1 < n /\ Advance(h, i - 1) = Pos(h, i - 1)
  <2> SUFFICES ASSUME NEW i \in 1..n PROVE i - 1 \in 0..(N - 1) /\ i - 1 < n /\ Advance(h, i - 1) = Pos(h, i - 1)
    OBVIOUS
  <2>1. i - 1 \in 0..(N - 1) /\ i - 1 < n /\ i - 1 \in 0..N
    BY <1>3
  <2> QED BY <1>3, <2>1, Rings DEF Advance
<1>9. ASSUME NEW j \in 0..(N - 1), j < c
      PROVE  buf'[InputQ][Pos(t, j)] = <<NULL, Nth(k, j)>>
  <2>1. {i \in 1..n : Advance(h, i - 1) = Pos(t, j)} = {}
    BY <1>7, <1>8, <1>9
  <2>2. Pos(t, j) \in 0..(N - 1)
    BY <1>3 DEF Pos
  <2>3. b[Pos(t, j)] = <<NULL, Nth(k, j)>>
    BY <1>1, <1>2, <1>9 DEF InOrder
  <2> QED BY <1>5, <2>1, <2>2, <2>3
<1>10. ASSUME NEW j \in 0..(N - 1), j >= c, j < c + n
       PROVE  buf'[InputQ][Pos(t, j)] = <<NULL, Nth(k, j)>>
  <2>1. j - c \in 0..(N - 1) /\ j - c < n /\ c + (j - c) = j /\ (j - c) + 1 \in 1..n /\ ((j - c) + 1) - 1 = j - c
    BY <1>3, <1>10
  <2>2. PICK i \in 1..n : i - 1 = j - c
    BY <2>1
  <2>3. Pos(t, j) = Pos(h, i - 1) /\ Pos(h, i - 1) \in 0..(N - 1)
    <3>1. Pos(t, j) = Pos(h, i - 1)
      BY <1>7, <2>1, <2>2
    <3> QED BY <1>3, <1>10, <3>1 DEF Pos
  <2>4. {g \in 1..n : Advance(h, g - 1) = Pos(h, i - 1)} = {i}
    <3>1. ASSUME NEW g \in 1..n, Advance(h, g - 1) = Pos(h, i - 1) PROVE g = i
      <4>1. Pos(h, g - 1) = Pos(h, i - 1) /\ g - 1 \in 0..(N - 1) /\ i - 1 \in 0..(N - 1) /\ g - 1 < n /\ i - 1 < n
        BY <1>8, <3>1
      <4>2. g - 1 = i - 1
        BY <1>7, <4>1
      <4> QED BY <1>3, <4>2
    <3> QED BY <1>8, <3>1
  <2>5. (CHOOSE g \in {i} : TRUE) = i /\ {i} # {}
    OBVIOUS
  <2>6. buf'[InputQ][Pos(h, i - 1)] = Received(n)[i]
    <3>1. buf'[InputQ][Pos(h, i - 1)] =
             IF {g \in 1..n : Advance(h, g - 1) = Pos(h, i - 1)} = {} THEN b[Pos(h, i - 1)]
             ELSE Received(n)[CHOOSE g \in {g \in 1..n : Advance(h, g - 1) = Pos(h, i - 1)} : TRUE]
      BY <1>5, <2>3
    <3> QED BY <2>4, <2>5, <3>1
  <2>7. Nth(m, i - 1) = Nth(k, j)
    <3>1. c \in Nat /\ i - 1 \in Nat /\ c + (i - 1) < N /\ c + (i - 1) = j
      BY <1>3, <1>10, <2>1, <2>2
    <3> QED BY <1>3, <3>1, NthIs
  <2> QED BY <1>4, <2>3, <2>6, <2>7
<1>11. Nth(m, n) = Nth(k, c + n) /\ Nth(m, n) \in Serials
  <2>1. c \in Nat /\ c + n < N /\ n \in 0..(N + 1)
    BY <1>3
  <2> QED BY <1>3, <2>1, NthIs
<1>12. OrderTypes'
  BY <1>3, <1>5, <1>6, <1>7, <1>11 DEF OrderTypes
<1>13. InOrder'
  <2>1. Between(head'[InputQ], tail'[InputQ]) = c + n
    BY <1>5, <1>7
  <2>2. \A j \in 0..(N - 1) : j < c + n => buf'[InputQ][Pos(t, j)] = <<NULL, Nth(k, j)>>
    BY <1>3, <1>9, <1>10
  <2> QED BY <1>5, <1>6, <1>11, <2>1, <2>2 DEF InOrder
<1> QED BY <1>12, <1>13

\* No byte goes into the input buffer: one comes out of it, or none.
LEMMA Takes ==
    ASSUME OrderTypes, InOrder, NEW in, NEW out, Transfer(in, out), in[InputQ] = <<>>, next_in' = next_in,
           \/ out[InputQ] = 0 /\ next_out' = next_out
           \/ out[InputQ] = 1 /\ next_out' = (next_out + 1) % (N + 2) /\ ~Empty(InputQ)
    PROVE  OrderTypes' /\ InOrder'
<1>1. PICK h, t, k, m, b : /\ h = head[InputQ] /\ t = tail[InputQ] /\ k = next_out /\ m = next_in
                           /\ b = buf[InputQ]
  OBVIOUS
<1>2. PICK c : c = Between(h, t)
  OBVIOUS
<1>3. /\ N \in Nat /\ N >= 2 /\ h \in 0..(N - 1) /\ t \in 0..(N - 1) /\ k \in Serials /\ m \in Serials
      /\ c \in 0..(N - 1) /\ m = Nth(k, c)
  BY <1>1, <1>2, SerialAssumption DEF OrderTypes, InOrder, Between
<1>4. /\ \A p \in 0..(N - 1) : buf'[InputQ][p] = b[p]
      /\ buf' = [q \in Queues |-> [p \in 0..(N - 1) |-> buf'[q][p]]]
      /\ head'[InputQ] = h /\ tail'[InputQ] = Pos(t, out[InputQ])
  <2>1. Len(in[InputQ]) = 0 /\ DOMAIN in[InputQ] = {}
    OBVIOUS
  <2>2. Pos(h, 0) = h /\ 0 \in 0..(N - 1)
    BY <1>3 DEF Pos
  <2>3. \A p : {i \in DOMAIN in[InputQ] : Advance(h, i - 1) = p} = {}
    BY <2>1
  <2>4. out[InputQ] \in {0, 1}
    OBVIOUS
  <2>5. /\ \A p \in 0..(N - 1) :
              LET hits == {i \in DOMAIN in[InputQ] : Advance(h, i - 1) = p}
              IN  buf'[InputQ][p] = IF hits = {} THEN b[p] ELSE in[InputQ][CHOOSE i \in hits : TRUE]
        /\ buf' = [q \in Queues |-> [p \in 0..(N - 1) |-> buf'[q][p]]]
        /\ head'[InputQ] = Pos(h, Len(in[InputQ])) /\ tail'[InputQ] = Pos(t, out[InputQ])
    BY <1>1, <2>1, <2>2, <2>4, Moved
  <2> QED BY <2>1, <2>2, <2>3, <2>5
<1>5. CASE out[InputQ] = 0 /\ next_out' = next_out
  <2>1. Pos(t, 0) = t
    BY <1>3 DEF Pos
  <2>2. \A i \in 0..(N - 1) : Pos(t, i) \in 0..(N - 1)
    BY <1>3 DEF Pos
  <2>3. \A i \in 0..(N - 1) : i < c => b[Pos(t, i)] = <<NULL, Nth(k, i)>>
    BY <1>1, <1>2 DEF InOrder
  <2>4. head'[InputQ] = h /\ tail'[InputQ] = t /\ next_out' = k /\ next_in' = m
    BY <1>1, <1>4, <1>5, <2>1
  <2>5. \A i \in 0..(N - 1) : i < c => buf'[InputQ][Pos(t, i)] = <<NULL, Nth(k, i)>>
    BY <1>4, <2>2, <2>3
  <2>6. OrderTypes'
    BY <1>3, <1>4, <2>4 DEF OrderTypes
  <2>7. InOrder'
    BY <1>2, <1>3, <2>4, <2>5 DEF InOrder
  <2> QED BY <2>6, <2>7
<1>6. CASE out[InputQ] = 1 /\ next_out' = (next_out + 1) % (N + 2) /\ ~Empty(InputQ)
  <2>1. c > 0
    BY <1>1, <1>2, <1>3, <1>6 DEF Empty, Between
  <2>2. /\ Pos(t, 1) \in 0..(N - 1) /\ Between(h, Pos(t, 1)) = c - 1
        /\ \A i \in 0..(N - 1) : i + 1 < N => Pos(Pos(t, 1), i) = Pos(t, i + 1)
    BY <1>2, <1>3, <2>1, RingTake
  <2>3. next_out' = Nth(k, 1) /\ Nth(k, 1) \in Serials
    <3>1. 1 \in 0..(N + 1)
      BY <1>3
    <3> QED BY <1>1, <1>3, <1>6, <3>1, Rings, NthIs
  <2>4. \A i \in 0..(N - 1) : i < c - 1 =>
           /\ i + 1 \in 0..(N - 1) /\ i + 1 < c /\ Pos(t, i + 1) \in 0..(N - 1)
           /\ Nth(Nth(k, 1), i) = Nth(k, i + 1)
    <3> SUFFICES ASSUME NEW i \in 0..(N - 1), i < c - 1
                 PROVE  /\ i + 1 \in 0..(N - 1) /\ i + 1 < c /\ Pos(t, i + 1) \in 0..(N - 1)
                        /\ Nth(Nth(k, 1), i) = Nth(k, i + 1)
      OBVIOUS
    <3>1. i + 1 \in 0..(N - 1) /\ i + 1 < c /\ 1 + i < N /\ 1 + i = i + 1 /\ i \in Nat
      BY <1>3
    <3>2. Nth(Nth(k, 1), i) = Nth(k, 1 + i)
      BY <1>3, <3>1, NthIs
    <3>3. Pos(t, i + 1) \in 0..(N - 1)
      BY <1>3, <3>1 DEF Pos
    <3> QED BY <3>1, <3>2, <3>3
  <2>5. \A i \in 0..(N - 1) : i < c => b[Pos(t, i)] = <<NULL, Nth(k, i)>>
    BY <1>1, <1>2 DEF InOrder
  <2>6. m = Nth(Nth(k, 1), c - 1)
    <3>1. 1 \in Nat /\ c - 1 \in Nat /\ 1 + (c - 1) < N /\ 1 + (c - 1) = c
      BY <1>3, <2>1
    <3> QED BY <1>3, <3>1, NthIs
  <2>7. \A i \in 0..(N - 1) : i < c - 1 => buf'[InputQ][Pos(Pos(t, 1), i)] = <<NULL, Nth(Nth(k, 1), i)>>
    <3> SUFFICES ASSUME NEW i \in 0..(N - 1), i < c - 1
                 PROVE  buf'[InputQ][Pos(Pos(t, 1), i)] = <<NULL, Nth(Nth(k, 1), i)>>
      OBVIOUS
    <3>1. Pos(Pos(t, 1), i) = Pos(t, i + 1)
      BY <1>3, <2>2
    <3> QED BY <1>4, <2>4, <2>5, <3>1
  <2> QED BY <1>1, <1>3, <1>4, <1>6, <2>2, <2>3, <2>6, <2>7 DEF OrderTypes, InOrder
<1> QED BY <1>5, <1>6

\* Steps that leave the buffer and the serial numbers alone.
LEMMA OrderStays ==
    ASSUME OrderTypes, InOrder, UNCHANGED <<buf, head, tail, next_in, next_out>>
    PROVE  OrderTypes' /\ InOrder'
<1>1. OrderTypes'
  BY DEF OrderTypes
<1>2. InOrder'
  BY DEF InOrder
<1> QED BY <1>1, <1>2

\* Every step keeps the order: input goes in by interrupt handlers, when
\* there is room, and comes out in input_getc().
LEMMA OrderKept ==
    ASSUME OrderTypes, InOrder, Next \/ UNCHANGED vars
    PROVE  OrderTypes' /\ InOrder'
<1>0. /\ N \in Nat /\ N >= 2 /\ InputQ \in Queues /\ TxQ \in Queues /\ InputQ # TxQ
      /\ None[InputQ] = <<>>
      /\ \A b : Add(TxQ, b)[InputQ] = <<>>
      /\ \A n : Take(TxQ, n)[InputQ] = 0 /\ Take(InputQ, n)[InputQ] = n
  BY SerialAssumption, Names DEF Queues, None, Add, Take
<1>1. CASE KeyboardInterrupt
  <2>1. 1 <= N - 1 - Count(InputQ)
    <3>1. PICK h, t : h = head[InputQ] /\ t = tail[InputQ] /\ h \in 0..(N - 1) /\ t \in 0..(N - 1)
      BY DEF OrderTypes
    <3>2. (h + 1) % N = Pos(h, 1) /\ Count(InputQ) = Between(h, t)
      <4>1. 1 \in 0..N
        BY <1>0
      <4> QED BY <3>1, <4>1, Rings DEF Count
    <3>3. Pos(h, 1) # t
      BY <1>1, <3>1, <3>2 DEF KeyboardInterrupt, Full, NextPos
    <3>4. Between(h, t) \in 0..(N - 2)
      <4>1. N \in Nat /\ N >= 2 /\ h \in 0..(N - 1) /\ t \in 0..(N - 1) /\ Pos(h, 1) # t
        BY <1>0, <3>1, <3>3
      <4> QED BY ONLY <4>1, SMTT(30) DEF Pos, Between
    <3>5. Count(InputQ) \in 0..(N - 2)
      BY <3>2, <3>4
    <3> QED BY ONLY <1>0, <3>5
  <2>2. /\ Transfer(Add(InputQ, Received(1)), Take(InputQ, 0)) /\ next_in' = (next_in + 1) % (N + 2)
        /\ next_out' = next_out /\ Take(InputQ, 0)[InputQ] = 0 /\ 1 \in Nat
    BY <1>0, <1>1 DEF KeyboardInterrupt, InputPutc
  <2> QED BY <2>1, <2>2, Puts
<1>2. CASE PortInterrupt
  <2>1. PICK n, o \in 0..(N - 1) : SerialInterrupt(n, o)
    BY <1>2 DEF PortInterrupt
  <2>2. n \in Nat /\ n <= N - 1 - Count(InputQ)
    <3>1. n \in 0..Room(InputQ) /\ Count(InputQ) \in Nat
      <4>1. Count(InputQ) = Between(head[InputQ], tail[InputQ])
        BY Rings DEF OrderTypes, Count
      <4> QED BY <1>0, <2>1, <4>1 DEF SerialInterrupt, OrderTypes, Between
    <3> QED BY <1>0, <3>1 DEF Room
  <2>3. /\ Transfer(Add(InputQ, Received(n)), Take(TxQ, o)) /\ next_in' = (next_in + n) % (N + 2)
        /\ next_out' = next_out /\ Take(TxQ, o)[InputQ] = 0
    BY <1>0, <2>1 DEF SerialInterrupt, InputPutc
  <2> QED BY <2>2, <2>3, Puts
<1>3. CASE Getc
  <2>1. /\ Transfer(None, Take(InputQ, 1)) /\ None[InputQ] = <<>> /\ Take(InputQ, 1)[InputQ] = 1
        /\ next_in' = next_in /\ next_out' = (next_out + 1) % (N + 2) /\ ~Empty(InputQ)
    BY <1>0, <1>3 DEF Getc
  <2> QED BY <2>1, Takes
<1>4. ASSUME NEW b, NEW n, Queue(b, n)
      PROVE  OrderTypes' /\ InOrder'
  <2>1. /\ Transfer(Add(TxQ, <<b>>), Take(TxQ, n)) /\ Add(TxQ, <<b>>)[InputQ] = <<>> /\ Take(TxQ, n)[InputQ] = 0
        /\ next_in' = next_in /\ next_out' = next_out
    BY <1>0, <1>4 DEF Queue
  <2> QED BY <2>1, Takes
<1>5. CASE Putc \/ PutcPolled \/ InterruptPrint
  BY <1>4, <1>5 DEF Putc, PutcPolled, InterruptPrint
<1>6. CASE ClientStep
  <2>1. UNCHANGED <<buf, head, tail, next_in, next_out>>
    BY <1>6 DEF ClientStep, StartGetc, StartPutbuf
  <2> QED BY <2>1, OrderStays
<1>7. CASE \/ WaitForLock(InputQ, "getc", ~Empty(InputQ)) \/ WaitForLock(TxQ, "putc", ~Full(TxQ))
           \/ LockStep \/ WaitOnQueue \/ WakeUp(InputQ, "getc_up") \/ WakeUp(TxQ, "putc_up")
           \/ Putchar \/ EndPutbuf
  <2>1. UNCHANGED <<buf, head, tail, next_in, next_out>>
    <3>1. CASE WaitForLock(InputQ, "getc", ~Empty(InputQ)) \/ WaitForLock(TxQ, "putc", ~Full(TxQ))
      BY <3>1 DEF WaitForLock
    <3>2. CASE LockStep
      BY <3>2 DEF LockStep
    <3>3. CASE WaitOnQueue \/ WakeUp(InputQ, "getc_up") \/ WakeUp(TxQ, "putc_up")
      BY <3>3 DEF WaitOnQueue, WakeUp
    <3>4. CASE Putchar \/ EndPutbuf
      BY <3>4 DEF Putchar, EndPutbuf
    <3> QED BY <1>7, <3>1, <3>2, <3>3, <3>4
  <2> QED BY <2>1, OrderStays
<1>8. CASE \/ ByteArrives \/ ThrEmpties \/ TimerInterrupt \/ UNCHANGED vars
           \/ (IdleBlock \/ IdleHlt) /\ UNCHANGED serialVars
  <2>1. UNCHANGED <<buf, head, tail, next_in, next_out>>
    BY <1>8 DEF ByteArrives, ThrEmpties, TimerInterrupt, vars
  <2> QED BY <2>1, OrderStays
<1> QED
  <2> HIDE DEF serialVars
  <2>1. CASE DriverStep
    BY <1>3, <1>5, <1>7, <1>8, <2>1 DEF DriverStep
  <2> QED BY <1>1, <1>2, <1>5, <1>6, <1>8, <2>1 DEF Next

\* The order holds at first.
LEMMA OrderStarts == Init => OrderTypes /\ InOrder
<1> SUFFICES ASSUME Init PROVE OrderTypes /\ InOrder
  OBVIOUS
<1>1. N \in Nat /\ N >= 2 /\ InputQ \in Queues
  BY SerialAssumption DEF Queues
<1>2. /\ head[InputQ] = 0 /\ tail[InputQ] = 0 /\ next_in = 0 /\ next_out = 0
      /\ buf = [q \in Queues |-> [p \in 0..(N - 1) |-> IrqByte]]
  BY <1>1 DEF Init
<1>3. Between(0, 0) = 0 /\ Nth(0, 0) = 0 /\ 0 \in 0..(N - 1) /\ 0 \in Serials
  BY <1>1 DEF Between, Nth, Serials
<1>4. OrderTypes
  BY <1>2, <1>3 DEF OrderTypes
<1>5. InOrder
  BY <1>2, <1>3 DEF InOrder
<1> QED BY <1>4, <1>5

----------------------------------------------------------------------------
(* With one reader, the assertion of wait() holds.                         *)

\* t is in input_getc(), or in the lock of its queue.
Reading(t) ==
    \/ at[t] \in {"getc", "getc_wait", "getc_up"}
    \/ at[t] \in {"acquire", "hold", "release"} /\ obj[t] = InputQ

\* t is in serial_putc(), or in the lock of its queue.
Printing(t) ==
    \/ at[t] \in {"putc", "putc_wait", "putc_up"}
    \/ at[t] \in {"acquire", "hold", "release"} /\ obj[t] = TxQ

\* t has console_lock, or is about to have it or to give it back.
HasConsole(t) ==
    \/ lock_holder[Console] = t
    \/ at[t] \in {"hold", "release"} /\ obj[t] = Console

\* No two threads read the keyboard.
OneReader == \A t, u \in Readers : t = u

\* t has tested q and not yet called wait(), and no other thread uses q.
AboutToWait(t, q) ==
    /\ q = InputQ => OneReader
    /\ \/ at[t] \in {"acquire", "hold"} /\ obj[t] = q
       \/ q = InputQ /\ at[t] = "getc_wait"
       \/ q = TxQ /\ at[t] = "putc_wait"

\* What wait() asserts of q.
MustWait(q) == (q = InputQ => Empty(InputQ)) /\ (q = TxQ => Full(TxQ))

\* The calls of the drivers under way.
CallInv ==
    /\ level \in [Threads -> {"on", "off"}] /\ old_level \in [Threads -> {"on", "off"}]
    /\ \A t \in Threads : Reading(t) => t \in Readers
    /\ \A t \in Threads : Printing(t) \/ at[t] = "putbuf" => lock_holder[Console] = t
    /\ \A t, u \in Threads : HasConsole(t) /\ HasConsole(u) => t = u
    /\ \A t \in Threads : at[t] \in {"hold", "release"} /\ obj[t] = Console => lock_holder[Console] # t
    /\ sema_value[Console] \in {0, 1}
    /\ sema_value[Console] > 0 => \A t \in Threads : ~HasConsole(t)
    /\ \A q \in Queues : sema_value[q] = 1 \/ \E t \in Threads : Has(t, q)
    /\ \A t \in Threads : Reading(t) \/ Printing(t) => level[t] = "off"
    /\ \A t \in Threads : \A q \in Queues : AboutToWait(t, q) => t = current /\ MustWait(q)

\* What a step of the current thread, or of an interrupt, must show.
LEMMA CallMoves ==
    ASSUME SerialInv, CallInv, NEW o \in Threads, o = current,
           \A t \in Threads : t # o => at'[t] = at[t] /\ obj'[t] = obj[t] /\ level'[t] = level[t],
           level' \in [Threads -> {"on", "off"}], old_level' \in [Threads -> {"on", "off"}],
           Reading(o)' => o \in Readers,
           Printing(o)' \/ at'[o] = "putbuf" => lock_holder'[Console] = o,
           Reading(o)' \/ Printing(o)' => level'[o] = "off",
           \A t \in Threads : t # o => (lock_holder'[Console] = t <=> lock_holder[Console] = t),
           at'[o] \in {"hold", "release"} /\ obj'[o] = Console => lock_holder'[Console] # o,
           HasConsole(o)' => HasConsole(o) \/ sema_value[Console] > 0,
           sema_value'[Console] \in {0, 1},
           sema_value'[Console] > 0 => ~HasConsole(o)' /\ (sema_value[Console] > 0 \/ HasConsole(o)),
           \A q \in Queues : \/ Has(o, q)' \/ sema_value'[q] = 1
                             \/ (Has(o, q)' <=> Has(o, q)) /\ sema_value'[q] = sema_value[q],
           \A q \in Queues : AboutToWait(o, q)' => current' = o /\ MustWait(q)'
    PROVE  CallInv'
<1>1. \A t \in Threads : t # o =>
         /\ Reading(t)' <=> Reading(t)
         /\ Printing(t)' <=> Printing(t)
         /\ HasConsole(t)' <=> HasConsole(t)
         /\ \A q \in Queues : /\ Has(t, q)' <=> Has(t, q)
                              /\ AboutToWait(t, q)' <=> AboutToWait(t, q)
  BY DEF Reading, Printing, HasConsole, Has, AboutToWait
<1>2. \A t \in Threads : Reading(t)' => t \in Readers
  BY <1>1 DEF CallInv
<1>3. \A t \in Threads : Printing(t)' \/ at'[t] = "putbuf" => lock_holder'[Console] = t
  BY <1>1 DEF CallInv
<1>4. \A t, u \in Threads : HasConsole(t)' /\ HasConsole(u)' => t = u
  BY <1>1 DEF CallInv
<1>5. sema_value'[Console] > 0 => \A t \in Threads : ~HasConsole(t)'
  BY <1>1 DEF CallInv
<1>6. \A q \in Queues : sema_value'[q] = 1 \/ \E t \in Threads : Has(t, q)'
  BY <1>1 DEF CallInv
<1>7. \A t \in Threads : Reading(t)' \/ Printing(t)' => level'[t] = "off"
  BY <1>1 DEF CallInv
<1>8. \A t \in Threads : \A q \in Queues : AboutToWait(t, q)' => t = current' /\ MustWait(q)'
  BY <1>1 DEF CallInv
<1>9. \A t \in Threads : at'[t] \in {"hold", "release"} /\ obj'[t] = Console => lock_holder'[Console] # t
  BY <1>1 DEF CallInv
<1> QED BY <1>2, <1>3, <1>4, <1>5, <1>6, <1>7, <1>8, <1>9 DEF CallInv

\* Steps of the idle thread, of interrupts and of the port.
LEMMA CallsWait ==
    ASSUME SerialInv, CallInv, UNCHANGED <<sema_value, lock_holder, level, old_level>>,
           NEW o \in Threads, o = current,
           \A t \in Threads : \/ at'[t] = at[t] /\ obj'[t] = obj[t]
                              \/ t = o /\ at[t] \in Idling /\ at'[t] \in Idling,
           UNCHANGED <<current, head, tail>> \/ IntrOn \/ at[o] \in Idling
    PROVE  CallInv'
<1>1. IntrOn => ~Reading(o) /\ ~Printing(o)
  BY DEF IntrOn, CallInv
<1>2. \A q \in Queues : AboutToWait(o, q) => Reading(o) \/ Printing(o)
  BY CurrentIs DEF AboutToWait, Reading, Printing
<1>3. /\ Reading(o)' <=> Reading(o)
      /\ Printing(o)' <=> Printing(o)
      /\ HasConsole(o)' <=> HasConsole(o)
      /\ \A q \in Queues : /\ Has(o, q)' <=> Has(o, q)
                           /\ AboutToWait(o, q)' <=> AboutToWait(o, q)
      /\ at'[o] = "putbuf" => at[o] = "putbuf"
      /\ at[o] \in Idling => ~Reading(o) /\ ~Printing(o)
  BY DEF Reading, Printing, HasConsole, Has, AboutToWait
<1>4. \A q \in Queues : AboutToWait(o, q)' => current' = o /\ MustWait(q)'
  BY <1>1, <1>2, <1>3 DEF CallInv, MustWait, Empty, Full
<1>5. \A t \in Threads : t # o => at'[t] = at[t] /\ obj'[t] = obj[t] /\ level'[t] = level[t]
  OBVIOUS
<1> QED BY <1>3, <1>4, <1>5, CallMoves DEF CallInv

\* The steps of the current thread that no other one sees.
LEMMA ThreadCalls ==
    ASSUME SerialInv, CallInv,
           \/ StartGetc \/ StartPutbuf \/ Putchar \/ EndPutbuf
           \/ WaitForLock(InputQ, "getc", ~Empty(InputQ)) \/ WaitForLock(TxQ, "putc", ~Full(TxQ))
           \/ (IntrDisable \/ IntrEnable) /\ UNCHANGED serialVars
    PROVE  CallInv'
<1>0. /\ SerialTypes /\ InputQ # TxQ /\ InputQ # NULL /\ TxQ # NULL /\ Console # NULL /\ Console \notin Queues
      /\ InputQ \in Queues /\ TxQ \in Queues /\ Queues = {InputQ, TxQ} /\ NULL \notin Threads
      /\ Console # InputQ /\ Console # TxQ
      /\ level \in [Threads -> {"on", "off"}] /\ old_level \in [Threads -> {"on", "off"}]
  BY Names, CurrentIs DEF SerialInv, CallInv
<1>1. PICK o \in Threads : o = current
  BY CurrentIs
<1>2. /\ \A t \in Threads : t # o => at'[t] = at[t] /\ obj'[t] = obj[t] /\ level'[t] = level[t]
      /\ level' \in [Threads -> {"on", "off"}] /\ old_level' \in [Threads -> {"on", "off"}]
      /\ UNCHANGED <<current, sema_value, head, tail>>
  <2>1. CASE StartGetc \/ Putchar
    BY <1>0, <1>1, <2>1 DEF StartGetc, Putchar, Enter, SerialTypes, schedVars
  <2>2. CASE StartPutbuf \/ EndPutbuf
    BY <1>0, <1>1, <2>2 DEF StartPutbuf, EndPutbuf, ClearHolder, SerialTypes, schedVars
  <2>3. CASE WaitForLock(InputQ, "getc", ~Empty(InputQ)) \/ WaitForLock(TxQ, "putc", ~Full(TxQ))
    BY <1>0, <1>1, <2>3 DEF WaitForLock, SerialTypes, schedVars
  <2>4. CASE (IntrDisable \/ IntrEnable) /\ UNCHANGED serialVars
    BY <1>0, <1>1, <2>4 DEF IntrDisable, IntrEnable, SerialTypes, schedVars
  <2> QED BY <2>1, <2>2, <2>3, <2>4
<1>3. CASE StartGetc
  <2>1. at'[o] = "getc" /\ obj'[o] = NULL /\ level'[o] = "off" /\ o \in Readers /\ at[o] = "client" /\ lock_holder' = lock_holder
    BY <1>0, <1>1, <1>3 DEF StartGetc, Enter, AtClient, SerialTypes
  <2> QED BY <1>0, <1>1, <1>2, <2>1, CallMoves
    DEF Reading, Printing, HasConsole, Has, AboutToWait, CallInv
<1>4. CASE StartPutbuf
  <2>1. at'[o] = "acquire" /\ obj'[o] = Console /\ at[o] = "client" /\ lock_holder' = lock_holder
    BY <1>0, <1>1, <1>4 DEF StartPutbuf, AtClient, SerialTypes
  <2> QED BY <1>0, <1>1, <1>2, <2>1, CallMoves
    DEF Reading, Printing, HasConsole, Has, AboutToWait, CallInv
<1>5. CASE Putchar
  <2>1. at'[o] = "putc" /\ obj'[o] = NULL /\ level'[o] = "off" /\ at[o] = "putbuf" /\ lock_holder' = lock_holder
    BY <1>0, <1>1, <1>5 DEF Putchar, Enter, SerialTypes
  <2> QED BY <1>0, <1>1, <1>2, <2>1, CallMoves
    DEF Reading, Printing, HasConsole, Has, AboutToWait, CallInv
<1>6. CASE EndPutbuf
  <2>1. /\ at'[o] = "release" /\ obj'[o] = Console /\ at[o] = "putbuf" /\ lock_holder[Console] = o
        /\ lock_holder'[Console] = NULL /\ \A q \in Queues : lock_holder'[q] = lock_holder[q]
    BY <1>0, <1>1, <1>6, Names DEF EndPutbuf, ClearHolder, SerialTypes
  <2> QED BY <1>0, <1>1, <1>2, <2>1, CallMoves
    DEF Reading, Printing, HasConsole, Has, AboutToWait, CallInv
<1>7. CASE WaitForLock(InputQ, "getc", ~Empty(InputQ))
  <2>1. at'[o] = "acquire" /\ obj'[o] = InputQ /\ at[o] = "getc" /\ lock_holder' = lock_holder /\ level' = level /\ Empty(InputQ)
    BY <1>0, <1>1, <1>7 DEF WaitForLock, SerialTypes
  <2>2. Empty(InputQ)' /\ o \in Readers /\ level[o] = "off"
    BY <1>2, <2>1 DEF Empty, CallInv, Reading
  <2> QED BY <1>0, <1>1, <1>2, <2>1, <2>2, CallMoves
    DEF Reading, Printing, HasConsole, Has, AboutToWait, CallInv, MustWait
<1>8. CASE WaitForLock(TxQ, "putc", ~Full(TxQ))
  <2>1. at'[o] = "acquire" /\ obj'[o] = TxQ /\ at[o] = "putc" /\ lock_holder' = lock_holder /\ level' = level /\ Full(TxQ)
    BY <1>0, <1>1, <1>8 DEF WaitForLock, SerialTypes
  <2>2. Full(TxQ)' /\ lock_holder[Console] = o /\ level[o] = "off"
    BY <1>2, <2>1 DEF Full, CallInv, Printing
  <2> QED BY <1>0, <1>1, <1>2, <2>1, <2>2, CallMoves
    DEF Reading, Printing, HasConsole, Has, AboutToWait, CallInv, MustWait
<1>9. CASE (IntrDisable \/ IntrEnable) /\ UNCHANGED serialVars
  <2>1. at' = at /\ obj' = obj /\ at[o] = "client" /\ lock_holder' = lock_holder
    BY <1>1, <1>9 DEF IntrDisable, IntrEnable, AtClient
  <2> QED BY <1>0, <1>1, <1>2, <2>1, CallMoves
    DEF Reading, Printing, HasConsole, Has, AboutToWait, CallInv
<1> QED BY <1>3, <1>4, <1>5, <1>6, <1>7, <1>8, <1>9

\* The steps of locks: with no other reader, and no other thread that has the
\* console, a queue's lock is free and lock_acquire() does not sleep.
LEMMA LockCalls ==
    ASSUME SerialInv, CallInv, LockStep
    PROVE  CallInv'
<1>0. /\ SerialTypes /\ InputQ # TxQ /\ InputQ # NULL /\ TxQ # NULL /\ Console # NULL /\ Console \notin Queues
      /\ InputQ \in Queues /\ TxQ \in Queues /\ Queues = {InputQ, TxQ} /\ NULL \notin Threads
      /\ Console # InputQ /\ Console # TxQ /\ Locks = {InputQ, TxQ, Console}
      /\ level \in [Threads -> {"on", "off"}] /\ old_level \in [Threads -> {"on", "off"}]
      /\ \A l \in Locks : l \in SemaIds
  BY Names, CurrentIs, SerialAssumption DEF SerialInv, CallInv
<1>1. PICK o \in Threads : o = current
  BY CurrentIs
<1>2. PICK l \in Locks : \/ at[current] = "acquire" /\ LockAcquire(l)
                         \/ SetHolder(l, AfterHold(l))
                         \/ ReleaseUp(l, AfterRelease(l))
  BY DEF LockStep
<1>3. UNCHANGED <<head, tail, old_level>>
  BY DEF LockStep
<1>4. \A t \in Threads : t # o => at'[t] = at[t] /\ obj'[t] = obj[t]
  BY <1>0, <1>1, <1>2 DEF LockAcquire, SetHolder, ReleaseUp, SerialTypes
<1>5. level' = level
  BY <1>2 DEF LockAcquire, SetHolder, ReleaseUp
<1>6. CASE at[current] = "acquire" /\ SemaTake(l) /\ obj[current] = l /\ Goto("hold", l) /\ lock_holder' = lock_holder
  <2>1. /\ at[o] = "acquire" /\ obj[o] = l /\ at'[o] = "hold" /\ obj'[o] = l /\ current' = o /\ sema_value[l] > 0
        /\ \A s \in Locks : sema_value'[s] = IF s = l THEN sema_value[l] - 1 ELSE sema_value[s]
    BY <1>0, <1>1, <1>6 DEF SemaTake, SerialTypes, schedVars
  <2>2. l \in Queues => /\ sema_value[l] \in {0, 1}
                        /\ (l = InputQ => OneReader) => AboutToWait(o, l) /\ MustWait(l)
    BY <1>0, <2>1 DEF AboutToWait, SerialInv, QueuesLocked, CallInv
  <2>3. Console \in Locks /\ sema_value[Console] \in Nat
    BY <1>0 DEF SerialTypes
  <2>4. l = Console => sema_value'[Console] = 0
    <3>1. l = Console => \A t \in Threads : ~HasConsole(t)
      BY <2>1 DEF CallInv
    <3> QED BY <2>1, <2>3 DEF CallInv
  <2>5. l # Console => sema_value'[Console] = sema_value[Console]
    BY <2>1, <2>3
  <2>6. \A q \in Queues : \/ Has(o, q)' \/ sema_value'[q] = 1
                          \/ (Has(o, q)' <=> Has(o, q)) /\ sema_value'[q] = sema_value[q]
    BY <1>0, <2>1 DEF Has
  <2>7. \A q \in Queues : AboutToWait(o, q)' => current' = o /\ MustWait(q)'
    BY <1>0, <1>3, <2>1, <2>2 DEF AboutToWait, MustWait, Empty, Full
  <2>8. (Reading(o)' => Reading(o)) /\ (Printing(o)' => Printing(o)) /\ (HasConsole(o)' => HasConsole(o) \/ l = Console)
        /\ (l # Console => (HasConsole(o)' <=> HasConsole(o)))
    BY <1>0, <1>6, <2>1 DEF Reading, Printing, HasConsole
  <2>9. l = Console => lock_holder'[Console] # o
    BY <1>6, <2>1 DEF CallInv, HasConsole
  <2>10. at'[o] \in {"hold", "release"} /\ obj'[o] = Console => lock_holder'[Console] # o
    BY <2>1, <2>9
  <2>11. /\ sema_value'[Console] \in {0, 1}
         /\ sema_value'[Console] > 0 => ~HasConsole(o)' /\ (sema_value[Console] > 0 \/ HasConsole(o))
         /\ HasConsole(o)' => HasConsole(o) \/ sema_value[Console] > 0
    BY <2>1, <2>4, <2>5, <2>8 DEF CallInv
  <2>12. /\ Reading(o)' => o \in Readers
         /\ Printing(o)' \/ at'[o] = "putbuf" => lock_holder'[Console] = o
         /\ Reading(o)' \/ Printing(o)' => level'[o] = "off"
    BY <1>5, <1>6, <2>1, <2>8 DEF CallInv
  <2>13. /\ \A t \in Threads : t # o => at'[t] = at[t] /\ obj'[t] = obj[t] /\ level'[t] = level[t]
         /\ level' \in [Threads -> {"on", "off"}] /\ old_level' \in [Threads -> {"on", "off"}]
         /\ \A t \in Threads : t # o => (lock_holder'[Console] = t <=> lock_holder[Console] = t)
    BY <1>0, <1>3, <1>4, <1>5, <1>6
  <2> QED BY <1>1, <2>6, <2>7, <2>10, <2>11, <2>12, <2>13, CallMoves
<1>7. CASE at[current] = "acquire" /\ SemaSleep(l) /\ obj[current] = l /\ Goto("acquire", l) /\ lock_holder' = lock_holder
  <2>1. /\ at[o] = "acquire" /\ obj[o] = l /\ at'[o] = "acquire" /\ obj'[o] = l
        /\ sema_value[l] = 0 /\ sema_value' = sema_value
    BY <1>0, <1>1, <1>7 DEF SemaSleep, SerialTypes
  <2>2. l = InputQ => ~OneReader
    <3> SUFFICES ASSUME l = InputQ, OneReader PROVE FALSE
      OBVIOUS
    <3>1. PICK t \in Threads : Has(t, InputQ)
      BY <1>0, <2>1 DEF CallInv
    <3>2. Reading(t) /\ Reading(o)
      BY <1>0, <2>1, <3>1 DEF Has, Reading
    <3>3. t = o
      BY <3>2 DEF CallInv, OneReader
    <3> QED BY <1>0, <2>1, <3>1, <3>3 DEF Has
  <2>3. l # TxQ
    <3> SUFFICES ASSUME l = TxQ PROVE FALSE
      OBVIOUS
    <3>1. PICK t \in Threads : Has(t, TxQ)
      BY <1>0, <2>1 DEF CallInv
    <3>2. Printing(t) /\ Printing(o)
      BY <1>0, <2>1, <3>1 DEF Has, Printing
    <3>3. t = o
      BY <3>2 DEF CallInv
    <3> QED BY <1>0, <2>1, <3>1, <3>3 DEF Has
  <2>4. l = Console \/ (l = InputQ /\ ~OneReader)
    BY <1>0, <2>2, <2>3
  <2>5. \A q \in Queues : (Has(o, q)' <=> Has(o, q)) /\ ~AboutToWait(o, q)'
    BY <1>0, <2>1, <2>4 DEF Has, AboutToWait
  <2>6. (Reading(o)' => Reading(o)) /\ ~Printing(o)' /\ (HasConsole(o)' <=> HasConsole(o))
    BY <1>0, <1>7, <2>1, <2>4 DEF Reading, Printing, HasConsole
  <2> QED BY <1>0, <1>1, <1>3, <1>4, <1>5, <1>7, <2>1, <2>5, <2>6, CallMoves DEF CallInv
<1>8. CASE SetHolder(l, AfterHold(l))
  <2>1. /\ l = Console => AfterHold(l) = "putbuf"
        /\ l = InputQ => AfterHold(l) = "getc_wait"
        /\ l = TxQ => AfterHold(l) = "putc_wait"
    BY <1>0 DEF AfterHold
  <2>2. /\ at[o] = "hold" /\ obj[o] = l /\ at'[o] = AfterHold(l) /\ obj'[o] = NULL /\ current' = o
        /\ sema_value' = sema_value
        /\ \A k \in Locks : lock_holder'[k] = IF k = l THEN o ELSE lock_holder[k]
    BY <1>0, <1>1, <1>8 DEF SetHolder, SerialTypes, schedVars
  <2>3. Console \in Locks
    BY <1>0
  <2>4. \A t \in Threads : t # o => (lock_holder'[Console] = t <=> lock_holder[Console] = t)
    <3>1. l = Console => HasConsole(o)
      BY <2>2 DEF HasConsole
    <3>2. l = Console => \A t \in Threads : t # o => lock_holder[Console] # t
      BY <3>1 DEF CallInv, HasConsole
    <3> QED BY <2>2, <2>3, <3>2
  <2>5. /\ Reading(o)' => Reading(o)
        /\ Printing(o)' => Printing(o)
        /\ HasConsole(o)' <=> HasConsole(o)
        /\ at'[o] = "putbuf" => l = Console
    BY <1>0, <2>1, <2>2, <2>3 DEF Reading, Printing, HasConsole
  <2>6. Printing(o) => l # Console
    BY <1>0, <2>2 DEF Printing
  <2>7. \A q \in Queues : (Has(o, q)' <=> Has(o, q)) /\ (AboutToWait(o, q)' => AboutToWait(o, q))
    BY <1>0, <2>1, <2>2 DEF Has, AboutToWait
  <2>8. \A q \in Queues : AboutToWait(o, q)' => current' = o /\ MustWait(q)'
    BY <1>3, <2>2, <2>7 DEF CallInv, MustWait, Empty, Full
  <2>9. Printing(o)' \/ at'[o] = "putbuf" => lock_holder'[Console] = o
    BY <2>2, <2>3, <2>5, <2>6 DEF CallInv
  <2>10. at'[o] \notin {"hold", "release"}
    BY <1>0, <2>1, <2>2
  <2> QED BY <1>0, <1>1, <1>3, <1>4, <1>5, <2>2, <2>4, <2>5, <2>7, <2>8, <2>9, <2>10, CallMoves
    DEF CallInv
<1>9. CASE ReleaseUp(l, AfterRelease(l))
  <2>1. /\ l = Console => AfterRelease(l) = "client"
        /\ l = InputQ => AfterRelease(l) = "getc"
        /\ l = TxQ => AfterRelease(l) = "putc"
    BY <1>0 DEF AfterRelease
  <2>2. /\ at[o] = "release" /\ obj[o] = l /\ at'[o] = AfterRelease(l) /\ obj'[o] = NULL /\ current' = o
        /\ lock_holder' = lock_holder
        /\ \A k \in Locks : sema_value'[k] = IF k = l THEN sema_value[l] + 1 ELSE sema_value[k]
    BY <1>0, <1>1, <1>9 DEF ReleaseUp, SemaUp, SerialTypes
  <2>3. Console \in Locks /\ \A q \in Queues : q \in Locks
    BY <1>0
  <2>4. \A q \in Queues : sema_value'[q] = 1 \/ ((Has(o, q)' <=> Has(o, q)) /\ sema_value'[q] = sema_value[q])
    <3>1. l \in Queues => Has(o, l)
      BY <2>2 DEF Has
    <3>2. l \in Queues => sema_value[l] = 0
      BY <3>1 DEF SerialInv, QueuesLocked
    <3>3. \A q \in Queues : q # l => (Has(o, q)' <=> Has(o, q))
      BY <1>0, <2>1, <2>2 DEF Has
    <3> QED BY <2>2, <2>3, <3>2, <3>3
  <2>5. /\ Reading(o)' => Reading(o)
        /\ Printing(o)' => Printing(o)
        /\ l # Console => (HasConsole(o)' <=> HasConsole(o))
    BY <1>0, <2>1, <2>2 DEF Reading, Printing, HasConsole
  <2>6. l = Console => HasConsole(o) /\ ~HasConsole(o)' /\ sema_value[Console] = 0
    <3>1. l = Console => HasConsole(o) /\ lock_holder[Console] # o
      BY <2>2 DEF HasConsole, CallInv
    <3>2. l = Console => ~HasConsole(o)'
      BY <2>1, <2>2, <3>1 DEF HasConsole
    <3> QED BY <3>1, <3>2 DEF CallInv
  <2>7. at'[o] \in {"client", "getc", "putc"}
    BY <1>0, <2>1, <2>2
  <2>8. \A q \in Queues : ~AboutToWait(o, q)'
    BY <2>7 DEF AboutToWait
  <2>9. Printing(o)' \/ at'[o] = "putbuf" => lock_holder'[Console] = o
    BY <2>2, <2>5, <2>7 DEF CallInv
  <2>10. /\ sema_value'[Console] \in {0, 1}
         /\ sema_value'[Console] > 0 => ~HasConsole(o)' /\ (sema_value[Console] > 0 \/ HasConsole(o))
    BY <2>2, <2>3, <2>5, <2>6 DEF CallInv
  <2> QED BY <1>0, <1>1, <1>3, <1>4, <1>5, <2>2, <2>4, <2>5, <2>6, <2>7, <2>8, <2>9, <2>10,
    CallMoves
    DEF CallInv
<1> QED
  <2>1. at[current] = "acquire" /\ LockAcquire(l) => obj[current] = l /\ lock_holder' = lock_holder
    BY DEF LockAcquire, AtClient
  <2> QED BY <1>2, <1>6, <1>7, <1>8, <1>9, <2>1 DEF LockAcquire

\* wait(): before it sleeps, and when it is woken.
LEMMA WaitCalls ==
    ASSUME SerialInv, CallInv, WaitOnQueue \/ WakeUp(InputQ, "getc_up") \/ WakeUp(TxQ, "putc_up")
    PROVE  CallInv'
<1>0. /\ SerialTypes /\ InputQ # TxQ /\ InputQ # NULL /\ TxQ # NULL /\ Console # NULL /\ Console \notin Queues
      /\ InputQ \in Queues /\ TxQ \in Queues /\ Queues = {InputQ, TxQ} /\ NULL \notin Threads
      /\ Console # InputQ /\ Console # TxQ /\ Console \in Locks
      /\ level \in [Threads -> {"on", "off"}] /\ old_level \in [Threads -> {"on", "off"}]
  BY Names, CurrentIs DEF SerialInv, CallInv
<1>1. PICK o \in Threads : o = current
  BY CurrentIs
<1>2. /\ \A t \in Threads : t # o => at'[t] = at[t] /\ obj'[t] = obj[t]
      /\ UNCHANGED <<level, old_level, sema_value>> /\ lock_holder'[Console] = lock_holder[Console]
  BY <1>0, <1>1 DEF WaitOnQueue, WaitNotEmpty, WaitNotFull, WakeUp, SerialTypes
<1>3. \/ at[o] = "getc_wait" /\ at'[o] = "getc_up" /\ obj'[o] = NULL
      \/ at[o] = "putc_wait" /\ at'[o] = "putc_up" /\ obj'[o] = NULL
      \/ at[o] = "getc_up" /\ at'[o] = "release" /\ obj'[o] = InputQ
      \/ at[o] = "putc_up" /\ at'[o] = "release" /\ obj'[o] = TxQ
  BY <1>0, <1>1 DEF WaitOnQueue, WaitNotEmpty, WaitNotFull, WakeUp, SerialTypes
<1>4. /\ Reading(o)' => Reading(o)
      /\ Printing(o)' => Printing(o)
      /\ HasConsole(o)' <=> HasConsole(o)
      /\ \A q \in Queues : (Has(o, q)' <=> Has(o, q)) /\ ~AboutToWait(o, q)'
      /\ ~(at'[o] \in {"hold", "release"} /\ obj'[o] = Console) /\ at'[o] # "putbuf"
  BY <1>0, <1>2, <1>3 DEF Reading, Printing, HasConsole, Has, AboutToWait
<1> QED BY <1>0, <1>1, <1>2, <1>4, CallMoves DEF CallInv

\* The ends of input_getc() and serial_putc().
LEMMA TransferCalls ==
    ASSUME SerialInv, CallInv, Getc \/ Putc \/ PutcPolled
    PROVE  CallInv'
<1>0. /\ SerialTypes /\ InputQ \in Queues /\ TxQ \in Queues /\ Queues = {InputQ, TxQ}
      /\ level \in [Threads -> {"on", "off"}] /\ old_level \in [Threads -> {"on", "off"}]
  BY Names, CurrentIs DEF SerialInv, CallInv
<1>1. PICK o \in Threads : o = current
  BY CurrentIs
<1>2. /\ \A t \in Threads : t # o => at'[t] = at[t] /\ obj'[t] = obj[t] /\ level'[t] = level[t]
      /\ UNCHANGED <<old_level, sema_value, lock_holder>> /\ level' \in [Threads -> {"on", "off"}]
  BY <1>0, <1>1 DEF Getc, Putc, PutcPolled, Leave, SerialTypes
<1>3. \/ at[o] = "getc" /\ at'[o] = "client" /\ obj'[o] = NULL
      \/ at[o] = "putc" /\ at'[o] = "putbuf" /\ obj'[o] = NULL
      \/ at[o] = "putbuf" /\ at'[o] = "putbuf" /\ obj'[o] = obj[o]
  BY <1>0, <1>1 DEF Getc, Putc, PutcPolled, Leave, SerialTypes
<1>4. /\ ~Reading(o)' /\ ~Printing(o)' /\ (HasConsole(o)' <=> HasConsole(o))
      /\ \A q \in Queues : (Has(o, q)' <=> Has(o, q)) /\ ~AboutToWait(o, q)'
      /\ at'[o] \notin {"hold", "release"}
  BY <1>2, <1>3 DEF Reading, Printing, HasConsole, Has, AboutToWait
<1>5. at'[o] = "putbuf" => lock_holder[Console] = o
  BY <1>3 DEF CallInv, Printing
<1> QED BY <1>0, <1>1, <1>2, <1>4, <1>5, CallMoves DEF CallInv

\* Interrupts, the port, the idle thread, and steps that change nothing.
LEMMA OtherCalls ==
    ASSUME SerialInv, CallInv,
           \/ TimerInterrupt \/ KeyboardInterrupt \/ PortInterrupt \/ InterruptPrint
           \/ ByteArrives \/ ThrEmpties \/ UNCHANGED vars
           \/ (IdleBlock \/ IdleHlt) /\ UNCHANGED serialVars
    PROVE  CallInv'
<1>0. SerialTypes
  BY DEF SerialInv
<1>1. PICK o \in Threads : o = current
  BY CurrentIs
<1>2. ASSUME IntrOn, EndHlt, UNCHANGED <<synchVars, obj, level, old_level>>
      PROVE  CallInv'
  <2>1. \A t \in Threads : \/ at'[t] = at[t] /\ obj'[t] = obj[t]
                           \/ t = o /\ at[t] \in Idling /\ at'[t] \in Idling
    BY <1>0, <1>1, <1>2 DEF EndHlt, SerialTypes
  <2> QED BY <1>1, <1>2, <2>1, CallsWait
<1>3. CASE TimerInterrupt \/ KeyboardInterrupt \/ PortInterrupt \/ InterruptPrint
  BY <1>2, <1>3
     DEF TimerInterrupt, TimerTick, KeyboardInterrupt, PortInterrupt, SerialInterrupt,
         InterruptPrint
<1>4. CASE ByteArrives \/ ThrEmpties \/ UNCHANGED vars
  BY <1>1, <1>4, CallsWait DEF ByteArrives, ThrEmpties, vars, schedVars
<1>5. CASE (IdleBlock \/ IdleHlt) /\ UNCHANGED serialVars
  <2>1. /\ \A t \in Threads : \/ at'[t] = at[t] /\ obj'[t] = obj[t]
                              \/ t = o /\ at[t] \in Idling /\ at'[t] \in Idling
        /\ at[o] \in Idling
    BY <1>0, <1>1, <1>5 DEF IdleBlock, IdleHlt, SerialTypes
  <2> QED BY <1>1, <1>5, <2>1, CallsWait DEF IdleBlock, IdleHlt
<1> QED BY <1>3, <1>4, <1>5

\* No call is under way at first.
LEMMA CallsStart == Init => CallInv
<1> SUFFICES ASSUME Init PROVE CallInv
  OBVIOUS
<1>0. /\ Locks = {InputQ, TxQ, Console} /\ InputQ # NULL /\ TxQ # NULL /\ Console # NULL /\ NULL \notin Threads
      /\ \A l \in Locks : l \in SemaIds
  BY Names, SerialAssumption
<1>1. /\ \A t \in Threads : at[t] \in {"idle_sti", "client"}
      /\ level \in [Threads -> {"on", "off"}] /\ old_level \in [Threads -> {"on", "off"}]
      /\ \A l \in Locks : sema_value[l] = 1 /\ lock_holder[l] = NULL
  BY <1>0 DEF Init
<1>2. \A t \in Threads : /\ ~Reading(t) /\ ~Printing(t) /\ ~HasConsole(t) /\ at[t] # "putbuf"
                         /\ \A q \in Queues : ~AboutToWait(t, q)
  BY <1>0, <1>1 DEF Reading, Printing, HasConsole, AboutToWait
<1>3. Console \in Locks /\ \A q \in Queues : q \in Locks
  BY <1>0 DEF Queues
<1> QED BY <1>1, <1>2, <1>3 DEF CallInv

\* Every step keeps the calls as they are.
LEMMA CallsKept ==
    ASSUME SerialInv, CallInv, [Next]_vars
    PROVE  CallInv'
<1> HIDE DEF Goto, synchVars, semaVars, queueVars, portVars, historyVars, noTransfer, frameVars, serialVars
<1>1. CASE ClientStep
  BY <1>1, ThreadCalls DEF ClientStep
<1>2. CASE DriverStep
  <2>1. \/ WaitForLock(InputQ, "getc", ~Empty(InputQ)) \/ WaitForLock(TxQ, "putc", ~Full(TxQ))
        \/ Putchar \/ EndPutbuf
        \/ LockStep
        \/ WaitOnQueue \/ WakeUp(InputQ, "getc_up") \/ WakeUp(TxQ, "putc_up")
        \/ Getc \/ Putc \/ PutcPolled
        \/ (IdleBlock \/ IdleHlt) /\ UNCHANGED serialVars
    BY <1>2 DEF DriverStep
  <2>2. CASE \/ WaitForLock(InputQ, "getc", ~Empty(InputQ)) \/ WaitForLock(TxQ, "putc", ~Full(TxQ))
             \/ Putchar \/ EndPutbuf
    BY <2>2, ThreadCalls
  <2>3. CASE LockStep
    BY <2>3, LockCalls
  <2>4. CASE WaitOnQueue \/ WakeUp(InputQ, "getc_up") \/ WakeUp(TxQ, "putc_up")
    BY <2>4, WaitCalls
  <2>5. CASE Getc \/ Putc \/ PutcPolled
    BY <2>5, TransferCalls
  <2>6. CASE (IdleBlock \/ IdleHlt) /\ UNCHANGED serialVars
    BY <2>6, OtherCalls
  <2> QED BY <2>1, <2>2, <2>3, <2>4, <2>5, <2>6
<1>3. CASE \/ TimerInterrupt \/ ByteArrives \/ ThrEmpties \/ UNCHANGED vars
           \/ KeyboardInterrupt \/ PortInterrupt \/ InterruptPrint
  BY <1>3, OtherCalls
<1> QED BY <1>1, <1>2, <1>3 DEF Next

\* Nobody has changed the queue between the test of a thread and its wait().
LEMMA CallsWaitRight == SerialInv /\ CallInv /\ OneReader => WaitAssertion
<1> SUFFICES ASSUME SerialInv, CallInv, OneReader PROVE WaitAssertion
  OBVIOUS
<1>1. current \in Threads /\ InputQ \in Queues /\ TxQ \in Queues
  BY CurrentIs DEF Queues
<1>2. /\ at[current] = "getc_wait" => MustWait(InputQ)
      /\ at[current] = "putc_wait" => MustWait(TxQ)
  BY <1>1 DEF CallInv, AboutToWait
<1> QED BY <1>2 DEF WaitAssertion, MustWait

----------------------------------------------------------------------------
(***************************************************************************)
(* With one thread that reads the keyboard, for any number of threads that *)
(* print, any size of the queues and any interleaving with the interrupt   *)
(* handlers: the interrupts enabled in the UART are those the queues call  *)
(* for, input bytes leave the buffer in the order they came, each one once *)
(* and none overwritten, and what a thread tests before wait() still holds *)
(* when wait() asserts it (intq.c:84).  With two readers it need not: one  *)
(* sleeps for the queue's lock while the other empties the buffer.         *)
(***************************************************************************)
THEOREM QueuesAreSound ==
    ASSUME OneReader
    PROVE  Spec => []QueuesSound
<1> DEFINE Inv == SerialInv /\ CallInv /\ IerFresh /\ OrderTypes /\ InOrder
<1>1. Init => Inv
  BY SerialStarts, CallsStart, IerStarts, OrderStarts
<1>2. Inv /\ [Next]_vars => Inv'
  BY SerialKept, CallsKept, IerKept, OrderKept
<1>3. Inv => QueuesSound
  BY CallsWaitRight, OrderIs DEF QueuesSound
<1> HIDE DEF Inv
<1> QED BY <1>1, <1>2, <1>3, PTL DEF Spec
----------------------------------------------------------------------------
(* Output is a chain of the bytes of threads.                              *)

\* A set of numbers that is bounded and not empty has a greatest one.
LEMMA GreatestOf ==
    ASSUME NEW n \in Nat, NEW S \in SUBSET (0..n), S # {}
    PROVE  Max(S) \in S /\ \A x \in S : x <= Max(S)
<1> DEFINE R == {a \in Nat \X Nat : a[1] < a[2]}
           T == {n - x : x \in S}
<1>1. IsWellFoundedOn(R, Nat)
  BY NatLessThanWellFounded DEF OpToRel
<1>2. T \subseteq Nat /\ T # {}
  <2>1. \A x \in S : x \in 0..n /\ n - x \in Nat
    OBVIOUS
  <2>2. PICK x : x \in S
    OBVIOUS
  <2>3. n - x \in T
    BY <2>2
  <2> QED BY <2>1, <2>3
<1>3. PICK m \in T : \A y \in T : <<y, m>> \notin R
  <2> HIDE DEF R, T
  <2> QED BY <1>1, <1>2, WFMin
<1>4. \A y \in T : ~(y < m)
  BY <1>2, <1>3
<1>5. PICK x \in S : m = n - x
  OBVIOUS
<1>6. \A y \in S : x >= y
  BY <1>4, <1>5
<1>7. Max(S) \in S /\ \A y \in S : Max(S) >= y
  BY <1>5, <1>6 DEF Max
<1> QED BY <1>7

\* The places of the bytes of threads among the first n of O, and the first
\* place.
Places(O, n) == {1} \cup {i \in 1..n : OfThread(O[i])}

\* Each byte of a thread follows the one before it.
Chained(O, n) ==
    \A i, j \in Places(O, n) :
       i < j /\ (\A k \in Places(O, n) : k <= i \/ j <= k) => Follows(O[i], O[j])

\* The last byte of a thread is v.
Ends(O, n, v) == \E i \in Places(O, n) : O[i] = v /\ \A k \in Places(O, n) : k <= i

\* A byte is added to the output.
LEMMA ChainPut ==
    ASSUME NEW n \in Nat, n >= 1, NEW O, NEW P, NEW b, NEW v,
           \A i \in 1..n : P[i] = O[i], P[n + 1] = b,
           Chained(O, n), Ends(O, n, v), OfThread(b) => Follows(v, b)
    PROVE  Chained(P, n + 1) /\ Ends(P, n + 1, IF OfThread(b) THEN b ELSE v)
<1>1. Places(O, n) \subseteq 1..n /\ 1 \in Places(O, n)
  BY DEF Places
<1>2. \A i : i \in Places(P, n + 1) <=> i \in Places(O, n) \/ (i = n + 1 /\ OfThread(b))
  BY DEF Places
<1>3. PICK e \in Places(O, n) : O[e] = v /\ \A k \in Places(O, n) : k <= e
  BY DEF Ends
<1>4. \A i \in Places(O, n) : i \in Nat /\ i <= n /\ P[i] = O[i]
  BY <1>1
<1>5. ASSUME NEW i \in Places(P, n + 1), NEW j \in Places(P, n + 1), i < j,
             \A k \in Places(P, n + 1) : k <= i \/ j <= k
      PROVE  Follows(P[i], P[j])
  <2>1. CASE j \in Places(O, n)
    <3>1. i \in Places(O, n)
      BY <1>2, <1>4, <1>5, <2>1
    <3>2. \A k \in Places(O, n) : k <= i \/ j <= k
      BY <1>2, <1>5
    <3>3. Follows(O[i], O[j])
      BY <1>5, <2>1, <3>1, <3>2 DEF Chained
    <3> QED BY <1>4, <2>1, <3>1, <3>3
  <2>2. CASE j = n + 1 /\ OfThread(b)
    <3>1. i \in Places(O, n)
      BY <1>2, <1>5, <2>2
    <3>2. e <= i
      BY <1>2, <1>3, <1>4, <1>5, <2>2
    <3>3. i = e
      BY <1>3, <1>4, <3>1, <3>2
    <3> QED BY <1>3, <1>4, <2>2, <3>3
  <2> QED BY <1>2, <1>5, <2>1, <2>2
<1>6. Chained(P, n + 1)
  BY <1>5 DEF Chained
<1>7. Ends(P, n + 1, IF OfThread(b) THEN b ELSE v)
  <2>1. CASE OfThread(b)
    <3>1. n + 1 \in Places(P, n + 1) /\ \A k \in Places(P, n + 1) : k <= n + 1
      BY <1>2, <1>4, <2>1
    <3> QED BY <2>1, <3>1 DEF Ends
  <2>2. CASE ~OfThread(b)
    <3>1. e \in Places(P, n + 1) /\ P[e] = v /\ \A k \in Places(P, n + 1) : k <= e
      BY <1>2, <1>3, <1>4, <2>2
    <3> QED BY <2>2, <3>1 DEF Ends
  <2> QED BY <2>1, <2>2
<1> QED BY <1>6, <1>7

\* The m oldest bytes reach the port: the last one of a thread is kept.
LEMMA ChainTake ==
    ASSUME NEW n \in Nat, n >= 1, NEW m \in Nat, m < n, NEW O, NEW P, NEW v,
           NEW f \in Places(O, n), f <= m + 1, \A k \in Places(O, n) : k <= m + 1 => k <= f,
           P[1] = O[f], \A k \in 2..(n - m) : P[k] = O[k + m],
           Chained(O, n), Ends(O, n, v)
    PROVE  Chained(P, n - m) /\ Ends(P, n - m, v)
<1> DEFINE At(i) == IF i = 1 THEN f ELSE i + m
<1>1. Places(O, n) \subseteq 1..n /\ 1 \in Places(O, n)
  BY DEF Places
<1>2. \A i \in Places(P, n - m) : /\ At(i) \in Places(O, n) /\ P[i] = O[At(i)]
                                  /\ i \in 1..(n - m)
  <2> SUFFICES ASSUME NEW i \in Places(P, n - m)
               PROVE  At(i) \in Places(O, n) /\ P[i] = O[At(i)] /\ i \in 1..(n - m)
    OBVIOUS
  <2>1. CASE i = 1
    BY <2>1
  <2>2. CASE i # 1
    <3>1. i \in 2..(n - m) /\ OfThread(P[i]) /\ i + m \in 1..n
      BY <2>2 DEF Places
    <3> QED BY <2>2, <3>1 DEF Places
  <2> QED BY <2>1, <2>2
<1>3. \A k \in Places(O, n) : k > m + 1 => k - m \in Places(P, n - m) /\ At(k - m) = k
  <2> SUFFICES ASSUME NEW k \in Places(O, n), k > m + 1
               PROVE  k - m \in Places(P, n - m) /\ At(k - m) = k
    OBVIOUS
  <2>1. k \in 1..n /\ k # 1 /\ OfThread(O[k]) /\ k - m \in 2..(n - m) /\ (k - m) + m = k
    BY <1>1 DEF Places
  <2> QED BY <2>1 DEF Places
<1>4. 1 \in Places(P, n - m)
  BY DEF Places
<1>5. \A i, j \in 1..(n - m) : i < j => At(i) < At(j)
  BY <1>1
<1>5a. \A i \in 1..(n - m) : At(i) \in Nat
  BY <1>1
<1>6. ASSUME NEW i \in Places(P, n - m), NEW j \in Places(P, n - m), i < j,
             \A k \in Places(P, n - m) : k <= i \/ j <= k
      PROVE  Follows(P[i], P[j])
  <2>1. At(i) \in Places(O, n) /\ At(j) \in Places(O, n) /\ P[i] = O[At(i)] /\ P[j] = O[At(j)]
        /\ i \in 1..(n - m) /\ j \in 1..(n - m)
    BY <1>2
  <2>2. At(i) < At(j)
    BY <1>5, <1>6, <2>1
  <2>3. ASSUME NEW k \in Places(O, n) PROVE k <= At(i) \/ At(j) <= k
    <3>1. CASE k <= m + 1
      BY <1>1, <2>1, <3>1
    <3>2. CASE k > m + 1
      <4>1. k - m \in Places(P, n - m) /\ At(k - m) = k
        BY <1>3, <3>2
      <4>2. k - m <= i \/ j <= k - m
        BY <1>6, <4>1
      <4>3. k \in 1..n
        BY <1>1
      <4> QED BY <2>1, <3>2, <4>2, <4>3
    <3> QED BY <1>1, <3>1, <3>2
  <2> HIDE DEF At
  <2> QED BY <2>1, <2>2, <2>3 DEF Chained
<1>7. Chained(P, n - m)
  BY <1>6 DEF Chained
<1>8. Ends(P, n - m, v)
  <2>1. PICK e \in Places(O, n) : O[e] = v /\ \A k \in Places(O, n) : k <= e
    BY DEF Ends
  <2>2. CASE e <= m + 1
    <3>1. e = f
      BY <1>1, <2>1, <2>2
    <3>2. \A k \in Places(P, n - m) : k <= 1
      BY <1>1, <1>2, <2>1, <2>2
    <3> QED BY <1>4, <2>1, <3>1, <3>2 DEF Ends
  <2>3. CASE e > m + 1
    <3>1. e - m \in Places(P, n - m) /\ At(e - m) = e
      BY <1>3, <2>3
    <3>2. \A k \in Places(P, n - m) : k <= e - m
      <4> SUFFICES ASSUME NEW k \in Places(P, n - m) PROVE k <= e - m
        OBVIOUS
      <4>1. At(k) \in Places(O, n) /\ k \in 1..(n - m) /\ At(k) <= e
        BY <1>2, <2>1
      <4> QED BY <1>1, <2>3, <4>1
    <3>3. P[e - m] = v
      BY <1>2, <2>1, <3>1
    <3> QED BY <3>1, <3>2, <3>3 DEF Ends
  <2> QED BY <1>1, <2>2, <2>3
<1> QED BY <1>7, <1>8

----------------------------------------------------------------------------
(* What transfers do to txq.                                               *)

\* What the proofs about txq need to know of the variables.
TxTypes ==
    /\ buf = [q \in Queues |-> [p \in 0..(N - 1) |-> buf[q][p]]]
    /\ head[TxQ] \in 0..(N - 1) /\ tail[TxQ] \in 0..(N - 1)

\* The contents of txq, without the remainders.
LEMMA RingContents ==
    ASSUME NEW h \in 0..(N - 1), NEW t \in 0..(N - 1)
    PROVE  /\ (h + N - t) % N = Between(h, t) /\ Between(h, t) \in 0..(N - 1)
           /\ \A i \in 1..Between(h, t) : (t + i - 1) % N = Pos(t, i - 1)
           /\ ((h + 1) % N = t <=> Between(h, t) = N - 1)
<1>1. N \in Nat /\ N >= 2
  BY SerialAssumption
<1>4. Between(h, t) \in 0..(N - 1)
  BY <1>1 DEF Between
<1>5. \A i \in 1..Between(h, t) : (t + i - 1) % N = Pos(t, i - 1)
  <2> SUFFICES ASSUME NEW i \in 1..Between(h, t) PROVE (t + i - 1) % N = Pos(t, i - 1)
    OBVIOUS
  <2>1. i - 1 \in 0..N /\ t + i - 1 = t + (i - 1)
    BY <1>1, <1>4
  <2> QED BY <2>1, Rings
<1>6. (h + 1) % N = Pos(h, 1)
  <2>1. 1 \in 0..N
    BY <1>1
  <2> QED BY <2>1, Rings
<1>7. Pos(h, 1) = t <=> Between(h, t) = N - 1
  BY <1>1 DEF Pos, Between
<1> QED BY <1>4, <1>5, <1>6, <1>7, Rings

\* So is txq, before a step and after it.
LEMMA TxContents ==
    ASSUME TxTypes
    PROVE  /\ Count(TxQ) = Between(head[TxQ], tail[TxQ]) /\ Count(TxQ) \in 0..(N - 1)
           /\ Contents(TxQ) = [i \in 1..Count(TxQ) |-> buf[TxQ][Pos(tail[TxQ], i - 1)]]
           /\ (Full(TxQ) <=> Count(TxQ) = N - 1)
<1>1. PICK h, t \in 0..(N - 1) : h = head[TxQ] /\ t = tail[TxQ]
  BY DEF TxTypes
<1>2. Count(TxQ) = Between(h, t) /\ Between(h, t) \in 0..(N - 1) /\ (Full(TxQ) <=> Between(h, t) = N - 1)
  BY <1>1, RingContents DEF Count, Full, NextPos
<1>3. \A i \in 1..Count(TxQ) : (t + i - 1) % N = Pos(t, i - 1)
  BY <1>2, RingContents
<1>4. Contents(TxQ) = [i \in 1..Count(TxQ) |-> buf[TxQ][Pos(tail[TxQ], i - 1)]]
  BY <1>1, <1>3 DEF Contents
<1> QED BY <1>1, <1>2, <1>4

LEMMA TxContentsNext ==
    ASSUME TxTypes'
    PROVE  /\ Count(TxQ)' = Between(head'[TxQ], tail'[TxQ]) /\ Count(TxQ)' \in 0..(N - 1)
           /\ Contents(TxQ)' = [i \in 1..Count(TxQ)' |-> buf'[TxQ][Pos(tail'[TxQ], i - 1)]]
<1>1. PICK h, t \in 0..(N - 1) : h = head'[TxQ] /\ t = tail'[TxQ]
  BY DEF TxTypes
<1>2. Count(TxQ)' = Between(h, t) /\ Between(h, t) \in 0..(N - 1)
  BY <1>1, RingContents DEF Count
<1>3. \A i \in 1..Count(TxQ)' : (t + i - 1) % N = Pos(t, i - 1)
  BY <1>2, RingContents
<1>4. Contents(TxQ)' = [i \in 1..Count(TxQ)' |-> buf'[TxQ][Pos(tail'[TxQ], i - 1)]]
  BY <1>1, <1>3 DEF Contents
<1> QED BY <1>1, <1>2, <1>4

\* Positions.
LEMMA PosIsIn == \A p, i \in 0..(N - 1) : Pos(p, i) \in 0..(N - 1)
<1>1. N \in Nat /\ N >= 2
  BY SerialAssumption
<1> QED BY <1>1 DEF Pos

\* n bytes taken from a ring.
LEMMA RingTakes ==
    ASSUME NEW h \in 0..(N - 1), NEW t \in 0..(N - 1), NEW n \in Nat, n <= Between(h, t)
    PROVE  /\ Pos(t, n) \in 0..(N - 1) /\ Between(h, Pos(t, n)) = Between(h, t) - n
           /\ \A i \in 0..(N - 1) : i + n < N => Pos(Pos(t, n), i) = Pos(t, i + n)
<1>1. N \in Nat /\ N >= 2
  BY SerialAssumption
<1> QED BY <1>1 DEF Between, Pos

\* What a transfer does to txq.
LEMMA TxMoved ==
    ASSUME TxTypes, NEW in, NEW out, Transfer(in, out), out[TxQ] \in 0..Count(TxQ)
    PROVE  /\ buf' = [q \in Queues |-> [p \in 0..(N - 1) |-> buf'[q][p]]]
           /\ in[TxQ] = <<>> => /\ head'[TxQ] = head[TxQ]
                                /\ \A p \in 0..(N - 1) : buf'[TxQ][p] = buf[TxQ][p]
           /\ \A b : in[TxQ] = <<b>> => /\ head'[TxQ] = Pos(head[TxQ], 1)
                                        /\ buf'[TxQ][head[TxQ]] = b
                                        /\ \A p \in 0..(N - 1) : p # head[TxQ] => buf'[TxQ][p] = buf[TxQ][p]
           /\ tail'[TxQ] = Pos(tail[TxQ], out[TxQ])
<1>1. TxQ \in Queues /\ N \in Nat /\ N >= 2
  BY SerialAssumption DEF Queues
<1>2. \A q \in Queues : DOMAIN buf[q] = 0..(N - 1)
  BY DEF TxTypes
<1>3. buf' = [q \in Queues |-> [p \in 0..(N - 1) |->
                LET hits == {i \in DOMAIN in[q] : Advance(head[q], i - 1) = p}
                IN  IF hits = {} THEN buf[q][p] ELSE in[q][CHOOSE i \in hits : TRUE]]]
  BY <1>2 DEF Transfer
<1>4. \A p \in 0..(N - 1) :
         LET hits == {i \in DOMAIN in[TxQ] : Advance(head[TxQ], i - 1) = p}
         IN  buf'[TxQ][p] = IF hits = {} THEN buf[TxQ][p] ELSE in[TxQ][CHOOSE i \in hits : TRUE]
  BY <1>1, <1>3
<1>5. head'[TxQ] = Advance(head[TxQ], Len(in[TxQ])) /\ tail'[TxQ] = Advance(tail[TxQ], out[TxQ])
  BY <1>1 DEF Transfer
<1>6. tail'[TxQ] = Pos(tail[TxQ], out[TxQ])
  <2>1. out[TxQ] \in 0..N
    BY <1>1, TxContents
  <2> QED BY <1>5, <2>1, Rings DEF Advance, TxTypes
<1>7. \A n \in {0, 1} : Advance(head[TxQ], n) = Pos(head[TxQ], n)
  <2>1. \A n \in {0, 1} : n \in 0..N
    BY <1>1
  <2> QED BY <2>1, Rings DEF Advance, TxTypes
<1>8. Pos(head[TxQ], 0) = head[TxQ]
  BY <1>1 DEF Pos, TxTypes
<1>9. ASSUME in[TxQ] = <<>>
      PROVE  head'[TxQ] = head[TxQ] /\ \A p \in 0..(N - 1) : buf'[TxQ][p] = buf[TxQ][p]
  <2>1. Len(in[TxQ]) = 0 /\ DOMAIN in[TxQ] = {}
    BY <1>9
  <2>2. \A p : {i \in DOMAIN in[TxQ] : Advance(head[TxQ], i - 1) = p} = {}
    BY <2>1
  <2> QED BY <1>4, <1>5, <1>7, <1>8, <2>1, <2>2
<1>10. ASSUME NEW b, in[TxQ] = <<b>>
       PROVE  /\ head'[TxQ] = Pos(head[TxQ], 1)
              /\ buf'[TxQ][head[TxQ]] = b
              /\ \A p \in 0..(N - 1) : p # head[TxQ] => buf'[TxQ][p] = buf[TxQ][p]
  <2>1. Len(in[TxQ]) = 1 /\ DOMAIN in[TxQ] = {1} /\ in[TxQ][1] = b
    BY <1>10
  <2>2. Advance(head[TxQ], 1 - 1) = head[TxQ]
    BY <1>7, <1>8
  <2>3. /\ {i \in DOMAIN in[TxQ] : Advance(head[TxQ], i - 1) = head[TxQ]} = {1}
        /\ \A p : p # head[TxQ] => {i \in DOMAIN in[TxQ] : Advance(head[TxQ], i - 1) = p} = {}
    BY <2>1, <2>2
  <2>4. (CHOOSE i \in {1} : TRUE) = 1 /\ {1} # {}
    OBVIOUS
  <2>5. head[TxQ] \in 0..(N - 1)
    BY DEF TxTypes
  <2>6. buf'[TxQ][head[TxQ]] = b
    <3>1. buf'[TxQ][head[TxQ]] =
             IF {i \in DOMAIN in[TxQ] : Advance(head[TxQ], i - 1) = head[TxQ]} = {} THEN buf[TxQ][head[TxQ]]
             ELSE in[TxQ][CHOOSE i \in {i \in DOMAIN in[TxQ] : Advance(head[TxQ], i - 1) = head[TxQ]} : TRUE]
      BY <1>4, <2>5
    <3> QED BY <2>1, <2>3, <2>4, <3>1
  <2>7. \A p \in 0..(N - 1) : p # head[TxQ] => buf'[TxQ][p] = buf[TxQ][p]
    BY <1>4, <2>3
  <2>8. head'[TxQ] = Pos(head[TxQ], 1)
    BY <1>5, <1>7, <2>1
  <2> QED BY <2>6, <2>7, <2>8
<1>11. buf' = [q \in Queues |-> [p \in 0..(N - 1) |-> buf'[q][p]]]
  BY <1>3
<1> QED BY <1>6, <1>9, <1>10, <1>11

\* Bytes go out of txq.
LEMMA TxSent ==
    ASSUME TxTypes, NEW in, NEW out, Transfer(in, out), in[TxQ] = <<>>,
           NEW n \in Nat, n <= Count(TxQ), out[TxQ] = n
    PROVE  /\ TxTypes' /\ Count(TxQ)' = Count(TxQ) - n
           /\ \A i \in 1..(Count(TxQ) - n) : Contents(TxQ)'[i] = Contents(TxQ)[i + n]
<1>1. PICK h, t \in 0..(N - 1) : h = head[TxQ] /\ t = tail[TxQ]
  BY DEF TxTypes
<1>2. N \in Nat /\ N >= 2
  BY SerialAssumption
<1>3. PICK c \in 0..(N - 1) : c = Between(h, t) /\ c = Count(TxQ)
  BY <1>1, TxContents
<1>4. /\ buf' = [q \in Queues |-> [p \in 0..(N - 1) |-> buf'[q][p]]]
      /\ head'[TxQ] = h /\ tail'[TxQ] = Pos(t, n)
      /\ \A p \in 0..(N - 1) : buf'[TxQ][p] = buf[TxQ][p]
  <2>1. out[TxQ] \in 0..Count(TxQ)
    BY <1>3
  <2> QED BY <1>1, <2>1, TxMoved
<1>5. /\ Pos(t, n) \in 0..(N - 1) /\ Between(h, Pos(t, n)) = c - n
      /\ \A i \in 0..(N - 1) : i + n < N => Pos(Pos(t, n), i) = Pos(t, i + n)
  <2>1. n <= Between(h, t)
    BY <1>3
  <2>2. /\ Pos(t, n) \in 0..(N - 1) /\ Between(h, Pos(t, n)) = Between(h, t) - n
        /\ \A i \in 0..(N - 1) : i + n < N => Pos(Pos(t, n), i) = Pos(t, i + n)
    BY <2>1, RingTakes
  <2> QED BY <1>3, <2>2
<1>6. TxTypes'
  BY <1>1, <1>4, <1>5 DEF TxTypes
<1>7. Count(TxQ)' = c - n /\ Contents(TxQ)' = [i \in 1..(c - n) |-> buf'[TxQ][Pos(Pos(t, n), i - 1)]]
  <2>1. /\ Count(TxQ)' = Between(head'[TxQ], tail'[TxQ])
        /\ Contents(TxQ)' = [i \in 1..Count(TxQ)' |-> buf'[TxQ][Pos(tail'[TxQ], i - 1)]]
    BY <1>6, TxContentsNext
  <2> QED BY <1>4, <1>5, <2>1
<1>8. ASSUME NEW i \in 1..(c - n) PROVE Contents(TxQ)'[i] = Contents(TxQ)[i + n]
  <2> DEFINE j == (i - 1) + n
  <2>1. i - 1 \in 0..(N - 1) /\ j \in 0..(N - 1) /\ j < N /\ i + n \in 1..c /\ (i + n) - 1 = j
    BY <1>2, <1>3
  <2>5. Pos(Pos(t, n), i - 1) = Pos(t, j)
    BY <1>5, <2>1
  <2> HIDE DEF j
  <2>2. Pos(t, j) \in 0..(N - 1)
    BY <2>1, PosIsIn
  <2>3. Contents(TxQ)[i + n] = buf[TxQ][Pos(t, j)]
    BY <1>1, <1>3, <2>1, TxContents
  <2>4. Contents(TxQ)'[i] = buf'[TxQ][Pos(t, j)]
    BY <1>5, <1>7, <2>1, <2>5
  <2> QED BY <1>4, <2>2, <2>3, <2>4
<1> QED BY <1>3, <1>6, <1>7, <1>8

\* A byte goes into txq, and others may go out of it.
LEMMA TxQueued ==
    ASSUME TxTypes, NEW in, NEW out, Transfer(in, out), NEW b, in[TxQ] = <<b>>,
           NEW n \in Nat, n <= Count(TxQ), out[TxQ] = n, n = 0 => ~Full(TxQ)
    PROVE  /\ TxTypes' /\ Count(TxQ)' = Count(TxQ) - n + 1
           /\ \A i \in 1..(Count(TxQ) - n) : Contents(TxQ)'[i] = Contents(TxQ)[i + n]
           /\ Contents(TxQ)'[Count(TxQ) - n + 1] = b
<1>1. PICK h, t \in 0..(N - 1) : h = head[TxQ] /\ t = tail[TxQ]
  BY DEF TxTypes
<1>2. N \in Nat /\ N >= 2
  BY SerialAssumption
<1>3. PICK c \in 0..(N - 1) : c = Between(h, t) /\ c = Count(TxQ)
  BY <1>1, TxContents
<1>4. /\ buf' = [q \in Queues |-> [p \in 0..(N - 1) |-> buf'[q][p]]]
      /\ head'[TxQ] = Pos(h, 1) /\ tail'[TxQ] = Pos(t, n)
      /\ buf'[TxQ][h] = b
      /\ \A p \in 0..(N - 1) : p # h => buf'[TxQ][p] = buf[TxQ][p]
  <2>1. out[TxQ] \in 0..Count(TxQ)
    BY <1>3
  <2> QED BY <1>1, <2>1, TxMoved
<1>5. PICK u \in 0..(N - 1), d \in 0..(N - 1) :
         /\ u = Pos(t, n) /\ d = Between(h, u) /\ d = c - n
         /\ \A i \in 0..(N - 1) : i + n < N => Pos(u, i) = Pos(t, i + n)
  <2>1. n <= Between(h, t)
    BY <1>3
  <2>2. /\ Pos(t, n) \in 0..(N - 1) /\ Between(h, Pos(t, n)) = Between(h, t) - n
        /\ \A i \in 0..(N - 1) : i + n < N => Pos(Pos(t, n), i) = Pos(t, i + n)
    BY <2>1, RingTakes
  <2>3. c - n \in 0..(N - 1)
    BY <1>2, <1>3
  <2> QED BY <1>3, <2>2, <2>3
<1>6. 1 <= N - 1 - d
  <2>1. n = 0 => c # N - 1
    BY <1>3, TxContents
  <2> QED BY <1>2, <1>5, <2>1
<1>7. /\ Pos(h, 1) \in 0..(N - 1) /\ Between(Pos(h, 1), u) = d + 1
      /\ \A i, j \in 0..(N - 1) : i < 1 /\ j < d => Pos(h, i) # Pos(u, j)
      /\ \A i \in 0..(N - 1) : i < 1 => Pos(u, d + i) = Pos(h, i)
  <2>1. 1 \in Nat /\ 1 <= N - 1 - Between(h, u)
    BY <1>5, <1>6
  <2>2. /\ Pos(h, 1) \in 0..(N - 1) /\ Between(Pos(h, 1), u) = Between(h, u) + 1
        /\ \A i, j \in 0..(N - 1) : i < 1 /\ j < Between(h, u) => Pos(h, i) # Pos(u, j)
        /\ \A i \in 0..(N - 1) : i < 1 => Pos(u, Between(h, u) + i) = Pos(h, i)
    BY <2>1, RingPut
  <2> QED BY <1>5, <2>2
<1>8. Pos(h, 0) = h /\ Pos(u, d) = h /\ \A j \in 0..(N - 1) : j < d => Pos(u, j) # h
  <2>1. Pos(h, 0) = h /\ 0 \in 0..(N - 1) /\ d + 0 = d
    BY <1>2, <1>5 DEF Pos
  <2> QED BY <1>7, <2>1
<1>9. TxTypes'
  BY <1>4, <1>5, <1>7 DEF TxTypes
<1>10. Count(TxQ)' = d + 1 /\ Contents(TxQ)' = [i \in 1..(d + 1) |-> buf'[TxQ][Pos(u, i - 1)]]
  <2>1. /\ Count(TxQ)' = Between(head'[TxQ], tail'[TxQ])
        /\ Contents(TxQ)' = [i \in 1..Count(TxQ)' |-> buf'[TxQ][Pos(tail'[TxQ], i - 1)]]
    BY <1>9, TxContentsNext
  <2> QED BY <1>4, <1>5, <1>7, <2>1
<1>11. ASSUME NEW i \in 1..d PROVE Contents(TxQ)'[i] = Contents(TxQ)[i + n]
  <2> DEFINE j == (i - 1) + n
  <2>1. /\ i - 1 \in 0..(N - 1) /\ i - 1 < d /\ j \in 0..(N - 1) /\ j < N /\ i + n \in 1..c /\ (i + n) - 1 = j
        /\ i \in 1..(d + 1)
    BY <1>2, <1>5
  <2>2. Pos(u, i - 1) = Pos(t, j) /\ Pos(u, i - 1) # h
    BY <1>5, <1>8, <2>1
  <2> HIDE DEF j
  <2>3. Pos(t, j) \in 0..(N - 1)
    BY <2>1, PosIsIn
  <2>4. Contents(TxQ)[i + n] = buf[TxQ][Pos(t, j)]
    BY <1>1, <1>3, <2>1, TxContents
  <2>5. Contents(TxQ)'[i] = buf'[TxQ][Pos(t, j)]
    BY <1>10, <2>1, <2>2
  <2> QED BY <1>4, <2>2, <2>3, <2>4, <2>5
<1>12. Contents(TxQ)'[d + 1] = b
  <2>1. d + 1 \in 1..(d + 1) /\ (d + 1) - 1 = d
    BY <1>5
  <2> QED BY <1>4, <1>8, <1>10, <2>1
<1>13. c - n = d
  BY <1>5
<1> QED BY <1>3, <1>9, <1>10, <1>11, <1>12, <1>13

----------------------------------------------------------------------------
(* What the steps do to the output.                                        *)

\* The number of bytes of the output.
OutputLen == Count(TxQ) + 1

\* A list with an element put in front.
LEMMA ConsIs ==
    ASSUME NEW a, NEW c \in Nat, NEW s, s = [i \in 1..c |-> s[i]]
    PROVE  /\ Len(<<a>> \o s) = c + 1 /\ (<<a>> \o s)[1] = a /\ DOMAIN (<<a>> \o s) = 1..(c + 1)
           /\ \A i \in 1..c : (<<a>> \o s)[i + 1] = s[i]
<1> DEFINE S == {a} \cup {s[i] : i \in 1..c}
<1>1. s \in Seq(S) /\ Len(s) = c /\ <<a>> \in Seq(S) /\ Len(<<a>>) = 1 /\ <<a>>[1] = a
  OBVIOUS
<1> HIDE DEF S
<1>2. <<a>> \o s \in Seq(S) /\ Len(<<a>> \o s) = c + 1
  BY <1>1
<1>3. \A i \in 1..c : (<<a>> \o s)[i + 1] = s[i]
  BY <1>1
<1> QED BY <1>1, <1>2, <1>3

\* The output is the last byte sent and the contents of txq, before a step
\* and after it.
LEMMA OutputIs ==
    ASSUME TxTypes
    PROVE  /\ OutputLen \in Nat /\ OutputLen >= 1 /\ Output[1] = last_sent
           /\ \A i \in 1..Count(TxQ) : Output[i + 1] = Contents(TxQ)[i]
           /\ OfThreads = Places(Output, OutputLen)
<1>1. PICK c, s, a : c = Count(TxQ) /\ s = Contents(TxQ) /\ a = last_sent
  OBVIOUS
<1>2. c \in Nat /\ s = [i \in 1..c |-> s[i]]
  BY <1>1, TxContents
<1>3. /\ (<<a>> \o s)[1] = a /\ DOMAIN (<<a>> \o s) = 1..(c + 1)
      /\ \A i \in 1..c : (<<a>> \o s)[i + 1] = s[i]
  BY <1>2, ConsIs
<1>4. Output = <<a>> \o s
  BY <1>1 DEF Output
<1> QED BY <1>1, <1>2, <1>3, <1>4 DEF OutputLen, OfThreads, Places

LEMMA OutputIsNext ==
    ASSUME TxTypes'
    PROVE  /\ OutputLen' \in Nat /\ OutputLen' >= 1 /\ Output'[1] = last_sent'
           /\ \A i \in 1..Count(TxQ)' : Output'[i + 1] = Contents(TxQ)'[i]
<1>1. PICK c, s, a : c = Count(TxQ)' /\ s = Contents(TxQ)' /\ a = last_sent'
  OBVIOUS
<1>2. c \in Nat /\ s = [i \in 1..c |-> s[i]]
  BY <1>1, TxContentsNext
<1>3. /\ (<<a>> \o s)[1] = a
      /\ \A i \in 1..c : (<<a>> \o s)[i + 1] = s[i]
  BY <1>2, ConsIs
<1>4. Output' = <<a>> \o s
  BY <1>1 DEF Output
<1> QED BY <1>1, <1>2, <1>3, <1>4 DEF OutputLen

\* The last byte of a thread among those sent.
LEMMA SentIs ==
    ASSUME TxTypes, NEW n \in Nat, n <= Count(TxQ), Transmit(SubSeq(Contents(TxQ), 1, n))
    PROVE  \E f \in Places(Output, OutputLen) :
              /\ f <= n + 1 /\ last_sent' = Output[f]
              /\ \A k \in Places(Output, OutputLen) : k <= n + 1 => k <= f
<1>1. PICK c, s : c \in Nat /\ c = Count(TxQ) /\ s = Contents(TxQ) /\ s = [i \in 1..c |-> s[i]]
  BY TxContents
<1>2. PICK b : b = SubSeq(s, 1, n)
  OBVIOUS
<1>3. DOMAIN b = 1..n /\ \A i \in 1..n : b[i] = s[i]
  <2> DEFINE S == {s[i] : i \in 1..c}
  <2>1. s \in Seq(S) /\ Len(s) = c
    BY <1>1
  <2> HIDE DEF S
  <2>2. n <= Len(s)
    BY <1>1, <2>1
  <2> QED BY <1>2, <2>1, <2>2
<1>4. /\ OutputLen = c + 1 /\ Output[1] = last_sent
      /\ \A i \in 1..c : Output[i + 1] = s[i]
  BY <1>1, OutputIs DEF OutputLen
<1> DEFINE mine == {i \in DOMAIN b : OfThread(b[i])}
<1>5. last_sent' = IF mine = {} THEN last_sent ELSE b[Max(mine)]
  BY <1>1, <1>2 DEF Transmit
<1>6. \A k : k \in Places(Output, OutputLen) /\ k <= n + 1 /\ k # 1 => k - 1 \in mine /\ k \in Nat
  <2> SUFFICES ASSUME NEW k \in Places(Output, OutputLen), k <= n + 1, k # 1
               PROVE  k - 1 \in mine /\ k \in Nat
    OBVIOUS
  <2>1. k \in 1..(c + 1) /\ OfThread(Output[k])
    BY <1>4 DEF Places
  <2>2. k - 1 \in 1..n /\ k - 1 \in 1..c /\ (k - 1) + 1 = k
    BY <1>1, <2>1
  <2>3. Output[k] = b[k - 1]
    BY <1>3, <1>4, <2>2
  <2> QED BY <1>3, <2>1, <2>2, <2>3
<1>7. CASE mine = {}
  <2>1. 1 \in Places(Output, OutputLen) /\ 1 <= n + 1 /\ last_sent' = Output[1]
    BY <1>4, <1>5, <1>7 DEF Places
  <2>2. \A k \in Places(Output, OutputLen) : k <= n + 1 => k <= 1
    BY <1>6, <1>7
  <2> QED BY <2>1, <2>2
<1>8. CASE mine # {}
  <2>1. mine \in SUBSET (0..n)
    BY <1>3
  <2>2. PICK m : m = Max(mine)
    OBVIOUS
  <2>3. m \in mine /\ \A x \in mine : x <= m
    <3> HIDE DEF mine
    <3> QED BY <1>8, <2>1, <2>2, GreatestOf
  <2>4. m \in 1..n /\ m \in 1..c /\ OfThread(b[m]) /\ b[m] = s[m]
    <3>1. m \in DOMAIN b /\ OfThread(b[m])
      BY <2>3 DEF OfThread
    <3>2. m \in 1..n /\ m \in 1..c
      BY <1>1, <1>3, <3>1
    <3> QED BY <1>3, <3>1, <3>2
  <2>5. m + 1 \in Places(Output, OutputLen) /\ m + 1 <= n + 1 /\ last_sent' = Output[m + 1]
    <3>1. Output[m + 1] = s[m] /\ m + 1 \in 1..OutputLen
      BY <1>1, <1>4, <2>4
    <3> QED BY <1>5, <1>8, <2>2, <2>4, <3>1 DEF Places
  <2>6. \A k \in Places(Output, OutputLen) : k <= n + 1 => k <= m + 1
    <3> SUFFICES ASSUME NEW k \in Places(Output, OutputLen), k <= n + 1 PROVE k <= m + 1
      OBVIOUS
    <3>1. CASE k = 1
      BY <2>4, <3>1
    <3>2. CASE k # 1
      <4>1. k - 1 \in mine /\ k \in Nat
        BY <1>6, <3>2
      <4>2. k - 1 <= m
        BY <2>3, <4>1
      <4> QED BY <2>4, <4>1, <4>2
    <3> QED BY <3>1, <3>2
  <2> QED BY <2>5, <2>6
<1> QED BY <1>7, <1>8

\* The invariant of the output: bytes follow one another up to v.
OutputEnds(v) == Chained(Output, OutputLen) /\ Ends(Output, OutputLen, v)

\* Bytes are sent.
LEMMA OutputSent ==
    ASSUME TxTypes, NEW in, NEW out, Transfer(in, out), in[TxQ] = <<>>,
           NEW n \in Nat, n <= Count(TxQ), out[TxQ] = n,
           Transmit(SubSeq(Contents(TxQ), 1, n)), NEW v, OutputEnds(v)
    PROVE  TxTypes' /\ OutputEnds(v)'
<1>1. PICK f \in Places(Output, OutputLen) :
         /\ f <= n + 1 /\ last_sent' = Output[f]
         /\ \A k \in Places(Output, OutputLen) : k <= n + 1 => k <= f
  BY SentIs
<1>2. /\ TxTypes' /\ Count(TxQ)' = Count(TxQ) - n
      /\ \A i \in 1..(Count(TxQ) - n) : Contents(TxQ)'[i] = Contents(TxQ)[i + n]
  BY TxSent
<1>3. PICK c \in Nat, m \in Nat : c = Count(TxQ) /\ m = OutputLen /\ m = c + 1 /\ n < m
  BY TxContents DEF OutputLen
<1>4. OutputLen' = m - n
  BY <1>2, <1>3 DEF OutputLen
<1>5. Output'[1] = Output[f]
  BY <1>1, <1>2, OutputIsNext
<1>6. \A k \in 2..(m - n) : Output'[k] = Output[k + n]
  <2> SUFFICES ASSUME NEW k \in 2..(m - n) PROVE Output'[k] = Output[k + n]
    OBVIOUS
  <2>1. k - 1 \in 1..(c - n) /\ (k - 1) + 1 = k /\ (k - 1) + n \in 1..c /\ ((k - 1) + n) + 1 = k + n
    BY <1>3
  <2>2. Output'[k] = Contents(TxQ)'[k - 1]
    BY <1>2, <1>3, <2>1, OutputIsNext
  <2>3. Output[k + n] = Contents(TxQ)[(k - 1) + n]
    BY <1>3, <2>1, OutputIs
  <2> QED BY <1>2, <1>3, <2>1, <2>2, <2>3
<1>7. Chained(Output', m - n) /\ Ends(Output', m - n, v)
  <2>1. Chained(Output, m) /\ Ends(Output, m, v) /\ m >= 1
    BY <1>3 DEF OutputEnds
  <2> QED BY <1>1, <1>3, <1>5, <1>6, <2>1, ChainTake
<1> QED BY <1>2, <1>4, <1>7 DEF OutputEnds

\* A byte is queued, and others may be sent.
LEMMA OutputQueued ==
    ASSUME TxTypes, NEW b, NEW n \in Nat, Queue(b, n), n <= Count(TxQ), n = 0 => ~Full(TxQ),
           NEW v, OutputEnds(v), OfThread(b) => Follows(v, b)
    PROVE  TxTypes' /\ OutputEnds(IF OfThread(b) THEN b ELSE v)'
<1> DEFINE in == Add(TxQ, <<b>>)
           out == Take(TxQ, n)
<1>1. Transfer(in, out) /\ in[TxQ] = <<b>> /\ out[TxQ] = n /\ Transmit(SubSeq(Contents(TxQ), 1, n))
  BY DEF Queue, Add, Take, None, Queues
<1> HIDE DEF in, out
<1>2. PICK f \in Places(Output, OutputLen) :
         /\ f <= n + 1 /\ last_sent' = Output[f]
         /\ \A k \in Places(Output, OutputLen) : k <= n + 1 => k <= f
  BY <1>1, SentIs
<1>3. /\ TxTypes' /\ Count(TxQ)' = Count(TxQ) - n + 1
      /\ \A i \in 1..(Count(TxQ) - n) : Contents(TxQ)'[i] = Contents(TxQ)[i + n]
      /\ Contents(TxQ)'[Count(TxQ) - n + 1] = b
  BY <1>1, TxQueued
<1>4. PICK c \in Nat, m \in Nat : c = Count(TxQ) /\ m = OutputLen /\ m = c + 1 /\ n < m
  BY TxContents DEF OutputLen
<1>5. PICK d \in Nat : d = m - n /\ d >= 1 /\ OutputLen' = d + 1 /\ Count(TxQ)' = d /\ d = c - n + 1
  BY <1>3, <1>4 DEF OutputLen
<1>6. Output'[1] = Output[f]
  BY <1>2, <1>3, OutputIsNext
<1>7. \A k \in 2..d : Output'[k] = Output[k + n]
  <2> SUFFICES ASSUME NEW k \in 2..d PROVE Output'[k] = Output[k + n]
    OBVIOUS
  <2>1. /\ k - 1 \in 1..(c - n) /\ k - 1 \in 1..d /\ (k - 1) + 1 = k
        /\ (k - 1) + n \in 1..c /\ ((k - 1) + n) + 1 = k + n
    BY <1>4, <1>5
  <2>2. Output'[k] = Contents(TxQ)'[k - 1]
    BY <1>3, <1>5, <2>1, OutputIsNext
  <2>3. Output[k + n] = Contents(TxQ)[(k - 1) + n]
    BY <1>4, <2>1, OutputIs
  <2> QED BY <1>3, <1>4, <2>1, <2>2, <2>3
<1>8. Output'[d + 1] = b
  <2>1. d \in 1..d /\ d = c - n + 1
    BY <1>5
  <2>2. Output'[d + 1] = Contents(TxQ)'[d]
    BY <1>3, <1>5, <2>1, OutputIsNext
  <2> QED BY <1>3, <1>4, <2>1, <2>2
<1>9. Chained(Output', d) /\ Ends(Output', d, v)
  <2>1. Chained(Output, m) /\ Ends(Output, m, v) /\ m >= 1
    BY <1>4 DEF OutputEnds
  <2>2. Chained(Output', m - n) /\ Ends(Output', m - n, v)
    BY <1>2, <1>4, <1>5, <1>6, <1>7, <2>1, ChainTake
  <2> QED BY <1>5, <2>2
<1>10. Chained(Output', d + 1) /\ Ends(Output', d + 1, IF OfThread(b) THEN b ELSE v)
  BY <1>5, <1>8, <1>9, ChainPut
<1> QED BY <1>3, <1>5, <1>10 DEF OutputEnds

\* Steps that leave txq and the last byte sent alone.
LEMMA OutputStays ==
    ASSUME TxTypes, NEW v, OutputEnds(v), UNCHANGED <<buf, head, tail, last_sent>>
    PROVE  TxTypes' /\ OutputEnds(v)'
<1>1. TxTypes'
  BY DEF TxTypes
<1>2. Output' = Output /\ OutputLen' = OutputLen
  BY DEF Output, OutputLen, Contents, Count
<1> QED BY <1>1, <1>2 DEF OutputEnds

\* Transfers of the input buffer, too.
LEMMA OutputOther ==
    ASSUME TxTypes, NEW in, NEW out, Transfer(in, out), in[TxQ] = <<>>, out[TxQ] = 0,
           last_sent' = last_sent, NEW v, OutputEnds(v)
    PROVE  TxTypes' /\ OutputEnds(v)'
<1>1. 0 <= Count(TxQ) /\ 0 \in Nat
  BY TxContents
<1>2. Transmit(SubSeq(Contents(TxQ), 1, 0))
  <2>1. DOMAIN SubSeq(Contents(TxQ), 1, 0) = {}
    BY TxContents
  <2> QED BY <2>1 DEF Transmit
<1> QED BY <1>1, <1>2, OutputSent

----------------------------------------------------------------------------
(* The lines that threads print.                                           *)

\* Where the threads in putbuf() are in their lines.
LineCalls ==
    /\ printed \in [Threads -> 0..LINE]
    /\ \A t \in Threads : lock_holder[Console] = t => at[t] = "putbuf" \/ Printing(t)
    /\ \A t \in Threads : at[t] \in {"acquire", "hold"} /\ obj[t] = Console => printed[t] = 0
    /\ \A t \in Threads : Printing(t) => printed[t] < LINE

\* The last byte v of a thread is the one that the holder of the console
\* printed last in its line, or the end of a line.
LineEnds(v) ==
    /\ \A t \in Threads : lock_holder[Console] = t /\ printed[t] > 0 => v = <<t, printed[t]>>
    /\ (\A t \in Threads : lock_holder[Console] = t => printed[t] = 0) => v = IrqByte \/ v[2] = LINE

\* The invariant of the lines.
LineInv == TxTypes /\ LineCalls /\ \E v : OutputEnds(v) /\ LineEnds(v)

\* What a step of thread o must show.
LEMMA LineMoves ==
    ASSUME LineCalls, NEW o \in Threads,
           \A t \in Threads : t # o => at'[t] = at[t] /\ obj'[t] = obj[t] /\ printed'[t] = printed[t],
           \A t \in Threads : t # o => (lock_holder'[Console] = t => lock_holder[Console] = t),
           printed' \in [Threads -> 0..LINE],
           lock_holder'[Console] = o => at'[o] = "putbuf" \/ Printing(o)',
           at'[o] \in {"acquire", "hold"} /\ obj'[o] = Console => printed'[o] = 0,
           Printing(o)' => printed'[o] < LINE
    PROVE  LineCalls'
<1>1. \A t \in Threads : t # o => (Printing(t)' <=> Printing(t))
  BY DEF Printing
<1>2. \A t \in Threads : lock_holder'[Console] = t => at'[t] = "putbuf" \/ Printing(t)'
  BY <1>1 DEF LineCalls
<1>3. \A t \in Threads : at'[t] \in {"acquire", "hold"} /\ obj'[t] = Console => printed'[t] = 0
  BY DEF LineCalls
<1>4. \A t \in Threads : Printing(t)' => printed'[t] < LINE
  BY <1>1 DEF LineCalls
<1> QED BY <1>2, <1>3, <1>4 DEF LineCalls

\* A step of thread o that neither prints nor changes hands of the console.
LEMMA LineWaits ==
    ASSUME LineCalls, printed' = printed, lock_holder'[Console] = lock_holder[Console],
           NEW o \in Threads, \A t \in Threads : t # o => at'[t] = at[t] /\ obj'[t] = obj[t],
           lock_holder[Console] = o /\ (at[o] = "putbuf" \/ Printing(o)) => at'[o] = "putbuf" \/ Printing(o)',
           at'[o] \in {"acquire", "hold"} /\ obj'[o] = Console =>
               at[o] \in {"acquire", "hold"} /\ obj[o] = Console,
           Printing(o)' => Printing(o) \/ printed[o] < LINE
    PROVE  LineCalls' /\ \A v : LineEnds(v) => LineEnds(v)'
<1>1. LineCalls'
  <2>1. printed' \in [Threads -> 0..LINE]
    BY DEF LineCalls
  <2>2. lock_holder'[Console] = o => at'[o] = "putbuf" \/ Printing(o)'
    BY DEF LineCalls
  <2>3. at'[o] \in {"acquire", "hold"} /\ obj'[o] = Console => printed'[o] = 0
    BY DEF LineCalls
  <2>4. Printing(o)' => printed'[o] < LINE
    BY DEF LineCalls
  <2> QED BY <2>1, <2>2, <2>3, <2>4, LineMoves
<1>2. \A v : LineEnds(v) => LineEnds(v)'
  BY DEF LineEnds
<1> QED BY <1>1, <1>2

\* The steps of the current thread in its calls.
LEMMA LinePlaces ==
    ASSUME SerialInv, CallInv, LineCalls,
           \/ StartGetc \/ Putchar \/ Getc \/ WaitOnQueue
           \/ WaitForLock(InputQ, "getc", ~Empty(InputQ)) \/ WaitForLock(TxQ, "putc", ~Full(TxQ))
           \/ WakeUp(InputQ, "getc_up") \/ WakeUp(TxQ, "putc_up")
    PROVE  LineCalls' /\ \A v : LineEnds(v) => LineEnds(v)'
<1>0. /\ SerialTypes /\ InputQ # TxQ /\ Console # NULL /\ NULL \notin Threads
      /\ Console # InputQ /\ Console # TxQ /\ Console \in Locks /\ InputQ # NULL /\ TxQ # NULL
      /\ InputQ \in Locks /\ TxQ \in Locks
  BY Names DEF SerialInv, Queues
<1>1. PICK o \in Threads : o = current
  BY CurrentIs
<1>2. /\ \A t \in Threads : t # o => at'[t] = at[t] /\ obj'[t] = obj[t]
      /\ printed' = printed /\ lock_holder'[Console] = lock_holder[Console]
  <2>1. CASE StartGetc \/ Putchar \/ Getc
    BY <1>0, <1>1, <2>1 DEF StartGetc, Putchar, Getc, Enter, Leave, SerialTypes
  <2>2. CASE WaitForLock(InputQ, "getc", ~Empty(InputQ)) \/ WaitForLock(TxQ, "putc", ~Full(TxQ))
    BY <1>0, <1>1, <2>2 DEF WaitForLock, SerialTypes
  <2>3. CASE WaitOnQueue
    BY <1>0, <1>1, <2>3 DEF WaitOnQueue, WaitNotEmpty, WaitNotFull, SerialTypes
  <2>4. CASE WakeUp(InputQ, "getc_up") \/ WakeUp(TxQ, "putc_up")
    BY <1>0, <1>1, <2>4 DEF WakeUp, SerialTypes
  <2> QED BY <2>1, <2>2, <2>3, <2>4
<1>3. \/ at[o] = "client" /\ at'[o] = "getc"
      \/ at[o] = "putbuf" /\ at'[o] = "putc" /\ printed[o] < LINE
      \/ at[o] = "getc" /\ at'[o] = "client"
      \/ at[o] = "getc" /\ at'[o] = "acquire" /\ obj'[o] = InputQ
      \/ at[o] = "putc" /\ at'[o] = "acquire" /\ obj'[o] = TxQ
      \/ at[o] = "getc_wait" /\ at'[o] = "getc_up"
      \/ at[o] = "putc_wait" /\ at'[o] = "putc_up"
      \/ at[o] = "getc_up" /\ at'[o] = "release" /\ obj'[o] = InputQ
      \/ at[o] = "putc_up" /\ at'[o] = "release" /\ obj'[o] = TxQ
  <2>1. CASE StartGetc \/ Putchar \/ Getc
    BY <1>0, <1>1, <2>1 DEF StartGetc, Putchar, Getc, Enter, Leave, AtClient, SerialTypes
  <2>2. CASE WaitForLock(InputQ, "getc", ~Empty(InputQ)) \/ WaitForLock(TxQ, "putc", ~Full(TxQ))
    BY <1>0, <1>1, <2>2 DEF WaitForLock, SerialTypes
  <2>3. CASE WaitOnQueue
    BY <1>0, <1>1, <2>3 DEF WaitOnQueue, WaitNotEmpty, WaitNotFull, SerialTypes
  <2>4. CASE WakeUp(InputQ, "getc_up") \/ WakeUp(TxQ, "putc_up")
    BY <1>0, <1>1, <2>4 DEF WakeUp, SerialTypes
  <2> QED BY <2>1, <2>2, <2>3, <2>4
<1>4. /\ at[o] = "putbuf" \/ Printing(o) => at'[o] = "putbuf" \/ Printing(o)'
      /\ ~(at'[o] \in {"acquire", "hold"} /\ obj'[o] = Console)
      /\ Printing(o)' => Printing(o) \/ printed[o] < LINE
  BY <1>0, <1>3 DEF Printing
<1> QED BY <1>2, <1>4, LineWaits

\* The steps of locks: the console changes hands between lines.
LEMMA LineLocks ==
    ASSUME SerialInv, CallInv, LineCalls, LockStep
    PROVE  LineCalls' /\ \A v : LineEnds(v) => LineEnds(v)'
<1>0. /\ SerialTypes /\ InputQ # TxQ /\ Console # NULL /\ NULL \notin Threads
      /\ Console # InputQ /\ Console # TxQ /\ Console \in Locks /\ Locks = {InputQ, TxQ, Console}
  BY Names, SerialAssumption DEF SerialInv, Queues
<1>1. PICK o \in Threads : o = current
  BY CurrentIs
<1>2. PICK l \in Locks : \/ at[current] = "acquire" /\ LockAcquire(l)
                         \/ SetHolder(l, AfterHold(l))
                         \/ ReleaseUp(l, AfterRelease(l))
  BY DEF LockStep
<1>3. printed' = printed
  BY DEF LockStep
<1>4. \A t \in Threads : t # o => at'[t] = at[t] /\ obj'[t] = obj[t]
  BY <1>0, <1>1, <1>2 DEF LockAcquire, SetHolder, ReleaseUp, SerialTypes
<1>5. CASE at[current] = "acquire" /\ LockAcquire(l)
  <2>1. /\ at[o] = "acquire" /\ obj[o] = l /\ at'[o] \in {"hold", "acquire"} /\ obj'[o] = l
        /\ lock_holder' = lock_holder
    BY <1>0, <1>1, <1>5 DEF LockAcquire, AtClient, SerialTypes
  <2>2. Printing(o)' <=> Printing(o)
    BY <2>1 DEF Printing
  <2> QED BY <1>3, <1>4, <2>1, <2>2, LineWaits
<1>6. CASE SetHolder(l, AfterHold(l))
  <2>1. /\ at[o] = "hold" /\ obj[o] = l /\ at'[o] = AfterHold(l)
        /\ lock_holder' = [lock_holder EXCEPT ![l] = o]
    BY <1>0, <1>1, <1>6 DEF SetHolder, SerialTypes
  <2>2. CASE l = Console
    <3>1. at'[o] = "putbuf" /\ lock_holder'[Console] = o
      BY <1>0, <2>1, <2>2 DEF AfterHold, SerialTypes
    <3>2. printed[o] = 0
      BY <2>1, <2>2 DEF LineCalls
    <3>3. \A t \in Threads : lock_holder[Console] # t
      BY <2>1, <2>2 DEF CallInv, HasConsole
    <3>4. ~Printing(o)'
      BY <3>1 DEF Printing
    <3>5. printed' \in [Threads -> 0..LINE]
      BY <1>3 DEF LineCalls
    <3>6. LineCalls'
      BY <1>3, <1>4, <3>1, <3>2, <3>4, <3>5, LineMoves
    <3>7. \A v : LineEnds(v) => LineEnds(v)'
      <4> SUFFICES ASSUME NEW v, LineEnds(v) PROVE LineEnds(v)'
        OBVIOUS
      <4>1. v = IrqByte \/ v[2] = LINE
        BY <3>3 DEF LineEnds
      <4>2. \A t \in Threads : lock_holder'[Console] = t => printed'[t] = 0
        BY <1>3, <3>1, <3>2
      <4> QED BY <4>1, <4>2 DEF LineEnds
    <3> QED BY <3>6, <3>7
  <2>3. CASE l # Console
    <3>1. lock_holder'[Console] = lock_holder[Console]
      BY <1>0, <2>1, <2>3 DEF SerialTypes
    <3>2. \/ l = InputQ /\ at'[o] = "getc_wait"
          \/ l = TxQ /\ at'[o] = "putc_wait"
      BY <1>0, <2>1, <2>3 DEF AfterHold
    <3>3. /\ Printing(o)' <=> Printing(o)
          /\ at[o] # "putbuf"
      BY <1>0, <2>1, <3>2 DEF Printing
    <3>4. at'[o] \notin {"acquire", "hold"}
      BY <3>2
    <3> QED BY <1>3, <1>4, <3>1, <3>3, <3>4, LineWaits
  <2> QED BY <2>2, <2>3
<1>7. CASE ReleaseUp(l, AfterRelease(l))
  <2>1. at[o] = "release" /\ obj[o] = l /\ at'[o] = AfterRelease(l) /\ lock_holder' = lock_holder
    BY <1>0, <1>1, <1>7 DEF ReleaseUp, SerialTypes
  <2>2. \/ l = Console /\ at'[o] = "client" /\ lock_holder[Console] # o
        \/ l = InputQ /\ at'[o] = "getc"
        \/ l = TxQ /\ at'[o] = "putc"
    BY <1>0, <2>1 DEF AfterRelease, CallInv
  <2>3. /\ Printing(o)' <=> Printing(o)
        /\ at[o] # "putbuf" /\ at'[o] \notin {"acquire", "hold"}
    BY <1>0, <2>1, <2>2 DEF Printing
  <2> QED BY <1>3, <1>4, <2>1, <2>3, LineWaits
<1> QED BY <1>2, <1>5, <1>6, <1>7

\* The steps of printing.
LEMMA LinePrints ==
    ASSUME SerialInv, CallInv, LineInv, StartPutbuf \/ EndPutbuf \/ Putc \/ PutcPolled
    PROVE  LineInv'
<1>0. /\ SerialTypes /\ InputQ # TxQ /\ Console # NULL /\ NULL \notin Threads
      /\ Console # InputQ /\ Console # TxQ /\ Console \in Locks /\ Locks = {InputQ, TxQ, Console}
      /\ LINE \in Nat \ {0}
  BY Names, SerialAssumption DEF SerialInv, Queues
<1>1. PICK o \in Threads : o = current
  BY CurrentIs
<1>2. PICK v : OutputEnds(v) /\ LineEnds(v)
  BY DEF LineInv
<1>3. TxTypes /\ LineCalls /\ printed \in [Threads -> 0..LINE]
  BY DEF LineInv, LineCalls
<1>4. CASE StartPutbuf
  <2>1. /\ at[o] = "client" /\ at'[o] = "acquire" /\ obj'[o] = Console
        /\ \A t \in Threads : t # o => at'[t] = at[t] /\ obj'[t] = obj[t] /\ printed'[t] = printed[t]
        /\ printed'[o] = 0 /\ printed' \in [Threads -> 0..LINE] /\ lock_holder' = lock_holder
    BY <1>0, <1>1, <1>3, <1>4 DEF StartPutbuf, AtClient, SerialTypes
  <2>2. lock_holder[Console] # o
    BY <1>3, <2>1 DEF LineCalls, Printing
  <2>3. ~Printing(o)'
    BY <1>0, <2>1 DEF Printing
  <2>4. LineCalls'
    BY <1>3, <2>1, <2>2, <2>3, LineMoves
  <2>5. LineEnds(v)'
    BY <1>2, <2>1, <2>2 DEF LineEnds
  <2>6. TxTypes' /\ OutputEnds(v)'
    BY <1>2, <1>3, <1>4, OutputStays DEF StartPutbuf
  <2> QED BY <2>4, <2>5, <2>6 DEF LineInv
<1>5. CASE EndPutbuf
  <2>1. /\ at[o] = "putbuf" /\ at'[o] = "release" /\ obj'[o] = Console /\ printed[o] = LINE
        /\ \A t \in Threads : t # o => at'[t] = at[t] /\ obj'[t] = obj[t]
        /\ printed' = printed /\ lock_holder[Console] = o /\ lock_holder'[Console] = NULL
    BY <1>0, <1>1, <1>5 DEF EndPutbuf, ClearHolder, SerialTypes
  <2>2. ~Printing(o)' /\ \A t \in Threads : lock_holder'[Console] # t
    BY <1>0, <2>1 DEF Printing
  <2>3. LineCalls'
    BY <1>3, <2>1, <2>2, LineMoves
  <2>4. v = <<o, LINE>>
    BY <1>0, <1>2, <2>1 DEF LineEnds
  <2>5. v[2] = LINE
    BY <2>4
  <2>6. LineEnds(v)'
    BY <2>2, <2>5 DEF LineEnds
  <2>7. TxTypes' /\ OutputEnds(v)'
    BY <1>2, <1>3, <1>5, OutputStays DEF EndPutbuf, ClearHolder
  <2> QED BY <2>3, <2>6, <2>7 DEF LineInv
<1>6. CASE Putc \/ PutcPolled
  <2>1. PICK p \in 0..LINE : p = printed[o]
    BY <1>3
  <2>2. PICK b : b = <<o, p + 1>>
    OBVIOUS
  <2>3. PICK n \in Nat : Queue(b, n) /\ n <= Count(TxQ) /\ (n = 0 => ~Full(TxQ))
    <3>1. CASE Putc
      <4>1. 0 <= Count(TxQ)
        BY <1>3, TxContents
      <4> QED BY <1>1, <2>1, <2>2, <3>1, <4>1 DEF Putc, NextByte
    <3>2. CASE PutcPolled
      <4>1. 1 <= Count(TxQ)
        BY <1>3, <3>2, SerialAssumption, TxContents DEF PutcPolled
      <4> QED BY <1>1, <2>1, <2>2, <3>2, <4>1 DEF PutcPolled, NextByte
    <3> QED BY <1>6, <3>1, <3>2
  <2>4. /\ \A t \in Threads : t # o => at'[t] = at[t] /\ obj'[t] = obj[t] /\ printed'[t] = printed[t]
        /\ printed' = [printed EXCEPT ![o] = p + 1] /\ lock_holder' = lock_holder /\ at'[o] = "putbuf"
        /\ lock_holder[Console] = o /\ p < LINE
    <3>1. CASE Putc
      <4>1. at[o] = "putc"
        BY <1>1, <3>1 DEF Putc
      <4>2. Printing(o)
        BY <4>1 DEF Printing
      <4>3. lock_holder[Console] = o /\ p < LINE
        BY <1>3, <2>1, <4>2 DEF CallInv, LineCalls
      <4> QED BY <1>0, <1>1, <1>3, <2>1, <3>1, <4>3 DEF Putc, CountPrinted, Leave, SerialTypes
    <3>2. CASE PutcPolled
      <4>1. at[o] = "putbuf" /\ p < LINE
        BY <1>1, <2>1, <3>2 DEF PutcPolled
      <4>2. lock_holder[Console] = o
        BY <4>1 DEF CallInv
      <4> QED BY <1>0, <1>1, <1>3, <2>1, <3>2, <4>1, <4>2 DEF PutcPolled, CountPrinted
    <3> QED BY <1>6, <3>1, <3>2
  <2>5. printed' \in [Threads -> 0..LINE] /\ printed'[o] = p + 1
    BY <1>0, <1>3, <2>1, <2>4
  <2>6. ~Printing(o)'
    BY <2>4 DEF Printing
  <2>7. LineCalls'
    BY <1>3, <2>4, <2>5, <2>6, LineMoves
  <2>8. Follows(v, b)
    <3>1. CASE p > 0
      <4>1. v = <<o, p>>
        BY <1>2, <2>1, <2>4, <3>1 DEF LineEnds
      <4> QED BY <2>2, <4>1 DEF Follows
    <3>2. CASE p = 0
      <4>1. v = IrqByte \/ v[2] = LINE
        BY <1>2, <2>1, <2>4, <3>2 DEF LineEnds
      <4> QED BY <2>2, <3>2, <4>1 DEF Follows
    <3> QED BY <2>1, <3>1, <3>2
  <2>9. OfThread(b)
    BY <1>0, <2>2 DEF OfThread
  <2>10. TxTypes' /\ OutputEnds(b)'
    <3>1. TxTypes' /\ OutputEnds(IF OfThread(b) THEN b ELSE v)'
      BY <1>2, <1>3, <2>3, <2>8, OutputQueued
    <3> QED BY <2>9, <3>1
  <2>11. LineEnds(b)'
    <3>1. \A t \in Threads : lock_holder'[Console] = t <=> t = o
      BY <2>4
    <3>2. p + 1 > 0 /\ p + 1 # 0
      BY <2>1
    <3> QED BY <2>2, <2>5, <3>1, <3>2 DEF LineEnds
  <2> QED BY <2>7, <2>10, <2>11 DEF LineInv
<1> QED BY <1>4, <1>5, <1>6

\* Interrupts, the port, the idle thread, and steps that change nothing.
LEMMA LineOthers ==
    ASSUME SerialInv, LineInv,
           \/ TimerInterrupt \/ KeyboardInterrupt \/ PortInterrupt \/ InterruptPrint
           \/ ByteArrives \/ ThrEmpties \/ UNCHANGED vars
           \/ (IdleBlock \/ IdleHlt \/ IntrDisable \/ IntrEnable) /\ UNCHANGED serialVars
    PROVE  LineInv'
<1>0. /\ SerialTypes /\ TxTypes /\ LineCalls /\ InputQ # TxQ /\ TxQ \in Queues /\ InputQ \in Queues
      /\ None[TxQ] = <<>> /\ \A b : Add(InputQ, b)[TxQ] = <<>>
      /\ \A n : Take(TxQ, n)[TxQ] = n /\ Take(InputQ, n)[TxQ] = 0
  BY Names DEF SerialInv, LineInv, Queues, None, Add, Take
<1>1. PICK o \in Threads : o = current
  BY CurrentIs
<1>2. PICK v : OutputEnds(v) /\ LineEnds(v)
  BY DEF LineInv
<1>3. LineCalls' /\ LineEnds(v)'
  <2>1. \A t \in Threads : \/ at'[t] = at[t] /\ obj'[t] = obj[t]
                           \/ t = o /\ at[t] \in Idling /\ at'[t] \in Idling
    <3>1. CASE TimerInterrupt \/ KeyboardInterrupt \/ PortInterrupt \/ InterruptPrint
      <4>1. EndHlt /\ obj' = obj
        BY <3>1 DEF TimerInterrupt, TimerTick, KeyboardInterrupt, PortInterrupt, SerialInterrupt, InterruptPrint
      <4> QED BY <1>0, <1>1, <4>1 DEF EndHlt, SerialTypes
    <3>2. CASE ByteArrives \/ ThrEmpties \/ UNCHANGED vars
      BY <3>2 DEF ByteArrives, ThrEmpties, vars
    <3>3. CASE (IdleBlock \/ IdleHlt \/ IntrDisable \/ IntrEnable) /\ UNCHANGED serialVars
      BY <1>0, <1>1, <3>3 DEF IdleBlock, IdleHlt, IntrDisable, IntrEnable, SerialTypes
    <3> QED BY <3>1, <3>2, <3>3
  <2>2. printed' = printed /\ lock_holder' = lock_holder
    BY DEF TimerInterrupt, TimerTick, KeyboardInterrupt, PortInterrupt, SerialInterrupt, InterruptPrint,
           ByteArrives, ThrEmpties, vars, IdleBlock, IdleHlt, IntrDisable, IntrEnable
  <2>3. /\ at[o] = "putbuf" \/ Printing(o) => at'[o] = "putbuf" \/ Printing(o)'
        /\ at'[o] \in {"acquire", "hold"} /\ obj'[o] = Console => at[o] \in {"acquire", "hold"} /\ obj[o] = Console
        /\ Printing(o)' => Printing(o)
    BY <2>1 DEF Printing
  <2>4. \A t \in Threads : t # o => at'[t] = at[t] /\ obj'[t] = obj[t]
    BY <2>1
  <2>5. LineCalls' /\ \A w : LineEnds(w) => LineEnds(w)'
    BY <1>0, <2>2, <2>3, <2>4, LineWaits
  <2> QED BY <1>2, <2>5
<1>4. TxTypes' /\ OutputEnds(v)'
  <2>1. CASE KeyboardInterrupt
    <3>1. /\ Transfer(Add(InputQ, Received(1)), Take(InputQ, 0)) /\ last_sent' = last_sent
          /\ Add(InputQ, Received(1))[TxQ] = <<>> /\ Take(InputQ, 0)[TxQ] = 0
      BY <1>0, <2>1 DEF KeyboardInterrupt, InputPutc
    <3> QED BY <1>0, <1>2, <3>1, OutputOther
  <2>2. CASE PortInterrupt
    <3>1. PICK i, n \in 0..(N - 1) : SerialInterrupt(i, n)
      BY <2>2 DEF PortInterrupt
    <3>2. n \in Nat /\ n <= Count(TxQ)
      <4>1. n \in 0..Count(TxQ) /\ Count(TxQ) \in Nat
        BY <1>0, <3>1, TxContents DEF SerialInterrupt
      <4> QED BY <4>1
    <3>3. /\ Transfer(Add(InputQ, Received(i)), Take(TxQ, n)) /\ Transmit(SubSeq(Contents(TxQ), 1, n))
          /\ Add(InputQ, Received(i))[TxQ] = <<>> /\ Take(TxQ, n)[TxQ] = n
      BY <1>0, <3>1 DEF SerialInterrupt, InputPutc
    <3> QED BY <1>0, <1>2, <3>2, <3>3, OutputSent
  <2>3. CASE InterruptPrint
    <3>1. PICK n \in {0, 1} : n = (IF Full(TxQ) THEN 1 ELSE 0) /\ Queue(IrqByte, n)
      BY <2>3 DEF InterruptPrint
    <3>2. n <= Count(TxQ) /\ (n = 0 => ~Full(TxQ)) /\ n \in Nat
      BY <1>0, <3>1, SerialAssumption, TxContents
    <3>3. ~OfThread(IrqByte)
      BY DEF OfThread, IrqByte
    <3>4. TxTypes' /\ OutputEnds(IF OfThread(IrqByte) THEN IrqByte ELSE v)'
      BY <1>0, <1>2, <3>1, <3>2, <3>3, OutputQueued
    <3> QED BY <3>3, <3>4
  <2>4. CASE \/ TimerInterrupt \/ ByteArrives \/ ThrEmpties \/ UNCHANGED vars
             \/ (IdleBlock \/ IdleHlt \/ IntrDisable \/ IntrEnable) /\ UNCHANGED serialVars
    <3>1. UNCHANGED <<buf, head, tail, last_sent>>
      BY <2>4 DEF TimerInterrupt, ByteArrives, ThrEmpties, vars
    <3> QED BY <1>0, <1>2, <3>1, OutputStays
  <2> QED BY <2>1, <2>2, <2>3, <2>4
<1> QED BY <1>3, <1>4 DEF LineInv

\* Every step keeps the lines whole.
LEMMA LineKept ==
    ASSUME SerialInv, CallInv, LineInv, [Next]_vars
    PROVE  LineInv'
<1> HIDE DEF Goto, synchVars, semaVars, queueVars, portVars, historyVars, noTransfer, frameVars, serialVars
<1>1. ASSUME LineCalls' /\ \A v : LineEnds(v) => LineEnds(v)', UNCHANGED <<buf, head, tail, last_sent>>
      PROVE  LineInv'
  <2>1. PICK v : OutputEnds(v) /\ LineEnds(v)
    BY DEF LineInv
  <2>2. TxTypes' /\ OutputEnds(v)'
    BY <1>1, <2>1, OutputStays DEF LineInv
  <2> QED BY <1>1, <2>1, <2>2 DEF LineInv
<1>2. CASE \/ StartGetc \/ Putchar \/ WaitOnQueue
           \/ WaitForLock(InputQ, "getc", ~Empty(InputQ)) \/ WaitForLock(TxQ, "putc", ~Full(TxQ))
           \/ WakeUp(InputQ, "getc_up") \/ WakeUp(TxQ, "putc_up")
  <2>1. LineCalls' /\ \A v : LineEnds(v) => LineEnds(v)'
    BY <1>2, LinePlaces DEF LineInv
  <2>2. UNCHANGED <<buf, head, tail, last_sent>>
    BY <1>2 DEF StartGetc, Putchar, WaitOnQueue, WaitForLock, WakeUp, noTransfer, queueVars, historyVars
  <2> QED BY <1>1, <2>1, <2>2
<1>3. CASE LockStep
  <2>1. LineCalls' /\ \A v : LineEnds(v) => LineEnds(v)'
    BY <1>3, LineLocks DEF LineInv
  <2>2. UNCHANGED <<buf, head, tail, last_sent>>
    BY <1>3 DEF LockStep, serialVars, queueVars, historyVars
  <2> QED BY <1>1, <2>1, <2>2
<1>4. CASE Getc
  <2>1. LineCalls' /\ \A v : LineEnds(v) => LineEnds(v)'
    BY <1>4, LinePlaces DEF LineInv
  <2>2. PICK v : OutputEnds(v) /\ LineEnds(v) /\ TxTypes
    BY DEF LineInv
  <2>3. /\ Transfer(None, Take(InputQ, 1)) /\ None[TxQ] = <<>> /\ Take(InputQ, 1)[TxQ] = 0
        /\ last_sent' = last_sent
    BY <1>4, Names DEF Getc, None, Take, Queues
  <2>4. TxTypes' /\ OutputEnds(v)'
    BY <2>2, <2>3, OutputOther
  <2> QED BY <2>1, <2>2, <2>4 DEF LineInv
<1>5. CASE StartPutbuf \/ EndPutbuf \/ Putc \/ PutcPolled
  BY <1>5, LinePrints
<1>6. CASE \/ TimerInterrupt \/ KeyboardInterrupt \/ PortInterrupt \/ InterruptPrint
           \/ ByteArrives \/ ThrEmpties \/ UNCHANGED vars
           \/ (IdleBlock \/ IdleHlt \/ IntrDisable \/ IntrEnable) /\ UNCHANGED serialVars
  BY <1>6, LineOthers
<1>7. CASE ClientStep
  BY <1>2, <1>5, <1>6, <1>7 DEF ClientStep
<1>8. CASE DriverStep
  BY <1>2, <1>3, <1>4, <1>5, <1>6, <1>8 DEF DriverStep
<1> QED BY <1>6, <1>7, <1>8 DEF Next

\* Nothing has been printed at first.
LEMMA LineStarts == Init => LineInv
<1> SUFFICES ASSUME Init PROVE LineInv
  OBVIOUS
<1>0. /\ N \in Nat /\ N >= 2 /\ LINE \in Nat \ {0} /\ TxQ \in Queues /\ Console \in Locks /\ NULL \notin Threads
  BY Names, SerialAssumption DEF Queues
<1>1. TxTypes
  BY <1>0 DEF Init, TxTypes
<1>2. LineCalls
  <2>1. /\ \A t \in Threads : at[t] \in {"idle_sti", "client"} /\ printed[t] = 0
        /\ printed \in [Threads -> 0..LINE] /\ lock_holder[Console] = NULL
    BY <1>0 DEF Init
  <2> QED BY <1>0, <2>1 DEF LineCalls, Printing
<1>3. LineEnds(IrqByte)
  BY <1>0 DEF Init, LineEnds
<1>4. OutputLen = 1 /\ Output[1] = IrqByte
  <2>1. head[TxQ] = 0 /\ tail[TxQ] = 0 /\ last_sent = IrqByte
    BY <1>0 DEF Init
  <2>2. Count(TxQ) = 0
    BY <1>0, <1>1, <2>1, TxContents DEF Between
  <2> QED BY <1>1, <2>1, <2>2, OutputIs DEF OutputLen
<1>5. Places(Output, 1) = {1}
  BY DEF Places
<1>6. OutputEnds(IrqByte)
  BY <1>4, <1>5 DEF OutputEnds, Chained, Ends
<1> QED BY <1>1, <1>2, <1>3, <1>6 DEF LineInv

\* The invariant is enough.
LEMMA LinesFollow == SerialInv /\ CallInv /\ LineInv => LinesAreWhole
<1> SUFFICES ASSUME SerialInv, CallInv, LineInv PROVE LinesAreWhole
  OBVIOUS
<1>1. PICK v : TxTypes /\ OutputEnds(v) /\ LineEnds(v)
  BY DEF LineInv
<1>2. OfThreads = Places(Output, OutputLen) /\ OutputLen \in Nat
  BY <1>1, OutputIs
<1>3. \A i, j \in OfThreads : i < j /\ (\A k \in OfThreads : k <= i \/ j <= k) => Follows(Output[i], Output[j])
  BY <1>1, <1>2 DEF OutputEnds, Chained
<1>4. PICK e \in OfThreads : Output[e] = v /\ \A k \in OfThreads : k <= e
  BY <1>1, <1>2 DEF OutputEnds, Ends
<1>5. Max(OfThreads) = e
  <2>1. OfThreads \subseteq Nat
    BY <1>2 DEF Places
  <2>2. \A y \in OfThreads : e >= y
    BY <1>4, <2>1
  <2>3. PICK m : m = Max(OfThreads)
    OBVIOUS
  <2>4. m \in OfThreads /\ \A y \in OfThreads : m >= y
    BY <1>4, <2>2, <2>3 DEF Max
  <2>5. m \in Nat /\ e \in Nat /\ m >= e /\ e >= m
    BY <1>4, <2>1, <2>2, <2>4
  <2> QED BY <2>3, <2>5
<1>6. ASSUME NEW t \in Writers, at[t] \in {"putbuf", "putc"}, printed[t] > 0
      PROVE  Output[Max(OfThreads)] = <<t, printed[t]>>
  <2>1. t \in Threads
    BY SerialAssumption
  <2>2. lock_holder[Console] = t
    BY <1>6, <2>1 DEF CallInv, Printing
  <2> QED BY <1>1, <1>4, <1>5, <1>6, <2>1, <2>2 DEF LineEnds
<1> QED BY <1>3, <1>6 DEF LinesAreWhole

(***************************************************************************)
(* For any number of threads that print, and that read the keyboard, any   *)
(* length of the lines, any INTQ_BUFSIZE, with interrupts on or off, and   *)
(* whatever handlers print in between: the bytes that threads pass to      *)
(* putbuf() reach the port line by line, in order, none lost and none      *)
(* twice, up to what the holder of console_lock has printed.               *)
(***************************************************************************)
THEOREM LinesStayWhole == Spec => []LinesAreWhole
<1> DEFINE Inv == SerialInv /\ CallInv /\ LineInv
<1>1. Init => Inv
  BY SerialStarts, CallsStart, LineStarts
<1>2. Inv /\ [Next]_vars => Inv'
  BY SerialKept, CallsKept, LineKept
<1>3. Inv => LinesAreWhole
  BY LinesFollow
<1> HIDE DEF Inv
<1> QED BY <1>1, <1>2, <1>3, PTL DEF Spec
====

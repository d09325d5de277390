---------------------------- MODULE Kernel ----------------------------
(***************************************************************************)
(* The running Pintos kernel: threads that create threads, exit, yield and *)
(* use semaphores, locks and condition variables; the idle thread; and     *)
(* interrupts, which come between any two steps of a thread that has them  *)
(* enabled.  Client code is arbitrary, except that it keeps the rules that *)
(* synch.c asserts (a lock is acquired by a thread that does not hold it,  *)
(* released and used with a condition variable by its holder) and that a   *)
(* thread holds no lock when it exits.                                     *)
(*                                                                         *)
(* More statements, beside those of Synch:                                 *)
(*                                                                         *)
(*   start       thread_start(), before intr_enable()                      *)
(*   tid_load    allocate_tid(), tid_lock held, about to read next_tid     *)
(*   tid_store   allocate_tid(), next_tid read into reg                    *)
(*   tid_done    allocate_tid(), about to release tid_lock                 *)
(*   unblock     thread_create(), about to unblock the thread peer         *)
(*   idle_init, idle_up                                                    *)
(*               idle(), before its loop                                   *)
(***************************************************************************)
EXTENDS Synch, FiniteSets

CONSTANTS
    TidLock,      \* tid_lock
    IdleStarted,  \* idle_started, on the stack of thread_start()
    MaxTid        \* bound on the number of threads ever created

ASSUME KernelAssumption ==
    /\ TidLock \in Locks /\ \A c \in Conds : LockOf[c] # TidLock
    /\ IdleStarted \in Semas
    /\ MaxTid \in Nat

VARIABLES
    next_tid,
    tid,       \* of each thread, 0 until it is assigned
    reg        \* the value of next_tid that allocate_tid() has read

frameVars == <<at, obj, peer, level, asleep>>
tidVars == <<next_tid, tid, reg>>
vars == <<schedVars, synchVars, frameVars, tidVars>>

Labels == SynchLabels \cup
          {"start", "tid_load", "tid_store", "tid_done", "unblock",
           "idle_init", "idle_up"}

(***************************************************************************)
(* thread_start() has created the idle thread and is about to enable       *)
(* interrupts.                                                             *)
(***************************************************************************)
Init ==
    /\ SchedInit
    /\ sema_value = [s \in SemaIds |-> IF s \in Locks THEN 1 ELSE 0]
    /\ sema_waiters = [s \in SemaIds |-> <<>>]
    /\ lock_holder = [l \in Locks |-> NULL]
    /\ cond_waiters = [c \in Conds |-> <<>>]
    /\ at = [t \in Threads |-> CASE t = Main -> "start"
                                 [] t = Idle -> "idle_init"
                                 [] OTHER    -> "client"]
    /\ obj = [t \in Threads |-> NULL]
    /\ peer = [t \in Threads |-> NULL]
    /\ level = [t \in Threads |-> IF t = Main THEN "off" ELSE "on"]
    /\ asleep = [t \in Threads |-> FALSE]
    /\ next_tid = 3
    /\ tid = [t \in Threads |-> CASE t = Main -> 1 [] t = Idle -> 2
                                  [] OTHER -> 0]
    /\ reg = [t \in Threads |-> 0]

----------------------------------------------------------------------------
\* thread_start(): enables interrupts and goes on to sema_down().
StartEnable ==
    /\ at[current] = "start"
    /\ level' = [level EXCEPT ![current] = "on"]
    /\ Goto("down", IdleStarted)
    /\ UNCHANGED <<schedVars, synchVars, peer, asleep, tidVars>>

\* thread_create(): gets a page and initialises the thread n in it, blocked,
\* with no tid; then calls lock_acquire(&tid_lock) in allocate_tid().
ThreadCreate(n) ==
    /\ AtClient("create")
    /\ status[n] = "FREE"
    /\ next_tid <= MaxTid
    /\ status' = [status EXCEPT ![n] = "BLOCKED"]
    /\ tid' = [tid EXCEPT ![n] = 0]
    /\ at' = [at EXCEPT ![n] = "client", ![current] = "acquire"]
    /\ obj' = [obj EXCEPT ![n] = NULL, ![current] = TidLock]
    /\ peer' = [peer EXCEPT ![n] = NULL, ![current] = n]
    /\ level' = [level EXCEPT ![n] = "on"]
    /\ asleep' = [asleep EXCEPT ![n] = FALSE]
    /\ reg' = [reg EXCEPT ![n] = 0]
    /\ UNCHANGED <<ready_list, current, idle_thread, destruction_req,
                   thread_ticks, synchVars, next_tid>>

\* tid = next_tid++, which tid_lock makes atomic.
TidLoad ==
    /\ at[current] = "tid_load"
    /\ reg' = [reg EXCEPT ![current] = next_tid]
    /\ Goto("tid_store", NULL)
    /\ UNCHANGED <<schedVars, synchVars, peer, level, asleep, next_tid, tid>>

TidStore ==
    /\ at[current] = "tid_store"
    /\ next_tid' = reg[current] + 1
    /\ Goto("tid_done", NULL)
    /\ UNCHANGED <<schedVars, synchVars, peer, level, asleep, tid, reg>>

TidRelease ==
    /\ at[current] = "tid_done"
    /\ ClearHolder(TidLock)
    /\ Goto("release", TidLock)
    /\ UNCHANGED tidVars

\* thread_create(): the new thread gets its tid and enters the run queue.
CreateUnblock ==
    /\ at[current] = "unblock"
    /\ tid' = [tid EXCEPT ![peer[current]] = reg[current]]
    /\ Unblock(peer[current])
    /\ peer' = [peer EXCEPT ![current] = NULL]
    /\ reg' = [reg EXCEPT ![current] = 0]
    /\ Goto("client", NULL)
    /\ UNCHANGED <<current, idle_thread, destruction_req, thread_ticks,
                   synchVars, level, asleep, next_tid>>

\* thread_exit(), called by a thread that holds no lock.
ThreadExit ==
    /\ AtClient("exit")
    /\ \A l \in Locks : lock_holder[l] # current
    /\ DoSchedule("DYING", ready_list)
    /\ UNCHANGED <<synchVars, frameVars, tidVars>>

\* thread_yield()
ThreadYield ==
    /\ AtClient("yield")
    /\ Yield
    /\ UNCHANGED <<synchVars, frameVars, tidVars>>

----------------------------------------------------------------------------
\* idle(): idle_thread = thread_current ()
IdleInit ==
    /\ at[current] = "idle_init"
    /\ idle_thread' = current
    /\ Goto("idle_up", NULL)
    /\ UNCHANGED <<status, ready_list, current, destruction_req, thread_ticks,
                   synchVars, peer, level, asleep, tidVars>>

\* idle(): sema_up (idle_started)
IdleUp ==
    /\ at[current] = "idle_up"
    /\ SemaUp(IdleStarted)
    /\ Goto("idle_block", NULL)
    /\ UNCHANGED <<lock_holder, cond_waiters, peer, level, asleep, tidVars>>

\* intr_handler() with timer_interrupt().
TimerInterrupt == TimerTick /\ UNCHANGED tidVars

\* intr_handler() with the handler of a device that ups a semaphore.
DeviceInterrupt(s) ==
    /\ IntrOn /\ "irq" \in Ops
    /\ sema_value[s] < MaxValue
    /\ SemaUp(s)
    /\ EndHlt
    /\ UNCHANGED <<lock_holder, cond_waiters, obj, peer, level, asleep,
                   tidVars>>

----------------------------------------------------------------------------
ClientLocks == Locks \ {TidLock}
ClientSemas == Semas \ {IdleStarted}

AfterHold(l) == IF l = TidLock THEN "tid_load" ELSE "client"
AfterRelease(l) == IF l = TidLock THEN "unblock" ELSE "client"

\* The steps that client code chooses to take.
ClientStep ==
    \/ /\ \/ \E s \in ClientSemas : SemaTryDown(s) \/ ClientSemaUp(s)
          \/ \E l \in ClientLocks : LockTryAcquire(l) \/ LockRelease(l)
          \/ \E c \in Conds : CondWait(c) \/ CondSignal(c) \/ CondBroadcast(c)
          \/ IntrDisable \/ IntrEnable
       /\ UNCHANGED tidVars
    \/ \E n \in Threads : ThreadCreate(n)
    \/ ThreadExit \/ ThreadYield

\* The steps of primitives that are under way, and of their callers.
DownStep ==
    /\ \/ \E s \in ClientSemas : SemaDown(s)
       \/ at[current] = "down" /\ SemaDown(IdleStarted)
       \/ \E l \in ClientLocks : LockAcquire(l)
       \/ at[current] = "acquire" /\ LockAcquire(TidLock)
       \/ \E c \in Conds : CondDown(c)
    /\ UNCHANGED tidVars

KernelStep ==
    \/ /\ \/ \E l \in Locks : \/ SetHolder(l, AfterHold(l))
                              \/ ReleaseUp(l, AfterRelease(l))
          \/ \E c \in Conds : \/ CondRelease(c) \/ CondReleaseUp(c)
                              \/ BroadcastPop(c) \/ BroadcastUp(c)
                              \/ BroadcastEnd(c)
          \/ CondSignalUp \/ IdleBlock \/ IdleHlt
       /\ UNCHANGED tidVars
    \/ StartEnable \/ TidLoad \/ TidStore \/ TidRelease \/ CreateUnblock
    \/ IdleInit \/ IdleUp

Next ==
    \/ ClientStep
    \/ DownStep
    \/ KernelStep
    \/ TimerInterrupt
    \/ \E s \in ClientSemas : DeviceInterrupt(s)

Spec == Init /\ [][Next]_vars

----------------------------------------------------------------------------
TypeOK ==
    /\ SchedTypeOK
    /\ sema_value \in [SemaIds -> Nat]
    /\ sema_waiters \in [SemaIds -> Seq(Threads)]
    /\ lock_holder \in [Locks -> Threads \cup {NULL}]
    /\ cond_waiters \in [Conds -> Seq(Threads)]
    /\ at \in [Threads -> Labels]
    /\ obj \in [Threads -> Objects \cup {NULL}]
    /\ peer \in [Threads -> Threads \cup {NULL}]
    /\ level \in [Threads -> {"on", "off"}]
    /\ asleep \in [Threads -> BOOLEAN]
    /\ next_tid \in Nat
    /\ tid \in [Threads -> Nat]
    /\ reg \in [Threads -> Nat]

\* t is in lock_acquire(l) with the semaphore down, holds l, or is in
\* lock_release(l) with the semaphore not yet up.
Owns(t, l) ==
    \/ lock_holder[l] = t
    \/ at[t] \in {"hold", "release"} /\ obj[t] = l
    \/ at[t] = "cond_up" /\ LockOf[obj[t]] = l

\* The semaphore whose sema_down() t is in.
WaitsOn(t) == CASE at[t] \in {"down", "acquire"} -> obj[t]
                [] at[t] = "cond_down"           -> t
                [] OTHER                         -> NULL

\* t is in the loop of sema_down(s), and has slept at least once.
Sleeper(t, s) == asleep[t] /\ WaitsOn(t) = s

\* t has been initialised by a thread_create() that has not unblocked it.
Newborn(t) == \E p \in Threads : peer[p] = t /\ at[p] \notin {"signal", "bcast_up"}

\* The lists that the elem of t is in, with its positions.
Positions(t, list) == {i \in DOMAIN list : list[i] = t}
WaitSlots(t) == UNION {{s} \X Positions(t, sema_waiters[s]) : s \in SemaIds}
Slots(t) == WaitSlots(t) \cup ({"ready_list"} \X Positions(t, ready_list))
                \cup ({"destruction_req"} \X Positions(t, destruction_req))

IsSingletonOf(slots, list) == \E p \in slots : slots = {p} /\ p[1] = list

(***************************************************************************)
(* The elem of a struct thread is in one list at most, the one its status  *)
(* calls for: the run queue, the waiters of the semaphore it sleeps on, or *)
(* the destruction requests (the comment on elem in thread.h).             *)
(***************************************************************************)
OneList ==
    \A t \in Threads :
        CASE status[t] = "READY" /\ t # idle_thread ->
                IsSingletonOf(Slots(t), "ready_list")
          [] status[t] = "BLOCKED" /\ t # idle_thread /\ ~Newborn(t) ->
                IsSingletonOf(Slots(t), WaitsOn(t))
          [] status[t] = "DYING" /\ t # Main ->
                IsSingletonOf(Slots(t), "destruction_req")
          [] OTHER -> Slots(t) = {}

(***************************************************************************)
(* One thread runs, the one whose stack the CPU is on; a page that a list, *)
(* a lock or the CPU still refers to has not been freed.                   *)
(***************************************************************************)
NoDanglingThread ==
    /\ \A t \in Threads : status[t] = "RUNNING" <=> t = current
    /\ \A t \in Threads : status[t] \in {"FREE", "DYING"} =>
           /\ \A l \in Locks : ~Owns(t, l)
           /\ \A c \in Conds : ~InList(t, cond_waiters[c])
           /\ \A p \in Threads : peer[p] # t
           /\ t # idle_thread

(***************************************************************************)
(* A lock's semaphore is 1 when nobody owns it and 0 when one thread does: *)
(* no interleaving of lock_acquire, lock_release and cond_wait lets two    *)
(* threads in, or loses the lock.                                          *)
(***************************************************************************)
LockAccounting ==
    \A l \in Locks :
        sema_value[l] + Cardinality({t \in Threads : Owns(t, l)}) = 1

(***************************************************************************)
(* As long as threads sleep on a semaphore, each unit of its value has a   *)
(* thread that sema_up() woke and that has yet to test the value: no       *)
(* wakeup is lost when a third thread takes the unit first.                *)
(***************************************************************************)
NoLostWakeup ==
    \A s \in SemaIds :
        sema_waiters[s] # <<>> =>
            sema_value[s] <= Cardinality({t \in Threads :
                Sleeper(t, s) /\ status[t] \in {"READY", "RUNNING"}})

\* The threads about to up the semaphore on the stack of t's cond_wait().
Signallers(t) == {p \in Threads : /\ peer[p] = t
                                  /\ at[p] \in {"signal", "bcast_up"}}

(***************************************************************************)
(* From the moment cond_wait() enters the waiters until it is woken, a     *)
(* thread is in the list of its condition variable, or is being signalled, *)
(* or its semaphore is up: exactly one of them, whether or not the signal  *)
(* comes before it goes to sleep.                                          *)
(***************************************************************************)
SignalAccounting ==
    \A t \in Threads :
        LET listed == UNION {{c} \X Positions(t, cond_waiters[c]) : c \in Conds}
        IN Cardinality(listed) + Cardinality(Signallers(t)) + sema_value[t] =
              IF at[t] \in {"cond_enq", "cond_up", "cond_down"} THEN 1 ELSE 0

\* Threads that have been given their tid have different ones (allocate_tid).
UniqueTids ==
    \A t, u \in {w \in Threads : status[w] # "FREE" /\ tid[w] # 0} :
        tid[t] = tid[u] => t = u

(***************************************************************************)
(* What the assertions of thread.c and synch.c need where they stand: a    *)
(* thread to run next in schedule() whenever the current one may block     *)
(* (idle, before it has set idle_thread, does not); the lock held in       *)
(* the middle of cond_wait() and cond_broadcast(); the new thread blocked. *)
(***************************************************************************)
AssertionsHold ==
    /\ idle_thread = NULL /\ ready_list = <<>> => at[current] = "idle_init"
    /\ \A t \in Threads :
          /\ at[t] \in {"cond_enq", "bcast", "bcast_up"} =>
                lock_holder[LockOf[obj[t]]] = t
          /\ at[t] \in {"tid_load", "tid_store", "tid_done"} =>
                lock_holder[TidLock] = t
          /\ Newborn(t) => status[t] = "BLOCKED"

\* The threads that a list, a lock, a creator or the CPU refers to are the
\* live ones, each in its place and under its own tid.
ThreadsSound == OneList /\ NoDanglingThread /\ UniqueTids

\* No unit that was given while threads slept, and no signal, is lost or
\* comes twice.
WakeupsKept == NoLostWakeup /\ SignalAccounting

\* A page is freed only after its thread has died and been switched away
\* from, and a thread that has died never runs again (do_schedule).
DeadStayDead ==
    [][\A t \in Threads :
          /\ status[t] # "FREE" /\ status'[t] = "FREE" =>
                status[t] = "DYING" /\ current' # t
          /\ status[t] = "DYING" => status'[t] \in {"DYING", "FREE"}]_vars

----------------------------------------------------------------------------
(***************************************************************************)
(* The locks of the kernel implement Mutex: an owner gets a lock that      *)
(* nobody owns and is the one to give it up, whatever the steps of         *)
(* lock_acquire, lock_release and cond_wait are interleaved with.          *)
(***************************************************************************)
OwnerOf(l) == IF \E t \in Threads : Owns(t, l)
              THEN CHOOSE t \in Threads : Owns(t, l) ELSE NULL

Abstract == INSTANCE Mutex WITH NoOwner <- NULL,
                                owner <- [l \in Locks |-> OwnerOf(l)]

LocksAreMutexes == Abstract!Spec
============================================================================

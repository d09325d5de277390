---------------------------- MODULE Synch ----------------------------
(***************************************************************************)
(* Semaphores, locks and condition variables of the Pintos kernel          *)
(* (threads/synch.c) on top of the scheduler.                              *)
(*                                                                         *)
(* sema_down(), sema_try_down() and sema_up() run with interrupts off, so  *)
(* each is one step up to the point where it sleeps.  A lock is a          *)
(* semaphore and a holder that are written in two steps, and cond_wait()   *)
(* is a sequence of four calls: an interrupt may come between any two.     *)
(* at[t] says which statement thread t executes next:                      *)
(*                                                                         *)
(*   client     code outside the kernel primitives                         *)
(*   down       sema_down(obj) of a plain semaphore                        *)
(*   acquire    lock_acquire(obj), in sema_down(&lock->semaphore)          *)
(*   hold       lock_acquire(obj), about to write lock->holder             *)
(*   release    lock_release(obj), holder cleared, sema_up() to come       *)
(*   cond_enq   cond_wait(obj), in cond->waiters, lock still held          *)
(*   cond_up    cond_wait(obj), in lock_release(), holder cleared          *)
(*   cond_down  cond_wait(obj), in sema_down(&waiter.semaphore)            *)
(*   signal     cond_signal(obj), waiter peer popped, sema_up() to come    *)
(*   bcast      cond_broadcast(obj), at the head of its loop               *)
(*   bcast_up   cond_broadcast(obj), waiter peer popped                    *)
(*   idle_block, idle_sti, idle_hlt                                        *)
(*              the loop of idle(), before thread_block(), before "sti;    *)
(*              hlt", and halted until an interrupt                        *)
(*                                                                         *)
(* The semaphore on the stack of cond_wait() is named by its thread.       *)
(***************************************************************************)
EXTENDS Sched

CONSTANTS
    Semas,     \* semaphores of clients, and idle_started
    Locks,     \* locks of clients, and tid_lock
    Conds,     \* condition variables
    LockOf,    \* the lock each condition variable is used with
    MaxValue,  \* bound on the values that clients bring a semaphore to
    Ops        \* the operations that client code calls

SemaIds == Semas \cup Locks \cup Threads
Objects == Semas \cup Locks \cup Conds

ASSUME SynchAssumption ==
    /\ NULL \notin Objects
    /\ Semas \cap Locks = {}
    /\ Threads \cap (Semas \cup Locks) = {}
    /\ LockOf \in [Conds -> Locks]
    /\ MaxValue \in Nat

VARIABLES
    sema_value, sema_waiters,  \* of each semaphore
    lock_holder,
    cond_waiters,
    at, obj, peer,  \* the statement each thread is at, and its arguments
    level,          \* interrupt level set by the code of each thread
    asleep          \* has blocked and not yet completed the statement

semaVars == <<sema_value, sema_waiters>>
synchVars == <<semaVars, lock_holder, cond_waiters>>

SynchLabels == {"client", "down", "acquire", "hold", "release", "cond_enq",
                "cond_up", "cond_down", "signal", "bcast", "bcast_up",
                "idle_block", "idle_sti", "idle_hlt"}

\* The current thread goes on at statement label, for object o.
Goto(label, o) ==
    /\ at' = [at EXCEPT ![current] = label]
    /\ obj' = [obj EXCEPT ![current] = o]

AtClient(op) == at[current] = "client" /\ op \in Ops

\* The interrupt flag: off in the code of a thread that disabled
\* interrupts, and from thread_block() to the intr_set_level() after it.
IntrOn == level[current] = "on" /\ ~asleep[current]

----------------------------------------------------------------------------
\* Faulty: wakes a waiter only when the value was 0.
BadSemaUpWake(s) ==
    /\ sema_value' = [sema_value EXCEPT ![s] = @ + 1]
    /\ IF sema_waiters[s] = <<>> \/ sema_value[s] > 0
       THEN UNCHANGED <<sema_waiters, status, ready_list>>
       ELSE /\ sema_waiters' = [sema_waiters EXCEPT ![s] = Tail(@)]
            /\ Unblock(Head(sema_waiters[s]))
    /\ UNCHANGED <<current, idle_thread, destruction_req, thread_ticks>>

\* Faulty: wakes nobody.
BadSemaUpSilent(s) ==
    /\ sema_value' = [sema_value EXCEPT ![s] = @ + 1]
    /\ UNCHANGED <<sema_waiters, schedVars>>

\* sema_up(s)
SemaUp(s) ==
    /\ sema_value' = [sema_value EXCEPT ![s] = @ + 1]
    /\ \/ /\ sema_waiters[s] = <<>>
          /\ UNCHANGED <<sema_waiters, status, ready_list>>
       \/ /\ sema_waiters[s] # <<>>
          /\ sema_waiters' = [sema_waiters EXCEPT ![s] = Tail(@)]
          /\ Unblock(Head(sema_waiters[s]))
    /\ UNCHANGED <<current, idle_thread, destruction_req, thread_ticks>>

\* Faulty: "if" in place of "while", no second test after a sleep.
BadSemaTake(s) ==
    /\ sema_value[s] > 0 \/ asleep[current]
    /\ sema_value' = [sema_value EXCEPT ![s] = IF @ > 0 THEN @ - 1 ELSE 0]
    /\ asleep' = [asleep EXCEPT ![current] = FALSE]
    /\ UNCHANGED <<sema_waiters, schedVars>>

\* Faulty: the value, which is unsigned, is not tested at all.
BadSemaTakeBlind(s) ==
    /\ sema_value' = [sema_value EXCEPT ![s] = @ - 1]
    /\ asleep' = [asleep EXCEPT ![current] = FALSE]
    /\ UNCHANGED <<sema_waiters, schedVars>>

\* The end of sema_down(s), and of a sema_try_down(s) that succeeds.
SemaTake(s) ==
    /\ sema_value[s] > 0
    /\ sema_value' = [sema_value EXCEPT ![s] = @ - 1]
    /\ asleep' = [asleep EXCEPT ![current] = FALSE]
    /\ UNCHANGED <<sema_waiters, schedVars>>

\* One turn of the loop of sema_down(s); it tests the value again when the
\* thread runs next.
SemaSleep(s) ==
    /\ sema_value[s] = 0
    /\ sema_waiters' = [sema_waiters EXCEPT ![s] = Append(@, current)]
    /\ asleep' = [asleep EXCEPT ![current] = TRUE]
    /\ Block
    /\ UNCHANGED sema_value

----------------------------------------------------------------------------
\* sema_down(s), called by a client or resumed after a sleep.
SemaDown(s) ==
    /\ \/ AtClient("sema")
       \/ at[current] = "down" /\ obj[current] = s
    /\ \/ SemaTake(s)  /\ Goto("client", NULL)
       \/ SemaSleep(s) /\ Goto("down", s)
    /\ UNCHANGED <<lock_holder, cond_waiters, peer, level>>

\* sema_try_down(s), when it returns true: it changes nothing otherwise.
SemaTryDown(s) ==
    /\ AtClient("try")
    /\ SemaTake(s)
    /\ UNCHANGED <<lock_holder, cond_waiters, at, obj, peer, level>>

\* sema_up(s), called by a client.
ClientSemaUp(s) ==
    /\ AtClient("sema")
    /\ sema_value[s] < MaxValue
    /\ SemaUp(s)
    /\ UNCHANGED <<lock_holder, cond_waiters, at, obj, peer, level, asleep>>

----------------------------------------------------------------------------
\* lock_acquire(l) up to the end of its sema_down().
LockAcquire(l) ==
    /\ \/ AtClient("lock") /\ lock_holder[l] # current
       \/ at[current] = "acquire" /\ obj[current] = l
    /\ \/ SemaTake(l)  /\ Goto("hold", l)
       \/ SemaSleep(l) /\ Goto("acquire", l)
    /\ UNCHANGED <<lock_holder, cond_waiters, peer, level>>

\* lock_try_acquire(l) up to the end of its sema_try_down().
LockTryAcquire(l) ==
    /\ AtClient("try")
    /\ lock_holder[l] # current
    /\ SemaTake(l)
    /\ Goto("hold", l)
    /\ UNCHANGED <<lock_holder, cond_waiters, peer, level>>

\* Faulty: the holder is not written.
BadSetHolder(l, label) ==
    /\ at[current] = "hold" /\ obj[current] = l
    /\ Goto(label, NULL)
    /\ UNCHANGED <<schedVars, synchVars, peer, level, asleep>>

\* lock->holder = thread_current (); the thread goes on at label.
SetHolder(l, label) ==
    /\ at[current] = "hold" /\ obj[current] = l
    /\ lock_holder' = [lock_holder EXCEPT ![l] = current]
    /\ Goto(label, NULL)
    /\ UNCHANGED <<schedVars, semaVars, cond_waiters, peer, level, asleep>>

\* lock->holder = NULL, at the start of lock_release(l).
ClearHolder(l) ==
    /\ lock_holder[l] = current
    /\ lock_holder' = [lock_holder EXCEPT ![l] = NULL]
    /\ UNCHANGED <<schedVars, semaVars, cond_waiters, peer, level, asleep>>

LockRelease(l) == AtClient("lock") /\ ClearHolder(l) /\ Goto("release", l)

\* The sema_up() of lock_release(l); the thread goes on at label.
ReleaseUp(l, label) ==
    /\ at[current] = "release" /\ obj[current] = l
    /\ SemaUp(l)
    /\ Goto(label, NULL)
    /\ UNCHANGED <<lock_holder, cond_waiters, peer, level, asleep>>

----------------------------------------------------------------------------
\* cond_wait(c): initialises its semaphore and enters the waiters.
CondWait(c) ==
    /\ AtClient("cond") /\ lock_holder[LockOf[c]] = current
    /\ sema_value' = [sema_value EXCEPT ![current] = 0]
    /\ sema_waiters' = [sema_waiters EXCEPT ![current] = <<>>]
    /\ cond_waiters' = [cond_waiters EXCEPT ![c] = Append(@, current)]
    /\ Goto("cond_enq", c)
    /\ UNCHANGED <<schedVars, lock_holder, peer, level, asleep>>

\* cond_wait(c): lock_release(lock), its two steps.
CondRelease(c) ==
    /\ at[current] = "cond_enq" /\ obj[current] = c
    /\ ClearHolder(LockOf[c])
    /\ Goto("cond_up", c)

CondReleaseUp(c) ==
    /\ at[current] = "cond_up" /\ obj[current] = c
    /\ SemaUp(LockOf[c])
    /\ Goto("cond_down", c)
    /\ UNCHANGED <<lock_holder, cond_waiters, peer, level, asleep>>

\* cond_wait(c): sema_down(&waiter.semaphore), then lock_acquire(lock).
CondDown(c) ==
    /\ at[current] = "cond_down" /\ obj[current] = c
    /\ \/ SemaTake(current)  /\ Goto("acquire", LockOf[c])
       \/ SemaSleep(current) /\ Goto("cond_down", c)
    /\ UNCHANGED <<lock_holder, cond_waiters, peer, level>>

\* cond_signal(c): takes the first waiter out of the list.
PopWaiter(c) ==
    /\ lock_holder[LockOf[c]] = current
    /\ cond_waiters[c] # <<>>
    /\ cond_waiters' = [cond_waiters EXCEPT ![c] = Tail(@)]
    /\ peer' = [peer EXCEPT ![current] = Head(cond_waiters[c])]
    /\ UNCHANGED <<schedVars, semaVars, lock_holder, level, asleep>>

\* cond_signal(c): sema_up() of the waiter's semaphore.
WakeWaiter ==
    /\ SemaUp(peer[current])
    /\ peer' = [peer EXCEPT ![current] = NULL]
    /\ UNCHANGED <<lock_holder, cond_waiters, level, asleep>>

CondSignal(c) == AtClient("cond") /\ PopWaiter(c) /\ Goto("signal", c)

CondSignalUp ==
    at[current] = "signal" /\ WakeWaiter /\ Goto("client", NULL)

\* cond_broadcast(c): calls cond_signal() until nobody waits.
CondBroadcast(c) ==
    /\ AtClient("bcast") /\ lock_holder[LockOf[c]] = current
    /\ Goto("bcast", c)
    /\ UNCHANGED <<schedVars, synchVars, peer, level, asleep>>

BroadcastPop(c) ==
    /\ at[current] = "bcast" /\ obj[current] = c
    /\ PopWaiter(c)
    /\ Goto("bcast_up", c)

BroadcastUp(c) ==
    /\ at[current] = "bcast_up" /\ obj[current] = c
    /\ WakeWaiter
    /\ Goto("bcast", c)

BroadcastEnd(c) ==
    /\ at[current] = "bcast" /\ obj[current] = c
    /\ cond_waiters[c] = <<>>
    /\ Goto("client", NULL)
    /\ UNCHANGED <<schedVars, synchVars, peer, level, asleep>>

----------------------------------------------------------------------------
\* intr_disable() and intr_enable()
IntrDisable ==
    /\ AtClient("intr") /\ level[current] = "on"
    /\ level' = [level EXCEPT ![current] = "off"]
    /\ UNCHANGED <<schedVars, synchVars, at, obj, peer, asleep>>

IntrEnable ==
    /\ AtClient("intr") /\ level[current] = "off"
    /\ level' = [level EXCEPT ![current] = "on"]
    /\ UNCHANGED <<schedVars, synchVars, at, obj, peer, asleep>>

\* idle(): intr_disable (); thread_block ()
IdleBlock ==
    /\ at[current] = "idle_block"
    /\ Block
    /\ asleep' = [asleep EXCEPT ![current] = TRUE]
    /\ Goto("idle_sti", NULL)
    /\ UNCHANGED <<synchVars, peer, level>>

\* idle(): sti; hlt
IdleHlt ==
    /\ at[current] = "idle_sti"
    /\ asleep' = [asleep EXCEPT ![current] = FALSE]
    /\ Goto("idle_hlt", NULL)
    /\ UNCHANGED <<schedVars, synchVars, peer, level>>

\* An interrupt ends the hlt of the CPU, if it is halted.
EndHlt == at' = [at EXCEPT ![current] = IF @ = "idle_hlt" THEN "idle_block"
                                        ELSE @]

\* intr_handler() with timer_interrupt().
TimerTick ==
    /\ IntrOn
    /\ Tick
    /\ EndHlt
    /\ UNCHANGED <<synchVars, obj, peer, level, asleep>>

\* When a semaphore is up and threads sleep on it, the value is taken or
\* the list is drained in the end.
UnitsAreTaken ==
    \A s \in Semas \cup Locks : sema_value[s] > 0 /\ sema_waiters[s] # <<>> ~>
                        sema_value[s] = 0 \/ sema_waiters[s] = <<>>
============================================================================

---------------------------- MODULE KernelProofs ----------------------------
(***************************************************************************)
(* Proofs about the kernel, for any number of threads, semaphores, locks   *)
(* and condition variables and any TIME_SLICE.                             *)
(*                                                                         *)
(* Type correctness is not inductive by itself: schedule() must never run  *)
(* out of threads, so the invariant follows the idle thread from the run   *)
(* queue, where thread_start() puts it, to idle_thread, where schedule()   *)
(* finds it; and a sema_up() must have a thread to wake, so the invariant  *)
(* says which statements have a peer.  TypeInv adds the two.               *)
(*                                                                         *)
(* Dead threads stay dead because every list and every creator that could  *)
(* make a thread ready refers to a live one (ThreadInv), and locks exclude *)
(* because value, holder and the statements of a lock agree (LockInv).     *)
(***************************************************************************)
EXTENDS Kernel, FiniteSetTheorems, TLAPS

----------------------------------------------------------------------------
(* Members of lists. *)

\* list_push_back() adds one member.
LEMMA InListAppend ==
    ASSUME NEW S, NEW list \in Seq(S), NEW x \in S, NEW t
    PROVE  InList(t, Append(list, x)) <=> InList(t, list) \/ t = x
<1> DEFINE new == Append(list, x)
<1>1. /\ new \in Seq(S) /\ Len(new) = Len(list) + 1 /\ new[Len(list) + 1] = x
      /\ \A i \in 1..Len(list) : new[i] = list[i]
  OBVIOUS
<1>2. Len(list) \in Nat
  OBVIOUS
<1> HIDE DEF new
<1> QED
  BY <1>1, <1>2 DEF InList, new

\* list_pop_front() removes the first member.
LEMMA InListTail ==
    ASSUME NEW S, NEW list \in Seq(S), list # <<>>, NEW t
    PROVE  InList(t, list) <=> InList(t, Tail(list)) \/ t = Head(list)
<1>1. /\ Len(list) \in Nat \ {0} /\ Len(Tail(list)) = Len(list) - 1 /\ Head(list) = list[1]
      /\ \A i \in 1..Len(Tail(list)) : Tail(list)[i] = list[i + 1]
  OBVIOUS
<1>2. ASSUME InList(t, list) PROVE InList(t, Tail(list)) \/ t = Head(list)
  <2>1. PICK i \in 1..Len(list) : list[i] = t
    BY <1>2 DEF InList
  <2>2. CASE i = 1
    BY <1>1, <2>1, <2>2
  <2>3. CASE i # 1
    <3>1. i - 1 \in 1..Len(Tail(list)) /\ Tail(list)[i - 1] = t
      BY <1>1, <2>1, <2>3
    <3> QED BY <3>1 DEF InList
  <2> QED BY <2>2, <2>3
<1>3. ASSUME InList(t, Tail(list)) PROVE InList(t, list)
  <2>1. PICK i \in 1..Len(Tail(list)) : Tail(list)[i] = t
    BY <1>3 DEF InList
  <2>2. i + 1 \in 1..Len(list) /\ list[i + 1] = t
    BY <1>1, <2>1
  <2> QED BY <2>2 DEF InList
<1>4. ASSUME t = Head(list) PROVE InList(t, list)
  BY <1>1, <1>4 DEF InList
<1> QED BY <1>2, <1>3, <1>4

\* An empty list has no member.
LEMMA InListEmpty == \A t : ~InList(t, <<>>)
  BY DEF InList

\* The statements of idle().
IdleLabels == {"idle_init", "idle_up", "idle_block", "idle_sti", "idle_hlt"}

\* schedule() runs a thread, provided that there is one to run.
LEMMA ScheduleType ==
    ASSUME SchedTypeOK, NEW st \in [Threads -> Statuses], NEW rl \in Seq(Threads), NEW dr \in Seq(Threads),
           rl # <<>> \/ idle_thread # NULL, Schedule(st, rl, dr)
    PROVE  SchedTypeOK'
<1>1. NextThreadToRun(rl) \in Threads
  BY SchedAssumption DEF SchedTypeOK, NextThreadToRun
<1>2. 0 \in 0..(TIME_SLICE - 1)
  BY SchedAssumption
<1>3. status' \in [Threads -> Statuses]
  BY <1>1 DEF Schedule, Statuses
<1>4. ready_list' \in Seq(Threads)
  BY DEF Schedule
<1>5. destruction_req' \in Seq(Threads)
  BY DEF Schedule, SchedTypeOK
<1> QED
  BY <1>1, <1>2, <1>3, <1>4, <1>5 DEF Schedule, SchedTypeOK

\* Where the scheduler finds the idle thread.
IdleKept ==
    /\ ~InList(Idle, destruction_req)
    /\ status[Idle] \notin {"FREE", "DYING"}
    /\ idle_thread = NULL => current = Idle \/ InList(Idle, ready_list)

\* Only the idle thread runs idle(), and it starts with idle_thread unset.
BootInv ==
    /\ \A t \in Threads : (at[t] \in IdleLabels) <=> (t = Idle)
    /\ idle_thread = NULL => at[Idle] = "idle_init"
    /\ IdleKept

\* The statements that use peer: those of thread_create() after it has its
\* page, and the sema_up() of cond_signal().
NeedsPeer(label, o) ==
    \/ label \in {"tid_load", "tid_store", "tid_done", "unblock", "signal", "bcast_up"}
    \/ label \in {"acquire", "hold", "release"} /\ o = TidLock

PeerInv == \A t \in Threads : NeedsPeer(at[t], obj[t]) => peer[t] \in Threads

TypeInv == TypeOK /\ BootInv /\ PeerInv

\* The kernel starts in a state of the invariant.
LEMMA TypeInit == Init => TypeInv
<1> SUFFICES ASSUME Init PROVE TypeInv
  OBVIOUS
<1>1. TypeOK
  BY SchedAssumption, SynchAssumption, KernelAssumption
  DEF Init, SchedInit, TypeOK, SchedTypeOK, Statuses, Labels, SynchLabels, SemaIds, Objects
<1>2. BootInv
  BY SchedAssumption DEF Init, SchedInit, BootInv, IdleKept, IdleLabels, InList
<1>3. PeerInv
  BY SchedAssumption, KernelAssumption, SynchAssumption DEF Init, PeerInv, NeedsPeer, Objects
<1> QED BY <1>1, <1>2, <1>3 DEF TypeInv

\* schedule() leaves the idle thread where next_thread_to_run() finds it.
LEMMA ScheduleBoot ==
    ASSUME SchedTypeOK, NEW st \in [Threads -> Statuses], NEW rl \in Seq(Threads), NEW dr \in Seq(Threads),
           Schedule(st, rl, dr),
           idle_thread = NULL => InList(Idle, rl),
           st[Idle] \notin {"FREE", "DYING"}, ~InList(Idle, dr)
    PROVE  /\ IdleKept' /\ idle_thread' = idle_thread
<1>1. ~InList(Idle, destruction_req')
  BY InListAppend, SchedAssumption DEF Schedule, SchedTypeOK
<1>2. status'[Idle] \notin {"FREE", "DYING"}
  BY SchedAssumption DEF Schedule
<1>3. ASSUME idle_thread = NULL PROVE current' = Idle \/ InList(Idle, ready_list')
  <2>1. rl # <<>>
    BY <1>3, InListEmpty
  <2> QED BY <1>3, <2>1, InListTail DEF Schedule, NextThreadToRun
<1> QED BY <1>1, <1>2, <1>3 DEF Schedule, IdleKept, InList

\* thread_block() always finds a thread to run next.
LEMMA BlockType ==
    ASSUME TypeInv, Block, at[current] # "idle_init"
    PROVE  /\ SchedTypeOK'
           /\ IdleKept' /\ idle_thread' = idle_thread
<1> DEFINE st == [status EXCEPT ![current] = "BLOCKED"]
<1>1. SchedTypeOK /\ current \in Threads /\ ready_list \in Seq(Threads) /\ destruction_req \in Seq(Threads)
  BY DEF TypeInv, TypeOK, SchedTypeOK
<1>2. st \in [Threads -> Statuses] /\ st[Idle] \notin {"FREE", "DYING"}
  BY SchedAssumption DEF TypeInv, TypeOK, SchedTypeOK, BootInv, IdleKept, Statuses
<1>3. idle_thread = NULL => InList(Idle, ready_list)
  BY DEF TypeInv, BootInv, IdleKept
<1>4. ready_list # <<>> \/ idle_thread # NULL
  BY <1>3, InListEmpty
<1>5. Schedule(st, ready_list, destruction_req)
  BY DEF Block
<1>6. ~InList(Idle, destruction_req)
  BY DEF TypeInv, BootInv, IdleKept
<1> HIDE DEF st
<1> QED BY <1>1, <1>2, <1>3, <1>4, <1>5, <1>6, ScheduleType, ScheduleBoot

\* do_schedule() for thread_yield() and thread_exit().
LEMMA DoScheduleType ==
    ASSUME TypeInv, NEW ns \in {"READY", "DYING"}, NEW rl \in Seq(Threads), DoSchedule(ns, rl),
           ns = "DYING" => current # Idle,
           idle_thread = NULL => InList(Idle, rl)
    PROVE  /\ SchedTypeOK'
           /\ IdleKept' /\ idle_thread' = idle_thread
<1> DEFINE st == [t \in Threads |->
                 CASE t = current                -> ns
                   [] InList(t, destruction_req) -> "FREE"
                   [] OTHER                      -> status[t]]
<1>1. SchedTypeOK
  BY DEF TypeInv, TypeOK
<1>2. st \in [Threads -> Statuses] /\ st[Idle] \notin {"FREE", "DYING"}
  BY SchedAssumption DEF TypeInv, TypeOK, SchedTypeOK, BootInv, IdleKept, Statuses
<1>4. rl # <<>> \/ idle_thread # NULL
  BY InListEmpty
<1>5. Schedule(st, rl, <<>>)
  BY DEF DoSchedule
<1>6. ~InList(Idle, <<>>) /\ <<>> \in Seq(Threads)
  BY InListEmpty
<1> HIDE DEF st
<1> QED BY <1>1, <1>2, <1>4, <1>5, <1>6, ScheduleType, ScheduleBoot

\* thread_yield() keeps the idle thread where the scheduler finds it.
LEMMA YieldType ==
    ASSUME TypeInv, Yield
    PROVE  /\ SchedTypeOK'
           /\ IdleKept' /\ idle_thread' = idle_thread
<1> DEFINE rl == IF current = idle_thread THEN ready_list
                             ELSE Append(ready_list, current)
<1>1. rl \in Seq(Threads) /\ current \in Threads /\ ready_list \in Seq(Threads)
  BY DEF TypeInv, TypeOK, SchedTypeOK
<1>2. idle_thread = NULL => InList(Idle, rl)
  BY <1>1, InListAppend, SchedAssumption DEF TypeInv, BootInv, IdleKept
<1>3. DoSchedule("READY", rl)
  BY DEF Yield
<1> HIDE DEF rl
<1> QED BY <1>1, <1>2, <1>3, DoScheduleType

\* sema_up() wakes a thread.
LEMMA SemaUpType ==
    ASSUME TypeInv, NEW s \in SemaIds, SemaUp(s)
    PROVE  /\ SchedTypeOK'
           /\ sema_value' \in [SemaIds -> Nat]
           /\ sema_waiters' \in [SemaIds -> Seq(Threads)]
           /\ IdleKept' /\ idle_thread' = idle_thread /\ current' = current
<1>1. sema_value' \in [SemaIds -> Nat]
  BY DEF TypeInv, TypeOK, SemaUp
<1>2. CASE sema_waiters[s] = <<>>
  BY <1>1, <1>2 DEF TypeInv, TypeOK, SchedTypeOK, SemaUp, BootInv, IdleKept
<1>3. CASE sema_waiters[s] # <<>>
  <2> DEFINE w == Head(sema_waiters[s])
  <2>1. sema_waiters[s] \in Seq(Threads)
    BY DEF TypeInv, TypeOK
  <2>2. w \in Threads /\ Tail(sema_waiters[s]) \in Seq(Threads)
    BY <2>1, <1>3
  <2>3. sema_waiters' \in [SemaIds -> Seq(Threads)] /\ Unblock(w)
    BY <1>3, <2>2 DEF TypeInv, TypeOK, SemaUp
  <2> HIDE DEF w
  <2>4. SchedTypeOK'
    BY <2>2, <2>3 DEF TypeInv, TypeOK, SchedTypeOK, SemaUp, Unblock, Statuses
  <2>5. status'[Idle] \notin {"FREE", "DYING"}
    BY <2>3, SchedAssumption DEF TypeInv, TypeOK, SchedTypeOK, Unblock, BootInv, IdleKept, Statuses
  <2>6. InList(Idle, ready_list) => InList(Idle, ready_list')
    BY <2>2, <2>3, InListAppend DEF TypeInv, TypeOK, SchedTypeOK, Unblock
  <2> QED BY <1>1, <2>3, <2>4, <2>5, <2>6 DEF SemaUp, TypeInv, BootInv, IdleKept
<1> QED BY <1>2, <1>3

\* sema_down() that does not sleep.
LEMMA SemaTakeType ==
    ASSUME TypeInv, NEW s \in SemaIds, SemaTake(s)
    PROVE  /\ SchedTypeOK'
           /\ sema_value' \in [SemaIds -> Nat]
           /\ sema_waiters' \in [SemaIds -> Seq(Threads)]
           /\ asleep' \in [Threads -> BOOLEAN]
           /\ IdleKept' /\ idle_thread' = idle_thread
  BY DEF TypeInv, TypeOK, SchedTypeOK, SemaTake, BootInv, IdleKept, schedVars

\* sema_down() that sleeps.
LEMMA SemaSleepType ==
    ASSUME TypeInv, NEW s \in SemaIds, SemaSleep(s), at[current] # "idle_init"
    PROVE  /\ SchedTypeOK'
           /\ sema_value' \in [SemaIds -> Nat]
           /\ sema_waiters' \in [SemaIds -> Seq(Threads)]
           /\ asleep' \in [Threads -> BOOLEAN]
           /\ IdleKept' /\ idle_thread' = idle_thread
<1>1. Append(sema_waiters[s], current) \in Seq(Threads)
  BY DEF TypeInv, TypeOK, SchedTypeOK
<1>2. sema_waiters' \in [SemaIds -> Seq(Threads)]
  BY <1>1 DEF TypeInv, TypeOK, SemaSleep
<1> QED BY <1>2, BlockType DEF TypeInv, TypeOK, SemaSleep


\* The part of TypeInv that the scheduler and the semaphores write.
SchedSemaOK ==
    /\ SchedTypeOK
    /\ sema_value \in [SemaIds -> Nat]
    /\ sema_waiters \in [SemaIds -> Seq(Threads)]
    /\ IdleKept

\* The rest of TypeInv: statements, their arguments, holders and tids.
FrameOK ==
    /\ lock_holder \in [Locks -> Threads \cup {NULL}]
    /\ cond_waiters \in [Conds -> Seq(Threads)]
    /\ at \in [Threads -> Labels]
    /\ obj \in [Threads -> Objects \cup {NULL}]
    /\ peer \in [Threads -> Threads \cup {NULL}]
    /\ level \in [Threads -> {"on", "off"}]
    /\ asleep \in [Threads -> BOOLEAN]
    /\ next_tid \in Nat
    /\ tid \in [Threads -> Nat]
    /\ reg \in [Threads -> Nat]
    /\ \A t \in Threads : (at[t] \in IdleLabels) <=> (t = Idle)
    /\ PeerInv

\* idle_thread is set by the first statement of idle().
BootLabel == idle_thread = NULL => at[Idle] = "idle_init"

\* TypeInv is the conjunction of the three parts.
LEMMA TypeInvParts == TypeInv <=> SchedSemaOK /\ FrameOK /\ BootLabel
  BY DEF TypeInv, TypeOK, BootInv, SchedSemaOK, FrameOK, BootLabel

\* Steps in sema_down(): the part of the scheduler.
LEMMA DownStepSched ==
    ASSUME TypeInv, DownStep PROVE SchedSemaOK' /\ idle_thread' = idle_thread
<1>0. current \in Threads
  BY DEF TypeInv, TypeOK, SchedTypeOK
<1>1. ASSUME NEW s \in SemaIds, SemaTake(s) \/ SemaSleep(s), at[current] # "idle_init"
      PROVE  SchedSemaOK' /\ idle_thread' = idle_thread
  BY <1>1, SemaTakeType, SemaSleepType DEF SchedSemaOK
<1>2. ASSUME NEW s \in Semas, SemaDown(s) PROVE SchedSemaOK' /\ idle_thread' = idle_thread
  BY <1>1, <1>2 DEF SemaDown, AtClient, SemaIds
<1>3. ASSUME NEW l \in Locks, LockAcquire(l) PROVE SchedSemaOK' /\ idle_thread' = idle_thread
  BY <1>1, <1>3 DEF LockAcquire, AtClient, SemaIds
<1>4. ASSUME NEW c \in Conds, CondDown(c) PROVE SchedSemaOK' /\ idle_thread' = idle_thread
  BY <1>0, <1>1, <1>4 DEF CondDown, SemaIds
<1> QED
  BY <1>2, <1>3, <1>4, KernelAssumption DEF DownStep, ClientSemas, ClientLocks

\* A step of the current thread to a statement that has a peer if it needs one.
LEMMA GotoFrame ==
    ASSUME FrameOK, current \in Threads, NEW label \in Labels, NEW o \in Objects \cup {NULL},
           Goto(label, o), (label \in IdleLabels) <=> (current = Idle),
           lock_holder' \in [Locks -> Threads \cup {NULL}],
           cond_waiters' \in [Conds -> Seq(Threads)],
           level' \in [Threads -> {"on", "off"}],
           asleep' \in [Threads -> BOOLEAN],
           next_tid' \in Nat, tid' \in [Threads -> Nat], reg' \in [Threads -> Nat],
           peer' \in [Threads -> Threads \cup {NULL}],
           \A t \in Threads \ {current} : peer'[t] = peer[t],
           NeedsPeer(label, o) => peer'[current] \in Threads
    PROVE  FrameOK' /\ (current # Idle => at'[Idle] = at[Idle])
<1>1. /\ at' \in [Threads -> Labels] /\ obj' \in [Threads -> Objects \cup {NULL}]
      /\ at'[current] = label /\ obj'[current] = o
      /\ \A t \in Threads \ {current} : at'[t] = at[t] /\ obj'[t] = obj[t]
  BY DEF Goto, FrameOK
<1>2. \A t \in Threads : (at'[t] \in IdleLabels) <=> (t = Idle)
  BY <1>1 DEF FrameOK, IdleLabels
<1>3. PeerInv'
  BY <1>1 DEF FrameOK, PeerInv, NeedsPeer
<1>4. current # Idle => at'[Idle] = at[Idle]
  BY <1>1, SchedAssumption
<1> QED BY <1>1, <1>2, <1>3, <1>4 DEF FrameOK, IdleLabels

\* Steps in sema_down(): the part of the statements.
LEMMA DownStepFrame ==
    ASSUME TypeInv, DownStep PROVE FrameOK' /\ at'[Idle] = at[Idle]
<1> USE SchedAssumption, SynchAssumption, KernelAssumption
<1>0. current \in Threads /\ FrameOK
  BY TypeInvParts DEF TypeInv, TypeOK, SchedTypeOK
<1>1. ASSUME NEW s \in SemaIds, SemaTake(s) \/ SemaSleep(s),
             NEW label \in Labels \ IdleLabels, NEW o \in Objects \cup {NULL}, Goto(label, o),
             UNCHANGED <<lock_holder, cond_waiters, peer, level>>, UNCHANGED tidVars,
             at[current] \notin IdleLabels,
             NeedsPeer(label, o) => NeedsPeer(at[current], obj[current])
      PROVE  FrameOK' /\ at'[Idle] = at[Idle]
  <2>1. asleep' \in [Threads -> BOOLEAN]
    BY <1>0, <1>1 DEF FrameOK, SemaTake, SemaSleep
  <2>2. current # Idle
    BY <1>0, <1>1 DEF FrameOK
  <2>3. /\ lock_holder' \in [Locks -> Threads \cup {NULL}]
        /\ cond_waiters' \in [Conds -> Seq(Threads)]
        /\ level' \in [Threads -> {"on", "off"}]
        /\ next_tid' \in Nat /\ tid' \in [Threads -> Nat] /\ reg' \in [Threads -> Nat]
        /\ peer' = peer /\ peer \in [Threads -> Threads \cup {NULL}]
        /\ NeedsPeer(label, o) => peer[current] \in Threads
    BY <1>0, <1>1 DEF FrameOK, PeerInv, tidVars
  <2> QED BY <1>0, <1>1, <2>1, <2>2, <2>3, GotoFrame
<1> USE DEF Labels, SynchLabels, IdleLabels, Objects, NeedsPeer, AtClient, SemaIds
<1>2. ASSUME NEW s \in Semas, SemaDown(s), UNCHANGED tidVars PROVE FrameOK' /\ at'[Idle] = at[Idle]
  BY <1>1, <1>2 DEF SemaDown
<1>3. ASSUME NEW l \in Locks, LockAcquire(l), UNCHANGED tidVars, l = TidLock => at[current] = "acquire"
      PROVE  FrameOK' /\ at'[Idle] = at[Idle]
  BY <1>1, <1>3 DEF LockAcquire
<1>4. ASSUME NEW c \in Conds, CondDown(c), UNCHANGED tidVars PROVE FrameOK' /\ at'[Idle] = at[Idle]
  BY <1>0, <1>1, <1>4 DEF CondDown
<1> QED
  BY <1>2, <1>3, <1>4 DEF DownStep, ClientSemas, ClientLocks

\* A step that leaves the scheduler and the semaphores alone.
LEMMA SameSched ==
    ASSUME TypeInv, UNCHANGED <<schedVars, semaVars>>
    PROVE  SchedSemaOK' /\ idle_thread' = idle_thread
  BY TypeInvParts DEF schedVars, semaVars, SchedSemaOK, SchedTypeOK, IdleKept, InList

\* thread_unblock() of a thread.
LEMMA UnblockType ==
    ASSUME TypeInv, NEW t \in Threads, Unblock(t),
           UNCHANGED <<current, idle_thread, destruction_req, thread_ticks>>
    PROVE  SchedTypeOK' /\ IdleKept'
<1>1. SchedTypeOK'
  BY DEF TypeInv, TypeOK, SchedTypeOK, Unblock, Statuses
<1>2. status'[Idle] \notin {"FREE", "DYING"}
  BY SchedAssumption DEF TypeInv, TypeOK, SchedTypeOK, Unblock, BootInv, IdleKept, Statuses
<1>3. InList(Idle, ready_list) => InList(Idle, ready_list')
  BY InListAppend DEF TypeInv, TypeOK, SchedTypeOK, Unblock
<1> QED BY <1>1, <1>2, <1>3 DEF TypeInv, BootInv, IdleKept, InList

\* Steps of primitives: the part of the scheduler.
LEMMA KernelStepSched ==
    ASSUME TypeInv, KernelStep PROVE SchedSemaOK' /\ BootLabel'
<1> USE SchedAssumption, SynchAssumption, KernelAssumption
<1>0. /\ current \in Threads /\ FrameOK /\ SchedSemaOK /\ BootLabel
      /\ \A s \in Semas \cup Locks \cup Threads : s \in SemaIds
  BY TypeInvParts DEF TypeInv, TypeOK, SchedTypeOK, SemaIds
<1>1. ASSUME NEW s \in SemaIds, SemaUp(s) PROVE SchedSemaOK' /\ idle_thread' = idle_thread
  BY <1>1, SemaUpType DEF SchedSemaOK
<1>2. ASSUME idle_thread' = idle_thread, at[current] \notin IdleLabels \/ at[current] # "idle_init",
             NEW label, NEW o, Goto(label, o)
      PROVE  BootLabel'
  BY <1>0, <1>2 DEF BootLabel, Goto, FrameOK, IdleLabels
<1>3. ASSUME NEW l \in Locks, SetHolder(l, AfterHold(l)) PROVE SchedSemaOK' /\ BootLabel'
  BY <1>2, <1>3, SameSched DEF SetHolder
<1>4. ASSUME NEW l \in Locks, ReleaseUp(l, AfterRelease(l)) PROVE SchedSemaOK' /\ BootLabel'
  BY <1>0, <1>1, <1>2, <1>4 DEF ReleaseUp
<1>5. ASSUME NEW c \in Conds, CondRelease(c) PROVE SchedSemaOK' /\ BootLabel'
  BY <1>2, <1>5, SameSched DEF CondRelease, ClearHolder
<1>6. ASSUME NEW c \in Conds, CondReleaseUp(c) PROVE SchedSemaOK' /\ BootLabel'
  BY <1>0, <1>1, <1>2, <1>6 DEF CondReleaseUp
<1>7. ASSUME NEW c \in Conds, BroadcastPop(c) PROVE SchedSemaOK' /\ BootLabel'
  BY <1>2, <1>7, SameSched DEF BroadcastPop, PopWaiter
<1>8. ASSUME NEW c \in Conds, BroadcastUp(c) PROVE SchedSemaOK' /\ BootLabel'
  <2>1. peer[current] \in SemaIds
    BY <1>0, <1>8 DEF BroadcastUp, FrameOK, PeerInv, NeedsPeer
  <2> QED BY <2>1, <1>1, <1>2, <1>8 DEF BroadcastUp, WakeWaiter
<1>9. ASSUME NEW c \in Conds, BroadcastEnd(c) PROVE SchedSemaOK' /\ BootLabel'
  BY <1>2, <1>9, SameSched DEF BroadcastEnd, synchVars
<1>10. ASSUME CondSignalUp PROVE SchedSemaOK' /\ BootLabel'
  <2>1. peer[current] \in SemaIds
    BY <1>0, <1>10 DEF CondSignalUp, FrameOK, PeerInv, NeedsPeer
  <2> QED BY <2>1, <1>1, <1>2, <1>10 DEF CondSignalUp, WakeWaiter
<1>11. CASE StartEnable
  BY <1>2, <1>11, SameSched DEF StartEnable, synchVars
<1>12. CASE TidLoad
  BY <1>2, <1>12, SameSched DEF TidLoad, synchVars
<1>13. CASE TidStore
  BY <1>2, <1>13, SameSched DEF TidStore, synchVars
<1>14. CASE TidRelease
  BY <1>2, <1>14, SameSched DEF TidRelease, ClearHolder
<1>15. CASE CreateUnblock
  <2>1. peer[current] \in Threads
    BY <1>0, <1>15 DEF CreateUnblock, FrameOK, PeerInv, NeedsPeer
  <2>2. SchedTypeOK' /\ IdleKept'
    BY <1>15, <2>1, UnblockType DEF CreateUnblock
  <2> QED BY <1>0, <1>2, <1>15, <2>2 DEF CreateUnblock, SchedSemaOK, synchVars, semaVars
<1>16. CASE IdleInit
  <2>1. current = Idle
    BY <1>0, <1>16 DEF IdleInit, FrameOK, IdleLabels
  <2> QED BY <1>0, <1>16, <2>1 DEF IdleInit, SchedSemaOK, SchedTypeOK, IdleKept, InList, BootLabel, synchVars, semaVars
<1>17. CASE IdleUp
  BY <1>0, <1>1, <1>2, <1>17 DEF IdleUp
<1>18. CASE IdleBlock
  <2>1. SchedTypeOK' /\ IdleKept' /\ idle_thread' = idle_thread
    BY <1>18, BlockType DEF IdleBlock
  <2> QED BY <1>0, <1>2, <1>18, <2>1 DEF IdleBlock, SchedSemaOK, synchVars, semaVars
<1>19. CASE IdleHlt
  BY <1>2, <1>19, SameSched DEF IdleHlt, synchVars
<1> QED
  BY <1>3, <1>4, <1>5, <1>6, <1>7, <1>8, <1>9, <1>10, <1>11, <1>12, <1>13,
     <1>14, <1>15, <1>16, <1>17, <1>18, <1>19 DEF KernelStep

\* Steps of primitives: the part of the statements.
LEMMA KernelStepFrame ==
    ASSUME TypeInv, KernelStep PROVE FrameOK'
<1> USE SchedAssumption, SynchAssumption, KernelAssumption
<1>0. current \in Threads /\ FrameOK
  BY TypeInvParts DEF TypeInv, TypeOK, SchedTypeOK
<1>1. /\ lock_holder \in [Locks -> Threads \cup {NULL}]
      /\ cond_waiters \in [Conds -> Seq(Threads)]
      /\ level \in [Threads -> {"on", "off"}] /\ asleep \in [Threads -> BOOLEAN]
      /\ next_tid \in Nat /\ tid \in [Threads -> Nat] /\ reg \in [Threads -> Nat]
      /\ peer \in [Threads -> Threads \cup {NULL}]
      /\ NeedsPeer(at[current], obj[current]) => peer[current] \in Threads
      /\ (at[current] \in IdleLabels) <=> (current = Idle)
  BY <1>0 DEF FrameOK, PeerInv
<1> USE DEF Labels, SynchLabels, IdleLabels, Objects, NeedsPeer, SemaIds
<1>3. ASSUME NEW l \in Locks, SetHolder(l, AfterHold(l)), UNCHANGED tidVars PROVE FrameOK'
  <2>1. lock_holder' \in [Locks -> Threads \cup {NULL}]
    BY <1>0, <1>1, <1>3 DEF SetHolder
  <2> QED BY <1>0, <1>1, <1>3, <2>1, GotoFrame DEF SetHolder, AfterHold, tidVars
<1>4. ASSUME NEW l \in Locks, ReleaseUp(l, AfterRelease(l)), UNCHANGED tidVars PROVE FrameOK'
  BY <1>0, <1>1, <1>4, GotoFrame DEF ReleaseUp, AfterRelease, tidVars
<1>41. ASSUME NEW l, ClearHolder(l) PROVE lock_holder' \in [Locks -> Threads \cup {NULL}]
  BY <1>1, <1>41 DEF ClearHolder
<1>5. ASSUME NEW c \in Conds, CondRelease(c), UNCHANGED tidVars PROVE FrameOK'
  <2>1. lock_holder' \in [Locks -> Threads \cup {NULL}]
    BY <1>41, <1>5 DEF CondRelease
  <2> QED BY <1>0, <1>1, <1>5, <2>1, GotoFrame DEF CondRelease, ClearHolder, tidVars
<1>6. ASSUME NEW c \in Conds, CondReleaseUp(c), UNCHANGED tidVars PROVE FrameOK'
  BY <1>0, <1>1, <1>6, GotoFrame DEF CondReleaseUp, tidVars
<1>7. ASSUME NEW c \in Conds, BroadcastPop(c), UNCHANGED tidVars PROVE FrameOK'
  <2>1. /\ cond_waiters' \in [Conds -> Seq(Threads)]
        /\ peer' \in [Threads -> Threads \cup {NULL}] /\ peer'[current] \in Threads
        /\ \A t \in Threads \ {current} : peer'[t] = peer[t]
    BY <1>0, <1>1, <1>7 DEF BroadcastPop, PopWaiter
  <2> QED BY <1>0, <1>1, <1>7, <2>1, GotoFrame DEF BroadcastPop, PopWaiter, tidVars
<1>71. ASSUME peer' = [peer EXCEPT ![current] = NULL]
       PROVE  /\ peer' \in [Threads -> Threads \cup {NULL}]
              /\ \A t \in Threads \ {current} : peer'[t] = peer[t]
  BY <1>0, <1>1, <1>71
<1>8. ASSUME NEW c \in Conds, BroadcastUp(c), UNCHANGED tidVars PROVE FrameOK'
  BY <1>0, <1>1, <1>8, <1>71, GotoFrame DEF BroadcastUp, WakeWaiter, tidVars
<1>9. ASSUME NEW c \in Conds, BroadcastEnd(c), UNCHANGED tidVars PROVE FrameOK'
  BY <1>0, <1>1, <1>9, GotoFrame DEF BroadcastEnd, synchVars, tidVars
<1>10. ASSUME CondSignalUp, UNCHANGED tidVars PROVE FrameOK'
  BY <1>0, <1>1, <1>10, <1>71, GotoFrame DEF CondSignalUp, WakeWaiter, tidVars
<1>11. CASE StartEnable
  <2>1. level' \in [Threads -> {"on", "off"}]
    BY <1>1, <1>11 DEF StartEnable
  <2> QED BY <1>0, <1>1, <1>11, <2>1, GotoFrame DEF StartEnable, synchVars, tidVars
<1>12. CASE TidLoad
  <2>1. reg' \in [Threads -> Nat]
    BY <1>1, <1>12 DEF TidLoad
  <2> QED BY <1>0, <1>1, <1>12, <2>1, GotoFrame DEF TidLoad, synchVars
<1>13. CASE TidStore
  <2>1. next_tid' \in Nat
    BY <1>0, <1>1, <1>13 DEF TidStore
  <2> QED BY <1>0, <1>1, <1>13, <2>1, GotoFrame DEF TidStore, synchVars
<1>14. CASE TidRelease
  <2>1. lock_holder' \in [Locks -> Threads \cup {NULL}]
    BY <1>41, <1>14 DEF TidRelease
  <2> QED BY <1>0, <1>1, <1>14, <2>1, GotoFrame DEF TidRelease, ClearHolder, tidVars
<1>15. CASE CreateUnblock
  <2>1. tid' \in [Threads -> Nat] /\ reg' \in [Threads -> Nat]
    BY <1>0, <1>1, <1>15 DEF CreateUnblock
  <2> QED BY <1>0, <1>1, <1>15, <1>71, <2>1, GotoFrame DEF CreateUnblock, synchVars
<1>16. CASE IdleInit
  BY <1>0, <1>1, <1>16, GotoFrame DEF IdleInit, synchVars, tidVars
<1>17. CASE IdleUp
  BY <1>0, <1>1, <1>17, GotoFrame DEF IdleUp, tidVars
<1>18. ASSUME IdleBlock, UNCHANGED tidVars PROVE FrameOK'
  <2>1. asleep' \in [Threads -> BOOLEAN]
    BY <1>1, <1>18 DEF IdleBlock
  <2> QED BY <1>0, <1>1, <1>18, <2>1, GotoFrame DEF IdleBlock, synchVars, tidVars
<1>19. ASSUME IdleHlt, UNCHANGED tidVars PROVE FrameOK'
  <2>1. asleep' \in [Threads -> BOOLEAN]
    BY <1>1, <1>19 DEF IdleHlt
  <2> QED BY <1>0, <1>1, <1>19, <2>1, GotoFrame DEF IdleHlt, synchVars, tidVars
<1> QED
  BY <1>3, <1>4, <1>5, <1>6, <1>7, <1>8, <1>9, <1>10, <1>11, <1>12, <1>13,
     <1>14, <1>15, <1>16, <1>17, <1>18, <1>19 DEF KernelStep

\* Steps of clients: the part of the scheduler.
LEMMA ClientStepSched ==
    ASSUME TypeInv, ClientStep PROVE SchedSemaOK' /\ idle_thread' = idle_thread
<1> USE SchedAssumption, SynchAssumption, KernelAssumption
<1>0. /\ current \in Threads /\ SchedSemaOK /\ FrameOK
      /\ \A s \in Semas \cup Locks \cup Threads : s \in SemaIds
  BY TypeInvParts DEF TypeInv, TypeOK, SchedTypeOK, SemaIds
<1>1. ASSUME NEW s \in Semas, SemaTryDown(s) PROVE SchedSemaOK' /\ idle_thread' = idle_thread
  BY <1>0, <1>1, SemaTakeType DEF SemaTryDown, SchedSemaOK
<1>2. ASSUME NEW s \in Semas, ClientSemaUp(s) PROVE SchedSemaOK' /\ idle_thread' = idle_thread
  BY <1>0, <1>2, SemaUpType DEF ClientSemaUp, SchedSemaOK
<1>3. ASSUME NEW l \in Locks, LockTryAcquire(l) PROVE SchedSemaOK' /\ idle_thread' = idle_thread
  BY <1>0, <1>3, SemaTakeType DEF LockTryAcquire, SchedSemaOK
<1>4. ASSUME NEW l \in Locks, LockRelease(l) PROVE SchedSemaOK' /\ idle_thread' = idle_thread
  BY <1>4, SameSched DEF LockRelease, ClearHolder
<1>5. ASSUME NEW c \in Conds, CondWait(c) PROVE SchedSemaOK' /\ idle_thread' = idle_thread
  <2>1. <<>> \in Seq(Threads)
    OBVIOUS
  <2>2. sema_value' \in [SemaIds -> Nat] /\ sema_waiters' \in [SemaIds -> Seq(Threads)]
    BY <1>0, <1>5, <2>1 DEF CondWait, SchedSemaOK
  <2>3. UNCHANGED schedVars
    BY <1>5 DEF CondWait
  <2> QED BY <1>0, <2>2, <2>3 DEF SchedSemaOK, SchedTypeOK, IdleKept, InList, schedVars
<1>6. ASSUME NEW c \in Conds, CondSignal(c) PROVE SchedSemaOK' /\ idle_thread' = idle_thread
  BY <1>6, SameSched DEF CondSignal, PopWaiter
<1>7. ASSUME NEW c \in Conds, CondBroadcast(c) PROVE SchedSemaOK' /\ idle_thread' = idle_thread
  BY <1>7, SameSched DEF CondBroadcast, synchVars
<1>8. ASSUME NEW n \in Threads, ThreadCreate(n) PROVE SchedSemaOK' /\ idle_thread' = idle_thread
  BY <1>0, <1>8 DEF ThreadCreate, SchedSemaOK, SchedTypeOK, IdleKept, InList, Statuses, synchVars, semaVars
<1>9. CASE ThreadExit
  <2>1. current # Idle
    BY <1>0, <1>9 DEF ThreadExit, AtClient, FrameOK, IdleLabels
  <2>2. idle_thread = NULL => InList(Idle, ready_list)
    BY <1>0, <2>1 DEF SchedSemaOK, IdleKept
  <2>3. SchedTypeOK' /\ IdleKept' /\ idle_thread' = idle_thread
    BY <1>0, <1>9, <2>1, <2>2, DoScheduleType DEF ThreadExit, SchedSemaOK, SchedTypeOK
  <2> QED BY <1>0, <1>9, <2>3 DEF ThreadExit, SchedSemaOK, synchVars, semaVars
<1>10. CASE ThreadYield
  <2>1. SchedTypeOK' /\ IdleKept' /\ idle_thread' = idle_thread
    BY <1>10, YieldType DEF ThreadYield
  <2> QED BY <1>0, <1>10, <2>1 DEF ThreadYield, SchedSemaOK, synchVars, semaVars
<1>11. CASE (IntrDisable \/ IntrEnable) /\ UNCHANGED tidVars
  BY <1>11, SameSched DEF IntrDisable, IntrEnable, synchVars
<1> QED
  BY <1>1, <1>2, <1>3, <1>4, <1>5, <1>6, <1>7, <1>8, <1>9, <1>10, <1>11
  DEF ClientStep, ClientSemas, ClientLocks

\* Steps that keep the statement the current thread is at.
LEMMA StayFrame ==
    ASSUME TypeInv, UNCHANGED <<at, obj, peer, lock_holder, cond_waiters, next_tid, tid, reg>>,
           level' \in [Threads -> {"on", "off"}], asleep' \in [Threads -> BOOLEAN]
    PROVE  FrameOK' /\ at'[Idle] = at[Idle]
  BY TypeInvParts DEF FrameOK, PeerInv

\* Steps of clients: the part of the statements.
LEMMA ClientStepFrame ==
    ASSUME TypeInv, ClientStep PROVE FrameOK' /\ at'[Idle] = at[Idle]
<1> USE SchedAssumption, SynchAssumption, KernelAssumption
<1>0. current \in Threads /\ FrameOK /\ SchedSemaOK
  BY TypeInvParts DEF TypeInv, TypeOK, SchedTypeOK
<1>1. /\ lock_holder \in [Locks -> Threads \cup {NULL}]
      /\ cond_waiters \in [Conds -> Seq(Threads)]
      /\ level \in [Threads -> {"on", "off"}] /\ asleep \in [Threads -> BOOLEAN]
      /\ next_tid \in Nat /\ tid \in [Threads -> Nat] /\ reg \in [Threads -> Nat]
      /\ peer \in [Threads -> Threads \cup {NULL}]
      /\ (at[current] \in IdleLabels) <=> (current = Idle)
  BY <1>0 DEF FrameOK
<1> USE DEF Labels, SynchLabels, IdleLabels, Objects, NeedsPeer, SemaIds, AtClient
<1>2. ASSUME NEW s \in Semas, SemaTryDown(s), UNCHANGED tidVars PROVE FrameOK' /\ at'[Idle] = at[Idle]
  BY <1>0, <1>1, <1>2, StayFrame DEF SemaTryDown, SemaTake, tidVars
<1>3. ASSUME NEW s \in Semas, ClientSemaUp(s), UNCHANGED tidVars PROVE FrameOK' /\ at'[Idle] = at[Idle]
  BY <1>1, <1>3, StayFrame DEF ClientSemaUp, tidVars
<1>4. ASSUME NEW l \in ClientLocks, LockTryAcquire(l), UNCHANGED tidVars PROVE FrameOK' /\ at'[Idle] = at[Idle]
  <2>1. asleep' \in [Threads -> BOOLEAN]
    BY <1>1, <1>4 DEF LockTryAcquire, SemaTake
  <2> QED BY <1>0, <1>1, <1>4, <2>1, GotoFrame DEF LockTryAcquire, tidVars, ClientLocks
<1>5. ASSUME NEW l \in ClientLocks, LockRelease(l), UNCHANGED tidVars PROVE FrameOK' /\ at'[Idle] = at[Idle]
  <2>1. lock_holder' \in [Locks -> Threads \cup {NULL}]
    BY <1>1, <1>5 DEF LockRelease, ClearHolder
  <2> QED BY <1>0, <1>1, <1>5, <2>1, GotoFrame DEF LockRelease, ClearHolder, tidVars, ClientLocks
<1>6. ASSUME NEW c \in Conds, CondWait(c), UNCHANGED tidVars PROVE FrameOK' /\ at'[Idle] = at[Idle]
  <2>1. cond_waiters' \in [Conds -> Seq(Threads)]
    BY <1>0, <1>1, <1>6 DEF CondWait
  <2> QED BY <1>0, <1>1, <1>6, <2>1, GotoFrame DEF CondWait, tidVars
<1>7. ASSUME NEW c \in Conds, CondSignal(c), UNCHANGED tidVars PROVE FrameOK' /\ at'[Idle] = at[Idle]
  <2>1. /\ cond_waiters' \in [Conds -> Seq(Threads)]
        /\ peer' \in [Threads -> Threads \cup {NULL}] /\ peer'[current] \in Threads
        /\ \A t \in Threads \ {current} : peer'[t] = peer[t]
    BY <1>0, <1>1, <1>7 DEF CondSignal, PopWaiter
  <2> QED BY <1>0, <1>1, <1>7, <2>1, GotoFrame DEF CondSignal, PopWaiter, tidVars
<1>8. ASSUME NEW c \in Conds, CondBroadcast(c), UNCHANGED tidVars PROVE FrameOK' /\ at'[Idle] = at[Idle]
  BY <1>0, <1>1, <1>8, GotoFrame DEF CondBroadcast, synchVars, tidVars
<1>9. ASSUME NEW n \in Threads, ThreadCreate(n) PROVE FrameOK' /\ at'[Idle] = at[Idle]
  <2>1. current # Idle /\ n # Idle
    BY <1>0, <1>1, <1>9 DEF ThreadCreate, SchedSemaOK, IdleKept
  <2>2. /\ at' \in [Threads -> Labels] /\ obj' \in [Threads -> Objects \cup {NULL}]
        /\ peer' \in [Threads -> Threads \cup {NULL}]
        /\ level' \in [Threads -> {"on", "off"}] /\ asleep' \in [Threads -> BOOLEAN]
        /\ tid' \in [Threads -> Nat] /\ reg' \in [Threads -> Nat]
    BY <1>0, <1>1, <1>9 DEF ThreadCreate, FrameOK
  <2>3. /\ at'[current] = "acquire" /\ peer'[current] = n
        /\ \A t \in Threads \ {current, n} : at'[t] = at[t] /\ obj'[t] = obj[t] /\ peer'[t] = peer[t]
        /\ current # n => at'[n] = "client"
    BY <1>0, <1>1, <1>9 DEF ThreadCreate, FrameOK
  <2>4. PeerInv'
    BY <1>0, <2>3 DEF FrameOK, PeerInv
  <2>5. \A t \in Threads : (at'[t] \in IdleLabels) <=> (t = Idle)
    BY <1>0, <2>1, <2>3 DEF FrameOK
  <2> QED BY <1>1, <1>9, <2>1, <2>2, <2>3, <2>4, <2>5 DEF FrameOK, ThreadCreate, synchVars
<1>10. CASE ThreadExit \/ ThreadYield
  BY <1>1, <1>10, StayFrame DEF ThreadExit, ThreadYield, synchVars, frameVars, tidVars
<1>11. CASE (IntrDisable \/ IntrEnable) /\ UNCHANGED tidVars
  <2>1. level' \in [Threads -> {"on", "off"}]
    BY <1>1, <1>11 DEF IntrDisable, IntrEnable
  <2> QED BY <1>1, <1>11, <2>1, StayFrame DEF IntrDisable, IntrEnable, synchVars, tidVars
<1> QED
  BY <1>2, <1>3, <1>4, <1>5, <1>6, <1>7, <1>8, <1>9, <1>10, <1>11
  DEF ClientStep, ClientSemas, ClientLocks

\* Interrupts.
LEMMA InterruptType ==
    ASSUME TypeInv, TimerInterrupt \/ \E s \in ClientSemas : DeviceInterrupt(s)
    PROVE  TypeInv'
<1> USE SchedAssumption, SynchAssumption, KernelAssumption
<1>0. current \in Threads /\ FrameOK /\ SchedSemaOK /\ BootLabel
  BY TypeInvParts DEF TypeInv, TypeOK, SchedTypeOK
<1>1. ASSUME EndHlt, UNCHANGED <<lock_holder, cond_waiters, obj, peer, level, asleep, tidVars>>,
             idle_thread' = idle_thread
      PROVE  FrameOK' /\ BootLabel'
  <2>1. \A t \in Threads : at'[t] = IF t = current /\ at[t] = "idle_hlt" THEN "idle_block" ELSE at[t]
    BY <1>0, <1>1 DEF EndHlt, FrameOK
  <2>2. at' \in [Threads -> Labels]
    BY <1>0, <1>1 DEF EndHlt, FrameOK, Labels, SynchLabels
  <2>3. (\A t \in Threads : (at'[t] \in IdleLabels) <=> (t = Idle)) /\ PeerInv' /\ BootLabel'
    BY <1>0, <1>1, <2>1 DEF FrameOK, PeerInv, NeedsPeer, IdleLabels, BootLabel
  <2> QED BY <1>0, <1>1, <2>2, <2>3 DEF FrameOK, tidVars, IdleLabels
<1>2. CASE TimerInterrupt
  <2>1. SchedTypeOK' /\ IdleKept' /\ idle_thread' = idle_thread
    <3>1. CASE thread_ticks + 1 >= TIME_SLICE
      BY <1>2, <3>1, YieldType DEF TimerInterrupt, TimerTick, Tick
    <3>2. CASE ~(thread_ticks + 1 >= TIME_SLICE)
      BY <1>0, <1>2, <3>2 DEF TimerInterrupt, TimerTick, Tick, SchedSemaOK, SchedTypeOK, IdleKept, InList
    <3> QED BY <3>1, <3>2
  <2>2. SchedSemaOK'
    BY <1>0, <1>2, <2>1 DEF TimerInterrupt, TimerTick, SchedSemaOK, synchVars, semaVars
  <2>3. FrameOK' /\ BootLabel'
    BY <1>1, <1>2, <2>1 DEF TimerInterrupt, TimerTick, synchVars
  <2> QED BY <2>2, <2>3, TypeInvParts DEF TypeInv, TypeOK, BootInv, SchedSemaOK, FrameOK, BootLabel
<1>3. ASSUME NEW s \in ClientSemas, DeviceInterrupt(s) PROVE TypeInv'
  <2>1. SchedSemaOK' /\ idle_thread' = idle_thread
    BY <1>3, SemaUpType DEF DeviceInterrupt, SchedSemaOK, ClientSemas, SemaIds
  <2>2. FrameOK' /\ BootLabel'
    BY <1>1, <1>3, <2>1 DEF DeviceInterrupt
  <2> QED BY <2>1, <2>2 DEF TypeInv, TypeOK, BootInv, SchedSemaOK, FrameOK, BootLabel
<1> QED BY <1>2, <1>3

\* Every step of the kernel preserves the invariant.
LEMMA TypeNext == TypeInv /\ [Next]_vars => TypeInv'
<1> SUFFICES ASSUME TypeInv, [Next]_vars PROVE TypeInv'
  OBVIOUS
<1>0. BootLabel
  BY TypeInvParts
<1>1. ASSUME SchedSemaOK', FrameOK', BootLabel' PROVE TypeInv'
  BY <1>1 DEF TypeInv, TypeOK, BootInv, SchedSemaOK, FrameOK, BootLabel
<1>2. CASE ClientStep
  BY <1>0, <1>1, <1>2, ClientStepSched, ClientStepFrame DEF BootLabel
<1>3. CASE DownStep
  BY <1>0, <1>1, <1>3, DownStepSched, DownStepFrame DEF BootLabel
<1>4. CASE KernelStep
  BY <1>1, <1>4, KernelStepSched, KernelStepFrame
<1>5. CASE TimerInterrupt \/ \E s \in ClientSemas : DeviceInterrupt(s)
  BY <1>5, InterruptType
<1>6. CASE UNCHANGED vars
  <2>1. SchedSemaOK' /\ idle_thread' = idle_thread
    BY <1>6, SameSched DEF vars, synchVars
  <2>2. FrameOK' /\ at'[Idle] = at[Idle]
    BY <1>6, StayFrame DEF vars, synchVars, frameVars, tidVars, TypeInv, TypeOK
  <2> QED BY <1>0, <1>1, <2>1, <2>2 DEF BootLabel
<1> QED BY <1>2, <1>3, <1>4, <1>5, <1>6 DEF Next

(***************************************************************************)
(* The variables of the kernel always have their types.  In particular the *)
(* CPU is always on the stack of a thread: next_thread_to_run() never      *)
(* returns NULL, the assertion is_thread (next) of schedule() never fails. *)
(***************************************************************************)
THEOREM TypeCorrect == Spec => []TypeOK
<1>1. TypeInv => TypeOK
  BY DEF TypeInv
<1> QED BY TypeInit, TypeNext, <1>1, PTL DEF Spec

----------------------------------------------------------------------------

(***************************************************************************)
(* Proofs about the life of a thread: the list its elem is in agrees with  *)
(* its status, so that a thread that has died is in no list from which it  *)
(* could run again, and its page is freed only after the CPU has left it.  *)
(*                                                                         *)
(* DeadStayDead is a property of steps; it needs to know of every place    *)
(* that refers to a thread - the run queue, the waiters of semaphores, the *)
(* creator that will unblock it - that the thread referred to is not dead. *)
(* ThreadInv says so, place by place.                                      *)
(***************************************************************************)

Dead == {"FREE", "DYING"}

NoRepeat(list) == \A i, j \in 1..Len(list) : list[i] = list[j] => i = j

\* t is in the loop of sema_down(s).
Waiting(t, s) ==
    \/ at[t] \in {"down", "acquire"} /\ obj[t] = s
    \/ at[t] = "cond_down" /\ t = s

\* The statements of thread_create() from lock_acquire(&tid_lock) on.
BirthLabel(label, o) ==
    \/ label \in {"tid_load", "tid_store", "tid_done", "unblock"}
    \/ label \in {"acquire", "hold", "release"} /\ o = TidLock

\* p is in thread_create(), with a new thread that is not unblocked yet.
Creates(p) == BirthLabel(at[p], obj[p])

\* The run queue and the destruction requests.
ListInv ==
    /\ \A t \in Threads : status[t] = "RUNNING" <=> t = current
    /\ NoRepeat(ready_list)
    /\ \A t \in Threads : InList(t, ready_list) => status[t] = "READY"
    /\ \A t \in Threads : InList(t, destruction_req) => status[t] = "DYING"

\* The waiters of semaphores.
WaitInv ==
    \A s \in SemaIds :
        /\ NoRepeat(sema_waiters[s])
        /\ \A t \in Threads : InList(t, sema_waiters[s]) =>
              status[t] = "BLOCKED" /\ Waiting(t, s)

\* The threads that thread_create() has initialised and not unblocked yet.
BirthInv ==
    \A p \in Threads : Creates(p) =>
        /\ status[peer[p]] = "BLOCKED" /\ at[peer[p]] = "client"
        /\ \A q \in Threads : Creates(q) /\ peer[q] = peer[p] => q = p

\* The threads that have died.
DeadInv ==
    \A t \in Threads : status[t] \in Dead =>
        at[t] = "client" /\ \A l \in Locks : lock_holder[l] # t

ThreadInv == ListInv /\ WaitInv /\ BirthInv /\ DeadInv

----------------------------------------------------------------------------
(* Lists without repetitions. *)

\* list_push_back() of an element that is not in the list.
LEMMA NoRepeatAppend ==
    ASSUME NEW S, NEW list \in Seq(S), NEW x \in S, NoRepeat(list), ~InList(x, list)
    PROVE  NoRepeat(Append(list, x))
<1> DEFINE new == Append(list, x)
<1>1. /\ Len(new) = Len(list) + 1 /\ new[Len(list) + 1] = x
      /\ \A i \in 1..Len(list) : new[i] = list[i]
  OBVIOUS
<1>2. Len(list) \in Nat
  OBVIOUS
<1> HIDE DEF new
<1> QED
  BY <1>1, <1>2 DEF InList, NoRepeat, new

\* list_pop_front() leaves a list without the element it removes.
LEMMA NoRepeatTail ==
    ASSUME NEW S, NEW list \in Seq(S), list # <<>>, NoRepeat(list)
    PROVE  NoRepeat(Tail(list)) /\ ~InList(Head(list), Tail(list))
<1>1. /\ Len(list) \in Nat \ {0} /\ Len(Tail(list)) = Len(list) - 1 /\ Head(list) = list[1]
      /\ \A i \in 1..Len(Tail(list)) : Tail(list)[i] = list[i + 1] /\ i + 1 \in 1..Len(list)
  OBVIOUS
<1>2. 1 \in 1..Len(list)
  BY <1>1
<1>3. NoRepeat(Tail(list))
  BY <1>1 DEF NoRepeat
<1>4. ASSUME NEW i \in 1..Len(Tail(list)), Tail(list)[i] = Head(list) PROVE FALSE
  <2>1. i + 1 = 1
    BY <1>1, <1>2, <1>4 DEF NoRepeat
  <2> QED BY <2>1
<1> QED BY <1>3, <1>4 DEF InList

\* An empty list has no repetition.
LEMMA NoRepeatEmpty == NoRepeat(<<>>)
  BY DEF NoRepeat

\* The kernel starts in a state of the invariant.
LEMMA ThreadInit == Init => ThreadInv
<1> SUFFICES ASSUME Init PROVE ThreadInv
  OBVIOUS
<1> USE SchedAssumption, SynchAssumption, KernelAssumption
<1>1. ListInv
  BY DEF Init, SchedInit, ListInv, NoRepeat, InList
<1>2. WaitInv
  BY NoRepeatEmpty, InListEmpty DEF Init, WaitInv
<1>3. BirthInv
  BY DEF Init, BirthInv, Creates, BirthLabel
<1>4. DeadInv
  BY DEF Init, SchedInit, DeadInv, Dead
<1> QED BY <1>1, <1>2, <1>3, <1>4 DEF ThreadInv

----------------------------------------------------------------------------
(* What a step does to the lists and the statuses. *)

\* A page is freed only when its thread has died and the CPU has left it,
\* and a thread that has died stays dead.
DeadStep ==
    \A t \in Threads :
        /\ status[t] # "FREE" /\ status'[t] = "FREE" => status[t] = "DYING" /\ current' # t
        /\ status[t] = "DYING" => status'[t] \in Dead

\* A step in which nobody is created, unblocked by its creator or dies.
Calm ==
    /\ ListInv'
    /\ \A s \in SemaIds :
          /\ NoRepeat(sema_waiters'[s])
          /\ \A t \in Threads : InList(t, sema_waiters'[s]) =>
                /\ status'[t] = "BLOCKED"
                /\ InList(t, sema_waiters[s]) \/ (t = current /\ Waiting(t, s)')
    /\ DeadStep
    /\ \A t \in Threads : status'[t] \in Dead => status[t] \in Dead
    /\ \A t \in Threads : status[t] = "BLOCKED" /\ at[t] = "client" => status'[t] = "BLOCKED"

\* Statements that leave the scheduler's lists alone.
LEMMA SameCalm ==
    ASSUME ThreadInv, UNCHANGED <<status, ready_list, current, destruction_req>>,
           \A s \in SemaIds : sema_waiters'[s] \in {sema_waiters[s], <<>>}
    PROVE  Calm
<1>1. ListInv' /\ DeadStep
  BY DEF ThreadInv, ListInv, DeadStep, Dead
<1>2. ASSUME NEW s \in SemaIds
      PROVE  /\ NoRepeat(sema_waiters'[s])
             /\ \A t \in Threads : InList(t, sema_waiters'[s]) =>
                    status'[t] = "BLOCKED" /\ InList(t, sema_waiters[s])
  BY NoRepeatEmpty, InListEmpty DEF ThreadInv, WaitInv
<1> QED BY <1>1, <1>2 DEF Calm

\* sema_up() takes a waiter from its list to the run queue.
LEMMA SemaUpCalm ==
    ASSUME TypeInv, ThreadInv, NEW s \in SemaIds, SemaUp(s)
    PROVE  Calm
<1>1. CASE sema_waiters[s] = <<>>
  BY <1>1, SameCalm DEF SemaUp
<1>2. CASE sema_waiters[s] # <<>>
  <2> DEFINE w == Head(sema_waiters[s])
             tail == Tail(sema_waiters[s])
  <2>1. /\ sema_waiters[s] \in Seq(Threads) /\ sema_waiters \in [SemaIds -> Seq(Threads)]
        /\ ready_list \in Seq(Threads) /\ status \in [Threads -> Statuses]
    BY DEF TypeInv, TypeOK, SchedTypeOK
  <2>2. w \in Threads
    BY <1>2, <2>1
  <2>3. /\ NoRepeat(tail) /\ ~InList(w, tail)
        /\ \A t : InList(t, sema_waiters[s]) <=> InList(t, tail) \/ t = w
    BY <1>2, <2>1, NoRepeatTail, InListTail DEF ThreadInv, WaitInv
  <2>4. /\ sema_waiters' = [sema_waiters EXCEPT ![s] = tail]
        /\ status' = [status EXCEPT ![w] = "READY"] /\ ready_list' = Append(ready_list, w)
        /\ UNCHANGED <<current, destruction_req>>
    BY <1>2 DEF SemaUp, Unblock
  <2> HIDE DEF w, tail
  <2>5. status[w] = "BLOCKED" /\ Waiting(w, s)
    BY <2>2, <2>3 DEF ThreadInv, WaitInv
  <2>6. ListInv'
    <3>1. ~InList(w, ready_list)
      BY <2>2, <2>5 DEF ThreadInv, ListInv
    <3>2. NoRepeat(ready_list') /\ \A t : InList(t, ready_list') <=> InList(t, ready_list) \/ t = w
      BY <2>1, <2>2, <2>4, <3>1, NoRepeatAppend, InListAppend DEF ThreadInv, ListInv
    <3> QED BY <2>1, <2>2, <2>4, <2>5, <3>2 DEF ThreadInv, ListInv
  <2>7. ASSUME NEW r \in SemaIds
        PROVE  /\ NoRepeat(sema_waiters'[r])
               /\ \A t \in Threads : InList(t, sema_waiters'[r]) =>
                      InList(t, sema_waiters[r]) /\ t # w
    <3>1. CASE r = s
      BY <2>1, <2>3, <2>4, <3>1
    <3>2. CASE r # s
      <4>1. ~InList(w, sema_waiters[r])
        BY <2>2, <2>5, <3>2 DEF ThreadInv, WaitInv, Waiting
      <4> QED BY <2>1, <2>4, <3>2, <4>1 DEF ThreadInv, WaitInv
    <3> QED BY <3>1, <3>2
  <2>8. \A t \in Threads : InList(t, sema_waiters'[s]) \/ t # w => status'[t] = status[t]
    BY <2>1, <2>4, <2>7
  <2>9. \A r \in SemaIds : \A t \in Threads :
            InList(t, sema_waiters'[r]) => status'[t] = "BLOCKED"
    BY <2>7, <2>8 DEF ThreadInv, WaitInv
  <2>10. at[w] # "client" /\ status'[w] = "READY"
    BY <2>1, <2>2, <2>4, <2>5 DEF Waiting
  <2>11. DeadStep /\ \A t \in Threads : status'[t] \in Dead => status[t] \in Dead
    BY <2>2, <2>5, <2>8, <2>10 DEF DeadStep, Dead
  <2> QED BY <2>6, <2>7, <2>8, <2>9, <2>10, <2>11 DEF Calm
<1> QED BY <1>1, <1>2

\* schedule() takes the next thread from the run queue, or the idle thread.
LEMMA ScheduleLists ==
    ASSUME TypeInv, NEW st \in [Threads -> Statuses], NEW rl \in Seq(Threads), NEW dr \in Seq(Threads),
           Schedule(st, rl, dr), rl # <<>> \/ idle_thread # NULL, NoRepeat(rl),
           \A t \in Threads : InList(t, rl) => st[t] = "READY",
           \A t \in Threads : InList(t, dr) => st[t] = "DYING",
           \A t \in Threads : st[t] # "RUNNING", st[Idle] \notin Dead
    PROVE  /\ ListInv'
           /\ \A t \in Threads : \/ status'[t] = st[t] /\ t # current'
                                 \/ /\ status'[t] = "RUNNING" /\ t = current'
                                    /\ st[t] = "READY" \/ t = Idle
<1> DEFINE next == NextThreadToRun(rl)
<1>1. /\ status' = [st EXCEPT ![next] = "RUNNING"] /\ current' = next
      /\ ready_list' = IF rl = <<>> THEN rl ELSE Tail(rl)
      /\ destruction_req' = IF next # current /\ st[current] = "DYING" /\ current # Main
                            THEN Append(dr, current) ELSE dr
  BY DEF Schedule
<1>2. current \in Threads /\ next \in Threads /\ (rl = <<>> => next = Idle) /\ (rl # <<>> => next = Head(rl))
  BY SchedAssumption DEF TypeInv, TypeOK, SchedTypeOK, NextThreadToRun
<1>3. st[next] = "READY" \/ next = Idle
  BY <1>2, InListTail
<1> HIDE DEF next
<1>4. \A t \in Threads : status'[t] = IF t = next THEN "RUNNING" ELSE st[t]
  BY <1>1, <1>2
<1>5. NoRepeat(ready_list') /\ \A t \in Threads : InList(t, ready_list') => InList(t, rl) /\ t # next
  <2>1. CASE rl = <<>>
    BY <1>1, <2>1, InListEmpty
  <2>2. CASE rl # <<>>
    BY <1>1, <1>2, <2>2, NoRepeatTail, InListTail
  <2> QED BY <2>1, <2>2
<1>6. \A t \in Threads : InList(t, destruction_req') => st[t] = "DYING"
  BY <1>1, <1>2, InListAppend
<1>7. ListInv'
  BY <1>1, <1>2, <1>3, <1>4, <1>5, <1>6 DEF ListInv, Dead
<1> QED BY <1>1, <1>3, <1>4, <1>7

\* What a switch does to the status of a thread that it does not switch from.
Switched(t) ==
    \/ status'[t] = status[t]
    \/ status'[t] = "RUNNING" /\ (status[t] = "READY" \/ t = Idle)
    \/ status'[t] = "FREE" /\ status[t] = "DYING" /\ t # current'

\* thread_block()
LEMMA BlockLists ==
    ASSUME TypeInv, ThreadInv, Block, at[current] # "idle_init"
    PROVE  /\ ListInv' /\ DeadStep
           /\ \A t \in Threads \ {current} : Switched(t)
           /\ status'[current] \in {"BLOCKED", "RUNNING"}
           /\ current # Idle => status'[current] = "BLOCKED"
<1> DEFINE st == [status EXCEPT ![current] = "BLOCKED"]
<1>1. /\ current \in Threads /\ ready_list \in Seq(Threads) /\ destruction_req \in Seq(Threads)
      /\ st \in [Threads -> Statuses] /\ status \in [Threads -> Statuses]
  BY DEF TypeInv, TypeOK, SchedTypeOK, Statuses
<1>2. \A t \in Threads : st[t] = IF t = current THEN "BLOCKED" ELSE status[t]
  BY <1>1
<1>3. Schedule(st, ready_list, destruction_req)
  BY DEF Block
<1>4. ready_list # <<>> \/ idle_thread # NULL
  BY InListEmpty DEF TypeInv, BootInv, IdleKept
<1>5. Idle \in Threads /\ status[Idle] \notin Dead
  BY SchedAssumption DEF TypeInv, BootInv, IdleKept, Dead
<1> HIDE DEF st
<1>6. /\ ListInv'
      /\ \A t \in Threads : \/ status'[t] = st[t] /\ t # current'
                            \/ /\ status'[t] = "RUNNING" /\ t = current'
                               /\ st[t] = "READY" \/ t = Idle
  BY <1>1, <1>2, <1>3, <1>4, <1>5, ScheduleLists DEF ThreadInv, ListInv, Dead
<1>7. DeadStep
  BY <1>1, <1>2, <1>5, <1>6 DEF DeadStep, Dead, ThreadInv, ListInv
<1> QED BY <1>1, <1>2, <1>6, <1>7 DEF Switched

\* thread_yield() and thread_exit()
LEMMA DoScheduleLists ==
    ASSUME TypeInv, ThreadInv, NEW ns \in {"READY", "DYING"}, NEW rl \in Seq(Threads), DoSchedule(ns, rl),
           ns = "DYING" => current # Idle, rl # <<>> \/ idle_thread # NULL, NoRepeat(rl),
           \A t \in Threads : InList(t, rl) => status[t] = "READY" \/ (t = current /\ ns = "READY")
    PROVE  /\ ListInv' /\ DeadStep
           /\ \A t \in Threads \ {current} : Switched(t)
           /\ status'[current] \in {ns, "RUNNING"}
           /\ ns = "DYING" => status'[current] = "DYING"
<1> DEFINE st == [t \in Threads |->
                 CASE t = current                -> ns
                   [] InList(t, destruction_req) -> "FREE"
                   [] OTHER                      -> status[t]]
<1>1. /\ current \in Threads /\ destruction_req \in Seq(Threads)
      /\ st \in [Threads -> Statuses] /\ status \in [Threads -> Statuses]
  BY DEF TypeInv, TypeOK, SchedTypeOK, Statuses
<1>2. \A t \in Threads : InList(t, destruction_req) => status[t] = "DYING"
  BY DEF ThreadInv, ListInv
<1>3. \A t \in Threads : status[t] = "RUNNING" <=> t = current
  BY DEF ThreadInv, ListInv
<1>4. /\ Idle \in Threads /\ status[Idle] \notin Dead /\ ~InList(Idle, destruction_req)
  BY SchedAssumption DEF TypeInv, BootInv, IdleKept, Dead
<1>5. \A t \in Threads : st[t] = IF t = current THEN ns
                                 ELSE IF InList(t, destruction_req) THEN "FREE" ELSE status[t]
  BY <1>2, <1>3
<1>6. Schedule(st, rl, <<>>) /\ <<>> \in Seq(Threads)
  BY DEF DoSchedule
<1> HIDE DEF st
<1>7. \A t \in Threads : InList(t, rl) => st[t] = "READY"
  BY <1>2, <1>3, <1>5
<1>8. (\A t \in Threads : st[t] # "RUNNING") /\ st[Idle] \notin Dead
  BY <1>3, <1>4, <1>5 DEF Dead
<1>9. /\ ListInv'
      /\ \A t \in Threads : \/ status'[t] = st[t] /\ t # current'
                            \/ /\ status'[t] = "RUNNING" /\ t = current'
                               /\ st[t] = "READY" \/ t = Idle
  BY <1>1, <1>6, <1>7, <1>8, InListEmpty, ScheduleLists
<1>10. DeadStep
  BY <1>2, <1>3, <1>4, <1>5, <1>9 DEF DeadStep, Dead
<1> QED BY <1>1, <1>2, <1>5, <1>9, <1>10 DEF Switched

\* Threads that wait, or are not yet born, are not touched by a switch.
LEMMA SwitchedBlocked ==
    ASSUME TypeInv, ThreadInv, \A t \in Threads \ {current} : Switched(t)
    PROVE  /\ \A s \in SemaIds : \A t \in Threads :
                  InList(t, sema_waiters[s]) => status'[t] = "BLOCKED"
           /\ \A t \in Threads : status[t] = "BLOCKED" /\ at[t] = "client" => status'[t] = "BLOCKED"
           /\ \A t \in Threads \ {current} : status'[t] \in Dead => status[t] \in Dead
<1>1. current \in Threads /\ Idle \in Threads /\ at[Idle] \in IdleLabels
  BY SchedAssumption DEF TypeInv, TypeOK, SchedTypeOK, BootInv
<1>2. \A t \in Threads : status[t] = "RUNNING" <=> t = current
  BY DEF ThreadInv, ListInv
<1>3. ASSUME NEW t \in Threads, status[t] = "BLOCKED", at[t] \notin IdleLabels PROVE status'[t] = "BLOCKED"
  BY <1>1, <1>2, <1>3 DEF Switched
<1>4. \A s \in SemaIds : \A t \in Threads :
          InList(t, sema_waiters[s]) => status[t] = "BLOCKED" /\ at[t] \notin IdleLabels
  BY DEF ThreadInv, WaitInv, Waiting, IdleLabels
<1>5. "client" \notin IdleLabels
  BY DEF IdleLabels
<1> QED BY <1>3, <1>4, <1>5 DEF Switched, Dead

\* A thread that goes to sleep in sema_down() enters the waiters.
LEMMA SemaSleepCalm ==
    ASSUME TypeInv, ThreadInv, NEW s \in SemaIds, SemaSleep(s), at[current] \notin IdleLabels,
           NEW me, me = current, Waiting(me, s)'
    PROVE  Calm
<1>1. /\ current \in Threads /\ current # Idle /\ status[current] = "RUNNING"
      /\ sema_waiters \in [SemaIds -> Seq(Threads)]
  BY DEF TypeInv, TypeOK, SchedTypeOK, BootInv, ThreadInv, ListInv
<1>2. /\ ListInv' /\ DeadStep /\ status'[current] = "BLOCKED"
      /\ \A t \in Threads \ {current} : Switched(t)
  BY <1>1, BlockLists DEF SemaSleep, IdleLabels
<1>3. sema_waiters' = [sema_waiters EXCEPT ![s] = Append(@, current)]
  BY DEF SemaSleep
<1>4. ~InList(current, sema_waiters[s])
  BY <1>1 DEF ThreadInv, WaitInv
<1>5. /\ NoRepeat(sema_waiters'[s])
      /\ \A t : InList(t, sema_waiters'[s]) <=> InList(t, sema_waiters[s]) \/ t = current
  BY <1>1, <1>3, <1>4, NoRepeatAppend, InListAppend DEF ThreadInv, WaitInv
<1>6. \A r \in SemaIds \ {s} : sema_waiters'[r] = sema_waiters[r] /\ NoRepeat(sema_waiters[r])
  BY <1>1, <1>3 DEF ThreadInv, WaitInv
<1> QED BY <1>1, <1>2, <1>5, <1>6, SwitchedBlocked DEF Calm, Dead

\* idle() blocks without entering a list.
LEMMA BlockCalm ==
    ASSUME TypeInv, ThreadInv, Block, at[current] # "idle_init", UNCHANGED sema_waiters
    PROVE  Calm
<1>1. /\ ListInv' /\ DeadStep /\ status'[current] \in {"BLOCKED", "RUNNING"}
      /\ \A t \in Threads \ {current} : Switched(t)
  BY BlockLists
<1>2. \A s \in SemaIds : NoRepeat(sema_waiters[s])
  BY DEF ThreadInv, WaitInv
<1> QED BY <1>1, <1>2, SwitchedBlocked DEF Calm, Dead

\* thread_yield() puts the current thread back in the run queue.
LEMMA YieldCalm ==
    ASSUME TypeInv, ThreadInv, Yield, UNCHANGED sema_waiters
    PROVE  Calm
<1> DEFINE rl == IF current = idle_thread THEN ready_list ELSE Append(ready_list, current)
<1>1. current \in Threads /\ ready_list \in Seq(Threads) /\ status[current] = "RUNNING"
  BY DEF TypeInv, TypeOK, SchedTypeOK, ThreadInv, ListInv
<1>2. /\ rl \in Seq(Threads) /\ NoRepeat(rl)
      /\ \A t \in Threads : InList(t, rl) => status[t] = "READY" \/ t = current
  BY <1>1, NoRepeatAppend, InListAppend DEF ThreadInv, ListInv
<1>3. rl # <<>> \/ idle_thread # NULL
  BY <1>1, SchedAssumption
<1>4. DoSchedule("READY", rl)
  BY DEF Yield
<1> HIDE DEF rl
<1>5. /\ ListInv' /\ DeadStep /\ status'[current] \in {"READY", "RUNNING"}
      /\ \A t \in Threads \ {current} : Switched(t)
  BY <1>2, <1>3, <1>4, DoScheduleLists
<1>6. \A s \in SemaIds : NoRepeat(sema_waiters[s])
  BY DEF ThreadInv, WaitInv
<1> QED BY <1>5, <1>6, SwitchedBlocked DEF Calm, Dead

----------------------------------------------------------------------------
(* Steps of threads. *)

\* A step moves the current thread only, starts no thread_create() and gives
\* a lock to nobody else.
Local ==
    /\ \A t \in Threads \ {current} : at'[t] = at[t] /\ obj'[t] = obj[t] /\ peer'[t] = peer[t]
    /\ \A t \in Threads : t = current /\ Creates(t)' => Creates(t) /\ peer'[t] = peer[t]
    /\ \A l \in Locks : lock_holder'[l] \in {lock_holder[l], current, NULL}

\* Most steps: calm for the scheduler, local for the statements.
LEMMA CalmStep ==
    ASSUME TypeInv, ThreadInv, Calm, Local
    PROVE  ThreadInv' /\ DeadStep
<1>1. /\ current \in Threads /\ status[current] = "RUNNING"
      /\ \A t \in Threads : Creates(t) => peer[t] \in Threads
  BY DEF TypeInv, TypeOK, SchedTypeOK, ThreadInv, ListInv, PeerInv, NeedsPeer, Creates, BirthLabel
<1>2. WaitInv'
  <2> SUFFICES ASSUME NEW s \in SemaIds, NEW t \in Threads, InList(t, sema_waiters'[s])
               PROVE  Waiting(t, s)'
    BY DEF Calm, WaitInv
  <2>1. CASE t = current /\ Waiting(t, s)'
    BY <2>1
  <2>2. CASE InList(t, sema_waiters[s])
    <3>1. status[t] = "BLOCKED" /\ Waiting(t, s)
      BY <2>2 DEF ThreadInv, WaitInv
    <3> QED BY <1>1, <3>1 DEF Local, Waiting
  <2> QED BY <2>1, <2>2 DEF Calm
<1>3. BirthInv'
  <2>1. \A t \in Threads : Creates(t)' => Creates(t) /\ peer'[t] = peer[t]
    BY DEF Local, Creates
  <2>2. ASSUME NEW p \in Threads, Creates(p)'
        PROVE  status'[peer'[p]] = "BLOCKED" /\ at'[peer'[p]] = "client"
    <3>1. Creates(p) /\ peer'[p] = peer[p] /\ peer[p] \in Threads
      BY <1>1, <2>1, <2>2
    <3>2. status[peer[p]] = "BLOCKED" /\ at[peer[p]] = "client"
      BY <3>1 DEF ThreadInv, BirthInv
    <3> QED BY <1>1, <3>1, <3>2 DEF Calm, Local
  <2>3. ASSUME NEW p \in Threads, NEW q \in Threads, Creates(p)', Creates(q)', peer'[q] = peer'[p]
        PROVE  q = p
    BY <2>1, <2>3 DEF ThreadInv, BirthInv
  <2> QED BY <2>2, <2>3 DEF BirthInv
<1>4. DeadInv'
  BY <1>1, SchedAssumption DEF ThreadInv, DeadInv, Calm, Local, Dead
<1> QED BY <1>2, <1>3, <1>4 DEF ThreadInv, Calm

\* A step of the current thread to a statement, outside the start of
\* thread_create().
LEMMA GotoLocal ==
    ASSUME TypeInv, NEW label, NEW o, Goto(label, o),
           \A t \in Threads \ {current} : peer'[t] = peer[t],
           BirthLabel(label, o) => BirthLabel(at[current], obj[current]) /\ peer'[current] = peer[current],
           \A l \in Locks : lock_holder'[l] \in {lock_holder[l], current, NULL}
    PROVE  Local
<1>1. current \in Threads /\ at \in [Threads -> Labels] /\ obj \in [Threads -> Objects \cup {NULL}]
  BY DEF TypeInv, TypeOK, SchedTypeOK
<1>2. /\ at'[current] = label /\ obj'[current] = o
      /\ \A t \in Threads \ {current} : at'[t] = at[t] /\ obj'[t] = obj[t]
  BY <1>1 DEF Goto
<1> QED BY <1>1, <1>2 DEF Local, Creates

\* A step that stays at its statement.
LEMMA StayLocal ==
    ASSUME UNCHANGED <<at, obj, peer, lock_holder>>
    PROVE  Local
  BY DEF Local, Creates

\* sema_down() and its callers.
LEMMA DownStepThread ==
    ASSUME TypeInv, ThreadInv, DownStep
    PROVE  ThreadInv' /\ DeadStep
<1> USE SchedAssumption, SynchAssumption, KernelAssumption
<1>0. /\ current \in Threads /\ at \in [Threads -> Labels] /\ obj \in [Threads -> Objects \cup {NULL}]
      /\ \A s \in Semas \cup Locks \cup Threads : s \in SemaIds
  BY DEF TypeInv, TypeOK, SchedTypeOK, SemaIds
<1>1. ASSUME NEW s \in SemaIds, NEW taken, NEW o, SemaTake(s), Goto(taken, o),
             UNCHANGED <<lock_holder, peer>>,
             BirthLabel(taken, o) => BirthLabel(at[current], obj[current])
      PROVE  ThreadInv' /\ DeadStep
  <2>1. Calm
    BY <1>1, SameCalm DEF SemaTake, schedVars
  <2>2. Local
    BY <1>1, GotoLocal
  <2> QED BY <2>1, <2>2, CalmStep
<1>2. ASSUME NEW s \in SemaIds, NEW label, NEW o, SemaSleep(s), Goto(label, o),
             UNCHANGED <<lock_holder, peer>>, at[current] \notin IdleLabels,
             (label \in {"down", "acquire"} /\ o = s) \/ (label = "cond_down" /\ s = current),
             BirthLabel(label, o) => BirthLabel(at[current], obj[current])
      PROVE  ThreadInv' /\ DeadStep
  <2>1. ASSUME NEW me, me = current PROVE Waiting(me, s)'
    BY <1>0, <1>2, <2>1 DEF Waiting, Goto
  <2>2. Calm
    BY <1>0, <1>2, <2>1, SemaSleepCalm
  <2>3. Local
    BY <1>2, GotoLocal
  <2> QED BY <2>2, <2>3, CalmStep
<1> USE DEF BirthLabel, IdleLabels
<1>3. ASSUME NEW s \in Semas, SemaDown(s) PROVE ThreadInv' /\ DeadStep
  BY <1>0, <1>1, <1>2, <1>3 DEF SemaDown, AtClient
<1>4. ASSUME NEW l \in Locks, LockAcquire(l), l # TidLock \/ at[current] = "acquire"
      PROVE  ThreadInv' /\ DeadStep
  <2>1. /\ UNCHANGED <<lock_holder, peer>> /\ at[current] \notin IdleLabels
        /\ l = TidLock => BirthLabel(at[current], obj[current])
    BY <1>4 DEF LockAcquire, AtClient
  <2>2. CASE SemaTake(l) /\ Goto("hold", l)
    BY <1>0, <1>1, <2>1, <2>2
  <2>3. CASE SemaSleep(l) /\ Goto("acquire", l)
    BY <1>0, <1>2, <2>1, <2>3
  <2> QED BY <1>4, <2>2, <2>3 DEF LockAcquire
<1>5. ASSUME NEW c \in Conds, CondDown(c) PROVE ThreadInv' /\ DeadStep
  <2>1. /\ UNCHANGED <<lock_holder, peer>> /\ at[current] \notin IdleLabels
        /\ LockOf[c] # TidLock
    BY <1>5 DEF CondDown
  <2>2. CASE SemaTake(current) /\ Goto("acquire", LockOf[c])
    BY <1>0, <1>1, <2>1, <2>2
  <2>3. CASE SemaSleep(current) /\ Goto("cond_down", c)
    BY <1>0, <1>2, <2>1, <2>3
  <2> QED BY <1>5, <2>2, <2>3 DEF CondDown
<1> QED BY <1>3, <1>4, <1>5 DEF DownStep, ClientSemas, ClientLocks

\* thread_create() gives the new thread its tid and makes it ready.
LEMMA CreateUnblockThread ==
    ASSUME TypeInv, ThreadInv, CreateUnblock
    PROVE  ThreadInv' /\ DeadStep
<1> DEFINE n == peer[current]
<1>1. /\ current \in Threads /\ status[current] = "RUNNING" /\ status \in [Threads -> Statuses]
      /\ ready_list \in Seq(Threads) /\ at \in [Threads -> Labels]
      /\ obj \in [Threads -> Objects \cup {NULL}] /\ peer \in [Threads -> Threads \cup {NULL}]
  BY DEF TypeInv, TypeOK, SchedTypeOK, ThreadInv, ListInv
<1>2. at[current] = "unblock" /\ Creates(current) /\ n \in Threads
  BY <1>1 DEF CreateUnblock, Creates, BirthLabel, TypeInv, PeerInv, NeedsPeer
<1>3. status[n] = "BLOCKED" /\ at[n] = "client" /\ n # current
  BY <1>1, <1>2 DEF ThreadInv, BirthInv
<1>4. /\ status' = [status EXCEPT ![n] = "READY"] /\ ready_list' = Append(ready_list, n)
      /\ UNCHANGED <<current, destruction_req, sema_waiters, lock_holder>>
      /\ at' = [at EXCEPT ![current] = "client"] /\ obj' = [obj EXCEPT ![current] = NULL]
      /\ peer' = [peer EXCEPT ![current] = NULL]
  BY DEF CreateUnblock, Unblock, Goto, synchVars, semaVars
<1> HIDE DEF n
<1>5. \A t \in Threads : status'[t] = IF t = n THEN "READY" ELSE status[t]
  BY <1>1, <1>2, <1>4
<1>6. \A t \in Threads \ {current} : at'[t] = at[t] /\ obj'[t] = obj[t] /\ peer'[t] = peer[t]
  BY <1>1, <1>4
<1>7. at'[current] = "client"
  BY <1>1, <1>4
<1>8. ListInv'
  <2>1. ~InList(n, ready_list)
    BY <1>2, <1>3 DEF ThreadInv, ListInv
  <2>2. NoRepeat(ready_list') /\ \A t : InList(t, ready_list') <=> InList(t, ready_list) \/ t = n
    BY <1>1, <1>2, <1>4, <2>1, NoRepeatAppend, InListAppend DEF ThreadInv, ListInv
  <2> QED BY <1>2, <1>3, <1>4, <1>5, <2>2 DEF ThreadInv, ListInv
<1>9. WaitInv'
  <2> SUFFICES ASSUME NEW s \in SemaIds, NEW t \in Threads, InList(t, sema_waiters[s])
               PROVE  status'[t] = "BLOCKED" /\ Waiting(t, s)'
    BY <1>4 DEF WaitInv, ThreadInv
  <2>1. status[t] = "BLOCKED" /\ Waiting(t, s)
    BY DEF ThreadInv, WaitInv
  <2>2. t # current /\ t # n
    BY <1>1, <1>3, <2>1 DEF Waiting
  <2> QED BY <1>5, <1>6, <2>1, <2>2 DEF Waiting
<1>10. BirthInv'
  <2>1. \A p \in Threads : Creates(p)' => Creates(p) /\ p # current /\ peer'[p] = peer[p]
    BY <1>6, <1>7 DEF Creates, BirthLabel
  <2>2. \A p \in Threads : Creates(p) => peer[p] \in Threads
    BY DEF Creates, BirthLabel, TypeInv, PeerInv, NeedsPeer
  <2>3. ASSUME NEW p \in Threads, Creates(p)'
        PROVE  status'[peer'[p]] = "BLOCKED" /\ at'[peer'[p]] = "client"
    <3>1. Creates(p) /\ p # current /\ peer'[p] = peer[p] /\ peer[p] \in Threads
      BY <2>1, <2>2, <2>3
    <3>2. status[peer[p]] = "BLOCKED" /\ at[peer[p]] = "client" /\ peer[p] # n
      BY <1>1, <1>2, <3>1 DEF ThreadInv, BirthInv, n
    <3> QED BY <1>1, <1>5, <1>6, <3>1, <3>2
  <2>4. ASSUME NEW p \in Threads, NEW q \in Threads, Creates(p)', Creates(q)', peer'[q] = peer'[p]
        PROVE  q = p
    BY <2>1, <2>4 DEF ThreadInv, BirthInv
  <2> QED BY <2>3, <2>4 DEF BirthInv
<1>11. DeadInv'
  BY <1>1, <1>4, <1>5, <1>6, <1>7 DEF ThreadInv, DeadInv, Dead
<1>12. DeadStep
  BY <1>3, <1>5 DEF DeadStep, Dead
<1> QED BY <1>8, <1>9, <1>10, <1>11, <1>12 DEF ThreadInv

\* Primitives that are under way.
LEMMA KernelStepThread ==
    ASSUME TypeInv, ThreadInv, KernelStep
    PROVE  ThreadInv' /\ DeadStep
<1> USE SchedAssumption, SynchAssumption, KernelAssumption
<1>0. /\ current \in Threads /\ at \in [Threads -> Labels] /\ obj \in [Threads -> Objects \cup {NULL}]
      /\ peer \in [Threads -> Threads \cup {NULL}] /\ lock_holder \in [Locks -> Threads \cup {NULL}]
      /\ \A s \in Semas \cup Locks \cup Threads : s \in SemaIds
  BY DEF TypeInv, TypeOK, SchedTypeOK, SemaIds
<1>1. ASSUME NEW label, NEW o, Goto(label, o), peer' = peer,
             BirthLabel(label, o) => BirthLabel(at[current], obj[current]),
             \A l \in Locks : lock_holder'[l] \in {lock_holder[l], current, NULL}
      PROVE  Local
  BY <1>1, GotoLocal
<1>2. ASSUME NEW label, NEW o, Goto(label, o), ~BirthLabel(label, o),
             \A t \in Threads \ {current} : peer'[t] = peer[t], UNCHANGED lock_holder
      PROVE  Local
  BY <1>2, GotoLocal
<1>3. ASSUME UNCHANGED schedVars, UNCHANGED sema_waiters PROVE Calm
  BY <1>3, SameCalm DEF schedVars
<1>4. ASSUME NEW l \in Locks, SetHolder(l, AfterHold(l)) PROVE ThreadInv' /\ DeadStep
  <2>1. BirthLabel(AfterHold(l), NULL) => BirthLabel(at[current], obj[current])
    BY <1>4 DEF SetHolder, AfterHold, BirthLabel, Objects
  <2>2. \A m \in Locks : lock_holder'[m] \in {lock_holder[m], current, NULL}
    BY <1>0, <1>4 DEF SetHolder
  <2> QED BY <1>1, <1>3, <1>4, <2>1, <2>2, CalmStep DEF SetHolder, semaVars
<1>5. ASSUME NEW l \in Locks, ReleaseUp(l, AfterRelease(l)) PROVE ThreadInv' /\ DeadStep
  <2>1. BirthLabel(AfterRelease(l), NULL) => BirthLabel(at[current], obj[current])
    BY <1>5 DEF ReleaseUp, AfterRelease, BirthLabel, Objects
  <2>2. Calm
    BY <1>0, <1>5, SemaUpCalm DEF ReleaseUp
  <2>3. Local
    BY <1>1, <1>5, <2>1 DEF ReleaseUp
  <2> QED BY <2>2, <2>3, CalmStep
<1>6. ASSUME NEW c \in Conds, CondRelease(c) PROVE ThreadInv' /\ DeadStep
  <2>1. \A m \in Locks : lock_holder'[m] \in {lock_holder[m], current, NULL}
    BY <1>0, <1>6 DEF CondRelease, ClearHolder
  <2>2. ~BirthLabel("cond_up", c)
    BY DEF BirthLabel
  <2>3. Local
    BY <1>1, <1>6, <2>1, <2>2 DEF CondRelease, ClearHolder
  <2> QED BY <1>3, <1>6, <2>3, CalmStep DEF CondRelease, ClearHolder, semaVars
<1>7. ASSUME NEW c \in Conds, CondReleaseUp(c) PROVE ThreadInv' /\ DeadStep
  <2>1. ~BirthLabel("cond_down", c)
    BY DEF BirthLabel
  <2>2. Local
    BY <1>2, <1>7, <2>1 DEF CondReleaseUp
  <2> QED BY <1>0, <1>7, <2>2, SemaUpCalm, CalmStep DEF CondReleaseUp
<1>8. ASSUME NEW c \in Conds, BroadcastPop(c) PROVE ThreadInv' /\ DeadStep
  <2>1. ~BirthLabel("bcast_up", c)
    BY DEF BirthLabel
  <2>2. Local
    BY <1>0, <1>2, <1>8, <2>1 DEF BroadcastPop, PopWaiter
  <2> QED BY <1>3, <1>8, <2>2, CalmStep DEF BroadcastPop, PopWaiter, semaVars
<1>9. ASSUME WakeWaiter, Goto("bcast", NULL) \/ Goto("client", NULL) \/ \E c \in Conds : Goto("bcast", c),
             NeedsPeer(at[current], obj[current])
      PROVE  ThreadInv' /\ DeadStep
  <2>1. peer[current] \in SemaIds
    BY <1>0, <1>9 DEF TypeInv, PeerInv
  <2>2. Calm
    BY <1>9, <2>1, SemaUpCalm DEF WakeWaiter
  <2>3. \A o : ~BirthLabel("bcast", o) /\ ~BirthLabel("client", o)
    BY DEF BirthLabel
  <2>4. UNCHANGED lock_holder /\ \A t \in Threads \ {current} : peer'[t] = peer[t]
    BY <1>0, <1>9 DEF WakeWaiter
  <2>5. Local
    BY <1>2, <1>9, <2>3, <2>4
  <2> QED BY <2>2, <2>5, CalmStep
<1>10. ASSUME NEW c \in Conds, BroadcastUp(c) PROVE ThreadInv' /\ DeadStep
  BY <1>9, <1>10 DEF BroadcastUp, NeedsPeer
<1>11. CASE CondSignalUp
  BY <1>9, <1>11 DEF CondSignalUp, NeedsPeer
<1>12. ASSUME NEW c \in Conds, BroadcastEnd(c) PROVE ThreadInv' /\ DeadStep
  <2>1. ~BirthLabel("client", NULL)
    BY DEF BirthLabel
  <2>2. Local
    BY <1>2, <1>12, <2>1 DEF BroadcastEnd, synchVars
  <2> QED BY <1>3, <1>12, <2>2, CalmStep DEF BroadcastEnd, synchVars, semaVars
<1>13. CASE IdleBlock
  <2>1. ~BirthLabel("idle_sti", NULL)
    BY DEF BirthLabel
  <2>2. Local
    BY <1>2, <1>13, <2>1 DEF IdleBlock, synchVars
  <2> QED BY <1>13, <2>2, BlockCalm, CalmStep DEF IdleBlock, synchVars, semaVars
<1>14. CASE IdleHlt \/ StartEnable
  <2>1. ~BirthLabel("idle_hlt", NULL) /\ ~BirthLabel("down", IdleStarted)
    BY DEF BirthLabel
  <2>2. Local
    BY <1>2, <1>14, <2>1 DEF IdleHlt, StartEnable, synchVars
  <2> QED BY <1>3, <1>14, <2>2, CalmStep DEF IdleHlt, StartEnable, synchVars, semaVars
<1>15. CASE TidLoad \/ TidStore
  <2>1. BirthLabel(at[current], obj[current])
    BY <1>15 DEF TidLoad, TidStore, BirthLabel
  <2>2. Local
    BY <1>1, <1>15, <2>1 DEF TidLoad, TidStore, synchVars
  <2> QED BY <1>3, <1>15, <2>2, CalmStep DEF TidLoad, TidStore, synchVars, semaVars
<1>16. CASE TidRelease
  <2>1. BirthLabel(at[current], obj[current])
    BY <1>16 DEF TidRelease, BirthLabel
  <2>2. \A m \in Locks : lock_holder'[m] \in {lock_holder[m], current, NULL}
    BY <1>0, <1>16 DEF TidRelease, ClearHolder
  <2>3. Local
    BY <1>1, <1>16, <2>1, <2>2 DEF TidRelease, ClearHolder
  <2> QED BY <1>3, <1>16, <2>3, CalmStep DEF TidRelease, ClearHolder, semaVars
<1>17. CASE CreateUnblock
  BY <1>17, CreateUnblockThread
<1>18. CASE IdleInit
  <2>1. ~BirthLabel("idle_up", NULL)
    BY DEF BirthLabel
  <2>2. Local
    BY <1>2, <1>18, <2>1 DEF IdleInit, synchVars
  <2> QED BY <1>18, <2>2, SameCalm, CalmStep DEF IdleInit, synchVars, semaVars
<1>19. CASE IdleUp
  <2>1. ~BirthLabel("idle_block", NULL)
    BY DEF BirthLabel
  <2>2. Local
    BY <1>2, <1>19, <2>1 DEF IdleUp
  <2> QED BY <1>0, <1>19, <2>2, SemaUpCalm, CalmStep DEF IdleUp
<1> QED
  BY <1>4, <1>5, <1>6, <1>7, <1>8, <1>10, <1>11, <1>12, <1>13, <1>14, <1>15,
     <1>16, <1>17, <1>18, <1>19 DEF KernelStep

\* thread_create() initialises a free page, which no list refers to.
LEMMA ThreadCreateThread ==
    ASSUME TypeInv, ThreadInv, NEW n \in Threads, ThreadCreate(n)
    PROVE  ThreadInv' /\ DeadStep
<1> USE SchedAssumption, SynchAssumption, KernelAssumption
<1>1. /\ current \in Threads /\ status \in [Threads -> Statuses] /\ at \in [Threads -> Labels]
      /\ obj \in [Threads -> Objects \cup {NULL}] /\ peer \in [Threads -> Threads \cup {NULL}]
      /\ \A t \in Threads : Creates(t) => peer[t] \in Threads
  BY DEF TypeInv, TypeOK, SchedTypeOK, PeerInv, NeedsPeer, Creates, BirthLabel
<1>2. status[current] = "RUNNING" /\ status[n] = "FREE" /\ n # current
  BY <1>1 DEF ThreadCreate, ThreadInv, ListInv
<1>3. /\ \A t \in Threads : status'[t] = IF t = n THEN "BLOCKED" ELSE status[t]
      /\ UNCHANGED <<ready_list, current, destruction_req, sema_waiters, lock_holder>>
  BY <1>1 DEF ThreadCreate, synchVars, semaVars
<1>4. /\ at'[n] = "client" /\ at'[current] = "acquire"
      /\ obj'[n] = NULL /\ obj'[current] = TidLock /\ peer'[n] = NULL /\ peer'[current] = n
      /\ \A t \in Threads \ {n, current} : at'[t] = at[t] /\ obj'[t] = obj[t] /\ peer'[t] = peer[t]
  BY <1>1, <1>2 DEF ThreadCreate
<1>5. ListInv'
  BY <1>2, <1>3 DEF ThreadInv, ListInv
<1>6. WaitInv'
  <2> SUFFICES ASSUME NEW s \in SemaIds, NEW t \in Threads, InList(t, sema_waiters[s])
               PROVE  status'[t] = "BLOCKED" /\ Waiting(t, s)'
    BY <1>3 DEF WaitInv, ThreadInv
  <2>1. status[t] = "BLOCKED" /\ Waiting(t, s)
    BY DEF ThreadInv, WaitInv
  <2> QED BY <1>2, <1>3, <1>4, <2>1 DEF Waiting
<1>7. BirthInv'
  <2>1. \A p \in Threads : Creates(p)' => p = current \/ (p # n /\ Creates(p) /\ peer'[p] = peer[p])
    BY <1>4 DEF Creates, BirthLabel
  <2>2. ASSUME NEW p \in Threads, p # current, Creates(p)'
        PROVE  /\ status'[peer'[p]] = "BLOCKED" /\ at'[peer'[p]] = "client"
               /\ peer'[p] # n
    <3>1. p # n /\ Creates(p) /\ peer'[p] = peer[p] /\ peer[p] \in Threads
      BY <1>1, <2>1, <2>2
    <3>2. status[peer[p]] = "BLOCKED" /\ at[peer[p]] = "client"
      BY <3>1 DEF ThreadInv, BirthInv
    <3> QED BY <1>2, <1>3, <1>4, <3>1, <3>2
  <2>3. status'[peer'[current]] = "BLOCKED" /\ at'[peer'[current]] = "client"
    BY <1>3, <1>4
  <2>4. ASSUME NEW p \in Threads, NEW q \in Threads, Creates(p)', Creates(q)', peer'[q] = peer'[p]
        PROVE  q = p
    BY <1>4, <2>1, <2>2, <2>4 DEF ThreadInv, BirthInv
  <2> QED BY <2>2, <2>3, <2>4 DEF BirthInv
<1>8. DeadInv'
  BY <1>2, <1>3, <1>4 DEF ThreadInv, DeadInv, Dead
<1>9. DeadStep
  BY <1>2, <1>3 DEF DeadStep, Dead
<1> QED BY <1>5, <1>6, <1>7, <1>8, <1>9 DEF ThreadInv

\* thread_exit(): the current thread dies at a statement of its own, with no
\* lock, so that nothing but the destruction requests refers to it.
LEMMA ThreadExitThread ==
    ASSUME TypeInv, ThreadInv, ThreadExit
    PROVE  ThreadInv' /\ DeadStep
<1>1. /\ current \in Threads /\ ready_list \in Seq(Threads) /\ status[current] = "RUNNING"
      /\ \A t \in Threads : Creates(t) => peer[t] \in Threads
  BY DEF TypeInv, TypeOK, SchedTypeOK, PeerInv, NeedsPeer, Creates, BirthLabel, ThreadInv, ListInv
<1>2. at[current] = "client" /\ current # Idle /\ \A l \in Locks : lock_holder[l] # current
  BY <1>1 DEF ThreadExit, AtClient, TypeInv, BootInv, IdleLabels
<1>3. ready_list # <<>> \/ idle_thread # NULL
  BY <1>2, InListEmpty DEF TypeInv, BootInv, IdleKept
<1>4. DoSchedule("DYING", ready_list)
  BY DEF ThreadExit
<1>5. /\ ListInv' /\ DeadStep /\ status'[current] = "DYING"
      /\ \A t \in Threads \ {current} : Switched(t)
  BY <1>1, <1>2, <1>3, <1>4, DoScheduleLists DEF ThreadInv, ListInv
<1>6. UNCHANGED <<sema_waiters, lock_holder, at, obj, peer>>
  BY DEF ThreadExit, synchVars, semaVars, frameVars
<1>7. WaitInv'
  BY <1>5, <1>6, SwitchedBlocked DEF ThreadInv, WaitInv, Waiting
<1>8. BirthInv'
  BY <1>1, <1>5, <1>6, SwitchedBlocked DEF ThreadInv, BirthInv, Creates
<1>9. DeadInv'
  BY <1>2, <1>5, <1>6, SwitchedBlocked DEF ThreadInv, DeadInv
<1> QED BY <1>5, <1>7, <1>8, <1>9 DEF ThreadInv

\* Steps of clients.
LEMMA ClientStepThread ==
    ASSUME TypeInv, ThreadInv, ClientStep
    PROVE  ThreadInv' /\ DeadStep
<1> USE SchedAssumption, SynchAssumption, KernelAssumption
<1>0. /\ current \in Threads /\ lock_holder \in [Locks -> Threads \cup {NULL}]
      /\ sema_waiters \in [SemaIds -> Seq(Threads)] /\ peer \in [Threads -> Threads \cup {NULL}]
      /\ \A s \in Semas \cup Locks \cup Threads : s \in SemaIds
  BY DEF TypeInv, TypeOK, SchedTypeOK, SemaIds
<1>1. ASSUME NEW label, NEW o, Goto(label, o), ~BirthLabel(label, o),
             \A t \in Threads \ {current} : peer'[t] = peer[t],
             \A l \in Locks : lock_holder'[l] \in {lock_holder[l], current, NULL}
      PROVE  Local
  BY <1>1, GotoLocal
<1>2. ASSUME UNCHANGED schedVars, \A s \in SemaIds : sema_waiters'[s] \in {sema_waiters[s], <<>>}
      PROVE  Calm
  BY <1>2, SameCalm DEF schedVars
<1>3. ASSUME NEW s \in Semas, SemaTryDown(s) PROVE ThreadInv' /\ DeadStep
  BY <1>2, <1>3, StayLocal, CalmStep DEF SemaTryDown, SemaTake
<1>4. ASSUME NEW s \in Semas, ClientSemaUp(s) PROVE ThreadInv' /\ DeadStep
  BY <1>0, <1>4, SemaUpCalm, StayLocal, CalmStep DEF ClientSemaUp
<1>5. ASSUME NEW l \in ClientLocks, LockTryAcquire(l) PROVE ThreadInv' /\ DeadStep
  <2>1. ~BirthLabel("hold", l)
    BY DEF BirthLabel, ClientLocks
  <2>2. Local
    BY <1>1, <1>5, <2>1 DEF LockTryAcquire
  <2> QED BY <1>2, <1>5, <2>2, CalmStep DEF LockTryAcquire, SemaTake
<1>6. ASSUME NEW l \in ClientLocks, LockRelease(l) PROVE ThreadInv' /\ DeadStep
  <2>1. ~BirthLabel("release", l)
    BY DEF BirthLabel, ClientLocks
  <2>2. \A m \in Locks : lock_holder'[m] \in {lock_holder[m], current, NULL}
    BY <1>0, <1>6 DEF LockRelease, ClearHolder
  <2>3. Local
    BY <1>1, <1>6, <2>1, <2>2 DEF LockRelease, ClearHolder
  <2> QED BY <1>2, <1>6, <2>3, CalmStep DEF LockRelease, ClearHolder, semaVars
<1>7. ASSUME NEW c \in Conds, CondWait(c) PROVE ThreadInv' /\ DeadStep
  <2>1. ~BirthLabel("cond_enq", c)
    BY DEF BirthLabel
  <2>2. Local
    BY <1>1, <1>7, <2>1 DEF CondWait
  <2>3. \A s \in SemaIds : sema_waiters'[s] \in {sema_waiters[s], <<>>}
    BY <1>0, <1>7 DEF CondWait
  <2> QED BY <1>2, <1>7, <2>2, <2>3, CalmStep DEF CondWait
<1>8. ASSUME NEW c \in Conds, CondSignal(c) PROVE ThreadInv' /\ DeadStep
  <2>1. ~BirthLabel("signal", c)
    BY DEF BirthLabel
  <2>2. Local
    BY <1>0, <1>1, <1>8, <2>1 DEF CondSignal, PopWaiter
  <2> QED BY <1>2, <1>8, <2>2, CalmStep DEF CondSignal, PopWaiter, semaVars
<1>9. ASSUME NEW c \in Conds, CondBroadcast(c) PROVE ThreadInv' /\ DeadStep
  <2>1. ~BirthLabel("bcast", c)
    BY DEF BirthLabel
  <2>2. Local
    BY <1>1, <1>9, <2>1 DEF CondBroadcast, synchVars
  <2> QED BY <1>2, <1>9, <2>2, CalmStep DEF CondBroadcast, synchVars, semaVars
<1>10. CASE IntrDisable \/ IntrEnable
  BY <1>2, <1>10, StayLocal, CalmStep DEF IntrDisable, IntrEnable, synchVars, semaVars
<1>11. CASE ThreadYield
  BY <1>11, YieldCalm, StayLocal, CalmStep DEF ThreadYield, synchVars, semaVars, frameVars
<1>12. ASSUME NEW n \in Threads, ThreadCreate(n) PROVE ThreadInv' /\ DeadStep
  BY <1>12, ThreadCreateThread
<1>13. CASE ThreadExit
  BY <1>13, ThreadExitThread
<1> QED
  BY <1>3, <1>4, <1>5, <1>6, <1>7, <1>8, <1>9, <1>10, <1>11, <1>12, <1>13
  DEF ClientStep, ClientSemas

\* Interrupts.
LEMMA InterruptThread ==
    ASSUME TypeInv, ThreadInv, TimerInterrupt \/ \E s \in ClientSemas : DeviceInterrupt(s)
    PROVE  ThreadInv' /\ DeadStep
<1>1. ASSUME EndHlt, UNCHANGED <<obj, peer, lock_holder>> PROVE Local
  <2>1. \A t \in Threads : at'[t] = IF t = current /\ at[t] = "idle_hlt" THEN "idle_block" ELSE at[t]
    BY <1>1 DEF EndHlt, TypeInv, TypeOK
  <2> QED BY <1>1, <2>1 DEF Local, Creates, BirthLabel
<1>2. CASE TimerInterrupt
  <2>1. Calm
    BY <1>2, YieldCalm, SameCalm DEF TimerInterrupt, TimerTick, Tick, synchVars, semaVars
  <2> QED BY <1>1, <1>2, <2>1, CalmStep DEF TimerInterrupt, TimerTick, synchVars
<1>3. ASSUME NEW s \in ClientSemas, DeviceInterrupt(s) PROVE ThreadInv' /\ DeadStep
  <2>1. Calm
    BY <1>3, SemaUpCalm DEF DeviceInterrupt, ClientSemas, SemaIds
  <2> QED BY <1>1, <1>3, <2>1, CalmStep DEF DeviceInterrupt
<1> QED BY <1>2, <1>3

\* Every step of the kernel preserves the invariant and is a DeadStep.
LEMMA ThreadNext == TypeInv /\ ThreadInv /\ [Next]_vars => ThreadInv' /\ DeadStep
<1> SUFFICES ASSUME TypeInv, ThreadInv, [Next]_vars PROVE ThreadInv' /\ DeadStep
  OBVIOUS
<1>1. CASE UNCHANGED vars
  BY <1>1, SameCalm, StayLocal, CalmStep DEF vars, schedVars, synchVars, semaVars, frameVars
<1> QED
  BY <1>1, ClientStepThread, DownStepThread, KernelStepThread, InterruptThread DEF Next

(***************************************************************************)
(* The page of a thread is freed only when the thread has died and the CPU *)
(* has left its stack, and a thread that has died never runs again: what   *)
(* do_schedule() and schedule() defer the destruction for.                 *)
(***************************************************************************)
THEOREM DeadThreadsStayDead == Spec => DeadStayDead
<1>1. TypeInv /\ ThreadInv /\ [Next]_vars =>
        [\A t \in Threads :
            /\ status[t] # "FREE" /\ status'[t] = "FREE" =>
                  status[t] = "DYING" /\ current' # t
            /\ status[t] = "DYING" => status'[t] \in {"DYING", "FREE"}]_vars
  BY ThreadNext DEF DeadStep, Dead
<1> QED
  BY <1>1, TypeInit, TypeNext, ThreadInit, ThreadNext, PTL DEF Spec, DeadStayDead

-----------------------------------------------------------------------------
(***************************************************************************)
(* Proofs that the locks of synch.c exclude, for any number of threads and *)
(* locks.  A lock is a semaphore and a holder, written in separate steps   *)
(* by lock_acquire(), lock_release() and cond_wait(), so neither of them   *)
(* says by itself who owns the lock.  LockInv relates the two and the      *)
(* statements threads are at, and every step of the kernel does to one     *)
(* lock at most one of four things: take its semaphore, write its holder,  *)
(* clear its holder, give its semaphore back.                              *)
(***************************************************************************)

\* The statements between taking the semaphore of l and writing its holder,
\* and between clearing its holder and giving the semaphore back.
LockLabel(label, o, l) ==
    \/ label \in {"hold", "release"} /\ o = l
    \/ label = "cond_up" /\ LockOf[o] = l

LockAt(t, l) == LockLabel(at[t], obj[t], l)

LockOK(l) ==
    /\ \A t, u \in Threads : Owns(t, l) /\ Owns(u, l) => t = u
    /\ sema_value[l] = IF \E t \in Threads : Owns(t, l) THEN 0 ELSE 1
    /\ \A t \in Threads : LockAt(t, l) => lock_holder[l] = NULL

LockInv == \A l \in Locks : LockOK(l)

\* A thread owns a lock as its holder, or at a statement beside it.
LEMMA OwnsParts == \A t, l : Owns(t, l) <=> lock_holder[l] = t \/ LockAt(t, l)
  BY DEF Owns, LockAt, LockLabel

\* The kernel starts with all locks free.
LEMMA LockInit == Init => LockInv /\ \A l \in Locks : \A t \in Threads : ~Owns(t, l)
<1> SUFFICES ASSUME Init PROVE LockInv /\ \A l \in Locks : \A t \in Threads : ~Owns(t, l)
  OBVIOUS
<1>1. \A l \in Locks : \A t \in Threads : ~LockAt(t, l) /\ ~Owns(t, l)
  BY SchedAssumption, OwnsParts DEF Init, LockAt, LockLabel
<1>2. \A l \in Locks : sema_value[l] = 1
  BY DEF Init, SemaIds
<1> QED BY <1>1, <1>2 DEF LockInv, LockOK

----------------------------------------------------------------------------
(* What a step does to a lock. *)

Untouched(l) ==
    /\ sema_value'[l] = sema_value[l] /\ lock_holder'[l] = lock_holder[l]
    /\ \A t \in Threads : LockAt(t, l)' <=> LockAt(t, l)

Taken(l) ==
    /\ sema_value[l] > 0
    /\ sema_value'[l] = sema_value[l] - 1 /\ lock_holder'[l] = lock_holder[l]
    /\ \A t \in Threads : LockAt(t, l)' <=> LockAt(t, l) \/ t = current

Held(l) ==
    /\ LockAt(current, l)
    /\ sema_value'[l] = sema_value[l] /\ lock_holder'[l] = current
    /\ \A t \in Threads : LockAt(t, l)' <=> LockAt(t, l) /\ t # current

Cleared(l) ==
    /\ lock_holder[l] = current
    /\ sema_value'[l] = sema_value[l] /\ lock_holder'[l] = NULL
    /\ \A t \in Threads : LockAt(t, l)' <=> LockAt(t, l) \/ t = current

Given(l) ==
    /\ LockAt(current, l)
    /\ sema_value'[l] = sema_value[l] + 1 /\ lock_holder'[l] = lock_holder[l]
    /\ \A t \in Threads : LockAt(t, l)' <=> LockAt(t, l) /\ t # current

\* One of these, to one lock at most.
LockStep ==
    \/ \A l \in Locks : Untouched(l)
    \/ \E l \in Locks : /\ \A m \in Locks \ {l} : Untouched(m)
                        /\ Taken(l) \/ Held(l) \/ Cleared(l) \/ Given(l)

\* Statements that threads are at after a step of the current one.
LEMMA GotoLock ==
    ASSUME TypeInv, NEW label, NEW o, Goto(label, o)
    PROVE  \A l : \A t \in Threads :
               LockAt(t, l)' <=> IF t = current THEN LockLabel(label, o, l) ELSE LockAt(t, l)
<1>1. current \in Threads /\ at \in [Threads -> Labels] /\ obj \in [Threads -> Objects \cup {NULL}]
  BY DEF TypeInv, TypeOK, SchedTypeOK
<1>2. /\ at'[current] = label /\ obj'[current] = o
      /\ \A t \in Threads \ {current} : at'[t] = at[t] /\ obj'[t] = obj[t]
  BY <1>1 DEF Goto
<1> QED BY <1>2 DEF LockAt

\* A step between two statements that are not beside a lock.
LEMMA AwayStep ==
    ASSUME TypeInv, NEW label, NEW o, Goto(label, o),
           \A l \in Locks : sema_value'[l] = sema_value[l], UNCHANGED lock_holder,
           \A l \in Locks : ~LockLabel(label, o, l) /\ ~LockAt(current, l)
    PROVE  LockStep
  BY GotoLock DEF LockStep, Untouched

\* The semaphores of clients and of cond_wait() are not those of locks.
LEMMA OtherSema ==
    ASSUME TypeInv, NEW s \in Semas \cup Threads, SemaUp(s) \/ SemaTake(s) \/ SemaSleep(s)
    PROVE  \A l \in Locks : sema_value'[l] = sema_value[l]
  BY SynchAssumption DEF TypeInv, TypeOK, SemaIds, SemaUp, SemaTake, SemaSleep

\* sema_up() and sema_down() of a lock leave the other locks alone.
LEMMA OneLock ==
    ASSUME TypeInv, NEW l \in Locks
    PROVE  /\ SemaUp(l) => sema_value'[l] = sema_value[l] + 1
           /\ SemaTake(l) => sema_value[l] > 0 /\ sema_value'[l] = sema_value[l] - 1
           /\ SemaSleep(l) => sema_value' = sema_value
           /\ SemaUp(l) \/ SemaTake(l) => \A m \in Locks \ {l} : sema_value'[m] = sema_value[m]
  BY DEF TypeInv, TypeOK, SemaIds, SemaUp, SemaTake, SemaSleep

\* sema_down() and its callers.
LEMMA DownStepLock == ASSUME TypeInv, DownStep PROVE LockStep
<1> USE SynchAssumption, KernelAssumption
<1>0. current \in Threads
  BY DEF TypeInv, TypeOK, SchedTypeOK
<1>1. ASSUME NEW s \in Semas, SemaDown(s) PROVE LockStep
  <2>1. \A l \in Locks : ~LockLabel("client", NULL, l) /\ ~LockLabel("down", s, l) /\ ~LockAt(current, l)
    BY <1>1 DEF SemaDown, AtClient, LockAt, LockLabel
  <2> QED BY <1>1, <2>1, OtherSema, AwayStep DEF SemaDown
<1>2. ASSUME NEW l \in Locks, LockAcquire(l) PROVE LockStep
  <2>1. /\ \A m \in Locks : ~LockAt(current, m) /\ ~LockLabel("acquire", l, m)
        /\ \A m \in Locks : LockLabel("hold", l, m) <=> m = l
        /\ UNCHANGED lock_holder
    BY <1>2 DEF LockAcquire, AtClient, LockAt, LockLabel
  <2>2. CASE SemaTake(l) /\ Goto("hold", l)
    <3>1. Taken(l)
      BY <2>1, <2>2, OneLock, GotoLock DEF Taken
    <3>2. \A m \in Locks \ {l} : Untouched(m)
      BY <2>1, <2>2, OneLock, GotoLock DEF Untouched
    <3> QED BY <3>1, <3>2 DEF LockStep
  <2>3. CASE SemaSleep(l) /\ Goto("acquire", l)
    BY <2>1, <2>3, OneLock, AwayStep
  <2> QED BY <1>2, <2>2, <2>3 DEF LockAcquire
<1>3. ASSUME NEW c \in Conds, CondDown(c) PROVE LockStep
  <2>1. \A l \in Locks : /\ ~LockLabel("acquire", LockOf[c], l) /\ ~LockLabel("cond_down", c, l)
                         /\ ~LockAt(current, l)
    BY <1>3 DEF CondDown, LockAt, LockLabel
  <2> QED BY <1>0, <1>3, <2>1, OtherSema, AwayStep DEF CondDown
<1> QED BY <1>1, <1>2, <1>3 DEF DownStep, ClientSemas, ClientLocks

\* A step to the statement after the holder is cleared.
LEMMA ClearStep ==
    ASSUME TypeInv, NEW l \in Locks, ClearHolder(l), NEW label, NEW o, Goto(label, o),
           \A m \in Locks : (LockLabel(label, o, m) <=> m = l) /\ ~LockAt(current, m)
    PROVE  LockStep
<1>1. lock_holder[l] = current /\ lock_holder' = [lock_holder EXCEPT ![l] = NULL] /\ UNCHANGED sema_value
  BY DEF ClearHolder, semaVars
<1>2. lock_holder \in [Locks -> Threads \cup {NULL}]
  BY DEF TypeInv, TypeOK
<1>3. Cleared(l)
  BY <1>1, <1>2, GotoLock DEF Cleared
<1>4. \A m \in Locks \ {l} : Untouched(m)
  BY <1>1, <1>2, GotoLock DEF Untouched
<1> QED BY <1>3, <1>4 DEF LockStep

\* A step that gives the semaphore of a lock back.
LEMMA GiveStep ==
    ASSUME TypeInv, NEW l \in Locks, SemaUp(l), UNCHANGED lock_holder, NEW label, NEW o, Goto(label, o),
           \A m \in Locks : ~LockLabel(label, o, m) /\ (LockAt(current, m) <=> m = l)
    PROVE  LockStep
<1>1. Given(l)
  BY OneLock, GotoLock DEF Given
<1>2. \A m \in Locks \ {l} : Untouched(m)
  BY OneLock, GotoLock DEF Untouched
<1> QED BY <1>1, <1>2 DEF LockStep

\* Primitives that are under way.
LEMMA KernelStepLock == ASSUME TypeInv, KernelStep PROVE LockStep
<1> USE SynchAssumption, KernelAssumption
<1>0. /\ current \in Threads /\ lock_holder \in [Locks -> Threads \cup {NULL}]
      /\ TidLock \in Locks /\ \A c \in Conds : LockOf[c] \in Locks
  BY DEF TypeInv, TypeOK, SchedTypeOK
<1> USE DEF LockAt, LockLabel
<1>1. ASSUME NEW l \in Locks, SetHolder(l, AfterHold(l)) PROVE LockStep
  <2>1. /\ lock_holder' = [lock_holder EXCEPT ![l] = current] /\ UNCHANGED sema_value
        /\ Goto(AfterHold(l), NULL)
    BY <1>1 DEF SetHolder, semaVars
  <2>2. \A m \in Locks : ~LockLabel(AfterHold(l), NULL, m) /\ (LockAt(current, m) <=> m = l)
    BY <1>1 DEF SetHolder, AfterHold
  <2> HIDE DEF LockAt, LockLabel
  <2>3. Held(l)
    BY <1>0, <2>1, <2>2, GotoLock DEF Held
  <2>4. \A m \in Locks \ {l} : Untouched(m)
    BY <1>0, <2>1, <2>2, GotoLock DEF Untouched
  <2> QED BY <2>3, <2>4 DEF LockStep
<1>2. ASSUME NEW l \in Locks, ReleaseUp(l, AfterRelease(l)) PROVE LockStep
  <2>1. \A m \in Locks : ~LockLabel(AfterRelease(l), NULL, m) /\ (LockAt(current, m) <=> m = l)
    BY <1>2 DEF ReleaseUp, AfterRelease
  <2> QED BY <1>2, <2>1, GiveStep DEF ReleaseUp
<1>3. ASSUME NEW c \in Conds, CondRelease(c) PROVE LockStep
  <2>1. \A m \in Locks : (LockLabel("cond_up", c, m) <=> m = LockOf[c]) /\ ~LockAt(current, m)
    BY <1>3 DEF CondRelease
  <2> QED BY <1>0, <1>3, <2>1, ClearStep DEF CondRelease
<1>4. ASSUME NEW c \in Conds, CondReleaseUp(c) PROVE LockStep
  <2>1. \A m \in Locks : ~LockLabel("cond_down", c, m) /\ (LockAt(current, m) <=> m = LockOf[c])
    BY <1>4 DEF CondReleaseUp
  <2> QED BY <1>0, <1>4, <2>1, GiveStep DEF CondReleaseUp
<1>5. ASSUME NEW label, NEW o, Goto(label, o), UNCHANGED <<sema_value, lock_holder>>,
             label \notin {"hold", "release", "cond_up"}, at[current] \notin {"hold", "release", "cond_up"}
      PROVE  LockStep
  BY <1>5, AwayStep
<1>6. ASSUME NEW c \in Conds, BroadcastPop(c) \/ BroadcastEnd(c) PROVE LockStep
  BY <1>5, <1>6 DEF BroadcastPop, PopWaiter, BroadcastEnd, synchVars, semaVars
<1>7. ASSUME WakeWaiter, NEW label, NEW o, Goto(label, o), label \in {"client", "bcast"},
             at[current] \in {"signal", "bcast_up"}
      PROVE  LockStep
  <2>1. peer[current] \in Threads
    BY <1>0, <1>7 DEF TypeInv, PeerInv, NeedsPeer
  <2>2. \A l \in Locks : sema_value'[l] = sema_value[l]
    BY <1>7, <2>1, OtherSema DEF WakeWaiter
  <2> QED BY <1>7, <2>2, AwayStep DEF WakeWaiter
<1>8. ASSUME NEW c \in Conds, BroadcastUp(c) PROVE LockStep
  BY <1>7, <1>8 DEF BroadcastUp
<1>9. CASE CondSignalUp
  BY <1>7, <1>9 DEF CondSignalUp
<1>10. CASE IdleBlock \/ IdleHlt
  BY <1>5, <1>10 DEF IdleBlock, IdleHlt, synchVars, semaVars
<1>11. CASE StartEnable \/ TidLoad \/ TidStore \/ IdleInit
  BY <1>5, <1>11 DEF StartEnable, TidLoad, TidStore, IdleInit, synchVars, semaVars
<1>12. CASE CreateUnblock
  BY <1>5, <1>12 DEF CreateUnblock, synchVars, semaVars
<1>13. CASE TidRelease
  <2>1. \A m \in Locks : (LockLabel("release", TidLock, m) <=> m = TidLock) /\ ~LockAt(current, m)
    BY <1>13 DEF TidRelease
  <2> QED BY <1>0, <1>13, <2>1, ClearStep DEF TidRelease
<1>14. CASE IdleUp
  <2>1. \A l \in Locks : sema_value'[l] = sema_value[l]
    BY <1>14, OtherSema DEF IdleUp
  <2> QED BY <1>14, <2>1, AwayStep DEF IdleUp
<1> QED
  BY <1>1, <1>2, <1>3, <1>4, <1>6, <1>8, <1>9, <1>10, <1>11, <1>12, <1>13, <1>14
  DEF KernelStep

\* Steps that keep the statements and the locks.
LEMMA StayLock ==
    ASSUME UNCHANGED <<at, obj, lock_holder>>, \A l \in Locks : sema_value'[l] = sema_value[l]
    PROVE  LockStep
  BY DEF LockStep, Untouched, LockAt

\* Steps of clients.
LEMMA ClientStepLock == ASSUME TypeInv, ThreadInv, ClientStep PROVE LockStep
<1> USE SynchAssumption, KernelAssumption
<1>0. /\ current \in Threads /\ sema_value \in [SemaIds -> Nat]
      /\ at \in [Threads -> Labels] /\ obj \in [Threads -> Objects \cup {NULL}]
  BY DEF TypeInv, TypeOK, SchedTypeOK
<1>1. ASSUME NEW s \in Semas, SemaTryDown(s) \/ ClientSemaUp(s) PROVE LockStep
  <2>1. \A l \in Locks : sema_value'[l] = sema_value[l]
    BY <1>1, OtherSema DEF SemaTryDown, ClientSemaUp
  <2> QED BY <1>1, <2>1, StayLock DEF SemaTryDown, ClientSemaUp
<1>2. ASSUME NEW l \in Locks, LockTryAcquire(l) PROVE LockStep
  <2>1. /\ \A m \in Locks : (LockLabel("hold", l, m) <=> m = l) /\ ~LockAt(current, m)
        /\ UNCHANGED lock_holder /\ SemaTake(l) /\ Goto("hold", l)
    BY <1>2 DEF LockTryAcquire, AtClient, LockAt, LockLabel
  <2>2. Taken(l)
    BY <2>1, OneLock, GotoLock DEF Taken
  <2>3. \A m \in Locks \ {l} : Untouched(m)
    BY <2>1, OneLock, GotoLock DEF Untouched
  <2> QED BY <2>2, <2>3 DEF LockStep
<1>3. ASSUME NEW l \in Locks, LockRelease(l) PROVE LockStep
  <2>1. \A m \in Locks : (LockLabel("release", l, m) <=> m = l) /\ ~LockAt(current, m)
    BY <1>3 DEF LockRelease, AtClient, LockAt, LockLabel
  <2> QED BY <1>3, <2>1, ClearStep DEF LockRelease
<1>4. ASSUME NEW c \in Conds, CondWait(c) PROVE LockStep
  <2>1. \A l \in Locks : /\ sema_value'[l] = sema_value[l]
                         /\ ~LockLabel("cond_enq", c, l) /\ ~LockAt(current, l)
    BY <1>0, <1>4 DEF CondWait, AtClient, LockAt, LockLabel, SemaIds
  <2> QED BY <1>4, <2>1, AwayStep DEF CondWait
<1>5. ASSUME NEW c \in Conds, CondSignal(c) \/ CondBroadcast(c) PROVE LockStep
  <2>1. \A l \in Locks : ~LockLabel("signal", c, l) /\ ~LockLabel("bcast", c, l) /\ ~LockAt(current, l)
    BY <1>5 DEF CondSignal, CondBroadcast, AtClient, LockAt, LockLabel
  <2> QED BY <1>5, <2>1, AwayStep DEF CondSignal, CondBroadcast, PopWaiter, synchVars, semaVars
<1>6. CASE IntrDisable \/ IntrEnable \/ ThreadExit \/ ThreadYield
  BY <1>6, StayLock DEF IntrDisable, IntrEnable, ThreadExit, ThreadYield, synchVars, semaVars, frameVars
<1>7. ASSUME NEW n \in Threads, ThreadCreate(n) PROVE LockStep
  <2>1. at[n] = "client" /\ at[current] = "client" /\ n # current
    BY <1>0, <1>7 DEF ThreadCreate, AtClient, ThreadInv, DeadInv, ListInv, Dead
  <2>2. /\ at'[n] = "client" /\ at'[current] = "acquire"
        /\ \A t \in Threads \ {n, current} : at'[t] = at[t] /\ obj'[t] = obj[t]
    BY <1>0, <1>7, <2>1 DEF ThreadCreate
  <2>3. \A l \in Locks : \A t \in Threads : LockAt(t, l)' <=> LockAt(t, l)
    BY <2>1, <2>2 DEF LockAt, LockLabel
  <2> QED BY <1>7, <2>3 DEF LockStep, Untouched, ThreadCreate, synchVars, semaVars
<1> QED
  BY <1>1, <1>2, <1>3, <1>4, <1>5, <1>6, <1>7 DEF ClientStep, ClientSemas, ClientLocks

\* Interrupts.
LEMMA InterruptLock ==
    ASSUME TypeInv, TimerInterrupt \/ \E s \in ClientSemas : DeviceInterrupt(s)
    PROVE  LockStep
<1>1. ASSUME EndHlt, UNCHANGED <<obj, lock_holder>>, \A l \in Locks : sema_value'[l] = sema_value[l]
      PROVE  LockStep
  <2>1. \A t \in Threads : at'[t] = IF t = current /\ at[t] = "idle_hlt" THEN "idle_block" ELSE at[t]
    BY <1>1 DEF EndHlt, TypeInv, TypeOK
  <2> QED BY <1>1, <2>1 DEF LockStep, Untouched, LockAt, LockLabel
<1>2. CASE TimerInterrupt
  BY <1>1, <1>2 DEF TimerInterrupt, TimerTick, synchVars, semaVars
<1>3. ASSUME NEW s \in ClientSemas, DeviceInterrupt(s) PROVE LockStep
  BY <1>1, <1>3, OtherSema DEF DeviceInterrupt, ClientSemas
<1> QED BY <1>2, <1>3

\* Every step of the kernel does one thing to one lock, or nothing.
LEMMA EveryStepLock == TypeInv /\ ThreadInv /\ [Next]_vars => LockStep
<1>1. ASSUME UNCHANGED vars PROVE LockStep
  BY <1>1, StayLock DEF vars, synchVars, semaVars, frameVars
<1> QED BY <1>1, ClientStepLock, DownStepLock, KernelStepLock, InterruptLock DEF Next

----------------------------------------------------------------------------
(* Each of the four things preserves the invariant. *)

\* Who owns the lock before and after the step.
SameOwners(l) == \A t \in Threads : Owns(t, l)' <=> Owns(t, l)
NewOwner(l) == \A t \in Threads : ~Owns(t, l) /\ (Owns(t, l)' <=> t = current)
OldOwner(l) == Owns(current, l) /\ \A t \in Threads : ~Owns(t, l)'

LEMMA OneLockStep ==
    ASSUME TypeInv, NEW l \in Locks, LockOK(l)
    PROVE  /\ Untouched(l) \/ Held(l) \/ Cleared(l) => LockOK(l)' /\ SameOwners(l)
           /\ Taken(l) => LockOK(l)' /\ NewOwner(l)
           /\ Given(l) => LockOK(l)' /\ OldOwner(l)
<1>1. /\ current \in Threads /\ NULL \notin Threads
      /\ lock_holder[l] \in Threads \cup {NULL} /\ sema_value[l] \in Nat
  BY SchedAssumption DEF TypeInv, TypeOK, SchedTypeOK, SemaIds
<1>2. /\ \A t \in Threads : Owns(t, l) <=> lock_holder[l] = t \/ LockAt(t, l)
      /\ \A t \in Threads : Owns(t, l)' <=> lock_holder'[l] = t \/ LockAt(t, l)'
  BY DEF Owns, LockAt, LockLabel
<1> USE <1>1, <1>2 DEF LockOK
<1>3. ASSUME Untouched(l) PROVE LockOK(l)' /\ SameOwners(l)
  BY <1>3 DEF Untouched, SameOwners
<1>4. ASSUME Held(l) PROVE LockOK(l)' /\ SameOwners(l)
  BY <1>4 DEF Held, SameOwners
<1>5. ASSUME Cleared(l) PROVE LockOK(l)' /\ SameOwners(l)
  BY <1>5 DEF Cleared, SameOwners
<1>6. ASSUME Taken(l) PROVE LockOK(l)' /\ NewOwner(l)
  BY <1>6 DEF Taken, NewOwner
<1>7. ASSUME Given(l) PROVE LockOK(l)' /\ OldOwner(l)
  BY <1>7 DEF Given, OldOwner
<1> HIDE DEF LockOK
<1> QED BY <1>3, <1>4, <1>5, <1>6, <1>7

\* What a step does to the owners: nothing, or one change to one lock.
OwnerStep ==
    \/ \A l \in Locks : SameOwners(l)
    \/ \E l \in Locks : /\ \A m \in Locks \ {l} : SameOwners(m)
                        /\ NewOwner(l) \/ OldOwner(l)

\* Every step of the kernel preserves LockInv.
LEMMA LockNext == TypeInv /\ ThreadInv /\ LockInv /\ [Next]_vars => LockInv' /\ OwnerStep
<1> SUFFICES ASSUME TypeInv, ThreadInv, LockInv, [Next]_vars PROVE LockInv' /\ OwnerStep
  OBVIOUS
<1>1. LockStep
  BY EveryStepLock
<1>2. ASSUME NEW l \in Locks PROVE LockOK(l)
  BY DEF LockInv
<1>3. CASE \A l \in Locks : Untouched(l)
  BY <1>2, <1>3, OneLockStep DEF LockInv, OwnerStep
<1>4. ASSUME NEW l \in Locks, \A m \in Locks \ {l} : Untouched(m),
             Taken(l) \/ Held(l) \/ Cleared(l) \/ Given(l)
      PROVE  LockInv' /\ OwnerStep
  <2>1. \A m \in Locks \ {l} : LockOK(m)' /\ SameOwners(m)
    BY <1>2, <1>4, OneLockStep
  <2>2. LockOK(l)' /\ (SameOwners(l) \/ NewOwner(l) \/ OldOwner(l))
    BY <1>2, <1>4, OneLockStep
  <2> QED BY <2>1, <2>2 DEF LockInv, OwnerStep
<1> QED BY <1>1, <1>3, <1>4 DEF LockStep

\* The whole invariant, of threads and locks.
LEMMA KernelInvariant == Spec => [](TypeInv /\ ThreadInv /\ LockInv)
<1>1. Init => TypeInv /\ ThreadInv /\ LockInv
  BY TypeInit, ThreadInit, LockInit
<1>2. TypeInv /\ ThreadInv /\ LockInv /\ [Next]_vars => (TypeInv /\ ThreadInv /\ LockInv)'
  BY TypeNext, ThreadNext, LockNext
<1> QED BY <1>1, <1>2, PTL DEF Spec

(***************************************************************************)
(* The semaphore of a lock is 1 when nobody owns the lock and 0 when one   *)
(* thread does, whatever lock_acquire(), lock_release() and cond_wait()    *)
(* are interleaved with: the lock excludes and is never lost.              *)
(***************************************************************************)
THEOREM LocksExclude == Spec => []LockAccounting
<1>1. TypeInv /\ LockInv => LockAccounting
  <2> SUFFICES ASSUME LockInv, NEW l \in Locks
               PROVE  sema_value[l] + Cardinality({t \in Threads : Owns(t, l)}) = 1
    BY DEF LockAccounting
  <2>1. LockOK(l)
    BY DEF LockInv
  <2>2. CASE \E t \in Threads : Owns(t, l)
    <3>1. PICK t \in Threads : Owns(t, l)
      BY <2>2
    <3>2. {u \in Threads : Owns(u, l)} = {t}
      BY <2>1, <3>1 DEF LockOK
    <3>3. sema_value[l] = 0
      BY <2>1, <2>2 DEF LockOK
    <3> QED BY <3>2, <3>3, FS_Singleton
  <2>3. CASE ~\E t \in Threads : Owns(t, l)
    <3>1. {u \in Threads : Owns(u, l)} = {}
      BY <2>3
    <3>2. sema_value[l] = 1
      BY <2>1, <2>3 DEF LockOK
    <3> QED BY <3>1, <3>2, FS_EmptySet
  <2> QED BY <2>2, <2>3
<1> QED BY <1>1, KernelInvariant, PTL

\* OwnerOf(l) is the thread that owns l, which LockInv makes unique.
OwnerFact(l) ==
    /\ (\A t \in Threads : ~Owns(t, l)) => OwnerOf(l) = NULL
    /\ \A t \in Threads : Owns(t, l) => OwnerOf(l) = t

LEMMA OwnerIs ==
    ASSUME NEW l \in Locks
    PROVE  (LockOK(l) => OwnerFact(l)) /\ (LockOK(l)' => OwnerFact(l)')
<1>1. ASSUME LockOK(l) PROVE OwnerFact(l)
  <2>1. ASSUME NEW t \in Threads, Owns(t, l) PROVE OwnerOf(l) = t
    <3>1. \A u \in Threads : Owns(u, l) <=> u = t
      BY <1>1, <2>1 DEF LockOK
    <3> QED BY <2>1, <3>1 DEF OwnerOf
  <2> QED BY <2>1 DEF OwnerFact, OwnerOf
<1>2. ASSUME LockOK(l)' PROVE OwnerFact(l)'
  <2>1. ASSUME NEW t \in Threads, Owns(t, l)' PROVE OwnerOf(l)' = t
    <3>1. \A u \in Threads : Owns(u, l)' <=> u = t
      BY <1>2, <2>1 DEF LockOK
    <3> QED BY <2>1, <3>1 DEF OwnerOf
  <2> QED BY <2>1 DEF OwnerFact, OwnerOf
<1> QED BY <1>1, <1>2

\* The owners of the abstract locks.
owners == [l \in Locks |-> OwnerOf(l)]

\* A step of the kernel is a step of Mutex, or changes no owner.
LEMMA MutexStep ==
    ASSUME TypeInv, LockInv, LockInv', OwnerStep
    PROVE  [Abstract!Next]_owners
<1>1. current \in Threads
  BY DEF TypeInv, TypeOK, SchedTypeOK
<1>2. ASSUME NEW l \in Locks PROVE OwnerFact(l) /\ OwnerFact(l)'
  BY OwnerIs DEF LockInv
<1>3. ASSUME NEW l \in Locks, SameOwners(l) PROVE OwnerOf(l)' = OwnerOf(l)
  BY <1>2, <1>3 DEF SameOwners, OwnerFact
<1>4. ASSUME NEW l \in Locks, NewOwner(l) PROVE OwnerOf(l) = NULL /\ OwnerOf(l)' = current
  BY <1>1, <1>2, <1>4 DEF NewOwner, OwnerFact
<1>5. ASSUME NEW l \in Locks, OldOwner(l) PROVE OwnerOf(l) = current /\ OwnerOf(l)' = NULL
  BY <1>1, <1>2, <1>5 DEF OldOwner, OwnerFact
<1>6. CASE \A l \in Locks : SameOwners(l)
  BY <1>3, <1>6 DEF owners
<1>7. ASSUME NEW l \in Locks, \A m \in Locks \ {l} : SameOwners(m), NewOwner(l) \/ OldOwner(l)
      PROVE  Abstract!Next
  <2>1. \A m \in Locks \ {l} : OwnerOf(m)' = OwnerOf(m)
    BY <1>3, <1>7
  <2>2. CASE NewOwner(l)
    <3>1. Abstract!Acquire(current, l)
      BY <1>4, <2>1, <2>2 DEF Abstract!Acquire
    <3> QED BY <1>1, <3>1 DEF Abstract!Next
  <2>3. CASE OldOwner(l)
    <3>1. Abstract!Release(current, l)
      BY <1>5, <2>1, <2>3 DEF Abstract!Release
    <3> QED BY <1>1, <3>1 DEF Abstract!Next
  <2> QED BY <1>7, <2>2, <2>3
<1> QED BY <1>6, <1>7 DEF OwnerStep

(***************************************************************************)
(* The locks of synch.c implement Mutex: a thread becomes the owner of a   *)
(* lock that nobody owns, and the owner is the one that gives it up.       *)
(***************************************************************************)
THEOREM LocksImplementMutex == Spec => LocksAreMutexes
<1>1. Init => Abstract!Init
  <2> SUFFICES ASSUME Init PROVE Abstract!Init
    OBVIOUS
  <2>1. \A l \in Locks : OwnerOf(l) = NULL
    BY LockInit DEF OwnerOf
  <2> QED BY <2>1 DEF Abstract!Init
<1>2. TypeInv /\ ThreadInv /\ LockInv /\ [Next]_vars => [Abstract!Next]_owners
  <2> SUFFICES ASSUME TypeInv, ThreadInv, LockInv, [Next]_vars PROVE [Abstract!Next]_owners
    OBVIOUS
  <2>1. LockInv' /\ OwnerStep
    BY LockNext
  <2> QED BY <2>1, MutexStep
<1> QED
  BY <1>1, <1>2, KernelInvariant, PTL DEF Spec, LocksAreMutexes, Abstract!Spec, owners
=============================================================================

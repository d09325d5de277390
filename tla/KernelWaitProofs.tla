-------------------------- MODULE KernelWaitProofs --------------------------
(***************************************************************************)
(* Proofs about condition variables and about what the assertions of       *)
(* thread.c and synch.c need.                                              *)
(*                                                                         *)
(* A signal is a token: from the moment cond_wait() enters the waiters it  *)
(* is in the list of the condition variable (nobody has signalled), with   *)
(* the thread in the middle of cond_signal(), or in the value of the       *)
(* waiter's semaphore, and in one of them only.  CondInv says so; StmtInv  *)
(* says what the objects and the peer of a statement are and which lock    *)
(* the thread holds there.  Every step of the kernel moves at most one     *)
(* token (WaitStep) and takes one thread to another statement (Move).      *)
(***************************************************************************)
EXTENDS KernelProofs

\* The statements of cond_wait() until its semaphore has been taken, and
\* those of a signaller that has popped a waiter.
CondLabels == {"cond_enq", "cond_up", "cond_down"}
SignalLabels == {"signal", "bcast_up"}

\* Where the signal of thread t is: in a list, or with a signaller p.
Signals(p, t) == peer[p] = t /\ at[p] \in SignalLabels
Listed(t) == \E c \in Conds : InList(t, cond_waiters[c])
Signalled(t) == \E p \in Threads : Signals(p, t)

\* The arguments of the statement that t is at, and the lock it holds there.
StmtOK(t) ==
    /\ at[t] = "down" => obj[t] \in Semas
    /\ at[t] = "acquire" => obj[t] \in Locks
    /\ at[t] \in CondLabels \cup {"bcast", "bcast_up"} => obj[t] \in Conds
    /\ at[t] \in {"cond_enq", "bcast", "bcast_up"} => lock_holder[LockOf[obj[t]]] = t
    /\ at[t] \in {"tid_load", "tid_store", "tid_done"} => lock_holder[TidLock] = t
    /\ peer[t] # NULL => NeedsPeer(at[t], obj[t])

StmtInv == \A t \in Threads : StmtOK(t)

\* The signal of t is in one place if t is in cond_wait(), and in none if not.
WaiterOK(t) ==
    /\ \A c, d \in Conds : InList(t, cond_waiters[c]) /\ InList(t, cond_waiters[d]) => c = d
    /\ \A p, q \in Threads : Signals(p, t) /\ Signals(q, t) => p = q
    /\ sema_value[t] \in {0, 1}
    /\ at[t] \in CondLabels <=> Listed(t) \/ Signalled(t) \/ sema_value[t] = 1
    /\ ~(Listed(t) /\ Signalled(t))
    /\ sema_value[t] = 1 => ~Listed(t) /\ ~Signalled(t)

CondInv ==
    /\ \A c \in Conds : NoRepeat(cond_waiters[c])
    /\ \A t \in Threads : WaiterOK(t)

----------------------------------------------------------------------------
(* What a step does to the statements and the waiters. *)

\* A thread that does not run keeps its statement, or its free page becomes
\* a new thread.
Kept(t) ==
    \/ at'[t] = at[t] /\ obj'[t] = obj[t] /\ peer'[t] = peer[t]
    \/ status[t] = "FREE" /\ at[t] = "client" /\ at'[t] = "client" /\ peer'[t] = NULL

\* What StmtOK asks of a statement that the current thread goes to.
TargetOK(label, o) ==
    /\ label = "down" => o \in Semas
    /\ label = "acquire" => o \in Locks
    /\ label \in CondLabels \cup {"bcast", "bcast_up"} => o \in Conds
    /\ label \in {"cond_enq", "bcast", "bcast_up"} => lock_holder'[LockOf[o]] = current
    /\ label \in {"tid_load", "tid_store", "tid_done"} => lock_holder'[TidLock] = current
    /\ peer'[current] # NULL => NeedsPeer(label, o)

\* Parts of the state that a step leaves alone.
SameSignals == \A p, t \in Threads : Signals(p, t)' <=> Signals(p, t)
SameLabels(S) == \A t \in S : at'[t] \in CondLabels <=> at[t] \in CondLabels
SameValues(S) == \A t \in S : sema_value'[t] = sema_value[t]

\* No signal moves.
Still ==
    /\ cond_waiters' = cond_waiters
    /\ SameSignals /\ SameLabels(Threads) /\ SameValues(Threads)

\* cond_wait() enters the waiters.
Enlists(c) ==
    /\ cond_waiters' = [cond_waiters EXCEPT ![c] = Append(@, current)]
    /\ at[current] \notin CondLabels /\ at'[current] \in CondLabels
    /\ sema_value'[current] = 0
    /\ SameSignals /\ SameLabels(Threads \ {current}) /\ SameValues(Threads \ {current})

\* cond_signal() takes a waiter out of them.
Pops(c) ==
    /\ cond_waiters[c] # <<>>
    /\ cond_waiters' = [cond_waiters EXCEPT ![c] = Tail(@)]
    /\ \A t \in Threads : ~Signals(current, t)
    /\ \A p, t \in Threads :
          Signals(p, t)' <=> Signals(p, t) \/ (p = current /\ t = Head(cond_waiters[c]))
    /\ SameLabels(Threads) /\ SameValues(Threads)

\* cond_signal() ups the semaphore of the waiter.
Wakes(w) ==
    /\ Signals(current, w)
    /\ sema_value'[w] = sema_value[w] + 1 /\ SameValues(Threads \ {w})
    /\ \A p, t \in Threads : Signals(p, t)' <=> Signals(p, t) /\ p # current
    /\ cond_waiters' = cond_waiters /\ SameLabels(Threads)

\* The waiter takes its semaphore.
Wakens ==
    /\ at[current] \in CondLabels /\ at'[current] \notin CondLabels
    /\ sema_value[current] > 0 /\ sema_value'[current] = sema_value[current] - 1
    /\ SameSignals /\ SameLabels(Threads \ {current}) /\ SameValues(Threads \ {current})
    /\ cond_waiters' = cond_waiters

\* One of these, for one thread at most.
WaitStep ==
    \/ Still
    \/ \E c \in Conds : Enlists(c) \/ Pops(c)
    \/ \E w \in Threads : Wakes(w)
    \/ Wakens

\* What every step is: other threads keep their statements.
Move ==
    /\ \A t \in Threads \ {current} : Kept(t)
    /\ \A t \in Threads : t = current => StmtOK(t)'
    /\ WaitStep

\* Each of them preserves the invariant of the waiters.
LEMMA WaitStepOK ==
    ASSUME TypeInv, CondInv, WaitStep
    PROVE  CondInv'
<1> USE DEF CondInv, WaiterOK, Listed, Signalled
<1>1. /\ current \in Threads /\ cond_waiters \in [Conds -> Seq(Threads)]
      /\ \A c \in Conds : cond_waiters[c] \in Seq(Threads)
      /\ \A t \in Threads : sema_value[t] \in Nat
  BY DEF TypeInv, TypeOK, SchedTypeOK, SemaIds
<1>2. CASE Still
  <2>1. \A t \in Threads : Listed(t)' <=> Listed(t)
    BY <1>2 DEF Still
  <2>2. \A t \in Threads : Signalled(t)' <=> Signalled(t)
    BY <1>2 DEF Still, SameSignals
  <2>3. \A t \in Threads : WaiterOK(t)'
    BY <1>2, <2>1, <2>2 DEF Still, SameSignals, SameLabels, SameValues
  <2> QED BY <1>2, <2>3 DEF Still
<1>3. ASSUME NEW c \in Conds, Enlists(c) PROVE CondInv'
  <2>1. ~Listed(current) /\ ~Signalled(current)
    BY <1>1, <1>3 DEF Enlists
  <2>2. /\ \A d \in Conds \ {c} : cond_waiters'[d] = cond_waiters[d]
        /\ cond_waiters'[c] = Append(cond_waiters[c], current)
    BY <1>1, <1>3 DEF Enlists
  <2>3. /\ NoRepeat(cond_waiters'[c])
        /\ \A t : InList(t, cond_waiters'[c]) <=> InList(t, cond_waiters[c]) \/ t = current
    BY <1>1, <2>1, <2>2, NoRepeatAppend, InListAppend
  <2>4. \A t \in Threads : Signalled(t)' <=> Signalled(t)
    BY <1>3 DEF Enlists, SameSignals
  <2>5. \A t \in Threads : Listed(t)' <=> Listed(t) \/ t = current
    BY <2>2, <2>3
  <2>6. WaiterOK(current)
    BY <1>1
  <2>7. \A t \in Threads : t = current => WaiterOK(t)'
    BY <1>3, <2>1, <2>2, <2>3, <2>4, <2>5 DEF Enlists, SameSignals
  <2>8. ASSUME NEW t \in Threads, t # current PROVE WaiterOK(t)'
    BY <1>3, <2>2, <2>3, <2>4, <2>5, <2>8 DEF Enlists, SameSignals, SameLabels, SameValues
  <2> QED BY <2>2, <2>3, <2>7, <2>8
<1>4. ASSUME NEW c \in Conds, Pops(c) PROVE CondInv'
  <2> DEFINE w == Head(cond_waiters[c])
  <2>1. /\ cond_waiters[c] \in Seq(Threads) /\ cond_waiters[c] # <<>> /\ NoRepeat(cond_waiters[c])
    BY <1>1, <1>4 DEF Pops
  <2>2. w \in Threads
    BY <2>1
  <2>3. /\ NoRepeat(Tail(cond_waiters[c])) /\ ~InList(w, Tail(cond_waiters[c]))
        /\ \A t : InList(t, cond_waiters[c]) <=> InList(t, Tail(cond_waiters[c])) \/ t = w
    BY <2>1, NoRepeatTail, InListTail
  <2>4. /\ \A d \in Conds \ {c} : cond_waiters'[d] = cond_waiters[d]
        /\ cond_waiters'[c] = Tail(cond_waiters[c])
    BY <1>1, <1>4 DEF Pops
  <2>5. \A p, t \in Threads : Signals(p, t)' <=> Signals(p, t) \/ (p = current /\ t = w)
    BY <1>4 DEF Pops
  <2> HIDE DEF w
  <2>6. WaiterOK(w) /\ Listed(w)
    BY <2>2, <2>3
  <2>7. \A t \in Threads : Listed(t)' <=> Listed(t) /\ t # w
    BY <2>2, <2>3, <2>4, <2>6
  <2>8. \A t \in Threads : Signalled(t)' <=> Signalled(t) \/ t = w
    BY <1>1, <2>5
  <2>9. ASSUME NEW t \in Threads PROVE WaiterOK(t)'
    <3>1. \A d, e \in Conds : InList(t, cond_waiters'[d]) /\ InList(t, cond_waiters'[e]) => d = e
      BY <2>3, <2>4
    <3>2. \A p, q \in Threads : Signals(p, t)' /\ Signals(q, t)' => p = q
      BY <2>5, <2>6
    <3> QED BY <1>4, <2>6, <2>7, <2>8, <3>1, <3>2 DEF Pops, SameLabels, SameValues
  <2> QED BY <2>3, <2>4, <2>9
<1>5. ASSUME NEW w \in Threads, Wakes(w) PROVE CondInv'
  <2>1. WaiterOK(w) /\ Signalled(w) /\ sema_value[w] = 0 /\ sema_value'[w] = 1
    BY <1>1, <1>5 DEF Wakes
  <2>2. \A t \in Threads : Listed(t)' <=> Listed(t)
    BY <1>5 DEF Wakes
  <2>3. \A t \in Threads \ {w} : ~Signals(current, t)
    BY <1>5 DEF Wakes, Signals
  <2>4. \A p \in Threads : ~Signals(p, w)'
    BY <1>1, <1>5, <2>1 DEF Wakes
  <2>5. \A t \in Threads : Signalled(t)' <=> Signalled(t) /\ t # w
    BY <1>5, <2>3, <2>4 DEF Wakes
  <2>6. ASSUME NEW t \in Threads PROVE WaiterOK(t)'
    BY <1>5, <2>1, <2>2, <2>5, <2>6 DEF Wakes, SameLabels, SameValues
  <2> QED BY <1>5, <2>6 DEF Wakes
<1>6. CASE Wakens
  <2>1. WaiterOK(current) /\ sema_value[current] = 1 /\ sema_value'[current] = 0
    BY <1>1, <1>6 DEF Wakens
  <2>2. \A t \in Threads : Listed(t)' <=> Listed(t)
    BY <1>6 DEF Wakens
  <2>3. \A t \in Threads : Signalled(t)' <=> Signalled(t)
    BY <1>6 DEF Wakens, SameSignals
  <2>4. ASSUME NEW t \in Threads PROVE WaiterOK(t)'
    BY <1>1, <1>6, <2>1, <2>2, <2>3 DEF Wakens, SameSignals, SameLabels, SameValues
  <2> QED BY <1>6, <2>4 DEF Wakens
<1> QED BY <1>2, <1>3, <1>4, <1>5, <1>6 DEF WaitStep

----------------------------------------------------------------------------
(* Which of them a step is. *)

\* A step of the current thread to a statement.
LEMMA GotoMove ==
    ASSUME TypeInv, NEW label, NEW o, Goto(label, o), TargetOK(label, o),
           \A t \in Threads \ {current} : peer'[t] = peer[t], WaitStep
    PROVE  Move
<1>1. current \in Threads /\ at \in [Threads -> Labels] /\ obj \in [Threads -> Objects \cup {NULL}]
  BY DEF TypeInv, TypeOK, SchedTypeOK
<1>2. /\ at'[current] = label /\ obj'[current] = o
      /\ \A t \in Threads \ {current} : at'[t] = at[t] /\ obj'[t] = obj[t]
  BY <1>1 DEF Goto
<1>3. \A t \in Threads \ {current} : Kept(t)
  BY <1>2 DEF Kept
<1>4. \A t \in Threads : t = current => StmtOK(t)'
  BY <1>1, <1>2 DEF StmtOK, TargetOK
<1> QED BY <1>3, <1>4 DEF Move

\* Its label changes, and nothing of the waiters of condition variables.
LEMMA GotoStill ==
    ASSUME TypeInv, NEW label, NEW o, Goto(label, o),
           \A t \in Threads \ {current} : peer'[t] = peer[t],
           label \notin SignalLabels, at[current] \notin SignalLabels,
           label \in CondLabels <=> at[current] \in CondLabels,
           UNCHANGED cond_waiters, SameValues(Threads)
    PROVE  Still
<1>1. current \in Threads /\ at \in [Threads -> Labels]
  BY DEF TypeInv, TypeOK, SchedTypeOK
<1>2. at'[current] = label /\ \A t \in Threads \ {current} : at'[t] = at[t]
  BY <1>1 DEF Goto
<1>3. SameSignals
  BY <1>2 DEF SameSignals, Signals
<1>4. SameLabels(Threads)
  BY <1>2 DEF SameLabels
<1> QED BY <1>3, <1>4 DEF Still

\* A step to a statement that is beside no condition variable.
LEMMA PlainMove ==
    ASSUME TypeInv, NEW label, NEW o, Goto(label, o), TargetOK(label, o),
           \A t \in Threads \ {current} : peer'[t] = peer[t],
           label \notin SignalLabels, at[current] \notin SignalLabels,
           label \in CondLabels <=> at[current] \in CondLabels,
           UNCHANGED cond_waiters, SameValues(Threads)
    PROVE  Move
<1>1. WaitStep
  BY GotoStill DEF WaitStep
<1> QED BY <1>1, GotoMove

\* A step that stays at its statement.
LEMMA StayMove ==
    ASSUME StmtInv, UNCHANGED <<at, obj, peer, lock_holder, cond_waiters>>, SameValues(Threads)
    PROVE  Move
<1>1. \A t \in Threads : Kept(t)
  BY DEF Kept
<1>2. WaitStep
  BY DEF WaitStep, Still, SameSignals, SameLabels, Signals
<1>3. \A t \in Threads : StmtOK(t)'
  BY DEF StmtInv, StmtOK
<1> QED BY <1>1, <1>2, <1>3 DEF Move

\* The semaphores of clients and of locks are not those of cond_wait().
LEMMA NotWaiters ==
    ASSUME TypeInv, NEW s \in Semas \cup Locks, SemaUp(s) \/ SemaTake(s) \/ SemaSleep(s)
    PROVE  SameValues(Threads)
  BY SynchAssumption DEF TypeInv, TypeOK, SemaIds, SemaUp, SemaTake, SemaSleep, SameValues

\* A lock changes hands only from its holder, or when nobody holds it.
HolderStep == \A l \in Locks : lock_holder'[l] = lock_holder[l] \/ lock_holder[l] \in {NULL, current}

\* Every step of the kernel is such a step.
LEMMA LockStepHolder == ASSUME TypeInv, LockInv, LockStep PROVE HolderStep
<1>1. current \in Threads /\ \A l \in Locks : LockOK(l)
  BY DEF TypeInv, TypeOK, SchedTypeOK, LockInv
<1>2. ASSUME NEW l \in Locks, Untouched(l) \/ Taken(l) \/ Held(l) \/ Cleared(l) \/ Given(l)
      PROVE  lock_holder'[l] = lock_holder[l] \/ lock_holder[l] \in {NULL, current}
  BY <1>1, <1>2 DEF LockOK, Untouched, Taken, Held, Cleared, Given
<1> QED BY <1>2 DEF LockStep, HolderStep

\* Threads that keep their statement keep the lock that it needs.
LEMMA KeptOK ==
    ASSUME TypeInv, ThreadInv, StmtInv, HolderStep, NEW t \in Threads, t # current, Kept(t)
    PROVE  StmtOK(t)'
<1> USE SchedAssumption, SynchAssumption, KernelAssumption
<1>1. StmtOK(t) /\ t # NULL
  BY DEF StmtInv
<1>2. CASE at'[t] = at[t] /\ obj'[t] = obj[t] /\ peer'[t] = peer[t]
  <2>1. \A l \in Locks : lock_holder[l] = t => lock_holder'[l] = t
    BY <1>1 DEF HolderStep
  <2> QED BY <1>1, <1>2, <2>1 DEF StmtOK, CondLabels
<1>3. CASE at'[t] = "client" /\ peer'[t] = NULL
  BY <1>3 DEF StmtOK, CondLabels
<1> QED BY <1>2, <1>3 DEF Kept

\* sema_down() and its callers.
LEMMA DownStepMove == ASSUME TypeInv, StmtInv, DownStep PROVE Move
<1> USE SynchAssumption, KernelAssumption
<1>0. current \in Threads /\ StmtOK(current) /\ sema_value \in [SemaIds -> Nat]
  BY DEF TypeInv, TypeOK, SchedTypeOK, StmtInv
<1>1. ASSUME NEW s \in Semas, SemaDown(s) PROVE Move
  <2>1. SameValues(Threads)
    BY <1>1, NotWaiters DEF SemaDown
  <2>2. /\ peer' = peer /\ at[current] \notin CondLabels \cup SignalLabels /\ peer[current] = NULL
        /\ UNCHANGED cond_waiters
    BY <1>0, <1>1 DEF SemaDown, AtClient, StmtOK, NeedsPeer, CondLabels, SignalLabels
  <2>3. /\ TargetOK("client", NULL) /\ TargetOK("down", s)
        /\ {"client", "down"} \cap (CondLabels \cup SignalLabels) = {}
    BY <2>2 DEF TargetOK, CondLabels, SignalLabels
  <2> QED BY <1>1, <2>1, <2>2, <2>3, PlainMove DEF SemaDown
<1>2. ASSUME NEW l \in Locks, LockAcquire(l), l # TidLock \/ at[current] = "acquire" PROVE Move
  <2>1. SameValues(Threads)
    BY <1>2, NotWaiters DEF LockAcquire
  <2>2. /\ peer' = peer /\ at[current] \notin CondLabels \cup SignalLabels
        /\ peer[current] # NULL => l = TidLock
        /\ UNCHANGED cond_waiters
    BY <1>0, <1>2 DEF LockAcquire, AtClient, StmtOK, NeedsPeer, CondLabels, SignalLabels
  <2>3. /\ TargetOK("hold", l) /\ TargetOK("acquire", l)
        /\ {"hold", "acquire"} \cap (CondLabels \cup SignalLabels) = {}
    BY <2>2 DEF TargetOK, CondLabels, SignalLabels, NeedsPeer
  <2> QED BY <1>2, <2>1, <2>2, <2>3, PlainMove DEF LockAcquire
<1>3. ASSUME NEW c \in Conds, CondDown(c) PROVE Move
  <2>1. /\ UNCHANGED <<cond_waiters, peer>> /\ at[current] = "cond_down" /\ peer[current] = NULL
        /\ LockOf[c] \in Locks
    BY <1>0, <1>3 DEF CondDown, StmtOK, NeedsPeer
  <2>2. TargetOK("acquire", LockOf[c]) /\ TargetOK("cond_down", c)
    BY <2>1 DEF TargetOK, CondLabels
  <2>3. CASE SemaTake(current) /\ Goto("acquire", LockOf[c])
    <3>1. /\ sema_value[current] > 0 /\ sema_value'[current] = sema_value[current] - 1
          /\ SameValues(Threads \ {current})
      BY <1>0, <2>3 DEF SemaTake, SameValues, SemaIds
    <3>2. at \in [Threads -> Labels]
      BY DEF TypeInv, TypeOK
    <3>3. at'[current] = "acquire" /\ \A t \in Threads \ {current} : at'[t] = at[t]
      BY <1>0, <2>3, <3>2 DEF Goto
    <3>4. SameSignals /\ SameLabels(Threads \ {current})
      BY <2>1, <3>3 DEF SameSignals, Signals, SignalLabels, SameLabels
    <3>5. Wakens
      BY <2>1, <3>1, <3>3, <3>4 DEF Wakens, CondLabels
    <3> QED BY <2>1, <2>2, <2>3, <3>5, GotoMove DEF WaitStep
  <2>4. CASE SemaSleep(current) /\ Goto("cond_down", c)
    <3>1. SameValues(Threads)
      BY <2>4 DEF SemaSleep, SameValues
    <3> QED BY <2>1, <2>2, <2>4, <3>1, PlainMove DEF CondLabels, SignalLabels
  <2> QED BY <1>3, <2>3, <2>4 DEF CondDown
<1> QED BY <1>1, <1>2, <1>3 DEF DownStep, ClientSemas, ClientLocks

\* cond_signal() takes the first waiter out of the list.
LEMMA PopMove ==
    ASSUME TypeInv, StmtInv, NEW c \in Conds, PopWaiter(c), NEW label \in SignalLabels, NEW o,
           Goto(label, o), at[current] \in {"client", "bcast"}, label = "bcast_up" => o = c
    PROVE  Move
<1> USE SynchAssumption, KernelAssumption
<1>1. /\ current \in Threads /\ at \in [Threads -> Labels] /\ peer \in [Threads -> Threads \cup {NULL}]
      /\ cond_waiters[c] \in Seq(Threads) /\ cond_waiters[c] # <<>>
      /\ NULL \notin Threads
  BY SchedAssumption DEF TypeInv, TypeOK, SchedTypeOK, PopWaiter
<1> DEFINE w == Head(cond_waiters[c])
<1>2. w \in Threads
  BY <1>1
<1>3. /\ at'[current] = label /\ peer'[current] = w
      /\ \A t \in Threads \ {current} : at'[t] = at[t] /\ peer'[t] = peer[t]
  BY <1>1 DEF Goto, PopWaiter
<1>4. \A t \in Threads : ~Signals(current, t)
  BY DEF Signals, SignalLabels
<1> HIDE DEF w
<1>5. \A p, t \in Threads : Signals(p, t)' <=> Signals(p, t) \/ (p = current /\ t = w)
  BY <1>1, <1>3, <1>4 DEF Signals
<1>6. SameLabels(Threads) /\ SameValues(Threads)
  BY <1>3 DEF SameLabels, SameValues, SignalLabels, CondLabels, PopWaiter, semaVars
<1>7. Pops(c)
  BY <1>4, <1>5, <1>6 DEF Pops, PopWaiter, w
<1>8. TargetOK(label, o)
  BY DEF TargetOK, SignalLabels, CondLabels, NeedsPeer, PopWaiter
<1> QED BY <1>3, <1>7, <1>8, GotoMove DEF WaitStep

\* cond_signal() ups the semaphore of that waiter.
LEMMA WakeMove ==
    ASSUME TypeInv, StmtInv, WakeWaiter, at[current] \in SignalLabels, NEW label \in {"client", "bcast"}, NEW o,
           Goto(label, o),
           label = "bcast" => o \in Conds /\ lock_holder[LockOf[o]] = current
    PROVE  Move
<1>1. /\ current \in Threads /\ at \in [Threads -> Labels] /\ peer \in [Threads -> Threads \cup {NULL}]
      /\ sema_value \in [SemaIds -> Nat] /\ peer[current] \in Threads /\ NULL \notin Threads
  BY SchedAssumption DEF TypeInv, TypeOK, SchedTypeOK, PeerInv, NeedsPeer, SignalLabels
<1> DEFINE w == peer[current]
<1>2. /\ at'[current] = label /\ peer'[current] = NULL
      /\ \A t \in Threads \ {current} : at'[t] = at[t] /\ peer'[t] = peer[t]
  BY <1>1 DEF Goto, WakeWaiter
<1>3. Signals(current, w) /\ w \in Threads
  BY <1>1 DEF Signals
<1>4. sema_value'[w] = sema_value[w] + 1 /\ SameValues(Threads \ {w})
  BY <1>1 DEF WakeWaiter, SemaUp, SameValues, SemaIds
<1> HIDE DEF w
<1>5. \A p, t \in Threads : Signals(p, t)' <=> Signals(p, t) /\ p # current
  BY <1>1, <1>2 DEF Signals, SignalLabels
<1>6. SameLabels(Threads)
  BY <1>2 DEF SameLabels, SignalLabels, CondLabels
<1>7. Wakes(w)
  BY <1>3, <1>4, <1>5, <1>6 DEF Wakes, WakeWaiter
<1>8. TargetOK(label, o)
  BY <1>2 DEF TargetOK, CondLabels, NeedsPeer, WakeWaiter
<1> QED BY <1>2, <1>3, <1>7, <1>8, GotoMove DEF WaitStep

\* Primitives that are under way.
LEMMA KernelStepMove == ASSUME TypeInv, StmtInv, KernelStep PROVE Move
<1> USE SchedAssumption, SynchAssumption, KernelAssumption
<1>0. /\ current \in Threads /\ StmtOK(current) /\ lock_holder \in [Locks -> Threads \cup {NULL}]
      /\ \A c \in Conds : LockOf[c] \in Locks
      /\ NeedsPeer(at[current], obj[current]) => peer[current] \in Threads
      /\ peer \in [Threads -> Threads \cup {NULL}] /\ \A t \in Threads : peer[t] \in Threads \cup {NULL}
  BY DEF TypeInv, TypeOK, SchedTypeOK, StmtInv, PeerInv
<1>1. ASSUME NEW label, NEW o, Goto(label, o), TargetOK(label, o), peer' = peer,
             label \notin CondLabels \cup SignalLabels, at[current] \notin CondLabels \cup SignalLabels,
             UNCHANGED cond_waiters, SameValues(Threads)
      PROVE  Move
  BY <1>1, PlainMove
<1>2. UNCHANGED semaVars => SameValues(Threads)
  BY DEF semaVars, SameValues
<1>3. ASSUME NEW l \in Locks, SetHolder(l, AfterHold(l)) PROVE Move
  <2>1. lock_holder'[l] = current
    BY <1>0, <1>3 DEF SetHolder
  <2>2. TargetOK(AfterHold(l), NULL)
    BY <1>0, <1>3, <2>1 DEF SetHolder, TargetOK, AfterHold, StmtOK, NeedsPeer, CondLabels
  <2> QED BY <1>1, <1>2, <1>3, <2>2 DEF SetHolder, AfterHold, CondLabels, SignalLabels
<1>4. ASSUME NEW l \in Locks, ReleaseUp(l, AfterRelease(l)) PROVE Move
  <2>1. TargetOK(AfterRelease(l), NULL)
    BY <1>0, <1>4 DEF ReleaseUp, TargetOK, AfterRelease, StmtOK, NeedsPeer, CondLabels
  <2> QED BY <1>1, <1>4, <2>1, NotWaiters DEF ReleaseUp, AfterRelease, CondLabels, SignalLabels
<1>5. ASSUME NEW c \in Conds, CondRelease(c) PROVE Move
  <2>1. TargetOK("cond_up", c)
    BY <1>0, <1>5 DEF CondRelease, ClearHolder, TargetOK, StmtOK, NeedsPeer, CondLabels
  <2> QED BY <1>2, <1>5, <2>1, PlainMove DEF CondRelease, ClearHolder, CondLabels, SignalLabels
<1>6. ASSUME NEW c \in Conds, CondReleaseUp(c) PROVE Move
  <2>1. TargetOK("cond_down", c)
    BY <1>0, <1>6 DEF CondReleaseUp, TargetOK, StmtOK, NeedsPeer, CondLabels
  <2> QED BY <1>0, <1>6, <2>1, NotWaiters, PlainMove DEF CondReleaseUp, CondLabels, SignalLabels
<1>7. ASSUME NEW c \in Conds, BroadcastPop(c) PROVE Move
  BY <1>7, PopMove DEF BroadcastPop, SignalLabels
<1>8. ASSUME NEW c \in Conds, BroadcastUp(c) PROVE Move
  BY <1>0, <1>8, WakeMove DEF BroadcastUp, SignalLabels, StmtOK
<1>9. ASSUME NEW c \in Conds, BroadcastEnd(c) PROVE Move
  <2>1. TargetOK("client", NULL)
    BY <1>0, <1>9 DEF BroadcastEnd, TargetOK, StmtOK, NeedsPeer, CondLabels
  <2> QED BY <1>1, <1>2, <1>9, <2>1 DEF BroadcastEnd, synchVars, CondLabels, SignalLabels
<1>10. CASE CondSignalUp
  BY <1>10, WakeMove DEF CondSignalUp, SignalLabels
<1>11. CASE IdleBlock
  <2>1. TargetOK("idle_sti", NULL)
    BY <1>0, <1>11 DEF IdleBlock, TargetOK, StmtOK, NeedsPeer, CondLabels
  <2> QED BY <1>1, <1>2, <1>11, <2>1 DEF IdleBlock, synchVars, CondLabels, SignalLabels
<1>12. CASE IdleHlt
  <2>1. TargetOK("idle_hlt", NULL)
    BY <1>0, <1>12 DEF IdleHlt, TargetOK, StmtOK, NeedsPeer, CondLabels
  <2> QED BY <1>1, <1>2, <1>12, <2>1 DEF IdleHlt, synchVars, CondLabels, SignalLabels
<1>13. CASE StartEnable
  <2>1. TargetOK("down", IdleStarted)
    BY <1>0, <1>13 DEF StartEnable, TargetOK, StmtOK, NeedsPeer, CondLabels
  <2> QED BY <1>1, <1>2, <1>13, <2>1 DEF StartEnable, synchVars, CondLabels, SignalLabels
<1>14. CASE TidLoad
  <2>1. TargetOK("tid_store", NULL)
    BY <1>0, <1>14 DEF TidLoad, TargetOK, StmtOK, NeedsPeer, CondLabels, synchVars
  <2> QED BY <1>1, <1>2, <1>14, <2>1 DEF TidLoad, synchVars, CondLabels, SignalLabels
<1>15. CASE TidStore
  <2>1. TargetOK("tid_done", NULL)
    BY <1>0, <1>15 DEF TidStore, TargetOK, StmtOK, NeedsPeer, CondLabels, synchVars
  <2> QED BY <1>1, <1>2, <1>15, <2>1 DEF TidStore, synchVars, CondLabels, SignalLabels
<1>16. CASE TidRelease
  <2>1. TargetOK("release", TidLock)
    BY <1>0, <1>16 DEF TidRelease, TargetOK, StmtOK, NeedsPeer, CondLabels
  <2> QED BY <1>1, <1>2, <1>16, <2>1 DEF TidRelease, ClearHolder, CondLabels, SignalLabels
<1>17. CASE CreateUnblock
  <2>1. peer' = [peer EXCEPT ![current] = NULL] /\ UNCHANGED synchVars
    BY <1>17 DEF CreateUnblock
  <2>2. TargetOK("client", NULL) /\ \A t \in Threads \ {current} : peer'[t] = peer[t]
    BY <1>0, <2>1 DEF TargetOK, NeedsPeer, CondLabels
  <2>3. SameValues(Threads) /\ UNCHANGED cond_waiters
    BY <1>2, <2>1 DEF synchVars
  <2>4. Goto("client", NULL) /\ at[current] = "unblock"
    BY <1>17 DEF CreateUnblock
  <2> QED BY <2>2, <2>3, <2>4, PlainMove DEF CondLabels, SignalLabels
<1>18. CASE IdleInit
  <2>1. TargetOK("idle_up", NULL)
    BY <1>0, <1>18 DEF IdleInit, TargetOK, StmtOK, NeedsPeer, CondLabels
  <2> QED BY <1>1, <1>2, <1>18, <2>1 DEF IdleInit, synchVars, CondLabels, SignalLabels
<1>19. CASE IdleUp
  <2>1. TargetOK("idle_block", NULL)
    BY <1>0, <1>19 DEF IdleUp, TargetOK, StmtOK, NeedsPeer, CondLabels
  <2> QED BY <1>1, <1>19, <2>1, NotWaiters DEF IdleUp, CondLabels, SignalLabels
<1> QED
  BY <1>3, <1>4, <1>5, <1>6, <1>7, <1>8, <1>9, <1>10, <1>11, <1>12, <1>13,
     <1>14, <1>15, <1>16, <1>17, <1>18, <1>19 DEF KernelStep

\* cond_wait() enters the waiters.
LEMMA CondWaitMove == ASSUME TypeInv, StmtInv, NEW c \in Conds, CondWait(c) PROVE Move
<1> USE SynchAssumption, KernelAssumption
<1>0. /\ current \in Threads /\ StmtOK(current) /\ sema_value \in [SemaIds -> Nat]
      /\ at \in [Threads -> Labels] /\ \A t \in Threads : t \in SemaIds
  BY DEF TypeInv, TypeOK, SchedTypeOK, StmtInv, SemaIds
<1>1. /\ at[current] = "client" /\ lock_holder[LockOf[c]] = current /\ peer[current] = NULL
      /\ UNCHANGED <<lock_holder, peer>> /\ Goto("cond_enq", c)
      /\ cond_waiters' = [cond_waiters EXCEPT ![c] = Append(@, current)]
      /\ sema_value' = [sema_value EXCEPT ![current] = 0]
  BY <1>0 DEF CondWait, AtClient, StmtOK, NeedsPeer
<1>2. at'[current] = "cond_enq" /\ \A t \in Threads \ {current} : at'[t] = at[t]
  BY <1>0, <1>1 DEF Goto
<1>3. sema_value'[current] = 0 /\ SameValues(Threads \ {current})
  BY <1>0, <1>1 DEF SameValues
<1>4. SameSignals /\ SameLabels(Threads \ {current})
  BY <1>1, <1>2 DEF SameSignals, Signals, SignalLabels, SameLabels
<1>5. Enlists(c)
  BY <1>1, <1>2, <1>3, <1>4 DEF Enlists, CondLabels
<1>6. TargetOK("cond_enq", c)
  BY <1>1 DEF TargetOK
<1> QED BY <1>1, <1>5, <1>6, GotoMove DEF WaitStep

\* thread_create() starts with a free page.
LEMMA ThreadCreateMove ==
    ASSUME TypeInv, ThreadInv, StmtInv, NEW n \in Threads, ThreadCreate(n) PROVE Move
<1> USE SynchAssumption, KernelAssumption
<1>0. /\ current \in Threads /\ at \in [Threads -> Labels] /\ obj \in [Threads -> Objects \cup {NULL}]
      /\ peer \in [Threads -> Threads \cup {NULL}]
  BY DEF TypeInv, TypeOK, SchedTypeOK
<1>1. status[n] = "FREE" /\ at[n] = "client" /\ at[current] = "client" /\ n # current
  BY <1>0 DEF ThreadCreate, AtClient, ThreadInv, DeadInv, ListInv, Dead
<1>2. /\ at'[n] = "client" /\ at'[current] = "acquire" /\ obj'[current] = TidLock
      /\ peer'[n] = NULL
      /\ \A t \in Threads \ {n, current} : at'[t] = at[t] /\ obj'[t] = obj[t] /\ peer'[t] = peer[t]
  BY <1>0, <1>1 DEF ThreadCreate
<1>3. \A t \in Threads \ {current} : Kept(t)
  BY <1>1, <1>2 DEF Kept
<1>4. \A t \in Threads : t = current => StmtOK(t)'
  BY <1>2 DEF StmtOK, CondLabels, NeedsPeer
<1>5. SameSignals /\ SameLabels(Threads)
  BY <1>1, <1>2 DEF SameSignals, Signals, SignalLabels, SameLabels, CondLabels
<1>6. Still
  BY <1>5 DEF Still, SameValues, ThreadCreate, synchVars, semaVars
<1> QED BY <1>3, <1>4, <1>6 DEF Move, WaitStep

\* Steps of clients.
LEMMA ClientStepMove == ASSUME TypeInv, ThreadInv, StmtInv, ClientStep PROVE Move
<1> USE SynchAssumption, KernelAssumption
<1>0. current \in Threads /\ StmtOK(current)
  BY DEF TypeInv, TypeOK, SchedTypeOK, StmtInv
<1>1. ASSUME NEW s \in Semas, SemaTryDown(s) \/ ClientSemaUp(s) PROVE Move
  BY <1>1, NotWaiters, StayMove DEF SemaTryDown, ClientSemaUp
<1>2. ASSUME NEW l \in Locks, LockTryAcquire(l) PROVE Move
  <2>1. SameValues(Threads)
    BY <1>2, NotWaiters DEF LockTryAcquire
  <2>2. TargetOK("hold", l) /\ at[current] = "client"
    BY <1>0, <1>2 DEF LockTryAcquire, AtClient, StmtOK, TargetOK, NeedsPeer, CondLabels
  <2> QED BY <1>2, <2>1, <2>2, PlainMove DEF LockTryAcquire, CondLabels, SignalLabels
<1>3. ASSUME NEW l \in Locks, LockRelease(l) PROVE Move
  <2>1. TargetOK("release", l) /\ at[current] = "client"
    BY <1>0, <1>3 DEF LockRelease, ClearHolder, AtClient, StmtOK, TargetOK, NeedsPeer, CondLabels
  <2> QED BY <1>3, <2>1, PlainMove DEF LockRelease, ClearHolder, semaVars, SameValues, CondLabels, SignalLabels
<1>4. ASSUME NEW c \in Conds, CondWait(c) PROVE Move
  BY <1>4, CondWaitMove
<1>5. ASSUME NEW c \in Conds, CondSignal(c) PROVE Move
  BY <1>5, PopMove DEF CondSignal, AtClient, SignalLabels
<1>6. ASSUME NEW c \in Conds, CondBroadcast(c) PROVE Move
  <2>1. TargetOK("bcast", c) /\ at[current] = "client"
    BY <1>0, <1>6 DEF CondBroadcast, synchVars, AtClient, StmtOK, TargetOK, NeedsPeer, CondLabels
  <2> QED BY <1>6, <2>1, PlainMove DEF CondBroadcast, synchVars, semaVars, SameValues, CondLabels, SignalLabels
<1>7. CASE IntrDisable \/ IntrEnable \/ ThreadExit \/ ThreadYield
  BY <1>7, StayMove DEF IntrDisable, IntrEnable, ThreadExit, ThreadYield, synchVars, semaVars, frameVars, SameValues
<1>8. ASSUME NEW n \in Threads, ThreadCreate(n) PROVE Move
  BY <1>8, ThreadCreateMove
<1> QED
  BY <1>1, <1>2, <1>3, <1>4, <1>5, <1>6, <1>7, <1>8 DEF ClientStep, ClientSemas, ClientLocks

\* Interrupts.
LEMMA InterruptMove ==
    ASSUME TypeInv, StmtInv, TimerInterrupt \/ \E s \in ClientSemas : DeviceInterrupt(s)
    PROVE  Move
<1>1. ASSUME EndHlt, UNCHANGED <<obj, peer, lock_holder, cond_waiters>>, SameValues(Threads)
      PROVE  Move
  <2>1. \A t \in Threads : at'[t] = IF t = current /\ at[t] = "idle_hlt" THEN "idle_block" ELSE at[t]
    BY <1>1 DEF EndHlt, TypeInv, TypeOK
  <2>2. \A t \in Threads \ {current} : Kept(t)
    BY <1>1, <2>1 DEF Kept
  <2>3. \A t \in Threads : StmtOK(t)'
    BY <1>1, <2>1 DEF StmtInv, StmtOK, CondLabels, NeedsPeer
  <2>4. Still
    BY <1>1, <2>1 DEF Still, SameSignals, SameLabels, Signals, SignalLabels, CondLabels
  <2> QED BY <2>2, <2>3, <2>4 DEF Move, WaitStep
<1>2. CASE TimerInterrupt
  BY <1>1, <1>2 DEF TimerInterrupt, TimerTick, synchVars, semaVars, SameValues
<1>3. ASSUME NEW s \in ClientSemas, DeviceInterrupt(s) PROVE Move
  BY <1>1, <1>3, NotWaiters DEF DeviceInterrupt, ClientSemas
<1> QED BY <1>2, <1>3

\* Every step of the kernel is a Move.
LEMMA MoveNext == TypeInv /\ ThreadInv /\ StmtInv /\ [Next]_vars => Move
<1>1. ASSUME StmtInv, UNCHANGED vars PROVE Move
  BY <1>1, StayMove DEF vars, synchVars, semaVars, frameVars, SameValues
<1> QED BY <1>1, ClientStepMove, DownStepMove, KernelStepMove, InterruptMove DEF Next

\* The kernel starts in a state of both invariants.
LEMMA WaitInit == Init => StmtInv /\ CondInv
<1> SUFFICES ASSUME Init PROVE StmtInv /\ CondInv
  OBVIOUS
<1> USE SchedAssumption
<1>1. StmtInv
  BY DEF Init, StmtInv, StmtOK, CondLabels
<1>2. \A t \in Threads : t \in SemaIds /\ sema_value[t] = 0
  BY SynchAssumption DEF Init, SemaIds
<1>3. CondInv
  BY <1>2, NoRepeatEmpty, InListEmpty
  DEF Init, CondInv, WaiterOK, Listed, Signalled, Signals, CondLabels, SignalLabels
<1> QED BY <1>1, <1>3

\* Every step of the kernel preserves both.
LEMMA WaitNext ==
    TypeInv /\ ThreadInv /\ LockInv /\ StmtInv /\ CondInv /\ [Next]_vars => StmtInv' /\ CondInv'
<1> SUFFICES ASSUME TypeInv, ThreadInv, LockInv, StmtInv, CondInv, [Next]_vars PROVE StmtInv' /\ CondInv'
  OBVIOUS
<1>1. Move /\ HolderStep
  BY MoveNext, EveryStepLock, LockStepHolder
<1>2. StmtInv'
  BY <1>1, KeptOK DEF Move, StmtInv
<1>3. CondInv'
  BY <1>1, WaitStepOK DEF Move
<1> QED BY <1>2, <1>3

\* The invariant of threads, locks and condition variables.
KernelInv == TypeInv /\ ThreadInv /\ LockInv /\ StmtInv /\ CondInv

\* It is an invariant of the kernel.
LEMMA KernelInvariantHolds == Spec => []KernelInv
<1>1. Init => KernelInv
  BY TypeInit, ThreadInit, LockInit, WaitInit DEF KernelInv
<1>2. KernelInv /\ [Next]_vars => KernelInv'
  BY TypeNext, ThreadNext, LockNext, WaitNext DEF KernelInv
<1> QED BY <1>1, <1>2, PTL DEF Spec

\* A thread that its creator has not unblocked yet is in thread_create().
LEMMA NewbornCreates ==
    ASSUME KernelInv, NEW t \in Threads, Newborn(t)
    PROVE  \E p \in Threads : Creates(p) /\ peer[p] = t
<1>1. PICK p \in Threads : peer[p] = t /\ at[p] \notin {"signal", "bcast_up"}
  BY DEF Newborn
<1>2. StmtOK(p) /\ t # NULL
  BY SchedAssumption DEF KernelInv, StmtInv
<1> QED BY <1>1, <1>2 DEF StmtOK, NeedsPeer, Creates, BirthLabel

(***************************************************************************)
(* The assertions of thread.c and synch.c: schedule() has a thread to run, *)
(* cond_wait() and cond_broadcast() hold their lock in the middle, the     *)
(* thread that thread_create() unblocks is blocked.                        *)
(***************************************************************************)
THEOREM KernelAsserts == Spec => []AssertionsHold
<1>1. KernelInv => AssertionsHold
  <2> SUFFICES ASSUME KernelInv PROVE AssertionsHold
    OBVIOUS
  <2>1. idle_thread = NULL /\ ready_list = <<>> => at[current] = "idle_init"
    BY InListEmpty DEF KernelInv, TypeInv, BootInv, IdleKept
  <2>2. ASSUME NEW t \in Threads PROVE StmtOK(t)
    BY DEF KernelInv, StmtInv
  <2>3. ASSUME NEW t \in Threads, Newborn(t) PROVE status[t] = "BLOCKED"
    BY <2>3, NewbornCreates DEF KernelInv, ThreadInv, BirthInv
  <2> QED BY <2>1, <2>2, <2>3 DEF AssertionsHold, StmtOK
<1> QED BY <1>1, KernelInvariantHolds, PTL

\* The positions of a thread in a list without repetitions.
LEMMA PositionsOf ==
    ASSUME NEW t, NEW list \in Seq(Threads), NoRepeat(list)
    PROVE  /\ ~InList(t, list) => Positions(t, list) = {}
           /\ InList(t, list) => \E i \in 1..Len(list) : Positions(t, list) = {i}
<1>1. DOMAIN list = 1..Len(list)
  OBVIOUS
<1>2. ASSUME InList(t, list) PROVE \E i \in 1..Len(list) : Positions(t, list) = {i}
  <2>1. PICK i \in 1..Len(list) : list[i] = t
    BY <1>2 DEF InList
  <2>2. Positions(t, list) = {i}
    BY <1>1, <2>1 DEF Positions, NoRepeat
  <2> QED BY <2>2
<1> QED BY <1>1, <1>2 DEF Positions, InList

\* Where cond_wait() has left a thread.
ListedAt(t) == UNION {{c} \X Positions(t, cond_waiters[c]) : c \in Conds}

\* A thread is in the list of one condition variable at most.
LEMMA ListedCount ==
    ASSUME TypeInv, CondInv, NEW t \in Threads
    PROVE  Cardinality(ListedAt(t)) = IF Listed(t) THEN 1 ELSE 0
<1>1. /\ \A c \in Conds : cond_waiters[c] \in Seq(Threads) /\ NoRepeat(cond_waiters[c])
      /\ \A c, d \in Conds : InList(t, cond_waiters[c]) /\ InList(t, cond_waiters[d]) => c = d
  BY DEF TypeInv, TypeOK, CondInv, WaiterOK
<1>2. CASE Listed(t)
  <2>1. PICK c \in Conds : InList(t, cond_waiters[c])
    BY <1>2 DEF Listed
  <2>2. PICK i : Positions(t, cond_waiters[c]) = {i}
    BY <1>1, <2>1, PositionsOf
  <2>3. \A d \in Conds \ {c} : Positions(t, cond_waiters[d]) = {}
    BY <1>1, <2>1, PositionsOf
  <2>4. \A d \in Conds : {d} \X Positions(t, cond_waiters[d]) = IF d = c THEN {<<c, i>>} ELSE {}
    BY <2>2, <2>3
  <2>5. ListedAt(t) = {<<c, i>>}
    BY <2>4 DEF ListedAt
  <2> QED BY <1>2, <2>5, FS_Singleton
<1>3. CASE ~Listed(t)
  <2>1. \A d \in Conds : Positions(t, cond_waiters[d]) = {}
    BY <1>1, <1>3, PositionsOf DEF Listed
  <2>2. ListedAt(t) = {}
    BY <2>1 DEF ListedAt
  <2> QED BY <1>3, <2>2, FS_EmptySet
<1> QED BY <1>2, <1>3

\* One thread at most signals it.
LEMMA SignallersCount ==
    ASSUME CondInv, NEW t \in Threads
    PROVE  Cardinality(Signallers(t)) = IF Signalled(t) THEN 1 ELSE 0
<1>1. \A p, q \in Threads : Signals(p, t) /\ Signals(q, t) => p = q
  BY DEF CondInv, WaiterOK
<1>2. Signallers(t) = {p \in Threads : Signals(p, t)}
  BY DEF Signallers, Signals, SignalLabels
<1>3. CASE Signalled(t)
  <2>1. PICK p \in Threads : Signals(p, t)
    BY <1>3 DEF Signalled
  <2>2. Signallers(t) = {p}
    BY <1>1, <1>2, <2>1
  <2> QED BY <1>3, <2>2, FS_Singleton
<1>4. CASE ~Signalled(t)
  <2>1. Signallers(t) = {}
    BY <1>2, <1>4 DEF Signalled
  <2> QED BY <1>4, <2>1, FS_EmptySet
<1> QED BY <1>3, <1>4

\* The signal of a thread in cond_wait() is in one place, and of others in none.
LEMMA SignalsCounted ==
    ASSUME KernelInv PROVE SignalAccounting
<1> SUFFICES ASSUME NEW t \in Threads
             PROVE  Cardinality(ListedAt(t)) + Cardinality(Signallers(t)) + sema_value[t] =
                       IF at[t] \in {"cond_enq", "cond_up", "cond_down"} THEN 1 ELSE 0
  BY DEF SignalAccounting, ListedAt
<1>1. WaiterOK(t)
  BY DEF KernelInv, CondInv
<1>2. /\ Cardinality(ListedAt(t)) = IF Listed(t) THEN 1 ELSE 0
      /\ Cardinality(Signallers(t)) = IF Signalled(t) THEN 1 ELSE 0
  BY ListedCount, SignallersCount DEF KernelInv
<1> QED BY <1>1, <1>2 DEF WaiterOK, CondLabels

-----------------------------------------------------------------------------

(***************************************************************************)
(* Proofs that no wakeup is lost, that each thread is where its status     *)
(* says, and that no two threads have the same tid.                        *)
(*                                                                         *)
(* ThreadInv says that what a list refers to has the right status.  The    *)
(* converse, that a thread of that status is in a list, is PlaceInv; it    *)
(* needs the creators of new threads, which are blocked in no list, and    *)
(* idle_thread, which is ready in no list.  NoLostWakeup compares numbers: *)
(* the threads that are awake in sema_down() are finitely many because     *)
(* they run or are in the run queue, a step that takes a unit removes at   *)
(* most the current one from them, and the sema_up() that adds a unit adds *)
(* the waiter that it wakes, which AsleepInv shows to be new among them.   *)
(* TidInv follows a tid from next_tid into reg and into the new thread:    *)
(* tid_lock makes the numbers that are on their way differ.                *)
(*                                                                         *)
(* A step is classified by what it does to the run queue and to the        *)
(* semaphores (Kind), and each kind is treated once.                       *)
(***************************************************************************)

\* p has set next_tid and has not yet stored the number in its new thread.
Numbered(p) ==
    \/ at[p] \in {"tid_done", "unblock"}
    \/ at[p] = "release" /\ obj[p] = TidLock

\* t has been given its tid.
Live(t) == status[t] # "FREE" /\ tid[t] # 0

\* Tids are below next_tid and differ, those on their way included.
TidInv ==
    /\ next_tid > 0
    /\ \A t \in Threads : Live(t) => tid[t] < next_tid
    /\ \A t, u \in Threads : Live(t) /\ Live(u) /\ tid[t] = tid[u] => t = u
    /\ \A p \in Threads : at[p] = "tid_store" => reg[p] = next_tid
    /\ \A p \in Threads : Numbered(p) =>
          /\ reg[p] < next_tid
          /\ \A t \in Threads : Live(t) => tid[t] # reg[p]
          /\ \A q \in Threads : Numbered(q) /\ reg[q] = reg[p] => q = p

\* A thread that is ready, blocked or dying is in the list for it.
PlaceInv ==
    /\ \A t \in Threads : status[t] = "READY" /\ t # idle_thread => InList(t, ready_list)
    /\ idle_thread # NULL => ~InList(idle_thread, ready_list)
    /\ \A t \in Threads : status[t] = "BLOCKED" /\ t # idle_thread =>
          \/ \E p \in Threads : Creates(p) /\ peer[p] = t
          \/ \E s \in SemaIds : InList(t, sema_waiters[s])
    /\ NoRepeat(destruction_req) /\ ~InList(Main, destruction_req)
    /\ \A t \in Threads : status[t] = "DYING" /\ t # Main => InList(t, destruction_req)

\* The threads that are in the loop of sema_down(s) and not asleep.
Awake(s) == {t \in Threads : Sleeper(t, s) /\ status[t] \in {"READY", "RUNNING"}}

\* The waiters of a semaphore are asleep.
AsleepInv == \A s \in SemaIds : \A t \in Threads : InList(t, sema_waiters[s]) => asleep[t]

----------------------------------------------------------------------------
(* What a step does to the run queue and to the threads that sleep. *)

\* The labels in the loop of sema_down().
DownLabels == {"down", "acquire", "cond_down"}

\* Threads other than the current one keep asleep, a thread_create() under
\* way goes on, and a thread stays in the loop of sema_down().
AsleepKept == \A t \in Threads \ {current} : asleep'[t] = asleep[t] \/ status[t] = "FREE"
BirthKept == \A p \in Threads : p = current /\ Creates(p) => Creates(p)' /\ peer'[p] = peer[p]
SleeperKept == \A s \in SemaIds : \A t \in Threads : t = current /\ Sleeper(t, s) => Sleeper(t, s)'
SleeperOf(s) == \A r \in SemaIds : Sleeper(current, r) => r = s

\* Parts of the state that a step leaves alone.
SameLists == UNCHANGED <<status, ready_list, current, idle_thread, destruction_req>>
SameSemas == \A s \in SemaIds : sema_waiters'[s] = sema_waiters[s] /\ sema_value'[s] = sema_value[s]

\* Neither the scheduler nor a semaphore sees the step, or the current thread
\* takes a unit, gives one, goes to sleep, or leaves the CPU.
QuietKind == SameLists /\ SameSemas /\ BirthKept /\ AsleepKept /\ SleeperKept
TakeKind(s) == SemaTake(s) /\ BirthKept /\ SleeperOf(s)
UpKind(s) == SemaUp(s) /\ BirthKept /\ AsleepKept /\ SleeperKept
SleepKind(s) == SemaSleep(s) /\ BirthKept /\ SleeperOf(s) /\ at[current] \notin IdleLabels
SwitchKind ==
    /\ \/ Block /\ at[current] = "idle_block"
       \/ Yield
       \/ DoSchedule("DYING", ready_list) /\ at[current] = "client"
    /\ UNCHANGED semaVars /\ BirthKept /\ AsleepKept /\ SleeperKept

\* One of these, or one of the steps that give a thread its place.
Kind ==
    \/ QuietKind \/ SwitchKind \/ IdleInit \/ CreateUnblock
    \/ \E n \in Threads : ThreadCreate(n)
    \/ \E s \in SemaIds : TakeKind(s) \/ UpKind(s) \/ SleepKind(s)

\* A step to another statement keeps a thread_create() under way, and a
\* thread is in the loop of one sema_down() at most.
LEMMA GotoKept ==
    ASSUME TypeInv, NEW label, NEW o, Goto(label, o),
           BirthLabel(at[current], obj[current]) => BirthLabel(label, o) /\ peer'[current] = peer[current]
    PROVE  /\ BirthKept
           /\ at[current] \notin DownLabels => SleeperKept
           /\ at[current] \notin DownLabels => \A s \in SemaIds : SleeperOf(s)
<1> USE SchedAssumption, SynchAssumption
<1>1. current \in Threads /\ at \in [Threads -> Labels] /\ obj \in [Threads -> Objects \cup {NULL}]
  BY DEF TypeInv, TypeOK, SchedTypeOK
<1>2. at'[current] = label /\ obj'[current] = o
  BY <1>1 DEF Goto
<1>3. BirthKept
  BY <1>2 DEF BirthKept, Creates
<1>4. NULL \notin SemaIds
  BY DEF SemaIds, Objects
<1>5. ASSUME at[current] \notin DownLabels, NEW s \in SemaIds PROVE ~Sleeper(current, s)
  BY <1>4, <1>5 DEF Sleeper, WaitsOn, DownLabels
<1> QED BY <1>3, <1>5 DEF SleeperKept, SleeperOf

\* A step that stays at its statement keeps them too.
LEMMA StayKept ==
    ASSUME UNCHANGED <<at, obj, peer, asleep>>
    PROVE  BirthKept /\ AsleepKept /\ SleeperKept
  BY DEF BirthKept, Creates, AsleepKept, SleeperKept, Sleeper, WaitsOn

\* A step of the current thread that neither the scheduler nor a semaphore sees.
LEMMA GotoQuiet ==
    ASSUME TypeInv, NEW label, NEW o, Goto(label, o),
           BirthLabel(at[current], obj[current]) => BirthLabel(label, o) /\ peer'[current] = peer[current],
           at[current] \notin DownLabels, SameLists, SameSemas, AsleepKept
    PROVE  QuietKind
  BY GotoKept DEF QuietKind

\* sema_down() and its callers.
LEMMA DownStepKind == ASSUME TypeInv, StmtInv, DownStep PROVE Kind
<1> USE SynchAssumption, KernelAssumption
<1>0. /\ current \in Threads /\ StmtOK(current)
      /\ \A s \in Semas \cup Locks \cup Threads : s \in SemaIds
  BY DEF TypeInv, TypeOK, SchedTypeOK, StmtInv, SemaIds
<1>1. ASSUME NEW s \in SemaIds, SemaTake(s) \/ SemaSleep(s), NEW label, NEW o, Goto(label, o), peer' = peer,
             BirthLabel(at[current], obj[current]) => BirthLabel(label, o),
             at[current] \notin IdleLabels, at[current] \in DownLabels => WaitsOn(current) = s
      PROVE  Kind
  <2>1. BirthKept
    BY <1>1, GotoKept
  <2>2. SleeperOf(s)
    <3>1. CASE at[current] \in DownLabels
      BY <1>1, <3>1 DEF SleeperOf, Sleeper
    <3>2. CASE at[current] \notin DownLabels
      BY <1>1, <3>2, GotoKept
    <3> QED BY <3>1, <3>2
  <2> QED BY <1>1, <2>1, <2>2 DEF Kind, TakeKind, SleepKind
<1>2. ASSUME NEW s \in Semas, SemaDown(s) PROVE Kind
  <2>1. /\ peer' = peer /\ at[current] \notin IdleLabels
        /\ at[current] \in DownLabels => WaitsOn(current) = s
        /\ ~BirthLabel(at[current], obj[current])
    BY <1>2 DEF SemaDown, AtClient, IdleLabels, DownLabels, WaitsOn, BirthLabel
  <2> QED BY <1>0, <1>1, <1>2, <2>1 DEF SemaDown
<1>3. ASSUME NEW l \in Locks, LockAcquire(l) PROVE Kind
  <2>1. /\ peer' = peer /\ at[current] \notin IdleLabels
        /\ at[current] \in DownLabels => WaitsOn(current) = l
        /\ BirthLabel(at[current], obj[current]) => BirthLabel("hold", l) /\ BirthLabel("acquire", l)
    BY <1>3 DEF LockAcquire, AtClient, IdleLabels, DownLabels, WaitsOn, BirthLabel
  <2> QED BY <1>0, <1>1, <1>3, <2>1 DEF LockAcquire
<1>4. ASSUME NEW c \in Conds, CondDown(c) PROVE Kind
  <2>1. /\ peer' = peer /\ at[current] \notin IdleLabels
        /\ WaitsOn(current) = current
        /\ ~BirthLabel(at[current], obj[current])
    BY <1>4 DEF CondDown, IdleLabels, WaitsOn, BirthLabel
  <2> QED BY <1>0, <1>1, <1>4, <2>1 DEF CondDown
<1> QED BY <1>2, <1>3, <1>4 DEF DownStep, ClientSemas, ClientLocks

\* Primitives that are under way.
LEMMA KernelStepKind == ASSUME TypeInv, StmtInv, KernelStep PROVE Kind
<1> USE SynchAssumption, KernelAssumption
<1>0. /\ current \in Threads /\ StmtOK(current)
      /\ asleep \in [Threads -> BOOLEAN]
      /\ \A s \in Semas \cup Locks \cup Threads : s \in SemaIds
      /\ at[current] \in SignalLabels => peer[current] \in Threads
  BY DEF TypeInv, TypeOK, SchedTypeOK, StmtInv, SemaIds, PeerInv, NeedsPeer, SignalLabels
<1>1. ASSUME UNCHANGED schedVars, UNCHANGED semaVars PROVE SameLists /\ SameSemas
  BY <1>1 DEF schedVars, semaVars, SameLists, SameSemas
<1>2. ASSUME asleep' = asleep PROVE AsleepKept
  BY <1>2 DEF AsleepKept
<1>3. ASSUME NEW label, NEW o, Goto(label, o), SameLists, SameSemas, AsleepKept,
             BirthLabel(at[current], obj[current]) => BirthLabel(label, o) /\ peer'[current] = peer[current],
             at[current] \notin DownLabels
      PROVE  Kind
  BY <1>3, GotoQuiet DEF Kind
<1>4. ASSUME NEW s \in SemaIds, SemaUp(s), NEW label, NEW o, Goto(label, o), asleep' = asleep,
             BirthLabel(at[current], obj[current]) => BirthLabel(label, o) /\ peer'[current] = peer[current],
             at[current] \notin DownLabels
      PROVE  Kind
  BY <1>2, <1>4, GotoKept DEF Kind, UpKind
<1> USE DEF BirthLabel, DownLabels
<1>5. ASSUME NEW l \in Locks, SetHolder(l, AfterHold(l)) PROVE Kind
  BY <1>1, <1>2, <1>3, <1>5 DEF SetHolder, AfterHold
<1>6. ASSUME NEW l \in Locks, ReleaseUp(l, AfterRelease(l)) PROVE Kind
  BY <1>0, <1>4, <1>6 DEF ReleaseUp, AfterRelease
<1>7. ASSUME NEW c \in Conds, CondRelease(c) PROVE Kind
  BY <1>1, <1>2, <1>3, <1>7 DEF CondRelease, ClearHolder
<1>8. ASSUME NEW c \in Conds, CondReleaseUp(c) PROVE Kind
  BY <1>0, <1>4, <1>8 DEF CondReleaseUp
<1>9. ASSUME NEW c \in Conds, BroadcastPop(c) PROVE Kind
  BY <1>1, <1>2, <1>3, <1>9 DEF BroadcastPop, PopWaiter
<1>10. ASSUME NEW c \in Conds, BroadcastUp(c) PROVE Kind
  BY <1>0, <1>4, <1>10 DEF BroadcastUp, WakeWaiter, SignalLabels
<1>11. ASSUME NEW c \in Conds, BroadcastEnd(c) PROVE Kind
  BY <1>1, <1>2, <1>3, <1>11 DEF BroadcastEnd, synchVars
<1>12. CASE CondSignalUp
  BY <1>0, <1>4, <1>12 DEF CondSignalUp, WakeWaiter, SignalLabels
<1>13. CASE IdleBlock
  <2>1. AsleepKept
    BY <1>0, <1>13 DEF IdleBlock, AsleepKept
  <2>2. BirthKept /\ SleeperKept
    BY <1>13, GotoKept DEF IdleBlock
  <2> QED BY <1>13, <2>1, <2>2 DEF IdleBlock, Kind, SwitchKind, synchVars
<1>14. CASE IdleHlt
  <2>1. AsleepKept
    BY <1>0, <1>14 DEF IdleHlt, AsleepKept
  <2> QED BY <1>1, <1>3, <1>14, <2>1 DEF IdleHlt, synchVars
<1>15. CASE StartEnable
  BY <1>1, <1>2, <1>3, <1>15 DEF StartEnable, synchVars
<1>16. CASE TidLoad
  BY <1>1, <1>2, <1>3, <1>16 DEF TidLoad, synchVars
<1>17. CASE TidStore
  BY <1>1, <1>2, <1>3, <1>17 DEF TidStore, synchVars
<1>18. CASE TidRelease
  BY <1>1, <1>2, <1>3, <1>18 DEF TidRelease, ClearHolder
<1>19. CASE CreateUnblock \/ IdleInit
  BY <1>19 DEF Kind
<1>20. CASE IdleUp
  BY <1>0, <1>4, <1>20 DEF IdleUp
<1> QED
  BY <1>5, <1>6, <1>7, <1>8, <1>9, <1>10, <1>11, <1>12, <1>13,
     <1>14, <1>15, <1>16, <1>17, <1>18, <1>19, <1>20 DEF KernelStep

\* cond_wait(): nobody sleeps on the semaphore that it initialises.
LEMMA FreshSema ==
    ASSUME TypeInv, ThreadInv, StmtInv, CondInv, at[current] = "client"
    PROVE  sema_waiters[current] = <<>> /\ sema_value[current] = 0
<1> USE SynchAssumption
<1>1. /\ current \in Threads /\ current \in SemaIds /\ sema_waiters[current] \in Seq(Threads)
      /\ status[current] = "RUNNING" /\ WaiterOK(current)
  BY DEF TypeInv, TypeOK, SchedTypeOK, SemaIds, ThreadInv, ListInv, CondInv
<1>2. sema_value[current] = 0
  BY <1>1 DEF WaiterOK, CondLabels
<1>3. ASSUME NEW t \in Threads, InList(t, sema_waiters[current]) PROVE FALSE
  <2>1. status[t] = "BLOCKED" /\ Waiting(t, current) /\ StmtOK(t)
    BY <1>1, <1>3 DEF ThreadInv, WaitInv, StmtInv
  <2> QED BY <1>1, <2>1 DEF Waiting, StmtOK
<1>4. ASSUME sema_waiters[current] # <<>> PROVE FALSE
  <2>1. Head(sema_waiters[current]) \in Threads
    BY <1>1, <1>4
  <2> QED BY <1>1, <1>3, <1>4, <2>1, InListTail
<1> QED BY <1>2, <1>4

\* Steps of clients.
LEMMA ClientStepKind ==
    ASSUME TypeInv, ThreadInv, StmtInv, CondInv, ClientStep PROVE Kind
<1> USE SynchAssumption, KernelAssumption
<1>0. /\ current \in Threads /\ sema_value \in [SemaIds -> Nat] /\ sema_waiters \in [SemaIds -> Seq(Threads)]
      /\ \A s \in Semas \cup Locks \cup Threads : s \in SemaIds
  BY DEF TypeInv, TypeOK, SchedTypeOK, SemaIds
<1>1. ASSUME UNCHANGED schedVars, UNCHANGED semaVars PROVE SameLists /\ SameSemas
  BY <1>1 DEF schedVars, semaVars, SameLists, SameSemas
<1>2. ASSUME asleep' = asleep PROVE AsleepKept
  BY <1>2 DEF AsleepKept
<1>3. ASSUME NEW label, NEW o, Goto(label, o), SameLists, SameSemas, asleep' = asleep, at[current] = "client"
      PROVE  Kind
  BY <1>2, <1>3, GotoQuiet DEF Kind, BirthLabel, DownLabels
<1>4. ASSUME at[current] = "client" PROVE \A s \in SemaIds : SleeperOf(s)
  <2>1. \A s \in SemaIds : ~Sleeper(current, s)
    BY <1>4, SchedAssumption DEF Sleeper, WaitsOn, SemaIds, Objects
  <2> QED BY <2>1 DEF SleeperOf
<1>5. ASSUME NEW s \in Semas, SemaTryDown(s) PROVE Kind
  <2>1. BirthKept
    BY <1>5 DEF SemaTryDown, BirthKept, Creates
  <2> QED BY <1>0, <1>4, <1>5, <2>1 DEF SemaTryDown, AtClient, Kind, TakeKind
<1>6. ASSUME NEW s \in Semas, ClientSemaUp(s) PROVE Kind
  BY <1>0, <1>6, StayKept DEF ClientSemaUp, Kind, UpKind
<1>7. ASSUME NEW l \in Locks, LockTryAcquire(l) PROVE Kind
  <2>1. BirthKept
    BY <1>7 DEF LockTryAcquire, AtClient, BirthKept, Creates, BirthLabel
  <2> QED BY <1>0, <1>4, <1>7, <2>1 DEF LockTryAcquire, AtClient, Kind, TakeKind
<1>8. ASSUME NEW l \in Locks, LockRelease(l) PROVE Kind
  BY <1>1, <1>3, <1>8 DEF LockRelease, ClearHolder, AtClient
<1>9. ASSUME NEW c \in Conds, CondWait(c) PROVE Kind
  <2>1. sema_waiters[current] = <<>> /\ sema_value[current] = 0
    BY <1>9, FreshSema DEF CondWait, AtClient
  <2>2. SameSemas
    BY <1>0, <1>9, <2>1 DEF CondWait, SameSemas
  <2> QED BY <1>3, <1>9, <2>2 DEF CondWait, AtClient, SameLists, schedVars
<1>10. ASSUME NEW c \in Conds, CondSignal(c) PROVE Kind
  BY <1>1, <1>3, <1>10 DEF CondSignal, PopWaiter, AtClient
<1>11. ASSUME NEW c \in Conds, CondBroadcast(c) PROVE Kind
  BY <1>1, <1>3, <1>11 DEF CondBroadcast, synchVars, AtClient
<1>12. CASE IntrDisable \/ IntrEnable
  BY <1>1, <1>12, StayKept DEF IntrDisable, IntrEnable, synchVars, Kind, QuietKind
<1>13. CASE ThreadExit \/ ThreadYield
  BY <1>13, StayKept DEF ThreadExit, ThreadYield, AtClient, synchVars, frameVars, Kind, SwitchKind
<1>14. ASSUME NEW n \in Threads, ThreadCreate(n) PROVE Kind
  BY <1>14 DEF Kind
<1> QED
  BY <1>5, <1>6, <1>7, <1>8, <1>9, <1>10, <1>11, <1>12, <1>13, <1>14
  DEF ClientStep, ClientSemas, ClientLocks

\* Interrupts.
LEMMA InterruptKind ==
    ASSUME TypeInv, TimerInterrupt \/ \E s \in ClientSemas : DeviceInterrupt(s)
    PROVE  Kind
<1>1. ASSUME EndHlt, UNCHANGED <<obj, peer, asleep>> PROVE BirthKept /\ AsleepKept /\ SleeperKept
  <2>1. \A t \in Threads : at'[t] = IF t = current /\ at[t] = "idle_hlt" THEN "idle_block" ELSE at[t]
    BY <1>1 DEF EndHlt, TypeInv, TypeOK
  <2> QED BY <1>1, <2>1, SchedAssumption
          DEF BirthKept, Creates, BirthLabel, AsleepKept, SleeperKept, Sleeper, WaitsOn, SemaIds
<1>2. CASE TimerInterrupt
  <2>1. BirthKept /\ AsleepKept /\ SleeperKept
    BY <1>1, <1>2 DEF TimerInterrupt, TimerTick
  <2>2. UNCHANGED semaVars /\ Tick
    BY <1>2 DEF TimerInterrupt, TimerTick, synchVars
  <2>3. CASE Yield
    BY <2>1, <2>2, <2>3 DEF Kind, SwitchKind
  <2>4. CASE SameLists
    BY <2>1, <2>2, <2>4 DEF Kind, QuietKind, SameSemas, semaVars
  <2> QED BY <2>2, <2>3, <2>4 DEF Tick, SameLists
<1>3. ASSUME NEW s \in ClientSemas, DeviceInterrupt(s) PROVE Kind
  BY <1>1, <1>3 DEF DeviceInterrupt, Kind, UpKind, ClientSemas, SemaIds
<1> QED BY <1>2, <1>3

\* Every step of the kernel is of one of these kinds.
LEMMA KindNext == TypeInv /\ ThreadInv /\ StmtInv /\ CondInv /\ [Next]_vars => Kind
<1>1. ASSUME UNCHANGED vars PROVE Kind
  BY <1>1, StayKept DEF vars, schedVars, synchVars, semaVars, frameVars, Kind, QuietKind, SameLists, SameSemas
<1> QED BY <1>1, ClientStepKind, DownStepKind, KernelStepKind, InterruptKind DEF Next

----------------------------------------------------------------------------
(* Every thread has its place. *)

\* A thread_create() under way stays under way, with its new thread, until
\* it unblocks it.
LEMMA CreatorsKept ==
    ASSUME Move
    PROVE  /\ \A p \in Threads \ {current} : Creates(p) => Creates(p)' /\ peer'[p] = peer[p]
           /\ BirthKept => \A p \in Threads : Creates(p) => Creates(p)' /\ peer'[p] = peer[p]
<1>1. \A p \in Threads \ {current} : Creates(p) => Creates(p)' /\ peer'[p] = peer[p]
  BY DEF Move, Kept, Creates, BirthLabel
<1> QED BY <1>1 DEF BirthKept

\* schedule() runs the head of the run queue, or the idle thread.
LEMMA ScheduleNext ==
    ASSUME TypeInv, NEW st \in [Threads -> Statuses], NEW rl \in Seq(Threads), NEW dr \in Seq(Threads),
           Schedule(st, rl, dr), rl # <<>> \/ idle_thread # NULL
    PROVE  /\ \A t \in Threads : status'[t] = IF t = current' THEN "RUNNING" ELSE st[t]
           /\ \A t : InList(t, ready_list') => InList(t, rl)
           /\ \A t : InList(t, rl) => InList(t, ready_list') \/ t = current'
           /\ destruction_req' = IF current' # current /\ st[current] = "DYING" /\ current # Main
                                 THEN Append(dr, current) ELSE dr
           /\ current' = idle_thread \/ InList(current', rl)
           /\ idle_thread' = idle_thread
<1> DEFINE next == NextThreadToRun(rl)
<1>1. /\ status' = [st EXCEPT ![next] = "RUNNING"] /\ current' = next /\ idle_thread' = idle_thread
      /\ ready_list' = IF rl = <<>> THEN rl ELSE Tail(rl)
      /\ destruction_req' = IF next # current /\ st[current] = "DYING" /\ current # Main
                            THEN Append(dr, current) ELSE dr
  BY DEF Schedule
<1>2. next \in Threads /\ (rl = <<>> => next = idle_thread) /\ (rl # <<>> => next = Head(rl))
  BY SchedAssumption DEF TypeInv, TypeOK, SchedTypeOK, NextThreadToRun
<1> HIDE DEF next
<1>3. \A t : InList(t, rl) <=> InList(t, ready_list') \/ (rl # <<>> /\ t = next)
  BY <1>1, <1>2, InListTail, InListEmpty
<1> QED BY <1>1, <1>2, <1>3

\* Threads that run or are ready to run, other than the current one, stay so.
RunnersStay ==
    \A t \in Threads \ {current} :
        status[t] \in {"READY", "RUNNING"} => status'[t] \in {"READY", "RUNNING"}

\* Statements that leave the lists alone.
LEMMA SameListsPlace ==
    ASSUME PlaceInv, Move, BirthKept, SameLists, \A s \in SemaIds : sema_waiters'[s] = sema_waiters[s]
    PROVE  PlaceInv' /\ RunnersStay
  BY CreatorsKept DEF PlaceInv, SameLists, RunnersStay

\* sema_up() moves the first waiter to the run queue.
LEMMA SemaUpPlace ==
    ASSUME TypeInv, ThreadInv, PlaceInv, Move, BirthKept, NEW s \in SemaIds, SemaUp(s)
    PROVE  PlaceInv' /\ RunnersStay
<1>1. CASE sema_waiters[s] = <<>>
  BY <1>1, SameListsPlace DEF SemaUp, SameLists
<1>2. CASE sema_waiters[s] # <<>>
  <2> DEFINE w == Head(sema_waiters[s])
  <2>1. /\ sema_waiters[s] \in Seq(Threads) /\ sema_waiters \in [SemaIds -> Seq(Threads)]
        /\ ready_list \in Seq(Threads) /\ status \in [Threads -> Statuses]
        /\ idle_thread \in {NULL, Idle} /\ Idle \in Threads /\ at[Idle] \in IdleLabels
    BY SchedAssumption DEF TypeInv, TypeOK, SchedTypeOK, BootInv
  <2>2. w \in Threads /\ \A t : InList(t, sema_waiters[s]) <=> InList(t, Tail(sema_waiters[s])) \/ t = w
    BY <1>2, <2>1, InListTail
  <2>3. /\ sema_waiters' = [sema_waiters EXCEPT ![s] = Tail(sema_waiters[s])]
        /\ status' = [status EXCEPT ![w] = "READY"] /\ ready_list' = Append(ready_list, w)
        /\ UNCHANGED <<current, idle_thread, destruction_req>>
    BY <1>2 DEF SemaUp, Unblock
  <2> HIDE DEF w
  <2>4. status[w] = "BLOCKED" /\ w # Idle
    BY <2>1, <2>2 DEF ThreadInv, WaitInv, Waiting, IdleLabels
  <2>5. \A t : InList(t, ready_list') <=> InList(t, ready_list) \/ t = w
    BY <2>1, <2>2, <2>3, InListAppend
  <2>6. \A t \in Threads : status'[t] = IF t = w THEN "READY" ELSE status[t]
    BY <2>1, <2>2, <2>3
  <2>7. \A r \in SemaIds : \A t \in Threads \ {w} : InList(t, sema_waiters[r]) => InList(t, sema_waiters'[r])
    BY <2>1, <2>2, <2>3
  <2>8. w # NULL
    BY <2>2, SchedAssumption
  <2>9. ASSUME NEW t \in Threads, status'[t] = "BLOCKED", t # idle_thread
        PROVE  \/ \E p \in Threads : Creates(p)' /\ peer'[p] = t
               \/ \E r \in SemaIds : InList(t, sema_waiters'[r])
    BY <2>3, <2>6, <2>7, <2>9, CreatorsKept DEF PlaceInv
  <2> QED BY <2>1, <2>3, <2>4, <2>5, <2>6, <2>8, <2>9 DEF PlaceInv, RunnersStay
<1> QED BY <1>1, <1>2

\* thread_create() initialises a thread, which its creator refers to.
LEMMA ThreadCreatePlace ==
    ASSUME TypeInv, ThreadInv, PlaceInv, Move, NEW n \in Threads, ThreadCreate(n)
    PROVE  PlaceInv' /\ RunnersStay
<1> USE SchedAssumption, SynchAssumption, KernelAssumption
<1>1. /\ current \in Threads /\ status \in [Threads -> Statuses] /\ at \in [Threads -> Labels]
      /\ obj \in [Threads -> Objects \cup {NULL}] /\ peer \in [Threads -> Threads \cup {NULL}]
  BY DEF TypeInv, TypeOK, SchedTypeOK
<1>2. status[n] = "FREE" /\ n # current /\ at[current] = "client"
  BY <1>1 DEF ThreadCreate, AtClient, ThreadInv, ListInv
<1>3. /\ \A t \in Threads : status'[t] = IF t = n THEN "BLOCKED" ELSE status[t]
      /\ UNCHANGED <<ready_list, current, idle_thread, destruction_req, sema_waiters>>
  BY <1>1 DEF ThreadCreate, synchVars, semaVars
<1>4. Creates(current)' /\ peer'[current] = n
  BY <1>1, <1>2 DEF ThreadCreate, Creates, BirthLabel
<1>5. \A p \in Threads : Creates(p) => Creates(p)' /\ peer'[p] = peer[p]
  BY <1>2, CreatorsKept DEF Creates, BirthLabel
<1> QED BY <1>1, <1>2, <1>3, <1>4, <1>5 DEF PlaceInv, RunnersStay

\* thread_create() makes the new thread ready.
LEMMA CreateUnblockPlace ==
    ASSUME TypeInv, ThreadInv, PlaceInv, Move, CreateUnblock
    PROVE  PlaceInv' /\ RunnersStay
<1> DEFINE n == peer[current]
<1>1. /\ current \in Threads /\ ready_list \in Seq(Threads) /\ status \in [Threads -> Statuses]
      /\ idle_thread \in {NULL, Idle} /\ Idle \in Threads /\ at[Idle] \in IdleLabels
  BY SchedAssumption DEF TypeInv, TypeOK, SchedTypeOK, BootInv
<1>2. at[current] = "unblock" /\ Creates(current)
  BY DEF CreateUnblock, Creates, BirthLabel
<1>3. n \in Threads /\ n # NULL
  BY <1>1, <1>2, SchedAssumption DEF TypeInv, PeerInv, NeedsPeer
<1>4. status[n] = "BLOCKED" /\ at[n] = "client"
  BY <1>1, <1>2 DEF ThreadInv, BirthInv
<1>5. /\ status' = [status EXCEPT ![n] = "READY"] /\ ready_list' = Append(ready_list, n)
      /\ UNCHANGED <<current, idle_thread, destruction_req, sema_waiters>>
  BY DEF CreateUnblock, Unblock, synchVars, semaVars
<1> HIDE DEF n
<1>6. \A t : InList(t, ready_list') <=> InList(t, ready_list) \/ t = n
  BY <1>1, <1>3, <1>5, InListAppend
<1>7. \A t \in Threads : status'[t] = IF t = n THEN "READY" ELSE status[t]
  BY <1>1, <1>3, <1>5
<1>8. n # Idle
  BY <1>1, <1>4 DEF IdleLabels
<1>9. ASSUME NEW t \in Threads, status'[t] = "BLOCKED", t # idle_thread
      PROVE  \/ \E p \in Threads : Creates(p)' /\ peer'[p] = t
             \/ \E r \in SemaIds : InList(t, sema_waiters'[r])
  <2>1. status[t] = "BLOCKED" /\ t # n
    BY <1>7, <1>9
  <2>2. \A p \in Threads : peer[p] = t => p # current
    BY <2>1 DEF n
  <2> QED BY <1>5, <1>9, <2>1, <2>2, CreatorsKept DEF PlaceInv
<1> QED BY <1>1, <1>3, <1>4, <1>5, <1>6, <1>7, <1>8, <1>9 DEF PlaceInv, RunnersStay

\* idle() sets idle_thread, out of the run queue.
LEMMA IdleInitPlace ==
    ASSUME TypeInv, ThreadInv, PlaceInv, Move, IdleInit
    PROVE  PlaceInv' /\ RunnersStay
<1>1. /\ current \in Threads /\ idle_thread \in {NULL, Idle} /\ current = Idle /\ Idle # NULL
      /\ idle_thread' = Idle /\ at[current] = "idle_init" /\ status[current] = "RUNNING"
      /\ UNCHANGED <<status, ready_list, current, destruction_req, sema_waiters>>
  BY SchedAssumption DEF TypeInv, TypeOK, SchedTypeOK, BootInv, IdleInit, IdleLabels, synchVars, semaVars,
     ThreadInv, ListInv
<1>2. ~InList(Idle, ready_list)
  BY <1>1 DEF ThreadInv, ListInv
<1>3. \A p \in Threads : Creates(p) => Creates(p)' /\ peer'[p] = peer[p]
  BY <1>1, CreatorsKept DEF Creates, BirthLabel
<1>4. \A t \in Threads : t # Idle => t # idle_thread
  BY <1>1, SchedAssumption
<1> QED BY <1>1, <1>2, <1>3, <1>4 DEF PlaceInv, RunnersStay

\* thread_block() of a thread that has entered the waiters of a semaphore,
\* or of the idle thread.
LEMMA BlockPlace ==
    ASSUME TypeInv, ThreadInv, PlaceInv, Move, BirthKept, Block,
           \A r \in SemaIds : \A t \in Threads : InList(t, sema_waiters[r]) => InList(t, sema_waiters'[r]),
           at[current] = "idle_block" \/ (at[current] \notin IdleLabels
                                          /\ \E r \in SemaIds : InList(current, sema_waiters'[r]))
    PROVE  PlaceInv' /\ RunnersStay
<1> DEFINE st == [status EXCEPT ![current] = "BLOCKED"]
<1>1. /\ current \in Threads /\ ready_list \in Seq(Threads) /\ destruction_req \in Seq(Threads)
      /\ st \in [Threads -> Statuses] /\ \A t \in Threads : st[t] = IF t = current THEN "BLOCKED" ELSE status[t]
      /\ idle_thread \in {NULL, Idle} /\ Idle # NULL /\ Idle \in Threads
  BY SchedAssumption DEF TypeInv, TypeOK, SchedTypeOK, Statuses
<1>2. Schedule(st, ready_list, destruction_req) /\ \A t \in Threads : status[t] = "RUNNING" <=> t = current
  BY DEF Block, ThreadInv, ListInv
<1>3. (ready_list # <<>> \/ idle_thread # NULL) /\ (at[current] = "idle_block" => current = idle_thread)
  <2>1. at[current] # "idle_init"
    BY DEF IdleLabels
  <2>2. at[current] = "idle_block" => current = Idle
    BY <1>1 DEF TypeInv, BootInv, IdleLabels
  <2> QED BY <1>1, <2>1, <2>2, InListEmpty DEF TypeInv, BootInv, IdleKept
<1> HIDE DEF st
<1>4. /\ \A t \in Threads : status'[t] = IF t = current' THEN "RUNNING" ELSE st[t]
      /\ \A t : InList(t, ready_list') => InList(t, ready_list)
      /\ \A t : InList(t, ready_list) => InList(t, ready_list') \/ t = current'
      /\ destruction_req' = destruction_req /\ idle_thread' = idle_thread
  BY <1>1, <1>2, <1>3, ScheduleNext
<1>5. ASSUME NEW t \in Threads, status'[t] = "BLOCKED", t # idle_thread
      PROVE  \/ \E p \in Threads : Creates(p)' /\ peer'[p] = t
             \/ \E r \in SemaIds : InList(t, sema_waiters'[r])
  <2>1. CASE t = current
    BY <1>3, <1>5, <2>1
  <2>2. CASE t # current
    <3>1. status[t] = "BLOCKED"
      BY <1>1, <1>4, <1>5, <2>2
    <3> QED BY <1>5, <3>1, CreatorsKept DEF PlaceInv
  <2> QED BY <2>1, <2>2
<1>6. PlaceInv'
  BY <1>1, <1>2, <1>4, <1>5 DEF PlaceInv
<1> QED BY <1>1, <1>4, <1>6 DEF RunnersStay

\* thread_yield() and thread_exit() free the pages of the threads that died
\* before.
LEMMA DoSchedulePlace ==
    ASSUME TypeInv, ThreadInv, PlaceInv, Move, BirthKept, UNCHANGED sema_waiters,
           NEW ns \in {"READY", "DYING"}, NEW rl \in Seq(Threads), DoSchedule(ns, rl),
           ns = "DYING" => current # Idle /\ rl = ready_list,
           ns = "READY" => rl = IF current = idle_thread THEN ready_list ELSE Append(ready_list, current)
    PROVE  PlaceInv' /\ RunnersStay
<1> DEFINE st == [t \in Threads |->
                 CASE t = current                -> ns
                   [] InList(t, destruction_req) -> "FREE"
                   [] OTHER                      -> status[t]]
<1>1. /\ current \in Threads /\ ready_list \in Seq(Threads)
      /\ st \in [Threads -> Statuses] /\ status \in [Threads -> Statuses]
      /\ idle_thread \in {NULL, Idle} /\ Idle # NULL /\ Idle \in Threads /\ <<>> \in Seq(Threads)
      /\ current # NULL
  BY SchedAssumption DEF TypeInv, TypeOK, SchedTypeOK, Statuses
<1>2. /\ \A t \in Threads : status[t] = "RUNNING" <=> t = current
      /\ \A t \in Threads : InList(t, destruction_req) => status[t] = "DYING"
      /\ \A t \in Threads : InList(t, ready_list) => status[t] = "READY"
  BY DEF ThreadInv, ListInv
<1>3. \A t \in Threads : st[t] = IF t = current THEN ns ELSE IF InList(t, destruction_req) THEN "FREE" ELSE status[t]
  BY <1>1, <1>2
<1>4. Schedule(st, rl, <<>>)
  BY DEF DoSchedule
<1>5. \A t : InList(t, rl) <=> InList(t, ready_list) \/ (t = current /\ ns = "READY" /\ current # idle_thread)
  <2>1. \A t : InList(t, Append(ready_list, current)) <=> InList(t, ready_list) \/ t = current
    BY <1>1, InListAppend
  <2>2. CASE ns = "READY" /\ current # idle_thread
    BY <2>1, <2>2
  <2>3. CASE ~(ns = "READY" /\ current # idle_thread)
    BY <2>3
  <2> QED BY <2>2, <2>3
<1>6. rl # <<>> \/ idle_thread # NULL
  <2>1. idle_thread = NULL => current = Idle \/ InList(Idle, ready_list)
    BY DEF TypeInv, BootInv, IdleKept
  <2>2. idle_thread = NULL => InList(Idle, rl)
    <3>1. ns = "DYING" => current # Idle
      OBVIOUS
    <3>2. idle_thread = NULL /\ ns # "READY" => InList(Idle, ready_list)
      BY <2>1, <3>1
    <3> QED BY <1>1, <1>5, <2>1, <3>2
  <2> QED BY <2>2, InListEmpty
<1> HIDE DEF st
<1>7. /\ \A t \in Threads : status'[t] = IF t = current' THEN "RUNNING" ELSE st[t]
      /\ \A t : InList(t, ready_list') => InList(t, rl)
      /\ \A t : InList(t, rl) => InList(t, ready_list') \/ t = current'
      /\ destruction_req' = IF current' # current /\ st[current] = "DYING" /\ current # Main
                            THEN Append(<<>>, current) ELSE <<>>
      /\ idle_thread' = idle_thread /\ (current' = idle_thread \/ InList(current', rl))
  BY <1>1, <1>4, <1>6, ScheduleNext
<1>8. \A t : InList(t, destruction_req') <=> t = current /\ current' # current /\ ns = "DYING" /\ current # Main
  <2>1. st[current] = "DYING" <=> ns = "DYING"
    BY <1>1, <1>3
  <2>2. \A t : InList(t, Append(<<>>, current)) <=> t = current
    BY <1>1, InListEmpty, InListAppend
  <2>3. CASE current' # current /\ ns = "DYING" /\ current # Main
    BY <1>7, <2>1, <2>2, <2>3
  <2>4. CASE ~(current' # current /\ ns = "DYING" /\ current # Main)
    BY <1>7, <2>1, <2>4, InListEmpty
  <2> QED BY <2>3, <2>4
<1>9. NoRepeat(destruction_req')
  BY <1>1, <1>7, NoRepeatEmpty, NoRepeatAppend, InListEmpty
<1>10. ns = "DYING" => current' # current
  BY <1>1, <1>2, <1>5, <1>7
<1>11. ASSUME NEW t \in Threads, status'[t] = "BLOCKED", t # idle_thread
       PROVE  \/ \E p \in Threads : Creates(p)' /\ peer'[p] = t
              \/ \E r \in SemaIds : InList(t, sema_waiters'[r])
  <2>1. status[t] = "BLOCKED"
    BY <1>3, <1>7, <1>11
  <2> QED BY <1>11, <2>1, CreatorsKept DEF PlaceInv
<1>12. \A t \in Threads : status'[t] = "DYING" /\ t # Main => InList(t, destruction_req')
  BY <1>3, <1>7, <1>8, <1>10 DEF PlaceInv
<1>13. \A t \in Threads : status'[t] = "READY" /\ t # idle_thread => InList(t, ready_list')
  BY <1>3, <1>5, <1>7 DEF PlaceInv
<1>14. idle_thread # NULL => ~InList(idle_thread, ready_list')
  BY <1>5, <1>7 DEF PlaceInv
<1>15. PlaceInv'
  BY <1>7, <1>8, <1>9, <1>11, <1>12, <1>13, <1>14 DEF PlaceInv
<1>16. RunnersStay
  BY <1>2, <1>3, <1>7 DEF RunnersStay
<1> QED BY <1>15, <1>16

\* Every kind of step keeps threads in their places.
LEMMA PlaceStep ==
    ASSUME TypeInv, ThreadInv, PlaceInv, Move, Kind PROVE PlaceInv' /\ RunnersStay
<1>1. /\ current \in Threads /\ ready_list \in Seq(Threads)
      /\ sema_waiters \in [SemaIds -> Seq(Threads)]
  BY DEF TypeInv, TypeOK, SchedTypeOK
<1>2. CASE QuietKind
  BY <1>2, SameListsPlace DEF QuietKind, SameSemas
<1>3. ASSUME NEW s \in SemaIds, TakeKind(s) PROVE PlaceInv' /\ RunnersStay
  BY <1>3, SameListsPlace DEF TakeKind, SemaTake, schedVars, SameLists
<1>4. ASSUME NEW s \in SemaIds, UpKind(s) PROVE PlaceInv' /\ RunnersStay
  BY <1>4, SemaUpPlace DEF UpKind
<1>5. ASSUME NEW s \in SemaIds, SleepKind(s) PROVE PlaceInv' /\ RunnersStay
  <2>1. sema_waiters' = [sema_waiters EXCEPT ![s] = Append(@, current)]
    BY <1>5 DEF SleepKind, SemaSleep
  <2>2. /\ \A r \in SemaIds : \A t \in Threads : InList(t, sema_waiters[r]) => InList(t, sema_waiters'[r])
        /\ InList(current, sema_waiters'[s])
    BY <1>1, <2>1, InListAppend
  <2> QED BY <1>5, <2>2, BlockPlace DEF SleepKind, SemaSleep
<1>6. CASE SwitchKind
  <2>1. CASE Block /\ at[current] = "idle_block"
    BY <1>6, <2>1, BlockPlace DEF SwitchKind, semaVars
  <2>2. CASE Yield
    <3> DEFINE rl == IF current = idle_thread THEN ready_list ELSE Append(ready_list, current)
    <3>1. rl \in Seq(Threads) /\ DoSchedule("READY", rl)
      BY <1>1, <2>2 DEF Yield
    <3> QED BY <1>6, <3>1, DoSchedulePlace DEF SwitchKind, semaVars
  <2>3. CASE DoSchedule("DYING", ready_list) /\ at[current] = "client"
    <3>1. current # Idle
      BY <1>1, <2>3 DEF TypeInv, BootInv, IdleLabels
    <3> QED BY <1>1, <1>6, <2>3, <3>1, DoSchedulePlace DEF SwitchKind, semaVars
  <2> QED BY <1>6, <2>1, <2>2, <2>3 DEF SwitchKind
<1> QED
  BY <1>2, <1>3, <1>4, <1>5, <1>6, IdleInitPlace, CreateUnblockPlace, ThreadCreatePlace DEF Kind

\* The kernel starts with every thread in its place.
LEMMA PlaceInit == Init => PlaceInv
<1> SUFFICES ASSUME Init PROVE PlaceInv
  OBVIOUS
<1>1. InList(Idle, ready_list)
  BY DEF Init, SchedInit, InList
<1> QED BY <1>1, InListEmpty, NoRepeatEmpty DEF Init, SchedInit, PlaceInv

----------------------------------------------------------------------------
(* No wakeup is lost. *)

\* The members of a list, with two more, are finitely many.
LEMMA FiniteMembers ==
    ASSUME NEW list \in Seq(Threads), NEW S, NEW x, NEW y, \A t \in S : t = x \/ t = y \/ InList(t, list)
    PROVE  IsFiniteSet(S)
<1> DEFINE n == Len(list)
           T == {t \in Threads : InList(t, list)}
           f == [i \in 1..n |-> list[i]]
<1>1. IsFiniteSet(1..n)
  BY FS_Interval
<1>2. f \in Surjection(1..n, T)
  <2>1. f \in [1..n -> T]
    BY DEF InList
  <2>2. \A t \in T : \E i \in 1..n : f[i] = t
    BY DEF InList
  <2> QED BY <2>1, <2>2 DEF Surjection
<1>3. IsFiniteSet(T)
  BY <1>1, <1>2, FS_Surjection
<1>4. IsFiniteSet((T \cup {x}) \cup {y})
  BY <1>3, FS_AddElement
<1>5. ASSUME NEW t \in S PROVE t \in (T \cup {x}) \cup {y}
  <2>1. InList(t, list) => t \in Threads
    BY DEF InList
  <2> QED BY <2>1
<1>6. S \subseteq (T \cup {x}) \cup {y}
  BY <1>5
<1> HIDE DEF T, f, n
<1> QED BY <1>4, <1>6, FS_Subset

\* The threads that are awake run or are in the run queue.
LEMMA AwakeFinite ==
    /\ TypeInv /\ ThreadInv /\ PlaceInv => \A s \in SemaIds : IsFiniteSet(Awake(s))
    /\ (TypeInv /\ ThreadInv /\ PlaceInv)' => \A s \in SemaIds : IsFiniteSet(Awake(s)')
<1>1. ASSUME TypeInv, ThreadInv, PlaceInv, NEW s \in SemaIds PROVE IsFiniteSet(Awake(s))
  <2>1. ready_list \in Seq(Threads) /\ idle_thread \in {NULL, Idle} /\ NULL \notin Threads
    BY <1>1, SchedAssumption DEF TypeInv, TypeOK, SchedTypeOK
  <2>2. \A t \in Awake(s) : t = current \/ t = Idle \/ InList(t, ready_list)
    BY <1>1, <2>1 DEF Awake, ThreadInv, ListInv, PlaceInv
  <2> QED BY <2>1, <2>2, FiniteMembers
<1>2. ASSUME TypeInv', ThreadInv', PlaceInv', NEW s \in SemaIds PROVE IsFiniteSet(Awake(s)')
  <2>1. ready_list' \in Seq(Threads) /\ idle_thread' \in {NULL, Idle} /\ NULL \notin Threads
    BY <1>2, SchedAssumption DEF TypeInv, TypeOK, SchedTypeOK
  <2>2. \A t \in Awake(s)' : t = current' \/ t = Idle \/ InList(t, ready_list')
    BY <1>2, <2>1 DEF Awake, ThreadInv, ListInv, PlaceInv
  <2> QED BY <2>1, <2>2, FiniteMembers
<1> QED BY <1>1, <1>2

\* The cardinalities of the threads that are awake before and after a step.
LEMMA AwakeCount ==
    ASSUME NEW A, NEW B, IsFiniteSet(A), IsFiniteSet(B), NEW v \in Nat, NEW w \in Nat, v <= Cardinality(A),
           \/ w = v /\ A \subseteq B
           \/ w = v - 1 /\ \E x : A \ {x} \subseteq B
           \/ w = v + 1 /\ A \subseteq B /\ \E x \in B : x \notin A
    PROVE  w <= Cardinality(B)
<1>1. Cardinality(A) \in Nat /\ Cardinality(B) \in Nat
  BY FS_CardinalityType
<1>2. CASE w = v /\ A \subseteq B
  <2>1. Cardinality(A) <= Cardinality(B)
    BY <1>2, FS_Subset
  <2> QED BY <1>1, <1>2, <2>1
<1>3. ASSUME NEW x, w = v - 1, A \ {x} \subseteq B PROVE w <= Cardinality(B)
  <2>1. Cardinality(A \ {x}) \in {Cardinality(A), Cardinality(A) - 1} /\ IsFiniteSet(A \ {x})
    BY FS_RemoveElement
  <2>2. Cardinality(A \ {x}) <= Cardinality(B)
    BY <1>3, FS_Subset
  <2> QED BY <1>1, <1>3, <2>1, <2>2
<1>4. ASSUME NEW x \in B, x \notin A, w = v + 1, A \subseteq B PROVE w <= Cardinality(B)
  <2>1. Cardinality(A \cup {x}) = Cardinality(A) + 1 /\ IsFiniteSet(A \cup {x})
    BY <1>4, FS_AddElement
  <2>2. Cardinality(A \cup {x}) <= Cardinality(B)
    BY <1>4, FS_Subset
  <2> QED BY <1>1, <1>4, <2>1, <2>2
<1> QED BY <1>2, <1>3, <1>4

\* A thread outside sema_down() sleeps on no semaphore.
LEMMA NoSleeper == ASSUME NEW t \in Threads, at[t] \notin DownLabels PROVE \A s \in SemaIds : ~Sleeper(t, s)
  BY SchedAssumption, SynchAssumption DEF Sleeper, WaitsOn, DownLabels, SemaIds, Objects

\* No thread but the current one falls asleep or gets out of sema_down().
LEMMA KindAsleep == ASSUME TypeInv, Kind PROVE AsleepKept
<1>1. current \in Threads /\ asleep \in [Threads -> BOOLEAN]
  BY DEF TypeInv, TypeOK, SchedTypeOK
<1>2. \A s \in SemaIds : TakeKind(s) \/ SleepKind(s) => AsleepKept
  BY <1>1 DEF TakeKind, SemaTake, SleepKind, SemaSleep, AsleepKept
<1>3. \A n \in Threads : ThreadCreate(n) => AsleepKept
  BY <1>1 DEF ThreadCreate, AsleepKept
<1>4. IdleInit \/ CreateUnblock => AsleepKept
  BY DEF IdleInit, CreateUnblock, AsleepKept
<1> QED BY <1>2, <1>3, <1>4 DEF Kind, QuietKind, SwitchKind, UpKind

\* What a step does to the waiters of semaphores.
LEMMA KindWaiters ==
    ASSUME TypeInv, Kind, NEW r \in SemaIds
    PROVE  \/ sema_waiters'[r] = sema_waiters[r]
           \/ UpKind(r) /\ sema_waiters[r] # <<>> /\ sema_waiters'[r] = Tail(sema_waiters[r])
           \/ SleepKind(r) /\ sema_waiters'[r] = Append(sema_waiters[r], current)
<1>1. sema_waiters \in [SemaIds -> Seq(Threads)]
  BY DEF TypeInv, TypeOK
<1>2. QuietKind \/ SwitchKind => sema_waiters'[r] = sema_waiters[r]
  BY DEF QuietKind, SameSemas, SwitchKind, semaVars
<1>3. IdleInit \/ CreateUnblock \/ (\E n \in Threads : ThreadCreate(n)) => sema_waiters'[r] = sema_waiters[r]
  BY DEF IdleInit, CreateUnblock, ThreadCreate, synchVars, semaVars
<1>4. ASSUME NEW s \in SemaIds, TakeKind(s) PROVE sema_waiters'[r] = sema_waiters[r]
  BY <1>4 DEF TakeKind, SemaTake
<1>5. ASSUME NEW s \in SemaIds, UpKind(s)
      PROVE  \/ sema_waiters'[r] = sema_waiters[r]
             \/ r = s /\ sema_waiters[r] # <<>> /\ sema_waiters'[r] = Tail(sema_waiters[r])
  BY <1>1, <1>5 DEF UpKind, SemaUp
<1>6. ASSUME NEW s \in SemaIds, SleepKind(s)
      PROVE  \/ sema_waiters'[r] = sema_waiters[r]
             \/ r = s /\ sema_waiters'[r] = Append(sema_waiters[r], current)
  BY <1>1, <1>6 DEF SleepKind, SemaSleep
<1> QED BY <1>2, <1>3, <1>4, <1>5, <1>6 DEF Kind

\* The waiters of a semaphore stay asleep.
LEMMA AsleepNext == ASSUME TypeInv, ThreadInv, AsleepInv, Kind PROVE AsleepInv'
<1> SUFFICES ASSUME NEW r \in SemaIds, NEW t \in Threads, InList(t, sema_waiters'[r]) PROVE asleep'[t]
  BY DEF AsleepInv
<1>1. /\ sema_waiters[r] \in Seq(Threads) /\ current \in Threads /\ asleep \in [Threads -> BOOLEAN]
  BY DEF TypeInv, TypeOK, SchedTypeOK
<1>2. InList(t, sema_waiters[r]) \/ (t = current /\ SleepKind(r))
  BY <1>1, KindWaiters, InListTail, InListAppend
<1>3. CASE InList(t, sema_waiters[r])
  <2>1. status[t] = "BLOCKED" /\ t # current /\ asleep[t]
    BY <1>1, <1>3 DEF ThreadInv, WaitInv, ListInv, AsleepInv
  <2> QED BY <2>1, KindAsleep DEF AsleepKept
<1>4. CASE t = current /\ SleepKind(r)
  BY <1>1, <1>4 DEF SleepKind, SemaSleep
<1> QED BY <1>2, <1>3, <1>4

\* Threads that are awake stay so, but for the one that takes a unit or
\* goes back to sleep.
LEMMA AwakeStays ==
    ASSUME TypeInv, ThreadInv, Move, Kind, RunnersStay, NEW r \in SemaIds
    PROVE  /\ Awake(r) \ {current} \subseteq Awake(r)'
           /\ ~TakeKind(r) /\ ~SleepKind(r) => Awake(r) \subseteq Awake(r)'
<1>1. current \in Threads /\ status \in [Threads -> Statuses] /\ status[current] = "RUNNING"
  BY DEF TypeInv, TypeOK, SchedTypeOK, ThreadInv, ListInv
<1>2. ASSUME NEW t \in Awake(r), t # current PROVE t \in Awake(r)'
  <2>1. t \in Threads /\ Sleeper(t, r) /\ status[t] \in {"READY", "RUNNING"}
    BY <1>2 DEF Awake
  <2>2. at'[t] = at[t] /\ obj'[t] = obj[t] /\ asleep'[t] = asleep[t]
    BY <1>2, <2>1, KindAsleep DEF Move, Kept, AsleepKept
  <2>3. Sleeper(t, r)'
    BY <2>1, <2>2 DEF Sleeper, WaitsOn
  <2> QED BY <1>2, <2>1, <2>3 DEF Awake, RunnersStay
<1>3. ASSUME current \in Awake(r), ~TakeKind(r), ~SleepKind(r)
      PROVE  \A t \in Threads : t = current => t \in Awake(r)'
  <2>1. Sleeper(current, r) /\ at[current] \in DownLabels
    BY <1>1, <1>3, NoSleeper DEF Awake
  <2>2. ASSUME SleeperKept, \A t \in Threads : t = current => status'[t] \in {"READY", "RUNNING"}
        PROVE  \A t \in Threads : t = current => t \in Awake(r)'
    BY <2>1, <2>2 DEF SleeperKept, Awake
  <2>3. CASE QuietKind
    BY <1>1, <2>2, <2>3 DEF QuietKind, SameLists
  <2>4. ASSUME NEW s \in SemaIds, UpKind(s) PROVE \A t \in Threads : t = current => t \in Awake(r)'
    <3>1. \A t \in Threads : t = current => status'[t] \in {"READY", "RUNNING"}
      BY <1>1, <2>4 DEF UpKind, SemaUp, Unblock
    <3> QED BY <2>2, <2>4, <3>1 DEF UpKind
  <2>5. CASE SwitchKind
    <3>1. Yield
      BY <2>1, <2>5 DEF SwitchKind, DownLabels
    <3>2. \A t \in Threads : t = current => status'[t] \in {"READY", "RUNNING"}
      <4> DEFINE st == [t \in Threads |->
                           CASE t = current                -> "READY"
                             [] InList(t, destruction_req) -> "FREE"
                             [] OTHER                      -> status[t]]
      <4>1. PICK next : status' = [st EXCEPT ![next] = "RUNNING"]
        BY <3>1 DEF Yield, DoSchedule, Schedule
      <4>2. ~InList(current, destruction_req)
        BY <1>1 DEF ThreadInv, ListInv
      <4>3. DOMAIN st = Threads /\ st[current] = "READY"
        BY <1>1, <4>2
      <4> HIDE DEF st
      <4> QED BY <4>1, <4>3
    <3> QED BY <2>2, <2>5, <3>2 DEF SwitchKind
  <2>6. \A s \in SemaIds : ~TakeKind(s) /\ ~SleepKind(s)
    BY <1>3, <2>1 DEF TakeKind, SleepKind, SleeperOf
  <2>7. ~IdleInit /\ ~CreateUnblock /\ \A n \in Threads : ~ThreadCreate(n)
    BY <2>1 DEF DownLabels, IdleInit, CreateUnblock, ThreadCreate, AtClient
  <2> QED BY <2>3, <2>4, <2>5, <2>6, <2>7 DEF Kind
<1> QED BY <1>1, <1>2, <1>3

\* What a step does to a semaphore with waiters.
LEMMA SemaStep ==
    ASSUME TypeInv, ThreadInv, AsleepInv, Move, Kind, RunnersStay, NEW r \in SemaIds, sema_waiters'[r] # <<>>
    PROVE  \/ sema_value'[r] = 0
           \/ /\ sema_waiters[r] # <<>>
              /\ \/ sema_value'[r] = sema_value[r] /\ Awake(r) \subseteq Awake(r)'
                 \/ sema_value'[r] = sema_value[r] - 1 /\ \E x : Awake(r) \ {x} \subseteq Awake(r)'
                 \/ /\ sema_value'[r] = sema_value[r] + 1 /\ Awake(r) \subseteq Awake(r)'
                    /\ \E w \in Awake(r)' : w \notin Awake(r)
<1>1. /\ current \in Threads /\ sema_waiters \in [SemaIds -> Seq(Threads)] /\ sema_value \in [SemaIds -> Nat]
      /\ status \in [Threads -> Statuses] /\ status[current] = "RUNNING"
  BY DEF TypeInv, TypeOK, SchedTypeOK, ThreadInv, ListInv
<1>2. CASE SleepKind(r)
  BY <1>1, <1>2 DEF SleepKind, SemaSleep
<1>3. CASE TakeKind(r)
  <2>1. sema_value'[r] = sema_value[r] - 1 /\ sema_waiters[r] # <<>>
    BY <1>1, <1>3 DEF TakeKind, SemaTake
  <2> QED BY <2>1, AwakeStays
<1>4. CASE UpKind(r)
  <2>1. sema_value'[r] = sema_value[r] + 1
    BY <1>1, <1>4 DEF UpKind, SemaUp
  <2>2. ~TakeKind(r) /\ ~SleepKind(r)
    BY <1>1, <2>1 DEF TakeKind, SemaTake, SleepKind, SemaSleep
  <2>3. sema_waiters[r] # <<>> /\ Unblock(Head(sema_waiters[r]))
    BY <1>4 DEF UpKind, SemaUp
  <2>4. PICK w \in Threads : w = Head(sema_waiters[r]) /\ InList(w, sema_waiters[r])
    BY <1>1, <2>3, InListTail
  <2>5. status'[w] = "READY"
    BY <1>1, <2>3, <2>4 DEF Unblock
  <2>6. status[w] = "BLOCKED" /\ Waiting(w, r) /\ asleep[w] /\ w # current
    BY <1>1, <2>4 DEF ThreadInv, WaitInv, AsleepInv
  <2>7. at'[w] = at[w] /\ obj'[w] = obj[w] /\ asleep'[w]
    BY <2>4, <2>6, KindAsleep DEF Move, Kept, AsleepKept
  <2>8. Sleeper(w, r)'
    BY <2>6, <2>7 DEF Sleeper, WaitsOn, Waiting
  <2>9. w \in Awake(r)' /\ w \notin Awake(r)
    BY <2>4, <2>5, <2>6, <2>8 DEF Awake
  <2> QED BY <2>1, <2>2, <2>3, <2>9, AwakeStays
<1>5. CASE ~SleepKind(r) /\ ~TakeKind(r) /\ ~UpKind(r)
  <2>1. sema_waiters[r] # <<>>
    BY <1>5, KindWaiters
  <2>2. sema_value'[r] = sema_value[r]
    <3>1. QuietKind \/ SwitchKind \/ IdleInit \/ CreateUnblock \/ (\E n \in Threads : ThreadCreate(n))
             => sema_value'[r] = sema_value[r]
      BY DEF QuietKind, SameSemas, SwitchKind, IdleInit, CreateUnblock, ThreadCreate, synchVars, semaVars
    <3>2. ASSUME NEW s \in SemaIds, s # r, TakeKind(s) \/ UpKind(s) \/ SleepKind(s)
          PROVE  sema_value'[r] = sema_value[r]
      BY <1>1, <3>2 DEF TakeKind, SemaTake, UpKind, SemaUp, SleepKind, SemaSleep
    <3> QED BY <1>5, <3>1, <3>2 DEF Kind
  <2> QED BY <1>5, <2>1, <2>2, AwakeStays
<1> QED BY <1>2, <1>3, <1>4, <1>5

\* Places and sleepers.
SleepInv == PlaceInv /\ AsleepInv /\ NoLostWakeup

\* The kernel starts with nobody asleep.
LEMMA SleepInit == Init => SleepInv
<1> SUFFICES ASSUME Init PROVE SleepInv
  OBVIOUS
<1>1. \A s \in SemaIds : sema_waiters[s] = <<>>
  BY DEF Init
<1> QED BY <1>1, PlaceInit, InListEmpty DEF SleepInv, AsleepInv, NoLostWakeup

\* Every step of the kernel preserves the places and the sleepers.
LEMMA SleepNext == KernelInv /\ SleepInv /\ KernelInv' /\ [Next]_vars => SleepInv'
<1> SUFFICES ASSUME KernelInv, SleepInv, KernelInv', [Next]_vars PROVE SleepInv'
  OBVIOUS
<1>1. Move /\ Kind
  BY MoveNext, KindNext DEF KernelInv
<1>2. PlaceInv' /\ RunnersStay
  BY <1>1, PlaceStep DEF KernelInv, SleepInv
<1>3. AsleepInv'
  BY <1>1, AsleepNext DEF KernelInv, SleepInv
<1>4. NoLostWakeup'
  <2> SUFFICES ASSUME NEW r \in SemaIds, sema_waiters'[r] # <<>> PROVE sema_value'[r] <= Cardinality(Awake(r)')
    BY DEF NoLostWakeup, Awake
  <2>1. IsFiniteSet(Awake(r)) /\ IsFiniteSet(Awake(r)')
    BY <1>2, AwakeFinite DEF KernelInv, SleepInv
  <2>2. sema_value[r] \in Nat /\ sema_value'[r] \in Nat /\ Cardinality(Awake(r)') \in Nat
    BY <2>1, FS_CardinalityType DEF KernelInv, TypeInv, TypeOK
  <2>3. sema_waiters[r] # <<>> => sema_value[r] <= Cardinality(Awake(r))
    BY DEF SleepInv, NoLostWakeup, Awake
  <2> HIDE DEF Awake
  <2>4. CASE sema_value'[r] = 0
    BY <2>2, <2>4
  <2>5. CASE sema_value'[r] # 0
    BY <1>1, <1>2, <2>1, <2>2, <2>3, <2>5, SemaStep, AwakeCount DEF KernelInv, SleepInv
  <2> QED BY <2>4, <2>5
<1> QED BY <1>2, <1>3, <1>4 DEF SleepInv

\* It is an invariant of the kernel.
LEMMA SleepInvariantHolds == Spec => []SleepInv
  BY SleepInit, SleepNext, KernelInvariantHolds, PTL DEF Spec

(***************************************************************************)
(* No wakeup is lost, in the sense of both halves of WakeupsKept: a unit   *)
(* that sema_up() gives while threads sleep has a thread that is on its    *)
(* way to take it, and a signal of a condition variable is in one place    *)
(* until its waiter has taken it.                                          *)
(***************************************************************************)
THEOREM WakeupsAreKept == Spec => []WakeupsKept
<1>1. KernelInv /\ SleepInv => WakeupsKept
  BY SignalsCounted DEF WakeupsKept, SleepInv
<1> QED BY <1>1, KernelInvariantHolds, SleepInvariantHolds, PTL

----------------------------------------------------------------------------
(* No two threads have the same tid. *)

\* A step that leaves next_tid and the tids alone, and takes the current
\* thread into no statement of allocate_tid() that has read or set next_tid.
TidStill ==
    /\ UNCHANGED tidVars
    /\ \A p \in Threads : p = current =>
          (Numbered(p)' => Numbered(p)) /\ (at'[p] = "tid_store" => at[p] = "tid_store")

\* A step to another statement.
LEMMA GotoTid ==
    ASSUME TypeInv, UNCHANGED tidVars, NEW label, NEW o, Goto(label, o),
           label \in {"tid_done", "unblock"} \/ (label = "release" /\ o = TidLock) => Numbered(current),
           label # "tid_store"
    PROVE  TidStill
<1>1. current \in Threads /\ at \in [Threads -> Labels] /\ obj \in [Threads -> Objects \cup {NULL}]
  BY DEF TypeInv, TypeOK, SchedTypeOK
<1>2. at'[current] = label /\ obj'[current] = o
  BY <1>1 DEF Goto
<1> QED BY <1>2 DEF TidStill, Numbered

\* Every other step is one of thread_create() or allocate_tid().
LEMMA TidKind ==
    ASSUME TypeInv, StmtInv, [Next]_vars
    PROVE  TidStill \/ TidLoad \/ TidStore \/ CreateUnblock \/ \E n \in Threads : ThreadCreate(n)
<1> USE SynchAssumption, KernelAssumption
<1>1. ASSUME UNCHANGED tidVars, UNCHANGED <<at, obj>> PROVE TidStill
  BY <1>1 DEF TidStill, Numbered
<1>2. ASSUME UNCHANGED tidVars, EndHlt, obj' = obj PROVE TidStill
  <2>1. \A t \in Threads : at'[t] = IF t = current /\ at[t] = "idle_hlt" THEN "idle_block" ELSE at[t]
    BY <1>2 DEF EndHlt, TypeInv, TypeOK
  <2> QED BY <1>2, <2>1 DEF TidStill, Numbered
<1>3. ASSUME UNCHANGED tidVars, NEW label, NEW o, Goto(label, o),
             label \notin {"tid_store", "tid_done", "unblock"}, label = "release" => o # TidLock
      PROVE  TidStill
  BY <1>3, GotoTid
<1>4. CASE ClientStep
  <2>1. ASSUME NEW l \in ClientLocks, UNCHANGED tidVars, LockTryAcquire(l) \/ LockRelease(l) PROVE TidStill
    BY <1>3, <2>1 DEF LockTryAcquire, LockRelease, ClientLocks
  <2>2. ASSUME NEW c \in Conds, UNCHANGED tidVars, CondWait(c) \/ CondSignal(c) \/ CondBroadcast(c) PROVE TidStill
    BY <1>3, <2>2 DEF CondWait, CondSignal, CondBroadcast
  <2>3. ASSUME NEW s \in ClientSemas, UNCHANGED tidVars, SemaTryDown(s) \/ ClientSemaUp(s) PROVE TidStill
    BY <1>1, <2>3 DEF SemaTryDown, ClientSemaUp
  <2>4. UNCHANGED tidVars /\ (IntrDisable \/ IntrEnable) => TidStill
    BY <1>1 DEF IntrDisable, IntrEnable
  <2>5. ThreadExit \/ ThreadYield => TidStill
    BY <1>1 DEF ThreadExit, ThreadYield, frameVars
  <2> QED BY <1>4, <2>1, <2>2, <2>3, <2>4, <2>5 DEF ClientStep
<1>5. CASE DownStep
  <2>1. ASSUME NEW s, UNCHANGED tidVars, SemaDown(s) \/ LockAcquire(s) \/ CondDown(s) PROVE TidStill
    BY <1>3, <2>1 DEF SemaDown, LockAcquire, CondDown
  <2> QED BY <1>5, <2>1 DEF DownStep
<1>6. CASE KernelStep
  <2>1. ASSUME NEW l \in Locks, UNCHANGED tidVars, SetHolder(l, AfterHold(l)) PROVE TidStill
    BY <1>3, <2>1 DEF SetHolder, AfterHold
  <2>2. ASSUME NEW l \in Locks, UNCHANGED tidVars, ReleaseUp(l, AfterRelease(l)) PROVE TidStill
    <3>1. AfterRelease(l) = "unblock" => Numbered(current)
      BY <2>2 DEF ReleaseUp, AfterRelease, Numbered
    <3> QED BY <2>2, <3>1, GotoTid DEF ReleaseUp, AfterRelease
  <2>3. ASSUME NEW c \in Conds, UNCHANGED tidVars,
               \/ CondRelease(c) \/ CondReleaseUp(c) \/ BroadcastPop(c) \/ BroadcastUp(c) \/ BroadcastEnd(c)
        PROVE  TidStill
    BY <1>3, <2>3 DEF CondRelease, CondReleaseUp, BroadcastPop, BroadcastUp, BroadcastEnd
  <2>4. UNCHANGED tidVars /\ (CondSignalUp \/ IdleBlock \/ IdleHlt) => TidStill
    BY <1>3 DEF CondSignalUp, IdleBlock, IdleHlt
  <2>5. StartEnable \/ IdleInit \/ IdleUp => TidStill
    BY <1>3 DEF StartEnable, IdleInit, IdleUp, tidVars
  <2>6. TidRelease => TidStill
    <3> SUFFICES ASSUME TidRelease PROVE TidStill
      OBVIOUS
    <3>1. Numbered(current)
      BY DEF TidRelease, Numbered
    <3> QED BY <3>1, GotoTid DEF TidRelease
  <2> QED BY <1>6, <2>1, <2>2, <2>3, <2>4, <2>5, <2>6 DEF KernelStep
<1>7. CASE TimerInterrupt \/ \E s \in ClientSemas : DeviceInterrupt(s)
  BY <1>2, <1>7 DEF TimerInterrupt, TimerTick, DeviceInterrupt
<1>8. CASE UNCHANGED vars
  BY <1>1, <1>8 DEF vars, frameVars
<1> QED BY <1>4, <1>5, <1>6, <1>7, <1>8 DEF Next

\* A page stays free until thread_create() gets it.
FreeKept == \A t \in Threads : status[t] = "FREE" => status'[t] = "FREE"

\* Every step but that one.
LEMMA KindFree ==
    ASSUME TypeInv, ThreadInv, Kind, ~\E n \in Threads : ThreadCreate(n)
    PROVE  FreeKept
<1>1. /\ current \in Threads /\ status \in [Threads -> Statuses] /\ status[current] = "RUNNING"
      /\ ready_list \in Seq(Threads) /\ sema_waiters \in [SemaIds -> Seq(Threads)]
      /\ status[Idle] # "FREE"
  BY DEF TypeInv, TypeOK, SchedTypeOK, ThreadInv, ListInv, BootInv, IdleKept
<1>2. ASSUME NEW w \in Threads, status[w] = "BLOCKED", Unblock(w) PROVE FreeKept
  BY <1>1, <1>2 DEF Unblock, FreeKept
<1>3. UNCHANGED status => FreeKept
  BY DEF FreeKept
<1>4. CASE QuietKind \/ IdleInit \/ \E s \in SemaIds : TakeKind(s)
  BY <1>3, <1>4 DEF QuietKind, SameLists, IdleInit, TakeKind, SemaTake, schedVars
<1>5. ASSUME NEW s \in SemaIds, UpKind(s) PROVE FreeKept
  <2>1. CASE sema_waiters[s] = <<>>
    BY <1>3, <1>5, <2>1 DEF UpKind, SemaUp
  <2>2. CASE sema_waiters[s] # <<>>
    <3>1. PICK w \in Threads : w = Head(sema_waiters[s]) /\ InList(w, sema_waiters[s])
      BY <1>1, <2>2, InListTail
    <3> QED BY <1>2, <1>5, <2>2, <3>1 DEF UpKind, SemaUp, ThreadInv, WaitInv
  <2> QED BY <2>1, <2>2
<1>6. CASE CreateUnblock
  <2>1. peer[current] \in Threads /\ status[peer[current]] = "BLOCKED"
    BY <1>1, <1>6 DEF CreateUnblock, TypeInv, PeerInv, NeedsPeer, ThreadInv, BirthInv, Creates, BirthLabel
  <2> QED BY <1>2, <1>6, <2>1 DEF CreateUnblock
<1>7. ASSUME \A t \in Threads \ {current} : Switched(t) PROVE FreeKept
  BY <1>1, <1>7 DEF Switched, FreeKept
<1>8. CASE Block /\ at[current] # "idle_init"
  BY <1>7, <1>8, BlockLists
<1>9. ASSUME NEW s \in SemaIds, SleepKind(s) PROVE FreeKept
  BY <1>8, <1>9 DEF SleepKind, SemaSleep, IdleLabels
<1>10. CASE Yield
  <2> DEFINE rl == IF current = idle_thread THEN ready_list ELSE Append(ready_list, current)
  <2>1. rl \in Seq(Threads) /\ DoSchedule("READY", rl)
    BY <1>1, <1>10 DEF Yield
  <2>2. idle_thread \in {NULL, Idle} /\ (idle_thread = NULL => current = Idle \/ InList(Idle, ready_list))
    BY DEF TypeInv, TypeOK, SchedTypeOK, BootInv, IdleKept
  <2>3. \A t : InList(t, rl) <=> InList(t, ready_list) \/ (t = current /\ current # idle_thread)
    BY <1>1, InListAppend
  <2>4. ~InList(current, ready_list) /\ NoRepeat(ready_list)
        /\ \A t \in Threads : InList(t, ready_list) => status[t] = "READY"
    BY <1>1 DEF ThreadInv, ListInv
  <2>5. NoRepeat(rl)
    BY <1>1, <2>4, NoRepeatAppend
  <2> HIDE DEF rl
  <2>6. rl # <<>> \/ idle_thread # NULL
    BY <1>1, <2>2, <2>3, InListEmpty, SchedAssumption
  <2>7. \A t \in Threads \ {current} : Switched(t)
    BY <2>1, <2>3, <2>4, <2>5, <2>6, DoScheduleLists
  <2> QED BY <1>7, <2>7
<1>11. CASE DoSchedule("DYING", ready_list) /\ at[current] = "client"
  <2>1. current # Idle /\ at[current] \notin IdleLabels
    BY <1>1, <1>11 DEF TypeInv, BootInv, IdleLabels
  <2>2. ready_list # <<>> \/ idle_thread # NULL
    BY <2>1, InListEmpty DEF TypeInv, BootInv, IdleKept
  <2>3. \A t \in Threads \ {current} : Switched(t)
    BY <1>1, <1>11, <2>1, <2>2, DoScheduleLists DEF ThreadInv, ListInv
  <2> QED BY <1>7, <2>3
<1>12. CASE SwitchKind
  BY <1>8, <1>10, <1>11, <1>12 DEF SwitchKind
<1> QED BY <1>4, <1>5, <1>6, <1>9, <1>12 DEF Kind

\* The kernel starts with the tids 1 and 2.
LEMMA TidInit == Init => TidInv
<1> SUFFICES ASSUME Init PROVE TidInv
  OBVIOUS
<1>1. \A t \in Threads : Live(t) => t \in {Main, Idle}
  BY SchedAssumption DEF Init, SchedInit, Live
<1>2. tid[Main] = 1 /\ tid[Idle] = 2 /\ next_tid = 3
  BY SchedAssumption DEF Init
<1>3. \A p \in Threads : at[p] \in {"start", "idle_init", "client"}
  BY DEF Init
<1> QED BY <1>1, <1>2, <1>3 DEF TidInv, Numbered

\* tid_lock makes next_tid++ atomic, so that each thread_create() has a
\* number of its own from there to the store in the new thread.
LEMMA TidNext == ASSUME KernelInv, TidInv, [Next]_vars PROVE TidInv'
<1> USE SchedAssumption, SynchAssumption, KernelAssumption
<1>1. /\ current \in Threads /\ at \in [Threads -> Labels] /\ peer \in [Threads -> Threads \cup {NULL}]
      /\ obj \in [Threads -> Objects \cup {NULL}] /\ status \in [Threads -> Statuses]
      /\ next_tid \in Nat /\ tid \in [Threads -> Nat] /\ reg \in [Threads -> Nat]
      /\ status[current] = "RUNNING"
  BY DEF KernelInv, TypeInv, TypeOK, SchedTypeOK, ThreadInv, ListInv
<1>2. Move /\ Kind
  BY MoveNext, KindNext DEF KernelInv
<1>3. \A p \in Threads \ {current} :
          /\ Numbered(p)' => Numbered(p)
          /\ at'[p] = "tid_store" => at[p] = "tid_store"
  BY <1>2 DEF Move, Kept, Numbered
<1>4. (~\E n \in Threads : ThreadCreate(n)) => FreeKept
  BY <1>2, KindFree DEF KernelInv
<1>5. \A p \in Threads : at[p] \in {"tid_load", "tid_store", "tid_done"} => lock_holder[TidLock] = p
  BY DEF KernelInv, StmtInv, StmtOK
<1>6. ASSUME FreeKept, TidStill PROVE TidInv'
  <2>1. \A t \in Threads : Live(t)' => Live(t) /\ tid'[t] = tid[t]
    BY <1>6 DEF FreeKept, TidStill, tidVars, Live
  <2>2. \A p \in Threads : (Numbered(p)' => Numbered(p)) /\ (at'[p] = "tid_store" => at[p] = "tid_store")
    BY <1>3, <1>6 DEF TidStill
  <2> QED BY <1>6, <2>1, <2>2 DEF TidInv, TidStill, tidVars
<1>7. ASSUME FreeKept, TidLoad PROVE TidInv'
  <2>1. /\ UNCHANGED <<next_tid, tid>> /\ reg' = [reg EXCEPT ![current] = next_tid]
        /\ at'[current] = "tid_store"
    BY <1>1, <1>7 DEF TidLoad, Goto
  <2>2. \A t \in Threads : Live(t)' => Live(t) /\ tid'[t] = tid[t]
    BY <1>7, <2>1 DEF FreeKept, Live
  <2>3. \A p \in Threads : Numbered(p)' => Numbered(p) /\ reg'[p] = reg[p]
    BY <1>1, <1>3, <2>1 DEF Numbered
  <2>4. \A p \in Threads : at'[p] = "tid_store" => reg'[p] = next_tid'
    BY <1>1, <1>3, <2>1 DEF TidInv
  <2> QED BY <2>1, <2>2, <2>3, <2>4 DEF TidInv
<1>8. ASSUME FreeKept, TidStore PROVE TidInv'
  <2>1. /\ UNCHANGED <<tid, reg>> /\ next_tid' = reg[current] + 1
        /\ at[current] = "tid_store" /\ at'[current] = "tid_done"
    BY <1>1, <1>8 DEF TidStore, Goto
  <2>2. reg[current] = next_tid /\ next_tid' = next_tid + 1
    BY <1>1, <2>1 DEF TidInv
  <2>3. \A t \in Threads : Live(t)' => Live(t) /\ tid'[t] = tid[t]
    BY <1>8, <2>1 DEF FreeKept, Live
  <2>4. \A p \in Threads : at'[p] # "tid_store"
    BY <1>1, <1>3, <1>5, <2>1
  <2>5. \A p \in Threads : Numbered(p)' => p = current \/ Numbered(p)
    BY <1>3
  <2>6. \A t \in Threads : Live(t)' => tid'[t] < next_tid
    BY <2>3 DEF TidInv
  <2>7. ASSUME NEW p \in Threads, Numbered(p)'
        PROVE  /\ reg'[p] < next_tid'
               /\ \A t \in Threads : Live(t)' => tid'[t] # reg'[p]
               /\ \A q \in Threads : Numbered(q)' /\ reg'[q] = reg'[p] => q = p
    BY <1>1, <2>1, <2>2, <2>3, <2>5, <2>6, <2>7 DEF TidInv
  <2>8. \A t \in Threads : Live(t)' => tid'[t] < next_tid'
    BY <1>1, <2>1, <2>2, <2>6
  <2>9. \A t, u \in Threads : Live(t)' /\ Live(u)' /\ tid'[t] = tid'[u] => t = u
    BY <2>3 DEF TidInv
  <2> QED BY <1>1, <2>2, <2>4, <2>7, <2>8, <2>9 DEF TidInv
<1>9. ASSUME FreeKept, CreateUnblock PROVE TidInv'
  <2> DEFINE n == peer[current]
             r == reg[current]
  <2>1. /\ n \in Threads /\ n # current /\ status[n] = "BLOCKED"
    BY <1>1, <1>9 DEF KernelInv, CreateUnblock, TypeInv, PeerInv, NeedsPeer, ThreadInv, BirthInv, Creates, BirthLabel
  <2>2. /\ tid' = [tid EXCEPT ![n] = r] /\ reg' = [reg EXCEPT ![current] = 0] /\ next_tid' = next_tid
        /\ at[current] = "unblock" /\ at'[current] = "client"
    BY <1>1, <1>9 DEF CreateUnblock, Goto
  <2>3. Numbered(current) /\ r \in Nat
    BY <1>1, <2>2 DEF Numbered
  <2> HIDE DEF n, r
  <2>4. \A t \in Threads : Live(t)' => t = n \/ (Live(t) /\ tid'[t] = tid[t])
    BY <1>1, <1>9, <2>1, <2>2 DEF FreeKept, Live
  <2>5. tid'[n] = r /\ r < next_tid /\ \A t \in Threads : Live(t) => tid[t] # r
    BY <1>1, <2>1, <2>2, <2>3 DEF TidInv, r
  <2>6. \A p \in Threads : Numbered(p)' => p # current /\ Numbered(p) /\ reg'[p] = reg[p] /\ reg[p] # r
    BY <1>1, <1>3, <2>2, <2>3 DEF TidInv, r, Numbered
  <2>7. \A p \in Threads : at'[p] = "tid_store" => p # current /\ at[p] = "tid_store" /\ reg'[p] = reg[p]
    BY <1>1, <1>3, <2>2
  <2>8. ASSUME NEW p \in Threads, Numbered(p)'
        PROVE  /\ reg'[p] < next_tid'
               /\ \A t \in Threads : Live(t)' => tid'[t] # reg'[p]
               /\ \A q \in Threads : Numbered(q)' /\ reg'[q] = reg'[p] => q = p
    BY <2>2, <2>4, <2>5, <2>6, <2>8 DEF TidInv
  <2>9. \A t, u \in Threads : Live(t)' /\ Live(u)' /\ tid'[t] = tid'[u] => t = u
    BY <2>4, <2>5 DEF TidInv
  <2>10. \A t \in Threads : Live(t)' => tid'[t] < next_tid'
    BY <2>2, <2>4, <2>5 DEF TidInv
  <2> QED BY <2>2, <2>7, <2>8, <2>9, <2>10 DEF TidInv
<1>10. ASSUME NEW n \in Threads, ThreadCreate(n) PROVE TidInv'
  <2>1. /\ status[n] = "FREE" /\ n # current
        /\ tid' = [tid EXCEPT ![n] = 0] /\ reg' = [reg EXCEPT ![n] = 0] /\ next_tid' = next_tid
        /\ status' = [status EXCEPT ![n] = "BLOCKED"]
        /\ at'[n] = "client" /\ at'[current] = "acquire"
    BY <1>1, <1>10 DEF ThreadCreate
  <2>2. \A t \in Threads : Live(t)' => Live(t) /\ tid'[t] = tid[t]
    BY <1>1, <2>1 DEF Live
  <2>3. \A p \in Threads : Numbered(p)' \/ at'[p] = "tid_store" => p \notin {n, current}
    BY <2>1 DEF Numbered
  <2>4. \A p \in Threads : (Numbered(p)' => Numbered(p) /\ reg'[p] = reg[p])
                        /\ (at'[p] = "tid_store" => at[p] = "tid_store" /\ reg'[p] = reg[p])
    BY <1>1, <1>3, <2>1, <2>3
  <2> QED BY <2>1, <2>2, <2>4 DEF TidInv
<1> QED BY <1>4, <1>6, <1>7, <1>8, <1>9, <1>10, TidKind DEF KernelInv, ThreadCreate, CreateUnblock, TidLoad, TidStore

\* It is an invariant of the kernel.
LEMMA TidInvariantHolds == Spec => []TidInv
<1>1. KernelInv /\ TidInv /\ [Next]_vars => TidInv'
  BY TidNext
<1> QED BY <1>1, TidInit, KernelInvariantHolds, PTL DEF Spec

----------------------------------------------------------------------------
(* The threads that something refers to are alive and in their places. *)

\* A thread is in the loop of one sema_down() at most.
LEMMA WaitingOne ==
    ASSUME NEW t \in Threads, NEW s \in SemaIds, Waiting(t, s)
    PROVE  WaitsOn(t) = s /\ \A r \in SemaIds : Waiting(t, r) => r = s
  BY DEF Waiting, WaitsOn

\* The lists of the scheduler and of semaphores, and the status of a thread.
LEMMA SlotsOf ==
    ASSUME KernelInv, PlaceInv, NEW t \in Threads
    PROVE  /\ status[t] # "BLOCKED" \/ at[t] \notin DownLabels => WaitSlots(t) = {}
           /\ \A s \in SemaIds : InList(t, sema_waiters[s]) => \E i : WaitSlots(t) = {<<s, i>>} /\ WaitsOn(t) = s
           /\ IF InList(t, ready_list) THEN \E i : Positions(t, ready_list) = {i}
                                       ELSE Positions(t, ready_list) = {}
           /\ IF InList(t, destruction_req) THEN \E i : Positions(t, destruction_req) = {i}
                                            ELSE Positions(t, destruction_req) = {}
<1>1. /\ ready_list \in Seq(Threads) /\ destruction_req \in Seq(Threads)
      /\ NoRepeat(ready_list) /\ NoRepeat(destruction_req)
      /\ \A s \in SemaIds : sema_waiters[s] \in Seq(Threads) /\ NoRepeat(sema_waiters[s])
  BY DEF KernelInv, TypeInv, TypeOK, SchedTypeOK, ThreadInv, ListInv, WaitInv, PlaceInv
<1>2. \A s \in SemaIds : InList(t, sema_waiters[s]) => status[t] = "BLOCKED" /\ Waiting(t, s)
  BY DEF KernelInv, ThreadInv, WaitInv
<1>3. ASSUME status[t] # "BLOCKED" \/ at[t] \notin DownLabels PROVE WaitSlots(t) = {}
  <2>1. \A s \in SemaIds : ~InList(t, sema_waiters[s])
    BY <1>2, <1>3 DEF Waiting, DownLabels
  <2>2. \A s \in SemaIds : Positions(t, sema_waiters[s]) = {}
    BY <1>1, <2>1, PositionsOf
  <2> QED BY <2>2 DEF WaitSlots
<1>4. ASSUME NEW s \in SemaIds, InList(t, sema_waiters[s])
      PROVE  \E i : WaitSlots(t) = {<<s, i>>} /\ WaitsOn(t) = s
  <2>1. WaitsOn(t) = s /\ \A r \in SemaIds : Waiting(t, r) => r = s
    BY <1>2, <1>4, WaitingOne
  <2>2. \A r \in SemaIds \ {s} : Positions(t, sema_waiters[r]) = {}
    BY <1>1, <1>2, <2>1, PositionsOf
  <2>3. PICK i : Positions(t, sema_waiters[s]) = {i}
    BY <1>1, <1>4, PositionsOf
  <2>4. \A r \in SemaIds : {r} \X Positions(t, sema_waiters[r]) = IF r = s THEN {<<s, i>>} ELSE {}
    BY <2>2, <2>3
  <2>5. WaitSlots(t) = {<<s, i>>}
    BY <2>4 DEF WaitSlots
  <2> QED BY <2>1, <2>5
<1> QED BY <1>1, <1>3, <1>4, PositionsOf

\* The elem of a thread is in the list of its status.
LEMMA ListsAreOne == ASSUME KernelInv, PlaceInv PROVE OneList
<1>1. /\ NULL \notin Threads /\ Main \in Threads
      /\ idle_thread \in {NULL, Idle} /\ Idle \in Threads /\ at[Idle] \in IdleLabels
      /\ \A t \in Threads : InList(t, ready_list) => status[t] = "READY"
      /\ \A t \in Threads : InList(t, destruction_req) => status[t] = "DYING"
      /\ \A t \in Threads : status[t] \in Statuses
  BY SchedAssumption DEF KernelInv, TypeInv, TypeOK, SchedTypeOK, BootInv, ThreadInv, ListInv
<1>2. ASSUME NEW t \in Threads, status[t] = "READY", t # idle_thread PROVE IsSingletonOf(Slots(t), "ready_list")
  <2>1. WaitSlots(t) = {} /\ Positions(t, destruction_req) = {} /\ \E i : Positions(t, ready_list) = {i}
    BY <1>1, <1>2, SlotsOf DEF PlaceInv
  <2>2. PICK i : Slots(t) = {<<"ready_list", i>>}
    BY <2>1 DEF Slots
  <2> QED BY <2>2 DEF IsSingletonOf
<1>3. ASSUME NEW t \in Threads, status[t] = "BLOCKED", t # idle_thread, ~Newborn(t)
      PROVE  IsSingletonOf(Slots(t), WaitsOn(t))
  <2>1. \A p \in Threads : ~(Creates(p) /\ peer[p] = t)
    BY <1>3 DEF Newborn, Creates, BirthLabel
  <2>2. PICK s \in SemaIds : InList(t, sema_waiters[s])
    BY <1>3, <2>1 DEF PlaceInv
  <2>3. PICK i : WaitSlots(t) = {<<s, i>>} /\ WaitsOn(t) = s
    BY <2>2, SlotsOf
  <2>4. Positions(t, destruction_req) = {} /\ Positions(t, ready_list) = {}
    BY <1>1, <1>3, SlotsOf
  <2>5. Slots(t) = {<<s, i>>}
    BY <2>3, <2>4 DEF Slots
  <2> QED BY <2>3, <2>5 DEF IsSingletonOf
<1>4. ASSUME NEW t \in Threads, status[t] = "DYING", t # Main PROVE IsSingletonOf(Slots(t), "destruction_req")
  <2>1. WaitSlots(t) = {} /\ Positions(t, ready_list) = {} /\ \E i : Positions(t, destruction_req) = {i}
    BY <1>1, <1>4, SlotsOf DEF PlaceInv
  <2>2. PICK i : Slots(t) = {<<"destruction_req", i>>}
    BY <2>1 DEF Slots
  <2> QED BY <2>2 DEF IsSingletonOf
<1>5. ASSUME NEW t \in Threads,
             ~(status[t] = "READY" /\ t # idle_thread),
             ~(status[t] = "BLOCKED" /\ t # idle_thread /\ ~Newborn(t)),
             ~(status[t] = "DYING" /\ t # Main)
      PROVE  Slots(t) = {}
  <2>1. ~InList(t, ready_list) /\ ~InList(t, destruction_req)
    BY <1>1, <1>5 DEF PlaceInv
  <2>2. status[t] # "BLOCKED" \/ at[t] \notin DownLabels
    <3>1. Newborn(t) => at[t] = "client"
      BY NewbornCreates DEF KernelInv, ThreadInv, BirthInv
    <3> QED BY <1>1, <1>5, <3>1 DEF IdleLabels, DownLabels
  <2>3. WaitSlots(t) = {} /\ Positions(t, ready_list) = {} /\ Positions(t, destruction_req) = {}
    BY <2>1, <2>2, SlotsOf
  <2> QED BY <2>3 DEF Slots
<1> QED BY <1>2, <1>3, <1>4, <1>5 DEF OneList

\* Nothing refers to a page whose thread has died.
LEMMA NothingDangles == ASSUME KernelInv PROVE NoDanglingThread
<1>1. \A t \in Threads : status[t] = "RUNNING" <=> t = current
  BY DEF KernelInv, ThreadInv, ListInv
<1>2. ASSUME NEW t \in Threads, status[t] \in {"FREE", "DYING"}
      PROVE  /\ \A l \in Locks : ~Owns(t, l)
             /\ \A c \in Conds : ~InList(t, cond_waiters[c])
             /\ \A p \in Threads : peer[p] # t
             /\ t # idle_thread
  <2>1. at[t] = "client" /\ \A l \in Locks : lock_holder[l] # t
    BY <1>2 DEF KernelInv, ThreadInv, DeadInv, Dead
  <2>2. ~Listed(t) /\ ~Signalled(t)
    BY <2>1 DEF KernelInv, CondInv, WaiterOK, CondLabels
  <2>3. ASSUME NEW p \in Threads, peer[p] = t PROVE FALSE
    <3>1. NeedsPeer(at[p], obj[p])
      BY <2>3, SchedAssumption DEF KernelInv, StmtInv, StmtOK
    <3>2. ~Creates(p)
      BY <1>2, <2>3 DEF KernelInv, ThreadInv, BirthInv
    <3>3. Signals(p, t)
      BY <2>3, <3>1, <3>2 DEF NeedsPeer, Creates, BirthLabel, Signals, SignalLabels
    <3> QED BY <2>2, <3>3 DEF Signalled
  <2>4. t # idle_thread
    BY <1>2, SchedAssumption DEF KernelInv, TypeInv, TypeOK, SchedTypeOK, BootInv, IdleKept
  <2> QED BY <2>1, <2>2, <2>3, <2>4 DEF Owns, Listed
<1> QED BY <1>1, <1>2 DEF NoDanglingThread

(***************************************************************************)
(* Each thread that a list, a lock, a creator or the CPU refers to is      *)
(* alive, its elem is in the one list that its status calls for, and no    *)
(* two of them have the same tid.                                          *)
(***************************************************************************)
THEOREM ThreadsAreSound == Spec => []ThreadsSound
<1>1. KernelInv /\ SleepInv /\ TidInv => ThreadsSound
  BY ListsAreOne, NothingDangles DEF ThreadsSound, SleepInv, TidInv, UniqueTids, Live
<1> QED BY <1>1, KernelInvariantHolds, SleepInvariantHolds, TidInvariantHolds, PTL

===============================================================================

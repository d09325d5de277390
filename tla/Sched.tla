---------------------------- MODULE Sched ----------------------------
(***************************************************************************)
(* The scheduler of the Pintos kernel (threads/thread.c): the states of    *)
(* threads, the run queue, the choice of the next thread and the deferred  *)
(* destruction of dead threads.  The operators below are the bodies of the *)
(* functions of thread.c that run with interrupts off, hence in one step;  *)
(* Synch and Kernel build the steps of threads and interrupts from them.   *)
(*                                                                         *)
(* A thread is the page that holds its struct thread and its stack: its    *)
(* status is "FREE" while the page belongs to the page allocator.          *)
(***************************************************************************)
EXTENDS Naturals, Sequences

CONSTANTS
    Threads,      \* pages that can hold a struct thread
    Main,         \* the page of initial_thread, which runs init.c:main()
    Idle,         \* the page thread_start() gets for the idle thread
    NULL,
    TIME_SLICE    \* ticks before a thread is preempted

ASSUME SchedAssumption ==
    /\ Main \in Threads /\ Idle \in Threads /\ Main # Idle
    /\ NULL \notin Threads
    /\ TIME_SLICE \in Nat \ {0}

VARIABLES
    status,           \* status of each page, "FREE" when it holds no thread
    ready_list,       \* threads that are ready to run, in order
    current,          \* running_thread(): whose stack the CPU is on
    idle_thread,      \* NULL until the idle thread has first run
    destruction_req,  \* dead threads whose page is still to be freed
    thread_ticks      \* timer ticks since the last switch

schedVars == <<status, ready_list, current, idle_thread, destruction_req,
               thread_ticks>>

Statuses == {"FREE", "BLOCKED", "READY", "RUNNING", "DYING"}

InList(t, list) == \E i \in 1..Len(list) : list[i] = t

(***************************************************************************)
(* Main has just created the idle thread from thread_start().              *)
(***************************************************************************)
SchedInit ==
    /\ status = [t \in Threads |-> CASE t = Main -> "RUNNING"
                                     [] t = Idle -> "READY"
                                     [] OTHER    -> "FREE"]
    /\ ready_list = <<Idle>>
    /\ current = Main
    /\ idle_thread = NULL
    /\ destruction_req = <<>>
    /\ thread_ticks = 0

\* The next thread to run when the run queue is rl.
NextThreadToRun(rl) == IF rl = <<>> THEN idle_thread ELSE Head(rl)

(***************************************************************************)
(* schedule(): switches to the next thread.  The caller has set the status *)
(* of the current thread (st), and changed the run queue (rl) and the      *)
(* destruction requests (dr).                                              *)
(***************************************************************************)
Schedule(st, rl, dr) ==
    LET next == NextThreadToRun(rl) IN
    /\ status' = [st EXCEPT ![next] = "RUNNING"]
    /\ ready_list' = IF rl = <<>> THEN rl ELSE Tail(rl)
    /\ current' = next
    /\ thread_ticks' = 0
    /\ destruction_req' =
          IF next # current /\ st[current] = "DYING" /\ current # Main
          THEN Append(dr, current) ELSE dr
    /\ UNCHANGED idle_thread

\* Faulty: thread_exit() gives its own page back at once.
BadDoSchedule(new_status, rl) ==
    Schedule([t \in Threads |->
                 CASE t = current /\ new_status = "DYING" -> "FREE"
                   [] t = current                          -> new_status
                   [] OTHER                                -> status[t]],
             rl, <<>>)

\* do_schedule(): frees the pages of the threads that died before this
\* switch, then schedules.
DoSchedule(new_status, rl) ==
    Schedule([t \in Threads |->
                 CASE t = current                -> new_status
                   [] InList(t, destruction_req) -> "FREE"
                   [] OTHER                      -> status[t]],
             rl, <<>>)

\* Faulty: the status is left RUNNING.
BadBlock == Schedule(status, ready_list, destruction_req)

\* thread_block(): goes to schedule() without freeing anything.
Block == Schedule([status EXCEPT ![current] = "BLOCKED"], ready_list,
                  destruction_req)

\* thread_unblock(t): makes t ready and does not preempt the caller.
Unblock(t) ==
    /\ status' = [status EXCEPT ![t] = "READY"]
    /\ ready_list' = Append(ready_list, t)

\* Faulty: list_push_front() in place of list_push_back().
BadYieldFront == DoSchedule("READY", IF current = idle_thread THEN ready_list
                                     ELSE <<current>> \o ready_list)

\* thread_yield(): the idle thread never enters the run queue.
Yield == DoSchedule("READY", IF current = idle_thread THEN ready_list
                             ELSE Append(ready_list, current))

\* thread_tick(), with the yield that intr_handler() makes on return.
Tick ==
    IF thread_ticks + 1 >= TIME_SLICE THEN Yield
    ELSE /\ thread_ticks' = thread_ticks + 1
         /\ UNCHANGED <<status, ready_list, current, idle_thread,
                        destruction_req>>

----------------------------------------------------------------------------
SchedTypeOK ==
    /\ status \in [Threads -> Statuses]
    /\ ready_list \in Seq(Threads)
    /\ current \in Threads
    /\ idle_thread \in {NULL, Idle}
    /\ destruction_req \in Seq(Threads)
    /\ thread_ticks \in 0..(TIME_SLICE - 1)

\* Every thread that is ready to run gets the CPU: the run queue is served
\* in order and a thread is preempted after TIME_SLICE ticks.
ReadyRuns ==
    \A t \in Threads : status[t] = "READY" /\ t # idle_thread ~> current = t
============================================================================

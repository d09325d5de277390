---------------------------- MODULE Disk ----------------------------
(***************************************************************************)
(* The ATA disk driver of the Pintos kernel (devices/disk.c): one channel, *)
(* the devices on it, and the threads that call disk_read and disk_write,  *)
(* from disk_init() on, which Main runs alone up to identify_ata_device()  *)
(* of the last device.  The statements of threads, beside those of Synch:  *)
(*                                                                         *)
(*   select    select_sector() or select_device_wait()                     *)
(*   issue     issue_pio_command(), about to expect an interrupt           *)
(*   command   issue_pio_command(), about to write the command register    *)
(*   complete  sema_down (&c->completion_wait)                             *)
(*   wait_drq  wait_while_busy()                                           *)
(*   input, output                                                         *)
(*             input_sector(), output_sector()                             *)
(*   count     d->read_cnt++ or d->write_cnt++                             *)
(*   finish    lock_release (&c->lock)                                     *)
(*                                                                         *)
(* The devices answer every command, in time: the timeouts of disk.c and   *)
(* the panics of disk_read and disk_write on a device that fails are left  *)
(* out.                                                                    *)
(***************************************************************************)
EXTENDS Synch, FiniteSets, SequencesExt

CONSTANTS
    ChLock, Completion,        \* c->lock and c->completion_wait
    Devices, Sectors, Values,  \* values stand for the contents of a sector
    MaxCalls                   \* bound on the calls of disk_read, disk_write

ASSUME DiskAssumption ==
    /\ Locks = {ChLock} /\ Semas = {Completion} /\ Conds = {}
    /\ IsFiniteSet(Threads)
    /\ IsFiniteSet(Devices) /\ Devices # {} /\ Sectors # {}
    /\ NULL \notin Values
    /\ MaxCalls \in Nat

VARIABLES
    expecting_interrupt,
    req,              \* the call each thread is in, or NULL
    buffer,           \* the sector each reader has got
    rw_cnt,           \* d->read_cnt and d->write_cnt
    identified,       \* devices disk_init() has identified, in order
    selected, sec_no, \* device and sector registers of the channel
    drive,            \* what each device is doing
    latched,          \* the sector register when it got its command
    data,             \* its buffer
    media,            \* the sectors of each device
    irq               \* the interrupt controller holds an interrupt

driverVars == <<expecting_interrupt, req, buffer, rw_cnt, identified>>
deviceVars == <<selected, sec_no, drive, latched, data, media, irq>>
frameVars == <<at, obj, peer, level, asleep>>
vars == <<schedVars, synchVars, frameVars, driverVars, deviceVars>>

DiskLabels == {"select", "issue", "command", "complete", "wait_drq", "input",
               "output", "count", "finish"}
Labels == SynchLabels \cup DiskLabels

\* disk.c has no condition variable: LockOf has no value to give.
NoConds == [c \in Conds |-> ChLock]

\* A device is busy (BSY) or asks for data (DRQ), for one of the commands.
Busy == {"identifying", "reading", "accepting", "writing"}
DataRequest == {"id_ready", "data_ready", "wants_data"}
Drives == {"idle"} \cup Busy \cup DataRequest

IdentifyCall(d) == [op |-> "identify", dev |-> d,
                    sec |-> CHOOSE s \in Sectors : TRUE, val |-> NULL]

Calls == [op : {"read"}, dev : Devices, sec : Sectors, val : {NULL}]
         \cup [op : {"write"}, dev : Devices, sec : Sectors, val : Values]
Requests == Calls \cup {IdentifyCall(d) : d \in Devices}

ASSUME NoCallAssumption == NULL \notin Requests

Op == req[current].op

Calling == {t \in Threads : req[t] # NULL /\ req[t].op # "identify"}
CallCount == Cardinality(Calling)
             + FoldSet(LAMBDA d, n : n + rw_cnt[d].read + rw_cnt[d].write,
                       0, Devices)

----------------------------------------------------------------------------
\* disk_read() or disk_write() up to lock_acquire().
StartCall(c) ==
    /\ AtClient("disk") /\ identified = Devices
    /\ CallCount < MaxCalls
    /\ req' = [req EXCEPT ![current] = c]
    /\ Goto("acquire", ChLock)
    /\ UNCHANGED <<schedVars, synchVars, peer, level, asleep, deviceVars,
                   expecting_interrupt, buffer, rw_cnt, identified>>

\* select_device_wait(d), which waits for idle devices, and the registers
\* that select_sector() writes.
Select ==
    /\ at[current] = "select"
    /\ drive[selected] = "idle" /\ drive[req[current].dev] = "idle"
    /\ selected' = req[current].dev
    /\ sec_no' = req[current].sec
    /\ Goto("issue", NULL)
    /\ UNCHANGED <<schedVars, synchVars, peer, level, asleep, driverVars,
                   drive, latched, data, media, irq>>

\* Faulty: the interrupt is not expected.
BadIssue ==
    /\ at[current] = "issue"
    /\ Goto("command", NULL)
    /\ UNCHANGED <<schedVars, synchVars, peer, level, asleep, deviceVars,
                   driverVars>>

\* issue_pio_command(): c->expecting_interrupt = true
Issue ==
    /\ at[current] = "issue"
    /\ expecting_interrupt' = TRUE
    /\ Goto("command", NULL)
    /\ UNCHANGED <<schedVars, synchVars, peer, level, asleep, deviceVars,
                   req, buffer, rw_cnt, identified>>

\* issue_pio_command(): the device gets the command.
Command ==
    /\ at[current] = "command"
    /\ drive' = [drive EXCEPT ![selected] =
                    CASE Op = "identify" -> "identifying"
                      [] Op = "read"     -> "reading"
                      [] Op = "write"    -> "accepting"]
    /\ latched' = [latched EXCEPT ![selected] = sec_no]
    /\ Goto(IF Op = "write" THEN "wait_drq" ELSE "complete", NULL)
    /\ UNCHANGED <<schedVars, synchVars, peer, level, asleep, driverVars,
                   selected, sec_no, data, media, irq>>

\* Faulty: a read polls the device only.
BadComplete ==
    /\ at[current] = "complete"
    /\ \/ /\ Op # "write"
          /\ Goto("wait_drq", NULL)
          /\ UNCHANGED <<schedVars, semaVars, asleep>>
       \/ Op = "write" /\ SemaTake(Completion) /\ Goto("count", NULL)
       \/ Op = "write" /\ SemaSleep(Completion) /\ Goto("complete", NULL)
    /\ UNCHANGED <<lock_holder, cond_waiters, peer, level, driverVars,
                   deviceVars>>

\* sema_down (&c->completion_wait)
Complete ==
    /\ at[current] = "complete"
    /\ \/ /\ SemaTake(Completion)
          /\ Goto(IF Op = "write" THEN "count" ELSE "wait_drq", NULL)
       \/ SemaSleep(Completion) /\ Goto("complete", NULL)
    /\ UNCHANGED <<lock_holder, cond_waiters, peer, level, driverVars,
                   deviceVars>>

\* wait_while_busy(): timer_msleep() yields while the device is busy.
PollBusy ==
    /\ at[current] = "wait_drq" /\ drive[selected] \in Busy
    /\ Yield
    /\ UNCHANGED <<synchVars, frameVars, driverVars, deviceVars>>

\* wait_while_busy(), when it returns true.
DataRequested ==
    /\ at[current] = "wait_drq" /\ drive[selected] \in DataRequest
    /\ Goto(IF Op = "write" THEN "output" ELSE "input", NULL)
    /\ UNCHANGED <<schedVars, synchVars, peer, level, asleep, driverVars,
                   deviceVars>>

\* input_sector() of disk_read().
InputSector ==
    /\ at[current] = "input" /\ Op = "read"
    /\ buffer' = [buffer EXCEPT ![current] = data[selected]]
    /\ drive' = [drive EXCEPT ![selected] = "idle"]
    /\ Goto("count", NULL)
    /\ UNCHANGED <<schedVars, synchVars, peer, level, asleep, selected,
                   sec_no, latched, data, media, irq, expecting_interrupt,
                   req, rw_cnt, identified>>

\* input_sector() of identify_ata_device(); disk_init() goes on to the next
\* device, or returns.
InputIdentity ==
    /\ at[current] = "input" /\ Op = "identify"
    /\ drive' = [drive EXCEPT ![selected] = "idle"]
    /\ identified' = identified \cup {req[current].dev}
    /\ \/ /\ identified' = Devices
          /\ req' = [req EXCEPT ![current] = NULL]
          /\ Goto("client", NULL)
       \/ /\ \E d \in Devices \ identified' :
                req' = [req EXCEPT ![current] = IdentifyCall(d)]
          /\ Goto("select", NULL)
    /\ UNCHANGED <<schedVars, synchVars, peer, level, asleep, selected,
                   sec_no, latched, data, media, irq, expecting_interrupt,
                   buffer, rw_cnt>>

\* Faulty: disk_write() returns before the disk has acknowledged the data.
BadOutputSector ==
    /\ at[current] = "output"
    /\ data' = [data EXCEPT ![selected] = req[current].val]
    /\ drive' = [drive EXCEPT ![selected] = "writing"]
    /\ Goto("count", NULL)
    /\ UNCHANGED <<schedVars, synchVars, peer, level, asleep, driverVars,
                   selected, sec_no, latched, media, irq>>

\* output_sector()
OutputSector ==
    /\ at[current] = "output"
    /\ data' = [data EXCEPT ![selected] = req[current].val]
    /\ drive' = [drive EXCEPT ![selected] = "writing"]
    /\ Goto("complete", NULL)
    /\ UNCHANGED <<schedVars, synchVars, peer, level, asleep, driverVars,
                   selected, sec_no, latched, media, irq>>

\* d->read_cnt++ or d->write_cnt++
CountCall ==
    /\ at[current] = "count"
    /\ rw_cnt' = [rw_cnt EXCEPT ![req[current].dev][Op] = @ + 1]
    /\ req' = [req EXCEPT ![current] = NULL]
    /\ buffer' = [buffer EXCEPT ![current] = NULL]
    /\ Goto("finish", NULL)
    /\ UNCHANGED <<schedVars, synchVars, peer, level, asleep, deviceVars,
                   expecting_interrupt, identified>>

\* lock_release (&c->lock), up to its sema_up().
FinishCall ==
    /\ at[current] = "finish"
    /\ ClearHolder(ChLock)
    /\ Goto("release", ChLock)
    /\ UNCHANGED <<driverVars, deviceVars>>

\* The steps of the channel's lock.
LockStep ==
    /\ \/ at[current] = "acquire" /\ LockAcquire(ChLock)
       \/ SetHolder(ChLock, "select")
       \/ ReleaseUp(ChLock, "client")
    /\ UNCHANGED <<driverVars, deviceVars>>

----------------------------------------------------------------------------
\* interrupt_handler()
DiskInterrupt ==
    /\ IntrOn /\ irq
    /\ irq' = FALSE
    /\ \/ expecting_interrupt /\ SemaUp(Completion)
       \/ ~expecting_interrupt /\ UNCHANGED <<schedVars, semaVars>>
    /\ EndHlt
    /\ UNCHANGED <<lock_holder, cond_waiters, obj, peer, level, asleep,
                   driverVars, selected, sec_no, drive, latched, data, media>>

\* A device has the answer to IDENTIFY DEVICE or READ SECTOR.
DeviceReads(d) ==
    /\ \/ drive[d] = "identifying" /\ UNCHANGED data
       \/ /\ drive[d] = "reading"
          /\ data' = [data EXCEPT ![d] = media[d][latched[d]]]
    /\ drive' = [drive EXCEPT ![d] = IF @ = "reading" THEN "data_ready"
                                     ELSE "id_ready"]
    /\ irq' = TRUE
    /\ UNCHANGED <<schedVars, synchVars, frameVars, driverVars, selected,
                   sec_no, latched, media>>

\* A device is ready for the data of WRITE SECTOR: no interrupt.
DeviceAccepts(d) ==
    /\ drive[d] = "accepting"
    /\ drive' = [drive EXCEPT ![d] = "wants_data"]
    /\ UNCHANGED <<schedVars, synchVars, frameVars, driverVars, selected,
                   sec_no, latched, data, media, irq>>

\* A device has written its sector.
DeviceWrites(d) ==
    /\ drive[d] = "writing"
    /\ media' = [media EXCEPT ![d][latched[d]] = data[d]]
    /\ drive' = [drive EXCEPT ![d] = "idle"]
    /\ irq' = TRUE
    /\ UNCHANGED <<schedVars, synchVars, frameVars, driverVars, selected,
                   sec_no, latched, data>>

----------------------------------------------------------------------------
(***************************************************************************)
(* Main is in disk_init(), about to identify its first device; the other   *)
(* threads are ready to run, and the idle thread has blocked in its loop.  *)
(***************************************************************************)
Init ==
    /\ status = [t \in Threads |-> CASE t = Main -> "RUNNING"
                                     [] t = Idle -> "BLOCKED"
                                     [] OTHER    -> "READY"]
    /\ ready_list = SetToSeq(Threads \ {Main, Idle})
    /\ current = Main
    /\ idle_thread = Idle
    /\ destruction_req = <<>>
    /\ thread_ticks = 0
    /\ sema_value = [s \in SemaIds |-> IF s = ChLock THEN 1 ELSE 0]
    /\ sema_waiters = [s \in SemaIds |-> <<>>]
    /\ lock_holder = [l \in Locks |-> NULL]
    /\ cond_waiters = [c \in Conds |-> <<>>]
    /\ at = [t \in Threads |-> CASE t = Main -> "select"
                                 [] t = Idle -> "idle_sti"
                                 [] OTHER    -> "client"]
    /\ obj = [t \in Threads |-> NULL]
    /\ peer = [t \in Threads |-> NULL]
    /\ level = [t \in Threads |-> "on"]
    /\ asleep = [t \in Threads |-> t = Idle]
    /\ expecting_interrupt = FALSE
    /\ \E d \in Devices :
          /\ req = [t \in Threads |-> IF t = Main THEN IdentifyCall(d) ELSE NULL]
          /\ selected = d
    /\ buffer = [t \in Threads |-> NULL]
    /\ rw_cnt = [d \in Devices |-> [op \in {"read", "write"} |-> 0]]
    /\ identified = {}
    /\ sec_no = CHOOSE s \in Sectors : TRUE
    /\ drive = [d \in Devices |-> "idle"]
    /\ latched = [d \in Devices |-> sec_no]
    /\ \E v \in Values :
          /\ media = [d \in Devices |-> [s \in Sectors |-> v]]
          /\ data = [d \in Devices |-> v]
    /\ irq = FALSE

\* The steps of calls that are under way.
DriverStep ==
    \/ LockStep
    \/ Select \/ Issue \/ Command \/ Complete \/ PollBusy \/ DataRequested
    \/ InputSector \/ InputIdentity \/ OutputSector \/ CountCall \/ FinishCall
    \/ (IdleBlock \/ IdleHlt) /\ UNCHANGED <<driverVars, deviceVars>>

DeviceStep ==
    \E d \in Devices : DeviceReads(d) \/ DeviceAccepts(d) \/ DeviceWrites(d)

TimerInterrupt == TimerTick /\ UNCHANGED <<driverVars, deviceVars>>

Next ==
    \/ \E c \in Calls : StartCall(c)
    \/ DriverStep
    \/ DeviceStep
    \/ DiskInterrupt
    \/ TimerInterrupt

Spec == Init /\ [][Next]_vars

(***************************************************************************)
(* A thread that runs again and again completes the statement it is at;    *)
(* timer interrupts come as long as interrupts are on; devices complete    *)
(* their commands, and their interrupts are delivered.                     *)
(***************************************************************************)
FairSpec ==
    /\ Spec
    /\ \A t \in Threads : SF_vars(current = t /\ DriverStep)
    /\ SF_vars(TimerInterrupt)
    /\ SF_vars(DiskInterrupt)
    /\ WF_vars(DeviceStep)

----------------------------------------------------------------------------
\* The threads that have yet to be told of the end of their command.
Awaiting == {t \in Threads : \/ at[t] = "complete"
                             \/ /\ at[t] \in {"wait_drq", "output"}
                                /\ req[t].op = "write"}

\* The devices that have yet to raise the interrupt of their command.
Working == {d \in Devices : drive[d] \in Busy \cup {"wants_data"}}

(***************************************************************************)
(* Each command has one completion: it is still with a device, or with the *)
(* interrupt controller, or in completion_wait, until the thread that      *)
(* issued the command takes it.  One command is under way at a time, and   *)
(* nothing is left over for the next one.                                  *)
(***************************************************************************)
OneCompletion ==
    /\ Cardinality(Awaiting) <= 1
    /\ sema_value[Completion] + Cardinality(Working) + (IF irq THEN 1 ELSE 0)
          = Cardinality(Awaiting)

\* wait_while_busy() finds that the device asks for data: disk_read() and
\* disk_write() do not panic.
NoPanic ==
    at[current] = "wait_drq" => drive[selected] # "idle"

\* The device, the interrupt and the thread agree on the command under way.
CommandsSound == OneCompletion /\ NoPanic

\* Every call of disk_read() and disk_write() returns.
CallsReturn == \A t \in Threads : req[t] # NULL ~> req[t] = NULL

----------------------------------------------------------------------------
(***************************************************************************)
(* The driver and its devices implement DiskStore: each call reads or      *)
(* writes its own sector once, in one piece, while it is under way.        *)
(***************************************************************************)
Served(t) ==
    /\ t \in Calling
    /\ \/ at[t] = "count"
       \/ /\ req[t].op = "read" /\ at[t] \in {"complete", "wait_drq", "input"}
          /\ drive[req[t].dev] = "data_ready"
       \/ /\ req[t].op = "write" /\ at[t] = "complete"
          /\ drive[req[t].dev] = "idle"

ResultOf(t) ==
    IF Served(t) /\ req[t].op = "read"
    THEN IF at[t] = "count" THEN buffer[t] ELSE data[req[t].dev]
    ELSE NULL

Abstract == INSTANCE DiskStore WITH
    NoCall <- NULL,
    store  <- media,
    call   <- [t \in Threads |-> IF t \in Calling THEN req[t] ELSE NULL],
    served <- [t \in Threads |-> Served(t)],
    result <- [t \in Threads |-> ResultOf(t)],
    count  <- rw_cnt

SectorsAreAtomic == Abstract!Spec
=====================================================================

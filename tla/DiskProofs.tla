----------------------------- MODULE DiskProofs -----------------------------
(* What the disk driver does right for all numbers of threads, devices,    *)
(* sectors, values and calls: one completion for each command, and the     *)
(* refinement of DiskStore.                                                *)
(*                                                                         *)
(* The inductive invariant follows the channel from hand to hand: one      *)
(* thread at most is between lock_acquire() and lock_release() (OneOwner,  *)
(* from the lock's semaphore, ChannelLocked), it has a request when it     *)
(* drives the device (RequestMade), and what it waits for, the registers,  *)
(* the device, the interrupt and completion_wait agree (CommandKnown); at  *)
(* any other moment all of them are at rest (NoneLeft).                    *)
EXTENDS Disk, TLAPS, FiniteSetTheorems, SequenceTheorems

\* Where a thread is outside of the driver.
Resting == {"client", "idle_block", "idle_sti", "idle_hlt"}

\* It has given a command to the device, and is not done with it.
Under == {"complete", "wait_drq", "input", "output"}

\* It is in disk_read(), disk_write() or disk_init(), and has its request.
Driving == {"select", "issue", "command", "count"} \cup Under

\* It has downed the lock's semaphore, or runs in disk_init().
Owning == Driving \cup {"hold", "finish", "release"}

\* The types of the variables.
DiskTypes ==
    /\ current \in Threads /\ idle_thread = Idle /\ ready_list \in Seq(Threads)
    /\ sema_value \in [SemaIds -> Nat]
    /\ sema_waiters \in [SemaIds -> Seq(Threads)]
    /\ at \in [Threads -> Resting \cup Owning \cup {"acquire"}]
    /\ req \in [Threads -> Requests \cup {NULL}]
    /\ buffer \in [Threads -> Values \cup {NULL}]
    /\ rw_cnt \in [Devices -> [{"read", "write"} -> Nat]]
    /\ identified \subseteq Devices
    /\ drive \in [Devices -> Drives] /\ selected \in Devices /\ sec_no \in Sectors
    /\ latched \in [Devices -> Sectors] /\ data \in [Devices -> Values]
    /\ media \in [Devices -> [Sectors -> Values]]

\* One thread at a time uses the channel.
OneOwner == \A t, u \in Threads : at[t] \in Owning /\ at[u] \in Owning => t = u

\* The lock's semaphore says so, once disk_init() has returned; until then
\* Main is alone.
ChannelLocked ==
    IF identified = Devices
    THEN \/ sema_value[ChLock] = 0
         \/ sema_value[ChLock] = 1 /\ \A t \in Threads : at[t] \notin Owning
    ELSE /\ sema_value[ChLock] = 1
         /\ \A t \in Threads \ {Main} : at[t] \in Resting
         /\ at[Main] \in {"select", "issue", "command"} \cup (Under \ {"output"})

\* A thread has a request as long as it needs it, to identify a device only
\* in disk_init().
RequestMade ==
    \A t \in Threads :
       IF at[t] \in Driving \cup {"acquire", "hold"}
       THEN req[t] # NULL /\ (req[t].op = "identify" <=> identified # Devices)
       ELSE req[t] = NULL

\* No completion is on its way to the thread.
Quiet == sema_value[Completion] = 0 /\ ~irq

\* One completion is, with the interrupt controller or in completion_wait.
Told == \/ sema_value[Completion] = 0 /\ irq
        \/ sema_value[Completion] = 1 /\ ~irq

\* Thread t has given its command to the selected device, which is in state s.
Commanded(t, s) ==
    /\ selected = req[t].dev /\ latched[selected] = req[t].sec /\ expecting_interrupt
    /\ \A d \in Devices : d # selected => drive[d] = "idle"
    /\ at[t] = "complete" =>
          /\ req[t].op = "identify" =>
               \/ s = "identifying" /\ Quiet
               \/ s = "id_ready" /\ Told
          /\ req[t].op = "read" =>
               \/ s = "reading" /\ Quiet
               \/ s = "data_ready" /\ Told
          /\ req[t].op = "write" =>
               \/ s = "writing" /\ Quiet /\ data[selected] = req[t].val
               \/ s = "idle" /\ Told
    /\ at[t] \in {"wait_drq", "input"} =>
          /\ Quiet
          /\ req[t].op = "identify" => s = "id_ready"
          /\ req[t].op = "read" => s = "data_ready"
          /\ req[t].op = "write" => at[t] = "wait_drq" /\ s \in {"accepting", "wants_data"}
    /\ at[t] = "output" => Quiet /\ req[t].op = "write" /\ s = "wants_data"

\* The registers hold the request of the thread that drives the channel, and
\* its command is known to the device it is for.
CommandKnown ==
    \A t \in Threads :
       /\ at[t] \in {"issue", "command"} => selected = req[t].dev /\ sec_no = req[t].sec
       /\ at[t] = "command" => expecting_interrupt
       /\ at[t] \in Under => Commanded(t, drive[selected])

\* With no command under way, no device works and no completion is left.
NoneLeft ==
    (\A t \in Threads : at[t] \notin Under) =>
       Quiet /\ \A d \in Devices : drive[d] = "idle"

\* The inductive invariant.
DiskInv == DiskTypes /\ OneOwner /\ ChannelLocked /\ RequestMade /\ CommandKnown /\ NoneLeft

\* The semaphores and the two threads of the kernel.
LEMMA Names ==
    /\ ChLock \in SemaIds /\ Completion \in SemaIds /\ ChLock # Completion
    /\ Idle \in Threads /\ Main \in Threads /\ Idle # Main
  BY DiskAssumption, SynchAssumption, SchedAssumption DEF SemaIds

\* The calls.
LEMMA SectorIs == (CHOOSE s \in Sectors : TRUE) \in Sectors
  BY DiskAssumption

\* What a request is.
LEMMA RequestIs ==
    \A r \in Requests :
       /\ r # NULL /\ r.op \in {"identify", "read", "write"} /\ r.dev \in Devices
       /\ r.sec \in Sectors
       /\ r.op # "identify" => r \in Calls
       /\ r \in Calls => r.op \in {"read", "write"}
       /\ r.op = "write" => r.val \in Values
  BY NoCallAssumption, SectorIs DEF Requests, Calls, IdentifyCall

\* The steps of the scheduler and of the semaphores keep the types.
LEMMA ScheduleTypes ==
    ASSUME idle_thread = Idle, NEW st, NEW rl \in Seq(Threads), NEW dr, Schedule(st, rl, dr)
    PROVE  ready_list' \in Seq(Threads) /\ current' \in Threads /\ idle_thread' = Idle
<1>1. NextThreadToRun(rl) \in Threads
  BY Names DEF NextThreadToRun
<1>2. (IF rl = <<>> THEN rl ELSE Tail(rl)) \in Seq(Threads)
  OBVIOUS
<1> QED BY <1>1, <1>2 DEF Schedule

\* thread_block().
LEMMA BlockTypes ==
    ASSUME DiskTypes, Block
    PROVE  ready_list' \in Seq(Threads) /\ current' \in Threads /\ idle_thread' = Idle
  BY ScheduleTypes DEF Block, DiskTypes

\* thread_yield().
LEMMA YieldTypes ==
    ASSUME DiskTypes, Yield
    PROVE  ready_list' \in Seq(Threads) /\ current' \in Threads /\ idle_thread' = Idle
<1> DEFINE rl == IF current = idle_thread THEN ready_list ELSE Append(ready_list, current)
<1>1. rl \in Seq(Threads)
  BY DEF DiskTypes
<1> QED BY <1>1, ScheduleTypes DEF Yield, DoSchedule, DiskTypes

\* thread_tick() and what follows it in the timer interrupt.
LEMMA TickTypes ==
    ASSUME DiskTypes, Tick
    PROVE  ready_list' \in Seq(Threads) /\ current' \in Threads /\ idle_thread' = Idle
<1>1. CASE Yield
  BY <1>1, YieldTypes
<1>2. CASE UNCHANGED <<status, ready_list, current, idle_thread, destruction_req>>
  BY <1>2 DEF DiskTypes
<1> QED BY <1>1, <1>2 DEF Tick

\* sema_up() adds 1 to the value of its semaphore, and runs no other thread.
LEMMA SemaUpTypes ==
    ASSUME DiskTypes, NEW s \in SemaIds, SemaUp(s)
    PROVE  /\ ready_list' \in Seq(Threads) /\ current' = current /\ idle_thread' = Idle
           /\ sema_value' \in [SemaIds -> Nat] /\ sema_waiters' \in [SemaIds -> Seq(Threads)]
           /\ sema_value'[s] = sema_value[s] + 1
           /\ \A q \in SemaIds : q # s => sema_value'[q] = sema_value[q]
<1>1. sema_waiters[s] \in Seq(Threads) /\ ready_list \in Seq(Threads)
  BY DEF DiskTypes
<1>2. CASE sema_waiters[s] = <<>>
  BY <1>2 DEF SemaUp, DiskTypes
<1>3. CASE sema_waiters[s] # <<>>
  <2>1. Head(sema_waiters[s]) \in Threads /\ Tail(sema_waiters[s]) \in Seq(Threads)
    BY <1>1, <1>3
  <2>2. Append(ready_list, Head(sema_waiters[s])) \in Seq(Threads)
    BY <1>1, <2>1
  <2>3. ready_list' \in Seq(Threads) /\ current' = current /\ idle_thread' = Idle
    BY <1>3, <2>2 DEF SemaUp, Unblock, DiskTypes
  <2>4. sema_waiters' = [sema_waiters EXCEPT ![s] = Tail(@)]
    BY <1>3 DEF SemaUp
  <2>5. \A q \in SemaIds : sema_waiters[q] \in Seq(Threads)
    BY DEF DiskTypes
  <2>6. sema_waiters' \in [SemaIds -> Seq(Threads)]
    <3>1. DOMAIN sema_waiters = SemaIds /\ sema_waiters = [q \in SemaIds |-> sema_waiters[q]]
      BY DEF DiskTypes
    <3>2. s \in SemaIds
      OBVIOUS
    <3> QED BY ONLY <2>1, <2>4, <2>5, <3>1, <3>2
  <2>7. sema_value' = [sema_value EXCEPT ![s] = @ + 1] /\ sema_value \in [SemaIds -> Nat]
    BY DEF SemaUp, DiskTypes
  <2> QED BY <2>3, <2>6, <2>7
<1> QED BY <1>2, <1>3

\* The end of sema_down() takes 1 from it.
LEMMA SemaTakeTypes ==
    ASSUME DiskTypes, NEW s \in SemaIds, SemaTake(s)
    PROVE  /\ UNCHANGED schedVars
           /\ sema_value' \in [SemaIds -> Nat] /\ sema_waiters' = sema_waiters
           /\ sema_value[s] > 0 /\ sema_value'[s] = sema_value[s] - 1
           /\ \A q \in SemaIds : q # s => sema_value'[q] = sema_value[q]
  BY DEF SemaTake, DiskTypes

\* A turn of the loop of sema_down() leaves the value.
LEMMA SemaSleepTypes ==
    ASSUME DiskTypes, NEW s \in SemaIds, SemaSleep(s)
    PROVE  /\ ready_list' \in Seq(Threads) /\ current' \in Threads /\ idle_thread' = Idle
           /\ sema_value' = sema_value /\ sema_waiters' \in [SemaIds -> Seq(Threads)]
<1>1. Append(sema_waiters[s], current) \in Seq(Threads)
  BY DEF DiskTypes
<1> QED BY <1>1, BlockTypes DEF SemaSleep, DiskTypes

\* Steps of the scheduler alone: no thread gets to another statement, but for those of idle().
LEMMA OnlyScheduled ==
    ASSUME DiskInv, UNCHANGED <<sema_value, driverVars, deviceVars>>,
           ready_list' \in Seq(Threads), current' \in Threads, idle_thread' = Idle,
           sema_waiters' \in [SemaIds -> Seq(Threads)],
           at' \in [Threads -> Resting \cup Owning \cup {"acquire"}],
           \A t \in Threads : at'[t] = at[t] \/ (at[t] \in Resting /\ at'[t] \in Resting)
    PROVE  DiskInv'
<1>1. DiskTypes'
  BY DEF DiskInv, DiskTypes, driverVars, deviceVars
<1>2. \A t \in Threads : /\ at'[t] \notin Resting => at'[t] = at[t]
                         /\ at[t] \notin Resting => at'[t] = at[t]
  OBVIOUS
<1>3. OneOwner'
  BY <1>2 DEF DiskInv, OneOwner, Owning, Driving, Under, Resting
<1>4. ChannelLocked'
  BY <1>2, Names DEF DiskInv, ChannelLocked, driverVars, Owning, Driving, Under, Resting
<1>5. RequestMade'
  BY <1>2 DEF DiskInv, RequestMade, driverVars, Driving, Under, Resting
<1>6. CommandKnown'
  BY <1>2
     DEF DiskInv, CommandKnown, driverVars, deviceVars, Under, Resting, Commanded, Quiet, Told
<1>7. NoneLeft'
  BY <1>2 DEF DiskInv, NoneLeft, deviceVars, Under, Resting, Quiet
<1> QED BY <1>1, <1>3, <1>4, <1>5, <1>6, <1>7 DEF DiskInv

\* The two ends of a turn of sema_down(), for the lock and for completion_wait,
AcquireTakes ==
    /\ at[current] = "acquire" /\ LockAcquire(ChLock)
    /\ SemaTake(ChLock) /\ Goto("hold", ChLock)
    /\ UNCHANGED <<driverVars, deviceVars>>
AcquireSleeps ==
    /\ at[current] = "acquire" /\ LockAcquire(ChLock)
    /\ SemaSleep(ChLock) /\ Goto("acquire", ChLock)
    /\ UNCHANGED <<driverVars, deviceVars>>
CompleteTakes ==
    /\ Complete /\ SemaTake(Completion)
    /\ Goto(IF Op = "write" THEN "count" ELSE "wait_drq", NULL)
CompleteSleeps == Complete /\ SemaSleep(Completion) /\ Goto("complete", NULL)

\* and the steps of the idle thread.
IdleSteps == (IdleBlock \/ IdleHlt) /\ UNCHANGED <<driverVars, deviceVars>>

\* Where a thread may have been served.
Showing == {"complete", "wait_drq", "input", "count"}

USE DEF AcquireTakes, AcquireSleeps, CompleteTakes, CompleteSleeps, IdleSteps, Showing,
        Goto, schedVars, synchVars, semaVars, driverVars, deviceVars, Owning,
        Driving, Under, Resting

\* disk_read() and disk_write() start after disk_init().
LEMMA StartCalls ==
    ASSUME DiskInv, \E c \in Calls : StartCall(c)
    PROVE  DiskInv'
<1>0. PICK c \in Calls : StartCall(c)
  OBVIOUS
<1>00. c \in Requests /\ c # NULL /\ c.op # "identify"
  BY RequestIs DEF Requests, Calls
<1>1. DiskTypes'
  BY <1>0, <1>00, Names, RequestIs DEF StartCall, AtClient, Requests, DiskInv, DiskTypes
<1>2. OneOwner'
  BY <1>0, <1>00, Names, RequestIs
     DEF StartCall, AtClient, Requests, DiskInv, DiskTypes, OneOwner, ChannelLocked
<1>3. ChannelLocked'
  BY <1>0, <1>00, Names, RequestIs
     DEF StartCall, AtClient, Requests, DiskInv, DiskTypes, ChannelLocked, OneOwner,
         RequestMade, CommandKnown, Commanded
<1>4. RequestMade'
  BY <1>0, <1>00, Names, RequestIs
     DEF StartCall, AtClient, Requests, DiskInv, DiskTypes, RequestMade, ChannelLocked,
         OneOwner
<1>5. CommandKnown'
  BY <1>0, <1>00, Names, RequestIs
     DEF StartCall, AtClient, Requests, DiskInv, DiskTypes, CommandKnown, Commanded, Quiet,
         Told, OneOwner, NoneLeft, RequestMade
<1>6. NoneLeft'
  BY <1>0, <1>00, Names, RequestIs
     DEF StartCall, AtClient, Requests, DiskInv, DiskTypes, NoneLeft, OneOwner, CommandKnown,
         Commanded, Quiet, Told, RequestMade
<1> QED BY <1>1, <1>2, <1>3, <1>4, <1>5, <1>6 DEF DiskInv

\* The end of the sema_down() of lock_acquire(): nobody else has the channel.
LEMMA Takes ==
    ASSUME DiskInv, AcquireTakes
    PROVE  DiskInv'
<1>0. identified = Devices
  BY Names DEF DiskInv, DiskTypes, ChannelLocked
<1>00. /\ sema_value[ChLock] = 1 /\ \A t \in Threads : at[t] \notin Owning
       /\ sema_value'[ChLock] = 0 /\ sema_value'[Completion] = sema_value[Completion]
  BY <1>0, Names, SemaTakeTypes DEF DiskInv, ChannelLocked
<1>1. DiskTypes'
  BY Names, SemaTakeTypes DEF DiskInv, DiskTypes
<1>2. OneOwner'
  BY <1>00, SemaTakeTypes DEF DiskInv, DiskTypes, OneOwner
<1>3. ChannelLocked'
  BY <1>0, <1>00 DEF ChannelLocked
<1>4. RequestMade'
  BY Names, SemaTakeTypes DEF DiskInv, DiskTypes, RequestMade, ChannelLocked, OneOwner
<1>5. CommandKnown'
  BY Names, SemaTakeTypes
     DEF DiskInv, DiskTypes, CommandKnown, Commanded, Quiet, Told, OneOwner, NoneLeft,
         RequestMade
<1>6. NoneLeft'
  BY Names, SemaTakeTypes
     DEF DiskInv, DiskTypes, NoneLeft, OneOwner, CommandKnown, Commanded, Quiet, Told,
         RequestMade
<1> QED BY <1>1, <1>2, <1>3, <1>4, <1>5, <1>6 DEF DiskInv

\* lock_acquire() writes the holder.
LEMMA Holds ==
    ASSUME DiskInv, SetHolder(ChLock, "select") /\ UNCHANGED <<driverVars, deviceVars>>
    PROVE  DiskInv'
<1>1. DiskTypes'
  BY Names DEF SetHolder, DiskInv, DiskTypes
<1>2. OneOwner'
  BY Names DEF SetHolder, DiskInv, DiskTypes, OneOwner, ChannelLocked
<1>3. ChannelLocked'
  BY Names
     DEF SetHolder, DiskInv, DiskTypes, ChannelLocked, OneOwner, RequestMade, CommandKnown,
         Commanded
<1>4. RequestMade'
  BY Names DEF SetHolder, DiskInv, DiskTypes, RequestMade, ChannelLocked, OneOwner
<1>5. CommandKnown'
  BY Names
     DEF SetHolder, DiskInv, DiskTypes, CommandKnown, Commanded, Quiet, Told, OneOwner,
         NoneLeft, RequestMade
<1>6. NoneLeft'
  BY Names
     DEF SetHolder, DiskInv, DiskTypes, NoneLeft, OneOwner, CommandKnown, Commanded, Quiet,
         Told, RequestMade
<1> QED BY <1>1, <1>2, <1>3, <1>4, <1>5, <1>6 DEF DiskInv

\* The sema_up() of lock_release().
LEMMA Releases ==
    ASSUME DiskInv, ReleaseUp(ChLock, "client") /\ UNCHANGED <<driverVars, deviceVars>>
    PROVE  DiskInv'
<1>1. DiskTypes'
  BY Names, SemaUpTypes DEF ReleaseUp, DiskInv, DiskTypes
<1>2. OneOwner'
  BY Names, SemaUpTypes DEF ReleaseUp, DiskInv, DiskTypes, OneOwner, ChannelLocked
<1>3. ChannelLocked'
  BY Names, SemaUpTypes
     DEF ReleaseUp, DiskInv, DiskTypes, ChannelLocked, OneOwner, RequestMade, CommandKnown,
         Commanded
<1>4. RequestMade'
  BY Names, SemaUpTypes DEF ReleaseUp, DiskInv, DiskTypes, RequestMade, ChannelLocked, OneOwner
<1>5. CommandKnown'
  BY Names, SemaUpTypes
     DEF ReleaseUp, DiskInv, DiskTypes, CommandKnown, Commanded, Quiet, Told, OneOwner,
         NoneLeft, RequestMade
<1>6. NoneLeft'
  BY Names, SemaUpTypes
     DEF ReleaseUp, DiskInv, DiskTypes, NoneLeft, OneOwner, CommandKnown, Commanded, Quiet,
         Told, RequestMade
<1> QED BY <1>1, <1>2, <1>3, <1>4, <1>5, <1>6 DEF DiskInv

\* select_sector() and select_device_wait().
LEMMA Selects ==
    ASSUME DiskInv, Select
    PROVE  DiskInv'
<1>0. /\ req[current] \in Requests
      /\ req[current].op \in {"identify", "read", "write"}
      /\ req[current].dev \in Devices /\ (req[current].op = "identify" <=> identified # Devices)
  BY RequestIs DEF Select, DiskInv, DiskTypes, RequestMade, Driving, Under
<1>1. DiskTypes'
  BY <1>0, Names, RequestIs DEF Select, DiskInv, DiskTypes
<1>2. OneOwner'
  BY <1>0, Names, RequestIs DEF Select, DiskInv, DiskTypes, OneOwner, ChannelLocked
<1>3. ChannelLocked'
  BY <1>0, Names, RequestIs
     DEF Select, DiskInv, DiskTypes, ChannelLocked, OneOwner, RequestMade, CommandKnown,
         Commanded
<1>4. RequestMade'
  BY <1>0, Names, RequestIs DEF Select, DiskInv, DiskTypes, RequestMade, ChannelLocked, OneOwner
<1>5. CommandKnown'
  BY <1>0, Names, RequestIs
     DEF Select, DiskInv, DiskTypes, CommandKnown, Commanded, Quiet, Told, OneOwner, NoneLeft,
         RequestMade
<1>6. NoneLeft'
  BY <1>0, Names, RequestIs
     DEF Select, DiskInv, DiskTypes, NoneLeft, OneOwner, CommandKnown, Commanded, Quiet, Told,
         RequestMade
<1> QED BY <1>1, <1>2, <1>3, <1>4, <1>5, <1>6 DEF DiskInv

\* issue_pio_command() expects an interrupt.
LEMMA Issues ==
    ASSUME DiskInv, Issue
    PROVE  DiskInv'
<1>1. DiskTypes'
  BY Names DEF Issue, DiskInv, DiskTypes
<1>2. OneOwner'
  BY Names DEF Issue, DiskInv, DiskTypes, OneOwner, ChannelLocked
<1>3. ChannelLocked'
  BY Names
     DEF Issue, DiskInv, DiskTypes, ChannelLocked, OneOwner, RequestMade, CommandKnown,
         Commanded
<1>4. RequestMade'
  BY Names DEF Issue, DiskInv, DiskTypes, RequestMade, ChannelLocked, OneOwner
<1>5. CommandKnown'
  BY Names
     DEF Issue, DiskInv, DiskTypes, CommandKnown, Commanded, Quiet, Told, OneOwner, NoneLeft,
         RequestMade
<1>6. NoneLeft'
  BY Names
     DEF Issue, DiskInv, DiskTypes, NoneLeft, OneOwner, CommandKnown, Commanded, Quiet, Told,
         RequestMade
<1> QED BY <1>1, <1>2, <1>3, <1>4, <1>5, <1>6 DEF DiskInv

\* issue_pio_command() starts the device: it was idle, and nothing was left
\* of the command before.
LEMMA Commands ==
    ASSUME DiskInv, Command
    PROVE  DiskInv'
<1>0. /\ req[current] \in Requests
      /\ req[current].op \in {"identify", "read", "write"}
      /\ req[current].dev \in Devices /\ (req[current].op = "identify" <=> identified # Devices)
  BY RequestIs DEF Command, DiskInv, DiskTypes, RequestMade, Driving, Under
<1>1. DiskTypes'
  BY <1>0, Names, RequestIs DEF Command, Drives, Op, Busy, DiskInv, DiskTypes
<1>2. OneOwner'
  BY <1>0, Names, RequestIs
     DEF Command, Drives, Op, Busy, DiskInv, DiskTypes, OneOwner, ChannelLocked
<1>3. ChannelLocked'
  BY <1>0, Names, RequestIs
     DEF Command, Drives, Op, Busy, DiskInv, DiskTypes, ChannelLocked, OneOwner, RequestMade,
         CommandKnown, Commanded
<1>4. RequestMade'
  BY <1>0, Names, RequestIs
     DEF Command, Drives, Op, Busy, DiskInv, DiskTypes, RequestMade, ChannelLocked, OneOwner
<1>00. /\ at[current] = "command" /\ \A t \in Threads : t # current => at[t] \notin Owning
       /\ Quiet /\ \A d \in Devices : drive[d] = "idle"
  BY DEF Command, DiskInv, DiskTypes, OneOwner, NoneLeft
<1>5. CommandKnown'
  <2>1. at' = [at EXCEPT ![current] = IF Op = "write" THEN "wait_drq" ELSE "complete"]
    BY DEF Command
  <2>2. \A t \in Threads : t # current => at'[t] \notin Owning
    BY <1>00, <2>1 DEF DiskInv, DiskTypes
  <2>3. /\ selected = req[current].dev /\ sec_no = req[current].sec /\ expecting_interrupt
        /\ latched' = [latched EXCEPT ![selected] = sec_no]
        /\ UNCHANGED <<selected, req, expecting_interrupt, sema_value, irq>>
    BY <1>00 DEF Command, DiskInv, DiskTypes, CommandKnown
  <2>4. /\ \A d \in Devices : d # selected => drive'[d] = "idle"
        /\ req[current].op = "identify" => drive'[selected] = "identifying"
        /\ req[current].op = "read" => drive'[selected] = "reading"
        /\ req[current].op = "write" => drive'[selected] = "accepting"
    BY <1>00 DEF Command, Op, DiskInv, DiskTypes
  <2>5. Commanded(current, drive[selected])'
    <3>1. /\ current' = current
          /\ at'[current] = IF req[current].op = "write" THEN "wait_drq" ELSE "complete"
          /\ latched'[selected] = sec_no /\ Quiet'
      BY <1>00, <2>1, <2>3 DEF Command, Op, Quiet, DiskInv, DiskTypes
    <3>2. CASE req[current].op = "write"
      BY <2>3, <2>4, <3>1, <3>2 DEF Commanded
    <3>3. CASE req[current].op \in {"identify", "read"}
      BY <2>3, <2>4, <3>1, <3>3 DEF Commanded
    <3> QED BY <1>0, <3>2, <3>3 DEF Commanded
  <2> QED BY <1>00, <2>1, <2>2, <2>5 DEF Command, CommandKnown, DiskInv, DiskTypes
<1>6. NoneLeft'
  BY <1>0, Names, RequestIs
     DEF Command, Drives, Op, Busy, DiskInv, DiskTypes, NoneLeft, OneOwner, CommandKnown,
         Commanded, Quiet, Told, RequestMade
<1> QED BY <1>1, <1>2, <1>3, <1>4, <1>5, <1>6 DEF DiskInv

\* The end of sema_down (&c->completion_wait): the device is done with its
\* part.
LEMMA Completes ==
    ASSUME DiskInv, CompleteTakes
    PROVE  DiskInv'
<1>0. /\ req[current] \in Requests
      /\ req[current].op \in {"identify", "read", "write"}
      /\ req[current].dev \in Devices /\ (req[current].op = "identify" <=> identified # Devices)
  BY RequestIs DEF Complete, DiskInv, DiskTypes, RequestMade, Driving, Under
<1>1. DiskTypes'
  BY <1>0, Names, SemaTakeTypes, RequestIs DEF Complete, Op, DiskInv, DiskTypes
<1>2. OneOwner'
  BY <1>0, Names, SemaTakeTypes, RequestIs
     DEF Complete, Op, DiskInv, DiskTypes, OneOwner, ChannelLocked
<1>3. ChannelLocked'
  BY <1>0, Names, SemaTakeTypes, RequestIs
     DEF Complete, Op, DiskInv, DiskTypes, ChannelLocked, OneOwner, RequestMade, CommandKnown,
         Commanded
<1>4. RequestMade'
  BY <1>0, Names, SemaTakeTypes, RequestIs
     DEF Complete, Op, DiskInv, DiskTypes, RequestMade, ChannelLocked, OneOwner
<1>5. CommandKnown'
  BY <1>0, Names, SemaTakeTypes, RequestIs
     DEF Complete, Op, DiskInv, DiskTypes, CommandKnown, Commanded, Quiet, Told, OneOwner,
         NoneLeft, RequestMade
<1>6. NoneLeft'
  BY <1>0, Names, SemaTakeTypes, RequestIs
     DEF Complete, Op, DiskInv, DiskTypes, NoneLeft, OneOwner, CommandKnown, Commanded, Quiet,
         Told, RequestMade
<1> QED BY <1>1, <1>2, <1>3, <1>4, <1>5, <1>6 DEF DiskInv

\* wait_while_busy() returns.
LEMMA Requested ==
    ASSUME DiskInv, DataRequested
    PROVE  DiskInv'
<1>0. /\ req[current] \in Requests
      /\ req[current].op \in {"identify", "read", "write"}
      /\ req[current].dev \in Devices /\ (req[current].op = "identify" <=> identified # Devices)
  BY RequestIs DEF DataRequested, DiskInv, DiskTypes, RequestMade, Driving, Under
<1>1. DiskTypes'
  BY <1>0, Names, RequestIs DEF DataRequested, DataRequest, Op, DiskInv, DiskTypes
<1>2. OneOwner'
  BY <1>0, Names, RequestIs
     DEF DataRequested, DataRequest, Op, DiskInv, DiskTypes, OneOwner, ChannelLocked
<1>3. ChannelLocked'
  BY <1>0, Names, RequestIs
     DEF DataRequested, DataRequest, Op, DiskInv, DiskTypes, ChannelLocked, OneOwner,
         RequestMade, CommandKnown, Commanded
<1>4. RequestMade'
  BY <1>0, Names, RequestIs
     DEF DataRequested, DataRequest, Op, DiskInv, DiskTypes, RequestMade, ChannelLocked,
         OneOwner
<1>5. CommandKnown'
  BY <1>0, Names, RequestIs
     DEF DataRequested, DataRequest, Op, DiskInv, DiskTypes, CommandKnown, Commanded, Quiet,
         Told, OneOwner, NoneLeft, RequestMade
<1>6. NoneLeft'
  BY <1>0, Names, RequestIs
     DEF DataRequested, DataRequest, Op, DiskInv, DiskTypes, NoneLeft, OneOwner, CommandKnown,
         Commanded, Quiet, Told, RequestMade
<1> QED BY <1>1, <1>2, <1>3, <1>4, <1>5, <1>6 DEF DiskInv

\* input_sector() of disk_read() ends the command.
LEMMA InputsSector ==
    ASSUME DiskInv, InputSector
    PROVE  DiskInv'
<1>0. /\ req[current] \in Requests
      /\ req[current].op \in {"identify", "read", "write"}
      /\ req[current].dev \in Devices /\ (req[current].op = "identify" <=> identified # Devices)
  BY RequestIs DEF InputSector, DiskInv, DiskTypes, RequestMade, Driving, Under
<1>1. DiskTypes'
  BY <1>0, Names, RequestIs DEF InputSector, Drives, Op, DiskInv, DiskTypes
<1>2. OneOwner'
  BY <1>0, Names, RequestIs
     DEF InputSector, Drives, Op, DiskInv, DiskTypes, OneOwner, ChannelLocked
<1>3. ChannelLocked'
  BY <1>0, Names, RequestIs
     DEF InputSector, Drives, Op, DiskInv, DiskTypes, ChannelLocked, OneOwner, RequestMade,
         CommandKnown, Commanded
<1>4. RequestMade'
  BY <1>0, Names, RequestIs
     DEF InputSector, Drives, Op, DiskInv, DiskTypes, RequestMade, ChannelLocked, OneOwner
<1>5. CommandKnown'
  BY <1>0, Names, RequestIs
     DEF InputSector, Drives, Op, DiskInv, DiskTypes, CommandKnown, Commanded, Quiet, Told,
         OneOwner, NoneLeft, RequestMade
<1>6. NoneLeft'
  BY <1>0, Names, RequestIs
     DEF InputSector, Drives, Op, DiskInv, DiskTypes, NoneLeft, OneOwner, CommandKnown,
         Commanded, Quiet, Told, RequestMade
<1> QED BY <1>1, <1>2, <1>3, <1>4, <1>5, <1>6 DEF DiskInv

\* input_sector() of identify_ata_device() ends it; disk_init() goes on.
LEMMA InputsIdentity ==
    ASSUME DiskInv, InputIdentity
    PROVE  DiskInv'
<1>0. /\ req[current] \in Requests
      /\ req[current].op \in {"identify", "read", "write"}
      /\ req[current].dev \in Devices /\ (req[current].op = "identify" <=> identified # Devices)
  BY RequestIs DEF InputIdentity, DiskInv, DiskTypes, RequestMade, Driving, Under
<1>00. /\ identified # Devices /\ current = Main /\ sema_value[ChLock] = 1
       /\ \A t \in Threads \ {Main} : at[t] \in Resting
       /\ selected = req[current].dev
  BY <1>0, Names
     DEF InputIdentity, Op, DiskInv, ChannelLocked, DiskTypes, CommandKnown, Commanded
<1>01. \/ /\ identified' = Devices /\ at' = [at EXCEPT ![current] = "client"]
          /\ req' = [req EXCEPT ![current] = NULL]
       \/ \E d \in Devices :
             /\ identified' # Devices /\ at' = [at EXCEPT ![current] = "select"]
             /\ req' = [req EXCEPT ![current] = IdentifyCall(d)]
  BY DEF InputIdentity
<1>02. \A d \in Devices : /\ IdentifyCall(d) \in Requests /\ IdentifyCall(d) # NULL
                          /\ IdentifyCall(d).op = "identify"
  BY RequestIs DEF Requests, IdentifyCall
<1>03. /\ \A t \in Threads : t # Main => at'[t] = at[t] /\ req'[t] = req[t]
       /\ identified' = Devices => at'[Main] = "client" /\ req'[Main] = NULL
       /\ identified' # Devices => /\ at'[Main] = "select" /\ req'[Main] \in Requests
                                   /\ req'[Main].op = "identify" /\ req'[Main] # NULL
       /\ DOMAIN at' = Threads /\ DOMAIN req' = Threads
       /\ at' = [t \in Threads |-> at'[t]] /\ req' = [t \in Threads |-> req'[t]]
  <2>1. /\ at \in [Threads -> Resting \cup Owning \cup {"acquire"}]
        /\ req \in [Threads -> Requests \cup {NULL}] /\ Main \in Threads
    BY Names DEF DiskInv, DiskTypes
  <2> QED BY ONLY <1>00, <1>01, <1>02, <2>1
<1>1. DiskTypes'
  <2>1. at' \in [Threads -> Resting \cup Owning \cup {"acquire"}]
    BY <1>03 DEF DiskInv, DiskTypes
  <2>2. req' \in [Threads -> Requests \cup {NULL}]
    BY <1>03 DEF DiskInv, DiskTypes
  <2>3. drive' \in [Devices -> Drives] /\ identified' \subseteq Devices
    BY <1>0 DEF InputIdentity, Drives, DiskInv, DiskTypes
  <2> QED BY <2>1, <2>2, <2>3 DEF InputIdentity, DiskInv, DiskTypes
<1>2. OneOwner'
  BY <1>00, <1>03 DEF OneOwner
<1>3. ChannelLocked'
  <2>1. \A t \in Threads : at[t] \in Resting => at[t] \notin Owning
    OBVIOUS
  <2>2. \A t \in Threads : t # Main => at'[t] \in Resting
    BY <1>00, <1>03
  <2>3. sema_value' = sema_value
    BY DEF InputIdentity
  <2> QED BY <1>00, <1>03, <2>2, <2>3, Names DEF ChannelLocked
<1>4. RequestMade'
  <2>1. \A t \in Threads : t # Main => req[t] = NULL
    BY <1>00 DEF DiskInv, RequestMade
  <2> QED BY <1>00, <1>03, <2>1 DEF RequestMade
<1>5. CommandKnown'
  BY <1>00, <1>03 DEF CommandKnown
<1>6. NoneLeft'
  BY <1>0, Names, RequestIs
     DEF InputIdentity, Drives, Op, Requests, IdentifyCall, DiskInv, DiskTypes, NoneLeft,
         OneOwner, CommandKnown, Commanded, Quiet, Told, RequestMade
<1> QED BY <1>1, <1>2, <1>3, <1>4, <1>5, <1>6 DEF DiskInv

\* output_sector() makes the device write.
LEMMA OutputsSector ==
    ASSUME DiskInv, OutputSector
    PROVE  DiskInv'
<1>0. /\ req[current] \in Requests
      /\ req[current].op \in {"identify", "read", "write"}
      /\ req[current].dev \in Devices /\ (req[current].op = "identify" <=> identified # Devices)
  BY RequestIs DEF OutputSector, DiskInv, DiskTypes, RequestMade, Driving, Under
<1>1. DiskTypes'
  <2>1. at[current] = "output" /\ req[current].val \in Values
    BY <1>0, RequestIs DEF OutputSector, DiskInv, DiskTypes, CommandKnown, Commanded
  <2>2. data' \in [Devices -> Values] /\ drive' \in [Devices -> Drives]
    BY <2>1 DEF OutputSector, Drives, Busy, DiskInv, DiskTypes
  <2>3. at' \in [Threads -> Resting \cup Owning \cup {"acquire"}]
    BY DEF OutputSector, DiskInv, DiskTypes
  <2> QED BY <2>2, <2>3 DEF OutputSector, DiskInv, DiskTypes
<1>2. OneOwner'
  BY <1>0, Names DEF OutputSector, Drives, Busy, DiskInv, DiskTypes, OneOwner, ChannelLocked
<1>3. ChannelLocked'
  BY <1>0, Names
     DEF OutputSector, Drives, Busy, DiskInv, DiskTypes, ChannelLocked, OneOwner, RequestMade,
         CommandKnown, Commanded
<1>4. RequestMade'
  BY <1>0, Names
     DEF OutputSector, Drives, Busy, DiskInv, DiskTypes, RequestMade, ChannelLocked, OneOwner
<1>5. CommandKnown'
  BY <1>0, Names
     DEF OutputSector, Drives, Busy, DiskInv, DiskTypes, CommandKnown, Commanded, Quiet, Told,
         OneOwner, NoneLeft, RequestMade
<1>6. NoneLeft'
  BY <1>0, Names
     DEF OutputSector, Drives, Busy, DiskInv, DiskTypes, NoneLeft, OneOwner, CommandKnown,
         Commanded, Quiet, Told, RequestMade
<1> QED BY <1>1, <1>2, <1>3, <1>4, <1>5, <1>6 DEF DiskInv

\* The call is counted.
LEMMA Counts ==
    ASSUME DiskInv, CountCall
    PROVE  DiskInv'
<1>0. /\ req[current] \in Calls /\ req[current].dev \in Devices
      /\ req[current].op \in {"read", "write"}
      /\ at[current] = "count"
  BY RequestIs, Names DEF CountCall, DiskInv, DiskTypes, RequestMade, ChannelLocked
<1>1. DiskTypes'
  <2>1. rw_cnt' \in [Devices -> [{"read", "write"} -> Nat]]
    <3> DEFINE d == req[current].dev
               n == [rw_cnt[d] EXCEPT ![req[current].op] = @ + 1]
    <3>1. rw_cnt[d] \in [{"read", "write"} -> Nat] /\ rw_cnt' = [rw_cnt EXCEPT ![d] = n]
      BY <1>0 DEF CountCall, Op, DiskInv, DiskTypes
    <3>2. n \in [{"read", "write"} -> Nat]
      BY <1>0, <3>1
    <3> HIDE DEF n
    <3> QED BY <1>0, <3>1, <3>2 DEF DiskInv, DiskTypes
  <2>2. buffer' \in [Threads -> Values \cup {NULL}] /\ req' \in [Threads -> Requests \cup {NULL}]
    BY DEF CountCall, DiskInv, DiskTypes
  <2>3. at' \in [Threads -> Resting \cup Owning \cup {"acquire"}]
    BY DEF CountCall, DiskInv, DiskTypes
  <2> QED BY <2>1, <2>2, <2>3 DEF CountCall, DiskInv, DiskTypes
<1>2. OneOwner'
  BY Names DEF CountCall, DiskInv, DiskTypes, OneOwner, ChannelLocked
<1>3. ChannelLocked'
  BY Names
     DEF CountCall, DiskInv, DiskTypes, ChannelLocked, OneOwner, RequestMade, CommandKnown,
         Commanded
<1>4. RequestMade'
  BY Names DEF CountCall, DiskInv, DiskTypes, RequestMade, ChannelLocked, OneOwner
<1>5. CommandKnown'
  BY Names
     DEF CountCall, DiskInv, DiskTypes, CommandKnown, Commanded, Quiet, Told, OneOwner,
         NoneLeft, RequestMade
<1>6. NoneLeft'
  BY Names
     DEF CountCall, DiskInv, DiskTypes, NoneLeft, OneOwner, CommandKnown, Commanded, Quiet,
         Told, RequestMade
<1> QED BY <1>1, <1>2, <1>3, <1>4, <1>5, <1>6 DEF DiskInv

\* lock_release() clears the holder.
LEMMA Finishes ==
    ASSUME DiskInv, FinishCall
    PROVE  DiskInv'
<1>1. DiskTypes'
  BY Names DEF FinishCall, ClearHolder, DiskInv, DiskTypes
<1>2. OneOwner'
  BY Names DEF FinishCall, ClearHolder, DiskInv, DiskTypes, OneOwner, ChannelLocked
<1>3. ChannelLocked'
  BY Names
     DEF FinishCall, ClearHolder, DiskInv, DiskTypes, ChannelLocked, OneOwner, RequestMade,
         CommandKnown, Commanded
<1>4. RequestMade'
  BY Names DEF FinishCall, ClearHolder, DiskInv, DiskTypes, RequestMade, ChannelLocked, OneOwner
<1>5. CommandKnown'
  BY Names
     DEF FinishCall, ClearHolder, DiskInv, DiskTypes, CommandKnown, Commanded, Quiet, Told,
         OneOwner, NoneLeft, RequestMade
<1>6. NoneLeft'
  BY Names
     DEF FinishCall, ClearHolder, DiskInv, DiskTypes, NoneLeft, OneOwner, CommandKnown,
         Commanded, Quiet, Told, RequestMade
<1> QED BY <1>1, <1>2, <1>3, <1>4, <1>5, <1>6 DEF DiskInv

\* A device has the answer, and raises the interrupt of the thread that waits.
LEMMA DevicesRead ==
    ASSUME DiskInv, \E d \in Devices : DeviceReads(d)
    PROVE  DiskInv'
<1>0. PICK d \in Devices : DeviceReads(d)
  OBVIOUS
<1>00. PICK t \in Threads : at[t] \in Under
  BY <1>0 DEF DeviceReads, DiskInv, NoneLeft
<1>01. /\ d = selected /\ Commanded(t, drive[d]) /\ req[t] # NULL /\ at[t] = "complete"
       /\ req[t].op \in {"identify", "read", "write"} /\ \A u \in Threads : at[u] \in Under => u = t
  BY <1>0, <1>00, RequestIs
     DEF DeviceReads, DiskInv, DiskTypes, CommandKnown, Commanded, RequestMade, OneOwner
<1>1. DiskTypes'
  <2>1. latched[d] \in Sectors /\ media[d] \in [Sectors -> Values]
    BY <1>0 DEF DiskInv, DiskTypes
  <2>2. media[d][latched[d]] \in Values
    BY <2>1
  <2>3. media' = media /\ data' \in [Devices -> Values]
    BY <1>0, <2>2 DEF DeviceReads, DiskInv, DiskTypes
  <2>4. drive' \in [Devices -> Drives]
    BY <1>0 DEF DeviceReads, Drives, DataRequest, DiskInv, DiskTypes
  <2> QED BY <1>0, <2>3, <2>4 DEF DeviceReads, frameVars, DiskInv, DiskTypes
<1>2. OneOwner'
  BY Names
     DEF DeviceReads, Drives, DataRequest, frameVars, DiskInv, DiskTypes, OneOwner,
         ChannelLocked
<1>3. ChannelLocked'
  BY Names
     DEF DeviceReads, Drives, DataRequest, frameVars, DiskInv, DiskTypes, ChannelLocked,
         OneOwner, RequestMade, CommandKnown, Commanded
<1>4. RequestMade'
  BY Names
     DEF DeviceReads, Drives, DataRequest, frameVars, DiskInv, DiskTypes, RequestMade,
         ChannelLocked, OneOwner
<1>5. CommandKnown'
  <2>1. UNCHANGED <<at, req, selected, sec_no, expecting_interrupt, latched, sema_value>> /\ irq'
    BY <1>0 DEF DeviceReads, frameVars
  <2>2. \A e \in Devices : e # selected => drive'[e] = "idle"
    BY <1>0, <1>01 DEF DeviceReads, Commanded, DiskInv, DiskTypes
  <2>3. Quiet /\ Told'
    BY <1>0, <1>01, <2>1 DEF DeviceReads, Commanded, Quiet, Told
  <2>4. /\ req[t].op = "identify" => drive'[selected] = "id_ready"
        /\ req[t].op = "read" => drive'[selected] = "data_ready"
        /\ req[t].op # "write"
    BY <1>0, <1>01 DEF DeviceReads, Commanded, DiskInv, DiskTypes
  <2>5. Commanded(t, drive[selected])'
    BY <1>01, <2>1, <2>2, <2>3, <2>4 DEF Commanded
  <2> QED BY <1>01, <2>1, <2>5 DEF CommandKnown, DiskInv
<1>6. NoneLeft'
  BY Names
     DEF DeviceReads, Drives, DataRequest, frameVars, DiskInv, DiskTypes, NoneLeft, OneOwner,
         CommandKnown, Commanded, Quiet, Told, RequestMade
<1> QED BY <1>1, <1>2, <1>3, <1>4, <1>5, <1>6 DEF DiskInv

\* A device asks for the data of a write.
LEMMA DevicesAccept ==
    ASSUME DiskInv, \E d \in Devices : DeviceAccepts(d)
    PROVE  DiskInv'
<1>1. DiskTypes'
  BY Names DEF DeviceAccepts, Drives, DataRequest, frameVars, DiskInv, DiskTypes
<1>2. OneOwner'
  BY Names
     DEF DeviceAccepts, Drives, DataRequest, frameVars, DiskInv, DiskTypes, OneOwner,
         ChannelLocked
<1>3. ChannelLocked'
  BY Names
     DEF DeviceAccepts, Drives, DataRequest, frameVars, DiskInv, DiskTypes, ChannelLocked,
         OneOwner, RequestMade, CommandKnown, Commanded
<1>4. RequestMade'
  BY Names
     DEF DeviceAccepts, Drives, DataRequest, frameVars, DiskInv, DiskTypes, RequestMade,
         ChannelLocked, OneOwner
<1>5. CommandKnown'
  BY Names
     DEF DeviceAccepts, Drives, DataRequest, frameVars, DiskInv, DiskTypes, CommandKnown,
         Commanded, Quiet, Told, OneOwner, NoneLeft, RequestMade
<1>6. NoneLeft'
  BY Names
     DEF DeviceAccepts, Drives, DataRequest, frameVars, DiskInv, DiskTypes, NoneLeft, OneOwner,
         CommandKnown, Commanded, Quiet, Told, RequestMade
<1> QED BY <1>1, <1>2, <1>3, <1>4, <1>5, <1>6 DEF DiskInv

\* A device has written, and raises the interrupt of the thread that waits.
LEMMA DevicesWrite ==
    ASSUME DiskInv, \E d \in Devices : DeviceWrites(d)
    PROVE  DiskInv'
<1>0. PICK d \in Devices : DeviceWrites(d)
  OBVIOUS
<1>00. PICK t \in Threads : at[t] \in Under
  BY <1>0 DEF DeviceWrites, DiskInv, NoneLeft
<1>01. /\ d = selected /\ Commanded(t, drive[d]) /\ req[t] # NULL /\ at[t] = "complete"
       /\ req[t].op \in {"identify", "read", "write"} /\ \A u \in Threads : at[u] \in Under => u = t
  BY <1>0, <1>00, RequestIs
     DEF DeviceWrites, DiskInv, DiskTypes, CommandKnown, Commanded, RequestMade, OneOwner
<1>1. DiskTypes'
  <2>1. /\ drive' \in [Devices -> Drives] /\ data' \in [Devices -> Values]
        /\ media' \in [Devices -> [Sectors -> Values]]
    BY <1>0 DEF DeviceWrites, Drives, DataRequest, DiskInv, DiskTypes
  <2> QED BY <1>0, <2>1 DEF DeviceWrites, frameVars, DiskInv, DiskTypes
<1>2. OneOwner'
  BY Names
     DEF DeviceWrites, Drives, DataRequest, frameVars, DiskInv, DiskTypes, OneOwner,
         ChannelLocked
<1>3. ChannelLocked'
  BY Names
     DEF DeviceWrites, Drives, DataRequest, frameVars, DiskInv, DiskTypes, ChannelLocked,
         OneOwner, RequestMade, CommandKnown, Commanded
<1>4. RequestMade'
  BY Names
     DEF DeviceWrites, Drives, DataRequest, frameVars, DiskInv, DiskTypes, RequestMade,
         ChannelLocked, OneOwner
<1>5. CommandKnown'
  <2>1. UNCHANGED <<at, req, selected, sec_no, expecting_interrupt, latched, sema_value>> /\ irq'
    BY <1>0 DEF DeviceWrites, frameVars
  <2>2. \A e \in Devices : e # selected => drive'[e] = "idle"
    BY <1>0, <1>01 DEF DeviceWrites, Commanded, DiskInv, DiskTypes
  <2>3. Quiet /\ Told'
    BY <1>0, <1>01, <2>1 DEF DeviceWrites, Commanded, Quiet, Told
  <2>4. req[t].op = "write" /\ drive'[selected] = "idle"
    BY <1>0, <1>01 DEF DeviceWrites, Commanded, DiskInv, DiskTypes
  <2>5. Commanded(t, drive[selected])'
    BY <1>01, <2>1, <2>2, <2>3, <2>4 DEF Commanded
  <2> QED BY <1>01, <2>1, <2>5 DEF CommandKnown, DiskInv
<1>6. NoneLeft'
  BY Names
     DEF DeviceWrites, Drives, DataRequest, frameVars, DiskInv, DiskTypes, NoneLeft, OneOwner,
         CommandKnown, Commanded, Quiet, Told, RequestMade
<1> QED BY <1>1, <1>2, <1>3, <1>4, <1>5, <1>6 DEF DiskInv

\* interrupt_handler() ups completion_wait, once for the command under way.
LEMMA Interrupts ==
    ASSUME DiskInv, DiskInterrupt
    PROVE  DiskInv'
<1>0. \A t \in Threads : at'[t] = at[t] \/ (at[t] \in Resting /\ at'[t] \in Resting)
  BY DEF DiskInterrupt, EndHlt, Resting, DiskInv, DiskTypes
<1>00. PICK t \in Threads : at[t] \in Under
  BY DEF DiskInterrupt, DiskInv, NoneLeft, Quiet
<1>01. /\ Commanded(t, drive[selected]) /\ at[t] = "complete" /\ at'[t] = "complete"
       /\ \A u \in Threads : at[u] \in Under => u = t
       /\ req[t].op \in {"identify", "read", "write"}
  BY <1>0, <1>00, RequestIs
     DEF DiskInterrupt, DiskInv, DiskTypes, CommandKnown, Commanded, Quiet, OneOwner,
         RequestMade
<1>02. /\ sema_value[Completion] = 0 /\ irq /\ ~irq' /\ sema_value'[Completion] = 1
       /\ sema_value'[ChLock] = sema_value[ChLock]
       /\ UNCHANGED <<driverVars, selected, sec_no, drive, latched, data, media>>
  BY <1>01, SemaUpTypes, Names DEF DiskInterrupt, Commanded, Told, Quiet, DiskInv
<1>1. DiskTypes'
  BY <1>0, Names, SemaUpTypes DEF DiskInterrupt, EndHlt, DiskInv, DiskTypes
<1>2. OneOwner'
  BY <1>0, Names, SemaUpTypes
     DEF DiskInterrupt, EndHlt, DiskInv, DiskTypes, OneOwner, ChannelLocked
<1>3. ChannelLocked'
  <2>1. \A u \in Threads : /\ at[u] \in Resting <=> at'[u] \in Resting
                           /\ (at[u] \notin Resting => at'[u] = at[u])
    BY <1>0
  <2> QED BY <1>02, <2>1, Names DEF DiskInv, ChannelLocked
<1>4. RequestMade'
  BY <1>0, Names, SemaUpTypes
     DEF DiskInterrupt, EndHlt, DiskInv, DiskTypes, RequestMade, ChannelLocked, OneOwner
<1>5. CommandKnown'
  <2>1. Commanded(t, drive[selected])'
    BY <1>01, <1>02 DEF Commanded, Quiet, Told
  <2>2. \A u \in Threads : at'[u] \notin Resting => at'[u] = at[u]
    BY <1>0
  <2> QED BY <1>01, <1>02, <2>1, <2>2 DEF CommandKnown, DiskInv
<1>6. NoneLeft'
  BY <1>0, Names, SemaUpTypes
     DEF DiskInterrupt, EndHlt, DiskInv, DiskTypes, NoneLeft, OneOwner, CommandKnown, Commanded,
         Quiet, Told, RequestMade
<1> QED BY <1>1, <1>2, <1>3, <1>4, <1>5, <1>6 DEF DiskInv

\* It holds when disk_init() has started.
LEMMA DiskStarts == Init => DiskInv
<1> SUFFICES ASSUME Init PROVE DiskInv
  OBVIOUS
<1>1. ready_list \in Seq(Threads)
  <2> DEFINE S == Threads \ {Main, Idle}
             n == Cardinality(S)
  <2>1. IsFiniteSet(S)
    BY DiskAssumption, FS_Subset
  <2>2. n \in Nat /\ ExistsBijection(1..n, S)
    BY <2>1, FS_CardinalityType
  <2>3. \E f \in [1..n -> S] : IsInjective(f)
    BY <2>2 DEF ExistsBijection, Bijection, Injection
  <2>4. SetToSeq(S) \in [1..n -> S]
    BY <2>3 DEF SetToSeq
  <2>5. SetToSeq(S) \in [1..n -> Threads]
    BY <2>4
  <2>6. SetToSeq(S) \in Seq(Threads)
    <3> HIDE DEF n
    <3> QED BY <2>2, <2>5, SeqDef
  <2> QED BY <2>6 DEF Init
<1>2. PICK e \in Devices :
         /\ req = [t \in Threads |-> IF t = Main THEN IdentifyCall(e) ELSE NULL]
         /\ selected = e
  BY DEF Init
<1>3. IdentifyCall(e) \in Requests /\ IdentifyCall(e).op = "identify" /\ IdentifyCall(e) # NULL
  BY RequestIs DEF Requests, IdentifyCall
<1>4. /\ at[Main] = "select" /\ at[Idle] = "idle_sti"
      /\ \A t \in Threads : t \notin {Main, Idle} => at[t] = "client"
      /\ at = [t \in Threads |-> at[t]]
  BY Names DEF Init
<1>5. \A t \in Threads : t # Main => at[t] \in {"client", "idle_sti"}
  BY <1>4
<1>6. DiskTypes
  <2>1. at \in [Threads -> Resting \cup Owning \cup {"acquire"}]
    BY <1>4, <1>5
  <2>2. req \in [Threads -> Requests \cup {NULL}]
    BY <1>2, <1>3
  <2>3. sema_value \in [SemaIds -> Nat] /\ sema_waiters \in [SemaIds -> Seq(Threads)]
    BY DEF Init
  <2>4. sec_no \in Sectors /\ latched \in [Devices -> Sectors]
    BY SectorIs DEF Init
  <2>5. media \in [Devices -> [Sectors -> Values]] /\ data \in [Devices -> Values]
    BY DEF Init
  <2>6. /\ rw_cnt \in [Devices -> [{"read", "write"} -> Nat]] /\ drive \in [Devices -> Drives]
        /\ buffer \in [Threads -> Values \cup {NULL}]
    BY DEF Init, Drives
  <2> QED BY <1>1, <1>2, <2>1, <2>2, <2>3, <2>4, <2>5, <2>6, Names DEF Init, DiskTypes
<1>7. OneOwner
  BY <1>5 DEF OneOwner
<1>8. ChannelLocked
  <2>1. identified # Devices /\ sema_value[ChLock] = 1
    BY DiskAssumption, Names DEF Init
  <2> QED BY <1>4, <1>5, <2>1 DEF ChannelLocked
<1>9. RequestMade
  <2>1. identified # Devices
    BY DiskAssumption DEF Init
  <2> QED BY <1>2, <1>3, <1>4, <1>5, <2>1, Names DEF RequestMade
<1>10. CommandKnown
  BY <1>4, <1>5 DEF CommandKnown
<1>11. NoneLeft
  BY Names DEF NoneLeft, Quiet, Init
<1> QED BY <1>6, <1>7, <1>8, <1>9, <1>10, <1>11 DEF DiskInv

\* Steps that only change what runs.
LEMMA Schedules ==
    ASSUME DiskInv,
           \/ AcquireSleeps
           \/ CompleteSleeps
           \/ PollBusy
           \/ IdleSteps
           \/ TimerInterrupt
    PROVE  DiskInv'
<1>0. DiskTypes
  BY DEF DiskInv
<1>1. /\ ready_list' \in Seq(Threads) /\ current' \in Threads /\ idle_thread' = Idle
      /\ sema_waiters' \in [SemaIds -> Seq(Threads)]
  BY <1>0, Names, SemaSleepTypes, YieldTypes, BlockTypes, TickTypes
  DEF PollBusy, IdleBlock, IdleHlt, TimerInterrupt, TimerTick, DiskTypes
<1>2. UNCHANGED <<sema_value, driverVars, deviceVars>>
  BY Names, SemaSleepTypes
     DEF PollBusy, IdleBlock, IdleHlt, TimerInterrupt, TimerTick, Complete, SemaSleep
<1>3. /\ at' \in [Threads -> Resting \cup Owning \cup {"acquire"}]
      /\ \A t \in Threads : at'[t] = at[t] \/ (at[t] \in Resting /\ at'[t] \in Resting)
  BY <1>0
     DEF PollBusy, frameVars, IdleBlock, IdleHlt, TimerInterrupt, TimerTick, EndHlt, Complete,
         DiskTypes
<1> QED BY <1>1, <1>2, <1>3, OnlyScheduled

\* Every step keeps the invariant.
LEMMA DiskKept == DiskInv /\ [Next]_vars => DiskInv'
<1> SUFFICES ASSUME DiskInv, [Next]_vars PROVE DiskInv'
  OBVIOUS
<1>1. CASE LockStep
  <2>1. CASE at[current] = "acquire" /\ LockAcquire(ChLock)
    BY <1>1, <2>1, Takes, Schedules DEF LockStep, LockAcquire, AtClient
  <2> QED BY <1>1, <2>1, Holds, Releases DEF LockStep
<1>2. CASE Complete
  BY <1>2, Completes, Schedules DEF Complete
<1>3. CASE UNCHANGED vars
  BY <1>3, OnlyScheduled DEF vars, frameVars, DiskInv, DiskTypes
<1> QED
  BY <1>1, <1>2, <1>3, StartCalls, Selects, Issues, Commands, Requested, InputsSector,
     InputsIdentity,
     OutputsSector, Counts, Finishes, DevicesRead, DevicesAccept, DevicesWrite, Interrupts, Schedules
  DEF Next, DriverStep, DeviceStep

\* The invariant says that a command has one completion.
LEMMA CompletionIs == DiskInv => CommandsSound
<1> SUFFICES ASSUME DiskInv PROVE CommandsSound
  OBVIOUS
<1>0. /\ sema_value[Completion] \in Nat /\ selected \in Devices /\ current \in Threads
      /\ \A t \in Threads : at[t] \in Under => req[t].op \in {"identify", "read", "write"}
  BY Names, RequestIs DEF DiskInv, DiskTypes, RequestMade
<1>1. Cardinality({}) = 0 /\ \A x : Cardinality({x}) = 1
  BY FS_EmptySet, FS_Singleton
<1>2. CASE \A t \in Threads : at[t] \notin Under
  <2>1. Awaiting = {} /\ Working = {} /\ Quiet
    BY <1>2 DEF Awaiting, Working, Busy, DiskInv, NoneLeft
  <2> QED BY <1>0, <1>1, <1>2, <2>1 DEF CommandsSound, OneCompletion, NoPanic, Quiet
<1>3. ASSUME NEW t \in Threads, at[t] \in Under PROVE CommandsSound
  <2>1. Commanded(t, drive[selected]) /\ \A u \in Threads : at[u] \in Under => u = t
    BY <1>3 DEF DiskInv, CommandKnown, OneOwner
  <2>2. Awaiting \in {{}, {t}}
    BY <1>3, <2>1 DEF Awaiting
  <2>3. Working \in {{}, {selected}}
    BY <1>0, <2>1 DEF Working, Commanded, Busy
  <2>4. /\ t \in Awaiting <=>
              at[t] = "complete" \/ (at[t] \in {"wait_drq", "output"} /\ req[t].op = "write")
        /\ selected \in Working <=> drive[selected] \in Busy \cup {"wants_data"}
    BY <1>0 DEF Awaiting, Working
  <2>5. \/ Awaiting = {} /\ Working = {} /\ Quiet
        \/ Awaiting = {t} /\ Working = {selected} /\ Quiet
        \/ Awaiting = {t} /\ Working = {} /\ Told
    <3>1. CASE at[t] = "complete"
      BY <1>0, <2>1, <2>2, <2>3, <2>4, <3>1 DEF Commanded, Busy
    <3>2. CASE at[t] \in {"wait_drq", "input"}
      BY <1>0, <2>1, <2>2, <2>3, <2>4, <3>2 DEF Commanded, Busy
    <3>3. CASE at[t] = "output"
      BY <1>0, <2>1, <2>2, <2>3, <2>4, <3>3 DEF Commanded, Busy
    <3> QED BY <1>3, <3>1, <3>2, <3>3
  <2>6. OneCompletion
    <3>1. CASE Awaiting = {} /\ Working = {} /\ Quiet
      BY <1>1, <3>1 DEF OneCompletion, Quiet
    <3>2. CASE Awaiting = {t} /\ Working = {selected} /\ Quiet
      <4>1. Cardinality(Awaiting) = 1 /\ Cardinality(Working) = 1
        BY <1>1, <3>2
      <4> QED BY <3>2, <4>1 DEF OneCompletion, Quiet
    <3>3. CASE Awaiting = {t} /\ Working = {} /\ Told
      <4>1. Cardinality(Awaiting) = 1 /\ Cardinality(Working) = 0
        BY <1>1, <3>3
      <4> QED BY <3>3, <4>1 DEF OneCompletion, Told
    <3> QED BY <2>5, <3>1, <3>2, <3>3
  <2>7. NoPanic
    BY <1>0, <2>1 DEF NoPanic, Commanded
  <2> QED BY <2>6, <2>7 DEF CommandsSound
<1> QED BY <1>2, <1>3

(***************************************************************************)
(* CommandsSound always holds: devices/disk.c tells each thread of the end *)
(* of its own command, once, and never finds the channel in a state that   *)
(* another command left behind.                                            *)
(***************************************************************************)
THEOREM CommandsAreSound == Spec => []CommandsSound
<1>1. Init => DiskInv
  BY DiskStarts
<1>2. DiskInv /\ [Next]_vars => DiskInv'
  BY DiskKept
<1>3. DiskInv => CommandsSound
  BY CompletionIs
<1> QED BY <1>1, <1>2, <1>3, PTL DEF Spec
----------------------------------------------------------------------------
(* The driver implements DiskStore.                                        *)

\* What Disk shows of DiskStore's state: the calls,
CallOf == [t \in Threads |-> IF t \in Calling THEN req[t] ELSE NULL]

\* those that have been served,
ServedOf == [t \in Threads |-> Served(t)]

\* their results,
ResultsOf == [t \in Threads |-> ResultOf(t)]

\* and all of it.
StoreVars == <<media, CallOf, ServedOf, ResultsOf, rw_cnt>>

\* A thread shows the same before and after a step.
SameView(t) ==
    /\ t \in Calling' <=> t \in Calling
    /\ t \in Calling => req'[t] = req[t]
    /\ Served(t)' <=> Served(t)
    /\ Served(t) => ResultOf(t)' = ResultOf(t)

\* What a thread shows, one by one.
LEMMA ViewIs ==
    ASSUME NEW t \in Threads
    PROVE  /\ t \in Calling <=> req[t] # NULL /\ req[t].op # "identify"
           /\ Served(t) => t \in Calling /\ at[t] \in Showing
           /\ ~Served(t) => ResultOf(t) = NULL
           /\ (t \in Calling)' <=> req'[t] # NULL /\ req'[t].op # "identify"
           /\ Served(t)' => (t \in Calling)' /\ at'[t] \in Showing
           /\ ~Served(t)' => ResultOf(t)' = NULL
  BY DEF Calling, Served, ResultOf

\* Served(t) is a truth value.
LEMMA SameServed ==
    ASSUME NEW t \in Threads, Served(t)' <=> Served(t)
    PROVE  Served(t)' = Served(t)
  BY Zenon DEF Served

\* If each thread shows the same, nothing changes in DiskStore.
LEMMA SameViews ==
    ASSUME UNCHANGED <<media, rw_cnt>>, \A t \in Threads : SameView(t)
    PROVE  UNCHANGED StoreVars
<1>1. CallOf' = CallOf
  BY DEF CallOf, SameView
<1>2. ServedOf' = ServedOf
  <2>1. \A t \in Threads : Served(t)' = Served(t)
    BY SameServed DEF SameView
  <2> QED BY <2>1 DEF ServedOf
<1>3. \A t \in Threads : ResultOf(t)' = ResultOf(t)
  BY ViewIs DEF SameView
<1>4. ResultsOf' = ResultsOf
  BY <1>3 DEF ResultsOf
<1> QED BY <1>1, <1>2, <1>4 DEF StoreVars

\* A thread that is between two other statements shows the same.
LEMMA Elsewhere ==
    ASSUME NEW t \in Threads, req'[t] = req[t],
           at[t] \notin Showing,
           at'[t] \notin Showing
    PROVE  SameView(t) /\ ~Served(t) /\ ~Served(t)'
  BY ViewIs DEF SameView

\* The threads beside the owner of the channel show the same.
LEMMA OthersShow ==
    ASSUME DiskInv, NEW o \in Threads, at[o] \in Owning,
           \A t \in Threads : t # o => at'[t] = at[t] /\ req'[t] = req[t]
    PROVE  \A t \in Threads : t # o => SameView(t) /\ ~Served(t) /\ ~Served(t)'
<1>1. \A t \in Threads : t # o => at[t] \notin Owning
  BY DEF DiskInv, OneOwner
<1> QED BY <1>1, Elsewhere

\* The steps that change none of what is shown.
LEMMA QuietSteps ==
    ASSUME DiskInv, UNCHANGED <<req, buffer, rw_cnt, drive, data, media>>,
           \A t \in Threads : at'[t] = at[t]
              \/ (at[t] \notin Showing /\ at'[t] \notin Showing)
    PROVE  UNCHANGED StoreVars
<1>1. ASSUME NEW t \in Threads PROVE SameView(t)
  <2>1. CASE at'[t] = at[t]
    BY <2>1 DEF SameView, Calling, Served, ResultOf
  <2>2. CASE at'[t] # at[t]
    BY <2>2, Elsewhere
  <2> QED BY <2>1, <2>2
<1> QED BY <1>1, SameViews

\* The steps of the owner that show nothing.
LEMMA OwnerSteps ==
    ASSUME DiskInv, Command \/ CompleteTakes
                    \/ DataRequested \/ InputSector \/ InputIdentity \/ OutputSector
    PROVE  UNCHANGED StoreVars
<1>00. PICK o \in Threads : o = current
  BY DEF DiskInv, DiskTypes
<1>0. /\ o = current /\ req[o] \in Requests /\ req[o].dev \in Devices /\ req[o] # NULL
      /\ req[o].op \in {"identify", "read", "write"}
      /\ at[o] \in Driving
  BY <1>00, RequestIs
     DEF Command, Complete, DataRequested, InputSector, InputIdentity, OutputSector, DiskInv,
         DiskTypes, RequestMade
<1>1. \A t \in Threads : t # o => at'[t] = at[t] /\ req'[t] = req[t]
  BY <1>0
     DEF Command, Complete, DataRequested, InputSector, InputIdentity, OutputSector, DiskInv,
         DiskTypes
<1>2. \A t \in Threads : t # o => SameView(t)
  BY <1>0, <1>1, OthersShow
<1>3. UNCHANGED <<media, rw_cnt>>
  BY DEF Command, Complete, DataRequested, InputSector, InputIdentity, OutputSector
<1>4. at[o] \in Under => Commanded(o, drive[selected])
  BY <1>0 DEF DiskInv, CommandKnown
<1>5. CASE Command
  <2>1. /\ at[o] = "command" /\ selected = req[o].dev /\ req' = req
        /\ drive'[selected] \in {"identifying", "reading", "accepting"}
    BY <1>0, <1>5 DEF Command, Op, DiskInv, DiskTypes, CommandKnown
  <2>2. at'[o] # "count"
    BY <1>0, <1>5 DEF Command, DiskInv, DiskTypes
  <2>3. SameView(o)
    BY <1>0, <2>1, <2>2 DEF SameView, Served, Calling
  <2> QED BY <1>2, <1>3, <2>3, SameViews
<1>6. CASE CompleteTakes
  <2>1. /\ at[o] = "complete" /\ selected = req[o].dev /\ UNCHANGED <<req, drive, data, buffer>>
        /\ at'[o] = IF req[o].op = "write" THEN "count" ELSE "wait_drq"
    BY <1>0, <1>4, <1>6 DEF Complete, Commanded, Op, DiskInv, DiskTypes
  <2>2. req[o].op = "write" => drive[selected] = "idle"
    <3>1. sema_value[Completion] > 0
      BY <1>6 DEF SemaTake
    <3> QED BY <1>4, <2>1, <3>1 DEF Commanded, Quiet
  <2>3. SameView(o)
    BY <1>0, <2>1, <2>2 DEF SameView, Served, Calling, ResultOf
  <2> QED BY <1>2, <1>3, <2>3, SameViews
<1>7. CASE DataRequested
  <2>1. /\ at[o] = "wait_drq" /\ UNCHANGED <<req, drive, data, buffer>>
        /\ at'[o] = IF req[o].op = "write" THEN "output" ELSE "input"
    BY <1>0, <1>7 DEF DataRequested, Op, DiskInv, DiskTypes
  <2>2. SameView(o)
    BY <1>0, <2>1 DEF SameView, Served, Calling, ResultOf
  <2> QED BY <1>2, <1>3, <2>2, SameViews
<1>8. CASE InputSector
  <2>1. /\ at[o] = "input" /\ req' = req /\ at'[o] = "count" /\ req[o].op = "read"
        /\ selected = req[o].dev /\ drive[selected] = "data_ready" /\ buffer'[o] = data[selected]
    BY <1>0, <1>4, <1>8 DEF InputSector, Op, Commanded, DiskInv, DiskTypes
  <2>2. SameView(o)
    BY <1>0, <2>1 DEF SameView, Served, Calling, ResultOf
  <2> QED BY <1>2, <1>3, <2>2, SameViews
<1>9. CASE InputIdentity
  <2>1. o \notin Calling
    BY <1>0, <1>9, ViewIs DEF InputIdentity, Op
  <2>2. req'[o] = NULL \/ req'[o].op = "identify"
    <3>1. \A d \in Devices : IdentifyCall(d).op = "identify"
      BY DEF IdentifyCall
    <3> QED BY <1>0, <1>9, <3>1 DEF InputIdentity, DiskInv, DiskTypes
  <2>3. SameView(o)
    BY <1>0, <2>1, <2>2, ViewIs DEF SameView
  <2> QED BY <1>2, <1>3, <2>3, SameViews
<1>10. CASE OutputSector
  <2>1. /\ at[o] = "output" /\ req' = req /\ at'[o] = "complete" /\ req[o].op = "write"
        /\ selected = req[o].dev /\ drive'[selected] = "writing"
    BY <1>0, <1>4, <1>10 DEF OutputSector, Commanded, DiskInv, DiskTypes
  <2>2. SameView(o)
    BY <1>0, <2>1 DEF SameView, Served, Calling
  <2> QED BY <1>2, <1>3, <2>2, SameViews
<1> QED BY <1>5, <1>6, <1>7, <1>8, <1>9, <1>10

\* The steps that only move threads from one statement to another.
LEMMA QuietActions ==
    ASSUME DiskInv, LockStep \/ Select \/ Issue \/ CompleteSleeps \/ PollBusy
                    \/ FinishCall \/ IdleSteps
                    \/ DiskInterrupt \/ TimerInterrupt \/ UNCHANGED vars
    PROVE  UNCHANGED StoreVars
<1>1. DiskTypes
  BY DEF DiskInv
<1>2. UNCHANGED <<req, buffer, rw_cnt, drive, data, media>>
  BY
     DEF LockStep, Select, Issue, Complete, PollBusy, FinishCall, DiskInterrupt, TimerInterrupt,
         vars
<1>3. \A t \in Threads : at'[t] = at[t]
              \/ (at[t] \notin Showing /\ at'[t] \notin Showing)
  <2>1. CASE LockStep
    BY <1>1, <2>1 DEF LockStep, LockAcquire, SetHolder, ReleaseUp, AtClient, DiskTypes
  <2>2. CASE Select \/ Issue \/ FinishCall
    BY <1>1, <2>2 DEF Select, Issue, FinishCall, DiskTypes
  <2>3. CASE CompleteSleeps
    BY <1>1, <2>3 DEF Complete, DiskTypes
  <2>4. CASE PollBusy \/ UNCHANGED vars
    BY <2>4 DEF PollBusy, frameVars, vars
  <2>5. CASE IdleSteps
    BY <1>1, <2>5 DEF IdleBlock, IdleHlt, DiskTypes
  <2>6. CASE DiskInterrupt \/ TimerInterrupt
    BY <1>1, <2>6 DEF DiskInterrupt, TimerInterrupt, TimerTick, EndHlt, DiskTypes
  <2> QED BY <2>1, <2>2, <2>3, <2>4, <2>5, <2>6
<1> QED BY <1>2, <1>3, QuietSteps

\* A thread starts a call.
LEMMA CallsStart ==
    ASSUME DiskInv, \E c \in Calls : StartCall(c)
    PROVE  \E t \in Threads : Abstract!Call(t)
<1>1. PICK c \in Calls : StartCall(c)
  OBVIOUS
<1>2. PICK o \in Threads : o = current
  BY DEF DiskInv, DiskTypes
<1>3. c # NULL /\ c.op # "identify"
  BY RequestIs DEF Requests, Calls
<1>4. /\ at[o] = "client" /\ at'[o] = "acquire" /\ req[o] = NULL /\ req'[o] = c
      /\ \A t \in Threads : t # o => at'[t] = at[t] /\ req'[t] = req[t]
      /\ UNCHANGED <<buffer, rw_cnt, drive, data, media>>
  BY <1>1, <1>2 DEF StartCall, AtClient, DiskInv, DiskTypes, RequestMade
<1>5. \A t \in Threads : t # o => SameView(t)
  BY <1>4 DEF SameView, Calling, Served, ResultOf
<1>6. ~Served(o) /\ ~Served(o)' /\ o \notin Calling /\ (o \in Calling)'
  BY <1>3, <1>4, ViewIs
<1>7. CallOf' = [CallOf EXCEPT ![o] = c] /\ CallOf[o] = NULL
  BY <1>4, <1>5, <1>6 DEF CallOf, SameView
<1>8. \A t \in Threads : (Served(t)' <=> Served(t)) /\ ResultOf(t)' = ResultOf(t)
  BY <1>5, <1>6, ViewIs DEF SameView
<1>9. \A t \in Threads : Served(t)' = Served(t)
  BY <1>8, SameServed
<1>10. ServedOf' = ServedOf /\ ResultsOf' = ResultsOf
  BY <1>8, <1>9 DEF ServedOf, ResultsOf
<1> QED BY <1>4, <1>7, <1>10 DEF Abstract!Call, CallOf, ServedOf, ResultsOf

\* It is counted, and returns.
LEMMA CallsReturned ==
    ASSUME DiskInv, CountCall
    PROVE  \E t \in Threads : Abstract!Return(t)
<1>1. PICK o \in Threads : o = current
  BY DEF DiskInv, DiskTypes
<1>2. /\ at[o] = "count" /\ at'[o] = "finish"
      /\ req[o] # NULL /\ req[o].op # "identify" /\ req'[o] = NULL
      /\ \A t \in Threads : t # o => at'[t] = at[t] /\ req'[t] = req[t]
      /\ UNCHANGED <<drive, data, media>>
  <2>1. identified = Devices
    BY DEF CountCall, DiskInv, DiskTypes, ChannelLocked, OneOwner
  <2> QED BY <1>1, <2>1 DEF CountCall, DiskInv, DiskTypes, RequestMade
<1>3. \A t \in Threads : t # o => SameView(t)
  BY <1>2, OthersShow
<1>4. /\ o \in Calling /\ Served(o) /\ ~Served(o)' /\ ~(o \in Calling)' /\ ResultOf(o)' = NULL
  BY <1>2, ViewIs DEF Served
<1>5. /\ CallOf' = [CallOf EXCEPT ![o] = NULL] /\ CallOf[o] = req[o]
  BY <1>3, <1>4 DEF CallOf, SameView
<1>6. \A t \in Threads : t # o => Served(t)' = Served(t) /\ ResultOf(t)' = ResultOf(t)
  <2>1. \A t \in Threads : t # o => (Served(t)' <=> Served(t)) /\ ResultOf(t)' = ResultOf(t)
    BY <1>3, ViewIs DEF SameView
  <2> QED BY <2>1, SameServed
<1>7. ServedOf' = [ServedOf EXCEPT ![o] = FALSE] /\ ServedOf[o]
  <2>1. Served(o)' = FALSE
    BY <1>4, Zenon DEF Served
  <2> QED BY <1>4, <1>6, <2>1 DEF ServedOf
<1>8. ResultsOf' = [ResultsOf EXCEPT ![o] = NULL]
  BY <1>4, <1>6 DEF ResultsOf
<1>9. rw_cnt' = [rw_cnt EXCEPT ![req[o].dev][req[o].op] = @ + 1]
  BY <1>1 DEF CountCall, Op
<1> QED BY <1>2, <1>5, <1>7, <1>8, <1>9 DEF Abstract!Return, CallOf, ServedOf, ResultsOf

\* A device works for the thread that waits for its interrupt.
LEMMA WorkIsFor ==
    ASSUME DiskInv, NEW d \in Devices, drive[d] \in {"identifying", "reading", "writing"}
    PROVE  \E t \in Threads :
              /\ at[t] = "complete" /\ req[t] # NULL /\ req[t].dev = d /\ latched[d] = req[t].sec
              /\ \A u \in Threads : u # t => at[u] \notin Owning
              /\ drive[d] = "identifying" => req[t].op = "identify"
              /\ drive[d] = "reading" => req[t].op = "read"
              /\ drive[d] = "writing" => req[t].op = "write" /\ data[d] = req[t].val
<1>1. PICK t \in Threads : at[t] \in Under
  BY DEF DiskInv, NoneLeft
<1>2. /\ Commanded(t, drive[selected])
      /\ req[t] # NULL /\ req[t].op \in {"identify", "read", "write"}
      /\ \A u \in Threads : u # t => at[u] \notin Owning
  BY <1>1, RequestIs DEF DiskInv, DiskTypes, CommandKnown, RequestMade, OneOwner
<1>3. d = selected
  BY <1>2 DEF Commanded
<1>4. at[t] = "complete"
  BY <1>1, <1>2, <1>3 DEF Commanded
<1> QED BY <1>2, <1>3, <1>4 DEF Commanded

\* What a step of a device shows, of the thread it works for.
LEMMA Serves ==
    ASSUME DiskInv, NEW o \in Threads, at[o] = "complete", UNCHANGED <<at, req, buffer, rw_cnt>>,
           \A u \in Threads : u # o => at[u] \notin Owning
    PROVE  /\ CallOf' = CallOf
           /\ \A t \in Threads : t # o => Served(t)' = Served(t) /\ ResultOf(t)' = ResultOf(t)
           /\ Served(o)' = Served(o) => ServedOf' = ServedOf
           /\ Served(o)' /\ ~Served(o) => ServedOf' = [ServedOf EXCEPT ![o] = TRUE] /\ ~ServedOf[o]
           /\ ResultsOf' = [ResultsOf EXCEPT ![o] = ResultOf(o)']
           /\ ResultOf(o)' = ResultOf(o) => ResultsOf' = ResultsOf
<1>1. \A t \in Threads : (t \in Calling)' <=> t \in Calling
  BY ViewIs
<1>2. CallOf' = CallOf
  BY <1>1 DEF CallOf
<1>3. \A t \in Threads : t # o => ~Served(t) /\ ~Served(t)'
  BY ViewIs
<1>4. \A t \in Threads : t # o => Served(t)' = Served(t) /\ ResultOf(t)' = ResultOf(t)
  BY <1>3, ViewIs, SameServed
<1>5. Served(o)' = Served(o) => ServedOf' = ServedOf
  BY <1>4 DEF ServedOf
<1>6. Served(o)' /\ ~Served(o) => ServedOf' = [ServedOf EXCEPT ![o] = TRUE] /\ ~ServedOf[o]
  BY <1>4 DEF ServedOf
<1>7. ResultsOf' = [ResultsOf EXCEPT ![o] = ResultOf(o)']
  BY <1>4 DEF ResultsOf
<1>8. ResultOf(o)' = ResultOf(o) => ResultsOf' = ResultsOf
  BY <1>4 DEF ResultsOf
<1> QED BY <1>2, <1>4, <1>5, <1>6, <1>7, <1>8

\* A read takes its sector when the device does.
LEMMA ReadsServe ==
    ASSUME DiskInv, NEW d \in Devices, DeviceReads(d)
    PROVE  (\E t \in Threads : Abstract!Serve(t)) \/ UNCHANGED StoreVars
<1>1. PICK o \in Threads :
              /\ at[o] = "complete" /\ req[o] # NULL /\ req[o].dev = d /\ latched[d] = req[o].sec
              /\ \A u \in Threads : u # o => at[u] \notin Owning
              /\ drive[d] = "identifying" => req[o].op = "identify"
              /\ drive[d] = "reading" => req[o].op = "read"
  BY WorkIsFor DEF DeviceReads
<1>2. UNCHANGED <<at, req, buffer, rw_cnt, media>>
  BY DEF DeviceReads, frameVars
<1>3. CASE drive[d] = "identifying"
  <2>1. ~Served(o) /\ ~Served(o)' /\ ResultOf(o) = NULL /\ ResultOf(o)' = NULL
    BY <1>1, <1>2, <1>3, ViewIs
  <2>2. Served(o)' = Served(o)
    BY <2>1, SameServed
  <2> QED BY <1>1, <1>2, <2>1, <2>2, Serves DEF StoreVars
<1>4. CASE drive[d] = "reading"
  <2>1. drive'[d] = "data_ready" /\ data'[d] = media[d][latched[d]]
    BY <1>4 DEF DeviceReads, DiskInv, DiskTypes
  <2>2. o \in Calling /\ (o \in Calling)'
    BY <1>1, <1>2, <1>4, ViewIs
  <2>3. ~Served(o)
    BY <1>1, <1>4 DEF Served
  <2>4. Served(o)' /\ ResultOf(o)' = media[d][req[o].sec]
    BY <1>1, <1>2, <1>4, <2>1, <2>2 DEF Served, ResultOf
  <2>5. /\ CallOf' = CallOf /\ CallOf[o] = req[o]
        /\ ServedOf' = [ServedOf EXCEPT ![o] = TRUE] /\ ~ServedOf[o]
        /\ ResultsOf' = [ResultsOf EXCEPT ![o] = media[d][req[o].sec]]
    BY <1>1, <1>2, <2>2, <2>3, <2>4, Serves DEF CallOf
  <2>6. Abstract!Serve(o)
    BY <1>1, <1>2, <1>4, <2>5 DEF Abstract!Serve, CallOf, ServedOf, ResultsOf
  <2> QED BY <2>6
<1> QED BY <1>3, <1>4 DEF DeviceReads

\* A write changes its sector when the device does.
LEMMA WritesServe ==
    ASSUME DiskInv, NEW d \in Devices, DeviceWrites(d)
    PROVE  \E t \in Threads : Abstract!Serve(t)
<1>1. PICK o \in Threads :
              /\ at[o] = "complete" /\ req[o] # NULL /\ req[o].dev = d /\ latched[d] = req[o].sec
              /\ \A u \in Threads : u # o => at[u] \notin Owning
              /\ req[o].op = "write" /\ data[d] = req[o].val
  BY WorkIsFor DEF DeviceWrites
<1>2. UNCHANGED <<at, req, buffer, rw_cnt>> /\ drive[d] = "writing" /\ drive'[d] = "idle"
  BY DEF DeviceWrites, frameVars, DiskInv, DiskTypes
<1>3. o \in Calling /\ (o \in Calling)'
  BY <1>1, <1>2, ViewIs
<1>4. ~Served(o) /\ Served(o)'
  BY <1>1, <1>2, <1>3 DEF Served
<1>5. ResultOf(o) = NULL /\ ResultOf(o)' = NULL
  BY <1>1, <1>2 DEF ResultOf
<1>6. /\ CallOf' = CallOf /\ CallOf[o] = req[o]
      /\ ServedOf' = [ServedOf EXCEPT ![o] = TRUE] /\ ~ServedOf[o]
      /\ ResultsOf' = ResultsOf
  BY <1>1, <1>2, <1>3, <1>4, <1>5, Serves DEF CallOf
<1>7. media' = [media EXCEPT ![req[o].dev][req[o].sec] = req[o].val]
  BY <1>1 DEF DeviceWrites
<1> QED BY <1>1, <1>2, <1>6, <1>7 DEF Abstract!Serve, CallOf, ServedOf, ResultsOf

\* A device gets ready for the data of a write.
LEMMA AcceptsShow ==
    ASSUME DiskInv, NEW d \in Devices, DeviceAccepts(d)
    PROVE  UNCHANGED StoreVars
<1>1. UNCHANGED <<at, req, buffer, rw_cnt, data, media>>
  BY DEF DeviceAccepts, frameVars
<1>2. /\ drive[d] = "accepting" /\ drive'[d] = "wants_data"
      /\ \A e \in Devices : e # d => drive'[e] = drive[e]
  BY DEF DeviceAccepts, DiskInv, DiskTypes
<1>3. ASSUME NEW t \in Threads PROVE SameView(t)
  <2>1. t \in Calling => req[t].dev \in Devices
    BY ViewIs, RequestIs DEF DiskInv, DiskTypes
  <2>2. t \in Calling => (Served(t)' <=> Served(t)) /\ (Served(t) => ResultOf(t)' = ResultOf(t))
    BY <1>1, <1>2, <2>1, ViewIs DEF Served, ResultOf
  <2> QED BY <1>1, <2>2, ViewIs DEF SameView
<1> QED BY <1>1, <1>3, SameViews

\* Each step of the driver, of a device or of the kernel is a step of DiskStore, or shows nothing.
LEMMA StepsAreStores == DiskInv /\ [Next]_vars => [Abstract!Next]_StoreVars
<1> SUFFICES ASSUME DiskInv, [Next]_vars PROVE Abstract!Next \/ UNCHANGED StoreVars
  OBVIOUS
<1>1. CASE \E c \in Calls : StartCall(c)
  BY <1>1, CallsStart DEF Abstract!Next
<1>2. CASE CountCall
  BY <1>2, CallsReturned DEF Abstract!Next
<1>3. CASE DeviceStep
  BY <1>3, ReadsServe, WritesServe, AcceptsShow DEF DeviceStep, Abstract!Next
<1>4. CASE Complete
  BY <1>4, OwnerSteps, QuietActions DEF Complete
<1> QED BY <1>1, <1>2, <1>3, <1>4, OwnerSteps, QuietActions DEF Next, DriverStep

\* DiskStore starts with no call under way.
LEMMA StoreStarts == Init => Abstract!Init
<1> SUFFICES ASSUME Init PROVE Abstract!Init
  OBVIOUS
<1>1. PICK e \in Devices : req = [t \in Threads |-> IF t = Main THEN IdentifyCall(e) ELSE NULL]
  BY DEF Init
<1>2. \A t \in Threads : t \notin Calling
  BY <1>1, ViewIs DEF IdentifyCall
<1>3. \A t \in Threads : Served(t) = FALSE /\ ResultOf(t) = NULL
  BY <1>2, ViewIs
<1>4. /\ CallOf = [t \in Threads |-> NULL] /\ ServedOf = [t \in Threads |-> FALSE]
      /\ ResultsOf = [t \in Threads |-> NULL]
  BY <1>2, <1>3 DEF CallOf, ServedOf, ResultsOf
<1>5. /\ media \in [Devices -> [Sectors -> Values]]
      /\ rw_cnt = [d \in Devices |-> [op \in {"read", "write"} |-> 0]]
  BY DEF Init
<1> QED BY <1>4, <1>5 DEF Abstract!Init, CallOf, ServedOf, ResultsOf

(***************************************************************************)
(* SectorsAreAtomic: each disk_read() and disk_write() of devices/disk.c   *)
(* reads or writes its own sector, whole, at one moment of the call, and   *)
(* is counted for its disk when it returns.                                *)
(***************************************************************************)
THEOREM DiskImplementsStore == Spec => SectorsAreAtomic
<1>1. Init => Abstract!Init
  BY StoreStarts
<1>2. DiskInv /\ [Next]_vars => [Abstract!Next]_StoreVars
  BY StepsAreStores
<1>5. Init => DiskInv
  BY DiskStarts
<1>6. DiskInv /\ [Next]_vars => DiskInv'
  BY DiskKept
<1> QED BY <1>1, <1>2, <1>5, <1>6, PTL DEF Spec, SectorsAreAtomic, Abstract!Spec, Abstract!vars,
     StoreVars, CallOf, ServedOf, ResultsOf
=============================================================================

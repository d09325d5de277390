---------------------------- MODULE UserProg ----------------------------
(***************************************************************************)
(* userprog/process.c: a process is created, loads its program, runs and   *)
(* exits, while a timer interrupt may switch to any other thread at every  *)
(* step.  Main is the thread that runs the actions of the command line.    *)
(* A byte of a program at offset o of its file is o + 1; JUNK is a byte of *)
(* a page that was never written, and p one that process p stored.        *)
(***************************************************************************)
EXTENDS PageTable, TLC

CONSTANTS Procs, Main, Programs, StoreVas, KernelPools, UserPools, KernelTables,
    JUNK, U32, USER_STACK,
    MaxPreemptions  \* bound of the model: switches away from a process that could go on

\* A program header: one of a type that load() ignores, one that it refuses or
\* cannot read, and a segment.
Phdrs ==
    [type : {"ignored", "short", "refused"}]
    \cup [type : {"PT_LOAD"}, offset : Nat, vaddr : Nat, filesz : Nat, memsz : Nat, rw : BOOLEAN]

ASSUME UserProgAssumption ==
    /\ Main \notin Procs /\ NONE \notin Int \cup (Int \X Int) /\ USER_STACK \in Int
    /\ Programs \subseteq [exists : BOOLEAN, valid : BOOLEAN, size : Nat, phdrs : Seq(Phdrs)]
    /\ \A k \in KernelPools : k \in Nat /\ 1..k \cap DOMAIN KernelTables = {}

\* The kernel's tables are at four levels below base_pml4, whose entry 0 is empty:
\* paging_init() (init.c) maps addresses from LOADER_KERN_BASE on.
ASSUME KernelTablesAssumption ==
    /\ Base \in DOMAIN KernelTables /\ DOMAIN KernelTables \subseteq Int
    /\ KernelTables = [t \in DOMAIN KernelTables |-> [i \in 0..(FAN - 1) |-> KernelTables[t][i]]]
    /\ \E level \in [DOMAIN KernelTables -> 0..3] :
        /\ level[Base] = 3
        /\ \A t \in DOMAIN KernelTables : level[t] = 3 => KernelTables[t][0] = NONE
        /\ \A t \in DOMAIN KernelTables : \A i \in 0..(FAN - 1) :
            LET e == KernelTables[t][i] IN
            level[t] = 0 \/ e = NONE \/ (e \in DOMAIN KernelTables /\ level[e] = level[t] - 1)

VARIABLES
    m,              \* the page tables and the free pages
    data,           \* the bytes of the pages of the user pool
    th,             \* the struct thread of each process, and where it is
    running, cr3,
    rsp0,           \* the thread whose stack the TSS names
    panicked,
    preempted
vars == <<m, data, th, running, cr3, rsp0, panicked, preempted>>

MinOf(a, b) == IF a < b THEN a ELSE b
RoundDown(n) == n - (n % PGSIZE)
RoundUp(n) == RoundDown(n + PGSIZE - 1)
Filled(byte) == [o \in 0..(PGSIZE - 1) |-> byte]

Dead == [pc |-> "none", arg |-> NONE, stack |-> NONE, pml4 |-> NONE, old |-> NONE, after |-> "create",
         prog |-> NONE, file |-> FALSE, success |-> FALSE, i |-> 1,
         upage |-> 0, read |-> 0, zero |-> 0, pos |-> 0, rw |-> FALSE, kpage |-> NONE]

Init ==
    /\ \E k \in KernelPools, u \in UserPools :
        m = [tables |-> KernelTables, free |-> [kernel |-> 1..k, user |-> 1..u]]
    /\ data = [f \in {} |-> 0]
    /\ th = [p \in Procs |-> Dead]
    /\ running = Main /\ cr3 = Base /\ rsp0 = Main /\ panicked = FALSE /\ preempted = 0

At(p, pc) == running = p /\ th[p].pc = pc /\ ~panicked
Becomes(p, t) == th' = [th EXCEPT ![p] = t]
Goes(p, pc) == Becomes(p, [th[p] EXCEPT !.pc = pc])
SameCpu == UNCHANGED <<running, cr3, rsp0, panicked, preempted>>
SameMemory == UNCHANGED <<m, data>>

-----------------------------------------------------------------------------
\* process_create_initd(), by Main: a page for the name, then one for the thread.
CopyName(p) ==
    /\ running = Main /\ ~panicked /\ th[p].pc = "none" /\ \A q \in Procs : th[q].pc # "named"
    /\ \E prog \in Programs : LET f == Alloc(m, "kernel") IN
        /\ m' = IF f = NONE THEN m ELSE Taken(m, "kernel", f)
        /\ Becomes(p, [th[p] EXCEPT !.pc = IF f = NONE THEN "dead" ELSE "named", !.arg = f, !.prog = prog])
    /\ SameCpu /\ UNCHANGED data

ThreadCreate(p) ==
    /\ running = Main /\ ~panicked /\ th[p].pc = "named"
    /\ LET f == Alloc(m, "kernel") IN
        IF f = NONE THEN m' = Given(m, "kernel", th[p].arg) /\ Becomes(p, [th[p] EXCEPT !.pc = "dead", !.arg = NONE])
        ELSE m' = Taken(m, "kernel", f) /\ Becomes(p, [th[p] EXCEPT !.pc = "clear", !.stack = f])
    /\ SameCpu /\ UNCHANGED data

\* process_activate(), by the scheduler: also frees the threads that died before.
Runnable == {Main} \union {p \in Procs : th[p].pc \notin {"none", "named", "dying", "queued", "dead"}}
Switch(u) ==
    /\ ~panicked /\ u \in Runnable \ {running}
    /\ LET gone == {p \in Procs : th[p].pc = "queued"} IN
        /\ m' = [m EXCEPT !.free["kernel"] = @ \union {th[p].stack : p \in gone}]
        /\ th' = [p \in Procs |->
                    CASE p \in gone -> [Dead EXCEPT !.pc = "dead"]
                      [] p = running /\ th[p].pc = "dying" -> [th[p] EXCEPT !.pc = "queued"]
                      [] OTHER -> th[p]]
    /\ running' = u /\ rsp0' = u
    /\ cr3' = IF u = Main \/ th[u].pml4 = NONE THEN Base ELSE th[u].pml4
    /\ preempted' = preempted + (IF running = Main \/ th[running].pc = "dying" THEN 0 ELSE 1)
    /\ preempted' <= MaxPreemptions
    /\ UNCHANGED <<data, panicked>>

-----------------------------------------------------------------------------
\* Mutant: curr->pml4 is left in place until the tables are gone.
ClearLate(p) ==
    /\ At(p, "clear")
    /\ IF th[p].pml4 = NONE THEN Goes(p, th[p].after) ELSE Becomes(p, [th[p] EXCEPT !.pc = "base", !.old = th[p].pml4])
    /\ SameCpu /\ SameMemory

\* process_cleanup(), of process_exec() and process_exit(), in the order its comment asks for.
Clear(p) ==
    /\ At(p, "clear")
    /\ IF th[p].pml4 = NONE THEN Goes(p, th[p].after)
       ELSE Becomes(p, [th[p] EXCEPT !.pc = "base", !.old = th[p].pml4, !.pml4 = NONE])
    /\ SameCpu /\ SameMemory

ActivateBase(p) ==
    /\ At(p, "base")
    /\ cr3' = Base /\ Goes(p, "destroy")
    /\ SameMemory /\ UNCHANGED <<running, rsp0, panicked, preempted>>

Destroy(p) ==
    /\ At(p, "destroy")
    /\ m' = Pml4Destroy(m, th[p].old)
    /\ data' = [f \in DOMAIN data \ m'.free.user |-> data[f]]
    /\ Becomes(p, [th[p] EXCEPT !.pc = th[p].after, !.old = NONE])
    /\ SameCpu

-----------------------------------------------------------------------------
\* load().
CreatePml4(p) ==
    /\ At(p, "create")
    /\ LET c == Pml4Create(m) IN
        m' = c.m /\ Becomes(p, [th[p] EXCEPT !.pc = IF c.pml4 = NONE THEN "done" ELSE "activate", !.pml4 = c.pml4])
    /\ SameCpu /\ UNCHANGED data

Activate(p) ==
    /\ At(p, "activate")
    /\ cr3' = th[p].pml4 /\ rsp0' = p /\ Goes(p, "open")
    /\ SameMemory /\ UNCHANGED <<running, panicked, preempted>>

\* filesys_open() and the test of the ELF header.
OpenFile(p) ==
    /\ At(p, "open")
    /\ Becomes(p, [th[p] EXCEPT !.pc = IF th[p].prog.valid THEN "phdr" ELSE "done", !.file = th[p].prog.exists])
    /\ SameCpu /\ SameMemory

\* validate_segment().
ValidSegment(h, size) ==
    /\ h.offset % PGSIZE = h.vaddr % PGSIZE
    /\ h.offset <= size /\ h.memsz >= h.filesz /\ h.memsz # 0
    /\ IsUserVaddr(h.vaddr) /\ IsUserVaddr(h.vaddr + h.memsz) /\ h.vaddr >= PGSIZE

\* The bytes to read and to clear from the page of h.vaddr on, as 32-bit numbers.
ReadBytes(h) == IF h.filesz > 0 THEN ((h.vaddr % PGSIZE) + h.filesz) % U32 ELSE 0
ZeroBytes(h) == (RoundUp((h.vaddr % PGSIZE) + h.memsz) + U32 - ReadBytes(h)) % U32

\* A header that cannot be read ("short") or asks for a dynamic loader ("refused") ends the load.
ReadPhdr(p) ==
    /\ At(p, "phdr")
    /\ LET i == th[p].i
           phdrs == th[p].prog.phdrs
           h == phdrs[i]
       IN  CASE i > Len(phdrs) -> Goes(p, "stack")
             [] i <= Len(phdrs) /\ h.type = "ignored" -> Becomes(p, [th[p] EXCEPT !.i = i + 1])
             [] i <= Len(phdrs) /\ h.type = "PT_LOAD" /\ ValidSegment(h, th[p].prog.size) ->
                    Becomes(p, [th[p] EXCEPT !.pc = "segment", !.i = i + 1, !.rw = h.rw, !.upage = RoundDown(h.vaddr),
                                !.pos = RoundDown(h.offset), !.read = ReadBytes(h), !.zero = ZeroBytes(h)])
             [] OTHER -> Goes(p, "done")
    /\ SameCpu /\ SameMemory

\* load_segment(), a page at a time: the page, its bytes, its mapping.
GetPage(p) ==
    /\ At(p, "segment")
    /\ LET f == Alloc(m, "user") IN
        IF th[p].read = 0 /\ th[p].zero = 0 THEN Goes(p, "phdr") /\ SameMemory
        ELSE IF f = NONE THEN Goes(p, "done") /\ SameMemory
        ELSE /\ m' = Taken(m, "user", f) /\ data' = (f :> Filled(JUNK)) @@ data
             /\ Becomes(p, [th[p] EXCEPT !.pc = "read", !.kpage = f])
    /\ SameCpu

PageReadBytes(t) == MinOf(t.read, PGSIZE)

\* Mutant: the rest of the page is not cleared.
ReadPageJunk(p) ==
    /\ At(p, "read")
    /\ LET t == th[p]
           n == MinOf(PageReadBytes(t), t.prog.size - t.pos)
       IN  IF n # PageReadBytes(t) THEN m' = Given(m, "user", t.kpage) /\ Becomes(p, [th[p] EXCEPT !.pc = "done", !.kpage = NONE]) /\ UNCHANGED data
           ELSE /\ data' = [data EXCEPT ![t.kpage] = [o \in DOMAIN @ |-> IF o < n THEN t.pos + o + 1 ELSE @[o]]]
                /\ Becomes(p, [th[p] EXCEPT !.pc = "install", !.pos = t.pos + n]) /\ UNCHANGED m
    /\ SameCpu

ReadPage(p) ==
    /\ At(p, "read")
    /\ LET t == th[p]
           n == MinOf(PageReadBytes(t), t.prog.size - t.pos)
       IN  IF n # PageReadBytes(t)
           THEN m' = Given(m, "user", t.kpage) /\ Becomes(p, [th[p] EXCEPT !.pc = "done", !.kpage = NONE]) /\ UNCHANGED data
           ELSE /\ data' = [data EXCEPT ![t.kpage] = [o \in DOMAIN @ |-> IF o < n THEN t.pos + o + 1 ELSE 0]]
                /\ Becomes(p, [th[p] EXCEPT !.pc = "install", !.pos = t.pos + n]) /\ UNCHANGED m
    /\ SameCpu

\* install_page(): the memory after it, and whether the page was free and is mapped now.
Install(p, upage, rw) ==
    IF Pml4GetPage(m, th[p].pml4, upage) # NONE THEN [m |-> m, ok |-> FALSE]
    ELSE Pml4SetPage(m, th[p].pml4, upage, th[p].kpage, rw)

MapPage(p) ==
    /\ At(p, "install")
    /\ LET t == th[p]
           w == Install(p, t.upage, t.rw)
       IN  IF w.ok
           THEN m' = w.m /\ Becomes(p, [th[p] EXCEPT !.pc = "segment", !.kpage = NONE, !.upage = t.upage + PGSIZE,
                                        !.read = t.read - PageReadBytes(t),
                                        !.zero = (t.zero + U32 - (PGSIZE - PageReadBytes(t))) % U32])
           ELSE m' = Given(w.m, "user", t.kpage) /\ Becomes(p, [th[p] EXCEPT !.pc = "done", !.kpage = NONE])
    /\ SameCpu /\ UNCHANGED data

\* setup_stack().
GetStack(p) ==
    /\ At(p, "stack")
    /\ LET f == Alloc(m, "user") IN
        IF f = NONE THEN Goes(p, "done") /\ SameMemory
        ELSE /\ m' = Taken(m, "user", f) /\ data' = (f :> Filled(0)) @@ data
             /\ Becomes(p, [th[p] EXCEPT !.pc = "mapstack", !.kpage = f])
    /\ SameCpu

MapStack(p) ==
    /\ At(p, "mapstack")
    /\ LET w == Install(p, USER_STACK - PGSIZE, TRUE) IN
        /\ m' = IF w.ok THEN w.m ELSE Given(w.m, "user", th[p].kpage)
        /\ Becomes(p, [th[p] EXCEPT !.pc = "done", !.kpage = NONE, !.success = w.ok])
    /\ SameCpu /\ UNCHANGED data

\* The end of load(), of process_exec(), and of initd() if the program was not loaded.
StartOrPanic(p) ==
    /\ At(p, "done")
    /\ m' = Given(m, "kernel", th[p].arg)
    /\ Becomes(p, [th[p] EXCEPT !.pc = IF th[p].success THEN "user" ELSE "panic", !.file = FALSE, !.arg = NONE, !.after = "dying"])
    /\ panicked' = ~th[p].success
    /\ UNCHANGED <<data, running, cr3, rsp0, preempted>>

-----------------------------------------------------------------------------
\* User mode: an instruction that stores a byte, through cr3.
Store(p, va) ==
    /\ At(p, "user")
    /\ LET e == Pml4GetPage(m, cr3, va) IN
        /\ e # NONE /\ e.rw
        /\ data' = [data EXCEPT ![e.page][va % PGSIZE] = p]
    /\ SameCpu /\ UNCHANGED <<m, th>>

\* One that may not: page_fault() and kill() end the process.
PageFault(p, va) ==
    /\ At(p, "user")
    /\ LET e == Pml4GetPage(m, cr3, va) IN e # NONE => ~e.rw
    /\ Goes(p, "clear") /\ SameCpu /\ SameMemory

\* syscall_handler() and every other exception: thread_exit(), so process_exit().
Syscall(p) ==
    /\ At(p, "user")
    /\ Goes(p, "clear") /\ SameCpu /\ SameMemory

Load(p) ==
    \/ CreatePml4(p) \/ Activate(p) \/ OpenFile(p) \/ ReadPhdr(p) \/ GetPage(p)
    \/ ReadPage(p) \/ MapPage(p) \/ GetStack(p) \/ MapStack(p) \/ StartOrPanic(p)

UserVas == 0..(USER_STACK - 1)
Next ==
    \/ \E p \in Procs :
        \/ CopyName(p) \/ ThreadCreate(p) \/ Load(p)
        \/ Clear(p) \/ ActivateBase(p) \/ Destroy(p) \/ Syscall(p)
        \/ \E va \in StoreVas : Store(p, va) \/ PageFault(p, va)
    \/ \E u \in Procs \union {Main} : Switch(u)
Spec == Init /\ [][Next]_vars

-----------------------------------------------------------------------------
\* A timer interrupt at any step of process_cleanup() or load(): the page tables in cr3
\* are never freed ones, and always those of the running process or of the kernel; in
\* user mode they are the process's own, and interrupts find its own, living stack.
SpaceLive ==
    /\ cr3 \in DOMAIN m.tables /\ rsp0 = running
    /\ running = Main => cr3 = Base
    /\ running # Main => LET t == th[running] IN
        /\ cr3 \in {Base, t.pml4, t.old}
        /\ t.stack \notin m.free.kernel \union {NONE}
        /\ t.pc = "user" => cr3 = t.pml4

\* The pages of each pool that are not free are those that a process uses, each once:
\* after a walk, a load or a creation that ran out of memory halfway, too.
Tree(pml4) == IF pml4 = NONE THEN {} ELSE {pml4} \union Pdpes(m, pml4) \union Pgdirs(m, pml4) \union Pts(m, pml4)
Frames(p) == Tree(th[p].pml4) \union Tree(th[p].old) \union ({th[p].arg, th[p].stack} \ {NONE})
UserFrames(p) == (UNION {UserPages(m, t) : t \in {th[p].pml4, th[p].old} \ {NONE}}) \union ({th[p].kpage} \ {NONE})
FramesExact ==
    LET owned == UNION {Frames(p) : p \in Procs}
        used == UNION {UserFrames(p) : p \in Procs}
    IN  /\ owned \intersect m.free.kernel = {} /\ used \intersect m.free.user = {}
        /\ \A p, q \in Procs : p # q => Frames(p) \intersect Frames(q) = {} /\ UserFrames(p) \intersect UserFrames(q) = {}
        /\ LET total == Cardinality(owned) + Cardinality(m.free.kernel) IN
            owned \union m.free.kernel = 1..total /\ total \in KernelPools
        /\ LET total == Cardinality(used) + Cardinality(m.free.user) IN
            used \union m.free.user = 1..total /\ total \in UserPools
        /\ DOMAIN m.tables = DOMAIN KernelTables \union
                UNION {Tree(t) : t \in {th[p].pml4 : p \in Procs} \union {th[p].old : p \in Procs}}

\* What a process that runs finds in its memory is its segments as the program's headers
\* give them, a stack of zeros, and what it stored itself: nothing of another process or
\* of one that had the page before, no page more, and no more rights.
Segments(prog) == {prog.phdrs[i] : i \in {j \in DOMAIN prog.phdrs : prog.phdrs[j].type = "PT_LOAD"}}
Covers(h, va) == va >= RoundDown(h.vaddr) /\ va < RoundUp(h.vaddr + h.memsz)
ImageByte(h, va) ==
    IF h.filesz > 0 /\ va < h.vaddr + h.filesz THEN va + h.offset - h.vaddr + 1 ELSE 0
LoadExact ==
    \A p \in Procs : th[p].pc = "user" =>
        \A va \in UserVas :
            LET e == Pml4GetPage(m, th[p].pml4, va)
                own == {h \in Segments(th[p].prog) : Covers(h, va)}
                byte == data[e.page][va % PGSIZE]
            IN  IF va >= USER_STACK - PGSIZE THEN e # NONE /\ e.rw /\ byte \in {0, p}
                ELSE IF own = {} THEN e = NONE
                ELSE \E h \in own : e # NONE /\ e.rw = h.rw /\ (byte = ImageByte(h, va) \/ (h.rw /\ byte = p))

\* mmu.c:195: "if PML4 (vaddr) >= 1, it's kernel space by define": no process changes the
\* tables that pml4_create() copies from base_pml4.
KernelTablesKept == \A t \in DOMAIN KernelTables : m.tables[t] = KernelTables[t]
=======================================================================

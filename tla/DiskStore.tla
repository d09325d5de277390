---------------------------- MODULE DiskStore ----------------------------
(***************************************************************************)
(* What devices/disk.c promises to the threads that share a channel (the   *)
(* comments on disk_read and disk_write): every call reads or writes its   *)
(* whole sector at one moment between its start and its return, and is     *)
(* counted for its disk when it returns.  Disk implements this             *)
(* specification.                                                          *)
(***************************************************************************)
EXTENDS Naturals

CONSTANTS Threads, Devices, Sectors, Values, Calls, NoCall

VARIABLES
    store,   \* the sectors of each device
    call,    \* the call each thread is in
    served,  \* has it read or written its sector
    result,  \* the data it read
    count    \* calls that returned, of each device and kind

vars == <<store, call, served, result, count>>

Init ==
    /\ store \in [Devices -> [Sectors -> Values]]
    /\ call = [t \in Threads |-> NoCall]
    /\ served = [t \in Threads |-> FALSE]
    /\ result = [t \in Threads |-> NoCall]
    /\ count = [d \in Devices |-> [op \in {"read", "write"} |-> 0]]

Call(t) ==
    /\ call[t] = NoCall
    /\ \E c \in Calls : call' = [call EXCEPT ![t] = c]
    /\ UNCHANGED <<store, served, result, count>>

Serve(t) ==
    /\ call[t] # NoCall /\ ~served[t]
    /\ served' = [served EXCEPT ![t] = TRUE]
    /\ LET c == call[t] IN
          \/ /\ c.op = "read"
             /\ result' = [result EXCEPT ![t] = store[c.dev][c.sec]]
             /\ UNCHANGED store
          \/ /\ c.op = "write"
             /\ store' = [store EXCEPT ![c.dev][c.sec] = c.val]
             /\ UNCHANGED result
    /\ UNCHANGED <<call, count>>

Return(t) ==
    /\ served[t]
    /\ count' = [count EXCEPT ![call[t].dev][call[t].op] = @ + 1]
    /\ call' = [call EXCEPT ![t] = NoCall]
    /\ served' = [served EXCEPT ![t] = FALSE]
    /\ result' = [result EXCEPT ![t] = NoCall]
    /\ UNCHANGED store

Next == \E t \in Threads : Call(t) \/ Serve(t) \/ Return(t)

Spec == Init /\ [][Next]_vars
==========================================================================

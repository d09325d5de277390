---------------------------- MODULE Mutex ----------------------------
(***************************************************************************)
(* What the locks of synch.c promise (the comment on lock_init): a lock is *)
(* held by one thread at a time, and the same thread acquires and releases *)
(* it.  Kernel implements this specification, with the owner of a lock     *)
(* read off its semaphore, its holder and the statements threads are at.   *)
(***************************************************************************)
CONSTANTS Threads, Locks, NoOwner

VARIABLE owner

Init == owner = [l \in Locks |-> NoOwner]

Acquire(t, l) ==
    /\ owner[l] = NoOwner
    /\ owner' = [owner EXCEPT ![l] = t]

Release(t, l) ==
    /\ owner[l] = t
    /\ owner' = [owner EXCEPT ![l] = NoOwner]

Next == \E t \in Threads, l \in Locks : Acquire(t, l) \/ Release(t, l)

Spec == Init /\ [][Next]_owner
============================================================================

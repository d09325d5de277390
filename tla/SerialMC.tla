---------------------------- MODULE SerialMC ----------------------------
(* Small consoles for TLC: queues of two bytes, lines of two characters.   *)
EXTENDS Serial

\* No condition variables are used here.
MCLockOf == [c \in Conds |-> Console]
=============================================================================

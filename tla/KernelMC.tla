---------------------------- MODULE KernelMC ----------------------------
(* Small kernels for TLC: two pages beside those of main and idle, at most. *)
EXTENDS Kernel, TLC

CONSTANT lk

\* Every condition variable is used with the lock lk.
MCLockOf == [c \in Conds |-> lk]

\* Pages that hold no thread at the start are alike.
Symmetry == Permutations(Threads \ {Main, Idle})
============================================================================

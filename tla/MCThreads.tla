----------------------------- MODULE MCThreads -----------------------------
(* Threads for TLC: init and a few more entries of the process table.      *)
EXTENDS Threads, TLC

Entries == Permutations(Procs \ {proc_init})
=============================================================================

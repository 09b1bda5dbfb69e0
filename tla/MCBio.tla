------------------------------- MODULE MCBio -------------------------------
(* Bio for TLC: memory for three small buffers, or a large one and a small. *)
EXTENDS Bio, TLC

CONSTANTS x1, x2

Sizes == x1 :> 1 @@ x2 :> 1
Same == Permutations(Procs) \cup Permutations(Buffers) \cup Permutations(Blocks)
=============================================================================

------------------------------- MODULE MCSem -------------------------------
(* Sem for TLC: two semaphores, a P that is undone on exit, the matching V, *)
(* a wait for zero, and lists of two operations that have to be rolled back.*)
EXTENDS Sem

P0 == [num |-> 0, op |-> -1, undo |-> TRUE, nowait |-> FALSE]
V0 == [num |-> 0, op |-> 1, undo |-> TRUE, nowait |-> FALSE]
Z0 == [num |-> 0, op |-> 0, undo |-> FALSE, nowait |-> FALSE]
P1 == [num |-> 1, op |-> -1, undo |-> FALSE, nowait |-> FALSE]
N1 == [num |-> 1, op |-> -1, undo |-> TRUE, nowait |-> TRUE]
MCOps == {P0, V0, Z0, P1, N1}
MCLists == {<<V0>>, <<P0, P1>>, <<N1>>, <<Z0>>}
=============================================================================

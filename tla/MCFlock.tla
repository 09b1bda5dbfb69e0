------------------------------ MODULE MCFlock ------------------------------
(* Flock for TLC: a small file, two processes and a client of the lock     *)
(* manager.  The regions let locks split, meet and enclose each other, and *)
(* let the three owners wait for each other in a ring.                     *)
EXTENDS Flock

CONSTANTS p1, p2, r1

Wanted == [o \in {p1, p2, r1} |->
             CASE o = p1 -> {<<"F_RDLCK", 0, 2>>, <<"F_WRLCK", 1, 1>>, <<"F_WRLCK", 2, 2>>}
               [] o = p2 -> {<<"F_RDLCK", 1, 1>>, <<"F_WRLCK", 1, 1>>, <<"F_RDLCK", 2, 2>>}
               [] o = r1 -> {<<"F_WRLCK", 0, 0>>, <<"F_WRLCK", 2, 2>>}]
=============================================================================

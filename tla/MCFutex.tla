------------------------------ MODULE MCFutex ------------------------------
(* Futex for TLC: two threads of one process and a process of its own.     *)
EXTENDS Futex, TLC

CONSTANTS t1, t2, t3, A, B

ThreeProcs == {t1, t2, t3}
TwoProcs == {t1, t2}
asOfThree == [p \in ThreeProcs |-> IF p = t3 THEN B ELSE A]
asOfTwo == [p \in TwoProcs |-> A]

\* A word of all ones reads as a fault.
FaultyWords == {0, -1}
=============================================================================

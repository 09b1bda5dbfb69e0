------------------------------- MODULE MCMsg -------------------------------
(* Msg for TLC: three processes on one queue, few headers, little space.   *)
EXTENDS Msg, TLC

snd(type, cnt, nowait) == [type |-> type, cnt |-> cnt, nowait |-> nowait]
rcv(typ, nowait) == [typ |-> typ, nowait |-> nowait]

SomeSends == {snd(1, 3, FALSE), snd(2, 1, TRUE)}
SomeReceives == {rcv(0, FALSE), rcv(2, FALSE), rcv(-2, TRUE)}
Same == Permutations(Procs) \cup Permutations(Headers)
=============================================================================

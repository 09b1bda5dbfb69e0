------------------------------- MODULE Timers -------------------------------
(***************************************************************************)
(* What the callout table of os/clock.c promises its users: an armed call  *)
(* is made once, not before its time, earlier calls before later ones, and *)
(* not at all once it was cancelled; cancelling one call leaves the others *)
(* alone.                                                                  *)
(***************************************************************************)
EXTENDS Integers

CONSTANT Ticks      \* the ticks a call may be asked for

VARIABLES
    pending,    \* calls that are due in the future: [id, due]
    called,     \* ids of the calls that were made
    cancelled,  \* ids of the calls that were taken back
    now,        \* clock ticks since boot
    lastid      \* last id handed out

vars == <<pending, called, cancelled, now, lastid>>

Init ==
    /\ pending = {} /\ called = {} /\ cancelled = {}
    /\ now = 0
    /\ lastid = 0

Arm ==
    /\ \E due \in Ticks :
         /\ due >= now
         /\ pending' = pending \cup {[id |-> lastid + 1, due |-> due]}
    /\ lastid' = lastid + 1
    /\ UNCHANGED <<called, cancelled, now>>

Cancel ==
    \E e \in pending :
        /\ pending' = pending \ {e}
        /\ cancelled' = cancelled \cup {e.id}
        /\ UNCHANGED <<called, now, lastid>>

Call ==
    \E e \in pending :
        /\ e.due <= now
        /\ \A other \in pending : e.due <= other.due
        /\ pending' = pending \ {e}
        /\ called' = called \cup {e.id}
        /\ UNCHANGED <<cancelled, now, lastid>>

Tick ==
    /\ now' = now + 1
    /\ UNCHANGED <<pending, called, cancelled, lastid>>

Next == Arm \/ Cancel \/ Call \/ Tick

Spec == Init /\ [][Next]_vars
=============================================================================

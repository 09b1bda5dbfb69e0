------------------------------ MODULE Callout ------------------------------
(***************************************************************************)
(* The callout table of uts/i386/os/clock.c: timeout(), ttimeout(),        *)
(* untimeout(), the timer part of clock() and timein(), with the heap that *)
(* heap_up() and heap_down() keep in the table.  The table is the function *)
(* callout on 0 .. calllimit; an entry stands for its function and argument*)
(* by its id.                                                              *)
(***************************************************************************)
EXTENDS Integers, FiniteSets

CONSTANTS
    v_call,     \* entries in the table (tunable v.v_call)
    IntBits,    \* width of an int
    Lbolt0,     \* value of lbolt at the start of the behaviour
    Delays,     \* values of the argument tim
    MaxTimeid,  \* bound: timeouts armed in a behaviour
    MaxNow      \* bound: clock ticks in a behaviour

ASSUME CalloutAssumption ==
    /\ v_call \in Nat \ {0}
    /\ IntBits \in Nat \ {0} /\ 2^IntBits > 0
    /\ Lbolt0 \in Int
    /\ Delays \subseteq Nat
    /\ MaxTimeid \in Nat
    /\ MaxNow \in Nat

VARIABLES
    callout,    \* the heap: [c_time, c_id, due]
    calllimit,  \* index of the last valid entry, -1 when there is none
    timeid,     \* last id handed out
    lbolt,      \* ticks, an int that wraps
    dotimein,   \* a clock interrupt saw a due entry
    intimein,   \* timein() is running, at splhi()
    panic,      \* "Timeout table overflow"
    now,        \* history: ticks that do not wrap
    called,     \* history: ids whose function was called
    cancelled   \* history: ids that untimeout() removed

vars == <<callout, calllimit, timeid, lbolt, dotimein, intimein, panic,
          now, called, cancelled>>

\* due is history: the tick the entry was asked for, where c_time wraps.
Entry == [c_time : Int, c_id : 1 .. MaxTimeid, due : Nat]

\* Two's complement arithmetic of the machine's int.
Wrap(x) == ((x + 2^(IntBits - 1)) % 2^IntBits) - 2^(IntBits - 1)

Parent(i) == (i - 1) \div 2

(***************************************************************************)
(* The heap routines.  at is where the entry with time t belongs, tab the  *)
(* table after the entries on the way have moved.                          *)
(***************************************************************************)

heap_up(tab, t, j) ==
    LET up[i \in DOMAIN tab] ==
          IF i = 0 \/ tab[Parent(i)].c_time <= t
          THEN [at |-> i, tab |-> tab]
          ELSE LET r == up[Parent(i)]
               IN  [r EXCEPT !.tab[i] = tab[Parent(i)]]
    IN  up[j]

\* Mutant: never looks at the right child.
LeftChild(tab, i) == 2 * i + 1

\* The smaller child of i.
SmallerChild(tab, i) ==
    LET k == 2 * i + 1
    IN  IF k + 1 \in DOMAIN tab /\ tab[k + 1].c_time < tab[k].c_time
        THEN k + 1 ELSE k

heap_down(tab, t, j) ==
    LET down[i \in DOMAIN tab] ==
          IF 2 * i + 1 \notin DOMAIN tab \/ tab[SmallerChild(tab, i)].c_time >= t
          THEN [at |-> i, tab |-> tab]
          ELSE LET k == SmallerChild(tab, i)
                   r == down[k]
               IN  [r EXCEPT !.tab[i] = tab[k]]
    IN  down[j]

Place(r, e) == [r.tab EXCEPT ![r.at] = e]

\* Mutant: forgets to shrink the table.
AllOfIt == callout

\* The table without its last entry.
AllButLast == [i \in 0 .. (calllimit - 1) |-> callout[i]]

(***************************************************************************)
(* Entry points.                                                           *)
(***************************************************************************)

\* timeout(fun, arg, tim), and ttimeout() when there is room.
Timeout(tim) ==
    /\ ~panic
    /\ timeid < MaxTimeid
    /\ calllimit + 1 # v_call
    /\ LET t == Wrap(lbolt + tim)
           j == calllimit + 1
           e == [c_time |-> t, c_id |-> timeid + 1, due |-> now + tim]
           grown == [i \in 0 .. j |-> IF i < j THEN callout[i] ELSE e]
       IN  /\ calllimit' = j
           /\ callout' = Place(heap_up(grown, t, j), e)
    /\ timeid' = timeid + 1
    /\ UNCHANGED <<lbolt, dotimein, intimein, panic, now, called, cancelled>>

\* timeout() on a full table panics; ttimeout() returns -1 and does nothing.
TimeoutOverflow ==
    /\ ~panic
    /\ calllimit + 1 = v_call
    /\ panic' = TRUE
    /\ UNCHANGED <<callout, calllimit, timeid, lbolt, dotimein, intimein,
                   now, called, cancelled>>

\* Mutant: always percolates the moved entry down.
UntimeoutTable_down(f) ==
    IF f = calllimit THEN AllButLast
    ELSE LET last == callout[calllimit]
         IN  Place(heap_down(AllButLast, last.c_time, f), last)

\* The table after entry f is deleted and the last entry moved in its place.
UntimeoutTable(f) ==
    LET last == callout[calllimit]
        t == last.c_time
    IN  IF f = calllimit THEN AllButLast
        ELSE IF f > 0 /\ callout[Parent(f)].c_time > t
             THEN Place(heap_up(AllButLast, t, f), last)
             ELSE Place(heap_down(AllButLast, t, f), last)

\* untimeout(id): the id of an entry that is gone is not found, and nothing
\* happens.
Untimeout(id) ==
    /\ ~panic
    /\ \E f \in 0 .. calllimit :
         /\ callout[f].c_id = id
         /\ callout' = UntimeoutTable(f)
         /\ calllimit' = calllimit - 1
    /\ cancelled' = cancelled \cup {id}
    /\ UNCHANGED <<timeid, lbolt, dotimein, intimein, panic, now, called>>

\* Mutant: takes an entry to be due one tick late.
ClockLate ==
    /\ ~panic /\ ~intimein
    /\ now < MaxNow
    /\ dotimein' = (dotimein \/ (calllimit >= 0 /\ callout[0].c_time < lbolt))
    /\ lbolt' = Wrap(lbolt + 1)
    /\ now' = now + 1
    /\ UNCHANGED <<callout, calllimit, timeid, intimein, panic, called, cancelled>>

\* clock(): look at the first entry, then count the tick.
Clock ==
    /\ ~panic /\ ~intimein
    /\ now < MaxNow
    /\ dotimein' = (dotimein \/ (calllimit >= 0 /\ callout[0].c_time <= lbolt))
    /\ lbolt' = Wrap(lbolt + 1)
    /\ now' = now + 1
    /\ UNCHANGED <<callout, calllimit, timeid, intimein, panic, called, cancelled>>

\* An interrupt returns to ipl 0 with dotimein set.
TimeinEnter ==
    /\ ~panic
    /\ dotimein /\ ~intimein
    /\ dotimein' = FALSE
    /\ intimein' = TRUE
    /\ UNCHANGED <<callout, calllimit, timeid, lbolt, panic, now, called, cancelled>>

HeadDue == calllimit >= 0 /\ callout[0].c_time <= lbolt

\* One round of timein(): delete the first entry, then call its function,
\* which may itself arm or cancel before the next round.
TimeinCall ==
    /\ ~panic
    /\ intimein /\ HeadDue
    /\ LET last == callout[calllimit]
       IN  callout' = IF calllimit = 0 THEN AllButLast
                      ELSE Place(heap_down(AllButLast, last.c_time, 0), last)
    /\ calllimit' = calllimit - 1
    /\ called' = called \cup {callout[0].c_id}
    /\ UNCHANGED <<timeid, lbolt, dotimein, intimein, panic, now, cancelled>>

TimeinLeave ==
    /\ ~panic
    /\ intimein /\ ~HeadDue
    /\ intimein' = FALSE
    /\ UNCHANGED <<callout, calllimit, timeid, lbolt, dotimein, panic,
                   now, called, cancelled>>

(***************************************************************************)
(* The specification.                                                      *)
(***************************************************************************)

Init ==
    /\ callout = [i \in 0 .. -1 |-> 0]
    /\ calllimit = -1
    /\ timeid = 0
    /\ lbolt = Lbolt0
    /\ dotimein = FALSE
    /\ intimein = FALSE
    /\ panic = FALSE
    /\ now = 0
    /\ called = {}
    /\ cancelled = {}

Next ==
    \/ \E tim \in Delays : Timeout(tim)
    \/ TimeoutOverflow
    \/ \E id \in 1 .. MaxTimeid : Untimeout(id)
    \/ Clock
    \/ TimeinEnter
    \/ TimeinCall
    \/ TimeinLeave

Spec == Init /\ [][Next]_vars

\* Interrupts keep returning to ipl 0, and timein() runs to its end.
FairSpec ==
    /\ Spec
    /\ WF_vars(TimeinEnter)
    /\ WF_vars(TimeinCall)
    /\ WF_vars(TimeinLeave)

(***************************************************************************)
(* Properties.                                                             *)
(***************************************************************************)

\* Every variable has its type, and the table holds calllimit + 1 entries.
TypeOK ==
    /\ calllimit \in -1 .. (v_call - 1)
    /\ callout \in [0 .. calllimit -> Entry]
    /\ timeid \in 0 .. MaxTimeid
    /\ lbolt \in Int /\ now \in 0 .. MaxNow
    /\ dotimein \in BOOLEAN /\ intimein \in BOOLEAN /\ panic \in BOOLEAN
    /\ called \subseteq 1 .. MaxTimeid
    /\ cancelled \subseteq 1 .. MaxTimeid

\* "maintain the heap structure of the callout table": after every insertion
\* and deletion no entry is earlier than its parent, so callout[0], the only
\* entry clock() looks at, is an earliest one.
HeapOrder ==
    \A i \in 1 .. calllimit : callout[Parent(i)].c_time <= callout[i].c_time

\* The table as the set of timers its users see.
Pending == {[id |-> callout[i].c_id, due |-> callout[i].due] : i \in 0 .. calllimit}

Abstract == INSTANCE Timers WITH pending <- Pending, lastid <- timeid,
                                 Ticks <- {n + d : n \in 0 .. MaxNow, d \in Delays}

\* The table implements Timers: moving entries about loses, duplicates,
\* delays past a later one, or cancels no call but the one asked for.
ImplementsTimers == Abstract!Spec

\* A call whose tick has passed is made, or was cancelled: clock() does not
\* overlook it, whatever is armed and cancelled meanwhile.
DueIsServed ==
    \A id \in 1 .. MaxTimeid :
        (\E e \in Pending : e.id = id /\ e.due < now)
        ~> (panic \/ ~\E e \in Pending : e.id = id)
=============================================================================

-------------------------------- MODULE Msg --------------------------------
(***************************************************************************)
(* System V message queues (os/msg.c): queues of headers linked by         *)
(* pointers, one list of free headers and one map of text space for all    *)
(* queues, a lock byte per queue, and the five things a call sleeps for.   *)
(*                                                                         *)
(* The kernel is not preempted, so a call runs from one sleep to the next  *)
(* in one step.  copyin() and copyout() sleep for a page: every copy made  *)
(* under the lock is a sleep here, and one that does not sleep is the      *)
(* behaviour in which nobody else runs meanwhile.                          *)
(***************************************************************************)
EXTENDS Rmap

CONSTANTS Procs,
          Queues,      \* msgque[]
          Headers,     \* msgh[]
          NULL,
          Sends,       \* arguments of msgsnd()
          Receives,    \* arguments of msgrcv()
          QBytes,      \* msg_qbytes values set by IPC_SET
          msgmnb,      \* msg_qbytes of a new queue
          msgssz,      \* bytes per unit of text space
          msgseg,      \* units of text space
          msgmap_len,  \* entries of msgmap[]
          MaxSeq       \* bound on sequence numbers

ASSUME SendsTyped == Sends \subseteq [type : Nat \ {0}, cnt : Nat, nowait : BOOLEAN]
ASSUME ReceivesTyped == Receives \subseteq [typ : Int, nowait : BOOLEAN]
ASSUME SizesNatural == QBytes \cup {msgmnb, msgseg, MaxSeq} \subseteq Nat
ASSUME UnitPositive == msgssz \in Nat \ {0} /\ msgmap_len \in Nat /\ msgmap_len > 2
ASSUME HeadersFinite == IsFiniteSet(Headers) /\ Headers # {}
ASSUME NullIsNothing == NULL \notin Headers \cup Queues \cup Procs

VARIABLES que,         \* que[q]: the msqid_ds
          hdr,         \* hdr[h]: the struct msg
          msgfp,       \* first free header
          msgmap,      \* the map of text space
          lock,        \* lock[q]: the byte MSGLOCK(qp)
          pc,          \* where each process is
          args,        \* the call it is in
          mine,        \* its header, predecessor and text address meanwhile
          raised       \* auxiliary: IPC_SET raised qbytes beside sleeping writers

vars == <<que, hdr, msgfp, msgmap, lock, pc, args, mine, raised>>

Ptr == Headers \cup {NULL}

Queue == [alloc : BOOLEAN, seq : 0 .. MaxSeq, first : Ptr, last : Ptr, qnum : Int,
          cbytes : Int, qbytes : Nat, rwait : BOOLEAN, wwait : BOOLEAN]

NoQueue == [alloc |-> FALSE, seq |-> 0, first |-> NULL, last |-> NULL, qnum |-> 0,
            cbytes |-> 0, qbytes |-> 0, rwait |-> FALSE, wwait |-> FALSE]

\* ts = 0 has no text; addr is msg_spot + 1.
Header == [next : Ptr, type : Nat, ts : Nat, addr : Nat]

NoHeader == [next |-> NULL, type |-> 0, ts |-> 0, addr |-> 0]

Id == [q : Queues, seq : 0 .. MaxSeq]

Args == {[op |-> "snd", id |-> i, type |-> s.type, cnt |-> s.cnt, nowait |-> s.nowait] :
           i \in Id, s \in Sends}
        \cup {[op |-> "rcv", id |-> i, typ |-> r.typ, nowait |-> r.nowait] :
                i \in Id, r \in Receives}
        \cup [op : {"set"}, id : Id, qbytes : QBytes]
        \cup [op : {"rmid"}, id : Id]

NoMine == [h |-> NULL, pmp |-> NULL, addr |-> 0]

\* Where a process can be: outside; runnable and about to call msgconv() for
\* the reason after the colon; asleep on the lock byte on that way; asleep in
\* a copy; asleep on msg_qnum, the queue, the free headers or the map.
LockSleep == {"lock:first", "lock:again", "lock:intr", "lock:intrw"}
Conv == {"conv:first", "conv:again", "conv:intr", "conv:intrw"}
Waits == {"rwait", "wwait", "hwait", "mwait"}
Copies == {"copy:type", "copy:text", "copy:out", "copy:set"}
PC == {"user"} \cup LockSleep \cup Conv \cup Waits \cup Copies

btoq(bytes) == (bytes + msgssz - 1) \div msgssz

(***************************************************************************)
(* The shared tables as one record k, with ev, the channels that are woken.*)
(***************************************************************************)

Tables == [que |-> que, hdr |-> hdr, fp |-> msgfp, map |-> msgmap, ev |-> {}]

\* The channel a process is asleep on.
Chan(p) ==
    CASE pc[p] = "rwait" -> <<"qnum", args[p].id.q>>
      [] pc[p] = "wwait" -> <<"que", args[p].id.q>>
      [] pc[p] = "hwait" -> <<"msgfp", NULL>>
      [] pc[p] = "mwait" -> <<"msgmap", NULL>>
      [] pc[p] \in LockSleep -> <<"lock", args[p].id.q>>
      [] OTHER -> <<"none", NULL>>

Awake == [s \in LockSleep \cup Waits |->
            CASE s = "lock:first" -> "conv:first"
              [] s = "lock:intr" -> "conv:intr"
              [] s = "lock:intrw" -> "conv:intrw"
              [] OTHER -> "conv:again"]

\* wakeprocs() on the channels ev, while p goes to place.
wakeprocs(ev, p, place) ==
    [r \in Procs |-> IF r = p THEN place
                     ELSE IF Chan(r) \in ev THEN Awake[pc[r]] ELSE pc[r]]

\* Put back a header (what else it holds means nothing from here on);
\* sleepers are told only if there was none.
FreeHeader(k, h) ==
    [k EXCEPT !.hdr[h] = [NoHeader EXCEPT !.next = k.fp], !.fp = h,
              !.ev = IF k.fp = NULL THEN @ \cup {<<"msgfp", NULL>>} ELSE @]

FreeText(k, size, addr) ==
    [k EXCEPT !.map = rmfree(@, size, addr),
              !.ev = IF rmfree_wakes(k.map, size, addr)
                     THEN @ \cup {<<"msgmap", NULL>>} ELSE @]

\* Mutant: msg_last is left alone.
UnlinkMiddle(k, q, pmp, mp) ==
    LET less == [k.que[q] EXCEPT !.qnum = @ - 1]
    IN  IF pmp = NULL THEN [k EXCEPT !.que[q] = [less EXCEPT !.first = k.hdr[mp].next]]
        ELSE [k EXCEPT !.hdr[pmp].next = k.hdr[mp].next, !.que[q] = less]

\* pmp is the predecessor of mp on the queue.
Unlink(k, q, pmp, mp) ==
    LET next == k.hdr[mp].next
        less == [k.que[q] EXCEPT !.last = IF next = NULL THEN pmp ELSE @, !.qnum = @ - 1]
    IN  IF pmp = NULL THEN [k EXCEPT !.que[q] = [less EXCEPT !.first = next]]
        ELSE [k EXCEPT !.hdr[pmp].next = next, !.que[q] = less]

\* Tell the writers that wait for room on the queue.
WakeWriters(k, q) ==
    IF k.que[q].wwait
    THEN [k EXCEPT !.que[q].wwait = FALSE, !.ev = @ \cup {<<"que", q>>}]
    ELSE k

msgfree(k, q, pmp, mp) ==
    LET m == k.hdr[mp]
        text(j) == IF m.ts = 0 THEN j ELSE FreeText(j, btoq(m.ts), m.addr)
    IN  FreeHeader(text(WakeWriters(Unlink(k, q, pmp, mp), q)), mp)

\* The headers of queue q from the first on, as far as the pointers go.
Chain(k, q) ==
    LET at[i \in 0 .. Cardinality(Headers) + 1] ==
          IF i = 0 THEN k.que[q].first
          ELSE IF at[i - 1] = NULL THEN NULL ELSE k.hdr[at[i - 1]].next
        n == CHOOSE i \in 0 .. Cardinality(Headers) + 1 :
               /\ at[i] = NULL \/ i = Cardinality(Headers) + 1
               /\ \A j \in 0 .. i - 1 : at[j] # NULL
    IN  [i \in 1 .. n |-> at[i - 1]]

\* Where msgconv() succeeds.
Valid(id) == que[id.q].alloc /\ que[id.q].seq = id.seq

Return(p) == [args EXCEPT ![p] = NULL]

\* *lockp = 0; wakeprocs(lockp).  Writers woken here see the raise of qbytes.
Release(p, a, k, place) ==
    /\ que' = k.que /\ hdr' = k.hdr /\ msgfp' = k.fp /\ msgmap' = k.map
    /\ lock' = [lock EXCEPT ![a.id.q] = FALSE]
    /\ pc' = wakeprocs(k.ev \cup {<<"lock", a.id.q>>}, p, place)
    /\ raised' = [r \in Queues |-> raised[r] /\ <<"que", r>> \notin k.ev]
    /\ args' = [args EXCEPT ![p] = IF place = "user" THEN NULL ELSE a]

\* Go to sleep in a copy, with the lock, after waking ev.
Copy(p, a, ev, place) ==
    /\ pc' = wakeprocs(ev, p, place)
    /\ args' = [args EXCEPT ![p] = a]
    /\ lock' = [lock EXCEPT ![a.id.q] = TRUE]

(***************************************************************************)
(* msgget, and the entry of the other calls: msgconv.                      *)
(***************************************************************************)

\* ipcget() with a new key.
Msgget(p, q) ==
    /\ pc[p] = "user" /\ ~que[q].alloc
    /\ que' = [que EXCEPT ![q].alloc = TRUE, ![q].first = NULL, ![q].last = NULL,
                          ![q].qnum = 0, ![q].qbytes = msgmnb]
    /\ raised' = [raised EXCEPT ![q] = FALSE]
    /\ UNCHANGED <<hdr, msgfp, msgmap, lock, pc, args, mine>>

\* What p calls msgconv() for the first time with: a call it makes now, with
\* the identifier of a queue that exists, or the call it has slept in.
Calls(p) ==
    CASE pc[p] = "user" -> {a \in Args : Valid(a.id) /\ (a.op = "rmid" => a.id.seq < MaxSeq)}
      [] pc[p] = "conv:first" -> {args[p]}
      [] OTHER -> {}

\* msgconv() finds the queue locked.
EnterLocked(p) ==
    \E a \in Calls(p) :
        /\ lock[a.id.q]
        /\ pc' = [pc EXCEPT ![p] = "lock:first"]
        /\ args' = [args EXCEPT ![p] = a]
        /\ UNCHANGED <<que, hdr, msgfp, msgmap, lock, mine, raised>>

SleepOn == [c \in Conv \ {"conv:first"} |-> CASE c = "conv:again" -> "lock:again"
                                              [] c = "conv:intr" -> "lock:intr"
                                              [] c = "conv:intrw" -> "lock:intrw"]

LockSleepOn(p) ==
    /\ pc[p] \in DOMAIN SleepOn /\ lock[args[p].id.q]
    /\ pc' = [pc EXCEPT ![p] = SleepOn[@]]
    /\ UNCHANGED <<que, hdr, msgfp, msgmap, lock, args, mine, raised>>

\* msgconv() gets the lock and finds the queue removed: it gives the lock
\* back, and the call ends.
ConvFails(p) ==
    /\ pc[p] \in Conv /\ ~lock[args[p].id.q] /\ ~Valid(args[p].id)
    /\ Release(p, args[p], Tables, "user")
    /\ UNCHANGED mine

\* msgconv() succeeds.
Locked(a, op) == a.op = op /\ ~lock[a.id.q] /\ Valid(a.id)

(***************************************************************************)
(* msgsnd.                                                                 *)
(***************************************************************************)

\* The first part: under the lock, copy in the type.
SndFirst(p) ==
    /\ \E a \in Calls(p) : Locked(a, "snd") /\ Copy(p, a, {}, "copy:type")
    /\ UNCHANGED <<que, hdr, msgfp, msgmap, mine, raised>>

NoSpace(q, cnt) == cnt + que[q].cbytes > que[q].qbytes

\* getres, with the lock.  What the call goes on with: EAGAIN or a sleep if
\* the queue, the headers or the text space are used up, else the copy of
\* the text with a header and space taken, after waking ev.
SndGetres(p, ev) ==
    LET a == args[p]
        q == a.id.q
        k == Tables
        addr == rmalloc_addr(msgmap, btoq(a.cnt))
        wait(j, place) == Release(p, a, j, IF a.nowait THEN "user" ELSE place) /\ UNCHANGED mine
    IN  \/ /\ NoSpace(q, a.cnt)
           /\ wait(IF a.nowait THEN k ELSE [k EXCEPT !.que[q].wwait = TRUE], "wwait")
        \/ /\ ~NoSpace(q, a.cnt) /\ msgfp = NULL
           /\ wait(k, "hwait")
        \/ /\ ~NoSpace(q, a.cnt) /\ msgfp # NULL
           /\ a.cnt # 0 /\ addr = 0
           /\ LET back == FreeHeader([k EXCEPT !.fp = hdr[msgfp].next], msgfp)
              IN  wait(IF a.nowait THEN back ELSE [back EXCEPT !.map.want = TRUE], "mwait")
        \/ /\ ~NoSpace(q, a.cnt) /\ msgfp # NULL
           /\ a.cnt = 0 \/ addr # 0
           /\ mine' = [mine EXCEPT ![p] = [h |-> msgfp, pmp |-> NULL, addr |-> addr]]
           /\ msgfp' = hdr[msgfp].next
           /\ msgmap' = rmalloc(msgmap, btoq(a.cnt))
           /\ Copy(p, a, ev, "copy:text")
           /\ UNCHANGED <<que, hdr, raised>>

\* The type has been copied; the lock is given up and taken again at once.
SndType(p) == pc[p] = "copy:type" /\ SndGetres(p, {<<"lock", args[p].id.q>>})

\* After a sleep: be sure that q has not been removed, and try again.
SndAgain(p) == pc[p] = "conv:again" /\ Locked(args[p], "snd") /\ SndGetres(p, {})

Linked(k, q, h) ==
    LET longer == [k.que[q] EXCEPT !.last = h]
        last == k.que[q].last
    IN  IF last = NULL THEN [k EXCEPT !.que[q] = [longer EXCEPT !.first = h]]
        ELSE [k EXCEPT !.hdr[last].next = h, !.que[q] = longer]

WakeReaders(k, q) ==
    IF k.que[q].rwait
    THEN [k EXCEPT !.que[q].rwait = FALSE, !.ev = @ \cup {<<"qnum", q>>}]
    ELSE k

\* The text has been copied: put the message on the queue.
SndText(p) ==
    LET a == args[p]
        q == a.id.q
        h == mine[p].h
        more == [que[q] EXCEPT !.qnum = @ + 1, !.cbytes = @ + a.cnt]
        k == [Tables EXCEPT !.que[q] = more,
                            !.hdr[h] = [next |-> NULL, type |-> a.type, ts |-> a.cnt,
                                        addr |-> mine[p].addr]]
    IN  /\ pc[p] = "copy:text"
        /\ Release(p, a, WakeReaders(Linked(k, q, h), q), "user")
        /\ mine' = [mine EXCEPT ![p] = NoMine]

\* EFAULT: give text space and header back.
SndFault(p) ==
    LET k == FreeText(Tables, btoq(args[p].cnt), mine[p].addr)
    IN  /\ pc[p] = "copy:text" /\ args[p].cnt # 0
        /\ Release(p, args[p], FreeHeader(k, mine[p].h), "user")
        /\ mine' = [mine EXCEPT ![p] = NoMine]

(***************************************************************************)
(* msgrcv.                                                                 *)
(***************************************************************************)

\* The place in chain c of the message that msgtyp t asks for, 0 if none:
\* the first of all, the first of its type, or the first of the lowest type
\* that is not above -t.
Choice(c, t) ==
    LET ok == {i \in DOMAIN c : CASE t = 0 -> TRUE
                                  [] t > 0 -> hdr[c[i]].type = t
                                  [] t < 0 -> hdr[c[i]].type <= -t}
        best == {i \in ok : t < 0 => \A j \in ok : hdr[c[i]].type <= hdr[c[j]].type}
    IN  IF ok = {} THEN 0 ELSE First(best)

\* findmsg, with the lock: copy the message out, or ENOMSG or a sleep if there
\* is none.
RcvFind(p, a) ==
    LET q == a.id.q
        c == Chain(Tables, q)
        i == Choice(c, a.typ)
    IN  \/ /\ i # 0
           /\ mine' = [mine EXCEPT ![p] = [h |-> c[i], addr |-> 0,
                                           pmp |-> IF i = 1 THEN NULL ELSE c[i - 1]]]
           /\ Copy(p, a, {}, "copy:out")
           /\ UNCHANGED <<que, hdr, msgfp, msgmap, raised>>
        \/ /\ i = 0
           /\ IF a.nowait THEN Release(p, a, Tables, "user")
              ELSE Release(p, a, [Tables EXCEPT !.que[q].rwait = TRUE], "rwait")
           /\ UNCHANGED mine

RcvFirst(p) == \E a \in Calls(p) : Locked(a, "rcv") /\ RcvFind(p, a)
RcvAgain(p) == pc[p] = "conv:again" /\ Locked(args[p], "rcv") /\ RcvFind(p, args[p])

\* The message is copied out: take it off the queue.
RcvOut(p) ==
    LET q == args[p].id.q
        k == [Tables EXCEPT !.que[q].cbytes = @ - hdr[mine[p].h].ts]
    IN  /\ pc[p] = "copy:out"
        /\ Release(p, args[p], msgfree(k, q, mine[p].pmp, mine[p].h), "user")
        /\ mine' = [mine EXCEPT ![p] = NoMine]

\* E2BIG or EFAULT: the message stays.
RcvFault(p) ==
    /\ pc[p] = "copy:out"
    /\ Release(p, args[p], Tables, "user")
    /\ mine' = [mine EXCEPT ![p] = NoMine]

(***************************************************************************)
(* msgctl.                                                                 *)
(***************************************************************************)

\* The tables after the loop of IPC_RMID has freed every message.
AllFreed(q) ==
    LET k[i \in 0 .. Cardinality(Headers)] ==
          IF i = 0 THEN Tables
          ELSE IF k[i - 1].que[q].first = NULL THEN k[i - 1]
          ELSE msgfree(k[i - 1], q, NULL, k[i - 1].que[q].first)
    IN  k[Cardinality(Headers)]

\* The rest of IPC_RMID: a new sequence number, and everybody is woken.
Removed(k, q) ==
    [k EXCEPT !.que[q] = [NoQueue EXCEPT !.seq = que[q].seq + 1],
              !.ev = @ \cup (IF k.que[q].rwait THEN {<<"qnum", q>>} ELSE {})
                       \cup (IF k.que[q].wwait THEN {<<"que", q>>} ELSE {})]

CtlRmid(p) ==
    /\ \E a \in Calls(p) :
         Locked(a, "rmid") /\ Release(p, a, Removed(AllFreed(a.id.q), a.id.q), "user")
    /\ UNCHANGED mine

\* IPC_SET copies in the new values under the lock ...
CtlSet(p) ==
    /\ \E a \in Calls(p) : Locked(a, "set") /\ Copy(p, a, {}, "copy:set")
    /\ UNCHANGED <<que, hdr, msgfp, msgmap, mine, raised>>

\* ... and stores them; nobody is told that there is more room.
CtlSetDone(p) ==
    LET q == args[p].id.q
    IN  /\ pc[p] = "copy:set"
        /\ que' = [que EXCEPT ![q].qbytes = args[p].qbytes]
        /\ lock' = [lock EXCEPT ![q] = FALSE]
        /\ pc' = wakeprocs({<<"lock", q>>}, p, "user")
        /\ raised' = [raised EXCEPT ![q] = @ \/ args[p].qbytes > que[q].qbytes]
        /\ args' = Return(p)
        /\ UNCHANGED <<hdr, msgfp, msgmap, mine>>

\* EFAULT in a copy that nothing depends on.
CopyFault(p) ==
    /\ pc[p] \in {"copy:type", "copy:set"}
    /\ Release(p, args[p], Tables, "user")
    /\ UNCHANGED mine

(***************************************************************************)
(* Signals.                                                                *)
(***************************************************************************)

\* A reader returns EINTR at once, and so does a process that waits for the
\* lock (its sleep has no PCATCH and does not return); a writer first takes
\* the lock again.
Signal(p) ==
    /\ pc[p] \in Waits \cup LockSleep
    /\ pc' = [pc EXCEPT ![p] = CASE @ = "wwait" -> "conv:intrw"
                                 [] @ \in {"hwait", "mwait"} -> "conv:intr"
                                 [] OTHER -> "user"]
    /\ args' = IF pc'[p] = "user" THEN Return(p) ELSE args
    /\ UNCHANGED <<que, hdr, msgfp, msgmap, lock, mine, raised>>

\* Mutant: a writer clears the flag on its way out and tells nobody.
IntrWriterSilent(p) ==
    /\ pc[p] = "conv:intrw" /\ Locked(args[p], "snd")
    /\ Release(p, args[p], [Tables EXCEPT !.que[args[p].id.q].wwait = FALSE], "user")
    /\ UNCHANGED mine

\* A writer that waited for room on the queue clears the flag, and so has to
\* wake the other writers.
IntrWriter(p) ==
    LET q == args[p].id.q
    IN  /\ pc[p] = "conv:intrw" /\ Locked(args[p], "snd")
        /\ Release(p, args[p], [Tables EXCEPT !.que[q].wwait = FALSE, !.ev = {<<"que", q>>}], "user")
        /\ UNCHANGED mine

\* One that waited for a header or for text space just unlocks the queue.
IntrResource(p) ==
    /\ pc[p] = "conv:intr" /\ Locked(args[p], "snd")
    /\ Release(p, args[p], Tables, "user")
    /\ UNCHANGED mine

(***************************************************************************)
(* The specification.                                                      *)
(***************************************************************************)

\* msginit(): the headers are linked in the order of the table.
Init ==
    /\ que = [q \in Queues |-> NoQueue]
    /\ \E order \in [1 .. Cardinality(Headers) -> Headers] :
         /\ \A h \in Headers : \E i \in DOMAIN order : order[i] = h
         /\ msgfp = order[1]
         /\ hdr = [h \in Headers |->
                     LET i == CHOOSE j \in DOMAIN order : order[j] = h
                     IN  [NoHeader EXCEPT !.next = IF i = Cardinality(Headers) THEN NULL
                                                   ELSE order[i + 1]]]
    /\ msgmap = rmfree(mapinit(msgmap_len), msgseg, 1)
    /\ lock = [q \in Queues |-> FALSE]
    /\ pc = [p \in Procs |-> "user"]
    /\ args = [p \in Procs |-> NULL]
    /\ mine = [p \in Procs |-> NoMine]
    /\ raised = [q \in Queues |-> FALSE]

\* What a process in a call does next.
Step(p) ==
    \/ EnterLocked(p) \/ LockSleepOn(p) \/ ConvFails(p)
    \/ SndFirst(p) \/ SndType(p) \/ SndAgain(p) \/ SndText(p) \/ SndFault(p)
    \/ RcvFirst(p) \/ RcvAgain(p) \/ RcvOut(p) \/ RcvFault(p)
    \/ CtlRmid(p) \/ CtlSet(p) \/ CtlSetDone(p) \/ CopyFault(p)
    \/ IntrWriter(p) \/ IntrResource(p)

Next ==
    \E p \in Procs :
        \/ \E q \in Queues : Msgget(p, q)
        \/ Signal(p)
        \/ Step(p)

Spec == Init /\ [][Next]_vars

(***************************************************************************)
(* Properties.                                                             *)
(***************************************************************************)

\* Every variable has its type.
TypeOK ==
    /\ que \in [Queues -> Queue]
    /\ hdr \in [Headers -> Header]
    /\ msgfp \in Ptr
    /\ msgmap.slots \in Nat /\ msgmap.ext \in Seq(Extent)
    /\ lock \in [Queues -> BOOLEAN]
    /\ pc \in [Procs -> PC]
    /\ args \in [Procs -> Args \cup {NULL}]
    /\ mine \in [Procs -> [h : Ptr, pmp : Ptr, addr : Nat]]
    /\ raised \in [Queues -> BOOLEAN]

\* The free headers, linked like a queue.
FreeChain ==
    Chain([Tables EXCEPT !.que = [q \in {NULL} |-> [first |-> msgfp]]], NULL)

InFlight == {p \in Procs : pc[p] = "copy:text"}

On(c) == {c[i] : i \in DOMAIN c}
SumTs(c) == LET sum[i \in 0 .. Len(c)] == IF i = 0 THEN 0 ELSE sum[i - 1] + hdr[c[i]].ts
            IN  sum[Len(c)]

\* Every header is in one place only: once on a queue, on the free list, or
\* with the sender that has taken it; and a queue's pointers and counters say
\* what is on it, although messages leave from the middle.  The lock byte is
\* set exactly while one call is in a copy under it: no error path leaves it
\* set, and no two calls are inside.
QueuesSound ==
    /\ \A q \in Queues :
          Cardinality({p \in Procs : pc[p] \in Copies /\ args[p].id.q = q})
          = IF lock[q] THEN 1 ELSE 0
    /\ \A q \in Queues : que[q].alloc =>
          LET c == Chain(Tables, q)
          IN  /\ Len(c) <= Cardinality(Headers)
              /\ que[q].qnum = Len(c)
              /\ que[q].cbytes = SumTs(c)
              /\ que[q].last = IF c = <<>> THEN NULL ELSE c[Len(c)]
    /\ \A h \in Headers :
          Cardinality({q \in Queues : que[q].alloc /\ h \in On(Chain(Tables, q))})
          + Cardinality({p \in InFlight : mine[p].h = h})
          + (IF h \in On(FreeChain) THEN 1 ELSE 0) = 1

\* The text that messages on queues and senders hold: for which header, and
\* which units.
Queued == UNION {On(Chain(Tables, q)) : q \in {r \in Queues : que[r].alloc}}
Texts == {<<h, hdr[h].addr, btoq(hdr[h].ts)>> : h \in Queued}
Held == {<<mine[p].h, mine[p].addr, btoq(args[p].cnt)>> : p \in InFlight}
Units(t) == t[2] .. t[2] + t[3] - 1

\* No text is lost or handed out twice: the free extents are as rmalloc() and
\* rmfree() assume them, and with the messages they make up the whole pool.
PoolSound ==
    LET used == {t \in Texts \cup Held : t[3] > 0}
    IN  /\ MapSound(msgmap)
        /\ \A t, u \in used : t # u => Units(t) \cap Units(u) = {}
        /\ \A t \in used : Units(t) \cap FreeUnits(msgmap) = {}
        /\ FreeUnits(msgmap) \cup UNION {Units(t) : t \in used} = 1 .. msgseg

\* Whether the call of p, asleep, could go on now.
CanGoOn(p) ==
    LET a == args[p]
        q == a.id.q
    IN  CASE pc[p] = "rwait" -> ~Valid(a.id) \/ Choice(Chain(Tables, q), a.typ) # 0
          [] pc[p] = "wwait" -> ~Valid(a.id) \/ (~NoSpace(q, a.cnt) /\ ~raised[q])
          [] pc[p] = "hwait" -> msgfp # NULL
          [] pc[p] = "mwait" -> rmalloc_addr(msgmap, btoq(a.cnt)) # 0
          [] pc[p] \in LockSleep -> ~lock[q]

\* A sleeper has left word where its waker looks.
WakerKnows(p) ==
    /\ pc[p] = "rwait" => que[args[p].id.q].rwait
    /\ pc[p] = "wwait" => que[args[p].id.q].wwait
    /\ pc[p] = "mwait" => msgmap.want

\* No wakeup is lost: a process that sleeps in msgsnd(), msgrcv() or msgconv()
\* for a message, for room on its queue, for a header, for text space or for
\* the lock really has to wait, and its waker will know.  Room that IPC_SET
\* makes by raising msg_qbytes is the one exception.
SleepersMustWait ==
    \A p \in Procs : pc[p] \in Waits \cup LockSleep => ~CanGoOn(p) /\ WakerKnows(p)
=============================================================================

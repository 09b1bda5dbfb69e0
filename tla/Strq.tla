-------------------------------- MODULE Strq --------------------------------
(***************************************************************************)
(* STREAMS message queues (io/stream.c): insertion by class and band, flow *)
(* control with water marks per band, back-enabling, and the list of       *)
(* queues whose service procedures are to run.                             *)
(*                                                                         *)
(* The operators work on a record k: k.q, the queues; k.runq, the run list *)
(* from qhead; k.flag, qrunflag; k.back, the nearest queue behind each one *)
(* that has a service procedure.                                           *)
(***************************************************************************)
EXTENDS Integers, Sequences, FiniteSets
LOCAL INSTANCE SequencesExt

CONSTANTS NULL, hiwat, lowat

ASSUME WaterMarks == hiwat \in Nat \ {0} /\ lowat \in Nat /\ lowat < hiwat

\* hi: queclass() is QPCTL.  data: datamsg().  band 0 for high priority.
\* written: the band it was written in, for the properties.
Msg == [id : Nat, hi : BOOLEAN, data : BOOLEAN, band : Nat, size : Nat, written : Nat]

NoBand == [first |-> NULL, last |-> NULL, count |-> 0, full |-> FALSE, wantw |-> FALSE]

\* bands: the qband structures, of bands 1, 2, ...
NoQueue == [msgs |-> <<>>, count |-> 0, full |-> FALSE, wantr |-> TRUE, wantw |-> FALSE,
            enab |-> FALSE, bands |-> <<>>]

\* qenable(): place the queue on the run list unless it is there.
qenable(k, q) ==
    IF k.q[q].enab THEN k
    ELSE [k EXCEPT !.q[q].enab = TRUE, !.runq = Append(@, q), !.flag = TRUE]

\* Enable the nearest back queue with a service procedure.
BackEnable(k, q) == IF k.back[q] = NULL THEN k ELSE qenable(k, k.back[q])

\* The qband structures up to band b, allocated on the fly.  putq() that finds
\* no memory for one gives up (WriteLost in Streams).
WithBands(r, b) ==
    [r EXCEPT !.bands = [i \in 1 .. IF b > Len(@) THEN b ELSE Len(@) |->
                           IF i <= Len(@) THEN @[i] ELSE NoBand]]

\* The place before the first message for which T is true, else the end.
PlaceBefore(s, T(_)) ==
    LET i == SelectInSeq(s, T)
    IN  IF i = 0 THEN Len(s) + 1 ELSE i

\* Where putq() inserts m in the queue r: behind the messages of its band, or
\* behind those of higher ones.
PutPlace(r, m) ==
    LET s == r.msgs
        lastInBand == PlaceBefore(s, LAMBDA n : n = r.bands[m.band].last)
    IN  CASE s = <<>> -> 1
          [] s # <<>> /\ m.band = 0 /\ (~m.hi \/ s[Len(s)].hi) -> Len(s) + 1
          [] s # <<>> /\ m.band = 0 /\ m.hi /\ ~s[Len(s)].hi -> PlaceBefore(s, LAMBDA n : ~n.hi)
          [] s # <<>> /\ m.band # 0 /\ r.bands[m.band].first # NULL -> lastInBand + 1
          [] OTHER -> PlaceBefore(s, LAMBDA n : ~n.hi /\ n.band < m.band)

\* Mutant: behind the messages of its band.
PutbackPlace_last(r, m) ==
    LET s == r.msgs
    IN  CASE s = <<>> -> 1
          [] s # <<>> /\ m.hi -> PlaceBefore(s, LAMBDA n : ~n.hi)
          [] s # <<>> /\ ~m.hi -> PlaceBefore(s, LAMBDA n : ~n.hi /\ n.band < m.band)

\* Where putbq() inserts m: before the messages of its band.
PutbackPlace(r, m) ==
    LET s == r.msgs
    IN  CASE s = <<>> \/ m.hi -> 1
          [] s # <<>> /\ ~m.hi /\ m.band # 0 /\ r.bands[m.band].first # NULL ->
               PlaceBefore(s, LAMBDA n : n = r.bands[m.band].first)
          [] OTHER -> PlaceBefore(s, LAMBDA n : ~n.hi /\ n.band <= m.band)

\* Mutant: only data is counted.
Counted_data(r, m) ==
    IF m.band = 0
    THEN [r EXCEPT !.count = @ + IF m.data THEN m.size ELSE 0,
                   !.full = @ \/ (m.data /\ r.count + m.size >= hiwat)]
    ELSE [r EXCEPT !.bands[m.band].count = @ + m.size,
                   !.bands[m.band].full = @ \/ r.bands[m.band].count + m.size >= hiwat]

\* Count m and see whether the queue, or its band, is full.
Counted(r, m) ==
    IF m.band = 0
    THEN [r EXCEPT !.count = @ + m.size, !.full = @ \/ r.count + m.size >= hiwat]
    ELSE [r EXCEPT !.bands[m.band].count = @ + m.size,
                   !.bands[m.band].full = @ \/ r.bands[m.band].count + m.size >= hiwat]

\* Enable the queue for a high priority message, or if its service procedure
\* has found it empty.
EnableFor(k, q, m) == IF m.hi \/ k.q[q].wantr THEN qenable(k, q) ELSE k

putq(k, q, m) ==
    LET r == WithBands(k.q[q], m.band)
        s == [r EXCEPT !.msgs = InsertAt(@, PutPlace(r, m), m)]
        t == IF m.band = 0 THEN s
             ELSE [s EXCEPT !.bands[m.band].last = m,
                            !.bands[m.band].first = IF @ = NULL THEN m ELSE @]
    IN  EnableFor([k EXCEPT !.q[q] = Counted(t, m)], q, m)

putbq(k, q, m) ==
    LET r == WithBands(k.q[q], m.band)
        s == [r EXCEPT !.msgs = InsertAt(@, PutbackPlace(r, m), m)]
        t == IF m.band = 0 THEN s
             ELSE [s EXCEPT !.bands[m.band].first = m,
                            !.bands[m.band].last = IF @ = NULL THEN m ELSE @]
    IN  EnableFor([k EXCEPT !.q[q] = Counted(t, m)], q, m)

\* Take m off the count.
Uncounted(r, m) ==
    IF m.band = 0
    THEN [r EXCEPT !.count = @ - m.size, !.full = @ /\ r.count - m.size >= hiwat]
    ELSE [r EXCEPT !.bands[m.band].count = @ - m.size,
                   !.bands[m.band].full = @ /\ r.bands[m.band].count - m.size >= hiwat]

\* Tell the writers of band b if it is down to the low water mark.
TellWriters(k, q, b) ==
    LET r == k.q[q]
    IN  CASE b = 0 /\ r.wantw /\ r.count <= lowat ->
               BackEnable([k EXCEPT !.q[q].wantw = FALSE], q)
          [] b # 0 /\ r.bands[b].wantw /\ r.bands[b].count <= lowat ->
               BackEnable([k EXCEPT !.q[q].bands[b].wantw = FALSE], q)
          [] OTHER -> k

\* getq() of a queue that is empty: want to be told of the next message; the
\* writers may be enabled.
getq_empty(k, q) ==
    LET j == [k EXCEPT !.q[q].wantr = TRUE]
    IN  IF k.q[q].wantw THEN BackEnable([j EXCEPT !.q[q].wantw = FALSE], q) ELSE j

\* getq() of one that is not.
getq(k, q) ==
    LET m == Head(k.q[q].msgs)
        r == [k.q[q] EXCEPT !.msgs = Tail(@), !.wantr = FALSE]
        s == CASE m.band = 0 -> r
               [] m.band # 0 /\ r.bands[m.band].first = r.bands[m.band].last ->
                    [r EXCEPT !.bands[m.band].first = NULL, !.bands[m.band].last = NULL]
               [] OTHER -> [r EXCEPT !.bands[m.band].first = Head(r.msgs)]
    IN  TellWriters([k EXCEPT !.q[q] = Uncounted(s, m)], q, m.band)

\* rmvq(): take m from wherever it is.
rmvq(k, q, m) ==
    LET r == k.q[q]
        i == SelectInSeq(r.msgs, LAMBDA n : n = m)
        next == IF i < Len(r.msgs) /\ r.msgs[i + 1].band = m.band THEN r.msgs[i + 1] ELSE NULL
        prev == IF i > 1 /\ r.msgs[i - 1].band = m.band THEN r.msgs[i - 1] ELSE NULL
        s == [r EXCEPT !.msgs = RemoveAt(@, i)]
        t == IF m.band = 0 THEN s
             ELSE [s EXCEPT !.bands[m.band].first = IF @ = m THEN next ELSE @,
                            !.bands[m.band].last = IF @ = m THEN prev ELSE @]
    IN  TellWriters([k EXCEPT !.q[q] = Uncounted(t, m)], q, m.band)

\* Put the messages s on q again, one by one.
PutAll(k, q, s) ==
    LET g[i \in 0 .. Len(s)] == IF i = 0 THEN k ELSE putq(g[i - 1], q, s[i])
    IN  g[Len(s)]

\* The queue with nothing on it and nothing full, as flushq() makes it first.
Emptied(r) ==
    [r EXCEPT !.msgs = <<>>, !.count = 0, !.full = FALSE,
              !.bands = [b \in DOMAIN @ |-> [NoBand EXCEPT !.wantw = r.bands[b].wantw]]]

\* Tell the writers of every band in turn.
TellAll(k, q) ==
    LET g[b \in 0 .. Len(k.q[q].bands)] ==
          TellWriters(IF b = 0 THEN k ELSE g[b - 1], q, b)
    IN  g[Len(k.q[q].bands)]

\* Mutant: the writers are not told.
flushq_silent(k, q, flag) ==
    PutAll([k EXCEPT !.q[q] = Emptied(@)], q,
           SelectSeq(k.q[q].msgs, LAMBDA m : ~flag /\ ~m.data))

\* flushq(): free all messages, or all data, and put the others again.
flushq(k, q, flag) ==
    TellAll(PutAll([k EXCEPT !.q[q] = Emptied(@)], q,
                   SelectSeq(k.q[q].msgs, LAMBDA m : ~flag /\ ~m.data)), q)

\* flushband() of a band that is not 0: rmvq() each message.
RemoveAll(k, q, s) ==
    LET g[i \in 0 .. Len(s)] == IF i = 0 THEN k ELSE rmvq(g[i - 1], q, s[i])
    IN  g[Len(s)]

\* flushband()
flushband(k, q, b, flag) ==
    IF b = 0
    THEN TellWriters(PutAll([k EXCEPT !.q[q] = Emptied(@)], q,
                            SelectSeq(k.q[q].msgs,
                                      LAMBDA m : m.hi \/ m.band # 0 \/ (~flag /\ ~m.data))), q, 0)
    ELSE RemoveAll(k, q, SelectSeq(k.q[q].msgs, LAMBDA m : m.band = b /\ (flag \/ m.data)))

\* bcanput(): whether band b of q is not full ...
bcanput(k, q, b) ==
    IF b = 0 THEN ~k.q[q].full
    ELSE b \in DOMAIN k.q[q].bands => ~k.q[q].bands[b].full

\* ... and what it leaves if it is.
Wanting(k, q, b) ==
    IF b = 0 THEN [k EXCEPT !.q[q].wantw = TRUE] ELSE [k EXCEPT !.q[q].bands[b].wantw = TRUE]
=============================================================================

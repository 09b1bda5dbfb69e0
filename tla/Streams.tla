------------------------------ MODULE Streams ------------------------------
(***************************************************************************)
(* The write side of a stream: writers at the stream head (os/streamio.c), *)
(* the queue "head" whose service procedure wakes them, a module's queue   *)
(* "mod" (timod), the driver's queue "drv", and the queue scheduler        *)
(* (os/strsubr.c).                                                         *)
(*                                                                         *)
(* Service procedures run one at a time, in the context of a process that  *)
(* is not preempted; interrupts come between any two steps.  srv is the    *)
(* queue whose service procedure is running, hand its message.             *)
(***************************************************************************)
EXTENDS Strq

CONSTANTS Procs,
          Kinds,       \* the messages that are written, without their id
          AddrLen,     \* what tim_filladdr() adds to a message
          MaxMsgs      \* bound on write calls

ASSUME KindsTyped ==
    /\ Kinds \subseteq [hi : BOOLEAN, data : BOOLEAN, band : Nat, size : Nat]
    /\ \A t \in Kinds : t.hi => t.band = 0
    /\ AddrLen \in Nat

VARIABLES que,         \* the three queues
          runq,        \* the run list
          qrunflag,
          queueflag,   \* queuerun(): "off", "run", or "end" after its last splx()
          srv, hand,
          busy,        \* the device is sending
          wsleep,      \* WSLEEP of the stream head
          pc, kind,    \* where each writer is, and what it writes
          calls,       \* write calls so far
          sent,        \* messages put so far: the next id
          pushed,      \* mod is in the stream
          clts,        \* CLTS of timod: the transport is connectionless
          popping,     \* a process is in qdetach()
          starved      \* mod put a message back for want of memory, and its
                       \* service procedure did not run since (auxiliary)

vars == <<que, runq, qrunflag, queueflag, srv, hand, busy, wsleep, pc, kind, calls, sent,
          pushed, clts, popping, starved>>

stream == <<pushed, clts, popping>>
plumbing == <<stream, starved>>

\* The processor is free for another process, or for the scheduler.
Free == queueflag = "off" /\ ~popping

Queues == {"head", "mod", "drv"}

Behind == [q \in Queues |-> CASE q = "head" -> NULL
                              [] q = "mod" -> "head"
                              [] q = "drv" -> IF pushed THEN "mod" ELSE "head"]

State == [q |-> que, runq |-> runq, flag |-> qrunflag, back |-> Behind]

\* q_next of the stream head.
First == IF pushed THEN "mod" ELSE "drv"

Store(k) == que' = k.q /\ runq' = k.runq /\ qrunflag' = k.flag

Numbered(t, n) ==
    [id |-> n, hi |-> t.hi, data |-> t.data, band |-> t.band, size |-> t.size,
     written |-> t.band]

\* wakeprocs() on the stream head's write queue.
Awake == [p \in Procs |-> IF pc[p] = "asleep" THEN "try" ELSE pc[p]]

(***************************************************************************)
(* Writers: strwrite(), strputmsg(), strwaitq().                           *)
(***************************************************************************)

\* What p tries to write: in a new call, or after a sleep.
Tries(p) ==
    CASE pc[p] = "idle" /\ calls < MaxMsgs -> Kinds
      [] pc[p] = "try" -> {kind[p]}
      [] OTHER -> {}

Started(p, t) ==
    /\ kind' = [kind EXCEPT ![p] = t]
    /\ calls' = IF pc[p] = "idle" THEN calls + 1 ELSE calls

\* p returns from its call.
Unset == CHOOSE t \in Kinds : TRUE
Returns(p) == kind' = [kind EXCEPT ![p] = Unset]

\* There is room: strmakemsg() builds the message, and may sleep.
WriteGo(p) ==
    /\ Free
    /\ \E t \in Tries(p) :
         /\ t.hi \/ bcanput(State, First, t.band)
         /\ pc' = [pc EXCEPT ![p] = "made"]
         /\ Started(p, t)
    /\ UNCHANGED <<que, runq, qrunflag, queueflag, srv, hand, busy, wsleep, sent, plumbing>>

WriteSleep(p) ==
    /\ Free
    /\ \E t \in Tries(p) :
         /\ ~t.hi /\ ~bcanput(State, First, t.band)
         /\ Store(Wanting(State, First, t.band))
         /\ Started(p, t)
    /\ wsleep' = TRUE
    /\ pc' = [pc EXCEPT ![p] = "asleep"]
    /\ UNCHANGED <<queueflag, srv, hand, busy, sent, plumbing>>

\* Put the message downstream, and run the queues that this enabled.
WritePut(p) ==
    /\ Free /\ pc[p] = "made"
    /\ LET k == putq(State, First, Numbered(kind[p], sent))
       IN  Store(k) /\ queueflag' = IF k.flag THEN "run" ELSE "off"
    /\ sent' = sent + 1
    /\ pc' = [pc EXCEPT ![p] = "idle"] /\ Returns(p)
    /\ UNCHANGED <<srv, hand, busy, wsleep, calls, plumbing>>

\* allocband() finds no memory in timod's putq(): timodput() does not look at
\* the result, and the message is lost.  Bands below its own may be there now.
WriteLost(p) ==
    /\ Free /\ pc[p] = "made" /\ pushed
    /\ \E b \in Len(que.mod.bands) .. kind[p].band - 1 :
         que' = [que EXCEPT !.mod = WithBands(@, b)]
    /\ queueflag' = IF qrunflag THEN "run" ELSE "off"
    /\ sent' = sent + 1
    /\ pc' = [pc EXCEPT ![p] = "idle"] /\ Returns(p)
    /\ UNCHANGED <<runq, qrunflag, srv, hand, busy, wsleep, calls, plumbing>>

\* Mutant: the flag that is shared with other writers is cleared in silence.
WriteIntrQuiet(p) ==
    /\ Free /\ pc[p] = "asleep"
    /\ wsleep' = FALSE
    /\ pc' = [pc EXCEPT ![p] = "idle"] /\ Returns(p)
    /\ UNCHANGED <<que, runq, qrunflag, queueflag, srv, hand, busy, calls, sent, plumbing>>

\* A signal ends the sleep: WSLEEP is cleared, and the other writers look again.
WriteIntr(p) ==
    /\ Free /\ pc[p] = "asleep"
    /\ wsleep' = FALSE
    /\ pc' = [Awake EXCEPT ![p] = "idle"] /\ Returns(p)
    /\ UNCHANGED <<que, runq, qrunflag, queueflag, srv, hand, busy, calls, sent, plumbing>>

(***************************************************************************)
(* The scheduler: runqueues(), queuerun().                                 *)
(***************************************************************************)

\* On the return to user mode, or when idle.
RunStart ==
    /\ qrunflag /\ Free
    /\ queueflag' = "run"
    /\ UNCHANGED <<que, runq, qrunflag, srv, hand, busy, wsleep, pc, kind, calls, sent, plumbing>>

RunNext ==
    /\ queueflag = "run" /\ srv = NULL /\ runq # <<>>
    /\ srv' = Head(runq) /\ runq' = Tail(runq)
    /\ que' = [que EXCEPT ![Head(runq)].enab = FALSE]
    /\ starved' = (starved /\ Head(runq) # "mod")
    /\ UNCHANGED <<qrunflag, queueflag, hand, busy, wsleep, pc, kind, calls, sent, stream>>

\* The list is empty: qrunflag is cleared before interrupts are let in ...
RunEnd ==
    /\ queueflag = "run" /\ srv = NULL /\ runq = <<>>
    /\ qrunflag' = FALSE /\ queueflag' = "end"
    /\ UNCHANGED <<que, runq, srv, hand, busy, wsleep, pc, kind, calls, sent, plumbing>>

\* Mutant: qrunflag is cleared after it, too.
RunExitLate ==
    /\ queueflag = "end"
    /\ queueflag' = "off" /\ qrunflag' = FALSE
    /\ UNCHANGED <<que, runq, srv, hand, busy, wsleep, pc, kind, calls, sent, plumbing>>

\* ... and queueflag after.
RunExit ==
    /\ queueflag = "end"
    /\ queueflag' = "off"
    /\ UNCHANGED <<que, runq, qrunflag, srv, hand, busy, wsleep, pc, kind, calls, sent, plumbing>>

(***************************************************************************)
(* Service procedures.                                                     *)
(***************************************************************************)

\* strwsrv() wakes the writers.
HeadSrv ==
    /\ srv = "head"
    /\ wsleep' = FALSE
    /\ pc' = IF wsleep THEN Awake ELSE pc
    /\ srv' = NULL
    /\ UNCHANGED <<que, runq, qrunflag, queueflag, hand, busy, kind, calls, sent, plumbing>>

\* The module's service procedure takes a message, if there is one ...
ModGet ==
    /\ srv = "mod" /\ hand = NULL
    /\ IF que.mod.msgs = <<>>
       THEN Store(getq_empty(State, "mod")) /\ srv' = NULL /\ UNCHANGED hand
       ELSE Store(getq(State, "mod")) /\ hand' = Head(que.mod.msgs) /\ UNCHANGED srv
    /\ UNCHANGED <<queueflag, busy, wsleep, pc, kind, calls, sent, plumbing>>

\* ... and passes it on, or puts it back if the next queue has no room.
RoomBelow == hand.hi \/ bcanput(State, "drv", hand.band)

\* Over a connectionless transport data get the address: tim_filladdr() makes
\* a new first block, and a message is in the band of its first block.
NeedsAddress(m) == clts /\ m.data /\ ~m.hi
tim_filladdr(m) == [m EXCEPT !.band = 0, !.size = @ + AddrLen]

ModPass ==
    /\ srv = "mod" /\ hand # NULL
    /\ IF RoomBelow
       THEN /\ Store(putq(State, "drv",
                          IF NeedsAddress(hand) THEN tim_filladdr(hand) ELSE hand))
            /\ UNCHANGED srv
       ELSE Store(putbq(Wanting(State, "drv", hand.band), "mod", hand)) /\ srv' = NULL
    /\ hand' = NULL
    /\ UNCHANGED <<queueflag, busy, wsleep, pc, kind, calls, sent, plumbing>>

\* tim_filladdr() finds no memory: the message is put back, and nothing is
\* arranged (no bufcall(), no timeout()) that would enable the queue again.
ModStarve ==
    /\ srv = "mod" /\ hand # NULL
    /\ RoomBelow /\ NeedsAddress(hand)
    /\ Store(putbq(State, "mod", hand)) /\ srv' = NULL
    /\ hand' = NULL
    /\ starved' = TRUE
    /\ UNCHANGED <<queueflag, busy, wsleep, pc, kind, calls, sent, stream>>

\* The driver sends one message at a time.
DrvSrv ==
    /\ srv = "drv"
    /\ IF busy
       THEN srv' = NULL /\ UNCHANGED <<que, runq, qrunflag, busy>>
       ELSE IF que.drv.msgs = <<>>
            THEN Store(getq_empty(State, "drv")) /\ srv' = NULL /\ UNCHANGED busy
            ELSE Store(getq(State, "drv")) /\ busy' = TRUE /\ UNCHANGED srv
    /\ UNCHANGED <<queueflag, hand, wsleep, pc, kind, calls, sent, plumbing>>

(***************************************************************************)
(* Interrupts, flushing, I_POP and I_PUSH.                                 *)
(***************************************************************************)

DevDone ==
    /\ busy /\ busy' = FALSE
    /\ Store(qenable(State, "drv"))
    /\ UNCHANGED <<queueflag, srv, hand, wsleep, pc, kind, calls, sent, plumbing>>

\* M_FLUSH, from a user or from the device.  Queues other than these are not
\* touched, and an empty one stays as it is.
Flushed(q, k) ==
    /\ que[q].msgs # <<>>
    /\ Store(k)
    /\ UNCHANGED <<queueflag, srv, hand, busy, wsleep, pc, kind, calls, sent, plumbing>>

\* timodput() of M_FLUSH, and with FLUSHBAND: it passes FLUSHDATA, which is 0,
\* for the band, and the band for the flag.
ModFlush == pushed /\ Flushed("mod", flushq(State, "mod", FALSE))
ModFlushBand(b) == pushed /\ Flushed("mod", flushband(State, "mod", 0, b # 0))

\* The driver frees data, or everything; of one band, the data.
DrvFlush(flag) == Flushed("drv", flushq(State, "drv", flag))
DrvFlushBand(b) == Flushed("drv", flushband(State, "drv", b, FALSE))

\* qdetach() first lets the scheduler run ...
PopStart ==
    /\ pushed /\ Free
    /\ popping' = TRUE
    /\ queueflag' = IF qrunflag THEN "run" ELSE "off"
    /\ UNCHANGED <<que, runq, qrunflag, srv, hand, busy, wsleep, pc, kind, calls, sent,
                   pushed, clts, starved>>

\* ... then takes the queue off the run list, flushes it and unlinks it.
Pop ==
    /\ popping /\ queueflag = "off"
    /\ LET k == [State EXCEPT !.runq = SelectSeq(@, LAMBDA q : q # "mod")]
       IN  Store([flushq(k, "mod", TRUE) EXCEPT !.q["mod"] = NoQueue])
    /\ pushed' = FALSE /\ popping' = FALSE /\ clts' = FALSE /\ starved' = FALSE
    /\ UNCHANGED <<queueflag, srv, hand, busy, wsleep, pc, kind, calls, sent>>

\* qattach(): a new queue behind the stream head.
Push ==
    /\ ~pushed /\ Free
    /\ pushed' = TRUE /\ clts' \in BOOLEAN
    /\ que' = [que EXCEPT !["mod"] = NoQueue]
    /\ UNCHANGED <<runq, qrunflag, queueflag, srv, hand, busy, wsleep, pc, kind, calls, sent,
                   popping, starved>>

(***************************************************************************)
(* The specification.                                                      *)
(***************************************************************************)

Init ==
    /\ que = [q \in Queues |-> NoQueue]
    /\ runq = <<>> /\ qrunflag = FALSE /\ queueflag = "off"
    /\ srv = NULL /\ hand = NULL /\ wsleep = FALSE
    /\ busy \in BOOLEAN      \* with a message of before
    /\ pc = [p \in Procs |-> "idle"]
    /\ kind = [p \in Procs |-> Unset]
    /\ calls = 0 /\ sent = 0
    /\ pushed \in BOOLEAN /\ popping = FALSE
    /\ clts \in BOOLEAN /\ (clts => pushed) /\ starved = FALSE

Writer(p) == WriteGo(p) \/ WriteSleep(p) \/ WritePut(p) \/ WriteLost(p)
Service == HeadSrv \/ ModGet \/ ModPass \/ ModStarve \/ DrvSrv
Scheduler == RunStart \/ RunNext \/ RunEnd \/ RunExit \/ Service

Next ==
    \/ \E p \in Procs : Writer(p) \/ WriteIntr(p)
    \/ Scheduler
    \/ DevDone
    \/ ModFlush
    \/ \E flag \in BOOLEAN : DrvFlush(flag)
    \/ \E b \in 0 .. 1 : ModFlushBand(b) \/ DrvFlushBand(b)
    \/ PopStart \/ Pop

\* The scheduler runs when it has something to do (every tick comes back to
\* user mode or to the idle loop), qdetach() goes on, and the device answers.
Fairness == WF_vars(Scheduler \/ Pop) /\ WF_vars(DevDone)

Spec == Init /\ [][Next]_vars /\ Fairness

\* ... with I_PUSH of the module.
PushSpec == Init /\ [][Next \/ Push]_vars /\ Fairness

(***************************************************************************)
(* Properties.                                                             *)
(***************************************************************************)

Ptr == Msg \cup {NULL}
Band == [first : Ptr, last : Ptr, count : Nat, full : BOOLEAN, wantw : BOOLEAN]
Queue == [msgs : Seq(Msg), count : Nat, full : BOOLEAN, wantr : BOOLEAN, wantw : BOOLEAN,
          enab : BOOLEAN, bands : Seq(Band)]

\* Every variable has its type; no count is negative.
TypeOK ==
    /\ que \in [Queues -> Queue]
    /\ runq \in Seq(Queues) /\ qrunflag \in BOOLEAN /\ queueflag \in {"off", "run", "end"}
    /\ srv \in Queues \cup {NULL} /\ hand \in Ptr
    /\ busy \in BOOLEAN /\ wsleep \in BOOLEAN /\ pushed \in BOOLEAN /\ popping \in BOOLEAN
    /\ clts \in BOOLEAN /\ starved \in BOOLEAN
    /\ pc \in [Procs -> {"idle", "made", "asleep", "try"}]
    /\ kind \in [Procs -> Kinds] /\ calls \in 0 .. MaxMsgs /\ sent \in 0 .. MaxMsgs

OfBand(r, b) == SelectSeq(r.msgs, LAMBDA m : m.band = b)
Total(s) == LET sum[i \in 0 .. Len(s)] == IF i = 0 THEN 0 ELSE sum[i - 1] + s[i].size
            IN  sum[Len(s)]
Rank(m) == IF m.hi THEN 1000 ELSE m.band
Written(m) == IF m.hi THEN 1000 ELSE m.written

\* A queue is sorted by priority, its counts are the sizes of what is on it,
\* a band is full from the high water mark on, and the band's pointers are
\* its first and last message, whatever was put back, flushed or removed.
\* Messages written in one rank do not overtake each other on their way to the
\* device, though timod changes their band; when it is popped, those that it
\* changed are a rank of their own.
QueueSound ==
    /\ LET way == que.drv.msgs \o (IF hand = NULL THEN <<>> ELSE <<hand>>) \o que.mod.msgs
       IN  \A i, j \in DOMAIN way :
             /\ i < j /\ Written(way[i]) = Written(way[j])
             /\ clts \/ Rank(way[i]) = Rank(way[j])
             => way[i].id < way[j].id
    /\ \A q \in {"mod", "drv"} :
        LET r == que[q]
        IN  /\ \A i \in 1 .. Len(r.msgs) - 1 : Rank(r.msgs[i]) >= Rank(r.msgs[i + 1])
            /\ r.count = Total(OfBand(r, 0)) /\ (r.full <=> r.count >= hiwat)
            /\ \A b \in DOMAIN r.bands :
                 LET s == OfBand(r, b)
                 IN  /\ r.bands[b].count = Total(s)
                     /\ r.bands[b].full <=> r.bands[b].count >= hiwat
                     /\ r.bands[b].first = IF s = <<>> THEN NULL ELSE s[1]
                     /\ r.bands[b].last = IF s = <<>> THEN NULL ELSE s[Len(s)]

Wanted(q, b) == IF b = 0 THEN que[q].wantw ELSE b <= Len(que[q].bands) /\ que[q].bands[b].wantw
Level(q, b) == IF b = 0 THEN que[q].count ELSE que[q].bands[b].count
WillRun(q) == que[q].enab \/ srv = q

\* No queue is left alone: what is enabled is on the run list, and the
\* scheduler knows; a queue with messages will run, unless the one below
\* will back-enable it or the device is busy; a queue that is wanted still
\* has to fall to its low water mark.  The exception is a timod that found no
\* memory for an address (starved), for which the code arranges nothing.
NoStall ==
    /\ \A q \in Queues : que[q].enab <=> \E i \in DOMAIN runq : runq[i] = q
    /\ \A i, j \in DOMAIN runq : i # j => runq[i] # runq[j]
    /\ runq # <<>> => qrunflag
    /\ que.mod.msgs # <<>> =>
         \/ WillRun("mod") \/ starved
         \/ \E b \in 0 .. Len(que.drv.bands) : Wanted("drv", b)
    /\ que.drv.msgs # <<>> => WillRun("drv") \/ busy
    /\ \A q \in {"mod", "drv"}, b \in 0 .. 1 : Wanted(q, b) => Level(q, b) > lowat

\* A writer that sleeps for room is woken by the stream head's service
\* procedure, which will run, or which the queue that was full will enable.
WriterTold ==
    \A p \in Procs : pc[p] = "asleep" =>
        wsleep /\ (WillRun("head") \/ Wanted(First, kind[p].band))

\* All that is put on the stream comes out or is flushed, and no writer is left
\* asleep, even if the writers that were woken never run again; but what is on
\* timod's queue, and writers who wait for room there, may stay for ever once
\* it found no memory for an address.
Drains == <>[](/\ que.drv.msgs = <<>> /\ hand = NULL
               /\ \/ starved
                  \/ /\ que.mod.msgs = <<>>
                     /\ \A p \in Procs : pc[p] # "asleep")
=============================================================================

------------------------------- MODULE Flock -------------------------------
(***************************************************************************)
(* Record locking (os/flock.c): the ordered list of locks of one file, the *)
(* chain sleeplcks of waiting requests, and reclock() as fcntl(), the      *)
(* mandatory-locking check of read() and write(), the NFS lock manager and *)
(* close() drive it.                                                       *)
(*                                                                         *)
(* reclock() runs without giving up the processor except in SLEEP(), so a  *)
(* pass through its loop is one step.  A lock carries slp, the processes   *)
(* asleep on its address.  Regions are bytes 0 .. MAXEND of a small file.  *)
(***************************************************************************)
EXTENDS Integers, Sequences, FiniteSets

CONSTANTS Local,       \* owners that are processes of this machine
          Recovered,   \* those of them that serve a remote file sharing client
          Remote,      \* owners the NFS lock manager speaks for
          MAXEND,      \* last byte a lock can cover
          t_flckrec,   \* limit on lock records in use
          Asks,        \* the locks <<type, start, end>> each owner asks for
          NULL

ASSUME OwnersDistinct == Local \cap Remote = {} /\ Recovered \subseteq Local
ASSUME LimitsNatural == MAXEND \in Nat /\ t_flckrec \in Nat
ASSUME AsksProper ==
    \A o \in Local \cup Remote : \A g \in Asks[o] :
        /\ g[1] \in {"F_RDLCK", "F_WRLCK"}
        /\ g[2] \in 0 .. MAXEND /\ g[3] \in g[2] .. MAXEND
ASSUME OwnersFinite == IsFiniteSet(Local) /\ IsFiniteSet(Remote)

Owners == Local \cup Remote
Types == {"F_RDLCK", "F_WRLCK"}
Bytes == 0 .. MAXEND

\* A lock or a request: an owner and the region it asks for; l_end replaces
\* l_len, and a region that is empty or overflows is refused before.
Flock == {f \in [own : Owners, type : Types \cup {"F_UNLCK"},
                 start : Bytes, end : Bytes] : f.start <= f.end}

VARIABLES filocks,     \* v_filocks: sequence of [set, wakeflg, slp]
          sleeplcks,   \* sequence of [set, blk]
          reccnt,      \* flckinfo.reccnt
          pc,          \* where each local owner is
          call,        \* the request each owner is inside of or retries
          hung         \* deadflck() is in its loop and never leaves it

locks == <<filocks, sleeplcks, reccnt, pc, call>>
vars == <<locks, hung>>

\* The locks and unlocks that owner o asks for.
LocksOf(o) == {[own |-> o, type |-> g[1], start |-> g[2], end |-> g[3]] : g \in Asks[o]}
UnlocksOf(o) == {[f EXCEPT !.type = "F_UNLCK"] : f \in LocksOf(o)}

\* A request as reclock() gets it: what to lock and whether to keep it
\* (SETFLCK) or only wait until it could be had (chklock).
Call == [set : Flock, keep : BOOLEAN]

ASSUME NullIsNothing == NULL \notin Owners \cup Flock \cup Call

(***************************************************************************)
(* insflck, delflck, regflck.                                              *)
(***************************************************************************)

Least(S) == CHOOSE i \in S : \A j \in S : i <= j

NewLock(f) == [set |-> f, wakeflg |-> FALSE, slp |-> {}]

\* Mutant: one record more than the limit.
RoomForOneMore(count, mem) == count <= t_flckrec /\ mem

\* insflck() finds room unless the limit is reached or memory is short.
Room(count, mem) == count < t_flckrec /\ mem

InsertAfter(list, i, lock) ==
    SubSeq(list, 1, i) \o <<lock>> \o SubSeq(list, i + 1, Len(list))

\* The list without the entries at the places gone.
Without(list, gone) ==
    LET kept[i \in 0 .. Len(list)] ==
          IF i = 0 THEN <<>>
          ELSE IF i \in gone THEN kept[i - 1] ELSE Append(kept[i - 1], list[i])
    IN  kept[Len(list)]

\* WAKEUP: the processes that a change of this lock makes runnable.
WAKEUP(lock) == IF lock.wakeflg THEN lock.slp ELSE {}

regflck(ld, f) ==
    IF ld.start > f.start /\ ld.start - 1 = f.end THEN <<"S_END", "E_AFTER">>
    ELSE IF ld.start > f.end THEN <<"S_AFTER", "E_AFTER">>
    ELSE << CASE ld.start > f.start -> "S_MIDDLE"
              [] ld.start = f.start -> "S_START"
              [] ld.start < f.start -> "S_BEFORE",
            CASE ld.end = f.end -> "E_END"
              [] ld.end > f.end -> "E_AFTER"
              [] ld.end < f.end /\ ld.end = f.start - 1 -> "E_START"
              [] ld.end < f.start - 1 -> "E_BEFORE"
              [] ld.end < f.end /\ ld.end >= f.start -> "E_MIDDLE" >>

(***************************************************************************)
(* flckadj: one walk over the list.  The state of the walk is the part of  *)
(* the list behind it (out), the region asked for as it grows (ld), the    *)
(* place insrtp as an index into out, a piece td waiting for its place,    *)
(* the record count, whom the changes wake, and how it ended.              *)
(***************************************************************************)

\* Pass over lock l; a piece cut off before goes in front of the first lock
\* that does not start before it.
Keep(w, l) ==
    IF w.td # NULL /\ l.set.start >= w.td.start
    THEN [w EXCEPT !.out = @ \o <<NewLock(w.td), l>>, !.td = NULL]
    ELSE [w EXCEPT !.out = Append(@, l)]

Over(w) == [w EXCEPT !.over = TRUE]

\* delflck().
Del(w, l) == [w EXCEPT !.woken = @ \cup WAKEUP(l), !.count = @ - 1]

\* Mutant: the sleepers on a lock that shrinks are left asleep.
CutSilent(w, l) ==
    [w EXCEPT !.out = Append(@, [l EXCEPT !.set.end = w.ld.start - 1]),
              !.insrtp = Len(w.out) + 1]

\* flp->set.l_end = ld->l_start - 1; WAKEUP(flp); insrtp = flp.
Shrunk(l, end) ==
    [l EXCEPT !.set.end = end, !.wakeflg = FALSE, !.slp = l.slp \ WAKEUP(l)]

Cut(w, l) ==
    [w EXCEPT !.out = Append(@, Shrunk(l, w.ld.start - 1)),
              !.woken = @ \cup WAKEUP(l),
              !.insrtp = Len(w.out) + 1]

\* Mutant: the rest begins one byte too late.
SplitShort(w, l, reg, mem) ==
    IF ~Room(w.count, mem) THEN Over([Keep(w, l) EXCEPT !.ret = "ENOLCK"])
    ELSE LET v == [w EXCEPT !.td = [l.set EXCEPT !.start = w.ld.end + 2],
                            !.count = @ + 1]
         IN  Over(IF reg = <<"S_MIDDLE", "E_MIDDLE">> THEN Cut(v, l) ELSE Del(v, l))

\* The region overlaid is taken out of l and its rest behind the region
\* becomes a lock of its own.
Split(w, l, reg, mem) ==
    IF ~Room(w.count, mem) THEN Over([Keep(w, l) EXCEPT !.ret = "ENOLCK"])
    ELSE LET v == [w EXCEPT !.td = [l.set EXCEPT !.start = w.ld.end + 1],
                            !.count = @ + 1]
         IN  Over(IF reg = <<"S_MIDDLE", "E_MIDDLE">> THEN Cut(v, l) ELSE Del(v, l))

Before(w) == [w EXCEPT !.insrtp = Len(w.out)]

\* The switch of flckadj() for a lock of the same owner.
Adjust(w, l, mem) ==
    LET reg == regflck(w.ld, l.set)
        same == w.ld.type = l.set.type
        joinL == [w EXCEPT !.ld.start = l.set.start]
        joinR == [w EXCEPT !.ld.end = l.set.end]
        inside == Over([Keep(w, l) EXCEPT !.ret = "have"])
    IN  CASE reg = <<"S_BEFORE", "E_BEFORE">> -> Over(Keep(w, l))
          [] reg = <<"S_BEFORE", "E_START">> ->
                Over(IF same THEN Del(joinR, l) ELSE Keep(w, l))
          [] reg = <<"S_START", "E_END">> ->
                IF same THEN inside ELSE Del(Before(w), l)
          [] reg = <<"S_START", "E_AFTER">> -> Del(Before(w), l)
          [] reg = <<"S_BEFORE", "E_END">> ->
                IF same THEN Over(Del(w, l)) ELSE Del(w, l)
          [] reg = <<"S_BEFORE", "E_AFTER">> -> Del(w, l)
          [] reg = <<"S_START", "E_MIDDLE">> ->
                IF same THEN inside ELSE Split(Before(w), l, reg, mem)
          [] reg = <<"S_MIDDLE", "E_MIDDLE">> ->
                IF same THEN inside ELSE Split(w, l, reg, mem)
          [] reg = <<"S_BEFORE", "E_MIDDLE">> ->
                IF same THEN Over(Del(joinR, l)) ELSE Split(w, l, reg, mem)
          [] reg = <<"S_MIDDLE", "E_END">> ->
                IF same THEN inside ELSE Cut(w, l)
          [] reg = <<"S_MIDDLE", "E_AFTER">> ->
                IF same THEN Del(Before(joinL), l) ELSE Cut(w, l)
          [] reg = <<"S_END", "E_AFTER">> ->
                IF same THEN Del(Before(joinL), l) ELSE Keep(w, l)
          [] reg = <<"S_AFTER", "E_AFTER">> ->
                Keep([w EXCEPT !.insrtp = Len(w.out) + 1], l)

\* Where the new lock goes: from insrtp on, behind the locks that start
\* before it; without insrtp, in front.
InsertPlace(list, insrtp, f) ==
    LET n == Least({Len(list) + 1} \cup
                   {j \in insrtp .. Len(list) : list[j].set.start >= f.start})
    IN  IF insrtp = 0 THEN 0 ELSE IF n = insrtp THEN n ELSE n - 1

\* The walk begins at the lock insrt, or at the first one.
WalkFrom(insrt) == IF insrt = 0 THEN 1 ELSE insrt

WalkStart(list, insrt, ld, count) ==
    [out |-> SubSeq(list, 1, WalkFrom(insrt) - 1), ld |-> ld, insrtp |-> insrt, td |-> NULL,
     count |-> count, woken |-> {}, over |-> FALSE, ret |-> "ok"]

Visit(w, l, mem) ==
    IF w.over \/ l.set.own # w.ld.own THEN Keep(w, l) ELSE Adjust(w, l, mem)

Walk(list, insrt, ld, count, mem) ==
    LET walk[i \in (WalkFrom(insrt) - 1) .. Len(list)] ==
          IF i = WalkFrom(insrt) - 1 THEN WalkStart(list, insrt, ld, count)
          ELSE Visit(walk[i - 1], list[i], mem)
    IN  walk[Len(list)]

\* A piece that has found no place goes to the end.
PlacePiece(w) ==
    IF w.td = NULL THEN w ELSE [w EXCEPT !.out = Append(@, NewLock(w.td)), !.td = NULL]

\* insflck() of the new lock, if one is wanted.
AddLock(w, mem) ==
    IF w.ret # "ok" \/ w.ld.type = "F_UNLCK" THEN w
    ELSE IF ~Room(w.count, mem) THEN [w EXCEPT !.ret = "ENOLCK"]
    ELSE [w EXCEPT !.out = InsertAfter(@, InsertPlace(@, w.insrtp, w.ld), NewLock(w.ld)),
                   !.count = @ + 1]

flckadj(list, insrt, ld, count, mem) ==
    AddLock(PlacePiece(Walk(list, insrt, ld, count, mem)), mem)

(***************************************************************************)
(* blocked, deadflck.                                                      *)
(***************************************************************************)

InTheWay(f, ld) == f.type = "F_WRLCK" \/ ld.type = "F_WRLCK"

\* Where the first loop of blocked() stops: at a lock that starts at or
\* behind the region, or at one of the same owner that reaches it.
FirstStop(list, ld) ==
    Least({Len(list) + 1} \cup
          {i \in DOMAIN list : \/ list[i].set.start >= ld.start
                               \/ /\ list[i].set.own = ld.own
                                  /\ ld.start - 1 <= list[i].set.end})

\* Where the second loop stops: at a lock that starts behind the region.
SecondStop(list, ld) ==
    Least({Len(list) + 1} \cup
          {i \in FirstStop(list, ld) .. Len(list) : ld.end < list[i].set.start})

\* Mutant: the second loop begins behind the lock the first one stopped at.
BlockersNext(list, ld) ==
    {i \in 1 .. SecondStop(list, ld) - 1 : /\ i # FirstStop(list, ld)
                                           /\ list[i].set.own # ld.own
                                           /\ ld.start <= list[i].set.end
                                           /\ InTheWay(list[i].set, ld)}

\* The locks either loop would answer with; blocked() answers with the first.
Blockers(list, ld) ==
    {i \in 1 .. SecondStop(list, ld) - 1 : /\ list[i].set.own # ld.own
                                           /\ ld.start <= list[i].set.end
                                           /\ InTheWay(list[i].set, ld)}

\* *insrt: the last lock before the region, up to where the loop stopped.
Insrt(list, ld) ==
    LET n == FirstStop(list, ld)
    IN  IF n <= Len(list) /\ list[n].set.start < ld.start THEN n ELSE n - 1

\* The request of owner o that deadflck() finds first on sleeplcks.
SleepingFor(chain, o) == {i \in DOMAIN chain : chain[i].set.own = o}

BlockerOf(chain, o) ==
    IF SleepingFor(chain, o) = {} THEN NULL
    ELSE chain[Least(SleepingFor(chain, o))].blk

\* The owners that deadflck() comes to from owner b, one after the other.
ChainFrom(chain, b) ==
    LET at[n \in 0 .. Cardinality(Owners)] ==
          IF n = 0 THEN b ELSE IF at[n - 1] = NULL THEN NULL ELSE BlockerOf(chain, at[n - 1])
    IN  at

\* Mutant: the chain of sleepers is not followed.
deadflck_direct(chain, b, o) == b = o

\* deadflck() meets the requester and answers 1.
deadflck(chain, b, o) ==
    \E n \in 0 .. Cardinality(Owners) : ChainFrom(chain, b)[n] = o

\* It comes to an owner without an entry and answers 0.  Otherwise one owner
\* comes again among the first Cardinality(Owners) + 1, and the loop does not end.
ChainEnds(chain, b, o) ==
    /\ ~deadflck(chain, b, o)
    /\ \E n \in 0 .. Cardinality(Owners) : ChainFrom(chain, b)[n] = NULL

(***************************************************************************)
(* reclock.                                                                *)
(***************************************************************************)

\* A step between two sleeps that comes to its end.
Running == ~hung /\ UNCHANGED hung

\* wakeprocs() on the channels that changed.
Wake(pcs, S) == [p \in Local |-> IF p \in S /\ pcs[p] = "SSLEEP" THEN "woken" ELSE pcs[p]]

Back(p) == [pc EXCEPT ![p] = "user"]
Ended(o) == [call EXCEPT ![o] = NULL]

\* Take over the result of a walk, but for the chain of sleeping requests.
Adjusted(a, pcs) ==
    /\ filocks' = a.out
    /\ pc' = Wake(pcs, a.woken)

\* p sets the flag of the lock in its way and goes to sleep on it.
Queued(lock, p) == [lock EXCEPT !.wakeflg = TRUE, !.slp = lock.slp \cup {p}]

\* One pass of the loop for local owner p with request r: granted, refused,
\* or asleep on the lock that was found first.
Pass(p, r, chain, count, mem) ==
    LET B == Blockers(filocks, r.set)
        found == Least(B)
        by == filocks[found].set.own
        a == flckadj(filocks, Insrt(filocks, r.set), r.set, count, mem)
    IN  \/ /\ B = {} /\ r.keep
           /\ Adjusted(a, Back(p))
           /\ reccnt' = a.count
           /\ sleeplcks' = chain
           /\ call' = Ended(p)
        \/ /\ \/ B = {} /\ ~r.keep
              \/ B # {} /\ deadflck(chain, by, p)
              \/ B # {} /\ ChainEnds(chain, by, p) /\ ~Room(count, mem)
           /\ pc' = Back(p)
           /\ call' = Ended(p)
           /\ sleeplcks' = chain
           /\ reccnt' = count
           /\ UNCHANGED filocks
        \/ /\ B # {} /\ ChainEnds(chain, by, p) /\ Room(count, mem)
           /\ sleeplcks' = <<[set |-> r.set, blk |-> by]>> \o chain
           /\ reccnt' = count + 1
           /\ filocks' = [filocks EXCEPT ![found] = Queued(filocks[found], p)]
           /\ pc' = [pc EXCEPT ![p] = "SSLEEP"]
           /\ call' = [call EXCEPT ![p] = r]

\* fcntl(F_SETLKW), and chklock() for a read or write of a blocking file.
ReclockWait(p, r, mem) ==
    /\ Running
    /\ pc[p] = "user"
    /\ Pass(p, r, sleeplcks, reccnt, mem)

\* fcntl(F_SETLK): EAGAIN, which changes nothing, if something is in the way.
ReclockTry(p, f, mem) ==
    LET a == flckadj(filocks, Insrt(filocks, f), f, reccnt, mem)
    IN  /\ Running
        /\ pc[p] = "user"
        /\ Blockers(filocks, f) = {}
        /\ Adjusted(a, pc)
        /\ reccnt' = a.count
        /\ UNCHANGED <<sleeplcks, call>>

\* fcntl(F_SETLK or F_SETLKW) with F_UNLCK: the walk begins at the first lock.
ReclockUnlock(p, f, mem) ==
    LET a == flckadj(filocks, IF filocks = <<>> THEN 0 ELSE 1, f, reccnt, mem)
    IN  /\ Running
        /\ pc[p] = "user"
        /\ Adjusted(a, pc)
        /\ reccnt' = a.count
        /\ UNCHANGED <<sleeplcks, call>>

\* The entry sf that p put on sleeplcks, taken off when its sleep is over.
WithoutOwn(p) == Without(sleeplcks, SleepingFor(sleeplcks, p))

\* SLEEP() returned 0: take the entry off the chain and go round again.
ReclockResume(p, mem) ==
    /\ Running
    /\ pc[p] = "woken"
    /\ Pass(p, call[p], WithoutOwn(p), reccnt - 1, mem)

\* A signal, which an interrupt may send at any time, takes p off the sleep
\* queue ...
Signal(p) ==
    /\ UNCHANGED hung
    /\ pc[p] = "SSLEEP"
    /\ pc' = [pc EXCEPT ![p] = "signalled"]
    /\ filocks' = [i \in DOMAIN filocks |-> [filocks[i] EXCEPT !.slp = @ \ {p}]]
    /\ UNCHANGED <<sleeplcks, reccnt, call>>

\* ... and when it runs, reclock() answers EINTR.
ReclockIntr(p) ==
    /\ Running
    /\ pc[p] = "signalled"
    /\ pc' = Back(p)
    /\ sleeplcks' = WithoutOwn(p)
    /\ reccnt' = reccnt - 1
    /\ call' = Ended(p)
    /\ UNCHANGED filocks

(***************************************************************************)
(* The lock manager's commands (RCMDLCK).  A blocked request returns EINTR *)
(* at once and leaves its entry on sleeplcks; the manager asks again       *)
(* later, or gives the request up by unlocking its region.                 *)
(***************************************************************************)

\* cleanslp: take requests of the owner inside the region off the chain.
\* The walk may have grown the region by then.
GivenUp(f) == {i \in DOMAIN sleeplcks : /\ sleeplcks[i].set.start >= f.start
                                        /\ sleeplcks[i].set.end <= f.end
                                        /\ sleeplcks[i].set.own = f.own}
CleanSlp(f) == Without(sleeplcks, GivenUp(f))
Cleaned(f) == Cardinality(GivenUp(f))

Listed(f, by) == \E i \in DOMAIN sleeplcks : sleeplcks[i] = [set |-> f, blk |-> by]

\* F_RSETLKW, a first request or a repeated one.
RemoteWait(r, f, mem) ==
    LET B == Blockers(filocks, f)
        by == filocks[Least(B)].set.own
        a == flckadj(filocks, Insrt(filocks, f), f, reccnt, mem)
    IN  /\ Running
        /\ call[r] \in {NULL, [set |-> f, keep |-> TRUE]}
        /\ \/ /\ B = {}
              /\ Adjusted(a, pc)
              /\ sleeplcks' = CleanSlp(a.ld)
              /\ reccnt' = a.count - Cleaned(a.ld)
              /\ call' = Ended(r)
           \/ /\ B # {}
              /\ \/ deadflck(sleeplcks, by, r)
                 \/ ChainEnds(sleeplcks, by, r) /\ ~Listed(f, by) /\ ~Room(reccnt, mem)
              /\ call' = Ended(r)
              /\ UNCHANGED <<filocks, sleeplcks, reccnt, pc>>
           \/ /\ B # {} /\ ChainEnds(sleeplcks, by, r)
              /\ Listed(f, by) \/ Room(reccnt, mem)
              /\ sleeplcks' = IF Listed(f, by) THEN sleeplcks
                              ELSE <<[set |-> f, blk |-> by]>> \o sleeplcks
              /\ reccnt' = IF Listed(f, by) THEN reccnt ELSE reccnt + 1
              /\ call' = [call EXCEPT ![r] = [set |-> f, keep |-> TRUE]]
              /\ UNCHANGED <<filocks, pc>>

\* F_RSETLK: without SLPFLCK a grant takes no old request off sleeplcks, and a
\* refusal (EAGAIN) changes nothing.
RemoteTry(r, f, mem) ==
    LET a == flckadj(filocks, Insrt(filocks, f), f, reccnt, mem)
    IN  /\ Running
        /\ call[r] = NULL
        /\ Blockers(filocks, f) = {}
        /\ Adjusted(a, pc)
        /\ reccnt' = a.count
        /\ UNCHANGED <<sleeplcks, call>>

\* F_RSETLK with F_UNLCK: of what is held, or of a request to be given up.
RemoteUnlock(r, f, mem) ==
    LET a == flckadj(filocks, IF filocks = <<>> THEN 0 ELSE 1, f, reccnt, mem)
    IN  /\ Running
        /\ call[r] # NULL => /\ f.start = call[r].set.start
                             /\ f.end = call[r].set.end
        /\ Adjusted(a, pc)
        /\ sleeplcks' = CleanSlp(a.ld)
        /\ reccnt' = a.count - Cleaned(a.ld)
        /\ call' = Ended(r)

(***************************************************************************)
(* cleanlocks.                                                             *)
(***************************************************************************)

CleanLocks(S) ==
    LET gone == {i \in DOMAIN filocks : filocks[i].set.own \in S}
    IN  /\ Running
        /\ filocks' = Without(filocks, gone)
        /\ reccnt' = reccnt - Cardinality(gone)
        /\ pc' = Wake(pc, UNION {WAKEUP(filocks[i]) : i \in gone})
        /\ UNCHANGED <<sleeplcks, call>>

\* close(), also on exit.
Close(p) == pc[p] = "user" /\ CleanLocks({p})

\* Recovery from a lost file sharing client: cleanlocks(vp, IGN_PID, sysid),
\* wherever the processes that serve it are.
Recover == CleanLocks(Recovered)

(***************************************************************************)
(* deadflck() for ever.  The kernel gives up the processor nowhere in that *)
(* loop, so only interrupts come after it.                                 *)
(***************************************************************************)

\* The owners from the one in the way of f on form a ring without its owner.
RunsInARing(f, chain) ==
    LET B == Blockers(filocks, f)
        by == filocks[Least(B)].set.own
    IN  /\ B # {}
        /\ ~deadflck(chain, by, f.own)
        /\ ~ChainEnds(chain, by, f.own)

\* What owner o may ask for next, and the chain that deadflck() then searches.
Searches(o) ==
    CASE o \in Local /\ pc[o] = "user" -> LocksOf(o) \X {sleeplcks}
      [] o \in Local /\ pc[o] = "woken" -> {<<call[o].set, WithoutOwn(o)>>}
      [] o \in Remote ->
            {f \in LocksOf(o) : call[o] \in {NULL, [set |-> f, keep |-> TRUE]}} \X {sleeplcks}
      [] OTHER -> {}

\* What the call has changed before, nobody sees any more.
Hang(o) ==
    /\ ~hung
    /\ \E s \in Searches(o) : RunsInARing(s[1], s[2])
    /\ hung' = TRUE
    /\ UNCHANGED locks

\* One more turn of the loop.
Spin == hung /\ UNCHANGED vars

(***************************************************************************)
(* The specification.                                                      *)
(***************************************************************************)

Init ==
    /\ filocks = <<>>
    /\ sleeplcks = <<>>
    /\ reccnt = 0
    /\ pc = [p \in Local |-> "user"]
    /\ call = [o \in Owners |-> NULL]
    /\ hung = FALSE

Next ==
    \/ \E mem \in BOOLEAN :
         \/ \E p \in Local :
              \/ \E f \in LocksOf(p) :
                    \/ \E keep \in BOOLEAN : ReclockWait(p, [set |-> f, keep |-> keep], mem)
                    \/ ReclockTry(p, f, mem)
              \/ \E f \in UnlocksOf(p) : ReclockUnlock(p, f, mem)
              \/ ReclockResume(p, mem)
         \/ \E r \in Remote :
              \/ \E f \in LocksOf(r) : RemoteWait(r, f, mem) \/ RemoteTry(r, f, mem)
              \/ \E f \in UnlocksOf(r) : RemoteUnlock(r, f, mem)
    \/ \E p \in Local : Signal(p) \/ ReclockIntr(p) \/ Close(p)
    \/ Recover
    \/ \E o \in Owners : Hang(o)
    \/ Spin

Spec == Init /\ [][Next]_vars

(***************************************************************************)
(* Properties.                                                             *)
(***************************************************************************)

Lock == [set : Flock, wakeflg : BOOLEAN, slp : SUBSET Local]

\* Every variable has its type; no lock record has the type F_UNLCK, and no
\* more records are in use than the limit allows.  However calls end, the
\* records reccnt counts are on the two lists, and of the local owners only
\* those inside a wait have an entry on sleeplcks, one each.
TypeOK ==
    /\ reccnt = Len(filocks) + Len(sleeplcks)
    /\ \A p \in Local :
          Cardinality(SleepingFor(sleeplcks, p)) = IF pc[p] = "user" THEN 0 ELSE 1
    /\ filocks \in Seq(Lock)
    /\ sleeplcks \in Seq([set : Flock, blk : Owners])
    /\ \A i \in DOMAIN filocks : filocks[i].set.type \in Types
    /\ reccnt \in 0 .. t_flckrec
    /\ pc \in [Local -> {"user", "SSLEEP", "woken", "signalled"}]
    /\ call \in [Owners -> Call \cup {NULL}]
    /\ hung \in BOOLEAN

\* What flckadj() and blocked() assume of the list: it is ordered by start
\* ("It is assumed the list is ordered on starting position"), locks of one
\* owner are apart, and adjoining ones have been coalesced.  And what the list
\* is for: no byte is locked by two owners if one of them has it for writing.
ListSound ==
    \A i, j \in DOMAIN filocks : i < j =>
        LET f == filocks[i].set
            g == filocks[j].set
        IN  /\ f.start <= g.start
            /\ f.own # g.own /\ g.start <= f.end
               => f.type = "F_RDLCK" /\ g.type = "F_RDLCK"
            /\ f.own = g.own => \/ f.end + 1 < g.start
                                \/ f.end + 1 = g.start /\ f.type # g.type

\* What owner o has locked byte b for.
Held(list, o, b) ==
    LET at == {i \in DOMAIN list : list[i].set.own = o /\ list[i].set.start <= b
                                                       /\ b <= list[i].set.end}
    IN  IF at = {} THEN "F_UNLCK" ELSE list[CHOOSE i \in at : TRUE].set.type

\* What the walk of flckadj() may do for request f, wherever it is asked.  If
\* it succeeds the owner has the region as asked and all else is as it was;
\* if it fails the owner has gained nothing and the others have lost nothing.
Exact(f, a) ==
    \A o \in Owners, b \in Bytes :
        Held(a.out, o, b) \in
            CASE o # f.own -> {Held(filocks, o, b)}
              [] o = f.own /\ a.ret = "ENOLCK" -> {Held(filocks, o, b), "F_UNLCK"}
              [] OTHER -> {IF f.start <= b /\ b <= f.end THEN f.type
                           ELSE Held(filocks, o, b)}

\* The case table of flckadj() computes the union and the difference of
\* regions, from every list and for every request that can come next.
AdjustExact ==
    \A f \in Flock, mem \in BOOLEAN :
        LET insrt == IF f.type # "F_UNLCK" THEN Insrt(filocks, f)
                     ELSE IF filocks = <<>> THEN 0 ELSE 1
        IN  /\ call[f.own] = NULL
            /\ f.type = "F_UNLCK" \/ Blockers(filocks, f) = {}
            => Exact(f, flckadj(filocks, insrt, f, reccnt, mem))

\* Nobody sleeps on for a lock that is gone: a process asleep in reclock() is
\* on the queue of a lock that still is in its way, and that lock knows.
SleeperBlocked ==
    \A p \in Local : pc[p] = "SSLEEP" =>
        \E i \in DOMAIN filocks : /\ p \in filocks[i].slp
                                  /\ filocks[i].wakeflg
                                  /\ i \in Blockers(filocks, call[p].set)

\* The owners that p sleeps for.
WaitsFor(p) == {filocks[i].set.own : i \in {j \in DOMAIN filocks : p \in filocks[j].slp}}

\* Deadlock detection is complete, where it ends (SearchEnds): no set of processes is asleep on locks
\* that only processes of the set hold, although sleepers lie on one of
\* several locks in their way and ownership changes while they sleep.
NoDeadlock ==
    \A S \in SUBSET {p \in Local : pc[p] = "SSLEEP"} :
        S # {} => \E p \in S : ~(WaitsFor(p) \subseteq S)

\* "If the blocking process is sleeping on a locked region, change the
\* blocked lock to this one": EDEADLK is answered only if the processes of
\* the cycle that was found really sleep.
DeadlockReal ==
    \A p \in Local, i \in DOMAIN filocks :
        LET by == filocks[i].set.own
        IN  pc[p] = "user" /\ by \in Local \ {p} /\ deadflck(sleeplcks, by, p)
            => pc[by] = "SSLEEP"

\* "the existing lock is deleted and its region is coalesced into the new
\* (un)lock": a call takes nothing from its caller outside the region it names.
OutsideKept ==
    \A f \in Flock, mem \in BOOLEAN :
        Blockers(filocks, f) = {} /\ f.type \in Types =>
            LET a == flckadj(filocks, Insrt(filocks, f), f, reccnt, mem)
            IN  \A b \in Bytes \ (f.start .. f.end) :
                   Held(a.out, f.own, b) = Held(filocks, f.own, b)

\* "prevent sleeplcks from filling up with old NFS lock requests": what the
\* lock manager has on sleeplcks are requests it still repeats.
NoOldRequests ==
    \A i \in DOMAIN sleeplcks :
        LET o == sleeplcks[i].set.own
        IN  o \in Remote => call[o] # NULL /\ call[o].set = sleeplcks[i].set
\* deadflck() comes to an end: what its do-while loop, which has no bound,
\* takes for granted of the entries on sleeplcks.
SearchEnds == ~hung

=============================================================================

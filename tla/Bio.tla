-------------------------------- MODULE Bio --------------------------------
(***************************************************************************)
(* The buffer cache (os/bio.c) for one block device: the hash of buffers   *)
(* by block, the free list, the memory that buffers may use, and reads,    *)
(* read-ahead, delayed and asynchronous writes, flushing, the last close   *)
(* and the completion interrupt.                                           *)
(*                                                                         *)
(* The kernel is not preempted: onproc is the process in the middle of a   *)
(* call, and no other one runs until it sleeps or returns.  Interrupts     *)
(* come between any two steps.                                             *)
(***************************************************************************)
EXTENDS Integers, Sequences, FiniteSets

CONSTANTS Procs,
          Buffers,     \* buffer headers, as many as bhdrlist ever gets
          Blocks,
          NULL,
          Size,        \* Size[x]: the bsize that block x is used with
          EmptySize,   \* the size that ngeteblk() is called with
          bufhwm,      \* v.v_bufhwm: memory that buffers may use
          AsyncMin     \* bawrite() is asynchronous with more free buffers (4)

ASSUME SizePositive == Size \in [Blocks -> Nat \ {0}] /\ EmptySize \in Nat \ {0}
ASSUME RoomForOne == bufhwm \in Nat /\ AsyncMin \in Nat
ASSUME HeadersSuffice == IsFiniteSet(Buffers) /\ Cardinality(Buffers) >= bufhwm
ASSUME NullNothing == NULL \notin Procs \cup Buffers \cup Blocks

VARIABLES buf,         \* buf[b]: the buffer
          free,        \* bfreelist from av_forw on
          room,        \* bfreelist.b_bufsize: memory left
          want,        \* B_WANTED of bfreelist
          io,          \* buffers given to d_strategy and not yet done
          pc, loc,     \* where each process is, and its arguments and locals
          onproc,
          disk         \* auxiliary: the disk holds the last data of the block

vars == <<buf, free, room, want, io, pc, loc, onproc, disk>>

Flags == {"BUSY", "DONE", "WANTED", "READ", "ASYNC", "DELWRI", "STALE", "AGE", "ERROR"}

\* blk = NULL: in no hash chain.  cur (auxiliary): it holds the block's last data.
Buf == [flags : SUBSET Flags, blk : Blocks \cup {NULL}, size : Nat, cur : BOOLEAN]

\* A header on bhdrlist.
NoBuf == [flags |-> {}, blk |-> NULL, size |-> 0, cur |-> FALSE]

Ops == {"bread", "breada", "getblk", "ngeteblk", "blkflush", "bwrite"}

\* in = "ra" while breada() gets the read-ahead block.
Local == [op : Ops, blk : Blocks \cup {NULL}, ra : Blocks \cup {NULL},
          bp : Buffers \cup {NULL}, nbp : Buffers \cup {NULL}, in : {"main", "ra"},
          chan : Buffers \cup {NULL}]

NoLocal == [op |-> "getblk", blk |-> NULL, ra |-> NULL, bp |-> NULL, nbp |-> NULL,
            in |-> "main", chan |-> NULL]

\* Asleep, by the place it goes on from; "alloc" is a sleep in kmem_zalloc().
Asleep == {"asleep:getblk", "asleep:free", "asleep:io", "asleep:flush"}
PC == Asleep \cup {"user", "getblk", "got", "ra", "biowait", "blkflush", "alloc", "held"}

Has(b, f) == f \in buf[b].flags

(***************************************************************************)
(* The cache as one record, with ev, the channels that are woken: buffers, *)
(* and NULL for the free list.                                             *)
(***************************************************************************)

Cache == [buf |-> buf, free |-> free, room |-> room, want |-> want, io |-> io, ev |-> {}]

\* The list s without b, which is on it.
Without(s, b) ==
    LET at == CHOOSE i \in DOMAIN s : s[i] = b
    IN  [i \in 1 .. Len(s) - 1 |-> IF i < at THEN s[i] ELSE s[i + 1]]

SetFlags(k, b, on, off) == [k EXCEPT !.buf[b].flags = (@ \ off) \cup on]

notavail(k, b) == SetFlags([k EXCEPT !.free = Without(@, b)], b, {"BUSY"}, {})

strategy(k, b) == [k EXCEPT !.io = Append(@, b)]

\* Mutant: a process that waits for memory is not told.
brelse_quiet(k, b) ==
    LET err == "ERROR" \in k.buf[b].flags
        j == SetFlags(k, b, IF err THEN {"STALE", "AGE"} ELSE {},
                      {"WANTED", "BUSY", "ASYNC", "ERROR"} \cup IF err THEN {"DELWRI"} ELSE {})
    IN  [j EXCEPT !.free = IF "AGE" \in j.buf[b].flags THEN <<b>> \o @ ELSE Append(@, b),
                  !.ev = @ \cup (IF "WANTED" \in k.buf[b].flags THEN {b} ELSE {})]

\* Wake those who want the buffer or any memory; an error makes it stale and
\* forgets a delayed write; aged buffers go to the front of the free list.
brelse(k, b) ==
    LET err == "ERROR" \in k.buf[b].flags
        j == SetFlags(k, b, IF err THEN {"STALE", "AGE"} ELSE {},
                      {"WANTED", "BUSY", "ASYNC", "ERROR"} \cup IF err THEN {"DELWRI"} ELSE {})
    IN  [j EXCEPT !.free = IF "AGE" \in j.buf[b].flags THEN <<b>> \o @ ELSE Append(@, b),
                  !.want = FALSE,
                  !.ev = @ \cup (IF "WANTED" \in k.buf[b].flags THEN {b} ELSE {})
                           \cup (IF k.want THEN {NULL} ELSE {})]

\* The part of bwrite() before biowait().
StartWrite(k, b) == strategy(SetFlags(k, b, {}, {"READ", "DONE", "ERROR", "DELWRI"}), b)

StartRead(k, b, async) ==
    strategy(SetFlags(k, b, {"READ"} \cup IF async THEN {"ASYNC"} ELSE {}, {}), b)

\* The buffers of block x that a search of its hash chain finds.
Hashed(k, x) == {b \in Buffers : k.buf[b].blk = x /\ "STALE" \notin k.buf[b].flags}
incore(x) == Hashed(Cache, x) # {}

WakePlace == [s \in Asleep |-> CASE s \in {"asleep:getblk", "asleep:free"} -> "getblk"
                                 [] s = "asleep:io" -> "biowait"
                                 [] s = "asleep:flush" -> "blkflush"]

\* wakeprocs(): who sleeps on a channel of ev, and where everyone is then.
Woken(ev) == {p \in Procs : pc[p] \in Asleep /\ loc[p].chan \in ev}
wakeprocs(ev) == [p \in Procs |-> IF p \in Woken(ev) THEN WakePlace[pc[p]] ELSE pc[p]]
NoChan(ev) == [p \in Procs |-> IF p \in Woken(ev) THEN [loc[p] EXCEPT !.chan = NULL] ELSE loc[p]]

Commit(k) ==
    /\ buf' = k.buf /\ free' = k.free /\ room' = k.room
    /\ want' = k.want /\ io' = k.io

\* p goes on at place with locals l: it keeps the processor unless it sleeps
\* or returns to its caller.
Go(p, k, place, l) ==
    /\ onproc \in {NULL, p}
    /\ Commit(k)
    /\ pc' = [wakeprocs(k.ev) EXCEPT ![p] = place]
    /\ loc' = [NoChan(k.ev) EXCEPT ![p] = l]
    /\ onproc' = IF place \in Asleep \cup {"user", "alloc", "held"} THEN NULL ELSE p

\* The call returns b to the caller.
Hold(p, k, b, op) == Go(p, k, "held", [NoLocal EXCEPT !.bp = b, !.op = op])

Sleep(p, k, place, chan) == Go(p, k, place, [loc[p] EXCEPT !.chan = chan])

(***************************************************************************)
(* getblk, getfreeblk, ngeteblk.                                           *)
(***************************************************************************)

\* Mutant: a delayed write is forgotten when its buffer is taken.
TakeFreeClean(g, size) ==
    LET b == Head(g.k.free)
        k == notavail(g.k, b)
    IN  IF k.buf[b].size = size
        THEN [g EXCEPT !.k = [k EXCEPT !.buf[b].blk = NULL, !.buf[b].cur = FALSE], !.save = b]
        ELSE [g EXCEPT !.k = [k EXCEPT !.buf[b] = NoBuf, !.room = @ + k.buf[b].size]]

\* The body of the loop of getfreeblk(), for the first buffer of the free list:
\* start a delayed write, keep a buffer of the right size, or free its memory.
TakeFree(g, size) ==
    LET b == Head(g.k.free)
        k == notavail(g.k, b)
    IN  IF "DELWRI" \in k.buf[b].flags
        THEN [g EXCEPT !.k = StartWrite(SetFlags(k, b, {"ASYNC", "AGE"}, {}), b)]
        ELSE IF k.buf[b].size = size
        THEN [g EXCEPT !.k = [k EXCEPT !.buf[b].blk = NULL, !.buf[b].cur = FALSE], !.save = b]
        ELSE [g EXCEPT !.k = [k EXCEPT !.buf[b] = NoBuf, !.room = @ + k.buf[b].size]]

\* The loop ends: nothing is left to take, a buffer is found, or there is
\* memory and the first buffer is not aged.
Enough(g, size) ==
    \/ g.k.free = <<>> \/ g.save # NULL
    \/ g.k.room >= size /\ "AGE" \notin g.k.buf[Head(g.k.free)].flags

\* The loop.
Reclaim(size) ==
    LET g[i \in 0 .. Cardinality(Buffers)] ==
            IF i = 0 THEN [k |-> Cache, save |-> NULL]
            ELSE IF Enough(g[i - 1], size) THEN g[i - 1] ELSE TakeFree(g[i - 1], size)
    IN  g[Cardinality(Buffers)]

\* Mutant: memory is taken although there is too little.
getfreeblk_over(p, size) ==
    LET g == Reclaim(size)
    IN  \/ /\ g.save # NULL
           /\ Go(p, g.k, "getblk", [loc[p] EXCEPT !.nbp = g.save])
        \/ /\ g.save = NULL
           /\ LET b == CHOOSE c \in Buffers : g.k.buf[c].size = 0
              IN  Go(p, [g.k EXCEPT !.room = @ - size, !.buf[b].size = size], "alloc",
                     [loc[p] EXCEPT !.nbp = b])

\* getfreeblk(): a buffer of the right size, or a sleep for memory, or a new
\* header with memory from kmem_zalloc(), which may sleep.
getfreeblk(p, size) ==
    LET g == Reclaim(size)
    IN  \/ /\ g.save # NULL
           /\ Go(p, g.k, "getblk", [loc[p] EXCEPT !.nbp = g.save])
        \/ /\ g.save = NULL /\ g.k.room < size
           /\ Sleep(p, [g.k EXCEPT !.want = TRUE], "asleep:free", NULL)
        \/ /\ g.save = NULL /\ g.k.room >= size
           /\ LET b == CHOOSE c \in Buffers : g.k.buf[c].size = 0
              IN  Go(p, [g.k EXCEPT !.room = @ - size, !.buf[b].size = size], "alloc",
                     [loc[p] EXCEPT !.nbp = b])

Target(p) == IF loc[p].in = "ra" THEN loc[p].ra ELSE loc[p].blk

\* The block is in the hash, and busy.
GetblkBusy(p) ==
    /\ pc[p] = "getblk" /\ loc[p].op # "ngeteblk"
    /\ \E b \in Hashed(Cache, Target(p)) :
         /\ Has(b, "BUSY")
         /\ Sleep(p, SetFlags(Cache, b, {"WANTED"}, {}), "asleep:getblk", b)
    /\ UNCHANGED disk

\* The block is in the hash, and free: a buffer got meanwhile is given back.
GetblkHit(p) ==
    /\ pc[p] = "getblk" /\ loc[p].op # "ngeteblk"
    /\ \E b \in Hashed(Cache, Target(p)) :
         LET n == loc[p].nbp
             k == notavail(SetFlags(Cache, b, {}, {"AGE"}), b)
         IN  /\ ~Has(b, "BUSY")
             /\ Go(p, IF n = NULL THEN k ELSE brelse([k EXCEPT !.buf[n].flags = {"BUSY"}], n),
                   "got", [loc[p] EXCEPT !.nbp = NULL, !.chan = b])
    /\ UNCHANGED disk

\* The block is in no buffer, and none is at hand.
GetblkFree(p) ==
    /\ pc[p] = "getblk" /\ loc[p].op # "ngeteblk"
    /\ loc[p].nbp = NULL /\ ~incore(Target(p))
    /\ getfreeblk(p, Size[Target(p)])
    /\ UNCHANGED disk

\* Mutant: the hash is not searched again after a sleep in getfreeblk().
GetblkAssignBlind(p) ==
    LET b == loc[p].nbp
        k == [Cache EXCEPT !.buf[b].flags = {"BUSY"}, !.buf[b].blk = Target(p)]
    IN  /\ pc[p] = "getblk" /\ loc[p].op # "ngeteblk" /\ b # NULL
        /\ Go(p, k, "got", [loc[p] EXCEPT !.nbp = NULL, !.chan = b])
        /\ UNCHANGED disk

\* The block is still in no buffer: the one at hand becomes its.
GetblkAssign(p) ==
    LET b == loc[p].nbp
        k == [Cache EXCEPT !.buf[b].flags = {"BUSY"}, !.buf[b].blk = Target(p)]
    IN  /\ pc[p] = "getblk" /\ loc[p].op # "ngeteblk"
        /\ b # NULL /\ ~incore(Target(p))
        /\ Go(p, k, "got", [loc[p] EXCEPT !.nbp = NULL, !.chan = b])
        /\ UNCHANGED disk

\* ngeteblk() tries until it has a buffer, which it marks aged.
NgeteblkFree(p) ==
    /\ pc[p] = "getblk" /\ loc[p].op = "ngeteblk" /\ loc[p].nbp = NULL
    /\ getfreeblk(p, EmptySize)
    /\ UNCHANGED disk

Ngeteblk(p) ==
    LET b == loc[p].nbp
    IN  /\ pc[p] = "getblk" /\ loc[p].op = "ngeteblk" /\ b # NULL
        /\ Hold(p, [Cache EXCEPT !.buf[b].flags = {"BUSY", "AGE"}], b, "ngeteblk")
        /\ UNCHANGED disk

\* kmem_zalloc() returns.
Alloc(p) ==
    /\ pc[p] = "alloc"
    /\ Go(p, Cache, "getblk", loc[p])
    /\ UNCHANGED disk

(***************************************************************************)
(* bread, breada, biowait.                                                 *)
(***************************************************************************)

\* A call of bread(), getblk(), ngeteblk() or blkflush().
Call(p, op, x) ==
    /\ pc[p] = "user"
    /\ Go(p, Cache, IF op = "blkflush" THEN "blkflush" ELSE "getblk",
          [NoLocal EXCEPT !.op = op, !.blk = IF op = "ngeteblk" THEN NULL ELSE x])
    /\ UNCHANGED disk

\* breada() starts with the read-ahead if the block is in core.
Breada(p, x, y) ==
    /\ pc[p] = "user" /\ Size[x] = Size[y]
    /\ Go(p, Cache, IF incore(x) THEN "ra" ELSE "getblk",
          [NoLocal EXCEPT !.op = "breada", !.blk = x, !.ra = y])
    /\ UNCHANGED disk

\* getblk() has returned the block asked for: start the read it needs.
Got(p) ==
    LET b == loc[p].chan
        l == [loc[p] EXCEPT !.bp = b, !.chan = NULL]
        k == IF Has(b, "DONE") THEN Cache ELSE StartRead(Cache, b, FALSE)
    IN  /\ pc[p] = "got" /\ loc[p].in = "main"
        /\ \/ loc[p].op = "breada" /\ Go(p, k, "ra", l)
           \/ loc[p].op = "bread" /\ ~Has(b, "DONE") /\ Go(p, k, "biowait", l)
           \/ loc[p].op = "bread" /\ Has(b, "DONE") /\ Hold(p, Cache, b, "getblk")
           \/ loc[p].op = "getblk" /\ Hold(p, Cache, b, "getblk")
        /\ UNCHANGED disk

\* Mutant: read-ahead whatever is free and whoever has the block.
RaAnyway(p) == loc[p].ra # loc[p].blk

\* Read ahead only if there are buffers and nobody has the block.
RaWanted(p) == Len(free) > 1 /\ ~incore(loc[p].ra)

\* The last part of breada().
AfterRa(p, k) ==
    IF loc[p].bp = NULL
    THEN Go(p, k, "getblk", [loc[p] EXCEPT !.op = "bread", !.in = "main", !.chan = NULL])
    ELSE Go(p, k, "biowait", [loc[p] EXCEPT !.in = "main", !.chan = NULL])

Ra(p) ==
    /\ pc[p] = "ra"
    /\ IF RaWanted(p) THEN Go(p, Cache, "getblk", [loc[p] EXCEPT !.in = "ra"])
       ELSE AfterRa(p, Cache)
    /\ UNCHANGED disk

\* getblk() has returned the read-ahead block: start its read and leave it.
GotRa(p) ==
    LET b == loc[p].chan
    IN  /\ pc[p] = "got" /\ loc[p].in = "ra"
        /\ AfterRa(p, IF Has(b, "DONE") THEN brelse(Cache, b) ELSE StartRead(Cache, b, TRUE))
        /\ UNCHANGED disk

\* biowait() goes to sleep.
BiowaitSleep(p) ==
    LET b == loc[p].bp
    IN  /\ pc[p] = "biowait" /\ ~Has(b, "DONE")
        /\ Sleep(p, SetFlags(Cache, b, {"WANTED"}, {}), "asleep:io", b)
        /\ UNCHANGED disk

\* biowait() returns: to the reader, or in bwrite(), which releases the buffer.
Biowait(p) ==
    LET b == loc[p].bp
    IN  /\ pc[p] = "biowait" /\ Has(b, "DONE")
        /\ CASE loc[p].op = "bwrite" -> Go(p, brelse(Cache, b), "user", NoLocal)
             [] loc[p].op = "blkflush" ->
                  Go(p, brelse(Cache, b), "blkflush", [loc[p] EXCEPT !.bp = NULL])
             [] OTHER -> Hold(p, Cache, b, "getblk")
        /\ UNCHANGED disk

(***************************************************************************)
(* What the holder of a buffer does.                                       *)
(***************************************************************************)

\* The holder may write what it has read, or a block that it fills itself.
Writable(p) ==
    /\ pc[p] = "held" /\ loc[p].op # "ngeteblk"
    /\ ~Has(loc[p].bp, "ERROR")

\* The data of buffer b become the last data of its block.
Changed(k, b) ==
    [k EXCEPT !.buf = [c \in Buffers |->
                         [k.buf[c] EXCEPT !.cur = IF c = b THEN TRUE
                                                  ELSE @ /\ k.buf[c].blk # k.buf[b].blk]]]

NowOld(b) == [disk EXCEPT ![buf[b].blk] = FALSE]

Brelse(p) ==
    /\ pc[p] = "held"
    /\ Go(p, brelse(Cache, loc[p].bp), "user", NoLocal)
    /\ UNCHANGED disk

\* bwrite() of a buffer without B_ASYNC: start the write and wait for it.
Bwrite(p) ==
    LET b == loc[p].bp
    IN  /\ Writable(p)
        /\ Go(p, StartWrite(Changed(Cache, b), b), "biowait", [NoLocal EXCEPT !.bp = b, !.op = "bwrite"])
        /\ disk' = NowOld(b)

\* bawrite() with buffers to spare, else it is bwrite().
Bawrite(p) ==
    LET b == loc[p].bp
    IN  /\ Writable(p) /\ Len(free) > AsyncMin
        /\ Go(p, StartWrite(SetFlags(Changed(Cache, b), b, {"ASYNC"}, {}), b), "user", NoLocal)
        /\ disk' = NowOld(b)

Bdwrite(p) ==
    LET b == loc[p].bp
    IN  /\ Writable(p)
        /\ Go(p, brelse(SetFlags(Changed(Cache, b), b, {"DELWRI", "DONE"}, {}), b),
              "user", NoLocal)
        /\ disk' = NowOld(b)

(***************************************************************************)
(* Flushing, the last close, interrupts.                                   *)
(***************************************************************************)

\* blkflush() finds its block busy ...
BlkflushBusy(p) ==
    /\ pc[p] = "blkflush"
    /\ \E b \in Hashed(Cache, loc[p].blk) :
         /\ Has(b, "BUSY")
         /\ Sleep(p, SetFlags(Cache, b, {"WANTED"}, {}), "asleep:flush", b)
    /\ UNCHANGED disk

\* ... or with a delayed write ...
BlkflushWrite(p) ==
    /\ pc[p] = "blkflush"
    /\ \E b \in Hashed(Cache, loc[p].blk) :
         /\ ~Has(b, "BUSY") /\ Has(b, "DELWRI")
         /\ Go(p, StartWrite(notavail(Cache, b), b), "biowait", [loc[p] EXCEPT !.bp = b])
    /\ UNCHANGED disk

\* ... or on disk.
BlkflushDone(p) ==
    /\ pc[p] = "blkflush"
    /\ \A b \in Hashed(Cache, loc[p].blk) : ~Has(b, "BUSY") /\ ~Has(b, "DELWRI")
    /\ Go(p, Cache, "user", NoLocal)
    /\ UNCHANGED disk

WriteAsync(k, b) == StartWrite(notavail(SetFlags(k, b, {"ASYNC"}, {}), b), b)

\* fsflush() writes a free buffer whose delayed write is old enough; it lets
\* others run between two of them.
Fsflush ==
    /\ onproc = NULL
    /\ \E i \in DOMAIN free : Has(free[i], "DELWRI") /\ Commit(WriteAsync(Cache, free[i]))
    /\ UNCHANGED <<pc, loc, onproc, disk>>

\* bflush(): start all delayed writes, from the front of the free list.
bflush(k) ==
    LET g[i \in 0 .. Len(k.free)] ==
            IF i = 0 THEN k
            ELSE IF "DELWRI" \in k.buf[k.free[i]].flags THEN WriteAsync(g[i - 1], k.free[i])
            ELSE g[i - 1]
    IN  g[Len(k.free)]

\* binval(): the buffers of the device are stale.
binval(k) ==
    [k EXCEPT !.buf = [b \in Buffers |->
                         IF k.buf[b].blk = NULL THEN k.buf[b]
                         ELSE [k.buf[b] EXCEPT !.flags = @ \cup {"STALE", "AGE"}]]]

\* The last close, when nobody uses the device; writes may be under way.
LastClose ==
    /\ \A p \in Procs : pc[p] = "user"
    /\ onproc = NULL
    /\ Commit(binval(bflush(Cache)))
    /\ UNCHANGED <<pc, loc, onproc, disk>>

\* biodone(): an asynchronous buffer is released, others have a waiter.  B_READ
\* says nothing once the transfer is over.
biodone(k, b) ==
    LET j == SetFlags([k EXCEPT !.io = Without(@, b)], b, {"DONE"}, {"READ"})
    IN  IF "ASYNC" \in j.buf[b].flags THEN brelse(j, b)
        ELSE [SetFlags(j, b, {}, {"WANTED"}) EXCEPT !.ev = {b}]

\* The device is done with a transfer.  It serves the transfers of one block
\* in the order in which it got them.
Next_(i) == \A j \in 1 .. i - 1 : buf[io[j]].blk # buf[io[i]].blk

Iodone(i) ==
    LET b == io[i]
        x == buf[b].blk
        k == [Cache EXCEPT !.buf[b].cur = IF Has(b, "READ") THEN disk[x] ELSE @]
    IN  /\ Next_(i)
        /\ Commit(biodone(k, b))
        /\ pc' = wakeprocs(biodone(k, b).ev) /\ loc' = NoChan(biodone(k, b).ev)
        /\ disk' = IF Has(b, "READ") THEN disk ELSE [disk EXCEPT ![x] = buf[b].cur]
        /\ UNCHANGED onproc

\* ... with an error.  Data that could not be written are no longer the
\* block's: what is on disk counts.
IodoneError(i) ==
    LET b == io[i]
        x == buf[b].blk
        k == SetFlags([Cache EXCEPT !.buf[b].cur = FALSE], b, {"ERROR"}, {})
    IN  /\ Next_(i)
        /\ Commit(biodone(k, b))
        /\ pc' = wakeprocs(biodone(k, b).ev) /\ loc' = NoChan(biodone(k, b).ev)
        /\ disk' = IF Has(b, "READ") \/ ~buf[b].cur THEN disk ELSE [disk EXCEPT ![x] = TRUE]
        /\ UNCHANGED onproc

(***************************************************************************)
(* The specification.                                                      *)
(***************************************************************************)

\* binit()
Init ==
    /\ buf = [b \in Buffers |-> NoBuf]
    /\ free = <<>> /\ room = bufhwm /\ want = FALSE
    /\ io = <<>>
    /\ pc = [p \in Procs |-> "user"]
    /\ loc = [p \in Procs |-> NoLocal]
    /\ onproc = NULL
    /\ disk = [x \in Blocks |-> TRUE]

Next ==
    \/ \E p \in Procs :
         \/ \E op \in {"bread", "getblk", "blkflush", "ngeteblk"}, x \in Blocks : Call(p, op, x)
         \/ \E x, y \in Blocks : Breada(p, x, y)
         \/ GetblkBusy(p) \/ GetblkHit(p) \/ GetblkFree(p) \/ GetblkAssign(p)
         \/ NgeteblkFree(p) \/ Ngeteblk(p) \/ Alloc(p)
         \/ Got(p) \/ Ra(p) \/ GotRa(p) \/ BiowaitSleep(p) \/ Biowait(p)
         \/ Brelse(p) \/ Bwrite(p) \/ Bawrite(p) \/ Bdwrite(p)
         \/ BlkflushBusy(p) \/ BlkflushWrite(p) \/ BlkflushDone(p)
    \/ Fsflush
    \/ LastClose
    \/ \E i \in DOMAIN io : Iodone(i) \/ IodoneError(i)

Spec == Init /\ [][Next]_vars

(***************************************************************************)
(* Properties.                                                             *)
(***************************************************************************)

\* Every variable has its type; memory is never overdrawn.
TypeOK ==
    /\ buf \in [Buffers -> Buf]
    /\ free \in Seq(Buffers) /\ io \in Seq(Buffers)
    /\ room \in 0 .. bufhwm /\ want \in BOOLEAN
    /\ pc \in [Procs -> PC] /\ loc \in [Procs -> Local]
    /\ onproc \in Procs \cup {NULL}
    /\ disk \in [Blocks -> BOOLEAN]

Live == {b \in Buffers : buf[b].size > 0}
OnList(s) == {s[i] : i \in DOMAIN s}

\* The buffers a process has.
Mine(p) ==
    ({loc[p].bp, loc[p].nbp} \cup IF pc[p] = "got" THEN {loc[p].chan} ELSE {}) \ {NULL}

\* The memory of all buffers.
SumSizes(size) ==
    LET sum[S \in SUBSET Buffers] ==
            IF S = {} THEN 0
            ELSE LET b == CHOOSE c \in S : TRUE IN size[b] + sum[S \ {b}]
    IN  sum[Buffers]

\* A block is in one buffer only, whoever slept between the search and the
\* assignment; a buffer is either free, or one process's, or the driver's
\* alone while it reads ahead or writes behind; memory is accounted for.
BuffersSound ==
    /\ \A x \in Blocks : Cardinality(Hashed(Cache, x)) <= 1
    /\ Len(free) = Cardinality(OnList(free)) /\ Len(io) = Cardinality(OnList(io))
    /\ \A b \in Live :
          Cardinality({p \in Procs : b \in Mine(p)})
          + (IF b \in OnList(io) /\ Has(b, "ASYNC") THEN 1 ELSE 0)
          + (IF b \in OnList(free) /\ ~Has(b, "BUSY") THEN 1 ELSE 0) = 1
    /\ OnList(free) \cup OnList(io) \subseteq Live
    /\ SumSizes([b \in Buffers |-> buf[b].size]) + room = bufhwm

\* No write is lost and no old data are read: what bread() returns and what
\* is kept for it are the last data written; as long as the disk does not have
\* them, a buffer with a delayed write or a write under way does.
Coherent ==
    /\ \A b \in Live : /\ Has(b, "DONE") /\ ~Has(b, "ERROR")
                       /\ ~Has(b, "STALE") /\ buf[b].blk # NULL
                       => buf[b].cur
    /\ \A x \in Blocks : ~disk[x] =>
          \E b \in Live : /\ buf[b].blk = x /\ buf[b].cur
                          /\ Has(b, "DELWRI") \/ (b \in OnList(io) /\ ~Has(b, "READ"))

\* No wakeup is lost: who sleeps for a buffer sleeps for one that is busy, or
\* not done, and wanted; who sleeps for memory has nothing to take.
SleepersMustWait ==
    \A p \in Procs :
        LET b == loc[p].chan
        IN  CASE pc[p] \in {"asleep:getblk", "asleep:flush"} -> {"BUSY", "WANTED"} \subseteq buf[b].flags
              [] pc[p] = "asleep:io" -> Has(b, "WANTED") /\ ~Has(b, "DONE")
              [] pc[p] = "asleep:free" -> want /\ free = <<>>
              [] OTHER -> TRUE

\* Somebody is always left to wake a sleeper, although breada() takes its
\* second buffer while it holds the first.
NoDeadlock ==
    (\E p \in Procs : pc[p] \in Asleep) =>
        io # <<>> \/ \E p \in Procs : pc[p] \notin Asleep \cup {"user"}
=============================================================================

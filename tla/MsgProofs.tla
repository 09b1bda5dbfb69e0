------------------------------ MODULE MsgProofs ------------------------------
(***************************************************************************)
(* Proofs about the System V messages of Msg, for any number of processes, *)
(* queues, headers and units of text.  The invariant keeps an account of   *)
(* every header and every unit of the pool, chain and text, and says that  *)
(* tables, byte counts, senders, readers that copy and sleepers agree with *)
(* it.  What a handler does to the tables is shown in MsgTables; here it   *)
(* is put together with the processes, one action of Next at a time.       *)
(***************************************************************************)
EXTENDS MsgTables

(***************************************************************************)
(* The processes.                                                          *)
(***************************************************************************)

\* What call a can be at place.
Suits(place, a) ==
    /\ place \in {"copy:type", "copy:text", "wwait", "hwait", "mwait"} => a.op = "snd"
    /\ place = "rwait" => a.op = "rcv"
    /\ place = "copy:set" => a.op = "set"
    /\ a.op = "rmid" => a.id.seq < MaxSeq

\* Whoever is in a copy has the lock of his queue, alone, and the queue is
\* there; nobody else holds a lock.
Inside ==
    /\ \A p \in Procs : pc[p] # "user" => args[p] \in Args /\ Suits(pc[p], args[p])
    /\ \A p \in Procs : pc[p] \in Copies => lock[args[p].id.q] /\ Valid(args[p].id)
    /\ \A p, r \in Procs :
          pc[p] \in Copies /\ pc[r] \in Copies /\ args[p].id.q = args[r].id.q => p = r
    /\ \A q \in Queues : lock[q] => \E p \in Procs : pc[p] \in Copies /\ args[p].id.q = q

\* Nobody but p is in a copy about queue q.
Alone(p, q) == \A r \in Procs : r # p /\ pc[r] \in Copies => args[r].id.q # q

\* A reader that copies a text out knows where its message is on the queue, and
\* what is before it.
OutAt(p, chain) ==
    pc[p] = "copy:out" =>
        \E i \in 1 .. Len(chain[args[p].id.q]) :
            /\ mine[p].h = chain[args[p].id.q][i]
            /\ mine[p].pmp = IF i = 1 THEN NULL ELSE chain[args[p].id.q][i - 1]

\* A sender that copies has a header of its own, and the text for it.
SendAt(p, chain, text) ==
    pc[p] = "copy:text" =>
        /\ mine[p].h \in Headers /\ Out(chain, mine[p].h)
        /\ text[mine[p].h] = [addr |-> mine[p].addr, size |-> btoq(args[p].cnt)]

\* Senders have different headers, and every one that is on no list.
Hands(chain, text) ==
    /\ \A p \in Procs : SendAt(p, chain, text)
    /\ \A p, r \in Procs : pc[p] = "copy:text" /\ pc[r] = "copy:text" /\ mine[p].h = mine[r].h => p = r
    /\ \A h \in Headers : Out(chain, h) => \E p \in Procs : pc[p] = "copy:text" /\ mine[p].h = h

\* A reader with msgtyp t wants a message of this type.
Wanted(t, type) ==
    CASE t = 0 -> TRUE
      [] t > 0 -> type = t
      [] t < 0 -> type <= -t

\* A sleeper has to wait, and his waker knows.
Asleep(p, chain) ==
    /\ pc[p] = "rwait" => /\ Valid(args[p].id) /\ que[args[p].id.q].rwait
                          /\ \A h \in Headers : Has(chain[args[p].id.q], h) => ~Wanted(args[p].typ, hdr[h].type)
    /\ pc[p] = "wwait" => /\ Valid(args[p].id) /\ que[args[p].id.q].wwait
                          /\ NoSpace(args[p].id.q, args[p].cnt) \/ raised[args[p].id.q]
    /\ pc[p] = "hwait" => msgfp = NULL
    /\ pc[p] = "mwait" => msgmap.want /\ Fits(msgmap, btoq(args[p].cnt)) = {}
    /\ pc[p] \in LockSleep => lock[args[p].id.q]

\* The whole account: chain says where every header is, text what it has of the
\* pool; tables, byte counts, senders, readers that copy and sleepers agree with it.
Ledger(chain, text) ==
    /\ Books(Tables, chain, text) /\ Bytes(Tables, chain) /\ Hands(chain, text)
    /\ \A p \in Procs : OutAt(p, chain) /\ Asleep(p, chain)

\* What processes keep in local variables.
MineType == [Procs -> [h : Ptr, pmp : Ptr, addr : Nat]]

\* The types that the books do not imply.
Places ==
    /\ lock \in [Queues -> BOOLEAN] /\ pc \in [Procs -> PC] /\ args \in [Procs -> Args \cup {NULL}]
    /\ mine \in MineType /\ raised \in [Queues -> BOOLEAN]

\* The inductive invariant.
Inv == Places /\ Inside /\ \E chain, text : Ledger(chain, text)

\* The arguments of a call.
LEMMA ArgsIs ==
    ASSUME NEW a \in Args
    PROVE  /\ a.id.q \in Queues /\ a.id.seq \in 0 .. MaxSeq
           /\ a.op = "snd" => a.cnt \in Nat /\ a.type \in Nat
           /\ a.op = "rcv" => a.typ \in Int
           /\ a.op = "set" => a.qbytes \in Nat
<1>1. CASE a \in {[op |-> "snd", id |-> i, type |-> s.type, cnt |-> s.cnt, nowait |-> s.nowait] :
                    i \in Id, s \in Sends}
  <2>1. PICK i \in Id, s \in Sends :
           a = [op |-> "snd", id |-> i, type |-> s.type, cnt |-> s.cnt, nowait |-> s.nowait]
    BY <1>1
  <2>2. s \in [type : Nat \ {0}, cnt : Nat, nowait : BOOLEAN]
    BY SendsTyped
  <2>3. a.op = "snd" /\ a.id = i /\ a.type = s.type /\ a.cnt = s.cnt
    BY <2>1
  <2>4. QED
    BY <2>2, <2>3 DEF Id
<1>2. CASE a \in {[op |-> "rcv", id |-> i, typ |-> r.typ, nowait |-> r.nowait] : i \in Id, r \in Receives}
  <2>1. PICK i \in Id, r \in Receives : a = [op |-> "rcv", id |-> i, typ |-> r.typ, nowait |-> r.nowait]
    BY <1>2
  <2>2. r \in [typ : Int, nowait : BOOLEAN]
    BY ReceivesTyped
  <2>3. a.op = "rcv" /\ a.id = i /\ a.typ = r.typ
    BY <2>1
  <2>4. QED
    BY <2>2, <2>3 DEF Id
<1>3. CASE a \in [op : {"set"}, id : Id, qbytes : QBytes]
  <2>1. a.op = "set" /\ a.id \in Id /\ a.qbytes \in QBytes
    BY <1>3
  <2>2. QED
    BY <2>1, SizesNatural DEF Id
<1>4. CASE a \in [op : {"rmid"}, id : Id]
  <2>1. a.op = "rmid" /\ a.id \in Id
    BY <1>4
  <2>2. QED
    BY <2>1 DEF Id
<1>5. QED
  BY <1>1, <1>2, <1>3, <1>4 DEF Args

\* Who is woken goes on to msgconv(); the others stay.
LEMMA WakeIs ==
    ASSUME Places, NEW ev \in SUBSET Channels, NEW p \in Procs, NEW place \in PC
    PROVE  /\ wakeprocs(ev, p, place) \in [Procs -> PC] /\ wakeprocs(ev, p, place)[p] = place
           /\ \A r \in Procs : r # p =>
                 \/ wakeprocs(ev, p, place)[r] = pc[r] /\ Chan(r) \notin ev
                 \/ pc[r] \in Waits \cup LockSleep /\ wakeprocs(ev, p, place)[r] \in Conv
<1> DEFINE w == wakeprocs(ev, p, place)
<1>1. w = [r \in Procs |-> IF r = p THEN place
                           ELSE IF Chan(r) \in ev THEN Awake[pc[r]] ELSE pc[r]]
  BY DEF wakeprocs
<1> HIDE DEF w
<1>2. ASSUME NEW r \in Procs, Chan(r) \in ev
      PROVE  pc[r] \in Waits \cup LockSleep /\ Awake[pc[r]] \in Conv
  <2>1. Chan(r) # <<"none", NULL>>
    BY <1>2 DEF Channels
  <2>2. pc[r] \in Waits \cup LockSleep
    BY <2>1 DEF Chan, Waits, LockSleep
  <2>3. Awake[pc[r]] \in Conv
    BY <2>2 DEF Awake, Conv
  <2>4. QED
    BY <2>2, <2>3
<1>3. ASSUME NEW r \in Procs PROVE w[r] \in PC
  BY <1>1, <1>2 DEF Places, PC
<1>4. w \in [Procs -> PC]
  BY <1>1, <1>3
<1>5. w[p] = place /\ \A r \in Procs : r # p =>
                 \/ w[r] = pc[r] /\ Chan(r) \notin ev
                 \/ pc[r] \in Waits \cup LockSleep /\ w[r] \in Conv
  BY <1>1, <1>2
<1>6. QED
  BY <1>4, <1>5 DEF w

(***************************************************************************)
(* A step with the lock of a queue.                                        *)
(***************************************************************************)

\* Process p goes on to place with the tables k, and wakes the channels ev.
Moved(p, a, k, ev, place) ==
    /\ que' = k.que /\ hdr' = k.hdr /\ msgfp' = k.fp /\ msgmap' = k.map
    /\ lock' = [lock EXCEPT ![a.id.q] = place \in Copies]
    /\ pc' = wakeprocs(ev, p, place)
    /\ args' = [args EXCEPT ![p] = IF place = "user" THEN NULL ELSE a]
    /\ mine' \in MineType /\ \A r \in Procs : r # p => mine'[r] = mine[r]
    /\ raised' \in [Queues -> BOOLEAN]

\* p may do it: the lock is its own or free, and it wakes who sleeps for it.
Enters(p, a, k, ev, place) ==
    /\ p \in Procs /\ a \in Args /\ place \in PC /\ ev \in SUBSET Channels
    /\ Alone(p, a.id.q) /\ Suits(place, a) /\ (pc[p] \in Copies => args[p].id.q = a.id.q)
    /\ \A q \in Queues : q # a.id.q => k.que[q] = que[q]
    /\ place \in Copies => k.que[a.id.q].alloc /\ k.que[a.id.q].seq = a.id.seq
    /\ place \notin Copies => <<"lock", a.id.q>> \in ev

\* What the others do meanwhile.
LEMMA OthersAre ==
    ASSUME Places, NEW p, NEW a, NEW k, NEW ev, NEW place,
           Enters(p, a, k, ev, place), Moved(p, a, k, ev, place)
    PROVE  /\ pc' \in [Procs -> PC] /\ pc'[p] = place
           /\ args' \in [Procs -> Args \cup {NULL}] /\ args'[p] = IF place = "user" THEN NULL ELSE a
           /\ \A r \in Procs : r # p =>
                 /\ \/ pc'[r] = pc[r] /\ Chan(r) \notin ev
                    \/ pc[r] \in Waits \cup LockSleep /\ pc'[r] \in Conv
                 /\ args'[r] = args[r] /\ mine'[r] = mine[r]
           /\ lock' \in [Queues -> BOOLEAN] /\ (lock'[a.id.q] <=> place \in Copies)
           /\ \A q \in Queues : q # a.id.q => lock'[q] = lock[q]
<1>1. /\ p \in Procs /\ a \in Args /\ place \in PC /\ ev \in SUBSET Channels /\ a.id.q \in Queues
  BY ArgsIs DEF Enters
<1>2. /\ wakeprocs(ev, p, place) \in [Procs -> PC] /\ wakeprocs(ev, p, place)[p] = place
      /\ \A r \in Procs : r # p =>
            \/ wakeprocs(ev, p, place)[r] = pc[r] /\ Chan(r) \notin ev
            \/ pc[r] \in Waits \cup LockSleep /\ wakeprocs(ev, p, place)[r] \in Conv
  BY <1>1, WakeIs
<1>3. pc' = wakeprocs(ev, p, place)
  BY DEF Moved
<1>4. /\ args' \in [Procs -> Args \cup {NULL}] /\ args'[p] = IF place = "user" THEN NULL ELSE a
      /\ \A r \in Procs : r # p => args'[r] = args[r] /\ mine'[r] = mine[r]
  BY <1>1 DEF Moved, Places
<1>5. /\ lock' \in [Queues -> BOOLEAN] /\ (lock'[a.id.q] <=> place \in Copies)
      /\ \A q \in Queues : q # a.id.q => lock'[q] = lock[q]
  <2>1. lock' = [lock EXCEPT ![a.id.q] = place \in Copies] /\ lock \in [Queues -> BOOLEAN]
    BY DEF Moved, Places
  <2>2. (place \in Copies) \in BOOLEAN
    OBVIOUS
  <2>3. QED
    BY <1>1, <2>1, <2>2
<1>6. QED
  BY <1>2, <1>3, <1>4, <1>5

\* and with it the locks belong to those inside and everyone is somewhere.
LEMMA InsideKept ==
    ASSUME Places, Inside, NEW p, NEW a, NEW k, NEW ev, NEW place,
           Enters(p, a, k, ev, place), Moved(p, a, k, ev, place)
    PROVE  Places' /\ Inside'
<1>1. /\ pc' \in [Procs -> PC] /\ pc'[p] = place
      /\ args' \in [Procs -> Args \cup {NULL}] /\ args'[p] = IF place = "user" THEN NULL ELSE a
      /\ \A r \in Procs : r # p =>
            /\ \/ pc'[r] = pc[r] /\ Chan(r) \notin ev
               \/ pc[r] \in Waits \cup LockSleep /\ pc'[r] \in Conv
            /\ args'[r] = args[r] /\ mine'[r] = mine[r]
      /\ lock' \in [Queues -> BOOLEAN] /\ (lock'[a.id.q] <=> place \in Copies)
      /\ \A q \in Queues : q # a.id.q => lock'[q] = lock[q]
  BY OthersAre
<1>2. /\ p \in Procs /\ a \in Args /\ a.id.q \in Queues /\ Alone(p, a.id.q) /\ Suits(place, a)
      /\ (pc[p] \in Copies => args[p].id.q = a.id.q) /\ \A q \in Queues : q # a.id.q => k.que[q] = que[q]
      /\ place \in Copies => k.que[a.id.q].alloc /\ k.que[a.id.q].seq = a.id.seq
  BY ArgsIs DEF Enters
<1>3. que' = k.que /\ mine' \in MineType /\ raised' \in [Queues -> BOOLEAN]
  BY DEF Moved
<1>4. Places'
  BY <1>1, <1>3 DEF Places
<1>5. "user" \notin Copies /\ Conv \cap Copies = {} /\ "user" \notin Conv /\ Waits \cap Copies = {}
      /\ LockSleep \cap Copies = {} /\ "user" \notin Waits \cup LockSleep
  BY DEF Copies, Conv, Waits, LockSleep
<1>6. ASSUME NEW r \in Procs, r # p, pc'[r] \in Copies
      PROVE  pc[r] = pc'[r] /\ args'[r] = args[r] /\ args[r].id.q # a.id.q /\ args[r].id.q \in Queues
  <2>1. pc[r] = pc'[r] /\ args'[r] = args[r]
    BY <1>1, <1>5, <1>6
  <2>2. args[r].id.q # a.id.q
    BY <1>2, <1>6, <2>1 DEF Alone
  <2>3. args[r] \in Args
    BY <1>5, <1>6, <2>1 DEF Inside
  <2>4. QED
    BY <2>1, <2>2, <2>3, ArgsIs
<1>7. \A r \in Procs : pc'[r] # "user" => args'[r] \in Args /\ Suits(pc'[r], args'[r])
  <2>1. ASSUME NEW r \in Procs, pc'[r] # "user" PROVE args'[r] \in Args /\ Suits(pc'[r], args'[r])
    <3>1. CASE r = p
      BY <1>1, <1>2, <2>1, <3>1
    <3>2. CASE r # p
      <4>1. pc[r] # "user"
        BY <1>1, <1>5, <2>1, <3>2
      <4>2. args'[r] = args[r] /\ args[r] \in Args /\ Suits(pc[r], args[r])
        BY <1>1, <3>2, <4>1 DEF Inside
      <4>3. CASE pc'[r] = pc[r]
        BY <4>2, <4>3
      <4>4. CASE pc'[r] \in Conv
        BY <4>2, <4>4 DEF Suits, Conv
      <4>5. QED
        BY <1>1, <3>2, <4>3, <4>4
    <3>3. QED
      BY <3>1, <3>2
  <2>2. QED
    BY <2>1
<1>8. \A r \in Procs : pc'[r] \in Copies => lock'[args'[r].id.q] /\ Valid(args[r].id)'
  <2>1. ASSUME NEW r \in Procs, pc'[r] \in Copies PROVE lock'[args'[r].id.q] /\ Valid(args[r].id)'
    <3>1. CASE r = p
      <4>1. place \in Copies /\ args'[r] = a
        BY <1>1, <1>5, <2>1, <3>1
      <4>2. lock'[args'[r].id.q] /\ k.que[a.id.q].alloc /\ k.que[a.id.q].seq = a.id.seq
        BY <1>1, <1>2, <4>1
      <4>3. QED
        BY <1>3, <4>1, <4>2 DEF Valid
    <3>2. CASE r # p
      <4>1. pc[r] = pc'[r] /\ args'[r] = args[r] /\ args[r].id.q # a.id.q /\ args[r].id.q \in Queues
        BY <1>6, <2>1, <3>2
      <4>2. lock[args[r].id.q] /\ Valid(args[r].id)
        BY <2>1, <4>1 DEF Inside
      <4>3. k.que[args[r].id.q] = que[args[r].id.q]
        BY <1>2, <4>1
      <4>4. QED
        BY <1>1, <1>3, <4>1, <4>2, <4>3 DEF Valid
    <3>3. QED
      BY <3>1, <3>2
  <2>2. QED
    BY <2>1
<1>9. \A r, s \in Procs :
         pc'[r] \in Copies /\ pc'[s] \in Copies /\ args'[r].id.q = args'[s].id.q => r = s
  <2>1. ASSUME NEW r \in Procs, NEW s \in Procs, pc'[r] \in Copies, pc'[s] \in Copies,
               args'[r].id.q = args'[s].id.q, r # s
        PROVE  FALSE
    <3>1. CASE r = p
      BY <1>1, <1>5, <1>6, <2>1, <3>1
    <3>2. CASE s = p
      BY <1>1, <1>5, <1>6, <2>1, <3>2
    <3>3. CASE r # p /\ s # p
      <4>1. pc[r] = pc'[r] /\ args'[r] = args[r] /\ pc[s] = pc'[s] /\ args'[s] = args[s]
        BY <1>6, <2>1, <3>3
      <4>2. QED
        BY <2>1, <4>1 DEF Inside
    <3>4. QED
      BY <3>1, <3>2, <3>3
  <2>2. QED
    BY <2>1
<1>10. \A q \in Queues : lock'[q] => \E r \in Procs : pc'[r] \in Copies /\ args'[r].id.q = q
  <2>1. ASSUME NEW q \in Queues, lock'[q] PROVE \E r \in Procs : pc'[r] \in Copies /\ args'[r].id.q = q
    <3>1. CASE q = a.id.q
      BY <1>1, <1>2, <1>5, <2>1, <3>1
    <3>2. CASE q # a.id.q
      <4>1. PICK r \in Procs : pc[r] \in Copies /\ args[r].id.q = q
        BY <1>1, <2>1, <3>2 DEF Inside
      <4>2. CASE r # p
        BY <1>1, <1>5, <4>1, <4>2
      <4>3. CASE r = p
        BY <1>2, <3>2, <4>1, <4>3
      <4>4. QED
        BY <4>2, <4>3
    <3>3. QED
      BY <3>1, <3>2
  <2>2. QED
    BY <2>1
<1>11. Inside'
  BY <1>7, <1>8, <1>9, <1>10 DEF Inside
<1>12. QED
  BY <1>4, <1>11

\* What the tables are after the step: k, but for the events.
LEMMA TablesAre ==
    ASSUME NEW k \in Kit, NEW p, NEW a, NEW ev, NEW place, Moved(p, a, k, ev, place)
    PROVE  /\ Tables' \in Kit /\ Tables'.que = k.que /\ Tables'.hdr = k.hdr /\ Tables'.fp = k.fp
           /\ Tables'.map = k.map
<1>1. Tables' = [que |-> k.que, hdr |-> k.hdr, fp |-> k.fp, map |-> k.map, ev |-> {}]
  BY DEF Tables, Moved
<1>2. k.que \in [Queues -> Queue] /\ k.hdr \in [Headers -> Header] /\ k.fp \in Ptr /\ k.map \in Map
  BY KitIs
<1>3. {} \in SUBSET Channels
  OBVIOUS
<1>4. QED
  BY <1>1, <1>2, <1>3 DEF Kit

\* The tables of the next state are the ones the handler made,
LEMMA BooksNow ==
    ASSUME NEW k, NEW p, NEW a, NEW ev, NEW place, Moved(p, a, k, ev, place),
           NEW chain, NEW text, Books(k, chain, text)
    PROVE  Books(Tables, chain, text)'
<1>1. k \in Kit /\ Pool(k.map, text)
  BY DEF Books
<1>2. /\ Tables' \in Kit /\ Tables'.que = k.que /\ Tables'.hdr = k.hdr /\ Tables'.fp = k.fp
      /\ Tables'.map = k.map
  BY <1>1, TablesAre
<1>3. PICK t : t = Tables'
  OBVIOUS
<1>4. Alike(k, t)
  BY <1>2, <1>3 DEF Alike
<1>5. Books(t, chain, text)
  BY <1>1, <1>2, <1>3, <1>4, BooksKept
<1>6. QED
  BY <1>3, <1>5 DEF Books

\* with the byte counts of its queue, and of the others,
LEMMA BytesNow ==
    ASSUME NEW k, NEW p, NEW a \in Args, NEW ev, NEW place, Moved(p, a, k, ev, place),
           NEW chain, NEW text, Books(Tables, chain, text), Bytes(Tables, chain),
           NEW chain2, NEW text2, Moves(Tables, chain, text, a.id.q, k, chain2, text2)
    PROVE  Bytes(Tables, chain2)'
<1>1. k \in Kit /\ Filled(chain) /\ Tables \in Kit
  BY DEF Books, Moves
<1>2. /\ Tables'.que = k.que /\ Tables'.hdr = k.hdr
  BY <1>1, TablesAre
<1>3. Tables.hdr \in [Headers -> Header] /\ k.hdr \in [Headers -> Header]
  BY <1>1, KitIs
<1>4. ASSUME NEW q \in Queues PROVE k.que[q].cbytes = Total(k.hdr, chain2[q])
  <2>1. CASE q = a.id.q
    BY <2>1 DEF Moves
  <2>2. CASE q # a.id.q
    <3>1. k.que[q] = Tables.que[q] /\ chain2[q] = chain[q]
          /\ \A g \in Headers : Has(chain[q], g) => SameText(Tables, k, g)
      BY <2>2 DEF Moves
    <3>2. chain[q] \in Seq(Headers)
      BY <1>1 DEF Filled, Lists
    <3>3. \A j \in 1 .. Len(chain[q]) : k.hdr[chain[q][j]].ts = Tables.hdr[chain[q][j]].ts
      <4>1. ASSUME NEW j \in 1 .. Len(chain[q])
            PROVE  k.hdr[chain[q][j]].ts = Tables.hdr[chain[q][j]].ts
        <5>1. chain[q][j] \in Headers /\ Has(chain[q], chain[q][j])
          BY <3>2 DEF Has
        <5>2. QED
          BY <3>1, <5>1 DEF SameText
      <4>2. QED
        BY <4>1
    <3>4. Total(k.hdr, chain[q]) = Total(Tables.hdr, chain[q])
      BY <1>3, <3>2, <3>3, TotalSame
    <3>5. QED
      BY <3>1, <3>4 DEF Bytes
  <2>3. QED
    BY <2>1, <2>2
<1>5. PICK t : t = Tables'
  OBVIOUS
<1>6. Bytes(t, chain2)
  BY <1>2, <1>4, <1>5 DEF Bytes
<1>7. QED
  BY <1>5, <1>6 DEF Bytes

(***************************************************************************)
(* The others: whoever is in a copy has what he had, whoever sleeps still  *)
(* has to.                                                                 *)
(***************************************************************************)

\* What p has of text and headers passes into and out of the books.
Handed(p, a, place, chain, text, chain2, text2) ==
    /\ \A g \in Headers : Out(chain2, g) <=> \/ Out(chain, g) /\ ~(pc[p] = "copy:text" /\ mine[p].h = g)
                                             \/ place = "copy:text" /\ mine'[p].h = g
    /\ \A g \in Headers : Out(chain, g) /\ ~(pc[p] = "copy:text" /\ mine[p].h = g) => text2[g] = text[g]
    /\ place = "copy:text" =>
          /\ pc[p] # "copy:text"
          /\ mine'[p].h \in Headers /\ ~Out(chain, mine'[p].h)
          /\ text2[mine'[p].h] = [addr |-> mine'[p].addr, size |-> btoq(a.cnt)]

\* with the headers that senders hold,
LEMMA HandsNow ==
    ASSUME Places, NEW p, NEW a, NEW k, NEW ev, NEW place,
           Enters(p, a, k, ev, place), Moved(p, a, k, ev, place),
           NEW chain, NEW text, Hands(chain, text), NEW chain2, NEW text2,
           Handed(p, a, place, chain, text, chain2, text2)
    PROVE  Hands(chain2, text2)'
<1>1. /\ pc'[p] = place /\ args'[p] = IF place = "user" THEN NULL ELSE a
      /\ \A r \in Procs : r # p =>
            /\ \/ pc'[r] = pc[r] /\ Chan(r) \notin ev
               \/ pc[r] \in Waits \cup LockSleep /\ pc'[r] \in Conv
            /\ args'[r] = args[r] /\ mine'[r] = mine[r]
  BY OthersAre
<1>2. p \in Procs
  BY DEF Enters
<1>3. "copy:text" \notin Waits \cup LockSleep /\ "copy:text" \notin Conv
  BY DEF Waits, LockSleep, Conv
<1>4. \A r \in Procs : r # p =>
         (pc'[r] = "copy:text" <=> pc[r] = "copy:text") /\ args'[r] = args[r] /\ mine'[r] = mine[r]
  BY <1>1, <1>3
<1>5. /\ \A r \in Procs : pc[r] = "copy:text" =>
            /\ mine[r].h \in Headers /\ Out(chain, mine[r].h)
            /\ text[mine[r].h] = [addr |-> mine[r].addr, size |-> btoq(args[r].cnt)]
      /\ \A s, r \in Procs : pc[s] = "copy:text" /\ pc[r] = "copy:text" /\ mine[s].h = mine[r].h => s = r
      /\ \A h \in Headers : Out(chain, h) => \E r \in Procs : pc[r] = "copy:text" /\ mine[r].h = h
  BY DEF Hands, SendAt
<1>6. ASSUME NEW r \in Procs, pc'[r] = "copy:text"
      PROVE  /\ mine'[r].h \in Headers /\ Out(chain2, mine'[r].h)
             /\ text2[mine'[r].h] = [addr |-> mine'[r].addr, size |-> btoq(args'[r].cnt)]
  <2>1. CASE r = p
    BY <1>1, <1>6, <2>1 DEF Handed
  <2>2. CASE r # p
    <3>1. pc[r] = "copy:text" /\ args'[r] = args[r] /\ mine'[r] = mine[r]
      BY <1>4, <1>6, <2>2
    <3>2. /\ mine[r].h \in Headers /\ Out(chain, mine[r].h)
          /\ text[mine[r].h] = [addr |-> mine[r].addr, size |-> btoq(args[r].cnt)]
      BY <1>5, <3>1
    <3>3. ~(pc[p] = "copy:text" /\ mine[p].h = mine[r].h)
      BY <1>2, <1>5, <2>2, <3>1
    <3>4. Out(chain2, mine[r].h) /\ text2[mine[r].h] = text[mine[r].h]
      BY <3>2, <3>3 DEF Handed
    <3>5. QED
      BY <3>1, <3>2, <3>4
  <2>3. QED
    BY <2>1, <2>2
<1>7. ASSUME NEW s \in Procs, NEW r \in Procs, pc'[s] = "copy:text", pc'[r] = "copy:text",
             mine'[s].h = mine'[r].h, s # r
      PROVE  FALSE
  <2>1. ASSUME NEW t \in Procs, t # p, pc'[t] = "copy:text", pc'[p] = "copy:text", mine'[t].h = mine'[p].h
        PROVE  FALSE
    <3>1. Out(chain, mine[t].h) /\ mine'[t].h = mine[t].h
      BY <1>4, <1>5, <2>1
    <3>2. ~Out(chain, mine'[p].h)
      BY <1>1, <2>1 DEF Handed
    <3>3. QED
      BY <2>1, <3>1, <3>2
  <2>2. CASE s = p
    BY <1>7, <2>1, <2>2
  <2>3. CASE r = p
    BY <1>7, <2>1, <2>3
  <2>4. CASE s # p /\ r # p
    BY <1>4, <1>5, <1>7, <2>4
  <2>5. QED
    BY <2>2, <2>3, <2>4
<1>8. ASSUME NEW h \in Headers, Out(chain2, h) PROVE \E r \in Procs : pc'[r] = "copy:text" /\ mine'[r].h = h
  <2>1. CASE place = "copy:text" /\ mine'[p].h = h
    BY <1>1, <1>2, <2>1
  <2>2. CASE Out(chain, h) /\ ~(pc[p] = "copy:text" /\ mine[p].h = h)
    <3>1. PICK r \in Procs : pc[r] = "copy:text" /\ mine[r].h = h
      BY <1>5, <2>2
    <3>2. r # p
      BY <2>2, <3>1
    <3>3. QED
      BY <1>4, <3>1, <3>2
  <2>3. QED
    BY <1>8, <2>1, <2>2 DEF Handed
<1>9. \A r \in Procs : SendAt(r, chain2, text2)'
  BY <1>6 DEF SendAt
<1>10. QED
  BY <1>7, <1>8, <1>9 DEF Hands

\* Where somebody else's message is.
LEMMA OutNow ==
    ASSUME Places, Inside, NEW p, NEW a, NEW k, NEW ev, NEW place,
           Enters(p, a, k, ev, place), Moved(p, a, k, ev, place),
           NEW chain, NEW chain2, \A q \in Queues : q # a.id.q => chain2[q] = chain[q],
           NEW r \in Procs, r # p, OutAt(r, chain)
    PROVE  OutAt(r, chain2)'
<1>1. SUFFICES ASSUME pc'[r] = "copy:out"
               PROVE  \E i \in 1 .. Len(chain2[args'[r].id.q]) :
                         /\ mine'[r].h = chain2[args'[r].id.q][i]
                         /\ mine'[r].pmp = IF i = 1 THEN NULL ELSE chain2[args'[r].id.q][i - 1]
  BY DEF OutAt
<1>2. /\ \/ pc'[r] = pc[r] /\ Chan(r) \notin ev
         \/ pc[r] \in Waits \cup LockSleep /\ pc'[r] \in Conv
      /\ args'[r] = args[r] /\ mine'[r] = mine[r]
  BY OthersAre
<1>3. pc[r] = "copy:out" /\ pc[r] \in Copies /\ pc[r] # "user"
  BY <1>1, <1>2 DEF Conv, Copies
<1>4. args[r] \in Args /\ args[r].id.q # a.id.q
  BY <1>3 DEF Inside, Enters, Alone
<1>5. args[r].id.q \in Queues
  BY <1>4, ArgsIs
<1>6. chain2[args[r].id.q] = chain[args[r].id.q]
  BY <1>4, <1>5
<1>7. \E i \in 1 .. Len(chain[args[r].id.q]) :
         /\ mine[r].h = chain[args[r].id.q][i]
         /\ mine[r].pmp = IF i = 1 THEN NULL ELSE chain[args[r].id.q][i - 1]
  BY <1>3 DEF OutAt
<1>8. QED
  BY <1>2, <1>6, <1>7

\* IPC_SET apart, a queue grows no room that its writers are not told of.
Marked(ev) == \A q \in Queues : raised'[q] <=> raised[q] /\ <<"que", q>> \notin ev

\* and with the others asleep for a reason.
LEMMA AsleepNow ==
    ASSUME Places, Inside, NEW p, NEW a, NEW k, NEW ev, NEW place,
           Enters(p, a, k, ev, place), Moved(p, a, k, ev, place), k.ev \subseteq ev, Marked(ev),
           NEW chain, NEW text, Books(Tables, chain, text),
           NEW chain2, NEW text2, Moves(Tables, chain, text, a.id.q, k, chain2, text2),
           NEW r \in Procs, r # p, Asleep(r, chain)
    PROVE  Asleep(r, chain2)'
<1>1. /\ \/ pc'[r] = pc[r] /\ Chan(r) \notin ev
         \/ pc[r] \in Waits \cup LockSleep /\ pc'[r] \in Conv
      /\ args'[r] = args[r] /\ mine'[r] = mine[r]
      /\ lock' \in [Queues -> BOOLEAN] /\ (lock'[a.id.q] <=> place \in Copies)
      /\ \A q \in Queues : q # a.id.q => lock'[q] = lock[q]
  BY OthersAre
<1>2. CASE pc'[r] \in Conv
  BY <1>2 DEF Asleep, Conv, LockSleep
<1>3. CASE pc'[r] = pc[r] /\ Chan(r) \notin ev /\ pc[r] \in Waits \cup LockSleep
  <2>1. args[r] \in Args /\ Suits(pc[r], args[r]) /\ pc[r] # "user"
    BY <1>3 DEF Inside, Waits, LockSleep
  <2>2. args[r].id.q \in Queues
    BY <2>1, ArgsIs
  <2>3. que' = k.que /\ hdr' = k.hdr /\ msgfp' = k.fp /\ msgmap' = k.map
    BY DEF Moved
  <2>4. Told(Tables, chain, k, chain2) /\ k \in Kit /\ Tables \in Kit
    BY DEF Moves, Books
  <2>5. /\ Tables.que = que /\ Tables.hdr = hdr /\ Tables.fp = msgfp /\ Tables.map = msgmap
    BY DEF Tables
  <2>6. <<Chan(r)[1], Chan(r)[2]>> = Chan(r) => Chan(r) \notin k.ev
    BY <1>3
  <2>7. CASE pc[r] = "rwait"
    <3>1. Chan(r) = <<"qnum", args[r].id.q>>
      BY <2>7 DEF Chan, LockSleep
    <3>2. /\ Valid(args[r].id) /\ que[args[r].id.q].rwait
          /\ \A h \in Headers : Has(chain[args[r].id.q], h) => ~Wanted(args[r].typ, hdr[h].type)
      BY <2>7 DEF Asleep
    <3>3. ReadersTold(Tables, chain, k, chain2, args[r].id.q)
      BY <2>2, <2>4 DEF Told
    <3>4. <<"qnum", args[r].id.q>> \notin k.ev
      BY <1>3, <3>1, SMTT(40)
    <3>5. /\ k.que[args[r].id.q].rwait
          /\ k.que[args[r].id.q].alloc = que[args[r].id.q].alloc
          /\ k.que[args[r].id.q].seq = que[args[r].id.q].seq
          /\ \A h \in Headers : Has(chain2[args[r].id.q], h) =>
                Has(chain[args[r].id.q], h) /\ k.hdr[h].type = hdr[h].type
      BY <2>5, <3>2, <3>3, <3>4 DEF ReadersTold
    <3>6. Valid(args[r].id)' /\ que'[args'[r].id.q].rwait
      BY <1>1, <2>3, <3>2, <3>5 DEF Valid
    <3>7. \A h \in Headers : Has(chain2[args'[r].id.q], h) => ~Wanted(args'[r].typ, hdr'[h].type)
      BY <1>1, <2>3, <3>2, <3>5
    <3>8. QED
      BY <1>1, <1>3, <2>7, <3>6, <3>7 DEF Asleep, LockSleep, Valid
  <2>8. CASE pc[r] = "wwait"
    <3>1. Chan(r) = <<"que", args[r].id.q>>
      BY <2>8 DEF Chan, LockSleep
    <3>2. /\ Valid(args[r].id) /\ que[args[r].id.q].wwait
          /\ NoSpace(args[r].id.q, args[r].cnt) \/ raised[args[r].id.q]
      BY <2>8 DEF Asleep
    <3>3. WritersTold(Tables, k, args[r].id.q)
      BY <2>2, <2>4 DEF Told
    <3>4. <<"que", args[r].id.q>> \notin k.ev /\ <<"que", args[r].id.q>> \notin ev
      BY <1>3, <3>1, SMTT(40)
    <3>5. /\ k.que[args[r].id.q].wwait
          /\ k.que[args[r].id.q].alloc = que[args[r].id.q].alloc
          /\ k.que[args[r].id.q].seq = que[args[r].id.q].seq
          /\ k.que[args[r].id.q].cbytes >= que[args[r].id.q].cbytes
          /\ k.que[args[r].id.q].qbytes = que[args[r].id.q].qbytes
      BY <2>5, <3>2, <3>3, <3>4 DEF WritersTold
    <3>6. Valid(args[r].id)' /\ que'[args'[r].id.q].wwait
      BY <1>1, <2>3, <3>2, <3>5 DEF Valid
    <3>7. NoSpace(args[r].id.q, args[r].cnt) => NoSpace(args[r].id.q, args[r].cnt)'
      <4>1. args[r].cnt \in Nat
        BY <2>1, <2>8, ArgsIs DEF Suits
      <4>2. que[args[r].id.q] \in Queue /\ k.que[args[r].id.q] \in Queue
        BY <2>2, <2>4, <2>5, KitIs
      <4>3. /\ que[args[r].id.q].cbytes \in Int /\ que[args[r].id.q].qbytes \in Nat
            /\ k.que[args[r].id.q].cbytes \in Int
        BY <4>2, QueueIs
      <4>4. ASSUME args[r].cnt + que[args[r].id.q].cbytes > que[args[r].id.q].qbytes
            PROVE  args[r].cnt + k.que[args[r].id.q].cbytes > k.que[args[r].id.q].qbytes
        BY <3>5, <4>1, <4>3, <4>4
      <4>5. QED
        BY <1>1, <2>3, <4>4 DEF NoSpace
    <3>8. raised[args[r].id.q] => raised'[args'[r].id.q]
      BY <1>1, <2>2, <3>4 DEF Marked
    <3>9. QED
      BY <1>1, <1>3, <2>8, <3>2, <3>6, <3>7, <3>8 DEF Asleep, LockSleep, Valid, NoSpace
  <2>9. CASE pc[r] = "hwait"
    <3>1. Chan(r) = <<"msgfp", NULL>> /\ msgfp = NULL
      BY <2>9 DEF Chan, Asleep, LockSleep
    <3>2. HeadersTold(Tables, k)
      BY <2>4 DEF Told
    <3>3. msgfp' = NULL
      BY <1>3, <2>3, <2>5, <3>1, <3>2 DEF HeadersTold
    <3>4. QED
      BY <1>3, <2>9, <3>3 DEF Asleep, LockSleep
  <2>10. CASE pc[r] = "mwait"
    <3>1. Chan(r) = <<"msgmap", NULL>> /\ msgmap.want /\ Fits(msgmap, btoq(args[r].cnt)) = {}
      BY <2>10 DEF Chan, Asleep, LockSleep
    <3>2. TextTold(Tables, k)
      BY <2>4 DEF Told
    <3>3. args[r].cnt \in Nat
      BY <2>1, <2>10, ArgsIs DEF Suits
    <3>4. btoq(args[r].cnt) \in Nat
      BY <3>3, UnitsIs
    <3>5. msgmap'.want /\ Fits(msgmap', btoq(args[r].cnt)) = {}
      BY <1>3, <2>3, <2>5, <3>1, <3>2, <3>4 DEF TextTold
    <3>6. QED
      BY <1>1, <1>3, <2>10, <3>5 DEF Asleep, LockSleep, Fits, btoq
  <2>11. CASE pc[r] \in LockSleep
    <3>1. Chan(r) = <<"lock", args[r].id.q>> /\ lock[args[r].id.q]
      BY <2>11 DEF Chan, Asleep, LockSleep
    <3>2. args[r].id.q = a.id.q => place \in Copies
      BY <1>3, <3>1 DEF Enters
    <3>3. lock'[args'[r].id.q]
      BY <1>1, <2>2, <3>1, <3>2
    <3>4. QED
      BY <1>3, <2>11, <3>3 DEF Asleep, LockSleep
  <2>12. QED
    BY <1>3, <2>7, <2>8, <2>9, <2>10, <2>11 DEF Waits
<1>4. CASE pc'[r] = pc[r] /\ pc[r] \notin Waits \cup LockSleep
  BY <1>4 DEF Asleep, Waits
<1>5. QED
  BY <1>1, <1>2, <1>3, <1>4

\* A step with the lock keeps the invariant if the tables are moved along,
\* p's header and text are accounted for, and what p itself waits for, or
\* copies out, is as it should be.
LEMMA StepKeeps ==
    ASSUME Places, Inside, NEW chain, NEW text, Ledger(chain, text),
           NEW p, NEW a, NEW k, NEW ev, NEW place,
           Enters(p, a, k, ev, place), Moved(p, a, k, ev, place), k.ev \subseteq ev, Marked(ev),
           NEW chain2, NEW text2, Moves(Tables, chain, text, a.id.q, k, chain2, text2),
           Handed(p, a, place, chain, text, chain2, text2),
           OutAt(p, chain2)', Asleep(p, chain2)'
    PROVE  Inv'
<1>1. Places' /\ Inside'
  BY InsideKept
<1>2. /\ Books(Tables, chain, text) /\ Bytes(Tables, chain) /\ Hands(chain, text)
      /\ \A r \in Procs : OutAt(r, chain) /\ Asleep(r, chain)
  BY DEF Ledger
<1>3. a \in Args
  BY DEF Enters
<1>4. Books(k, chain2, text2) /\ \A q \in Queues : q # a.id.q => chain2[q] = chain[q]
  BY DEF Moves
<1>5. Books(Tables, chain2, text2)'
  BY <1>4, BooksNow
<1>6. Bytes(Tables, chain2)'
  BY <1>2, <1>3, BytesNow
<1>7. Hands(chain2, text2)'
  BY <1>2, HandsNow
<1>8. \A r \in Procs : OutAt(r, chain2)' /\ Asleep(r, chain2)'
  <2>1. ASSUME NEW r \in Procs, r # p PROVE OutAt(r, chain2)' /\ Asleep(r, chain2)'
    <3>1. OutAt(r, chain2)'
      BY <1>2, <1>4, <2>1, OutNow
    <3>2. Asleep(r, chain2)'
      BY <1>2, <2>1, AsleepNow
    <3>3. QED
      BY <3>1, <3>2
  <2>2. QED
    BY <2>1
<1>9. Ledger(chain2, text2)'
  BY <1>5, <1>6, <1>7, <1>8 DEF Ledger
<1>10. QED
  BY <1>1, <1>9 DEF Inv

\* The tables are as they were.
LEMMA LedgerSame ==
    ASSUME Places, NEW chain, NEW text, Books(Tables, chain, text), Bytes(Tables, chain),
           UNCHANGED <<que, hdr, msgfp, msgmap>>
    PROVE  Books(Tables, chain, text)' /\ Bytes(Tables, chain)'
<1>1. Tables' = Tables
  BY DEF Tables
<1>2. QED
  BY <1>1 DEF Books, Bytes

\* A step of p with no tables and no lock, to a place that is in no copy.
LEMMA AsideKeeps ==
    ASSUME Inv, NEW p \in Procs, NEW place \in PC \ Copies, NEW a \in Args \cup {NULL},
           pc[p] \notin Copies, place # "user" => a \in Args /\ Suits(place, a),
           pc' = [pc EXCEPT ![p] = place], args' = [args EXCEPT ![p] = a],
           UNCHANGED <<que, hdr, msgfp, msgmap, lock, mine, raised>>,
           place \notin Waits, place \in LockSleep => lock[a.id.q]
    PROVE  Inv'
<1>1. Places /\ Inside
  BY DEF Inv
<1>2. PICK chain, text : Ledger(chain, text)
  BY DEF Inv
<1>3. /\ Books(Tables, chain, text) /\ Bytes(Tables, chain) /\ Hands(chain, text)
      /\ \A r \in Procs : OutAt(r, chain) /\ Asleep(r, chain)
  BY <1>2 DEF Ledger
<1>4. /\ pc' \in [Procs -> PC] /\ pc'[p] = place /\ args' \in [Procs -> Args \cup {NULL}] /\ args'[p] = a
      /\ \A r \in Procs : r # p => pc'[r] = pc[r] /\ args'[r] = args[r]
  BY <1>1 DEF Places
<1>5. Places'
  BY <1>1, <1>4 DEF Places
<1>6. ASSUME NEW r \in Procs, pc'[r] \in Copies PROVE r # p /\ pc'[r] = pc[r] /\ args'[r] = args[r]
  BY <1>4, <1>6
<1>7. ASSUME NEW r \in Procs, pc[r] \in Copies PROVE r # p /\ pc'[r] = pc[r] /\ args'[r] = args[r]
  BY <1>4, <1>7
<1>8. Inside'
  <2>1. \A r \in Procs : pc'[r] # "user" => args'[r] \in Args /\ Suits(pc'[r], args'[r])
    BY <1>1, <1>4 DEF Inside
  <2>2. \A r \in Procs : pc'[r] \in Copies => lock'[args'[r].id.q] /\ Valid(args[r].id)'
    BY <1>1, <1>6 DEF Inside, Valid
  <2>3. \A r, s \in Procs :
           pc'[r] \in Copies /\ pc'[s] \in Copies /\ args'[r].id.q = args'[s].id.q => r = s
    BY <1>1, <1>6 DEF Inside
  <2>4. \A q \in Queues : lock'[q] => \E r \in Procs : pc'[r] \in Copies /\ args'[r].id.q = q
    <3>1. ASSUME NEW q \in Queues, lock'[q] PROVE \E r \in Procs : pc'[r] \in Copies /\ args'[r].id.q = q
      <4>1. PICK r \in Procs : pc[r] \in Copies /\ args[r].id.q = q
        BY <1>1, <3>1 DEF Inside
      <4>2. QED
        BY <1>7, <4>1
    <3>2. QED
      BY <3>1
  <2>5. QED
    BY <2>1, <2>2, <2>3, <2>4 DEF Inside
<1>9. Books(Tables, chain, text)' /\ Bytes(Tables, chain)'
  BY <1>1, <1>3, LedgerSame
<1>10. \A r \in Procs : pc'[r] = "copy:text" <=> pc[r] = "copy:text"
  BY <1>6, <1>7 DEF Copies
<1>11. ASSUME NEW r \in Procs, pc[r] = "copy:text" PROVE args'[r] = args[r] /\ mine'[r] = mine[r]
  BY <1>7, <1>11 DEF Copies
<1>12. \A r \in Procs : SendAt(r, chain, text)'
  BY <1>3, <1>10, <1>11 DEF Hands, SendAt
<1>13. Hands(chain, text)'
  BY <1>3, <1>10, <1>12 DEF Hands
<1>14. ASSUME NEW r \in Procs PROVE OutAt(r, chain)'
  BY <1>3, <1>6 DEF OutAt, Copies
<1>15. ASSUME NEW r \in Procs PROVE Asleep(r, chain)'
  <2>1. CASE r = p
    BY <1>4, <2>1 DEF Asleep, Waits
  <2>2. CASE r # p
    <3>1. pc'[r] = pc[r] /\ args'[r] = args[r] /\ Asleep(r, chain)
      BY <1>3, <1>4, <2>2
    <3>2. QED
      BY <3>1 DEF Asleep, Valid, NoSpace
  <2>3. QED
    BY <2>1, <2>2
<1>16. Ledger(chain, text)'
  BY <1>9, <1>13, <1>14, <1>15 DEF Ledger
<1>17. QED
  BY <1>5, <1>8, <1>16 DEF Inv

(***************************************************************************)
(* The calls, one action of Next at a time.                                *)
(***************************************************************************)

\* A call is made from user mode, or on the way from a converted one.
LEMMA CallsAre ==
    ASSUME Inv, NEW p \in Procs, NEW a \in Calls(p)
    PROVE  /\ a \in Args /\ (a.op = "rmid" => a.id.seq < MaxSeq)
           /\ pc[p] \in {"user", "conv:first"}
<1>1. CASE pc[p] = "user"
  BY <1>1 DEF Calls
<1>2. CASE pc[p] = "conv:first"
  BY <1>2 DEF Calls, Inv, Inside, Suits
<1>3. QED
  BY <1>1, <1>2 DEF Calls

\* A call that finds the queue locked goes to sleep on the lock.
LEMMA EnterLockedKeeps ==
    ASSUME Inv, NEW p \in Procs, EnterLocked(p)
    PROVE  Inv'
<1>1. PICK a \in Calls(p) :
        /\ lock[a.id.q]
        /\ pc' = [pc EXCEPT ![p] = "lock:first"]
        /\ args' = [args EXCEPT ![p] = a]
        /\ UNCHANGED <<que, hdr, msgfp, msgmap, lock, mine, raised>>
  BY DEF EnterLocked
<1>2. a \in Args /\ (a.op = "rmid" => a.id.seq < MaxSeq) /\ pc[p] \in {"user", "conv:first"}
  BY CallsAre
<1>3. Suits("lock:first", a) /\ pc[p] \notin Copies
  BY <1>2 DEF Suits, Copies
<1>4. "lock:first" \in PC \ Copies /\ "lock:first" \notin Waits
  BY DEF PC, LockSleep, Copies, Waits
<1>5. QED
  BY <1>1, <1>2, <1>3, <1>4, AsideKeeps

\* One that wakes and finds it locked again sleeps on.
LEMMA LockSleepOnKeeps ==
    ASSUME Inv, NEW p \in Procs, LockSleepOn(p)
    PROVE  Inv'
<1>1. PICK place : place = SleepOn[pc[p]]
  OBVIOUS
<1>2. pc[p] \in Conv /\ place \in LockSleep
  BY <1>1 DEF LockSleepOn, SleepOn, Conv, LockSleep
<1>3. PICK a : a = args[p]
  OBVIOUS
<1>4. a \in Args /\ Suits(place, a) /\ pc[p] \notin Copies
  BY <1>2, <1>3 DEF Inv, Inside, Suits, Conv, LockSleep, Copies
<1>5. pc' = [pc EXCEPT ![p] = place] /\ args' = [args EXCEPT ![p] = a] /\ lock[a.id.q]
      /\ UNCHANGED <<que, hdr, msgfp, msgmap, lock, mine, raised>>
  BY <1>1, <1>3 DEF LockSleepOn, Inv, Places
<1>6. place \in PC \ Copies /\ place \notin Waits
  BY <1>2 DEF PC, LockSleep, Copies, Waits
<1>7. QED
  BY <1>4, <1>5, <1>6, AsideKeeps

\* A signal takes a sleeper out of the call.
LEMMA SignalKeeps ==
    ASSUME Inv, NEW p \in Procs, Signal(p)
    PROVE  Inv'
<1>1. PICK place : place = CASE pc[p] = "wwait" -> "conv:intrw"
                             [] pc[p] \in {"hwait", "mwait"} -> "conv:intr"
                             [] OTHER -> "user"
  OBVIOUS
<1>2. PICK a : a = IF place = "user" THEN NULL ELSE args[p]
  OBVIOUS
<1>3. /\ pc \in [Procs -> PC] /\ args \in [Procs -> Args \cup {NULL}]
      /\ pc[p] # "user" => args[p] \in Args /\ Suits(pc[p], args[p])
  BY DEF Inv, Places, Inside
<1>4. /\ pc[p] \in Waits \cup LockSleep /\ pc' = [pc EXCEPT ![p] = place]
      /\ UNCHANGED <<que, hdr, msgfp, msgmap, lock, mine, raised>>
  BY <1>1 DEF Signal
<1>5. pc'[p] = place
  BY <1>3, <1>4
<1>6. args' = [args EXCEPT ![p] = a]
  BY <1>2, <1>3, <1>5 DEF Signal, Return
<1>7. place \in {"conv:intrw", "conv:intr", "user"}
  BY <1>1
<1>8. pc[p] # "user" /\ pc[p] \notin Copies
  BY <1>4 DEF Waits, LockSleep, Copies
<1>9. a \in Args \cup {NULL} /\ (place # "user" => a \in Args /\ Suits(place, a))
  BY <1>2, <1>3, <1>7, <1>8 DEF Suits
<1>10. place \in PC \ Copies /\ place \notin Waits /\ place \notin LockSleep
  BY <1>7 DEF PC, Conv, Copies, Waits, LockSleep
<1>11. QED
  BY <1>4, <1>6, <1>8, <1>9, <1>10, AsideKeeps

\* Whoever is in a copy is alone there,
LEMMA LockMine ==
    ASSUME Inv, NEW p \in Procs, pc[p] \in Copies
    PROVE  Alone(p, args[p].id.q) /\ args[p] \in Args /\ Suits(pc[p], args[p])
<1>1. pc[p] # "user"
  BY DEF Copies
<1>2. QED
  BY <1>1 DEF Inv, Inside, Alone

\* and nobody is if the lock is free.
LEMMA LockFree ==
    ASSUME Inv, NEW p \in Procs, NEW q, ~lock[q]
    PROVE  Alone(p, q)
BY DEF Inv, Inside, Alone

\* A step in which no sender gets or gives up a header.
LEMMA NobodyHands ==
    ASSUME NEW chain, NEW text, NEW chain2, NEW text2, Steady(chain, text, chain2, text2),
           NEW p \in Procs, NEW a, NEW place, pc[p] # "copy:text", place # "copy:text"
    PROVE  Handed(p, a, place, chain, text, chain2, text2)
BY DEF Steady, Handed

\* The end of what is done with the lock.
LEMMA ReleaseKeeps ==
    ASSUME Inv, NEW chain, NEW text, Ledger(chain, text),
           NEW p \in Procs, NEW a \in Args, NEW k, NEW place \in {"user"} \cup Waits,
           Release(p, a, k, place),
           Alone(p, a.id.q), pc[p] \in Copies => args[p].id.q = a.id.q, Suits(place, a),
           mine' \in MineType, \A r \in Procs : r # p => mine'[r] = mine[r],
           NEW chain2, NEW text2, Moves(Tables, chain, text, a.id.q, k, chain2, text2),
           Handed(p, a, place, chain, text, chain2, text2),
           place \in Waits => Asleep(p, chain2)'
    PROVE  Inv'
<1>1. Places /\ Inside
  BY DEF Inv
<1>2. PICK ev : ev = k.ev \cup {<<"lock", a.id.q>>}
  OBVIOUS
<1>3. k \in Kit /\ a.id.q \in Queues
  BY ArgsIs DEF Moves, Books
<1>4. ev \in SUBSET Channels /\ k.ev \subseteq ev
  BY <1>2, <1>3, KitIs DEF Channels, Lists
<1>5. place \notin Copies /\ place \in PC /\ place # "copy:out"
  BY DEF Waits, Copies, PC
<1>6. raised' = [r \in Queues |-> raised[r] /\ <<"que", r>> \notin k.ev]
  BY DEF Release
<1>7. raised' \in [Queues -> BOOLEAN]
  BY <1>6
<1>8. Marked(ev)
  <2>1. \A r \in Queues : <<"que", r>> \in ev <=> <<"que", r>> \in k.ev
    BY <1>2
  <2>2. QED
    BY <1>6, <2>1 DEF Marked
<1>9. lock' = [lock EXCEPT ![a.id.q] = place \in Copies]
  <2>1. (place \in Copies) = FALSE
    BY <1>5
  <2>2. lock' = [lock EXCEPT ![a.id.q] = FALSE]
    BY DEF Release
  <2>3. QED
    BY <2>1, <2>2, Zenon
<1>10. Moved(p, a, k, ev, place)
  BY <1>2, <1>7, <1>9 DEF Release, Moved
<1>11. \A q \in Queues : q # a.id.q => k.que[q] = que[q]
  BY DEF Moves, Tables
<1>12. Enters(p, a, k, ev, place)
  BY <1>2, <1>4, <1>5, <1>11 DEF Enters
<1>13. pc'[p] = place
  BY <1>1, <1>10, <1>12, OthersAre
<1>14. OutAt(p, chain2)'
  BY <1>5, <1>13 DEF OutAt
<1>15. Asleep(p, chain2)'
  <2>1. CASE place = "user"
    BY <1>13, <2>1 DEF Asleep, LockSleep
  <2>2. QED
    BY <2>1
<1>16. QED
  BY <1>1, <1>4, <1>8, <1>10, <1>12, <1>14, <1>15, StepKeeps

\* The call goes to sleep in a copy.
LEMMA CopyKeeps ==
    ASSUME Inv, NEW chain, NEW text, Ledger(chain, text),
           NEW p \in Procs, NEW a \in Args, NEW k, NEW ev, ev \subseteq {<<"lock", a.id.q>>},
           NEW place \in Copies, Copy(p, a, ev, place),
           que' = k.que, hdr' = k.hdr, msgfp' = k.fp, msgmap' = k.map, k.ev = {}, raised' = raised,
           Alone(p, a.id.q), pc[p] \in Copies => args[p].id.q = a.id.q, Suits(place, a),
           mine' \in MineType, \A r \in Procs : r # p => mine'[r] = mine[r],
           k.que[a.id.q].alloc, k.que[a.id.q].seq = a.id.seq,
           NEW chain2, NEW text2, Moves(Tables, chain, text, a.id.q, k, chain2, text2),
           Handed(p, a, place, chain, text, chain2, text2),
           OutAt(p, chain2)'
    PROVE  Inv'
<1>1. Places /\ Inside
  BY DEF Inv
<1>2. a.id.q \in Queues
  BY ArgsIs
<1>3. ev \in SUBSET Channels /\ k.ev \subseteq ev
  BY <1>2 DEF Channels, Lists
<1>4. place \in PC /\ place # "user" /\ place \notin Waits \cup LockSleep
  BY DEF Waits, Copies, PC, LockSleep
<1>5. raised' \in [Queues -> BOOLEAN] /\ Marked(ev)
  BY <1>1 DEF Places, Marked
<1>6. lock' = [lock EXCEPT ![a.id.q] = place \in Copies]
  BY DEF Copy
<1>7. args' = [args EXCEPT ![p] = IF place = "user" THEN NULL ELSE a]
  BY <1>4 DEF Copy
<1>8. Moved(p, a, k, ev, place)
  BY <1>5, <1>6, <1>7 DEF Copy, Moved
<1>9. \A q \in Queues : q # a.id.q => k.que[q] = que[q]
  BY DEF Moves, Tables
<1>10. Enters(p, a, k, ev, place)
  BY <1>3, <1>4, <1>9 DEF Enters
<1>11. pc'[p] = place
  BY <1>1, <1>8, <1>10, OthersAre
<1>12. Asleep(p, chain2)'
  BY <1>4, <1>11 DEF Asleep, Waits
<1>13. QED
  BY <1>1, <1>3, <1>5, <1>8, <1>10, <1>12, StepKeeps

\* The call ends, or goes on, with the tables as they were.
LEMMA GiveUp ==
    ASSUME Inv, NEW p \in Procs, NEW a \in Args, Release(p, a, Tables, "user"),
           Alone(p, a.id.q), pc[p] \in Copies => args[p].id.q = a.id.q, pc[p] # "copy:text",
           a.op = "rmid" => a.id.seq < MaxSeq,
           mine' = mine \/ mine' = [mine EXCEPT ![p] = NoMine]
    PROVE  Inv'
<1>1. PICK chain, text : Ledger(chain, text)
  BY DEF Inv
<1>2. Books(Tables, chain, text) /\ Bytes(Tables, chain) /\ a.id.q \in Queues
  BY <1>1, ArgsIs DEF Ledger
<1>3. Moves(Tables, chain, text, a.id.q, Tables, chain, text) /\ Steady(chain, text, chain, text)
  BY <1>2, StaysIs
<1>4. Handed(p, a, "user", chain, text, chain, text)
  BY <1>3, NobodyHands
<1>5. NoMine \in [h : Ptr, pmp : Ptr, addr : Nat] /\ mine \in MineType
  BY DEF NoMine, Ptr, Inv, Places
<1>6. mine' \in MineType /\ \A r \in Procs : r # p => mine'[r] = mine[r]
  BY <1>5 DEF MineType
<1>7. Suits("user", a) /\ "user" \notin Waits
  BY DEF Suits, Waits
<1>8. QED
  BY <1>1, <1>3, <1>4, <1>6, <1>7, ReleaseKeeps

\* A call on a queue that is gone fails.
LEMMA ConvFailsKeeps ==
    ASSUME Inv, NEW p \in Procs, ConvFails(p)
    PROVE  Inv'
<1>1. PICK a : a = args[p]
  OBVIOUS
<1>2. pc[p] \in Conv /\ ~lock[a.id.q] /\ Release(p, a, Tables, "user") /\ mine' = mine
  BY <1>1 DEF ConvFails
<1>3. pc[p] # "user" /\ pc[p] \notin Copies /\ pc[p] # "copy:text"
  BY <1>2 DEF Conv, Copies
<1>4. a \in Args /\ (a.op = "rmid" => a.id.seq < MaxSeq)
  BY <1>1, <1>3 DEF Inv, Inside, Suits
<1>5. Alone(p, a.id.q)
  BY <1>2, LockFree
<1>6. QED
  BY <1>2, <1>3, <1>4, <1>5, GiveUp

\* The copy of the type faults: the reader leaves, the message stays.
LEMMA RcvFaultKeeps ==
    ASSUME Inv, NEW p \in Procs, RcvFault(p)
    PROVE  Inv'
<1>1. PICK a : a = args[p]
  OBVIOUS
<1>2. pc[p] = "copy:out" /\ Release(p, a, Tables, "user") /\ mine' = [mine EXCEPT ![p] = NoMine]
  BY <1>1 DEF RcvFault
<1>3. pc[p] \in Copies /\ pc[p] # "copy:text"
  BY <1>2 DEF Copies
<1>4. a \in Args /\ (a.op = "rmid" => a.id.seq < MaxSeq) /\ Alone(p, a.id.q)
  BY <1>1, <1>3, LockMine DEF Suits
<1>5. QED
  BY <1>1, <1>2, <1>3, <1>4, GiveUp

\* The copy of the arguments of msgctl() faults.
LEMMA CopyFaultKeeps ==
    ASSUME Inv, NEW p \in Procs, CopyFault(p)
    PROVE  Inv'
<1>1. PICK a : a = args[p]
  OBVIOUS
<1>2. pc[p] \in {"copy:type", "copy:set"} /\ Release(p, a, Tables, "user") /\ mine' = mine
  BY <1>1 DEF CopyFault
<1>3. pc[p] \in Copies /\ pc[p] # "copy:text"
  BY <1>2 DEF Copies
<1>4. a \in Args /\ (a.op = "rmid" => a.id.seq < MaxSeq) /\ Alone(p, a.id.q)
  BY <1>1, <1>3, LockMine DEF Suits
<1>5. QED
  BY <1>1, <1>2, <1>3, <1>4, GiveUp

\* A signal to a sender that waits for a header or for text.
LEMMA IntrResourceKeeps ==
    ASSUME Inv, NEW p \in Procs, IntrResource(p)
    PROVE  Inv'
<1>1. PICK a : a = args[p]
  OBVIOUS
<1>2. pc[p] = "conv:intr" /\ ~lock[a.id.q] /\ Release(p, a, Tables, "user") /\ mine' = mine
  BY <1>1 DEF IntrResource, Locked
<1>3. pc[p] # "user" /\ pc[p] \notin Copies /\ pc[p] # "copy:text"
  BY <1>2 DEF Copies
<1>4. a \in Args /\ (a.op = "rmid" => a.id.seq < MaxSeq)
  BY <1>1, <1>3 DEF Inv, Inside, Suits
<1>5. Alone(p, a.id.q)
  BY <1>2, LockFree
<1>6. QED
  BY <1>2, <1>3, <1>4, <1>5, GiveUp

\* A copy that takes nothing along.
LEMMA CopyStays ==
    ASSUME Inv, NEW p \in Procs, NEW a \in Calls(p), ~lock[a.id.q], Valid(a.id),
           NEW place \in {"copy:type", "copy:set"}, Suits(place, a), Copy(p, a, {}, place),
           UNCHANGED <<que, hdr, msgfp, msgmap, mine, raised>>
    PROVE  Inv'
<1>1. PICK chain, text : Ledger(chain, text)
  BY DEF Inv
<1>2. a \in Args /\ pc[p] \in {"user", "conv:first"}
  BY CallsAre
<1>3. Books(Tables, chain, text) /\ Bytes(Tables, chain) /\ a.id.q \in Queues
  BY <1>1, <1>2, ArgsIs DEF Ledger
<1>4. Moves(Tables, chain, text, a.id.q, Tables, chain, text) /\ Steady(chain, text, chain, text)
  BY <1>3, StaysIs
<1>5. place \in Copies /\ place # "copy:text" /\ place # "copy:out" /\ place \in PC /\ pc[p] # "copy:text"
      /\ pc[p] \notin Copies
  BY <1>2 DEF Copies, PC
<1>6. Handed(p, a, place, chain, text, chain, text)
  BY <1>4, <1>5, NobodyHands
<1>7. mine' \in MineType /\ \A r \in Procs : r # p => mine'[r] = mine[r]
  BY DEF Inv, Places
<1>8. Alone(p, a.id.q)
  BY LockFree
<1>9. PICK k : k = Tables
  OBVIOUS
<1>10. que' = k.que /\ hdr' = k.hdr /\ msgfp' = k.fp /\ msgmap' = k.map /\ k.ev = {} /\ raised' = raised
       /\ k.que[a.id.q].alloc /\ k.que[a.id.q].seq = a.id.seq
  BY <1>9 DEF Tables, Valid
<1>11. Moves(Tables, chain, text, a.id.q, k, chain, text)
  BY <1>4, <1>9
<1>12. PICK ev : ev = {}
  OBVIOUS
<1>13. ev \in SUBSET Channels /\ ev \subseteq {<<"lock", a.id.q>>} /\ Copy(p, a, ev, place)
  BY <1>12
<1>14. pc' = wakeprocs(ev, p, place)
  BY <1>13 DEF Copy
<1>15. pc'[p] = place
  <2>1. Places /\ ev \in SUBSET Channels /\ place \in PC
    BY <1>5, <1>13 DEF Inv
  <2>2. wakeprocs(ev, p, place)[p] = place
    BY <2>1, WakeIs
  <2>3. QED
    BY <1>14, <2>2
<1>16. OutAt(p, chain)'
  BY <1>5, <1>15 DEF OutAt
<1>17. QED
  BY <1>1, <1>2, <1>5, <1>6, <1>7, <1>8, <1>10, <1>11, <1>13, <1>16, CopyKeeps

\* msgsnd() goes to copy the type.
LEMMA SndFirstKeeps ==
    ASSUME Inv, NEW p \in Procs, SndFirst(p)
    PROVE  Inv'
<1>1. PICK a \in Calls(p) : Locked(a, "snd") /\ Copy(p, a, {}, "copy:type")
  BY DEF SndFirst
<1>2. UNCHANGED <<que, hdr, msgfp, msgmap, mine, raised>>
  BY DEF SndFirst
<1>3. ~lock[a.id.q] /\ Valid(a.id) /\ a.op = "snd"
  BY <1>1 DEF Locked
<1>4. Suits("copy:type", a)
  BY <1>3 DEF Suits
<1>5. QED
  BY <1>1, <1>2, <1>3, <1>4, CopyStays

\* IPC_SET goes to copy its argument.
LEMMA CtlSetKeeps ==
    ASSUME Inv, NEW p \in Procs, CtlSet(p)
    PROVE  Inv'
<1>1. PICK a \in Calls(p) : Locked(a, "set") /\ Copy(p, a, {}, "copy:set")
  BY DEF CtlSet
<1>2. UNCHANGED <<que, hdr, msgfp, msgmap, mine, raised>>
  BY DEF CtlSet
<1>3. ~lock[a.id.q] /\ Valid(a.id) /\ a.op = "set"
  BY <1>1 DEF Locked
<1>4. Suits("copy:set", a)
  BY <1>3 DEF Suits
<1>5. QED
  BY <1>1, <1>2, <1>3, <1>4, CopyStays

\* The flags of a queue are set or cleared, and nothing else.
Flagged(m, r, w, m2) ==
    /\ m2 \in Queue /\ m2.rwait = r /\ m2.wwait = w
    /\ m2.first = m.first /\ m2.last = m.last /\ m2.qnum = m.qnum /\ m2.alloc = m.alloc
    /\ m2.seq = m.seq /\ m2.cbytes = m.cbytes /\ m2.qbytes = m.qbytes

\* The queue with its MSG_RWAIT and MSG_WWAIT set so.
LEMMA FlagSet ==
    ASSUME NEW m \in Queue, NEW r \in BOOLEAN, NEW w \in BOOLEAN,
           NEW m2, m2 = [m EXCEPT !.rwait = r, !.wwait = w]
    PROVE  Flagged(m, r, w, m2)
<1>1. PICK m1 : m1 = [m EXCEPT !.rwait = r]
  OBVIOUS
<1>2. m1 \in Queue
  BY <1>1, Zenon DEF Queue
<1>3. /\ m1.rwait = r
      /\ m1.first = m.first /\ m1.last = m.last /\ m1.qnum = m.qnum /\ m1.alloc = m.alloc
      /\ m1.seq = m.seq /\ m1.cbytes = m.cbytes /\ m1.qbytes = m.qbytes
  BY <1>1 DEF Queue
<1>4. m2 = [m1 EXCEPT !.wwait = w]
  BY <1>1
<1>5. m2 \in Queue
  BY <1>2, <1>4, Zenon DEF Queue
<1>6. /\ m2.rwait = m1.rwait /\ m2.wwait = w
      /\ m2.first = m1.first /\ m2.last = m1.last /\ m2.qnum = m1.qnum /\ m2.alloc = m1.alloc
      /\ m2.seq = m1.seq /\ m2.cbytes = m1.cbytes /\ m2.qbytes = m1.qbytes
  BY <1>2, <1>4 DEF Queue
<1>7. QED
  BY <1>3, <1>5, <1>6 DEF Flagged

\* A signal to a sender that waits for room: MSG_WWAIT goes and the others are
\* woken.
LEMMA IntrWriterKeeps ==
    ASSUME Inv, NEW p \in Procs, IntrWriter(p)
    PROVE  Inv'
<1>1. PICK a : a = args[p]
  OBVIOUS
<1>2. PICK k : k = [Tables EXCEPT !.que[a.id.q].wwait = FALSE, !.ev = {<<"que", a.id.q>>}]
  OBVIOUS
<1>3. pc[p] = "conv:intrw" /\ ~lock[a.id.q] /\ a.op = "snd" /\ Release(p, a, k, "user") /\ mine' = mine
  BY <1>1, <1>2 DEF IntrWriter, Locked
<1>4. pc[p] # "user" /\ pc[p] \notin Copies /\ pc[p] # "copy:text"
  BY <1>3 DEF Copies
<1>5. a \in Args /\ a.id.q \in Queues
  BY <1>1, <1>4, ArgsIs DEF Inv, Inside
<1>6. Alone(p, a.id.q)
  BY <1>3, LockFree
<1>7. PICK chain, text : Ledger(chain, text)
  BY DEF Inv
<1>8. Books(Tables, chain, text) /\ Bytes(Tables, chain) /\ Tables \in Kit
  BY <1>7 DEF Ledger, Books
<1>9. PICK t : t = Tables
  OBVIOUS
<1>10. PICK m0 : m0 = t.que[a.id.q]
  OBVIOUS
<1>11. m0 \in Queue /\ m0.rwait \in BOOLEAN
  BY <1>5, <1>8, <1>9, <1>10, KitIs, QueueIs
<1>12. PICK m : m = [m0 EXCEPT !.rwait = m0.rwait, !.wwait = FALSE]
  OBVIOUS
<1>13. /\ m \in Queue /\ m.rwait = m0.rwait /\ m.wwait = FALSE /\ m = [m0 EXCEPT !.wwait = FALSE]
       /\ m.first = m0.first /\ m.last = m0.last /\ m.qnum = m0.qnum
       /\ m.alloc = m0.alloc /\ m.seq = m0.seq /\ m.cbytes = m0.cbytes /\ m.qbytes = m0.qbytes
  <2>1. m = [m0 EXCEPT !.wwait = FALSE]
    BY <1>11, <1>12 DEF Queue
  <2>2. FALSE \in BOOLEAN
    OBVIOUS
  <2>3. Flagged(m0, m0.rwait, FALSE, m)
    BY <1>11, <1>12, <2>2, FlagSet, Zenon
  <2>4. QED
    BY <2>1, <2>3 DEF Flagged
<1>14. PICK ev : ev = {<<"que", a.id.q>>}
  OBVIOUS
<1>15. k = [t EXCEPT !.que[a.id.q] = m, !.ev = ev]
  BY <1>2, <1>9, <1>10, <1>13, <1>14
<1>16. t.ev = {}
  BY <1>9 DEF Tables
<1>17. ev \in SUBSET Channels /\ t.ev \subseteq ev /\ <<"que", a.id.q>> \in ev
  BY <1>5, <1>14, <1>16, SMTT(40) DEF Channels, Lists
<1>18. Moves(t, chain, text, a.id.q, k, chain, text)
  BY <1>5, <1>8, <1>9, <1>10, <1>13, <1>15, <1>17, FlagIs
<1>19. Moves(Tables, chain, text, a.id.q, k, chain, text)
  BY <1>9, <1>18
<1>20. Steady(chain, text, chain, text)
  BY DEF Steady
<1>21. Handed(p, a, "user", chain, text, chain, text)
  BY <1>4, <1>20, NobodyHands
<1>22. mine' \in MineType /\ \A r \in Procs : r # p => mine'[r] = mine[r]
  BY <1>3 DEF Inv, Places
<1>23. Suits("user", a) /\ "user" \notin Waits
  BY <1>3 DEF Suits, Waits
<1>24. QED
  BY <1>3, <1>4, <1>5, <1>6, <1>7, <1>19, <1>21, <1>22, <1>23, ReleaseKeeps

\* IPC_RMID frees what is on the queue, and wakes everyone who waits on it.
LEMMA CtlRmidKeeps ==
    ASSUME Inv, NEW p \in Procs, CtlRmid(p)
    PROVE  Inv'
<1>1. PICK a \in Calls(p) :
         Locked(a, "rmid") /\ Release(p, a, Removed(AllFreed(a.id.q), a.id.q), "user")
  BY DEF CtlRmid
<1>2. /\ a \in Args /\ (a.op = "rmid" => a.id.seq < MaxSeq) /\ pc[p] \in {"user", "conv:first"}
      /\ a.id.q \in Queues
  BY CallsAre, ArgsIs
<1>3. ~lock[a.id.q] /\ a.op = "rmid" /\ que[a.id.q].seq < MaxSeq
  BY <1>1, <1>2 DEF Locked, Valid
<1>4. pc[p] \notin Copies /\ pc[p] # "copy:text"
  BY <1>2 DEF Copies
<1>5. Alone(p, a.id.q)
  BY <1>3, LockFree
<1>6. PICK chain, text : Ledger(chain, text)
  BY DEF Inv
<1>7. Books(Tables, chain, text)
  BY <1>6 DEF Ledger
<1>8. PICK k : k = Removed(AllFreed(a.id.q), a.id.q)
  OBVIOUS
<1>9. PICK chain2, text2 :
         Moves(Tables, chain, text, a.id.q, k, chain2, text2) /\ Steady(chain, text, chain2, text2)
  BY <1>2, <1>3, <1>7, <1>8, RemovedIs
<1>10. Handed(p, a, "user", chain, text, chain2, text2)
  BY <1>4, <1>9, NobodyHands
<1>11. mine' \in MineType /\ \A r \in Procs : r # p => mine'[r] = mine[r]
  BY DEF Inv, Places, CtlRmid
<1>12. Suits("user", a) /\ "user" \notin Waits
  BY <1>2 DEF Suits, Waits
<1>13. Release(p, a, k, "user")
  BY <1>1, <1>8
<1>14. QED
  BY <1>2, <1>4, <1>5, <1>6, <1>9, <1>10, <1>11, <1>12, <1>13, ReleaseKeeps

\* The qbytes of a queue are set, and nothing else.
Resized(m, b, m2) ==
    /\ m2 \in Queue /\ m2.qbytes = b
    /\ m2.first = m.first /\ m2.last = m.last /\ m2.qnum = m.qnum /\ m2.alloc = m.alloc
    /\ m2.seq = m.seq /\ m2.cbytes = m.cbytes /\ m2.rwait = m.rwait /\ m2.wwait = m.wwait

\* The queue with another msg_qbytes,
LEMMA ResizeIs ==
    ASSUME NEW m \in Queue, NEW b \in Nat, NEW m2, m2 = [m EXCEPT !.qbytes = b]
    PROVE  Resized(m, b, m2)
<1>1. m2 \in Queue
  BY Zenon DEF Queue
<1>2. /\ m2.qbytes = b
      /\ m2.first = m.first /\ m2.last = m.last /\ m2.qnum = m.qnum /\ m2.alloc = m.alloc
      /\ m2.seq = m.seq /\ m2.cbytes = m.cbytes /\ m2.rwait = m.rwait /\ m2.wwait = m.wwait
  BY DEF Queue
<1>3. QED
  BY <1>1, <1>2 DEF Resized

\* IPC_SET: the tables,
ResizedTables(k, chain, text, q, m, k2) ==
    /\ Books(k2, chain, text) /\ Bytes(k2, chain)
    /\ k2.hdr = k.hdr /\ k2.fp = k.fp /\ k2.map = k.map /\ k2.ev = k.ev
    /\ k2.que[q] = m /\ \A r \in Queues : r # q => k2.que[r] = k.que[r]

\* and the tables with that queue.
LEMMA ResizeBooks ==
    ASSUME NEW k, NEW chain, NEW text, Books(k, chain, text), Bytes(k, chain), NEW q \in Queues,
           NEW b \in Nat, NEW m, Resized(k.que[q], b, m), NEW k2, k2 = [k EXCEPT !.que[q] = m]
    PROVE  ResizedTables(k, chain, text, q, m, k2)
<1>1. k \in Kit /\ Pool(k.map, text) /\ m \in Queue
  BY DEF Books, Resized
<1>2. /\ k2.que = [k.que EXCEPT ![q] = m] /\ k2.hdr = k.hdr /\ k2.fp = k.fp /\ k2.map = k.map
      /\ k2.ev = k.ev
      /\ k2 = [que |-> k2.que, hdr |-> k2.hdr, fp |-> k2.fp, map |-> k2.map, ev |-> k2.ev]
  BY <1>1 DEF Kit
<1>3. k2.que[q] = m /\ \A r \in Queues : r # q => k2.que[r] = k.que[r]
  BY <1>1, <1>2, KitIs
<1>4. k2 \in Kit
  <2>1. /\ k.que \in [Queues -> Queue] /\ k.hdr \in [Headers -> Header] /\ k.fp \in Ptr
        /\ k.map \in Map /\ k.ev \in SUBSET Channels
    BY <1>1, KitIs
  <2>2. k2.que \in [Queues -> Queue]
    BY <1>1, <1>2, <2>1
  <2>3. QED
    BY <1>2, <2>1, <2>2, Zenon DEF Kit
<1>5. Alike(k, k2)
  BY <1>3 DEF Alike, Resized
<1>6. Books(k2, chain, text)
  BY <1>1, <1>2, <1>4, <1>5, BooksKept
<1>7. Bytes(k2, chain)
  BY <1>2, <1>3 DEF Bytes, Resized
<1>8. QED
  BY <1>2, <1>3, <1>6, <1>7 DEF ResizedTables

\* and the step: a writer may be left asleep beside room, and that is noted.
LEMMA CtlSetDoneKeeps ==
    ASSUME Inv, NEW p \in Procs, CtlSetDone(p)
    PROVE  Inv'
<1>1. PICK a : a = args[p]
  OBVIOUS
<1>2. pc[p] = "copy:set" /\ pc[p] \in Copies /\ pc[p] # "copy:text"
  BY DEF CtlSetDone, Copies
<1>3. a \in Args /\ a.op = "set" /\ Alone(p, a.id.q) /\ a.id.q \in Queues /\ a.qbytes \in Nat
  BY <1>1, <1>2, LockMine, ArgsIs DEF Suits
<1>4. Places /\ Inside
  BY DEF Inv
<1>5. PICK chain, text : Ledger(chain, text)
  BY DEF Inv
<1>6. /\ Books(Tables, chain, text) /\ Bytes(Tables, chain) /\ Hands(chain, text) /\ Tables \in Kit
      /\ \A r \in Procs : OutAt(r, chain) /\ Asleep(r, chain)
  BY <1>5 DEF Ledger, Books
<1>7. PICK t : t = Tables
  OBVIOUS
<1>8. t.que = que /\ t.hdr = hdr /\ t.fp = msgfp /\ t.map = msgmap /\ t.ev = {} /\ t \in Kit
  BY <1>6, <1>7 DEF Tables
<1>9. PICK m : m = [t.que[a.id.q] EXCEPT !.qbytes = a.qbytes]
  OBVIOUS
<1>10. t.que[a.id.q] \in Queue
  BY <1>3, <1>8, KitIs
<1>11. Resized(t.que[a.id.q], a.qbytes, m)
  BY <1>3, <1>9, <1>10, ResizeIs
<1>12. PICK k : k = [t EXCEPT !.que[a.id.q] = m]
  OBVIOUS
<1>13. /\ Books(k, chain, text) /\ Bytes(k, chain)
       /\ k.hdr = hdr /\ k.fp = msgfp /\ k.map = msgmap /\ k.ev = {}
       /\ k.que[a.id.q] = m /\ \A r \in Queues : r # a.id.q => k.que[r] = que[r]
  <2>1. Books(t, chain, text) /\ Bytes(t, chain)
    BY <1>6, <1>7
  <2>2. ResizedTables(t, chain, text, a.id.q, m, k)
    BY <1>3, <1>11, <1>12, <2>1, ResizeBooks
  <2>3. QED
    BY <1>8, <2>2 DEF ResizedTables
<1>14. que' = k.que
  <2>1. que \in [Queues -> Queue]
    BY <1>8, KitIs
  <2>2. que' = [que EXCEPT ![a.id.q] = m]
    BY <1>1, <1>8, <1>9, <2>1 DEF CtlSetDone
  <2>3. k.que = [que EXCEPT ![a.id.q] = m]
    BY <1>8, <1>12 DEF Kit
  <2>4. QED
    BY <2>2, <2>3
<1>15. PICK ev : ev = {<<"lock", a.id.q>>}
  OBVIOUS
<1>16. ev \in SUBSET Channels
  BY <1>3, <1>15 DEF Channels, Lists
<1>17. \A r \in Queues : raised'[r] <=> raised[r] \/ (r = a.id.q /\ a.qbytes > que[r].qbytes)
  BY <1>1, <1>3, <1>4 DEF CtlSetDone, Places
<1>18. raised' \in [Queues -> BOOLEAN]
  <2>1. raised' = [raised EXCEPT ![a.id.q] = @ \/ a.qbytes > que[a.id.q].qbytes]
    BY <1>1 DEF CtlSetDone
  <2>2. raised \in [Queues -> BOOLEAN]
    BY <1>4 DEF Places
  <2>3. (raised[a.id.q] \/ a.qbytes > que[a.id.q].qbytes) \in BOOLEAN
    OBVIOUS
  <2>4. QED
    BY <2>1, <2>2, <2>3
<1>19. Moved(p, a, k, ev, "user")
  <2>1. ("user" \in Copies) = FALSE
    BY DEF Copies
  <2>2. lock' = [lock EXCEPT ![a.id.q] = FALSE]
    BY <1>1 DEF CtlSetDone
  <2>3. lock' = [lock EXCEPT ![a.id.q] = "user" \in Copies]
    BY <2>1, <2>2, Zenon
  <2>4. pc' = wakeprocs(ev, p, "user") /\ args' = [args EXCEPT ![p] = NULL]
        /\ hdr' = hdr /\ msgfp' = msgfp /\ msgmap' = msgmap /\ mine' = mine
    BY <1>1, <1>15 DEF CtlSetDone, Return
  <2>5. args' = [args EXCEPT ![p] = IF "user" = "user" THEN NULL ELSE a]
    BY <2>4
  <2>6. mine' \in MineType /\ \A r \in Procs : r # p => mine'[r] = mine[r]
    BY <1>4, <2>4 DEF Places
  <2>7. QED
    BY <1>13, <1>14, <1>18, <2>3, <2>4, <2>5, <2>6 DEF Moved
<1>20. Enters(p, a, k, ev, "user")
  BY <1>1, <1>3, <1>13, <1>15, <1>16 DEF Enters, PC, Suits, Copies
<1>21. Places' /\ Inside'
  BY <1>4, <1>19, <1>20, InsideKept
<1>22. Books(Tables, chain, text)'
  BY <1>13, <1>19, BooksNow
<1>23. Bytes(Tables, chain)'
  <2>1. PICK u : u = Tables'
    OBVIOUS
  <2>2. u.que = k.que /\ u.hdr = k.hdr
    BY <1>13, <1>14, <2>1 DEF Tables, CtlSetDone
  <2>3. Bytes(u, chain)
    BY <1>13, <2>2 DEF Bytes
  <2>4. QED
    BY <2>1, <2>3 DEF Bytes
<1>24. Handed(p, a, "user", chain, text, chain, text)
  <2>1. Steady(chain, text, chain, text)
    BY DEF Steady
  <2>2. QED
    BY <1>2, <2>1, NobodyHands
<1>25. Hands(chain, text)'
  BY <1>4, <1>6, <1>19, <1>20, <1>24, HandsNow
<1>26. /\ pc'[p] = "user"
       /\ \A r \in Procs : r # p =>
             /\ \/ pc'[r] = pc[r] /\ Chan(r) \notin ev
                \/ pc[r] \in Waits \cup LockSleep /\ pc'[r] \in Conv
             /\ args'[r] = args[r]
       /\ \A q \in Queues : q # a.id.q => lock'[q] = lock[q]
  BY <1>4, <1>19, <1>20, OthersAre
<1>27. ASSUME NEW r \in Procs PROVE OutAt(r, chain)'
  <2>1. CASE r = p
    BY <1>26, <2>1 DEF OutAt
  <2>2. CASE r # p
    BY <1>4, <1>6, <1>19, <1>20, <2>2, OutNow, SMTT(40)
  <2>3. QED
    BY <2>1, <2>2
<1>28. /\ \A q \in Queues : /\ que'[q].alloc = que[q].alloc /\ que'[q].seq = que[q].seq
                            /\ que'[q].rwait = que[q].rwait /\ que'[q].wwait = que[q].wwait
                            /\ que'[q].cbytes = que[q].cbytes
                            /\ que'[q].qbytes = que[q].qbytes \/ que'[q].qbytes < que[q].qbytes \/ raised'[q]
       /\ hdr' = hdr /\ msgfp' = msgfp /\ msgmap' = msgmap
  <2>1. ASSUME NEW q \in Queues
        PROVE  /\ que'[q].alloc = que[q].alloc /\ que'[q].seq = que[q].seq
               /\ que'[q].rwait = que[q].rwait /\ que'[q].wwait = que[q].wwait
               /\ que'[q].cbytes = que[q].cbytes
               /\ que'[q].qbytes = que[q].qbytes \/ que'[q].qbytes < que[q].qbytes \/ raised'[q]
    <3>1. CASE q # a.id.q
      BY <1>13, <1>14, <3>1
    <3>2. CASE q = a.id.q
      <4>1. Resized(que[q], a.qbytes, que'[q])
        BY <1>8, <1>11, <1>13, <1>14, <3>2
      <4>2. que[q].qbytes \in Nat
        BY <1>8, <1>10, <3>2, QueueIs
      <4>3. QED
        BY <1>3, <1>17, <3>2, <4>1, <4>2 DEF Resized
    <3>3. QED
      BY <3>1, <3>2
  <2>2. QED
    BY <2>1 DEF CtlSetDone
<1>29. ASSUME NEW r \in Procs PROVE Asleep(r, chain)'
  <2>1. CASE r = p
    BY <1>26, <2>1 DEF Asleep, LockSleep
  <2>2. CASE pc'[r] \in Conv
    BY <2>2 DEF Asleep, Conv, LockSleep
  <2>3. CASE r # p /\ pc'[r] = pc[r] /\ Chan(r) \notin ev /\ pc[r] \in Waits \cup LockSleep
    <3>1. args[r] \in Args /\ Suits(pc[r], args[r]) /\ args'[r] = args[r]
      BY <1>4, <1>26, <2>3 DEF Inside, Waits, LockSleep
    <3>2. args[r].id.q \in Queues
      BY <3>1, ArgsIs
    <3>3. Valid(args[r].id)' <=> Valid(args[r].id)
      BY <1>28, <3>1, <3>2 DEF Valid
    <3>4. CASE pc[r] = "wwait"
      <4>1. /\ Valid(args[r].id) /\ que[args[r].id.q].wwait
            /\ NoSpace(args[r].id.q, args[r].cnt) \/ raised[args[r].id.q]
        BY <1>6, <3>4 DEF Asleep
      <4>2. CASE raised'[args[r].id.q]
        BY <1>28, <2>3, <3>1, <3>2, <3>3, <3>4, <4>1, <4>2 DEF Asleep, LockSleep
      <4>3. CASE ~raised'[args[r].id.q]
        <5>1. NoSpace(args[r].id.q, args[r].cnt) /\ que'[args[r].id.q].cbytes = que[args[r].id.q].cbytes
              /\ (que'[args[r].id.q].qbytes = que[args[r].id.q].qbytes
                  \/ que'[args[r].id.q].qbytes < que[args[r].id.q].qbytes)
          BY <1>17, <1>28, <3>2, <4>1, <4>3
        <5>2. args[r].cnt \in Nat
          BY <3>1, <3>4, ArgsIs DEF Suits
        <5>3. que[args[r].id.q] \in Queue /\ que'[args[r].id.q] \in Queue
          BY <1>8, <1>13, <1>14, <3>2, KitIs DEF Books
        <5>4. /\ que[args[r].id.q].cbytes \in Int /\ que[args[r].id.q].qbytes \in Nat
              /\ que'[args[r].id.q].qbytes \in Nat
          BY <5>3, QueueIs
        <5>5. args[r].cnt + que'[args[r].id.q].cbytes > que'[args[r].id.q].qbytes
          BY <5>1, <5>2, <5>4 DEF NoSpace
        <5>6. QED
          BY <1>28, <2>3, <3>1, <3>2, <3>3, <3>4, <4>1, <5>5 DEF Asleep, LockSleep, NoSpace
      <4>4. QED
        BY <4>2, <4>3
    <3>5. CASE pc[r] \in LockSleep
      <4>1. args[r].id.q # a.id.q
        BY <1>15, <2>3, <3>5 DEF Chan, LockSleep
      <4>2. lock[args[r].id.q]
        BY <1>6, <3>5 DEF Asleep
      <4>3. lock'[args'[r].id.q]
        BY <1>26, <3>1, <3>2, <4>1, <4>2
      <4>4. QED
        BY <2>3, <3>5, <4>3 DEF Asleep, LockSleep
    <3>6. CASE pc[r] \in {"rwait", "hwait", "mwait"}
      BY <1>6, <1>28, <2>3, <3>1, <3>2, <3>3, <3>6 DEF Asleep, LockSleep, Fits, btoq
    <3>7. QED
      BY <2>3, <3>4, <3>5, <3>6 DEF Waits
  <2>4. CASE pc'[r] = pc[r] /\ pc[r] \notin Waits \cup LockSleep
    BY <2>4 DEF Asleep, Waits
  <2>5. QED
    BY <1>26, <2>1, <2>2, <2>3, <2>4
<1>30. Ledger(chain, text)'
  BY <1>22, <1>23, <1>25, <1>27, <1>29 DEF Ledger
<1>31. QED
  BY <1>21, <1>30 DEF Inv

\* Leaving, a process keeps nothing.
LEMMA NoMineType ==
    ASSUME Places, NEW p \in Procs, mine' = [mine EXCEPT ![p] = NoMine]
    PROVE  mine' \in MineType /\ \A r \in Procs : r # p => mine'[r] = mine[r]
<1>1. NoMine \in [h : Ptr, pmp : Ptr, addr : Nat] /\ mine \in MineType
  BY DEF NoMine, Ptr, Places
<1>2. QED
  BY <1>1 DEF MineType

\* msgrcv() ends: the message it copied is found again and freed.
LEMMA RcvOutKeeps ==
    ASSUME Inv, NEW p \in Procs, RcvOut(p)
    PROVE  Inv'
<1>1. PICK a : a = args[p]
  OBVIOUS
<1>2. pc[p] = "copy:out" /\ pc[p] \in Copies /\ pc[p] # "copy:text" /\ mine' = [mine EXCEPT ![p] = NoMine]
  BY DEF RcvOut, Copies
<1>3. a \in Args /\ (a.op = "rmid" => a.id.seq < MaxSeq) /\ Alone(p, a.id.q) /\ a.id.q \in Queues
  BY <1>1, <1>2, LockMine, ArgsIs DEF Suits
<1>4. PICK chain, text : Ledger(chain, text)
  BY DEF Inv
<1>5. Books(Tables, chain, text) /\ Bytes(Tables, chain) /\ OutAt(p, chain) /\ Tables \in Kit
  BY <1>4 DEF Ledger, Books
<1>6. PICK i \in 1 .. Len(chain[a.id.q]) :
         /\ mine[p].h = chain[a.id.q][i]
         /\ mine[p].pmp = IF i = 1 THEN NULL ELSE chain[a.id.q][i - 1]
  BY <1>1, <1>2, <1>5 DEF OutAt
<1>7. PICK t : t = Tables
  OBVIOUS
<1>8. t.que = que /\ t.hdr = hdr /\ Books(t, chain, text) /\ Bytes(t, chain) /\ t \in Kit
  BY <1>5, <1>7 DEF Tables
<1>9. PICK less : less = [t.que[a.id.q] EXCEPT !.cbytes = @ - t.hdr[chain[a.id.q][i]].ts]
  OBVIOUS
<1>10. PICK k1 : k1 = [t EXCEPT !.que[a.id.q] = less]
  OBVIOUS
<1>11. Lessened(t, chain, text, a.id.q, i, k1)
  BY <1>3, <1>8, <1>9, <1>10, LessIs
<1>12. PICK pmp : pmp = mine[p].pmp
  OBVIOUS
<1>13. PICK k2 : k2 = msgfree(k1, a.id.q, pmp, chain[a.id.q][i])
  OBVIOUS
<1>14. \E chain2, text2 :
          Moves(t, chain, text, a.id.q, k2, chain2, text2) /\ Steady(chain, text, chain2, text2)
  BY <1>3, <1>6, <1>8, <1>11, <1>12, <1>13, ReceivedIs
<1>15. PICK chain2, text2 :
          Moves(Tables, chain, text, a.id.q, k2, chain2, text2) /\ Steady(chain, text, chain2, text2)
  BY <1>7, <1>14
<1>16. k1 = [Tables EXCEPT !.que[a.id.q].cbytes = @ - hdr[mine[p].h].ts]
  BY <1>6, <1>7, <1>8, <1>9, <1>10, SMTT(40)
<1>17. Release(p, a, k2, "user")
  BY <1>1, <1>6, <1>12, <1>13, <1>16, Zenon DEF RcvOut
<1>18. Handed(p, a, "user", chain, text, chain2, text2)
  BY <1>2, <1>15, NobodyHands
<1>19. mine' \in MineType /\ \A r \in Procs : r # p => mine'[r] = mine[r]
  BY <1>2, NoMineType DEF Inv
<1>20. Suits("user", a) /\ "user" \notin Waits
  BY <1>3 DEF Suits, Waits
<1>21. QED
  BY <1>1, <1>3, <1>4, <1>15, <1>17, <1>18, <1>19, <1>20, ReleaseKeeps

\* msgsnd() ends: the message goes on the queue.
LEMMA SndTextKeeps ==
    ASSUME Inv, NEW p \in Procs, SndText(p)
    PROVE  Inv'
<1>1. PICK a : a = args[p]
  OBVIOUS
<1>2. pc[p] = "copy:text" /\ pc[p] \in Copies /\ mine' = [mine EXCEPT ![p] = NoMine]
  BY DEF SndText, Copies
<1>3. a \in Args /\ a.op = "snd" /\ Alone(p, a.id.q) /\ a.id.q \in Queues /\ a.cnt \in Nat /\ a.type \in Nat
  BY <1>1, <1>2, LockMine, ArgsIs DEF Suits
<1>4. PICK chain, text : Ledger(chain, text)
  BY DEF Inv
<1>5. Books(Tables, chain, text) /\ Bytes(Tables, chain) /\ Hands(chain, text) /\ Tables \in Kit
  BY <1>4 DEF Ledger, Books
<1>6. PICK h : h = mine[p].h
  OBVIOUS
<1>7. /\ h \in Headers /\ Out(chain, h)
      /\ text[h] = [addr |-> mine[p].addr, size |-> btoq(a.cnt)]
  BY <1>1, <1>2, <1>5, <1>6 DEF Hands, SendAt
<1>8. mine[p].addr \in Nat
  BY DEF Inv, Places, MineType
<1>9. PICK full : full = [next |-> NULL, type |-> a.type, ts |-> a.cnt, addr |-> mine[p].addr]
  OBVIOUS
<1>10. full \in Header /\ full.next = NULL /\ full.ts = a.cnt /\ full.addr = mine[p].addr
  BY <1>3, <1>8, <1>9 DEF Header, Ptr
<1>11. text[h] = [addr |-> full.addr, size |-> btoq(full.ts)]
  BY <1>7, <1>10
<1>12. PICK t : t = Tables
  OBVIOUS
<1>13. t.que = que /\ t.hdr = hdr /\ Books(t, chain, text) /\ Bytes(t, chain) /\ t \in Kit
  BY <1>5, <1>12 DEF Tables
<1>14. t.que[a.id.q].alloc
  BY <1>1, <1>2, <1>13 DEF Inv, Inside, Valid
<1>15. PICK more : more = [t.que[a.id.q] EXCEPT !.qnum = @ + 1, !.cbytes = @ + full.ts]
  OBVIOUS
<1>16. PICK k1 : k1 = [t EXCEPT !.que[a.id.q] = more, !.hdr[h] = full]
  OBVIOUS
<1>17. PICK k2 : k2 = WakeReaders(Linked(k1, a.id.q, h), a.id.q)
  OBVIOUS
<1>18. PICK chain2 : chain2 = [chain EXCEPT ![a.id.q] = Append(chain[a.id.q], h)]
  OBVIOUS
<1>19. Sent(t, chain, text, a.id.q, h, full.ts, k2, chain2)
  BY <1>3, <1>7, <1>10, <1>11, <1>13, <1>14, <1>15, <1>16, <1>17, <1>18, SendIs, ZenonT(60)
<1>20. Sent(t, chain, text, a.id.q, h, a.cnt, k2, chain2)
  BY <1>10, <1>19
<1>21. Moves(t, chain, text, a.id.q, k2, chain2, text)
  BY <1>3, <1>7, <1>13, <1>20, SentMoves
<1>22. Moves(Tables, chain, text, a.id.q, k2, chain2, text)
  BY <1>12, <1>21
<1>23. Release(p, a, k2, "user")
  BY <1>1, <1>6, <1>9, <1>10, <1>12, <1>13, <1>15, <1>16, <1>17, Zenon DEF SndText
<1>24. Handed(p, a, "user", chain, text, chain2, text)
  BY <1>2, <1>6, <1>20 DEF Handed, Sent
<1>25. mine' \in MineType /\ \A r \in Procs : r # p => mine'[r] = mine[r]
  BY <1>2, NoMineType DEF Inv
<1>26. Suits("user", a) /\ "user" \notin Waits
  BY <1>3 DEF Suits, Waits
<1>27. QED
  BY <1>1, <1>3, <1>4, <1>22, <1>23, <1>24, <1>25, <1>26, ReleaseKeeps

\* The copy of the text faults: header and text go back.
LEMMA SndFaultKeeps ==
    ASSUME Inv, NEW p \in Procs, SndFault(p)
    PROVE  Inv'
<1>1. PICK a : a = args[p]
  OBVIOUS
<1>2. /\ pc[p] = "copy:text" /\ pc[p] \in Copies /\ mine' = [mine EXCEPT ![p] = NoMine] /\ a.cnt # 0
  BY <1>1 DEF SndFault, Copies
<1>3. a \in Args /\ a.op = "snd" /\ Alone(p, a.id.q) /\ a.id.q \in Queues /\ a.cnt \in Nat
  BY <1>1, <1>2, LockMine, ArgsIs DEF Suits
<1>4. PICK chain, text : Ledger(chain, text)
  BY DEF Inv
<1>5. Books(Tables, chain, text) /\ Bytes(Tables, chain) /\ Hands(chain, text) /\ Tables \in Kit
  BY <1>4 DEF Ledger, Books
<1>6. PICK h : h = mine[p].h
  OBVIOUS
<1>7. /\ h \in Headers /\ Out(chain, h)
      /\ text[h] = [addr |-> mine[p].addr, size |-> btoq(a.cnt)]
  BY <1>1, <1>2, <1>5, <1>6 DEF Hands, SendAt
<1>8. text[h].size = btoq(a.cnt) /\ text[h].addr = mine[p].addr
  BY <1>7
<1>9. text[h].size > 0
  BY <1>2, <1>3, <1>8, UnitsIs
<1>10. PICK t : t = Tables
  OBVIOUS
<1>11. Books(t, chain, text) /\ Bytes(t, chain)
  BY <1>5, <1>10
<1>12. PICK k1 : k1 = FreeText(t, text[h].size, text[h].addr)
  OBVIOUS
<1>13. PICK k2 : k2 = FreeHeader(k1, h)
  OBVIOUS
<1>14. \E chain2, text2 :
          /\ Moves(t, chain, text, a.id.q, k2, chain2, text2)
          /\ \A g \in Headers : Out(chain2, g) <=> Out(chain, g) /\ g # h
          /\ \A g \in Headers : g # h => text2[g] = text[g]
  BY <1>3, <1>7, <1>9, <1>11, <1>12, <1>13, FaultIs
<1>15. PICK chain2, text2 :
          /\ Moves(Tables, chain, text, a.id.q, k2, chain2, text2)
          /\ \A g \in Headers : Out(chain2, g) <=> Out(chain, g) /\ g # h
          /\ \A g \in Headers : g # h => text2[g] = text[g]
  BY <1>10, <1>14
<1>16. Release(p, a, k2, "user")
  BY <1>1, <1>6, <1>8, <1>10, <1>12, <1>13 DEF SndFault
<1>17. Handed(p, a, "user", chain, text, chain2, text2)
  BY <1>2, <1>6, <1>15 DEF Handed
<1>18. mine' \in MineType /\ \A r \in Procs : r # p => mine'[r] = mine[r]
  BY <1>2, NoMineType DEF Inv
<1>19. Suits("user", a) /\ "user" \notin Waits
  BY <1>3 DEF Suits, Waits
<1>20. QED
  BY <1>1, <1>3, <1>4, <1>15, <1>16, <1>17, <1>18, <1>19, ReleaseKeeps

\* Choice() finds a message if there is one that is wanted.
LEMMA ChoiceIs ==
    ASSUME NEW c \in Seq(Headers), hdr \in [Headers -> Header], NEW t \in Int
    PROVE  /\ Choice(c, t) \in 0 .. Len(c)
           /\ Choice(c, t) = 0 <=> \A i \in 1 .. Len(c) : ~Wanted(t, hdr[c[i]].type)
<1> DEFINE ok == {i \in DOMAIN c : Wanted(t, hdr[c[i]].type)}
           best == {i \in ok : t < 0 => \A j \in ok : hdr[c[i]].type <= hdr[c[j]].type}
<1>1. Choice(c, t) = IF ok = {} THEN 0 ELSE First(best)
  BY DEF Choice, Wanted
<1>2. ok \subseteq 1 .. Len(c) /\ best \subseteq ok /\ ok \subseteq Nat
  OBVIOUS
<1>3. \A i \in ok : hdr[c[i]].type \in Nat
  BY HeaderIs
<1>4. ASSUME ok # {} PROVE best # {}
  <2>1. CASE ~(t < 0)
    BY <1>4, <2>1
  <2>2. CASE t < 0
    <3>1. PICK T : T = {hdr[c[i]].type : i \in ok}
      OBVIOUS
    <3>2. T \subseteq Nat /\ T # {}
      BY <1>3, <1>4, <3>1
    <3>3. First(T) \in T /\ \A m \in T : First(T) <= m
      BY <3>2, FirstIs
    <3>4. PICK i \in ok : hdr[c[i]].type = First(T)
      BY <3>1, <3>3
    <3>5. \A j \in ok : hdr[c[i]].type <= hdr[c[j]].type
      BY <3>1, <3>3, <3>4
    <3>6. i \in best
      BY <3>5
    <3>7. QED
      BY <3>6
  <2>3. QED
    BY <2>1, <2>2
<1>5. ok = {} <=> \A i \in 1 .. Len(c) : ~Wanted(t, hdr[c[i]].type)
  OBVIOUS
<1>6. CASE ok = {}
  BY <1>1, <1>5, <1>6
<1>7. CASE ok # {}
  <2>1. best # {} /\ best \subseteq Nat
    BY <1>2, <1>4, <1>7
  <2>2. First(best) \in best
    BY <2>1, FirstIs
  <2>3. First(best) \in 1 .. Len(c)
    BY <1>2, <2>2
  <2>4. QED
    BY <1>1, <1>5, <1>7, <2>3
<1>8. QED
  BY <1>6, <1>7

\* What Release() does to p.
LEMMA ReleaseIs ==
    ASSUME Places, NEW p \in Procs, NEW a, NEW k, NEW place, place # "user", Release(p, a, k, place)
    PROVE  pc'[p] = place /\ args'[p] = a /\ que' = k.que /\ hdr' = k.hdr /\ msgfp' = k.fp /\ msgmap' = k.map
BY DEF Release, wakeprocs, Places

\* msgrcv() looks for a message: it copies one, waits, or has none.
LEMMA RcvFindKeeps ==
    ASSUME Inv, NEW p \in Procs, NEW a \in Args, a.op = "rcv", pc[p] \notin Copies,
           ~lock[a.id.q], Valid(a.id), RcvFind(p, a)
    PROVE  Inv'
<1>1. pc[p] # "copy:text" /\ Alone(p, a.id.q) /\ a.id.q \in Queues /\ a.typ \in Int
  BY LockFree, ArgsIs DEF Copies
<1>2. PICK chain, text : Ledger(chain, text)
  BY DEF Inv
<1>3. Books(Tables, chain, text) /\ Bytes(Tables, chain) /\ Tables \in Kit
  BY <1>2 DEF Ledger, Books
<1>4. PICK t : t = Tables
  OBVIOUS
<1>5. t.que = que /\ t.hdr = hdr /\ t.ev = {} /\ Books(t, chain, text) /\ Bytes(t, chain) /\ t \in Kit
      /\ t.fp = msgfp /\ t.map = msgmap
  BY <1>3, <1>4 DEF Tables
<1>6. PICK c : c = chain[a.id.q]
  OBVIOUS
<1>7. Chain(Tables, a.id.q) = c
  <2>1. Run(t.hdr, t.que[a.id.q].first, c)
    BY <1>1, <1>5, <1>6 DEF Books
  <2>2. Chain(t, a.id.q) = c
    BY <2>1, ChainIs
  <2>3. QED
    BY <1>4, <2>2
<1>8. c \in Seq(Headers) /\ hdr \in [Headers -> Header]
  BY <1>1, <1>5, <1>6, KitIs DEF Books, Filled, Lists
<1>9. PICK i : i = Choice(c, a.typ)
  OBVIOUS
<1>10. i \in 0 .. Len(c) /\ (i = 0 <=> \A j \in 1 .. Len(c) : ~Wanted(a.typ, hdr[c[j]].type))
  BY <1>1, <1>8, <1>9, ChoiceIs
<1>11. Steady(chain, text, chain, text)
  BY DEF Steady
<1>12. CASE i # 0
  <2>1. PICK mn : mn = [h |-> c[i], addr |-> 0, pmp |-> IF i = 1 THEN NULL ELSE c[i - 1]]
    OBVIOUS
  <2>2. /\ mine' = [mine EXCEPT ![p] = mn] /\ Copy(p, a, {}, "copy:out")
        /\ UNCHANGED <<que, hdr, msgfp, msgmap, raised>>
    BY <1>7, <1>9, <1>12, <2>1 DEF RcvFind
  <2>3. i \in 1 .. Len(c)
    BY <1>10, <1>12
  <2>4. mn.h = c[i] /\ mn.addr = 0 /\ mn.pmp = (IF i = 1 THEN NULL ELSE c[i - 1])
        /\ mn = [h |-> mn.h, pmp |-> mn.pmp, addr |-> mn.addr]
    BY <2>1
  <2>5. mn.h \in Ptr /\ mn.pmp \in Ptr
    BY <1>8, <2>3, <2>4 DEF Ptr
  <2>6. mn \in [h : Ptr, pmp : Ptr, addr : Nat]
    BY <2>4, <2>5
  <2>7. mine' \in MineType /\ mine'[p] = mn /\ \A r \in Procs : r # p => mine'[r] = mine[r]
    BY <2>2, <2>6 DEF Inv, Places, MineType
  <2>8. "copy:out" \in Copies /\ Suits("copy:out", a)
    BY DEF Copies, Suits
  <2>9. Handed(p, a, "copy:out", chain, text, chain, text)
    BY <1>1, <1>11, NobodyHands
  <2>10. pc'[p] = "copy:out" /\ args'[p] = a
    BY <2>2 DEF Copy, wakeprocs, Inv, Places
  <2>11. OutAt(p, chain)'
    BY <1>6, <2>3, <2>4, <2>7, <2>10 DEF OutAt
  <2>12. Moves(Tables, chain, text, a.id.q, t, chain, text)
    BY <1>1, <1>3, <1>4, StaysIs
  <2>13. que' = t.que /\ hdr' = t.hdr /\ msgfp' = t.fp /\ msgmap' = t.map /\ t.ev = {} /\ raised' = raised
         /\ t.que[a.id.q].alloc /\ t.que[a.id.q].seq = a.id.seq
    BY <1>5, <2>2 DEF Valid
  <2>14. PICK ev : ev = {}
    OBVIOUS
  <2>15. ev \subseteq {<<"lock", a.id.q>>} /\ Copy(p, a, ev, "copy:out")
    BY <2>2, <2>14
  <2>16. QED
    BY <1>1, <1>2, <2>7, <2>8, <2>9, <2>11, <2>12, <2>13, <2>15, CopyKeeps
<1>13. CASE i = 0 /\ a.nowait
  <2>1. Release(p, a, Tables, "user") /\ mine' = mine
    BY <1>7, <1>9, <1>13 DEF RcvFind
  <2>2. QED
    BY <1>1, <2>1, GiveUp
<1>14. CASE i = 0 /\ ~a.nowait
  <2>1. PICK k : k = [Tables EXCEPT !.que[a.id.q].rwait = TRUE]
    OBVIOUS
  <2>2. Release(p, a, k, "rwait") /\ mine' = mine
    BY <1>7, <1>9, <1>14, <2>1 DEF RcvFind
  <2>3. PICK m0 : m0 = t.que[a.id.q]
    OBVIOUS
  <2>4. m0 \in Queue /\ m0.wwait \in BOOLEAN
    BY <1>1, <1>5, <2>3, KitIs, QueueIs
  <2>5. PICK m : m = [m0 EXCEPT !.rwait = TRUE, !.wwait = m0.wwait]
    OBVIOUS
  <2>6. m = [m0 EXCEPT !.rwait = TRUE]
    BY <2>4, <2>5 DEF Queue
  <2>7. TRUE \in BOOLEAN
    OBVIOUS
  <2>8. Flagged(m0, TRUE, m0.wwait, m)
    BY <2>4, <2>5, <2>7, FlagSet, Zenon
  <2>9. /\ m \in Queue /\ m.rwait = TRUE /\ m.wwait = m0.wwait
        /\ m.first = m0.first /\ m.last = m0.last /\ m.qnum = m0.qnum
        /\ m.alloc = m0.alloc /\ m.seq = m0.seq /\ m.cbytes = m0.cbytes /\ m.qbytes = m0.qbytes
    BY <2>8 DEF Flagged
  <2>10. PICK ev : ev = {}
    OBVIOUS
  <2>11. ev \in SUBSET Channels /\ t.ev \subseteq ev
    BY <1>5, <2>10
  <2>12. k = [t EXCEPT !.que[a.id.q] = m, !.ev = ev]
    <3>1. k = [t EXCEPT !.que[a.id.q] = m]
      BY <1>4, <2>1, <2>3, <2>6
    <3>2. QED
      BY <1>5, <2>10, <3>1 DEF Kit
  <2>13. Moves(t, chain, text, a.id.q, k, chain, text)
    BY <1>1, <1>5, <2>3, <2>9, <2>11, <2>12, FlagIs, Zenon
  <2>14. Moves(Tables, chain, text, a.id.q, k, chain, text)
    BY <1>4, <2>13
  <2>15. Handed(p, a, "rwait", chain, text, chain, text)
    BY <1>1, <1>11, NobodyHands
  <2>16. mine' \in MineType /\ \A r \in Procs : r # p => mine'[r] = mine[r]
    BY <2>2 DEF Inv, Places
  <2>17. "rwait" \in Waits /\ "rwait" \notin LockSleep /\ Suits("rwait", a)
    BY DEF Waits, Suits, LockSleep
  <2>18. pc'[p] = "rwait" /\ args'[p] = a /\ que' = k.que /\ hdr' = k.hdr
    BY <2>2, ReleaseIs DEF Inv
  <2>19. k.hdr = hdr /\ k.que[a.id.q] = m
    <3>1. que \in [Queues -> Queue]
      BY <1>5, KitIs
    <3>2. k.hdr = t.hdr /\ k.que = [t.que EXCEPT ![a.id.q] = m]
      BY <1>5, <2>12 DEF Kit
    <3>3. QED
      BY <1>1, <1>5, <3>1, <3>2
  <2>20. Valid(a.id)' /\ que'[a.id.q].rwait
    BY <1>5, <2>3, <2>9, <2>18, <2>19 DEF Valid
  <2>21. \A h \in Headers : Has(chain[a.id.q], h) => ~Wanted(a.typ, hdr'[h].type)
    BY <1>6, <1>10, <1>14, <2>18, <2>19 DEF Has
  <2>22. Asleep(p, chain)'
    BY <2>17, <2>18, <2>20, <2>21 DEF Asleep, Valid
  <2>23. QED
    BY <1>1, <1>2, <2>2, <2>14, <2>15, <2>16, <2>17, <2>22, ReleaseKeeps
<1>15. QED
  BY <1>12, <1>13, <1>14

\* It does so when it enters,
LEMMA RcvFirstKeeps ==
    ASSUME Inv, NEW p \in Procs, RcvFirst(p)
    PROVE  Inv'
<1>1. PICK a \in Calls(p) : Locked(a, "rcv") /\ RcvFind(p, a)
  BY DEF RcvFirst
<1>2. a \in Args /\ pc[p] \in {"user", "conv:first"}
  BY CallsAre
<1>3. pc[p] \notin Copies /\ a.op = "rcv" /\ ~lock[a.id.q] /\ Valid(a.id)
  BY <1>1, <1>2 DEF Locked, Copies
<1>4. QED
  BY <1>1, <1>2, <1>3, RcvFindKeeps

\* and after it has slept.
LEMMA RcvAgainKeeps ==
    ASSUME Inv, NEW p \in Procs, RcvAgain(p)
    PROVE  Inv'
<1>1. PICK a : a = args[p]
  OBVIOUS
<1>2. pc[p] = "conv:again" /\ Locked(a, "rcv") /\ RcvFind(p, a)
  BY <1>1 DEF RcvAgain
<1>3. a \in Args /\ pc[p] \notin Copies
  BY <1>1, <1>2 DEF Inv, Inside, Copies
<1>4. a.op = "rcv" /\ ~lock[a.id.q] /\ Valid(a.id)
  BY <1>2 DEF Locked
<1>5. QED
  BY <1>2, <1>3, <1>4, RcvFindKeeps

\* A sender at getres: it alone has the lock, and the queue is there.
AtGetres(p, a) ==
    /\ p \in Procs /\ a = args[p] /\ a \in Args /\ a.op = "snd" /\ a.id.q \in Queues /\ a.cnt \in Nat
    /\ pc[p] # "copy:text" /\ Alone(p, a.id.q) /\ Valid(a.id)

\* The queue is full.
LEMMA WaitForRoom ==
    ASSUME Inv, NEW p, NEW a, AtGetres(p, a), NoSpace(a.id.q, a.cnt),
           NEW k, k = [Tables EXCEPT !.que[a.id.q].wwait = TRUE],
           Release(p, a, k, "wwait"), mine' = mine
    PROVE  Inv'
<1>1. /\ p \in Procs /\ a = args[p] /\ a \in Args /\ a.op = "snd" /\ a.id.q \in Queues
      /\ pc[p] # "copy:text" /\ Alone(p, a.id.q) /\ Valid(a.id)
  BY DEF AtGetres
<1>2. PICK chain, text : Ledger(chain, text)
  BY DEF Inv
<1>3. Books(Tables, chain, text) /\ Bytes(Tables, chain) /\ Tables \in Kit
  BY <1>2 DEF Ledger, Books
<1>4. PICK t : t = Tables
  OBVIOUS
<1>5. t.que = que /\ t.ev = {} /\ Books(t, chain, text) /\ Bytes(t, chain) /\ t \in Kit
  BY <1>3, <1>4 DEF Tables
<1>6. PICK m0 : m0 = t.que[a.id.q]
  OBVIOUS
<1>7. m0 \in Queue /\ m0.rwait \in BOOLEAN
  BY <1>1, <1>5, <1>6, KitIs, QueueIs
<1>8. PICK m : m = [m0 EXCEPT !.rwait = m0.rwait, !.wwait = TRUE]
  OBVIOUS
<1>9. m = [m0 EXCEPT !.wwait = TRUE]
  BY <1>7, <1>8 DEF Queue
<1>10. TRUE \in BOOLEAN
  OBVIOUS
<1>11. Flagged(m0, m0.rwait, TRUE, m)
  BY <1>7, <1>8, <1>10, FlagSet, Zenon
<1>12. /\ m \in Queue /\ m.rwait = m0.rwait /\ m.wwait = TRUE
       /\ m.first = m0.first /\ m.last = m0.last /\ m.qnum = m0.qnum
       /\ m.alloc = m0.alloc /\ m.seq = m0.seq /\ m.cbytes = m0.cbytes /\ m.qbytes = m0.qbytes
  BY <1>11 DEF Flagged
<1>13. PICK ev : ev = {}
  OBVIOUS
<1>14. ev \in SUBSET Channels /\ t.ev \subseteq ev
  BY <1>5, <1>13
<1>15. k = [t EXCEPT !.que[a.id.q] = m, !.ev = ev]
  <2>1. k = [t EXCEPT !.que[a.id.q] = m]
    BY <1>4, <1>6, <1>9
  <2>2. QED
    BY <1>5, <1>13, <2>1 DEF Kit
<1>16. Moves(t, chain, text, a.id.q, k, chain, text)
  BY <1>1, <1>5, <1>6, <1>12, <1>14, <1>15, FlagIs, ZenonT(60)
<1>17. Moves(Tables, chain, text, a.id.q, k, chain, text)
  BY <1>4, <1>16
<1>18. Steady(chain, text, chain, text)
  BY DEF Steady
<1>19. Handed(p, a, "wwait", chain, text, chain, text)
  BY <1>1, <1>18, NobodyHands
<1>20. mine' \in MineType /\ \A r \in Procs : r # p => mine'[r] = mine[r]
  BY DEF Inv, Places
<1>21. "wwait" \in Waits /\ "wwait" \notin LockSleep /\ Suits("wwait", a)
  BY <1>1 DEF Waits, Suits, LockSleep
<1>22. pc'[p] = "wwait" /\ args'[p] = a /\ que' = k.que
  <2>1. ASSUME NEW j, Release(p, a, j, "wwait") PROVE pc'[p] = "wwait" /\ args'[p] = a /\ que' = j.que
    BY <1>1, <2>1, ReleaseIs DEF Inv
  <2>2. QED
    BY <2>1
<1>23. k.que[a.id.q] = m
  <2>1. que \in [Queues -> Queue]
    BY <1>5, KitIs
  <2>2. k.que = [t.que EXCEPT ![a.id.q] = m]
    BY <1>5, <1>15, Zenon DEF Kit
  <2>3. QED
    BY <1>1, <1>5, <2>1, <2>2, Zenon
<1>24. Valid(a.id)' /\ que'[a.id.q].wwait
  BY <1>1, <1>5, <1>6, <1>12, <1>22, <1>23, Zenon DEF Valid
<1>25. a.cnt + que'[a.id.q].cbytes > que'[a.id.q].qbytes
  BY <1>5, <1>6, <1>12, <1>22, <1>23 DEF NoSpace
<1>26. Asleep(p, chain)'
  BY <1>21, <1>22, <1>24, <1>25 DEF Asleep, Valid, NoSpace
<1>27. QED
  BY <1>1, <1>2, <1>17, <1>19, <1>20, <1>21, <1>26, ReleaseKeeps

\* There is no header.
LEMMA WaitForHeader ==
    ASSUME Inv, NEW p, NEW a, AtGetres(p, a), msgfp = NULL,
           Release(p, a, Tables, "hwait"), mine' = mine
    PROVE  Inv'
<1>1. /\ p \in Procs /\ a = args[p] /\ a \in Args /\ a.op = "snd" /\ a.id.q \in Queues
      /\ pc[p] # "copy:text" /\ Alone(p, a.id.q)
  BY DEF AtGetres
<1>2. PICK chain, text : Ledger(chain, text)
  BY DEF Inv
<1>3. Books(Tables, chain, text) /\ Bytes(Tables, chain)
  BY <1>2 DEF Ledger
<1>4. Moves(Tables, chain, text, a.id.q, Tables, chain, text) /\ Steady(chain, text, chain, text)
  BY <1>1, <1>3, StaysIs
<1>5. Handed(p, a, "hwait", chain, text, chain, text)
  BY <1>1, <1>4, NobodyHands
<1>6. mine' \in MineType /\ \A r \in Procs : r # p => mine'[r] = mine[r]
  BY DEF Inv, Places
<1>7. "hwait" \in Waits /\ "hwait" \notin LockSleep /\ Suits("hwait", a)
  BY <1>1 DEF Waits, Suits, LockSleep
<1>8. PICK t : t = Tables
  OBVIOUS
<1>9. Release(p, a, t, "hwait") /\ t.fp = NULL
  BY <1>8 DEF Tables
<1>10. pc'[p] = "hwait" /\ msgfp' = NULL
  BY <1>1, <1>9, ReleaseIs DEF Inv
<1>11. Asleep(p, chain)'
  BY <1>7, <1>10 DEF Asleep
<1>12. QED
  BY <1>1, <1>2, <1>4, <1>5, <1>6, <1>7, <1>11, ReleaseKeeps

\* There is no text space: the header goes back.
LEMMA WaitForText ==
    ASSUME Inv, NEW p, NEW a, AtGetres(p, a), msgfp # NULL, a.cnt # 0,
           rmalloc_addr(msgmap, btoq(a.cnt)) = 0,
           NEW back, back = FreeHeader([Tables EXCEPT !.fp = hdr[msgfp].next], msgfp),
           Release(p, a, IF a.nowait THEN back ELSE [back EXCEPT !.map.want = TRUE],
                   IF a.nowait THEN "user" ELSE "mwait"),
           mine' = mine
    PROVE  Inv'
<1>1. /\ p \in Procs /\ a = args[p] /\ a \in Args /\ a.op = "snd" /\ a.id.q \in Queues /\ a.cnt \in Nat
      /\ pc[p] # "copy:text" /\ Alone(p, a.id.q)
  BY DEF AtGetres
<1>2. PICK chain, text : Ledger(chain, text)
  BY DEF Inv
<1>3. Books(Tables, chain, text) /\ Bytes(Tables, chain) /\ Tables \in Kit
  BY <1>2 DEF Ledger, Books
<1>4. PICK t : t = Tables
  OBVIOUS
<1>5. t.hdr = hdr /\ t.fp = msgfp /\ t.map = msgmap /\ Books(t, chain, text) /\ Bytes(t, chain)
  BY <1>3, <1>4 DEF Tables
<1>6. PICK k1 : k1 = [t EXCEPT !.fp = t.hdr[t.fp].next]
  OBVIOUS
<1>7. back = FreeHeader(k1, t.fp)
  BY <1>4, <1>5, <1>6
<1>8. PICK chain2 : Back(t, chain, text, back, chain2)
  BY <1>5, <1>6, <1>7, BackIs
<1>9. back \in Kit /\ back.map = msgmap
  BY <1>5, <1>8 DEF Back, Books
<1>10. back.map \in Map /\ msgmap.want \in BOOLEAN
  BY <1>9, KitIs DEF Map
<1>11. PICK w : w = IF a.nowait THEN msgmap.want ELSE TRUE
  OBVIOUS
<1>12. w \in BOOLEAN /\ (t.map.want => w)
  BY <1>5, <1>10, <1>11
<1>13. PICK k : k = [back EXCEPT !.map.want = w]
  OBVIOUS
<1>14. k = IF a.nowait THEN back ELSE [back EXCEPT !.map.want = TRUE]
  <2>1. CASE a.nowait
    <3>1. msgmap = [msgmap EXCEPT !.want = msgmap.want]
      BY <1>9, <1>10 DEF Map
    <3>2. k = [back EXCEPT !.map = [msgmap EXCEPT !.want = w]]
      BY <1>9, <1>13
    <3>3. k = [back EXCEPT !.map = back.map]
      BY <1>9, <1>11, <2>1, <3>1, <3>2
    <3>4. QED
      BY <1>9, <2>1, <3>3 DEF Kit
  <2>2. CASE ~a.nowait
    BY <1>11, <1>13, <2>2
  <2>3. QED
    BY <2>1, <2>2
<1>15. PICK place : place = IF a.nowait THEN "user" ELSE "mwait"
  OBVIOUS
<1>16. Release(p, a, k, place)
  BY <1>14, <1>15
<1>17. Moves(t, chain, text, a.id.q, k, chain2, text) /\ Steady(chain, text, chain2, text)
  BY <1>1, <1>5, <1>8, <1>12, <1>13, WantIs
<1>18. Moves(Tables, chain, text, a.id.q, k, chain2, text)
  BY <1>4, <1>17
<1>19. place \in {"user"} \cup Waits /\ place # "copy:text" /\ Suits(place, a)
  BY <1>1, <1>15 DEF Waits, Suits
<1>20. Handed(p, a, place, chain, text, chain2, text)
  BY <1>1, <1>17, <1>19, NobodyHands
<1>21. mine' \in MineType /\ \A r \in Procs : r # p => mine'[r] = mine[r]
  BY DEF Inv, Places
<1>22. ASSUME place \in Waits PROVE Asleep(p, chain2)'
  <2>1. place = "mwait" /\ w = TRUE /\ place # "user"
    BY <1>11, <1>15, <1>22 DEF Waits
  <2>2. pc'[p] = "mwait" /\ args'[p] = a /\ msgmap' = k.map
    BY <1>1, <1>16, <2>1, ReleaseIs DEF Inv
  <2>3. k.map = [msgmap EXCEPT !.want = w]
    BY <1>9, <1>13 DEF Kit
  <2>4. k.map.want = w /\ k.map.ext = msgmap.ext
    BY <1>9, <1>10, <2>3 DEF Map
  <2>5. \A s : Fits(k.map, s) = Fits(msgmap, s)
    BY <2>4 DEF Fits
  <2>6. btoq(a.cnt) \in Nat /\ btoq(a.cnt) > 0
    BY <1>1, UnitsIs
  <2>7. Pool(msgmap, text)
    BY <1>5 DEF Books
  <2>8. Fits(msgmap, btoq(a.cnt)) = {}
    BY <2>6, <2>7, AddrZero
  <2>9. msgmap'.want /\ Fits(msgmap', btoq(a.cnt)) = {}
    BY <2>1, <2>2, <2>4, <2>5, <2>8, SMTT(40)
  <2>10. QED
    BY <2>2, <2>9 DEF Asleep, LockSleep, Fits, btoq
<1>23. QED
  BY <1>1, <1>2, <1>16, <1>18, <1>19, <1>20, <1>21, <1>22, ReleaseKeeps

\* A header and text space are there, and the text is copied in.
LEMMA TakeBoth ==
    ASSUME Inv, NEW p, NEW a, AtGetres(p, a), msgfp # NULL,
           NEW addr, addr = rmalloc_addr(msgmap, btoq(a.cnt)), a.cnt = 0 \/ addr # 0,
           mine' = [mine EXCEPT ![p] = [h |-> msgfp, pmp |-> NULL, addr |-> addr]],
           msgfp' = hdr[msgfp].next, msgmap' = rmalloc(msgmap, btoq(a.cnt)),
           NEW ev, ev \subseteq {<<"lock", a.id.q>>}, Copy(p, a, ev, "copy:text"),
           UNCHANGED <<que, hdr, raised>>
    PROVE  Inv'
<1>1. /\ p \in Procs /\ a = args[p] /\ a \in Args /\ a.op = "snd" /\ a.id.q \in Queues /\ a.cnt \in Nat
      /\ pc[p] # "copy:text" /\ Alone(p, a.id.q) /\ Valid(a.id)
  BY DEF AtGetres
<1>2. PICK chain, text : Ledger(chain, text)
  BY DEF Inv
<1>3. Books(Tables, chain, text) /\ Bytes(Tables, chain) /\ Tables \in Kit
  BY <1>2 DEF Ledger, Books
<1>4. PICK t : t = Tables
  OBVIOUS
<1>5. /\ t.que = que /\ t.hdr = hdr /\ t.fp = msgfp /\ t.map = msgmap /\ t.ev = {}
      /\ Books(t, chain, text) /\ Bytes(t, chain) /\ t \in Kit
  BY <1>3, <1>4 DEF Tables
<1>6. PICK size : size = btoq(a.cnt)
  OBVIOUS
<1>7. size \in Nat /\ (size = 0 \/ addr # 0)
  BY <1>1, <1>6, UnitsIs
<1>8. addr = rmalloc_addr(t.map, size) /\ addr \in Nat
  <2>1. Pool(t.map, text) /\ addr = rmalloc_addr(t.map, size)
    BY <1>5, <1>6 DEF Books
  <2>2. QED
    BY <1>7, <2>1, AddrZero
<1>9. PICK k : k = [t EXCEPT !.fp = t.hdr[t.fp].next, !.map = rmalloc(t.map, size)]
  OBVIOUS
<1>10. PICK chain2 : chain2 = [chain EXCEPT ![NULL] = Closed(chain[NULL], 1)]
  OBVIOUS
<1>11. PICK text2 : text2 = [text EXCEPT ![t.fp] = [addr |-> rmalloc_addr(t.map, size), size |-> size]]
  OBVIOUS
<1>12. t.fp # NULL /\ (size = 0 \/ rmalloc_addr(t.map, size) # 0)
  BY <1>5, <1>7, <1>8
<1>13. Got(t, chain, text, size, k, chain2, text2)
  BY <1>5, <1>7, <1>9, <1>10, <1>11, <1>12, GotIs
<1>14. Moves(t, chain, text, a.id.q, k, chain2, text2)
  BY <1>1, <1>5, <1>13, GotMoves
<1>15. Moves(Tables, chain, text, a.id.q, k, chain2, text2)
  BY <1>4, <1>14
<1>16. k.fp = hdr[msgfp].next /\ k.map = rmalloc(msgmap, btoq(a.cnt))
  BY <1>5, <1>6, <1>9 DEF Kit
<1>17. /\ que' = k.que /\ hdr' = k.hdr /\ msgfp' = k.fp /\ msgmap' = k.map /\ k.ev = {} /\ raised' = raised
       /\ k.que[a.id.q].alloc /\ k.que[a.id.q].seq = a.id.seq
  BY <1>1, <1>5, <1>13, <1>16 DEF Got, Valid
<1>18. "copy:text" \in Copies /\ Suits("copy:text", a)
  BY <1>1 DEF Copies, Suits
<1>19. msgfp \in Headers /\ ~Out(chain, msgfp)
  BY <1>5, <1>13 DEF Got
<1>20. PICK mn : mn = [h |-> msgfp, pmp |-> NULL, addr |-> addr]
  OBVIOUS
<1>21. mn \in [h : Ptr, pmp : Ptr, addr : Nat] /\ mn.h = msgfp /\ mn.addr = addr
  BY <1>8, <1>19, <1>20 DEF Ptr
<1>22. mine' \in MineType /\ mine'[p] = mn /\ \A r \in Procs : r # p => mine'[r] = mine[r]
  BY <1>1, <1>20, <1>21 DEF Inv, Places, MineType
<1>23. text2[msgfp] = [addr |-> mn.addr, size |-> size]
  BY <1>5, <1>8, <1>13, <1>21 DEF Got
<1>24. Handed(p, a, "copy:text", chain, text, chain2, text2)
  <2>1. \A g \in Headers : Out(chain2, g) <=> Out(chain, g) \/ g = msgfp
    BY <1>5, <1>13 DEF Got
  <2>2. \A g \in Headers : Out(chain, g) => text2[g] = text[g]
    BY <1>5, <1>13, <1>19 DEF Got
  <2>3. QED
    BY <1>1, <1>6, <1>19, <1>21, <1>22, <1>23, <2>1, <2>2 DEF Handed
<1>25. pc'[p] = "copy:text"
  BY <1>1 DEF Copy, wakeprocs
<1>26. OutAt(p, chain2)'
  BY <1>25 DEF OutAt
<1>27. pc[p] \in Copies => args[p].id.q = a.id.q
  BY <1>1
<1>28. QED
  BY <1>1, <1>2, <1>15, <1>17, <1>18, <1>22, <1>24, <1>26, <1>27, CopyKeeps

\* msgsnd() once the type is known: it waits for room, for a header, for text, or
\* takes both and goes to copy.
LEMMA SndGetresKeeps ==
    ASSUME Inv, NEW p, NEW a, AtGetres(p, a), NEW ev, ev \subseteq {<<"lock", a.id.q>>}, SndGetres(p, ev)
    PROVE  Inv'
<1>1. /\ p \in Procs /\ a = args[p] /\ a \in Args /\ a.op = "snd" /\ a.id.q \in Queues
      /\ pc[p] # "copy:text" /\ Alone(p, a.id.q)
  BY DEF AtGetres
<1>2. PICK addr : addr = rmalloc_addr(msgmap, btoq(a.cnt))
  OBVIOUS
<1>3. PICK back : back = FreeHeader([Tables EXCEPT !.fp = hdr[msgfp].next], msgfp)
  OBVIOUS
<1>4. PICK full : full = [Tables EXCEPT !.que[a.id.q].wwait = TRUE]
  OBVIOUS
<1>5. \/ /\ NoSpace(a.id.q, a.cnt) /\ mine' = mine
         /\ Release(p, a, IF a.nowait THEN Tables ELSE full, IF a.nowait THEN "user" ELSE "wwait")
      \/ /\ msgfp = NULL /\ mine' = mine
         /\ Release(p, a, Tables, IF a.nowait THEN "user" ELSE "hwait")
      \/ /\ msgfp # NULL /\ a.cnt # 0 /\ addr = 0 /\ mine' = mine
         /\ Release(p, a, IF a.nowait THEN back ELSE [back EXCEPT !.map.want = TRUE],
                    IF a.nowait THEN "user" ELSE "mwait")
      \/ /\ msgfp # NULL /\ (a.cnt = 0 \/ addr # 0)
         /\ mine' = [mine EXCEPT ![p] = [h |-> msgfp, pmp |-> NULL, addr |-> addr]]
         /\ msgfp' = hdr[msgfp].next
         /\ msgmap' = rmalloc(msgmap, btoq(a.cnt))
         /\ Copy(p, a, ev, "copy:text")
         /\ UNCHANGED <<que, hdr, raised>>
  BY <1>1, <1>2, <1>3, <1>4 DEF SndGetres
<1>6. ASSUME Release(p, a, Tables, "user"), mine' = mine PROVE Inv'
  BY <1>1, <1>6, GiveUp
<1>7. CASE /\ NoSpace(a.id.q, a.cnt) /\ mine' = mine
           /\ Release(p, a, IF a.nowait THEN Tables ELSE full, IF a.nowait THEN "user" ELSE "wwait")
  <2>1. CASE a.nowait
    BY <1>6, <1>7, <2>1
  <2>2. CASE ~a.nowait
    <3>1. Release(p, a, full, "wwait")
      BY <1>7, <2>2
    <3>2. QED
      BY <1>4, <1>7, <3>1, WaitForRoom
  <2>3. QED
    BY <2>1, <2>2
<1>8. CASE /\ msgfp = NULL /\ mine' = mine
           /\ Release(p, a, Tables, IF a.nowait THEN "user" ELSE "hwait")
  <2>1. CASE a.nowait
    BY <1>6, <1>8, <2>1
  <2>2. CASE ~a.nowait
    <3>1. Release(p, a, Tables, "hwait")
      BY <1>8, <2>2
    <3>2. QED
      BY <1>8, <3>1, WaitForHeader
  <2>3. QED
    BY <2>1, <2>2
<1>9. CASE /\ msgfp # NULL /\ a.cnt # 0 /\ addr = 0 /\ mine' = mine
           /\ Release(p, a, IF a.nowait THEN back ELSE [back EXCEPT !.map.want = TRUE],
                      IF a.nowait THEN "user" ELSE "mwait")
  BY <1>2, <1>3, <1>9, WaitForText
<1>10. CASE /\ msgfp # NULL /\ (a.cnt = 0 \/ addr # 0)
            /\ mine' = [mine EXCEPT ![p] = [h |-> msgfp, pmp |-> NULL, addr |-> addr]]
            /\ msgfp' = hdr[msgfp].next
            /\ msgmap' = rmalloc(msgmap, btoq(a.cnt))
            /\ Copy(p, a, ev, "copy:text")
            /\ UNCHANGED <<que, hdr, raised>>
  BY <1>2, <1>10, TakeBoth
<1>11. QED
  BY <1>5, <1>7, <1>8, <1>9, <1>10

\* It does so when the type has been copied,
LEMMA SndTypeKeeps ==
    ASSUME Inv, NEW p \in Procs, SndType(p)
    PROVE  Inv'
<1>1. PICK a : a = args[p]
  OBVIOUS
<1>2. PICK ev : ev = {<<"lock", a.id.q>>}
  OBVIOUS
<1>3. pc[p] = "copy:type" /\ pc[p] \in Copies /\ SndGetres(p, ev)
  BY <1>1, <1>2 DEF SndType, Copies
<1>4. a \in Args /\ a.op = "snd" /\ Alone(p, a.id.q) /\ a.id.q \in Queues /\ a.cnt \in Nat
  BY <1>1, <1>3, LockMine, ArgsIs DEF Suits
<1>5. Valid(a.id)
  BY <1>1, <1>3 DEF Inv, Inside
<1>6. AtGetres(p, a)
  BY <1>1, <1>3, <1>4, <1>5 DEF AtGetres
<1>7. QED
  BY <1>2, <1>3, <1>6, SndGetresKeeps

\* and after it has slept.
LEMMA SndAgainKeeps ==
    ASSUME Inv, NEW p \in Procs, SndAgain(p)
    PROVE  Inv'
<1>1. PICK a : a = args[p]
  OBVIOUS
<1>2. PICK ev : ev = {}
  OBVIOUS
<1>3. pc[p] = "conv:again" /\ SndGetres(p, ev) /\ a.op = "snd" /\ ~lock[a.id.q] /\ Valid(a.id)
  BY <1>1, <1>2 DEF SndAgain, Locked
<1>4. a \in Args /\ pc[p] # "copy:text"
  BY <1>1, <1>3 DEF Inv, Inside
<1>5. Alone(p, a.id.q) /\ a.id.q \in Queues /\ a.cnt \in Nat
  BY <1>3, <1>4, LockFree, ArgsIs
<1>6. AtGetres(p, a)
  BY <1>1, <1>3, <1>4, <1>5 DEF AtGetres
<1>7. ev \subseteq {<<"lock", a.id.q>>}
  BY <1>2
<1>8. QED
  BY <1>3, <1>6, <1>7, SndGetresKeeps

\* What msgget() makes of a queue.
Made(m, m2) ==
    /\ m2 \in Queue /\ m2.alloc /\ m2.first = NULL /\ m2.last = NULL /\ m2.qnum = 0
    /\ m2.seq = m.seq /\ m2.cbytes = m.cbytes /\ m2.rwait = m.rwait /\ m2.wwait = m.wwait

\* A queue when msgget() has made it.
LEMMA MadeIs ==
    ASSUME NEW m \in Queue,
           NEW m2, m2 = [m EXCEPT !.alloc = TRUE, !.first = NULL, !.last = NULL, !.qnum = 0, !.qbytes = msgmnb]
    PROVE  Made(m, m2)
<1>1. msgmnb \in Nat
  BY SizesNatural
<1>2. PICK m3 : m3 = [m EXCEPT !.alloc = TRUE, !.first = NULL]
  OBVIOUS
<1>3. PICK m4 : m4 = [m3 EXCEPT !.last = NULL, !.qnum = 0]
  OBVIOUS
<1>4. m2 = [m4 EXCEPT !.qbytes = msgmnb]
  BY <1>2, <1>3
<1>5. NULL \in Ptr /\ 0 \in Int
  BY DEF Ptr
<1>6. m3 \in Queue
  <2>1. PICK m5 : m5 = [m EXCEPT !.alloc = TRUE]
    OBVIOUS
  <2>2. TRUE \in BOOLEAN
    OBVIOUS
  <2>3. m5 \in Queue
    BY <2>1, <2>2, Zenon DEF Queue
  <2>4. m3 = [m5 EXCEPT !.first = NULL]
    BY <1>2, <2>1
  <2>5. QED
    BY <1>5, <2>3, <2>4, Zenon DEF Queue
<1>7. m4 \in Queue
  <2>1. PICK m5 : m5 = [m3 EXCEPT !.last = NULL]
    OBVIOUS
  <2>2. m5 \in Queue
    BY <1>5, <1>6, <2>1, Zenon DEF Queue
  <2>3. m4 = [m5 EXCEPT !.qnum = 0]
    BY <1>3, <2>1
  <2>4. QED
    BY <1>5, <2>2, <2>3, Zenon DEF Queue
<1>8. m2 \in Queue
  BY <1>1, <1>4, <1>7, Zenon DEF Queue
<1>9. /\ m3.alloc /\ m3.first = NULL /\ m3.seq = m.seq /\ m3.cbytes = m.cbytes
      /\ m3.rwait = m.rwait /\ m3.wwait = m.wwait
  BY <1>2 DEF Queue
<1>10. /\ m4.alloc = m3.alloc /\ m4.first = m3.first /\ m4.last = NULL /\ m4.qnum = 0
       /\ m4.seq = m3.seq /\ m4.cbytes = m3.cbytes /\ m4.rwait = m3.rwait /\ m4.wwait = m3.wwait
  BY <1>3, <1>6 DEF Queue
<1>11. /\ m2.alloc = m4.alloc /\ m2.first = m4.first /\ m2.last = m4.last /\ m2.qnum = m4.qnum
       /\ m2.seq = m4.seq /\ m2.cbytes = m4.cbytes /\ m2.rwait = m4.rwait /\ m2.wwait = m4.wwait
  BY <1>4, <1>7 DEF Queue
<1>12. QED
  BY <1>8, <1>9, <1>10, <1>11 DEF Made

\* msgget() makes a queue: nothing was on it.
LEMMA MsggetKeeps ==
    ASSUME Inv, NEW p \in Procs, NEW q \in Queues, Msgget(p, q)
    PROVE  Inv'
<1>1. /\ ~que[q].alloc
      /\ que' = [que EXCEPT ![q].alloc = TRUE, ![q].first = NULL, ![q].last = NULL,
                            ![q].qnum = 0, ![q].qbytes = msgmnb]
      /\ raised' = [raised EXCEPT ![q] = FALSE]
      /\ UNCHANGED <<hdr, msgfp, msgmap, lock, pc, args, mine>>
  BY DEF Msgget
<1>2. Places /\ Inside
  BY DEF Inv
<1>3. PICK chain, text : Ledger(chain, text)
  BY DEF Inv
<1>4. /\ Books(Tables, chain, text) /\ Bytes(Tables, chain) /\ Hands(chain, text) /\ Tables \in Kit
      /\ \A r \in Procs : OutAt(r, chain) /\ Asleep(r, chain)
  BY <1>3 DEF Ledger, Books
<1>5. PICK t : t = Tables
  OBVIOUS
<1>6. /\ t.que = que /\ t.hdr = hdr /\ t.fp = msgfp /\ t.map = msgmap /\ t.ev = {}
      /\ Books(t, chain, text) /\ Bytes(t, chain) /\ t \in Kit
  BY <1>4, <1>5 DEF Tables
<1>7. que \in [Queues -> Queue]
  BY <1>6, KitIs
<1>8. PICK m : m = [que[q] EXCEPT !.alloc = TRUE, !.first = NULL, !.last = NULL, !.qnum = 0, !.qbytes = msgmnb]
  OBVIOUS
<1>9. Made(que[q], m)
  BY <1>7, <1>8, MadeIs
<1>10. que' = [que EXCEPT ![q] = m]
  BY <1>1, <1>7, <1>8
<1>11. que' \in [Queues -> Queue] /\ que'[q] = m /\ \A r \in Queues : r # q => que'[r] = que[r]
  BY <1>7, <1>9, <1>10 DEF Made
<1>12. PICK u : u = Tables'
  OBVIOUS
<1>13. u = [que |-> que', hdr |-> hdr, fp |-> msgfp, map |-> msgmap, ev |-> {}]
  BY <1>1, <1>12 DEF Tables
<1>14. u \in Kit
  <2>1. hdr \in [Headers -> Header] /\ msgfp \in Ptr /\ msgmap \in Map /\ {} \in SUBSET Channels
    BY <1>6, KitIs
  <2>2. QED
    BY <1>11, <1>13, <2>1 DEF Kit
<1>15. u.que = que' /\ u.hdr = hdr /\ u.fp = msgfp /\ u.map = msgmap
  BY <1>13
<1>16. chain[q] = <<>>
  BY <1>1, <1>6 DEF Books
<1>17. que[q].first = NULL /\ que[q].last = NULL /\ que[q].qnum = 0
  BY <1>6, <1>16 DEF Books, Run
<1>18. Alike(t, u)
  BY <1>6, <1>9, <1>11, <1>15, <1>17 DEF Alike, Made
<1>19. Books(u, chain, text)
  <2>1. Pool(u.map, text)
    BY <1>6, <1>15 DEF Books
  <2>2. QED
    BY <1>6, <1>14, <1>15, <1>18, <2>1, BooksKept
<1>20. Bytes(u, chain)
  BY <1>6, <1>9, <1>11, <1>15 DEF Bytes, Made
<1>21. Books(Tables, chain, text)' /\ Bytes(Tables, chain)'
  BY <1>12, <1>19, <1>20 DEF Books, Bytes
<1>22. Places'
  <2>1. raised' \in [Queues -> BOOLEAN]
    BY <1>1, <1>2 DEF Places
  <2>2. QED
    BY <1>1, <1>2, <2>1 DEF Places
<1>23. ASSUME NEW r \in Procs, pc[r] # "user", Valid(args[r].id)
       PROVE  args[r].id.q \in Queues /\ args[r].id.q # q /\ que'[args[r].id.q] = que[args[r].id.q]
              /\ (raised'[args[r].id.q] <=> raised[args[r].id.q])
  <2>1. args[r] \in Args
    BY <1>2, <1>23 DEF Inside
  <2>2. args[r].id.q \in Queues /\ args[r].id.q # q
    BY <1>1, <1>23, <2>1, ArgsIs DEF Valid
  <2>3. raised'[args[r].id.q] <=> raised[args[r].id.q]
    BY <1>1, <1>2, <2>2 DEF Places
  <2>4. QED
    BY <1>11, <2>2, <2>3
<1>24. Inside'
  <2>1. \A r \in Procs : pc[r] \in Copies => lock[args[r].id.q] /\ Valid(args[r].id)'
    <3>1. ASSUME NEW r \in Procs, pc[r] \in Copies PROVE lock[args[r].id.q] /\ Valid(args[r].id)'
      <4>1. pc[r] # "user" /\ lock[args[r].id.q] /\ Valid(args[r].id)
        BY <1>2, <3>1 DEF Inside, Copies
      <4>2. que'[args[r].id.q] = que[args[r].id.q]
        BY <1>23, <4>1
      <4>3. QED
        BY <1>1, <4>1, <4>2 DEF Valid
    <3>2. QED
      BY <3>1
  <2>2. QED
    BY <1>1, <1>2, <2>1 DEF Inside
<1>25. Hands(chain, text)'
  BY <1>1, <1>4 DEF Hands, SendAt
<1>26. ASSUME NEW r \in Procs PROVE OutAt(r, chain)' /\ Asleep(r, chain)'
  <2>1. OutAt(r, chain)'
    BY <1>1, <1>4 DEF OutAt
  <2>2. Asleep(r, chain)
    BY <1>4, SMTT(40)
  <2>3. CASE pc[r] \in {"rwait", "wwait"}
    <3>1. Valid(args[r].id) /\ pc[r] # "user"
      BY <2>2, <2>3 DEF Asleep
    <3>2. args[r].id.q \in Queues /\ que'[args[r].id.q] = que[args[r].id.q]
          /\ (raised'[args[r].id.q] <=> raised[args[r].id.q])
      BY <1>23, <3>1, SMTT(40)
    <3>3. Valid(args[r].id)' /\ (NoSpace(args[r].id.q, args[r].cnt)' <=> NoSpace(args[r].id.q, args[r].cnt))
      BY <1>1, <3>1, <3>2 DEF Valid, NoSpace
    <3>4. QED
      BY <1>1, <2>1, <2>2, <2>3, <3>2, <3>3 DEF Asleep, LockSleep
  <2>4. CASE pc[r] \notin {"rwait", "wwait"}
    BY <1>1, <2>1, <2>2, <2>4 DEF Asleep
  <2>5. QED
    BY <2>3, <2>4
<1>27. Ledger(chain, text)'
  BY <1>21, <1>25, <1>26 DEF Ledger
<1>28. QED
  BY <1>22, <1>24, <1>27 DEF Inv

(***************************************************************************)
(* The beginning.                                                          *)
(***************************************************************************)

\* msginit(): the map has the whole pool.
LEMMA FirstMap ==
    ASSUME NEW map, map = rmfree(mapinit(msgmap_len), msgseg, 1),
           NEW text, text = [h \in Headers |-> None]
    PROVE  Pool(map, text) /\ ~map.want
<1>1. PICK m0 : m0 = mapinit(msgmap_len)
  OBVIOUS
<1>2. msgmap_len \in Nat /\ msgmap_len > 2 /\ msgseg \in Nat
  BY UnitPositive, SizesNatural
<1>3. m0.ext = <<>> /\ m0.slots = msgmap_len - 2 /\ m0.want = FALSE
      /\ m0 = [ext |-> <<>>, slots |-> msgmap_len - 2, want |-> FALSE]
  BY <1>1 DEF mapinit
<1>4. m0 \in Map
  <2>1. <<>> \in Seq(Extent) /\ msgmap_len - 2 \in Nat /\ FALSE \in BOOLEAN
    BY <1>2
  <2>2. QED
    BY <1>3, <2>1 DEF Map
<1>5. MapSound(m0) /\ Len(m0.ext) = 0
  BY <1>3 DEF MapSound
<1>6. \A u : u \notin FreeUnits(m0)
  BY <1>4, <1>5, FreeUnitsIs
<1>7. /\ map \in Map /\ MapSound(map) /\ Len(map.ext) + map.slots = msgmap_len - 2 /\ ~map.want
      /\ \A u : u \in FreeUnits(map) <=> u \in 1 .. msgseg
  <2>1. map = rmfree(m0, msgseg, 1)
    BY <1>1
  <2>2. CASE msgseg = 0
    <3>1. map = m0
      <4>1. Below(m0, 1) = {}
        BY <1>3 DEF Below
      <4>2. Cardinality(Below(m0, 1)) = 0
        BY <4>1, FS_EmptySet
      <4>3. Len(m0.ext) = 0 /\ m0.slots # 0
        BY <1>2, <1>3
      <4>4. rmfree(m0, 0, 1) = m0
        BY <4>2, <4>3 DEF rmfree
      <4>5. QED
        BY <2>1, <2>2, <4>4
    <3>2. \A u : u \notin 1 .. msgseg
      BY <2>2
    <3>3. Len(map.ext) + map.slots = msgmap_len - 2
      BY <1>2, <1>3, <1>5, <3>1
    <3>4. \A u : u \in FreeUnits(map) <=> u \in 1 .. msgseg
      BY <1>6, <3>1, <3>2
    <3>5. QED
      BY <1>3, <1>4, <1>5, <3>1, <3>3, <3>4
  <2>3. CASE msgseg > 0
    <3>1. /\ map \in Map /\ MapSound(map)
          /\ Len(map.ext) + map.slots = Len(m0.ext) + m0.slots
          /\ Given(m0, msgseg, 1, map) \/ Lost(m0, msgseg, 1, map)
      BY <1>2, <1>4, <1>5, <1>6, <2>1, <2>3, MfreeIs
    <3>2. ~Lost(m0, msgseg, 1, map)
      BY <1>2, <1>3 DEF Lost
    <3>3. Given(m0, msgseg, 1, map)
      BY <3>1, <3>2
    <3>4. \A u : u \in 1 .. 1 + msgseg - 1 <=> u \in 1 .. msgseg
      BY <1>2
    <3>5. ~map.want /\ \A u : u \in FreeUnits(map) <=> u \in 1 .. msgseg
      BY <1>6, <3>3, <3>4, Zenon DEF Given
    <3>6. QED
      BY <1>2, <1>3, <1>5, <3>1, <3>5
  <2>4. QED
    BY <1>2, <2>2, <2>3
<1>8. None \in Span /\ \A u \in Int : ~InExtent(None, u)
  BY DEF None, Span, InExtent
<1>9. text \in [Headers -> Span] /\ \A h \in Headers : text[h] = None
  BY <1>8
<1>10. \A u \in Int : Taken(map, text, u) <=> u \in 1 .. msgseg
  BY <1>7, <1>8, <1>9 DEF Taken
<1>11. QED
  BY <1>7, <1>8, <1>9, <1>10 DEF Pool

\* The headers in a row, as msginit() links them.
LEMMA RowIs ==
    ASSUME NEW order \in [1 .. Cardinality(Headers) -> Headers],
           \A h \in Headers : \E i \in DOMAIN order : order[i] = h,
           NEW hd, hd = [h \in Headers |->
                           LET i == CHOOSE j \in DOMAIN order : order[j] = h
                           IN  [NoHeader EXCEPT !.next = IF i = Cardinality(Headers) THEN NULL
                                                         ELSE order[i + 1]]]
    PROVE  /\ order \in Seq(Headers) /\ Once(order) /\ \A h \in Headers : Has(order, h)
           /\ hd \in [Headers -> Header] /\ Run(hd, order[1], order) /\ order[1] \in Headers
<1> DEFINE N == Cardinality(Headers)
<1>1. IsFiniteSet(Headers) /\ N \in Nat /\ N # 0
  BY HeadersFinite, FS_CardinalityType, FS_EmptySet
<1> HIDE DEF N
<1>2. order \in [1 .. N -> Headers] /\ DOMAIN order = 1 .. N /\ order \in Seq(Headers) /\ Len(order) = N
  BY <1>1 DEF N
<1>3. order \in Surjection(1 .. N, Headers)
  BY <1>2 DEF Surjection
<1>4. IsFiniteSet(1 .. N) /\ Cardinality(1 .. N) = N
  <2>1. 1 \in Int /\ N \in Int /\ ~(1 > N) /\ N - 1 + 1 = N
    BY <1>1
  <2>2. IsFiniteSet(1 .. N) /\ Cardinality(1 .. N) = IF 1 > N THEN 0 ELSE N - 1 + 1
    BY <2>1, FS_Interval
  <2>3. QED
    BY <2>1, <2>2
<1>5. order \in Injection(1 .. N, Headers)
  <2>1. Cardinality(1 .. N) = Cardinality(Headers)
    BY <1>4 DEF N
  <2>2. QED
    BY <1>3, <1>4, <2>1, FS_SurjSameCardinalityImpliesInj
<1>6. Once(order)
  BY <1>2, <1>5 DEF Once, Injection, IsInjective
<1>7. \A h \in Headers : Has(order, h)
  BY <1>2 DEF Has
<1>8. ASSUME NEW h \in Headers
      PROVE  hd[h] \in Header /\ \A i \in 1 .. N : order[i] = h =>
                hd[h].next = IF i = N THEN NULL ELSE order[i + 1]
  <2>1. PICK j : j = CHOOSE i \in DOMAIN order : order[i] = h
    OBVIOUS
  <2>2. j \in 1 .. N /\ order[j] = h
    BY <1>2, <2>1
  <2>3. PICK nx : nx = IF j = N THEN NULL ELSE order[j + 1]
    OBVIOUS
  <2>4. nx \in Ptr
    <3>1. CASE j = N
      BY <2>3, <3>1 DEF Ptr
    <3>2. CASE j # N
      <4>1. j + 1 \in 1 .. N
        BY <1>1, <2>2, <3>2
      <4>2. order[j + 1] \in Headers
        BY <1>2, <4>1
      <4>3. QED
        BY <2>3, <3>2, <4>2 DEF Ptr
    <3>3. QED
      BY <3>1, <3>2
  <2>5. hd[h] = [NoHeader EXCEPT !.next = nx]
    BY <2>1, <2>3 DEF N
  <2>6. hd[h] \in Header /\ hd[h].next = nx
    BY <2>4, <2>5 DEF NoHeader, Header
  <2>7. ASSUME NEW i \in 1 .. N, order[i] = h PROVE i = j
    BY <1>2, <1>6, <2>2, <2>7 DEF Once
  <2>8. QED
    BY <2>3, <2>6, <2>7
<1>9. hd \in [Headers -> Header]
  <2>1. DOMAIN hd = Headers /\ hd = [h \in Headers |-> hd[h]]
    OBVIOUS
  <2>2. QED
    BY <1>8, <2>1
<1>10. Run(hd, order[1], order)
  <2>1. order # <<>>
    BY <1>1, <1>2
  <2>2. \A i \in 1 .. Len(order) : hd[order[i]].next = IF i = Len(order) THEN NULL ELSE order[i + 1]
    BY <1>2, <1>8, ZenonT(60)
  <2>3. QED
    BY <1>2, <1>6, <2>1, <2>2 DEF Run
<1>11. order[1] \in Headers
  <2>1. 1 \in 1 .. N
    BY <1>1
  <2>2. \A i \in 1 .. N : order[i] \in Headers
    BY DEF N
  <2>3. QED
    BY <2>1, <2>2
<1>12. QED
  BY <1>2, <1>6, <1>7, <1>9, <1>10, <1>11

\* msginit(): every header is free, and the whole pool.
LEMMA InitHolds == Init => Inv
<1>1. SUFFICES ASSUME Init PROVE Inv
  OBVIOUS
<1>2. PICK order \in [1 .. Cardinality(Headers) -> Headers] :
         /\ \A h \in Headers : \E i \in DOMAIN order : order[i] = h
         /\ msgfp = order[1]
         /\ hdr = [h \in Headers |->
                     LET i == CHOOSE j \in DOMAIN order : order[j] = h
                     IN  [NoHeader EXCEPT !.next = IF i = Cardinality(Headers) THEN NULL
                                                   ELSE order[i + 1]]]
  BY <1>1 DEF Init
<1>3. /\ order \in Seq(Headers) /\ Once(order) /\ \A h \in Headers : Has(order, h)
      /\ hdr \in [Headers -> Header] /\ Run(hdr, msgfp, order) /\ order[1] \in Headers
  BY <1>2, RowIs
<1>4. /\ que = [q \in Queues |-> NoQueue] /\ msgmap = rmfree(mapinit(msgmap_len), msgseg, 1)
      /\ lock = [q \in Queues |-> FALSE] /\ pc = [p \in Procs |-> "user"]
      /\ args = [p \in Procs |-> NULL] /\ mine = [p \in Procs |-> NoMine]
      /\ raised = [q \in Queues |-> FALSE]
  BY <1>1 DEF Init
<1>5. PICK chain : chain = [l \in Lists |-> IF l = NULL THEN order ELSE <<>>]
  OBVIOUS
<1>6. NULL \notin Queues
  BY NullIsNothing
<1>7. chain[NULL] = order /\ \A q \in Queues : chain[q] = <<>>
  BY <1>5, <1>6 DEF Lists
<1>8. \A g : ~Has(<<>>, g)
  BY DEF Has
<1>9. Filled(chain)
  <2>1. <<>> \in Seq(Headers) /\ Once(<<>>)
    BY DEF Once
  <2>2. chain \in [Lists -> Seq(Headers)]
    BY <1>3, <1>5, <2>1
  <2>3. \A l \in Lists : Once(chain[l])
    BY <1>3, <1>5, <2>1
  <2>4. \A l \in Lists, h \in Headers : Has(chain[l], h) => l = NULL
    BY <1>5, <1>8
  <2>5. QED
    BY <2>2, <2>3, <2>4 DEF Filled
<1>10. PICK text : text = [h \in Headers |-> None]
  OBVIOUS
<1>11. Pool(msgmap, text)
  BY <1>4, <1>10, FirstMap
<1>12. NoQueue \in Queue /\ NoQueue.first = NULL /\ NoQueue.last = NULL /\ NoQueue.qnum = 0
       /\ NoQueue.cbytes = 0 /\ ~NoQueue.alloc
  <2>1. 0 \in 0 .. MaxSeq
    BY SizesNatural
  <2>2. QED
    BY <2>1 DEF NoQueue, Queue, Ptr
<1>13. PICK t : t = Tables
  OBVIOUS
<1>14. t = [que |-> que, hdr |-> hdr, fp |-> msgfp, map |-> msgmap, ev |-> {}]
  BY <1>13 DEF Tables
<1>15. t \in Kit
  <2>1. que \in [Queues -> Queue]
    BY <1>4, <1>12
  <2>2. msgfp \in Ptr
    BY <1>2, <1>3 DEF Ptr
  <2>3. msgmap \in Map /\ {} \in SUBSET Channels
    BY <1>11 DEF Pool
  <2>4. QED
    BY <1>3, <1>14, <2>1, <2>2, <2>3 DEF Kit
<1>16. t.hdr = hdr /\ t.fp = msgfp /\ t.map = msgmap /\ \A q \in Queues : t.que[q] = NoQueue
  BY <1>4, <1>14
<1>17. Books(t, chain, text)
  <2>1. Run(t.hdr, t.fp, chain[NULL])
    BY <1>3, <1>7, <1>16
  <2>2. Run(t.hdr, NULL, <<>>)
    BY DEF Run, Once
  <2>3. \A q \in Queues :
          /\ Run(t.hdr, t.que[q].first, chain[q])
          /\ t.que[q].qnum = Len(chain[q])
          /\ t.que[q].last = IF chain[q] = <<>> THEN NULL ELSE chain[q][Len(chain[q])]
          /\ ~t.que[q].alloc => chain[q] = <<>>
    BY <1>7, <1>12, <1>16, <2>2
  <2>4. \A h \in Headers : text[h].size = 0
    BY <1>10 DEF None
  <2>5. \A q \in Queues, h \in Headers : ~Has(chain[q], h)
    BY <1>7, <1>8
  <2>6. QED
    BY <1>9, <1>11, <1>15, <1>16, <2>1, <2>3, <2>4, <2>5 DEF Books
<1>18. Bytes(t, chain)
  <2>1. <<>> \in Seq(Headers)
    OBVIOUS
  <2>2. Total(hdr, <<>>) = 0
    BY <1>3, <2>1, TotalNat
  <2>3. QED
    BY <1>7, <1>12, <1>16, <2>2 DEF Bytes
<1>19. \A p \in Procs : pc[p] = "user"
  BY <1>4
<1>20. \A h \in Headers : ~Out(chain, h)
  BY <1>3, <1>7 DEF Out, Lists
<1>21. Hands(chain, text)
  BY <1>19, <1>20 DEF Hands, SendAt
<1>22. \A p \in Procs : OutAt(p, chain) /\ Asleep(p, chain)
  BY <1>19 DEF OutAt, Asleep, LockSleep
<1>23. Ledger(chain, text)
  BY <1>13, <1>17, <1>18, <1>21, <1>22 DEF Ledger
<1>24. Places
  <2>1. NoMine \in [h : Ptr, pmp : Ptr, addr : Nat]
    BY DEF NoMine, Ptr
  <2>2. "user" \in PC
    BY DEF PC
  <2>3. QED
    BY <1>4, <2>1, <2>2 DEF Places, MineType
<1>25. Inside
  <2>1. \A q \in Queues : ~lock[q]
    BY <1>4
  <2>2. "user" \notin Copies
    BY DEF Copies
  <2>3. QED
    BY <1>19, <2>1, <2>2 DEF Inside
<1>26. QED
  BY <1>23, <1>24, <1>25 DEF Inv

\* Nothing happens.
LEMMA StutterKeeps ==
    ASSUME Inv, UNCHANGED vars
    PROVE  Inv'
<1>1. /\ que' = que /\ hdr' = hdr /\ msgfp' = msgfp /\ msgmap' = msgmap /\ lock' = lock /\ pc' = pc
      /\ args' = args /\ mine' = mine /\ raised' = raised
  BY DEF vars
<1>2. Places'
  BY <1>1 DEF Inv, Places
<1>3. Inside'
  BY <1>1 DEF Inv, Inside, Valid
<1>4. PICK chain, text : Ledger(chain, text)
  BY DEF Inv
<1>5. Tables' = Tables
  BY <1>1 DEF Tables
<1>6. Books(Tables, chain, text)' /\ Bytes(Tables, chain)'
  BY <1>4, <1>5 DEF Ledger, Books, Bytes
<1>7. Hands(chain, text)'
  BY <1>1, <1>4 DEF Ledger, Hands, SendAt
<1>8. \A p \in Procs : OutAt(p, chain)' /\ Asleep(p, chain)'
  BY <1>1, <1>4, SMTT(40) DEF Ledger, OutAt, Asleep, Valid, NoSpace
<1>9. Ledger(chain, text)'
  BY <1>6, <1>7, <1>8 DEF Ledger
<1>10. QED
  BY <1>2, <1>3, <1>9 DEF Inv

\* Every step keeps the invariant.
LEMMA StepsKeep ==
    ASSUME Inv, [Next]_vars
    PROVE  Inv'
<1>1. CASE UNCHANGED vars
  BY <1>1, StutterKeeps
<1>2. CASE Next
  <2>1. PICK p \in Procs : (\E q \in Queues : Msgget(p, q)) \/ Signal(p) \/ Step(p)
    BY <1>2 DEF Next
  <2>2. CASE \E q \in Queues : Msgget(p, q)
    BY <2>2, MsggetKeeps
  <2>3. CASE Signal(p)
    BY <2>3, SignalKeeps
  <2>4. CASE Step(p)
    BY <2>4, EnterLockedKeeps, LockSleepOnKeeps, ConvFailsKeeps, SndFirstKeeps, SndTypeKeeps,
       SndAgainKeeps, SndTextKeeps, SndFaultKeeps, RcvFirstKeeps, RcvAgainKeeps, RcvOutKeeps,
       RcvFaultKeeps, CtlRmidKeeps, CtlSetKeeps, CtlSetDoneKeeps, CopyFaultKeeps,
       IntrWriterKeeps, IntrResourceKeeps DEF Step
  <2>5. QED
    BY <2>1, <2>2, <2>3, <2>4
<1>3. QED
  BY <1>1, <1>2

\* msg.c keeps its tables, its pool of text and its sleepers in one account: the
\* invariant holds in every reachable state, for any number of processes, queues,
\* headers and segments, and any sizes.
THEOREM Invariant == Spec => []Inv
<1>1. Inv /\ [Next]_vars => Inv'
  BY StepsKeep
<1>2. QED
  BY InitHolds, <1>1, PTL DEF Spec

\* What Chain() finds.
LEMMA ChainsAre ==
    ASSUME NEW chain, NEW text, Ledger(chain, text)
    PROVE  /\ \A q \in Queues : Chain(Tables, q) = chain[q]
           /\ FreeChain = chain[NULL]
<1>1. PICK t : t = Tables
  OBVIOUS
<1>2. Books(t, chain, text) /\ t.hdr = hdr /\ t.fp = msgfp
  BY <1>1 DEF Ledger, Tables
<1>3. \A q \in Queues : Chain(t, q) = chain[q]
  BY <1>2, ChainIs DEF Books
<1>4. PICK k : k = [Tables EXCEPT !.que = [q \in {NULL} |-> [first |-> msgfp]]]
  OBVIOUS
<1>5. k.hdr = hdr /\ k.que[NULL].first = msgfp
  BY <1>4 DEF Tables
<1>6. Run(k.hdr, k.que[NULL].first, chain[NULL])
  BY <1>2, <1>5 DEF Books
<1>7. Chain(k, NULL) = chain[NULL]
  BY <1>6, ChainIs
<1>8. FreeChain = chain[NULL]
  BY <1>4, <1>7 DEF FreeChain
<1>9. QED
  BY <1>1, <1>3, <1>8

(***************************************************************************)
(* What the invariant says of the properties that the runs check.          *)
(***************************************************************************)

\* The types follow,
LEMMA InvTypes ==
    ASSUME Inv
    PROVE  TypeOK
<1>1. PICK chain, text : Ledger(chain, text)
  BY DEF Inv
<1>2. PICK t : t = Tables
  OBVIOUS
<1>3. t \in Kit /\ t.que = que /\ t.hdr = hdr /\ t.fp = msgfp /\ t.map = msgmap
  BY <1>1, <1>2 DEF Ledger, Books, Tables
<1>4. que \in [Queues -> Queue] /\ hdr \in [Headers -> Header] /\ msgfp \in Ptr /\ msgmap \in Map
  BY <1>3, KitIs
<1>5. msgmap.slots \in Nat /\ msgmap.ext \in Seq(Extent)
  BY <1>4 DEF Map
<1>6. QED
  BY <1>4, <1>5 DEF Inv, Places, MineType, TypeOK

\* A set with one member, given which.
LEMMA OneOnly ==
    ASSUME NEW S, NEW x \in S, \A y \in S : y = x
    PROVE  Cardinality(S) = 1
<1>1. S = {x}
  OBVIOUS
<1>2. QED
  BY <1>1, FS_Singleton

\* the headers are each in one place and the counts of a queue are right,
LEMMA InvQueues ==
    ASSUME Inv
    PROVE  QueuesSound
<1>1. PICK chain, text : Ledger(chain, text)
  BY DEF Inv
<1>2. /\ Books(Tables, chain, text) /\ Bytes(Tables, chain) /\ Hands(chain, text) /\ Filled(chain)
  BY <1>1 DEF Ledger, Books
<1>3. /\ \A q \in Queues : Chain(Tables, q) = chain[q]
      /\ FreeChain = chain[NULL]
  BY <1>1, ChainsAre
<1>4. PICK t : t = Tables
  OBVIOUS
<1>5. t.que = que /\ t.hdr = hdr /\ Books(t, chain, text) /\ Bytes(t, chain)
  BY <1>2, <1>4 DEF Tables
<1>6. \A q \in Queues :
         Cardinality({p \in Procs : pc[p] \in Copies /\ args[p].id.q = q}) = IF lock[q] THEN 1 ELSE 0
  <2>1. ASSUME NEW q \in Queues
        PROVE  Cardinality({p \in Procs : pc[p] \in Copies /\ args[p].id.q = q}) = IF lock[q] THEN 1 ELSE 0
    <3>1. PICK S : S = {p \in Procs : pc[p] \in Copies /\ args[p].id.q = q}
      OBVIOUS
    <3>2. CASE lock[q]
      <4>1. PICK p \in Procs : pc[p] \in Copies /\ args[p].id.q = q
        BY <3>2 DEF Inv, Inside
      <4>2. p \in S
        BY <3>1, <4>1
      <4>3. \A r \in S : r = p
        BY <3>1, <4>1 DEF Inv, Inside
      <4>4. QED
        BY <3>1, <3>2, <4>2, <4>3, OneOnly
    <3>3. CASE ~lock[q]
      <4>1. S = {}
        BY <3>1, <3>3 DEF Inv, Inside
      <4>2. QED
        BY <3>1, <3>3, <4>1, FS_EmptySet
    <3>4. QED
      BY <3>2, <3>3
  <2>2. QED
    BY <2>1
<1>7. ASSUME NEW q \in Queues, que[q].alloc, NEW c, c = Chain(Tables, q)
      PROVE  /\ Len(c) <= Cardinality(Headers) /\ que[q].qnum = Len(c) /\ que[q].cbytes = SumTs(c)
             /\ que[q].last = IF c = <<>> THEN NULL ELSE c[Len(c)]
  <2>1. c = chain[q]
    BY <1>3, <1>7
  <2>2. c \in Seq(Headers) /\ Once(c)
    BY <1>2, <2>1 DEF Filled, Lists
  <2>3. Len(c) <= Cardinality(Headers)
    BY <2>2, ChainBounded
  <2>4. que[q].qnum = Len(c) /\ que[q].last = IF c = <<>> THEN NULL ELSE c[Len(c)]
    BY <1>5, <2>1 DEF Books
  <2>5. Total(hdr, c) = SumTs(c)
    BY DEF Total, Sums, SumTs
  <2>6. que[q].cbytes = SumTs(c)
    BY <1>5, <2>1, <2>5 DEF Bytes
  <2>7. QED
    BY <2>3, <2>4, <2>6
<1>8. ASSUME NEW l \in Lists, NEW h \in Headers PROVE h \in On(chain[l]) <=> Has(chain[l], h)
  <2>1. chain[l] \in Seq(Headers)
    BY <1>2 DEF Filled
  <2>2. DOMAIN chain[l] = 1 .. Len(chain[l])
    BY <2>1
  <2>3. QED
    BY <2>2 DEF On, Has
<1>9. \A q \in Queues, h \in Headers : Has(chain[q], h) => que[q].alloc
  <2>1. ASSUME NEW q \in Queues, NEW h \in Headers, Has(chain[q], h), ~que[q].alloc PROVE FALSE
    <3>1. chain[q] = <<>>
      BY <1>5, <2>1 DEF Books
    <3>2. QED
      BY <2>1, <3>1 DEF Has
  <2>2. QED
    BY <2>1
<1>10. ASSUME NEW h \in Headers
       PROVE  Cardinality({q \in Queues : que[q].alloc /\ h \in On(Chain(Tables, q))})
              + Cardinality({p \in InFlight : mine[p].h = h})
              + (IF h \in On(FreeChain) THEN 1 ELSE 0) = 1
  <2>1. PICK A : A = {q \in Queues : que[q].alloc /\ h \in On(Chain(Tables, q))}
    OBVIOUS
  <2>2. PICK B : B = {p \in InFlight : mine[p].h = h}
    OBVIOUS
  <2>3. \A q : q \in A <=> q \in Queues /\ Has(chain[q], h)
    BY <1>3, <1>8, <1>9, <2>1 DEF Lists
  <2>4. \A p : p \in B <=> p \in Procs /\ pc[p] = "copy:text" /\ mine[p].h = h
    BY <2>2 DEF InFlight
  <2>5. h \in On(FreeChain) <=> Has(chain[NULL], h)
    BY <1>3, <1>8 DEF Lists
  <2>6. \A p \in B : Out(chain, h)
    <3>1. ASSUME NEW p \in B PROVE Out(chain, h)
      <4>1. p \in Procs /\ pc[p] = "copy:text" /\ mine[p].h = h
        BY <2>4, <3>1
      <4>2. SendAt(p, chain, text)
        BY <1>2, <4>1 DEF Hands
      <4>3. QED
        BY <4>1, <4>2 DEF SendAt
    <3>2. QED
      BY <3>1
  <2>7. CASE \E q \in Queues : Has(chain[q], h)
    <3>1. PICK q \in Queues : Has(chain[q], h)
      BY <2>7
    <3>2. q \in A /\ \A r \in A : r = q
      BY <1>2, <2>3, <3>1 DEF Filled, Lists
    <3>3. B = {}
      BY <2>6, <3>1 DEF Out, Lists
    <3>4. ~Has(chain[NULL], h)
      BY <1>2, <3>1, NullIsNothing DEF Filled, Lists
    <3>5. Cardinality(A) = 1 /\ Cardinality(B) = 0
      BY <3>2, <3>3, OneOnly, FS_EmptySet
    <3>6. QED
      BY <2>1, <2>2, <2>5, <3>4, <3>5
  <2>8. CASE Has(chain[NULL], h)
    <3>1. A = {}
      BY <1>2, <2>3, <2>8, NullIsNothing DEF Filled, Lists
    <3>2. B = {}
      BY <2>6, <2>8 DEF Out, Lists
    <3>3. Cardinality(A) = 0 /\ Cardinality(B) = 0
      BY <3>1, <3>2, FS_EmptySet
    <3>4. QED
      BY <2>1, <2>2, <2>5, <2>8, <3>3
  <2>9. CASE Out(chain, h)
    <3>1. PICK p \in Procs : pc[p] = "copy:text" /\ mine[p].h = h
      BY <1>2, <2>9 DEF Hands
    <3>2. p \in B /\ \A r \in B : r = p
      BY <1>2, <2>4, <3>1 DEF Hands
    <3>3. A = {} /\ ~Has(chain[NULL], h)
      BY <2>3, <2>9 DEF Out, Lists
    <3>4. Cardinality(A) = 0 /\ Cardinality(B) = 1
      BY <3>2, <3>3, OneOnly, FS_EmptySet
    <3>5. QED
      BY <2>1, <2>2, <2>5, <3>3, <3>4
  <2>10. QED
    BY <2>7, <2>8, <2>9 DEF Out, Lists
<1>11. QED
  BY <1>6, <1>7, <1>10 DEF QueuesSound

\* the units of the pool are each in one place,
LEMMA InvPool ==
    ASSUME Inv, MapSuffices
    PROVE  PoolSound
<1>1. PICK chain, text : Ledger(chain, text)
  BY DEF Inv
<1>2. Books(Tables, chain, text) /\ Hands(chain, text)
  BY <1>1 DEF Ledger
<1>3. \A q \in Queues : Chain(Tables, q) = chain[q]
  BY <1>1, ChainsAre
<1>4. PICK t : t = Tables
  OBVIOUS
<1>5. t.que = que /\ t.hdr = hdr /\ t.map = msgmap /\ Books(t, chain, text)
  BY <1>2, <1>4 DEF Tables
<1>6. Pool(msgmap, text) /\ Filled(chain)
  BY <1>5 DEF Books
<1>7. text \in [Headers -> Span] /\ msgmap \in Map /\ MapSound(msgmap)
  BY <1>6 DEF Pool
<1> DEFINE Tri(h) == <<h, text[h].addr, text[h].size>>
           used == {u \in Texts \cup Held : u[3] > 0}
<1>8. ASSUME NEW h \in Headers
      PROVE  /\ Tri(h)[3] = text[h].size /\ \A g \in Headers : Tri(g) = Tri(h) => g = h
             /\ \A u : u \in Units(Tri(h)) <=> u \in Int /\ InExtent(text[h], u)
  <2>1. text[h] \in Span
    BY <1>7
  <2>2. text[h].addr \in Nat /\ text[h].size \in Nat
    BY <2>1, SpanIs
  <2>3. Tri(h)[2] = text[h].addr /\ Tri(h)[3] = text[h].size
    OBVIOUS
  <2>4. \A g \in Headers : Tri(g) = Tri(h) => g = h
    OBVIOUS
  <2>5. \A u : u \in Units(Tri(h)) <=> u \in text[h].addr .. text[h].addr + text[h].size - 1
    BY <2>3 DEF Units
  <2>6. \A u : u \in text[h].addr .. text[h].addr + text[h].size - 1 <=> u \in Int /\ InExtent(text[h], u)
    BY <2>2 DEF InExtent
  <2>7. QED
    BY <2>3, <2>4, <2>5, <2>6
<1>9. \A q \in Queues, h \in Headers :
         h \in On(chain[q]) <=> Has(chain[q], h)
  <2>1. ASSUME NEW q \in Queues PROVE DOMAIN chain[q] = 1 .. Len(chain[q])
    BY <1>6 DEF Filled, Lists
  <2>2. QED
    BY <2>1 DEF On, Has
<1>10. \A q \in Queues : \A h : h \in On(chain[q]) => h \in Headers
  <2>1. ASSUME NEW q \in Queues, NEW h \in On(chain[q]) PROVE h \in Headers
    <3>1. chain[q] \in Seq(Headers)
      BY <1>6 DEF Filled, Lists
    <3>2. QED
      BY <3>1 DEF On
  <2>2. QED
    BY <2>1
<1>11. ASSUME NEW q \in Queues, NEW h \in Headers, Has(chain[q], h)
       PROVE  h \in Queued /\ Tri(h) = <<h, hdr[h].addr, btoq(hdr[h].ts)>>
  <2>1. que[q].alloc
    BY <1>5, <1>11 DEF Books, Has
  <2>2. h \in Queued
    BY <1>3, <1>9, <1>11, <2>1 DEF Queued
  <2>3. text[h] = [addr |-> hdr[h].addr, size |-> btoq(hdr[h].ts)]
    BY <1>5, <1>11 DEF Books
  <2>4. QED
    BY <2>2, <2>3
<1>12. ASSUME NEW p \in InFlight
       PROVE  mine[p].h \in Headers /\ Tri(mine[p].h) = <<mine[p].h, mine[p].addr, btoq(args[p].cnt)>>
  <2>1. p \in Procs /\ pc[p] = "copy:text"
    BY <1>12 DEF InFlight
  <2>2. SendAt(p, chain, text)
    BY <1>2, <2>1 DEF Hands
  <2>3. /\ mine[p].h \in Headers
        /\ text[mine[p].h] = [addr |-> mine[p].addr, size |-> btoq(args[p].cnt)]
    BY <2>1, <2>2 DEF SendAt
  <2>4. text[mine[p].h].addr = mine[p].addr /\ text[mine[p].h].size = btoq(args[p].cnt)
    <3>1. PICK a, n, e : a = mine[p].addr /\ n = btoq(args[p].cnt) /\ e = text[mine[p].h]
      OBVIOUS
    <3>2. e = [addr |-> a, size |-> n]
      BY <2>3, <3>1
    <3>3. e.addr = a /\ e.size = n
      BY <3>2
    <3>4. QED
      BY <3>1, <3>3
  <2>5. Tri(mine[p].h) = <<mine[p].h, mine[p].addr, btoq(args[p].cnt)>>
    BY <2>4, Zenon
  <2>6. QED
    BY <2>3, <2>5
<1>13. \A u \in used : \E h \in Headers : u = Tri(h) /\ text[h].size > 0
  <2>1. ASSUME NEW u \in used PROVE \E h \in Headers : u = Tri(h) /\ text[h].size > 0
    <3>1. CASE u \in Texts
      <4>1. PICK h \in Queued : u = <<h, hdr[h].addr, btoq(hdr[h].ts)>>
        BY <3>1 DEF Texts
      <4>2. PICK q \in Queues : h \in On(chain[q])
        BY <1>3, <4>1 DEF Queued
      <4>3. h \in Headers /\ Has(chain[q], h)
        BY <1>9, <1>10, <4>2
      <4>4. u = Tri(h)
        BY <1>11, <4>1, <4>3
      <4>5. QED
        BY <1>8, <2>1, <4>3, <4>4
    <3>2. CASE u \in Held
      <4>1. PICK p \in InFlight : u = <<mine[p].h, mine[p].addr, btoq(args[p].cnt)>>
        BY <3>2 DEF Held
      <4>2. mine[p].h \in Headers /\ u = Tri(mine[p].h)
        BY <1>12, <4>1
      <4>3. QED
        BY <1>8, <2>1, <4>2
    <3>3. QED
      BY <2>1, <3>1, <3>2
  <2>2. QED
    BY <2>1
<1>14. \A h \in Headers : text[h].size > 0 => Tri(h) \in used
  <2>1. ASSUME NEW h \in Headers, text[h].size > 0 PROVE Tri(h) \in used
    <3>1. CASE \E q \in Queues : Has(chain[q], h)
      <4>1. h \in Queued /\ Tri(h) = <<h, hdr[h].addr, btoq(hdr[h].ts)>>
        BY <1>11, <3>1
      <4>2. Tri(h) \in Texts
        BY <4>1 DEF Texts
      <4>3. QED
        BY <1>8, <2>1, <4>2
    <3>2. CASE Out(chain, h)
      <4>1. PICK p \in Procs : pc[p] = "copy:text" /\ mine[p].h = h
        BY <1>2, <3>2 DEF Hands
      <4>2. p \in InFlight
        BY <4>1 DEF InFlight
      <4>3. Tri(h) \in Held
        BY <1>12, <4>1, <4>2 DEF Held
      <4>4. QED
        BY <1>8, <2>1, <4>3
    <3>3. ~Has(chain[NULL], h)
      <4>1. Has(chain[NULL], h) => text[h].size = 0
        BY <1>5 DEF Books
      <4>2. QED
        BY <2>1, <4>1
    <3>4. QED
      BY <3>1, <3>2, <3>3 DEF Out, Lists
  <2>2. QED
    BY <2>1
<1> HIDE DEF Tri, used
<1>15. \A u, v \in used : u # v => Units(u) \cap Units(v) = {}
  BY <1>6, <1>8, <1>13 DEF Pool
<1>16. \A u \in used : Units(u) \cap FreeUnits(msgmap) = {}
  BY <1>6, <1>8, <1>13 DEF Pool
<1>17. FreeUnits(msgmap) \cup UNION {Units(u) : u \in used} = 1 .. msgseg
  <2>1. \A n \in FreeUnits(msgmap) : n \in Int
    BY <1>7, FreeUnitsIs
  <2>2. \A n : n \in UNION {Units(u) : u \in used} <=>
               n \in Int /\ \E h \in Headers : InExtent(text[h], n)
    <3>1. ASSUME NEW n, n \in UNION {Units(u) : u \in used}
          PROVE  n \in Int /\ \E h \in Headers : InExtent(text[h], n)
      BY <1>8, <1>13, <3>1
    <3>2. ASSUME NEW n \in Int, NEW h \in Headers, InExtent(text[h], n)
          PROVE  n \in UNION {Units(u) : u \in used}
      <4>1. text[h] \in Span
        BY <1>7
      <4>2. text[h].size > 0
        BY <3>2, <4>1, SpanIs
      <4>3. Tri(h) \in used /\ n \in Units(Tri(h))
        BY <1>8, <1>14, <3>2, <4>2
      <4>4. QED
        BY <4>3
    <3>3. QED
      BY <3>1, <3>2
  <2>3. \A n \in Int : Taken(msgmap, text, n) <=> n \in 1 .. msgseg
    BY <1>6, SizesNatural DEF Pool
  <2>4. \A n : n \in FreeUnits(msgmap) \cup UNION {Units(u) : u \in used} <=> n \in 1 .. msgseg
    BY <2>1, <2>2, <2>3 DEF Taken
  <2>5. QED
    BY <2>4
<1>18. QED
  BY <1>7, <1>15, <1>16, <1>17 DEF PoolSound, used

\* and whoever sleeps has to.
LEMMA InvSleepers ==
    ASSUME Inv
    PROVE  SleepersMustWait
<1>1. PICK chain, text : Ledger(chain, text)
  BY DEF Inv
<1>2. Books(Tables, chain, text) /\ \A p \in Procs : Asleep(p, chain)
  BY <1>1 DEF Ledger
<1>3. \A q \in Queues : Chain(Tables, q) = chain[q]
  BY <1>1, ChainsAre
<1>4. PICK t : t = Tables
  OBVIOUS
<1>5. t.hdr = hdr /\ t.map = msgmap /\ Books(t, chain, text) /\ t \in Kit
  BY <1>2, <1>4 DEF Tables, Books
<1>6. hdr \in [Headers -> Header] /\ Pool(msgmap, text) /\ Filled(chain)
  BY <1>5, KitIs DEF Books
<1>7. ASSUME NEW p \in Procs, pc[p] \in Waits \cup LockSleep PROVE ~CanGoOn(p) /\ WakerKnows(p)
  <2>1. Asleep(p, chain)
    BY <1>2
  <2>2. args[p] \in Args /\ Suits(pc[p], args[p])
    BY <1>7 DEF Inv, Inside, Waits, LockSleep
  <2>3. args[p].id.q \in Queues
    BY <2>2, ArgsIs
  <2>4. CASE pc[p] = "rwait"
    <3>1. /\ Valid(args[p].id) /\ que[args[p].id.q].rwait
          /\ \A h \in Headers : Has(chain[args[p].id.q], h) => ~Wanted(args[p].typ, hdr[h].type)
      BY <2>1, <2>4 DEF Asleep
    <3>2. PICK c : c = chain[args[p].id.q]
      OBVIOUS
    <3>3. c \in Seq(Headers) /\ Chain(Tables, args[p].id.q) = c
      BY <1>3, <1>6, <2>3, <3>2 DEF Filled, Lists
    <3>4. \A i \in 1 .. Len(c) : ~Wanted(args[p].typ, hdr[c[i]].type)
      BY <3>1, <3>2, <3>3 DEF Has
    <3>5. args[p].typ \in Int
      BY <2>2, <2>4, ArgsIs DEF Suits
    <3>6. Choice(c, args[p].typ) = 0
      BY <1>6, <3>3, <3>4, <3>5, ChoiceIs
    <3>7. QED
      BY <2>4, <3>1, <3>3, <3>6 DEF CanGoOn, WakerKnows, LockSleep
  <2>5. CASE pc[p] = "wwait"
    BY <2>1, <2>5 DEF Asleep, CanGoOn, WakerKnows, LockSleep
  <2>6. CASE pc[p] = "hwait"
    BY <2>1, <2>6 DEF Asleep, CanGoOn, WakerKnows, LockSleep
  <2>7. CASE pc[p] = "mwait"
    <3>1. msgmap.want /\ Fits(msgmap, btoq(args[p].cnt)) = {}
      BY <2>1, <2>7 DEF Asleep
    <3>2. args[p].cnt \in Nat
      BY <2>2, <2>7, ArgsIs DEF Suits
    <3>3. btoq(args[p].cnt) \in Nat
      BY <3>2, UnitsIs
    <3>4. rmalloc_addr(msgmap, btoq(args[p].cnt)) = 0
      BY <1>6, <3>1, <3>3, AddrZero
    <3>5. QED
      BY <2>7, <3>1, <3>4 DEF CanGoOn, WakerKnows, LockSleep
  <2>8. CASE pc[p] \in LockSleep
    BY <2>1, <2>8 DEF Asleep, CanGoOn, WakerKnows, LockSleep
  <2>9. QED
    BY <1>7, <2>4, <2>5, <2>6, <2>7, <2>8 DEF Waits
<1>8. QED
  BY <1>7 DEF SleepersMustWait

\* The tables of os/msg.c, msgque, msgh, msgmap and the locals of the calls, have
\* their types in every state.
THEOREM Typed == Spec => []TypeOK
BY Invariant, InvTypes, PTL

\* Each header is on one queue, or with one sender that copies its text in
\* (msgsnd(), os/msg.c:619-648), or free; and msg_qnum, msg_cbytes and msg_last agree
\* with the list from msg_first, whatever the order of sends, receives, removals,
\* faults and signals.
THEOREM HeadersAccounted == Spec => []QueuesSound
BY Invariant, InvQueues, PTL

\* Each unit of the pool of text belongs to one message, queued or being copied
\* in, or is free in msgmap, and none is lost. rmfree() drops what it cannot enter
\* in a full map (os/malloc.c:136-141), so this needs a table with an entry for
\* every free extent there can be. The tuned values give it one: MSGMAP is 100
\* and MSGTQL 40 (master.d/mtune:98,103).
THEOREM TextAccounted == MapSuffices => (Spec => []PoolSound)
<1>1. SUFFICES ASSUME MapSuffices PROVE Spec => []PoolSound
  OBVIOUS
<1>2. Inv => PoolSound
  BY <1>1, InvPool
<1>3. QED
  BY Invariant, <1>2, PTL

\* Nobody sleeps in msgsnd() or msgrcv() for what is there: a sleeper for a lock
\* finds the queue locked, a reader finds no message of its type and MSG_RWAIT set, a
\* writer finds no room and MSG_WWAIT set, a sender without header or text finds
\* none. IPC_RMID, the free of a message and the interrupted sender all wake the
\* right channel. It says nothing of the writers that IPC_SET leaves asleep: it
\* raises msg_qbytes (os/msg.c:310) and wakes nobody for it, so from then on
\* (raised) they may sleep with room there until something else wakes them.
THEOREM NoLostWakeup == Spec => []SleepersMustWait
BY Invariant, InvSleepers, PTL
=============================================================================

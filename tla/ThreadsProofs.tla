--------------------------- MODULE ThreadsProofs ---------------------------
(***************************************************************************)
(* Proofs about Threads, for any number of process table entries and of    *)
(* address spaces.  Types hold whatever the processes do.  The rest is     *)
(* about DisciplinedSpec, where only the initial thread of a process makes *)
(* threads and children and it execs when its threads are gone: the kernel *)
(* does not enforce that, and for programs that do otherwise KinSound and  *)
(* SpaceSound are false.                                                   *)
(***************************************************************************)
EXTENDS Threads, TLAPS

(***************************************************************************)
(* The inductive invariant.                                                *)
(***************************************************************************)
Existing == {p \in Procs : Exists(p)}

\* The next of kin and the parent of a process lead back to init: no set of
\* processes other than init's is closed under either of them.
RootedKin ==
    /\ \A S \in SUBSET Existing :
         S # {} /\ (\A p \in S \ {proc_init} : proc[p].nextofkin \in S)
           => proc_init \in S
    /\ \A S \in SUBSET Existing :
         S # {} /\ (\A p \in S \ {proc_init} : proc[p].parent \in S)
           => proc_init \in S

\* A free entry is clean, init is an ordinary process that does not exit, and
\* the last process that exited is a zombie.
TableSound ==
    /\ \A p \in Procs : proc[p].stat = "free" => proc[p] = NoProc
    /\ ~proc[proc_init].sthread /\ ~proc[proc_init].svfork
    /\ proc[proc_init].parent = NULL
    /\ proc[proc_init].stat \in {"run", "waitid", "futex", "vfwait"}
    /\ oldproc # NULL => proc[oldproc].stat = "SZOMB" /\ oldproc # proc_init

\* Parents and next of kin exist, have not exited and are not threads.
KinIsProcess ==
    \A p \in Procs \ {proc_init} : Exists(p) =>
        /\ proc[p].parent \in Procs /\ proc[p].nextofkin \in Procs
        /\ proc[proc[p].parent].stat \notin {"free", "SZOMB"}
        /\ proc[proc[p].nextofkin].stat \notin {"free", "SZOMB"}
        /\ ~proc[proc[p].parent].sthread /\ ~proc[proc[p].nextofkin].sthread

\* A thread runs in the space of its process, which waits for it to be gone
\* before it leaves that space.
ThreadSound ==
    \A p \in Procs : proc[p].sthread =>
        /\ proc[p].stat \in {"run", "futex", "SZOMB"} /\ ~proc[p].svfork
        /\ proc[p].stat = "SZOMB" => oldproc = p
        /\ proc[proc[p].parent].stat \in UsesSpace
        /\ proc[p].as = proc[proc[p].parent].as

\* Who has a space, and who is on the way from one to another.
PlaceSound ==
    \A p \in Procs :
        /\ proc[p].stat \in UsesSpace => proc[p].as # NULL
        /\ proc[p].nas # NULL \/ proc[p].svfdone => proc[p].stat = "relvm"
        /\ proc[p].svfork => proc[p].stat \in UsesSpace
        
\* A child that has its parent's space, or has not been sent on yet.
Borrower(p) == proc[p].svfork \/ (proc[p].stat = "relvm" /\ ~proc[p].svfdone)

\* A vforked child has its parent's space, the parent sleeps in vfwait()
\* until the child is sent on, and a parent has one such child.
VforkSound ==
    /\ \A c \in Procs : Borrower(c) => proc[proc[c].parent].stat = "vfwait"
    /\ \A c \in Procs : proc[c].svfork => proc[c].as = proc[proc[c].parent].as
    /\ \A c, d \in Procs :
         Borrower(c) /\ Borrower(d) /\ proc[c].parent = proc[d].parent => c = d

\* Has a space of its own: neither a thread nor a vforked child.
Owner(p) == proc[p].stat \in UsesSpace /\ ~proc[p].sthread /\ ~proc[p].svfork

\* No two processes own one space, and exec's new one belongs to nobody else.
OwnersApart ==
    /\ \A p, q \in Procs : Owner(p) /\ Owner(q) /\ proc[p].as = proc[q].as
                             => p = q
    /\ \A p, q \in Procs : Owner(p) /\ proc[q].nas # NULL
                             => proc[p].as # proc[q].nas
    /\ \A p, q \in Procs : proc[p].nas # NULL /\ proc[p].nas = proc[q].nas
                             => p = q

ThreadsInv ==
    /\ TypeOK /\ TableSound /\ KinIsProcess /\ RootedKin /\ ThreadSound
    /\ PlaceSound /\ VforkSound /\ OwnersApart /\ SpaceSound /\ WaitNotStuck

(***************************************************************************)
(* What the actions do to the entries of the table, field by field.        *)
(***************************************************************************)
SameKin(q) == /\ proc'[q].parent = proc[q].parent
              /\ proc'[q].nextofkin = proc[q].nextofkin
              /\ proc'[q].sthread = proc[q].sthread
SameSpace(q) == /\ proc'[q].svfork = proc[q].svfork
                /\ proc'[q].svfdone = proc[q].svfdone
                /\ proc'[q].as = proc[q].as /\ proc'[q].nas = proc[q].nas

\* Places a process moves between without a change to its space or kin.
Busy == {"run", "waitid", "futex", "exit", "exitsleep"}

\* The entry of q is kept but for such a move, or is a zombie's and is freed.
Quiet(q) ==
    \/ proc[q].stat = "SZOMB" /\ proc'[q] = NoProc
    \/ /\ SameKin(q) /\ SameSpace(q)
       /\ \/ proc'[q].stat = proc[q].stat
          \/ proc[q].stat \in Busy /\ proc'[q].stat \in Busy

\* A clean entry is of the right type.
LEMMA NoProcType == NoProc \in Proc
BY ThreadsAssumption, Zenon DEF NoProc, Proc, Stat

\* The fields of an entry have their types.
LEMMA Fields ==
    ASSUME NEW r \in Proc
    PROVE  /\ r.stat \in Stat
           /\ r.parent \in Procs \cup {NULL} /\ r.nextofkin \in Procs \cup {NULL}
           /\ r.sthread \in BOOLEAN /\ r.snowait \in BOOLEAN
           /\ r.svfork \in BOOLEAN /\ r.svfdone \in BOOLEAN
           /\ r.as \in Spaces \cup {NULL} /\ r.nas \in Spaces \cup {NULL}
           /\ r.kill \in BOOLEAN
BY DEF Proc

\* A change of place leaves the rest of the entry alone.
LEMMA SetStat ==
    ASSUME NEW r \in Proc, NEW s \in Stat
    PROVE  LET v == [r EXCEPT !.stat = s]
           IN  /\ v \in Proc /\ v.stat = s
               /\ v.parent = r.parent /\ v.nextofkin = r.nextofkin
               /\ v.sthread = r.sthread /\ v.svfork = r.svfork
               /\ v.svfdone = r.svfdone /\ v.as = r.as /\ v.nas = r.nas
               /\ v.snowait = r.snowait /\ v.kill = r.kill
BY Zenon DEF Proc

\* So does a change of the pending SIGKILL or of SA_NOCLDWAIT.
LEMMA SetFlag ==
    ASSUME NEW r \in Proc, NEW k \in BOOLEAN
    PROVE  /\ LET v == [r EXCEPT !.kill = k]
              IN  /\ v \in Proc /\ v.stat = r.stat
                  /\ v.parent = r.parent /\ v.nextofkin = r.nextofkin
                  /\ v.sthread = r.sthread /\ v.svfork = r.svfork
                  /\ v.svfdone = r.svfdone /\ v.as = r.as /\ v.nas = r.nas
           /\ LET v == [r EXCEPT !.snowait = k]
              IN  /\ v \in Proc /\ v.stat = r.stat
                  /\ v.parent = r.parent /\ v.nextofkin = r.nextofkin
                  /\ v.sthread = r.sthread /\ v.svfork = r.svfork
                  /\ v.svfdone = r.svfdone /\ v.as = r.as /\ v.nas = r.nas
BY Zenon DEF Proc

\* wakeprocs() moves the process it wakes, and that one only, and a zombie
\* not at all.
LEMMA WakeEffect ==
    ASSUME NEW t \in [Procs -> Proc], NEW x
    PROVE  /\ Wake(t, x) \in [Procs -> Proc]
           /\ \A q \in Procs :
                /\ q # x \/ t[q].stat \notin {"exitsleep", "waitid"}
                     => Wake(t, x)[q] = t[q]
                /\ Wake(t, x)[q].stat = t[q].stat
                   \/ (t[q].stat = "exitsleep" /\ Wake(t, x)[q].stat = "exit")
                   \/ (t[q].stat = "waitid" /\ Wake(t, x)[q].stat = "run")
                /\ q = x => Wake(t, x)[q].stat # "waitid"
                /\ Wake(t, x)[q].parent = t[q].parent
                /\ Wake(t, x)[q].nextofkin = t[q].nextofkin
                /\ Wake(t, x)[q].sthread = t[q].sthread
                /\ Wake(t, x)[q].svfork = t[q].svfork
                /\ Wake(t, x)[q].svfdone = t[q].svfdone
                /\ Wake(t, x)[q].as = t[q].as
                /\ Wake(t, x)[q].nas = t[q].nas
<1> DEFINE w == Wake(t, x)
           next == CASE t[x].stat = "exitsleep" -> "exit"
                     [] t[x].stat = "waitid"    -> "run"
                     [] OTHER                   -> t[x].stat
<1>1. CASE x \notin Procs
  <2>1. w = t
    BY <1>1 DEF Wake
  <2> QED BY <2>1, <1>1
<1>2. CASE x \in Procs
  <2>1. next \in Stat /\ next # "waitid"
        /\ (next = t[x].stat
            \/ (t[x].stat = "exitsleep" /\ next = "exit")
            \/ (t[x].stat = "waitid" /\ next = "run"))
        /\ (t[x].stat \notin {"exitsleep", "waitid"} => next = t[x].stat)
    BY <1>2, Fields DEF Stat
  <2>2. w = [q \in Procs |-> IF q = x THEN [t[x] EXCEPT !.stat = next] ELSE t[q]]
    BY <1>2, Zenon DEF Wake
  <2>3. t[x] \in Proc
    BY <1>2
  <2> HIDE DEF w, next
  <2>4. \A q \in Procs : w[q] = IF q = x THEN [t[x] EXCEPT !.stat = next] ELSE t[q]
    BY <2>2
  <2>5. w \in [Procs -> Proc]
    BY <2>1, <2>2, <2>3, SetStat
  <2>6. /\ w[x].stat = next
        /\ w[x].parent = t[x].parent
        /\ w[x].nextofkin = t[x].nextofkin
        /\ w[x].sthread = t[x].sthread
        /\ w[x].svfork = t[x].svfork
        /\ w[x].svfdone = t[x].svfdone
        /\ w[x].as = t[x].as
        /\ w[x].nas = t[x].nas
    <3>1. w[x] = [t[x] EXCEPT !.stat = next]
      BY <1>2, <2>4
    <3> QED BY <2>1, <2>3, <3>1, SetStat
  <2>7. \A q \in Procs : q # x => w[q] = t[q]
    BY <2>4
  <2>8. t[x].stat \notin {"exitsleep", "waitid"} => w[x] = t[x]
    <3> SUFFICES ASSUME t[x].stat \notin {"exitsleep", "waitid"} PROVE w[x] = t[x]
      OBVIOUS
    <3>1. w[x] = [t[x] EXCEPT !.stat = t[x].stat]
      BY <1>2, <2>1, <2>4
    <3> QED BY <2>3, <3>1, Zenon DEF Proc
  <2> QED BY <2>1, <2>5, <2>6, <2>7, <2>8 DEF w
<1> QED BY <1>1, <1>2

\* What newproc() leaves in the table.
Born(p, c, thread, vfork, space) ==
    /\ proc' \in [Procs -> Proc] /\ p # c
    /\ proc'[c].stat = "run" /\ proc'[c].parent = p /\ proc'[c].nextofkin = p
    /\ proc'[c].sthread = thread /\ proc'[c].svfork = vfork
    /\ proc'[c].svfdone = FALSE /\ proc'[c].as = space /\ proc'[c].nas = NULL
    /\ proc'[p].stat = IF vfork THEN "vfwait" ELSE "run"
    /\ SameKin(p) /\ SameSpace(p)
    /\ \A q \in Procs \ {p, c} : proc'[q] = proc[q]

\* newproc() fills c's entry and puts the parent of a vforked child to sleep.
LEMMA NewprocEffect ==
    ASSUME TypeOK, NEW p \in Procs, NEW c \in Procs, NEW thread \in BOOLEAN,
           NEW vfork \in BOOLEAN, NEW space \in Spaces \cup {NULL},
           newproc(p, c, thread, vfork, space)
    PROVE  Born(p, c, thread, vfork, space)
<1> DEFINE v == [NoProc EXCEPT !.stat = "run", !.parent = p,
                   !.nextofkin = p, !.sthread = thread, !.svfork = vfork,
                   !.snowait = proc[p].snowait, !.as = space]
           s == IF vfork THEN "vfwait" ELSE "run"
           u == [proc[p] EXCEPT !.stat = s]
<1>1. proc \in [Procs -> Proc] /\ proc[p] \in Proc /\ proc[p].snowait \in BOOLEAN
  BY Fields DEF TypeOK
<1>2. p # c /\ s \in Stat /\ proc[p].stat = "run"
  BY DEF newproc, At, Exists, Stat
<1>3. proc' = [q \in Procs |-> IF q = c THEN v ELSE IF q = p THEN u ELSE proc[q]]
  <2>1. proc' = [[proc EXCEPT ![c] = v] EXCEPT ![p] =
                   [[proc EXCEPT ![c] = v][p] EXCEPT
                      !.stat = IF vfork THEN "vfwait" ELSE proc[p].stat]]
    BY Zenon DEF newproc
  <2> HIDE DEF v
  <2>2. [proc EXCEPT ![c] = v][p] = proc[p]
    BY <1>1, <1>2
  <2>3. proc' = [[proc EXCEPT ![c] = v] EXCEPT ![p] = u]
    BY <1>2, <2>1, <2>2
  <2> HIDE DEF u
  <2> QED BY <1>1, <1>2, <2>3
<1>4. v \in Proc
      /\ v.stat = "run" /\ v.parent = p /\ v.nextofkin = p
      /\ v.sthread = thread /\ v.svfork = vfork /\ v.svfdone = FALSE
      /\ v.as = space /\ v.nas = NULL
  <2>1. v \in Proc
    BY <1>1, ThreadsAssumption, ZenonT(60) DEF NoProc, Proc, Stat
  <2>2. /\ v.stat = "run" /\ v.parent = p /\ v.nextofkin = p
        /\ v.sthread = thread /\ v.svfork = vfork /\ v.svfdone = FALSE
        /\ v.as = space /\ v.nas = NULL
    BY Zenon DEF NoProc
  <2> QED BY <2>1, <2>2
<1>5. /\ u \in Proc /\ u.stat = s
      /\ u.parent = proc[p].parent /\ u.nextofkin = proc[p].nextofkin
      /\ u.sthread = proc[p].sthread /\ u.svfork = proc[p].svfork
      /\ u.svfdone = proc[p].svfdone /\ u.as = proc[p].as /\ u.nas = proc[p].nas
  BY <1>1, <1>2, SetStat
<1> HIDE DEF v, u
<1>6. proc' \in [Procs -> Proc]
  BY <1>1, <1>3, <1>4, <1>5
<1>7. proc'[c] = v /\ proc'[p] = u /\ \A q \in Procs \ {p, c} : proc'[q] = proc[q]
  BY <1>2, <1>3
<1> QED BY <1>2, <1>4, <1>5, <1>6, <1>7 DEF SameKin, SameSpace, Born

\* A new space is one that is not in use.
LEMMA FreshSpace == SpaceLeft => as_alloc \in Spaces /\ as_alloc \notin live
BY DEF SpaceLeft, as_alloc

\* vfwait() sends the child on and the parent out of its sleep.
LEMMA VforkDoneEffect ==
    ASSUME TypeOK, NEW p \in Procs, NEW c \in Procs, VforkDone(p, c)
    PROVE  /\ proc' \in [Procs -> Proc] /\ p # c
           /\ proc'[p].stat = "run" /\ SameKin(p) /\ SameSpace(p)
           /\ proc'[c].stat = "relvm" /\ SameKin(c) /\ proc'[c].svfdone
           /\ proc'[c].svfork = proc[c].svfork /\ proc'[c].as = proc[c].as
           /\ proc'[c].nas = proc[c].nas
           /\ \A q \in Procs \ {p, c} : proc'[q] = proc[q]
<1> DEFINE v == [proc[c] EXCEPT !.svfdone = TRUE]
           u == [proc[p] EXCEPT !.stat = "run"]
<1>1. proc \in [Procs -> Proc] /\ proc[p] \in Proc /\ proc[c] \in Proc
  BY DEF TypeOK
<1>2. p # c /\ proc[c].stat = "relvm"
  BY DEF VforkDone, At
<1>3. proc' = [q \in Procs |-> IF q = c THEN v ELSE IF q = p THEN u ELSE proc[q]]
  <2>1. proc' = [[proc EXCEPT ![c] = v] EXCEPT ![p] =
                   [[proc EXCEPT ![c] = v][p] EXCEPT !.stat = "run"]]
    BY Zenon DEF VforkDone
  <2> HIDE DEF v
  <2>2. [proc EXCEPT ![c] = v][p] = proc[p]
    BY <1>1, <1>2
  <2>3. proc' = [[proc EXCEPT ![c] = v] EXCEPT ![p] = u]
    BY <1>2, <2>1, <2>2
  <2> HIDE DEF u
  <2> QED BY <1>1, <1>2, <2>3
<1>4. v \in Proc /\ v.svfdone /\ v.stat = proc[c].stat
      /\ v.parent = proc[c].parent /\ v.nextofkin = proc[c].nextofkin
      /\ v.sthread = proc[c].sthread /\ v.svfork = proc[c].svfork
      /\ v.as = proc[c].as /\ v.nas = proc[c].nas
  BY <1>1, Zenon DEF Proc
<1>5. u \in Proc /\ u.stat = "run"
      /\ u.parent = proc[p].parent /\ u.nextofkin = proc[p].nextofkin
      /\ u.sthread = proc[p].sthread /\ u.svfork = proc[p].svfork
      /\ u.svfdone = proc[p].svfdone /\ u.as = proc[p].as /\ u.nas = proc[p].nas
  BY <1>1, Zenon DEF Proc, Stat
<1> HIDE DEF v, u
<1>6. proc' \in [Procs -> Proc]
  BY <1>1, <1>3, <1>4, <1>5
<1>7. proc'[c] = v /\ proc'[p] = u /\ \A q \in Procs \ {p, c} : proc'[q] = proc[q]
  BY <1>2, <1>3
<1> QED BY <1>2, <1>4, <1>5, <1>6, <1>7 DEF SameKin, SameSpace

\* exec in a space of one's own replaces it.
LEMMA ExecEffect ==
    ASSUME TypeOK, NEW p \in Procs, Exec(p)
    PROVE  /\ proc' \in [Procs -> Proc]
           /\ proc'[p].stat = "run" /\ SameKin(p) /\ proc'[p].as = as_alloc
           /\ proc'[p].svfork = proc[p].svfork /\ proc'[p].nas = proc[p].nas
           /\ proc'[p].svfdone = proc[p].svfdone
           /\ \A q \in Procs \ {p} : proc'[q] = proc[q]
<1> DEFINE a == as_alloc
           v == [proc[p] EXCEPT !.as = a, !.snowait = FALSE]
<1>1. proc \in [Procs -> Proc] /\ proc[p] \in Proc /\ proc[p].stat = "run"
  BY DEF TypeOK, Exec, At
<1>2. proc' = [q \in Procs |-> IF q = p THEN v ELSE proc[q]]
  BY <1>1, Zenon DEF Exec
<1>3. a \in Spaces
  BY FreshSpace DEF Exec
<1> HIDE DEF a
<1>4. v \in Proc /\ v.stat = proc[p].stat /\ v.as = a
      /\ v.parent = proc[p].parent /\ v.nextofkin = proc[p].nextofkin
      /\ v.sthread = proc[p].sthread /\ v.svfork = proc[p].svfork
      /\ v.svfdone = proc[p].svfdone /\ v.nas = proc[p].nas
  BY <1>1, <1>3, Zenon DEF Proc
<1> HIDE DEF v
<1>5. proc' \in [Procs -> Proc]
  BY <1>1, <1>2, <1>4
<1>6. proc'[p] = v /\ \A q \in Procs \ {p} : proc'[q] = proc[q]
  BY <1>2
<1> QED BY <1>1, <1>4, <1>5, <1>6 DEF SameKin, a

\* The three steps that take a vforked child out of the space it was lent:
\* into relvm() from exec, into relvm() from exit(), and out of relvm().
LEMMA RelvmEffect ==
    ASSUME TypeOK, NEW p \in Procs
    PROVE  /\ ExecVforked(p) =>
                /\ proc' \in [Procs -> Proc]
                /\ proc'[p].stat = "relvm" /\ SameKin(p)
                /\ proc'[p].svfork = FALSE /\ proc'[p].svfdone = proc[p].svfdone
                /\ proc'[p].as = NULL /\ proc'[p].nas = as_alloc
                /\ \A q \in Procs \ {p} : proc'[q] = proc[q]
           /\ ExitVm(p) /\ proc[p].svfork =>
                /\ proc' \in [Procs -> Proc]
                /\ proc'[p].stat = "relvm" /\ SameKin(p)
                /\ proc'[p].svfork = FALSE /\ proc'[p].svfdone = proc[p].svfdone
                /\ proc'[p].as = NULL /\ proc'[p].nas = proc[p].nas
                /\ \A q \in Procs \ {p} : proc'[q] = proc[q]
           /\ RelvmDone(p) =>
                /\ proc' \in [Procs -> Proc]
                /\ proc'[p].stat = IF proc[p].nas = NULL THEN "exitvm" ELSE "run"
                /\ SameKin(p)
                /\ proc'[p].svfork = proc[p].svfork /\ proc'[p].svfdone = FALSE
                /\ proc'[p].as = proc[p].nas /\ proc'[p].nas = NULL
                /\ \A q \in Procs \ {p} : proc'[q] = proc[q]
<1>1. proc \in [Procs -> Proc] /\ proc[p] \in Proc
      /\ proc[p].nas \in Spaces \cup {NULL}
  BY Fields DEF TypeOK
<1>2. ASSUME NEW v \in Proc, proc' = [q \in Procs |-> IF q = p THEN v ELSE proc[q]]
      PROVE  /\ proc' \in [Procs -> Proc] /\ proc'[p] = v
             /\ \A q \in Procs \ {p} : proc'[q] = proc[q]
  BY <1>1, <1>2
<1>3. ASSUME ExecVforked(p)
      PROVE  /\ proc' \in [Procs -> Proc]
             /\ proc'[p].stat = "relvm" /\ SameKin(p)
             /\ proc'[p].svfork = FALSE /\ proc'[p].svfdone = proc[p].svfdone
             /\ proc'[p].as = NULL /\ proc'[p].nas = as_alloc
             /\ \A q \in Procs \ {p} : proc'[q] = proc[q]
  <2> DEFINE a == as_alloc
             v == [proc[p] EXCEPT !.stat = "relvm", !.svfork = FALSE,
                                  !.as = NULL, !.nas = a, !.snowait = FALSE]
  <2>1. proc' = [q \in Procs |-> IF q = p THEN v ELSE proc[q]]
    BY <1>1, <1>3, Zenon DEF ExecVforked
  <2>2. a \in Spaces
    BY <1>3, FreshSpace DEF ExecVforked
  <2> HIDE DEF a
  <2>3. v \in Proc
    BY <1>1, <2>2, Zenon DEF Proc, Stat
  <2>4. /\ v.stat = "relvm" /\ v.svfork = FALSE /\ v.as = NULL /\ v.nas = a
        /\ v.parent = proc[p].parent /\ v.nextofkin = proc[p].nextofkin
        /\ v.sthread = proc[p].sthread /\ v.svfdone = proc[p].svfdone
    BY <1>1, Zenon DEF Proc
  <2> HIDE DEF v
  <2> QED BY <1>2, <2>1, <2>3, <2>4 DEF SameKin, a
<1>4. ASSUME ExitVm(p), proc[p].svfork
      PROVE  /\ proc' \in [Procs -> Proc]
             /\ proc'[p].stat = "relvm" /\ SameKin(p)
             /\ proc'[p].svfork = FALSE /\ proc'[p].svfdone = proc[p].svfdone
             /\ proc'[p].as = NULL /\ proc'[p].nas = proc[p].nas
             /\ \A q \in Procs \ {p} : proc'[q] = proc[q]
  <2> DEFINE v == [proc[p] EXCEPT !.stat = "relvm", !.svfork = FALSE,
                                  !.as = NULL]
  <2>1. proc' = [q \in Procs |-> IF q = p THEN v ELSE proc[q]]
    BY <1>1, <1>4, Zenon DEF ExitVm
  <2>2. v \in Proc
    BY <1>1, Zenon DEF Proc, Stat
  <2>3. /\ v.stat = "relvm" /\ v.svfork = FALSE /\ v.as = NULL
        /\ v.parent = proc[p].parent /\ v.nextofkin = proc[p].nextofkin
        /\ v.sthread = proc[p].sthread /\ v.svfdone = proc[p].svfdone
        /\ v.nas = proc[p].nas
    BY <1>1, Zenon DEF Proc
  <2> HIDE DEF v
  <2> QED BY <1>2, <2>1, <2>2, <2>3 DEF SameKin
<1>5. ASSUME RelvmDone(p)
      PROVE  /\ proc' \in [Procs -> Proc]
             /\ proc'[p].stat = IF proc[p].nas = NULL THEN "exitvm" ELSE "run"
             /\ SameKin(p)
             /\ proc'[p].svfork = proc[p].svfork /\ proc'[p].svfdone = FALSE
             /\ proc'[p].as = proc[p].nas /\ proc'[p].nas = NULL
             /\ \A q \in Procs \ {p} : proc'[q] = proc[q]
  <2> DEFINE s == IF proc[p].nas = NULL THEN "exitvm" ELSE "run"
             v == [proc[p] EXCEPT !.svfdone = FALSE, !.as = proc[p].nas,
                                  !.nas = NULL, !.stat = s]
  <2>1. proc' = [q \in Procs |-> IF q = p THEN v ELSE proc[q]]
    BY <1>1, <1>5, Zenon DEF RelvmDone
  <2>2. s \in Stat
    BY DEF Stat
  <2> HIDE DEF s
  <2>3. v \in Proc
    BY <1>1, <2>2, Zenon DEF Proc
  <2>4. /\ v.stat = s /\ v.svfork = proc[p].svfork /\ v.nas = NULL
        /\ v.parent = proc[p].parent /\ v.nextofkin = proc[p].nextofkin
        /\ v.sthread = proc[p].sthread /\ v.svfdone = FALSE
        /\ v.as = proc[p].nas
    BY <1>1, Zenon DEF Proc
  <2> HIDE DEF v
  <2> QED BY <1>2, <2>1, <2>3, <2>4 DEF SameKin, s
<1> QED BY <1>3, <1>4, <1>5

\* exit() of a thread, and exit() of a process up to relvm() in a space of its
\* own.
LEMMA LeaveEffect ==
    ASSUME TypeOK, NEW p \in Procs
    PROVE  /\ ThreadExit(p) =>
                /\ proc' \in [Procs -> Proc]
                /\ proc'[p].stat = "SZOMB" /\ SameKin(p) /\ SameSpace(p)
                /\ \A q \in Procs \ {p} : proc'[q] = proc[q]
           /\ ExitVm(p) /\ ~proc[p].svfork =>
                /\ proc' \in [Procs -> Proc]
                /\ proc'[p].stat = "exitvm" /\ SameKin(p) /\ proc'[p].as = NULL
                /\ proc'[p].svfork = proc[p].svfork
                /\ proc'[p].svfdone = proc[p].svfdone
                /\ proc'[p].nas = proc[p].nas
                /\ \A q \in Procs \ {p} : proc'[q] = proc[q]
<1>1. proc \in [Procs -> Proc] /\ proc[p] \in Proc
  BY DEF TypeOK
<1>2. ASSUME NEW v \in Proc, proc' = [q \in Procs |-> IF q = p THEN v ELSE proc[q]]
      PROVE  /\ proc' \in [Procs -> Proc] /\ proc'[p] = v
             /\ \A q \in Procs \ {p} : proc'[q] = proc[q]
  BY <1>1, <1>2
<1>3. ASSUME ThreadExit(p)
      PROVE  /\ proc' \in [Procs -> Proc]
             /\ proc'[p].stat = "SZOMB" /\ SameKin(p) /\ SameSpace(p)
             /\ \A q \in Procs \ {p} : proc'[q] = proc[q]
  <2> DEFINE v == [proc[p] EXCEPT !.stat = "SZOMB", !.kill = FALSE]
  <2>1. proc' = [q \in Procs |-> IF q = p THEN v ELSE proc[q]]
    BY <1>1, <1>3, Zenon DEF ThreadExit
  <2>2. v \in Proc
    BY <1>1, Zenon DEF Proc, Stat
  <2>3. /\ v.stat = "SZOMB" /\ v.svfork = proc[p].svfork /\ v.as = proc[p].as
        /\ v.parent = proc[p].parent /\ v.nextofkin = proc[p].nextofkin
        /\ v.sthread = proc[p].sthread /\ v.svfdone = proc[p].svfdone
        /\ v.nas = proc[p].nas
    BY <1>1, Zenon DEF Proc
  <2> HIDE DEF v
  <2> QED BY <1>2, <2>1, <2>2, <2>3 DEF SameKin, SameSpace
<1>4. ASSUME ExitVm(p), ~proc[p].svfork
      PROVE  /\ proc' \in [Procs -> Proc]
             /\ proc'[p].stat = "exitvm" /\ SameKin(p) /\ proc'[p].as = NULL
             /\ proc'[p].svfork = proc[p].svfork
             /\ proc'[p].svfdone = proc[p].svfdone
             /\ proc'[p].nas = proc[p].nas
             /\ \A q \in Procs \ {p} : proc'[q] = proc[q]
  <2> DEFINE v == [proc[p] EXCEPT !.stat = "exitvm", !.as = NULL]
  <2>1. proc' = [q \in Procs |-> IF q = p THEN v ELSE proc[q]]
    BY <1>1, <1>4, Zenon DEF ExitVm
  <2>2. v \in Proc
    BY <1>1, Zenon DEF Proc, Stat
  <2>3. /\ v.stat = "exitvm" /\ v.svfork = proc[p].svfork /\ v.as = NULL
        /\ v.parent = proc[p].parent /\ v.nextofkin = proc[p].nextofkin
        /\ v.sthread = proc[p].sthread /\ v.svfdone = proc[p].svfdone
        /\ v.nas = proc[p].nas
    BY <1>1, Zenon DEF Proc
  <2> HIDE DEF v
  <2> QED BY <1>2, <2>1, <2>2, <2>3 DEF SameKin
<1> QED BY <1>3, <1>4

\* The end of exit(): the orphans and the children of p have new kin, p is a
\* zombie, its parent is awake, and so is init if it inherits a zombie.
LEMMA ExitZombieEffect ==
    ASSUME TypeOK, NEW p \in Procs, ExitZombie(p)
    PROVE  /\ proc' \in [Procs -> Proc]
           /\ \A q \in Procs :
                /\ SameSpace(q) /\ proc'[q].sthread = proc[q].sthread
                /\ Exists(q) =>
                     /\ proc'[q].nextofkin = IF proc[q].nextofkin = p
                          THEN proc[p].nextofkin ELSE proc[q].nextofkin
                     /\ proc'[q].parent = IF proc[q].parent = p
                          THEN proc_init ELSE proc[q].parent
                /\ ~Exists(q) => proc'[q] = proc[q]
                /\ q # p => \/ proc'[q].stat = proc[q].stat
                            \/ proc[q].stat = "exitsleep" /\ proc'[q].stat = "exit"
                            \/ proc[q].stat = "waitid" /\ proc'[q].stat = "run"
           /\ \A q \in Procs : q = proc[p].parent => proc'[q].stat # "waitid"
           /\ (\E c \in Children(p) : proc[c].stat = "SZOMB")
                => proc'[proc_init].stat # "waitid"
           /\ proc'[p].stat = "SZOMB"
<1> DEFINE h == HandOver(p)
           v == [h[p] EXCEPT !.stat = "SZOMB", !.kill = FALSE]
           z == [h EXCEPT ![p].stat = "SZOMB", ![p].kill = FALSE]
           w == Wake(z, proc[p].parent)
<1>1. proc \in [Procs -> Proc] /\ proc[p].stat = "exitvm"
  BY DEF TypeOK, ExitZombie, At
<1>2. \A q \in Procs : ~Exists(q) => h[q] = proc[q]
  BY DEF HandOver
<1>3. ASSUME NEW q \in Procs, Exists(q)
      PROVE  /\ h[q] \in Proc /\ h[q].stat = proc[q].stat
             /\ h[q].sthread = proc[q].sthread /\ h[q].svfork = proc[q].svfork
             /\ h[q].svfdone = proc[q].svfdone /\ h[q].as = proc[q].as
             /\ h[q].nas = proc[q].nas
             /\ h[q].nextofkin = IF proc[q].nextofkin = p
                  THEN proc[p].nextofkin ELSE proc[q].nextofkin
             /\ h[q].parent = IF proc[q].parent = p
                  THEN proc_init ELSE proc[q].parent
  <2> DEFINE n == IF proc[q].nextofkin = p THEN proc[p].nextofkin
                                          ELSE proc[q].nextofkin
             m == IF proc[q].parent = p THEN proc_init ELSE proc[q].parent
             r == [proc[q] EXCEPT !.nextofkin = n, !.parent = m]
  <2>1. h[q] = r
    BY <1>3, Zenon DEF HandOver
  <2>2. n \in Procs \cup {NULL} /\ m \in Procs \cup {NULL} /\ proc[q] \in Proc
    BY <1>1, Fields, ThreadsAssumption
  <2> HIDE DEF n, m
  <2>3. /\ r \in Proc /\ r.stat = proc[q].stat
        /\ r.sthread = proc[q].sthread /\ r.svfork = proc[q].svfork
        /\ r.svfdone = proc[q].svfdone /\ r.as = proc[q].as
        /\ r.nas = proc[q].nas
        /\ r.nextofkin = n /\ r.parent = m
    BY <2>2, Zenon DEF Proc
  <2> QED BY <2>1, <2>3 DEF n, m
<1>4. h \in [Procs -> Proc]
  <2>1. h = [q \in Procs |-> h[q]]
    BY DEF HandOver
  <2>2. \A q \in Procs : h[q] \in Proc
    BY <1>1, <1>2, <1>3
  <2> HIDE DEF h
  <2> QED BY <2>1, <2>2
<1>5. Exists(p)
  BY <1>1 DEF Exists
<1> HIDE DEF h
<1>6. z = [q \in Procs |-> IF q = p THEN v ELSE h[q]]
  BY <1>4, Zenon
<1>7. v \in Proc /\ v.stat = "SZOMB"
      /\ v.sthread = h[p].sthread /\ v.svfork = h[p].svfork
      /\ v.svfdone = h[p].svfdone /\ v.as = h[p].as
      /\ v.nas = h[p].nas /\ v.parent = h[p].parent
      /\ v.nextofkin = h[p].nextofkin
  BY <1>4, ZenonT(60) DEF Proc, Stat
<1> HIDE DEF v, z
<1>8. z \in [Procs -> Proc] /\ z[p] = v /\ \A q \in Procs \ {p} : z[q] = h[q]
  BY <1>4, <1>6, <1>7
<1>9. w \in [Procs -> Proc]
      /\ (\A q \in Procs :
                /\ w[q].stat = z[q].stat
                   \/ (z[q].stat = "exitsleep" /\ w[q].stat = "exit")
                   \/ (z[q].stat = "waitid" /\ w[q].stat = "run")
                /\ q = proc[p].parent => w[q].stat # "waitid"
                /\ w[q].parent = z[q].parent /\ w[q].nextofkin = z[q].nextofkin
                /\ w[q].sthread = z[q].sthread /\ w[q].svfork = z[q].svfork
                /\ w[q].svfdone = z[q].svfdone /\ w[q].as = z[q].as
                /\ w[q].nas = z[q].nas)
  BY <1>8, WakeEffect
<1>10. proc' = IF \E c \in Children(p) : proc[c].stat = "SZOMB"
               THEN Wake(w, proc_init) ELSE w
  BY DEF ExitZombie, Sigcld, z, h
<1> HIDE DEF w
<1>11. proc' \in [Procs -> Proc]
      /\ (\A q \in Procs :
                /\ proc'[q].stat = w[q].stat
                   \/ (w[q].stat = "exitsleep" /\ proc'[q].stat = "exit")
                   \/ (w[q].stat = "waitid" /\ proc'[q].stat = "run")
                /\ proc'[q].parent = w[q].parent /\ proc'[q].nextofkin = w[q].nextofkin
                /\ proc'[q].sthread = w[q].sthread /\ proc'[q].svfork = w[q].svfork
                /\ proc'[q].svfdone = w[q].svfdone /\ proc'[q].as = w[q].as
                /\ proc'[q].nas = w[q].nas)
      /\ ((\E c \in Children(p) : proc[c].stat = "SZOMB")
            => proc'[proc_init].stat # "waitid")
  BY <1>9, <1>10, WakeEffect, ThreadsAssumption
<1>12. \A q \in Procs : ~Exists(q) => proc'[q] = proc[q]
  <2> SUFFICES ASSUME NEW q \in Procs, ~Exists(q) PROVE proc'[q] = proc[q]
    OBVIOUS
  <2>1. q # p /\ z[q] = proc[q] /\ proc[q].stat = "free"
    BY <1>2, <1>5, <1>8 DEF Exists
  <2>2. w[q] = z[q]
    BY <1>8, <2>1, WakeEffect DEF w
  <2>3. Wake(w, proc_init)[q] = w[q]
    BY <1>9, <2>1, <2>2, WakeEffect
  <2> QED BY <1>10, <2>1, <2>2, <2>3
<1>13. \A q \in Procs : SameSpace(q) /\ proc'[q].sthread = proc[q].sthread
  BY <1>2, <1>3, <1>5, <1>7, <1>8, <1>9, <1>11 DEF SameSpace
<1>14. \A q \in Procs : Exists(q) =>
         /\ proc'[q].nextofkin = IF proc[q].nextofkin = p
              THEN proc[p].nextofkin ELSE proc[q].nextofkin
         /\ proc'[q].parent = IF proc[q].parent = p
              THEN proc_init ELSE proc[q].parent
  BY <1>3, <1>5, <1>7, <1>8, <1>9, <1>11
<1>15. \A q \in Procs : q # p =>
         \/ proc'[q].stat = proc[q].stat
         \/ proc[q].stat = "exitsleep" /\ proc'[q].stat = "exit"
         \/ proc[q].stat = "waitid" /\ proc'[q].stat = "run"
  BY <1>2, <1>3, <1>8, <1>9, <1>11
<1>16. \A q \in Procs : q = proc[p].parent => proc'[q].stat # "waitid"
  BY <1>9, <1>11
<1>17. proc'[p].stat = "SZOMB"
  BY <1>7, <1>8, <1>9, <1>11
<1> QED BY <1>11, <1>12, <1>13, <1>14, <1>15, <1>16, <1>17

\* The steps that change nothing but places and free zombies.
LEMMA QuietEffect ==
    ASSUME TypeOK, NEW p \in Procs
    PROVE  /\ Exit(p) =>
                /\ proc' \in [Procs -> Proc]
                /\ proc'[p].stat = "exit" /\ SameKin(p) /\ SameSpace(p)
                /\ \A q \in Procs \ {p} : proc'[q] = proc[q]
           /\ WaitSleep(p) =>
                /\ proc' \in [Procs -> Proc]
                /\ proc'[p].stat = "waitid" /\ SameKin(p) /\ SameSpace(p)
                /\ \A q \in Procs \ {p} : proc'[q] = proc[q]
           /\ FutexWait(p) =>
                /\ proc' \in [Procs -> Proc]
                /\ proc'[p].stat = "futex" /\ SameKin(p) /\ SameSpace(p)
                /\ \A q \in Procs \ {p} : proc'[q] = proc[q]
           /\ FutexWake(p) =>
                /\ proc' \in [Procs -> Proc]
                /\ proc'[p].stat = "run" /\ SameKin(p) /\ SameSpace(p)
                /\ \A q \in Procs \ {p} : proc'[q] = proc[q]
           /\ \A c \in Procs : WaitReap(p, c) =>
                /\ proc' \in [Procs -> Proc]
                /\ proc'[c] = NoProc /\ \A q \in Procs \ {c} : proc'[q] = proc[q]
<1>1. proc \in [Procs -> Proc] /\ proc[p] \in Proc
  BY DEF TypeOK
<1>2. ASSUME NEW s \in Stat, proc' = [proc EXCEPT ![p].stat = s]
      PROVE  /\ proc' \in [Procs -> Proc]
             /\ proc'[p].stat = s /\ SameKin(p) /\ SameSpace(p)
             /\ \A q \in Procs \ {p} : proc'[q] = proc[q]
  <2> DEFINE v == [proc[p] EXCEPT !.stat = s]
  <2>1. proc' = [q \in Procs |-> IF q = p THEN v ELSE proc[q]]
    BY <1>1, <1>2, Zenon
  <2>2. v \in Proc
    BY <1>1, Zenon DEF Proc
  <2>3. /\ v.stat = s /\ v.svfork = proc[p].svfork /\ v.as = proc[p].as
        /\ v.parent = proc[p].parent /\ v.nextofkin = proc[p].nextofkin
        /\ v.sthread = proc[p].sthread /\ v.svfdone = proc[p].svfdone
        /\ v.nas = proc[p].nas
    BY <1>1, Zenon DEF Proc
  <2> HIDE DEF v
  <2>4. proc'[p] = v /\ \A q \in Procs \ {p} : proc'[q] = proc[q]
    BY <2>1
  <2>5. proc' \in [Procs -> Proc]
    BY <1>1, <2>1, <2>2
  <2> QED BY <2>3, <2>4, <2>5 DEF SameKin, SameSpace
<1>3. "exit" \in Stat /\ "waitid" \in Stat /\ "futex" \in Stat /\ "run" \in Stat
  BY DEF Stat
<1>4. ASSUME NEW c \in Procs, WaitReap(p, c)
      PROVE  /\ proc' \in [Procs -> Proc]
             /\ proc'[c] = NoProc /\ \A q \in Procs \ {c} : proc'[q] = proc[q]
  BY <1>1, <1>4, NoProcType DEF WaitReap
<1>5. /\ Exit(p) => proc' = [proc EXCEPT ![p].stat = "exit"]
      /\ WaitSleep(p) => proc' = [proc EXCEPT ![p].stat = "waitid"]
      /\ FutexWait(p) => proc' = [proc EXCEPT ![p].stat = "futex"]
      /\ FutexWake(p) => proc' = [proc EXCEPT ![p].stat = "run"]
  BY Zenon DEF Exit, WaitSleep, FutexWait, FutexWake
<1> QED BY <1>2, <1>3, <1>4, <1>5, Zenon

\* One turn of exit_threads() moves p and wakes its threads.
LEMMA ExitThreadsEffect ==
    ASSUME TypeOK, NEW p \in Procs, ExitThreads(p)
    PROVE  /\ proc' \in [Procs -> Proc]
           /\ proc'[p].stat = "exitsleep" /\ SameKin(p) /\ SameSpace(p)
           /\ \A q \in ThreadsOf(p) \ {p} :
                /\ SameKin(q) /\ SameSpace(q)
                /\ proc'[q].stat = IF proc[q].stat = "waitid"
                                   THEN "run" ELSE proc[q].stat
           /\ \A q \in Procs \ (ThreadsOf(p) \cup {p}) : proc'[q] = proc[q]
<1> DEFINE T == ThreadsOf(p)
           v == [proc[p] EXCEPT !.stat = "exitsleep"]
           n(q) == IF proc[q].stat = "waitid" THEN "run" ELSE proc[q].stat
           u(q) == [proc[q] EXCEPT !.kill = TRUE, !.stat = n(q)]
<1>1. proc \in [Procs -> Proc] /\ proc[p] \in Proc
  BY DEF TypeOK
<1>3. /\ v \in Proc
      /\ v.stat = "exitsleep" /\ v.svfork = proc[p].svfork /\ v.as = proc[p].as
      /\ v.parent = proc[p].parent /\ v.nextofkin = proc[p].nextofkin
      /\ v.sthread = proc[p].sthread /\ v.svfdone = proc[p].svfdone
      /\ v.nas = proc[p].nas
  BY <1>1, Zenon DEF Proc, Stat
<1>4. ASSUME NEW q \in Procs
      PROVE  LET r == u(q)
             IN  /\ r \in Proc /\ r.stat = n(q)
                 /\ r.svfork = proc[q].svfork /\ r.as = proc[q].as
                 /\ r.parent = proc[q].parent /\ r.nextofkin = proc[q].nextofkin
                 /\ r.sthread = proc[q].sthread /\ r.svfdone = proc[q].svfdone
                 /\ r.nas = proc[q].nas
  <2>1. n(q) \in Stat /\ proc[q] \in Proc
    BY <1>1, Fields DEF Stat
  <2> HIDE DEF n
  <2> QED BY <2>1, Zenon DEF Proc
<1>2. T \subseteq Procs
  BY DEF ThreadsOf, Children
<1>5. /\ \A q \in T \ {p} : proc'[q] = u(q)
      /\ \A q \in Procs \ (T \cup {p}) : proc'[q] = proc[q]
      /\ proc'[p] = v
      /\ proc' = [q \in Procs |-> proc'[q]]
  <2>1. ASSUME NEW q \in T \ {p} PROVE proc'[q] = u(q)
    BY <1>2, Zenon DEF ExitThreads
  <2>2. ASSUME NEW q \in Procs \ (T \cup {p}) PROVE proc'[q] = proc[q]
    BY Zenon DEF ExitThreads
  <2>3. proc'[p] = v
    BY Zenon DEF ExitThreads
  <2>4. proc' = [q \in Procs |-> proc'[q]]
    BY Zenon DEF ExitThreads
  <2> QED BY <2>1, <2>2, <2>3, <2>4, Zenon
<1>6. proc' \in [Procs -> Proc]
  <2>1. \A q \in Procs : proc'[q] \in Proc
    <3>1. ASSUME NEW q \in Procs PROVE proc'[q] \in Proc
      <4>1. CASE q = p
        BY <4>1, <1>3, <1>5, Zenon
      <4>2. CASE q \in T \ {p}
        BY <4>2, <1>4, <1>5, Zenon
      <4>3. CASE q \in Procs \ (T \cup {p})
        BY <4>3, <1>1, <1>5, Zenon
      <4> QED BY <4>1, <4>2, <4>3
    <3> QED BY <3>1
  <2>2. proc' = [q \in Procs |-> proc'[q]]
    BY <1>5, Zenon
  <2> QED BY <2>1, <2>2
<1>8. /\ proc'[p].stat = "exitsleep" /\ SameKin(p) /\ SameSpace(p)
  <2> HIDE DEF v
  <2> QED BY <1>3, <1>5 DEF SameKin, SameSpace
<1>9. \A q \in T \ {p} : /\ SameKin(q) /\ SameSpace(q)
                          /\ proc'[q].stat = n(q)
  <2> SUFFICES ASSUME NEW q \in T \ {p}
               PROVE  SameKin(q) /\ SameSpace(q) /\ proc'[q].stat = n(q)
    OBVIOUS
  <2>1. proc'[q] = u(q) /\ q \in Procs
    BY <1>2, <1>5, Zenon
  <2> HIDE DEF n
  <2> QED BY <2>1, <1>4, Zenon DEF SameKin, SameSpace
<1> QED BY <1>5, <1>6, <1>8, <1>9, Zenon

\* sigaction() with SA_NOCLDWAIT frees the zombies of p.
LEMMA SetNoWaitEffect ==
    ASSUME TypeOK, NEW p \in Procs, NEW on \in BOOLEAN, SetNoWait(p, on)
    PROVE  /\ proc' \in [Procs -> Proc]
           /\ proc'[p].stat = "run" /\ SameKin(p) /\ SameSpace(p)
           /\ \A q \in Procs \ {p} :
                \/ proc'[q] = proc[q]
                \/ proc[q].stat = "SZOMB" /\ q \in Children(p) /\ proc'[q] = NoProc
<1> DEFINE v == [proc[p] EXCEPT !.snowait = on]
<1>1. proc \in [Procs -> Proc] /\ proc[p] \in Proc /\ proc[p].stat = "run"
  BY DEF TypeOK, SetNoWait, At
<1>2. proc' = [q \in Procs |->
                  IF q = p THEN v
                  ELSE IF on /\ q \in Children(p) /\ proc[q].stat = "SZOMB"
                       THEN NoProc ELSE proc[q]]
  BY Zenon DEF SetNoWait
<1>3. /\ v \in Proc
      /\ v.stat = proc[p].stat /\ v.svfork = proc[p].svfork /\ v.as = proc[p].as
      /\ v.parent = proc[p].parent /\ v.nextofkin = proc[p].nextofkin
      /\ v.sthread = proc[p].sthread /\ v.svfdone = proc[p].svfdone
      /\ v.nas = proc[p].nas
  BY <1>1, Zenon DEF Proc
<1> HIDE DEF v
<1>4. proc'[p] = v /\ \A q \in Procs \ {p} :
                \/ proc'[q] = proc[q]
                \/ proc[q].stat = "SZOMB" /\ q \in Children(p) /\ proc'[q] = NoProc
  BY <1>2
<1>5. proc' \in [Procs -> Proc]
  BY <1>1, <1>2, <1>3, NoProcType
<1> QED BY <1>1, <1>3, <1>4, <1>5 DEF SameKin, SameSpace

\* segu_release() frees the entry of the last process that exited, or leaves
\* it, and wakes the parent of a thread.
LEMMA SeguReleaseEffect ==
    ASSUME TypeOK, NEW p \in Procs, SeguRelease(p)
    PROVE  /\ proc' \in [Procs -> Proc]
           /\ \/ proc'[p] = NoProc
              \/ ~proc[p].sthread /\ proc'[p] = proc[p]
           /\ \A q \in Procs \ {p} :
                /\ SameKin(q) /\ SameSpace(q)
                /\ \/ proc'[q].stat = proc[q].stat
                   \/ proc[q].stat = "exitsleep" /\ proc'[q].stat = "exit"
                   \/ proc[q].stat = "waitid" /\ proc'[q].stat = "run"
<1> DEFINE w == SeguWake(proc, p)
<1>1. proc \in [Procs -> Proc]
  BY DEF TypeOK
<1>2. /\ w \in [Procs -> Proc]
      /\ \A q \in Procs :
           /\ w[q].parent = proc[q].parent /\ w[q].nextofkin = proc[q].nextofkin
           /\ w[q].sthread = proc[q].sthread /\ w[q].svfork = proc[q].svfork
           /\ w[q].svfdone = proc[q].svfdone /\ w[q].as = proc[q].as
           /\ w[q].nas = proc[q].nas
           /\ \/ w[q].stat = proc[q].stat
              \/ proc[q].stat = "exitsleep" /\ w[q].stat = "exit"
              \/ proc[q].stat = "waitid" /\ w[q].stat = "run"
  <2>1. CASE proc[p].sthread
    <3>1. w = Wake(proc, proc[p].parent)
      BY <2>1 DEF SeguWake
    <3> QED BY <1>1, <3>1, WakeEffect
  <2>2. CASE ~proc[p].sthread
    <3>1. w = proc
      BY <2>2 DEF SeguWake
    <3> QED BY <1>1, <3>1
  <2> QED BY <2>1, <2>2
<1>3. ~proc[p].sthread => w = proc
  BY DEF SeguWake
<1>4. \/ proc' = [w EXCEPT ![p] = NoProc]
      \/ ~proc[p].sthread /\ proc' = w
  BY DEF SeguRelease
<1> HIDE DEF w
<1>5. /\ proc' \in [Procs -> Proc]
      /\ proc'[p] = NoProc \/ (~proc[p].sthread /\ proc'[p] = proc[p])
      /\ \A q \in Procs \ {p} : proc'[q] = w[q]
  BY <1>2, <1>3, <1>4, NoProcType
<1> QED BY <1>2, <1>5 DEF SameKin, SameSpace

(***************************************************************************)
(* Types.                                                                  *)
(***************************************************************************)

\* The process table, the spaces in use and the last process that exited keep
\* their types in every step of the code, whoever creates threads.
LEMMA TypeStep == TypeOK /\ [Next]_vars => TypeOK'
<1> SUFFICES ASSUME TypeOK, [Next]_vars PROVE TypeOK'
  OBVIOUS
<1>0. proc \in [Procs -> Proc] /\ live \subseteq Spaces
      /\ oldproc \in Procs \cup {NULL}
      /\ \A q \in Procs : proc[q].as \in Spaces \cup {NULL}
  BY Fields DEF TypeOK
<1>1. ASSUME NEW p \in Procs, NEW c \in Procs, ThreadCreate(p, c) PROVE TypeOK'
  BY <1>0, <1>1, NewprocEffect DEF ThreadCreate, newproc, Born, TypeOK
<1>2. ASSUME NEW p \in Procs, NEW c \in Procs, Fork(p, c) PROVE TypeOK'
  BY <1>0, <1>2, NewprocEffect, FreshSpace DEF Fork, newproc, Born, TypeOK
<1>3. ASSUME NEW p \in Procs, NEW c \in Procs, Vfork(p, c) PROVE TypeOK'
  BY <1>0, <1>3, NewprocEffect DEF Vfork, newproc, Born, TypeOK
<1>4. ASSUME NEW p \in Procs, NEW c \in Procs, VforkDone(p, c) PROVE TypeOK'
  BY <1>0, <1>4, VforkDoneEffect DEF VforkDone, TypeOK
<1>5. ASSUME NEW p \in Procs, NEW c \in Procs, WaitReap(p, c) PROVE TypeOK'
  BY <1>0, <1>5, QuietEffect DEF WaitReap, TypeOK
<1>6. ASSUME NEW p \in Procs, NEW on \in BOOLEAN, SetNoWait(p, on) PROVE TypeOK'
  BY <1>0, <1>6, SetNoWaitEffect DEF SetNoWait, TypeOK
<1>7. ASSUME NEW p \in Procs, Exec(p) PROVE TypeOK'
  BY <1>0, <1>7, ExecEffect, FreshSpace DEF Exec, TypeOK
<1>8. ASSUME NEW p \in Procs, ExecVforked(p) PROVE TypeOK'
  BY <1>0, <1>8, RelvmEffect, FreshSpace DEF ExecVforked, TypeOK
<1>9. ASSUME NEW p \in Procs, RelvmDone(p) PROVE TypeOK'
  BY <1>0, <1>9, RelvmEffect DEF RelvmDone, TypeOK
<1>10. ASSUME NEW p \in Procs, ThreadExit(p) PROVE TypeOK'
  BY <1>0, <1>10, LeaveEffect DEF ThreadExit, TypeOK
<1>11. ASSUME NEW p \in Procs, Exit(p) PROVE TypeOK'
  BY <1>0, <1>11, QuietEffect DEF Exit, TypeOK
<1>12. ASSUME NEW p \in Procs, ExitThreads(p) PROVE TypeOK'
  BY <1>0, <1>12, ExitThreadsEffect DEF ExitThreads, TypeOK
<1>13. ASSUME NEW p \in Procs, ExitVm(p) PROVE TypeOK'
  <2>1. proc' \in [Procs -> Proc]
    BY <1>13, RelvmEffect, LeaveEffect
  <2> QED BY <1>0, <1>13, <2>1 DEF ExitVm, TypeOK
<1>14. ASSUME NEW p \in Procs, ExitZombie(p) PROVE TypeOK'
  BY <1>0, <1>14, ExitZombieEffect DEF ExitZombie, TypeOK
<1>15. ASSUME NEW p \in Procs, SeguRelease(p) PROVE TypeOK'
  BY <1>0, <1>15, SeguReleaseEffect DEF SeguRelease, TypeOK
<1>16. ASSUME NEW p \in Procs, WaitSleep(p) PROVE TypeOK'
  BY <1>0, <1>16, QuietEffect DEF WaitSleep, TypeOK
<1>17. ASSUME NEW p \in Procs, FutexWait(p) \/ FutexWake(p) PROVE TypeOK'
  BY <1>0, <1>17, QuietEffect DEF FutexWait, FutexWake, TypeOK
<1>18. CASE UNCHANGED vars
  BY <1>18 DEF vars, TypeOK
<1> QED BY <1>1, <1>2, <1>3, <1>4, <1>5, <1>6, <1>7, <1>8, <1>9, <1>10, <1>11,
           <1>12, <1>13, <1>14, <1>15, <1>16, <1>17, <1>18
           DEF Next, Create, Other

\* When the system is up there is init, with a space of its own.
LEMMA InitFacts ==
    ASSUME Init
    PROVE  /\ TypeOK /\ oldproc = NULL
           /\ proc[proc_init].stat = "run" /\ proc[proc_init].sthread = FALSE
           /\ proc[proc_init].svfork = FALSE /\ proc[proc_init].svfdone = FALSE
           /\ proc[proc_init].nas = NULL /\ proc[proc_init].parent = NULL
           /\ proc[proc_init].as \in Spaces /\ live = {proc[proc_init].as}
           /\ \A q \in Procs \ {proc_init} : proc[q] = NoProc
<1> DEFINE a == CHOOSE b \in Spaces : TRUE
           v == [NoProc EXCEPT !.stat = "run", !.as = a]
<1>1. a \in Spaces
  BY ThreadsAssumption
<1>2. /\ proc = [p \in Procs |-> IF p = proc_init THEN v ELSE NoProc]
      /\ live = {a} /\ oldproc = NULL
  BY Zenon DEF Init
<1> HIDE DEF a
<1>3. v \in Proc
  BY <1>1, ThreadsAssumption, Zenon DEF NoProc, Proc, Stat
<1>4. v.stat = "run" /\ v.as = a /\ v.sthread = FALSE /\ v.svfork = FALSE
      /\ v.svfdone = FALSE /\ v.nas = NULL /\ v.parent = NULL
  BY Zenon DEF NoProc
<1> HIDE DEF v
<1>5. proc \in [Procs -> Proc]
  BY <1>2, <1>3, NoProcType
<1> QED BY <1>1, <1>2, <1>4, <1>5, ThreadsAssumption DEF TypeOK

\* The process table, the spaces in use and the last process that exited
\* have their types: every place the code leaves a process at is one of those
\* the model names.
THEOREM Typed == Spec => []TypeOK
<1>1. Init => TypeOK
  BY InitFacts
<1> QED BY <1>1, TypeStep, PTL DEF Spec

(***************************************************************************)
(* Kinship.                                                                *)
(***************************************************************************)

\* A step that creates nobody and hands nobody over leaves the ancestry alone.
LEMMA RootedKept ==
    ASSUME RootedKin,
           \A q \in Procs : proc'[q].stat # "free" =>
               /\ proc[q].stat # "free"
               /\ proc'[q].parent = proc[q].parent
               /\ proc'[q].nextofkin = proc[q].nextofkin
    PROVE  RootedKin'
<1>1. Existing' \subseteq Existing /\ Existing \subseteq Procs
  BY DEF Existing, Exists
<1>2. \A q \in Existing' : /\ proc'[q].parent = proc[q].parent
                           /\ proc'[q].nextofkin = proc[q].nextofkin
  BY DEF Existing, Exists
<1>3. ASSUME NEW S \in SUBSET Existing', S # {},
             \A p \in S \ {proc_init} : proc'[p].nextofkin \in S
      PROVE  proc_init \in S
  BY <1>1, <1>2, <1>3 DEF RootedKin
<1>4. ASSUME NEW S \in SUBSET Existing', S # {},
             \A p \in S \ {proc_init} : proc'[p].parent \in S
      PROVE  proc_init \in S
  BY <1>1, <1>2, <1>4 DEF RootedKin
<1> QED BY <1>3, <1>4 DEF RootedKin

\* A new process hangs from the one that made it: nobody that exists already
\* descends from it.
LEMMA RootedNew ==
    ASSUME RootedKin, KinIsProcess, TableSound, TypeOK,
           NEW p \in Procs, NEW c \in Procs, p # c,
           proc[p].stat # "free", proc[c].stat = "free",
           proc'[c].parent = p, proc'[c].nextofkin = p,
           \A q \in Procs \ {c} :
               /\ proc'[q].stat # "free" => proc[q].stat # "free"
               /\ proc'[q].parent = proc[q].parent
               /\ proc'[q].nextofkin = proc[q].nextofkin
    PROVE  RootedKin'
<1>1. Existing' \subseteq Existing \cup {c} /\ p \in Existing /\ c \notin Existing
      /\ proc_init # c
  BY ThreadsAssumption DEF Existing, Exists, TableSound
<1>2. \A q \in Existing : q # proc_init => /\ proc[q].parent # c
                                           /\ proc[q].nextofkin # c
                                           /\ q \in Procs \ {c}
  BY <1>1 DEF Existing, KinIsProcess
<1>3. ASSUME NEW S \in SUBSET Existing', S # {},
             \A q \in S \ {proc_init} : proc'[q].nextofkin \in S
      PROVE  proc_init \in S
  <2>1. S \ {c} \in SUBSET Existing
    BY <1>1
  <2>2. S \ {c} # {}
    BY <1>1, <1>3
  <2>3. \A q \in (S \ {c}) \ {proc_init} : proc[q].nextofkin \in S \ {c}
    BY <1>2, <1>3, <2>1
  <2> QED BY <2>1, <2>2, <2>3 DEF RootedKin
<1>4. ASSUME NEW S \in SUBSET Existing', S # {},
             \A q \in S \ {proc_init} : proc'[q].parent \in S
      PROVE  proc_init \in S
  <2>1. S \ {c} \in SUBSET Existing
    BY <1>1
  <2>2. S \ {c} # {}
    BY <1>1, <1>4
  <2>3. \A q \in (S \ {c}) \ {proc_init} : proc[q].parent \in S \ {c}
    BY <1>2, <1>4, <2>1
  <2> QED BY <2>1, <2>2, <2>3 DEF RootedKin
<1> QED BY <1>3, <1>4 DEF RootedKin

\* No process is its own next of kin.
LEMMA NotOwnKin ==
    ASSUME RootedKin, NEW p \in Procs \ {proc_init}, Exists(p)
    PROVE  proc[p].nextofkin # p
<1> SUFFICES ASSUME proc[p].nextofkin = p PROVE FALSE
  OBVIOUS
<1>1. {p} \in SUBSET Existing /\ {p} # {}
  BY DEF Existing
<1>2. \A q \in {p} \ {proc_init} : proc[q].nextofkin \in {p}
  OBVIOUS
<1>3. proc_init \in {p}
  BY <1>1, <1>2 DEF RootedKin
<1> QED BY <1>3

\* exit() shortens the chains that go through p and keeps where they lead.
LEMMA RootedExit ==
    ASSUME RootedKin, TypeOK, NEW p \in Procs, p # proc_init, Exists(p),
           \A q \in Procs : proc'[q].stat # "free" =>
               /\ proc[q].stat # "free"
               /\ proc'[q].nextofkin = IF proc[q].nextofkin = p
                    THEN proc[p].nextofkin ELSE proc[q].nextofkin
               /\ proc'[q].parent = IF proc[q].parent = p
                    THEN proc_init ELSE proc[q].parent
    PROVE  RootedKin'
<1>1. Existing' \subseteq Existing /\ p \in Existing /\ Existing \subseteq Procs
  BY DEF Existing, Exists
<1>2. \A q \in Existing' :
         /\ proc'[q].nextofkin = IF proc[q].nextofkin = p
                    THEN proc[p].nextofkin ELSE proc[q].nextofkin
         /\ proc'[q].parent = IF proc[q].parent = p
                    THEN proc_init ELSE proc[q].parent
  BY DEF Existing, Exists
<1>3. ASSUME NEW S \in SUBSET Existing', S # {},
             \A q \in S \ {proc_init} : proc'[q].nextofkin \in S
      PROVE  proc_init \in S
  <2>1. CASE p \notin S /\ \A q \in S \ {proc_init} : proc[q].nextofkin # p
    BY <1>1, <1>2, <1>3, <2>1 DEF RootedKin
  <2>2. CASE p \in S \/ \E q \in S \ {proc_init} : proc[q].nextofkin = p
    <3> DEFINE T == S \cup {p}
    <3>1. T \in SUBSET Existing /\ T # {}
      BY <1>1
    <3>2. proc[p].nextofkin \in T
      <4>1. CASE p \in S
        BY <1>2, <1>3, <4>1
      <4>2. CASE \E q \in S \ {proc_init} : proc[q].nextofkin = p
        BY <1>2, <1>3, <4>2
      <4> QED BY <2>2, <4>1, <4>2
    <3>3. \A q \in T \ {proc_init} : proc[q].nextofkin \in T
      BY <1>2, <1>3, <3>2
    <3>4. proc_init \in T
      BY <3>1, <3>3 DEF RootedKin
    <3> QED BY <3>4
  <2> QED BY <2>1, <2>2
<1>4. ASSUME NEW S \in SUBSET Existing', S # {},
             \A q \in S \ {proc_init} : proc'[q].parent \in S
      PROVE  proc_init \in S
  <2>1. CASE \A q \in S \ {proc_init} : proc[q].parent # p
    BY <1>1, <1>2, <1>4, <2>1 DEF RootedKin
  <2>2. CASE \E q \in S \ {proc_init} : proc[q].parent = p
    BY <1>2, <1>4, <2>2
  <2> QED BY <2>1, <2>2
<1> QED BY <1>3, <1>4 DEF RootedKin

(***************************************************************************)
(* Address spaces.                                                         *)
(***************************************************************************)
\* Somebody uses a, or exec has it ready.
Used(a) == \/ \E p \in Procs : proc[p].stat \in UsesSpace /\ proc[p].as = a
           \/ a # NULL /\ \E p \in Procs : proc[p].nas = a

\* SpaceSound, element by element.
LEMMA SpaceForm ==
    /\ SpaceSound <=> \A a : a \in live <=> Used(a)
    /\ SpaceSound' <=> \A a : a \in live' <=> Used(a)'
BY DEF SpaceSound, Used

\* The parts of the invariant that waitid() has nothing to do with.
CoreInv ==
    /\ TypeOK /\ TableSound /\ KinIsProcess /\ RootedKin /\ ThreadSound
    /\ PlaceSound /\ VforkSound /\ OwnersApart /\ SpaceSound

\* The space of a process that owns it, runs and has no threads is used by
\* nobody else: a vforked child of it, or of a child of it, and so on, would
\* have it asleep in vfwait().
LEMMA SoleUser ==
    ASSUME CoreInv, NEW p \in Procs, Owner(p), proc[p].stat # "vfwait",
           ThreadsOf(p) = {}, NEW q \in Procs, proc[q].stat \in UsesSpace,
           proc[q].as = proc[p].as
    PROVE  q = p
<1> DEFINE B == {b \in Procs : proc[b].svfork /\ proc[b].as = proc[p].as}
<1>1. ASSUME NEW b \in Procs, proc[b].stat \in UsesSpace, ~proc[b].sthread,
             proc[b].as = proc[p].as, ~proc[b].svfork
      PROVE  b = p
  BY <1>1 DEF CoreInv, OwnersApart, Owner
<1>2. \A b \in B : b # proc_init /\ Exists(b) /\ proc[b].stat \in UsesSpace
  BY DEF CoreInv, TableSound, PlaceSound, Exists, UsesSpace
<1>3. ASSUME NEW b \in B PROVE proc[b].parent \in B
  <2> DEFINE m == proc[b].parent
  <2>1. m \in Procs /\ ~proc[m].sthread
    BY <1>2, <1>3 DEF CoreInv, KinIsProcess
  <2>2. proc[m].stat = "vfwait" /\ proc[m].as = proc[p].as
    BY <1>3 DEF CoreInv, VforkSound, Borrower
  <2>3. m # p
    BY <2>2
  <2> QED BY <1>1, <2>1, <2>2, <2>3 DEF UsesSpace
<1>4. B = {}
  <2> SUFFICES ASSUME B # {} PROVE FALSE
    OBVIOUS
  <2>1. B \in SUBSET Existing
    BY <1>2 DEF Existing
  <2>2. proc_init \in B
    BY <1>3, <2>1 DEF CoreInv, RootedKin
  <2> QED BY <1>2, <2>2
<1>5. CASE proc[q].sthread
  <2> DEFINE m == proc[q].parent
  <2>1. proc[m].stat \in UsesSpace /\ proc[m].as = proc[p].as
    BY <1>5 DEF CoreInv, ThreadSound
  <2>2. q # proc_init /\ Exists(q)
    BY <1>5 DEF CoreInv, TableSound, Exists, UsesSpace
  <2>3. m \in Procs /\ ~proc[m].sthread
    BY <2>2 DEF CoreInv, KinIsProcess
  <2>4. m = p
    BY <1>1, <1>4, <2>1, <2>3
  <2> QED BY <1>5, <2>2, <2>4 DEF ThreadsOf, Children
<1>6. CASE ~proc[q].sthread
  BY <1>1, <1>4, <1>6
<1> QED BY <1>5, <1>6

(***************************************************************************)
(* Steps that only move processes about and free zombies.                  *)
(***************************************************************************)
\* waitid(), exit(), exit_threads(), sigaction() and segu_release() disturb
\* nobody's kin or space.
LEMMA QuietKeeps ==
    ASSUME CoreInv, TypeOK', TableSound', live' = live,
           \A q \in Procs : Quiet(q),
           \A q \in Procs : proc'[q].sthread =>
               /\ proc'[q].stat \in {"run", "futex", "SZOMB"}
               /\ proc'[q].stat = "SZOMB" => oldproc' = q
    PROVE  CoreInv'
<1>0. /\ NoProc.stat = "free" /\ NoProc.sthread = FALSE
      /\ NoProc.svfork = FALSE /\ NoProc.svfdone = FALSE
      /\ NoProc.as = NULL /\ NoProc.nas = NULL
  BY DEF NoProc
<1>1. ASSUME NEW q \in Procs
      PROVE  /\ proc'[q].stat # "free" => SameKin(q) /\ SameSpace(q)
             /\ proc'[q].stat # "free" => proc[q].stat # "free"
             /\ proc[q].stat \notin {"free", "SZOMB"} =>
                  proc'[q].stat \notin {"free", "SZOMB"}
             /\ proc[q].stat \in UsesSpace <=> proc'[q].stat \in UsesSpace
             /\ proc[q].stat = "vfwait" <=> proc'[q].stat = "vfwait"
             /\ proc[q].stat = "relvm" <=> proc'[q].stat = "relvm"
             /\ proc'[q].nas = proc[q].nas
             /\ proc'[q].svfork = proc[q].svfork
             /\ proc'[q].svfdone = proc[q].svfdone
             /\ proc'[q].sthread => proc[q].sthread
  <2>1. CASE proc[q].stat = "SZOMB" /\ proc'[q] = NoProc
    <3>1. proc[q].nas = NULL /\ ~proc[q].svfork /\ ~proc[q].svfdone
      BY <2>1 DEF CoreInv, PlaceSound, UsesSpace
    <3>2. proc[q].svfork \in BOOLEAN /\ proc[q].svfdone \in BOOLEAN
      BY Fields DEF CoreInv, TypeOK
    <3>3. proc[q].svfork = FALSE /\ proc[q].svfdone = FALSE
      BY <3>1, <3>2
    <3> QED BY <1>0, <2>1, <3>1, <3>3 DEF UsesSpace
  <2>2. CASE ~(proc[q].stat = "SZOMB" /\ proc'[q] = NoProc)
    BY <2>2 DEF Quiet, SameKin, SameSpace, UsesSpace, Busy
  <2> QED BY <2>1, <2>2
<1>2. KinIsProcess'
  BY <1>1 DEF CoreInv, KinIsProcess, Exists, SameKin
<1>3. RootedKin'
  BY <1>1, RootedKept DEF CoreInv, SameKin
<1>4. ASSUME NEW q \in Procs, proc'[q].stat \in UsesSpace \/ proc'[q].sthread
      PROVE  SameKin(q) /\ SameSpace(q) /\ proc[q].stat # "free"
  BY <1>0, <1>1, <1>4 DEF UsesSpace, TableSound
<1>5. ThreadSound'
  <2> SUFFICES ASSUME NEW q \in Procs, proc'[q].sthread
               PROVE  /\ ~proc'[q].svfork
                      /\ proc'[proc'[q].parent].stat \in UsesSpace
                      /\ proc'[q].as = proc'[proc'[q].parent].as
    BY DEF ThreadSound
  <2> DEFINE m == proc[q].parent
  <2>1. proc[q].sthread /\ proc'[q].parent = m /\ q # proc_init /\ Exists(q)
    BY <1>1, <1>4 DEF CoreInv, TableSound, SameKin, Exists
  <2>2. m \in Procs /\ proc[m].stat \in UsesSpace /\ proc[q].as = proc[m].as
    BY <2>1 DEF CoreInv, KinIsProcess, ThreadSound
  <2>3. proc'[m].stat \in UsesSpace
    BY <1>1, <2>2
  <2>4. proc'[q].as = proc[q].as /\ proc'[m].as = proc[m].as
    BY <1>4, <2>2, <2>3 DEF SameSpace
  <2> QED BY <1>1, <2>1, <2>2, <2>3, <2>4 DEF CoreInv, ThreadSound
<1>6. PlaceSound'
  BY <1>1, <1>4 DEF CoreInv, PlaceSound, SameSpace
<1>7. ASSUME NEW q \in Procs, Borrower(q)'
      PROVE  Borrower(q) /\ proc'[q].parent = proc[q].parent
             /\ proc[q].parent \in Procs /\ SameSpace(q)
  <2>1. Borrower(q) /\ proc[q].stat # "free" /\ proc[q].stat # "SZOMB"
    BY <1>1, <1>7 DEF Borrower, CoreInv, PlaceSound, UsesSpace
  <2>2. proc'[q].stat # "free" /\ q # proc_init
    BY <1>1, <2>1 DEF CoreInv, TableSound, Borrower
  <2> QED BY <1>1, <2>1, <2>2 DEF SameKin, CoreInv, KinIsProcess, Exists
<1>8. VforkSound'
  <2>1. ASSUME NEW q \in Procs, Borrower(q)'
        PROVE  proc'[proc'[q].parent].stat = "vfwait"
    BY <1>1, <1>7, <2>1 DEF CoreInv, VforkSound
  <2>2. ASSUME NEW q \in Procs, proc'[q].svfork
        PROVE  proc'[q].as = proc'[proc'[q].parent].as
    <3>1. Borrower(q)'
      BY <2>2 DEF Borrower
    <3>2. proc'[proc'[q].parent].stat \in UsesSpace
      BY <2>1, <3>1 DEF UsesSpace
    <3> QED BY <1>4, <1>7, <2>2, <3>1, <3>2 DEF CoreInv, VforkSound, SameSpace
  <2>3. ASSUME NEW q \in Procs, NEW r \in Procs, Borrower(q)', Borrower(r)',
               proc'[q].parent = proc'[r].parent
        PROVE  q = r
    BY <1>7, <2>3 DEF CoreInv, VforkSound
  <2> QED BY <2>1, <2>2, <2>3 DEF VforkSound
<1>9. \A q \in Procs : Owner(q)' => Owner(q) /\ proc'[q].as = proc[q].as
  BY <1>1, <1>4 DEF Owner, SameKin, SameSpace
<1>10. OwnersApart'
  BY <1>1, <1>9 DEF CoreInv, OwnersApart
<1>11. SpaceSound'
  <2>1. \A a : Used(a)' <=> Used(a)
    BY <1>1, <1>4 DEF Used, SameSpace
  <2>2. SpaceSound <=> \A a : a \in live <=> Used(a)
    BY SpaceForm
  <2>3. SpaceSound' <=> \A a : a \in live' <=> Used(a)'
    BY SpaceForm
  <2> QED BY <2>1, <2>2, <2>3 DEF CoreInv
<1> QED BY <1>2, <1>3, <1>5, <1>6, <1>8, <1>10, <1>11 DEF CoreInv

(***************************************************************************)
(* Creation.                                                               *)
(***************************************************************************)

\* p has made c.
Made(p, c, kind, space) ==
    /\ At(p, "run") /\ ~Exists(c) /\ ~proc[p].sthread /\ oldproc' = oldproc
    /\ proc'[c].stat = "run" /\ proc'[c].parent = p /\ proc'[c].nextofkin = p
    /\ proc'[c].sthread <=> kind = "thread"
    /\ proc'[c].svfork <=> kind = "vfork"
    /\ ~proc'[c].svfdone /\ proc'[c].as = space /\ proc'[c].nas = NULL
    /\ proc'[p].stat = IF kind = "vfork" THEN "vfwait" ELSE "run"
    /\ SameKin(p) /\ SameSpace(p)
    /\ \A q \in Procs \ {p, c} : proc'[q] = proc[q]
    /\ IF kind = "fork" THEN space \in Spaces \ live /\ live' = live \cup {space}
                        ELSE space = proc[p].as /\ live' = live

\* fork, vfork and thread_create() by a process that is not a thread: the new
\* entry fits into the table, with a new space or with its maker's.
LEMMA NewprocKeeps ==
    ASSUME CoreInv, TypeOK',
           NEW p \in Procs, NEW c \in Procs,
           NEW kind \in {"thread", "fork", "vfork"},
           NEW space \in Spaces \cup {NULL},
           Made(p, c, kind, space)
    PROVE  CoreInv'
<1>1. /\ p # c /\ proc[p].stat = "run" /\ ~proc[p].sthread
      /\ proc[c].stat = "free" /\ proc[c] = NoProc /\ c # proc_init
      /\ oldproc' = oldproc /\ oldproc = NULL
  BY DEF Made, At, Exists, CoreInv, TableSound
<1>2. /\ proc'[c].stat = "run" /\ proc'[c].parent = p
      /\ proc'[c].nextofkin = p
      /\ proc'[c].sthread <=> kind = "thread"
      /\ proc'[c].svfork <=> kind = "vfork"
      /\ ~proc'[c].svfdone
      /\ proc'[c].as = space /\ proc'[c].nas = NULL
      /\ kind # "fork" => space = proc[p].as
  BY DEF Made
<1>3. /\ proc'[p].stat = IF kind = "vfork" THEN "vfwait" ELSE "run"
      /\ SameKin(p) /\ SameSpace(p)
  BY DEF Made
<1>4. \A q \in Procs \ {p, c} : proc'[q] = proc[q]
  BY DEF Made
<1>5. \A q \in Procs \ {c} : /\ SameKin(q) /\ SameSpace(q)
                             /\ q # p => proc'[q].stat = proc[q].stat
  BY <1>3, <1>4 DEF SameKin, SameSpace
<1>6. ASSUME NEW q \in Procs \ {c}, Exists(q), q # proc_init
      PROVE  /\ proc[q].parent \in Procs \ {c}
             /\ proc[q].nextofkin \in Procs \ {c}
  BY <1>1, <1>6 DEF CoreInv, KinIsProcess
<1>7. TableSound'
  <2>1. ASSUME NEW q \in Procs, proc'[q].stat = "free" PROVE proc'[q] = NoProc
    BY <1>2, <1>3, <1>4, <2>1 DEF CoreInv, TableSound
  <2>2. ~proc'[proc_init].sthread /\ ~proc'[proc_init].svfork
        /\ proc'[proc_init].parent = NULL
    BY <1>1, <1>5, ThreadsAssumption DEF CoreInv, TableSound, SameKin, SameSpace
  <2>3. proc'[proc_init].stat \in {"run", "waitid", "futex", "vfwait"}
    BY <1>1, <1>3, <1>5, ThreadsAssumption DEF CoreInv, TableSound
  <2> QED BY <1>1, <2>1, <2>2, <2>3 DEF TableSound
<1>8. KinIsProcess'
  <2> SUFFICES ASSUME NEW q \in Procs \ {proc_init}, proc'[q].stat # "free"
               PROVE  /\ proc'[q].parent \in Procs /\ proc'[q].nextofkin \in Procs
                      /\ proc'[proc'[q].parent].stat \notin {"free", "SZOMB"}
                      /\ proc'[proc'[q].nextofkin].stat \notin {"free", "SZOMB"}
                      /\ ~proc'[proc'[q].parent].sthread
                      /\ ~proc'[proc'[q].nextofkin].sthread
    BY DEF KinIsProcess, Exists
  <2>1. CASE q = c
    BY <1>1, <1>2, <1>3, <2>1 DEF SameKin
  <2>2. CASE q # c
    <3>1. Exists(q) /\ SameKin(q)
      BY <1>1, <1>5, <2>2 DEF Exists
    <3>2. /\ proc[q].parent \in Procs \ {c} /\ proc[q].nextofkin \in Procs \ {c}
      BY <1>6, <2>2, <3>1
    <3>3. ASSUME NEW m \in Procs \ {c}, proc[m].stat \notin {"free", "SZOMB"},
                 ~proc[m].sthread
          PROVE  proc'[m].stat \notin {"free", "SZOMB"} /\ ~proc'[m].sthread
      BY <1>3, <1>5, <3>3 DEF SameKin
    <3> QED BY <3>1, <3>2, <3>3 DEF SameKin, CoreInv, KinIsProcess
  <2> QED BY <2>1, <2>2
<1>9. RootedKin'
  <2>1. \A q \in Procs \ {c} :
               /\ proc'[q].stat # "free" => proc[q].stat # "free"
               /\ proc'[q].parent = proc[q].parent
               /\ proc'[q].nextofkin = proc[q].nextofkin
    BY <1>1, <1>5 DEF SameKin
  <2> QED BY <1>1, <1>2, <2>1, RootedNew DEF CoreInv
<1>10. \A q \in Procs \ {c} : proc'[q].stat \in UsesSpace <=> proc[q].stat \in UsesSpace
  BY <1>1, <1>3, <1>5 DEF UsesSpace
<1>11. proc[p].as # NULL /\ proc[p].as \in live
  <2>1. Used(proc[p].as)
    BY <1>1 DEF Used, UsesSpace
  <2> QED BY <1>1, <2>1, SpaceForm DEF CoreInv, PlaceSound, UsesSpace
<1>12. space # NULL
  BY <1>11, ThreadsAssumption DEF Made
<1>13. ThreadSound'
  <2> SUFFICES ASSUME NEW q \in Procs, proc'[q].sthread
               PROVE  /\ proc'[q].stat \in {"run", "futex", "SZOMB"} /\ ~proc'[q].svfork
                      /\ proc'[q].stat = "SZOMB" => oldproc' = q
                      /\ proc'[proc'[q].parent].stat \in UsesSpace
                      /\ proc'[q].as = proc'[proc'[q].parent].as
    BY DEF ThreadSound
  <2>1. CASE q = c
    BY <1>2, <1>3, <2>1 DEF UsesSpace, SameSpace
  <2>2. CASE q # c
    <3>1. proc[q].sthread /\ SameKin(q) /\ SameSpace(q) /\ q # p
      BY <1>1, <1>5, <2>2 DEF SameKin
    <3>2. q # proc_init /\ Exists(q)
      BY <3>1 DEF CoreInv, TableSound, ThreadSound, Exists
    <3>3. proc[q].parent \in Procs \ {c}
      BY <1>6, <2>2, <3>2
    <3> QED BY <1>1, <1>5, <1>10, <3>1, <3>3 DEF CoreInv, ThreadSound, SameKin, SameSpace
  <2> QED BY <2>1, <2>2
<1>14. PlaceSound'
  <2> SUFFICES ASSUME NEW q \in Procs
               PROVE  /\ proc'[q].stat \in UsesSpace => proc'[q].as # NULL
                      /\ proc'[q].nas # NULL \/ proc'[q].svfdone => proc'[q].stat = "relvm"
                      /\ proc'[q].svfork => proc'[q].stat \in UsesSpace
    BY DEF PlaceSound
  <2>1. CASE q = c
    BY <1>2, <1>12, <2>1 DEF UsesSpace
  <2>2. CASE q # c
    <3>1. /\ proc'[q].as = proc[q].as /\ proc'[q].nas = proc[q].nas
          /\ proc'[q].svfork = proc[q].svfork /\ proc'[q].svfdone = proc[q].svfdone
          /\ proc[q].stat = "relvm" => proc'[q].stat = "relvm"
      BY <1>1, <1>5, <2>2 DEF SameSpace
    <3> QED BY <1>10, <2>2, <3>1 DEF CoreInv, PlaceSound
  <2> QED BY <2>1, <2>2
<1>15. ASSUME NEW q \in Procs \ {c}, Borrower(q)'
       PROVE  /\ Borrower(q) /\ proc'[q].parent = proc[q].parent
              /\ proc[q].parent \in Procs \ {p, c} /\ SameSpace(q)
  <2>1. Borrower(q) /\ Exists(q) /\ q # proc_init
    BY <1>1, <1>3, <1>5, <1>15
       DEF Borrower, SameSpace, CoreInv, PlaceSound, UsesSpace, Exists, TableSound
  <2>2. proc[proc[q].parent].stat = "vfwait"
    BY <2>1 DEF CoreInv, VforkSound
  <2> QED BY <1>1, <1>5, <1>6, <2>1, <2>2 DEF SameKin
<1>16. VforkSound'
  <2>1. ASSUME NEW q \in Procs, Borrower(q)'
        PROVE  proc'[proc'[q].parent].stat = "vfwait"
    <3>1. CASE q = c
      BY <1>2, <1>3, <2>1, <3>1 DEF Borrower
    <3>2. CASE q # c
      BY <1>4, <1>15, <2>1, <3>2 DEF CoreInv, VforkSound
    <3> QED BY <3>1, <3>2
  <2>2. ASSUME NEW q \in Procs, proc'[q].svfork
        PROVE  proc'[q].as = proc'[proc'[q].parent].as
    <3>1. CASE q = c
      BY <1>2, <1>3, <2>2, <3>1 DEF SameSpace
    <3>2. CASE q # c
      <4>1. Borrower(q)' /\ proc[q].svfork
        BY <1>5, <2>2, <3>2 DEF Borrower, SameSpace
      <4> QED BY <1>4, <1>15, <3>2, <4>1 DEF CoreInv, VforkSound, SameSpace
    <3> QED BY <3>1, <3>2
  <2>3. ASSUME NEW q \in Procs, NEW r \in Procs, Borrower(q)', Borrower(r)',
               proc'[q].parent = proc'[r].parent
        PROVE  q = r
    BY <1>2, <1>15, <2>3 DEF CoreInv, VforkSound
  <2> QED BY <2>1, <2>2, <2>3 DEF VforkSound
<1>17. \A q \in Procs \ {c} : Owner(q)' => Owner(q) /\ proc'[q].as = proc[q].as
                                           /\ proc'[q].as \in live
  <2> SUFFICES ASSUME NEW q \in Procs \ {c}, Owner(q)'
               PROVE  Owner(q) /\ proc'[q].as = proc[q].as /\ proc'[q].as \in live
    OBVIOUS
  <2>1. Owner(q) /\ proc'[q].as = proc[q].as
    BY <1>5, <1>10 DEF Owner, SameKin, SameSpace
  <2>2. Used(proc[q].as)
    BY <2>1 DEF Used, Owner
  <2> QED BY <2>1, <2>2, SpaceForm DEF CoreInv
<1>18. \A q \in Procs : proc'[q].nas # NULL => proc'[q].nas = proc[q].nas /\ proc'[q].nas \in live
  <2> SUFFICES ASSUME NEW q \in Procs, proc'[q].nas # NULL
               PROVE  proc'[q].nas = proc[q].nas /\ proc'[q].nas \in live
    OBVIOUS
  <2>1. proc'[q].nas = proc[q].nas
    BY <1>2, <1>5 DEF SameSpace
  <2>2. Used(proc[q].nas)
    BY <2>1 DEF Used
  <2> QED BY <2>1, <2>2, SpaceForm DEF CoreInv
<1>19. Owner(c)' => proc'[c].as = space /\ space \notin live
  BY <1>2 DEF Owner, Made
<1>20. OwnersApart'
  <2>1. ASSUME NEW q \in Procs, NEW r \in Procs, Owner(q)', Owner(r)',
               proc'[q].as = proc'[r].as
        PROVE  q = r
    BY <1>17, <1>19, <2>1 DEF CoreInv, OwnersApart
  <2>2. ASSUME NEW q \in Procs, NEW r \in Procs, Owner(q)', proc'[r].nas # NULL
        PROVE  proc'[q].as # proc'[r].nas
    BY <1>17, <1>18, <1>19, <2>2 DEF CoreInv, OwnersApart
  <2>3. ASSUME NEW q \in Procs, NEW r \in Procs, proc'[q].nas # NULL,
               proc'[q].nas = proc'[r].nas
        PROVE  q = r
    BY <1>18, <2>3 DEF CoreInv, OwnersApart
  <2> QED BY <2>1, <2>2, <2>3 DEF OwnersApart
<1>21. SpaceSound'
  <2>1. \A a : Used(a)' <=> Used(a) \/ a = space
    <3>1. ASSUME NEW a, Used(a)' PROVE Used(a) \/ a = space
      BY <1>2, <1>5, <1>10, <3>1 DEF Used, SameSpace
    <3>2. ASSUME NEW a, Used(a) PROVE Used(a)'
      <4>1. CASE \E q \in Procs : proc[q].stat \in UsesSpace /\ proc[q].as = a
        <5>1. PICK q \in Procs : proc[q].stat \in UsesSpace /\ proc[q].as = a
          BY <4>1
        <5>2. q # c
          BY <1>1, <5>1 DEF UsesSpace
        <5> QED BY <1>5, <1>10, <5>1, <5>2 DEF Used, SameSpace
      <4>2. CASE a # NULL /\ \E q \in Procs : proc[q].nas = a
        <5>1. PICK q \in Procs : proc[q].nas = a
          BY <4>2
        <5>2. q # c
          BY <1>1, <4>2, <5>1 DEF NoProc
        <5> QED BY <1>5, <4>2, <5>1, <5>2 DEF Used, SameSpace
      <4> QED BY <3>2, <4>1, <4>2 DEF Used
    <3>3. Used(space)'
      BY <1>2 DEF Used, UsesSpace
    <3> QED BY <3>1, <3>2, <3>3
  <2>2. \A a : a \in live' <=> a \in live \/ a = space
    BY <1>11 DEF Made
  <2> QED BY <2>1, <2>2, SpaceForm DEF CoreInv
<1> QED BY <1>7, <1>8, <1>9, <1>13, <1>14, <1>16, <1>20, <1>21 DEF CoreInv

\* The three ways to make an entry.
LEMMA CreateKeeps ==
    ASSUME CoreInv, TypeOK', NEW p \in Procs, NEW c \in Procs,
           ~proc[p].sthread,
           ThreadCreate(p, c) \/ Fork(p, c) \/ Vfork(p, c)
    PROVE  CoreInv'
<1>1. TypeOK /\ proc[p].as \in Spaces \cup {NULL}
  BY Fields DEF CoreInv, TypeOK
<1>2. CASE ThreadCreate(p, c)
  <2>1. newproc(p, c, TRUE, FALSE, proc[p].as) /\ live' = live
    BY <1>2 DEF ThreadCreate
  <2>2. At(p, "run") /\ ~Exists(c) /\ ~proc[p].sthread /\ oldproc' = oldproc
    BY <2>1 DEF newproc
  <2>3. Born(p, c, TRUE, FALSE, proc[p].as)
    BY <1>1, <2>1, NewprocEffect
  <2>4. Made(p, c, "thread", proc[p].as)
    BY <2>1, <2>2, <2>3 DEF Made, Born
  <2> QED BY <1>1, <2>1, <2>4, NewprocKeeps
<1>3. CASE Fork(p, c)
  <2>1. newproc(p, c, FALSE, FALSE, as_alloc) /\ live' = live \cup {as_alloc}
        /\ as_alloc \in Spaces \ live
    BY <1>3, FreshSpace DEF Fork
  <2>2. At(p, "run") /\ ~Exists(c) /\ ~proc[p].sthread /\ oldproc' = oldproc
    BY <2>1 DEF newproc
  <2>3. Born(p, c, FALSE, FALSE, as_alloc)
    BY <1>1, <2>1, NewprocEffect
  <2>4. Made(p, c, "fork", as_alloc)
    BY <2>1, <2>2, <2>3 DEF Made, Born
  <2> QED BY <1>1, <2>1, <2>4, NewprocKeeps
<1>4. CASE Vfork(p, c)
  <2>1. newproc(p, c, FALSE, TRUE, proc[p].as) /\ live' = live
    BY <1>4 DEF Vfork
  <2>2. At(p, "run") /\ ~Exists(c) /\ ~proc[p].sthread /\ oldproc' = oldproc
    BY <2>1 DEF newproc
  <2>3. Born(p, c, FALSE, TRUE, proc[p].as)
    BY <1>1, <2>1, NewprocEffect
  <2>4. Made(p, c, "vfork", proc[p].as)
    BY <2>1, <2>2, <2>3 DEF Made, Born
  <2> QED BY <1>1, <2>1, <2>4, NewprocKeeps
<1> QED BY <1>2, <1>3, <1>4

(***************************************************************************)
(* Leaving an address space.                                               *)
(***************************************************************************)

\* A step in which nobody is made, freed or handed over, and nobody exits but
\* a thread, leaves kinship alone.
LEMMA KinKept ==
    ASSUME CoreInv,
           \A q \in Procs :
               /\ SameKin(q)
               /\ proc'[q].stat = "free" => proc'[q] = proc[q]
               /\ proc[q].stat = "free" => proc'[q].stat = "free"
               /\ proc'[q].stat = "SZOMB" => proc[q].stat = "SZOMB" \/ proc[q].sthread
    PROVE  KinIsProcess' /\ RootedKin'
<1>1. KinIsProcess'
  <2> SUFFICES ASSUME NEW q \in Procs \ {proc_init}, proc'[q].stat # "free"
               PROVE  /\ proc'[q].parent \in Procs /\ proc'[q].nextofkin \in Procs
                      /\ proc'[proc'[q].parent].stat \notin {"free", "SZOMB"}
                      /\ proc'[proc'[q].nextofkin].stat \notin {"free", "SZOMB"}
                      /\ ~proc'[proc'[q].parent].sthread
                      /\ ~proc'[proc'[q].nextofkin].sthread
    BY DEF KinIsProcess, Exists
  <2>1. Exists(q) /\ SameKin(q)
    BY DEF Exists
  <2>2. ASSUME NEW m \in Procs, proc[m].stat \notin {"free", "SZOMB"},
               ~proc[m].sthread
        PROVE  proc'[m].stat \notin {"free", "SZOMB"} /\ ~proc'[m].sthread
    BY <2>2 DEF SameKin
  <2> QED BY <2>1, <2>2 DEF SameKin, CoreInv, KinIsProcess
<1>2. RootedKin'
  BY RootedKept DEF CoreInv, SameKin
<1> QED BY <1>1, <1>2

\* vfwait(): the child has left the space, so the parent may run in it again.
LEMMA VforkDoneKeeps ==
    ASSUME CoreInv, TypeOK', NEW p \in Procs, NEW c \in Procs, VforkDone(p, c)
    PROVE  CoreInv'
<1>1. /\ proc[p].stat = "vfwait" /\ proc[c].stat = "relvm" /\ proc[c].parent = p
      /\ ~proc[c].svfdone /\ live' = live /\ oldproc' = oldproc /\ oldproc = NULL
      /\ Borrower(c)
  BY DEF VforkDone, At, Children, Borrower
<1>2. TypeOK
  BY DEF CoreInv
<1>3. /\ p # c /\ proc'[p].stat = "run" /\ proc'[c].stat = "relvm"
      /\ \A q \in Procs \ {p, c} : proc'[q] = proc[q]
      /\ SameKin(p) /\ SameSpace(p) /\ SameKin(c)
      /\ proc'[c].svfdone /\ proc'[c].svfork = proc[c].svfork
      /\ proc'[c].as = proc[c].as /\ proc'[c].nas = proc[c].nas
  BY <1>2, VforkDoneEffect
<1>4. \A q \in Procs : /\ SameKin(q) /\ proc'[q].svfork = proc[q].svfork
                       /\ proc'[q].as = proc[q].as /\ proc'[q].nas = proc[q].nas
                       /\ q # p => proc'[q].stat = proc[q].stat
                       /\ q # c => SameSpace(q)
  BY <1>1, <1>3 DEF SameKin, SameSpace
<1>5. \A q \in Procs : proc'[q].stat \in UsesSpace <=> proc[q].stat \in UsesSpace
  BY <1>1, <1>3, <1>4 DEF UsesSpace
<1>6. TableSound'
  <2>1. ASSUME NEW q \in Procs, proc'[q].stat = "free" PROVE proc'[q] = NoProc
    BY <1>3, <2>1 DEF CoreInv, TableSound
  <2>2. ~proc'[proc_init].sthread /\ ~proc'[proc_init].svfork
        /\ proc'[proc_init].parent = NULL
    BY <1>4, ThreadsAssumption DEF CoreInv, TableSound, SameKin
  <2>3. proc'[proc_init].stat \in {"run", "waitid", "futex", "vfwait"}
    BY <1>3, <1>4, ThreadsAssumption DEF CoreInv, TableSound
  <2> QED BY <1>1, <2>1, <2>2, <2>3 DEF TableSound
<1>7. KinIsProcess' /\ RootedKin'
  BY <1>1, <1>3, <1>4, KinKept
<1>8. ThreadSound'
  <2> SUFFICES ASSUME NEW q \in Procs, proc'[q].sthread
               PROVE  /\ proc'[q].stat \in {"run", "futex", "SZOMB"} /\ ~proc'[q].svfork
                      /\ proc'[q].stat = "SZOMB" => oldproc' = q
                      /\ proc'[proc'[q].parent].stat \in UsesSpace
                      /\ proc'[q].as = proc'[proc'[q].parent].as
    BY DEF ThreadSound
  <2>1. proc[q].sthread /\ proc'[q].parent = proc[q].parent
    BY <1>4 DEF SameKin
  <2>2. q # proc_init /\ Exists(q)
    BY <2>1 DEF CoreInv, TableSound, ThreadSound, Exists
  <2>3. proc[q].parent \in Procs
    BY <2>2 DEF CoreInv, KinIsProcess
  <2> QED BY <1>1, <1>3, <1>4, <1>5, <2>1, <2>3 DEF CoreInv, ThreadSound
<1>9. PlaceSound'
  BY <1>1, <1>3, <1>4, <1>5 DEF CoreInv, PlaceSound, SameSpace
<1>10. ASSUME NEW q \in Procs, Borrower(q)'
       PROVE  /\ Borrower(q) /\ proc'[q].parent = proc[q].parent
              /\ proc[q].parent \in Procs \ {p, c}
  <2>1. q # c
    BY <1>3, <1>4, <1>10 DEF Borrower, CoreInv, PlaceSound, UsesSpace
  <2>2. Borrower(q) /\ Exists(q) /\ q # proc_init
    BY <1>3, <1>4, <1>10, <2>1
       DEF Borrower, SameSpace, CoreInv, PlaceSound, UsesSpace, Exists, TableSound
  <2>3. proc[q].parent # p
    BY <1>1, <2>1, <2>2 DEF CoreInv, VforkSound
  <2>4. proc[proc[q].parent].stat = "vfwait"
    BY <2>2 DEF CoreInv, VforkSound
  <2> QED BY <1>1, <1>4, <2>2, <2>3, <2>4 DEF SameKin, CoreInv, KinIsProcess
<1>11. VforkSound'
  <2>1. ASSUME NEW q \in Procs, Borrower(q)'
        PROVE  proc'[proc'[q].parent].stat = "vfwait"
    BY <1>4, <1>10, <2>1 DEF CoreInv, VforkSound
  <2>2. ASSUME NEW q \in Procs, proc'[q].svfork
        PROVE  proc'[q].as = proc'[proc'[q].parent].as
    <3>1. Borrower(q)' /\ proc[q].svfork
      BY <1>4, <2>2 DEF Borrower
    <3> QED BY <1>4, <1>10, <3>1 DEF CoreInv, VforkSound
  <2>3. ASSUME NEW q \in Procs, NEW r \in Procs, Borrower(q)', Borrower(r)',
               proc'[q].parent = proc'[r].parent
        PROVE  q = r
    BY <1>10, <2>3 DEF CoreInv, VforkSound
  <2> QED BY <2>1, <2>2, <2>3 DEF VforkSound
<1>12. OwnersApart'
  <2>1. \A q \in Procs : Owner(q)' <=> Owner(q)
    BY <1>4, <1>5 DEF Owner, SameKin
  <2> QED BY <1>4, <2>1 DEF CoreInv, OwnersApart
<1>13. SpaceSound'
  <2>1. \A a : Used(a)' <=> Used(a)
    BY <1>4, <1>5 DEF Used
  <2> QED BY <1>1, <2>1, SpaceForm DEF CoreInv
<1> QED BY <1>6, <1>7, <1>8, <1>9, <1>11, <1>12, <1>13 DEF CoreInv

\* One process, p, has changed where it is and which space it uses.
OnlyMoved(p) ==
    /\ SameKin(p) /\ oldproc' = oldproc
    /\ \A q \in Procs \ {p} : proc'[q] = proc[q]

\* While p has no threads and no vforked child in its space, what concerns
\* other processes is kept.
LEMMA OthersKept ==
    ASSUME CoreInv, NEW p \in Procs, OnlyMoved(p), ~proc[p].sthread,
           ThreadsOf(p) = {}, proc[p].stat # "vfwait",
           proc[p].stat \notin {"free", "SZOMB"},
           proc'[p].stat \notin {"free", "SZOMB"}, ~proc'[p].svfork \/ proc[p].svfork,
           proc'[p].stat # proc[p].stat => p # proc_init
    PROVE  /\ TableSound' /\ KinIsProcess' /\ RootedKin' /\ ThreadSound'
           /\ \A q \in Procs \ {p} : Borrower(q)' =>
                /\ Borrower(q) /\ proc'[q].parent = proc[q].parent
                /\ proc[q].parent \in Procs \ {p}
                /\ proc'[proc'[q].parent].stat = "vfwait"
                /\ proc'[q].svfork => proc'[q].as = proc'[proc'[q].parent].as
<1>1. \A q \in Procs \ {p} : proc'[q] = proc[q]
  BY DEF OnlyMoved
<1>2. SameKin(p) /\ oldproc' = oldproc
  BY DEF OnlyMoved
<1>3. \A q \in Procs : SameKin(q)
  BY <1>1, <1>2 DEF SameKin
<1>4. TableSound'
  <2>1. ASSUME NEW q \in Procs, proc'[q].stat = "free" PROVE proc'[q] = NoProc
    BY <1>1, <2>1 DEF CoreInv, TableSound
  <2>2. ~proc'[proc_init].sthread /\ ~proc'[proc_init].svfork
        /\ proc'[proc_init].parent = NULL
    BY <1>1, <1>3, ThreadsAssumption DEF CoreInv, TableSound, SameKin
  <2>3. proc'[proc_init].stat \in {"run", "waitid", "futex", "vfwait"}
    BY <1>1, ThreadsAssumption DEF CoreInv, TableSound
  <2>4. oldproc' # NULL => proc'[oldproc'].stat = "SZOMB" /\ oldproc' # proc_init
    BY <1>1, <1>2 DEF CoreInv, TableSound, TypeOK
  <2> QED BY <2>1, <2>2, <2>3, <2>4 DEF TableSound
<1>5. KinIsProcess' /\ RootedKin'
  BY <1>1, <1>3, KinKept
<1>6. ThreadSound'
  <2> SUFFICES ASSUME NEW q \in Procs, proc'[q].sthread
               PROVE  /\ proc'[q].stat \in {"run", "futex", "SZOMB"} /\ ~proc'[q].svfork
                      /\ proc'[q].stat = "SZOMB" => oldproc' = q
                      /\ proc'[proc'[q].parent].stat \in UsesSpace
                      /\ proc'[q].as = proc'[proc'[q].parent].as
    BY DEF ThreadSound
  <2>1. proc[q].sthread /\ proc'[q].parent = proc[q].parent /\ q # p
    BY <1>3 DEF SameKin
  <2>2. q # proc_init /\ Exists(q)
    BY <2>1 DEF CoreInv, TableSound, ThreadSound, Exists
  <2>3. proc[q].parent \in Procs \ {p}
    BY <2>1, <2>2 DEF CoreInv, KinIsProcess, ThreadsOf, Children
  <2> QED BY <1>1, <1>2, <2>1, <2>3 DEF CoreInv, ThreadSound
<1>7. ASSUME NEW q \in Procs \ {p}, Borrower(q)'
      PROVE  /\ Borrower(q) /\ proc'[q].parent = proc[q].parent
             /\ proc[q].parent \in Procs \ {p}
             /\ proc'[proc'[q].parent].stat = "vfwait"
             /\ proc'[q].svfork => proc'[q].as = proc'[proc'[q].parent].as
  <2>1. Borrower(q) /\ Exists(q) /\ q # proc_init
    BY <1>1, <1>7 DEF Borrower, CoreInv, PlaceSound, UsesSpace, Exists, TableSound
  <2>2. proc[proc[q].parent].stat = "vfwait"
    BY <2>1 DEF CoreInv, VforkSound
  <2>3. proc[q].parent \in Procs \ {p}
    BY <2>1, <2>2 DEF CoreInv, KinIsProcess
  <2>4. proc[q].svfork => proc[q].as = proc[proc[q].parent].as
    BY DEF CoreInv, VforkSound
  <2> QED BY <1>1, <2>1, <2>2, <2>3, <2>4
<1> QED BY <1>4, <1>5, <1>6, <1>7

\* relvm() of a vforked child, from exec with a new space n or from exit()
\* with none: its parent has the old space still.
GaveBack(p, n) ==
    /\ proc'[p].stat = "relvm" /\ ~proc'[p].svfork
    /\ proc'[p].svfdone = proc[p].svfdone
    /\ proc'[p].as = NULL /\ proc'[p].nas = n
    /\ \/ n = NULL /\ live' = live
       \/ n \in Spaces \ live /\ live' = live \cup {n}

\* relvm() of a vforked child takes no space from anybody.
LEMMA GaveBackKeeps ==
    ASSUME CoreInv, TypeOK', NEW p \in Procs, NEW n, proc[p].svfork,
           ~proc[p].sthread, ThreadsOf(p) = {}, proc[p].stat \in {"run", "exit"},
           OnlyMoved(p), GaveBack(p, n)
    PROVE  CoreInv'
<1>0. p # proc_init /\ ~proc[p].svfdone /\ proc[p].nas = NULL
  BY DEF CoreInv, TableSound, PlaceSound
<1>1. /\ TableSound' /\ KinIsProcess' /\ RootedKin' /\ ThreadSound'
      /\ \A q \in Procs \ {p} : Borrower(q)' =>
                /\ Borrower(q) /\ proc'[q].parent = proc[q].parent
                /\ proc[q].parent \in Procs \ {p}
                /\ proc'[proc'[q].parent].stat = "vfwait"
                /\ proc'[q].svfork => proc'[q].as = proc'[proc'[q].parent].as
  BY <1>0, OthersKept DEF GaveBack
<1>2. \A q \in Procs \ {p} : proc'[q] = proc[q]
  BY DEF OnlyMoved
<1>3. proc'[p].parent = proc[p].parent
  BY DEF OnlyMoved, SameKin
<1>4. /\ proc'[p].stat = "relvm" /\ ~proc'[p].svfork /\ ~proc'[p].svfdone
      /\ proc'[p].as = NULL /\ proc'[p].nas = n
  BY <1>0 DEF GaveBack
<1>5. Borrower(p) /\ proc[proc[p].parent].stat = "vfwait"
      /\ proc[proc[p].parent].as = proc[p].as
      /\ proc[p].parent \in Procs \ {p}
  <2>1. Borrower(p) /\ Exists(p)
    BY DEF Borrower, Exists
  <2>2. proc[proc[p].parent].stat = "vfwait" /\ proc[proc[p].parent].as = proc[p].as
    BY <2>1 DEF CoreInv, VforkSound
  <2> QED BY <1>0, <2>1, <2>2 DEF CoreInv, KinIsProcess
<1>6. PlaceSound'
  BY <1>2, <1>4 DEF CoreInv, PlaceSound, UsesSpace
<1>7. VforkSound'
  <2>1. ASSUME NEW q \in Procs, Borrower(q)'
        PROVE  proc'[proc'[q].parent].stat = "vfwait"
    BY <1>1, <1>2, <1>3, <1>5, <2>1
  <2>2. ASSUME NEW q \in Procs, proc'[q].svfork
        PROVE  proc'[q].as = proc'[proc'[q].parent].as
    BY <1>1, <1>4, <2>2 DEF Borrower
  <2>3. ASSUME NEW q \in Procs, NEW r \in Procs, Borrower(q)', Borrower(r)',
               proc'[q].parent = proc'[r].parent
        PROVE  q = r
    BY <1>1, <1>3, <1>5, <2>3 DEF CoreInv, VforkSound
  <2> QED BY <2>1, <2>2, <2>3 DEF VforkSound
<1>8. \A a : Used(a)' <=> Used(a) \/ (a # NULL /\ a = n)
  <2>1. ASSUME NEW a, Used(a)' PROVE Used(a) \/ (a # NULL /\ a = n)
    BY <1>2, <1>4, <2>1 DEF Used, UsesSpace
  <2>2. ASSUME NEW a, Used(a) PROVE Used(a)'
    <3>1. CASE \E q \in Procs : proc[q].stat \in UsesSpace /\ proc[q].as = a
      <4>1. PICK q \in Procs : proc[q].stat \in UsesSpace /\ proc[q].as = a
        BY <3>1
      <4>2. CASE q = p
        BY <1>2, <1>5, <4>1, <4>2 DEF Used, UsesSpace
      <4>3. CASE q # p
        BY <1>2, <4>1, <4>3 DEF Used
      <4> QED BY <4>2, <4>3
    <3>2. CASE a # NULL /\ \E q \in Procs : proc[q].nas = a
      BY <1>0, <1>2, <3>2 DEF Used
    <3> QED BY <2>2, <3>1, <3>2 DEF Used
  <2>3. n # NULL => Used(n)'
    BY <1>4 DEF Used
  <2> QED BY <2>1, <2>2, <2>3
<1>9. SpaceSound'
  <2>1. \A a : a \in live' <=> a \in live \/ (a # NULL /\ a = n)
    BY ThreadsAssumption DEF GaveBack
  <2> QED BY <1>8, <2>1, SpaceForm DEF CoreInv
<1>10. \A q \in Procs : Owner(q)' => q # p /\ Owner(q) /\ Used(proc[q].as)
  BY <1>2, <1>4 DEF Owner, UsesSpace, Used
<1>11. \A a : Used(a) /\ n # NULL => a # n
  BY SpaceForm DEF CoreInv, GaveBack
<1>12. \A q \in Procs \ {p} : proc'[q].nas # NULL => Used(proc[q].nas)
  BY <1>2 DEF Used
<1>13. OwnersApart'
  <2>1. ASSUME NEW q \in Procs, NEW r \in Procs, Owner(q)', Owner(r)',
               proc'[q].as = proc'[r].as
        PROVE  q = r
    BY <1>2, <1>10, <2>1 DEF CoreInv, OwnersApart
  <2>2. ASSUME NEW q \in Procs, NEW r \in Procs, Owner(q)', proc'[r].nas # NULL
        PROVE  proc'[q].as # proc'[r].nas
    BY <1>2, <1>4, <1>10, <1>11, <2>2 DEF CoreInv, OwnersApart
  <2>3. ASSUME NEW q \in Procs, NEW r \in Procs, proc'[q].nas # NULL,
               proc'[q].nas = proc'[r].nas
        PROVE  q = r
    BY <1>2, <1>4, <1>11, <1>12, <2>3 DEF CoreInv, OwnersApart
  <2> QED BY <2>1, <2>2, <2>3 DEF OwnersApart
<1> QED BY <1>1, <1>6, <1>7, <1>9, <1>13 DEF CoreInv

\* A process with a space of its own frees it, and goes on in a new one, n,
\* or with none to the end of exit().
Vacated(p, n) ==
    /\ proc'[p].stat = (IF n = NULL THEN "exitvm" ELSE "run")
    /\ proc'[p].svfork = proc[p].svfork /\ proc'[p].svfdone = proc[p].svfdone
    /\ proc'[p].as = n /\ proc'[p].nas = proc[p].nas
    /\ \/ n = NULL /\ live' = live \ {proc[p].as}
       \/ n \in Spaces \ live /\ live' = (live \ {proc[p].as}) \cup {n}

\* exec and exit() in a space of one's own free what nobody else uses.
LEMMA VacatedKeeps ==
    ASSUME CoreInv, TypeOK', NEW p \in Procs, NEW n, ~proc[p].svfork,
           ~proc[p].sthread, ThreadsOf(p) = {}, OnlyMoved(p), Vacated(p, n),
           \/ proc[p].stat = "run" /\ n # NULL
           \/ proc[p].stat = "exit" /\ p # proc_init
    PROVE  CoreInv'
<1>0. ~proc[p].svfdone /\ proc[p].nas = NULL /\ Owner(p) /\ proc[p].as # NULL
  BY DEF CoreInv, PlaceSound, Owner, UsesSpace
<1>1. /\ TableSound' /\ KinIsProcess' /\ RootedKin' /\ ThreadSound'
      /\ \A q \in Procs \ {p} : Borrower(q)' =>
                /\ Borrower(q) /\ proc'[q].parent = proc[q].parent
                /\ proc[q].parent \in Procs \ {p}
                /\ proc'[proc'[q].parent].stat = "vfwait"
                /\ proc'[q].svfork => proc'[q].as = proc'[proc'[q].parent].as
  BY <1>0, OthersKept DEF Vacated
<1>2. \A q \in Procs \ {p} : proc'[q] = proc[q]
  BY DEF OnlyMoved
<1>3. /\ proc'[p].stat = (IF n = NULL THEN "exitvm" ELSE "run")
      /\ ~proc'[p].svfork /\ ~proc'[p].svfdone
      /\ proc'[p].as = n /\ proc'[p].nas = NULL
  BY <1>0 DEF Vacated
<1>4. \A q \in Procs \ {p} : proc[q].stat \in UsesSpace => proc[q].as # proc[p].as
  BY <1>0, SoleUser
<1>5. \A q \in Procs : proc[q].nas # NULL => proc[q].nas # proc[p].as
  BY <1>0 DEF CoreInv, OwnersApart
<1>6. PlaceSound'
  BY <1>2, <1>3 DEF CoreInv, PlaceSound, UsesSpace
<1>7. VforkSound'
  <2>1. ~Borrower(p)'
    BY <1>3 DEF Borrower
  <2>2. ASSUME NEW q \in Procs, NEW r \in Procs, Borrower(q)', Borrower(r)',
               proc'[q].parent = proc'[r].parent
        PROVE  q = r
    BY <1>1, <2>1, <2>2 DEF CoreInv, VforkSound
  <2>3. ASSUME NEW q \in Procs, Borrower(q)'
        PROVE  proc'[proc'[q].parent].stat = "vfwait"
    BY <1>1, <2>1, <2>3
  <2>4. ASSUME NEW q \in Procs, proc'[q].svfork
        PROVE  proc'[q].as = proc'[proc'[q].parent].as
    BY <1>1, <1>3, <2>4 DEF Borrower
  <2> QED BY <2>2, <2>3, <2>4 DEF VforkSound
<1>8. \A a : Used(a)' <=> (Used(a) /\ a # proc[p].as) \/ (a # NULL /\ a = n)
  <2>1. ASSUME NEW a, Used(a)', a # n PROVE Used(a) /\ a # proc[p].as
    BY <1>2, <1>3, <1>4, <1>5, <2>1 DEF Used, UsesSpace
  <2>2. ASSUME NEW a, Used(a), a # proc[p].as PROVE Used(a)'
    BY <1>0, <1>2, <2>2 DEF Used
  <2>3. n # NULL => Used(n)'
    BY <1>3 DEF Used, UsesSpace
  <2>4. ~Used(NULL)'
    BY <1>6 DEF Used, PlaceSound
  <2> QED BY <2>1, <2>2, <2>3, <2>4
<1>9. SpaceSound'
  <2>1. \A a : a \in live' <=> (a \in live /\ a # proc[p].as) \/ (a # NULL /\ a = n)
    BY ThreadsAssumption DEF Vacated
  <2> QED BY <1>8, <2>1, SpaceForm DEF CoreInv
<1>10. \A q \in Procs \ {p} : Owner(q)' => Owner(q) /\ Used(proc[q].as)
  BY <1>2 DEF Owner, Used
<1>11. \A a : Used(a) /\ n # NULL => a # n
  BY SpaceForm DEF CoreInv, Vacated
<1>12. \A q \in Procs : proc'[q].nas # NULL => q # p /\ Used(proc[q].nas)
  BY <1>2, <1>3 DEF Used
<1>13. Owner(p)' => n # NULL /\ proc'[p].as = n
  BY <1>3 DEF Owner, UsesSpace
<1>14. OwnersApart'
  <2>1. ASSUME NEW q \in Procs, NEW r \in Procs, Owner(q)', Owner(r)',
               proc'[q].as = proc'[r].as
        PROVE  q = r
    BY <1>2, <1>10, <1>11, <1>13, <2>1 DEF CoreInv, OwnersApart
  <2>2. ASSUME NEW q \in Procs, NEW r \in Procs, Owner(q)', proc'[r].nas # NULL
        PROVE  proc'[q].as # proc'[r].nas
    BY <1>2, <1>10, <1>11, <1>12, <1>13, <2>2 DEF CoreInv, OwnersApart
  <2>3. ASSUME NEW q \in Procs, NEW r \in Procs, proc'[q].nas # NULL,
               proc'[q].nas = proc'[r].nas
        PROVE  q = r
    BY <1>2, <1>12, <2>3 DEF CoreInv, OwnersApart
  <2> QED BY <2>1, <2>2, <2>3 DEF OwnersApart
<1> QED BY <1>1, <1>6, <1>7, <1>9, <1>14 DEF CoreInv

\* The end of relvm(): the child is in the space exec made for it, or has none.
LEMMA RelvmDoneKeeps ==
    ASSUME CoreInv, TypeOK', NEW p \in Procs, RelvmDone(p)
    PROVE  CoreInv'
<1>0. /\ TypeOK /\ proc[p].stat = "relvm" /\ proc[p].svfdone /\ ~proc[p].svfork
      /\ p # proc_init /\ ~proc[p].sthread /\ live' = live /\ oldproc' = oldproc
  BY DEF RelvmDone, At, CoreInv, TableSound, PlaceSound, ThreadSound, UsesSpace
<1>1. ThreadsOf(p) = {}
  <2> SUFFICES ASSUME NEW q \in ThreadsOf(p) PROVE FALSE
    OBVIOUS
  <2>1. q \in Procs /\ proc[q].sthread /\ proc[q].parent = p
    BY DEF ThreadsOf, Children
  <2> QED BY <1>0, <2>1 DEF CoreInv, ThreadSound, UsesSpace
<1>2. /\ proc'[p].stat = (IF proc[p].nas = NULL THEN "exitvm" ELSE "run")
      /\ SameKin(p)
      /\ proc'[p].svfork = proc[p].svfork /\ proc'[p].svfdone = FALSE
      /\ proc'[p].as = proc[p].nas /\ proc'[p].nas = NULL
      /\ \A q \in Procs \ {p} : proc'[q] = proc[q]
  BY <1>0, RelvmEffect
<1>3. OnlyMoved(p)
  BY <1>0, <1>2 DEF OnlyMoved
<1>4. proc'[p].stat \notin {"free", "SZOMB"} /\ ~proc'[p].svfork
  BY <1>0, <1>2
<1>5. /\ TableSound' /\ KinIsProcess' /\ RootedKin' /\ ThreadSound'
      /\ \A q \in Procs \ {p} : Borrower(q)' =>
                /\ Borrower(q) /\ proc'[q].parent = proc[q].parent
                /\ proc[q].parent \in Procs \ {p}
                /\ proc'[proc'[q].parent].stat = "vfwait"
                /\ proc'[q].svfork => proc'[q].as = proc'[proc'[q].parent].as
  BY <1>0, <1>1, <1>3, <1>4, OthersKept
<1>6. PlaceSound'
  BY <1>0, <1>2, <1>4 DEF CoreInv, PlaceSound, UsesSpace
<1>7. ~Borrower(p)'
  BY <1>2, <1>4 DEF Borrower
<1>8. VforkSound'
  <2>1. ASSUME NEW q \in Procs, NEW r \in Procs, Borrower(q)', Borrower(r)',
               proc'[q].parent = proc'[r].parent
        PROVE  q = r
    BY <1>5, <1>7, <2>1 DEF CoreInv, VforkSound
  <2>2. ASSUME NEW q \in Procs, Borrower(q)'
        PROVE  proc'[proc'[q].parent].stat = "vfwait"
    BY <1>5, <1>7, <2>2
  <2>3. ASSUME NEW q \in Procs, proc'[q].svfork
        PROVE  proc'[q].as = proc'[proc'[q].parent].as
    BY <1>4, <1>5, <2>3 DEF Borrower
  <2> QED BY <2>1, <2>2, <2>3 DEF VforkSound
<1>9. Owner(p)' => proc[p].nas # NULL /\ proc'[p].as = proc[p].nas
  BY <1>2 DEF Owner, UsesSpace
<1>10. \A q \in Procs \ {p} : Owner(q)' => Owner(q) /\ proc'[q].as = proc[q].as
  BY <1>2 DEF Owner
<1>11. \A q \in Procs : proc'[q].nas # NULL => q # p /\ proc'[q].nas = proc[q].nas
  BY <1>2
<1>12. OwnersApart'
  <2>1. ASSUME NEW q \in Procs, NEW r \in Procs, Owner(q)', Owner(r)',
               proc'[q].as = proc'[r].as
        PROVE  q = r
    BY <1>9, <1>10, <2>1 DEF CoreInv, OwnersApart
  <2>2. ASSUME NEW q \in Procs, NEW r \in Procs, Owner(q)', proc'[r].nas # NULL
        PROVE  proc'[q].as # proc'[r].nas
    BY <1>9, <1>10, <1>11, <2>2 DEF CoreInv, OwnersApart
  <2>3. ASSUME NEW q \in Procs, NEW r \in Procs, proc'[q].nas # NULL,
               proc'[q].nas = proc'[r].nas
        PROVE  q = r
    BY <1>11, <2>3 DEF CoreInv, OwnersApart
  <2> QED BY <2>1, <2>2, <2>3 DEF OwnersApart
<1>13. SpaceSound'
  <2>1. ASSUME NEW a, Used(a)' PROVE Used(a)
    BY <1>2, <2>1 DEF Used, UsesSpace
  <2>2. ASSUME NEW a, Used(a) PROVE Used(a)'
    BY <1>0, <1>2, <2>2 DEF Used, UsesSpace
  <2> QED BY <1>0, <2>1, <2>2, SpaceForm DEF CoreInv
<1> QED BY <1>5, <1>6, <1>8, <1>12, <1>13 DEF CoreInv

(***************************************************************************)
(* Exit.                                                                   *)
(***************************************************************************)

\* thread_exit_current(): the process of the thread has the space still.
LEMMA ThreadExitKeeps ==
    ASSUME CoreInv, TypeOK', NEW p \in Procs, ThreadExit(p)
    PROVE  CoreInv'
<1>0. /\ TypeOK /\ proc[p].stat = "run" /\ proc[p].sthread /\ oldproc = NULL
      /\ live' = live /\ oldproc' = p /\ p # proc_init /\ Exists(p)
      /\ ~proc[p].svfork /\ ~proc[p].svfdone /\ proc[p].nas = NULL
  BY DEF ThreadExit, At, Exists, CoreInv, TableSound, PlaceSound, ThreadSound
<1>1. /\ proc'[p].stat = "SZOMB" /\ SameKin(p) /\ SameSpace(p)
      /\ \A q \in Procs \ {p} : proc'[q] = proc[q]
  BY <1>0, LeaveEffect
<1>2. \A q \in Procs : SameKin(q) /\ SameSpace(q)
  BY <1>1 DEF SameKin, SameSpace
<1>3. TableSound'
  <2>1. ASSUME NEW q \in Procs, proc'[q].stat = "free" PROVE proc'[q] = NoProc
    BY <1>1, <2>1 DEF CoreInv, TableSound
  <2>2. ~proc'[proc_init].sthread /\ ~proc'[proc_init].svfork
        /\ proc'[proc_init].parent = NULL
    BY <1>2, ThreadsAssumption DEF CoreInv, TableSound, SameKin, SameSpace
  <2>3. proc'[proc_init].stat \in {"run", "waitid", "futex", "vfwait"}
    BY <1>0, <1>1, ThreadsAssumption DEF CoreInv, TableSound
  <2> QED BY <1>0, <1>1, <2>1, <2>2, <2>3 DEF TableSound
<1>4. KinIsProcess' /\ RootedKin'
  BY <1>0, <1>1, <1>2, KinKept
<1>5. ASSUME NEW q \in Procs, q # proc_init, Exists(q)
      PROVE  proc[q].parent \in Procs \ {p}
  BY <1>0, <1>5 DEF CoreInv, KinIsProcess
<1>6. ThreadSound'
  <2> SUFFICES ASSUME NEW q \in Procs, proc'[q].sthread
               PROVE  /\ proc'[q].stat \in {"run", "futex", "SZOMB"} /\ ~proc'[q].svfork
                      /\ proc'[q].stat = "SZOMB" => oldproc' = q
                      /\ proc'[proc'[q].parent].stat \in UsesSpace
                      /\ proc'[q].as = proc'[proc'[q].parent].as
    BY DEF ThreadSound
  <2>1. proc[q].sthread /\ SameKin(q) /\ SameSpace(q)
    BY <1>2 DEF SameKin
  <2>2. q # proc_init /\ Exists(q)
    BY <2>1 DEF CoreInv, TableSound, ThreadSound, Exists
  <2>3. proc[q].parent \in Procs \ {p}
    BY <1>5, <2>2
  <2>4. proc[proc[q].parent].stat \in UsesSpace /\ proc[q].as = proc[proc[q].parent].as
        /\ ~proc[q].svfork /\ proc[q].stat \in {"run", "futex", "SZOMB"}
        /\ (proc[q].stat = "SZOMB" => oldproc = q)
    BY <2>1 DEF CoreInv, ThreadSound
  <2>5. NULL \notin Procs
    BY ThreadsAssumption
  <2> QED BY <1>0, <1>1, <2>1, <2>3, <2>4, <2>5 DEF SameKin, SameSpace
<1>7. PlaceSound'
  BY <1>0, <1>1, <1>2 DEF CoreInv, PlaceSound, UsesSpace, SameSpace
<1>8. ASSUME NEW q \in Procs, Borrower(q)'
      PROVE  /\ Borrower(q) /\ q # p /\ proc'[q].parent = proc[q].parent
             /\ proc[q].parent \in Procs \ {p}
  <2>1. Borrower(q) /\ Exists(q) /\ q # proc_init /\ q # p
    BY <1>0, <1>1, <1>2, <1>8
       DEF Borrower, SameSpace, CoreInv, PlaceSound, UsesSpace, Exists, TableSound
  <2> QED BY <1>2, <1>5, <2>1 DEF SameKin
<1>9. VforkSound'
  <2>1. ASSUME NEW q \in Procs, Borrower(q)'
        PROVE  proc'[proc'[q].parent].stat = "vfwait"
    BY <1>1, <1>8, <2>1 DEF CoreInv, VforkSound
  <2>2. ASSUME NEW q \in Procs, proc'[q].svfork
        PROVE  proc'[q].as = proc'[proc'[q].parent].as
    <3>1. Borrower(q)' /\ proc[q].svfork
      BY <1>2, <2>2 DEF Borrower, SameSpace
    <3> QED BY <1>1, <1>8, <3>1 DEF CoreInv, VforkSound
  <2>3. ASSUME NEW q \in Procs, NEW r \in Procs, Borrower(q)', Borrower(r)',
               proc'[q].parent = proc'[r].parent
        PROVE  q = r
    BY <1>8, <2>3 DEF CoreInv, VforkSound
  <2> QED BY <2>1, <2>2, <2>3 DEF VforkSound
<1>10. \A q \in Procs : Owner(q)' => Owner(q)
  BY <1>1 DEF Owner, UsesSpace
<1>11. OwnersApart'
  BY <1>2, <1>10 DEF CoreInv, OwnersApart, SameSpace
<1>12. SpaceSound'
  <2>1. ASSUME NEW a, Used(a)' PROVE Used(a)
    BY <1>1, <1>2, <2>1 DEF Used, UsesSpace, SameSpace
  <2>2. ASSUME NEW a, Used(a) PROVE Used(a)'
    <3>1. CASE \E q \in Procs : proc[q].stat \in UsesSpace /\ proc[q].as = a
      <4>1. PICK q \in Procs : proc[q].stat \in UsesSpace /\ proc[q].as = a
        BY <3>1
      <4>2. CASE q = p
        <5>1. proc[p].parent \in Procs \ {p} /\ proc[proc[p].parent].stat \in UsesSpace
              /\ proc[proc[p].parent].as = a
          BY <1>0, <1>5, <4>1, <4>2 DEF CoreInv, ThreadSound
        <5> QED BY <1>1, <5>1 DEF Used
      <4>3. CASE q # p
        BY <1>1, <4>1, <4>3 DEF Used
      <4> QED BY <4>2, <4>3
    <3>2. CASE a # NULL /\ \E q \in Procs : proc[q].nas = a
      BY <1>2, <3>2 DEF Used, SameSpace
    <3> QED BY <2>2, <3>1, <3>2 DEF Used
  <2> QED BY <1>0, <2>1, <2>2, SpaceForm DEF CoreInv
<1> QED BY <1>3, <1>4, <1>6, <1>7, <1>9, <1>11, <1>12 DEF CoreInv

\* The end of exit(): the process has no space, no threads and no vforked
\* child left, and everybody that had it for kin gets new kin that is alive.
LEMMA ExitZombieKeeps ==
    ASSUME CoreInv, TypeOK', NEW p \in Procs, ExitZombie(p)
    PROVE  CoreInv'
<1>0. /\ TypeOK /\ proc[p].stat = "exitvm" /\ oldproc = NULL /\ live' = live
      /\ oldproc' = p /\ p # proc_init /\ Exists(p)
      /\ ~proc[p].svfork /\ ~proc[p].svfdone /\ proc[p].nas = NULL
      /\ ~proc[p].sthread
  BY DEF ExitZombie, At, Exists, CoreInv, TableSound, PlaceSound, ThreadSound,
         UsesSpace
<1>1. /\ \A q \in Procs :
           /\ SameSpace(q) /\ proc'[q].sthread = proc[q].sthread
           /\ Exists(q) =>
                /\ proc'[q].nextofkin = IF proc[q].nextofkin = p
                     THEN proc[p].nextofkin ELSE proc[q].nextofkin
                /\ proc'[q].parent = IF proc[q].parent = p
                     THEN proc_init ELSE proc[q].parent
           /\ ~Exists(q) => proc'[q] = proc[q]
           /\ q # p => \/ proc'[q].stat = proc[q].stat
                       \/ proc[q].stat = "exitsleep" /\ proc'[q].stat = "exit"
                       \/ proc[q].stat = "waitid" /\ proc'[q].stat = "run"
      /\ proc'[p].stat = "SZOMB"
  BY <1>0, ExitZombieEffect
<1>2. \A q \in Procs : /\ proc'[q].stat = "free" <=> proc[q].stat = "free"
                       /\ q # p /\ proc'[q].stat = "SZOMB" => proc[q].stat = "SZOMB"
                       /\ proc'[q].stat \in UsesSpace <=> proc[q].stat \in UsesSpace
                       /\ proc'[q].stat = "relvm" <=> proc[q].stat = "relvm"
                       /\ proc'[q].stat = "vfwait" <=> proc[q].stat = "vfwait"
  BY <1>0, <1>1 DEF UsesSpace
<1>3. TableSound'
  <2>1. ASSUME NEW q \in Procs, proc'[q].stat = "free" PROVE proc'[q] = NoProc
    BY <1>1, <1>2, <2>1 DEF CoreInv, TableSound, Exists
  <2>2. ~proc'[proc_init].sthread /\ ~proc'[proc_init].svfork
        /\ proc'[proc_init].parent = NULL
    BY <1>0, <1>1, ThreadsAssumption DEF CoreInv, TableSound, SameSpace, Exists
  <2>3. proc'[proc_init].stat \in {"run", "waitid", "futex", "vfwait"}
    BY <1>0, <1>1, ThreadsAssumption DEF CoreInv, TableSound
  <2> QED BY <1>0, <1>1, <2>1, <2>2, <2>3 DEF TableSound
<1>4. proc[p].nextofkin # p
  BY <1>0, NotOwnKin DEF CoreInv
<1>5. /\ proc[p].nextofkin \in Procs \ {p} /\ ~proc[proc[p].nextofkin].sthread
      /\ proc[proc[p].nextofkin].stat \notin {"free", "SZOMB"}
  BY <1>0, <1>4 DEF CoreInv, KinIsProcess
<1>6. ASSUME NEW m \in Procs \ {p}, proc[m].stat \notin {"free", "SZOMB"}, ~proc[m].sthread
      PROVE  proc'[m].stat \notin {"free", "SZOMB"} /\ ~proc'[m].sthread
  BY <1>1, <1>2, <1>6
<1>7. KinIsProcess'
  <2> SUFFICES ASSUME NEW q \in Procs \ {proc_init}, proc'[q].stat # "free"
               PROVE  /\ proc'[q].parent \in Procs /\ proc'[q].nextofkin \in Procs
                      /\ proc'[proc'[q].parent].stat \notin {"free", "SZOMB"}
                      /\ proc'[proc'[q].nextofkin].stat \notin {"free", "SZOMB"}
                      /\ ~proc'[proc'[q].parent].sthread
                      /\ ~proc'[proc'[q].nextofkin].sthread
    BY DEF KinIsProcess, Exists
  <2>1. Exists(q)
    BY <1>2 DEF Exists
  <2>2. /\ proc'[q].nextofkin \in Procs \ {p}
        /\ proc[proc'[q].nextofkin].stat \notin {"free", "SZOMB"}
        /\ ~proc[proc'[q].nextofkin].sthread
    BY <1>1, <1>5, <2>1 DEF CoreInv, KinIsProcess
  <2>3. /\ proc'[q].parent \in Procs \ {p}
        /\ proc[proc'[q].parent].stat \notin {"free", "SZOMB"}
        /\ ~proc[proc'[q].parent].sthread
    BY <1>0, <1>1, <2>1, ThreadsAssumption DEF CoreInv, KinIsProcess, TableSound
  <2> QED BY <1>6, <2>2, <2>3
<1>8. RootedKin'
  <2>1. \A q \in Procs : proc'[q].stat # "free" =>
               /\ proc[q].stat # "free"
               /\ proc'[q].nextofkin = IF proc[q].nextofkin = p
                    THEN proc[p].nextofkin ELSE proc[q].nextofkin
               /\ proc'[q].parent = IF proc[q].parent = p
                    THEN proc_init ELSE proc[q].parent
    BY <1>1, <1>2 DEF Exists
  <2> QED BY <1>0, <2>1, RootedExit DEF CoreInv
<1>9. ASSUME NEW q \in Procs, proc[q].sthread
      PROVE  Exists(q) /\ q # p /\ proc'[q].parent = proc[q].parent
             /\ proc[q].parent \in Procs
  <2>1. Exists(q) /\ q # p /\ q # proc_init
    BY <1>0, <1>9 DEF CoreInv, TableSound, ThreadSound, Exists
  <2>2. proc[q].parent # p
    BY <1>0, <1>9 DEF CoreInv, ThreadSound, UsesSpace
  <2> QED BY <1>1, <2>1, <2>2 DEF CoreInv, KinIsProcess
<1>10. ThreadSound'
  <2> SUFFICES ASSUME NEW q \in Procs, proc'[q].sthread
               PROVE  /\ proc'[q].stat \in {"run", "futex", "SZOMB"} /\ ~proc'[q].svfork
                      /\ proc'[q].stat = "SZOMB" => oldproc' = q
                      /\ proc'[proc'[q].parent].stat \in UsesSpace
                      /\ proc'[q].as = proc'[proc'[q].parent].as
    BY DEF ThreadSound
  <2>1. proc[q].sthread
    BY <1>1
  <2>2. proc[q].stat \in {"run", "futex"} /\ q # p
        /\ proc'[q].parent = proc[q].parent /\ proc[q].parent \in Procs
    BY <1>0, <1>9, <2>1, ThreadsAssumption DEF CoreInv, ThreadSound
  <2>3. proc'[q].stat \in {"run", "futex"}
    BY <1>1, <2>2
  <2> QED BY <1>1, <1>2, <2>1, <2>2, <2>3 DEF CoreInv, ThreadSound, SameSpace
<1>11. PlaceSound'
  BY <1>0, <1>1, <1>2 DEF CoreInv, PlaceSound, SameSpace
<1>12. ASSUME NEW q \in Procs, Borrower(q)'
      PROVE  /\ Borrower(q) /\ proc'[q].parent = proc[q].parent
             /\ proc[q].parent \in Procs \ {p}
  <2>1. Borrower(q) /\ Exists(q) /\ q # proc_init
    BY <1>1, <1>2, <1>12
       DEF Borrower, SameSpace, CoreInv, PlaceSound, UsesSpace, Exists, TableSound
  <2>2. proc[proc[q].parent].stat = "vfwait"
    BY <2>1 DEF CoreInv, VforkSound
  <2> QED BY <1>0, <1>1, <2>1, <2>2 DEF CoreInv, KinIsProcess
<1>13. VforkSound'
  <2>1. ASSUME NEW q \in Procs, Borrower(q)'
        PROVE  proc'[proc'[q].parent].stat = "vfwait"
    BY <1>2, <1>12, <2>1 DEF CoreInv, VforkSound
  <2>2. ASSUME NEW q \in Procs, proc'[q].svfork
        PROVE  proc'[q].as = proc'[proc'[q].parent].as
    <3>1. Borrower(q)' /\ proc[q].svfork
      BY <1>1, <2>2 DEF Borrower, SameSpace
    <3> QED BY <1>1, <1>12, <3>1 DEF CoreInv, VforkSound, SameSpace
  <2>3. ASSUME NEW q \in Procs, NEW r \in Procs, Borrower(q)', Borrower(r)',
               proc'[q].parent = proc'[r].parent
        PROVE  q = r
    BY <1>12, <2>3 DEF CoreInv, VforkSound
  <2> QED BY <2>1, <2>2, <2>3 DEF VforkSound
<1>14. OwnersApart'
  <2>1. \A q \in Procs : Owner(q)' <=> Owner(q)
    BY <1>1, <1>2 DEF Owner, SameSpace
  <2> QED BY <1>1, <2>1 DEF CoreInv, OwnersApart, SameSpace
<1>15. SpaceSound'
  <2>1. \A a : Used(a)' <=> Used(a)
    BY <1>1, <1>2 DEF Used, SameSpace
  <2> QED BY <1>0, <2>1, SpaceForm DEF CoreInv
<1> QED BY <1>3, <1>7, <1>8, <1>10, <1>11, <1>13, <1>14, <1>15 DEF CoreInv

(***************************************************************************)
(* The other steps.                                                        *)
(***************************************************************************)

\* The process that sleeps in waitid() is not a thread: it has a child.
LEMMA WaitSleepKeeps ==
    ASSUME CoreInv, TypeOK', NEW p \in Procs, WaitSleep(p)
    PROVE  CoreInv'
<1>0. TypeOK /\ proc[p].stat = "run" /\ live' = live /\ oldproc' = oldproc
      /\ oldproc = NULL
  BY DEF WaitSleep, At, CoreInv
<1>1. /\ proc'[p].stat = "waitid" /\ SameKin(p) /\ SameSpace(p)
      /\ \A q \in Procs \ {p} : proc'[q] = proc[q]
  BY <1>0, QuietEffect
<1>2. ~proc[p].sthread
  <2>1. PICK c \in WaitedFor(p) : TRUE
    BY DEF WaitSleep
  <2>2. c \in Procs /\ Exists(c) /\ proc[c].parent = p
    BY DEF WaitedFor, Children
  <2>3. c # proc_init
    BY <2>2, ThreadsAssumption DEF CoreInv, TableSound
  <2> QED BY <2>2, <2>3 DEF CoreInv, KinIsProcess
<1>3. \A q \in Procs : Quiet(q)
  BY <1>0, <1>1 DEF Quiet, Busy, SameKin, SameSpace
<1>4. TableSound'
  BY <1>0, <1>1, ThreadsAssumption DEF CoreInv, TableSound, SameKin, SameSpace
<1>5. \A q \in Procs : proc'[q].sthread =>
               /\ proc'[q].stat \in {"run", "futex", "SZOMB"}
               /\ proc'[q].stat = "SZOMB" => oldproc' = q
  BY <1>0, <1>1, <1>2 DEF CoreInv, ThreadSound, SameKin
<1> QED BY <1>0, <1>3, <1>4, <1>5, QuietKeeps

\* So does a sleep in do_futex_wait(), of a thread as well, and its end.
LEMMA FutexKeeps ==
    ASSUME CoreInv, TypeOK', NEW p \in Procs, FutexWait(p) \/ FutexWake(p)
    PROVE  CoreInv'
<1>0. TypeOK /\ proc[p].stat \in {"run", "futex"} /\ live' = live
      /\ oldproc' = oldproc
  BY DEF FutexWait, FutexWake, At, CoreInv
<1>1. /\ proc'[p].stat \in {"run", "futex"} /\ SameKin(p) /\ SameSpace(p)
      /\ \A q \in Procs \ {p} : proc'[q] = proc[q]
  BY <1>0, QuietEffect
<1>3. \A q \in Procs : Quiet(q)
  BY <1>0, <1>1 DEF Quiet, Busy, SameKin, SameSpace
<1>4. TableSound'
  <2>1. ASSUME NEW q \in Procs, proc'[q].stat = "free" PROVE proc'[q] = NoProc
    BY <1>1, <2>1 DEF CoreInv, TableSound
  <2>2. ~proc'[proc_init].sthread /\ ~proc'[proc_init].svfork
        /\ proc'[proc_init].parent = NULL
    BY <1>1, ThreadsAssumption DEF CoreInv, TableSound, SameKin, SameSpace
  <2>3. proc'[proc_init].stat \in {"run", "waitid", "futex", "vfwait"}
    BY <1>1, ThreadsAssumption DEF CoreInv, TableSound
  <2>4. oldproc # NULL => oldproc \in Procs \ {p}
    BY <1>0 DEF CoreInv, TypeOK, TableSound
  <2> QED BY <1>0, <1>1, <2>1, <2>2, <2>3, <2>4 DEF CoreInv, TableSound
<1>5. \A q \in Procs : proc'[q].sthread =>
               /\ proc'[q].stat \in {"run", "futex", "SZOMB"}
               /\ proc'[q].stat = "SZOMB" => oldproc' = q
  BY <1>0, <1>1 DEF CoreInv, ThreadSound, SameKin
<1> QED BY <1>0, <1>3, <1>4, <1>5, QuietKeeps

\* exit() begins.
LEMMA ExitKeeps ==
    ASSUME CoreInv, TypeOK', NEW p \in Procs, Exit(p)
    PROVE  CoreInv'
<1>0. TypeOK /\ proc[p].stat = "run" /\ live' = live /\ oldproc' = oldproc
      /\ ~proc[p].sthread /\ p # proc_init /\ oldproc = NULL
  BY DEF Exit, At, CoreInv
<1>1. /\ proc'[p].stat = "exit" /\ SameKin(p) /\ SameSpace(p)
      /\ \A q \in Procs \ {p} : proc'[q] = proc[q]
  BY <1>0, QuietEffect
<1>3. \A q \in Procs : Quiet(q)
  BY <1>0, <1>1 DEF Quiet, Busy, SameKin, SameSpace
<1>4. TableSound'
  BY <1>0, <1>1, ThreadsAssumption DEF CoreInv, TableSound, SameKin, SameSpace
<1>5. \A q \in Procs : proc'[q].sthread =>
               /\ proc'[q].stat \in {"run", "futex", "SZOMB"}
               /\ proc'[q].stat = "SZOMB" => oldproc' = q
  BY <1>0, <1>1 DEF CoreInv, ThreadSound, SameKin
<1> QED BY <1>0, <1>3, <1>4, <1>5, QuietKeeps

\* exit_threads() kills the threads and sleeps.
LEMMA ExitThreadsKeeps ==
    ASSUME CoreInv, TypeOK', NEW p \in Procs, ExitThreads(p)
    PROVE  CoreInv'
<1>0. TypeOK /\ proc[p].stat = "exit" /\ live' = live /\ oldproc' = oldproc
      /\ ~proc[p].sthread /\ p # proc_init /\ oldproc = NULL
  BY DEF ExitThreads, At, CoreInv, TableSound, ThreadSound
<1>1. /\ proc'[p].stat = "exitsleep" /\ SameKin(p) /\ SameSpace(p)
      /\ \A q \in ThreadsOf(p) \ {p} :
           /\ SameKin(q) /\ SameSpace(q)
           /\ proc'[q].stat = IF proc[q].stat = "waitid" THEN "run" ELSE proc[q].stat
      /\ \A q \in Procs \ (ThreadsOf(p) \cup {p}) : proc'[q] = proc[q]
  BY <1>0, ExitThreadsEffect
<1>2. \A q \in ThreadsOf(p) : q \in Procs /\ proc[q].sthread /\ q # p
                              /\ proc[q].stat \in {"run", "futex", "SZOMB"} /\ q # proc_init
  BY <1>0 DEF ThreadsOf, Children, CoreInv, ThreadSound, TableSound
<1>3. \A q \in Procs \ {p} : /\ SameKin(q) /\ SameSpace(q)
                             /\ proc'[q].stat = proc[q].stat
                             /\ q \notin ThreadsOf(p) => proc'[q] = proc[q]
  BY <1>1, <1>2 DEF SameKin, SameSpace
<1>4. \A q \in Procs : Quiet(q)
  BY <1>0, <1>1, <1>3 DEF Quiet, Busy
<1>5. TableSound'
  <2>1. ASSUME NEW q \in Procs, proc'[q].stat = "free" PROVE proc'[q] = NoProc
    BY <1>1, <1>2, <1>3, <2>1 DEF CoreInv, TableSound
  <2>2. ~proc'[proc_init].sthread /\ ~proc'[proc_init].svfork
        /\ proc'[proc_init].parent = NULL
        /\ proc'[proc_init].stat \in {"run", "waitid", "futex", "vfwait"}
    BY <1>0, <1>3, ThreadsAssumption DEF CoreInv, TableSound, SameKin, SameSpace
  <2> QED BY <1>0, <2>1, <2>2 DEF TableSound
<1>6. \A q \in Procs : proc'[q].sthread =>
               /\ proc'[q].stat \in {"run", "futex", "SZOMB"}
               /\ proc'[q].stat = "SZOMB" => oldproc' = q
  BY <1>0, <1>1, <1>3 DEF CoreInv, ThreadSound, SameKin
<1> QED BY <1>0, <1>4, <1>5, <1>6, QuietKeeps

\* A zombie that waitid() finds is freed.
LEMMA WaitReapKeeps ==
    ASSUME CoreInv, TypeOK', NEW p \in Procs, NEW c \in Procs, WaitReap(p, c)
    PROVE  CoreInv'
<1>0. TypeOK /\ proc[c].stat = "SZOMB" /\ live' = live /\ oldproc' = oldproc
      /\ c # proc_init /\ oldproc = NULL
  BY DEF WaitReap, At, CoreInv, TableSound
<1>1. proc'[c] = NoProc /\ \A q \in Procs \ {c} : proc'[q] = proc[q]
  BY <1>0, QuietEffect
<1>2. NoProc.sthread = FALSE
  BY DEF NoProc
<1>3. \A q \in Procs : Quiet(q)
  BY <1>0, <1>1 DEF Quiet, SameKin, SameSpace
<1>4. TableSound'
  BY <1>0, <1>1, ThreadsAssumption DEF CoreInv, TableSound
<1>5. \A q \in Procs : proc'[q].sthread =>
               /\ proc'[q].stat \in {"run", "futex", "SZOMB"}
               /\ proc'[q].stat = "SZOMB" => oldproc' = q
  BY <1>0, <1>1, <1>2 DEF CoreInv, ThreadSound
<1> QED BY <1>0, <1>3, <1>4, <1>5, QuietKeeps

\* So are all of them when SA_NOCLDWAIT is set.
LEMMA SetNoWaitKeeps ==
    ASSUME CoreInv, TypeOK', NEW p \in Procs, NEW on \in BOOLEAN, SetNoWait(p, on)
    PROVE  CoreInv'
<1>0. TypeOK /\ proc[p].stat = "run" /\ live' = live /\ oldproc' = oldproc
      /\ oldproc = NULL
  BY DEF SetNoWait, At, CoreInv
<1>1. /\ proc'[p].stat = "run" /\ SameKin(p) /\ SameSpace(p)
      /\ \A q \in Procs \ {p} :
                \/ proc'[q] = proc[q]
                \/ proc[q].stat = "SZOMB" /\ q \in Children(p) /\ proc'[q] = NoProc
  BY <1>0, SetNoWaitEffect
<1>2. NoProc.sthread = FALSE
  BY DEF NoProc
<1>3. \A q \in Procs : Quiet(q)
  BY <1>0, <1>1 DEF Quiet, SameKin, SameSpace
<1>4. TableSound'
  <2>1. ASSUME NEW q \in Procs, proc'[q].stat = "free" PROVE proc'[q] = NoProc
    BY <1>1, <2>1 DEF CoreInv, TableSound
  <2>2. ~proc'[proc_init].sthread /\ ~proc'[proc_init].svfork
        /\ proc'[proc_init].parent = NULL
        /\ proc'[proc_init].stat \in {"run", "waitid", "futex", "vfwait"}
    BY <1>0, <1>1, ThreadsAssumption DEF CoreInv, TableSound, SameKin, SameSpace
  <2> QED BY <1>0, <2>1, <2>2 DEF TableSound
<1>5. \A q \in Procs : proc'[q].sthread =>
               /\ proc'[q].stat \in {"run", "futex", "SZOMB"}
               /\ proc'[q].stat = "SZOMB" => oldproc' = q
  BY <1>0, <1>1, <1>2 DEF CoreInv, ThreadSound, SameKin
<1> QED BY <1>0, <1>3, <1>4, <1>5, QuietKeeps

\* segu_release() frees a thread's entry and leaves no zombie of a thread.
LEMMA SeguReleaseKeeps ==
    ASSUME CoreInv, TypeOK', NEW p \in Procs, SeguRelease(p)
    PROVE  CoreInv'
<1>0. TypeOK /\ proc[p].stat = "SZOMB" /\ live' = live /\ oldproc' = NULL
      /\ p # proc_init /\ oldproc = p
  BY ThreadsAssumption DEF SeguRelease, CoreInv, TableSound
<1>1. /\ proc'[p] = NoProc \/ (~proc[p].sthread /\ proc'[p] = proc[p])
      /\ \A q \in Procs \ {p} :
           /\ SameKin(q) /\ SameSpace(q)
           /\ \/ proc'[q].stat = proc[q].stat
              \/ proc[q].stat = "exitsleep" /\ proc'[q].stat = "exit"
              \/ proc[q].stat = "waitid" /\ proc'[q].stat = "run"
  BY <1>0, SeguReleaseEffect
<1>2. NoProc.sthread = FALSE
  BY DEF NoProc
<1>3. \A q \in Procs : Quiet(q)
  BY <1>0, <1>1 DEF Quiet, SameKin, SameSpace, Busy
<1>4. ASSUME NEW q \in Procs \ {p}, proc[q].stat = "free" PROVE proc'[q] = proc[q]
  <2>1. SeguWake(proc, p)[q] = proc[q]
    BY <1>0, <1>4, WakeEffect DEF SeguWake, TypeOK
  <2>2. SeguWake(proc, p) \in [Procs -> Proc]
    BY <1>0, WakeEffect DEF SeguWake, TypeOK
  <2>3. proc' = [SeguWake(proc, p) EXCEPT ![p] = NoProc] \/ proc' = SeguWake(proc, p)
    BY DEF SeguRelease
  <2> QED BY <2>1, <2>2, <2>3
<1>5. TableSound'
  <2>1. ASSUME NEW q \in Procs, proc'[q].stat = "free" PROVE proc'[q] = NoProc
    BY <1>0, <1>1, <1>4, <2>1 DEF CoreInv, TableSound
  <2>2. ~proc'[proc_init].sthread /\ ~proc'[proc_init].svfork
        /\ proc'[proc_init].parent = NULL
        /\ proc'[proc_init].stat \in {"run", "waitid", "futex", "vfwait"}
    BY <1>0, <1>1, ThreadsAssumption DEF CoreInv, TableSound, SameKin, SameSpace
  <2> QED BY <1>0, <2>1, <2>2 DEF TableSound
<1>6. \A q \in Procs : proc'[q].sthread =>
               /\ proc'[q].stat \in {"run", "futex", "SZOMB"}
               /\ proc'[q].stat = "SZOMB" => oldproc' = q
  BY <1>0, <1>1, <1>2 DEF CoreInv, ThreadSound, SameKin
<1> QED BY <1>0, <1>3, <1>5, <1>6, QuietKeeps

\* A disciplined step is a step.
LEMMA DisciplinedStep == [DisciplinedNext]_vars => [Next]_vars
BY Zenon DEF DisciplinedNext, Next

\* The invariant but for waitid() is kept by every disciplined step.
LEMMA CoreStep ==
    ASSUME CoreInv, [DisciplinedNext]_vars PROVE CoreInv'
<1>1. TypeOK' /\ TypeOK
  BY TypeStep, DisciplinedStep DEF CoreInv
<1>2. ASSUME NEW p \in Procs, ExitVm(p) PROVE CoreInv'
  <2>1. proc[p].stat = "exit" /\ ThreadsOf(p) = {} /\ oldproc' = oldproc
    BY <1>2 DEF ExitVm, NoThreadsLeft, At
  <2>2. p # proc_init /\ ~proc[p].sthread
    BY <2>1 DEF CoreInv, TableSound, ThreadSound
  <2>3. proc[p].nas = NULL
    BY <2>1 DEF CoreInv, PlaceSound
  <2>4. CASE proc[p].svfork
    <3>1. OnlyMoved(p) /\ GaveBack(p, NULL)
      BY <1>1, <1>2, <2>1, <2>3, <2>4, RelvmEffect DEF OnlyMoved, GaveBack, ExitVm
    <3> QED BY <1>1, <2>1, <2>2, <2>4, <3>1, GaveBackKeeps
  <2>5. CASE ~proc[p].svfork
    <3>1. OnlyMoved(p) /\ Vacated(p, NULL)
      BY <1>1, <1>2, <2>1, <2>5, LeaveEffect DEF OnlyMoved, Vacated, ExitVm
    <3> QED BY <1>1, <2>1, <2>2, <2>5, <3>1, VacatedKeeps
  <2> QED BY <2>4, <2>5
<1>3. ASSUME NEW p \in Procs, ~proc[p].sthread, ThreadsOf(p) = {}, Exec(p)
      PROVE  CoreInv'
  <2>1. proc[p].stat = "run" /\ ThreadsOf(p) = {} /\ oldproc' = oldproc
        /\ ~proc[p].svfork /\ ~proc[p].sthread
        /\ live' = (live \ {proc[p].as}) \cup {as_alloc}
    BY <1>3 DEF Exec, At
  <2>2. as_alloc \in Spaces \ live /\ as_alloc # NULL
    BY <1>3, FreshSpace, ThreadsAssumption DEF Exec
  <2>3. OnlyMoved(p) /\ Vacated(p, as_alloc)
    BY <1>1, <1>3, <2>1, <2>2, ExecEffect DEF OnlyMoved, Vacated
  <2> QED BY <1>1, <2>1, <2>2, <2>3, VacatedKeeps
<1>4. ASSUME NEW p \in Procs, ~proc[p].sthread, ThreadsOf(p) = {}, ExecVforked(p)
      PROVE  CoreInv'
  <2>1. proc[p].stat = "run" /\ ThreadsOf(p) = {} /\ oldproc' = oldproc
        /\ proc[p].svfork /\ ~proc[p].sthread
        /\ live' = live \cup {as_alloc}
    BY <1>4 DEF ExecVforked, At
  <2>2. as_alloc \in Spaces \ live
    BY <1>4, FreshSpace DEF ExecVforked
  <2>3. OnlyMoved(p) /\ GaveBack(p, as_alloc)
    BY <1>1, <1>4, <2>1, <2>2, RelvmEffect DEF OnlyMoved, GaveBack
  <2> QED BY <1>1, <2>1, <2>3, GaveBackKeeps
<1>5. CASE UNCHANGED vars
  BY <1>5 DEF vars, CoreInv, TypeOK, TableSound, KinIsProcess, RootedKin,
              Existing, Exists, ThreadSound, PlaceSound, VforkSound, Borrower,
              OwnersApart, Owner, SpaceSound
<1>6. ASSUME NEW p \in Procs, NEW c \in Procs,
             \/ ~proc[p].sthread
                /\ (ThreadCreate(p, c) \/ Fork(p, c) \/ Vfork(p, c))
             \/ VforkDone(p, c) \/ WaitReap(p, c)
      PROVE  CoreInv'
  BY <1>1, <1>6, CreateKeeps, VforkDoneKeeps, WaitReapKeeps
<1>7. ASSUME NEW p \in Procs,
             \/ \E on \in BOOLEAN : SetNoWait(p, on)
             \/ RelvmDone(p) \/ ThreadExit(p) \/ Exit(p) \/ ExitThreads(p)
             \/ ExitZombie(p) \/ SeguRelease(p) \/ WaitSleep(p)
             \/ FutexWait(p) \/ FutexWake(p)
      PROVE  CoreInv'
  BY <1>1, <1>7, SetNoWaitKeeps, RelvmDoneKeeps, ThreadExitKeeps, ExitKeeps,
     ExitThreadsKeeps, ExitZombieKeeps, SeguReleaseKeeps, WaitSleepKeeps,
     FutexKeeps
<1> QED BY <1>2, <1>3, <1>4, <1>5, <1>6, <1>7 DEF DisciplinedNext, Create, Other

(***************************************************************************)
(* waitid().                                                               *)
(***************************************************************************)

\* Nobody falls asleep in this step, no sleeper loses a child it waits for,
\* and none gets a zombie.
WaitersKept ==
    /\ \A p \in Procs : proc'[p].stat = "waitid" => proc[p].stat = "waitid"
    /\ \A q \in Procs :
         /\ proc[q].stat \notin {"free", "SZOMB"} /\ ~proc[q].sthread
         /\ proc'[proc[q].parent].stat = "waitid"
         => /\ proc'[q].parent = proc[q].parent /\ ~proc'[q].sthread
            /\ proc'[q].stat # "free"
    /\ \A q \in Procs :
         /\ proc'[q].stat = "SZOMB" /\ ~proc'[q].sthread
         /\ proc'[proc'[q].parent].stat = "waitid"
         => /\ proc'[q].parent = proc[q].parent /\ ~proc[q].sthread
            /\ proc[q].stat = "SZOMB"

\* Such a step leaves nobody asleep in waitid() for nothing.
LEMMA WaitKept ==
    ASSUME WaitNotStuck, WaitersKept PROVE WaitNotStuck'
<1> SUFFICES ASSUME NEW p \in Procs, proc'[p].stat = "waitid"
             PROVE  /\ \E c \in Procs : proc'[c].stat # "free"
                                        /\ proc'[c].parent = p /\ ~proc'[c].sthread
                    /\ \A c \in Procs : proc'[c].stat # "free"
                          /\ proc'[c].parent = p /\ ~proc'[c].sthread
                          => proc'[c].stat # "SZOMB"
  BY DEF WaitNotStuck, WaitedFor, ThreadsOf, Children, Exists
<1>1. proc[p].stat = "waitid"
  BY DEF WaitersKept
<1>2. \A c \in Procs : c \in WaitedFor(p) <=>
         proc[c].stat # "free" /\ proc[c].parent = p /\ ~proc[c].sthread
  BY DEF WaitedFor, ThreadsOf, Children, Exists
<1>3. WaitedFor(p) # {} /\ \A c \in WaitedFor(p) : proc[c].stat # "SZOMB"
  BY <1>1 DEF WaitNotStuck
<1>4. WaitedFor(p) \subseteq Procs
  BY DEF WaitedFor, Children
<1>5. PICK d \in Procs : /\ proc[d].stat \notin {"free", "SZOMB"}
                         /\ proc[d].parent = p /\ ~proc[d].sthread
  BY <1>2, <1>3, <1>4
<1>6. proc'[d].stat # "free" /\ proc'[d].parent = p /\ ~proc'[d].sthread
  BY <1>5 DEF WaitersKept
<1>7. ASSUME NEW c \in Procs, proc'[c].stat # "free", proc'[c].parent = p,
             ~proc'[c].sthread, proc'[c].stat = "SZOMB"
      PROVE  FALSE
  <2>1. proc'[c].parent = proc[c].parent /\ ~proc[c].sthread /\ proc[c].stat = "SZOMB"
    BY <1>7 DEF WaitersKept
  <2> QED BY <1>2, <1>3, <1>7, <2>1
<1> QED BY <1>6, <1>7

\* What waitid() relies on is kept by every step: only a process that finds
\* children and no zombie falls asleep, and a child that becomes a zombie, or
\* is handed over as one, wakes the parent it then has.
LEMMA WaitStep ==
    ASSUME CoreInv, WaitNotStuck, [Next]_vars PROVE WaitNotStuck'
<1>0. TypeOK /\ NoProc.stat = "free"
  BY DEF CoreInv, NoProc
<1>1. ASSUME NEW p \in Procs, NEW c \in Procs,
             ThreadCreate(p, c) \/ Fork(p, c) \/ Vfork(p, c)
      PROVE  WaitNotStuck'
  <2> DEFINE K == {"run", "vfwait"}
  <2>1. proc[p].stat = "run" /\ proc[c].stat = "free" /\ p # c
    BY <1>1 DEF ThreadCreate, Fork, Vfork, newproc, At, Exists
  <2>2. /\ proc'[c].stat = "run" /\ proc'[p].stat \in K /\ SameKin(p)
        /\ \A q \in Procs \ {p, c} : proc'[q] = proc[q]
    <3>1. proc[p].as \in Spaces \cup {NULL}
      BY <1>0, Fields DEF TypeOK
    <3>2. CASE ThreadCreate(p, c)
      <4>1. Born(p, c, TRUE, FALSE, proc[p].as)
        BY <1>0, <3>1, <3>2, NewprocEffect DEF ThreadCreate
      <4> QED BY <4>1 DEF Born
    <3>3. CASE Fork(p, c)
      <4>1. Born(p, c, FALSE, FALSE, as_alloc)
        BY <1>0, <3>3, NewprocEffect, FreshSpace DEF Fork
      <4> QED BY <4>1 DEF Born
    <3>4. CASE Vfork(p, c)
      <4>1. Born(p, c, FALSE, TRUE, proc[p].as)
        BY <1>0, <3>1, <3>4, NewprocEffect DEF Vfork
      <4> QED BY <4>1 DEF Born
    <3> QED BY <1>1, <3>2, <3>3, <3>4
  <2>3. WaitersKept
    BY <2>1, <2>2 DEF WaitersKept, SameKin
  <2> QED BY <2>3, WaitKept
<1>2. ASSUME NEW p \in Procs, NEW c \in Procs, VforkDone(p, c) PROVE WaitNotStuck'
  <2>1. /\ p # c /\ proc'[p].stat = "run" /\ proc'[c].stat = "relvm"
        /\ SameKin(p) /\ SameKin(c) /\ \A q \in Procs \ {p, c} : proc'[q] = proc[q]
    BY <1>0, <1>2, VforkDoneEffect
  <2>2. WaitersKept
    BY <2>1 DEF WaitersKept, SameKin
  <2> QED BY <2>2, WaitKept
<1>3. ASSUME NEW p \in Procs, NEW c \in Procs, WaitReap(p, c) PROVE WaitNotStuck'
  <2>1. /\ proc[c].stat = "SZOMB" /\ proc'[c] = NoProc
        /\ \A q \in Procs \ {c} : proc'[q] = proc[q]
    BY <1>0, <1>3, QuietEffect DEF WaitReap
  <2>2. WaitersKept
    BY <1>0, <2>1 DEF WaitersKept
  <2> QED BY <2>2, WaitKept
<1>4. ASSUME NEW p \in Procs, NEW on \in BOOLEAN, SetNoWait(p, on) PROVE WaitNotStuck'
  <2>1. /\ proc[p].stat = "run" /\ proc'[p].stat = "run" /\ SameKin(p)
        /\ \A q \in Procs \ {p} :
             \/ proc'[q] = proc[q]
             \/ proc[q].stat = "SZOMB" /\ q \in Children(p) /\ proc'[q] = NoProc
    BY <1>0, <1>4, SetNoWaitEffect DEF SetNoWait, At
  <2>2. WaitersKept
    BY <1>0, <2>1 DEF WaitersKept, SameKin
  <2> QED BY <2>2, WaitKept
<1>5. ASSUME NEW p \in Procs, Exec(p) \/ ExecVforked(p) \/ RelvmDone(p) \/ ExitVm(p)
      PROVE  WaitNotStuck'
  <2>1. /\ proc'[p].stat \in {"run", "relvm", "exitvm"} /\ SameKin(p)
        /\ \A q \in Procs \ {p} : proc'[q] = proc[q]
    BY <1>0, <1>5, ExecEffect, RelvmEffect, LeaveEffect
  <2>2. WaitersKept
    BY <2>1 DEF WaitersKept, SameKin
  <2> QED BY <2>2, WaitKept
<1>6. ASSUME NEW p \in Procs, ThreadExit(p) PROVE WaitNotStuck'
  <2>1. /\ proc[p].sthread /\ proc'[p].stat = "SZOMB" /\ SameKin(p)
        /\ \A q \in Procs \ {p} : proc'[q] = proc[q]
    BY <1>0, <1>6, LeaveEffect DEF ThreadExit
  <2>2. WaitersKept
    BY <2>1 DEF WaitersKept, SameKin
  <2> QED BY <2>2, WaitKept
<1>7. ASSUME NEW p \in Procs, Exit(p) PROVE WaitNotStuck'
  <2>1. /\ proc'[p].stat = "exit" /\ SameKin(p)
        /\ \A q \in Procs \ {p} : proc'[q] = proc[q]
    BY <1>0, <1>7, QuietEffect
  <2>2. WaitersKept
    BY <2>1 DEF WaitersKept, SameKin
  <2> QED BY <2>2, WaitKept
<1>8. ASSUME NEW p \in Procs, ExitThreads(p) PROVE WaitNotStuck'
  <2>1. /\ proc'[p].stat = "exitsleep" /\ SameKin(p)
        /\ \A q \in ThreadsOf(p) \ {p} :
             /\ SameKin(q)
             /\ proc'[q].stat = IF proc[q].stat = "waitid" THEN "run" ELSE proc[q].stat
        /\ \A q \in Procs \ (ThreadsOf(p) \cup {p}) : proc'[q] = proc[q]
    BY <1>0, <1>8, ExitThreadsEffect
  <2>2. \A q \in Procs : /\ SameKin(q)
                         /\ \/ proc'[q].stat = proc[q].stat
                            \/ proc'[q].stat \in {"run", "exitsleep"}
    BY <2>1 DEF SameKin
  <2>3. WaitersKept
    BY <2>2 DEF WaitersKept, SameKin
  <2> QED BY <2>3, WaitKept
<1>9. ASSUME NEW p \in Procs, ExitZombie(p) PROVE WaitNotStuck'
  <2>1. proc[p].stat = "exitvm" /\ Exists(p) /\ p # proc_init
    BY <1>9 DEF ExitZombie, At, Exists, CoreInv, TableSound
  <2>2. /\ \A q \in Procs :
             /\ proc'[q].sthread = proc[q].sthread
             /\ Exists(q) =>
                  proc'[q].parent = IF proc[q].parent = p
                                    THEN proc_init ELSE proc[q].parent
             /\ ~Exists(q) => proc'[q] = proc[q]
             /\ q # p => \/ proc'[q].stat = proc[q].stat
                         \/ proc[q].stat = "exitsleep" /\ proc'[q].stat = "exit"
                         \/ proc[q].stat = "waitid" /\ proc'[q].stat = "run"
        /\ proc'[p].stat = "SZOMB"
    BY <1>0, <1>9, ExitZombieEffect
  <2>3. \A q \in Procs : q = proc[p].parent => proc'[q].stat # "waitid"
    BY <1>0, <1>9, ExitZombieEffect
  <2>4. (\E c \in Children(p) : proc[c].stat = "SZOMB")
            => proc'[proc_init].stat # "waitid"
    BY <1>0, <1>9, ExitZombieEffect
  <2>5. proc[p].parent \in Procs \ {p}
    <3>1. proc[p].parent \in Procs
      BY <2>1 DEF CoreInv, KinIsProcess
    <3>2. ASSUME proc[p].parent = p PROVE FALSE
      <4>1. {p} \in SUBSET Existing /\ {p} # {}
        BY <2>1 DEF Existing
      <4>2. \A q \in {p} \ {proc_init} : proc[q].parent \in {p}
        BY <3>2
      <4>3. proc_init \in {p}
        BY <4>1, <4>2 DEF CoreInv, RootedKin
      <4> QED BY <2>1, <4>3
    <3> QED BY <3>1, <3>2
  <2>6. \A q \in Procs : proc'[q].stat = "waitid" => proc[q].stat = "waitid"
    BY <2>2
  <2>7. ASSUME NEW q \in Procs, proc[q].stat \notin {"free", "SZOMB"},
               ~proc[q].sthread, proc'[proc[q].parent].stat = "waitid"
        PROVE  /\ proc'[q].parent = proc[q].parent /\ ~proc'[q].sthread
               /\ proc'[q].stat # "free"
    <3>1. proc[q].parent # p
      BY <2>2, <2>7
    <3> QED BY <2>2, <2>7, <3>1 DEF Exists
  <2>8. ASSUME NEW q \in Procs, proc'[q].stat = "SZOMB", ~proc'[q].sthread,
               proc'[proc'[q].parent].stat = "waitid"
        PROVE  /\ proc'[q].parent = proc[q].parent /\ ~proc[q].sthread
               /\ proc[q].stat = "SZOMB"
    <3>1. Exists(q)
      BY <2>2, <2>8 DEF Exists
    <3>2. q # p
      BY <2>2, <2>3, <2>5, <2>8, <3>1
    <3>3. proc[q].stat = "SZOMB"
      BY <2>2, <2>8, <3>2
    <3>4. proc[q].parent # p
      BY <2>2, <2>4, <2>8, <3>1, <3>3 DEF Children
    <3> QED BY <2>2, <2>8, <3>1, <3>3, <3>4
  <2>9. WaitersKept
    BY <2>6, <2>7, <2>8 DEF WaitersKept
  <2> QED BY <2>9, WaitKept
<1>10. ASSUME NEW p \in Procs, SeguRelease(p) PROVE WaitNotStuck'
  <2>1. proc[p].stat = "SZOMB"
    BY <1>10, ThreadsAssumption DEF SeguRelease, CoreInv, TableSound
  <2>2. /\ proc'[p] = NoProc \/ (~proc[p].sthread /\ proc'[p] = proc[p])
        /\ \A q \in Procs \ {p} :
             /\ SameKin(q)
             /\ \/ proc'[q].stat = proc[q].stat
                \/ proc[q].stat = "exitsleep" /\ proc'[q].stat = "exit"
                \/ proc[q].stat = "waitid" /\ proc'[q].stat = "run"
    BY <1>0, <1>10, SeguReleaseEffect
  <2>3. WaitersKept
    BY <1>0, <2>1, <2>2 DEF WaitersKept, SameKin
  <2> QED BY <2>3, WaitKept
<1>11. ASSUME NEW p \in Procs, WaitSleep(p) PROVE WaitNotStuck'
  <2>1. /\ proc'[p].stat = "waitid" /\ SameKin(p) /\ proc[p].stat = "run"
        /\ \A q \in Procs \ {p} : proc'[q] = proc[q]
    BY <1>0, <1>11, QuietEffect DEF WaitSleep, At
  <2>2. \A q \in Procs : /\ proc'[q].stat = "free" <=> proc[q].stat = "free"
                         /\ proc'[q].stat = "SZOMB" <=> proc[q].stat = "SZOMB"
                         /\ proc'[q].parent = proc[q].parent
                         /\ proc'[q].sthread = proc[q].sthread
    BY <2>1 DEF SameKin
  <2>3. \A q \in Procs : WaitedFor(q)' = WaitedFor(q)
    BY <2>2 DEF WaitedFor, ThreadsOf, Children, Exists
  <2>4. \A q \in Procs : WaitedFor(q) \subseteq Procs
    BY DEF WaitedFor, Children
  <2>5. WaitedFor(p) # {} /\ \A c \in WaitedFor(p) : proc[c].stat # "SZOMB"
    BY <1>11 DEF WaitSleep
  <2>6. \A q \in Procs : proc'[q].stat = "waitid" => q = p \/ proc[q].stat = "waitid"
    BY <2>1
  <2> QED BY <2>2, <2>3, <2>4, <2>5, <2>6 DEF WaitNotStuck
<1>12. ASSUME NEW p \in Procs, FutexWait(p) \/ FutexWake(p) PROVE WaitNotStuck'
  <2>1. /\ proc'[p].stat \in {"run", "futex"} /\ SameKin(p)
        /\ proc[p].stat \in {"run", "futex"}
        /\ \A q \in Procs \ {p} : proc'[q] = proc[q]
    BY <1>0, <1>12, QuietEffect DEF FutexWait, FutexWake, At
  <2>2. WaitersKept
    BY <2>1 DEF WaitersKept, SameKin
  <2> QED BY <2>2, WaitKept
<1>13. CASE UNCHANGED vars
  BY <1>13 DEF vars, WaitNotStuck, WaitedFor, ThreadsOf, Children, Exists
<1> QED BY <1>1, <1>2, <1>3, <1>4, <1>5, <1>6, <1>7, <1>8, <1>9, <1>10, <1>11,
           <1>12, <1>13 DEF Next, Create, Other

(***************************************************************************)
(* The theorems.                                                           *)
(***************************************************************************)

\* The invariant holds when the system is up, with init alone.
LEMMA InvInit == Init => ThreadsInv
<1> SUFFICES ASSUME Init PROVE ThreadsInv
  OBVIOUS
<1>1. /\ TypeOK /\ oldproc = NULL
      /\ proc[proc_init].stat = "run" /\ proc[proc_init].sthread = FALSE
      /\ proc[proc_init].svfork = FALSE /\ proc[proc_init].svfdone = FALSE
      /\ proc[proc_init].nas = NULL /\ proc[proc_init].parent = NULL
      /\ proc[proc_init].as \in Spaces /\ live = {proc[proc_init].as}
      /\ \A q \in Procs \ {proc_init} : proc[q] = NoProc
  BY InitFacts
<1>2. /\ NoProc.stat = "free" /\ NoProc.sthread = FALSE
      /\ NoProc.svfork = FALSE /\ NoProc.svfdone = FALSE
      /\ NoProc.as = NULL /\ NoProc.nas = NULL
  BY DEF NoProc
<1>3. TableSound
  BY <1>1, <1>2 DEF TableSound
<1>4. KinIsProcess
  BY <1>1, <1>2 DEF KinIsProcess, Exists
<1>5. RootedKin
  <2>1. Existing \subseteq {proc_init}
    BY <1>1, <1>2 DEF Existing, Exists
  <2> QED BY <2>1 DEF RootedKin
<1>6. ThreadSound
  BY <1>1, <1>2 DEF ThreadSound
<1>7. PlaceSound
  BY <1>1, <1>2, ThreadsAssumption DEF PlaceSound, UsesSpace
<1>8. VforkSound
  BY <1>1, <1>2 DEF VforkSound, Borrower
<1>9. OwnersApart
  BY <1>1, <1>2 DEF OwnersApart, Owner, UsesSpace
<1>10. SpaceSound
  <2>1. \A a : a \in live <=> Used(a)
    BY <1>1, <1>2, ThreadsAssumption DEF Used, UsesSpace
  <2> QED BY <2>1, SpaceForm
<1>11. WaitNotStuck
  BY <1>1, <1>2 DEF WaitNotStuck
<1> QED BY <1>1, <1>3, <1>4, <1>5, <1>6, <1>7, <1>8, <1>9, <1>10, <1>11 DEF ThreadsInv

\* The invariant holds in every state disciplined programs reach, for any
\* number of entries of the process table and of address spaces.
THEOREM Invariant == DisciplinedSpec => []ThreadsInv
<1>1. ThreadsInv /\ [DisciplinedNext]_vars => ThreadsInv'
  <2> SUFFICES ASSUME ThreadsInv, [DisciplinedNext]_vars PROVE ThreadsInv'
    OBVIOUS
  <2>1. CoreInv /\ WaitNotStuck
    BY DEF ThreadsInv, CoreInv
  <2>2. CoreInv' /\ WaitNotStuck'
    BY <2>1, CoreStep, WaitStep, DisciplinedStep
  <2> QED BY <2>2 DEF ThreadsInv, CoreInv
<1> QED BY <1>1, InvInit, PTL DEF DisciplinedSpec

\* While only the initial thread of each process makes threads and children,
\* and execs without threads, no process is left with a parent or a next of
\* kin whose proc_t is free or a zombie: exit() finds a live next of kin to
\* hand its orphans to.  Where a thread has a child of its own this is false:
\* the thread's proc_t is freed without a hand-over.
THEOREM KinAlive == DisciplinedSpec => []KinSound
<1>1. ThreadsInv => KinSound
  BY DEF ThreadsInv, KinIsProcess, KinSound
<1> QED BY <1>1, Invariant, PTL

\* Under the same discipline remove_proc() and relvm() free a space only when
\* its last user leaves it, and every space is freed then.  Where a process
\* execs while it has threads this is false: they are left in a freed space.
THEOREM SpacesExact == DisciplinedSpec => []SpaceSound
<1>1. ThreadsInv => SpaceSound
  BY DEF ThreadsInv
<1> QED BY <1>1, Invariant, PTL

\* Under the same discipline the parent of a vforked child stays in vfwait()
\* until the child has given the space back in relvm().
THEOREM ParentWaits == DisciplinedSpec => []VforkExclusive
<1>1. ThreadsInv => VforkExclusive
  BY DEF ThreadsInv, VforkSound, Borrower, VforkExclusive
<1> QED BY <1>1, Invariant, PTL

\* Under the same discipline a process asleep in waitid() has children to wait
\* for and no zombie among them: no exit() and no inheritance of a zombie goes
\* by unnoticed.
THEOREM WaitersAreTold == DisciplinedSpec => []WaitNotStuck
<1>1. ThreadsInv => WaitNotStuck
  BY DEF ThreadsInv
<1> QED BY <1>1, Invariant, PTL
=============================================================================

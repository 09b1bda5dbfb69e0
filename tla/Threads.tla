------------------------------ MODULE Threads ------------------------------
(***************************************************************************)
(* The life of processes and threads: newproc() (fork, vfork and           *)
(* thread_create), exec's remove_proc(), exit() with exit_threads(),       *)
(* thread_exit_current(), relvm() and vfwait(), the release of the u-block *)
(* by the next process to run (segu_release()), freeproc() and waitid().   *)
(* Sources: uts/i386/os/fork.c, exit.c, thread.c, exec.c, vm/seg_u.c.      *)
(*                                                                         *)
(* A proc_t is an element of Procs; freed entries are handed out again.    *)
(* The kernel is not preemptible, so the code between two sleeps is one    *)
(* step.  The p_child and p_orphan lists are the inverses of parent and    *)
(* nextofkin.                                                              *)
(***************************************************************************)
EXTENDS FiniteSets

CONSTANTS
    Procs,      \* proc_t entries
    proc_init,  \* process 1, which never exits
    Spaces,     \* struct as blocks
    NULL

ASSUME ThreadsAssumption ==
    /\ proc_init \in Procs
    /\ Spaces # {}
    /\ NULL \notin Procs /\ NULL \notin Spaces

VARIABLES
    proc,       \* the process table
    live,       \* address spaces allocated and not freed
    oldproc     \* the process that exited last, its u-block not yet released

vars == <<proc, live, oldproc>>

Stat == {"free", "run",
         "waitid",      \* asleep in waitid() on its own proc_t
         "futex",       \* asleep in do_futex_wait(), where no signal wakes it
         "vfwait",      \* asleep until its vforked child leaves its space
         "relvm",       \* asleep in relvm() until SVFDONE
         "exit",        \* in exit_threads(), about to look for threads
         "exitsleep",   \* asleep in exit_threads()
         "exitvm",      \* past relvm() in exit()
         "SZOMB"}

Proc == [stat : Stat,
         parent : Procs \cup {NULL}, nextofkin : Procs \cup {NULL},
         sthread : BOOLEAN, snowait : BOOLEAN,
         svfork : BOOLEAN, svfdone : BOOLEAN,
         as : Spaces \cup {NULL},
         nas : Spaces \cup {NULL},  \* exec's new space, while in relvm()
         kill : BOOLEAN]            \* SIGKILL is pending

\* An entry that is not allocated; nothing in it is ever read.
NoProc == [stat |-> "free", parent |-> NULL, nextofkin |-> NULL,
           sthread |-> FALSE, snowait |-> FALSE, svfork |-> FALSE,
           svfdone |-> FALSE, as |-> NULL, nas |-> NULL, kill |-> FALSE]

Exists(p) == proc[p].stat # "free"
Children(p) == {q \in Procs : Exists(q) /\ proc[q].parent = p}
ThreadsOf(p) == {q \in Children(p) : proc[q].sthread}
WaitedFor(p) == Children(p) \ ThreadsOf(p)

\* Mutant: the sleeper is marked running at once.
WakeOnproc(t, p) ==
    [t EXCEPT ![p].stat = IF @ \in {"exitsleep", "waitid"} THEN "SONPROC"
                                                           ELSE @]

\* wakeprocs((caddr_t)p): exit_threads() and waitid() sleep on their own proc_t.
Wake(t, p) ==
    [t EXCEPT ![p].stat = CASE @ = "exitsleep" -> "exit"
                            [] @ = "waitid"    -> "run"
                            [] OTHER           -> @]

\* A process that is at place st goes on.  None does before the u-block of the
\* last process that exited is released.
At(p, st) == proc[p].stat = st /\ oldproc = NULL

\* as_alloc() and as_dup() take some block that is free.
SpaceLeft == Spaces \ live # {}
as_alloc == CHOOSE a \in Spaces : a \notin live

(***************************************************************************)
(* Creation.                                                               *)
(***************************************************************************)
\* newproc(): p makes c.
newproc(p, c, thread, vfork, space) ==
    /\ At(p, "run") /\ ~Exists(c)
    /\ proc' = [proc EXCEPT
         ![c] = [NoProc EXCEPT !.stat = "run", !.parent = p, !.nextofkin = p,
                               !.sthread = thread, !.svfork = vfork,
                               !.snowait = proc[p].snowait, !.as = space],
         ![p].stat = IF vfork THEN "vfwait" ELSE @]
    /\ UNCHANGED oldproc

\* thread_create() shares the parent's space.
ThreadCreate(p, c) ==
    /\ newproc(p, c, TRUE, FALSE, proc[p].as)
    /\ UNCHANGED live

Fork(p, c) ==
    /\ SpaceLeft
    /\ newproc(p, c, FALSE, FALSE, as_alloc)
    /\ live' = live \cup {as_alloc}

\* vfork() lends the child the space and sleeps in vfwait().
Vfork(p, c) ==
    /\ newproc(p, c, FALSE, TRUE, proc[p].as)
    /\ UNCHANGED live

\* Mutant: any wakeup sends the parent on.
VforkDoneEarly(p, c) ==
    /\ At(p, "vfwait") /\ c \in Children(p) /\ ~proc[c].svfdone
    /\ proc' = [proc EXCEPT ![c].svfdone = TRUE, ![p].stat = "run"]
    /\ UNCHANGED <<live, oldproc>>

\* vfwait() after its wakeup: the child has given the space back; send it on.
VforkDone(p, c) ==
    /\ At(p, "vfwait")
    /\ c \in Children(p) /\ proc[c].stat = "relvm" /\ ~proc[c].svfdone
    /\ proc' = [proc EXCEPT ![c].svfdone = TRUE, ![p].stat = "run"]
    /\ UNCHANGED <<live, oldproc>>

\* sigaction(SIGCLD) with or without SA_NOCLDWAIT; setting it frees the zombies.
SetNoWait(p, on) ==
    /\ At(p, "run") /\ proc[p].snowait # on
    /\ proc' = [q \in Procs |->
                  IF q = p THEN [proc[q] EXCEPT !.snowait = on]
                  ELSE IF on /\ q \in Children(p) /\ proc[q].stat = "SZOMB"
                       THEN NoProc ELSE proc[q]]
    /\ UNCHANGED <<live, oldproc>>

(***************************************************************************)
(* Leaving an address space.                                               *)
(***************************************************************************)
\* exec of a process with a space of its own: remove_proc() frees it and takes
\* a new one.  Nothing is done about threads that use it.
Exec(p) ==
    /\ At(p, "run") /\ ~proc[p].svfork
    /\ SpaceLeft
    /\ proc' = [proc EXCEPT ![p].as = as_alloc, ![p].snowait = FALSE]
    /\ live' = (live \ {proc[p].as}) \cup {as_alloc}
    /\ UNCHANGED oldproc

\* exec of a vforked child: relvm() gives the space back, wakes the parent
\* (VforkDone) and waits for SVFDONE.
ExecVforked(p) ==
    /\ At(p, "run") /\ proc[p].svfork
    /\ SpaceLeft
    /\ proc' = [proc EXCEPT
                  ![p] = [@ EXCEPT !.stat = "relvm", !.svfork = FALSE,
                                   !.as = NULL, !.nas = as_alloc,
                                   !.snowait = FALSE]]
    /\ live' = live \cup {as_alloc}
    /\ UNCHANGED oldproc

\* The end of relvm() for a vforked child: run the new image, or die.
RelvmDone(p) ==
    /\ At(p, "relvm") /\ proc[p].svfdone
    /\ proc' = [proc EXCEPT
         ![p] = [@ EXCEPT !.svfdone = FALSE, !.as = proc[p].nas,
                          !.nas = NULL,
                          !.stat = IF proc[p].nas = NULL THEN "exitvm"
                                                          ELSE "run"]]
    /\ UNCHANGED <<live, oldproc>>

(***************************************************************************)
(* Exit.                                                                   *)
(***************************************************************************)
\* exit() of a thread: thread_exit_current().
ThreadExit(p) ==
    /\ At(p, "run") /\ proc[p].sthread
    /\ proc' = [proc EXCEPT ![p].stat = "SZOMB", ![p].kill = FALSE]
    /\ oldproc' = p
    /\ UNCHANGED live

\* exit() of a process begins.
Exit(p) ==
    /\ At(p, "run") /\ ~proc[p].sthread /\ p # proc_init
    /\ proc' = [proc EXCEPT ![p].stat = "exit"]
    /\ UNCHANGED <<live, oldproc>>

\* One turn of exit_threads() that finds threads: SIGKILL to each, and sleep.
\* The signal ends a sleep in waitid(); it does not end one in do_futex_wait(),
\* whose priority, PZERO | PCATCH, is not above PZERO.
ExitThreads(p) ==
    /\ At(p, "exit") /\ ThreadsOf(p) # {}
    /\ proc' = [q \in Procs |->
                  IF q = p THEN [proc[q] EXCEPT !.stat = "exitsleep"]
                  ELSE IF q \in ThreadsOf(p)
                       THEN [proc[q] EXCEPT !.kill = TRUE,
                                            !.stat = IF @ = "waitid" THEN "run"
                                                                     ELSE @]
                       ELSE proc[q]]
    /\ UNCHANGED <<live, oldproc>>

\* Mutant: exit() does not wait for its threads.
NoThreadsLeftEver(p) == At(p, "exit")

\* The turn of exit_threads() that finds none.
NoThreadsLeft(p) == At(p, "exit") /\ ThreadsOf(p) = {}

\* exit() up to and with relvm(), which frees the space or gives it back.
ExitVm(p) ==
    /\ NoThreadsLeft(p)
    /\ IF proc[p].svfork
       THEN /\ proc' = [proc EXCEPT
                          ![p] = [@ EXCEPT !.stat = "relvm", !.svfork = FALSE,
                                           !.as = NULL]]
            /\ UNCHANGED live
       ELSE /\ proc' = [proc EXCEPT ![p].stat = "exitvm", ![p].as = NULL]
            /\ live' = live \ {proc[p].as}
    /\ UNCHANGED oldproc

\* Mutant: the children are left with the process that dies.
HandOverOrphans(p) ==
    [q \in Procs |->
       IF Exists(q) /\ proc[q].nextofkin = p
       THEN [proc[q] EXCEPT !.nextofkin = proc[p].nextofkin] ELSE proc[q]]

\* exit() gives its orphans to its own next of kin and its children to init.
HandOver(p) ==
    [q \in Procs |->
       IF ~Exists(q) THEN proc[q]
       ELSE [proc[q] EXCEPT
               !.nextofkin = IF @ = p THEN proc[p].nextofkin ELSE @,
               !.parent = IF @ = p THEN proc_init ELSE @]]

\* Mutant: init is not told of the zombies it inherits.
SigcldParent(t, p) == Wake(t, proc[p].parent)

\* sigcld() for p, and for each child handed over: a zombie's parent is woken.
Sigcld(t, p) ==
    LET told == Wake(t, proc[p].parent)
    IN  IF \E c \in Children(p) : proc[c].stat = "SZOMB"
        THEN Wake(told, proc_init) ELSE told

\* The rest of exit(): hand over, become a zombie, tell the parent and switch
\* to another process.
ExitZombie(p) ==
    /\ At(p, "exitvm")
    /\ proc' = Sigcld([HandOver(p) EXCEPT ![p].stat = "SZOMB",
                                          ![p].kill = FALSE], p)
    /\ oldproc' = p
    /\ UNCHANGED live

\* Mutant: exit_threads() is not told.
SeguWakeNone(t, p) == t

\* segu_release() tells the parent of a thread.
SeguWake(t, p) == IF proc[p].sthread THEN Wake(t, proc[p].parent) ELSE t

\* The next process to run releases the u-block of the last one that exited
\* and frees the proc_t of a thread, or of a child nobody will wait for.  Some
\* process of the system, a daemon if nobody else, runs sooner or later.
SeguRelease(p) ==
    /\ oldproc = p
    /\ proc' = IF proc[p].sthread \/ proc[proc[p].parent].snowait
               THEN [SeguWake(proc, p) EXCEPT ![p] = NoProc]
               ELSE SeguWake(proc, p)
    /\ oldproc' = NULL
    /\ UNCHANGED live

(***************************************************************************)
(* waitid(P_ALL, WEXITED); children that are threads are passed over.      *)
(***************************************************************************)
WaitReap(p, c) ==
    /\ At(p, "run")
    /\ c \in WaitedFor(p) /\ proc[c].stat = "SZOMB"
    /\ proc' = [proc EXCEPT ![c] = NoProc]
    /\ UNCHANGED <<live, oldproc>>

WaitSleep(p) ==
    /\ At(p, "run") /\ ~proc[p].kill
    /\ WaitedFor(p) # {} /\ \A c \in WaitedFor(p) : proc[c].stat # "SZOMB"
    /\ proc' = [proc EXCEPT ![p].stat = "waitid"]
    /\ UNCHANGED <<live, oldproc>>

\* do_futex_wait(): to the process table it is a sleep that only a futex_wake()
\* or the timeout ends; the module Futex has the rest.  A thread that was sent
\* SIGKILL on its way there goes to sleep all the same.
FutexWait(p) ==
    /\ At(p, "run")
    /\ proc' = [proc EXCEPT ![p].stat = "futex"]
    /\ UNCHANGED <<live, oldproc>>

FutexWake(p) ==
    /\ proc[p].stat = "futex"
    /\ proc' = [proc EXCEPT ![p].stat = "run"]
    /\ UNCHANGED <<live, oldproc>>

Init ==
    LET a == CHOOSE b \in Spaces : TRUE
    IN  /\ proc = [p \in Procs |-> IF p = proc_init
                                   THEN [NoProc EXCEPT !.stat = "run", !.as = a]
                                   ELSE NoProc]
        /\ live = {a}
        /\ oldproc = NULL

Create(p) ==
    \E c \in Procs : ThreadCreate(p, c) \/ Fork(p, c) \/ Vfork(p, c)

Other(p) ==
    \/ \E c \in Procs : VforkDone(p, c) \/ WaitReap(p, c)
    \/ \E on \in BOOLEAN : SetNoWait(p, on)
    \/ RelvmDone(p)
    \/ ThreadExit(p) \/ Exit(p) \/ ExitThreads(p) \/ ExitVm(p)
    \/ ExitZombie(p) \/ SeguRelease(p)
    \/ WaitSleep(p) \/ FutexWait(p) \/ FutexWake(p)

Next == \E p \in Procs : Create(p) \/ Exec(p) \/ ExecVforked(p) \/ Other(p)

Spec == Init /\ [][Next]_vars

\* Programs that keep to a discipline the kernel does not enforce: only the
\* initial thread of a process makes threads and children, and it execs when
\* its threads are gone.
DisciplinedNext ==
    \E p \in Procs :
        \/ ~proc[p].sthread /\ Create(p)
        \/ ~proc[p].sthread /\ ThreadsOf(p) = {} /\ Exec(p)
        \/ ~proc[p].sthread /\ ThreadsOf(p) = {} /\ ExecVforked(p)
        \/ Other(p)

DisciplinedSpec == Init /\ [][DisciplinedNext]_vars

\* What p does next once it is inside exit(), relvm() or vfwait(), or has been
\* sent SIGKILL; it is at one of these places at a time.
Dying(p) ==
    \/ RelvmDone(p) \/ ExitThreads(p) \/ ExitVm(p) \/ ExitZombie(p)
    \/ proc[p].kill /\ ThreadExit(p)
    \/ \E c \in Procs : VforkDone(p, c)

\* The dispatcher passes over no runnable process for ever, and a thread that
\* gets SIGKILL dies when it runs.  Nobody need ever end a sleep in
\* do_futex_wait().
FairSpec ==
    /\ DisciplinedSpec
    /\ WF_vars(\E p \in Procs : SeguRelease(p))
    /\ \A p \in Procs : SF_vars(Dying(p))

(***************************************************************************)
(* Properties.                                                             *)
(***************************************************************************)

\* Every variable has its type.
TypeOK ==
    /\ proc \in [Procs -> Proc]
    /\ live \subseteq Spaces
    /\ oldproc \in Procs \cup {NULL}

\* No process is left with a parent or a next of kin whose proc_t is free or
\* that has exited: segu_release(), freeproc(), exit() and sigcld() follow
\* these pointers.
KinSound ==
    \A p \in Procs \ {proc_init} : Exists(p) =>
        /\ proc[p].parent \in Procs /\ proc[p].nextofkin \in Procs
        /\ proc[proc[p].parent].stat \notin {"free", "SZOMB"}
        /\ proc[proc[p].nextofkin].stat \notin {"free", "SZOMB"}

\* Where a process is it still uses its address space.
UsesSpace == {"run", "waitid", "futex", "vfwait", "exit", "exitsleep"}

\* "User threads are represented as normal proc_t entries that share the
\* parent's address space": the space of a process that can still run has not
\* been freed, and no space is allocated that nobody uses.
SpaceSound ==
    live = {proc[p].as : p \in {q \in Procs : proc[q].stat \in UsesSpace}}
             \cup ({proc[p].nas : p \in Procs} \ {NULL})

\* While a vforked child is in its parent's space, the parent does not run.
VforkExclusive ==
    \A c \in Procs : proc[c].svfork => proc[proc[c].parent].stat = "vfwait"

\* A process asleep in waitid() has a child to wait for and none that has
\* exited already, children inherited from dead processes included.
WaitNotStuck ==
    \A p \in Procs : proc[p].stat = "waitid" =>
        /\ WaitedFor(p) # {}
        /\ \A c \in WaitedFor(p) : proc[c].stat # "SZOMB"

\* exit() of a process comes to its end, or waits for ever for a thread in
\* do_futex_wait(): SIGKILL does not reach it there.
ExitCompletes ==
    \A p \in Procs :
        (proc[p].stat = "exit")
          ~> \/ proc[p].stat \in {"SZOMB", "free"}
             \/ [](\E t \in ThreadsOf(p) : proc[t].stat = "futex")
=============================================================================

-------------------------------- MODULE Sem --------------------------------
(***************************************************************************)
(* System V semaphores, uts/i386/os/sem.c: semop() with its loop, rollback *)
(* and sleeps, the adjust-on-exit tables, and the semctl() commands that   *)
(* change a set.  There is one header (semmni = 1, so an identifier is its *)
(* sequence number) and one set owns all the semaphores, so that a removed *)
(* set is always reused by the next one.                                   *)
(*                                                                         *)
(* The kernel is not preemptible: a process in semop() keeps the processor *)
(* (cpu) until it sleeps or returns.  It sleeps in sleep(), and in copyin()*)
(* when the page that holds its list of operations (or, for SETALL, of     *)
(* values) has to be read in.                                              *)
(***************************************************************************)
EXTENDS Integers, Sequences, FiniteSets, FiniteSetsExt, Functions

CONSTANTS
    Procs,      \* slots of the process table
    Threads,    \* slots used by threads, which leave by thread_exit_current()
    Sems,       \* semaphore numbers of the set
    Ops,        \* operations [num, op, undo, nowait]
    Lists,      \* the operation lists processes pass to semop()
    SEMVMX,     \* greatest semaphore value
    SEMAEM,     \* greatest adjust-on-exit value
    SEMUME,     \* undo entries per process
    SEMMNU,     \* undo structures in the system
    SEMOPM,     \* operations per semop()
    Values,     \* values passed to SETVAL and SETALL
    Faulting,   \* processes whose lists may be paged out
    Signalled,  \* processes that may be sent a signal
    MaxSeq,     \* bound: sets removed per behaviour (seq never wraps)
    NULL

ASSUME SemAssumption ==
    /\ Threads \subseteq Procs /\ Faulting \subseteq Procs
    /\ Signalled \subseteq Procs /\ NULL \notin Procs
    /\ {SEMVMX, SEMAEM, SEMUME, SEMMNU, SEMOPM, MaxSeq} \subseteq Nat
    /\ SEMUME > 0 /\ Sems # {} /\ Ops # {}
    /\ Ops \subseteq [num : Sems, op : Int, undo : BOOLEAN, nowait : BOOLEAN]
    /\ Lists \subseteq UNION {[1 .. n -> Ops] : n \in 1 .. SEMOPM}
    /\ Values \subseteq Nat

VARIABLES
    alloc,      \* IPC_ALLOC is set in the header's mode
    seq,        \* sem_perm.seq
    semval, semncnt, semzcnt,   \* struct sem of each semaphore
    sem_undo,   \* slots that hold an undo structure
    undo,       \* its entries: undo[p][<<id, num>>] is un_aoe
    semunp,     \* slots whose undo structure is on the undo chain
    semtmp,     \* the kernel's one buffer, read as an operation list
    cpu,        \* the process executing in semop(), or NULL
    pc,         \* where each process is in semop()
    call,       \* its arguments
    at,         \* its loop variable i, counted from 1
    stop,       \* why its loop stopped; the sleep channel while it sleeps
    slept,      \* its last copyin() slept
    sig,        \* a signal is pending
    fresh       \* history: the slot's owner has not used SEM_UNDO yet

setVars == <<alloc, seq>>
semVars == <<semval, semncnt, semzcnt>>
undoVars == <<sem_undo, undo, semunp>>
procVars == <<cpu, pc, call, at, stop, slept, sig>>
vars == <<setVars, semVars, undoVars, semtmp, procVars, fresh>>

Ids == 0 .. MaxSeq
Keys == Ids \X Sems
Why == {"none", "error", "EAGAIN", "semncnt", "semzcnt"}
PC == {"user", "copyin", "fault", "loop", "undo", "SSLEEP", "SRUN", "intr",
       "check", "setall"}
ZeroOp == CHOOSE op \in Ops : TRUE
NoCall == [id |-> 0, ops |-> <<>>]
NoStop == [why |-> "none", num |-> CHOOSE s \in Sems : TRUE]

\* semconv(): the identifier names the set that exists now.
semconv(id) == alloc /\ id = seq

\* wakeprocs() on &semncnt or &semzcnt of the semaphores in S.
Woken(pcs, S, cnt) ==
    [q \in Procs |-> IF /\ pcs[q] = "SSLEEP"
                        /\ stop[q].why = cnt /\ stop[q].num \in S
                     THEN "SRUN" ELSE pcs[q]]

\* Clear the counters of the semaphores in N and Z and wake their sleepers
\* (both only "if (semp->semncnt)", which is the same).
Clear(cnt, S) == [s \in Sems |-> IF s \in S THEN 0 ELSE cnt[s]]
WakeAll(pcs, N, Z) ==
    Woken(Woken(pcs, {s \in N : semncnt[s] > 0}, "semncnt"),
          {s \in Z : semzcnt[s] > 0}, "semzcnt")

(***************************************************************************)
(* Adjust on exit.                                                         *)
(***************************************************************************)
Aoe(p, k) == IF k \in DOMAIN undo[p] THEN undo[p][k] ELSE 0
Adjustable(v) == v <= SEMAEM /\ v >= -SEMAEM

\* semaoe(val, id, num) by process p returns an error.
SemaoeFails(p, val, k) ==
    /\ val # 0
    /\ \/ ~Adjustable(val)
       \/ p \notin sem_undo /\ Cardinality(sem_undo) >= SEMMNU
       \/ k \notin DOMAIN undo[p] /\ Cardinality(DOMAIN undo[p]) >= SEMUME
       \/ ~Adjustable(Aoe(p, k) - val)

\* The entries after it: an entry whose value becomes 0 is taken out.
Adjusted(p, val, k) ==
    LET new == Aoe(p, k) - val
    IN  IF new = 0 THEN Restrict(undo[p], DOMAIN undo[p] \ {k})
                   ELSE [j \in DOMAIN undo[p] \cup {k} |->
                           IF j = k THEN new ELSE undo[p][j]]

\* semaoe(): on an error nothing changes.
semaoe(p, val, k) ==
    IF val = 0 \/ SemaoeFails(p, val, k)
    THEN UNCHANGED undoVars
    ELSE /\ sem_undo' = sem_undo \cup {p}
         /\ undo' = [undo EXCEPT ![p] = Adjusted(p, val, k)]
         /\ semunp' = IF DOMAIN Adjusted(p, val, k) = {}
                      THEN semunp \ {p} ELSE semunp \cup {p}

\* Mutant: the chain keeps structures that have become empty.
semunrm_linked(id, S) ==
    /\ undo' = [p \in Procs |->
                  IF p \in semunp
                  THEN Restrict(undo[p], DOMAIN undo[p] \ ({id} \X S))
                  ELSE undo[p]]
    /\ UNCHANGED <<sem_undo, semunp>>

\* semunrm(): drop the entries for semaphores S of set id.
semunrm(id, S) ==
    LET left == [p \in Procs |->
                   IF p \in semunp
                   THEN Restrict(undo[p], DOMAIN undo[p] \ ({id} \X S))
                   ELSE undo[p]]
    IN  /\ undo' = left
        /\ semunp' = {p \in semunp : DOMAIN left[p] # {}}
        /\ UNCHANGED sem_undo

(***************************************************************************)
(* semop().                                                                *)
(***************************************************************************)
NoOps == [i \in 1 .. SEMOPM |-> ZeroOp]

\* What is read again of semtmp when its user is done with it: the operations
\* stored by a copyin() that sleeps half way.
Held == {i \in 1 .. SEMOPM : \E q \in Procs : pc[q] = "fault" /\ i < at[q]}

\* The process is done with semtmp; what nobody reads again is forgotten.
Discard == semtmp' = [i \in 1 .. SEMOPM |-> IF i \in Held THEN semtmp[i]
                                                          ELSE ZeroOp]

\* The process returns to user mode, where a pending signal is delivered.
Return(p) ==
    /\ Discard
    /\ cpu' = NULL
    /\ call' = [call EXCEPT ![p] = NoCall]
    /\ at' = [at EXCEPT ![p] = 1]
    /\ stop' = [stop EXCEPT ![p] = NoStop]
    /\ slept' = [slept EXCEPT ![p] = FALSE]
    /\ sig' = [sig EXCEPT ![p] = FALSE]

\* Semop on the set that exists; other identifiers are refused by semconv().
\* Bad list sizes, addresses, permissions and numbers are refused unchanged.
Semop(p, ops) ==
    /\ cpu = NULL /\ pc[p] = "user" /\ alloc
    /\ cpu' = p
    /\ pc' = [pc EXCEPT ![p] = "copyin"]
    /\ call' = [call EXCEPT ![p] = [id |-> seq, ops |-> ops]]
    /\ UNCHANGED <<setVars, semVars, undoVars, semtmp, at, stop, slept, sig,
                   fresh>>

\* semtmp with operations from .. to of p's list stored in it.
Fetched(p, from, to) ==
    [i \in 1 .. SEMOPM |-> IF i \in from .. to THEN call[p].ops[i]
                                               ELSE semtmp[i]]

\* copyin() of the list into semtmp.
Copyin(p) ==
    /\ cpu = p /\ pc[p] = "copyin"
    /\ semtmp' = Fetched(p, 1, Len(call[p].ops))
    /\ pc' = [pc EXCEPT ![p] = "loop"]
    /\ slept' = [slept EXCEPT ![p] = FALSE]
    /\ UNCHANGED <<setVars, semVars, undoVars, cpu, call, at, stop, sig, fresh>>

\* copyin() meets a page that is not in memory after k operations and sleeps
\* for it; what it has stored stays in the shared buffer.
CopyinFault(p, k) ==
    /\ cpu = p /\ pc[p] = "copyin" /\ p \in Faulting
    /\ k < Len(call[p].ops)
    /\ semtmp' = Fetched(p, 1, k)
    /\ at' = [at EXCEPT ![p] = k + 1]
    /\ pc' = [pc EXCEPT ![p] = "fault"]
    /\ slept' = [slept EXCEPT ![p] = TRUE]
    /\ cpu' = NULL
    /\ UNCHANGED <<setVars, semVars, undoVars, call, stop, sig, fresh>>

\* The page has come: copyin() goes on where it was, and semop() with it,
\* without a second look at the set.
CopyinResume(p) ==
    /\ cpu = NULL /\ pc[p] = "fault"
    /\ semtmp' = Fetched(p, at[p], Len(call[p].ops))
    /\ at' = [at EXCEPT ![p] = 1]
    /\ pc' = [pc EXCEPT ![p] = "loop"]
    /\ cpu' = p
    /\ UNCHANGED <<setVars, semVars, undoVars, call, stop, slept, sig, fresh>>

InLoop(p) == cpu = p /\ pc[p] = "loop" /\ at[p] <= Len(call[p].ops)
Op(p) == semtmp[at[p]]
Key(p, op) == <<call[p].id, op.num>>

\* Mutant: no limit on the value.
FitsAny(op) == op.op # 0 /\ semval[op.num] + op.op >= 0

\* The operation changes the value and the value allows it.
Fits(op) ==
    \/ op.op > 0 /\ op.op + semval[op.num] <= SEMVMX
    \/ op.op < 0 /\ semval[op.num] >= -op.op

\* One turn of the loop that performs a change of the value: an increment
\* wakes those who wait for one, reaching zero those who wait for that.
SemChange(p) ==
    LET op == Op(p)
        n == IF op.op > 0 THEN {op.num} ELSE {}
        z == IF semval[op.num] + op.op = 0 THEN {op.num} ELSE {}
    IN  /\ InLoop(p) /\ Fits(op)
        /\ op.undo => ~SemaoeFails(p, op.op, Key(p, op))
        /\ IF op.undo THEN semaoe(p, op.op, Key(p, op))
                      ELSE UNCHANGED undoVars
        /\ semval' = [semval EXCEPT ![op.num] = @ + op.op]
        /\ semncnt' = Clear(semncnt, n)
        /\ semzcnt' = Clear(semzcnt, z)
        /\ pc' = WakeAll(pc, n, z)
        /\ at' = [at EXCEPT ![p] = @ + 1]
        /\ fresh' = [fresh EXCEPT ![p] = @ /\ ~op.undo]
        /\ UNCHANGED <<setVars, semtmp, cpu, call, stop, slept, sig>>

\* One turn of the loop that only tests for zero.
SemIsZero(p) ==
    /\ InLoop(p) /\ Op(p).op = 0 /\ semval[Op(p).num] = 0
    /\ at' = [at EXCEPT ![p] = @ + 1]
    /\ UNCHANGED <<setVars, semVars, undoVars, semtmp, cpu, pc, call, stop,
                   slept, sig, fresh>>

\* Why the loop cannot go on: an error (ERANGE for the value, or what semaoe()
\* returned), or a wait, which IPC_NOWAIT turns into EAGAIN.
StopReason(p, op) ==
    IF op.op > 0 \/ Fits(op) THEN "error"
    ELSE IF op.nowait THEN "EAGAIN"
    ELSE IF op.op < 0 THEN "semncnt" ELSE "semzcnt"

SemStop(p) ==
    LET op == Op(p)
    IN  /\ InLoop(p)
        /\ IF op.op = 0 THEN semval[op.num] # 0
           ELSE Fits(op) => op.undo /\ SemaoeFails(p, op.op, Key(p, op))
        /\ stop' = [stop EXCEPT ![p] = [why |-> StopReason(p, op),
                                        num |-> op.num]]
        /\ pc' = [pc EXCEPT ![p] = "undo"]
        /\ UNCHANGED <<setVars, semVars, undoVars, semtmp, cpu, call, at, slept,
                       sig, fresh>>

\* Mutant: the rollback forgets the adjust-on-exit entry.
semundo_values(p) ==
    LET op == semtmp[at[p] - 1]
    IN  /\ cpu = p /\ pc[p] = "undo" /\ at[p] > 1
        /\ semval' = [semval EXCEPT ![op.num] = @ - op.op]
        /\ at' = [at EXCEPT ![p] = @ - 1]
        /\ UNCHANGED <<setVars, undoVars, semncnt, semzcnt, semtmp, cpu, pc,
                       call, stop, slept, sig, fresh>>

\* One turn of semundo(): the last operation done is taken back.  Nobody is
\* woken.
semundo(p) ==
    LET op == semtmp[at[p] - 1]
    IN  /\ cpu = p /\ pc[p] = "undo" /\ at[p] > 1
        /\ semval' = [semval EXCEPT ![op.num] = @ - op.op]
        /\ IF op.undo THEN semaoe(p, -op.op, Key(p, op))
                      ELSE UNCHANGED undoVars
        /\ at' = [at EXCEPT ![p] = @ - 1]
        /\ UNCHANGED <<setVars, semncnt, semzcnt, semtmp, cpu, pc, call, stop,
                       slept, sig, fresh>>

\* Everything is taken back and the call fails.
SemFail(p) ==
    /\ cpu = p /\ pc[p] = "undo" /\ at[p] = 1
    /\ stop[p].why \in {"error", "EAGAIN"}
    /\ pc' = [pc EXCEPT ![p] = "user"]
    /\ Return(p)
    /\ UNCHANGED <<setVars, semVars, undoVars, fresh>>

\* Everything is taken back: count the process and sleep(PCATCH), which
\* returns at once if a signal is pending.
SemSleep(p) ==
    /\ cpu = p /\ pc[p] = "undo" /\ at[p] = 1
    /\ \/ /\ stop[p].why = "semncnt"
          /\ semncnt' = [semncnt EXCEPT ![stop[p].num] = @ + 1]
          /\ UNCHANGED semzcnt
       \/ /\ stop[p].why = "semzcnt"
          /\ semzcnt' = [semzcnt EXCEPT ![stop[p].num] = @ + 1]
          /\ UNCHANGED semncnt
    /\ IF sig[p] THEN /\ pc' = [pc EXCEPT ![p] = "intr"]
                      /\ UNCHANGED cpu
                 ELSE /\ pc' = [pc EXCEPT ![p] = "SSLEEP"]
                      /\ cpu' = NULL
    /\ Discard
    /\ UNCHANGED <<setVars, semval, undoVars, call, at, stop, slept, sig,
                   fresh>>

\* The dispatcher picks the process; sleep() returns 1 if a signal is pending.
SemResume(p) ==
    /\ cpu = NULL /\ pc[p] = "SRUN"
    /\ cpu' = p
    /\ pc' = [pc EXCEPT ![p] = IF sig[p] THEN "intr" ELSE "check"]
    /\ UNCHANGED <<setVars, semVars, undoVars, semtmp, call, at, stop, slept,
                   sig, fresh>>

\* Mutant: the last one out clears the counter without waking anybody.
SemIntrSilent(p) ==
    LET s == stop[p].num
    IN  /\ cpu = p /\ pc[p] = "intr"
        /\ \/ /\ stop[p].why = "semncnt"
              /\ semncnt' = [semncnt EXCEPT ![s] = IF @ <= 1 THEN 0 ELSE @ - 1]
              /\ UNCHANGED semzcnt
           \/ /\ stop[p].why = "semzcnt"
              /\ semzcnt' = [semzcnt EXCEPT ![s] = IF @ <= 1 THEN 0 ELSE @ - 1]
              /\ UNCHANGED semncnt
        /\ pc' = [pc EXCEPT ![p] = "user"]
        /\ Return(p)
        /\ UNCHANGED <<setVars, semval, undoVars, fresh>>

\* EINTR: the process takes itself off the count, which others may have
\* cleared meanwhile; the last one wakes whoever is there.
SemIntr(p) ==
    LET s == stop[p].num
        last(cnt) == IF cnt[s] <= 1 THEN {s} ELSE {}
        out(cnt) == [cnt EXCEPT ![s] = IF @ <= 1 THEN 0 ELSE @ - 1]
        home == [pc EXCEPT ![p] = "user"]
    IN  /\ cpu = p /\ pc[p] = "intr"
        /\ \/ /\ stop[p].why = "semncnt"
              /\ semncnt' = out(semncnt)
              /\ pc' = Woken(home, last(semncnt), "semncnt")
              /\ UNCHANGED semzcnt
           \/ /\ stop[p].why = "semzcnt"
              /\ semzcnt' = out(semzcnt)
              /\ pc' = Woken(home, last(semzcnt), "semzcnt")
              /\ UNCHANGED semncnt
        /\ Return(p)
        /\ UNCHANGED <<setVars, semval, undoVars, fresh>>

\* "check:" after a sleep: EIDRM if the set is gone, else fetch the list again.
SemCheck(p) ==
    /\ cpu = p /\ pc[p] = "check"
    /\ IF semconv(call[p].id)
       THEN /\ pc' = [pc EXCEPT ![p] = "copyin"]
            /\ stop' = [stop EXCEPT ![p] = NoStop]
            /\ UNCHANGED <<semtmp, cpu, call, at, slept, sig>>
       ELSE pc' = [pc EXCEPT ![p] = "user"] /\ Return(p)
    /\ UNCHANGED <<setVars, semVars, undoVars, fresh>>

\* All operations done.
SemDone(p) ==
    /\ cpu = p /\ pc[p] = "loop" /\ at[p] > Len(call[p].ops)
    /\ pc' = [pc EXCEPT ![p] = "user"]
    /\ Return(p)
    /\ UNCHANGED <<setVars, semVars, undoVars, fresh>>


\* A signal is sent to a process in semop(); sleep(PCATCH|PSEMN) is
\* interruptible.
Signal(p) ==
    /\ p \in Signalled /\ pc[p] # "user" /\ ~sig[p]
    /\ sig' = [sig EXCEPT ![p] = TRUE]
    /\ pc' = [pc EXCEPT ![p] = IF @ = "SSLEEP" THEN "SRUN" ELSE @]
    /\ UNCHANGED <<setVars, semVars, undoVars, semtmp, cpu, call, at, stop,
                   slept, fresh>>

(***************************************************************************)
(* The other calls; of these only SETALL sleeps, in its copyin().          *)
(***************************************************************************)
InUser(p) == cpu = NULL /\ pc[p] = "user"

\* semget() of a new set: the semaphores are taken as they are.
Semget(p) ==
    /\ InUser(p) /\ ~alloc
    /\ alloc' = TRUE
    /\ UNCHANGED <<seq, semVars, undoVars, semtmp, procVars, fresh>>

\* semctl(SETVAL) and semctl(SETALL) of set id: store the values new of the
\* semaphores S, wake the sleepers (of those in pcs) each new value is for,
\* forget the adjustments.
Store(pcs, id, S, new) ==
    LET n == {s \in S : new[s] # 0}
        z == {s \in S : new[s] = 0}
    IN  /\ semval' = [s \in Sems |-> IF s \in S THEN new[s] ELSE semval[s]]
        /\ semncnt' = Clear(semncnt, n)
        /\ semzcnt' = Clear(semzcnt, z)
        /\ pc' = WakeAll(pcs, n, z)
        /\ semunrm(id, S)

SetVal(p, s, v) ==
    /\ InUser(p) /\ alloc /\ v <= SEMVMX
    /\ Store(pc, seq, {s}, [t \in Sems |-> v])
    /\ UNCHANGED <<setVars, semtmp, cpu, call, at, stop, slept, sig, fresh>>

\* semctl() stores something else than operations in semtmp, a union; read as
\* operations it can be anything, which matters only to a semop() that sleeps
\* in its copyin().
Scribble ==
    \E junk \in [Held -> Ops] :
        semtmp' = [i \in 1 .. SEMOPM |-> IF i \in Held THEN junk[i] ELSE ZeroOp]

\* SETALL whose copyin() does not sleep.
SetAll(p, new) ==
    /\ InUser(p) /\ alloc /\ \A s \in Sems : new[s] <= SEMVMX
    /\ Store(pc, seq, Sems, new)
    /\ Scribble
    /\ UNCHANGED <<setVars, cpu, call, at, stop, slept, sig, fresh>>

\* SETALL sleeps in its copyin(), which may have stored some values.
SetAllFault(p) ==
    /\ InUser(p) /\ alloc /\ p \in Faulting
    /\ pc' = [pc EXCEPT ![p] = "setall"]
    /\ call' = [call EXCEPT ![p] = [id |-> seq, ops |-> <<>>]]
    /\ slept' = [slept EXCEPT ![p] = TRUE]
    /\ Scribble
    /\ UNCHANGED <<setVars, semVars, undoVars, cpu, at, stop, sig, fresh>>

\* The end of a call that slept in SETALL.
LeaveSetAll(p) ==
    /\ call' = [call EXCEPT ![p] = NoCall]
    /\ slept' = [slept EXCEPT ![p] = FALSE]
    /\ sig' = [sig EXCEPT ![p] = FALSE]
    /\ Scribble
    /\ UNCHANGED <<setVars, cpu, at, stop, fresh>>

\* The rest of the values has come: those then in semtmp, which others may have
\* used meanwhile, are stored without a second look at the set.
SetAllResume(p, new) ==
    /\ cpu = NULL /\ pc[p] = "setall"
    /\ Store([pc EXCEPT ![p] = "user"], call[p].id, Sems, new)
    /\ LeaveSetAll(p)

\* ERANGE: one of the values in semtmp is above semvmx.
SetAllRange(p) ==
    /\ cpu = NULL
    /\ pc[p] = "setall" \/ (pc[p] = "user" /\ alloc)
    /\ pc' = [pc EXCEPT ![p] = "user"]
    /\ LeaveSetAll(p)
    /\ UNCHANGED <<semVars, undoVars>>

\* Whom the removal of the set wakes.
RmidWakes(pcs) == WakeAll(pcs, Sems, Sems)

\* semctl(IPC_RMID).
Rmid(p) ==
    /\ InUser(p) /\ alloc /\ seq < MaxSeq
    /\ semunrm(seq, Sems)
    /\ semval' = [s \in Sems |-> 0]
    /\ semncnt' = Clear(semncnt, Sems)
    /\ semzcnt' = Clear(semzcnt, Sems)
    /\ pc' = RmidWakes(pc)
    /\ alloc' = FALSE
    /\ seq' = seq + 1
    /\ UNCHANGED <<semtmp, cpu, call, at, stop, slept, sig, fresh>>

\* Mutant: the exit only wakes those who wait for zero.
ExitWakesSome(n, z) == WakeAll(pc, {}, z)

\* Whom semexit() wakes: waiters for an increment on n, for zero on z.
ExitWakes(n, z) == WakeAll(pc, n, z)

\* semexit(): apply the adjustments that name the set and give a legal value,
\* then give the undo structure back.
semexit(p) ==
    LET mine == {s \in Sems : <<seq, s>> \in DOMAIN undo[p] /\ semconv(seq)}
        new(s) == semval[s] + undo[p][<<seq, s>>]
        good == {s \in mine : new(s) \in 0 .. SEMVMX}
        n == {s \in good : undo[p][<<seq, s>>] > 0}
        z == {s \in good : new(s) = 0}
    IN  /\ semval' = [s \in Sems |-> IF s \in good THEN new(s) ELSE semval[s]]
        /\ semncnt' = Clear(semncnt, n)
        /\ semzcnt' = Clear(semzcnt, z)
        /\ pc' = ExitWakes(n, z)
        /\ sem_undo' = sem_undo \ {p}
        /\ undo' = [undo EXCEPT ![p] = <<>>]
        /\ semunp' = semunp \ {p}

\* exit(); the slot's next owner starts in user mode.
Exit(p) ==
    /\ InUser(p) /\ p \notin Threads
    /\ semexit(p)
    /\ fresh' = [fresh EXCEPT ![p] = TRUE]
    /\ UNCHANGED <<setVars, semtmp, cpu, call, at, stop, slept, sig>>

\* A fork that fails in procdup(): newproc() calls pexit(), and with it
\* semexit(), in the parent, which lives on.
ForkFail(p) ==
    /\ InUser(p)
    /\ semexit(p)
    /\ UNCHANGED <<setVars, semtmp, cpu, call, at, stop, slept, sig, fresh>>

\* thread_exit_current(): "deliberately smaller than exit()", without semexit().
ThreadExit(p) ==
    /\ InUser(p) /\ p \in Threads
    /\ fresh' = [fresh EXCEPT ![p] = TRUE]
    /\ UNCHANGED <<setVars, semVars, undoVars, semtmp, procVars>>

Init ==
    /\ alloc = FALSE /\ seq = 0
    /\ semval = [s \in Sems |-> 0]
    /\ semncnt = [s \in Sems |-> 0]
    /\ semzcnt = [s \in Sems |-> 0]
    /\ sem_undo = {} /\ semunp = {}
    /\ undo = [p \in Procs |-> <<>>]
    /\ semtmp = NoOps
    /\ cpu = NULL
    /\ pc = [p \in Procs |-> "user"]
    /\ call = [p \in Procs |-> NoCall]
    /\ at = [p \in Procs |-> 1]
    /\ stop = [p \in Procs |-> NoStop]
    /\ slept = [p \in Procs |-> FALSE]
    /\ sig = [p \in Procs |-> FALSE]
    /\ fresh = [p \in Procs |-> TRUE]

\* The steps a process inside semop() takes while it has the processor.
Kernel(p) ==
    \/ Copyin(p)
    \/ \E k \in 0 .. (SEMOPM - 1) : CopyinFault(p, k)
    \/ SemChange(p) \/ SemIsZero(p) \/ SemStop(p)
    \/ semundo(p) \/ SemFail(p) \/ SemSleep(p)
    \/ SemIntr(p) \/ SemCheck(p) \/ SemDone(p)

Next ==
    \E p \in Procs :
        \/ \E ops \in Lists : Semop(p, ops)
        \/ Kernel(p)
        \/ CopyinResume(p) \/ SemResume(p)
        \/ Signal(p)
        \/ Semget(p) \/ Rmid(p)
        \/ \E s \in Sems, v \in Values : SetVal(p, s, v)
        \/ \E new \in [Sems -> Values] : SetAll(p, new)
        \/ SetAllFault(p) \/ SetAllRange(p)
        \/ \E new \in [Sems -> 0 .. SEMVMX] : SetAllResume(p, new)
        \/ Exit(p) \/ ForkFail(p) \/ ThreadExit(p)

Spec == Init /\ [][Next]_vars

(***************************************************************************)
(* Properties.                                                             *)
(***************************************************************************)

\* Every variable has its type; in particular no sequence of operations,
\* rollbacks, SETVALs and exits takes a value outside 0 .. semvmx or an
\* adjustment outside semaem.
TypeOK ==
    /\ alloc \in BOOLEAN /\ seq \in Ids
    /\ semval \in [Sems -> 0 .. SEMVMX]
    /\ semncnt \in [Sems -> Nat] /\ semzcnt \in [Sems -> Nat]
    /\ sem_undo \subseteq Procs /\ semunp \subseteq Procs
    /\ \A p \in Procs : /\ DOMAIN undo[p] \subseteq Keys
                        /\ \A k \in DOMAIN undo[p] : undo[p][k] \in -SEMAEM .. SEMAEM
    /\ semtmp \in [1 .. SEMOPM -> Ops]
    /\ cpu \in Procs \cup {NULL}
    /\ pc \in [Procs -> PC]
    /\ call \in [Procs -> [id : Ids, ops : Lists \cup {<<>>}]]
    /\ at \in [Procs -> 1 .. (SEMOPM + 1)]
    /\ stop \in [Procs -> [why : Why, num : Sems]]
    /\ slept \in [Procs -> BOOLEAN] /\ sig \in [Procs -> BOOLEAN]
    /\ fresh \in [Procs -> BOOLEAN]

\* The wakeups are conditional on the counters, which the wakers clear and
\* interrupted sleepers decrement: a process is never asleep on a semaphore
\* whose counter says nobody is.
SleeperCounted ==
    \A p \in Procs : pc[p] = "SSLEEP" =>
        /\ stop[p].why = "semncnt" => semncnt[stop[p].num] > 0
        /\ stop[p].why = "semzcnt" => semzcnt[stop[p].num] > 0

\* No lost wakeup: as long as a process sleeps, the operation it sleeps for
\* cannot be done, though others change, roll back, set and adjust values; and
\* nobody sleeps on a set that is gone: the removal wakes everybody (EIDRM),
\* and who lost the set between two sleeps does not go back to sleep.  (A call
\* whose copyin() slept may have done operations that are not in its list, and
\* sleeps for one of those.)
SleepersMustWait ==
    \A p \in Procs : (pc[p] = "SSLEEP" /\ ~slept[p]) =>
        /\ semconv(call[p].id)
        /\ stop[p].why = "semzcnt" => semval[stop[p].num] # 0
        /\ stop[p].why = "semncnt" =>
              \E i \in DOMAIN call[p].ops :
                 LET op == call[p].ops[i]
                 IN  op.num = stop[p].num /\ op.op < 0 /\ ~Fits(op)

\* The undo chain that semunrm() walks is exactly the structures with entries,
\* an entry is never zero or out of range, and no structure is used twice.
UndoChainSound ==
    /\ semunp = {p \in Procs : DOMAIN undo[p] # {}}
    /\ semunp \subseteq sem_undo
    /\ Cardinality(sem_undo) <= SEMMNU
    /\ \A p \in Procs :
          /\ Cardinality(DOMAIN undo[p]) <= SEMUME
          /\ \A k \in DOMAIN undo[p] : undo[p][k] # 0 /\ Adjustable(undo[p][k])

\* What the processor's process has done so far in its loop is hidden.
Progress(p) == IF cpu = p /\ pc[p] \in {"loop", "undo"} THEN at[p] - 1 ELSE 0
Hidden == IF cpu = NULL THEN 0 ELSE Progress(cpu)
DoneOn(s) == {i \in 1 .. Hidden : semtmp[i].num = s}
Sum(I) == MapThenSumSet(LAMBDA i : semtmp[i].op, I)
ValBar == [s \in Sems |-> semval[s] - Sum(DoneOn(s))]
AdjBar == [p \in Procs |-> [s \in Sems |->
             Aoe(p, <<seq, s>>)
               + IF p = cpu /\ call[p].id = seq
                 THEN Sum({i \in DoneOn(s) : semtmp[i].undo}) ELSE 0]]
AnyOps == {[op EXCEPT !.undo = b] : op \in Ops, b \in BOOLEAN}

Atomic == INSTANCE SemAtomic WITH
    Ops <- AnyOps, val <- ValBar, adj <- AdjBar,
    req <- [p \in Procs |-> call[p].ops], own <- [p \in Procs |-> ~slept[p]]

\* "Loop waiting for the operations to be satisfied atomically": the calls
\* implement SemAtomic, with the partial work of a loop hidden until it is
\* complete or taken back, and of a SETALL that slept only what SemAtomic!Late
\* says.
ImplementsAtomic == Atomic!Spec

\* A call performs the operations its caller passed.
OwnOperations ==
    \A p \in Procs : (cpu = p /\ pc[p] = "loop") =>
        \A i \in DOMAIN call[p].ops : semtmp[i] = call[p].ops[i]

\* "Called by exit() to clean up on process exit": a process that has not
\* used SEM_UNDO has no adjustments to be applied when it exits.
FreshSlotClean ==
    \A p \in Procs : (fresh[p] /\ pc[p] = "user") => DOMAIN undo[p] = {}

=============================================================================

------------------------------- MODULE Futex -------------------------------
(***************************************************************************)
(* The futex system calls of uts/i386/os/thread.c, together with the parts *)
(* of the kernel they lean on: sleep() and wakeprocs() of os/slp.c, the    *)
(* callout table of os/clock.c (here only a set of armed entries; module   *)
(* Callout models the heap and the time) and signal posting of os/sig.c.   *)
(*                                                                         *)
(* The kernel is uniprocessor and not preemptible: a process that entered  *)
(* the kernel keeps the processor (cpu) until it sleeps or returns to user *)
(* mode.  Clock interrupts run between any two of its steps, except inside *)
(* an splhi() section, which is therefore one step.                        *)
(***************************************************************************)
EXTENDS Integers, Sequences, FiniteSets

CONSTANTS
    Procs,      \* the proc_t entries that issue futex calls
    Spaces,     \* the address spaces (struct as)
    asOf,       \* p_as of each process: threads of one process share it
    Uaddrs,     \* mapped user addresses of futex words
    BadAddr,    \* a user address that is not mapped
    NULL,       \* the null pointer
    Words,      \* values a futex word takes
    Signalled,  \* the processes that may be sent a signal
    Waiters,    \* kernel addresses kmem_zalloc hands out for futex_waiters
    MaxTimeid   \* bound: timed waits per behaviour (timeid never wraps)

ASSUME ConstantsAssumption ==
    /\ asOf \in [Procs -> Spaces]
    /\ Words \subseteq Int
    /\ Signalled \subseteq Procs
    /\ NULL \notin Uaddrs /\ BadAddr \notin Uaddrs /\ NULL # BadAddr
    /\ NULL \notin Waiters /\ NULL \notin Procs
    /\ Spaces # {} /\ Uaddrs # {} /\ Words # {}
    /\ MaxTimeid \in Nat

PZERO == 25
PCATCH == 256
PMASK == 128        \* disp & PMASK is disp % 128

VARIABLES
    mem,            \* mem[as][uaddr]: the user word
    futex_waiters,  \* the global list, newest first
    waiter,         \* contents of each futex_waiter block
    allocated,      \* blocks handed out by kmem_zalloc and not yet freed
    callout,        \* armed timeouts [id, arg], function futex_timeout
    timeid,         \* last id handed out by timeout()
    cpu,            \* process executing in the kernel, or NULL
    pc,             \* where each process is in do_futex_wait
    args,           \* arguments of its futex_wait call
    mine,           \* its local variable waiter; p_wchan while it sleeps
    sig,            \* a signal is pending (p_sig not empty)
    dirty           \* history: word written since the last wake-all of its key

vars == <<mem, futex_waiters, waiter, allocated, callout, timeid, cpu, pc,
          args, mine, sig, dirty>>

userVars == <<mem, dirty>>
listVars == <<futex_waiters, waiter, allocated>>
timerVars == <<callout, timeid>>
procVars == <<cpu, pc, args, mine, sig>>

\* "eintr" is the second splhi() section entered with error = EINTR.
Inside == {"check", "sleep", "SSLEEP", "SRUN", "finish", "eintr"}
PC == {"user", "alloc"} \cup Inside

\* struct futex_waiter; expected is the call's argument, kept as history.
Waiter == [as : Spaces, uaddr : Uaddrs, expected : Words,
           woken : BOOLEAN, timed_out : BOOLEAN, timeout_id : 0 .. MaxTimeid]
AnyWord == CHOOSE v \in Words : TRUE
Args == [uaddr : Uaddrs \cup {BadAddr}, expected : Words, timed : BOOLEAN]
Callout == [id : 1 .. MaxTimeid, arg : Waiters]

Range(s) == {s[i] : i \in DOMAIN s}
NoDup(s) == \A i, j \in DOMAIN s : s[i] = s[j] => i = j

\* The arguments of a process that is in no futex_wait, and the contents of a
\* block that is not allocated: neither is ever read.
NoArgs == [uaddr |-> BadAddr, expected |-> AnyWord, timed |-> FALSE]
NoWaiter == [as |-> CHOOSE a \in Spaces : TRUE,
             uaddr |-> CHOOSE u \in Uaddrs : TRUE, expected |-> AnyWord,
             woken |-> FALSE, timed_out |-> FALSE, timeout_id |-> 0]

(***************************************************************************)
(* Kernel services.                                                        *)
(***************************************************************************)

\* Mutant: unlinks the head instead of the waiter looked for.
futex_remove_head(list, w) == IF w \in Range(list) THEN Tail(list) ELSE list

\* futex_remove: unlink the first occurrence of w, if any.
futex_remove(list, w) ==
    IF w \in Range(list)
    THEN LET k == CHOOSE i \in DOMAIN list :
                      list[i] = w /\ \A j \in 1 .. (i - 1) : list[j] # w
         IN  [i \in 1 .. (Len(list) - 1) |->
                 IF i < k THEN list[i] ELSE list[i + 1]]
    ELSE list

\* Mutant: a cancel that leaves the entry armed.
untimeout_none(id) == callout

\* untimeout(id): drop the entry with that id; nothing happens if it is gone.
untimeout(id) == {c \in callout : c.id # id}

\* timeout() hands out ++timeid.
NextTimeid == timeid + 1

\* The disposition do_futex_wait sleeps with, and what sleep() makes of it.
SleepDisp == PZERO + PCATCH
Interruptible == SleepDisp % PMASK > PZERO

\* Mutants: a wakeup that marks the process running at once; a lost wakeup.
wakeprocs_onproc(pcs, chans) ==
    [q \in Procs |-> IF pcs[q] = "SSLEEP" /\ mine[q] \in chans
                     THEN "SONPROC" ELSE pcs[q]]
\* wakeprocs on every channel in chans: sleepers there become runnable.
wakeprocs(pcs, chans) ==
    [q \in Procs |-> IF pcs[q] = "SSLEEP" /\ mine[q] \in chans
                     THEN "SRUN" ELSE pcs[q]]

\* fuword answers -1 for a fault, and so does fubyte, whose plain char also
\* turns a mapped 0xff byte into -1: a word of all ones reads as a fault.
Faults(p) ==
    args[p].uaddr # BadAddr => mem[asOf[p]][args[p].uaddr] = -1

\* Mutant: trusts the comparison the caller made in user mode.
WordMapped(p) == ~Faults(p)

\* The splhi() check of the user word: EFAULT or EAGAIN unless it holds.
WordAsExpected(p) ==
    /\ ~Faults(p)
    /\ mem[asOf[p]][args[p].uaddr] = args[p].expected

(***************************************************************************)
(* User mode.                                                              *)
(***************************************************************************)

UserWrite(p, u, v) ==
    /\ cpu = NULL
    /\ pc[p] = "user"
    /\ mem' = [mem EXCEPT ![asOf[p]][u] = v]
    /\ dirty' = [dirty EXCEPT ![asOf[p]][u] = TRUE]
    /\ UNCHANGED <<listVars, timerVars, procVars>>

\* psignal(): a sleeper at an uninterruptible priority (SNWAKE) is not set
\* running.  A process in user mode takes the signal at once.
Signal(p) ==
    /\ p \in Signalled
    /\ pc[p] # "user"
    /\ sig' = [sig EXCEPT ![p] = TRUE]
    /\ pc' = IF pc[p] = "SSLEEP" /\ Interruptible
             THEN [pc EXCEPT ![p] = "SRUN"] ELSE pc
    /\ UNCHANGED <<userVars, listVars, timerVars, cpu, args, mine>>

(***************************************************************************)
(* do_futex_wait.                                                          *)
(***************************************************************************)

\* A call whose arguments pass the checks, up to kmem_zalloc(KM_SLEEP), which
\* may give up the processor.  A call they refuse (EINVAL, EFAULT on the
\* timespec, ETIMEDOUT for no ticks) returns at once and changes nothing.
FutexWaitCall(p, a) ==
    /\ cpu = NULL
    /\ pc[p] = "user"
    /\ args' = [args EXCEPT ![p] = a]
    /\ pc' = [pc EXCEPT ![p] = "alloc"]
    /\ UNCHANGED <<userVars, listVars, timerVars, cpu, mine, sig>>

\* Return to user mode, where a pending signal is delivered.
ReturnToUser(p) ==
    /\ cpu' = NULL
    /\ pc' = [pc EXCEPT ![p] = "user"]
    /\ sig' = [sig EXCEPT ![p] = FALSE]
    /\ args' = [args EXCEPT ![p] = NoArgs]

\* The first splhi() section, when the word cannot be read or has changed:
\* the fresh block goes straight back to kmem_free.
FutexWaitRefused(p) ==
    /\ cpu = NULL
    /\ pc[p] = "alloc"
    /\ ~WordAsExpected(p)
    /\ ReturnToUser(p)
    /\ UNCHANGED <<userVars, listVars, timerVars, mine>>

\* The first splhi() section, when it links the waiter and arms the timeout.
FutexEnqueue(p) ==
    /\ cpu = NULL
    /\ pc[p] = "alloc"
    /\ WordAsExpected(p)
    /\ LET timed == args[p].timed IN
       /\ timed => timeid < MaxTimeid
       /\ \E w \in Waiters \ allocated :
          /\ allocated' = allocated \cup {w}
          /\ waiter' = [waiter EXCEPT ![w] =
                [as |-> asOf[p], uaddr |-> args[p].uaddr,
                 expected |-> args[p].expected,
                 woken |-> FALSE, timed_out |-> FALSE,
                 timeout_id |-> IF timed THEN NextTimeid ELSE 0]]
          /\ futex_waiters' = <<w>> \o futex_waiters
          /\ mine' = [mine EXCEPT ![p] = w]
          /\ callout' = IF timed
                        THEN callout \cup {[id |-> NextTimeid, arg |-> w]}
                        ELSE callout
       /\ timeid' = IF timed THEN NextTimeid ELSE timeid
    /\ cpu' = p
    /\ pc' = [pc EXCEPT ![p] = "check"]
    /\ args' = [args EXCEPT ![p] = NoArgs]
    /\ UNCHANGED <<userVars, sig>>

\* Mutant: the loop looks at timed_out alone.
FutexCheckTimedOut(p) ==
    /\ cpu = p
    /\ pc[p] = "check"
    /\ pc' = [pc EXCEPT ![p] =
                 IF ~waiter[mine[p]].timed_out THEN "sleep" ELSE "finish"]
    /\ UNCHANGED <<userVars, listVars, timerVars, cpu, args, mine, sig>>

\* The loop condition, read outside splhi().
FutexCheck(p) ==
    /\ cpu = p
    /\ pc[p] = "check"
    /\ pc' = [pc EXCEPT ![p] =
                 IF ~waiter[mine[p]].woken /\ ~waiter[mine[p]].timed_out
                 THEN "sleep" ELSE "finish"]
    /\ UNCHANGED <<userVars, listVars, timerVars, cpu, args, mine, sig>>

\* sleep(): returns 1 at once when a signal is pending and the priority is
\* interruptible, otherwise the process gives up the processor.
FutexSleep(p) ==
    /\ cpu = p
    /\ pc[p] = "sleep"
    /\ LET refused == Interruptible /\ sig[p]
       IN  /\ pc' = [pc EXCEPT ![p] = IF refused THEN "eintr" ELSE "SSLEEP"]
           /\ cpu' = IF refused THEN p ELSE NULL
    /\ UNCHANGED <<userVars, listVars, timerVars, args, mine, sig>>

\* The dispatcher picks p: sleep() returns, with 1 if a signal woke it.
FutexResume(p) ==
    /\ cpu = NULL
    /\ pc[p] = "SRUN"
    /\ cpu' = p
    /\ pc' = [pc EXCEPT ![p] =
                 IF Interruptible /\ sig[p] THEN "eintr" ELSE "check"]
    /\ UNCHANGED <<userVars, listVars, timerVars, args, mine, sig>>

\* The second splhi() section, kmem_free and the return.
FutexFinish(p) ==
    /\ cpu = p
    /\ pc[p] \in {"finish", "eintr"}
    /\ LET w == mine[p]
           rec == waiter[w]
       IN  /\ callout' = IF rec.timeout_id # 0 /\ ~rec.timed_out
                         THEN untimeout(rec.timeout_id) ELSE callout
           /\ futex_waiters' = futex_remove(futex_waiters, w)
           /\ allocated' = allocated \ {w}
           /\ waiter' = [waiter EXCEPT ![w] = NoWaiter]
    /\ ReturnToUser(p)
    /\ mine' = [mine EXCEPT ![p] = NULL]
    /\ UNCHANGED <<userVars, timeid>>

(***************************************************************************)
(* futex_timeout, called by timein() from the clock interrupt.             *)
(***************************************************************************)

FutexTimeout(c) ==
    /\ c \in callout
    /\ callout' = callout \ {c}
    /\ IF ~waiter[c.arg].woken
       THEN /\ waiter' = [waiter EXCEPT ![c.arg].timed_out = TRUE]
            /\ pc' = wakeprocs(pc, {c.arg})
       ELSE UNCHANGED <<waiter, pc>>
    /\ UNCHANGED <<userVars, futex_waiters, allocated, timeid,
                   cpu, args, mine, sig>>

(***************************************************************************)
(* do_futex_wake.                                                          *)
(***************************************************************************)

\* Mutant: keys are not process-local.
EligibleAnySpace(as, u) ==
    {i \in DOMAIN futex_waiters :
        LET rec == waiter[futex_waiters[i]]
        IN  rec.uaddr = u /\ ~rec.woken}

\* The waiters the scan does not skip, by their place in the list.
Eligible(as, u) ==
    {i \in DOMAIN futex_waiters :
        LET rec == waiter[futex_waiters[i]]
        IN  rec.as = as /\ rec.uaddr = u /\ ~rec.woken}

\* The scan stops at its first match unless all is set.
WakeTargets(as, u, all) ==
    LET el == Eligible(as, u)
    IN  {futex_waiters[i] : i \in {i \in el : all \/ \A j \in el : i <= j}}

FutexWake(p, u, all) ==
    /\ cpu = NULL
    /\ pc[p] = "user"
    /\ LET T == WakeTargets(asOf[p], u, all)
       IN  /\ waiter' = [w \in Waiters |->
                            IF w \in T THEN [waiter[w] EXCEPT !.woken = TRUE]
                            ELSE waiter[w]]
           /\ pc' = wakeprocs(pc, T)
    /\ dirty' = IF all THEN [dirty EXCEPT ![asOf[p]][u] = FALSE] ELSE dirty
    /\ UNCHANGED <<mem, futex_waiters, allocated, timerVars,
                   cpu, args, mine, sig>>

(***************************************************************************)
(* The specification.                                                      *)
(***************************************************************************)

Init ==
    /\ mem = [a \in Spaces |-> [u \in Uaddrs |-> AnyWord]]
    /\ futex_waiters = <<>>
    /\ waiter = [w \in Waiters |-> NoWaiter]
    /\ allocated = {}
    /\ callout = {}
    /\ timeid = 0
    /\ cpu = NULL
    /\ pc = [p \in Procs |-> "user"]
    /\ args = [p \in Procs |-> NoArgs]
    /\ mine = [p \in Procs |-> NULL]
    /\ sig = [p \in Procs |-> FALSE]
    /\ dirty = [a \in Spaces |-> [u \in Uaddrs |-> FALSE]]

Next ==
    \/ \E p \in Procs :
         \/ \E u \in Uaddrs, v \in Words : UserWrite(p, u, v)
         \/ Signal(p)
         \/ \E a \in Args : FutexWaitCall(p, a)
         \/ FutexWaitRefused(p)
         \/ FutexEnqueue(p)
         \/ FutexCheck(p)
         \/ FutexSleep(p)
         \/ FutexResume(p)
         \/ FutexFinish(p)
         \/ \E u \in Uaddrs, all \in BOOLEAN : FutexWake(p, u, all)
    \/ \E c \in Callout : FutexTimeout(c)

Spec == Init /\ [][Next]_vars

\* A process in the kernel runs on, the dispatcher starves no runnable
\* process, and the clock reaches every armed timeout.
FairSpec ==
    /\ Spec
    /\ \A p \in Procs : /\ WF_vars(FutexCheck(p))
                       /\ WF_vars(FutexSleep(p))
                       /\ WF_vars(FutexFinish(p))
                       /\ SF_vars(FutexResume(p))
    /\ \A c \in Callout : WF_vars(FutexTimeout(c))

(***************************************************************************)
(* Properties.                                                             *)
(***************************************************************************)

\* Every variable has its type.
TypeOK ==
    /\ mem \in [Spaces -> [Uaddrs -> Words]]
    /\ futex_waiters \in Seq(Waiters)
    /\ waiter \in [Waiters -> Waiter]
    /\ allocated \subseteq Waiters
    /\ callout \subseteq Callout
    /\ timeid \in 0 .. MaxTimeid
    /\ cpu \in Procs \cup {NULL}
    /\ pc \in [Procs -> PC]
    /\ args \in [Procs -> Args]
    /\ mine \in [Procs -> Waiters \cup {NULL}]
    /\ sig \in [Procs -> BOOLEAN]
    /\ dirty \in [Spaces -> [Uaddrs -> BOOLEAN]]

\* The global list never holds a freed block ("skipping this step leaves a
\* stale pointer in the global futex list"): it holds, once each, exactly the
\* blocks that calls of do_futex_wait still own, no two calls sharing one.
WaiterListSound ==
    /\ NoDup(futex_waiters)
    /\ Range(futex_waiters) = allocated
    /\ \A p \in Procs : pc[p] \in Inside => mine[p] \in allocated
    /\ \A w \in allocated : \E p \in Procs : pc[p] \in Inside /\ mine[p] = w
    /\ \A p, q \in Procs :
          (pc[p] \in Inside /\ pc[q] \in Inside /\ mine[p] = mine[q]) => p = q

\* No armed futex_timeout() points at a block that was freed or handed to
\* another call: its argument is linked, and knows it by its id.
NoStaleTimer ==
    \A c \in callout :
        /\ c.arg \in Range(futex_waiters)
        /\ waiter[c.arg].timeout_id = c.id
        /\ ~waiter[c.arg].timed_out

\* A waiter that is neither woken nor timed out still has its timeout armed:
\* no other call's untimeout(), whose id may be long gone, took it away.
TimedWaitArmed ==
    \A w \in Range(futex_waiters) :
        waiter[w].timeout_id # 0 /\ ~waiter[w].woken /\ ~waiter[w].timed_out
        => [id |-> waiter[w].timeout_id, arg |-> w] \in callout

\* A waiter marked woken by futex_wake() is not left asleep: the flag is read
\* outside splhi(), yet no wake fits between the test and sleep().
WokenNotAsleep ==
    \A p \in Procs : pc[p] = "SSLEEP" => ~waiter[mine[p]].woken

\* "This prevents the classic lost wakeup": a queued waiter nobody woke
\* still sees its expected value, unless the word was written and the
\* wake-all that has to follow the write is yet to come.
NoMissedWake ==
    \A w \in Range(futex_waiters) :
        LET rec == waiter[w]
        IN  ~rec.woken => \/ mem[rec.as][rec.uaddr] = rec.expected
                          \/ dirty[rec.as][rec.uaddr]

\* The waiters marked woken in this step.
NewlyWoken ==
    {w \in Range(futex_waiters) : ~waiter[w].woken /\ waiter'[w].woken}

SameKey(w, x) == waiter[x].as = waiter[w].as /\ waiter[x].uaddr = waiter[w].uaddr

\* What a step that marks w woken does to the other waiters.
OneKeyOf(w) ==
    /\ \A x \in NewlyWoken : SameKey(w, x)
    /\ NewlyWoken # {w} =>
         \A x \in Range(futex_waiters) : SameKey(w, x) => waiter'[x].woken

\* "Futex keys are process-local": one wake call reaches waiters of a single
\* address space and address, and one that reaches more than one waiter
\* leaves no unwoken waiter of that key behind.
WakeOneKey ==
    [][\A w \in NewlyWoken : OneKeyOf(w)]_vars

\* A woken waiter returns to user mode.
WokenReturns ==
    \A p \in Procs : (pc[p] \in Inside /\ waiter[mine[p]].woken)
                    ~> (pc[p] = "user")

\* "the sleeping thread observes exactly one terminal reason": no waiter is
\* both woken (and counted by futex_wake) and timed out.
OneTerminalReason ==
    \A w \in Range(futex_waiters) : ~(waiter[w].woken /\ waiter[w].timed_out)

\* A wait with a timeout ends ("woken, timed out, or interrupted").
TimedWaitEnds ==
    \A p \in Procs : (pc[p] \in Inside /\ waiter[mine[p]].timeout_id # 0)
                    ~> (pc[p] = "user")

\* A wait that gets a signal ends ("or interrupted by a signal").
SignalEndsWait ==
    \A p \in Procs : (pc[p] \in Inside /\ sig[p]) ~> (pc[p] = "user")
=============================================================================

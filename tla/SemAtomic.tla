----------------------------- MODULE SemAtomic -----------------------------
(***************************************************************************)
(* What System V semaphores promise: a semop() call takes effect all at    *)
(* once or not at all, and a process that exits gives back what it took    *)
(* with SEM_UNDO, as far as the result is a legal value.  There are no     *)
(* sleepers, counters, undo tables or buffers here.                        *)
(***************************************************************************)
EXTENDS Integers, Sequences, FiniteSetsExt

CONSTANTS Procs, Sems, SEMVMX,
          Ops,      \* operations [num, op, undo, nowait]
          Lists     \* the operation lists processes pass to semop()

VARIABLES
    val,    \* the value of each semaphore of the set
    adj,    \* adj[p][s]: what the exit of p adds to s
    req,    \* the operation list of each process's pending call, or <<>>
    own     \* FALSE: the call's copyin() has slept

vars == <<val, adj, req, own>>

\* The sum of the operations on s among the first n of ops, and of those that
\* carry SEM_UNDO.
Delta(ops, n, s) ==
    MapThenSumSet(LAMBDA i : ops[i].op, {i \in 1 .. n : ops[i].num = s})
UndoDelta(ops, n, s) ==
    MapThenSumSet(LAMBDA i : ops[i].op,
                  {i \in 1 .. n : ops[i].num = s /\ ops[i].undo})

\* Each operation in turn finds the value it needs.
Satisfied(ops) ==
    \A i \in DOMAIN ops :
        LET before == val[ops[i].num] + Delta(ops, i - 1, ops[i].num)
        IN  IF ops[i].op = 0 THEN before = 0
                             ELSE before + ops[i].op \in 0 .. SEMVMX

Call(p) ==
    /\ req[p] = <<>> /\ own[p]
    /\ \E ops \in Lists : req' = [req EXCEPT ![p] = ops]
    /\ own' = [own EXCEPT ![p] = TRUE]
    /\ UNCHANGED <<val, adj>>

\* The pending call fetches its list (again), and may sleep over it.
Fetch(p) ==
    /\ req[p] # <<>>
    /\ \E b \in BOOLEAN : own' = [own EXCEPT ![p] = b]
    /\ UNCHANGED <<val, adj, req>>

\* Nothing is promised about which operations a call performs when its
\* copyin() slept; that it performs them all at once is.
Meant(p) == IF own[p] THEN {req[p]} ELSE [1 .. Len(req[p]) -> Ops]

Perform(p) ==
    /\ req[p] # <<>>
    /\ \E ops \in Meant(p) :
         /\ Satisfied(ops)
         /\ val' = [s \in Sems |-> val[s] + Delta(ops, Len(ops), s)]
         /\ adj' = [adj EXCEPT ![p] =
                      [s \in Sems |-> @[s] - UndoDelta(ops, Len(ops), s)]]
    /\ req' = [req EXCEPT ![p] = <<>>]
    /\ own' = [own EXCEPT ![p] = TRUE]

\* The call fails: EAGAIN, ERANGE, ENOSPC, EINVAL, EINTR or EIDRM.
Fail(p) ==
    /\ req[p] # <<>>
    /\ req' = [req EXCEPT ![p] = <<>>]
    /\ own' = [own EXCEPT ![p] = TRUE]
    /\ UNCHANGED <<val, adj>>

\* SETALL of values that are paged out: the call may sleep over them.
Await(p) ==
    /\ req[p] = <<>> /\ own[p]
    /\ own' = [own EXCEPT ![p] = FALSE]
    /\ UNCHANGED <<val, adj, req>>

\* Nothing is promised about the values that a SETALL which slept leaves, and,
\* as its set may have been removed and replaced meanwhile, nobody's debts need
\* to be forgotten with the values.
Late(p) ==
    /\ req[p] = <<>> /\ ~own[p]
    /\ own' = [own EXCEPT ![p] = TRUE]
    /\ val' \in [Sems -> 0 .. SEMVMX]
    /\ adj' \in {adj, [q \in Procs |-> [s \in Sems |-> 0]]}
    /\ UNCHANGED req

\* SETVAL, SETALL and IPC_RMID (which leaves zeroes): the values in S are
\* replaced and nobody owes them anything any more.
Assign(S) ==
    /\ val' \in [Sems -> 0 .. SEMVMX]
    /\ \A s \in Sems \ S : val'[s] = val[s]
    /\ adj' = [p \in Procs |->
                 [s \in Sems |-> IF s \in S THEN 0 ELSE adj[p][s]]]
    /\ UNCHANGED <<req, own>>

\* semexit(): on exit, and in a parent whose fork failed.
GiveBack(p) ==
    /\ req[p] = <<>> /\ own[p]
    /\ val' = [s \in Sems |-> IF val[s] + adj[p][s] \in 0 .. SEMVMX
                              THEN val[s] + adj[p][s] ELSE val[s]]
    /\ adj' = [adj EXCEPT ![p] = [s \in Sems |-> 0]]
    /\ UNCHANGED <<req, own>>

Init ==
    /\ val = [s \in Sems |-> 0]
    /\ adj = [p \in Procs |-> [s \in Sems |-> 0]]
    /\ req = [p \in Procs |-> <<>>]
    /\ own = [p \in Procs |-> TRUE]

Next ==
    \/ \E p \in Procs : Call(p) \/ Fetch(p) \/ Perform(p) \/ Fail(p)
                      \/ Await(p) \/ Late(p) \/ GiveBack(p)
    \/ \E S \in SUBSET Sems : Assign(S)

Spec == Init /\ [][Next]_vars
=============================================================================

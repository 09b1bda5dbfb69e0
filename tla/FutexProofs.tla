---------------------------- MODULE FutexProofs ----------------------------
(***************************************************************************)
(* Proofs about Futex, for any number of processes, address spaces, user   *)
(* addresses, blocks and timed waits.  The invariant is built in layers:   *)
(* types, who owns the processor and the list, the timers, the wakeups.    *)
(***************************************************************************)
EXTENDS Futex, TLAPS

(***************************************************************************)
(* The list operations.                                                    *)
(***************************************************************************)

\* Linking at the head adds exactly the new block, once.
LEMMA ConsList ==
    ASSUME NEW S, NEW l \in Seq(S), NEW w \in S
    PROVE  /\ <<w>> \o l \in Seq(S)
           /\ Range(<<w>> \o l) = Range(l) \cup {w}
           /\ NoDup(l) /\ w \notin Range(l) => NoDup(<<w>> \o l)
<1> DEFINE m == <<w>> \o l
<1>1. /\ m \in Seq(S) /\ Len(m) = Len(l) + 1 /\ DOMAIN m = 1 .. (Len(l) + 1)
      /\ DOMAIN l = 1 .. Len(l) /\ Len(l) \in Nat
      /\ m[1] = w
  OBVIOUS
<1>2. \A i \in 1 .. Len(l) : m[i + 1] = l[i]
  OBVIOUS
<1>3. \A i \in DOMAIN m : i = 1 \/ (i - 1 \in 1 .. Len(l) /\ m[i] = l[i - 1])
  BY <1>1, <1>2
<1>4. Range(m) = Range(l) \cup {w}
  <2>1. ASSUME NEW x \in Range(m) PROVE x \in Range(l) \cup {w}
    BY <2>1, <1>1, <1>3 DEF Range
  <2>2. ASSUME NEW x \in Range(l) PROVE x \in Range(m)
    <3>1. PICK i \in 1 .. Len(l) : l[i] = x
      BY <1>1, <2>2 DEF Range
    <3>2. i + 1 \in DOMAIN m /\ m[i + 1] = x
      BY <1>1, <1>2, <3>1
    <3> QED BY <3>2 DEF Range
  <2>3. w \in Range(m)
    BY <1>1 DEF Range
  <2> QED BY <2>1, <2>2, <2>3
<1>5. ASSUME NoDup(l), w \notin Range(l) PROVE NoDup(m)
  <2> SUFFICES ASSUME NEW i \in DOMAIN m, NEW j \in DOMAIN m, m[i] = m[j]
               PROVE  i = j
    BY DEF NoDup
  <2>1. \A k \in 1 .. Len(l) : l[k] # w
    BY <1>1, <1>5 DEF Range
  <2>2. CASE i = 1 \/ j = 1
    BY <2>1, <2>2, <1>1, <1>3
  <2>3. CASE i # 1 /\ j # 1
    <3>1. i - 1 \in DOMAIN l /\ j - 1 \in DOMAIN l /\ l[i - 1] = l[j - 1]
      BY <2>3, <1>1, <1>3
    <3>2. i - 1 = j - 1
      BY <3>1, <1>5 DEF NoDup
    <3> QED BY <3>2, <1>1
  <2> QED BY <2>2, <2>3
<1> QED BY <1>1, <1>4, <1>5

\* futex_remove() takes out exactly the block it is given.
LEMMA RemoveList ==
    ASSUME NEW S, NEW l \in Seq(S), NoDup(l), NEW w \in Range(l)
    PROVE  /\ futex_remove(l, w) \in Seq(S)
           /\ Range(futex_remove(l, w)) = Range(l) \ {w}
           /\ NoDup(futex_remove(l, w))
<1> DEFINE P(i) == l[i] = w /\ \A j \in 1 .. (i - 1) : l[j] # w
           k == CHOOSE i \in DOMAIN l : P(i)
           r == futex_remove(l, w)
<1>1. DOMAIN l = 1 .. Len(l) /\ Len(l) \in Nat /\ \A i \in 1 .. Len(l) : l[i] \in S
  OBVIOUS
<1>2. PICK n \in DOMAIN l : l[n] = w
  BY DEF Range
<1>3. P(n)
  BY <1>1, <1>2 DEF NoDup
<1>4. k \in 1 .. Len(l) /\ l[k] = w
  BY <1>1, <1>2, <1>3
<1> HIDE DEF k
<1>5. r = [i \in 1 .. (Len(l) - 1) |-> IF i < k THEN l[i] ELSE l[i + 1]]
  BY DEF futex_remove, k
<1>6. r \in Seq(S) /\ DOMAIN r = 1 .. (Len(l) - 1)
  <2>1. Len(l) - 1 \in Nat
    BY <1>1, <1>4
  <2>2. \A i \in 1 .. (Len(l) - 1) : (IF i < k THEN l[i] ELSE l[i + 1]) \in S
    BY <1>1, <1>4
  <2> HIDE DEF r
  <2>3. r \in [1 .. (Len(l) - 1) -> S]
    BY <2>2, <1>5
  <2> QED BY <2>1, <2>3
<1>7. Range(r) = Range(l) \ {w}
  <2>1. ASSUME NEW i \in DOMAIN r PROVE r[i] \in Range(l) /\ r[i] # w
    BY <1>1, <1>4, <1>5, <1>6 DEF Range, NoDup
  <2>2. ASSUME NEW x \in Range(l), x # w PROVE x \in Range(r)
    <3>1. PICK i \in 1 .. Len(l) : l[i] = x
      BY <1>1, <2>2 DEF Range
    <3>2. CASE i < k
      <4>1. i \in DOMAIN r /\ r[i] = x
        BY <3>1, <3>2, <1>1, <1>4, <1>5, <1>6
      <4> QED BY <4>1 DEF Range
    <3>3. CASE i > k
      <4>1. i - 1 \in DOMAIN r /\ r[i - 1] = x
        BY <3>1, <3>3, <1>1, <1>4, <1>5, <1>6
      <4> QED BY <4>1 DEF Range
    <3>4. i # k
      BY <3>1, <2>2, <1>4
    <3> QED BY <3>1, <3>2, <3>3, <3>4, <1>1, <1>4
  <2> QED BY <2>1, <2>2 DEF Range
<1>8. NoDup(r)
  BY <1>1, <1>4, <1>5, <1>6 DEF NoDup
<1> QED BY <1>6, <1>7, <1>8

(***************************************************************************)
(* The blocks.                                                             *)
(***************************************************************************)

\* Setting one of the two flags of a block keeps its type and other fields.
LEMMA SetFlag ==
    ASSUME NEW r \in Waiter
    PROVE  /\ LET v == [r EXCEPT !.woken = TRUE]
              IN  /\ v \in Waiter /\ v.woken
                  /\ v.as = r.as /\ v.uaddr = r.uaddr /\ v.expected = r.expected
                  /\ v.timed_out = r.timed_out /\ v.timeout_id = r.timeout_id
           /\ LET v == [r EXCEPT !.timed_out = TRUE]
              IN  /\ v \in Waiter /\ v.timed_out
                  /\ v.as = r.as /\ v.uaddr = r.uaddr /\ v.expected = r.expected
                  /\ v.woken = r.woken /\ v.timeout_id = r.timeout_id
<1> DEFINE v == [r EXCEPT !.woken = TRUE]
           x == [r EXCEPT !.timed_out = TRUE]
<1>1. v \in Waiter /\ x \in Waiter
  BY Zenon DEF Waiter
<1>2. v.woken /\ x.timed_out
  BY Zenon DEF Waiter
<1>3. /\ v.as = r.as /\ v.uaddr = r.uaddr /\ v.expected = r.expected
      /\ v.timed_out = r.timed_out /\ v.timeout_id = r.timeout_id
  BY Zenon DEF Waiter
<1>4. /\ x.as = r.as /\ x.uaddr = r.uaddr /\ x.expected = r.expected
      /\ x.woken = r.woken /\ x.timeout_id = r.timeout_id
  BY Zenon DEF Waiter
<1> QED BY <1>1, <1>2, <1>3, <1>4

\* futex_wake() changes nothing in a block but its woken flag, and that only
\* in the blocks it selects.
LEMMA WakeEffect ==
    ASSUME waiter \in [Waiters -> Waiter], NEW p, NEW u, NEW all, FutexWake(p, u, all),
           NEW w \in Waiters
    PROVE  /\ waiter'[w] \in Waiter
           /\ waiter'[w].as = waiter[w].as /\ waiter'[w].uaddr = waiter[w].uaddr
           /\ waiter'[w].expected = waiter[w].expected
           /\ waiter'[w].timed_out = waiter[w].timed_out
           /\ waiter'[w].timeout_id = waiter[w].timeout_id
           /\ w \in WakeTargets(asOf[p], u, all) => waiter'[w].woken
           /\ w \notin WakeTargets(asOf[p], u, all) => waiter'[w] = waiter[w]
<1> DEFINE T == WakeTargets(asOf[p], u, all)
<1>1. waiter' = [x \in Waiters |-> IF x \in T THEN [waiter[x] EXCEPT !.woken = TRUE]
                                   ELSE waiter[x]]
  BY DEF FutexWake
<1> HIDE DEF T
<1>2. waiter'[w] = IF w \in T THEN [waiter[w] EXCEPT !.woken = TRUE] ELSE waiter[w]
  BY <1>1
<1>3. waiter[w] \in Waiter
  OBVIOUS
<1>4. CASE w \in T
  <2>1. waiter'[w] = [waiter[w] EXCEPT !.woken = TRUE]
    BY <1>2, <1>4
  <2>2. LET v == [waiter[w] EXCEPT !.woken = TRUE]
        IN  /\ v \in Waiter /\ v.woken
            /\ v.as = waiter[w].as /\ v.uaddr = waiter[w].uaddr
            /\ v.expected = waiter[w].expected
            /\ v.timed_out = waiter[w].timed_out
            /\ v.timeout_id = waiter[w].timeout_id
    BY <1>3, SetFlag, Zenon
  <2> QED BY <2>1, <2>2, <1>4, Zenon DEF T
<1>5. CASE w \notin T
  BY <1>2, <1>3, <1>5 DEF T
<1> QED BY <1>4, <1>5

\* futex_timeout() changes nothing in a block but its timed_out flag, and
\* that only in its own block and only if it is not woken.
LEMMA TimeoutEffect ==
    ASSUME waiter \in [Waiters -> Waiter], NEW c \in Callout, FutexTimeout(c),
           NEW w \in Waiters
    PROVE  /\ waiter'[w] \in Waiter
           /\ waiter'[w].as = waiter[w].as /\ waiter'[w].uaddr = waiter[w].uaddr
           /\ waiter'[w].expected = waiter[w].expected
           /\ waiter'[w].woken = waiter[w].woken
           /\ waiter'[w].timeout_id = waiter[w].timeout_id
           /\ waiter'[w].timed_out # waiter[w].timed_out
                => w = c.arg /\ ~waiter[w].woken
           /\ w = c.arg => waiter'[w].woken \/ waiter'[w].timed_out
<1> DEFINE on == ~waiter[c.arg].woken
<1>1. c.arg \in Waiters
  BY DEF Callout
<1>2. waiter'[w] = IF on /\ w = c.arg THEN [waiter[w] EXCEPT !.timed_out = TRUE]
                   ELSE waiter[w]
  BY <1>1 DEF FutexTimeout
<1>3. waiter[w] \in Waiter
  OBVIOUS
<1>4. CASE on /\ w = c.arg
  <2>1. waiter'[w] = [waiter[w] EXCEPT !.timed_out = TRUE]
    BY <1>2, <1>4
  <2>2. LET v == [waiter[w] EXCEPT !.timed_out = TRUE]
        IN  /\ v \in Waiter /\ v.timed_out
            /\ v.as = waiter[w].as /\ v.uaddr = waiter[w].uaddr
            /\ v.expected = waiter[w].expected
            /\ v.woken = waiter[w].woken
            /\ v.timeout_id = waiter[w].timeout_id
    BY <1>3, SetFlag, Zenon
  <2> QED BY <2>1, <2>2, <1>4, Zenon
<1>5. CASE ~(on /\ w = c.arg)
  BY <1>2, <1>3, <1>5
<1> QED BY <1>4, <1>5

(***************************************************************************)
(* Types.                                                                  *)
(***************************************************************************)

\* The placeholders of calls and blocks not in use have their types.
LEMMA IdleTypes == NoArgs \in Args /\ NoWaiter \in Waiter /\ AnyWord \in Words
BY ConstantsAssumption DEF NoArgs, NoWaiter, Args, Waiter, AnyWord

\* The initial state is well typed.
LEMMA TypeInit == Init => TypeOK
BY ConstantsAssumption, IdleTypes DEF Init, TypeOK, PC

\* Every step keeps the types; the list is needed to know that a process
\* inside do_futex_wait owns a block.
LEMMA TypeStep == TypeOK /\ WaiterListSound /\ [Next]_vars => TypeOK'
<1> SUFFICES ASSUME TypeOK, WaiterListSound, [Next]_vars PROVE TypeOK'
  OBVIOUS
<1> USE ConstantsAssumption DEF TypeOK, userVars, listVars, timerVars, procVars
<1>1. ASSUME NEW p \in Procs, NEW u \in Uaddrs, NEW v \in Words, UserWrite(p, u, v)
      PROVE  TypeOK'
  BY <1>1 DEF UserWrite
<1>2. ASSUME NEW p \in Procs, Signal(p) PROVE TypeOK'
  BY <1>2 DEF Signal, PC, Inside
<1>3. ASSUME NEW p \in Procs, NEW a \in Args, FutexWaitCall(p, a) PROVE TypeOK'
  BY <1>3 DEF FutexWaitCall, PC
<1>4. ASSUME NEW p \in Procs, FutexWaitRefused(p) PROVE TypeOK'
  BY <1>4, IdleTypes DEF FutexWaitRefused, ReturnToUser, PC
<1>5. ASSUME NEW p \in Procs, FutexEnqueue(p) PROVE TypeOK'
  <2>1. args[p].uaddr \in Uaddrs
    BY <1>5 DEF FutexEnqueue, WordAsExpected, Faults, Args
  <2>2. timeid' \in 0 .. MaxTimeid
    BY <1>5 DEF FutexEnqueue, NextTimeid
  <2>3. PICK w \in Waiters \ allocated :
          /\ allocated' = allocated \cup {w}
          /\ waiter' = [waiter EXCEPT ![w] =
                [as |-> asOf[p], uaddr |-> args[p].uaddr,
                 expected |-> args[p].expected,
                 woken |-> FALSE, timed_out |-> FALSE,
                 timeout_id |-> IF args[p].timed THEN timeid + 1 ELSE 0]]
          /\ futex_waiters' = <<w>> \o futex_waiters
          /\ mine' = [mine EXCEPT ![p] = w]
          /\ callout' = IF args[p].timed
                        THEN callout \cup {[id |-> timeid + 1, arg |-> w]}
                        ELSE callout
    BY <1>5 DEF FutexEnqueue, NextTimeid
  <2>4. args[p].timed => timeid + 1 \in 1 .. MaxTimeid
    BY <1>5 DEF FutexEnqueue
  <2>5. waiter' \in [Waiters -> Waiter]
    BY <2>1, <2>3, <2>4 DEF Waiter, Args
  <2>6. callout' \subseteq Callout
    BY <2>3, <2>4 DEF Callout
  <2>7. futex_waiters' \in Seq(Waiters)
    BY <2>3, ConsList
  <2> QED BY <1>5, <2>2, <2>3, <2>5, <2>6, <2>7, IdleTypes
          DEF FutexEnqueue, PC, Inside
<1>6. ASSUME NEW p \in Procs, FutexCheck(p) PROVE TypeOK'
  BY <1>6 DEF FutexCheck, PC, Inside
<1>7. ASSUME NEW p \in Procs, FutexSleep(p) PROVE TypeOK'
  BY <1>7 DEF FutexSleep, PC, Inside
<1>8. ASSUME NEW p \in Procs, FutexResume(p) PROVE TypeOK'
  BY <1>8 DEF FutexResume, PC, Inside
<1>9. ASSUME NEW p \in Procs, NEW u \in Uaddrs, NEW all \in BOOLEAN, FutexWake(p, u, all)
      PROVE  TypeOK'
  <2>1. waiter' \in [Waiters -> Waiter]
    <3>1. \A w \in Waiters : waiter'[w] \in Waiter
      BY <1>9, WakeEffect
    <3> QED BY <1>9, <3>1 DEF FutexWake
  <2>2. pc' \in [Procs -> PC]
    BY <1>9 DEF FutexWake, wakeprocs, PC, Inside
  <2> QED BY <1>9, <2>1, <2>2 DEF FutexWake
<1>10. ASSUME NEW c \in Callout, FutexTimeout(c) PROVE TypeOK'
  <2>1. waiter' \in [Waiters -> Waiter]
    <3>1. \A w \in Waiters : waiter'[w] \in Waiter
      BY <1>10, TimeoutEffect
    <3> QED BY <1>10, <3>1 DEF FutexTimeout
  <2>2. pc' \in [Procs -> PC]
    BY <1>10 DEF FutexTimeout, wakeprocs, PC, Inside
  <2> QED BY <1>10, <2>1, <2>2 DEF FutexTimeout
<1>11. CASE UNCHANGED vars
  BY <1>11 DEF vars
<1>12. ASSUME NEW p \in Procs, FutexFinish(p) PROVE TypeOK'
  <2>1. mine[p] \in Range(futex_waiters)
    BY <1>12 DEF FutexFinish, WaiterListSound, Inside
  <2>2. futex_waiters' \in Seq(Waiters)
    BY <1>12, <2>1, RemoveList DEF FutexFinish, WaiterListSound
  <2>3. waiter' \in [Waiters -> Waiter]
    BY <1>12, IdleTypes DEF FutexFinish
  <2> QED BY <1>12, <2>2, <2>3, IdleTypes
          DEF FutexFinish, ReturnToUser, untimeout, PC
<1> QED BY <1>12, <1>1, <1>2, <1>3, <1>4, <1>5, <1>6, <1>7, <1>8, <1>9, <1>10, <1>11 DEF Next

(***************************************************************************)
(* The processor and the list.                                             *)
(***************************************************************************)

InKernel == {"check", "sleep", "finish", "eintr"}

\* The process that holds the processor is the one between two kernel steps.
CpuOwner == \A p \in Procs : cpu = p <=> pc[p] \in InKernel

\* wakeprocs() moves processes only from SSLEEP to SRUN.
LEMMA WakeprocsEffect ==
    ASSUME pc \in [Procs -> PC], NEW C, pc' = wakeprocs(pc, C), NEW p \in Procs
    PROVE  /\ pc[p] = "SSLEEP" /\ mine[p] \in C => pc'[p] = "SRUN"
           /\ ~(pc[p] = "SSLEEP" /\ mine[p] \in C) => pc'[p] = pc[p]
           /\ pc'[p] \in Inside <=> pc[p] \in Inside
           /\ pc'[p] \in InKernel <=> pc[p] \in InKernel
BY DEF wakeprocs, Inside, InKernel

\* Every step keeps the processor with the one process that executes in the
\* kernel outside a sleep.
LEMMA CpuStep ==
    ASSUME TypeOK, CpuOwner, [Next]_vars
    PROVE  CpuOwner'
<1> USE ConstantsAssumption DEF TypeOK, CpuOwner, InKernel,
        userVars, listVars, timerVars, procVars
<1>1. ASSUME NEW p \in Procs, NEW u \in Uaddrs, NEW v \in Words, UserWrite(p, u, v)
      PROVE  CpuOwner'
  BY <1>1 DEF UserWrite
<1>2. ASSUME NEW p \in Procs, Signal(p) PROVE CpuOwner'
  BY <1>2 DEF Signal
<1>3. ASSUME NEW p \in Procs, NEW a \in Args, FutexWaitCall(p, a) PROVE CpuOwner'
  BY <1>3 DEF FutexWaitCall
<1>4. ASSUME NEW p \in Procs, FutexWaitRefused(p) PROVE CpuOwner'
  BY <1>4 DEF FutexWaitRefused, ReturnToUser
<1>5. ASSUME NEW p \in Procs, FutexEnqueue(p) PROVE CpuOwner'
  BY <1>5 DEF FutexEnqueue
<1>6. ASSUME NEW p \in Procs, FutexCheck(p) PROVE CpuOwner'
  BY <1>6 DEF FutexCheck
<1>7. ASSUME NEW p \in Procs, FutexSleep(p) PROVE CpuOwner'
  BY <1>7 DEF FutexSleep
<1>8. ASSUME NEW p \in Procs, FutexResume(p) PROVE CpuOwner'
  BY <1>8 DEF FutexResume
<1>9. ASSUME NEW p \in Procs, FutexFinish(p) PROVE CpuOwner'
  BY <1>9 DEF FutexFinish, ReturnToUser
<1>10. ASSUME NEW p \in Procs, NEW u \in Uaddrs, NEW all \in BOOLEAN, FutexWake(p, u, all)
      PROVE  CpuOwner'
  <2>1. PICK C : pc' = wakeprocs(pc, C)
    BY <1>10 DEF FutexWake
  <2> QED BY <1>10, <2>1, WakeprocsEffect DEF FutexWake
<1>11. ASSUME NEW c \in Callout, FutexTimeout(c) PROVE CpuOwner'
  <2>1. CASE ~waiter[c.arg].woken
    BY <1>11, <2>1, WakeprocsEffect DEF FutexTimeout
  <2>2. CASE waiter[c.arg].woken
    BY <1>11, <2>2 DEF FutexTimeout
  <2> QED BY <2>1, <2>2
<1>12. CASE UNCHANGED vars
  BY <1>12 DEF vars
<1> QED BY <1>1, <1>2, <1>3, <1>4, <1>5, <1>6, <1>7, <1>8, <1>9, <1>10, <1>11,
           <1>12 DEF Next

\* A step that neither allocates nor frees, and moves no process into or out
\* of the wait, keeps the list sound.
LEMMA ListFrame ==
    ASSUME WaiterListSound, UNCHANGED <<futex_waiters, allocated, mine>>,
           \A p \in Procs : pc'[p] \in Inside <=> pc[p] \in Inside
    PROVE  WaiterListSound'
BY DEF WaiterListSound

\* Every step keeps the list sound.
LEMMA ListStep ==
    ASSUME TypeOK, CpuOwner, WaiterListSound, [Next]_vars
    PROVE  WaiterListSound'
<1> USE ConstantsAssumption DEF TypeOK, Inside,
        userVars, listVars, timerVars, procVars
<1>1. ASSUME NEW p \in Procs, NEW u \in Uaddrs, NEW v \in Words, UserWrite(p, u, v)
      PROVE  WaiterListSound'
  BY <1>1, ListFrame DEF UserWrite
<1>2. ASSUME NEW p \in Procs, Signal(p) PROVE WaiterListSound'
  BY <1>2, ListFrame DEF Signal
<1>3. ASSUME NEW p \in Procs, NEW a \in Args, FutexWaitCall(p, a)
      PROVE  WaiterListSound'
  BY <1>3, ListFrame DEF FutexWaitCall
<1>4. ASSUME NEW p \in Procs, FutexWaitRefused(p) PROVE WaiterListSound'
  BY <1>4, ListFrame DEF FutexWaitRefused, ReturnToUser
<1>5. ASSUME NEW p \in Procs, FutexEnqueue(p) PROVE WaiterListSound'
  <2>1. PICK w \in Waiters \ allocated :
          /\ allocated' = allocated \cup {w}
          /\ futex_waiters' = <<w>> \o futex_waiters
          /\ mine' = [mine EXCEPT ![p] = w]
    BY <1>5 DEF FutexEnqueue
  <2>2. pc[p] = "alloc" /\ pc' = [pc EXCEPT ![p] = "check"]
    BY <1>5 DEF FutexEnqueue
  <2>3. NoDup(futex_waiters') /\ Range(futex_waiters') = allocated'
    <3>1. w \notin Range(futex_waiters) /\ NoDup(futex_waiters)
      BY <2>1 DEF WaiterListSound
    <3> QED BY <2>1, <3>1, ConsList DEF WaiterListSound
  <2>4. \A q \in Procs : pc'[q] \in Inside => mine'[q] \in allocated'
    BY <2>1, <2>2 DEF WaiterListSound
  <2>5. \A x \in allocated' : \E q \in Procs : pc'[q] \in Inside /\ mine'[q] = x
    <3> SUFFICES ASSUME NEW x \in allocated'
                 PROVE  \E q \in Procs : pc'[q] \in Inside /\ mine'[q] = x
      OBVIOUS
    <3>1. CASE x = w
      BY <2>1, <2>2, <3>1
    <3>2. CASE x # w
      <4>1. PICK q \in Procs : pc[q] \in Inside /\ mine[q] = x
        BY <2>1, <3>2 DEF WaiterListSound
      <4>2. q # p /\ pc'[q] \in Inside /\ mine'[q] = x
        BY <4>1, <2>1, <2>2
      <4> QED BY <4>2
    <3> QED BY <3>1, <3>2
  <2>6. \A q, r \in Procs :
          (pc'[q] \in Inside /\ pc'[r] \in Inside /\ mine'[q] = mine'[r]) => q = r
    BY <2>1, <2>2 DEF WaiterListSound
  <2> QED BY <2>3, <2>4, <2>5, <2>6 DEF WaiterListSound
<1>6. ASSUME NEW p \in Procs, FutexCheck(p) PROVE WaiterListSound'
  BY <1>6, ListFrame DEF FutexCheck
<1>7. ASSUME NEW p \in Procs, FutexSleep(p) PROVE WaiterListSound'
  BY <1>7, ListFrame DEF FutexSleep
<1>8. ASSUME NEW p \in Procs, FutexResume(p) PROVE WaiterListSound'
  BY <1>8, ListFrame DEF FutexResume
<1>9. ASSUME NEW p \in Procs, FutexFinish(p) PROVE WaiterListSound'
  <2> DEFINE w == mine[p]
  <2>1. /\ pc[p] \in Inside /\ pc' = [pc EXCEPT ![p] = "user"]
        /\ mine' = [mine EXCEPT ![p] = NULL]
        /\ allocated' = allocated \ {w}
        /\ futex_waiters' = futex_remove(futex_waiters, w)
    BY <1>9 DEF FutexFinish, ReturnToUser
  <2>2. w \in Range(futex_waiters) /\ NoDup(futex_waiters)
    BY <2>1 DEF WaiterListSound
  <2>3. NoDup(futex_waiters') /\ Range(futex_waiters') = allocated'
    BY <2>1, <2>2, RemoveList DEF WaiterListSound
  <2>4. \A q \in Procs : pc'[q] \in Inside => mine'[q] \in allocated'
    BY <2>1 DEF WaiterListSound
  <2>5. \A x \in allocated' : \E q \in Procs : pc'[q] \in Inside /\ mine'[q] = x
    BY <2>1 DEF WaiterListSound
  <2>6. \A q, r \in Procs :
          (pc'[q] \in Inside /\ pc'[r] \in Inside /\ mine'[q] = mine'[r]) => q = r
    BY <2>1 DEF WaiterListSound
  <2> QED BY <2>3, <2>4, <2>5, <2>6 DEF WaiterListSound
<1>10. ASSUME NEW p \in Procs, NEW u \in Uaddrs, NEW all \in BOOLEAN, FutexWake(p, u, all)
      PROVE  WaiterListSound'
  <2>1. PICK C : pc' = wakeprocs(pc, C)
    BY <1>10 DEF FutexWake
  <2>2. \A q \in Procs : pc'[q] \in Inside <=> pc[q] \in Inside
    BY <2>1, WakeprocsEffect
  <2> QED BY <1>10, <2>2, ListFrame DEF FutexWake
<1>11. ASSUME NEW c \in Callout, FutexTimeout(c) PROVE WaiterListSound'
  <2>1. \A q \in Procs : pc'[q] \in Inside <=> pc[q] \in Inside
    BY <1>11, WakeprocsEffect DEF FutexTimeout
  <2> QED BY <1>11, <2>1, ListFrame DEF FutexTimeout
<1>12. CASE UNCHANGED vars
  BY <1>12, ListFrame DEF vars
<1> QED BY <1>1, <1>2, <1>3, <1>4, <1>5, <1>6, <1>7, <1>8, <1>9, <1>10, <1>11,
           <1>12 DEF Next

\* The first layer of the inductive invariant.
ListInv == TypeOK /\ CpuOwner /\ WaiterListSound

(***************************************************************************)
(* The timers.                                                             *)
(***************************************************************************)

\* Linked waiters carry ids that were handed out, no two the same.
TimerIds ==
    /\ \A w \in allocated : waiter[w].timeout_id <= timeid
    /\ \A v, w \in allocated :
          waiter[v].timeout_id = waiter[w].timeout_id /\ waiter[v].timeout_id # 0
          => v = w

\* NoStaleTimer and TimedWaitArmed with the list read as the set allocated.
Armed(w) == [id |-> waiter[w].timeout_id, arg |-> w] \in callout
TimerInv ==
    /\ TimerIds
    /\ \A c \in callout : /\ c.arg \in allocated
                          /\ waiter[c.arg].timeout_id = c.id
                          /\ ~waiter[c.arg].timed_out
    /\ \A w \in allocated :
          waiter[w].timeout_id # 0 /\ ~waiter[w].woken /\ ~waiter[w].timed_out
          => Armed(w)

\* A step that leaves the blocks and the timers alone.
LEMMA TimerFrame ==
    ASSUME TimerInv, UNCHANGED <<allocated, waiter, callout, timeid>>
    PROVE  TimerInv'
BY DEF TimerInv, TimerIds, Armed

\* The ids stay below timeid when neither the blocks nor the callouts gain
\* an id.
LEMMA TimerIdsFrame ==
    ASSUME TimerIds, UNCHANGED <<allocated, timeid>>,
           \A w \in allocated : waiter'[w].timeout_id = waiter[w].timeout_id
    PROVE  TimerIds'
BY DEF TimerIds

\* A callout entry is determined by its id and its argument.
LEMMA CalloutEq ==
    ASSUME NEW c \in Callout, NEW d \in Callout, c.id = d.id, c.arg = d.arg
    PROVE  c = d
<1>1. c = [id |-> c.id, arg |-> c.arg]
  BY DEF Callout
<1>2. d = [id |-> d.id, arg |-> d.arg]
  BY DEF Callout
<1> QED BY <1>1, <1>2

\* Every step keeps the armed timeouts and the blocks in agreement.
LEMMA TimerStep ==
    ASSUME ListInv, ListInv', TimerInv, [Next]_vars
    PROVE  TimerInv'
<1> USE ConstantsAssumption DEF ListInv, TypeOK, userVars, listVars, timerVars, procVars
<1>1. ASSUME NEW p \in Procs, NEW u \in Uaddrs, NEW v \in Words, UserWrite(p, u, v)
      PROVE  TimerInv'
  BY <1>1, TimerFrame DEF UserWrite
<1>2. ASSUME NEW p \in Procs, Signal(p) PROVE TimerInv'
  BY <1>2, TimerFrame DEF Signal
<1>3. ASSUME NEW p \in Procs, NEW a \in Args, FutexWaitCall(p, a) PROVE TimerInv'
  BY <1>3, TimerFrame DEF FutexWaitCall
<1>4. ASSUME NEW p \in Procs, FutexWaitRefused(p) PROVE TimerInv'
  BY <1>4, TimerFrame DEF FutexWaitRefused
<1>5. ASSUME NEW p \in Procs, FutexEnqueue(p) PROVE TimerInv'
  <2> DEFINE timed == args[p].timed
  <2>1. PICK w \in Waiters \ allocated :
          /\ allocated' = allocated \cup {w}
          /\ waiter' = [waiter EXCEPT ![w] =
                [as |-> asOf[p], uaddr |-> args[p].uaddr,
                 expected |-> args[p].expected,
                 woken |-> FALSE, timed_out |-> FALSE,
                 timeout_id |-> IF timed THEN timeid + 1 ELSE 0]]
          /\ callout' = IF timed
                        THEN callout \cup {[id |-> timeid + 1, arg |-> w]}
                        ELSE callout
          /\ timeid' = IF timed THEN timeid + 1 ELSE timeid
    BY <1>5 DEF FutexEnqueue, NextTimeid
  <2>2. /\ waiter'[w].timeout_id = IF timed THEN timeid + 1 ELSE 0
        /\ waiter'[w].timed_out = FALSE
        /\ \A x \in allocated : x \in Waiters /\ x # w /\ waiter'[x] = waiter[x]
    BY <2>1
  <2>3. \A x \in allocated : waiter[x].timeout_id \in 0 .. timeid
    BY DEF TimerInv, TimerIds, Waiter
  <2>4. TimerIds'
    BY <2>1, <2>2, <2>3 DEF TimerInv, TimerIds
  <2>5. ASSUME NEW c \in callout'
        PROVE  /\ c.arg \in allocated'
               /\ waiter'[c.arg].timeout_id = c.id
               /\ ~waiter'[c.arg].timed_out
    BY <2>1, <2>2, <2>5 DEF TimerInv
  <2>6. ASSUME NEW x \in allocated', waiter'[x].timeout_id # 0,
               ~waiter'[x].woken, ~waiter'[x].timed_out
        PROVE  Armed(x)'
    <3>1. CASE x = w
      BY <2>1, <2>2, <2>6, <3>1 DEF Armed
    <3>2. CASE x # w
      <4>1. x \in allocated /\ waiter'[x] = waiter[x]
        BY <2>1, <2>2, <3>2
      <4>2. Armed(x)
        BY <4>1, <2>6 DEF TimerInv
      <4> QED BY <4>1, <4>2, <2>1 DEF Armed
    <3> QED BY <3>1, <3>2
  <2> QED BY <2>4, <2>5, <2>6 DEF TimerInv
<1>6. ASSUME NEW p \in Procs, FutexCheck(p) PROVE TimerInv'
  BY <1>6, TimerFrame DEF FutexCheck
<1>7. ASSUME NEW p \in Procs, FutexSleep(p) PROVE TimerInv'
  BY <1>7, TimerFrame DEF FutexSleep
<1>8. ASSUME NEW p \in Procs, FutexResume(p) PROVE TimerInv'
  BY <1>8, TimerFrame DEF FutexResume
<1>9. ASSUME NEW p \in Procs, FutexFinish(p) PROVE TimerInv'
  <2> DEFINE w == mine[p]
  <2>1. /\ w \in allocated /\ allocated' = allocated \ {w} /\ timeid' = timeid
        /\ waiter' = [waiter EXCEPT ![w] = NoWaiter]
        /\ callout' = IF waiter[w].timeout_id # 0 /\ ~waiter[w].timed_out
                      THEN untimeout(waiter[w].timeout_id) ELSE callout
    BY <1>9 DEF FutexFinish, WaiterListSound, Inside
  <2>2. \A x \in allocated' : x \in allocated /\ x # w /\ waiter'[x] = waiter[x]
    BY <2>1
  <2>3. TimerIds'
    BY <2>1, <2>2 DEF TimerInv, TimerIds
  <2>4. ASSUME NEW c \in callout'
        PROVE  /\ c.arg \in allocated'
               /\ waiter'[c.arg].timeout_id = c.id
               /\ ~waiter'[c.arg].timed_out
    <3>1. c \in callout /\ c.id # 0
      BY <2>1, <2>4 DEF untimeout, Callout
    <3>2. c.arg # w
      <4>1. SUFFICES ASSUME c.arg = w PROVE FALSE
        OBVIOUS
      <4>2. waiter[w].timeout_id = c.id /\ ~waiter[w].timed_out
        BY <3>1, <4>1 DEF TimerInv
      <4>3. callout' = untimeout(c.id)
        BY <2>1, <3>1, <4>2
      <4> QED BY <2>4, <4>3 DEF untimeout
    <3> QED BY <3>1, <3>2, <2>1, <2>2 DEF TimerInv
  <2>5. ASSUME NEW x \in allocated', waiter'[x].timeout_id # 0,
               ~waiter'[x].woken, ~waiter'[x].timed_out
        PROVE  Armed(x)'
    <3>1. x \in allocated /\ x # w /\ waiter'[x] = waiter[x]
      BY <2>2
    <3>2. Armed(x)
      BY <3>1, <2>5 DEF TimerInv
    <3>3. waiter[x].timeout_id # waiter[w].timeout_id
      BY <3>1, <2>1, <2>5 DEF TimerInv, TimerIds
    <3> QED BY <3>1, <3>2, <3>3, <2>1 DEF Armed, untimeout
  <2> QED BY <2>3, <2>4, <2>5 DEF TimerInv
<1>10. ASSUME NEW p \in Procs, NEW u \in Uaddrs, NEW all \in BOOLEAN, FutexWake(p, u, all)
      PROVE  TimerInv'
  <2>1. UNCHANGED <<allocated, callout, timeid>>
    BY <1>10 DEF FutexWake
  <2>2. \A w \in allocated : /\ w \in Waiters
                             /\ waiter'[w].timeout_id = waiter[w].timeout_id
                             /\ waiter'[w].timed_out = waiter[w].timed_out
                             /\ ~waiter'[w].woken => ~waiter[w].woken
    BY <1>10, WakeEffect
  <2>3. TimerIds'
    BY <2>1, <2>2, TimerIdsFrame DEF TimerInv
  <2>4. \A c \in callout' : /\ c.arg \in allocated'
                           /\ waiter'[c.arg].timeout_id = c.id
                           /\ ~waiter'[c.arg].timed_out
    BY <2>1, <2>2 DEF TimerInv
  <2>5. ASSUME NEW x \in allocated', waiter'[x].timeout_id # 0,
               ~waiter'[x].woken, ~waiter'[x].timed_out
        PROVE  Armed(x)'
    BY <2>1, <2>2, <2>5 DEF TimerInv, Armed
  <2> QED BY <2>3, <2>4, <2>5 DEF TimerInv
<1>11. ASSUME NEW c \in Callout, FutexTimeout(c) PROVE TimerInv'
  <2>1. c \in callout /\ callout' = callout \ {c} /\ UNCHANGED <<allocated, timeid>>
    BY <1>11 DEF FutexTimeout
  <2>2. \A w \in allocated : /\ w \in Waiters
                             /\ waiter'[w].timeout_id = waiter[w].timeout_id
                             /\ waiter'[w].woken = waiter[w].woken
                             /\ w # c.arg => waiter'[w].timed_out = waiter[w].timed_out
                             /\ w = c.arg => waiter'[w].woken \/ waiter'[w].timed_out
                             /\ waiter[w].timed_out => waiter'[w].timed_out
    BY <1>11, TimeoutEffect
  <2>3. ASSUME NEW d \in callout'
        PROVE  d \in callout /\ d.arg # c.arg
    <3>1. d \in callout /\ d # c
      BY <2>1, <2>3
    <3>2. ASSUME d.arg = c.arg PROVE d.id = c.id
      BY <3>1, <3>2, <2>1 DEF TimerInv
    <3>3. d.arg = c.arg /\ d.id = c.id => d = c
      <4>1. d \in Callout
        BY <3>1
      <4> QED BY <4>1, CalloutEq
    <3> QED BY <3>1, <3>2, <3>3
  <2>4. TimerIds'
    BY <2>1, <2>2, TimerIdsFrame DEF TimerInv
  <2>5. ASSUME NEW d \in callout'
        PROVE  /\ d.arg \in allocated'
               /\ waiter'[d.arg].timeout_id = d.id
               /\ ~waiter'[d.arg].timed_out
    BY <2>1, <2>2, <2>3, <2>5 DEF TimerInv
  <2>6. ASSUME NEW x \in allocated', waiter'[x].timeout_id # 0,
               ~waiter'[x].woken, ~waiter'[x].timed_out
        PROVE  Armed(x)'
    <3>1. x # c.arg /\ Armed(x)
      BY <2>1, <2>2, <2>6 DEF TimerInv
    <3> QED BY <3>1, <2>1, <2>2, <2>6 DEF Armed
  <2> QED BY <2>4, <2>5, <2>6 DEF TimerInv
<1>12. CASE UNCHANGED vars
  BY <1>12, TimerFrame DEF vars
<1> QED BY <1>1, <1>2, <1>3, <1>4, <1>5, <1>6, <1>7, <1>8, <1>9, <1>10, <1>11,
           <1>12 DEF Next

(***************************************************************************)
(* The wakeups.                                                            *)
(***************************************************************************)

\* WokenNotAsleep is not inductive: a process about to call sleep() must not
\* be woken either.  A wake needs the processor, which that process holds.
SleepInv ==
    \A p \in Procs : pc[p] \in {"sleep", "SSLEEP"} => ~waiter[mine[p]].woken

\* NoMissedWake with the list read as the set allocated.
Missed(w) == /\ ~waiter[w].woken
             /\ mem[waiter[w].as][waiter[w].uaddr] # waiter[w].expected
             /\ ~dirty[waiter[w].as][waiter[w].uaddr]
WakeInv == SleepInv /\ \A w \in allocated : ~Missed(w)

\* A step that leaves the words and the blocks alone, and puts no process to
\* sleep that was not about to.
LEMMA WakeFrame ==
    ASSUME WakeInv, UNCHANGED <<mem, dirty, allocated, waiter, mine>>,
           \A p \in Procs : pc'[p] \in {"sleep", "SSLEEP"}
                            => pc[p] \in {"sleep", "SSLEEP"}
    PROVE  WakeInv'
BY DEF WakeInv, SleepInv, Missed

\* Every step keeps sleepers unwoken and unwoken waiters current.
LEMMA WakeStep ==
    ASSUME ListInv, WakeInv, [Next]_vars
    PROVE  WakeInv'
<1> USE ConstantsAssumption DEF ListInv, TypeOK, userVars, listVars, timerVars, procVars
<1>1. ASSUME NEW p \in Procs, NEW u \in Uaddrs, NEW v \in Words, UserWrite(p, u, v)
      PROVE  WakeInv'
  <2>1. SleepInv'
    BY <1>1 DEF UserWrite, WakeInv, SleepInv
  <2>2. \A w \in allocated : waiter[w].as \in Spaces /\ waiter[w].uaddr \in Uaddrs
    BY DEF Waiter
  <2>3. ASSUME NEW w \in allocated' PROVE ~Missed(w)'
    BY <1>1, <2>2 DEF UserWrite, WakeInv, Missed
  <2> QED BY <2>1, <2>3 DEF WakeInv
<1>2. ASSUME NEW p \in Procs, Signal(p) PROVE WakeInv'
  BY <1>2, WakeFrame DEF Signal
<1>3. ASSUME NEW p \in Procs, NEW a \in Args, FutexWaitCall(p, a) PROVE WakeInv'
  BY <1>3, WakeFrame DEF FutexWaitCall
<1>4. ASSUME NEW p \in Procs, FutexWaitRefused(p) PROVE WakeInv'
  BY <1>4, WakeFrame DEF FutexWaitRefused, ReturnToUser
<1>5. ASSUME NEW p \in Procs, FutexEnqueue(p) PROVE WakeInv'
  <2>1. PICK w \in Waiters \ allocated :
          /\ allocated' = allocated \cup {w}
          /\ waiter' = [waiter EXCEPT ![w] =
                [as |-> asOf[p], uaddr |-> args[p].uaddr,
                 expected |-> args[p].expected,
                 woken |-> FALSE, timed_out |-> FALSE,
                 timeout_id |-> IF args[p].timed THEN timeid + 1 ELSE 0]]
          /\ mine' = [mine EXCEPT ![p] = w]
    BY <1>5 DEF FutexEnqueue, NextTimeid
  <2>2. /\ pc' = [pc EXCEPT ![p] = "check"] /\ UNCHANGED <<mem, dirty>>
        /\ mem[asOf[p]][args[p].uaddr] = args[p].expected
    BY <1>5 DEF FutexEnqueue, WordAsExpected
  <2>3. \A q \in Procs : pc[q] \in {"sleep", "SSLEEP"} => mine[q] \in allocated
    BY DEF WaiterListSound, Inside
  <2>4. SleepInv'
    BY <2>1, <2>2, <2>3 DEF WakeInv, SleepInv
  <2>5. ASSUME NEW x \in allocated' PROVE ~Missed(x)'
    BY <2>1, <2>2 DEF WakeInv, Missed
  <2> QED BY <2>4, <2>5 DEF WakeInv
<1>6. ASSUME NEW p \in Procs, FutexCheck(p) PROVE WakeInv'
  <2>1. SleepInv'
    BY <1>6 DEF FutexCheck, WakeInv, SleepInv
  <2> QED BY <1>6, <2>1 DEF FutexCheck, WakeInv, Missed
<1>7. ASSUME NEW p \in Procs, FutexSleep(p) PROVE WakeInv'
  BY <1>7, WakeFrame DEF FutexSleep
<1>8. ASSUME NEW p \in Procs, FutexResume(p) PROVE WakeInv'
  BY <1>8, WakeFrame DEF FutexResume
<1>9. ASSUME NEW p \in Procs, FutexFinish(p) PROVE WakeInv'
  <2> DEFINE w == mine[p]
  <2>1. /\ w \in allocated /\ allocated' = allocated \ {w}
        /\ waiter' = [waiter EXCEPT ![w] = NoWaiter]
        /\ pc' = [pc EXCEPT ![p] = "user"] /\ pc[p] \in Inside
        /\ mine' = [mine EXCEPT ![p] = NULL] /\ UNCHANGED <<mem, dirty>>
    BY <1>9 DEF FutexFinish, ReturnToUser, WaiterListSound, Inside
  <2>2. \A x \in allocated' : x \in allocated /\ waiter'[x] = waiter[x]
    BY <2>1
  <2>3. SleepInv'
    <3> SUFFICES ASSUME NEW q \in Procs, pc'[q] \in {"sleep", "SSLEEP"}
                 PROVE  ~waiter'[mine'[q]].woken
      BY DEF SleepInv
    <3>1. q # p /\ pc'[q] = pc[q] /\ mine'[q] = mine[q]
      BY <2>1
    <3>2. mine[q] # w /\ mine[q] \in allocated
      BY <3>1, <2>1 DEF WaiterListSound, Inside
    <3> QED BY <3>1, <3>2, <2>1 DEF WakeInv, SleepInv
  <2> QED BY <2>1, <2>2, <2>3 DEF WakeInv, Missed
<1>10. ASSUME NEW p \in Procs, NEW u \in Uaddrs, NEW all \in BOOLEAN, FutexWake(p, u, all)
      PROVE  WakeInv'
  <2> DEFINE T == WakeTargets(asOf[p], u, all)
  <2>1. /\ cpu = NULL /\ pc' = wakeprocs(pc, T) /\ UNCHANGED <<mem, allocated, mine>>
        /\ dirty' = IF all THEN [dirty EXCEPT ![asOf[p]][u] = FALSE] ELSE dirty
    BY <1>10 DEF FutexWake
  <2>2. SleepInv'
    <3> SUFFICES ASSUME NEW q \in Procs, pc'[q] \in {"sleep", "SSLEEP"}
                 PROVE  ~waiter'[mine'[q]].woken
      BY DEF SleepInv
    <3>1. pc'[q] = pc[q] /\ ~(pc[q] = "SSLEEP" /\ mine[q] \in T)
      BY <2>1 DEF wakeprocs
    <3>2. pc[q] = "SSLEEP"
      BY <3>1, <2>1 DEF CpuOwner, InKernel
    <3>3. mine[q] \in Waiters /\ mine[q] \notin T
      BY <3>1, <3>2 DEF WaiterListSound, Inside
    <3>4. waiter'[mine[q]] = waiter[mine[q]]
      BY <3>3, <1>10, WakeEffect
    <3> QED BY <2>1, <3>1, <3>4 DEF WakeInv, SleepInv
  <2>3. ASSUME NEW w \in allocated', Missed(w)' PROVE FALSE
    <3>1. w \in Waiters /\ w \in allocated
      BY <2>1
    <3>2. w \notin T /\ waiter'[w] = waiter[w]
      BY <3>1, <2>3, <1>10, WakeEffect DEF Missed
    <3>3. /\ ~waiter[w].woken
          /\ mem[waiter[w].as][waiter[w].uaddr] # waiter[w].expected
          /\ ~dirty'[waiter[w].as][waiter[w].uaddr]
      BY <3>2, <2>1, <2>3 DEF Missed
    <3>4. dirty[waiter[w].as][waiter[w].uaddr]
      BY <3>1, <3>3 DEF WakeInv, Missed
    <3>5. all /\ waiter[w].as = asOf[p] /\ waiter[w].uaddr = u
      BY <3>1, <3>3, <3>4, <2>1 DEF Waiter
    <3>6. PICK i \in DOMAIN futex_waiters : futex_waiters[i] = w
      BY <3>1 DEF WaiterListSound, Range
    <3>7. i \in Eligible(asOf[p], u)
      BY <3>3, <3>5, <3>6 DEF Eligible
    <3>8. w \in T
      BY <3>5, <3>6, <3>7 DEF WakeTargets
    <3> QED BY <3>2, <3>8
  <2> QED BY <2>2, <2>3 DEF WakeInv
<1>11. ASSUME NEW c \in Callout, FutexTimeout(c) PROVE WakeInv'
  <2>1. UNCHANGED <<mem, dirty, allocated, mine>>
    BY <1>11 DEF FutexTimeout
  <2>2. \A q \in Procs : pc'[q] \in {"sleep", "SSLEEP"}
                         => pc[q] \in {"sleep", "SSLEEP"} /\ mine[q] \in Waiters
    BY <1>11 DEF FutexTimeout, wakeprocs, WaiterListSound, Inside
  <2>3. \A w \in Waiters : /\ waiter'[w].woken = waiter[w].woken
                           /\ waiter'[w].as = waiter[w].as
                           /\ waiter'[w].uaddr = waiter[w].uaddr
                           /\ waiter'[w].expected = waiter[w].expected
    BY <1>11, TimeoutEffect
  <2>4. SleepInv'
    BY <2>1, <2>2, <2>3 DEF WakeInv, SleepInv
  <2>5. ASSUME NEW w \in allocated' PROVE ~Missed(w)'
    BY <2>1, <2>3 DEF WakeInv, Missed
  <2> QED BY <2>4, <2>5 DEF WakeInv
<1>12. CASE UNCHANGED vars
  BY <1>12, WakeFrame DEF vars
<1> QED BY <1>1, <1>2, <1>3, <1>4, <1>5, <1>6, <1>7, <1>8, <1>9, <1>10, <1>11,
           <1>12 DEF Next

(***************************************************************************)
(* The theorems.                                                           *)
(***************************************************************************)

\* The inductive invariant.
IInv == ListInv /\ TimerInv /\ WakeInv

\* The conjunction of the three invariants is inductive.
THEOREM Inductive == Spec => []IInv
<1>1. Init => IInv
  <2>1. Init => TimerInv
    BY DEF Init, TimerInv, TimerIds
  <2>2. Init => WakeInv
    BY DEF Init, WakeInv, SleepInv
  <2>3. Init => CpuOwner
    BY ConstantsAssumption DEF Init, CpuOwner, InKernel
  <2>4. Init => WaiterListSound
    BY DEF Init, WaiterListSound, Range, NoDup, Inside
  <2> QED BY <2>1, <2>2, <2>3, <2>4, TypeInit DEF ListInv, IInv
<1>2. IInv /\ [Next]_vars => IInv'
  <2> SUFFICES ASSUME IInv, [Next]_vars PROVE IInv'
    OBVIOUS
  <2>1. ListInv'
    BY TypeStep, CpuStep, ListStep DEF IInv, ListInv
  <2> QED BY <2>1, TimerStep, WakeStep DEF IInv
<1> QED BY <1>1, <1>2, PTL DEF Spec

\* Every variable keeps its type.
THEOREM TypeCorrect == Spec => []TypeOK
<1>1. IInv => TypeOK
  BY DEF IInv, ListInv
<1> QED BY <1>1, Inductive, PTL

\* The global futex list holds exactly the blocks calls still own, once each:
\* no stale pointer is ever left in it.
THEOREM ListCorrect == Spec => []WaiterListSound
<1>1. IInv => WaiterListSound
  BY DEF IInv, ListInv
<1> QED BY <1>1, Inductive, PTL

\* futex_timeout() is never armed on a block that was freed or reused.
THEOREM TimersCorrect == Spec => []NoStaleTimer
<1>1. IInv => NoStaleTimer
  BY DEF IInv, ListInv, TimerInv, NoStaleTimer, WaiterListSound
<1> QED BY <1>1, Inductive, PTL

\* A pending timed wait keeps its callout, whatever other calls cancel.
THEOREM ArmedCorrect == Spec => []TimedWaitArmed
<1>1. IInv => TimedWaitArmed
  BY DEF IInv, ListInv, TimerInv, Armed, TimedWaitArmed, WaiterListSound
<1> QED BY <1>1, Inductive, PTL

\* No process sleeps on a waiter that futex_wake() has marked woken.
THEOREM NoLostWake == Spec => []WokenNotAsleep
<1>1. IInv => WokenNotAsleep
  BY DEF IInv, WakeInv, SleepInv, WokenNotAsleep
<1> QED BY <1>1, Inductive, PTL

\* The compare-and-enqueue of futex_wait() and the scan of futex_wake() leave
\* no window in which a wake-all misses a waiter.
THEOREM NoWindow == Spec => []NoMissedWake
<1>1. IInv => NoMissedWake
  BY DEF IInv, ListInv, WakeInv, Missed, NoMissedWake, WaiterListSound
<1> QED BY <1>1, Inductive, PTL

\* A wake reaches the waiters of one address space and one address only, and
\* if it reaches several it reaches them all.
THEOREM KeysProcessLocal == Spec => WakeOneKey
<1> DEFINE Step == \A w \in NewlyWoken : OneKeyOf(w)
<1>1. ASSUME IInv, Next PROVE Step
  <2> USE <1>1, ConstantsAssumption
          DEF IInv, ListInv, TypeOK, userVars, listVars, timerVars, procVars
  <2>1. Range(futex_waiters) = allocated /\ allocated \subseteq Waiters
    BY DEF WaiterListSound
  <2>2. ASSUME waiter' = waiter PROVE Step
    BY <2>2 DEF NewlyWoken
  <2>3. ASSUME NEW p \in Procs, FutexEnqueue(p) PROVE Step
    <3>1. PICK w \in Waiters \ allocated :
            \A x \in Waiters \ {w} : waiter'[x] = waiter[x]
      BY <2>3 DEF FutexEnqueue
    <3>2. \A x \in allocated : waiter'[x] = waiter[x]
      BY <3>1, <2>1
    <3> QED BY <3>2, <2>1 DEF NewlyWoken
  <2>4. ASSUME NEW p \in Procs, FutexFinish(p) PROVE Step
    <3>1. /\ mine[p] \in Waiters
          /\ waiter' = [waiter EXCEPT ![mine[p]] = NoWaiter]
      BY <2>4 DEF FutexFinish, WaiterListSound, Inside
    <3>2. ~NoWaiter.woken
      BY DEF NoWaiter
    <3>3. NewlyWoken = {}
      BY <3>1, <3>2, <2>1 DEF NewlyWoken
    <3> QED BY <3>3
  <2>5. ASSUME NEW p \in Procs, NEW u \in Uaddrs, NEW all \in BOOLEAN,
               FutexWake(p, u, all)
        PROVE  Step
    <3> DEFINE T == WakeTargets(asOf[p], u, all)
               el == Eligible(asOf[p], u)
    <3>1. NewlyWoken \subseteq T
      <4> SUFFICES ASSUME NEW x \in NewlyWoken, x \notin T PROVE FALSE
        OBVIOUS
      <4>1. x \in Waiters /\ ~waiter[x].woken /\ waiter'[x].woken
        BY <2>1 DEF NewlyWoken
      <4>2. waiter'[x] = waiter[x]
        BY <4>1, <2>5, WakeEffect
      <4> QED BY <4>1, <4>2
    <3>2. T = {futex_waiters[i] : i \in {i \in el : all \/ \A j \in el : i <= j}}
      BY DEF WakeTargets
    <3>3. el \subseteq DOMAIN futex_waiters
      BY DEF Eligible
    <3>4. \A x \in T : waiter[x].as = asOf[p] /\ waiter[x].uaddr = u
      <4>1. \A i \in el : LET rec == waiter[futex_waiters[i]]
                         IN  rec.as = asOf[p] /\ rec.uaddr = u
        BY DEF Eligible
      <4> HIDE DEF el, T
      <4> QED BY <4>1, <3>2
    <3>5. ASSUME NEW w \in NewlyWoken, NEW x \in NewlyWoken PROVE SameKey(w, x)
      BY <3>1, <3>4 DEF SameKey
    <3>6. ASSUME NEW w \in NewlyWoken, NewlyWoken # {w},
                 NEW x \in Range(futex_waiters), SameKey(w, x)
          PROVE  waiter'[x].woken
      <4>1. PICK v \in NewlyWoken : v # w
        BY <3>6
      <4>2. PICK a \in el, b \in el : /\ futex_waiters[a] = v /\ futex_waiters[b] = w
                                      /\ all \/ \A j \in el : a <= j
                                      /\ all \/ \A j \in el : b <= j
        BY <4>1, <3>1, <3>2, <3>6, SMTT(30)
      <4>3. all
        <5>1. SUFFICES ASSUME ~all PROVE FALSE
          OBVIOUS
        <5>2. a <= b /\ b <= a
          BY <4>2, <5>1
        <5>3. a \in Nat /\ b \in Nat
          BY <3>3, <4>2
        <5>4. a = b
          BY <5>2, <5>3
        <5> QED BY <5>4, <4>1, <4>2
      <4>4. waiter[x].as = asOf[p] /\ waiter[x].uaddr = u
        BY <3>1, <3>4, <3>6 DEF SameKey
      <4>5. CASE waiter[x].woken
        BY <4>5, <2>1, <2>5, <3>6, WakeEffect
      <4>6. CASE ~waiter[x].woken
        <5>1. PICK i \in DOMAIN futex_waiters : futex_waiters[i] = x
          BY <3>6 DEF Range
        <5>2. i \in el
          BY <5>1, <4>4, <4>6 DEF Eligible
        <5>3. x \in T
          BY <5>1, <5>2, <4>3, <3>2
        <5> QED BY <5>3, <2>1, <2>5, <3>6, WakeEffect
      <4> QED BY <4>5, <4>6
    <3> QED BY <3>5, <3>6 DEF OneKeyOf
  <2>6. ASSUME NEW c \in Callout, FutexTimeout(c) PROVE Step
    <3>1. \A w \in allocated : waiter'[w].woken = waiter[w].woken
      BY <2>1, <2>6, TimeoutEffect
    <3> QED BY <3>1, <2>1 DEF NewlyWoken
  <2>7. ASSUME NEW p \in Procs,
               \/ \E u \in Uaddrs, v \in Words : UserWrite(p, u, v)
               \/ Signal(p)
               \/ \E a \in Args : FutexWaitCall(p, a)
               \/ FutexWaitRefused(p)
               \/ FutexCheck(p)
               \/ FutexSleep(p)
               \/ FutexResume(p)
        PROVE  waiter' = waiter
    BY <2>7 DEF UserWrite, Signal, FutexWaitCall, FutexWaitRefused, FutexCheck,
                FutexSleep, FutexResume
  <2> HIDE DEF Step
  <2> QED BY <2>2, <2>3, <2>4, <2>5, <2>6, <2>7, <1>1 DEF Next
<1>2. IInv /\ [Next]_vars => [Step]_vars
  BY <1>1
<1> QED BY <1>2, Inductive, PTL DEF Spec, WakeOneKey
=============================================================================

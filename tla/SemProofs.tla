------------------------------ MODULE SemProofs ------------------------------
(***************************************************************************)
(* Proofs about Sem, for any number of processes, semaphores, operations   *)
(* and lists.  The rollback needs memory: the invariant says that the      *)
(* values now are the end of a history (Trace) of the loop so far, whose   *)
(* every value is legal, and gives no sleeper what it waits for; semundo() *)
(* walks this history back.                                                *)
(***************************************************************************)
EXTENDS Sem, FiniteSetTheorems, TLAPS

\* An operation list is a sequence of operations that semtmp can hold.
LEMMA ListFacts ==
    ASSUME NEW l \in Lists \cup {<<>>}
    PROVE  /\ Len(l) \in 0 .. SEMOPM /\ DOMAIN l = 1 .. Len(l)
           /\ \A i \in 1 .. Len(l) : l[i] \in Ops
           /\ \A i \in 1 .. Len(l) : i \in 1 .. SEMOPM
<1>1. SEMOPM \in Nat
  BY SemAssumption
<1>2. CASE l = <<>>
  BY <1>1, <1>2
<1>3. CASE l \in Lists
  <2>1. PICK n \in 1 .. SEMOPM : l \in [1 .. n -> Ops]
    BY <1>3, SemAssumption
  <2>2. n \in Nat /\ n <= SEMOPM
    BY <1>1, <2>1
  <2>3. l \in Seq(Ops) /\ Len(l) = n
    BY <2>1, <2>2
  <2> QED BY <1>1, <2>1, <2>2, <2>3
<1> QED BY <1>2, <1>3

\* The fields of an operation.
LEMMA OpFacts ==
    ASSUME NEW op \in Ops
    PROVE  op.num \in Sems /\ op.op \in Int /\ op.undo \in BOOLEAN
BY SemAssumption

(***************************************************************************)
(* Histories of a semop() loop.                                            *)
(***************************************************************************)

\* v is reached from some value of V by the first n operations of tmp, and
\* every value on the way is in V.
Trace(V, tmp, n, v) ==
    \E h \in [0 .. n -> V] :
        /\ h[n] = v
        /\ \A i \in 1 .. n :
              h[i] = [h[i - 1] EXCEPT ![tmp[i].num] = @ + tmp[i].op]

\* A history of no operations.
LEMMA TraceStart ==
    ASSUME NEW V, NEW tmp, NEW v \in V
    PROVE  Trace(V, tmp, 0, v)
<1> DEFINE h == [i \in 0 .. 0 |-> v]
<1>1. h \in [0 .. 0 -> V] /\ h[0] = v /\ 1 .. 0 = {}
  OBVIOUS
<1> HIDE DEF h
<1> QED BY <1>1 DEF Trace

\* One operation more.
LEMMA TraceStep ==
    ASSUME NEW V, NEW tmp, NEW n \in Nat, NEW v, Trace(V, tmp, n, v),
           [v EXCEPT ![tmp[n + 1].num] = @ + tmp[n + 1].op] \in V
    PROVE  Trace(V, tmp, n + 1,
                 [v EXCEPT ![tmp[n + 1].num] = @ + tmp[n + 1].op])
<1> DEFINE w == [v EXCEPT ![tmp[n + 1].num] = @ + tmp[n + 1].op]
<1>1. PICK h \in [0 .. n -> V] :
        /\ h[n] = v
        /\ \A i \in 1 .. n :
              h[i] = [h[i - 1] EXCEPT ![tmp[i].num] = @ + tmp[i].op]
  BY DEF Trace
<1> DEFINE g == [i \in 0 .. (n + 1) |-> IF i = n + 1 THEN w ELSE h[i]]
<1> HIDE DEF w
<1>2. w \in V
  BY DEF w
<1>3. g \in [0 .. (n + 1) -> V] /\ g[n + 1] = w
      /\ \A i \in 0 .. n : g[i] = h[i]
  BY <1>1, <1>2
<1>4. ASSUME NEW i \in 1 .. (n + 1)
      PROVE  g[i] = [g[i - 1] EXCEPT ![tmp[i].num] = @ + tmp[i].op]
  <2>1. CASE i = n + 1
    <3>1. g[i] = w /\ g[i - 1] = v
      BY <2>1, <1>1, <1>3
    <3> HIDE DEF g
    <3> QED BY <2>1, <3>1 DEF w
  <2>2. CASE i # n + 1
    <3>1. i \in 1 .. n /\ g[i] = h[i] /\ g[i - 1] = h[i - 1]
      BY <2>2, <1>3
    <3> HIDE DEF g
    <3> QED BY <3>1, <1>1
  <2> QED BY <2>1, <2>2
<1> HIDE DEF g
<1>5. Trace(V, tmp, n + 1, w)
  BY <1>3, <1>4 DEF Trace
<1> QED BY <1>5 DEF w

\* Taking the last operation back leads to the value before it.
LEMMA TraceBack ==
    ASSUME NEW V, V \subseteq [Sems -> Int], NEW tmp, NEW n \in Nat, n > 0,
           NEW v, Trace(V, tmp, n, v), tmp[n].num \in Sems, tmp[n].op \in Int
    PROVE  LET w == [v EXCEPT ![tmp[n].num] = @ - tmp[n].op]
           IN  w \in V /\ Trace(V, tmp, n - 1, w)
<1> DEFINE s == tmp[n].num
           d == tmp[n].op
           w == [v EXCEPT ![s] = @ - d]
<1>1. PICK h \in [0 .. n -> V] :
        /\ h[n] = v
        /\ \A i \in 1 .. n :
              h[i] = [h[i - 1] EXCEPT ![tmp[i].num] = @ + tmp[i].op]
  BY DEF Trace
<1>2. h[n - 1] \in V /\ v = [h[n - 1] EXCEPT ![s] = @ + d]
  <2>1. n \in 1 .. n /\ n - 1 \in 0 .. n
    OBVIOUS
  <2>2. h[n] = [h[n - 1] EXCEPT ![tmp[n].num] = @ + tmp[n].op]
    BY <1>1, <2>1, Zenon
  <2> QED BY <1>1, <2>1, <2>2
<1>3. h[n - 1] \in [Sems -> Int] /\ s \in Sems /\ d \in Int
  BY <1>2
<1> HIDE DEF s, d
<1>4. w = h[n - 1]
  <2> DEFINE f == h[n - 1]
  <2>1. f \in [Sems -> Int] /\ v = [f EXCEPT ![s] = @ + d]
    BY <1>2, <1>3
  <2> HIDE DEF f
  <2>2. v \in [Sems -> Int] /\ w \in [Sems -> Int]
    BY <2>1, <1>3
  <2>3. ASSUME NEW t \in Sems PROVE w[t] = f[t]
    <3>1. CASE t = s
      <4>1. v[s] = f[s] + d /\ w[s] = v[s] - d
        BY <2>1, <2>2, <1>3
      <4>2. f[s] \in Int
        BY <2>1, <1>3
      <4> HIDE DEF w
      <4> QED BY <4>1, <4>2, <1>3, <3>1
    <3>2. CASE t # s
      <4>1. v[t] = f[t] /\ w[t] = v[t]
        BY <2>1, <2>2, <1>3, <3>2
      <4> QED BY <4>1
    <3> QED BY <3>1, <3>2
  <2>4. w = f
    BY <2>1, <2>2, <2>3
  <2> QED BY <2>4 DEF f
<1> DEFINE g == [i \in 0 .. (n - 1) |-> h[i]]
<1>5. g \in [0 .. (n - 1) -> V] /\ g[n - 1] = w
      /\ \A i \in 0 .. (n - 1) : g[i] = h[i]
  BY <1>1, <1>4
<1>6. ASSUME NEW i \in 1 .. (n - 1)
      PROVE  g[i] = [g[i - 1] EXCEPT ![tmp[i].num] = @ + tmp[i].op]
  <2>1. i \in 1 .. n /\ g[i] = h[i] /\ g[i - 1] = h[i - 1]
    BY <1>5
  <2> HIDE DEF g
  <2> QED BY <2>1, <1>1
<1> HIDE DEF g
<1>7. Trace(V, tmp, n - 1, w)
  BY <1>5, <1>6 DEF Trace
<1> QED BY <1>2, <1>4, <1>7 DEF s, d

\* A larger set of values allows the history too.
LEMMA TraceMono ==
    ASSUME NEW V, NEW W, V \subseteq W, NEW tmp, NEW n \in Nat, NEW v,
           Trace(V, tmp, n, v)
    PROVE  Trace(W, tmp, n, v)
<1>1. PICK h \in [0 .. n -> V] :
        /\ h[n] = v
        /\ \A i \in 1 .. n :
              h[i] = [h[i - 1] EXCEPT ![tmp[i].num] = @ + tmp[i].op]
  BY DEF Trace
<1>2. h \in [0 .. n -> W]
  BY <1>1
<1> QED BY <1>1, <1>2 DEF Trace

(***************************************************************************)
(* The invariant.                                                          *)
(***************************************************************************)

\* The values the semaphores may have; where a process holds the processor.
Legal == [Sems -> 0 .. SEMVMX]
Busy == {"copyin", "loop", "undo", "intr", "check"}

\* Who is inside semop() has the processor; the loop variable is 1 outside of
\* the loop; a sleeper sleeps on one of the two counters.
Control ==
    /\ \A p \in Procs : pc[p] \in Busy => cpu = p
    /\ \A p \in Procs : pc[p] \notin {"fault", "loop", "undo"} => at[p] = 1
    /\ \A p \in Procs : pc[p] \in {"loop", "undo"} =>
                           at[p] <= Len(call[p].ops) + 1
    /\ \A p \in Procs : pc[p] = "SSLEEP" =>
                           stop[p].why \in {"semncnt", "semzcnt"}

\* The values can be rolled back through legal values only.
Rolls ==
    \A p \in Procs : pc[p] \in {"loop", "undo"} =>
        Trace(Legal, semtmp, at[p] - 1, semval)

\* The undo tables are finite functions.
UndoFinite ==
    /\ undo = [p \in Procs |-> undo[p]]
    /\ IsFiniteSet(sem_undo)
    /\ \A p \in Procs : IsFiniteSet(DOMAIN undo[p])

\* All about the tables.
UndoInv == UndoChainSound /\ UndoFinite

\* With the values v the operation that p sleeps for cannot be done.
MustWait(v, p) ==
    ~slept[p] =>
        /\ stop[p].why = "semzcnt" => v[stop[p].num] # 0
        /\ stop[p].why = "semncnt" =>
              \E i \in DOMAIN call[p].ops :
                 LET op == call[p].ops[i]
                 IN  op.num = stop[p].num /\ op.op < 0 /\ v[op.num] < -op.op
Patient == {v \in Legal : \A p \in Procs : pc[p] = "SSLEEP" => MustWait(v, p)}

\* What stopped the loop of p: operation i, on which nothing was done before.
Stopped(p) ==
    \E i \in DOMAIN call[p].ops :
       LET op == call[p].ops[i]
       IN  /\ i >= at[p] /\ op.num = stop[p].num
           /\ stop[p].why = "semzcnt" => semval[op.num] # 0
           /\ stop[p].why = "semncnt" => op.op < 0 /\ semval[op.num] < -op.op

\* The values seen since the loop began give no sleeper what it waits for.
TraceOK ==
    \A p \in Procs : pc[p] \in {"loop", "undo"} =>
        Trace(Patient, semtmp, at[p] - 1, semval)

\* Unless its copyin() slept, a call works on its own list and on a set that
\* still exists.
FetchOK ==
    /\ \A p \in Procs : pc[p] = "fault" => slept[p]
    /\ \A p \in Procs : pc[p] = "copyin" => semconv(call[p].id)
    /\ \A p \in Procs : (pc[p] \in {"loop", "undo", "SSLEEP"} /\ ~slept[p]) =>
          semconv(call[p].id)
    /\ \A p \in Procs : (pc[p] \in {"loop", "undo"} /\ ~slept[p]) =>
          \A i \in DOMAIN call[p].ops : semtmp[i] = call[p].ops[i]

\* Who rolls back to sleep was stopped by an operation of its own list.
StopOK ==
    \A p \in Procs : (/\ pc[p] = "undo" /\ ~slept[p]
                      /\ stop[p].why \in {"semzcnt", "semncnt"}) => Stopped(p)

\* The invariant behind SleepersMustWait.
WaitInv == semval \in Patient /\ TraceOK /\ FetchOK /\ StopOK

\* No list names a semaphore twice.
OneEach ==
    \A l \in Lists : \A i, j \in DOMAIN l : l[i].num = l[j].num => i = j

\* The parts of TypeOK: the adjust-on-exit tables (their range is in
\* UndoChainSound), the others.
TypeUndo ==
    /\ sem_undo \subseteq Procs /\ semunp \subseteq Procs
    /\ \A p \in Procs : /\ DOMAIN undo[p] \subseteq Keys
                        /\ \A k \in DOMAIN undo[p] : undo[p][k] \in Int
TypeSem ==
    /\ alloc \in BOOLEAN /\ seq \in Ids
    /\ semval \in Legal
    /\ semncnt \in [Sems -> Nat] /\ semzcnt \in [Sems -> Nat]
TypeProc ==
    /\ semtmp \in [1 .. SEMOPM -> Ops]
    /\ cpu \in Procs \cup {NULL}
    /\ pc \in [Procs -> PC]
    /\ call \in [Procs -> [id : Ids, ops : Lists \cup {<<>>}]]
    /\ at \in [Procs -> 1 .. (SEMOPM + 1)]
    /\ stop \in [Procs -> [why : Why, num : Sems]]
TypeFlags ==
    /\ slept \in [Procs -> BOOLEAN] /\ sig \in [Procs -> BOOLEAN]
    /\ fresh \in [Procs -> BOOLEAN]

\* The inductive invariant.
SemInv ==
    /\ TypeUndo /\ TypeSem /\ TypeProc /\ TypeFlags
    /\ UndoInv /\ Control /\ Rolls /\ SleeperCounted

\* The bounds, and what user mode leaves in the per-process variables.
LEMMA Bounds ==
    /\ SEMVMX \in Nat /\ SEMAEM \in Nat /\ SEMUME \in Nat /\ SEMMNU \in Nat
    /\ SEMOPM \in Nat /\ MaxSeq \in Nat /\ SEMUME > 0 /\ NULL \notin Procs
    /\ ZeroOp \in Ops /\ NoOps \in [1 .. SEMOPM -> Ops]
    /\ NoCall \in [id : Ids, ops : Lists \cup {<<>>}]
    /\ NoStop \in [why : Why, num : Sems]
<1>1. /\ SEMVMX \in Nat /\ SEMAEM \in Nat /\ SEMUME \in Nat /\ SEMMNU \in Nat
      /\ SEMOPM \in Nat /\ MaxSeq \in Nat /\ SEMUME > 0 /\ NULL \notin Procs
  BY SemAssumption
<1>2. ZeroOp \in Ops
  BY SemAssumption DEF ZeroOp
<1>3. NoOps \in [1 .. SEMOPM -> Ops]
  BY <1>2 DEF NoOps
<1>4. NoCall \in [id : Ids, ops : Lists \cup {<<>>}]
  BY <1>1 DEF NoCall, Ids
<1>5. (CHOOSE s \in Sems : TRUE) \in Sems
  BY SemAssumption
<1>6. NoStop \in [why : Why, num : Sems]
  BY <1>5 DEF NoStop, Why
<1> QED BY <1>1, <1>2, <1>3, <1>4, <1>6

(***************************************************************************)
(* The adjust-on-exit tables.                                              *)
(***************************************************************************)
\* Steps that leave the tables alone.
LEMMA UndoStays ==
    ASSUME TypeUndo, UndoInv, UNCHANGED undoVars
    PROVE  TypeUndo' /\ UndoInv'
BY DEF TypeUndo, UndoInv, UndoChainSound, UndoFinite, undoVars

\* semaoe() by p keeps its own table in range and the chain exact.
LEMMA UndoSemaoe ==
    ASSUME TypeUndo, UndoInv, NEW p \in Procs, NEW val \in Int,
           NEW k \in Keys, semaoe(p, val, k)
    PROVE  TypeUndo' /\ UndoInv'
<1>1. CASE val = 0 \/ SemaoeFails(p, val, k)
  <2>1. UNCHANGED undoVars
    BY <1>1 DEF semaoe
  <2> QED BY <2>1, UndoStays
<1>2. CASE ~(val = 0 \/ SemaoeFails(p, val, k))
  <2> DEFINE new == Aoe(p, k) - val
             A == Adjusted(p, val, k)
  <2>1. /\ sem_undo' = sem_undo \cup {p}
        /\ undo' = [undo EXCEPT ![p] = A]
        /\ semunp' = IF DOMAIN A = {} THEN semunp \ {p} ELSE semunp \cup {p}
    BY <1>2 DEF semaoe
  <2>2. /\ val # 0 /\ Adjustable(new)
        /\ p \in sem_undo \/ ~(Cardinality(sem_undo) >= SEMMNU)
        /\ k \in DOMAIN undo[p] \/ ~(Cardinality(DOMAIN undo[p]) >= SEMUME)
    BY <1>2 DEF SemaoeFails
  <2>3. Aoe(p, k) \in Int
    BY DEF Aoe, TypeUndo
  <2>4. new \in Int
    BY <2>3
  <2>5. /\ A = IF new = 0 THEN [j \in DOMAIN undo[p] \ {k} |-> undo[p][j]]
               ELSE [j \in DOMAIN undo[p] \cup {k} |->
                       IF j = k THEN new ELSE undo[p][j]]
    BY DEF Adjusted, Restrict
  <2> HIDE DEF A, new
  <2>6. /\ DOMAIN A = IF new = 0 THEN DOMAIN undo[p] \ {k}
                                 ELSE DOMAIN undo[p] \cup {k}
        /\ \A j \in DOMAIN A : \/ j = k /\ new # 0 /\ A[j] = new
                               \/ j \in DOMAIN undo[p] /\ A[j] = undo[p][j]
    BY <2>5
  <2>7. IsFiniteSet(DOMAIN undo[p]) /\ Cardinality(DOMAIN undo[p]) \in Nat
        /\ Cardinality(DOMAIN undo[p]) <= SEMUME
    BY FS_CardinalityType DEF UndoInv, UndoFinite, UndoChainSound
  <2>8. IsFiniteSet(DOMAIN A) /\ Cardinality(DOMAIN A) <= SEMUME
    <3> DEFINE D == DOMAIN undo[p]
    <3>1. /\ IsFiniteSet(D \ {k})
          /\ Cardinality(D \ {k}) = IF k \in D THEN Cardinality(D) - 1
                                               ELSE Cardinality(D)
      BY <2>7, FS_RemoveElement
    <3>2. /\ IsFiniteSet(D \cup {k})
          /\ Cardinality(D \cup {k}) = IF k \in D THEN Cardinality(D)
                                                  ELSE Cardinality(D) + 1
      BY <2>7, FS_AddElement
    <3>3. k \in D \/ ~(Cardinality(D) >= SEMUME)
      BY <2>2
    <3> HIDE DEF D
    <3>4. Cardinality(D) \in Nat /\ Cardinality(D) <= SEMUME
          /\ DOMAIN A = IF new = 0 THEN D \ {k} ELSE D \cup {k}
      BY <2>6, <2>7 DEF D
    <3> QED BY <3>1, <3>2, <3>3, <3>4, Bounds
  <2>9. IsFiniteSet(sem_undo') /\ Cardinality(sem_undo') <= SEMMNU
    <3>1. IsFiniteSet(sem_undo) /\ Cardinality(sem_undo) \in Nat
          /\ Cardinality(sem_undo) <= SEMMNU
      BY FS_CardinalityType DEF UndoInv, UndoFinite, UndoChainSound
    <3>2. /\ IsFiniteSet(sem_undo \cup {p})
          /\ Cardinality(sem_undo \cup {p}) =
               IF p \in sem_undo THEN Cardinality(sem_undo)
                                 ELSE Cardinality(sem_undo) + 1
      BY <3>1, FS_AddElement
    <3> QED BY <3>1, <3>2, <2>1, <2>2, Bounds
  <2>10. /\ undo' = [q \in Procs |-> undo'[q]]
         /\ \A q \in Procs : undo'[q] = IF q = p THEN A ELSE undo[q]
    <3>1. undo = [q \in Procs |-> undo[q]]
      BY DEF UndoInv, UndoFinite
    <3> QED BY <2>1, <3>1
  <2>11. /\ DOMAIN A \subseteq Keys
         /\ \A j \in DOMAIN A : A[j] \in Int /\ A[j] # 0 /\ Adjustable(A[j])
    BY <2>2, <2>4, <2>6 DEF TypeUndo, UndoInv, UndoChainSound
  <2>12. TypeUndo'
    BY <2>1, <2>10, <2>11 DEF TypeUndo
  <2>13. semunp' = {q \in Procs : DOMAIN undo'[q] # {}}
    BY <2>1, <2>10 DEF UndoInv, UndoChainSound
  <2>14. semunp' \subseteq sem_undo'
    BY <2>1 DEF UndoInv, UndoChainSound
  <2>15. ASSUME NEW q \in Procs
         PROVE  /\ Cardinality(DOMAIN undo'[q]) <= SEMUME
                /\ IsFiniteSet(DOMAIN undo'[q])
                /\ \A j \in DOMAIN undo'[q] :
                     undo'[q][j] # 0 /\ Adjustable(undo'[q][j])
    <3>1. CASE q = p
      BY <3>1, <2>8, <2>10, <2>11
    <3>2. CASE q # p
      BY <3>2, <2>10 DEF UndoInv, UndoChainSound, UndoFinite
    <3> QED BY <3>1, <3>2
  <2> QED BY <2>9, <2>10, <2>12, <2>13, <2>14, <2>15
          DEF UndoInv, UndoChainSound, UndoFinite, Adjustable
<1> QED BY <1>1, <1>2

\* A table that loses entries stays in range; the chain must be exact again.
LEMMA UndoShrinks ==
    ASSUME TypeUndo, UndoInv, NEW D, D \in [Procs -> SUBSET Keys],
           \A q \in Procs : D[q] \subseteq DOMAIN undo[q],
           undo' = [q \in Procs |-> undo'[q]],
           \A q \in Procs : /\ DOMAIN undo'[q] = D[q]
                            /\ \A k \in D[q] : undo'[q][k] = undo[q][k],
           semunp' = {q \in Procs : D[q] # {}},
           semunp' \subseteq sem_undo', sem_undo' \subseteq sem_undo
    PROVE  TypeUndo' /\ UndoInv'
<1>1. ASSUME NEW q \in Procs
      PROVE  /\ DOMAIN undo'[q] = D[q] /\ D[q] \subseteq DOMAIN undo[q]
             /\ \A k \in D[q] : undo'[q][k] = undo[q][k]
  OBVIOUS
<1>2. ASSUME NEW q \in Procs
      PROVE  IsFiniteSet(D[q]) /\ Cardinality(D[q]) <= SEMUME
  <2>1. IsFiniteSet(DOMAIN undo[q]) /\ Cardinality(DOMAIN undo[q]) <= SEMUME
    BY DEF UndoInv, UndoFinite, UndoChainSound
  <2>2. D[q] \in SUBSET DOMAIN undo[q]
    BY <1>1
  <2>3. IsFiniteSet(D[q]) /\ Cardinality(D[q]) <= Cardinality(DOMAIN undo[q])
    BY <2>1, <2>2, FS_Subset
  <2> QED BY <2>1, <2>3, FS_CardinalityType, Bounds
<1>3. IsFiniteSet(sem_undo') /\ Cardinality(sem_undo') <= SEMMNU
  <2>1. IsFiniteSet(sem_undo) /\ Cardinality(sem_undo) <= SEMMNU
    BY DEF UndoInv, UndoFinite, UndoChainSound
  <2>2. IsFiniteSet(sem_undo')
        /\ Cardinality(sem_undo') <= Cardinality(sem_undo)
    BY <2>1, FS_Subset
  <2> QED BY <2>1, <2>2, FS_CardinalityType, Bounds
<1>4. undo' = [q \in Procs |-> undo'[q]]
  OBVIOUS
<1>5. TypeUndo'
  BY <1>1 DEF TypeUndo
<1>6. ASSUME NEW q \in Procs
      PROVE  \A k \in DOMAIN undo'[q] :
                undo'[q][k] # 0 /\ Adjustable(undo'[q][k])
  BY <1>1 DEF UndoInv, UndoChainSound
<1>7. semunp' = {q \in Procs : DOMAIN undo'[q] # {}}
  BY <1>1
<1> QED BY <1>1, <1>2, <1>3, <1>4, <1>5, <1>6, <1>7
        DEF UndoInv, UndoChainSound, UndoFinite, Adjustable

\* semunrm() leaves exactly the structures that still have entries chained.
LEMMA UndoRm ==
    ASSUME TypeUndo, UndoInv, NEW id, NEW S, semunrm(id, S)
    PROVE  TypeUndo' /\ UndoInv'
<1> DEFINE D == [q \in Procs |-> IF q \in semunp
                                 THEN DOMAIN undo[q] \ ({id} \X S)
                                 ELSE DOMAIN undo[q]]
<1>1. \A q \in Procs : q \notin semunp => DOMAIN undo[q] = {}
  BY DEF UndoInv, UndoChainSound
<1>2. undo = [q \in Procs |-> undo[q]] /\ semunp \subseteq Procs
      /\ semunp \subseteq sem_undo
  BY DEF UndoInv, UndoFinite, UndoChainSound, TypeUndo
<1>3. D \in [Procs -> SUBSET Keys] /\ \A q \in Procs : D[q] \subseteq DOMAIN undo[q]
  BY DEF TypeUndo
<1> DEFINE left == [q \in Procs |->
                      IF q \in semunp
                      THEN [k \in DOMAIN undo[q] \ ({id} \X S) |-> undo[q][k]]
                      ELSE undo[q]]
<1>4. undo' = left /\ semunp' = {q \in semunp : DOMAIN left[q] # {}}
      /\ sem_undo' = sem_undo
  BY DEF semunrm, Restrict
<1>5. ASSUME NEW q \in Procs
      PROVE  DOMAIN left[q] = D[q] /\ \A k \in D[q] : left[q][k] = undo[q][k]
  <2>1. CASE q \in semunp
    BY <2>1
  <2>2. CASE q \notin semunp
    <3>1. DOMAIN undo[q] = {}
      BY <2>2, <1>1
    <3> QED BY <3>1, <2>2
  <2> QED BY <2>1, <2>2
<1>6. /\ undo' = [q \in Procs |-> undo'[q]]
      /\ \A q \in Procs : /\ DOMAIN undo'[q] = D[q]
                          /\ \A k \in D[q] : undo'[q][k] = undo[q][k]
  BY <1>4, <1>5
<1>7. semunp' = {q \in Procs : D[q] # {}}
  BY <1>1, <1>2, <1>4, <1>5
<1> HIDE DEF D, left
<1> QED BY <1>2, <1>3, <1>4, <1>6, <1>7, UndoShrinks

\* semexit() gives the structure of p back.
LEMMA UndoExit ==
    ASSUME TypeUndo, UndoInv, NEW p \in Procs, sem_undo' = sem_undo \ {p},
           undo' = [undo EXCEPT ![p] = <<>>], semunp' = semunp \ {p}
    PROVE  TypeUndo' /\ UndoInv'
<1> DEFINE D == [q \in Procs |-> IF q = p THEN {} ELSE DOMAIN undo[q]]
<1>1. undo = [q \in Procs |-> undo[q]] /\ semunp \subseteq sem_undo
      /\ semunp = {q \in Procs : DOMAIN undo[q] # {}}
  BY DEF UndoInv, UndoFinite, UndoChainSound
<1>2. D \in [Procs -> SUBSET Keys] /\ \A q \in Procs : D[q] \subseteq DOMAIN undo[q]
  BY DEF TypeUndo
<1>4. /\ undo' = [q \in Procs |-> undo'[q]]
      /\ \A q \in Procs : /\ DOMAIN undo'[q] = D[q]
                          /\ \A k \in D[q] : undo'[q][k] = undo[q][k]
  BY <1>1
<1>5. semunp' = {q \in Procs : D[q] # {}} /\ semunp' \subseteq sem_undo'
  BY <1>1
<1> HIDE DEF D
<1> QED BY <1>2, <1>4, <1>5, UndoShrinks

(***************************************************************************)
(* Waking, returning.                                                      *)
(***************************************************************************)
\* The invariant is its parts.
LEMMA Parts ==
    /\ SemInv <=> /\ TypeUndo /\ TypeSem /\ TypeProc /\ TypeFlags /\ UndoInv
                  /\ Control /\ Rolls /\ SleeperCounted
    /\ SemInv' <=> /\ TypeUndo' /\ TypeSem' /\ TypeProc' /\ TypeFlags'
                   /\ UndoInv' /\ Control' /\ Rolls' /\ SleeperCounted'
BY DEF SemInv

\* A wakeup moves sleepers to the run queue, and leaves none of those meant.
LEMMA WokenEffect ==
    ASSUME NEW pcs \in [Procs -> PC], NEW S, NEW cnt
    PROVE  /\ Woken(pcs, S, cnt) \in [Procs -> PC]
           /\ \A q \in Procs : \/ Woken(pcs, S, cnt)[q] = pcs[q]
                               \/ /\ pcs[q] = "SSLEEP"
                                  /\ Woken(pcs, S, cnt)[q] = "SRUN"
           /\ \A q \in Procs : Woken(pcs, S, cnt)[q] = "SSLEEP" =>
                 ~(stop[q].why = cnt /\ stop[q].num \in S)
BY DEF Woken, PC

\* The same for both counters at once.
LEMMA WakeEffect ==
    ASSUME NEW pcs \in [Procs -> PC], NEW N, NEW Z
    PROVE  /\ WakeAll(pcs, N, Z) \in [Procs -> PC]
           /\ \A q \in Procs : \/ WakeAll(pcs, N, Z)[q] = pcs[q]
                               \/ /\ pcs[q] = "SSLEEP"
                                  /\ WakeAll(pcs, N, Z)[q] = "SRUN"
           /\ \A q \in Procs : WakeAll(pcs, N, Z)[q] = "SSLEEP" =>
                 /\ ~(/\ stop[q].why = "semncnt" /\ stop[q].num \in N
                      /\ semncnt[stop[q].num] > 0)
                 /\ ~(/\ stop[q].why = "semzcnt" /\ stop[q].num \in Z
                      /\ semzcnt[stop[q].num] > 0)
<1> DEFINE n == {s \in N : semncnt[s] > 0}
           z == {s \in Z : semzcnt[s] > 0}
           w == Woken(pcs, n, "semncnt")
<1>1. WakeAll(pcs, N, Z) = Woken(w, z, "semzcnt")
  BY DEF WakeAll
<1>2. /\ w \in [Procs -> PC]
      /\ \A q \in Procs : \/ w[q] = pcs[q]
                          \/ pcs[q] = "SSLEEP" /\ w[q] = "SRUN"
      /\ \A q \in Procs : w[q] = "SSLEEP" =>
            ~(stop[q].why = "semncnt" /\ stop[q].num \in n)
  BY WokenEffect
<1> HIDE DEF w
<1>3. /\ Woken(w, z, "semzcnt") \in [Procs -> PC]
      /\ \A q \in Procs : \/ Woken(w, z, "semzcnt")[q] = w[q]
                          \/ w[q] = "SSLEEP" /\ Woken(w, z, "semzcnt")[q] = "SRUN"
      /\ \A q \in Procs : Woken(w, z, "semzcnt")[q] = "SSLEEP" =>
            ~(stop[q].why = "semzcnt" /\ stop[q].num \in z)
  BY <1>2, WokenEffect
<1> QED BY <1>1, <1>2, <1>3

\* Clearing touches only the counters in S.
LEMMA ClearEffect ==
    ASSUME NEW cnt \in [Sems -> Nat], NEW S
    PROVE  /\ Clear(cnt, S) \in [Sems -> Nat]
           /\ \A s \in Sems : s \notin S => Clear(cnt, S)[s] = cnt[s]
BY DEF Clear

\* The counters of the semaphores in N and Z are cleared and their sleepers
\* woken together: nobody is left asleep on a counter that is clear.
LEMMA ClearWakeFrom ==
    ASSUME SemInv, NEW N, NEW Z, NEW pcs \in [Procs -> PC],
           \A q \in Procs : pcs[q] = "SSLEEP" => pc[q] = "SSLEEP",
           semncnt' = Clear(semncnt, N), semzcnt' = Clear(semzcnt, Z),
           pc' = WakeAll(pcs, N, Z), UNCHANGED stop
    PROVE  /\ semncnt' \in [Sems -> Nat] /\ semzcnt' \in [Sems -> Nat]
           /\ pc' \in [Procs -> PC] /\ SleeperCounted'
           /\ \A q \in Procs : pc'[q] = pcs[q] \/ (pcs[q] = "SSLEEP" /\ pc'[q] = "SRUN")
           /\ \A q \in Procs : pc'[q] = "SSLEEP" =>
                 /\ stop[q].why = "semncnt" => stop[q].num \notin N
                 /\ stop[q].why = "semzcnt" => stop[q].num \notin Z
<1>0. TypeSem /\ TypeProc /\ SleeperCounted
  BY Parts
<1>1. /\ pc' \in [Procs -> PC]
      /\ \A q \in Procs : pc'[q] = pcs[q] \/ (pcs[q] = "SSLEEP" /\ pc'[q] = "SRUN")
      /\ \A q \in Procs : pc'[q] = "SSLEEP" =>
                 /\ ~(/\ stop[q].why = "semncnt" /\ stop[q].num \in N
                      /\ semncnt[stop[q].num] > 0)
                 /\ ~(/\ stop[q].why = "semzcnt" /\ stop[q].num \in Z
                      /\ semzcnt[stop[q].num] > 0)
  <2>1. pcs \in [Procs -> PC]
    OBVIOUS
  <2> DEFINE w == WakeAll(pcs, N, Z)
  <2>2. /\ w \in [Procs -> PC]
        /\ \A q \in Procs : w[q] = pcs[q] \/ (pcs[q] = "SSLEEP" /\ w[q] = "SRUN")
        /\ \A q \in Procs : w[q] = "SSLEEP" =>
                 /\ ~(/\ stop[q].why = "semncnt" /\ stop[q].num \in N
                      /\ semncnt[stop[q].num] > 0)
                 /\ ~(/\ stop[q].why = "semzcnt" /\ stop[q].num \in Z
                      /\ semzcnt[stop[q].num] > 0)
    BY <2>1, WakeEffect
  <2>3. pc' = w
    OBVIOUS
  <2> HIDE DEF w
  <2> QED BY <2>2, <2>3
<1>2. /\ semncnt' \in [Sems -> Nat] /\ semzcnt' \in [Sems -> Nat]
      /\ \A s \in Sems : /\ s \notin N => semncnt'[s] = semncnt[s]
                         /\ s \notin Z => semzcnt'[s] = semzcnt[s]
  BY <1>0, ClearEffect DEF TypeSem
<1>3. \A q \in Procs : pc'[q] = "SSLEEP" =>
         /\ stop[q].why = "semncnt" => stop[q].num \notin N
         /\ stop[q].why = "semzcnt" => stop[q].num \notin Z
  BY <1>0, <1>1 DEF SleeperCounted
<1>4. \A q \in Procs : stop[q].num \in Sems
  BY <1>0 DEF TypeProc
<1>5. SleeperCounted'
  BY <1>0, <1>1, <1>2, <1>3, <1>4 DEF SleeperCounted
<1> QED BY <1>1, <1>2, <1>3, <1>5

\* The same for those who sleep now.
LEMMA ClearWake ==
    ASSUME SemInv, NEW N, NEW Z, semncnt' = Clear(semncnt, N),
           semzcnt' = Clear(semzcnt, Z), pc' = WakeAll(pc, N, Z),
           UNCHANGED stop
    PROVE  /\ semncnt' \in [Sems -> Nat] /\ semzcnt' \in [Sems -> Nat]
           /\ pc' \in [Procs -> PC] /\ SleeperCounted'
           /\ \A q \in Procs : pc'[q] = pc[q] \/ (pc[q] = "SSLEEP" /\ pc'[q] = "SRUN")
           /\ \A q \in Procs : pc'[q] = "SSLEEP" =>
                 /\ stop[q].why = "semncnt" => stop[q].num \notin N
                 /\ stop[q].why = "semzcnt" => stop[q].num \notin Z
<1>1. pc \in [Procs -> PC]
  BY Parts DEF TypeProc
<1> QED BY <1>1, ClearWakeFrom

\* What semctl() leaves in semtmp can be read as operations.
LEMMA ScribbleType ==
    ASSUME Scribble
    PROVE  semtmp' \in [1 .. SEMOPM -> Ops]
<1>1. PICK junk \in [Held -> Ops] :
        semtmp' = [i \in 1 .. SEMOPM |-> IF i \in Held THEN junk[i] ELSE ZeroOp]
  BY DEF Scribble
<1> QED BY <1>1, Bounds

\* The return to user mode keeps the types.
LEMMA ReturnEffect ==
    ASSUME SemInv, NEW p \in Procs, Return(p), pc' \in [Procs -> PC]
    PROVE  TypeProc' /\ slept' \in [Procs -> BOOLEAN] /\ sig' \in [Procs -> BOOLEAN]
<1>0. TypeProc /\ TypeFlags
  BY Parts
<1>1. semtmp' \in [1 .. SEMOPM -> Ops]
  BY <1>0, Bounds DEF TypeProc, Return, Discard
<1>2. cpu' \in Procs \cup {NULL}
  BY DEF Return
<1>3. call' \in [Procs -> [id : Ids, ops : Lists \cup {<<>>}]]
  BY <1>0, Bounds DEF TypeProc, Return
<1>4. at' \in [Procs -> 1 .. (SEMOPM + 1)]
  BY <1>0, Bounds DEF TypeProc, Return
<1>5. stop' \in [Procs -> [why : Why, num : Sems]]
  BY <1>0, Bounds DEF TypeProc, Return
<1>6. slept' \in [Procs -> BOOLEAN] /\ sig' \in [Procs -> BOOLEAN]
  BY <1>0 DEF TypeFlags, Return
<1> QED BY <1>1, <1>2, <1>3, <1>4, <1>5, <1>6 DEF TypeProc

\* What p's call asks for is a list that fits semtmp.
LEMMA CallFacts ==
    ASSUME TypeProc, NEW p \in Procs
    PROVE  /\ call[p].id \in Ids /\ call[p].ops \in Lists \cup {<<>>}
           /\ Len(call[p].ops) \in 0 .. SEMOPM
           /\ DOMAIN call[p].ops = 1 .. Len(call[p].ops)
           /\ \A i \in 1 .. Len(call[p].ops) : call[p].ops[i] \in Ops
           /\ at[p] \in 1 .. (SEMOPM + 1)
           /\ \A i \in 1 .. SEMOPM :
                 /\ semtmp[i] \in Ops /\ semtmp[i].num \in Sems
                 /\ semtmp[i].op \in Int /\ semtmp[i].undo \in BOOLEAN
                 /\ Key(p, semtmp[i]) \in Keys
<1>1. call[p].id \in Ids /\ call[p].ops \in Lists \cup {<<>>}
      /\ at[p] \in 1 .. (SEMOPM + 1) /\ \A i \in 1 .. SEMOPM : semtmp[i] \in Ops
  BY DEF TypeProc
<1>2. ASSUME NEW i \in 1 .. SEMOPM
      PROVE  /\ semtmp[i] \in Ops /\ semtmp[i].num \in Sems
             /\ semtmp[i].op \in Int /\ semtmp[i].undo \in BOOLEAN
             /\ Key(p, semtmp[i]) \in Keys
  <2>1. /\ semtmp[i] \in Ops /\ semtmp[i].num \in Sems
        /\ semtmp[i].op \in Int /\ semtmp[i].undo \in BOOLEAN
    BY <1>1, OpFacts
  <2> QED BY <1>1, <2>1 DEF Key, Keys
<1> QED BY <1>1, <1>2, ListFacts

\* copyin() leaves operations in semtmp.
LEMMA FetchedType ==
    ASSUME TypeProc, NEW p \in Procs, NEW from \in Nat \ {0}, NEW to \in Nat,
           to <= Len(call[p].ops)
    PROVE  Fetched(p, from, to) \in [1 .. SEMOPM -> Ops]
<1>1. \A i \in 1 .. SEMOPM : i \in from .. to => call[p].ops[i] \in Ops
  BY CallFacts, Bounds
<1>2. \A i \in 1 .. SEMOPM : semtmp[i] \in Ops
  BY DEF TypeProc
<1> QED BY <1>1, <1>2 DEF Fetched

(***************************************************************************)
(* Each action keeps the invariant.                                        *)
(***************************************************************************)
\* Semop() keeps the invariant.
LEMMA SemopKeeps ==
    ASSUME SemInv, NEW p \in Procs, NEW ops \in Lists, Semop(p, ops)
    PROVE  SemInv'
<1>0. /\ TypeUndo /\ TypeSem /\ TypeProc /\ TypeFlags /\ UndoInv
      /\ Control /\ Rolls /\ SleeperCounted
  BY Parts
<1>1. TypeUndo' /\ UndoInv'
  BY <1>0, UndoStays DEF Semop
<1>2. TypeSem'
  BY <1>0 DEF Semop, TypeSem, setVars, semVars
<1>3. TypeProc'
  BY <1>0, Bounds DEF Semop, TypeProc, TypeSem, PC
<1>4. TypeFlags'
  BY <1>0 DEF Semop, TypeFlags
<1>5. Control'
  BY <1>0, Bounds, ListFacts DEF Semop, Control, TypeProc, Busy, PC
<1>6. Rolls'
  BY <1>0, Bounds DEF Semop, Rolls, Control, TypeProc, Busy, semVars
<1>7. SleeperCounted'
  BY <1>0 DEF Semop, SleeperCounted, TypeProc, semVars
<1> QED BY <1>1, <1>2, <1>3, <1>4, <1>5, <1>6, <1>7, Parts

\* Copyin() keeps the invariant.
LEMMA CopyinKeeps ==
    ASSUME SemInv, NEW p \in Procs, Copyin(p)
    PROVE  SemInv'
<1>0. /\ TypeUndo /\ TypeSem /\ TypeProc /\ TypeFlags /\ UndoInv
      /\ Control /\ Rolls /\ SleeperCounted
  BY Parts
<1>1. TypeUndo' /\ UndoInv'
  BY <1>0, UndoStays DEF Copyin
<1>2. TypeSem'
  BY <1>0 DEF Copyin, TypeSem, setVars, semVars
<1>3. TypeProc'
  <2>1. semtmp' \in [1 .. SEMOPM -> Ops]
    BY <1>0, CallFacts, FetchedType, Bounds DEF Copyin
  <2> QED BY <1>0, <2>1, CallFacts, Bounds DEF Copyin, TypeProc, PC
<1>4. TypeFlags'
  BY <1>0 DEF Copyin, TypeFlags
<1>5. Control'
  <2>1. at[p] = 1 /\ Len(call[p].ops) \in Nat
    <3>1. Len(call[p].ops) \in 0 .. SEMOPM
      BY <1>0, CallFacts
    <3>2. at[p] = 1
      BY DEF Copyin, Control, SemInv
    <3> QED BY <3>1, <3>2, Bounds
  <2>2. /\ pc[p] = "copyin" /\ UNCHANGED <<at, call, stop, cpu>>
        /\ pc'[p] = "loop" /\ \A q \in Procs : q # p => pc'[q] = pc[q]
    BY <1>0 DEF Copyin, TypeProc
  <2> QED BY <1>0, <2>1, <2>2 DEF Control, Busy
<1>6. Rolls'
  <2>1. ASSUME NEW q \in Procs, pc'[q] \in {"loop", "undo"}
        PROVE  q = p /\ at'[q] - 1 = 0
    BY <2>1, <1>0, Bounds DEF Copyin, Control, TypeProc, Busy
  <2>2. semval' \in Legal
    BY <1>2 DEF TypeSem
  <2>3. Trace(Legal', semtmp', 0, semval')
    BY <2>2, TraceStart DEF Legal
  <2> QED BY <2>1, <2>3 DEF Rolls
<1>7. SleeperCounted'
  BY <1>0 DEF Copyin, SleeperCounted, TypeProc, semVars
<1> QED BY <1>1, <1>2, <1>3, <1>4, <1>5, <1>6, <1>7, Parts

\* CopyinFault() keeps the invariant.
LEMMA CopyinFaultKeeps ==
    ASSUME SemInv, NEW p \in Procs, NEW k \in 0 .. (SEMOPM - 1), CopyinFault(p, k)
    PROVE  SemInv'
<1>0. /\ TypeUndo /\ TypeSem /\ TypeProc /\ TypeFlags /\ UndoInv
      /\ Control /\ Rolls /\ SleeperCounted
  BY Parts
<1>1. TypeUndo' /\ UndoInv'
  BY <1>0, UndoStays DEF CopyinFault
<1>2. TypeSem'
  BY <1>0 DEF CopyinFault, TypeSem, setVars, semVars
<1>3. TypeProc'
  <2>1. semtmp' \in [1 .. SEMOPM -> Ops]
    BY <1>0, CallFacts, FetchedType, Bounds DEF CopyinFault
  <2> QED BY <1>0, <2>1, CallFacts, Bounds DEF CopyinFault, TypeProc, PC
<1>4. TypeFlags'
  BY <1>0 DEF CopyinFault, TypeFlags
<1>5. Control'
  BY <1>0, Bounds, CallFacts DEF CopyinFault, Control, TypeProc, Busy, PC
<1>6. Rolls'
  BY <1>0, Bounds DEF CopyinFault, Rolls, Control, TypeProc, Busy, semVars
<1>7. SleeperCounted'
  BY <1>0 DEF CopyinFault, SleeperCounted, TypeProc, semVars
<1> QED BY <1>1, <1>2, <1>3, <1>4, <1>5, <1>6, <1>7, Parts

\* CopyinResume() keeps the invariant.
LEMMA CopyinResumeKeeps ==
    ASSUME SemInv, NEW p \in Procs, CopyinResume(p)
    PROVE  SemInv'
<1>0. /\ TypeUndo /\ TypeSem /\ TypeProc /\ TypeFlags /\ UndoInv
      /\ Control /\ Rolls /\ SleeperCounted
  BY Parts
<1>1. TypeUndo' /\ UndoInv'
  BY <1>0, UndoStays DEF CopyinResume
<1>2. TypeSem'
  BY <1>0 DEF CopyinResume, TypeSem, setVars, semVars
<1>3. TypeProc'
  <2>1. semtmp' \in [1 .. SEMOPM -> Ops]
    BY <1>0, CallFacts, FetchedType, Bounds DEF CopyinResume
  <2> QED BY <1>0, <2>1, CallFacts, Bounds DEF CopyinResume, TypeProc, PC
<1>4. TypeFlags'
  BY <1>0 DEF CopyinResume, TypeFlags
<1>5. Control'
  BY <1>0, Bounds, CallFacts DEF CopyinResume, Control, TypeProc, Busy, PC
<1>6. Rolls'
  <2>1. ASSUME NEW q \in Procs, pc'[q] \in {"loop", "undo"}
        PROVE  q = p /\ at'[q] - 1 = 0
    BY <2>1, <1>0, Bounds DEF CopyinResume, Control, TypeProc, Busy
  <2>2. semval' \in Legal
    BY <1>2 DEF TypeSem
  <2>3. Trace(Legal', semtmp', 0, semval')
    BY <2>2, TraceStart DEF Legal
  <2> QED BY <2>1, <2>3 DEF Rolls
<1>7. SleeperCounted'
  BY <1>0 DEF CopyinResume, SleeperCounted, TypeProc, semVars
<1> QED BY <1>1, <1>2, <1>3, <1>4, <1>5, <1>6, <1>7, Parts

\* SemIsZero() keeps the invariant.
LEMMA SemIsZeroKeeps ==
    ASSUME SemInv, NEW p \in Procs, SemIsZero(p)
    PROVE  SemInv'
<1>0. /\ TypeUndo /\ TypeSem /\ TypeProc /\ TypeFlags /\ UndoInv
      /\ Control /\ Rolls /\ SleeperCounted
  BY Parts
<1>9. /\ at[p] \in Nat /\ at[p] >= 1 /\ at[p] <= Len(call[p].ops)
      /\ Len(call[p].ops) <= SEMOPM /\ at[p] \in 1 .. SEMOPM
      /\ Op(p) = semtmp[at[p]] /\ Op(p).num \in Sems /\ Op(p).op \in Int
  BY <1>0, CallFacts, Bounds DEF SemIsZero, InLoop, Op
<1>1. TypeUndo' /\ UndoInv'
  BY <1>0, UndoStays DEF SemIsZero
<1>2. TypeSem'
  BY <1>0 DEF SemIsZero, TypeSem, setVars, semVars
<1>3. TypeProc'
  BY <1>0, <1>9, Bounds DEF SemIsZero, TypeProc, PC
<1>4. TypeFlags'
  BY <1>0 DEF SemIsZero, TypeFlags
<1>5. Control'
  BY <1>0, <1>9, Bounds DEF SemIsZero, InLoop, Control, TypeProc, Busy
<1>6. Rolls'
  <2> DEFINE n == at[p] - 1
             o == semtmp[n + 1]
  <2>1. n \in Nat /\ n + 1 = at[p] /\ o = Op(p) /\ Trace(Legal, semtmp, n, semval)
    BY <1>0, <1>9 DEF Rolls, SemIsZero, InLoop
  <2>2. [semval EXCEPT ![o.num] = @ + o.op] = semval
    <3>1. o.op = 0 /\ semval \in [Sems -> Int] /\ o.num \in Sems
      BY <2>1, <1>0, <1>9 DEF SemIsZero, TypeSem, Legal
    <3> HIDE DEF o
    <3> QED BY <3>1
  <2>3. semval \in Legal
    BY <1>0 DEF TypeSem
  <2>4. Trace(Legal, semtmp, n + 1, semval)
    BY <2>1, <2>2, <2>3, TraceStep
  <2>5. Trace(Legal', semtmp', at'[p] - 1, semval')
    BY <1>0, <2>1, <2>4 DEF SemIsZero, semVars, TypeProc, Legal
  <2>6. ASSUME NEW q \in Procs, pc'[q] \in {"loop", "undo"} PROVE q = p
    BY <1>0, <2>6 DEF SemIsZero, InLoop, Control, Busy
  <2> QED BY <2>5, <2>6 DEF Rolls
<1>7. SleeperCounted'
  BY <1>0 DEF SemIsZero, SleeperCounted, TypeProc, semVars
<1> QED BY <1>1, <1>2, <1>3, <1>4, <1>5, <1>6, <1>7, Parts

\* SemStop() keeps the invariant.
LEMMA SemStopKeeps ==
    ASSUME SemInv, NEW p \in Procs, SemStop(p)
    PROVE  SemInv'
<1>0. /\ TypeUndo /\ TypeSem /\ TypeProc /\ TypeFlags /\ UndoInv
      /\ Control /\ Rolls /\ SleeperCounted
  BY Parts
<1>9. /\ at[p] \in Nat /\ at[p] >= 1 /\ at[p] <= Len(call[p].ops)
      /\ Len(call[p].ops) <= SEMOPM /\ at[p] \in 1 .. SEMOPM
      /\ Op(p) = semtmp[at[p]] /\ Op(p).num \in Sems /\ Op(p).op \in Int
  BY <1>0, CallFacts, Bounds DEF SemStop, InLoop, Op
<1>1. TypeUndo' /\ UndoInv'
  BY <1>0, UndoStays DEF SemStop
<1>2. TypeSem'
  BY <1>0 DEF SemStop, TypeSem, setVars, semVars
<1>3. TypeProc'
  <2>1. StopReason(p, Op(p)) \in Why
    BY DEF StopReason, Why
  <2> QED BY <1>0, <1>9, <2>1, Bounds DEF SemStop, TypeProc, PC
<1>4. TypeFlags'
  BY <1>0 DEF SemStop, TypeFlags
<1>5. Control'
  BY <1>0, <1>9, Bounds DEF SemStop, InLoop, Control, TypeProc, Busy
<1>6. Rolls'
  BY <1>0 DEF SemStop, InLoop, Rolls, TypeProc, Legal, semVars
<1>7. SleeperCounted'
  BY <1>0 DEF SemStop, SleeperCounted, TypeProc, semVars
<1> QED BY <1>1, <1>2, <1>3, <1>4, <1>5, <1>6, <1>7, Parts

\* SemFail() keeps the invariant.
LEMMA SemFailKeeps ==
    ASSUME SemInv, NEW p \in Procs, SemFail(p)
    PROVE  SemInv'
<1>0. /\ TypeUndo /\ TypeSem /\ TypeProc /\ TypeFlags /\ UndoInv
      /\ Control /\ Rolls /\ SleeperCounted
  BY Parts
<1>1. TypeUndo' /\ UndoInv'
  BY <1>0, UndoStays DEF SemFail
<1>2. TypeSem'
  BY <1>0 DEF SemFail, TypeSem, setVars, semVars
<1>8. pc' \in [Procs -> PC]
  BY <1>0 DEF SemFail, TypeProc, PC
<1>3. TypeProc'
  BY <1>8, ReturnEffect DEF SemFail
<1>4. TypeFlags'
  BY <1>0, <1>8, ReturnEffect DEF SemFail, TypeFlags
<1>5. Control'
  BY <1>0, Bounds, ListFacts DEF SemFail, Control, TypeProc, Busy, PC, Return
<1>6. Rolls'
  BY <1>0, Bounds DEF SemFail, Rolls, Control, TypeProc, Busy, semVars, Return
<1>7. SleeperCounted'
  BY <1>0 DEF SemFail, SleeperCounted, TypeProc, semVars, Return
<1> QED BY <1>1, <1>2, <1>3, <1>4, <1>5, <1>6, <1>7, Parts

\* SemSleep() keeps the invariant.
LEMMA SemSleepKeeps ==
    ASSUME SemInv, NEW p \in Procs, SemSleep(p)
    PROVE  SemInv'
<1>0. /\ TypeUndo /\ TypeSem /\ TypeProc /\ TypeFlags /\ UndoInv
      /\ Control /\ Rolls /\ SleeperCounted
  BY Parts
<1>1. TypeUndo' /\ UndoInv'
  BY <1>0, UndoStays DEF SemSleep
<1>2. TypeSem'
  BY <1>0 DEF SemSleep, TypeSem, setVars, semVars
<1>3. TypeProc'
  <2>1. semtmp' \in [1 .. SEMOPM -> Ops]
    BY <1>0, Bounds DEF SemSleep, Discard, TypeProc
  <2> QED BY <1>0, <2>1 DEF SemSleep, TypeProc, PC
<1>4. TypeFlags'
  BY <1>0 DEF SemSleep, TypeFlags
<1>5. Control'
  BY <1>0, Bounds, ListFacts, ZenonT(60) DEF SemSleep, Control, TypeProc, Busy, PC
<1>6. Rolls'
  BY <1>0, Bounds DEF SemSleep, Rolls, Control, TypeProc, Busy, semVars
<1>7. SleeperCounted'
  <2> SUFFICES ASSUME NEW q \in Procs, pc'[q] = "SSLEEP"
               PROVE  /\ stop[q].why = "semncnt" => semncnt'[stop[q].num] > 0
                      /\ stop[q].why = "semzcnt" => semzcnt'[stop[q].num] > 0
    BY DEF SleeperCounted, SemSleep
  <2>1. stop[p].num \in Sems /\ stop[q].num \in Sems
    BY <1>0 DEF TypeProc
  <2>2. \A s \in Sems : /\ semncnt[s] \in Nat /\ semzcnt[s] \in Nat
                        /\ semncnt'[s] >= semncnt[s] /\ semzcnt'[s] >= semzcnt[s]
    BY <1>0, <2>1 DEF SemSleep, TypeSem
  <2>3. CASE q # p
    <3>1. pc[q] = "SSLEEP"
      BY <2>3, <1>0 DEF SemSleep, TypeProc
    <3>2. \A s \in Sems : semncnt'[s] \in Nat /\ semzcnt'[s] \in Nat
      BY <1>2 DEF TypeSem
    <3> QED BY <3>1, <3>2, <2>1, <2>2, <1>0 DEF SleeperCounted
  <2>4. CASE q = p
    <3>1. semncnt[stop[p].num] \in Nat /\ semzcnt[stop[p].num] \in Nat
      BY <2>1, <1>0 DEF TypeSem
    <3>2. CASE stop[p].why = "semncnt"
      BY <3>1, <3>2, <2>1, <2>4, <1>0 DEF SemSleep, TypeSem
    <3>3. CASE stop[p].why = "semzcnt"
      BY <3>1, <3>3, <2>1, <2>4, <1>0 DEF SemSleep, TypeSem
    <3> QED BY <3>2, <3>3, <2>4
  <2> QED BY <2>3, <2>4
<1> QED BY <1>1, <1>2, <1>3, <1>4, <1>5, <1>6, <1>7, Parts

\* SemResume() keeps the invariant.
LEMMA SemResumeKeeps ==
    ASSUME SemInv, NEW p \in Procs, SemResume(p)
    PROVE  SemInv'
<1>0. /\ TypeUndo /\ TypeSem /\ TypeProc /\ TypeFlags /\ UndoInv
      /\ Control /\ Rolls /\ SleeperCounted
  BY Parts
<1>1. TypeUndo' /\ UndoInv'
  BY <1>0, UndoStays DEF SemResume
<1>2. TypeSem'
  BY <1>0 DEF SemResume, TypeSem, setVars, semVars
<1>3. TypeProc'
  BY <1>0, Bounds DEF SemResume, TypeProc, PC
<1>4. TypeFlags'
  BY <1>0 DEF SemResume, TypeFlags
<1>5. Control'
  BY <1>0, Bounds, ListFacts DEF SemResume, Control, TypeProc, Busy, PC
<1>6. Rolls'
  BY <1>0, Bounds DEF SemResume, Rolls, Control, TypeProc, Busy, semVars
<1>7. SleeperCounted'
  BY <1>0 DEF SemResume, SleeperCounted, TypeProc, semVars
<1> QED BY <1>1, <1>2, <1>3, <1>4, <1>5, <1>6, <1>7, Parts

\* SemCheck() keeps the invariant.
LEMMA SemCheckKeeps ==
    ASSUME SemInv, NEW p \in Procs, SemCheck(p)
    PROVE  SemInv'
<1>0. /\ TypeUndo /\ TypeSem /\ TypeProc /\ TypeFlags /\ UndoInv
      /\ Control /\ Rolls /\ SleeperCounted
  BY Parts
<1>8. pc' \in [Procs -> PC]
  BY <1>0 DEF SemCheck, TypeProc, PC
<1>1. TypeUndo' /\ UndoInv'
  BY <1>0, UndoStays DEF SemCheck
<1>2. TypeSem'
  BY <1>0 DEF SemCheck, TypeSem, setVars, semVars
<1>3. TypeProc'
  <2>1. CASE semconv(call[p].id)
    <3>1. stop' \in [Procs -> [why : Why, num : Sems]]
      BY <1>0, <2>1, Bounds DEF SemCheck, TypeProc
    <3> QED BY <1>0, <1>8, <2>1, <3>1 DEF SemCheck, TypeProc
  <2>2. CASE ~semconv(call[p].id)
    BY <1>8, <2>2, ReturnEffect DEF SemCheck
  <2> QED BY <2>1, <2>2
<1>4. TypeFlags'
  <2>1. CASE semconv(call[p].id)
    BY <1>0, <2>1 DEF SemCheck, TypeFlags
  <2>2. CASE ~semconv(call[p].id)
    BY <1>0, <1>8, <2>2, ReturnEffect DEF SemCheck, TypeFlags
  <2> QED BY <2>1, <2>2
<1>5. Control'
  <2>1. CASE semconv(call[p].id)
    BY <1>0, <2>1 DEF SemCheck, TypeProc, Control, Busy
  <2>2. CASE ~semconv(call[p].id)
    BY <1>0, <2>2, ZenonT(60) DEF SemCheck, Return, TypeProc, Control, Busy
  <2> QED BY <2>1, <2>2
<1>6. Rolls'
  BY <1>0, Bounds DEF SemCheck, Rolls, Control, TypeProc, Busy, semVars
<1>7. SleeperCounted'
  <2>1. CASE semconv(call[p].id)
    BY <1>0, <2>1 DEF SemCheck, TypeProc, SleeperCounted, semVars
  <2>2. CASE ~semconv(call[p].id)
    BY <1>0, <2>2 DEF SemCheck, Return, TypeProc, SleeperCounted, semVars
  <2> QED BY <2>1, <2>2
<1> QED BY <1>1, <1>2, <1>3, <1>4, <1>5, <1>6, <1>7, Parts

\* SemDone() keeps the invariant.
LEMMA SemDoneKeeps ==
    ASSUME SemInv, NEW p \in Procs, SemDone(p)
    PROVE  SemInv'
<1>0. /\ TypeUndo /\ TypeSem /\ TypeProc /\ TypeFlags /\ UndoInv
      /\ Control /\ Rolls /\ SleeperCounted
  BY Parts
<1>1. TypeUndo' /\ UndoInv'
  BY <1>0, UndoStays DEF SemDone
<1>2. TypeSem'
  BY <1>0 DEF SemDone, TypeSem, setVars, semVars
<1>8. pc' \in [Procs -> PC]
  BY <1>0 DEF SemDone, TypeProc, PC
<1>3. TypeProc'
  BY <1>8, ReturnEffect DEF SemDone
<1>4. TypeFlags'
  BY <1>0, <1>8, ReturnEffect DEF SemDone, TypeFlags
<1>5. Control'
  BY <1>0, Bounds, ListFacts DEF SemDone, Control, TypeProc, Busy, PC, Return
<1>6. Rolls'
  BY <1>0, Bounds DEF SemDone, Rolls, Control, TypeProc, Busy, semVars, Return
<1>7. SleeperCounted'
  BY <1>0 DEF SemDone, SleeperCounted, TypeProc, semVars, Return
<1> QED BY <1>1, <1>2, <1>3, <1>4, <1>5, <1>6, <1>7, Parts

\* Signal() keeps the invariant.
LEMMA SignalKeeps ==
    ASSUME SemInv, NEW p \in Procs, Signal(p)
    PROVE  SemInv'
<1>0. /\ TypeUndo /\ TypeSem /\ TypeProc /\ TypeFlags /\ UndoInv
      /\ Control /\ Rolls /\ SleeperCounted
  BY Parts
<1>1. TypeUndo' /\ UndoInv'
  BY <1>0, UndoStays DEF Signal
<1>2. TypeSem'
  BY <1>0 DEF Signal, TypeSem, setVars, semVars
<1>3. TypeProc'
  BY <1>0, Bounds DEF Signal, TypeProc, PC
<1>4. TypeFlags'
  BY <1>0 DEF Signal, TypeFlags
<1>5. Control'
  BY <1>0, Bounds, ListFacts DEF Signal, Control, TypeProc, Busy, PC
<1>6. Rolls'
  BY <1>0, Bounds DEF Signal, Rolls, Control, TypeProc, Busy, semVars
<1>7. SleeperCounted'
  BY <1>0 DEF Signal, SleeperCounted, TypeProc, semVars
<1> QED BY <1>1, <1>2, <1>3, <1>4, <1>5, <1>6, <1>7, Parts

\* Semget() keeps the invariant.
LEMMA SemgetKeeps ==
    ASSUME SemInv, NEW p \in Procs, Semget(p)
    PROVE  SemInv'
<1>0. /\ TypeUndo /\ TypeSem /\ TypeProc /\ TypeFlags /\ UndoInv
      /\ Control /\ Rolls /\ SleeperCounted
  BY Parts
<1>1. TypeUndo' /\ UndoInv'
  BY <1>0, UndoStays DEF Semget
<1>2. TypeSem'
  BY <1>0 DEF Semget, TypeSem, semVars
<1>3. TypeProc'
  BY <1>0 DEF Semget, TypeProc, procVars
<1>4. TypeFlags'
  BY <1>0 DEF Semget, TypeFlags, procVars
<1>5. Control'
  BY <1>0 DEF Semget, Control, procVars
<1>6. Rolls'
  BY <1>0 DEF Semget, Rolls, Legal, procVars, semVars
<1>7. SleeperCounted'
  BY <1>0 DEF Semget, SleeperCounted, procVars, semVars
<1> QED BY <1>1, <1>2, <1>3, <1>4, <1>5, <1>6, <1>7, Parts

\* ThreadExit() keeps the invariant.
LEMMA ThreadExitKeeps ==
    ASSUME SemInv, NEW p \in Procs, ThreadExit(p)
    PROVE  SemInv'
<1>0. /\ TypeUndo /\ TypeSem /\ TypeProc /\ TypeFlags /\ UndoInv
      /\ Control /\ Rolls /\ SleeperCounted
  BY Parts
<1>1. TypeUndo' /\ UndoInv'
  BY <1>0, UndoStays DEF ThreadExit
<1>2. TypeSem'
  BY <1>0 DEF ThreadExit, TypeSem, setVars, semVars
<1>3. TypeProc'
  BY <1>0 DEF ThreadExit, TypeProc, procVars
<1>4. TypeFlags'
  BY <1>0 DEF ThreadExit, TypeFlags, procVars
<1>5. Control'
  BY <1>0 DEF ThreadExit, Control, procVars
<1>6. Rolls'
  BY <1>0 DEF ThreadExit, Rolls, Legal, procVars, semVars
<1>7. SleeperCounted'
  BY <1>0 DEF ThreadExit, SleeperCounted, procVars, semVars
<1> QED BY <1>1, <1>2, <1>3, <1>4, <1>5, <1>6, <1>7, Parts

\* An operation that is done.
LEMMA SemChangeKeeps ==
    ASSUME SemInv, NEW p \in Procs, SemChange(p)
    PROVE  SemInv'
<1>0. /\ TypeUndo /\ TypeSem /\ TypeProc /\ TypeFlags /\ UndoInv
      /\ Control /\ Rolls /\ SleeperCounted
  BY Parts
<1>9. /\ Len(call[p].ops) \in Nat /\ at[p] \in Nat /\ at[p] >= 1 /\ at[p] <= Len(call[p].ops)
      /\ Len(call[p].ops) <= SEMOPM /\ at[p] \in 1 .. SEMOPM
      /\ Op(p) = semtmp[at[p]] /\ Op(p).num \in Sems /\ Op(p).op \in Int
      /\ Op(p).undo \in BOOLEAN /\ Key(p, Op(p)) \in Keys
  BY <1>0, CallFacts, Bounds DEF SemChange, InLoop, Op
<1> DEFINE op == Op(p)
           n == IF op.op > 0 THEN {op.num} ELSE {}
           z == IF semval[op.num] + op.op = 0 THEN {op.num} ELSE {}
<1>8. /\ pc' \in [Procs -> PC] /\ SleeperCounted'
      /\ semncnt' \in [Sems -> Nat] /\ semzcnt' \in [Sems -> Nat]
      /\ \A q \in Procs : pc'[q] = pc[q] \/ (pc[q] = "SSLEEP" /\ pc'[q] = "SRUN")
  <2>1. /\ semncnt' = Clear(semncnt, n) /\ semzcnt' = Clear(semzcnt, z)
        /\ pc' = WakeAll(pc, n, z) /\ UNCHANGED stop
    BY DEF SemChange
  <2> HIDE DEF n, z
  <2> QED BY <2>1, ClearWake
<1>10. semval' = [semval EXCEPT ![op.num] = @ + op.op] /\ semval' \in Legal
  <2>1. semval[op.num] \in 0 .. SEMVMX
    BY <1>0, <1>9 DEF TypeSem, Legal
  <2>2. semval[op.num] + op.op \in 0 .. SEMVMX
    BY <1>9, <2>1, Bounds DEF SemChange, Fits
  <2> QED BY <1>0, <1>9, <2>2 DEF SemChange, TypeSem, Legal
<1>11. /\ cpu = p /\ pc[p] = "loop" /\ at' = [at EXCEPT ![p] = @ + 1]
       /\ UNCHANGED <<semtmp, cpu, call, stop>>
  BY DEF SemChange, InLoop
<1>1. TypeUndo' /\ UndoInv'
  <2>1. CASE op.undo
    <3>1. semaoe(p, op.op, Key(p, op))
      BY <2>1 DEF SemChange
    <3> QED BY <1>0, <1>9, <3>1, UndoSemaoe
  <2>2. CASE ~op.undo
    BY <1>0, <2>2, UndoStays DEF SemChange
  <2> QED BY <2>1, <2>2
<1>2. TypeSem'
  BY <1>0, <1>8, <1>10 DEF SemChange, TypeSem, setVars
<1>3. TypeProc'
  <2>1. at' \in [Procs -> 1 .. (SEMOPM + 1)]
    BY <1>0, <1>9, <1>11, Bounds DEF TypeProc
  <2> QED BY <1>0, <1>8, <1>11, <2>1 DEF TypeProc
<1>4. TypeFlags'
  BY <1>0 DEF SemChange, TypeFlags
<1>5. Control'
  <2>1. \A q \in Procs : q # p => at'[q] = at[q]
    BY <1>0, <1>11 DEF TypeProc
  <2>2. pc'[p] = "loop" /\ at'[p] = at[p] + 1
    BY <1>0, <1>8, <1>11 DEF TypeProc
  <2>3. \A q \in Procs : pc'[q] \in Busy => pc'[q] = pc[q] /\ q = p
    BY <1>0, <1>8, <1>11 DEF Control, Busy
  <2>4. \A q \in Procs : pc'[q] \notin {"fault", "loop", "undo"} =>
          q # p /\ pc[q] \notin {"fault", "loop", "undo"}
    BY <1>8, <2>2
  <2>5. \A q \in Procs : pc'[q] = "SSLEEP" => pc[q] = "SSLEEP"
    BY <1>8
  <2>6. \A q \in Procs : pc'[q] \in {"loop", "undo"} => pc'[q] \in Busy
    BY DEF Busy
  <2> QED BY <1>0, <1>9, <1>11, <2>1, <2>2, <2>3, <2>4, <2>5, <2>6 DEF Control
<1>6. Rolls'
  <2> DEFINE k == at[p] - 1
             o == semtmp[k + 1]
  <2>1. k \in Nat /\ k + 1 = at[p] /\ o = op /\ Trace(Legal, semtmp, k, semval)
    BY <1>0, <1>9 DEF Rolls, SemChange, InLoop
  <2>2. semval' = [semval EXCEPT ![o.num] = @ + o.op] /\ semval' \in Legal
    BY <1>10, <2>1
  <2>3. Trace(Legal, semtmp, k + 1, semval')
    BY <2>1, <2>2, TraceStep
  <2>4. Trace(Legal', semtmp', at'[p] - 1, semval')
    BY <1>0, <2>1, <2>3 DEF SemChange, TypeProc, Legal
  <2>5. ASSUME NEW q \in Procs, pc'[q] \in {"loop", "undo"} PROVE q = p
    BY <1>0, <1>8, <2>5 DEF SemChange, InLoop, Control, Busy
  <2> QED BY <2>4, <2>5 DEF Rolls
<1>7. SleeperCounted'
  BY <1>8
<1> QED BY <1>1, <1>2, <1>3, <1>4, <1>5, <1>6, <1>7, Parts

\* An operation that is taken back.
LEMMA SemundoKeeps ==
    ASSUME SemInv, NEW p \in Procs, semundo(p)
    PROVE  SemInv'
<1>0. /\ TypeUndo /\ TypeSem /\ TypeProc /\ TypeFlags /\ UndoInv
      /\ Control /\ Rolls /\ SleeperCounted
  BY Parts
<1> DEFINE k == at[p] - 1
           op == semtmp[k]
<1>9. /\ k \in Nat /\ k > 0 /\ k \in 1 .. SEMOPM
      /\ op.num \in Sems /\ op.op \in Int
      /\ op.undo \in BOOLEAN /\ Key(p, op) \in Keys
      /\ Trace(Legal, semtmp, k, semval)
  BY <1>0, CallFacts, Bounds DEF semundo, Rolls
<1>10. /\ semval' = [semval EXCEPT ![op.num] = @ - op.op] /\ semval' \in Legal
       /\ Trace(Legal, semtmp, k - 1, semval')
  <2>1. Legal \subseteq [Sems -> Int]
    BY Bounds DEF Legal
  <2>2. semval' = [semval EXCEPT ![op.num] = @ - op.op]
    BY DEF semundo
  <2>3. /\ [semval EXCEPT ![op.num] = @ - op.op] \in Legal
        /\ Trace(Legal, semtmp, k - 1, [semval EXCEPT ![op.num] = @ - op.op])
    BY <1>9, <2>1, TraceBack
  <2> QED BY <2>2, <2>3
<1>1. TypeUndo' /\ UndoInv'
  <2>1. CASE op.undo
    <3>1. semaoe(p, -op.op, Key(p, op)) /\ -op.op \in Int
      BY <1>9, <2>1 DEF semundo
    <3> QED BY <1>0, <1>9, <3>1, UndoSemaoe
  <2>2. CASE ~op.undo
    BY <1>0, <2>2, UndoStays DEF semundo
  <2> QED BY <2>1, <2>2
<1>2. TypeSem'
  BY <1>0, <1>10 DEF semundo, TypeSem, setVars
<1>3. TypeProc'
  BY <1>0, <1>9, Bounds DEF semundo, TypeProc
<1>4. TypeFlags'
  BY <1>0 DEF semundo, TypeFlags
<1>5. Control'
  BY <1>0, <1>9, CallFacts DEF semundo, TypeProc, Control, Busy
<1>6. Rolls'
  <2>1. Trace(Legal', semtmp', at'[p] - 1, semval')
    BY <1>0, <1>9, <1>10 DEF semundo, TypeProc, Legal
  <2>2. ASSUME NEW q \in Procs, pc'[q] \in {"loop", "undo"} PROVE q = p
    BY <1>0, <2>2 DEF semundo, Control, Busy
  <2> QED BY <2>1, <2>2 DEF Rolls
<1>7. SleeperCounted'
  BY <1>0 DEF semundo, SleeperCounted
<1> QED BY <1>1, <1>2, <1>3, <1>4, <1>5, <1>6, <1>7, Parts

\* An interrupted sleeper takes itself off the count: the count stays positive
\* or the others are woken.
LEMMA SemIntrEffect ==
    ASSUME SemInv, NEW p \in Procs, SemIntr(p)
    PROVE  /\ pc' \in [Procs -> PC] /\ pc'[p] = "user"
           /\ semncnt' \in [Sems -> Nat] /\ semzcnt' \in [Sems -> Nat]
           /\ \A q \in Procs : q # p =>
                 pc'[q] = pc[q] \/ (pc[q] = "SSLEEP" /\ pc'[q] = "SRUN")
           /\ \A q \in Procs : pc'[q] = "SSLEEP" =>
                 /\ stop[q].why = "semncnt" => semncnt'[stop[q].num] > 0
                 /\ stop[q].why = "semzcnt" => semzcnt'[stop[q].num] > 0
<1>0. TypeSem /\ TypeProc /\ SleeperCounted
  BY Parts
<1> DEFINE s == stop[p].num
           home == [pc EXCEPT ![p] = "user"]
<1>9. s \in Sems /\ home \in [Procs -> PC] /\ semncnt[s] \in Nat
      /\ semzcnt[s] \in Nat /\ home[p] = "user"
      /\ \A q \in Procs : q # p => home[q] = pc[q]
  BY <1>0 DEF TypeProc, TypeSem, PC
<1>8. QED
  <2> DEFINE last(cnt) == IF cnt[s] <= 1 THEN {s} ELSE {}
  <2>1. CASE stop[p].why = "semncnt"
    <3>1. /\ semncnt' = [semncnt EXCEPT ![s] = IF @ <= 1 THEN 0 ELSE @ - 1]
          /\ pc' = Woken(home, last(semncnt), "semncnt") /\ UNCHANGED semzcnt
      BY <2>1 DEF SemIntr
    <3> DEFINE l == last(semncnt)
    <3>2. /\ pc' \in [Procs -> PC]
          /\ \A q \in Procs : \/ pc'[q] = home[q]
                              \/ home[q] = "SSLEEP" /\ pc'[q] = "SRUN"
          /\ \A q \in Procs : pc'[q] = "SSLEEP" =>
                ~(stop[q].why = "semncnt" /\ stop[q].num \in l)
      <4> HIDE DEF home, last
      <4> QED BY <1>9, <3>1, WokenEffect
    <3>3. semncnt' \in [Sems -> Nat] /\ semzcnt' \in [Sems -> Nat]
      BY <1>0, <1>9, <3>1 DEF TypeSem
    <3>4. ASSUME NEW q \in Procs, pc'[q] = "SSLEEP", stop[q].why = "semncnt"
          PROVE  semncnt'[stop[q].num] > 0
      <4>1. q # p /\ pc[q] = "SSLEEP" /\ stop[q].num \in Sems
        BY <1>0, <1>9, <3>2, <3>4 DEF TypeProc
      <4>2. semncnt[stop[q].num] > 0 /\ semncnt[stop[q].num] \in Nat
        BY <1>0, <3>4, <4>1 DEF SleeperCounted, TypeSem
      <4>3. CASE stop[q].num # s
        BY <4>1, <4>2, <4>3, <3>1, <1>0 DEF TypeSem
      <4>4. CASE stop[q].num = s
        <5>1. ~(semncnt[s] <= 1)
          BY <4>4, <3>2, <3>4
        <5> QED BY <4>2, <4>4, <5>1, <3>1, <1>0, <1>9 DEF TypeSem
      <4> QED BY <4>3, <4>4
    <3>5. ASSUME NEW q \in Procs, pc'[q] = "SSLEEP"
          PROVE  pc[q] = "SSLEEP"
      BY <1>9, <3>2, <3>5
    <3> QED BY <1>0, <1>9, <3>1, <3>2, <3>3, <3>4, <3>5 DEF SleeperCounted
  <2>2. CASE stop[p].why = "semzcnt"
    <3>1. /\ semzcnt' = [semzcnt EXCEPT ![s] = IF @ <= 1 THEN 0 ELSE @ - 1]
          /\ pc' = Woken(home, last(semzcnt), "semzcnt") /\ UNCHANGED semncnt
      BY <2>2 DEF SemIntr
    <3> DEFINE l == last(semzcnt)
    <3>2. /\ pc' \in [Procs -> PC]
          /\ \A q \in Procs : \/ pc'[q] = home[q]
                              \/ home[q] = "SSLEEP" /\ pc'[q] = "SRUN"
          /\ \A q \in Procs : pc'[q] = "SSLEEP" =>
                ~(stop[q].why = "semzcnt" /\ stop[q].num \in l)
      <4> HIDE DEF home, last
      <4> QED BY <1>9, <3>1, WokenEffect
    <3>3. semncnt' \in [Sems -> Nat] /\ semzcnt' \in [Sems -> Nat]
      BY <1>0, <1>9, <3>1 DEF TypeSem
    <3>4. ASSUME NEW q \in Procs, pc'[q] = "SSLEEP", stop[q].why = "semzcnt"
          PROVE  semzcnt'[stop[q].num] > 0
      <4>1. q # p /\ pc[q] = "SSLEEP" /\ stop[q].num \in Sems
        BY <1>0, <1>9, <3>2, <3>4 DEF TypeProc
      <4>2. semzcnt[stop[q].num] > 0 /\ semzcnt[stop[q].num] \in Nat
        BY <1>0, <3>4, <4>1 DEF SleeperCounted, TypeSem
      <4>3. CASE stop[q].num # s
        BY <4>1, <4>2, <4>3, <3>1, <1>0 DEF TypeSem
      <4>4. CASE stop[q].num = s
        <5>1. ~(semzcnt[s] <= 1)
          BY <4>4, <3>2, <3>4
        <5> QED BY <4>2, <4>4, <5>1, <3>1, <1>0, <1>9 DEF TypeSem
      <4> QED BY <4>3, <4>4
    <3>5. ASSUME NEW q \in Procs, pc'[q] = "SSLEEP"
          PROVE  pc[q] = "SSLEEP"
      BY <1>9, <3>2, <3>5
    <3> QED BY <1>0, <1>9, <3>1, <3>2, <3>3, <3>4, <3>5 DEF SleeperCounted
  <2> QED BY <2>1, <2>2 DEF SemIntr

\* An interrupted sleeper leaves: the count stays positive or all are woken.
LEMMA SemIntrKeeps ==
    ASSUME SemInv, NEW p \in Procs, SemIntr(p)
    PROVE  SemInv'
<1>0. /\ TypeUndo /\ TypeSem /\ TypeProc /\ TypeFlags /\ UndoInv
      /\ Control /\ Rolls /\ SleeperCounted
  BY Parts
<1>8. /\ pc' \in [Procs -> PC] /\ pc'[p] = "user"
      /\ semncnt' \in [Sems -> Nat] /\ semzcnt' \in [Sems -> Nat]
      /\ \A q \in Procs : q # p =>
            pc'[q] = pc[q] \/ (pc[q] = "SSLEEP" /\ pc'[q] = "SRUN")
      /\ \A q \in Procs : pc'[q] = "SSLEEP" =>
            /\ stop[q].why = "semncnt" => semncnt'[stop[q].num] > 0
            /\ stop[q].why = "semzcnt" => semzcnt'[stop[q].num] > 0
  BY SemIntrEffect
<1>1. TypeUndo' /\ UndoInv'
  BY <1>0, UndoStays DEF SemIntr
<1>2. TypeSem'
  BY <1>0, <1>8 DEF SemIntr, TypeSem, setVars
<1>3. TypeProc'
  BY <1>8, ReturnEffect DEF SemIntr
<1>4. TypeFlags'
  BY <1>0, <1>8, ReturnEffect DEF SemIntr, TypeFlags
<1>5. Control'
  BY <1>0, <1>8 DEF SemIntr, Return, TypeProc, Control, Busy
<1>6. Rolls'
  BY <1>0, <1>8 DEF SemIntr, Control, Rolls, Busy
<1>7. SleeperCounted'
  <2>1. \A q \in Procs : q # p => stop'[q] = stop[q]
    BY <1>0 DEF SemIntr, Return, TypeProc
  <2> QED BY <1>8, <2>1 DEF SleeperCounted
<1> QED BY <1>1, <1>2, <1>3, <1>4, <1>5, <1>6, <1>7, Parts

\* SetVal() keeps the invariant.
LEMMA SetValKeeps ==
    ASSUME SemInv, NEW p \in Procs, NEW s \in Sems, NEW v \in Values, SetVal(p, s, v)
    PROVE  SemInv'
<1>0. /\ TypeUndo /\ TypeSem /\ TypeProc /\ TypeFlags /\ UndoInv
      /\ Control /\ Rolls /\ SleeperCounted
  BY Parts
<1> DEFINE new == [t \in Sems |-> v]
<1>8. /\ pc' \in [Procs -> PC] /\ SleeperCounted'
      /\ semncnt' \in [Sems -> Nat] /\ semzcnt' \in [Sems -> Nat]
      /\ \A q \in Procs : pc'[q] = pc[q] \/ (pc[q] = "SSLEEP" /\ pc'[q] = "SRUN")
  <2> DEFINE N == {t \in {s} : new[t] # 0}
             Z == {t \in {s} : new[t] = 0}
  <2>1. /\ semncnt' = Clear(semncnt, N) /\ semzcnt' = Clear(semzcnt, Z)
        /\ pc' = WakeAll(pc, N, Z) /\ UNCHANGED stop
    BY DEF SetVal, Store
  <2> HIDE DEF N, Z
  <2> QED BY <2>1, ClearWake
<1>9. semval' \in Legal
  BY <1>0, SemAssumption, Bounds DEF SetVal, Store, TypeSem, Legal
<1>1. TypeUndo' /\ UndoInv'
  <2>1. semunrm(seq, {s})
    BY DEF SetVal, Store
  <2> QED BY <1>0, <2>1, UndoRm
<1>2. TypeSem'
  BY <1>0, <1>8, <1>9 DEF SetVal, TypeSem, setVars
<1>3. TypeProc'
  BY <1>0, <1>8 DEF SetVal, TypeProc
<1>4. TypeFlags'
  BY <1>0 DEF SetVal, TypeFlags
<1>5. Control'
  BY <1>0, <1>8 DEF SetVal, TypeProc, Control, Busy
<1>6. Rolls'
  BY <1>0, <1>8, Bounds DEF SetVal, InUser, TypeProc, Control, Rolls, Busy
<1>7. SleeperCounted'
  BY <1>8
<1> QED BY <1>1, <1>2, <1>3, <1>4, <1>5, <1>6, <1>7, Parts

\* SetAll() keeps the invariant.
LEMMA SetAllKeeps ==
    ASSUME SemInv, NEW p \in Procs, NEW new \in [Sems -> Values], SetAll(p, new)
    PROVE  SemInv'
<1>0. /\ TypeUndo /\ TypeSem /\ TypeProc /\ TypeFlags /\ UndoInv
      /\ Control /\ Rolls /\ SleeperCounted
  BY Parts
<1>8. /\ pc' \in [Procs -> PC] /\ SleeperCounted'
      /\ semncnt' \in [Sems -> Nat] /\ semzcnt' \in [Sems -> Nat]
      /\ \A q \in Procs : pc'[q] = pc[q] \/ (pc[q] = "SSLEEP" /\ pc'[q] = "SRUN")
  <2> DEFINE N == {t \in Sems : new[t] # 0}
             Z == {t \in Sems : new[t] = 0}
  <2>1. /\ semncnt' = Clear(semncnt, N) /\ semzcnt' = Clear(semzcnt, Z)
        /\ pc' = WakeAll(pc, N, Z) /\ UNCHANGED stop
    BY DEF SetAll, Store
  <2> HIDE DEF N, Z
  <2> QED BY <2>1, ClearWake
<1>9. semval' \in Legal
  <2>1. \A s \in Sems : new[s] \in 0 .. SEMVMX
    <3> TAKE s \in Sems
    <3>1. new[s] \in Nat /\ new[s] <= SEMVMX
      BY SemAssumption DEF SetAll
    <3> QED BY <3>1, Bounds
  <2>2. semval' = [s \in Sems |-> IF s \in Sems THEN new[s] ELSE semval[s]]
    BY DEF SetAll, Store
  <2> QED BY <2>1, <2>2 DEF Legal
<1>1. TypeUndo' /\ UndoInv'
  <2>1. semunrm(seq, Sems)
    BY DEF SetAll, Store
  <2> QED BY <1>0, <2>1, UndoRm
<1>2. TypeSem'
  BY <1>0, <1>8, <1>9 DEF SetAll, TypeSem, setVars
<1>3. TypeProc'
  BY <1>0, <1>8, ScribbleType DEF SetAll, TypeProc
<1>4. TypeFlags'
  BY <1>0 DEF SetAll, TypeFlags
<1>5. Control'
  BY <1>0, <1>8 DEF SetAll, TypeProc, Control, Busy
<1>6. Rolls'
  BY <1>0, <1>8, Bounds DEF SetAll, InUser, TypeProc, Control, Rolls, Busy
<1>7. SleeperCounted'
  BY <1>8
<1> QED BY <1>1, <1>2, <1>3, <1>4, <1>5, <1>6, <1>7, Parts

\* SetAllFault() keeps the invariant.
LEMMA SetAllFaultKeeps ==
    ASSUME SemInv, NEW p \in Procs, SetAllFault(p)
    PROVE  SemInv'
<1>0. /\ TypeUndo /\ TypeSem /\ TypeProc /\ TypeFlags /\ UndoInv
      /\ Control /\ Rolls /\ SleeperCounted
  BY Parts
<1>1. TypeUndo' /\ UndoInv'
  BY <1>0, UndoStays DEF SetAllFault
<1>2. TypeSem'
  BY <1>0 DEF SetAllFault, TypeSem, setVars, semVars
<1>3. TypeProc'
  <2>1. semtmp' \in [1 .. SEMOPM -> Ops]
    BY ScribbleType DEF SetAllFault
  <2>2. call' \in [Procs -> [id : Ids, ops : Lists \cup {<<>>}]]
    BY <1>0 DEF SetAllFault, TypeProc, TypeSem
  <2>3. pc' \in [Procs -> PC]
    BY <1>0 DEF SetAllFault, TypeProc, PC
  <2> QED BY <1>0, <2>1, <2>2, <2>3 DEF SetAllFault, TypeProc
<1>4. TypeFlags'
  BY <1>0 DEF SetAllFault, TypeFlags
<1>5. Control'
  BY <1>0 DEF SetAllFault, InUser, TypeProc, Control, Busy
<1>6. Rolls'
  BY <1>0, Bounds DEF SetAllFault, InUser, TypeProc, Control, Rolls, Busy
<1>7. SleeperCounted'
  BY <1>0 DEF SetAllFault, TypeProc, SleeperCounted, semVars
<1> QED BY <1>1, <1>2, <1>3, <1>4, <1>5, <1>6, <1>7, Parts

\* The return from SETALL keeps the types.
LEMMA LeaveEffect ==
    ASSUME SemInv, NEW p \in Procs, LeaveSetAll(p), pc' \in [Procs -> PC]
    PROVE  TypeProc' /\ TypeFlags'
<1>0. TypeProc /\ TypeFlags
  BY Parts
<1>1. semtmp' \in [1 .. SEMOPM -> Ops]
  BY ScribbleType DEF LeaveSetAll
<1>2. call' \in [Procs -> [id : Ids, ops : Lists \cup {<<>>}]]
  BY <1>0, Bounds DEF TypeProc, LeaveSetAll
<1>3. TypeProc'
  BY <1>0, <1>1, <1>2 DEF TypeProc, LeaveSetAll
<1>4. TypeFlags'
  BY <1>0 DEF TypeFlags, LeaveSetAll
<1> QED BY <1>3, <1>4

\* SetAllRange() keeps the invariant.
LEMMA SetAllRangeKeeps ==
    ASSUME SemInv, NEW p \in Procs, SetAllRange(p)
    PROVE  SemInv'
<1>0. /\ TypeUndo /\ TypeSem /\ TypeProc /\ TypeFlags /\ UndoInv
      /\ Control /\ Rolls /\ SleeperCounted
  BY Parts
<1>1. TypeUndo' /\ UndoInv'
  BY <1>0, UndoStays DEF SetAllRange
<1>2. TypeSem'
  BY <1>0 DEF SetAllRange, LeaveSetAll, TypeSem, setVars, semVars
<1>3. TypeProc' /\ TypeFlags'
  <2>1. pc' \in [Procs -> PC]
    BY <1>0 DEF SetAllRange, TypeProc, PC
  <2> QED BY <2>1, LeaveEffect DEF SetAllRange
<1>5. Control'
  BY <1>0 DEF SetAllRange, LeaveSetAll, TypeProc, Control, Busy
<1>6. Rolls'
  BY <1>0, Bounds DEF SetAllRange, LeaveSetAll, TypeProc, Control, Rolls, Busy
<1>7. SleeperCounted'
  BY <1>0 DEF SetAllRange, LeaveSetAll, TypeProc, SleeperCounted, semVars
<1> QED BY <1>1, <1>2, <1>3, <1>5, <1>6, <1>7, Parts

\* Whom a SETALL that slept wakes.
LEMMA SetAllWakes ==
    ASSUME SemInv, NEW p \in Procs, NEW new \in [Sems -> 0 .. SEMVMX],
           SetAllResume(p, new)
    PROVE  /\ pc' \in [Procs -> PC] /\ SleeperCounted'
           /\ semncnt' \in [Sems -> Nat] /\ semzcnt' \in [Sems -> Nat]
           /\ \A q \in Procs : \/ pc'[q] = pc[q]
                               \/ pc[q] = "SSLEEP" /\ pc'[q] = "SRUN"
                               \/ q = p /\ pc'[q] = "user"
           /\ \A q \in Procs : pc'[q] = "SSLEEP" =>
                 /\ pc[q] = "SSLEEP"
                 /\ stop[q].why = "semncnt" => new[stop[q].num] = 0
                 /\ stop[q].why = "semzcnt" => new[stop[q].num] # 0
<1> DEFINE N == {t \in Sems : new[t] # 0}
           Z == {t \in Sems : new[t] = 0}
           pcs == [pc EXCEPT ![p] = "user"]
<1>1. /\ semncnt' = Clear(semncnt, N) /\ semzcnt' = Clear(semzcnt, Z)
      /\ pc' = WakeAll(pcs, N, Z) /\ UNCHANGED stop
  BY DEF SetAllResume, Store, LeaveSetAll
<1>2. /\ pcs \in [Procs -> PC]
      /\ \A q \in Procs : pcs[q] = pc[q] \/ (q = p /\ pcs[q] = "user")
  BY Parts DEF TypeProc, PC
<1>3. \A q \in Procs : stop[q].num \in Sems
  BY Parts DEF TypeProc
<1>4. \A t \in Sems : (t \in N <=> new[t] # 0) /\ (t \in Z <=> new[t] = 0)
  OBVIOUS
<1> HIDE DEF N, Z, pcs
<1>5. /\ semncnt' \in [Sems -> Nat] /\ semzcnt' \in [Sems -> Nat]
      /\ pc' \in [Procs -> PC] /\ SleeperCounted'
      /\ \A q \in Procs : pc'[q] = pcs[q] \/ (pcs[q] = "SSLEEP" /\ pc'[q] = "SRUN")
      /\ \A q \in Procs : pc'[q] = "SSLEEP" =>
            /\ stop[q].why = "semncnt" => stop[q].num \notin N
            /\ stop[q].why = "semzcnt" => stop[q].num \notin Z
  BY <1>1, <1>2, ClearWakeFrom
<1> QED BY <1>2, <1>3, <1>4, <1>5

\* SetAllResume() keeps the invariant.
LEMMA SetAllResumeKeeps ==
    ASSUME SemInv, NEW p \in Procs, NEW new \in [Sems -> 0 .. SEMVMX],
           SetAllResume(p, new)
    PROVE  SemInv'
<1>0. /\ TypeUndo /\ TypeSem /\ TypeProc /\ TypeFlags /\ UndoInv
      /\ Control /\ Rolls /\ SleeperCounted
  BY Parts
<1>8. /\ pc' \in [Procs -> PC] /\ SleeperCounted'
      /\ semncnt' \in [Sems -> Nat] /\ semzcnt' \in [Sems -> Nat]
      /\ \A q \in Procs : \/ pc'[q] = pc[q]
                          \/ pc[q] = "SSLEEP" /\ pc'[q] = "SRUN"
                          \/ q = p /\ pc'[q] = "user"
      /\ \A q \in Procs : pc'[q] = "SSLEEP" => pc[q] = "SSLEEP"
  BY SetAllWakes
<1>9. semval' \in Legal
  BY DEF SetAllResume, Store, Legal
<1>10. UNCHANGED <<alloc, seq, cpu, at, stop>> /\ cpu = NULL /\ pc[p] = "setall"
  BY DEF SetAllResume, LeaveSetAll, setVars
<1>1. TypeUndo' /\ UndoInv'
  <2>1. semunrm(call[p].id, Sems)
    BY DEF SetAllResume, Store
  <2> QED BY <1>0, <2>1, UndoRm
<1>2. TypeSem'
  BY <1>0, <1>8, <1>9, <1>10 DEF TypeSem
<1>3. TypeProc' /\ TypeFlags'
  BY <1>8, LeaveEffect DEF SetAllResume
<1>4. \A q \in Procs : pc'[q] \notin Busy
  BY <1>0, <1>8, <1>10, Bounds DEF Control, Busy
<1>5. Control'
  BY <1>0, <1>4, <1>8, <1>10 DEF Control, Busy
<1>6. Rolls'
  BY <1>4 DEF Rolls, Busy
<1>7. SleeperCounted'
  BY <1>8
<1> QED BY <1>1, <1>2, <1>3, <1>5, <1>6, <1>7, Parts

\* Rmid() keeps the invariant.
LEMMA RmidKeeps ==
    ASSUME SemInv, NEW p \in Procs, Rmid(p)
    PROVE  SemInv'
<1>0. /\ TypeUndo /\ TypeSem /\ TypeProc /\ TypeFlags /\ UndoInv
      /\ Control /\ Rolls /\ SleeperCounted
  BY Parts
<1>8. /\ pc' \in [Procs -> PC] /\ SleeperCounted'
      /\ semncnt' \in [Sems -> Nat] /\ semzcnt' \in [Sems -> Nat]
      /\ \A q \in Procs : pc'[q] = pc[q] \/ (pc[q] = "SSLEEP" /\ pc'[q] = "SRUN")
  <2>1. /\ semncnt' = Clear(semncnt, Sems) /\ semzcnt' = Clear(semzcnt, Sems)
        /\ pc' = WakeAll(pc, Sems, Sems) /\ UNCHANGED stop
    BY DEF Rmid, RmidWakes
  <2> QED BY <2>1, ClearWake
<1>9. semval' \in Legal
  BY <1>0, Bounds DEF Rmid, TypeSem, Legal
<1>1. TypeUndo' /\ UndoInv'
  <2>1. semunrm(seq, Sems)
    BY DEF Rmid
  <2> QED BY <1>0, <2>1, UndoRm
<1>2. TypeSem'
  <2>1. seq' \in Ids
    BY <1>0, Bounds DEF Rmid, TypeSem, Ids
  <2>2. alloc' \in BOOLEAN
    BY DEF Rmid
  <2> QED BY <1>8, <1>9, <2>1, <2>2 DEF TypeSem
<1>3. TypeProc'
  BY <1>0, <1>8 DEF Rmid, TypeProc
<1>4. TypeFlags'
  BY <1>0 DEF Rmid, TypeFlags
<1>5. Control'
  BY <1>0, <1>8 DEF Rmid, TypeProc, Control, Busy
<1>6. Rolls'
  BY <1>0, <1>8, Bounds DEF Rmid, InUser, TypeProc, Control, Rolls, Busy
<1>7. SleeperCounted'
  BY <1>8
<1> QED BY <1>1, <1>2, <1>3, <1>4, <1>5, <1>6, <1>7, Parts

\* Exit() keeps the invariant.
LEMMA ExitKeeps ==
    ASSUME SemInv, NEW p \in Procs, Exit(p)
    PROVE  SemInv'
<1>0. /\ TypeUndo /\ TypeSem /\ TypeProc /\ TypeFlags /\ UndoInv
      /\ Control /\ Rolls /\ SleeperCounted
  BY Parts
<1>8. /\ pc' \in [Procs -> PC] /\ SleeperCounted'
      /\ semncnt' \in [Sems -> Nat] /\ semzcnt' \in [Sems -> Nat]
      /\ \A q \in Procs : pc'[q] = pc[q] \/ (pc[q] = "SSLEEP" /\ pc'[q] = "SRUN")
  <2> DEFINE mine == {s \in Sems : <<seq, s>> \in DOMAIN undo[p] /\ semconv(seq)}
             new(s) == semval[s] + undo[p][<<seq, s>>]
             good == {s \in mine : new(s) \in 0 .. SEMVMX}
             N == {s \in good : undo[p][<<seq, s>>] > 0}
             Z == {s \in good : new(s) = 0}
  <2>1. /\ semncnt' = Clear(semncnt, N) /\ semzcnt' = Clear(semzcnt, Z)
        /\ pc' = WakeAll(pc, N, Z) /\ UNCHANGED stop
    BY DEF Exit, semexit, ExitWakes
  <2> HIDE DEF N, Z
  <2> QED BY <2>1, ClearWake
<1>9. semval' \in Legal
  BY <1>0, Bounds DEF Exit, semexit, TypeSem, Legal
<1>1. TypeUndo' /\ UndoInv'
  <2>1. /\ sem_undo' = sem_undo \ {p} /\ semunp' = semunp \ {p}
        /\ undo' = [undo EXCEPT ![p] = <<>>]
    BY DEF Exit, semexit
  <2> QED BY <1>0, <2>1, UndoExit
<1>2. TypeSem'
  BY <1>0, <1>8, <1>9 DEF Exit, TypeSem, setVars
<1>3. TypeProc'
  BY <1>0, <1>8 DEF Exit, TypeProc
<1>4. TypeFlags'
  BY <1>0 DEF Exit, TypeFlags
<1>5. Control'
  BY <1>0, <1>8 DEF Exit, TypeProc, Control, Busy
<1>6. Rolls'
  BY <1>0, <1>8, Bounds DEF Exit, InUser, TypeProc, Control, Rolls, Busy
<1>7. SleeperCounted'
  BY <1>8
<1> QED BY <1>1, <1>2, <1>3, <1>4, <1>5, <1>6, <1>7, Parts

\* ForkFail() keeps the invariant.
LEMMA ForkFailKeeps ==
    ASSUME SemInv, NEW p \in Procs, ForkFail(p)
    PROVE  SemInv'
<1>0. /\ TypeUndo /\ TypeSem /\ TypeProc /\ TypeFlags /\ UndoInv
      /\ Control /\ Rolls /\ SleeperCounted
  BY Parts
<1>8. /\ pc' \in [Procs -> PC] /\ SleeperCounted'
      /\ semncnt' \in [Sems -> Nat] /\ semzcnt' \in [Sems -> Nat]
      /\ \A q \in Procs : pc'[q] = pc[q] \/ (pc[q] = "SSLEEP" /\ pc'[q] = "SRUN")
  <2> DEFINE mine == {s \in Sems : <<seq, s>> \in DOMAIN undo[p] /\ semconv(seq)}
             new(s) == semval[s] + undo[p][<<seq, s>>]
             good == {s \in mine : new(s) \in 0 .. SEMVMX}
             N == {s \in good : undo[p][<<seq, s>>] > 0}
             Z == {s \in good : new(s) = 0}
  <2>1. /\ semncnt' = Clear(semncnt, N) /\ semzcnt' = Clear(semzcnt, Z)
        /\ pc' = WakeAll(pc, N, Z) /\ UNCHANGED stop
    BY DEF ForkFail, semexit, ExitWakes
  <2> HIDE DEF N, Z
  <2> QED BY <2>1, ClearWake
<1>9. semval' \in Legal
  BY <1>0, Bounds DEF ForkFail, semexit, TypeSem, Legal
<1>1. TypeUndo' /\ UndoInv'
  <2>1. /\ sem_undo' = sem_undo \ {p} /\ semunp' = semunp \ {p}
        /\ undo' = [undo EXCEPT ![p] = <<>>]
    BY DEF ForkFail, semexit
  <2> QED BY <1>0, <2>1, UndoExit
<1>2. TypeSem'
  BY <1>0, <1>8, <1>9 DEF ForkFail, TypeSem, setVars
<1>3. TypeProc'
  BY <1>0, <1>8 DEF ForkFail, TypeProc
<1>4. TypeFlags'
  BY <1>0 DEF ForkFail, TypeFlags
<1>5. Control'
  BY <1>0, <1>8 DEF ForkFail, TypeProc, Control, Busy
<1>6. Rolls'
  BY <1>0, <1>8, Bounds DEF ForkFail, InUser, TypeProc, Control, Rolls, Busy
<1>7. SleeperCounted'
  BY <1>8
<1> QED BY <1>1, <1>2, <1>3, <1>4, <1>5, <1>6, <1>7, Parts

\* Stuttering steps.
LEMMA StutterKeeps ==
    ASSUME SemInv, UNCHANGED vars
    PROVE  SemInv'
<1>0. /\ TypeUndo /\ TypeSem /\ TypeProc /\ TypeFlags /\ UndoInv
      /\ Control /\ Rolls /\ SleeperCounted
  BY Parts
<1>1. TypeUndo' /\ UndoInv'
  BY <1>0, UndoStays DEF vars
<1>2. TypeSem' /\ TypeProc' /\ TypeFlags'
  BY <1>0 DEF vars, setVars, semVars, procVars, TypeSem, TypeProc, TypeFlags
<1>3. Control' /\ SleeperCounted' /\ Rolls'
  BY <1>0 DEF vars, semVars, procVars, Control, SleeperCounted, Rolls, Legal
<1> QED BY <1>1, <1>2, <1>3, Parts

\* The initial state.
LEMMA InitSemInv == Init => SemInv
<1> SUFFICES ASSUME Init PROVE SemInv
  OBVIOUS
<1>1. TypeUndo /\ UndoInv
  BY FS_EmptySet, Bounds
     DEF Init, TypeUndo, UndoInv, UndoChainSound, UndoFinite
<1>2. TypeSem
  <2>1. 0 \in Ids /\ 0 \in 0 .. SEMVMX
    BY Bounds DEF Ids
  <2>2. alloc \in BOOLEAN /\ seq \in Ids
    BY <2>1 DEF Init
  <2> QED BY <2>1, <2>2 DEF Init, TypeSem, Legal
<1>3. TypeProc
  BY Bounds DEF Init, TypeProc, PC
<1>4. TypeFlags
  BY DEF Init, TypeFlags
<1>5. Control /\ Rolls /\ SleeperCounted
  BY DEF Init, Control, Rolls, SleeperCounted, Busy
<1> QED BY <1>1, <1>2, <1>3, <1>4, <1>5, Parts

\* Every step.
LEMMA NextSemInv == SemInv /\ [Next]_vars => SemInv'
<1> SUFFICES ASSUME SemInv, [Next]_vars PROVE SemInv'
  OBVIOUS
<1>1. CASE UNCHANGED vars
  BY <1>1, StutterKeeps
<1>2. ASSUME NEW p \in Procs, NEW ops \in Lists, Semop(p, ops) PROVE SemInv'
  BY <1>2, SemopKeeps
<1>3. ASSUME NEW p \in Procs, Kernel(p) PROVE SemInv'
  BY <1>3, CopyinKeeps, CopyinFaultKeeps, SemChangeKeeps, SemIsZeroKeeps,
     SemStopKeeps, SemundoKeeps, SemFailKeeps, SemSleepKeeps, SemIntrKeeps,
     SemCheckKeeps, SemDoneKeeps DEF Kernel
<1>4. ASSUME NEW p \in Procs, CopyinResume(p) \/ SemResume(p) \/ Signal(p)
      PROVE  SemInv'
  BY <1>4, CopyinResumeKeeps, SemResumeKeeps, SignalKeeps
<1>5. ASSUME NEW p \in Procs,
             Semget(p) \/ Rmid(p) \/ Exit(p) \/ ForkFail(p) \/ ThreadExit(p)
      PROVE  SemInv'
  BY <1>5, SemgetKeeps, RmidKeeps, ExitKeeps, ForkFailKeeps, ThreadExitKeeps
<1>6. ASSUME NEW p \in Procs, NEW s \in Sems, NEW v \in Values, SetVal(p, s, v)
      PROVE  SemInv'
  BY <1>6, SetValKeeps
<1>7. ASSUME NEW p \in Procs, NEW new \in [Sems -> Values], SetAll(p, new)
      PROVE  SemInv'
  BY <1>7, SetAllKeeps
<1>8. ASSUME NEW p \in Procs, SetAllFault(p) \/ SetAllRange(p) PROVE SemInv'
  BY <1>8, SetAllFaultKeeps, SetAllRangeKeeps
<1>9. ASSUME NEW p \in Procs, NEW new \in [Sems -> 0 .. SEMVMX],
             SetAllResume(p, new)
      PROVE  SemInv'
  BY <1>9, SetAllResumeKeeps
<1> QED BY <1>1, <1>2, <1>3, <1>4, <1>5, <1>6, <1>7, <1>8, <1>9 DEF Next

\* The inductive invariant holds, whatever the lists are.
THEOREM Invariant == Spec => []SemInv
BY InitSemInv, NextSemInv, PTL DEF Spec

(***************************************************************************)
(* No lost wakeup.                                                         *)
(***************************************************************************)

\* While nobody new falls asleep the patient values remain so.
LEMMA PatientGrows ==
    ASSUME \A q \in Procs : pc'[q] = "SSLEEP" =>
              /\ pc[q] = "SSLEEP" /\ slept'[q] = slept[q]
              /\ stop'[q] = stop[q] /\ call'[q] = call[q]
    PROVE  Patient \subseteq Patient'
<1> SUFFICES ASSUME NEW v \in Patient PROVE v \in Patient'
  OBVIOUS
<1>1. v \in Legal /\ \A q \in Procs : pc[q] = "SSLEEP" => MustWait(v, q)
  BY DEF Patient
<1>2. ASSUME NEW q \in Procs, pc'[q] = "SSLEEP" PROVE MustWait(v, q)'
  <2>1. MustWait(v, q)
    BY <1>1, <1>2
  <2> QED BY <1>2, <2>1 DEF MustWait
<1> QED BY <1>1, <1>2 DEF Patient, Legal

\* Nothing is looping when the processor is free.
LEMMA NobodyLoops ==
    ASSUME SemInv, cpu = NULL, NEW q \in Procs
    PROVE  pc[q] \notin Busy
BY Parts, Bounds DEF Control

\* A new value suits nobody who is still asleep if it is lower for those who
\* wait for an increment and not zero for those who wait for zero.
LEMMA ValueKeeps ==
    ASSUME TypeSem, TypeProc, semval \in Patient, semval' \in Legal,
           \A q \in Procs : pc'[q] = "SSLEEP" =>
              /\ pc[q] = "SSLEEP" /\ slept'[q] = slept[q]
              /\ stop'[q] = stop[q] /\ call'[q] = call[q]
              /\ stop[q].why = "semncnt" =>
                   semval'[stop[q].num] <= semval[stop[q].num]
              /\ (~slept[q] /\ stop[q].why = "semzcnt") =>
                   semval'[stop[q].num] # 0
    PROVE  semval' \in Patient'
<1> SUFFICES ASSUME NEW q \in Procs, pc'[q] = "SSLEEP"
             PROVE  MustWait(semval, q)'
  BY DEF Patient, Legal
<1>1. MustWait(semval, q) /\ stop[q].num \in Sems
  BY DEF Patient, TypeProc
<1>2. semval[stop[q].num] \in Int /\ semval'[stop[q].num] \in Int
  BY <1>1, Bounds DEF TypeSem, Legal
<1>3. CASE slept[q]
  BY <1>3 DEF MustWait
<1>4. CASE ~slept[q] /\ stop[q].why = "semncnt"
  <2>1. PICK i \in DOMAIN call[q].ops :
          /\ call[q].ops[i].num = stop[q].num /\ call[q].ops[i].op < 0
          /\ semval[stop[q].num] < -call[q].ops[i].op
    BY <1>1, <1>4 DEF MustWait
  <2>2. call[q].ops[i].op \in Int
    BY <2>1, CallFacts, OpFacts
  <2>3. semval'[stop[q].num] < -call[q].ops[i].op
    BY <1>2, <1>4, <2>1, <2>2
  <2> QED BY <1>4, <2>1, <2>3 DEF MustWait
<1>5. CASE ~slept[q] /\ stop[q].why # "semncnt"
  BY <1>5 DEF MustWait
<1> QED BY <1>3, <1>4, <1>5

\* After Semop() the sleepers still have to wait.
LEMMA SemopWaits ==
    ASSUME OneEach, SemInv, SemInv', WaitInv,
           NEW p \in Procs, NEW ops \in Lists, Semop(p, ops)
    PROVE  WaitInv'
<1>0. /\ TypeSem /\ TypeProc /\ TypeFlags /\ Control /\ SleeperCounted
      /\ semval \in Patient /\ TraceOK /\ FetchOK /\ StopOK
  BY Parts DEF WaitInv
<1>1. Patient \subseteq Patient'
  BY <1>0, PatientGrows DEF Semop, TypeProc, TypeFlags
<1>2. semval' \in Patient'
  BY <1>0, <1>1 DEF Semop, semVars
<1>3. TraceOK'
  BY <1>0, NobodyLoops DEF Semop, TypeProc, Busy, TraceOK
<1>4. FetchOK'
  BY <1>0 DEF Semop, TypeProc, TypeFlags, FetchOK, semconv, setVars
<1>5. StopOK'
  BY <1>0, NobodyLoops DEF Semop, TypeProc, StopOK, Busy
<1> QED BY <1>2, <1>3, <1>4, <1>5 DEF WaitInv

\* After Copyin() the sleepers still have to wait.
LEMMA CopyinWaits ==
    ASSUME OneEach, SemInv, SemInv', WaitInv, NEW p \in Procs, Copyin(p)
    PROVE  WaitInv'
<1>0. /\ TypeSem /\ TypeProc /\ TypeFlags /\ Control /\ SleeperCounted
      /\ semval \in Patient /\ TraceOK /\ FetchOK /\ StopOK
  BY Parts DEF WaitInv
<1>1. Patient \subseteq Patient'
  BY <1>0, PatientGrows DEF Copyin, TypeProc, TypeFlags
<1>2. semval' \in Patient'
  BY <1>0, <1>1 DEF Copyin, semVars
<1>3. TraceOK'
  <2>1. ASSUME NEW q \in Procs, pc'[q] \in {"loop", "undo"}
        PROVE  q = p /\ at'[q] - 1 = 0
    BY <2>1, <1>0, NobodyLoops DEF Copyin, Control, TypeProc, Busy
  <2>2. Trace(Patient', semtmp', 0, semval')
    BY <1>2, TraceStart
  <2> QED BY <2>1, <2>2 DEF TraceOK
<1>4. FetchOK'
  <2>1. \A i \in DOMAIN call[p].ops : semtmp'[i] = call[p].ops[i]
    BY <1>0, CallFacts, Bounds DEF Copyin, Fetched
  <2>2. \A q \in Procs : pc'[q] \in {"loop", "undo"} => q = p
    BY <1>0 DEF Copyin, Control, TypeProc, Busy
  <2> QED BY <1>0, <2>1, <2>2
          DEF Copyin, TypeProc, TypeFlags, FetchOK, semconv, setVars
<1>5. StopOK'
  BY <1>0 DEF Copyin, TypeProc, Busy, StopOK, Control
<1> QED BY <1>2, <1>3, <1>4, <1>5 DEF WaitInv

\* After CopyinFault() the sleepers still have to wait.
LEMMA CopyinFaultWaits ==
    ASSUME OneEach, SemInv, SemInv', WaitInv,
           NEW p \in Procs, NEW k \in 0 .. (SEMOPM - 1), CopyinFault(p, k)
    PROVE  WaitInv'
<1>0. /\ TypeSem /\ TypeProc /\ TypeFlags /\ Control /\ SleeperCounted
      /\ semval \in Patient /\ TraceOK /\ FetchOK /\ StopOK
  BY Parts DEF WaitInv
<1>1. Patient \subseteq Patient'
  BY <1>0, PatientGrows DEF CopyinFault, TypeProc, TypeFlags
<1>2. semval' \in Patient'
  BY <1>0, <1>1 DEF CopyinFault, semVars
<1>3. TraceOK'
  BY <1>0, Bounds DEF CopyinFault, TypeProc, Busy, TraceOK, Control
<1>4. FetchOK'
  <2>2. \A q \in Procs : pc'[q] \notin {"loop", "undo"}
    BY <1>0 DEF CopyinFault, Control, TypeProc, Busy
  <2> QED BY <1>0, <2>2
          DEF CopyinFault, TypeProc, TypeFlags, FetchOK, semconv, setVars
<1>5. StopOK'
  BY <1>0 DEF CopyinFault, TypeProc, Busy, StopOK, Control
<1> QED BY <1>2, <1>3, <1>4, <1>5 DEF WaitInv

\* After CopyinResume() the sleepers still have to wait.
LEMMA CopyinResumeWaits ==
    ASSUME OneEach, SemInv, SemInv', WaitInv,
           NEW p \in Procs, CopyinResume(p)
    PROVE  WaitInv'
<1>0. /\ TypeSem /\ TypeProc /\ TypeFlags /\ Control /\ SleeperCounted
      /\ semval \in Patient /\ TraceOK /\ FetchOK /\ StopOK
  BY Parts DEF WaitInv
<1>1. Patient \subseteq Patient'
  BY <1>0, PatientGrows DEF CopyinResume, TypeProc, TypeFlags
<1>2. semval' \in Patient'
  BY <1>0, <1>1 DEF CopyinResume, semVars
<1>3. TraceOK'
  <2>1. ASSUME NEW q \in Procs, pc'[q] \in {"loop", "undo"}
        PROVE  q = p /\ at'[q] - 1 = 0
    BY <2>1, <1>0, NobodyLoops DEF CopyinResume, Control, TypeProc, Busy
  <2>2. Trace(Patient', semtmp', 0, semval')
    BY <1>2, TraceStart
  <2> QED BY <2>1, <2>2 DEF TraceOK
<1>4. FetchOK'
  BY <1>0, NobodyLoops DEF CopyinResume, TypeProc, TypeFlags, FetchOK, semconv, setVars, Busy
<1>5. StopOK'
  BY <1>0, NobodyLoops DEF CopyinResume, TypeProc, StopOK, Busy
<1> QED BY <1>2, <1>3, <1>4, <1>5 DEF WaitInv

\* After SemIsZero() the sleepers still have to wait.
LEMMA SemIsZeroWaits ==
    ASSUME OneEach, SemInv, SemInv', WaitInv, NEW p \in Procs, SemIsZero(p)
    PROVE  WaitInv'
<1>0. /\ TypeSem /\ TypeProc /\ TypeFlags /\ Control /\ SleeperCounted
      /\ semval \in Patient /\ TraceOK /\ FetchOK /\ StopOK
  BY Parts DEF WaitInv
<1>9. /\ at[p] \in Nat /\ at[p] >= 1 /\ at[p] <= Len(call[p].ops)
      /\ at[p] \in 1 .. SEMOPM /\ at[p] \in DOMAIN call[p].ops
      /\ Op(p) = semtmp[at[p]] /\ Op(p).num \in Sems /\ Op(p).op \in Int
  BY <1>0, CallFacts, Bounds DEF SemIsZero, InLoop, Op
<1>1. Patient \subseteq Patient'
  BY <1>0, PatientGrows DEF SemIsZero, TypeProc, TypeFlags
<1>2. semval' \in Patient'
  BY <1>0, <1>1 DEF SemIsZero, semVars
<1>3. TraceOK'
  <2> DEFINE n == at[p] - 1
             o == semtmp[n + 1]
  <2>1. n \in Nat /\ n + 1 = at[p] /\ o = Op(p)
        /\ Trace(Patient, semtmp, n, semval)
    BY <1>0, <1>9 DEF TraceOK, SemIsZero, InLoop
  <2>2. [semval EXCEPT ![o.num] = @ + o.op] = semval
    <3>1. o.op = 0 /\ semval \in [Sems -> Int] /\ o.num \in Sems
      BY <2>1, <1>0, <1>9 DEF SemIsZero, TypeSem, Legal
    <3> HIDE DEF o
    <3> QED BY <3>1
  <2>3. Trace(Patient, semtmp, n + 1, semval)
    BY <1>0, <2>1, <2>2, TraceStep
  <2>4. Trace(Patient', semtmp, n + 1, semval)
    BY <1>1, <2>1, <2>3, TraceMono
  <2>5. Trace(Patient', semtmp', at'[p] - 1, semval')
    BY <1>0, <2>1, <2>4 DEF SemIsZero, semVars, TypeProc
  <2>6. ASSUME NEW q \in Procs, pc'[q] \in {"loop", "undo"} PROVE q = p
    BY <1>0, <2>6 DEF SemIsZero, InLoop, Control, Busy
  <2> QED BY <2>5, <2>6 DEF TraceOK
<1>4. FetchOK'
  BY <1>0 DEF SemIsZero, FetchOK, semconv, setVars
<1>5. StopOK'
  BY <1>0 DEF SemIsZero, InLoop, Control, Busy, StopOK
<1> QED BY <1>2, <1>3, <1>4, <1>5 DEF WaitInv

\* After SemStop() the sleepers still have to wait.
LEMMA SemStopWaits ==
    ASSUME OneEach, SemInv, SemInv', WaitInv, NEW p \in Procs, SemStop(p)
    PROVE  WaitInv'
<1>0. /\ TypeSem /\ TypeProc /\ TypeFlags /\ Control /\ SleeperCounted
      /\ semval \in Patient /\ TraceOK /\ FetchOK /\ StopOK
  BY Parts DEF WaitInv
<1>9. /\ at[p] \in Nat /\ at[p] >= 1 /\ at[p] <= Len(call[p].ops)
      /\ at[p] \in 1 .. SEMOPM /\ at[p] \in DOMAIN call[p].ops
      /\ Op(p) = semtmp[at[p]] /\ Op(p).num \in Sems /\ Op(p).op \in Int
  BY <1>0, CallFacts, Bounds DEF SemStop, InLoop, Op
<1>8. /\ cpu = p /\ pc[p] = "loop" /\ pc' = [pc EXCEPT ![p] = "undo"]
      /\ stop' = [stop EXCEPT ![p] = [why |-> StopReason(p, Op(p)),
                                      num |-> Op(p).num]]
      /\ UNCHANGED <<alloc, seq, semval, semtmp, cpu, call, at, slept>>
  BY DEF SemStop, InLoop, setVars, semVars
<1>1. Patient \subseteq Patient'
  BY <1>0, <1>8, PatientGrows DEF TypeProc
<1>2. semval' \in Patient'
  BY <1>0, <1>1, <1>8
<1>3. TraceOK'
  <2>1. Trace(Patient, semtmp, at[p] - 1, semval)
    BY <1>0, <1>8 DEF TraceOK
  <2>2. at[p] - 1 \in Nat
    BY <1>9
  <2>3. Trace(Patient', semtmp, at[p] - 1, semval)
    BY <1>1, <2>1, <2>2, TraceMono
  <2>4. Trace(Patient', semtmp', at'[p] - 1, semval')
    BY <1>8, <2>3
  <2>5. ASSUME NEW q \in Procs, pc'[q] \in {"loop", "undo"} PROVE q = p
    BY <1>0, <1>8, <2>5 DEF Control, Busy
  <2> QED BY <2>4, <2>5 DEF TraceOK
<1>4. FetchOK'
  BY <1>0, <1>8 DEF TypeProc, FetchOK, semconv
<1>5. StopOK'
  <2>1. ASSUME NEW q \in Procs, pc'[q] = "undo" PROVE q = p
    BY <1>0, <1>8, <2>1 DEF TypeProc, Control, Busy
  <2>2. ASSUME ~slept[p], stop'[p].why \in {"semzcnt", "semncnt"}
        PROVE  Stopped(p)'
    <3> DEFINE i == at[p]
               op == call[p].ops[i]
    <3>1. op = Op(p) /\ i \in DOMAIN call'[p].ops /\ i >= at'[p]
      BY <1>0, <1>8, <1>9, <2>2 DEF FetchOK
    <3>2. stop'[p].why = StopReason(p, op) /\ stop'[p].num = op.num
      BY <1>0, <1>8, <3>1 DEF TypeProc
    <3>3. op.op \in Int /\ semval[op.num] \in Int
      BY <1>0, <1>9, <3>1, Bounds DEF TypeSem, Legal
    <3>4. /\ ~(op.op > 0 \/ Fits(op))
          /\ stop'[p].why = "semncnt" => op.op < 0
          /\ stop'[p].why = "semzcnt" => ~(op.op < 0)
      BY <2>2, <3>2 DEF StopReason
    <3>5. op.op = 0 => semval[op.num] # 0
      BY <3>1 DEF SemStop
    <3>6. stop'[p].why = "semzcnt" => semval'[op.num] # 0
      BY <1>8, <3>3, <3>4, <3>5
    <3>7. stop'[p].why = "semncnt" => op.op < 0 /\ semval'[op.num] < -op.op
      BY <1>8, <3>3, <3>4 DEF Fits
    <3>8. op = call'[p].ops[i]
      BY <1>8
    <3> HIDE DEF i, op
    <3> QED BY <3>1, <3>2, <3>6, <3>7, <3>8 DEF Stopped
  <2> QED BY <1>8, <2>1, <2>2 DEF StopOK
<1> QED BY <1>2, <1>3, <1>4, <1>5 DEF WaitInv

\* After SemFail() the sleepers still have to wait.
LEMMA SemFailWaits ==
    ASSUME OneEach, SemInv, SemInv', WaitInv, NEW p \in Procs, SemFail(p)
    PROVE  WaitInv'
<1>0. /\ TypeSem /\ TypeProc /\ TypeFlags /\ Control /\ SleeperCounted
      /\ semval \in Patient /\ TraceOK /\ FetchOK /\ StopOK
  BY Parts DEF WaitInv
<1>1. Patient \subseteq Patient'
  BY <1>0, PatientGrows DEF SemFail, TypeProc, TypeFlags, Return
<1>2. semval' \in Patient'
  BY <1>0, <1>1 DEF SemFail, semVars, Return
<1>3. TraceOK'
  BY <1>0, NobodyLoops DEF SemFail, Control, TypeProc, Busy, TraceOK, Return
<1>4. FetchOK'
  BY <1>0 DEF SemFail, Control, Busy, TypeProc, TypeFlags, FetchOK, semconv, setVars, Return
<1>5. StopOK'
  BY <1>0, NobodyLoops DEF SemFail, Control, TypeProc, StopOK, Busy, Return
<1> QED BY <1>2, <1>3, <1>4, <1>5 DEF WaitInv

\* After SemDone() the sleepers still have to wait.
LEMMA SemDoneWaits ==
    ASSUME OneEach, SemInv, SemInv', WaitInv, NEW p \in Procs, SemDone(p)
    PROVE  WaitInv'
<1>0. /\ TypeSem /\ TypeProc /\ TypeFlags /\ Control /\ SleeperCounted
      /\ semval \in Patient /\ TraceOK /\ FetchOK /\ StopOK
  BY Parts DEF WaitInv
<1>1. Patient \subseteq Patient'
  BY <1>0, PatientGrows DEF SemDone, TypeProc, TypeFlags, Return
<1>2. semval' \in Patient'
  BY <1>0, <1>1 DEF SemDone, semVars, Return
<1>3. TraceOK'
  BY <1>0, NobodyLoops DEF SemDone, Control, TypeProc, Busy, TraceOK, Return
<1>4. FetchOK'
  BY <1>0 DEF SemDone, Control, Busy, TypeProc, TypeFlags, FetchOK, semconv, setVars, Return
<1>5. StopOK'
  BY <1>0, NobodyLoops DEF SemDone, Control, TypeProc, StopOK, Busy, Return
<1> QED BY <1>2, <1>3, <1>4, <1>5 DEF WaitInv

\* After SemCheck() the sleepers still have to wait.
LEMMA SemCheckWaits ==
    ASSUME OneEach, SemInv, SemInv', WaitInv, NEW p \in Procs, SemCheck(p)
    PROVE  WaitInv'
<1>0. /\ TypeSem /\ TypeProc /\ TypeFlags /\ Control /\ SleeperCounted
      /\ semval \in Patient /\ TraceOK /\ FetchOK /\ StopOK
  BY Parts DEF WaitInv
<1>1. Patient \subseteq Patient'
  BY <1>0, PatientGrows DEF SemCheck, TypeProc, TypeFlags, Return
<1>2. semval' \in Patient'
  BY <1>0, <1>1 DEF SemCheck, semVars, Return
<1>3. TraceOK'
  BY <1>0, NobodyLoops DEF SemCheck, Control, TypeProc, Busy, TraceOK, Return
<1>4. FetchOK'
  <2>1. CASE semconv(call[p].id)
    BY <1>0, <2>1 DEF SemCheck, Control, Busy, TypeProc, FetchOK, semconv, setVars
  <2>2. CASE ~semconv(call[p].id)
    <3>1. pc'[p] = "user" /\ \A q \in Procs : pc'[q] \notin {"loop", "undo"}
      BY <1>0, <2>2 DEF SemCheck, Control, Busy, TypeProc
    <3>2. \A q \in Procs : q # p =>
            /\ pc'[q] = pc[q] /\ call'[q] = call[q] /\ slept'[q] = slept[q]
      BY <1>0, <2>2 DEF SemCheck, Return, TypeProc, TypeFlags
    <3>3. UNCHANGED <<alloc, seq>>
      BY DEF SemCheck, setVars
    <3> QED BY <1>0, <3>1, <3>2, <3>3 DEF FetchOK, semconv
  <2> QED BY <2>1, <2>2
<1>5. StopOK'
  BY <1>0, NobodyLoops DEF SemCheck, Control, TypeProc, StopOK, Busy, Return
<1> QED BY <1>2, <1>3, <1>4, <1>5 DEF WaitInv

\* After SemIntr() the sleepers still have to wait.
LEMMA SemIntrWaits ==
    ASSUME OneEach, SemInv, SemInv', WaitInv, NEW p \in Procs, SemIntr(p)
    PROVE  WaitInv'
<1>0. /\ TypeSem /\ TypeProc /\ TypeFlags /\ Control /\ SleeperCounted
      /\ semval \in Patient /\ TraceOK /\ FetchOK /\ StopOK
  BY Parts DEF WaitInv
<1>8. /\ pc'[p] = "user"
      /\ \A q \in Procs : q # p =>
            /\ pc'[q] = pc[q] \/ (pc[q] = "SSLEEP" /\ pc'[q] = "SRUN")
            /\ slept'[q] = slept[q] /\ stop'[q] = stop[q] /\ call'[q] = call[q]
      /\ cpu = p /\ UNCHANGED <<alloc, seq, semval>>
  <2>1. /\ pc'[p] = "user"
        /\ \A q \in Procs : q # p =>
              pc'[q] = pc[q] \/ (pc[q] = "SSLEEP" /\ pc'[q] = "SRUN")
    BY SemIntrEffect
  <2>2. \A q \in Procs : q # p =>
          slept'[q] = slept[q] /\ stop'[q] = stop[q] /\ call'[q] = call[q]
    BY <1>0 DEF SemIntr, Return, TypeProc, TypeFlags
  <2>3. cpu = p /\ UNCHANGED <<alloc, seq, semval>>
    BY DEF SemIntr, setVars
  <2> QED BY <2>1, <2>2, <2>3
<1>9. \A q \in Procs : pc'[q] \notin Busy
  BY <1>0, <1>8 DEF Control, Busy
<1>1. Patient \subseteq Patient'
  BY <1>8, PatientGrows
<1>2. semval' \in Patient'
  BY <1>0, <1>1, <1>8
<1>3. TraceOK'
  BY <1>9 DEF TraceOK, Busy
<1>4. FetchOK'
  <2>1. \A q \in Procs : pc'[q] \in {"fault", "SSLEEP"} => q # p /\ pc[q] = pc'[q]
    BY <1>8
  <2> QED BY <1>0, <1>8, <1>9, <2>1 DEF FetchOK, semconv, Busy
<1>5. StopOK'
  BY <1>9 DEF StopOK, Busy
<1> QED BY <1>2, <1>3, <1>4, <1>5 DEF WaitInv

\* After SemResume() the sleepers still have to wait.
LEMMA SemResumeWaits ==
    ASSUME OneEach, SemInv, SemInv', WaitInv, NEW p \in Procs, SemResume(p)
    PROVE  WaitInv'
<1>0. /\ TypeSem /\ TypeProc /\ TypeFlags /\ Control /\ SleeperCounted
      /\ semval \in Patient /\ TraceOK /\ FetchOK /\ StopOK
  BY Parts DEF WaitInv
<1>1. Patient \subseteq Patient'
  BY <1>0, PatientGrows DEF SemResume, TypeProc, TypeFlags
<1>2. semval' \in Patient'
  BY <1>0, <1>1 DEF SemResume, semVars
<1>3. TraceOK'
  BY <1>0, NobodyLoops DEF SemResume, Control, TypeProc, Busy, TraceOK
<1>4. FetchOK'
  BY <1>0 DEF SemResume, Control, Busy, TypeProc, TypeFlags, FetchOK, semconv, setVars
<1>5. StopOK'
  BY <1>0, NobodyLoops DEF SemResume, Control, TypeProc, StopOK, Busy
<1> QED BY <1>2, <1>3, <1>4, <1>5 DEF WaitInv

\* After Signal() the sleepers still have to wait.
LEMMA SignalWaits ==
    ASSUME OneEach, SemInv, SemInv', WaitInv, NEW p \in Procs, Signal(p)
    PROVE  WaitInv'
<1>0. /\ TypeSem /\ TypeProc /\ TypeFlags /\ Control /\ SleeperCounted
      /\ semval \in Patient /\ TraceOK /\ FetchOK /\ StopOK
  BY Parts DEF WaitInv
<1>9. \A q \in Procs : pc'[q] # "SRUN" => pc'[q] = pc[q]
  BY <1>0 DEF Signal, TypeProc
<1>1. Patient \subseteq Patient'
  BY <1>0, PatientGrows DEF Signal, TypeProc, TypeFlags
<1>2. semval' \in Patient'
  BY <1>0, <1>1 DEF Signal, semVars
<1>3. TraceOK'
  <2> SUFFICES ASSUME NEW q \in Procs, pc'[q] \in {"loop", "undo"}
               PROVE  Trace(Patient', semtmp, at[q] - 1, semval)
    BY DEF TraceOK, Signal, semVars
  <2>1. pc[q] \in {"loop", "undo"} /\ at[q] - 1 \in Nat
    BY <1>0, <1>9 DEF TypeProc
  <2>2. Trace(Patient, semtmp, at[q] - 1, semval)
    BY <1>0, <2>1 DEF TraceOK
  <2> QED BY <1>1, <2>1, <2>2, TraceMono
<1>4. FetchOK'
  BY <1>0 DEF Signal, Control, Busy, TypeProc, TypeFlags, FetchOK, semconv, setVars
<1>5. StopOK'
  BY <1>0, <1>9 DEF Signal, StopOK, Stopped, semVars
<1> QED BY <1>2, <1>3, <1>4, <1>5 DEF WaitInv

\* After Semget() the sleepers still have to wait.
LEMMA SemgetWaits ==
    ASSUME OneEach, SemInv, SemInv', WaitInv, NEW p \in Procs, Semget(p)
    PROVE  WaitInv'
<1>0. /\ TypeSem /\ TypeProc /\ TypeFlags /\ Control /\ SleeperCounted
      /\ semval \in Patient /\ TraceOK /\ FetchOK /\ StopOK
  BY Parts DEF WaitInv
<1>1. Patient \subseteq Patient'
  BY <1>0, PatientGrows DEF Semget, procVars
<1>2. semval' \in Patient'
  BY <1>0, <1>1 DEF Semget, semVars
<1>3. TraceOK'
  BY <1>0, NobodyLoops DEF Semget, InUser, procVars, TraceOK, Busy
<1>4. FetchOK'
  BY <1>0 DEF Semget, procVars, FetchOK, semconv, setVars
<1>5. StopOK'
  BY <1>0, NobodyLoops DEF Semget, InUser, procVars, StopOK, Busy
<1> QED BY <1>2, <1>3, <1>4, <1>5 DEF WaitInv

\* After ThreadExit() the sleepers still have to wait.
LEMMA ThreadExitWaits ==
    ASSUME OneEach, SemInv, SemInv', WaitInv, NEW p \in Procs, ThreadExit(p)
    PROVE  WaitInv'
<1>0. /\ TypeSem /\ TypeProc /\ TypeFlags /\ Control /\ SleeperCounted
      /\ semval \in Patient /\ TraceOK /\ FetchOK /\ StopOK
  BY Parts DEF WaitInv
<1>1. Patient \subseteq Patient'
  BY <1>0, PatientGrows DEF ThreadExit, procVars
<1>2. semval' \in Patient'
  BY <1>0, <1>1 DEF ThreadExit, semVars
<1>3. TraceOK'
  BY <1>0, NobodyLoops DEF ThreadExit, InUser, procVars, TraceOK, Busy
<1>4. FetchOK'
  BY <1>0 DEF ThreadExit, procVars, FetchOK, semconv, setVars
<1>5. StopOK'
  BY <1>0, NobodyLoops DEF ThreadExit, InUser, procVars, StopOK, Busy
<1> QED BY <1>2, <1>3, <1>4, <1>5 DEF WaitInv

\* Who falls asleep after the rollback has to wait.
LEMMA SemSleepWaits ==
    ASSUME OneEach, SemInv, SemInv', WaitInv, NEW p \in Procs, SemSleep(p)
    PROVE  WaitInv'
<1>0. /\ TypeSem /\ TypeProc /\ TypeFlags /\ Control /\ SleeperCounted
      /\ semval \in Patient /\ TraceOK /\ FetchOK /\ StopOK
  BY Parts DEF WaitInv
<1>8. /\ cpu = p /\ pc[p] = "undo" /\ at[p] = 1
      /\ stop[p].why \in {"semncnt", "semzcnt"}
      /\ pc' = [pc EXCEPT ![p] = IF sig[p] THEN "intr" ELSE "SSLEEP"]
      /\ UNCHANGED <<alloc, seq, semval, call, stop, slept>>
  BY DEF SemSleep, setVars
<1>9. \A q \in Procs : pc'[q] \notin {"loop", "undo", "copyin"}
  BY <1>0, <1>8 DEF TypeProc, Control, Busy
<1>2. semval' \in Patient'
  <2> SUFFICES ASSUME NEW q \in Procs, pc'[q] = "SSLEEP"
               PROVE  MustWait(semval, q)
    <3>1. semval \in Legal
      BY <1>0 DEF TypeSem
    <3> QED BY <1>8, <3>1 DEF Patient, Legal, MustWait
  <2>1. CASE q # p
    BY <1>0, <1>8, <2>1 DEF Patient, TypeProc
  <2>2. CASE q = p /\ ~slept[p]
    <3>1. PICK i \in DOMAIN call[p].ops :
            /\ call[p].ops[i].num = stop[p].num
            /\ stop[p].why = "semzcnt" => semval[stop[p].num] # 0
            /\ stop[p].why = "semncnt" => /\ call[p].ops[i].op < 0
                                          /\ semval[stop[p].num] < -call[p].ops[i].op
      BY <1>0, <1>8, <2>2 DEF StopOK, Stopped
    <3> QED BY <2>2, <3>1 DEF MustWait
  <2>3. CASE q = p /\ slept[p]
    BY <2>3 DEF MustWait
  <2> QED BY <2>1, <2>2, <2>3
<1>3. TraceOK'
  BY <1>9 DEF TraceOK
<1>4. FetchOK'
  BY <1>0, <1>8, <1>9 DEF FetchOK, semconv, TypeProc
<1>5. StopOK'
  BY <1>9 DEF StopOK
<1> QED BY <1>2, <1>3, <1>4, <1>5 DEF WaitInv

\* After SemChange() the sleepers still have to wait.
LEMMA SemChangeWaits ==
    ASSUME OneEach, SemInv, SemInv', WaitInv, NEW p \in Procs, SemChange(p)
    PROVE  WaitInv'
<1>0. /\ TypeSem /\ TypeProc /\ TypeFlags /\ Control /\ SleeperCounted
      /\ semval \in Patient /\ TraceOK /\ FetchOK /\ StopOK
  BY Parts DEF WaitInv
<1>9. /\ at[p] \in Nat /\ at[p] >= 1 /\ at[p] <= Len(call[p].ops)
      /\ at[p] \in 1 .. SEMOPM /\ at[p] \in DOMAIN call[p].ops
      /\ Op(p) = semtmp[at[p]] /\ Op(p).num \in Sems /\ Op(p).op \in Int
  BY <1>0, CallFacts, Bounds DEF SemChange, InLoop, Op
<1> DEFINE op == Op(p)
           n == IF op.op > 0 THEN {op.num} ELSE {}
           z == IF semval[op.num] + op.op = 0 THEN {op.num} ELSE {}
<1>8. /\ semval' \in Legal
      /\ \A q \in Procs : pc'[q] = pc[q] \/ (pc[q] = "SSLEEP" /\ pc'[q] = "SRUN")
      /\ \A q \in Procs : pc'[q] = "SSLEEP" =>
            /\ stop[q].why = "semncnt" => stop[q].num \notin n
            /\ stop[q].why = "semzcnt" => stop[q].num \notin z
  <2>1. /\ semncnt' = Clear(semncnt, n) /\ semzcnt' = Clear(semzcnt, z)
        /\ pc' = WakeAll(pc, n, z) /\ UNCHANGED stop
    BY DEF SemChange
  <2>2. semval' \in Legal
    BY Parts DEF TypeSem
  <2> HIDE DEF n, z
  <2> QED BY <2>1, <2>2, ClearWake
<1>10. /\ cpu = p /\ pc[p] = "loop" /\ pc'[p] = "loop"
       /\ semval' = [semval EXCEPT ![op.num] = @ + op.op]
       /\ at' = [at EXCEPT ![p] = @ + 1]
       /\ UNCHANGED <<alloc, seq, semtmp, call, stop, slept>>
  <2>1. /\ cpu = p /\ pc[p] = "loop"
        /\ semval' = [semval EXCEPT ![op.num] = @ + op.op]
        /\ at' = [at EXCEPT ![p] = @ + 1]
        /\ UNCHANGED <<alloc, seq, semtmp, call, stop, slept>>
    BY DEF SemChange, InLoop, setVars
  <2> QED BY <1>8, <2>1
<1>11. \A q \in Procs : pc'[q] \in Busy => q = p
  BY <1>0, <1>8, <1>10 DEF Control, Busy
<1>1. Patient \subseteq Patient'
  BY <1>8, <1>10, PatientGrows
<1>2. semval' \in Patient'
  <2>1. ASSUME NEW q \in Procs, pc'[q] = "SSLEEP"
        PROVE  /\ stop[q].why = "semncnt" =>
                     semval'[stop[q].num] <= semval[stop[q].num]
               /\ (~slept[q] /\ stop[q].why = "semzcnt") =>
                     semval'[stop[q].num] # 0
    <3> DEFINE t == stop[q].num
    <3>1. t \in Sems /\ pc[q] = "SSLEEP"
      BY <1>0, <1>8, <2>1 DEF TypeProc
    <3>2. /\ semval[t] \in Int /\ semval[op.num] \in Int
          /\ semval'[t] = IF t = op.num THEN semval[t] + op.op ELSE semval[t]
      <4>1. semval \in [Sems -> Int]
        BY <1>0, Bounds DEF TypeSem, Legal
      <4> HIDE DEF op, t
      <4> QED BY <1>9, <1>10, <3>1, <4>1 DEF op
    <3>3. CASE stop[q].why = "semncnt"
      BY <1>8, <1>9, <2>1, <3>2, <3>3
    <3>4. CASE stop[q].why = "semzcnt" /\ ~slept[q]
      <4>1. semval[t] # 0
        BY <1>0, <3>1, <3>4 DEF Patient, MustWait
      <4> QED BY <1>8, <1>9, <2>1, <3>2, <3>4, <4>1
    <3> QED BY <3>3, <3>4
  <2> QED BY <1>0, <1>8, <1>10, <2>1, ValueKeeps
<1>3. TraceOK'
  <2> DEFINE k == at[p] - 1
             o == semtmp[k + 1]
  <2>1. k \in Nat /\ k + 1 = at[p] /\ o = op /\ Trace(Patient, semtmp, k, semval)
    BY <1>0, <1>9, <1>10 DEF TraceOK
  <2>2. Trace(Patient', semtmp, k, semval)
    BY <1>1, <2>1, TraceMono
  <2>3. semval' = [semval EXCEPT ![o.num] = @ + o.op]
    BY <1>10, <2>1
  <2>4. Trace(Patient', semtmp, k + 1, semval')
    BY <1>2, <2>1, <2>2, <2>3, TraceStep
  <2>5. Trace(Patient', semtmp', at'[p] - 1, semval')
    BY <1>0, <1>10, <2>1, <2>4 DEF TypeProc
  <2> QED BY <1>11, <2>5 DEF TraceOK, Busy
<1>4. FetchOK'
  <2>1. \A q \in Procs : pc'[q] \in {"fault", "SSLEEP", "loop", "copyin", "undo"} =>
          pc[q] = pc'[q]
    BY <1>8
  <2> QED BY <1>0, <1>10, <2>1 DEF FetchOK, semconv
<1>5. StopOK'
  BY <1>10, <1>11 DEF StopOK, Busy
<1> QED BY <1>2, <1>3, <1>4, <1>5 DEF WaitInv

\* The rollback goes back through values that suit nobody asleep.
LEMMA SemundoWaits ==
    ASSUME OneEach, SemInv, SemInv', WaitInv, NEW p \in Procs, semundo(p)
    PROVE  WaitInv'
<1>0. /\ TypeSem /\ TypeProc /\ TypeFlags /\ Control /\ SleeperCounted
      /\ semval \in Patient /\ TraceOK /\ FetchOK /\ StopOK
  BY Parts DEF WaitInv
<1> DEFINE k == at[p] - 1
           op == semtmp[k]
<1>8. /\ cpu = p /\ pc[p] = "undo" /\ at[p] > 1
      /\ semval' = [semval EXCEPT ![op.num] = @ - op.op]
      /\ at' = [at EXCEPT ![p] = @ - 1]
      /\ UNCHANGED <<alloc, seq, semtmp, pc, call, stop, slept>>
  BY DEF semundo, setVars
<1>9. /\ k \in Nat /\ k > 0 /\ k \in 1 .. SEMOPM /\ at'[p] = k
      /\ op.num \in Sems /\ op.op \in Int /\ Trace(Patient, semtmp, k, semval)
  BY <1>0, <1>8, CallFacts, Bounds DEF TraceOK, TypeProc
<1>10. semval' \in Patient /\ Trace(Patient, semtmp, k - 1, semval')
  <2>1. Patient \subseteq [Sems -> Int]
    BY Bounds DEF Patient, Legal
  <2>2. /\ [semval EXCEPT ![op.num] = @ - op.op] \in Patient
        /\ Trace(Patient, semtmp, k - 1, [semval EXCEPT ![op.num] = @ - op.op])
    BY <1>9, <2>1, TraceBack
  <2> QED BY <1>8, <2>2
<1>11. \A q \in Procs : pc'[q] \in Busy => q = p
  BY <1>0, <1>8 DEF Control, Busy
<1>1. Patient \subseteq Patient'
  BY <1>8, PatientGrows
<1>2. semval' \in Patient'
  BY <1>1, <1>10
<1>3. TraceOK'
  <2>1. Trace(Patient', semtmp, k - 1, semval')
    BY <1>1, <1>9, <1>10, TraceMono
  <2>2. Trace(Patient', semtmp', at'[p] - 1, semval')
    BY <1>8, <1>9, <2>1
  <2> QED BY <1>11, <2>2 DEF TraceOK, Busy
<1>4. FetchOK'
  BY <1>0, <1>8 DEF FetchOK, semconv
<1>5. StopOK'
  <2> SUFFICES ASSUME ~slept[p], stop[p].why \in {"semzcnt", "semncnt"}
               PROVE  Stopped(p)'
    BY <1>8, <1>11 DEF StopOK, Busy
  <2>1. PICK i \in DOMAIN call[p].ops :
          /\ i >= at[p] /\ call[p].ops[i].num = stop[p].num
          /\ stop[p].why = "semzcnt" => semval[stop[p].num] # 0
          /\ stop[p].why = "semncnt" => /\ call[p].ops[i].op < 0
                                        /\ semval[stop[p].num] < -call[p].ops[i].op
    BY <1>0, <1>8 DEF StopOK, Stopped
  <2>2. /\ DOMAIN call[p].ops = 1 .. Len(call[p].ops) /\ Len(call[p].ops) \in Nat
        /\ call[p].ops \in Lists \cup {<<>>} /\ at[p] \in Nat
    BY <1>0, CallFacts, Bounds
  <2>3. call[p].ops \in Lists /\ k \in DOMAIN call[p].ops /\ k # i
    BY <1>9, <2>1, <2>2
  <2>4. op = call[p].ops[k]
    BY <1>0, <1>8, <2>3 DEF FetchOK
  <2>5. op.num # stop[p].num
    BY <2>1, <2>3, <2>4 DEF OneEach
  <2>6. semval'[stop[p].num] = semval[stop[p].num]
    BY <1>0, <1>8, <2>5 DEF TypeSem, Legal, TypeProc
  <2>7. i >= at'[p]
    BY <1>9, <2>1, <2>2
  <2>8. stop'[p] = stop[p] /\ call'[p] = call[p]
    BY <1>8
  <2> HIDE DEF k, op
  <2> QED BY <2>1, <2>6, <2>7, <2>8 DEF Stopped
<1> QED BY <1>2, <1>3, <1>4, <1>5 DEF WaitInv

\* After SetVal() the sleepers still have to wait.
LEMMA SetValWaits ==
    ASSUME OneEach, SemInv, SemInv', WaitInv,
           NEW p \in Procs, NEW s \in Sems, NEW v \in Values, SetVal(p, s, v)
    PROVE  WaitInv'
<1>0. /\ TypeSem /\ TypeProc /\ TypeFlags /\ Control /\ SleeperCounted
      /\ semval \in Patient /\ TraceOK /\ FetchOK /\ StopOK
  BY Parts DEF WaitInv
<1> DEFINE new == [t \in Sems |-> v]
<1> DEFINE n == {t \in {s} : new[t] # 0}
           z == {t \in {s} : new[t] = 0}
<1>8. /\ semval' \in Legal
      /\ \A q \in Procs : pc'[q] = pc[q] \/ (pc[q] = "SSLEEP" /\ pc'[q] = "SRUN")
      /\ \A q \in Procs : pc'[q] = "SSLEEP" =>
            /\ stop[q].why = "semncnt" => stop[q].num \notin n
            /\ stop[q].why = "semzcnt" => stop[q].num \notin z
  <2>1. /\ semncnt' = Clear(semncnt, n) /\ semzcnt' = Clear(semzcnt, z)
        /\ pc' = WakeAll(pc, n, z) /\ UNCHANGED stop
    BY DEF SetVal, Store
  <2>2. semval' \in Legal
    BY Parts DEF TypeSem
  <2> HIDE DEF n, z
  <2> QED BY <2>1, <2>2, ClearWake
<1>9. /\ cpu = NULL /\ UNCHANGED <<call, stop, slept>>
      /\ \A q \in Procs : pc'[q] \notin Busy
  <2>1. cpu = NULL /\ UNCHANGED <<call, stop, slept>>
    BY DEF SetVal, InUser
  <2> QED BY <1>8, <2>1, NobodyLoops DEF Busy
<1>2. semval' \in Patient'
  <2>1. ASSUME NEW q \in Procs, pc'[q] = "SSLEEP"
        PROVE  /\ stop[q].why = "semncnt" =>
                     semval'[stop[q].num] <= semval[stop[q].num]
               /\ (~slept[q] /\ stop[q].why = "semzcnt") =>
                     semval'[stop[q].num] # 0
    <3> DEFINE t == stop[q].num
    <3>1. t \in Sems /\ pc[q] = "SSLEEP"
      BY <1>0, <1>8, <2>1 DEF TypeProc
    <3>2. semval[t] \in Nat
      BY <1>0, <3>1, Bounds DEF TypeSem, Legal
    <3>3. semval'[t] = IF t \in {s} THEN new[t] ELSE semval[t]
      BY <3>1 DEF SetVal, Store
    <3>5. CASE stop[q].why = "semncnt"
      BY <1>8, <2>1, <3>1, <3>2, <3>3, <3>5
    <3>6. CASE stop[q].why = "semzcnt" /\ ~slept[q]
      <4>1. semval[t] # 0
        BY <1>0, <3>1, <3>6 DEF Patient, MustWait
      <4> QED BY <1>8, <2>1, <3>1, <3>3, <3>6, <4>1
    <3> QED BY <3>5, <3>6
  <2> QED BY <1>0, <1>8, <1>9, <2>1, ValueKeeps
<1>3. TraceOK'
  BY <1>9 DEF TraceOK, Busy
<1>4. FetchOK'
  <2>1. \A q \in Procs : pc'[q] \in {"fault", "SSLEEP"} => pc[q] = pc'[q]
    BY <1>8
  <2>2. UNCHANGED <<alloc, seq>>
    BY DEF SetVal, setVars
  <2> QED BY <1>0, <1>9, <2>1, <2>2 DEF FetchOK, semconv, Busy
<1>5. StopOK'
  BY <1>9 DEF StopOK, Busy
<1> QED BY <1>2, <1>3, <1>4, <1>5 DEF WaitInv

\* After SetAll() the sleepers still have to wait.
LEMMA SetAllWaits ==
    ASSUME OneEach, SemInv, SemInv', WaitInv,
           NEW p \in Procs, NEW new \in [Sems -> Values], SetAll(p, new)
    PROVE  WaitInv'
<1>0. /\ TypeSem /\ TypeProc /\ TypeFlags /\ Control /\ SleeperCounted
      /\ semval \in Patient /\ TraceOK /\ FetchOK /\ StopOK
  BY Parts DEF WaitInv
<1> DEFINE n == {t \in Sems : new[t] # 0}
           z == {t \in Sems : new[t] = 0}
<1>8. /\ semval' \in Legal
      /\ \A q \in Procs : pc'[q] = pc[q] \/ (pc[q] = "SSLEEP" /\ pc'[q] = "SRUN")
      /\ \A q \in Procs : pc'[q] = "SSLEEP" =>
            /\ stop[q].why = "semncnt" => stop[q].num \notin n
            /\ stop[q].why = "semzcnt" => stop[q].num \notin z
  <2>1. /\ semncnt' = Clear(semncnt, n) /\ semzcnt' = Clear(semzcnt, z)
        /\ pc' = WakeAll(pc, n, z) /\ UNCHANGED stop
    BY DEF SetAll, Store
  <2>2. semval' \in Legal
    BY Parts DEF TypeSem
  <2> HIDE DEF n, z
  <2> QED BY <2>1, <2>2, ClearWake
<1>9. /\ cpu = NULL /\ UNCHANGED <<call, stop, slept>>
      /\ \A q \in Procs : pc'[q] \notin Busy
  <2>1. cpu = NULL /\ UNCHANGED <<call, stop, slept>>
    BY DEF SetAll, InUser
  <2> QED BY <1>8, <2>1, NobodyLoops DEF Busy
<1>2. semval' \in Patient'
  <2>1. ASSUME NEW q \in Procs, pc'[q] = "SSLEEP"
        PROVE  /\ stop[q].why = "semncnt" =>
                     semval'[stop[q].num] <= semval[stop[q].num]
               /\ (~slept[q] /\ stop[q].why = "semzcnt") =>
                     semval'[stop[q].num] # 0
    <3> DEFINE t == stop[q].num
    <3>1. t \in Sems /\ pc[q] = "SSLEEP"
      BY <1>0, <1>8, <2>1 DEF TypeProc
    <3>2. semval[t] \in Nat
      BY <1>0, <3>1, Bounds DEF TypeSem, Legal
    <3>3. semval'[t] = IF t \in Sems THEN new[t] ELSE semval[t]
      BY <3>1 DEF SetAll, Store
    <3>5. CASE stop[q].why = "semncnt"
      BY <1>8, <2>1, <3>1, <3>2, <3>3, <3>5
    <3>6. CASE stop[q].why = "semzcnt" /\ ~slept[q]
      <4>1. semval[t] # 0
        BY <1>0, <3>1, <3>6 DEF Patient, MustWait
      <4> QED BY <1>8, <2>1, <3>1, <3>3, <3>6, <4>1
    <3> QED BY <3>5, <3>6
  <2> QED BY <1>0, <1>8, <1>9, <2>1, ValueKeeps
<1>3. TraceOK'
  BY <1>9 DEF TraceOK, Busy
<1>4. FetchOK'
  <2>1. \A q \in Procs : pc'[q] \in {"fault", "SSLEEP"} => pc[q] = pc'[q]
    BY <1>8
  <2>2. UNCHANGED <<alloc, seq>>
    BY DEF SetAll, setVars
  <2> QED BY <1>0, <1>9, <2>1, <2>2 DEF FetchOK, semconv, Busy
<1>5. StopOK'
  BY <1>9 DEF StopOK, Busy
<1> QED BY <1>2, <1>3, <1>4, <1>5 DEF WaitInv

\* After SetAllFault() the sleepers still have to wait.
LEMMA SetAllFaultWaits ==
    ASSUME OneEach, SemInv, SemInv', WaitInv, NEW p \in Procs, SetAllFault(p)
    PROVE  WaitInv'
<1>0. /\ TypeSem /\ TypeProc /\ TypeFlags /\ Control /\ SleeperCounted
      /\ semval \in Patient /\ TraceOK /\ FetchOK /\ StopOK
  BY Parts DEF WaitInv
<1>1. Patient \subseteq Patient'
  BY <1>0, PatientGrows DEF SetAllFault, InUser, TypeProc, TypeFlags
<1>2. semval' \in Patient'
  BY <1>0, <1>1 DEF SetAllFault, semVars
<1>9. \A q \in Procs : pc'[q] \notin Busy
  BY <1>0, NobodyLoops DEF SetAllFault, InUser, TypeProc, Busy
<1>3. TraceOK'
  BY <1>9 DEF TraceOK, Busy
<1>4. FetchOK'
  BY <1>0, <1>9
     DEF SetAllFault, TypeProc, TypeFlags, FetchOK, semconv, setVars, Busy
<1>5. StopOK'
  BY <1>9 DEF StopOK, Busy
<1> QED BY <1>2, <1>3, <1>4, <1>5 DEF WaitInv

\* After SetAllRange() the sleepers still have to wait.
LEMMA SetAllRangeWaits ==
    ASSUME OneEach, SemInv, SemInv', WaitInv, NEW p \in Procs, SetAllRange(p)
    PROVE  WaitInv'
<1>0. /\ TypeSem /\ TypeProc /\ TypeFlags /\ Control /\ SleeperCounted
      /\ semval \in Patient /\ TraceOK /\ FetchOK /\ StopOK
  BY Parts DEF WaitInv
<1>1. Patient \subseteq Patient'
  BY <1>0, PatientGrows DEF SetAllRange, LeaveSetAll, TypeProc, TypeFlags
<1>2. semval' \in Patient'
  BY <1>0, <1>1 DEF SetAllRange, semVars
<1>9. \A q \in Procs : pc'[q] \notin Busy
  BY <1>0, NobodyLoops DEF SetAllRange, TypeProc, Busy
<1>3. TraceOK'
  BY <1>9 DEF TraceOK, Busy
<1>4. FetchOK'
  BY <1>0, <1>9
     DEF SetAllRange, LeaveSetAll, TypeProc, TypeFlags, FetchOK, semconv,
         setVars, Busy
<1>5. StopOK'
  BY <1>9 DEF StopOK, Busy
<1> QED BY <1>2, <1>3, <1>4, <1>5 DEF WaitInv

\* After SetAllResume() the sleepers still have to wait, on whatever set it
\* stored its values in.
LEMMA SetAllResumeWaits ==
    ASSUME OneEach, SemInv, SemInv', WaitInv, NEW p \in Procs,
           NEW new \in [Sems -> 0 .. SEMVMX], SetAllResume(p, new)
    PROVE  WaitInv'
<1>0. /\ TypeSem /\ TypeProc /\ TypeFlags /\ Control /\ SleeperCounted
      /\ semval \in Patient /\ TraceOK /\ FetchOK /\ StopOK
  BY Parts DEF WaitInv
<1>8. /\ \A q \in Procs : \/ pc'[q] = pc[q]
                          \/ pc[q] = "SSLEEP" /\ pc'[q] = "SRUN"
                          \/ q = p /\ pc'[q] = "user"
      /\ \A q \in Procs : pc'[q] = "SSLEEP" =>
            /\ pc[q] = "SSLEEP"
            /\ stop[q].why = "semncnt" => new[stop[q].num] = 0
            /\ stop[q].why = "semzcnt" => new[stop[q].num] # 0
  BY SetAllWakes
<1>10. /\ cpu = NULL /\ pc[p] = "setall" /\ UNCHANGED <<alloc, seq, stop>>
       /\ \A q \in Procs : q # p => call'[q] = call[q] /\ slept'[q] = slept[q]
  BY <1>0 DEF SetAllResume, LeaveSetAll, setVars, TypeProc, TypeFlags
<1>9. \A q \in Procs : pc'[q] \notin Busy
  BY <1>8, <1>10, NobodyLoops DEF Busy
<1>2. semval' \in Patient'
  <2>1. ASSUME NEW q \in Procs, pc'[q] = "SSLEEP"
        PROVE  /\ stop[q].why = "semncnt" =>
                     semval'[stop[q].num] <= semval[stop[q].num]
               /\ (~slept[q] /\ stop[q].why = "semzcnt") =>
                     semval'[stop[q].num] # 0
    <3> DEFINE t == stop[q].num
    <3>1. t \in Sems /\ pc[q] = "SSLEEP"
      BY <1>0, <1>8, <2>1 DEF TypeProc
    <3>2. semval[t] \in Nat
      BY <1>0, <3>1, Bounds DEF TypeSem, Legal
    <3>3. semval'[t] = new[t]
      BY <3>1 DEF SetAllResume, Store
    <3> QED BY <1>8, <2>1, <3>2, <3>3
  <2>2. semval' \in Legal
    BY Parts DEF TypeSem
  <2>3. \A q \in Procs : pc'[q] = "SSLEEP" =>
           /\ pc[q] = "SSLEEP" /\ slept'[q] = slept[q]
           /\ stop'[q] = stop[q] /\ call'[q] = call[q]
    BY <1>8, <1>10
  <2> QED BY <1>0, <2>1, <2>2, <2>3, ValueKeeps
<1>3. TraceOK'
  BY <1>9 DEF TraceOK, Busy
<1>4. FetchOK'
  <2>1. \A q \in Procs : pc'[q] \in {"fault", "SSLEEP"} => q # p /\ pc[q] = pc'[q]
    BY <1>8, <1>10
  <2> QED BY <1>0, <1>9, <1>10, <2>1 DEF FetchOK, semconv, Busy
<1>5. StopOK'
  BY <1>9 DEF StopOK, Busy
<1> QED BY <1>2, <1>3, <1>4, <1>5 DEF WaitInv

\* The removal of the set leaves nobody asleep.
LEMMA RmidWaits ==
    ASSUME OneEach, SemInv, SemInv', WaitInv, NEW p \in Procs, Rmid(p)
    PROVE  WaitInv'
<1>0. /\ TypeSem /\ TypeProc /\ TypeFlags /\ Control /\ SleeperCounted
      /\ semval \in Patient /\ TraceOK /\ FetchOK /\ StopOK
  BY Parts DEF WaitInv
<1>8. \A q \in Procs : \/ pc'[q] = pc[q] /\ pc'[q] # "SSLEEP"
                       \/ pc[q] = "SSLEEP" /\ pc'[q] = "SRUN"
  <2>1. /\ semncnt' = Clear(semncnt, Sems) /\ semzcnt' = Clear(semzcnt, Sems)
        /\ pc' = WakeAll(pc, Sems, Sems) /\ UNCHANGED stop
    BY DEF Rmid, RmidWakes
  <2>2. /\ \A q \in Procs : pc'[q] = pc[q] \/ (pc[q] = "SSLEEP" /\ pc'[q] = "SRUN")
        /\ \A q \in Procs : pc'[q] = "SSLEEP" =>
              /\ stop[q].why = "semncnt" => stop[q].num \notin Sems
              /\ stop[q].why = "semzcnt" => stop[q].num \notin Sems
    BY <2>1, ClearWake
  <2>3. \A q \in Procs : /\ stop[q].num \in Sems
                         /\ pc[q] = "SSLEEP" => stop[q].why \in {"semncnt", "semzcnt"}
    BY <1>0 DEF TypeProc, Control
  <2> QED BY <2>2, <2>3
<1>9. \A q \in Procs : pc'[q] \notin Busy
  BY <1>8, NobodyLoops DEF Rmid, InUser, Busy
<1>2. semval' \in Patient'
  <2>1. semval' \in Legal
    BY Parts DEF TypeSem
  <2> QED BY <1>8, <2>1 DEF Patient, Legal
<1>3. TraceOK'
  BY <1>9 DEF TraceOK, Busy
<1>4. FetchOK'
  <2>1. UNCHANGED slept
    BY DEF Rmid
  <2> QED BY <1>0, <1>8, <1>9, <2>1 DEF FetchOK, Busy
<1>5. StopOK'
  BY <1>9 DEF StopOK, Busy
<1> QED BY <1>2, <1>3, <1>4, <1>5 DEF WaitInv

\* After Exit() the sleepers still have to wait.
LEMMA ExitWaits ==
    ASSUME OneEach, SemInv, SemInv', WaitInv, NEW p \in Procs, Exit(p)
    PROVE  WaitInv'
<1>0. /\ TypeSem /\ TypeProc /\ TypeFlags /\ Control /\ SleeperCounted
      /\ semval \in Patient /\ TraceOK /\ FetchOK /\ StopOK
  BY Parts DEF WaitInv
<1> DEFINE mine == {s \in Sems : <<seq, s>> \in DOMAIN undo[p] /\ semconv(seq)}
           new(s) == semval[s] + undo[p][<<seq, s>>]
           good == {s \in mine : new(s) \in 0 .. SEMVMX}
           n == {s \in good : undo[p][<<seq, s>>] > 0}
           z == {s \in good : new(s) = 0}
<1>8. /\ semval' \in Legal
      /\ \A q \in Procs : pc'[q] = pc[q] \/ (pc[q] = "SSLEEP" /\ pc'[q] = "SRUN")
      /\ \A q \in Procs : pc'[q] = "SSLEEP" =>
            /\ stop[q].why = "semncnt" => stop[q].num \notin n
            /\ stop[q].why = "semzcnt" => stop[q].num \notin z
  <2>1. /\ semncnt' = Clear(semncnt, n) /\ semzcnt' = Clear(semzcnt, z)
        /\ pc' = WakeAll(pc, n, z) /\ UNCHANGED stop
    BY DEF Exit, semexit, ExitWakes
  <2>2. semval' \in Legal
    BY Parts DEF TypeSem
  <2> HIDE DEF n, z
  <2> QED BY <2>1, <2>2, ClearWake
<1>9. /\ cpu = NULL /\ UNCHANGED <<call, stop, slept>>
      /\ \A q \in Procs : pc'[q] \notin Busy
  <2>1. cpu = NULL /\ UNCHANGED <<call, stop, slept>>
    BY DEF Exit, InUser
  <2> QED BY <1>8, <2>1, NobodyLoops DEF Busy
<1>2. semval' \in Patient'
  <2>1. ASSUME NEW q \in Procs, pc'[q] = "SSLEEP"
        PROVE  /\ stop[q].why = "semncnt" =>
                     semval'[stop[q].num] <= semval[stop[q].num]
               /\ (~slept[q] /\ stop[q].why = "semzcnt") =>
                     semval'[stop[q].num] # 0
    <3> DEFINE t == stop[q].num
    <3>1. t \in Sems /\ pc[q] = "SSLEEP"
      BY <1>0, <1>8, <2>1 DEF TypeProc
    <3>2. semval[t] \in Nat
      BY <1>0, <3>1, Bounds DEF TypeSem, Legal
    <3>3. semval'[t] = IF t \in good THEN new(t) ELSE semval[t]
      BY <3>1 DEF Exit, semexit
    <3>4. t \in good => undo[p][<<seq, t>>] \in Int
      BY Parts DEF TypeUndo
    <3>5. CASE stop[q].why = "semncnt"
      <4>1. t \notin n
        BY <1>8, <2>1, <3>5
      <4>2. t \in good => semval'[t] = semval[t] + undo[p][<<seq, t>>]
        BY <3>3
      <4>3. t \in good => ~(undo[p][<<seq, t>>] > 0)
        BY <4>1
      <4>4. t \notin good => semval'[t] = semval[t]
        BY <3>3
      <4> HIDE DEF good, t
      <4>5. semval'[t] <= semval[t]
        BY <3>2, <3>4, <4>2, <4>3, <4>4
      <4> QED BY <3>5, <4>5 DEF t
    <3>6. CASE stop[q].why = "semzcnt" /\ ~slept[q]
      <4>1. semval[t] # 0
        BY <1>0, <3>1, <3>6 DEF Patient, MustWait
      <4> QED BY <1>8, <2>1, <3>3, <3>6, <4>1
    <3> QED BY <3>5, <3>6
  <2> QED BY <1>0, <1>8, <1>9, <2>1, ValueKeeps
<1>3. TraceOK'
  BY <1>9 DEF TraceOK, Busy
<1>4. FetchOK'
  <2>1. \A q \in Procs : pc'[q] \in {"fault", "SSLEEP"} => pc[q] = pc'[q]
    BY <1>8
  <2>2. UNCHANGED <<alloc, seq>>
    BY DEF Exit, setVars
  <2> QED BY <1>0, <1>9, <2>1, <2>2 DEF FetchOK, semconv, Busy
<1>5. StopOK'
  BY <1>9 DEF StopOK, Busy
<1> QED BY <1>2, <1>3, <1>4, <1>5 DEF WaitInv

\* After ForkFail() the sleepers still have to wait.
LEMMA ForkFailWaits ==
    ASSUME OneEach, SemInv, SemInv', WaitInv, NEW p \in Procs, ForkFail(p)
    PROVE  WaitInv'
<1>0. /\ TypeSem /\ TypeProc /\ TypeFlags /\ Control /\ SleeperCounted
      /\ semval \in Patient /\ TraceOK /\ FetchOK /\ StopOK
  BY Parts DEF WaitInv
<1> DEFINE mine == {s \in Sems : <<seq, s>> \in DOMAIN undo[p] /\ semconv(seq)}
           new(s) == semval[s] + undo[p][<<seq, s>>]
           good == {s \in mine : new(s) \in 0 .. SEMVMX}
           n == {s \in good : undo[p][<<seq, s>>] > 0}
           z == {s \in good : new(s) = 0}
<1>8. /\ semval' \in Legal
      /\ \A q \in Procs : pc'[q] = pc[q] \/ (pc[q] = "SSLEEP" /\ pc'[q] = "SRUN")
      /\ \A q \in Procs : pc'[q] = "SSLEEP" =>
            /\ stop[q].why = "semncnt" => stop[q].num \notin n
            /\ stop[q].why = "semzcnt" => stop[q].num \notin z
  <2>1. /\ semncnt' = Clear(semncnt, n) /\ semzcnt' = Clear(semzcnt, z)
        /\ pc' = WakeAll(pc, n, z) /\ UNCHANGED stop
    BY DEF ForkFail, semexit, ExitWakes
  <2>2. semval' \in Legal
    BY Parts DEF TypeSem
  <2> HIDE DEF n, z
  <2> QED BY <2>1, <2>2, ClearWake
<1>9. /\ cpu = NULL /\ UNCHANGED <<call, stop, slept>>
      /\ \A q \in Procs : pc'[q] \notin Busy
  <2>1. cpu = NULL /\ UNCHANGED <<call, stop, slept>>
    BY DEF ForkFail, InUser
  <2> QED BY <1>8, <2>1, NobodyLoops DEF Busy
<1>2. semval' \in Patient'
  <2>1. ASSUME NEW q \in Procs, pc'[q] = "SSLEEP"
        PROVE  /\ stop[q].why = "semncnt" =>
                     semval'[stop[q].num] <= semval[stop[q].num]
               /\ (~slept[q] /\ stop[q].why = "semzcnt") =>
                     semval'[stop[q].num] # 0
    <3> DEFINE t == stop[q].num
    <3>1. t \in Sems /\ pc[q] = "SSLEEP"
      BY <1>0, <1>8, <2>1 DEF TypeProc
    <3>2. semval[t] \in Nat
      BY <1>0, <3>1, Bounds DEF TypeSem, Legal
    <3>3. semval'[t] = IF t \in good THEN new(t) ELSE semval[t]
      BY <3>1 DEF ForkFail, semexit
    <3>4. t \in good => undo[p][<<seq, t>>] \in Int
      BY Parts DEF TypeUndo
    <3>5. CASE stop[q].why = "semncnt"
      <4>1. t \notin n
        BY <1>8, <2>1, <3>5
      <4>2. t \in good => semval'[t] = semval[t] + undo[p][<<seq, t>>]
        BY <3>3
      <4>3. t \in good => ~(undo[p][<<seq, t>>] > 0)
        BY <4>1
      <4>4. t \notin good => semval'[t] = semval[t]
        BY <3>3
      <4> HIDE DEF good, t
      <4>5. semval'[t] <= semval[t]
        BY <3>2, <3>4, <4>2, <4>3, <4>4
      <4> QED BY <3>5, <4>5 DEF t
    <3>6. CASE stop[q].why = "semzcnt" /\ ~slept[q]
      <4>1. semval[t] # 0
        BY <1>0, <3>1, <3>6 DEF Patient, MustWait
      <4> QED BY <1>8, <2>1, <3>3, <3>6, <4>1
    <3> QED BY <3>5, <3>6
  <2> QED BY <1>0, <1>8, <1>9, <2>1, ValueKeeps
<1>3. TraceOK'
  BY <1>9 DEF TraceOK, Busy
<1>4. FetchOK'
  <2>1. \A q \in Procs : pc'[q] \in {"fault", "SSLEEP"} => pc[q] = pc'[q]
    BY <1>8
  <2>2. UNCHANGED <<alloc, seq>>
    BY DEF ForkFail, setVars
  <2> QED BY <1>0, <1>9, <2>1, <2>2 DEF FetchOK, semconv, Busy
<1>5. StopOK'
  BY <1>9 DEF StopOK, Busy
<1> QED BY <1>2, <1>3, <1>4, <1>5 DEF WaitInv

\* Stuttering steps.
LEMMA StutterWaits ==
    ASSUME WaitInv, UNCHANGED vars
    PROVE  WaitInv'
<1>0. semval \in Patient /\ TraceOK /\ FetchOK /\ StopOK
  BY DEF WaitInv
<1>1. Patient' = Patient
  BY DEF vars, procVars, Patient, MustWait, Legal
<1>2. semval' \in Patient' /\ TraceOK'
  BY <1>0, <1>1 DEF vars, semVars, procVars, TraceOK
<1>3. FetchOK' /\ StopOK'
  BY <1>0 DEF vars, setVars, semVars, procVars, FetchOK, StopOK, Stopped, semconv
<1> QED BY <1>2, <1>3 DEF WaitInv

\* The initial state.
LEMMA InitWaitInv == Init => WaitInv
<1> SUFFICES ASSUME Init PROVE WaitInv
  OBVIOUS
<1>1. semval \in Legal
  BY InitSemInv, Parts DEF TypeSem
<1>2. \A p \in Procs : pc[p] = "user"
  BY DEF Init
<1> QED BY <1>1, <1>2 DEF WaitInv, Patient, TraceOK, FetchOK, StopOK

\* Every step.
LEMMA NextWaitInv ==
    ASSUME OneEach
    PROVE  SemInv /\ SemInv' /\ WaitInv /\ [Next]_vars => WaitInv'
<1> SUFFICES ASSUME SemInv, SemInv', WaitInv, [Next]_vars PROVE WaitInv'
  OBVIOUS
<1>1. CASE UNCHANGED vars
  BY <1>1, StutterWaits
<1>2. ASSUME NEW p \in Procs, NEW ops \in Lists, Semop(p, ops) PROVE WaitInv'
  BY <1>2, SemopWaits
<1>3. ASSUME NEW p \in Procs, Kernel(p) PROVE WaitInv'
  BY <1>3, CopyinWaits, CopyinFaultWaits, SemChangeWaits, SemIsZeroWaits,
     SemStopWaits, SemundoWaits, SemFailWaits, SemSleepWaits, SemIntrWaits,
     SemCheckWaits, SemDoneWaits DEF Kernel
<1>4. ASSUME NEW p \in Procs, CopyinResume(p) \/ SemResume(p) \/ Signal(p)
      PROVE  WaitInv'
  BY <1>4, CopyinResumeWaits, SemResumeWaits, SignalWaits
<1>5. ASSUME NEW p \in Procs,
             Semget(p) \/ Rmid(p) \/ Exit(p) \/ ForkFail(p) \/ ThreadExit(p)
      PROVE  WaitInv'
  BY <1>5, SemgetWaits, RmidWaits, ExitWaits, ForkFailWaits, ThreadExitWaits
<1>6. ASSUME NEW p \in Procs, NEW s \in Sems, NEW v \in Values, SetVal(p, s, v)
      PROVE  WaitInv'
  BY <1>6, SetValWaits
<1>7. ASSUME NEW p \in Procs, NEW new \in [Sems -> Values], SetAll(p, new)
      PROVE  WaitInv'
  BY <1>7, SetAllWaits
<1>8. ASSUME NEW p \in Procs, SetAllFault(p) \/ SetAllRange(p) PROVE WaitInv'
  BY <1>8, SetAllFaultWaits, SetAllRangeWaits
<1>9. ASSUME NEW p \in Procs, NEW new \in [Sems -> 0 .. SEMVMX],
             SetAllResume(p, new)
      PROVE  WaitInv'
  BY <1>9, SetAllResumeWaits
<1> QED BY <1>1, <1>2, <1>3, <1>4, <1>5, <1>6, <1>7, <1>8, <1>9 DEF Next

\* The invariant says what is wanted.
LEMMA WaitInvSafe == SemInv /\ WaitInv => SleepersMustWait
<1> SUFFICES ASSUME SemInv, WaitInv, NEW p \in Procs, pc[p] = "SSLEEP", ~slept[p]
             PROVE  /\ semconv(call[p].id)
                    /\ stop[p].why = "semzcnt" => semval[stop[p].num] # 0
                    /\ stop[p].why = "semncnt" =>
                          \E i \in DOMAIN call[p].ops :
                             LET op == call[p].ops[i]
                             IN  op.num = stop[p].num /\ op.op < 0 /\ ~Fits(op)
  BY DEF SleepersMustWait
<1>1. semconv(call[p].id)
  BY DEF WaitInv, FetchOK
<1>2. MustWait(semval, p)
  BY DEF WaitInv, Patient
<1>3. TypeSem /\ TypeProc
  BY Parts
<1>4. stop[p].num \in Sems /\ semval[stop[p].num] \in Int
  BY <1>3, Bounds DEF TypeProc, TypeSem, Legal
<1>5. ASSUME stop[p].why = "semncnt"
      PROVE  \E i \in DOMAIN call[p].ops :
                LET op == call[p].ops[i]
                IN  op.num = stop[p].num /\ op.op < 0 /\ ~Fits(op)
  <2>1. PICK i \in DOMAIN call[p].ops :
          /\ call[p].ops[i].num = stop[p].num /\ call[p].ops[i].op < 0
          /\ semval[stop[p].num] < -call[p].ops[i].op
    BY <1>2, <1>5 DEF MustWait
  <2>2. call[p].ops[i].op \in Int
    BY <1>3, CallFacts, OpFacts
  <2>3. ~Fits(call[p].ops[i])
    BY <1>4, <2>1, <2>2 DEF Fits
  <2> QED BY <2>1, <2>3
<1> QED BY <1>1, <1>2, <1>5 DEF MustWait


(***************************************************************************)
(* The theorems.                                                           *)
(***************************************************************************)

\* Every variable has its type, for any number of processes, semaphores and
\* operation lists: the loop of semop(), its rollback, SETVAL, SETALL, IPC_RMID
\* and semexit() never take a value outside 0 .. semvmx.
THEOREM Typed == Spec => []TypeOK
<1>1. ASSUME SemInv PROVE TypeOK
  <2>1. ASSUME NEW p \in Procs, NEW k \in DOMAIN undo[p]
        PROVE  undo[p][k] \in -SEMAEM .. SEMAEM
    <3>1. undo[p][k] \in Int /\ Adjustable(undo[p][k])
      BY <1>1 DEF SemInv, TypeUndo, UndoInv, UndoChainSound
    <3> QED BY <3>1, Bounds DEF Adjustable
  <2> QED BY <1>1, <2>1
          DEF SemInv, TypeOK, TypeUndo, TypeSem, TypeProc, TypeFlags, Legal
<1> QED BY <1>1, Invariant, PTL

\* Nobody is asleep on a semaphore whose counter says that nobody is, so that
\* wakeprocs() is never skipped while there is somebody to wake.
THEOREM Counted == Spec => []SleeperCounted
<1>1. SemInv => SleeperCounted
  BY DEF SemInv
<1> QED BY <1>1, Invariant, PTL

\* The chain that semunrm() walks holds exactly the structures with entries, the
\* tables keep to semmnu and semume, and their entries to semaem.
THEOREM UndoChain == Spec => []UndoChainSound
<1>1. SemInv => UndoChainSound
  BY DEF SemInv, UndoInv
<1> QED BY <1>1, Invariant, PTL

\* When no list names a semaphore twice there is no lost wakeup: while a process
\* sleeps, the operation it sleeps for cannot be done and its set exists.
THEOREM NoLostWakeup ==
    ASSUME OneEach
    PROVE  Spec => []SleepersMustWait
<1>1. Init => WaitInv
  BY InitWaitInv
<1>2. SemInv /\ SemInv' /\ WaitInv /\ [Next]_vars => WaitInv'
  BY NextWaitInv
<1>3. SemInv /\ WaitInv => SleepersMustWait
  BY WaitInvSafe
<1> QED BY <1>1, <1>2, <1>3, Invariant, PTL DEF Spec
=============================================================================

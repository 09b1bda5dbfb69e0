----------------------------- MODULE BioProofs -----------------------------
(***************************************************************************)
(* Proofs about the buffer cache of os/bio.c, for any number of processes, *)
(* buffers and blocks and any sizes.  A call changes the cache one buffer  *)
(* at a time: the lemmas of the first half say what each routine does to   *)
(* its buffer, to the two lists and to the memory, and what it may not do  *)
(* to those who sleep; those of the second half put them together, one     *)
(* action at a time.                                                       *)
(***************************************************************************)
EXTENDS Bio, FiniteSetTheorems, WellFoundedInduction, TLAPS

(***************************************************************************)
(* Induction, with sets of numbers.                                        *)
(***************************************************************************)

\* A set of natural numbers has a least element.
LEMMA Least ==
    ASSUME NEW T, T \subseteq Nat, T # {}
    PROVE  \E n \in T : \A m \in T : n <= m
<1>1. PICK x \in T : \A y \in T : ~(<<y, x>> \in OpToRel(<, Nat))
  BY NatLessThanWellFounded, WFMin
<1>2. \A y \in T : ~(y < x)
  BY <1>1 DEF OpToRel
<1>3. QED
  BY <1>2

\* A set that has 0, and with every number the next one, up to N, has them all.
LEMMA Induction ==
    ASSUME NEW S, NEW N \in Nat, 0 \in S,
           \A n \in 1 .. N : n - 1 \in S => n \in S
    PROVE  \A n \in 0 .. N : n \in S
<1> DEFINE T == {n \in 0 .. N : n \notin S}
<1>1. SUFFICES ASSUME T # {} PROVE FALSE
  OBVIOUS
<1>2. PICK n \in T : \A m \in T : n <= m
  <2>1. T \subseteq Nat
    OBVIOUS
  <2>2. QED
    BY <2>1, <1>1, Least
<1>3. n \in 0 .. N /\ n \notin S /\ n # 0
  BY <1>2
<1>4. n \in 1 .. N /\ n - 1 \in 0 .. N
  BY <1>3
<1>5. n - 1 \in T
  BY <1>3, <1>4
<1>6. QED
  BY <1>2, <1>4, <1>5

(***************************************************************************)
(* Lists on which nothing is twice.                                        *)
(***************************************************************************)
NoDup(s) == \A i, j \in DOMAIN s : s[i] = s[j] => i = j

\* Linking at the tail adds exactly the new buffer, once.
LEMMA TailList ==
    ASSUME NEW s \in Seq(Buffers), NoDup(s), NEW b \in Buffers, b \notin OnList(s)
    PROVE  /\ Append(s, b) \in Seq(Buffers)
           /\ NoDup(Append(s, b))
           /\ OnList(Append(s, b)) = OnList(s) \cup {b}
           /\ Append(s, b) # <<>>
<1> DEFINE t == Append(s, b)
<1>1. /\ t \in Seq(Buffers) /\ Len(t) = Len(s) + 1 /\ Len(s) \in Nat
      /\ DOMAIN t = 1 .. Len(s) + 1 /\ DOMAIN s = 1 .. Len(s)
      /\ t[Len(s) + 1] = b
      /\ \A i \in 1 .. Len(s) : t[i] = s[i]
  OBVIOUS
<1>2. \A i \in 1 .. Len(s) : s[i] # b
  BY <1>1 DEF OnList
<1>5. t # <<>>
  BY <1>1
<1> HIDE DEF t
<1>3. NoDup(t)
  BY <1>1, <1>2 DEF NoDup
<1>4. OnList(t) = OnList(s) \cup {b}
  <2>1. \A i \in DOMAIN t : t[i] \in OnList(s) \cup {b}
    BY <1>1 DEF OnList
  <2>2. \A i \in DOMAIN s : i \in DOMAIN t /\ t[i] = s[i]
    BY <1>1
  <2>3. b \in OnList(t)
    BY <1>1 DEF OnList
  <2>4. QED
    BY <2>1, <2>2, <2>3 DEF OnList
<1>6. QED
  BY <1>1, <1>3, <1>4, <1>5 DEF t

\* So does linking at the head.
LEMMA HeadList ==
    ASSUME NEW s \in Seq(Buffers), NoDup(s), NEW b \in Buffers, b \notin OnList(s)
    PROVE  /\ <<b>> \o s \in Seq(Buffers)
           /\ NoDup(<<b>> \o s)
           /\ OnList(<<b>> \o s) = OnList(s) \cup {b}
           /\ <<b>> \o s # <<>>
<1> DEFINE t == <<b>> \o s
<1>1. /\ t \in Seq(Buffers) /\ Len(t) = Len(s) + 1 /\ Len(s) \in Nat
      /\ DOMAIN t = 1 .. Len(s) + 1 /\ DOMAIN s = 1 .. Len(s)
      /\ t[1] = b
      /\ \A i \in 1 .. Len(s) : t[i + 1] = s[i]
  OBVIOUS
<1>2. \A i \in 1 .. Len(s) : s[i] # b
  BY <1>1 DEF OnList
<1>5. t # <<>>
  BY <1>1
<1> HIDE DEF t
<1>7. \A i \in DOMAIN t : i = 1 \/ (i - 1 \in DOMAIN s /\ t[i] = s[i - 1])
  BY <1>1
<1>3. NoDup(t)
  <2> SUFFICES ASSUME NEW i \in DOMAIN t, NEW j \in DOMAIN t, t[i] = t[j]
               PROVE  i = j
    BY DEF NoDup
  <2>1. CASE i = 1 \/ j = 1
    BY <2>1, <1>1, <1>2, <1>7
  <2>2. CASE i # 1 /\ j # 1
    <3>1. i - 1 = j - 1
      BY <2>2, <1>7 DEF NoDup
    <3>2. QED
      BY <3>1, <1>1
  <2>3. QED
    BY <2>1, <2>2
<1>4. OnList(t) = OnList(s) \cup {b}
  <2>1. \A i \in DOMAIN t : t[i] \in OnList(s) \cup {b}
    BY <1>1, <1>7 DEF OnList
  <2>2. \A i \in DOMAIN s : i + 1 \in DOMAIN t /\ t[i + 1] = s[i]
    BY <1>1
  <2>3. b \in OnList(t)
    BY <1>1 DEF OnList
  <2>4. QED
    BY <2>1, <2>2, <2>3 DEF OnList
<1>6. QED
  BY <1>1, <1>3, <1>4, <1>5 DEF t

\* Taking a buffer off a list takes exactly that one, and keeps the order.
LEMMA WithoutList ==
    ASSUME NEW s \in Seq(Buffers), NoDup(s), NEW b \in OnList(s)
    PROVE  /\ Without(s, b) \in Seq(Buffers)
           /\ NoDup(Without(s, b))
           /\ OnList(Without(s, b)) = OnList(s) \ {b}
           /\ Len(Without(s, b)) = Len(s) - 1
           /\ \A i, j \in DOMAIN Without(s, b) : i < j =>
                 \E x, y \in DOMAIN s : x < y /\ Without(s, b)[i] = s[x] /\ Without(s, b)[j] = s[y]
<1> DEFINE k == CHOOSE i \in DOMAIN s : s[i] = b
           r == Without(s, b)
<1>1. DOMAIN s = 1 .. Len(s) /\ Len(s) \in Nat /\ \A i \in 1 .. Len(s) : s[i] \in Buffers
  OBVIOUS
<1>2. k \in 1 .. Len(s) /\ s[k] = b
  BY <1>1 DEF OnList
<1> HIDE DEF k
<1>3. r = [i \in 1 .. Len(s) - 1 |-> IF i < k THEN s[i] ELSE s[i + 1]]
  BY DEF Without, k
<1>4. r \in Seq(Buffers) /\ DOMAIN r = 1 .. Len(s) - 1 /\ Len(r) = Len(s) - 1
  <2>1. Len(s) - 1 \in Nat
    BY <1>1, <1>2
  <2>2. \A i \in 1 .. Len(s) - 1 : (IF i < k THEN s[i] ELSE s[i + 1]) \in Buffers
    BY <1>1, <1>2
  <2> HIDE DEF r
  <2>3. r \in [1 .. Len(s) - 1 -> Buffers]
    BY <2>2, <1>3
  <2>4. QED
    BY <2>1, <2>3
<1>5. \A i \in DOMAIN r : /\ i < k => r[i] = s[i] /\ i \in DOMAIN s
                          /\ i >= k => r[i] = s[i + 1] /\ i + 1 \in DOMAIN s
  BY <1>1, <1>2, <1>3, <1>4
<1> HIDE DEF r
<1>6. OnList(r) = OnList(s) \ {b}
  <2>1. \A i \in DOMAIN r : r[i] \in OnList(s) /\ r[i] # b
    BY <1>1, <1>2, <1>4, <1>5, SMTT(30) DEF OnList, NoDup
  <2>2. ASSUME NEW x \in OnList(s), x # b PROVE x \in OnList(r)
    <3>1. PICK i \in 1 .. Len(s) : s[i] = x
      BY <1>1, <2>2 DEF OnList
    <3>2. CASE i < k
      <4>1. i \in DOMAIN r /\ r[i] = x
        BY <3>1, <3>2, <1>1, <1>2, <1>4, <1>5
      <4>2. QED
        BY <4>1 DEF OnList
    <3>3. CASE i > k
      <4>1. i - 1 \in DOMAIN r /\ r[i - 1] = x
        BY <3>1, <3>3, <1>1, <1>2, <1>4, <1>5
      <4>2. QED
        BY <4>1 DEF OnList
    <3>4. i # k
      BY <3>1, <2>2, <1>2
    <3>5. QED
      BY <3>1, <3>2, <3>3, <3>4, <1>2
  <2>3. QED
    BY <2>1, <2>2 DEF OnList
<1>7. NoDup(r)
  BY <1>1, <1>2, <1>4, <1>5 DEF NoDup
<1>8. ASSUME NEW i \in DOMAIN r, NEW j \in DOMAIN r, i < j
      PROVE  \E x, y \in DOMAIN s : x < y /\ r[i] = s[x] /\ r[j] = s[y]
  <2>1. PICK x \in DOMAIN s : r[i] = s[x] /\ x = IF i < k THEN i ELSE i + 1
    BY <1>1, <1>2, <1>4, <1>5
  <2>2. PICK y \in DOMAIN s : r[j] = s[y] /\ y = IF j < k THEN j ELSE j + 1
    BY <1>1, <1>2, <1>4, <1>5
  <2>3. x < y
    BY <2>1, <2>2, <1>8, <1>1, <1>2, <1>4
  <2>4. QED
    BY <2>1, <2>2, <2>3
<1>9. QED
  BY <1>4, <1>6, <1>7, <1>8 DEF r

\* The length of such a list is the number of the buffers on it.
LEMMA ListLength ==
    ASSUME NEW s \in Seq(Buffers), NoDup(s)
    PROVE  Len(s) \in Nat /\ Len(s) = Cardinality(OnList(s)) /\ Len(s) <= Cardinality(Buffers)
<1>1. Len(s) \in Nat /\ DOMAIN s = 1 .. Len(s) /\ s \in [1 .. Len(s) -> Buffers]
  OBVIOUS
<1>2. s \in Bijection(1 .. Len(s), OnList(s))
  <2>1. s \in [1 .. Len(s) -> OnList(s)]
    BY <1>1 DEF OnList
  <2>2. QED
    BY <2>1, <1>1 DEF OnList, NoDup, Bijection, Injection, Surjection, IsInjective
<1>3. ExistsBijection(1 .. Len(s), OnList(s))
  BY <1>2 DEF ExistsBijection
<1>4. Cardinality(OnList(s)) = Len(s)
  BY <1>1, <1>3, FS_CountingElements
<1>5. OnList(s) \in SUBSET Buffers
  BY <1>1 DEF OnList
<1>6. Cardinality(OnList(s)) <= Cardinality(Buffers)
  BY <1>5, HeadersSuffice, FS_Subset
<1>7. QED
  BY <1>1, <1>4, <1>6
(***************************************************************************)
(* The loops of getfreeblk() and bflush(), and the sum of the sizes: the   *)
(* recursions end.                                                         *)
(***************************************************************************)
TakeLoop(size) ==
    CHOOSE g : g = [i \in 0 .. Cardinality(Buffers) |->
        IF i = 0 THEN [k |-> Cache, save |-> NULL]
        ELSE IF Enough(g[i - 1], size) THEN g[i - 1] ELSE TakeFree(g[i - 1], size)]

FlushLoop(k) ==
    CHOOSE g : g = [i \in 0 .. Len(k.free) |->
        IF i = 0 THEN k
        ELSE IF "DELWRI" \in k.buf[k.free[i]].flags THEN WriteAsync(g[i - 1], k.free[i])
        ELSE g[i - 1]]

\* The headers are finitely many.
LEMMA Headers == Cardinality(Buffers) \in Nat
  BY HeadersSuffice, FS_CardinalityType

\* The loop of getfreeblk().
LEMMA TakeLoopIs ==
    ASSUME NEW size
    PROVE  /\ Reclaim(size) = TakeLoop(size)[Cardinality(Buffers)]
           /\ TakeLoop(size) =
                [i \in 0 .. Cardinality(Buffers) |->
                    IF i = 0 THEN [k |-> Cache, save |-> NULL]
                    ELSE IF Enough(TakeLoop(size)[i - 1], size) THEN TakeLoop(size)[i - 1]
                    ELSE TakeFree(TakeLoop(size)[i - 1], size)]
<1> DEFINE start == [k |-> Cache, save |-> NULL]
<1> DEFINE step(x, i) == IF Enough(x, size) THEN x ELSE TakeFree(x, size)
           body(f, i) == IF i = 0 THEN start ELSE step(f[i - 1], i)
           S == {n \in Nat : \E f : f = [i \in 0 .. n |-> body(f, i)]}
<1>0. Cardinality(Buffers) \in Nat
  BY Headers
<1> HIDE DEF start
<1> HIDE DEF step
<1>1. 0 \in S
  <2> DEFINE f == [i \in 0 .. 0 |-> start]
  <2>1. f = [i \in 0 .. 0 |-> body(f, i)]
    OBVIOUS
  <2>2. QED
    BY <2>1
<1>2. ASSUME NEW n \in 1 .. Cardinality(Buffers), n - 1 \in S PROVE n \in S
  <2>1. PICK f : f = [i \in 0 .. n - 1 |-> body(f, i)]
    BY <1>2
  <2> DEFINE h == [i \in 0 .. n |-> IF i = n THEN step(f[n - 1], n) ELSE f[i]]
  <2>2. ASSUME NEW i \in 0 .. n PROVE h[i] = body(h, i)
    <3>1. CASE i = n
      <4>1. h[n - 1] = f[n - 1] /\ n # 0
        OBVIOUS
      <4>2. h[n] = step(f[n - 1], n)
        OBVIOUS
      <4> HIDE DEF h
      <4>3. QED
        BY <4>1, <4>2, <3>1
    <3>2. CASE i # n
      <4>1. i \in 0 .. n - 1
        BY <3>2
      <4>2. f[i] = body(f, i)
        BY <2>1, <4>1
      <4>3. h[i] = f[i] /\ (i # 0 => h[i - 1] = f[i - 1])
        BY <4>1
      <4> HIDE DEF h
      <4>4. QED
        BY <4>2, <4>3
    <3>3. QED
      BY <3>1, <3>2
  <2>3. h = [i \in 0 .. n |-> body(h, i)]
    <3>1. h = [i \in 0 .. n |-> h[i]]
      OBVIOUS
    <3> HIDE DEF h, body
    <3>2. QED
      BY <3>1, <2>2
  <2> HIDE DEF h
  <2>4. QED
    BY <2>3
<1>3. Cardinality(Buffers) \in S
  <2> HIDE DEF S
  <2>1. QED
    BY <1>0, <1>1, <1>2, Induction
<1>4. \E f : f = [i \in 0 .. Cardinality(Buffers) |-> body(f, i)]
  BY <1>3
<1>5. QED
  BY <1>4 DEF start, step, TakeLoop, Reclaim

\* The loop of bflush().
LEMMA FlushLoopIs ==
    ASSUME NEW k, k.free \in Seq(Buffers)
    PROVE  /\ bflush(k) = FlushLoop(k)[Len(k.free)]
           /\ FlushLoop(k) =
                [i \in 0 .. Len(k.free) |->
                    IF i = 0 THEN k
                    ELSE IF "DELWRI" \in k.buf[k.free[i]].flags
                         THEN WriteAsync(FlushLoop(k)[i - 1], k.free[i])
                    ELSE FlushLoop(k)[i - 1]]
<1> DEFINE step(x, i) == IF "DELWRI" \in k.buf[k.free[i]].flags THEN WriteAsync(x, k.free[i]) ELSE x
           body(f, i) == IF i = 0 THEN k ELSE step(f[i - 1], i)
           S == {n \in Nat : \E f : f = [i \in 0 .. n |-> body(f, i)]}
<1>0. Len(k.free) \in Nat
  OBVIOUS
<1> HIDE DEF step
<1>1. 0 \in S
  <2> DEFINE f == [i \in 0 .. 0 |-> k]
  <2>1. f = [i \in 0 .. 0 |-> body(f, i)]
    OBVIOUS
  <2>2. QED
    BY <2>1
<1>2. ASSUME NEW n \in 1 .. Len(k.free), n - 1 \in S PROVE n \in S
  <2>1. PICK f : f = [i \in 0 .. n - 1 |-> body(f, i)]
    BY <1>2
  <2> DEFINE h == [i \in 0 .. n |-> IF i = n THEN step(f[n - 1], n) ELSE f[i]]
  <2>2. ASSUME NEW i \in 0 .. n PROVE h[i] = body(h, i)
    <3>1. CASE i = n
      <4>1. h[n - 1] = f[n - 1] /\ n # 0
        OBVIOUS
      <4>2. h[n] = step(f[n - 1], n)
        OBVIOUS
      <4> HIDE DEF h
      <4>3. QED
        BY <4>1, <4>2, <3>1
    <3>2. CASE i # n
      <4>1. i \in 0 .. n - 1
        BY <3>2
      <4>2. f[i] = body(f, i)
        BY <2>1, <4>1
      <4>3. h[i] = f[i] /\ (i # 0 => h[i - 1] = f[i - 1])
        BY <4>1
      <4> HIDE DEF h
      <4>4. QED
        BY <4>2, <4>3
    <3>3. QED
      BY <3>1, <3>2
  <2>3. h = [i \in 0 .. n |-> body(h, i)]
    <3>1. h = [i \in 0 .. n |-> h[i]]
      OBVIOUS
    <3> HIDE DEF h, body
    <3>2. QED
      BY <3>1, <2>2
  <2> HIDE DEF h
  <2>4. QED
    BY <2>3
<1>3. Len(k.free) \in S
  <2> HIDE DEF S
  <2> DEFINE N == Len(k.free)
  <2>1. N \in Nat /\ \A n \in 1 .. N : n - 1 \in S => n \in S
    BY <1>0, <1>2
  <2> HIDE DEF N
  <2>2. \A n \in 0 .. N : n \in S
    BY <1>1, <2>1, Induction, Zenon
  <2>3. N \in S
    BY <2>1, <2>2
  <2>4. QED
    BY <2>3 DEF N
<1>4. \E f : f = [i \in 0 .. Len(k.free) |-> body(f, i)]
  BY <1>3
<1>5. QED
  BY <1>4 DEF step, FlushLoop, bflush

(***************************************************************************)
(* Sums over sets of buffers.                                              *)
(***************************************************************************)
Pick(S) == CHOOSE c \in S : TRUE
Rest(S) == S \ {Pick(S)}

Sum(size) ==
    CHOOSE sum : sum = [S \in SUBSET Buffers |->
        IF S = {} THEN 0 ELSE size[Pick(S)] + sum[Rest(S)]]

\* Sets of buffers are finite, and Rest(S) has one less than S.
LEMMA RestSmaller ==
    ASSUME NEW S \in SUBSET Buffers
    PROVE  /\ Cardinality(S) \in Nat /\ Cardinality(S) <= Cardinality(Buffers)
           /\ Cardinality(S) = 0 <=> S = {}
           /\ S # {} => /\ Pick(S) \in S /\ Rest(S) \in SUBSET Buffers
                        /\ Cardinality(Rest(S)) = Cardinality(S) - 1
<1>1. IsFiniteSet(S) /\ Cardinality(S) \in Nat /\ Cardinality(S) <= Cardinality(Buffers)
  BY HeadersSuffice, FS_Subset, FS_CardinalityType
<1>2. Cardinality(S) = 0 <=> S = {}
  BY <1>1, FS_EmptySet
<1>3. S # {} => Pick(S) \in S
  BY DEF Pick
<1>4. S # {} => Cardinality(Rest(S)) = Cardinality(S) - 1
  BY <1>1, <1>3, FS_RemoveElement DEF Rest
<1>5. QED
  BY <1>1, <1>2, <1>3, <1>4 DEF Rest

\* Induction over sets of buffers.
LEMMA SetInduction ==
    ASSUME NEW P, {} \in P,
           \A S \in SUBSET Buffers : S # {} /\ Rest(S) \in P => S \in P
    PROVE  \A S \in SUBSET Buffers : S \in P
<1> DEFINE T == {n \in Nat : \A S \in SUBSET Buffers : Cardinality(S) = n => S \in P}
<1>1. 0 \in T
  <2>1. ASSUME NEW S \in SUBSET Buffers, Cardinality(S) = 0 PROVE S \in P
    BY <2>1, RestSmaller
  <2>2. QED
    BY <2>1
<1>2. ASSUME NEW n \in 1 .. Cardinality(Buffers), n - 1 \in T PROVE n \in T
  <2>1. ASSUME NEW S \in SUBSET Buffers, Cardinality(S) = n PROVE S \in P
    <3>1. S # {} /\ Rest(S) \in SUBSET Buffers /\ Cardinality(Rest(S)) = n - 1
      BY <2>1, RestSmaller
    <3>2. Rest(S) \in P
      BY <3>1, <1>2
    <3>3. QED
      BY <3>1, <3>2
  <2>2. n \in Nat
    BY Headers
  <2>3. QED
    BY <2>1, <2>2
<1> HIDE DEF T
<1>3. \A n \in 0 .. Cardinality(Buffers) : n \in T
  BY <1>1, <1>2, Headers, Induction
<1>4. ASSUME NEW S \in SUBSET Buffers PROVE S \in P
  <2>1. Cardinality(S) \in 0 .. Cardinality(Buffers)
    BY RestSmaller, Headers
  <2>2. Cardinality(S) \in T
    BY <2>1, <1>3
  <2>3. QED
    BY <2>2 DEF T
<1>5. QED
  BY <1>4

\* The recursion of SumSizes() ends.
LEMMA SumIs ==
    ASSUME NEW size
    PROVE  /\ SumSizes(size) = Sum(size)[Buffers]
           /\ Sum(size) = [S \in SUBSET Buffers |->
                             IF S = {} THEN 0 ELSE size[Pick(S)] + Sum(size)[Rest(S)]]
<1> DEFINE body(f, S) == IF S = {} THEN 0 ELSE size[Pick(S)] + f[Rest(S)]
           Upto(n) == {S \in SUBSET Buffers : Cardinality(S) <= n}
           T == {n \in Nat : \E f : f = [S \in Upto(n) |-> body(f, S)]}
<1>0. /\ \A n \in Nat : \A S \in Upto(n) : S # {} => Rest(S) \in Upto(n) /\ n # 0 /\ Rest(S) \in Upto(n - 1)
      /\ \A n \in Nat : \A S \in Upto(n) : S \in Upto(n - 1) \/ Cardinality(S) = n
      /\ \A n \in Nat : \A S \in Upto(n - 1) : S \in Upto(n) /\ Cardinality(S) # n
      /\ Upto(Cardinality(Buffers)) = SUBSET Buffers
      /\ Upto(0) = {{}}
  BY RestSmaller
<1>6. \A f, g, S : (S # {} => f[Rest(S)] = g[Rest(S)]) => body(f, S) = body(g, S)
  OBVIOUS
<1> HIDE DEF Upto
<1>1. 0 \in T
  <2> DEFINE f == [S \in Upto(0) |-> 0]
  <2>1. f = [S \in Upto(0) |-> body(f, S)]
    BY <1>0
  <2>2. QED
    BY <2>1
<1>2. ASSUME NEW n \in 1 .. Cardinality(Buffers), n - 1 \in T PROVE n \in T
  <2>0. n \in Nat
    BY Headers
  <2>1. PICK f : f = [S \in Upto(n - 1) |-> body(f, S)]
    BY <1>2
  <2> HIDE DEF body
  <2> DEFINE h == [S \in Upto(n) |-> IF Cardinality(S) = n THEN body(f, S) ELSE f[S]]
  <2>2. ASSUME NEW S \in Upto(n) PROVE h[S] = body(h, S)
    <3>1. S # {} => h[Rest(S)] = f[Rest(S)]
      BY <2>0, <1>0
    <3>2. body(h, S) = body(f, S)
      <4> HIDE DEF h
      <4>1. QED
        BY <3>1, <1>6
    <3>3. h[S] = body(f, S)
      <4>1. CASE Cardinality(S) = n
        BY <4>1
      <4>2. CASE Cardinality(S) # n
        <5>1. S \in Upto(n - 1)
          BY <4>2, <2>0, <1>0
        <5>2. f[S] = body(f, S)
          BY <5>1, <2>1
        <5>3. QED
          BY <5>2, <4>2
      <4>3. QED
        BY <4>1, <4>2
    <3>4. QED
      BY <3>2, <3>3
  <2>3. h = [S \in Upto(n) |-> body(h, S)]
    <3>1. h = [S \in Upto(n) |-> h[S]]
      OBVIOUS
    <3> HIDE DEF h
    <3>2. QED
      BY <3>1, <2>2
  <2> HIDE DEF h
  <2>4. QED
    BY <2>0, <2>3
<1>3. Cardinality(Buffers) \in T
  <2> HIDE DEF T
  <2>1. QED
    BY <1>1, <1>2, Headers, Induction
<1>4. \E f : f = [S \in SUBSET Buffers |-> body(f, S)]
  BY <1>3, <1>0
<1>5. QED
  BY <1>4 DEF Sum, SumSizes, Pick, Rest

\* The sum over nothing, and over a set with a first element.
LEMMA SumSteps ==
    ASSUME NEW size
    PROVE  /\ SumSizes(size) = Sum(size)[Buffers]
           /\ Sum(size)[{}] = 0
           /\ \A S \in SUBSET Buffers : S # {} =>
                 Sum(size)[S] = size[Pick(S)] + Sum(size)[Rest(S)]
<1> DEFINE f == Sum(size)
<1>1. f = [S \in SUBSET Buffers |-> IF S = {} THEN 0 ELSE size[Pick(S)] + f[Rest(S)]]
  BY SumIs, Zenon
<1> HIDE DEF f
<1>2. /\ f[{}] = 0
      /\ \A S \in SUBSET Buffers : S # {} => f[S] = size[Pick(S)] + f[Rest(S)]
  BY <1>1
<1>3. QED
  BY <1>2, SumIs DEF f

\* A change of one size changes the sum by as much.
LEMMA SumChange ==
    ASSUME NEW v \in [Buffers -> Nat], NEW w \in [Buffers -> Nat], NEW b \in Buffers,
           \A c \in Buffers \ {b} : v[c] = w[c]
    PROVE  /\ SumSizes(v) \in Nat /\ SumSizes(w) \in Nat
           /\ SumSizes(w) = SumSizes(v) + w[b] - v[b]
<1> DEFINE P == {S \in SUBSET Buffers :
                   /\ Sum(v)[S] \in Nat /\ Sum(w)[S] \in Nat
                   /\ Sum(w)[S] = Sum(v)[S] + IF b \in S THEN w[b] - v[b] ELSE 0}
<1>1. Sum(v)[{}] = 0 /\ Sum(w)[{}] = 0
  BY SumSteps
<1>2. {} \in P
  BY <1>1
<1>3. ASSUME NEW S \in SUBSET Buffers, S # {}, Rest(S) \in P PROVE S \in P
  <2>1. /\ Sum(v)[S] = v[Pick(S)] + Sum(v)[Rest(S)]
        /\ Sum(w)[S] = w[Pick(S)] + Sum(w)[Rest(S)]
    BY SumSteps, <1>3
  <2>2. Pick(S) \in S /\ v[Pick(S)] \in Nat /\ w[Pick(S)] \in Nat
    BY RestSmaller, <1>3
  <2>3. CASE Pick(S) = b
    <3>1. b \notin Rest(S) /\ b \in S
      BY <2>2, <2>3 DEF Rest
    <3>2. QED
      BY <3>1, <2>1, <2>2, <2>3, <1>3
  <2>4. CASE Pick(S) # b
    <3>1. b \in Rest(S) <=> b \in S
      BY <2>4 DEF Rest
    <3>2. v[Pick(S)] = w[Pick(S)]
      BY <2>2, <2>4
    <3>3. v[b] \in Nat /\ w[b] \in Nat
      OBVIOUS
    <3>4. QED
      BY <3>1, <3>2, <3>3, <2>1, <2>2, <1>3
  <2>5. QED
    BY <2>3, <2>4
<1> HIDE DEF P
<1>4. Buffers \in P
  BY <1>2, <1>3, SetInduction
<1>5. QED
  BY <1>4, SumSteps DEF P

\* Buffers that all have memory use at least one unit each.
LEMMA SumAtLeast ==
    ASSUME NEW v \in [Buffers -> Nat], \A c \in Buffers : v[c] > 0
    PROVE  SumSizes(v) >= Cardinality(Buffers)
<1> DEFINE P == {S \in SUBSET Buffers : Sum(v)[S] \in Nat /\ Sum(v)[S] >= Cardinality(S)}
<1>1. {} \in P
  BY SumSteps, FS_EmptySet
<1>2. ASSUME NEW S \in SUBSET Buffers, S # {}, Rest(S) \in P PROVE S \in P
  <2>1. Sum(v)[S] = v[Pick(S)] + Sum(v)[Rest(S)]
    BY SumSteps, <1>2
  <2>2. /\ Cardinality(Rest(S)) = Cardinality(S) - 1 /\ Cardinality(S) \in Nat
        /\ v[Pick(S)] \in Nat /\ v[Pick(S)] > 0
    BY RestSmaller, <1>2
  <2>3. QED
    BY <2>1, <2>2, <1>2
<1> HIDE DEF P
<1>3. Buffers \in P
  BY <1>1, <1>2, SetInduction
<1>4. QED
  BY <1>3, SumSteps DEF P

\* At the start no buffer has memory.
LEMMA SumZero == SumSizes([b \in Buffers |-> 0]) = 0
<1> DEFINE v == [b \in Buffers |-> 0]
           P == {S \in SUBSET Buffers : Sum(v)[S] = 0}
<1>1. {} \in P
  BY SumSteps
<1>2. ASSUME NEW S \in SUBSET Buffers, S # {}, Rest(S) \in P PROVE S \in P
  <2>1. Sum(v)[S] = v[Pick(S)] + Sum(v)[Rest(S)]
    BY SumSteps, <1>2
  <2>2. v[Pick(S)] = 0
    BY RestSmaller, <1>2
  <2> HIDE DEF v
  <2>3. QED
    BY <2>1, <2>2, <1>2
<1> HIDE DEF P
<1>3. Buffers \in P
  BY <1>1, <1>2, SetInduction
<1>4. QED
  BY <1>3, SumSteps DEF P

\* Every sum is a number.
LEMMA SumNat ==
    ASSUME NEW v \in [Buffers -> Nat]
    PROVE  SumSizes(v) \in Nat
<1>1. \A c \in Buffers : v[c] = v[c]
  OBVIOUS
<1>2. CASE Buffers = {}
  <2>1. v = [b \in Buffers |-> 0]
    BY <1>2
  <2>2. QED
    BY <2>1, SumZero
<1>3. CASE Buffers # {}
  <2>1. PICK b \in Buffers : TRUE
    BY <1>3
  <2>2. QED
    BY <1>1, <2>1, SumChange
<1>4. QED
  BY <1>2, <1>3

(***************************************************************************)
(* The invariant of the cache: k is the cache, H the buffers that          *)
(* processes have in their hands.                                          *)
(***************************************************************************)
CacheType == [buf : [Buffers -> Buf], free : Seq(Buffers), room : Int, want : BOOLEAN,
              io : Seq(Buffers), ev : SUBSET (Buffers \cup {NULL})]

Freed(k) == OnList(k.free)
Given(k) == OnList(k.io)

\* A buffer that is free (f), the driver's (o) or in a process's hands (h).
BufferSound(flags, blk, size, f, o, h) ==
    /\ ~(f /\ o) /\ ~(f /\ h)
    /\ size > 0 <=> (f \/ o \/ h)
    /\ ~(f \/ o \/ h) => flags = {} /\ blk = NULL
    /\ f => "BUSY" \notin flags /\ "WANTED" \notin flags /\ "ASYNC" \notin flags
            /\ "ERROR" \notin flags
    /\ o => "BUSY" \in flags /\ "DONE" \notin flags /\ blk # NULL
    /\ o /\ ~h => "ASYNC" \in flags
    /\ h => "ASYNC" \notin flags
    /\ h /\ blk # NULL => "BUSY" \in flags /\ "STALE" \notin flags
    /\ h /\ blk = NULL => "WANTED" \notin flags
    /\ "DELWRI" \in flags => /\ blk # NULL /\ "DONE" \in flags
                             /\ "STALE" \notin flags /\ "ERROR" \notin flags

\* Buffer b of k.
SoundAt(k, H, b) ==
    BufferSound(k.buf[b].flags, k.buf[b].blk, k.buf[b].size,
                b \in Freed(k), b \in Given(k), b \in H)

\* A block is in one buffer only.
OneEach(k) ==
    \A b, c \in Buffers :
        /\ k.buf[b].blk = k.buf[c].blk /\ k.buf[b].blk # NULL
        /\ "STALE" \notin k.buf[b].flags /\ "STALE" \notin k.buf[c].flags
        => b = c

Sizes(k) == [b \in Buffers |-> k.buf[b].size]

CacheSound(k, H) ==
    /\ k \in CacheType /\ H \subseteq Buffers
    /\ NoDup(k.free) /\ NoDup(k.io)
    /\ \A b \in Buffers : SoundAt(k, H, b)
    /\ OneEach(k)
    /\ k.room >= 0 /\ SumSizes(Sizes(k)) + k.room = bufhwm

(***************************************************************************)
(* Where the last data of a block are.                                     *)
(***************************************************************************)

\* Data that the disk may not have: a delayed write, or one under way.
Dirty(k, b) ==
    "DELWRI" \in k.buf[b].flags \/ (b \in Given(k) /\ "READ" \notin k.buf[b].flags)

\* What bread() would return without a read.
Valid(flags, blk) ==
    "DONE" \in flags /\ "ERROR" \notin flags /\ "STALE" \notin flags /\ blk # NULL

\* What the cache keeps for a reader, or writes for one, are the last data.
LastKept(k) ==
    \A b \in Buffers :
        /\ Valid(k.buf[b].flags, k.buf[b].blk) => k.buf[b].cur
        /\ Dirty(k, b) /\ "STALE" \notin k.buf[b].flags => k.buf[b].cur
        /\ k.buf[b].blk = NULL => ~k.buf[b].cur

\* Of several transfers of a block all but the last are those of stale
\* buffers, and no write comes after newer data.
InOrder(k) ==
    \A i, j \in DOMAIN k.io :
        i < j /\ k.buf[k.io[i]].blk = k.buf[k.io[j]].blk =>
            /\ "STALE" \in k.buf[k.io[i]].flags
            /\ "READ" \notin k.buf[k.io[j]].flags => ~k.buf[k.io[i]].cur

\* As long as a buffer of a block is dirty the disk has old data, and if it
\* has the last data, no other buffer has.
DirtyOnly(k, d) ==
    \A b \in Buffers : Dirty(k, b) =>
        /\ ~d[k.buf[b].blk]
        /\ k.buf[b].cur =>
              \A c \in Buffers \ {b} : k.buf[c].blk = k.buf[b].blk => ~k.buf[c].cur

\* What the disk does not have, a dirty buffer has.
Covered(k, d) ==
    \A x \in Blocks : ~d[x] =>
        \E b \in Buffers : k.buf[b].blk = x /\ k.buf[b].cur /\ Dirty(k, b)

CohSound(k, d) == LastKept(k) /\ InOrder(k) /\ DirtyOnly(k, d) /\ Covered(k, d)

(***************************************************************************)
(* Where the processes are: pl is the place of one, l its locals.          *)
(***************************************************************************)
HeldBy(pl, l) == ({l.bp, l.nbp} \cup IF pl = "got" THEN {l.chan} ELSE {}) \ {NULL}

InUse == UNION {HeldBy(pc[p], loc[p]) : p \in Procs}

\* The transfer of b was started, and may be over.
Started(k, b) == k.buf[b].blk # NULL /\ (b \in Given(k) \/ "DONE" \in k.buf[b].flags)

Getting == {"getblk", "asleep:getblk", "asleep:free", "alloc", "got"}

LocalSound(pl, l) ==
    /\ l.bp # NULL => l.bp # l.nbp
    /\ l.nbp # NULL => pl \in {"getblk", "asleep:getblk", "alloc"}
    /\ pl = "alloc" => l.nbp # NULL
    /\ l.op = "breada" => l.blk \in Blocks /\ l.ra \in Blocks
    /\ pl \in Getting => /\ l.op \in {"bread", "breada", "getblk", "ngeteblk"}
                         /\ l.op \in {"bread", "getblk"} => l.blk \in Blocks
                         /\ l.in = "main" => l.bp = NULL
                         /\ l.in = "ra" => l.op = "breada"
    /\ pl \in {"got", "asleep:getblk"} => l.chan # NULL /\ l.op # "ngeteblk"
    /\ pl = "got" => l.chan # l.bp
    /\ pl = "ra" => l.op = "breada"
    /\ pl \in {"biowait", "asleep:io"} => l.bp # NULL
    /\ pl \in {"biowait", "asleep:io"} /\ l.op = "blkflush" => l.blk \in Blocks
    /\ pl = "asleep:io" => l.chan = l.bp
    /\ pl = "asleep:free" => l.chan = NULL
    /\ pl \in {"blkflush", "asleep:flush"} => l.bp = NULL /\ l.blk \in Blocks /\ l.op = "blkflush"
    /\ pl = "asleep:flush" => l.chan # NULL
    /\ pl = "user" => l.bp = NULL
    /\ pl = "held" => l.bp # NULL

\* What a process knows of its buffers.
HandsSound(k, pl, l) ==
    /\ l.bp # NULL /\ pl # "held" => Started(k, l.bp)
    /\ l.nbp # NULL => k.buf[l.nbp].blk = NULL
    /\ pl = "got" => k.buf[l.chan].blk # NULL /\ l.chan \notin Given(k)
    /\ pl = "held" => /\ l.bp \notin Given(k)
                      /\ l.op # "ngeteblk" => k.buf[l.bp].blk # NULL

\* What a sleeper sleeps for has not happened.
SleepSound(k, pl, l) ==
    /\ pl \in {"asleep:getblk", "asleep:flush"} =>
          "BUSY" \in k.buf[l.chan].flags /\ "WANTED" \in k.buf[l.chan].flags
    /\ pl = "asleep:io" => "WANTED" \in k.buf[l.chan].flags /\ "DONE" \notin k.buf[l.chan].flags
    /\ pl = "asleep:free" => k.want /\ k.free = <<>>

PlaceSound(k, pl, l) ==
    /\ pl \in PC /\ l \in Local
    /\ LocalSound(pl, l) /\ HandsSound(k, pl, l) /\ SleepSound(k, pl, l)

Apart == \A p, q \in Procs : p # q => HeldBy(pc[p], loc[p]) \cap HeldBy(pc[q], loc[q]) = {}

\* The inductive invariant.
BioInv ==
    /\ CacheSound(Cache, InUse)
    /\ pc \in [Procs -> PC] /\ loc \in [Procs -> Local]
    /\ \A p \in Procs : PlaceSound(Cache, pc[p], loc[p])
    /\ Apart
    /\ onproc \in Procs \cup {NULL} /\ disk \in [Blocks -> BOOLEAN]
    /\ CohSound(Cache, disk)

(***************************************************************************)
(* What one routine does to one buffer.                                    *)
(***************************************************************************)

\* From j to k at most buffer b and its places on the lists have changed.
Touches(j, k, b) ==
    /\ j \in CacheType /\ k \in CacheType
    /\ NoDup(k.free) /\ NoDup(k.io)
    /\ \A c \in Buffers \ {b} : /\ k.buf[c] = j.buf[c]
                                /\ c \in Freed(k) <=> c \in Freed(j)
                                /\ c \in Given(k) <=> c \in Given(j)

\* ... namely to flags, and no memory has moved.
Does(j, k, b, flags) ==
    /\ Touches(j, k, b)
    /\ k.buf[b].flags = flags /\ k.buf[b].blk = j.buf[b].blk
    /\ k.buf[b].size = j.buf[b].size /\ k.buf[b].cur = j.buf[b].cur
    /\ k.room = j.room

\* The fields of a cache have their types.
LEMMA CacheFields ==
    ASSUME NEW k \in CacheType
    PROVE  /\ k.buf \in [Buffers -> Buf]
           /\ k.free \in Seq(Buffers) /\ k.io \in Seq(Buffers)
           /\ k.room \in Int /\ k.want \in BOOLEAN
           /\ k.ev \in SUBSET (Buffers \cup {NULL})
  BY DEF CacheType

\* The fields of a buffer have their types.
LEMMA BufFields ==
    ASSUME NEW r \in Buf
    PROVE  /\ r.flags \in SUBSET Flags /\ r.blk \in Blocks \cup {NULL}
           /\ r.size \in Nat /\ r.cur \in BOOLEAN
  BY DEF Buf

Sets(k, j, b, on, off) ==
    /\ Does(k, j, b, (k.buf[b].flags \ off) \cup on)
    /\ j.free = k.free /\ j.io = k.io /\ j.want = k.want /\ j.ev = k.ev

\* The flags of a buffer are replaced, and nothing else.
LEMMA SetFlagsDoes ==
    ASSUME NEW k \in CacheType, NEW b \in Buffers, NEW on \in SUBSET Flags, NEW off,
           NoDup(k.free), NoDup(k.io)
    PROVE  Sets(k, SetFlags(k, b, on, off), b, on, off)
<1> DEFINE j == SetFlags(k, b, on, off)
           fl == (k.buf[b].flags \ off) \cup on
           r == [k.buf[b] EXCEPT !.flags = fl]
           m == [k.buf EXCEPT ![b] = r]
<1>1. k.buf \in [Buffers -> Buf] /\ k.buf[b] \in Buf /\ fl \in SUBSET Flags
  <2>1. k.buf \in [Buffers -> Buf]
    BY CacheFields
  <2>2. k.buf[b] \in Buf
    BY <2>1
  <2>3. k.buf[b].flags \in SUBSET Flags
    BY <2>2, BufFields
  <2>4. QED
    BY <2>1, <2>2, <2>3
<1>2. j = [k EXCEPT !.buf = m]
  BY Zenon DEF SetFlags
<1> HIDE DEF j, fl
<1>3. /\ r \in Buf /\ r.flags = fl /\ r.blk = k.buf[b].blk
      /\ r.size = k.buf[b].size /\ r.cur = k.buf[b].cur
  BY <1>1, Zenon DEF Buf
<1> HIDE DEF r
<1>4. m \in [Buffers -> Buf] /\ m[b] = r /\ \A c \in Buffers \ {b} : m[c] = k.buf[c]
  BY <1>1, <1>3
<1> HIDE DEF m
<1>5. /\ j \in CacheType /\ j.buf = m /\ j.free = k.free /\ j.io = k.io /\ j.room = k.room
      /\ j.want = k.want /\ j.ev = k.ev
  BY <1>2, <1>4, Zenon DEF CacheType
<1>6. Does(k, j, b, fl)
  BY <1>3, <1>4, <1>5 DEF Does, Touches, Freed, Given
<1>7. QED
  BY <1>5, <1>6 DEF j, fl, Sets

\* Changes of the same buffer, one after the other.
LEMMA DoesTwice ==
    ASSUME NEW i, NEW j, NEW k, NEW b, NEW f, NEW g, Does(i, j, b, f), Does(j, k, b, g)
    PROVE  Does(i, k, b, g)
  BY DEF Does, Touches

\* notavail() takes a free buffer off the free list.
LEMMA NotavailDoes ==
    ASSUME NEW k \in CacheType, NEW b \in Freed(k), NoDup(k.free), NoDup(k.io)
    PROVE  LET j == notavail(k, b)
           IN  /\ Does(k, j, b, k.buf[b].flags \cup {"BUSY"})
               /\ b \notin Freed(j) /\ Len(j.free) = Len(k.free) - 1
               /\ j.io = k.io /\ j.want = k.want /\ j.ev = k.ev
<1> DEFINE i == [k EXCEPT !.free = Without(@, b)]
           j == notavail(k, b)
<1>1. k.free \in Seq(Buffers) /\ b \in Buffers
  BY CacheFields DEF Freed, OnList
<1>2. /\ Without(k.free, b) \in Seq(Buffers) /\ NoDup(Without(k.free, b))
      /\ OnList(Without(k.free, b)) = OnList(k.free) \ {b}
      /\ Len(Without(k.free, b)) = Len(k.free) - 1
  BY <1>1, WithoutList DEF Freed
<1>3. /\ i \in CacheType /\ i.free = Without(k.free, b) /\ i.buf = k.buf /\ i.io = k.io
      /\ i.room = k.room /\ i.want = k.want /\ i.ev = k.ev
  BY <1>2, Zenon DEF CacheType
<1>4. j = SetFlags(i, b, {"BUSY"}, {})
  BY DEF notavail
<1> HIDE DEF i, j
<1>5. {"BUSY"} \in SUBSET Flags
  BY DEF Flags
<1>6. /\ Does(i, j, b, (i.buf[b].flags \ {}) \cup {"BUSY"})
      /\ j.free = i.free /\ j.io = i.io /\ j.want = i.want /\ j.ev = i.ev
  <2>1. i \in CacheType /\ NoDup(i.free) /\ NoDup(i.io)
    BY <1>2, <1>3
  <2>2. Sets(i, j, b, {"BUSY"}, {})
    BY <1>1, <1>4, <1>5, <2>1, SetFlagsDoes
  <2>3. QED
    BY <2>2 DEF Sets
<1>7. Does(i, j, b, k.buf[b].flags \cup {"BUSY"})
  BY <1>3, <1>6
<1>8. Does(k, j, b, k.buf[b].flags \cup {"BUSY"})
  BY <1>2, <1>3, <1>7 DEF Does, Touches, Freed, Given
<1>9. QED
  BY <1>2, <1>3, <1>6, <1>8 DEF j, Freed

\* The strategy routine gets the buffer.
LEMMA StrategyDoes ==
    ASSUME NEW k \in CacheType, NEW b \in Buffers, b \notin Given(k), NoDup(k.free), NoDup(k.io)
    PROVE  LET j == strategy(k, b)
           IN  /\ Does(k, j, b, k.buf[b].flags)
               /\ b \in Given(j) /\ j.io = Append(k.io, b)
               /\ j.free = k.free /\ j.want = k.want /\ j.ev = k.ev
<1> DEFINE j == strategy(k, b)
<1>1. k.io \in Seq(Buffers)
  BY CacheFields
<1>2. /\ Append(k.io, b) \in Seq(Buffers) /\ NoDup(Append(k.io, b))
      /\ OnList(Append(k.io, b)) = OnList(k.io) \cup {b}
  BY <1>1, TailList DEF Given
<1>3. /\ j \in CacheType /\ j.io = Append(k.io, b) /\ j.buf = k.buf /\ j.free = k.free
      /\ j.room = k.room /\ j.want = k.want /\ j.ev = k.ev
  BY <1>2, Zenon DEF CacheType, strategy
<1> HIDE DEF j
<1>4. Does(k, j, b, k.buf[b].flags) /\ b \in Given(j)
  BY <1>2, <1>3 DEF Does, Touches, Freed, Given
<1>5. QED
  BY <1>3, <1>4 DEF j

\* The flags of a buffer whose write, or read, is started.
WriteFlags(flags) == flags \ {"READ", "DONE", "ERROR", "DELWRI"}
ReadFlags(flags, async) == flags \cup ({"READ"} \cup IF async THEN {"ASYNC"} ELSE {})

LEMMA StartWriteDoes ==
    ASSUME NEW k \in CacheType, NEW b \in Buffers, b \notin Given(k), NoDup(k.free), NoDup(k.io)
    PROVE  LET j == StartWrite(k, b)
           IN  /\ Does(k, j, b, WriteFlags(k.buf[b].flags))
               /\ b \in Given(j) /\ j.io = Append(k.io, b)
               /\ j.free = k.free /\ j.want = k.want /\ j.ev = k.ev
<1> DEFINE off == {"READ", "DONE", "ERROR", "DELWRI"}
           i == SetFlags(k, b, {}, off)
           j == strategy(i, b)
<1>0. Sets(k, i, b, {}, off)
  BY SetFlagsDoes
<1>1. /\ Does(k, i, b, (k.buf[b].flags \ off) \cup {})
      /\ i.free = k.free /\ i.io = k.io /\ i.want = k.want /\ i.ev = k.ev
  BY <1>0 DEF Sets
<1> HIDE DEF i
<1>2. i \in CacheType /\ NoDup(i.free) /\ NoDup(i.io) /\ b \notin Given(i)
      /\ i.buf[b].flags = WriteFlags(k.buf[b].flags)
  BY <1>1 DEF Does, Touches, Given, WriteFlags
<1>3. /\ Does(i, j, b, i.buf[b].flags)
      /\ b \in Given(j) /\ j.io = Append(i.io, b)
      /\ j.free = i.free /\ j.want = i.want /\ j.ev = i.ev
  BY <1>2, StrategyDoes
<1>4. StartWrite(k, b) = j
  BY DEF StartWrite, i
<1> HIDE DEF j
<1>5. Does(k, j, b, WriteFlags(k.buf[b].flags))
  BY <1>1, <1>2, <1>3, DoesTwice
<1>6. QED
  BY <1>1, <1>3, <1>4, <1>5

LEMMA StartReadDoes ==
    ASSUME NEW k \in CacheType, NEW b \in Buffers, b \notin Given(k), NoDup(k.free), NoDup(k.io),
           NEW async \in BOOLEAN
    PROVE  LET j == StartRead(k, b, async)
           IN  /\ Does(k, j, b, ReadFlags(k.buf[b].flags, async))
               /\ b \in Given(j) /\ j.io = Append(k.io, b)
               /\ j.free = k.free /\ j.want = k.want /\ j.ev = k.ev
<1> DEFINE on == {"READ"} \cup IF async THEN {"ASYNC"} ELSE {}
           i == SetFlags(k, b, on, {})
           j == strategy(i, b)
<1>0. on \in SUBSET Flags
  BY DEF Flags
<1>4. StartRead(k, b, async) = j
  BY DEF StartRead
<1>7. (k.buf[b].flags \ {}) \cup on = ReadFlags(k.buf[b].flags, async)
  BY DEF ReadFlags
<1> HIDE DEF on
<1>1. /\ Does(k, i, b, (k.buf[b].flags \ {}) \cup on)
      /\ i.free = k.free /\ i.io = k.io /\ i.want = k.want /\ i.ev = k.ev
  <2>1. Sets(k, i, b, on, {})
    BY <1>0, SetFlagsDoes
  <2>2. QED
    BY <2>1 DEF Sets
<1> HIDE DEF i
<1>2. i \in CacheType /\ NoDup(i.free) /\ NoDup(i.io) /\ b \notin Given(i)
      /\ i.buf[b].flags = ReadFlags(k.buf[b].flags, async)
  BY <1>1, <1>7 DEF Does, Touches, Given
<1>3. /\ Does(i, j, b, i.buf[b].flags)
      /\ b \in Given(j) /\ j.io = Append(i.io, b)
      /\ j.free = i.free /\ j.want = i.want /\ j.ev = i.ev
  BY <1>2, StrategyDoes
<1> HIDE DEF j
<1>5. Does(k, j, b, ReadFlags(k.buf[b].flags, async))
  BY <1>1, <1>2, <1>3, DoesTwice
<1>6. QED
  BY <1>1, <1>3, <1>4, <1>5

\* The flags that brelse() leaves.
ReleaseFlags(flags) ==
    IF "ERROR" \in flags
    THEN (flags \ {"WANTED", "BUSY", "ASYNC", "ERROR", "DELWRI"}) \cup {"STALE", "AGE"}
    ELSE flags \ {"WANTED", "BUSY", "ASYNC", "ERROR"}

\* brelse() puts a buffer on the free list, at one end or the other.
LEMMA BrelseDoes ==
    ASSUME NEW k \in CacheType, NEW b \in Buffers, b \notin Freed(k), NoDup(k.free), NoDup(k.io)
    PROVE  LET j == brelse(k, b)
           IN  /\ Does(k, j, b, ReleaseFlags(k.buf[b].flags))
               /\ b \in Freed(j) /\ j.io = k.io
               /\ k.ev \subseteq j.ev
               /\ "WANTED" \in k.buf[b].flags => b \in j.ev
               /\ k.want => NULL \in j.ev
<1> DEFINE fl == k.buf[b].flags
           err == "ERROR" \in fl
           on == IF err THEN {"STALE", "AGE"} ELSE {}
           off == {"WANTED", "BUSY", "ASYNC", "ERROR"} \cup IF err THEN {"DELWRI"} ELSE {}
           i == SetFlags(k, b, on, off)
           list == IF "AGE" \in i.buf[b].flags THEN <<b>> \o i.free ELSE Append(i.free, b)
           ev == i.ev \cup (IF "WANTED" \in fl THEN {b} ELSE {}) \cup (IF k.want THEN {NULL} ELSE {})
           j == [i EXCEPT !.free = list, !.want = FALSE, !.ev = ev]
<1>1. brelse(k, b) = j
  BY DEF brelse
<1>2. on \in SUBSET Flags /\ (fl \ off) \cup on = ReleaseFlags(fl)
  BY DEF Flags, ReleaseFlags
<1> HIDE DEF on, off, fl
<1>3. /\ Does(k, i, b, (k.buf[b].flags \ off) \cup on)
      /\ i.free = k.free /\ i.io = k.io /\ i.want = k.want /\ i.ev = k.ev
  <2>1. Sets(k, i, b, on, off)
    BY <1>2, SetFlagsDoes
  <2>2. QED
    BY <2>1 DEF Sets
<1>4. Does(k, i, b, ReleaseFlags(fl))
  BY <1>2, <1>3 DEF fl
<1> HIDE DEF i
<1>5. i \in CacheType /\ i.free \in Seq(Buffers) /\ k.free \in Seq(Buffers)
      /\ k.ev \in SUBSET (Buffers \cup {NULL})
  BY <1>3, CacheFields DEF Does, Touches
<1>6. /\ list \in Seq(Buffers) /\ NoDup(list) /\ OnList(list) = OnList(k.free) \cup {b}
  <2>1. b \notin OnList(k.free)
    BY DEF Freed
  <2>2. QED
    BY <1>3, <1>5, <2>1, TailList, HeadList
<1>7. ev \in SUBSET (Buffers \cup {NULL}) /\ k.ev \subseteq ev
      /\ ("WANTED" \in fl => b \in ev) /\ (k.want => NULL \in ev)
  BY <1>3, <1>5
<1> HIDE DEF list, ev
<1>8. /\ j \in CacheType /\ j.free = list /\ j.ev = ev /\ j.buf = i.buf
      /\ j.io = i.io /\ j.room = i.room
  BY <1>5, <1>6, <1>7, Zenon DEF CacheType
<1> HIDE DEF j
<1>9. Does(k, j, b, ReleaseFlags(fl)) /\ b \in Freed(j)
  BY <1>3, <1>4, <1>6, <1>8 DEF Does, Touches, Freed, Given
<1>10. QED
  BY <1>1, <1>3, <1>7, <1>8, <1>9 DEF fl

\* The flags that biodone() leaves.
DoneFlags(flags) ==
    LET done == (flags \ {"READ"}) \cup {"DONE"}
    IN  IF "ASYNC" \in flags THEN ReleaseFlags(done) ELSE done \ {"WANTED"}

\* biodone() takes a buffer from the driver, and releases it if nobody waits.
LEMMA BiodoneDoes ==
    ASSUME NEW k \in CacheType, NEW b \in Given(k), b \notin Freed(k), NoDup(k.free), NoDup(k.io),
           k.ev = {}
    PROVE  LET j == biodone(k, b)
           IN  /\ Does(k, j, b, DoneFlags(k.buf[b].flags))
               /\ j.io = Without(k.io, b) /\ b \notin Given(j)
               /\ "ASYNC" \in k.buf[b].flags =>
                     /\ b \in Freed(j)
                     /\ k.want => NULL \in j.ev
               /\ "ASYNC" \notin k.buf[b].flags =>
                     j.free = k.free /\ j.want = k.want
               /\ "WANTED" \in k.buf[b].flags => b \in j.ev
<1> DEFINE i == [k EXCEPT !.io = Without(@, b)]
           m == SetFlags(i, b, {"DONE"}, {"READ"})
           fl == k.buf[b].flags
           done == (fl \ {"READ"}) \cup {"DONE"}
           n == SetFlags(m, b, {}, {"WANTED"})
           o == [n EXCEPT !.ev = {b}]
<1>1. k.io \in Seq(Buffers) /\ b \in Buffers
  BY CacheFields DEF Given, OnList
<1>2. /\ Without(k.io, b) \in Seq(Buffers) /\ NoDup(Without(k.io, b))
      /\ OnList(Without(k.io, b)) = OnList(k.io) \ {b}
  BY <1>1, WithoutList DEF Given
<1>3. /\ i \in CacheType /\ i.io = Without(k.io, b) /\ i.buf = k.buf /\ i.free = k.free
      /\ i.room = k.room /\ i.want = k.want /\ i.ev = k.ev
  BY <1>2, Zenon DEF CacheType
<1>4. biodone(k, b) = IF "ASYNC" \in m.buf[b].flags THEN brelse(m, b) ELSE o
  BY DEF biodone
<1>5. {"DONE"} \in SUBSET Flags
  BY DEF Flags
<1>15. m = SetFlags(i, b, {"DONE"}, {"READ"})
  OBVIOUS
<1> HIDE DEF i, m
<1>6. /\ Does(i, m, b, (i.buf[b].flags \ {"READ"}) \cup {"DONE"})
      /\ m.free = i.free /\ m.io = i.io /\ m.want = i.want /\ m.ev = i.ev
  <2>1. i \in CacheType /\ NoDup(i.free) /\ NoDup(i.io)
    BY <1>2, <1>3
  <2>2. Sets(i, m, b, {"DONE"}, {"READ"})
    BY <1>1, <1>5, <1>15, <2>1, SetFlagsDoes
  <2>3. QED
    BY <2>2 DEF Sets
<1>7. Does(k, m, b, done) /\ b \notin Given(m) /\ b \notin Freed(m)
  BY <1>2, <1>3, <1>6 DEF Does, Touches, Freed, Given
<1>8. m \in CacheType /\ NoDup(m.free) /\ NoDup(m.io) /\ m.buf[b].flags = done
  BY <1>7 DEF Does, Touches
<1>9. "ASYNC" \in done <=> "ASYNC" \in fl
  OBVIOUS
<1>12. "WANTED" \in done <=> "WANTED" \in fl
  OBVIOUS
<1>13. DoneFlags(fl) = IF "ASYNC" \in fl THEN ReleaseFlags(done) ELSE done \ {"WANTED"}
  BY DEF DoneFlags
<1> HIDE DEF done, fl
<1>10. CASE "ASYNC" \in fl
  <2> DEFINE j == brelse(m, b)
  <2>1. /\ Does(m, j, b, ReleaseFlags(m.buf[b].flags))
        /\ b \in Freed(j) /\ j.io = m.io /\ m.ev \subseteq j.ev
        /\ "WANTED" \in m.buf[b].flags => b \in j.ev
        /\ m.want => NULL \in j.ev
    BY <1>1, <1>7, <1>8, BrelseDoes, Zenon
  <2>2. biodone(k, b) = j
    BY <1>4, <1>8, <1>9, <1>10
  <2> HIDE DEF j
  <2>3. Does(k, j, b, DoneFlags(fl))
    BY <2>1, <1>7, <1>8, <1>10, <1>13, DoesTwice
  <2>4. QED
    BY <2>1, <2>2, <2>3, <1>3, <1>6, <1>7, <1>8, <1>12, <1>10 DEF Given, fl
<1>11. CASE "ASYNC" \notin fl
  <2>0. n = SetFlags(m, b, {}, {"WANTED"}) /\ {} \in SUBSET Flags
    OBVIOUS
  <2> HIDE DEF n
  <2>1. /\ Does(m, n, b, (m.buf[b].flags \ {"WANTED"}) \cup {})
        /\ n.free = m.free /\ n.io = m.io /\ n.want = m.want /\ n.ev = m.ev
    <3>1. Sets(m, n, b, {}, {"WANTED"})
      BY <1>1, <1>8, <2>0, SetFlagsDoes
    <3>2. QED
      BY <3>1 DEF Sets
  <2>2. n \in CacheType
    BY <2>1 DEF Does, Touches
  <2>3. /\ o \in CacheType /\ o.buf = n.buf /\ o.free = n.free /\ o.io = n.io
        /\ o.want = n.want /\ o.room = n.room /\ o.ev = {b}
    BY <2>2, <1>1, Zenon DEF CacheType
  <2>4. biodone(k, b) = o
    BY <1>4, <1>8, <1>9, <1>11
  <2> HIDE DEF o
  <2>5. Does(m, n, b, DoneFlags(fl))
    BY <2>1, <1>8, <1>11, <1>13
  <2>6. Does(k, n, b, DoneFlags(fl))
    BY <2>5, <1>7, DoesTwice
  <2>7. Does(k, o, b, DoneFlags(fl))
    BY <2>6, <2>3 DEF Does, Touches, Freed, Given
  <2>8. QED
    BY <2>1, <2>3, <2>4, <2>7, <1>3, <1>6, <1>7, <1>11 DEF Given, fl
<1>14. QED
  BY <1>10, <1>11

(***************************************************************************)
(* What a change of one buffer keeps.                                      *)
(***************************************************************************)

\* Nobody's wakeup is lost between j and k.
Wakes(j, k) ==
    /\ j.ev \subseteq k.ev
    /\ \A c \in Buffers \ k.ev : "WANTED" \in j.buf[c].flags =>
          /\ "WANTED" \in k.buf[c].flags
          /\ "BUSY" \in j.buf[c].flags => "BUSY" \in k.buf[c].flags
          /\ "DONE" \notin j.buf[c].flags => "DONE" \notin k.buf[c].flags
    /\ NULL \notin k.ev /\ j.want /\ j.free = <<>> => k.want /\ k.free = <<>>

\* What the process that has c knows of it still holds.
Keeps(j, k, c) ==
    /\ k.buf[c].blk = j.buf[c].blk
    /\ c \in Given(k) => c \in Given(j)
    /\ Started(j, c) => Started(k, c)

\* A change of one buffer keeps the cache sound if it leaves the buffer
\* sound, pays for its memory and gives no block a second buffer.
LEMMA TouchSound ==
    ASSUME NEW j, NEW k, NEW b \in Buffers, NEW H, NEW G,
           CacheSound(j, H), Touches(j, k, b), G \subseteq Buffers,
           \A c \in Buffers \ {b} : c \in G <=> c \in H,
           SoundAt(k, G, b),
           k.room >= 0, k.room + k.buf[b].size = j.room + j.buf[b].size,
           \/ k.buf[b].blk = NULL
           \/ k.buf[b].blk = j.buf[b].blk /\ ("STALE" \in j.buf[b].flags => "STALE" \in k.buf[b].flags)
           \/ \A c \in Buffers : k.buf[b].blk = j.buf[c].blk => "STALE" \in j.buf[c].flags
    PROVE  CacheSound(k, G)
<1>1. k \in CacheType /\ j \in CacheType /\ k.buf \in [Buffers -> Buf] /\ j.buf \in [Buffers -> Buf]
      /\ k.room \in Int /\ j.room \in Int
  BY CacheFields DEF Touches
<1>2. \A c \in Buffers : SoundAt(k, G, c)
  BY DEF SoundAt, CacheSound, Touches
<1>3. OneEach(k)
  BY DEF OneEach, CacheSound, Touches
<1>4. SumSizes(Sizes(k)) + k.room = bufhwm
  <2> DEFINE v == Sizes(j)
             w == Sizes(k)
  <2>1. v \in [Buffers -> Nat] /\ w \in [Buffers -> Nat] /\ v[b] = j.buf[b].size /\ w[b] = k.buf[b].size
    <3>1. \A c \in Buffers : j.buf[c].size \in Nat /\ k.buf[c].size \in Nat
      BY <1>1, BufFields
    <3>2. QED
      BY <3>1 DEF Sizes
  <2>2. \A c \in Buffers \ {b} : v[c] = w[c]
    BY DEF Sizes, Touches
  <2>3. SumSizes(v) + j.room = bufhwm
    BY DEF CacheSound
  <2> HIDE DEF v, w
  <2>4. SumSizes(v) \in Nat /\ SumSizes(w) \in Nat /\ SumSizes(w) = SumSizes(v) + w[b] - v[b]
    BY <2>1, <2>2, SumChange
  <2>5. SumSizes(w) + k.room = bufhwm
    BY <2>1, <2>3, <2>4, <1>1
  <2>6. QED
    BY <2>5 DEF w
<1>5. QED
  BY <1>1, <1>2, <1>3, <1>4 DEF CacheSound, Touches

\* ... in particular if only flags and lists change.
LEMMA DoesSound ==
    ASSUME NEW j, NEW k, NEW b \in Buffers, NEW H, NEW G, NEW fl,
           CacheSound(j, H), Does(j, k, b, fl), G \subseteq Buffers,
           \A c \in Buffers \ {b} : c \in G <=> c \in H,
           BufferSound(fl, j.buf[b].blk, j.buf[b].size, b \in Freed(k), b \in Given(k), b \in G),
           "STALE" \in j.buf[b].flags => "STALE" \in fl \/ j.buf[b].blk = NULL
    PROVE  CacheSound(k, G)
<1>1. /\ Touches(j, k, b) /\ k.room = j.room /\ k.buf[b].size = j.buf[b].size
      /\ k.buf[b].blk = j.buf[b].blk /\ k.buf[b].flags = fl
  BY DEF Does
<1>2. SoundAt(k, G, b)
  BY <1>1 DEF SoundAt
<1>3. k.room >= 0 /\ k.room + k.buf[b].size = j.room + j.buf[b].size
  BY <1>1 DEF CacheSound
<1>4. QED
  BY <1>1, <1>2, <1>3, TouchSound

\* The other buffers stay what their owners know of them.
LEMMA TouchKeeps ==
    ASSUME NEW j, NEW k, NEW b, Touches(j, k, b)
    PROVE  \A c \in Buffers \ {b} : Keeps(j, k, c)
  BY DEF Touches, Keeps, Started

\* Wakeups.
LEMMA DoesWakes ==
    ASSUME NEW j, NEW k, NEW b, NEW fl, Does(j, k, b, fl), j.ev \subseteq k.ev,
           b \notin k.ev /\ "WANTED" \in j.buf[b].flags =>
              /\ "WANTED" \in fl
              /\ "BUSY" \in j.buf[b].flags => "BUSY" \in fl
              /\ "DONE" \notin j.buf[b].flags => "DONE" \notin fl,
           NULL \notin k.ev /\ j.want /\ j.free = <<>> => k.want /\ k.free = <<>>
    PROVE  Wakes(j, k)
  BY DEF Does, Touches, Wakes

\* One change after the other.
LEMMA WakesTwice ==
    ASSUME NEW i, NEW j, NEW k, Wakes(i, j), Wakes(j, k)
    PROVE  Wakes(i, k)
  BY DEF Wakes

LEMMA KeepsTwice ==
    ASSUME NEW i, NEW j, NEW k, NEW c, Keeps(i, j, c), Keeps(j, k, c)
    PROVE  Keeps(i, k, c)
  BY DEF Keeps

(***************************************************************************)
(* What a change does to the data.                                         *)
(***************************************************************************)

\* A change of flags that says nothing about data: no transfer starts or ends,
\* nothing becomes valid, and nothing is stale no longer.
Tame(f, g) ==
    /\ "DELWRI" \in g <=> "DELWRI" \in f
    /\ "READ" \in g <=> "READ" \in f
    /\ "STALE" \in f => "STALE" \in g
    /\ "DONE" \in g /\ "ERROR" \notin g /\ "STALE" \notin g =>
          "DONE" \in f /\ "ERROR" \notin f /\ "STALE" \notin f

\* From j to k flags change like this, or clean buffers lose their data.
Calm(j, k) ==
    /\ k.io = j.io
    /\ \A c \in Buffers :
          \/ /\ k.buf[c].blk = j.buf[c].blk /\ k.buf[c].cur = j.buf[c].cur
             /\ Tame(j.buf[c].flags, k.buf[c].flags)
          \/ /\ c \notin Given(j) /\ "DELWRI" \notin j.buf[c].flags
             /\ "DELWRI" \notin k.buf[c].flags
             /\ ~k.buf[c].cur /\ ~Valid(k.buf[c].flags, k.buf[c].blk)

LEMMA CalmCoherent ==
    ASSUME NEW j \in CacheType, NEW k, NEW d, CohSound(j, d), Calm(j, k)
    PROVE  CohSound(k, d)
<1>1. /\ LastKept(j) /\ InOrder(j) /\ DirtyOnly(j, d) /\ Covered(j, d)
      /\ k.io = j.io /\ Given(k) = Given(j) /\ j.io \in Seq(Buffers)
  BY CacheFields DEF CohSound, Calm, Given
<1> DEFINE Same(c) == /\ k.buf[c].blk = j.buf[c].blk /\ k.buf[c].cur = j.buf[c].cur
                      /\ Tame(j.buf[c].flags, k.buf[c].flags)
           Lost(c) == /\ ~Dirty(j, c) /\ ~Dirty(k, c) /\ c \notin Given(j)
                      /\ ~k.buf[c].cur /\ ~Valid(k.buf[c].flags, k.buf[c].blk)
<1>2. \A c \in Buffers : Same(c) \/ Lost(c)
  BY <1>1 DEF Calm, Dirty
<1>3. \A c \in Buffers : Same(c) => (Dirty(k, c) <=> Dirty(j, c))
  BY <1>1 DEF Dirty, Tame
<1>4. \A c \in Buffers : Same(c) =>
        /\ "STALE" \in j.buf[c].flags => "STALE" \in k.buf[c].flags
        /\ Valid(k.buf[c].flags, k.buf[c].blk) => Valid(j.buf[c].flags, j.buf[c].blk)
        /\ "READ" \in k.buf[c].flags <=> "READ" \in j.buf[c].flags
        /\ k.buf[c].blk = j.buf[c].blk /\ k.buf[c].cur = j.buf[c].cur
  BY DEF Tame, Valid
<1>5. \A c \in Buffers : Lost(c) => /\ ~Dirty(j, c) /\ ~Dirty(k, c) /\ c \notin Given(j)
                                    /\ ~k.buf[c].cur /\ ~Valid(k.buf[c].flags, k.buf[c].blk)
  OBVIOUS
<1> HIDE DEF Same, Lost
<1>6. LastKept(k)
  BY <1>1, <1>2, <1>3, <1>4, <1>5 DEF LastKept
<1>7. InOrder(k)
  <2>1. \A i \in DOMAIN j.io : j.io[i] \in Buffers /\ j.io[i] \in Given(j)
    BY <1>1 DEF Given, OnList
  <2>2. \A i \in DOMAIN j.io : Same(j.io[i]) /\ j.io[i] \in Buffers
    BY <2>1, <1>2, <1>5
  <2>3. QED
    BY <2>2, <1>1, <1>4 DEF InOrder
<1>8. DirtyOnly(k, d)
  BY <1>1, <1>2, <1>3, <1>4, <1>5 DEF DirtyOnly
<1>9. Covered(k, d)
  BY <1>1, <1>2, <1>3, <1>4, <1>5 DEF Covered
<1>10. QED
  BY <1>6, <1>7, <1>8, <1>9 DEF CohSound

\* Only flags of one buffer.
LEMMA DoesCalm ==
    ASSUME NEW j, NEW k, NEW b, NEW fl, Does(j, k, b, fl), k.io = j.io,
           Tame(j.buf[b].flags, fl)
    PROVE  Calm(j, k)
  BY DEF Does, Touches, Calm, Tame

\* b has, or now gets, the last data of its block, which are to be written.
Dirties(j, k, b) ==
    /\ \A c \in Buffers \ {b} :
          /\ k.buf[c].flags = j.buf[c].flags /\ k.buf[c].blk = j.buf[c].blk
          /\ k.buf[c].cur <=> (j.buf[c].cur /\ j.buf[c].blk # j.buf[b].blk)
    /\ k.buf[b].blk = j.buf[b].blk /\ k.buf[b].cur /\ "STALE" \notin k.buf[b].flags
    /\ \/ k.io = j.io /\ "DELWRI" \in k.buf[b].flags
       \/ /\ k.io = Append(j.io, b)
          /\ "READ" \notin k.buf[b].flags /\ "DONE" \notin k.buf[b].flags

\* A block that is in a valid buffer is in no other but stale ones.
LEMMA OthersStale ==
    ASSUME NEW j, NEW H, CacheSound(j, H), NEW b \in Buffers, j.buf[b].blk # NULL,
           "STALE" \notin j.buf[b].flags
    PROVE  \A c \in Buffers \ {b} : j.buf[c].blk = j.buf[b].blk => "STALE" \in j.buf[c].flags
  BY DEF CacheSound, OneEach

\* Dirty buffers have blocks.
LEMMA DirtyBlocks ==
    ASSUME NEW j, NEW H, CacheSound(j, H)
    PROVE  \A c \in Buffers : Dirty(j, c) => j.buf[c].blk \in Blocks
<1>1. j \in CacheType /\ j.buf \in [Buffers -> Buf]
  BY CacheFields DEF CacheSound
<1>2. ASSUME NEW c \in Buffers, Dirty(j, c) PROVE j.buf[c].blk \in Blocks
  <2>1. j.buf[c].blk \in Blocks \cup {NULL}
    BY <1>1, BufFields
  <2>2. SoundAt(j, H, c)
    BY DEF CacheSound
  <2>3. j.buf[c].blk # NULL
    BY <1>2, <2>2 DEF SoundAt, BufferSound, Dirty
  <2>4. QED
    BY <2>1, <2>3
<1>3. QED
  BY <1>2


\* The order of the transfers when one is added at the end.
LEMMA AppendOrder ==
    ASSUME NEW s \in Seq(Buffers), NEW b \in Buffers
    PROVE  \A i, j \in DOMAIN Append(s, b) : i < j =>
              /\ i \in DOMAIN s /\ Append(s, b)[i] = s[i]
              /\ \/ j \in DOMAIN s /\ Append(s, b)[j] = s[j]
                 \/ Append(s, b)[j] = b
<1> DEFINE t == Append(s, b)
<1>1. /\ DOMAIN t = 1 .. Len(s) + 1 /\ DOMAIN s = 1 .. Len(s) /\ Len(s) \in Nat
      /\ t[Len(s) + 1] = b /\ \A i \in 1 .. Len(s) : t[i] = s[i]
  OBVIOUS
<1> HIDE DEF t
<1>2. QED
  BY <1>1 DEF t

\* The last data of a block come into a buffer, or go on their way to the disk.
LEMMA DirtiesCoherent ==
    ASSUME NEW j, NEW k, NEW H, NEW d \in [Blocks -> BOOLEAN], CacheSound(j, H), CohSound(j, d),
           NEW b \in Buffers, b \notin Given(j), j.buf[b].blk # NULL,
           "STALE" \notin j.buf[b].flags, Dirties(j, k, b)
    PROVE  CohSound(k, [d EXCEPT ![j.buf[b].blk] = FALSE])
<1> DEFINE x == j.buf[b].blk
           e == [d EXCEPT ![x] = FALSE]
<1>1. /\ j \in CacheType /\ j.io \in Seq(Buffers) /\ j.buf \in [Buffers -> Buf]
  BY CacheFields DEF CacheSound
<1>2. x \in Blocks /\ \A c \in Buffers : j.buf[c].cur \in BOOLEAN
  BY <1>1, BufFields
<1>3. \A y \in Blocks : e[y] <=> (d[y] /\ y # x)
  BY <1>2
<1>4. \A c \in Buffers \ {b} : j.buf[c].blk = x => "STALE" \in j.buf[c].flags
  BY OthersStale
<1>5. LastKept(j) /\ InOrder(j) /\ DirtyOnly(j, d) /\ Covered(j, d)
  BY DEF CohSound
<1>6. \A c \in Buffers : Dirty(j, c) => j.buf[c].blk \in Blocks
  BY DirtyBlocks
<1>7. /\ \A c \in Buffers \ {b} : /\ k.buf[c].flags = j.buf[c].flags
                                  /\ k.buf[c].blk = j.buf[c].blk
                                  /\ k.buf[c].cur <=> (j.buf[c].cur /\ j.buf[c].blk # x)
      /\ k.buf[b].blk = x /\ k.buf[b].cur /\ "STALE" \notin k.buf[b].flags
  BY DEF Dirties
<1>8. /\ \A c \in Buffers \ {b} : Dirty(k, c) <=> Dirty(j, c)
      /\ Dirty(k, b)
  <2>1. CASE k.io = j.io /\ "DELWRI" \in k.buf[b].flags
    BY <2>1, <1>7 DEF Dirty, Given
  <2>2. CASE k.io = Append(j.io, b) /\ "READ" \notin k.buf[b].flags
    <3>1. Given(k) = Given(j) \cup {b}
      <4>1. j.io \in Seq(Buffers) /\ NoDup(j.io) /\ b \notin OnList(j.io)
        BY <1>1 DEF CacheSound, Given
      <4>2. QED
        BY <4>1, <2>2, TailList DEF Given
    <3>2. QED
      BY <3>1, <2>2, <1>7 DEF Dirty
  <2>3. QED
    BY <2>1, <2>2 DEF Dirties
<1>9. \/ k.io = j.io
      \/ k.io = Append(j.io, b)
  BY DEF Dirties
<1> HIDE DEF x, e
<1>10. LastKept(k)
  <2>1. x # NULL
    BY DEF x
  <2>2. ASSUME NEW c \in Buffers
        PROVE  /\ Valid(k.buf[c].flags, k.buf[c].blk) => k.buf[c].cur
               /\ Dirty(k, c) /\ "STALE" \notin k.buf[c].flags => k.buf[c].cur
               /\ k.buf[c].blk = NULL => ~k.buf[c].cur
    <3>1. CASE c = b
      BY <3>1, <2>1, <1>7
    <3>2. CASE c # b
      <4>1. /\ Valid(j.buf[c].flags, j.buf[c].blk) => j.buf[c].cur
            /\ Dirty(j, c) /\ "STALE" \notin j.buf[c].flags => j.buf[c].cur
            /\ j.buf[c].blk = NULL => ~j.buf[c].cur
        BY <1>5 DEF LastKept
      <4>2. j.buf[c].blk = x => "STALE" \in j.buf[c].flags
        BY <3>2, <1>4
      <4>3. /\ k.buf[c].flags = j.buf[c].flags /\ k.buf[c].blk = j.buf[c].blk
            /\ k.buf[c].cur <=> (j.buf[c].cur /\ j.buf[c].blk # x)
            /\ Dirty(k, c) <=> Dirty(j, c)
        BY <3>2, <1>7, <1>8
      <4>4. QED
        BY <4>1, <4>2, <4>3 DEF Valid
    <3>3. QED
      BY <3>1, <3>2
  <2>3. QED
    BY <2>2 DEF LastKept
<1>11. InOrder(k)
  <2>1. ASSUME NEW m \in DOMAIN j.io
        PROVE  /\ j.io[m] \in Buffers \ {b}
    BY <1>1 DEF Given, OnList
  <2>2. ASSUME NEW m \in DOMAIN j.io, NEW n \in DOMAIN j.io, m < n,
               j.buf[j.io[m]].blk = j.buf[j.io[n]].blk
        PROVE  /\ "STALE" \in k.buf[j.io[m]].flags
               /\ "READ" \notin k.buf[j.io[n]].flags => ~k.buf[j.io[m]].cur
    BY <2>1, <2>2, <1>5, <1>7 DEF InOrder
  <2>3. ASSUME NEW m \in DOMAIN j.io, j.buf[j.io[m]].blk = x
        PROVE  "STALE" \in k.buf[j.io[m]].flags /\ ~k.buf[j.io[m]].cur
    BY <2>1, <2>3, <1>4, <1>7
  <2>4. CASE k.io = j.io
    BY <2>1, <2>2, <2>4, <1>7 DEF InOrder
  <2>5. CASE k.io = Append(j.io, b)
    <3>1. ASSUME NEW m \in DOMAIN k.io, NEW n \in DOMAIN k.io, m < n,
                 k.buf[k.io[m]].blk = k.buf[k.io[n]].blk
          PROVE  /\ "STALE" \in k.buf[k.io[m]].flags
                 /\ "READ" \notin k.buf[k.io[n]].flags => ~k.buf[k.io[m]].cur
      <4>1. /\ m \in DOMAIN j.io /\ k.io[m] = j.io[m]
            /\ \/ n \in DOMAIN j.io /\ k.io[n] = j.io[n]
               \/ k.io[n] = b
        BY <3>1, <2>5, <1>1, AppendOrder
      <4>2. CASE n \in DOMAIN j.io /\ k.io[n] = j.io[n]
        BY <4>1, <4>2, <3>1, <2>1, <2>2, <1>7
      <4>3. CASE k.io[n] = b
        BY <4>1, <4>3, <3>1, <2>1, <2>3, <1>7
      <4>4. QED
        BY <4>1, <4>2, <4>3
    <3>2. QED
      BY <3>1 DEF InOrder
  <2>6. QED
    BY <2>4, <2>5, <1>9
<1>12. DirtyOnly(k, e)
  BY <1>2, <1>3, <1>5, <1>6, <1>7, <1>8 DEF DirtyOnly
<1>13. Covered(k, e)
  <2>1. ASSUME NEW y \in Blocks, ~e[y]
        PROVE  \E c \in Buffers : k.buf[c].blk = y /\ k.buf[c].cur /\ Dirty(k, c)
    <3>1. CASE y = x
      BY <3>1, <1>7, <1>8
    <3>2. CASE y # x
      <4>1. PICK c \in Buffers : j.buf[c].blk = y /\ j.buf[c].cur /\ Dirty(j, c)
        BY <3>2, <2>1, <1>3, <1>5 DEF Covered
      <4>2. c # b
        BY <4>1, <3>2 DEF x
      <4>3. QED
        BY <4>1, <4>2, <3>2, <1>7, <1>8
    <3>3. QED
      BY <3>1, <3>2
  <2>2. QED
    BY <2>1 DEF Covered
<1>14. QED
  BY <1>10, <1>11, <1>12, <1>13 DEF CohSound, e, x

\* The write of a delayed write is started.
LEMMA WriteCoherent ==
    ASSUME NEW j, NEW k, NEW H, NEW d \in [Blocks -> BOOLEAN], CacheSound(j, H), CohSound(j, d),
           NEW b \in Buffers, b \notin Given(j), "DELWRI" \in j.buf[b].flags,
           NEW fl, Does(j, k, b, fl), k.io = Append(j.io, b),
           fl \cap {"READ", "DONE", "STALE"} = {}
    PROVE  CohSound(k, d)
<1>1. SoundAt(j, H, b)
  BY DEF CacheSound
<1>2. /\ j.buf[b].blk # NULL /\ "STALE" \notin j.buf[b].flags /\ "DONE" \in j.buf[b].flags
      /\ "ERROR" \notin j.buf[b].flags
  BY <1>1 DEF SoundAt, BufferSound
<1>3. Dirty(j, b)
  BY DEF Dirty
<1>4. j.buf[b].cur
  BY <1>2, <1>3 DEF CohSound, LastKept
<1>5. /\ ~d[j.buf[b].blk]
      /\ \A c \in Buffers \ {b} : j.buf[c].blk = j.buf[b].blk => ~j.buf[c].cur
  BY <1>3, <1>4 DEF CohSound, DirtyOnly
<1>6. [d EXCEPT ![j.buf[b].blk] = FALSE] = d
  BY <1>5
<1>7. \A c \in Buffers : j.buf[c].cur \in BOOLEAN
  BY CacheFields, BufFields DEF CacheSound
<1>8. Dirties(j, k, b)
  BY <1>4, <1>5, <1>7 DEF Does, Touches, Dirties
<1>9. CohSound(k, [d EXCEPT ![j.buf[b].blk] = FALSE])
  BY <1>2, <1>8, DirtiesCoherent
<1>10. QED
  BY <1>6, <1>9

\* A read is started.
LEMMA ReadCoherent ==
    ASSUME NEW j, NEW k, NEW H, NEW d, CacheSound(j, H), CohSound(j, d),
           NEW b \in Buffers, b \notin Given(j), j.buf[b].blk # NULL,
           "STALE" \notin j.buf[b].flags, "DONE" \notin j.buf[b].flags,
           NEW fl, Does(j, k, b, fl), k.io = Append(j.io, b),
           "READ" \in fl, "DONE" \notin fl, "DELWRI" \notin fl, "STALE" \notin fl
    PROVE  CohSound(k, d)
<1>1. /\ j.io \in Seq(Buffers) /\ NoDup(j.io) /\ b \notin OnList(j.io)
      /\ LastKept(j) /\ InOrder(j) /\ DirtyOnly(j, d) /\ Covered(j, d)
  BY CacheFields DEF CacheSound, CohSound, Given
<1>2. Given(k) = Given(j) \cup {b}
  BY <1>1, TailList DEF Given
<1>3. SoundAt(j, H, b)
  BY DEF CacheSound
<1>4. "DELWRI" \notin j.buf[b].flags
  BY <1>3 DEF SoundAt, BufferSound
<1>5. /\ \A c \in Buffers \ {b} : k.buf[c] = j.buf[c]
      /\ \A c \in Buffers : k.buf[c].blk = j.buf[c].blk /\ k.buf[c].cur = j.buf[c].cur
      /\ k.buf[b].flags = fl
  BY DEF Does, Touches
<1>6. /\ \A c \in Buffers \ {b} : Dirty(k, c) <=> Dirty(j, c)
      /\ ~Dirty(k, b) /\ ~Dirty(j, b)
  BY <1>2, <1>4, <1>5 DEF Dirty
<1>7. \A c \in Buffers \ {b} : j.buf[c].blk = j.buf[b].blk => "STALE" \in j.buf[c].flags
  BY OthersStale
<1>8. LastKept(k)
  <2>1. ~Valid(fl, k.buf[b].blk)
    BY DEF Valid
  <2>2. QED
    BY <2>1, <1>1, <1>5, <1>6 DEF LastKept
<1>9. InOrder(k)
  <2>1. \A m \in DOMAIN j.io : j.io[m] \in Buffers \ {b}
    BY <1>1 DEF OnList
  <2>2. ASSUME NEW m \in DOMAIN k.io, NEW n \in DOMAIN k.io, m < n,
               k.buf[k.io[m]].blk = k.buf[k.io[n]].blk
        PROVE  /\ "STALE" \in k.buf[k.io[m]].flags
               /\ "READ" \notin k.buf[k.io[n]].flags => ~k.buf[k.io[m]].cur
    <3>1. /\ m \in DOMAIN j.io /\ k.io[m] = j.io[m]
          /\ \/ n \in DOMAIN j.io /\ k.io[n] = j.io[n]
             \/ k.io[n] = b
      BY <2>2, <1>1, AppendOrder
    <3>2. CASE n \in DOMAIN j.io /\ k.io[n] = j.io[n]
      BY <3>1, <3>2, <2>1, <2>2, <1>1, <1>5 DEF InOrder
    <3>3. CASE k.io[n] = b
      BY <3>1, <3>3, <2>1, <2>2, <1>5, <1>7
    <3>4. QED
      BY <3>1, <3>2, <3>3
  <2>3. QED
    BY <2>2 DEF InOrder
<1>10. DirtyOnly(k, d) /\ Covered(k, d)
  BY <1>1, <1>5, <1>6 DEF DirtyOnly, Covered
<1>11. QED
  BY <1>8, <1>9, <1>10 DEF CohSound

\* The last data of the block of b, when its transfer is over: what the disk
\* had, or has got.
Transferred(k, b, d) == IF "READ" \in k.buf[b].flags THEN d[k.buf[b].blk] ELSE k.buf[b].cur

OnDisk(k, b, d) ==
    IF "READ" \in k.buf[b].flags THEN d ELSE [d EXCEPT ![k.buf[b].blk] = k.buf[b].cur]

\* The transfer of b ends: what b then has is the last data if it is valid.
Ends(j, k, b, d) ==
    /\ k.io = Without(j.io, b)
    /\ \A c \in Buffers \ {b} : k.buf[c] = j.buf[c]
    /\ k.buf[b].blk = j.buf[b].blk /\ "DELWRI" \notin k.buf[b].flags
    /\ "STALE" \in j.buf[b].flags => "STALE" \in k.buf[b].flags
    /\ k.buf[b].cur => Transferred(j, b, d)
    /\ Valid(k.buf[b].flags, k.buf[b].blk) /\ Transferred(j, b, d) => k.buf[b].cur

\* What is still in the driver's hands behind a transfer that ends.
LEMMA BehindEnd ==
    ASSUME NEW j, NEW H, CacheSound(j, H), NEW d, CohSound(j, d),
           NEW n \in DOMAIN j.io, NEW b, b = j.io[n],
           \A m \in 1 .. n - 1 : j.buf[j.io[m]].blk # j.buf[b].blk,
           NEW c \in Buffers \ {b}, j.buf[c].blk = j.buf[b].blk, c \in Given(j)
    PROVE  /\ "STALE" \in j.buf[b].flags
           /\ "READ" \notin j.buf[c].flags => ~j.buf[b].cur
<1>1. j.io \in Seq(Buffers) /\ InOrder(j)
  BY CacheFields DEF CacheSound, CohSound
<1>2. PICK m \in DOMAIN j.io : j.io[m] = c
  BY DEF Given, OnList
<1>3. n < m
  BY <1>1, <1>2
<1>4. QED
  BY <1>1, <1>2, <1>3 DEF InOrder

\* A transfer ends: the one of its block that was given to the device first.
LEMMA EndCoherent ==
    ASSUME NEW j, NEW H, CacheSound(j, H), NEW d \in [Blocks -> BOOLEAN], CohSound(j, d),
           NEW n \in DOMAIN j.io, NEW b, b = j.io[n],
           \A m \in 1 .. n - 1 : j.buf[j.io[m]].blk # j.buf[b].blk,
           NEW k, Ends(j, k, b, d)
    PROVE  CohSound(k, OnDisk(j, b, d))
<1> DEFINE x == j.buf[b].blk
           e == OnDisk(j, b, d)
           last == Transferred(j, b, d)
           read == "READ" \in j.buf[b].flags
<1>1. /\ j \in CacheType /\ j.io \in Seq(Buffers) /\ j.buf \in [Buffers -> Buf] /\ NoDup(j.io)
      /\ LastKept(j) /\ InOrder(j) /\ DirtyOnly(j, d) /\ Covered(j, d)
  BY CacheFields DEF CacheSound, CohSound
<1>2. b \in Buffers /\ b \in Given(j)
  BY <1>1 DEF Given, OnList
<1>3. x # NULL /\ "DELWRI" \notin j.buf[b].flags
  <2>1. SoundAt(j, H, b)
    BY <1>2 DEF CacheSound
  <2>2. QED
    BY <2>1, <1>2 DEF SoundAt, BufferSound
<1>4. x \in Blocks /\ \A c \in Buffers : j.buf[c].cur \in BOOLEAN
  BY <1>1, <1>2, <1>3, BufFields
<1>5. /\ \A y \in Blocks \ {x} : e[y] = d[y]
      /\ e[x] = last
      /\ read => last = d[x]
      /\ ~read => last = j.buf[b].cur
  BY <1>4 DEF OnDisk, Transferred
<1>6. /\ Without(j.io, b) \in Seq(Buffers) /\ OnList(Without(j.io, b)) = OnList(j.io) \ {b}
      /\ \A p, q \in DOMAIN Without(j.io, b) : p < q =>
            \E u, w \in DOMAIN j.io :
               u < w /\ Without(j.io, b)[p] = j.io[u] /\ Without(j.io, b)[q] = j.io[w]
  BY <1>1, <1>2, WithoutList DEF Given
<1>7. /\ k.io = Without(j.io, b)
      /\ \A c \in Buffers \ {b} : k.buf[c] = j.buf[c]
      /\ k.buf[b].blk = x /\ "DELWRI" \notin k.buf[b].flags
      /\ "STALE" \in j.buf[b].flags => "STALE" \in k.buf[b].flags
      /\ k.buf[b].cur => last
      /\ Valid(k.buf[b].flags, k.buf[b].blk) /\ last => k.buf[b].cur
  BY DEF Ends
<1>8. Given(k) = Given(j) \ {b}
  BY <1>6, <1>7 DEF Given
<1>9. /\ \A c \in Buffers \ {b} : Dirty(k, c) <=> Dirty(j, c)
      /\ ~Dirty(k, b)
      /\ Dirty(j, b) <=> ~read
  BY <1>2, <1>3, <1>7, <1>8 DEF Dirty
<1>10. \A c \in Buffers : Dirty(j, c) => j.buf[c].blk \in Blocks
  BY DirtyBlocks
\* Another dirty buffer of the block.
<1>11. ASSUME NEW c \in Buffers \ {b}, j.buf[c].blk = x, Dirty(j, c)
       PROVE  /\ "STALE" \in j.buf[c].flags => "STALE" \in j.buf[b].flags /\ ~j.buf[b].cur
              /\ "STALE" \notin j.buf[c].flags => "STALE" \in j.buf[b].flags /\ j.buf[c].cur
  <2>1. CASE "STALE" \in j.buf[c].flags
    <3>1. SoundAt(j, H, c)
      BY DEF CacheSound
    <3>2. "DELWRI" \notin j.buf[c].flags
      BY <2>1, <3>1 DEF SoundAt, BufferSound
    <3>3. c \in Given(j) /\ "READ" \notin j.buf[c].flags
      BY <3>2, <1>11 DEF Dirty
    <3>4. QED
      BY <2>1, <3>3, <1>11, BehindEnd
  <2>2. CASE "STALE" \notin j.buf[c].flags
    <3>1. j.buf[c].cur
      BY <2>2, <1>1, <1>11 DEF LastKept
    <3>2. "STALE" \in j.buf[b].flags
      BY <2>2, <1>2, <1>3, <1>11 DEF CacheSound, OneEach
    <3>3. QED
      BY <2>2, <3>1, <3>2
  <2>3. QED
    BY <2>1, <2>2
<1> HIDE DEF x, e, last, read
<1>12. LastKept(k)
  <2>1. ASSUME Valid(k.buf[b].flags, k.buf[b].blk) PROVE k.buf[b].cur
    <3>1. "STALE" \notin j.buf[b].flags
      BY <2>1, <1>7 DEF Valid
    <3>2. last
      <4>1. CASE read
        <5>1. SUFFICES ASSUME ~d[x] PROVE FALSE
          BY <4>1, <1>5
        <5>2. PICK c \in Buffers : j.buf[c].blk = x /\ j.buf[c].cur /\ Dirty(j, c)
          BY <5>1, <1>1, <1>4 DEF Covered
        <5>3. c # b
          BY <5>2, <4>1, <1>9
        <5>4. QED
          BY <5>2, <5>3, <3>1, <1>11
      <4>2. CASE ~read
        BY <4>2, <3>1, <1>1, <1>2, <1>5, <1>9 DEF LastKept
      <4>3. QED
        BY <4>1, <4>2
    <3>3. QED
      BY <2>1, <3>2, <1>7
  <2>2. k.buf[b].blk # NULL
    BY <1>3, <1>7
  <2>3. ASSUME NEW c \in Buffers
        PROVE  /\ Valid(k.buf[c].flags, k.buf[c].blk) => k.buf[c].cur
               /\ Dirty(k, c) /\ "STALE" \notin k.buf[c].flags => k.buf[c].cur
               /\ k.buf[c].blk = NULL => ~k.buf[c].cur
    <3>1. CASE c = b
      BY <3>1, <2>1, <2>2, <1>9
    <3>2. CASE c # b
      <4>1. k.buf[c] = j.buf[c] /\ (Dirty(k, c) <=> Dirty(j, c))
        BY <3>2, <1>7, <1>9
      <4>2. QED
        BY <4>1, <1>1 DEF LastKept
    <3>3. QED
      BY <3>1, <3>2
  <2>4. QED
    BY <2>3 DEF LastKept
<1>13. InOrder(k)
  <2>1. \A p \in DOMAIN k.io : k.io[p] \in Buffers \ {b}
    <3>1. OnList(j.io) \subseteq Buffers
      BY <1>1 DEF OnList
    <3>2. OnList(k.io) \subseteq Buffers \ {b}
      BY <3>1, <1>6, <1>7
    <3>3. QED
      BY <3>2 DEF OnList
  <2>2. ASSUME NEW p \in DOMAIN k.io, NEW q \in DOMAIN k.io, p < q,
               k.buf[k.io[p]].blk = k.buf[k.io[q]].blk
        PROVE  /\ "STALE" \in k.buf[k.io[p]].flags
               /\ "READ" \notin k.buf[k.io[q]].flags => ~k.buf[k.io[p]].cur
    <3>1. PICK u \in DOMAIN j.io, w \in DOMAIN j.io : u < w /\ k.io[p] = j.io[u] /\ k.io[q] = j.io[w]
      BY <2>2, <1>6, <1>7
    <3>2. k.buf[k.io[p]] = j.buf[j.io[u]] /\ k.buf[k.io[q]] = j.buf[j.io[w]]
      <4> DEFINE c == k.io[p]
                 a == k.io[q]
      <4>1. c \in Buffers \ {b} /\ a \in Buffers \ {b}
        BY <2>1
      <4>2. c = j.io[u] /\ a = j.io[w]
        BY <3>1
      <4> HIDE DEF c, a
      <4>3. k.buf[c] = j.buf[c] /\ k.buf[a] = j.buf[a]
        BY <4>1, <1>7
      <4>4. k.buf[c] = j.buf[j.io[u]] /\ k.buf[a] = j.buf[j.io[w]]
        BY <4>2, <4>3
      <4>5. QED
        BY <4>4 DEF c, a
    <3>3. QED
      BY <2>2, <3>1, <3>2, <1>1 DEF InOrder
  <2>3. QED
    BY <2>2 DEF InOrder
<1>14. DirtyOnly(k, e)
  <2>1. ASSUME NEW c \in Buffers, Dirty(k, c)
        PROVE  /\ ~e[k.buf[c].blk]
               /\ k.buf[c].cur =>
                     \A a \in Buffers \ {c} : k.buf[a].blk = k.buf[c].blk => ~k.buf[a].cur
    <3>1. c # b
      BY <2>1, <1>9
    <3>2. Dirty(j, c) /\ k.buf[c] = j.buf[c]
      BY <2>1, <3>1, <1>7, <1>9
    <3>3. /\ j.buf[c].blk \in Blocks /\ ~d[j.buf[c].blk]
          /\ j.buf[c].cur =>
                \A a \in Buffers \ {c} : j.buf[a].blk = j.buf[c].blk => ~j.buf[a].cur
      BY <3>2, <1>1, <1>10 DEF DirtyOnly
    <3>4. j.buf[c].blk = x => ~last
      <4>1. CASE read
        BY <4>1, <3>3, <1>5
      <4>2. CASE ~read
        <5>1. SUFFICES ASSUME j.buf[c].blk = x, j.buf[b].cur PROVE FALSE
          BY <4>2, <1>5
        <5>2. "STALE" \notin j.buf[c].flags /\ j.buf[c].cur
          BY <5>1, <3>1, <3>2, <1>11
        <5>3. QED
          BY <5>1, <5>2, <3>1, <3>3, <1>2 DEF x
      <4>3. QED
        BY <4>1, <4>2
    <3>5. ~e[k.buf[c].blk]
      BY <3>2, <3>3, <3>4, <1>5
    <3>6. ASSUME k.buf[c].cur, NEW a \in Buffers \ {c}, k.buf[a].blk = k.buf[c].blk
          PROVE  ~k.buf[a].cur
      <4>1. CASE a = b
        BY <4>1, <3>2, <3>4, <3>6, <1>7
      <4>2. CASE a # b
        BY <4>2, <3>2, <3>3, <3>6, <1>7
      <4>3. QED
        BY <4>1, <4>2
    <3>7. QED
      BY <3>5, <3>6
  <2>2. QED
    BY <2>1 DEF DirtyOnly
<1>15. Covered(k, e)
  <2>1. ASSUME NEW y \in Blocks, ~e[y]
        PROVE  \E c \in Buffers : k.buf[c].blk = y /\ k.buf[c].cur /\ Dirty(k, c)
    <3>1. ~d[y] /\ (y = x => ~last)
      <4>1. CASE y # x
        BY <4>1, <2>1, <1>5
      <4>2. CASE y = x /\ read
        BY <4>2, <2>1, <1>5
      <4>3. CASE y = x /\ ~read
        <5>1. ~d[j.buf[b].blk]
          BY <4>3, <1>1, <1>2, <1>9 DEF DirtyOnly
        <5>2. QED
          BY <4>3, <5>1, <2>1, <1>5 DEF x
      <4>4. QED
        BY <4>1, <4>2, <4>3
    <3>2. PICK c \in Buffers : j.buf[c].blk = y /\ j.buf[c].cur /\ Dirty(j, c)
      BY <3>1, <1>1 DEF Covered
    <3>3. c # b
      BY <3>1, <3>2, <1>5, <1>9 DEF x
    <3>4. QED
      BY <3>2, <3>3, <1>7, <1>9
  <2>2. QED
    BY <2>1 DEF Covered
<1>16. QED
  BY <1>12, <1>13, <1>14, <1>15 DEF CohSound, e

(***************************************************************************)
(* What a step means for the processes that do not take it.                *)
(***************************************************************************)

\* The fields of a process's locals have their types.
LEMMA LocalFields ==
    ASSUME NEW l \in Local
    PROVE  /\ l.op \in Ops /\ l.blk \in Blocks \cup {NULL} /\ l.ra \in Blocks \cup {NULL}
           /\ l.bp \in Buffers \cup {NULL} /\ l.nbp \in Buffers \cup {NULL}
           /\ l.in \in {"main", "ra"} /\ l.chan \in Buffers \cup {NULL}
  BY DEF Local

\* A process has buffers in its hands.
LEMMA HeldBuffers ==
    ASSUME NEW pl, NEW l \in Local
    PROVE  HeldBy(pl, l) \subseteq Buffers
  BY LocalFields DEF HeldBy

\* Who is not woken is where it was, and rightly so.
LEMMA StaysSound ==
    ASSUME NEW j, NEW k, NEW pl, NEW l, PlaceSound(j, pl, l), Wakes(j, k),
           \A c \in HeldBy(pl, l) : Keeps(j, k, c),
           ~(pl \in Asleep /\ l.chan \in k.ev)
    PROVE  PlaceSound(k, pl, l)
<1>1. l.bp \in Buffers \cup {NULL} /\ l.nbp \in Buffers \cup {NULL} /\ l.chan \in Buffers \cup {NULL}
  BY LocalFields DEF PlaceSound
<1>2. /\ l.bp # NULL => Keeps(j, k, l.bp)
      /\ l.nbp # NULL => Keeps(j, k, l.nbp)
      /\ pl = "got" /\ l.chan # NULL => Keeps(j, k, l.chan)
  BY DEF HeldBy
<1>3. LocalSound(pl, l) /\ HandsSound(j, pl, l) /\ SleepSound(j, pl, l)
  BY DEF PlaceSound
<1>4. HandsSound(k, pl, l)
  BY <1>2, <1>3 DEF HandsSound, LocalSound, Keeps
<1>5. SleepSound(k, pl, l)
  <2>1. CASE pl \in {"asleep:getblk", "asleep:flush"}
    <3>1. l.chan \in Buffers \ k.ev
      BY <2>1, <1>1, <1>3 DEF LocalSound, Asleep
    <3>2. QED
      BY <2>1, <3>1, <1>3 DEF SleepSound, Wakes
  <2>2. CASE pl = "asleep:io"
    <3>1. l.chan \in Buffers \ k.ev
      BY <2>2, <1>1, <1>3 DEF LocalSound, Asleep
    <3>2. QED
      BY <2>2, <3>1, <1>3 DEF SleepSound, Wakes
  <2>3. CASE pl = "asleep:free"
    <3>1. NULL \notin k.ev
      BY <2>3, <1>3 DEF LocalSound, Asleep
    <3>2. QED
      BY <2>3, <3>1, <1>3 DEF SleepSound, Wakes
  <2>4. CASE pl \notin Asleep
    BY <2>4 DEF SleepSound, Asleep
  <2>5. QED
    BY <2>1, <2>2, <2>3, <2>4 DEF Asleep
<1>6. QED
  BY <1>3, <1>4, <1>5 DEF PlaceSound

\* Who is woken goes on with what it had.
LEMMA WakesSound ==
    ASSUME NEW j, NEW k, NEW pl, NEW l, PlaceSound(j, pl, l),
           \A c \in HeldBy(pl, l) : Keeps(j, k, c),
           pl \in Asleep
    PROVE  LET m == [l EXCEPT !.chan = NULL]
           IN  PlaceSound(k, WakePlace[pl], m) /\ HeldBy(WakePlace[pl], m) = HeldBy(pl, l)
<1> DEFINE m == [l EXCEPT !.chan = NULL]
           to == WakePlace[pl]
<1>1. l \in Local
  BY DEF PlaceSound
<1>2. /\ m \in Local /\ m.op = l.op /\ m.blk = l.blk /\ m.ra = l.ra /\ m.bp = l.bp
      /\ m.nbp = l.nbp /\ m.in = l.in /\ m.chan = NULL
  BY <1>1, Zenon DEF Local
<1>3. /\ pl \in {"asleep:getblk", "asleep:free"} => to = "getblk"
      /\ pl = "asleep:io" => to = "biowait"
      /\ pl = "asleep:flush" => to = "blkflush"
      /\ pl \in {"asleep:getblk", "asleep:free", "asleep:io", "asleep:flush"}
  BY DEF WakePlace, Asleep
<1> HIDE DEF m, to
<1>4. to \in PC /\ to # "got" /\ pl # "got" /\ to # "held" /\ pl # "held"
  BY <1>3 DEF PC
<1>5. HeldBy(to, m) = HeldBy(pl, l)
  BY <1>2, <1>4 DEF HeldBy
<1>6. /\ l.bp # NULL => Keeps(j, k, l.bp)
      /\ l.nbp # NULL => Keeps(j, k, l.nbp)
  BY DEF HeldBy
<1>7. LocalSound(pl, l) /\ HandsSound(j, pl, l)
  BY DEF PlaceSound
<1>8. LocalSound(to, m)
  BY <1>2, <1>3, <1>7 DEF LocalSound, Getting
<1>9. HandsSound(k, to, m)
  BY <1>2, <1>4, <1>6, <1>7 DEF HandsSound, Keeps
<1>10. SleepSound(k, to, m)
  BY <1>3 DEF SleepSound
<1>11. QED
  BY <1>2, <1>4, <1>5, <1>8, <1>9, <1>10 DEF PlaceSound, m, to

\* Everyone, after the wakeups of k.
LEMMA OthersSound ==
    ASSUME BioInv, NEW k, Wakes(Cache, k), NEW q \in Procs,
           \A c \in HeldBy(pc[q], loc[q]) : Keeps(Cache, k, c)
    PROVE  LET pl == wakeprocs(k.ev)[q]
               l == NoChan(k.ev)[q]
           IN  PlaceSound(k, pl, l) /\ HeldBy(pl, l) = HeldBy(pc[q], loc[q])
<1>1. PlaceSound(Cache, pc[q], loc[q])
  BY DEF BioInv
<1>2. CASE q \in Woken(k.ev)
  <2>1. pc[q] \in Asleep
    BY <1>2 DEF Woken
  <2>2. wakeprocs(k.ev)[q] = WakePlace[pc[q]] /\ NoChan(k.ev)[q] = [loc[q] EXCEPT !.chan = NULL]
    BY <1>2, Zenon DEF wakeprocs, NoChan
  <2>3. QED
    BY <1>1, <2>1, <2>2, WakesSound
<1>3. CASE q \notin Woken(k.ev)
  <2>1. ~(pc[q] \in Asleep /\ loc[q].chan \in k.ev)
    BY <1>3 DEF Woken
  <2>2. wakeprocs(k.ev)[q] = pc[q] /\ NoChan(k.ev)[q] = loc[q]
    BY <1>3 DEF wakeprocs, NoChan
  <2>3. QED
    BY <1>1, <2>1, <2>2, StaysSound
<1>4. QED
  BY <1>2, <1>3

\* The cache of the next state is k, but for the wakeups.
LEMMA CommitSound ==
    ASSUME NEW k, NEW H, CacheSound(k, H), Commit(k)
    PROVE  /\ CacheSound(Cache', H)
           /\ \A pl, l : PlaceSound(k, pl, l) => PlaceSound(Cache', pl, l)
           /\ \A d : CohSound(k, d) => CohSound(Cache', d)
<1> DEFINE m == Cache'
<1>1. k \in CacheType
  BY DEF CacheSound
<1>2. m = [buf |-> k.buf, free |-> k.free, room |-> k.room, want |-> k.want, io |-> k.io, ev |-> {}]
  BY DEF Commit, Cache
<1> HIDE DEF m
<1>3. /\ m \in CacheType /\ m.buf = k.buf /\ m.free = k.free /\ m.room = k.room
      /\ m.want = k.want /\ m.io = k.io
  BY <1>1, <1>2, CacheFields DEF CacheType
<1>4. CacheSound(m, H)
  BY <1>3 DEF CacheSound, SoundAt, OneEach, Sizes, Freed, Given
<1>5. \A pl, l : PlaceSound(k, pl, l) => PlaceSound(m, pl, l)
  BY <1>3 DEF PlaceSound, HandsSound, SleepSound, Started, Given
<1>6. \A d : CohSound(k, d) => CohSound(m, d)
  BY <1>3 DEF CohSound, LastKept, InOrder, DirtyOnly, Covered, Dirty, Given
<1>7. QED
  BY <1>4, <1>5, <1>6 DEF m

\* The buffers in the hands of the other processes.
Others(p) == UNION {HeldBy(pc[q], loc[q]) : q \in Procs \ {p}}

\* A step of process p to place with locals l.
LEMMA GoKeeps ==
    ASSUME BioInv, NEW p \in Procs, NEW k, NEW place, NEW l, Go(p, k, place, l),
           HeldBy(place, l) \cap Others(p) = {}, CacheSound(k, Others(p) \cup HeldBy(place, l)),
           Wakes(Cache, k), \A c \in Others(p) : Keeps(Cache, k, c),
           PlaceSound(k, place, l),
           disk' \in [Blocks -> BOOLEAN], CohSound(k, disk')
    PROVE  BioInv'
<1> DEFINE R == Others(p)
<1>1. /\ Commit(k) /\ onproc \in {NULL, p}
      /\ pc' = [wakeprocs(k.ev) EXCEPT ![p] = place]
      /\ loc' = [NoChan(k.ev) EXCEPT ![p] = l]
      /\ onproc' = IF place \in Asleep \cup {"user", "alloc", "held"} THEN NULL ELSE p
  BY DEF Go
<1>2. ASSUME NEW q \in Procs, q # p
      PROVE  /\ pc'[q] = wakeprocs(k.ev)[q] /\ loc'[q] = NoChan(k.ev)[q]
             /\ PlaceSound(k, pc'[q], loc'[q])
             /\ HeldBy(pc'[q], loc'[q]) = HeldBy(pc[q], loc[q])
  <2>1. pc'[q] = wakeprocs(k.ev)[q] /\ loc'[q] = NoChan(k.ev)[q]
    BY <1>1, <1>2 DEF wakeprocs, NoChan
  <2>2. \A c \in HeldBy(pc[q], loc[q]) : Keeps(Cache, k, c)
    BY <1>2 DEF Others
  <2>3. QED
    BY <2>1, <2>2, OthersSound
<1>3. pc'[p] = place /\ loc'[p] = l
  BY <1>1 DEF wakeprocs, NoChan
<1>4. \A q \in Procs : PlaceSound(k, pc'[q], loc'[q])
  BY <1>2, <1>3
<1>5. pc' \in [Procs -> PC] /\ loc' \in [Procs -> Local]
  <2>1. pc' = [q \in Procs |-> pc'[q]] /\ loc' = [q \in Procs |-> loc'[q]]
    BY <1>1 DEF wakeprocs, NoChan
  <2>2. \A q \in Procs : pc'[q] \in PC /\ loc'[q] \in Local
    BY <1>4 DEF PlaceSound
  <2>3. QED
    BY <2>1, <2>2
<1>6. InUse' = R \cup HeldBy(place, l)
  <2>1. InUse' = UNION {HeldBy(pc'[q], loc'[q]) : q \in Procs}
    BY DEF InUse, HeldBy
  <2>2. ASSUME NEW c PROVE c \in InUse' <=> c \in R \cup HeldBy(place, l)
    <3>1. c \in InUse' <=> \E q \in Procs : c \in HeldBy(pc'[q], loc'[q])
      BY <2>1
    <3>2. c \in R <=> \E q \in Procs \ {p} : c \in HeldBy(pc[q], loc[q])
      BY DEF Others
    <3>3. QED
      BY <3>1, <3>2, <1>2, <1>3
  <2>3. QED
    BY <2>2
<1>7. Apart'
  <2>1. SUFFICES ASSUME NEW q \in Procs, NEW r \in Procs, q # r
                 PROVE  HeldBy(pc'[q], loc'[q]) \cap HeldBy(pc'[r], loc'[r]) = {}
    BY DEF Apart, HeldBy
  <2>2. CASE q # p /\ r # p
    <3>1. HeldBy(pc[q], loc[q]) \cap HeldBy(pc[r], loc[r]) = {}
      BY <2>1 DEF BioInv, Apart
    <3>2. QED
      BY <2>2, <3>1, <1>2
  <2>3. CASE q = p
    <3>1. HeldBy(pc[r], loc[r]) \subseteq R
      BY <2>1, <2>3 DEF Others
    <3>2. QED
      BY <2>1, <2>3, <3>1, <1>2, <1>3
  <2>4. CASE r = p
    <3>1. HeldBy(pc[q], loc[q]) \subseteq R
      BY <2>1, <2>4 DEF Others
    <3>2. QED
      BY <2>1, <2>4, <3>1, <1>2, <1>3
  <2>5. QED
    BY <2>2, <2>3, <2>4
<1>8. CacheSound(Cache', InUse')
  BY <1>1, <1>6, CommitSound
<1>9. \A q \in Procs : PlaceSound(Cache', pc'[q], loc'[q])
  BY <1>1, <1>4, CommitSound
<1>10. onproc' \in Procs \cup {NULL}
  BY <1>1
<1>11. CohSound(Cache', disk')
  BY <1>1, <1>8, CommitSound
<1>12. QED
  BY <1>5, <1>7, <1>8, <1>9, <1>10, <1>11 DEF BioInv

\* A step of nobody, with wakeups.
LEMMA InterruptKeeps ==
    ASSUME BioInv, NEW k, Commit(k), CacheSound(k, InUse),
           pc' = wakeprocs(k.ev), loc' = NoChan(k.ev), UNCHANGED onproc,
           Wakes(Cache, k), \A c \in InUse : Keeps(Cache, k, c),
           disk' \in [Blocks -> BOOLEAN], CohSound(k, disk')
    PROVE  BioInv'
<1>1. ASSUME NEW q \in Procs
      PROVE  /\ PlaceSound(k, pc'[q], loc'[q])
             /\ HeldBy(pc'[q], loc'[q]) = HeldBy(pc[q], loc[q])
  <2>1. \A c \in HeldBy(pc[q], loc[q]) : Keeps(Cache, k, c)
    BY DEF InUse
  <2>2. QED
    BY <2>1, OthersSound
<1>2. pc' \in [Procs -> PC] /\ loc' \in [Procs -> Local]
  <2>1. pc' = [q \in Procs |-> pc'[q]] /\ loc' = [q \in Procs |-> loc'[q]]
    BY DEF wakeprocs, NoChan
  <2>2. \A q \in Procs : pc'[q] \in PC /\ loc'[q] \in Local
    BY <1>1 DEF PlaceSound
  <2>3. QED
    BY <2>1, <2>2
<1>3. InUse' = InUse
  <2>1. InUse' = UNION {HeldBy(pc'[q], loc'[q]) : q \in Procs}
    BY DEF InUse, HeldBy
  <2>2. QED
    BY <2>1, <1>1 DEF InUse
<1>4. Apart'
  <2>1. SUFFICES ASSUME NEW q \in Procs, NEW r \in Procs, q # r
                 PROVE  HeldBy(pc'[q], loc'[q]) \cap HeldBy(pc'[r], loc'[r]) = {}
    BY DEF Apart, HeldBy
  <2>2. HeldBy(pc[q], loc[q]) \cap HeldBy(pc[r], loc[r]) = {}
    BY <2>1 DEF BioInv, Apart
  <2>3. QED
    BY <2>2, <1>1
<1>5. CacheSound(Cache', InUse')
  BY <1>3, CommitSound
<1>6. \A q \in Procs : PlaceSound(Cache', pc'[q], loc'[q])
  BY <1>1, CommitSound
<1>7. CohSound(Cache', disk')
  BY CommitSound
<1>8. QED
  BY <1>2, <1>4, <1>5, <1>6, <1>7 DEF BioInv

(***************************************************************************)
(* Steps of a process, by what they do to the cache.                       *)
(***************************************************************************)

\* What is known when process p takes a step.
LEMMA AtHand ==
    ASSUME BioInv, NEW p \in Procs
    PROVE  /\ CacheSound(Cache, InUse) /\ Cache \in CacheType
           /\ NoDup(Cache.free) /\ NoDup(Cache.io)
           /\ Cache.buf = buf /\ Cache.free = free /\ Cache.io = io /\ Cache.room = room
           /\ Cache.want = want /\ Cache.ev = {}
           /\ PlaceSound(Cache, pc[p], loc[p])
           /\ LocalSound(pc[p], loc[p]) /\ HandsSound(Cache, pc[p], loc[p])
           /\ pc[p] \in PC /\ loc[p] \in Local
           /\ InUse = Others(p) \cup HeldBy(pc[p], loc[p])
           /\ Others(p) \cap HeldBy(pc[p], loc[p]) = {}
           /\ Others(p) \subseteq Buffers
           /\ HeldBy(pc[p], loc[p]) \subseteq Buffers
           /\ disk \in [Blocks -> BOOLEAN] /\ CohSound(Cache, disk)
<1>1. CacheSound(Cache, InUse) /\ PlaceSound(Cache, pc[p], loc[p]) /\ disk \in [Blocks -> BOOLEAN]
      /\ CohSound(Cache, disk)
  BY DEF BioInv
<1>2. /\ Cache.buf = buf /\ Cache.free = free /\ Cache.io = io /\ Cache.room = room
      /\ Cache.want = want /\ Cache.ev = {}
  BY DEF Cache
<1>3. InUse = Others(p) \cup HeldBy(pc[p], loc[p])
  BY DEF InUse, Others
<1>4. Others(p) \cap HeldBy(pc[p], loc[p]) = {}
  BY DEF BioInv, Apart, Others
<1>5. InUse \subseteq Buffers
  BY <1>1 DEF CacheSound
<1>6. QED
  BY <1>1, <1>2, <1>3, <1>4, <1>5 DEF PlaceSound, CacheSound

\* The cache as it is.
LEMMA NoChange ==
    ASSUME NEW k
    PROVE  Wakes(k, k) /\ \A c : Keeps(k, k, c)
  BY DEF Wakes, Keeps

\* The cache stays as it is, and p keeps its buffers.
LEMMA GoSame ==
    ASSUME BioInv, NEW p \in Procs, NEW place, NEW l, Go(p, Cache, place, l),
           HeldBy(place, l) = HeldBy(pc[p], loc[p]), PlaceSound(Cache, place, l), UNCHANGED disk
    PROVE  BioInv'
<1>1. CacheSound(Cache, Others(p) \cup HeldBy(place, l)) /\ HeldBy(place, l) \cap Others(p) = {}
      /\ disk' \in [Blocks -> BOOLEAN] /\ CohSound(Cache, disk')
  BY AtHand
<1>2. QED
  BY <1>1, NoChange, GoKeeps

\* Buffer b, which is no other process's, changes.
LEMMA GoDoes ==
    ASSUME BioInv, NEW p \in Procs, NEW k, NEW place, NEW l, Go(p, k, place, l),
           NEW j, NEW H, CacheSound(j, H), Wakes(Cache, j), \A c \in Others(p) : Keeps(Cache, j, c),
           NEW b \in Buffers, b \notin Others(p), NEW fl, Does(j, k, b, fl),
           HeldBy(place, l) \cap Others(p) = {},
           \A c \in Buffers \ {b} : c \in Others(p) \cup HeldBy(place, l) <=> c \in H,
           BufferSound(fl, j.buf[b].blk, j.buf[b].size,
                       b \in Freed(k), b \in Given(k), b \in HeldBy(place, l)),
           "STALE" \in j.buf[b].flags => "STALE" \in fl \/ j.buf[b].blk = NULL,
           Wakes(j, k), PlaceSound(k, place, l), disk' \in [Blocks -> BOOLEAN],
           CohSound(k, disk')
    PROVE  BioInv'
<1> DEFINE G == Others(p) \cup HeldBy(place, l)
<1>1. G \subseteq Buffers
  BY AtHand, HeldBuffers DEF PlaceSound
<1>2. b \in G <=> b \in HeldBy(place, l)
  OBVIOUS
<1>3. BufferSound(fl, j.buf[b].blk, j.buf[b].size, b \in Freed(k), b \in Given(k), b \in G)
  BY <1>2 DEF BufferSound
<1>4. \A c \in Buffers \ {b} : c \in G <=> c \in H
  OBVIOUS
<1> HIDE DEF G
<1>5. CacheSound(k, G)
  BY <1>1, <1>3, <1>4, DoesSound
<1>6. Wakes(Cache, k)
  BY WakesTwice
<1>7. ASSUME NEW c \in Others(p) PROVE Keeps(Cache, k, c)
  <2>1. c \in Buffers \ {b}
    BY AtHand
  <2>2. Touches(j, k, b)
    BY DEF Does
  <2>3. Keeps(j, k, c)
    BY <2>1, <2>2, TouchKeeps
  <2>4. QED
    BY <2>3, KeepsTwice
<1>8. QED
  BY <1>5, <1>6, <1>7, GoKeeps DEF G

\* p goes to sleep for a busy buffer, which may be anybody's.
LEMMA GoWanted ==
    ASSUME BioInv, NEW p \in Procs, NEW b \in Buffers, buf[b].blk # NULL, Has(b, "BUSY"), NEW place,
           NEW l, Go(p, SetFlags(Cache, b, {"WANTED"}, {}), place, l),
           HeldBy(place, l) = HeldBy(pc[p], loc[p]), place \in PC, l \in Local, LocalSound(place, l),
           HandsSound(Cache, place, l), place # "asleep:free", l.chan = b,
           place = "asleep:io" => ~Has(b, "DONE"), UNCHANGED disk
    PROVE  BioInv'
<1> DEFINE k == SetFlags(Cache, b, {"WANTED"}, {})
           fl == buf[b].flags \cup {"WANTED"}
<1>0. {"WANTED"} \in SUBSET Flags
  BY DEF Flags
<1>1. Sets(Cache, k, b, {"WANTED"}, {})
  BY <1>0, AtHand, SetFlagsDoes
<1> HIDE DEF k
<1>2. Does(Cache, k, b, fl) /\ k.free = free /\ k.io = io /\ k.want = want /\ k.ev = {}
  <2>1. (Cache.buf[b].flags \ {}) \cup {"WANTED"} = fl
    BY AtHand
  <2>2. QED
    BY <1>1, <2>1, AtHand DEF Sets
<1>3. CacheSound(k, InUse)
  <2>1. SoundAt(Cache, InUse, b)
    BY AtHand DEF CacheSound
  <2>2. BufferSound(fl, Cache.buf[b].blk, Cache.buf[b].size, b \in Freed(k), b \in Given(k), b \in InUse)
    BY <2>1, <1>2, AtHand DEF SoundAt, BufferSound, Freed, Given, Has
  <2>3. "STALE" \in Cache.buf[b].flags => "STALE" \in fl
    BY AtHand
  <2>4. InUse \subseteq Buffers
    BY AtHand DEF CacheSound
  <2>5. QED
    BY <2>2, <2>3, <2>4, <1>2, AtHand, DoesSound
<1>4. Wakes(Cache, k)
  BY <1>2, AtHand DEF Does, Touches, Wakes
<1>5. \A c \in Buffers : Keeps(Cache, k, c)
  BY <1>2, AtHand DEF Does, Touches, Keeps, Started, Given
<1>6. PlaceSound(k, place, l)
  <2>1. ASSUME NEW c \in HeldBy(place, l) PROVE Keeps(Cache, k, c)
    BY <1>5, HeldBuffers
  <2>2. l.bp # NULL => Keeps(Cache, k, l.bp)
    BY <2>1 DEF HeldBy
  <2>3. l.nbp # NULL => Keeps(Cache, k, l.nbp)
    BY <2>1 DEF HeldBy
  <2>4. place = "got" /\ l.chan # NULL => Keeps(Cache, k, l.chan)
    BY <2>1 DEF HeldBy
  <2>5. HandsSound(k, place, l)
    BY <2>2, <2>3, <2>4 DEF HandsSound, LocalSound, Keeps
  <2>6. k.buf[b].flags = fl
    BY <1>2 DEF Does
  <2>7. SleepSound(k, place, l)
    BY <2>6 DEF SleepSound, Has
  <2>8. QED
    BY <2>5, <2>7 DEF PlaceSound
<1>7. CacheSound(k, Others(p) \cup HeldBy(place, l)) /\ HeldBy(place, l) \cap Others(p) = {}
      /\ disk' \in [Blocks -> BOOLEAN] /\ \A c \in Others(p) : Keeps(Cache, k, c)
  BY <1>3, <1>5, AtHand
<1>8. CohSound(k, disk')
  <2>1. Tame(Cache.buf[b].flags, fl)
    BY AtHand DEF Tame
  <2>2. Calm(Cache, k)
    BY <2>1, <1>2, AtHand, DoesCalm
  <2>3. QED
    BY <2>2, AtHand, CalmCoherent
<1>9. QED
  BY <1>4, <1>6, <1>7, <1>8, GoKeeps DEF k

(***************************************************************************)
(* The actions, one by one.                                                *)
(***************************************************************************)

\* A call with no locals yet.
LEMMA NoLocalFields ==
    /\ NoLocal \in Local /\ NoLocal.bp = NULL /\ NoLocal.nbp = NULL /\ NoLocal.op = "getblk"
    /\ NoLocal.in = "main" /\ NoLocal.chan = NULL
  BY Zenon DEF NoLocal, Local, Ops

\* A process outside the cache has no buffer.
LEMMA UserEmpty ==
    ASSUME NEW l, LocalSound("user", l)
    PROVE  HeldBy("user", l) = {}
  BY DEF LocalSound, HeldBy

\* The start of a call.
LEMMA CallKeeps ==
    ASSUME BioInv, NEW p \in Procs, NEW op \in {"bread", "getblk", "blkflush", "ngeteblk"},
           NEW x \in Blocks, Call(p, op, x)
    PROVE  BioInv'
<1> DEFINE y == IF op = "ngeteblk" THEN NULL ELSE x
           l == [NoLocal EXCEPT !.op = op, !.blk = y]
           place == IF op = "blkflush" THEN "blkflush" ELSE "getblk"
<1>1. y \in Blocks \cup {NULL} /\ (op # "ngeteblk" => y \in Blocks)
  OBVIOUS
<1>2. Go(p, Cache, place, l) /\ pc[p] = "user" /\ UNCHANGED disk
  BY DEF Call
<1> HIDE DEF y
<1>3. /\ l \in Local /\ l.op = op /\ l.blk = y /\ l.bp = NULL /\ l.nbp = NULL
      /\ l.in = "main" /\ l.chan = NULL
  BY <1>1, Zenon DEF Local, NoLocal, Ops
<1> HIDE DEF l
<1>4. HeldBy(place, l) = {} /\ HeldBy(pc[p], loc[p]) = {}
  <2>1. HeldBy(pc[p], loc[p]) = {}
    BY <1>2, AtHand, UserEmpty
  <2>2. QED
    BY <2>1, <1>3 DEF HeldBy
<1>5. LocalSound(place, l)
  BY <1>1, <1>3 DEF LocalSound, Getting
<1>6. HandsSound(Cache, place, l) /\ SleepSound(Cache, place, l) /\ place \in PC
  BY <1>3 DEF HandsSound, SleepSound, PC
<1>7. PlaceSound(Cache, place, l)
  BY <1>3, <1>5, <1>6 DEF PlaceSound
<1> HIDE DEF place
<1>8. QED
  BY <1>2, <1>4, <1>7, GoSame

LEMMA BreadaKeeps ==
    ASSUME BioInv, NEW p \in Procs, NEW x \in Blocks, NEW y \in Blocks, Breada(p, x, y)
    PROVE  BioInv'
<1> DEFINE l == [NoLocal EXCEPT !.op = "breada", !.blk = x, !.ra = y]
           place == IF incore(x) THEN "ra" ELSE "getblk"
<1>2. Go(p, Cache, place, l) /\ pc[p] = "user" /\ UNCHANGED disk
  BY DEF Breada
<1>3. /\ l \in Local /\ l.op = "breada" /\ l.blk = x /\ l.ra = y /\ l.bp = NULL /\ l.nbp = NULL
      /\ l.in = "main" /\ l.chan = NULL
  BY Zenon DEF Local, NoLocal, Ops
<1> HIDE DEF l
<1>4. HeldBy(place, l) = {} /\ HeldBy(pc[p], loc[p]) = {}
  <2>1. HeldBy(pc[p], loc[p]) = {}
    BY <1>2, AtHand, UserEmpty
  <2>2. QED
    BY <2>1, <1>3 DEF HeldBy
<1>5. LocalSound(place, l)
  BY <1>3 DEF LocalSound, Getting
<1>6. HandsSound(Cache, place, l) /\ SleepSound(Cache, place, l) /\ place \in PC
  BY <1>3 DEF HandsSound, SleepSound, PC
<1>7. PlaceSound(Cache, place, l)
  BY <1>3, <1>5, <1>6 DEF PlaceSound
<1> HIDE DEF place
<1>8. QED
  BY <1>2, <1>4, <1>7, GoSame

\* The return of kmem_zalloc().
LEMMA AllocKeeps ==
    ASSUME BioInv, NEW p \in Procs, Alloc(p)
    PROVE  BioInv'
<1> DEFINE l == loc[p]
<1>1. Go(p, Cache, "getblk", l) /\ pc[p] = "alloc" /\ UNCHANGED disk
  BY DEF Alloc
<1>2. LocalSound("alloc", l) /\ HandsSound(Cache, "alloc", l) /\ l \in Local
  BY <1>1, AtHand
<1>3. LocalSound("getblk", l) /\ HandsSound(Cache, "getblk", l) /\ SleepSound(Cache, "getblk", l)
  BY <1>2 DEF LocalSound, HandsSound, SleepSound, Getting
<1>4. PlaceSound(Cache, "getblk", l)
  BY <1>2, <1>3 DEF PlaceSound, PC
<1>5. HeldBy("getblk", l) = HeldBy(pc[p], loc[p])
  BY <1>1 DEF HeldBy
<1>6. QED
  BY <1>1, <1>4, <1>5, GoSame

\* The block that getblk() looks for.
LEMMA TargetBlock ==
    ASSUME BioInv, NEW p \in Procs, pc[p] = "getblk", loc[p].op # "ngeteblk"
    PROVE  Target(p) \in Blocks
<1>1. LocalSound("getblk", loc[p]) /\ loc[p].in \in {"main", "ra"}
  BY AtHand, LocalFields
<1>2. QED
  BY <1>1 DEF LocalSound, Getting, Target

\* A busy buffer.
LEMMA GetblkBusyKeeps ==
    ASSUME BioInv, NEW p \in Procs, GetblkBusy(p)
    PROVE  BioInv'
<1>1. PICK b \in Hashed(Cache, Target(p)) :
        /\ Has(b, "BUSY") /\ Go(p, SetFlags(Cache, b, {"WANTED"}, {}), "asleep:getblk",
                                [loc[p] EXCEPT !.chan = b])
  BY DEF GetblkBusy, Sleep
<1> DEFINE l == [loc[p] EXCEPT !.chan = b]
<1>2. pc[p] = "getblk" /\ loc[p].op # "ngeteblk" /\ UNCHANGED disk
  BY DEF GetblkBusy
<1>3. b \in Buffers /\ buf[b].blk = Target(p) /\ Target(p) \in Blocks /\ buf[b].blk # NULL
  BY <1>2, TargetBlock, AtHand, NullNothing DEF Hashed
<1>4. LocalSound("getblk", loc[p]) /\ HandsSound(Cache, "getblk", loc[p]) /\ loc[p] \in Local
  BY <1>2, AtHand
<1>5. /\ l \in Local /\ l.op = loc[p].op /\ l.blk = loc[p].blk /\ l.ra = loc[p].ra
      /\ l.bp = loc[p].bp /\ l.nbp = loc[p].nbp /\ l.in = loc[p].in /\ l.chan = b
  BY <1>3, <1>4, Zenon DEF Local
<1>6. Go(p, SetFlags(Cache, b, {"WANTED"}, {}), "asleep:getblk", l)
  BY <1>1
<1> HIDE DEF l
<1>7. HeldBy("asleep:getblk", l) = HeldBy(pc[p], loc[p])
  BY <1>2, <1>5 DEF HeldBy
<1>8. LocalSound("asleep:getblk", l) /\ HandsSound(Cache, "asleep:getblk", l)
  BY <1>2, <1>3, <1>4, <1>5, NullNothing DEF LocalSound, HandsSound, Getting
<1>9. "asleep:getblk" \in PC /\ "asleep:getblk" # "asleep:free" /\ "asleep:getblk" # "asleep:io"
  BY DEF PC, Asleep
<1>10. QED
  BY <1>1, <1>2, <1>3, <1>5, <1>6, <1>7, <1>8, <1>9, GoWanted

LEMMA BlkflushBusyKeeps ==
    ASSUME BioInv, NEW p \in Procs, BlkflushBusy(p)
    PROVE  BioInv'
<1>1. PICK b \in Hashed(Cache, loc[p].blk) :
        /\ Has(b, "BUSY") /\ Go(p, SetFlags(Cache, b, {"WANTED"}, {}), "asleep:flush",
                                [loc[p] EXCEPT !.chan = b])
  BY DEF BlkflushBusy, Sleep
<1> DEFINE l == [loc[p] EXCEPT !.chan = b]
<1>2. pc[p] = "blkflush" /\ UNCHANGED disk
  BY DEF BlkflushBusy
<1>4. LocalSound("blkflush", loc[p]) /\ HandsSound(Cache, "blkflush", loc[p]) /\ loc[p] \in Local
  BY <1>2, AtHand
<1>3. b \in Buffers /\ buf[b].blk = loc[p].blk /\ loc[p].blk \in Blocks /\ buf[b].blk # NULL
  BY <1>2, <1>4, AtHand, NullNothing DEF Hashed, LocalSound
<1>5. /\ l \in Local /\ l.op = loc[p].op /\ l.blk = loc[p].blk /\ l.ra = loc[p].ra
      /\ l.bp = loc[p].bp /\ l.nbp = loc[p].nbp /\ l.in = loc[p].in /\ l.chan = b
  BY <1>3, <1>4, Zenon DEF Local
<1>6. Go(p, SetFlags(Cache, b, {"WANTED"}, {}), "asleep:flush", l)
  BY <1>1
<1> HIDE DEF l
<1>7. HeldBy("asleep:flush", l) = HeldBy(pc[p], loc[p])
  BY <1>2, <1>5 DEF HeldBy
<1>8. LocalSound("asleep:flush", l) /\ HandsSound(Cache, "asleep:flush", l)
  BY <1>2, <1>3, <1>4, <1>5, NullNothing DEF LocalSound, HandsSound, Getting
<1>9. "asleep:flush" \in PC /\ "asleep:flush" # "asleep:free" /\ "asleep:flush" # "asleep:io"
  BY DEF PC, Asleep
<1>10. QED
  BY <1>1, <1>2, <1>3, <1>5, <1>6, <1>7, <1>8, <1>9, GoWanted

\* The sleep in biowait(): the transfer is not over, so the buffer is busy.
LEMMA BiowaitSleepKeeps ==
    ASSUME BioInv, NEW p \in Procs, BiowaitSleep(p)
    PROVE  BioInv'
<1> DEFINE b == loc[p].bp
           l == [loc[p] EXCEPT !.chan = b]
<1>1. /\ pc[p] = "biowait" /\ ~Has(b, "DONE") /\ UNCHANGED disk
      /\ Go(p, SetFlags(Cache, b, {"WANTED"}, {}), "asleep:io", l)
  BY DEF BiowaitSleep, Sleep
<1>2. LocalSound("biowait", loc[p]) /\ HandsSound(Cache, "biowait", loc[p]) /\ loc[p] \in Local
  BY <1>1, AtHand
<1>3. b \in Buffers /\ Started(Cache, b) /\ b \in HeldBy(pc[p], loc[p])
  BY <1>2, LocalFields DEF LocalSound, HandsSound, HeldBy
<1> HIDE DEF b
<1>4. b \in InUse /\ b \in Given(Cache) /\ buf[b].blk # NULL /\ Has(b, "BUSY")
  <2>1. SoundAt(Cache, InUse, b)
    BY <1>3, AtHand DEF CacheSound
  <2>2. b \in InUse /\ b \in Given(Cache) /\ buf[b].blk # NULL
    BY <1>1, <1>3, AtHand DEF Started, Has
  <2>3. QED
    BY <2>1, <2>2, AtHand DEF SoundAt, BufferSound, Has
<1>5. /\ l \in Local /\ l.op = loc[p].op /\ l.blk = loc[p].blk /\ l.ra = loc[p].ra
      /\ l.bp = loc[p].bp /\ l.nbp = loc[p].nbp /\ l.in = loc[p].in /\ l.chan = b
  BY <1>2, <1>3, Zenon DEF Local
<1> HIDE DEF l
<1>7. HeldBy("asleep:io", l) = HeldBy(pc[p], loc[p])
  BY <1>1, <1>5 DEF HeldBy
<1>8. LocalSound("asleep:io", l) /\ HandsSound(Cache, "asleep:io", l)
  BY <1>2, <1>3, <1>5, NullNothing DEF LocalSound, HandsSound, Getting, b
<1>9. "asleep:io" \in PC /\ "asleep:io" # "asleep:free"
  BY DEF PC, Asleep
<1>10. QED
  BY <1>1, <1>3, <1>4, <1>5, <1>7, <1>8, <1>9, GoWanted

\* A buffer in the hands of p.
LEMMA MineSound ==
    ASSUME BioInv, NEW p \in Procs, NEW b \in HeldBy(pc[p], loc[p])
    PROVE  /\ b \in Buffers /\ b \notin Others(p) /\ b \in InUse /\ b \notin Freed(Cache)
           /\ BufferSound(buf[b].flags, buf[b].blk, buf[b].size, FALSE, b \in Given(Cache), TRUE)
<1>1. b \in Buffers /\ b \notin Others(p) /\ b \in InUse
  BY AtHand
<1>2. SoundAt(Cache, InUse, b)
  BY <1>1, AtHand DEF CacheSound
<1>3. QED
  BY <1>1, <1>2, AtHand DEF SoundAt, BufferSound

\* A hashed buffer that is not busy is free.
LEMMA FreeHit ==
    ASSUME BioInv, NEW b \in Buffers, buf[b].blk # NULL, ~Has(b, "BUSY")
    PROVE  b \in Freed(Cache) /\ b \notin Given(Cache) /\ b \notin InUse
<1>1. SoundAt(Cache, InUse, b) /\ Cache.buf = buf
  BY DEF BioInv, CacheSound, Cache
<1>2. QED
  BY <1>1 DEF SoundAt, BufferSound, Has

\* A released buffer is sound.
LEMMA ReleasedSound ==
    ASSUME NEW flags, NEW blk, NEW size, BufferSound(flags, blk, size, FALSE, FALSE, TRUE)
    PROVE  /\ BufferSound(ReleaseFlags(flags), blk, size, TRUE, FALSE, FALSE)
           /\ "STALE" \in flags => "STALE" \in ReleaseFlags(flags)
  BY DEF BufferSound, ReleaseFlags

\* ... and its data are what they were.
LEMMA ReleaseTame ==
    ASSUME NEW flags, NEW blk, NEW size, BufferSound(flags, blk, size, FALSE, FALSE, TRUE)
    PROVE  Tame(flags, ReleaseFlags(flags))
  BY DEF BufferSound, ReleaseFlags, Tame

\* p releases a buffer.
LEMMA GoRelease ==
    ASSUME BioInv, NEW p \in Procs, NEW place, NEW l, NEW j, NEW b \in Buffers, NEW k,
           k = brelse(j, b), Go(p, k, place, l),
           NEW H, CacheSound(j, H), Wakes(Cache, j), \A c \in Others(p) : Keeps(Cache, j, c),
           b \in H, b \notin Given(j), b \notin Others(p), b \notin HeldBy(place, l),
           HeldBy(place, l) \cap Others(p) = {},
           \A c \in Buffers \ {b} : c \in Others(p) \cup HeldBy(place, l) <=> c \in H,
           PlaceSound(k, place, l), disk' \in [Blocks -> BOOLEAN], CohSound(j, disk')
    PROVE  BioInv'
<1>1. SoundAt(j, H, b) /\ j \in CacheType /\ NoDup(j.free) /\ NoDup(j.io)
  BY DEF CacheSound
<1>2. BufferSound(j.buf[b].flags, j.buf[b].blk, j.buf[b].size, FALSE, FALSE, TRUE) /\ b \notin Freed(j)
  BY <1>1 DEF SoundAt, BufferSound
<1> DEFINE fl == ReleaseFlags(j.buf[b].flags)
<1>3. /\ Does(j, k, b, fl) /\ b \in Freed(k) /\ k.io = j.io /\ j.ev \subseteq k.ev
      /\ "WANTED" \in j.buf[b].flags => b \in k.ev
      /\ j.want => NULL \in k.ev
  BY <1>1, <1>2, BrelseDoes
<1> HIDE DEF fl
<1>4. BufferSound(fl, j.buf[b].blk, j.buf[b].size, TRUE, FALSE, FALSE)
      /\ ("STALE" \in j.buf[b].flags => "STALE" \in fl)
  BY <1>2, ReleasedSound DEF fl
<1>5. b \in Freed(k) /\ b \notin Given(k) /\ b \notin HeldBy(place, l)
  BY <1>3 DEF Given
<1>6. BufferSound(fl, j.buf[b].blk, j.buf[b].size, b \in Freed(k), b \in Given(k), b \in HeldBy(place, l))
  BY <1>4, <1>5 DEF BufferSound
<1>7. Wakes(j, k)
  BY <1>3, DoesWakes
<1>8. CohSound(k, disk')
  <2>1. Tame(j.buf[b].flags, fl)
    BY <1>2, ReleaseTame DEF fl
  <2>2. Calm(j, k)
    BY <2>1, <1>3, DoesCalm
  <2>3. QED
    BY <2>2, <1>1, CalmCoherent
<1>9. QED
  BY <1>3, <1>4, <1>6, <1>7, <1>8, GoDoes

\* The locals of a process that gets a buffer from a call.
HoldSound(l, b, op) ==
    /\ l \in Local /\ l.bp = b /\ l.nbp = NULL /\ l.op = op /\ l.chan = NULL /\ l.in = "main"
    /\ LocalSound("held", l) /\ HeldBy("held", l) = {b}
    /\ (op # "blkflush" => LocalSound("biowait", l)) /\ HeldBy("biowait", l) = {b}

LEMMA HoldFields ==
    ASSUME NEW b \in Buffers, NEW op \in Ops, op # "breada"
    PROVE  HoldSound([NoLocal EXCEPT !.bp = b, !.op = op], b, op)
<1> DEFINE l == [NoLocal EXCEPT !.bp = b, !.op = op]
<1>1. l \in Local /\ l.bp = b /\ l.nbp = NULL /\ l.op = op /\ l.chan = NULL /\ l.in = "main"
  BY Zenon DEF NoLocal, Local
<1> HIDE DEF l
<1>2. b # NULL
  BY NullNothing
<1>3. HoldSound(l, b, op)
  BY <1>1, <1>2 DEF LocalSound, HeldBy, Getting, HoldSound
<1>4. QED
  BY <1>3 DEF l

\* The call returns a buffer that p has.
LEMMA HoldKeeps ==
    ASSUME BioInv, NEW p \in Procs, NEW b \in Buffers, Hold(p, Cache, b, "getblk"),
           HeldBy(pc[p], loc[p]) = {b}, b \notin Given(Cache), buf[b].blk # NULL, UNCHANGED disk
    PROVE  BioInv'
<1> DEFINE l == [NoLocal EXCEPT !.bp = b, !.op = "getblk"]
<1>1. Go(p, Cache, "held", l)
  BY DEF Hold
<1>2. l \in Local /\ l.bp = b /\ l.nbp = NULL /\ LocalSound("held", l) /\ HeldBy("held", l) = {b}
  <2>1. HoldSound(l, b, "getblk")
    BY HoldFields DEF Ops
  <2> HIDE DEF l
  <2>2. QED
    BY <2>1 DEF HoldSound
<1> HIDE DEF l
<1>3. HandsSound(Cache, "held", l) /\ SleepSound(Cache, "held", l)
  BY <1>2, AtHand DEF HandsSound, SleepSound
<1>4. PlaceSound(Cache, "held", l)
  BY <1>2, <1>3 DEF PlaceSound, PC
<1>5. QED
  BY <1>1, <1>2, <1>4, GoSame

\* getblk() has returned the block asked for.
LEMMA GotKeeps ==
    ASSUME BioInv, NEW p \in Procs, Got(p)
    PROVE  BioInv'
<1> DEFINE b == loc[p].chan
           l == [loc[p] EXCEPT !.bp = b, !.chan = NULL]
           k == IF Has(b, "DONE") THEN Cache ELSE StartRead(Cache, b, FALSE)
<1>1. pc[p] = "got" /\ loc[p].in = "main" /\ UNCHANGED disk
  BY DEF Got
<1>2. \/ loc[p].op = "breada" /\ Go(p, k, "ra", l)
      \/ loc[p].op = "bread" /\ ~Has(b, "DONE") /\ Go(p, k, "biowait", l)
      \/ Hold(p, Cache, b, "getblk")
  BY DEF Got
<1>3. LocalSound("got", loc[p]) /\ HandsSound(Cache, "got", loc[p]) /\ loc[p] \in Local
  BY <1>1, AtHand
<1>4. /\ b \in Buffers /\ b # NULL /\ loc[p].bp = NULL /\ loc[p].nbp = NULL
      /\ buf[b].blk # NULL /\ b \notin Given(Cache)
  BY <1>1, <1>3, LocalFields, AtHand DEF LocalSound, HandsSound, Getting
<1>5. HeldBy(pc[p], loc[p]) = {b}
  BY <1>1, <1>4 DEF HeldBy
<1> HIDE DEF b
<1>6. /\ l \in Local /\ l.op = loc[p].op /\ l.blk = loc[p].blk /\ l.ra = loc[p].ra
      /\ l.bp = b /\ l.nbp = loc[p].nbp /\ l.in = loc[p].in /\ l.chan = NULL
  BY <1>3, <1>4, Zenon DEF Local
<1> HIDE DEF l
<1>7. HeldBy("ra", l) = {b} /\ HeldBy("biowait", l) = {b}
  BY <1>4, <1>6 DEF HeldBy
<1>8. CASE Hold(p, Cache, b, "getblk")
  BY <1>1, <1>4, <1>5, <1>8, HoldKeeps
<1>9. ASSUME NEW place \in {"ra", "biowait"}, Go(p, k, place, l),
             place = "ra" => loc[p].op = "breada", place = "biowait" => loc[p].op = "bread"
      PROVE  BioInv'
  <2>1. LocalSound(place, l) /\ place \in PC
    BY <1>3, <1>4, <1>6, <1>9 DEF LocalSound, Getting, PC
  <2>2. SleepSound(k, place, l)
    BY <1>9 DEF SleepSound
  <2>3. CASE Has(b, "DONE")
    <3>1. k = Cache
      BY <2>3
    <3> HIDE DEF k
    <3>2. HandsSound(Cache, place, l)
      BY <1>4, <1>6, <1>9, <2>3, AtHand DEF HandsSound, Started, Has
    <3>3. PlaceSound(Cache, place, l)
      BY <3>1, <3>2, <2>1, <2>2, <1>6 DEF PlaceSound
    <3>4. QED
      BY <3>1, <3>3, <1>1, <1>5, <1>7, <1>9, GoSame
  <2>4. CASE ~Has(b, "DONE")
    <3>1. k = StartRead(Cache, b, FALSE)
      BY <2>4
    <3> HIDE DEF k
    <3> DEFINE fl == ReadFlags(buf[b].flags, FALSE)
    <3>2. /\ Does(Cache, k, b, fl) /\ b \in Given(k) /\ k.free = free /\ k.want = want /\ k.ev = {}
          /\ k.io = Append(Cache.io, b)
      BY <3>1, <1>4, AtHand, StartReadDoes
    <3>3. fl = buf[b].flags \cup {"READ"}
      BY DEF ReadFlags
    <3> HIDE DEF fl
    <3>4. /\ b \notin Others(p) /\ b \notin Freed(Cache)
          /\ BufferSound(buf[b].flags, buf[b].blk, buf[b].size, FALSE, b \in Given(Cache), TRUE)
      BY <1>5, MineSound
    <3>5. BufferSound(fl, Cache.buf[b].blk, Cache.buf[b].size, b \in Freed(k), b \in Given(k), b \in HeldBy(place, l))
      BY <3>2, <3>3, <3>4, <2>4, <1>4, <1>7, <1>9, AtHand DEF BufferSound, Has, Freed
    <3>6. Wakes(Cache, k)
      BY <3>2, <3>3, AtHand, DoesWakes
    <3>7. k.buf[b].blk = buf[b].blk
      BY <3>2, AtHand DEF Does
    <3>8. PlaceSound(k, place, l)
      <4>1. HandsSound(k, place, l)
        BY <3>2, <3>7, <1>4, <1>6, <1>9 DEF HandsSound, Started
      <4>2. QED
        BY <4>1, <2>1, <2>2, <1>6 DEF PlaceSound
    <3>9. HeldBy(place, l) = {b}
      BY <1>7, <1>9
    <3>10. \A c \in Buffers \ {b} : c \in Others(p) \cup HeldBy(place, l) <=> c \in InUse
      BY <3>9, <1>5, AtHand
    <3>11. CacheSound(Cache, InUse) /\ disk' \in [Blocks -> BOOLEAN]
           /\ HeldBy(place, l) \cap Others(p) = {} /\ ("STALE" \in Cache.buf[b].flags => "STALE" \in fl)
      BY <3>3, <3>4, <3>9, <1>1, AtHand
    <3>12. CohSound(k, disk')
      <4>1. /\ "READ" \in fl /\ "DONE" \notin fl /\ "DELWRI" \notin fl /\ "STALE" \notin fl
            /\ "DONE" \notin buf[b].flags /\ "STALE" \notin buf[b].flags
        BY <3>3, <3>4, <2>4, <1>4 DEF BufferSound, Has
      <4>2. CohSound(k, disk)
        BY <4>1, <3>2, <1>4, AtHand, ReadCoherent
      <4>3. QED
        BY <4>2, <1>1
    <3>13. QED
      BY <3>2, <3>4, <3>5, <3>6, <3>8, <3>10, <3>11, <3>12, <1>4, <1>9, NoChange, GoDoes
  <2>5. QED
    BY <2>3, <2>4
<1>10. QED
  BY <1>2, <1>8, <1>9

\* The last part of breada(), with the block's buffer at hand or not.
LEMMA AfterRaKeeps ==
    ASSUME BioInv, NEW p \in Procs, pc[p] \in {"ra", "got"}, loc[p].op = "breada", loc[p].nbp = NULL,
           NEW k, AfterRa(p, k), NEW M, M = {loc[p].bp} \ {NULL},
           CacheSound(k, Others(p) \cup M), Wakes(Cache, k),
           \A c \in Others(p) \cup M : Keeps(Cache, k, c), UNCHANGED disk, CohSound(k, disk)
    PROVE  BioInv'
<1>1. LocalSound(pc[p], loc[p]) /\ HandsSound(Cache, pc[p], loc[p]) /\ loc[p] \in Local
      /\ M \subseteq HeldBy(pc[p], loc[p]) /\ M \cap Others(p) = {} /\ disk' \in [Blocks -> BOOLEAN]
      /\ CohSound(k, disk')
  BY AtHand DEF HeldBy
<1>2. loc[p].blk \in Blocks /\ loc[p].ra \in Blocks
  BY <1>1 DEF LocalSound
<1>3. loc[p].bp # NULL => Started(k, loc[p].bp)
  BY <1>1 DEF HandsSound, Keeps
<1>4. CASE loc[p].bp = NULL
  <2> DEFINE l == [loc[p] EXCEPT !.op = "bread", !.in = "main", !.chan = NULL]
  <2>1. Go(p, k, "getblk", l)
    BY <1>4 DEF AfterRa
  <2>2. /\ l \in Local /\ l.op = "bread" /\ l.blk = loc[p].blk /\ l.ra = loc[p].ra
        /\ l.bp = loc[p].bp /\ l.nbp = loc[p].nbp /\ l.in = "main" /\ l.chan = NULL
    BY <1>1, Zenon DEF Local, Ops
  <2> HIDE DEF l
  <2>3. HeldBy("getblk", l) = M
    BY <2>2, <1>4 DEF HeldBy
  <2>4. LocalSound("getblk", l) /\ HandsSound(k, "getblk", l) /\ SleepSound(k, "getblk", l)
    BY <2>2, <1>2, <1>4 DEF LocalSound, HandsSound, SleepSound, Getting
  <2>5. PlaceSound(k, "getblk", l)
    BY <2>2, <2>4 DEF PlaceSound, PC
  <2>6. QED
    BY <2>1, <2>3, <2>5, <1>1, GoKeeps
<1>5. CASE loc[p].bp # NULL
  <2> DEFINE l == [loc[p] EXCEPT !.in = "main", !.chan = NULL]
  <2>1. Go(p, k, "biowait", l)
    BY <1>5 DEF AfterRa
  <2>2. /\ l \in Local /\ l.op = "breada" /\ l.blk = loc[p].blk /\ l.ra = loc[p].ra
        /\ l.bp = loc[p].bp /\ l.nbp = loc[p].nbp /\ l.in = "main" /\ l.chan = NULL
    BY <1>1, Zenon DEF Local, Ops
  <2> HIDE DEF l
  <2>3. HeldBy("biowait", l) = M
    BY <2>2, <1>5 DEF HeldBy
  <2>4. LocalSound("biowait", l) /\ HandsSound(k, "biowait", l) /\ SleepSound(k, "biowait", l)
    BY <2>2, <1>2, <1>3, <1>5 DEF LocalSound, HandsSound, SleepSound, Getting
  <2>5. PlaceSound(k, "biowait", l)
    BY <2>2, <2>4 DEF PlaceSound, PC
  <2>6. QED
    BY <2>1, <2>3, <2>5, <1>1, GoKeeps
<1>6. QED
  BY <1>4, <1>5

LEMMA RaKeeps ==
    ASSUME BioInv, NEW p \in Procs, Ra(p)
    PROVE  BioInv'
<1>1. pc[p] = "ra" /\ UNCHANGED disk
  BY DEF Ra
<1>2. LocalSound("ra", loc[p]) /\ HandsSound(Cache, "ra", loc[p]) /\ loc[p] \in Local
  BY <1>1, AtHand
<1>3. loc[p].op = "breada" /\ loc[p].nbp = NULL /\ loc[p].blk \in Blocks /\ loc[p].ra \in Blocks
  BY <1>2 DEF LocalSound
<1>4. CASE RaWanted(p)
  <2> DEFINE l == [loc[p] EXCEPT !.in = "ra"]
  <2>1. Go(p, Cache, "getblk", l)
    BY <1>4 DEF Ra
  <2>2. /\ l \in Local /\ l.op = loc[p].op /\ l.blk = loc[p].blk /\ l.ra = loc[p].ra
        /\ l.bp = loc[p].bp /\ l.nbp = loc[p].nbp /\ l.in = "ra" /\ l.chan = loc[p].chan
    BY <1>2, Zenon DEF Local
  <2> HIDE DEF l
  <2>3. HeldBy("getblk", l) = HeldBy(pc[p], loc[p])
    BY <2>2, <1>1 DEF HeldBy
  <2>4. LocalSound("getblk", l) /\ HandsSound(Cache, "getblk", l) /\ SleepSound(Cache, "getblk", l)
    BY <2>2, <1>2, <1>3 DEF LocalSound, HandsSound, SleepSound, Getting
  <2>5. PlaceSound(Cache, "getblk", l)
    BY <2>2, <2>4 DEF PlaceSound, PC
  <2>6. QED
    BY <2>1, <2>3, <2>5, <1>1, GoSame
<1>5. CASE ~RaWanted(p)
  <2> DEFINE M == {loc[p].bp} \ {NULL}
  <2>1. AfterRa(p, Cache)
    BY <1>5 DEF Ra
  <2>2. HeldBy(pc[p], loc[p]) = M
    BY <1>1, <1>3 DEF HeldBy
  <2>3. CacheSound(Cache, Others(p) \cup M) /\ CohSound(Cache, disk)
    BY <2>2, AtHand
  <2>4. QED
    BY <2>1, <2>3, <1>1, <1>3, NoChange, AfterRaKeeps
<1>6. QED
  BY <1>4, <1>5

\* The read-ahead block is read behind p's back, or released.
LEMMA GotRaKeeps ==
    ASSUME BioInv, NEW p \in Procs, GotRa(p)
    PROVE  BioInv'
<1> DEFINE b == loc[p].chan
           k == IF Has(b, "DONE") THEN brelse(Cache, b) ELSE StartRead(Cache, b, TRUE)
           M == {loc[p].bp} \ {NULL}
<1>1. pc[p] = "got" /\ loc[p].in = "ra" /\ AfterRa(p, k) /\ UNCHANGED disk
  BY DEF GotRa
<1>2. LocalSound("got", loc[p]) /\ HandsSound(Cache, "got", loc[p]) /\ loc[p] \in Local
  BY <1>1, AtHand
<1>3. /\ loc[p].op = "breada" /\ loc[p].nbp = NULL /\ b # NULL /\ b \in Buffers /\ b # loc[p].bp
      /\ buf[b].blk # NULL /\ b \notin Given(Cache)
  BY <1>1, <1>2, LocalFields, AtHand DEF LocalSound, HandsSound, Getting
<1>4. HeldBy(pc[p], loc[p]) = M \cup {b} /\ b \notin M
  BY <1>1, <1>3 DEF HeldBy
<1>5. /\ b \notin Others(p) /\ b \notin Freed(Cache)
      /\ BufferSound(buf[b].flags, buf[b].blk, buf[b].size, FALSE, FALSE, TRUE)
  <2>1. b \in HeldBy(pc[p], loc[p])
    BY <1>4
  <2>2. QED
    BY <2>1, <1>3, MineSound DEF BufferSound
<1>6. InUse = Others(p) \cup M \cup {b} /\ InUse \subseteq Buffers
  BY <1>4, AtHand
<1>7. \A c \in Buffers \ {b} : c \in Others(p) \cup M <=> c \in InUse
  BY <1>6
<1>8. b \notin Others(p) \cup M
  BY <1>4, <1>5
<1> DEFINE fl == IF Has(b, "DONE") THEN ReleaseFlags(buf[b].flags) ELSE ReadFlags(buf[b].flags, TRUE)
<1>9. /\ Does(Cache, k, b, fl)
      /\ Has(b, "DONE") => /\ b \in Freed(k) /\ b \notin Given(k)
                           /\ Has(b, "WANTED") => b \in k.ev
                           /\ want => NULL \in k.ev
      /\ ~Has(b, "DONE") => /\ b \in Given(k) /\ b \notin Freed(k) /\ k.free = free /\ k.want = want
  <2>1. CASE Has(b, "DONE")
    <3>1. k = brelse(Cache, b) /\ fl = ReleaseFlags(buf[b].flags)
      BY <2>1
    <3> HIDE DEF k, fl
    <3>2. /\ Does(Cache, k, b, ReleaseFlags(Cache.buf[b].flags)) /\ b \in Freed(k) /\ k.io = Cache.io
          /\ "WANTED" \in Cache.buf[b].flags => b \in k.ev
          /\ Cache.want => NULL \in k.ev
      BY <3>1, <1>3, <1>5, AtHand, BrelseDoes
    <3>3. QED
      BY <3>1, <3>2, <2>1, <1>3, AtHand DEF Has, Given
  <2>2. CASE ~Has(b, "DONE")
    <3>1. k = StartRead(Cache, b, TRUE) /\ fl = ReadFlags(buf[b].flags, TRUE)
      BY <2>2
    <3> HIDE DEF k, fl
    <3>2. /\ Does(Cache, k, b, ReadFlags(Cache.buf[b].flags, TRUE)) /\ b \in Given(k)
          /\ k.free = Cache.free /\ k.want = Cache.want
      BY <3>1, <1>3, <1>5, AtHand, StartReadDoes
    <3>3. QED
      BY <3>1, <3>2, <2>2, <1>5, AtHand DEF Freed
  <2>3. QED
    BY <2>1, <2>2
<1>10. /\ BufferSound(fl, Cache.buf[b].blk, Cache.buf[b].size, b \in Freed(k), b \in Given(k), b \in Others(p) \cup M)
       /\ "STALE" \in Cache.buf[b].flags => "STALE" \in fl
  <2>1. CASE Has(b, "DONE")
    <3>1. fl = ReleaseFlags(buf[b].flags)
      BY <2>1
    <3> HIDE DEF k, fl, M
    <3>2. BufferSound(fl, buf[b].blk, buf[b].size, TRUE, FALSE, FALSE)
          /\ ("STALE" \in buf[b].flags => "STALE" \in fl)
      BY <3>1, <1>5, ReleasedSound
    <3>3. QED
      BY <3>2, <2>1, <1>8, <1>9, AtHand DEF BufferSound
  <2>2. CASE ~Has(b, "DONE")
    <3>1. fl = buf[b].flags \cup {"READ", "ASYNC"}
      BY <2>2 DEF ReadFlags
    <3> HIDE DEF k, fl, M
    <3>2. QED
      BY <3>1, <2>2, <1>3, <1>5, <1>8, <1>9, AtHand DEF BufferSound, Has
  <2>3. QED
    BY <2>1, <2>2
<1>11. Wakes(Cache, k)
  <2>1. CASE Has(b, "DONE")
    <3> HIDE DEF k, fl
    <3>1. QED
      BY <2>1, <1>9, AtHand, DoesWakes DEF Has
  <2>2. CASE ~Has(b, "DONE")
    <3>1. fl = buf[b].flags \cup {"READ", "ASYNC"}
      BY <2>2 DEF ReadFlags
    <3> HIDE DEF k, fl
    <3>2. QED
      BY <3>1, <2>2, <1>9, AtHand, DoesWakes DEF Has
  <2>3. QED
    BY <2>1, <2>2
<1>15. CohSound(k, disk)
  <2>1. CASE Has(b, "DONE")
    <3>1. fl = ReleaseFlags(buf[b].flags) /\ k = brelse(Cache, b)
      BY <2>1
    <3> HIDE DEF k, fl
    <3>2. Tame(Cache.buf[b].flags, fl)
      BY <3>1, <1>5, AtHand, ReleaseTame
    <3>3. k.io = Cache.io
      BY <3>1, <1>3, <1>5, AtHand, BrelseDoes
    <3>4. Calm(Cache, k)
      BY <3>2, <3>3, <1>9, DoesCalm
    <3>5. QED
      BY <3>4, AtHand, CalmCoherent
  <2>2. CASE ~Has(b, "DONE")
    <3>1. fl = buf[b].flags \cup {"READ", "ASYNC"} /\ k = StartRead(Cache, b, TRUE)
      BY <2>2 DEF ReadFlags
    <3> HIDE DEF k, fl
    <3>2. k.io = Append(Cache.io, b)
      BY <3>1, <1>3, <1>5, AtHand, StartReadDoes
    <3>3. /\ "READ" \in fl /\ "DONE" \notin fl /\ "DELWRI" \notin fl /\ "STALE" \notin fl
          /\ "DONE" \notin buf[b].flags /\ "STALE" \notin buf[b].flags
      BY <3>1, <2>2, <1>3, <1>5 DEF BufferSound, Has
    <3>4. QED
      BY <3>2, <3>3, <1>3, <1>9, AtHand, ReadCoherent
  <2>3. QED
    BY <2>1, <2>2
<1> HIDE DEF k, fl
<1>12. CacheSound(k, Others(p) \cup M)
  <2>1. Others(p) \cup M \subseteq Buffers
    BY <1>6
  <2> HIDE DEF M
  <2>2. QED
    BY <2>1, <1>3, <1>7, <1>9, <1>10, AtHand, DoesSound
<1>13. \A c \in Others(p) \cup M : Keeps(Cache, k, c)
  <2>1. Touches(Cache, k, b)
    BY <1>9 DEF Does
  <2>2. QED
    BY <2>1, <1>6, <1>8, TouchKeeps
<1>14. QED
  BY <1>1, <1>3, <1>11, <1>12, <1>13, <1>15, AfterRaKeeps

\* A process at "user" with nothing.
LEMMA UserPlace ==
    ASSUME NEW k
    PROVE  PlaceSound(k, "user", NoLocal) /\ HeldBy("user", NoLocal) = {}
  BY NoLocalFields DEF PlaceSound, LocalSound, HandsSound, SleepSound, HeldBy, PC, Getting

LEMMA BrelseKeeps ==
    ASSUME BioInv, NEW p \in Procs, Brelse(p)
    PROVE  BioInv'
<1> DEFINE b == loc[p].bp
           k == brelse(Cache, b)
<1>1. pc[p] = "held" /\ Go(p, k, "user", NoLocal) /\ UNCHANGED disk
  BY DEF Brelse
<1>2. LocalSound("held", loc[p]) /\ HandsSound(Cache, "held", loc[p]) /\ loc[p] \in Local
  BY <1>1, AtHand
<1>3. b \in Buffers /\ b # NULL /\ loc[p].nbp = NULL /\ b \notin Given(Cache)
  BY <1>2, LocalFields DEF LocalSound, HandsSound
<1>4. HeldBy(pc[p], loc[p]) = {b}
  BY <1>1, <1>3 DEF HeldBy
<1> HIDE DEF b
<1>5. b \notin Others(p) /\ b \in InUse
  BY <1>4, MineSound
<1>6. k = brelse(Cache, b)
  OBVIOUS
<1> HIDE DEF k
<1>7. /\ \A c \in Buffers \ {b} : c \in Others(p) \cup HeldBy("user", NoLocal) <=> c \in InUse
      /\ b \notin HeldBy("user", NoLocal) /\ HeldBy("user", NoLocal) \cap Others(p) = {}
      /\ CacheSound(Cache, InUse) /\ disk' \in [Blocks -> BOOLEAN] /\ CohSound(Cache, disk')
  BY <1>1, <1>4, AtHand, UserPlace
<1>8. QED
  BY <1>1, <1>3, <1>5, <1>6, <1>7, NoChange, UserPlace, GoRelease

\* The transfer is over: bwrite() releases the buffer, the others return it.
LEMMA BiowaitKeeps ==
    ASSUME BioInv, NEW p \in Procs, Biowait(p)
    PROVE  BioInv'
<1> DEFINE b == loc[p].bp
           k == brelse(Cache, b)
           l == [loc[p] EXCEPT !.bp = NULL]
<1>1. pc[p] = "biowait" /\ Has(b, "DONE") /\ UNCHANGED disk
  BY DEF Biowait
<1>2. \/ Go(p, k, "user", NoLocal)
      \/ loc[p].op = "blkflush" /\ Go(p, k, "blkflush", l)
      \/ Hold(p, Cache, b, "getblk")
  BY DEF Biowait
<1>3. LocalSound("biowait", loc[p]) /\ HandsSound(Cache, "biowait", loc[p]) /\ loc[p] \in Local
  BY <1>1, AtHand
<1>4. b \in Buffers /\ b # NULL /\ loc[p].nbp = NULL /\ buf[b].blk # NULL
  BY <1>3, LocalFields, AtHand DEF LocalSound, HandsSound, Started
<1>5. HeldBy(pc[p], loc[p]) = {b}
  BY <1>1, <1>4 DEF HeldBy
<1>6. /\ l \in Local /\ l.op = loc[p].op /\ l.blk = loc[p].blk /\ l.ra = loc[p].ra
      /\ l.bp = NULL /\ l.nbp = loc[p].nbp /\ l.in = loc[p].in /\ l.chan = loc[p].chan
  BY <1>3, Zenon DEF Local
<1>7. k = brelse(Cache, b)
  OBVIOUS
<1> HIDE DEF b, k, l
<1>8. b \notin Others(p) /\ b \in InUse /\ b \notin Given(Cache)
  <2>1. b \in HeldBy(pc[p], loc[p])
    BY <1>5
  <2>2. QED
    BY <2>1, <1>1, MineSound DEF BufferSound, Has
<1>9. CASE Hold(p, Cache, b, "getblk")
  BY <1>1, <1>4, <1>5, <1>8, <1>9, HoldKeeps
<1>10. ASSUME NEW place, NEW m, Go(p, k, place, m), HeldBy(place, m) = {}, PlaceSound(k, place, m)
       PROVE  BioInv'
  <2>1. /\ \A c \in Buffers \ {b} : c \in Others(p) \cup HeldBy(place, m) <=> c \in InUse
        /\ b \notin HeldBy(place, m) /\ HeldBy(place, m) \cap Others(p) = {}
        /\ CacheSound(Cache, InUse) /\ disk' \in [Blocks -> BOOLEAN] /\ CohSound(Cache, disk')
    BY <1>1, <1>5, <1>10, AtHand
  <2>2. QED
    BY <2>1, <1>4, <1>7, <1>8, <1>10, NoChange, GoRelease
<1>11. CASE Go(p, k, "user", NoLocal)
  BY <1>10, <1>11, UserPlace
<1>12. CASE loc[p].op = "blkflush" /\ Go(p, k, "blkflush", l)
  <2>1. HeldBy("blkflush", l) = {}
    BY <1>4, <1>6 DEF HeldBy
  <2>2. LocalSound("blkflush", l) /\ HandsSound(k, "blkflush", l) /\ SleepSound(k, "blkflush", l)
    BY <1>3, <1>4, <1>6, <1>12 DEF LocalSound, HandsSound, SleepSound, Getting
  <2>3. PlaceSound(k, "blkflush", l)
    BY <1>6, <2>2 DEF PlaceSound, PC
  <2>4. QED
    BY <2>1, <2>3, <1>10, <1>12
<1>13. QED
  BY <1>2, <1>9, <1>11, <1>12

LEMMA BlkflushDoneKeeps ==
    ASSUME BioInv, NEW p \in Procs, BlkflushDone(p)
    PROVE  BioInv'
<1>1. pc[p] = "blkflush" /\ Go(p, Cache, "user", NoLocal) /\ UNCHANGED disk
  BY DEF BlkflushDone
<1>2. LocalSound("blkflush", loc[p])
  BY <1>1, AtHand
<1>3. HeldBy(pc[p], loc[p]) = {}
  BY <1>1, <1>2 DEF LocalSound, HeldBy
<1>4. QED
  BY <1>1, <1>3, UserPlace, GoSame

\* Only what the buffers hold changes.
SameButData(k, j) ==
    /\ j \in CacheType
    /\ j.free = k.free /\ j.io = k.io /\ j.room = k.room /\ j.want = k.want /\ j.ev = k.ev
    /\ \A c \in Buffers : /\ j.buf[c].flags = k.buf[c].flags /\ j.buf[c].blk = k.buf[c].blk
                          /\ j.buf[c].size = k.buf[c].size

\* b has the last data of its block, and no other buffer of the block has.
NewData(k, j, b) ==
    \A c \in Buffers :
        j.buf[c].cur = IF c = b THEN TRUE ELSE k.buf[c].cur /\ k.buf[c].blk # k.buf[b].blk

LEMMA DataSound ==
    ASSUME NEW k, NEW j, NEW H, CacheSound(k, H), SameButData(k, j)
    PROVE  CacheSound(j, H) /\ Wakes(k, j) /\ \A c \in Buffers : Keeps(k, j, c)
<1>1. Sizes(j) = Sizes(k)
  BY DEF Sizes, SameButData
<1>2. \A c \in Buffers : SoundAt(j, H, c)
  BY DEF CacheSound, SoundAt, SameButData, Freed, Given
<1>3. OneEach(j)
  BY DEF CacheSound, OneEach, SameButData
<1>4. Wakes(k, j) /\ \A c \in Buffers : Keeps(k, j, c)
  BY DEF SameButData, Wakes, Keeps, Started, Given
<1>5. QED
  BY <1>1, <1>2, <1>3, <1>4 DEF CacheSound, SameButData

\* The holder of a buffer changes its data.
LEMMA ChangedSame ==
    ASSUME NEW k \in CacheType, NEW b \in Buffers
    PROVE  SameButData(k, Changed(k, b)) /\ NewData(k, Changed(k, b), b)
<1> DEFINE new(c) == IF c = b THEN TRUE ELSE k.buf[c].cur /\ k.buf[c].blk # k.buf[b].blk
           m == [c \in Buffers |-> [k.buf[c] EXCEPT !.cur = new(c)]]
           j == [k EXCEPT !.buf = m]
<1>1. k.buf \in [Buffers -> Buf]
  BY CacheFields
<1>2. ASSUME NEW c \in Buffers
      PROVE  /\ m[c] \in Buf /\ m[c].flags = k.buf[c].flags
             /\ m[c].blk = k.buf[c].blk /\ m[c].size = k.buf[c].size /\ m[c].cur = new(c)
  <2>1. k.buf[c] \in Buf /\ new(c) \in BOOLEAN
    BY <1>1, BufFields
  <2>2. m[c] = [k.buf[c] EXCEPT !.cur = new(c)]
    BY Zenon
  <2> HIDE DEF m, new
  <2>3. QED
    BY <2>1, <2>2, Zenon DEF Buf
<1>3. Changed(k, b) = j
  BY DEF Changed
<1>4. m \in [Buffers -> Buf]
  BY <1>2, Zenon
<1> HIDE DEF m
<1>5. /\ j \in CacheType /\ j.buf = m /\ j.free = k.free /\ j.io = k.io /\ j.room = k.room
      /\ j.want = k.want /\ j.ev = k.ev
  BY <1>4, Zenon DEF CacheType
<1> HIDE DEF j
<1>6. SameButData(k, j) /\ NewData(k, j, b)
  BY <1>2, <1>5 DEF SameButData, NewData
<1>7. QED
  BY <1>3, <1>6

\* The buffer that p is about to write.
LEMMA WriterHas ==
    ASSUME BioInv, NEW p \in Procs, Writable(p), NEW b, b = loc[p].bp
    PROVE  /\ b \in Buffers /\ HeldBy(pc[p], loc[p]) = {b}
           /\ b \notin Others(p) /\ b \notin Given(Cache) /\ b \notin Freed(Cache)
           /\ buf[b].blk # NULL /\ "ERROR" \notin buf[b].flags
           /\ BufferSound(buf[b].flags, buf[b].blk, buf[b].size, FALSE, FALSE, TRUE)
           /\ NowOld(b) \in [Blocks -> BOOLEAN]
           /\ InUse = Others(p) \cup {b}
           /\ LET j == Changed(Cache, b)
              IN  /\ CacheSound(j, InUse) /\ Wakes(Cache, j) /\ \A c \in Others(p) : Keeps(Cache, j, c)
                  /\ j \in CacheType /\ NoDup(j.free) /\ NoDup(j.io) /\ j.free = free
                  /\ b \notin Given(j) /\ b \notin Freed(j) /\ j.ev = {} /\ j.want = want
                  /\ j.buf[b].flags = buf[b].flags /\ j.buf[b].blk = buf[b].blk
                  /\ j.buf[b].size = buf[b].size
<1>1. pc[p] = "held" /\ loc[p].op # "ngeteblk" /\ "ERROR" \notin buf[b].flags
  BY DEF Writable, Has
<1>2. LocalSound("held", loc[p]) /\ HandsSound(Cache, "held", loc[p]) /\ loc[p] \in Local
  BY <1>1, AtHand
<1>3. b \in Buffers /\ b # NULL /\ loc[p].nbp = NULL /\ b \notin Given(Cache) /\ buf[b].blk # NULL
  BY <1>1, <1>2, LocalFields, AtHand DEF LocalSound, HandsSound
<1>4. HeldBy(pc[p], loc[p]) = {b}
  BY <1>1, <1>3 DEF HeldBy
<1>5. /\ b \notin Others(p) /\ b \notin Freed(Cache)
      /\ BufferSound(buf[b].flags, buf[b].blk, buf[b].size, FALSE, FALSE, TRUE)
  <2>1. b \in HeldBy(pc[p], loc[p])
    BY <1>4
  <2>2. QED
    BY <2>1, <1>3, MineSound DEF BufferSound
<1>6. NowOld(b) \in [Blocks -> BOOLEAN]
  BY AtHand DEF NowOld
<1>7. InUse = Others(p) \cup {b}
  BY <1>4, AtHand
<1> DEFINE j == Changed(Cache, b)
<1>8. SameButData(Cache, j)
  BY <1>3, AtHand, ChangedSame
<1> HIDE DEF j
<1>9. CacheSound(j, InUse) /\ Wakes(Cache, j) /\ \A c \in Buffers : Keeps(Cache, j, c)
  BY <1>8, AtHand, DataSound
<1>10. /\ j \in CacheType /\ NoDup(j.free) /\ NoDup(j.io) /\ j.free = free
       /\ b \notin Given(j) /\ b \notin Freed(j) /\ j.ev = {} /\ j.want = want
       /\ j.buf[b].flags = buf[b].flags /\ j.buf[b].blk = buf[b].blk
       /\ j.buf[b].size = buf[b].size
  BY <1>3, <1>5, <1>8, AtHand DEF SameButData, Given, Freed
<1>11. \A c \in Others(p) : Keeps(Cache, j, c)
  BY <1>9, AtHand
<1>12. QED
  BY <1>1, <1>3, <1>4, <1>5, <1>6, <1>7, <1>9, <1>10, <1>11 DEF j

\* A change of the data, then of the flags.
LEMMA DataDirties ==
    ASSUME NEW i, NEW j, NEW k, NEW b \in Buffers, NEW fl, SameButData(i, j), NewData(i, j, b),
           Does(j, k, b, fl), "STALE" \notin fl,
           \/ k.io = i.io /\ "DELWRI" \in fl
           \/ k.io = Append(i.io, b) /\ "READ" \notin fl /\ "DONE" \notin fl
    PROVE  Dirties(i, k, b)
<1>1. ASSUME NEW c \in Buffers \ {b}
      PROVE  /\ k.buf[c].flags = i.buf[c].flags /\ k.buf[c].blk = i.buf[c].blk
             /\ k.buf[c].cur <=> (i.buf[c].cur /\ i.buf[c].blk # i.buf[b].blk)
  <2>1. k.buf[c] = j.buf[c]
    BY DEF Does, Touches
  <2>2. j.buf[c].flags = i.buf[c].flags /\ j.buf[c].blk = i.buf[c].blk
    BY DEF SameButData
  <2>3. j.buf[c].cur <=> (i.buf[c].cur /\ i.buf[c].blk # i.buf[b].blk)
    BY DEF NewData
  <2>4. QED
    BY <2>1, <2>2, <2>3
<1>2. k.buf[b].blk = i.buf[b].blk /\ k.buf[b].flags = fl /\ k.buf[b].cur = j.buf[b].cur
  BY DEF Does, SameButData
<1>3. j.buf[b].cur
  BY DEF NewData
<1>4. QED
  BY <1>1, <1>2, <1>3 DEF Dirties

\* What it writes are the last data of the block.
LEMMA WriterData ==
    ASSUME BioInv, NEW p \in Procs, Writable(p), NEW b, b = loc[p].bp,
           NEW k, NEW fl, Does(Changed(Cache, b), k, b, fl), "STALE" \notin fl,
           \/ k.io = Cache.io /\ "DELWRI" \in fl
           \/ k.io = Append(Cache.io, b) /\ "READ" \notin fl /\ "DONE" \notin fl
    PROVE  CohSound(k, NowOld(b))
<1> DEFINE j == Changed(Cache, b)
<1>1. /\ b \in Buffers /\ b \notin Given(Cache) /\ buf[b].blk # NULL
      /\ BufferSound(buf[b].flags, buf[b].blk, buf[b].size, FALSE, FALSE, TRUE)
  BY WriterHas
<1>2. "STALE" \notin buf[b].flags
  BY <1>1 DEF BufferSound
<1>3. SameButData(Cache, j) /\ NewData(Cache, j, b)
  BY <1>1, AtHand, ChangedSame
<1>4. Does(j, k, b, fl)
  OBVIOUS
<1> HIDE DEF j
<1>5. Dirties(Cache, k, b)
  BY <1>1, <1>3, <1>4, DataDirties
<1>6. NowOld(b) = [disk EXCEPT ![Cache.buf[b].blk] = FALSE]
  BY AtHand DEF NowOld
<1>7. CohSound(k, [disk EXCEPT ![Cache.buf[b].blk] = FALSE])
  BY <1>1, <1>2, <1>5, AtHand, DirtiesCoherent
<1>8. QED
  BY <1>6, <1>7

LEMMA BwriteKeeps ==
    ASSUME BioInv, NEW p \in Procs, Bwrite(p)
    PROVE  BioInv'
<1> DEFINE b == loc[p].bp
           l == [NoLocal EXCEPT !.bp = b, !.op = "bwrite"]
           j == Changed(Cache, b)
           k == StartWrite(j, b)
           fl == WriteFlags(buf[b].flags)
<1>1. Writable(p) /\ Go(p, k, "biowait", l) /\ disk' = NowOld(b)
  BY DEF Bwrite
<1>2. /\ b \in Buffers /\ HeldBy(pc[p], loc[p]) = {b}
      /\ b \notin Others(p) /\ buf[b].blk # NULL
      /\ BufferSound(buf[b].flags, buf[b].blk, buf[b].size, FALSE, FALSE, TRUE)
      /\ NowOld(b) \in [Blocks -> BOOLEAN] /\ InUse = Others(p) \cup {b}
      /\ CacheSound(j, InUse) /\ Wakes(Cache, j) /\ \A c \in Others(p) : Keeps(Cache, j, c)
      /\ j \in CacheType /\ NoDup(j.free) /\ NoDup(j.io)
      /\ b \notin Given(j) /\ b \notin Freed(j)
      /\ j.buf[b].flags = buf[b].flags /\ j.buf[b].blk = buf[b].blk
      /\ j.buf[b].size = buf[b].size
  BY <1>1, WriterHas
<1>11. j.io = Cache.io
  <2>1. SameButData(Cache, j)
    BY <1>2, AtHand, ChangedSame
  <2>2. QED
    BY <2>1 DEF SameButData
<1>12. j = Changed(Cache, b) /\ b = loc[p].bp
  OBVIOUS
<1> HIDE DEF j, b
<1>3. /\ Does(j, k, b, fl) /\ b \in Given(k) /\ k.io = Append(j.io, b) /\ k.free = j.free /\ k.want = j.want /\ k.ev = j.ev
  BY <1>2, StartWriteDoes
<1>4. l \in Local /\ l.bp = b /\ l.nbp = NULL /\ LocalSound("biowait", l) /\ HeldBy("biowait", l) = {b}
  <2>1. HoldSound(l, b, "bwrite")
    BY <1>2, HoldFields DEF Ops
  <2> HIDE DEF l
  <2>2. QED
    BY <2>1 DEF HoldSound
<1> HIDE DEF k, l
<1>5. BufferSound(fl, j.buf[b].blk, j.buf[b].size, b \in Freed(k), b \in Given(k), b \in HeldBy("biowait", l))
      /\ ("STALE" \in j.buf[b].flags => "STALE" \in fl)
  BY <1>2, <1>3, <1>4 DEF BufferSound, WriteFlags, Freed
<1>6. Wakes(j, k)
  BY <1>2, <1>3, DoesWakes DEF WriteFlags
<1>13. {"STALE", "READ", "DONE"} \cap fl = {}
  BY <1>2 DEF BufferSound, WriteFlags
<1> HIDE DEF fl
<1>14. CohSound(k, disk')
  BY <1>1, <1>3, <1>11, <1>12, <1>13, WriterData
<1>7. HandsSound(k, "biowait", l) /\ SleepSound(k, "biowait", l)
  BY <1>2, <1>3, <1>4 DEF HandsSound, SleepSound, Started, Does
<1>8. PlaceSound(k, "biowait", l)
  BY <1>4, <1>7 DEF PlaceSound, PC
<1>9. /\ HeldBy("biowait", l) \cap Others(p) = {} /\ disk' \in [Blocks -> BOOLEAN]
      /\ \A c \in Buffers \ {b} : c \in Others(p) \cup HeldBy("biowait", l) <=> c \in InUse
  BY <1>1, <1>2, <1>4
<1>10. QED
  BY <1>1, <1>2, <1>3, <1>5, <1>6, <1>8, <1>9, <1>14, GoDoes

LEMMA BawriteKeeps ==
    ASSUME BioInv, NEW p \in Procs, Bawrite(p)
    PROVE  BioInv'
<1> DEFINE b == loc[p].bp
           j == Changed(Cache, b)
           i == SetFlags(j, b, {"ASYNC"}, {})
           k == StartWrite(i, b)
           fl == WriteFlags(buf[b].flags \cup {"ASYNC"})
<1>1. Writable(p) /\ Go(p, k, "user", NoLocal) /\ disk' = NowOld(b)
  BY DEF Bawrite
<1>2. /\ b \in Buffers /\ HeldBy(pc[p], loc[p]) = {b}
      /\ b \notin Others(p) /\ buf[b].blk # NULL
      /\ BufferSound(buf[b].flags, buf[b].blk, buf[b].size, FALSE, FALSE, TRUE)
      /\ NowOld(b) \in [Blocks -> BOOLEAN] /\ InUse = Others(p) \cup {b}
      /\ CacheSound(j, InUse) /\ Wakes(Cache, j) /\ \A c \in Others(p) : Keeps(Cache, j, c)
      /\ j \in CacheType /\ NoDup(j.free) /\ NoDup(j.io)
      /\ b \notin Given(j) /\ b \notin Freed(j)
      /\ j.buf[b].flags = buf[b].flags /\ j.buf[b].blk = buf[b].blk
      /\ j.buf[b].size = buf[b].size
  BY <1>1, WriterHas
<1>12. j.io = Cache.io
  <2>1. SameButData(Cache, j)
    BY <1>2, AtHand, ChangedSame
  <2>2. QED
    BY <2>1 DEF SameButData
<1>13. j = Changed(Cache, b) /\ b = loc[p].bp
  OBVIOUS
<1> HIDE DEF j, b
<1>3. Sets(j, i, b, {"ASYNC"}, {})
  BY <1>2, SetFlagsDoes DEF Flags
<1> HIDE DEF i
<1>4. /\ Does(j, i, b, buf[b].flags \cup {"ASYNC"}) /\ i.free = j.free /\ i.io = j.io
      /\ i.want = j.want /\ i.ev = j.ev
  <2>1. (j.buf[b].flags \ {}) \cup {"ASYNC"} = buf[b].flags \cup {"ASYNC"}
    BY <1>2
  <2>2. QED
    BY <1>3, <2>1 DEF Sets
<1>5. /\ i \in CacheType /\ NoDup(i.free) /\ NoDup(i.io) /\ b \notin Given(i)
      /\ i.buf[b].flags = buf[b].flags \cup {"ASYNC"}
  BY <1>2, <1>4 DEF Does, Touches, Given
<1>6. /\ Does(i, k, b, fl) /\ b \in Given(k) /\ k.free = i.free /\ k.want = i.want /\ k.ev = i.ev
      /\ k.io = Append(i.io, b)
  BY <1>2, <1>5, StartWriteDoes
<1> HIDE DEF k
<1>7. Does(j, k, b, fl)
  BY <1>4, <1>6, DoesTwice
<1>8. BufferSound(fl, j.buf[b].blk, j.buf[b].size, b \in Freed(k), b \in Given(k), b \in HeldBy("user", NoLocal))
      /\ ("STALE" \in j.buf[b].flags => "STALE" \in fl)
  BY <1>2, <1>4, <1>6, UserPlace DEF BufferSound, WriteFlags, Freed
<1>9. Wakes(j, k)
  BY <1>2, <1>4, <1>6, <1>7, DoesWakes DEF WriteFlags
<1>14. {"STALE", "READ", "DONE"} \cap fl = {}
  BY <1>2 DEF BufferSound, WriteFlags
<1> HIDE DEF fl
<1>15. CohSound(k, disk')
  <2>1. k.io = Append(Cache.io, b)
    BY <1>4, <1>6, <1>12
  <2>2. QED
    BY <2>1, <1>1, <1>7, <1>13, <1>14, WriterData
<1>10. /\ HeldBy("user", NoLocal) \cap Others(p) = {} /\ disk' \in [Blocks -> BOOLEAN]
       /\ \A c \in Buffers \ {b} : c \in Others(p) \cup HeldBy("user", NoLocal) <=> c \in InUse
  BY <1>1, <1>2, UserPlace
<1>11. QED
  BY <1>1, <1>2, <1>7, <1>8, <1>9, <1>10, <1>15, UserPlace, GoDoes

LEMMA BdwriteKeeps ==
    ASSUME BioInv, NEW p \in Procs, Bdwrite(p)
    PROVE  BioInv'
<1> DEFINE b == loc[p].bp
           j == Changed(Cache, b)
           on == {"DELWRI", "DONE"}
           i == SetFlags(j, b, on, {})
           k == brelse(i, b)
           fl == ReleaseFlags(buf[b].flags \cup on)
<1>1. Writable(p) /\ Go(p, k, "user", NoLocal) /\ disk' = NowOld(b)
  BY DEF Bdwrite
<1>2. /\ b \in Buffers /\ HeldBy(pc[p], loc[p]) = {b}
      /\ b \notin Others(p) /\ buf[b].blk # NULL /\ "ERROR" \notin buf[b].flags
      /\ BufferSound(buf[b].flags, buf[b].blk, buf[b].size, FALSE, FALSE, TRUE)
      /\ NowOld(b) \in [Blocks -> BOOLEAN] /\ InUse = Others(p) \cup {b}
      /\ CacheSound(j, InUse) /\ Wakes(Cache, j) /\ \A c \in Others(p) : Keeps(Cache, j, c)
      /\ j \in CacheType /\ NoDup(j.free) /\ NoDup(j.io)
      /\ b \notin Given(j) /\ b \notin Freed(j)
      /\ j.buf[b].flags = buf[b].flags /\ j.buf[b].blk = buf[b].blk
      /\ j.buf[b].size = buf[b].size
  BY <1>1, WriterHas
<1>16. j.io = Cache.io
  <2>1. SameButData(Cache, j)
    BY <1>2, AtHand, ChangedSame
  <2>2. QED
    BY <2>1 DEF SameButData
<1>17. j = Changed(Cache, b) /\ b = loc[p].bp
  OBVIOUS
<1> HIDE DEF j, b
<1>12. on \in SUBSET Flags
  BY DEF Flags
<1>13. fl = (buf[b].flags \cup on) \ {"WANTED", "BUSY", "ASYNC", "ERROR"}
  BY <1>2 DEF ReleaseFlags
<1>14. "WANTED" \in buf[b].flags \cup on <=> "WANTED" \in buf[b].flags
  OBVIOUS
<1> HIDE DEF on
<1>3. Sets(j, i, b, on, {})
  BY <1>2, <1>12, SetFlagsDoes
<1> HIDE DEF i
<1>4. /\ Does(j, i, b, buf[b].flags \cup on) /\ i.free = j.free /\ i.io = j.io
      /\ i.want = j.want /\ i.ev = j.ev
  <2>1. (j.buf[b].flags \ {}) \cup on = buf[b].flags \cup on
    BY <1>2
  <2>2. QED
    BY <1>3, <2>1 DEF Sets
<1>5. /\ i \in CacheType /\ NoDup(i.free) /\ NoDup(i.io) /\ b \notin Freed(i)
      /\ i.buf[b].flags = buf[b].flags \cup on
  BY <1>2, <1>4 DEF Does, Touches, Freed
<1>6. /\ Does(i, k, b, fl) /\ b \in Freed(k) /\ k.io = i.io /\ i.ev \subseteq k.ev
      /\ "WANTED" \in buf[b].flags => b \in k.ev
      /\ i.want => NULL \in k.ev
  BY <1>2, <1>5, <1>14, BrelseDoes
<1> HIDE DEF k
<1>7. Does(j, k, b, fl)
  BY <1>4, <1>6, DoesTwice
<1>15. b \notin Given(k)
  BY <1>2, <1>4, <1>6 DEF Given
<1> HIDE DEF fl
<1>8. BufferSound(fl, j.buf[b].blk, j.buf[b].size, b \in Freed(k), b \in Given(k), b \in HeldBy("user", NoLocal))
      /\ ("STALE" \in j.buf[b].flags => "STALE" \in fl)
  BY <1>2, <1>6, <1>13, <1>15, UserPlace DEF BufferSound, on
<1>9. Wakes(j, k)
  BY <1>2, <1>4, <1>6, <1>7, DoesWakes
<1>10. /\ HeldBy("user", NoLocal) \cap Others(p) = {} /\ disk' \in [Blocks -> BOOLEAN]
       /\ \A c \in Buffers \ {b} : c \in Others(p) \cup HeldBy("user", NoLocal) <=> c \in InUse
  BY <1>1, <1>2, UserPlace
<1>18. "STALE" \notin fl /\ "DELWRI" \in fl
  BY <1>2, <1>13 DEF BufferSound, on
<1>19. CohSound(k, disk')
  <2>1. k.io = Cache.io
    BY <1>4, <1>6, <1>16
  <2>2. QED
    BY <2>1, <1>1, <1>7, <1>17, <1>18, WriterData
<1>11. QED
  BY <1>1, <1>2, <1>7, <1>8, <1>9, <1>10, <1>19, UserPlace, GoDoes

\* blkflush() takes a free buffer with a delayed write and writes it.
LEMMA BlkflushWriteKeeps ==
    ASSUME BioInv, NEW p \in Procs, BlkflushWrite(p)
    PROVE  BioInv'
<1>1. PICK b \in Hashed(Cache, loc[p].blk) :
        /\ ~Has(b, "BUSY") /\ Has(b, "DELWRI")
        /\ Go(p, StartWrite(notavail(Cache, b), b), "biowait", [loc[p] EXCEPT !.bp = b])
  BY DEF BlkflushWrite
<1> DEFINE l == [loc[p] EXCEPT !.bp = b]
           i == notavail(Cache, b)
           k == StartWrite(i, b)
           fl == WriteFlags(buf[b].flags \cup {"BUSY"})
<1>2. pc[p] = "blkflush" /\ UNCHANGED disk /\ Go(p, k, "biowait", l)
  BY <1>1 DEF BlkflushWrite
<1>3. LocalSound("blkflush", loc[p]) /\ HandsSound(Cache, "blkflush", loc[p]) /\ loc[p] \in Local
  BY <1>2, AtHand
<1>4. /\ b \in Buffers /\ buf[b].blk = loc[p].blk /\ loc[p].blk \in Blocks /\ buf[b].blk # NULL
      /\ "STALE" \notin buf[b].flags
  BY <1>3, AtHand, NullNothing DEF Hashed, LocalSound
<1>5. b \in Freed(Cache) /\ b \notin Given(Cache) /\ b \notin InUse /\ b \notin Others(p)
  BY <1>1, <1>4, FreeHit, AtHand
<1>6. HeldBy(pc[p], loc[p]) = {} /\ loc[p].nbp = NULL /\ loc[p].op = "blkflush" /\ b # NULL
  BY <1>2, <1>3, <1>4, NullNothing DEF LocalSound, HeldBy
<1>7. SoundAt(Cache, InUse, b)
  BY <1>4, AtHand DEF CacheSound
<1>8. BufferSound(buf[b].flags, buf[b].blk, buf[b].size, TRUE, FALSE, FALSE) /\ free # <<>>
  BY <1>5, <1>7, AtHand DEF SoundAt, BufferSound, Freed, OnList
<1>9. /\ Does(Cache, i, b, Cache.buf[b].flags \cup {"BUSY"}) /\ b \notin Freed(i)
      /\ i.io = Cache.io /\ i.want = Cache.want /\ i.ev = Cache.ev
  BY <1>5, AtHand, NotavailDoes
<1> HIDE DEF i
<1>10. /\ i \in CacheType /\ NoDup(i.free) /\ NoDup(i.io) /\ b \notin Given(i)
       /\ i.buf[b].flags = buf[b].flags \cup {"BUSY"}
  BY <1>5, <1>9, AtHand DEF Does, Touches, Given
<1>11. /\ Does(i, k, b, fl) /\ b \in Given(k) /\ k.free = i.free /\ k.want = i.want /\ k.ev = i.ev
       /\ k.io = Append(i.io, b)
  BY <1>4, <1>10, StartWriteDoes
<1> HIDE DEF k
<1>12. Does(Cache, k, b, fl) /\ b \notin Freed(k)
  BY <1>9, <1>11, DoesTwice DEF Freed
<1>13. /\ l \in Local /\ l.op = loc[p].op /\ l.blk = loc[p].blk /\ l.ra = loc[p].ra
       /\ l.bp = b /\ l.nbp = loc[p].nbp /\ l.in = loc[p].in /\ l.chan = loc[p].chan
  BY <1>3, <1>4, Zenon DEF Local
<1> HIDE DEF l
<1>14. HeldBy("biowait", l) = {b}
  BY <1>6, <1>13 DEF HeldBy
<1>15. BufferSound(fl, Cache.buf[b].blk, Cache.buf[b].size, b \in Freed(k), b \in Given(k), b \in HeldBy("biowait", l))
       /\ ("STALE" \in Cache.buf[b].flags => "STALE" \in fl)
  BY <1>4, <1>8, <1>11, <1>12, <1>14, AtHand DEF BufferSound, WriteFlags
<1>16. Wakes(Cache, k)
  <2>1. "WANTED" \notin Cache.buf[b].flags /\ Cache.free # <<>> /\ Cache.ev \subseteq k.ev
    BY <1>8, <1>9, <1>11, AtHand DEF BufferSound
  <2>2. QED
    BY <2>1, <1>12, DoesWakes
<1>22. fl \cap {"READ", "DONE", "STALE"} = {} /\ "DELWRI" \in Cache.buf[b].flags
  BY <1>1, <1>4, AtHand DEF WriteFlags, Has
<1> HIDE DEF fl
<1>23. CohSound(k, disk)
  <2>1. k.io = Append(Cache.io, b)
    BY <1>9, <1>11
  <2>2. QED
    BY <2>1, <1>4, <1>5, <1>12, <1>22, AtHand, WriteCoherent
<1>17. k.buf[b].blk # NULL
  BY <1>4, <1>12, AtHand DEF Does
<1>18. LocalSound("biowait", l) /\ HandsSound(k, "biowait", l) /\ SleepSound(k, "biowait", l)
  BY <1>4, <1>6, <1>11, <1>13, <1>17 DEF LocalSound, HandsSound, SleepSound, Started, Getting
<1>19. PlaceSound(k, "biowait", l)
  BY <1>13, <1>18 DEF PlaceSound, PC
<1>20. /\ HeldBy("biowait", l) \cap Others(p) = {} /\ disk' \in [Blocks -> BOOLEAN]
       /\ \A c \in Buffers \ {b} : c \in Others(p) \cup HeldBy("biowait", l) <=> c \in InUse
       /\ CacheSound(Cache, InUse) /\ CohSound(k, disk')
  BY <1>2, <1>5, <1>6, <1>14, <1>23, AtHand
<1>21. QED
  BY <1>2, <1>4, <1>5, <1>12, <1>15, <1>16, <1>19, <1>20, NoChange, GoDoes

Replaces(k, j, b, flags) ==
    /\ Does(k, j, b, flags)
    /\ j.free = k.free /\ j.io = k.io /\ j.want = k.want /\ j.ev = k.ev

\* A buffer gets new flags.
LEMMA NewFlags ==
    ASSUME NEW k \in CacheType, NEW b \in Buffers, NEW flags \in SUBSET Flags,
           NoDup(k.free), NoDup(k.io)
    PROVE  Replaces(k, [k EXCEPT !.buf[b].flags = flags], b, flags)
<1> DEFINE j == [k EXCEPT !.buf[b].flags = flags]
           r == [k.buf[b] EXCEPT !.flags = flags]
           m == [k.buf EXCEPT ![b] = r]
<1>1. k.buf \in [Buffers -> Buf] /\ k.buf[b] \in Buf
  BY CacheFields
<1>2. j = [k EXCEPT !.buf = m]
  BY Zenon
<1> HIDE DEF j
<1>3. /\ r \in Buf /\ r.flags = flags /\ r.blk = k.buf[b].blk
      /\ r.size = k.buf[b].size /\ r.cur = k.buf[b].cur
  BY <1>1, Zenon DEF Buf
<1> HIDE DEF r
<1>4. m \in [Buffers -> Buf] /\ m[b] = r /\ \A c \in Buffers \ {b} : m[c] = k.buf[c]
  BY <1>1, <1>3
<1> HIDE DEF m
<1>5. /\ j \in CacheType /\ j.buf = m /\ j.free = k.free /\ j.io = k.io /\ j.room = k.room
      /\ j.want = k.want /\ j.ev = k.ev
  BY <1>2, <1>4, Zenon DEF CacheType
<1>6. Does(k, j, b, flags)
  BY <1>3, <1>4, <1>5 DEF Does, Touches, Freed, Given
<1>7. QED
  BY <1>5, <1>6 DEF j, Replaces

\* A clean buffer loses its data.
LEMMA LoseCoherent ==
    ASSUME NEW k, NEW j, NEW d, CohSound(k, d), NEW b \in Buffers, Touches(k, j, b), j.io = k.io,
           b \notin Given(k), "DELWRI" \notin k.buf[b].flags, "DELWRI" \notin j.buf[b].flags,
           ~j.buf[b].cur, "DONE" \notin j.buf[b].flags \/ j.buf[b].blk = NULL
    PROVE  CohSound(j, d)
<1>1. ~Valid(j.buf[b].flags, j.buf[b].blk) /\ k \in CacheType
  BY DEF Valid, Touches
<1>2. Calm(k, j)
  BY <1>1 DEF Calm, Touches, Tame
<1>3. QED
  BY <1>1, <1>2, CalmCoherent

\* A buffer without a block has no data.
LEMMA EmptyCoherent ==
    ASSUME NEW k, NEW j, NEW H, CacheSound(k, H), NEW d, CohSound(k, d),
           NEW b \in Buffers, Touches(k, j, b), j.io = k.io,
           k.buf[b].blk = NULL, b \notin Given(k), ~j.buf[b].cur,
           "DELWRI" \notin j.buf[b].flags, "DONE" \notin j.buf[b].flags \/ j.buf[b].blk = NULL
    PROVE  CohSound(j, d)
<1>1. "DELWRI" \notin k.buf[b].flags
  BY DEF CacheSound, SoundAt, BufferSound
<1>2. QED
  BY <1>1, LoseCoherent

\* The buffer at hand in getblk() and ngeteblk().
LEMMA NewBuffer ==
    ASSUME BioInv, NEW p \in Procs, pc[p] = "getblk", loc[p].nbp # NULL, NEW b, b = loc[p].nbp
    PROVE  /\ b \in Buffers /\ b \in HeldBy(pc[p], loc[p]) /\ b \in InUse /\ b \notin Others(p)
           /\ b \notin Given(Cache) /\ b \notin Freed(Cache)
           /\ buf[b].blk = NULL /\ ~buf[b].cur /\ "WANTED" \notin buf[b].flags /\ buf[b].size > 0
<1>1. HandsSound(Cache, "getblk", loc[p]) /\ loc[p] \in Local
  BY AtHand
<1>2. b \in HeldBy(pc[p], loc[p]) /\ buf[b].blk = NULL
  BY <1>1, AtHand DEF HeldBy, HandsSound
<1>3. b \in Buffers
  BY <1>2, AtHand
<1>4. ~buf[b].cur
  BY <1>2, <1>3, AtHand DEF CohSound, LastKept
<1>5. QED
  BY <1>2, <1>4, MineSound DEF BufferSound

\* ngeteblk() returns it.
LEMMA NgeteblkKeeps ==
    ASSUME BioInv, NEW p \in Procs, Ngeteblk(p)
    PROVE  BioInv'
<1> DEFINE b == loc[p].nbp
           fl == {"BUSY", "AGE"}
           k == [Cache EXCEPT !.buf[b].flags = fl]
           l == [NoLocal EXCEPT !.bp = b, !.op = "ngeteblk"]
<1>1. /\ pc[p] = "getblk" /\ loc[p].op = "ngeteblk" /\ b # NULL /\ UNCHANGED disk
      /\ Go(p, k, "held", l)
  BY DEF Ngeteblk, Hold
<1>2. /\ b \in Buffers /\ b \notin Others(p) /\ b \notin Given(Cache) /\ b \notin Freed(Cache)
      /\ buf[b].blk = NULL /\ ~buf[b].cur /\ "WANTED" \notin buf[b].flags /\ buf[b].size > 0
  BY <1>1, NewBuffer
<1>3. HeldBy(pc[p], loc[p]) = {b}
  <2>1. LocalSound("getblk", loc[p]) /\ loc[p].in \in {"main", "ra"}
    BY <1>1, AtHand, LocalFields
  <2>2. loc[p].bp = NULL
    BY <2>1, <1>1 DEF LocalSound, Getting
  <2>3. QED
    BY <2>2, <1>1 DEF HeldBy
<1> HIDE DEF b
<1>4. fl \in SUBSET Flags /\ "WANTED" \notin fl
  BY DEF Flags
<1>5. /\ l \in Local /\ l.bp = b /\ l.nbp = NULL /\ l.op = "ngeteblk" /\ LocalSound("held", l)
      /\ HeldBy("held", l) = {b}
  <2>1. HoldSound(l, b, "ngeteblk")
    BY <1>2, HoldFields DEF Ops
  <2> HIDE DEF l
  <2>2. QED
    BY <2>1 DEF HoldSound
<1> HIDE DEF fl
<1>6. Replaces(Cache, k, b, fl)
  BY <1>2, <1>4, AtHand, NewFlags
<1> HIDE DEF k, l
<1>7. /\ Does(Cache, k, b, fl) /\ k.free = free /\ k.io = io /\ k.want = want /\ k.ev = {}
      /\ b \notin Given(k) /\ b \notin Freed(k)
  BY <1>2, <1>6, AtHand DEF Replaces, Given, Freed
<1>8. BufferSound(fl, Cache.buf[b].blk, Cache.buf[b].size, b \in Freed(k), b \in Given(k), b \in HeldBy("held", l))
      /\ Cache.buf[b].blk = NULL
  BY <1>2, <1>5, <1>7, AtHand DEF BufferSound, fl
<1>9. Wakes(Cache, k)
  BY <1>2, <1>7, AtHand, DoesWakes
<1>10. HandsSound(k, "held", l) /\ SleepSound(k, "held", l)
  BY <1>2, <1>5, <1>7 DEF HandsSound, SleepSound
<1>11. PlaceSound(k, "held", l)
  BY <1>5, <1>10 DEF PlaceSound, PC
<1>14. CohSound(k, disk)
  <2>1. "DELWRI" \notin fl /\ "DONE" \notin fl
    BY DEF fl
  <2>2. Touches(Cache, k, b) /\ k.buf[b].flags = fl /\ ~k.buf[b].cur /\ Cache.buf[b].blk = NULL
        /\ k.io = Cache.io
    BY <1>2, <1>7, AtHand DEF Does
  <2>3. QED
    BY <2>1, <2>2, <1>2, AtHand, EmptyCoherent
<1>12. /\ HeldBy("held", l) \cap Others(p) = {} /\ disk' \in [Blocks -> BOOLEAN]
       /\ \A c \in Buffers \ {b} : c \in Others(p) \cup HeldBy("held", l) <=> c \in InUse
       /\ CacheSound(Cache, InUse) /\ CohSound(k, disk')
  BY <1>1, <1>2, <1>3, <1>5, <1>14, AtHand
<1>13. QED
  BY <1>1, <1>2, <1>7, <1>8, <1>9, <1>11, <1>12, NoChange, GoDoes

\* The locals with which getblk() returns b.
LEMMA GotPlace ==
    ASSUME BioInv, NEW p \in Procs, pc[p] = "getblk", loc[p].op # "ngeteblk",
           NEW b \in Buffers, b # loc[p].bp, NEW k, k.buf[b].blk # NULL, b \notin Given(k),
           loc[p].bp # NULL => Keeps(Cache, k, loc[p].bp)
    PROVE  LET l == [loc[p] EXCEPT !.nbp = NULL, !.chan = b]
           IN  /\ PlaceSound(k, "got", l)
               /\ HeldBy("got", l) = ({loc[p].bp} \ {NULL}) \cup {b}
<1> DEFINE l == [loc[p] EXCEPT !.nbp = NULL, !.chan = b]
<1>1. LocalSound("getblk", loc[p]) /\ HandsSound(Cache, "getblk", loc[p]) /\ loc[p] \in Local
  BY AtHand
<1>2. /\ l \in Local /\ l.op = loc[p].op /\ l.blk = loc[p].blk /\ l.ra = loc[p].ra
      /\ l.bp = loc[p].bp /\ l.nbp = NULL /\ l.in = loc[p].in /\ l.chan = b
  BY <1>1, Zenon DEF Local
<1> HIDE DEF l
<1>3. b # NULL
  BY NullNothing
<1>4. HeldBy("got", l) = ({loc[p].bp} \ {NULL}) \cup {b}
  BY <1>2, <1>3 DEF HeldBy
<1>5. LocalSound("got", l)
  BY <1>1, <1>2, <1>3 DEF LocalSound, Getting
<1>6. HandsSound(k, "got", l) /\ SleepSound(k, "got", l)
  BY <1>1, <1>2 DEF HandsSound, SleepSound, Keeps
<1>7. PlaceSound(k, "got", l)
  BY <1>2, <1>5, <1>6 DEF PlaceSound, PC
<1>8. QED
  BY <1>4, <1>7 DEF l

\* getblk() finds its block in a free buffer.
LEMMA GetblkHitKeeps ==
    ASSUME BioInv, NEW p \in Procs, GetblkHit(p)
    PROVE  BioInv'
<1> DEFINE n == loc[p].nbp
           M == {loc[p].bp} \ {NULL}
<1>1. PICK b \in Hashed(Cache, Target(p)) :
        LET k == notavail(SetFlags(Cache, b, {}, {"AGE"}), b)
        IN  /\ ~Has(b, "BUSY")
            /\ Go(p, IF n = NULL THEN k ELSE brelse([k EXCEPT !.buf[n].flags = {"BUSY"}], n),
                  "got", [loc[p] EXCEPT !.nbp = NULL, !.chan = b])
  BY DEF GetblkHit
<1> DEFINE i == SetFlags(Cache, b, {}, {"AGE"})
           k == notavail(i, b)
           m == [k EXCEPT !.buf[n].flags = {"BUSY"}]
           j == IF n = NULL THEN k ELSE brelse(m, n)
           l == [loc[p] EXCEPT !.nbp = NULL, !.chan = b]
           fl == (buf[b].flags \ {"AGE"}) \cup {"BUSY"}
<1>2. pc[p] = "getblk" /\ loc[p].op # "ngeteblk" /\ UNCHANGED disk /\ ~Has(b, "BUSY")
      /\ Go(p, j, "got", l)
  BY <1>1 DEF GetblkHit
<1>3. /\ b \in Buffers /\ buf[b].blk = Target(p) /\ Target(p) \in Blocks /\ buf[b].blk # NULL
      /\ "STALE" \notin buf[b].flags
  BY <1>2, TargetBlock, AtHand, NullNothing DEF Hashed
<1>4. b \in Freed(Cache) /\ b \notin Given(Cache) /\ b \notin InUse
  BY <1>2, <1>3, FreeHit
<1>5. HeldBy(pc[p], loc[p]) = ({loc[p].bp, n} \ {NULL})
  BY <1>2 DEF HeldBy
<1>6. /\ b \notin Others(p) /\ b \notin M /\ b # n /\ b # loc[p].bp /\ M \subseteq InUse
      /\ InUse = Others(p) \cup HeldBy(pc[p], loc[p]) /\ InUse \subseteq Buffers
      /\ Others(p) \cap HeldBy(pc[p], loc[p]) = {} /\ M \subseteq HeldBy(pc[p], loc[p])
  BY <1>3, <1>4, <1>5, AtHand, NullNothing
<1>7. BufferSound(buf[b].flags, buf[b].blk, buf[b].size, TRUE, FALSE, FALSE) /\ free # <<>>
  <2>1. SoundAt(Cache, InUse, b)
    BY <1>3, AtHand DEF CacheSound
  <2>2. QED
    BY <2>1, <1>4, AtHand DEF SoundAt, BufferSound, Freed, OnList
<1>8. Sets(Cache, i, b, {}, {"AGE"})
  BY <1>3, AtHand, SetFlagsDoes
<1> HIDE DEF i
<1>9. /\ Does(Cache, i, b, (Cache.buf[b].flags \ {"AGE"}) \cup {}) /\ i.free = free /\ i.io = io
      /\ i.want = want /\ i.ev = {}
  BY <1>8, AtHand DEF Sets
<1>10. /\ i \in CacheType /\ NoDup(i.free) /\ NoDup(i.io) /\ b \in Freed(i)
       /\ i.buf[b].flags \cup {"BUSY"} = fl
  BY <1>4, <1>9, AtHand DEF Does, Touches, Freed
<1>11. /\ Does(i, k, b, i.buf[b].flags \cup {"BUSY"}) /\ b \notin Freed(k)
       /\ k.io = i.io /\ k.want = i.want /\ k.ev = i.ev
  BY <1>10, NotavailDoes
<1> HIDE DEF k, fl
<1>12. Does(Cache, k, b, fl)
  BY <1>9, <1>10, <1>11, DoesTwice
<1>13. b \notin Given(k) /\ k.buf[b].blk # NULL /\ k.ev = {}
  BY <1>3, <1>4, <1>9, <1>11, <1>12, AtHand DEF Given, Does
<1> DEFINE H == InUse \cup {b}
<1>14. CacheSound(k, H)
  <2>1. BufferSound(fl, Cache.buf[b].blk, Cache.buf[b].size, b \in Freed(k), b \in Given(k), b \in H)
        /\ "STALE" \notin Cache.buf[b].flags
    BY <1>3, <1>7, <1>11, <1>13, AtHand DEF BufferSound, fl
  <2>2. H \subseteq Buffers /\ \A c \in Buffers \ {b} : c \in H <=> c \in InUse
    BY <1>3, <1>6
  <2> HIDE DEF H
  <2>3. QED
    BY <2>1, <2>2, <1>3, <1>12, AtHand, DoesSound
<1>15. Wakes(Cache, k)
  <2>1. "WANTED" \notin Cache.buf[b].flags /\ Cache.free # <<>> /\ Cache.ev \subseteq k.ev
    BY <1>7, AtHand DEF BufferSound
  <2>2. QED
    BY <2>1, <1>12, DoesWakes
<1>22. CohSound(k, disk)
  <2>1. Tame(Cache.buf[b].flags, fl) /\ k.io = Cache.io
    BY <1>9, <1>11, AtHand DEF Tame, fl
  <2>2. Calm(Cache, k)
    BY <2>1, <1>12, DoesCalm
  <2>3. QED
    BY <2>2, AtHand, CalmCoherent
<1>16. \A c \in InUse : Keeps(Cache, k, c)
  <2>1. Touches(Cache, k, b)
    BY <1>12 DEF Does
  <2>2. QED
    BY <2>1, <1>4, <1>6, TouchKeeps
<1> HIDE DEF l
<1>17. ASSUME NEW k1, k1.buf[b].blk # NULL, b \notin Given(k1),
              loc[p].bp # NULL => Keeps(Cache, k1, loc[p].bp)
       PROVE  PlaceSound(k1, "got", l) /\ HeldBy("got", l) = M \cup {b}
  BY <1>17, <1>2, <1>3, <1>6, GotPlace DEF l
<1>18. loc[p].bp # NULL => loc[p].bp \in M
  OBVIOUS
<1>19. CASE n = NULL
  <2>1. Go(p, k, "got", l)
    BY <1>2, <1>19
  <2>2. PlaceSound(k, "got", l) /\ HeldBy("got", l) = M \cup {b}
    BY <1>6, <1>13, <1>16, <1>17, <1>18
  <2>3. H = Others(p) \cup HeldBy("got", l) /\ HeldBy("got", l) \cap Others(p) = {}
    BY <2>2, <1>5, <1>6, <1>19
  <2>4. \A c \in Others(p) : Keeps(Cache, k, c)
    BY <1>6, <1>16
  <2>5. disk' \in [Blocks -> BOOLEAN] /\ CohSound(k, disk')
    BY <1>2, <1>22, AtHand
  <2>6. CacheSound(k, Others(p) \cup HeldBy("got", l))
    BY <2>3, <1>14
  <2> HIDE DEF H, M
  <2>7. QED
    BY <2>1, <2>2, <2>3, <2>4, <2>5, <2>6, <1>15, GoKeeps
<1>20. CASE n # NULL
  <2>1. /\ n \in Buffers /\ n \in HeldBy(pc[p], loc[p]) /\ n \in InUse /\ n \notin Others(p)
        /\ n \notin Given(Cache) /\ n \notin Freed(Cache)
        /\ buf[n].blk = NULL /\ ~buf[n].cur /\ "WANTED" \notin buf[n].flags /\ buf[n].size > 0
    BY <1>2, <1>20, NewBuffer
  <2>2. n # loc[p].bp \/ loc[p].bp = NULL
    BY <1>2, AtHand DEF LocalSound
  <2>3. /\ n \notin Given(k) /\ n \notin Freed(k) /\ k.buf[n].blk = NULL
        /\ "WANTED" \notin k.buf[n].flags /\ k.buf[n].size > 0 /\ ~k.buf[n].cur
    BY <2>1, <1>6, <1>12, AtHand DEF Does, Touches
  <2>4. {"BUSY"} \in SUBSET Flags /\ k \in CacheType /\ NoDup(k.free) /\ NoDup(k.io)
    BY <1>14 DEF Flags, CacheSound
  <2>5. Replaces(k, m, n, {"BUSY"})
    BY <2>1, <2>4, NewFlags
  <2>6. j = brelse(m, n)
    BY <1>20
  <2> HIDE DEF m, j, n
  <2>7. /\ Does(k, m, n, {"BUSY"}) /\ m.free = k.free /\ m.io = k.io /\ m.want = k.want /\ m.ev = k.ev
        /\ n \notin Given(m) /\ n \notin Freed(m)
    BY <2>3, <2>5 DEF Replaces, Given, Freed
  <2>8. CacheSound(m, H)
    <3>1. n \in H /\ H \subseteq Buffers
      BY <2>1, <1>3, <1>6
    <3>2. BufferSound({"BUSY"}, k.buf[n].blk, k.buf[n].size, n \in Freed(m), n \in Given(m), n \in H)
      BY <3>1, <2>3, <2>7 DEF BufferSound
    <3> HIDE DEF H
    <3>3. QED
      BY <3>1, <3>2, <2>1, <2>3, <2>7, <1>14, DoesSound
  <2>23. CohSound(m, disk')
    <3>1. /\ Touches(k, m, n) /\ "DELWRI" \notin m.buf[n].flags /\ "DONE" \notin m.buf[n].flags
          /\ ~m.buf[n].cur /\ m.io = k.io
      BY <2>3, <2>7 DEF Does
    <3>2. CohSound(m, disk)
      BY <3>1, <2>1, <2>3, <1>14, <1>22, EmptyCoherent
    <3>3. QED
      BY <3>2, <1>2
  <2>9. Wakes(Cache, m)
    <3>1. k.ev \subseteq m.ev
      BY <2>7
    <3>2. Wakes(k, m)
      BY <3>1, <2>3, <2>7, DoesWakes
    <3>3. QED
      BY <3>2, <1>15, WakesTwice
  <2>10. ASSUME NEW c \in Buffers \ {n} PROVE Keeps(k, m, c)
    <3>1. Touches(k, m, n)
      BY <2>7 DEF Does
    <3>2. QED
      BY <3>1, TouchKeeps
  <2>11. ASSUME NEW c \in InUse \ {n} PROVE Keeps(Cache, m, c)
    <3>1. Keeps(k, m, c) /\ Keeps(Cache, k, c)
      BY <2>10, <1>6, <1>16
    <3>2. QED
      BY <3>1, KeepsTwice
  <2>12. Touches(m, j, n)
    <3>1. m \in CacheType /\ NoDup(m.free) /\ NoDup(m.io)
      BY <2>8 DEF CacheSound
    <3>2. Does(m, j, n, ReleaseFlags(m.buf[n].flags))
      BY <3>1, <2>1, <2>6, <2>7, BrelseDoes
    <3>3. QED
      BY <3>2 DEF Does
  <2>13. ASSUME NEW c \in InUse \ {n} PROVE Keeps(Cache, j, c)
    <3>1. Keeps(Cache, m, c) /\ Keeps(m, j, c)
      BY <2>11, <2>12, <1>6, TouchKeeps
    <3>2. QED
      BY <3>1, KeepsTwice
  <2>14. j.buf[b].blk # NULL /\ b \notin Given(j)
    <3>1. Touches(k, m, n)
      BY <2>7 DEF Does
    <3>2. QED
      BY <3>1, <2>12, <1>3, <1>6, <1>13 DEF Touches
  <2>15. loc[p].bp # NULL => Keeps(Cache, j, loc[p].bp)
    BY <2>2, <2>13, <1>6, <1>18
  <2>16. PlaceSound(j, "got", l) /\ HeldBy("got", l) = M \cup {b}
    BY <2>14, <2>15, <1>17
  <2>17. n \notin M
    BY <2>2
  <2>18. /\ n \in H /\ n \notin HeldBy("got", l) /\ HeldBy("got", l) \cap Others(p) = {}
         /\ disk' \in [Blocks -> BOOLEAN]
    BY <2>1, <2>16, <2>17, <1>2, <1>6, AtHand
  <2>21. HeldBy(pc[p], loc[p]) = M \cup {n}
    BY <1>5, <1>20
  <2>19. \A c \in Buffers \ {n} : c \in Others(p) \cup HeldBy("got", l) <=> c \in H
    BY <2>16, <2>21, <1>6
  <2>20. \A c \in Others(p) : Keeps(Cache, m, c)
    BY <2>1, <2>11, <1>6
  <2> HIDE DEF H, M
  <2>22. QED
    BY <1>2, <2>1, <2>6, <2>7, <2>8, <2>9, <2>16, <2>18, <2>19, <2>20, <2>23, GoRelease
<1>21. QED
  BY <1>19, <1>20

\* getblk() gives the buffer at hand to the block, which has none.
LEMMA GetblkAssignKeeps ==
    ASSUME BioInv, NEW p \in Procs, GetblkAssign(p)
    PROVE  BioInv'
<1> DEFINE b == loc[p].nbp
           x == Target(p)
           r == [buf[b] EXCEPT !.flags = {"BUSY"}, !.blk = x]
           m == [buf EXCEPT ![b] = r]
           k == [Cache EXCEPT !.buf[b].flags = {"BUSY"}, !.buf[b].blk = x]
           l == [loc[p] EXCEPT !.nbp = NULL, !.chan = b]
           M == {loc[p].bp} \ {NULL}
<1>1. /\ pc[p] = "getblk" /\ loc[p].op # "ngeteblk" /\ b # NULL /\ ~incore(x) /\ UNCHANGED disk
      /\ Go(p, k, "got", l)
  BY DEF GetblkAssign
<1>2. /\ b \in Buffers /\ b \in HeldBy(pc[p], loc[p]) /\ b \in InUse /\ b \notin Others(p)
      /\ b \notin Given(Cache) /\ b \notin Freed(Cache)
      /\ buf[b].blk = NULL /\ ~buf[b].cur /\ "WANTED" \notin buf[b].flags /\ buf[b].size > 0
  BY <1>1, NewBuffer
<1>3. x \in Blocks /\ x # NULL
  BY <1>1, TargetBlock, NullNothing
<1>4. b # loc[p].bp /\ HeldBy(pc[p], loc[p]) = M \cup {b}
  BY <1>1, AtHand DEF LocalSound, HeldBy
<1>5. /\ Cache.buf = buf /\ buf \in [Buffers -> Buf] /\ buf[b] \in Buf
  BY <1>2, AtHand, CacheFields
<1>6. k = [Cache EXCEPT !.buf = m]
  BY <1>2, <1>5, Zenon
<1>7. {"BUSY"} \in SUBSET Flags
  BY DEF Flags
<1> HIDE DEF b, x, k
<1>8. /\ r \in Buf /\ r.flags = {"BUSY"} /\ r.blk = x
      /\ r.size = buf[b].size /\ r.cur = buf[b].cur
  BY <1>3, <1>5, <1>7, Zenon DEF Buf
<1> HIDE DEF r
<1>9. m \in [Buffers -> Buf] /\ m[b] = r /\ \A c \in Buffers \ {b} : m[c] = buf[c]
  BY <1>2, <1>5, <1>8
<1> HIDE DEF m
<1>10. /\ k \in CacheType /\ k.buf = m /\ k.free = Cache.free /\ k.io = Cache.io
       /\ k.room = Cache.room /\ k.want = Cache.want /\ k.ev = Cache.ev
  <2>1. Cache \in CacheType
    BY AtHand
  <2>2. QED
    BY <2>1, <1>6, <1>9, Zenon DEF CacheType
<1>11. Touches(Cache, k, b)
  BY <1>5, <1>9, <1>10, AtHand DEF Touches, Freed, Given
<1>12. b \notin Freed(k) /\ b \notin Given(k)
  BY <1>2, <1>10 DEF Freed, Given
<1>13. SoundAt(k, InUse, b)
  BY <1>2, <1>3, <1>8, <1>9, <1>10, <1>12 DEF SoundAt, BufferSound
<1>14. \A c \in Buffers : x = buf[c].blk => "STALE" \in buf[c].flags
  BY <1>1, <1>5 DEF incore, Hashed
<1>15. CacheSound(k, InUse)
  <2>1. /\ InUse \subseteq Buffers /\ k.room >= 0
        /\ k.room + k.buf[b].size = Cache.room + Cache.buf[b].size
        /\ \A c \in Buffers : k.buf[b].blk = Cache.buf[c].blk => "STALE" \in Cache.buf[c].flags
    BY <1>5, <1>8, <1>9, <1>10, <1>14, AtHand DEF CacheSound
  <2>2. QED
    BY <2>1, <1>2, <1>11, <1>13, AtHand, TouchSound
<1>22. CohSound(k, disk')
  <2>1. /\ "DELWRI" \notin k.buf[b].flags /\ "DONE" \notin k.buf[b].flags /\ ~k.buf[b].cur
        /\ Cache.buf[b].blk = NULL
    BY <1>2, <1>5, <1>8, <1>9, <1>10
  <2>2. CohSound(k, disk)
    BY <2>1, <1>2, <1>10, <1>11, AtHand, EmptyCoherent
  <2>3. QED
    BY <2>2, <1>1
<1>16. Wakes(Cache, k)
  BY <1>2, <1>5, <1>10, <1>11 DEF Touches, Wakes
<1>17. \A c \in Buffers \ {b} : Keeps(Cache, k, c)
  BY <1>11, TouchKeeps
<1>18. PlaceSound(k, "got", l) /\ HeldBy("got", l) = M \cup {b}
  <2>1. loc[p].bp \in Buffers \cup {NULL}
    BY AtHand, LocalFields
  <2>2. loc[p].bp # NULL => Keeps(Cache, k, loc[p].bp)
    BY <2>1, <1>4, <1>17
  <2>3. k.buf[b].blk # NULL
    BY <1>3, <1>8, <1>9, <1>10
  <2>4. QED
    BY <2>2, <2>3, <1>1, <1>2, <1>4, <1>12, GotPlace
<1> HIDE DEF l, M
<1>19. /\ CacheSound(k, Others(p) \cup HeldBy("got", l)) /\ HeldBy("got", l) \cap Others(p) = {}
       /\ disk' \in [Blocks -> BOOLEAN]
  BY <1>1, <1>4, <1>15, <1>18, AtHand
<1>20. \A c \in Others(p) : Keeps(Cache, k, c)
  BY <1>2, <1>17, AtHand
<1>21. QED
  BY <1>1, <1>16, <1>18, <1>19, <1>20, <1>22, GoKeeps

(***************************************************************************)
(* getfreeblk(): the loop over the free list.                              *)
(***************************************************************************)
Saved(g) == {g.save} \ {NULL}

\* What holds each time round: the cache is sound, with the buffer that the
\* loop has found in p's hands, and nobody's wakeup or data are lost.
LoopSound(g) ==
    /\ g \in [k : CacheType, save : Buffers \cup {NULL}]
    /\ CacheSound(g.k, InUse \cup Saved(g))
    /\ g.save # NULL => g.save \notin InUse /\ g.k.buf[g.save].blk = NULL
    /\ Wakes(Cache, g.k) /\ \A c \in InUse : Keeps(Cache, g.k, c)
    /\ g.k.ev = {} /\ CohSound(g.k, disk)

\* One more buffer is taken: b, from the cache k to j, and kept if save is b.
LEMMA TakenSound ==
    ASSUME BioInv, NEW g, LoopSound(g), g.save = NULL, NEW b \in Freed(g.k), NEW j, NEW save,
           save = NULL \/ (save = b /\ j.buf[b].blk = NULL),
           Touches(g.k, j, b), j.ev = {}, j.room >= 0, CohSound(j, disk),
           j.room + j.buf[b].size = g.k.room + g.k.buf[b].size,
           BufferSound(j.buf[b].flags, j.buf[b].blk, j.buf[b].size, FALSE, b \in Given(j), save = b),
           b \notin Freed(j),
           \/ j.buf[b].blk = NULL
           \/ j.buf[b].blk = g.k.buf[b].blk /\ ("STALE" \in g.k.buf[b].flags => "STALE" \in j.buf[b].flags)
    PROVE  LoopSound([g EXCEPT !.k = j, !.save = save])
<1> DEFINE i == g.k
           h == [g EXCEPT !.k = j, !.save = save]
           G == InUse \cup ({save} \ {NULL})
<1>1. i \in CacheType /\ j \in CacheType /\ g \in [k : CacheType, save : Buffers \cup {NULL}]
      /\ i.free \in Seq(Buffers)
  BY CacheFields DEF LoopSound, Touches
<1>2. CacheSound(i, InUse) /\ i.ev = {}
  <2>1. InUse \cup Saved(g) = InUse
    BY DEF Saved
  <2>2. QED
    BY <2>1 DEF LoopSound
<1>3. b \in Buffers /\ b # NULL /\ i.free # <<>>
  BY <1>1, NullNothing DEF Freed, OnList
<1>4. b \notin InUse /\ "WANTED" \notin i.buf[b].flags
  <2>1. SoundAt(i, InUse, b)
    BY <1>2, <1>3 DEF CacheSound
  <2>2. QED
    BY <2>1 DEF SoundAt, BufferSound
<1>5. h \in [k : CacheType, save : Buffers \cup {NULL}] /\ h.k = j /\ h.save = save
  BY <1>1, <1>3, Zenon
<1>6. Wakes(Cache, i) /\ \A c \in InUse : Keeps(Cache, i, c)
  BY DEF LoopSound
<1>14. Touches(i, j, b)
  OBVIOUS
<1>15. /\ j.room + j.buf[b].size = i.room + i.buf[b].size
       /\ \/ j.buf[b].blk = NULL
          \/ j.buf[b].blk = i.buf[b].blk /\ ("STALE" \in i.buf[b].flags => "STALE" \in j.buf[b].flags)
  OBVIOUS
<1> HIDE DEF i, h
<1>7. /\ G \subseteq Buffers /\ (b \in G <=> save = b) /\ \A c \in Buffers \ {b} : c \in G <=> c \in InUse
  BY <1>2, <1>3, <1>4 DEF CacheSound
<1> HIDE DEF G
<1>8. SoundAt(j, G, b)
  BY <1>7 DEF SoundAt, BufferSound
<1>9. CacheSound(j, G)
  BY <1>2, <1>3, <1>7, <1>8, <1>14, <1>15, TouchSound
<1>10. Wakes(Cache, j)
  <2>1. Wakes(i, j)
    BY <1>2, <1>3, <1>4, <1>14 DEF Touches, Wakes
  <2>2. QED
    BY <2>1, <1>6, WakesTwice
<1>11. ASSUME NEW c \in InUse PROVE Keeps(Cache, j, c)
  <2>1. c \in Buffers \ {b}
    BY <1>2, <1>4 DEF CacheSound
  <2>2. Keeps(i, j, c)
    BY <2>1, <1>14, TouchKeeps
  <2>3. QED
    BY <2>2, <1>6, KeepsTwice
<1>12. CacheSound(h.k, InUse \cup Saved(h))
  BY <1>5, <1>9 DEF G, Saved
<1>13. LoopSound(h)
  BY <1>4, <1>5, <1>10, <1>11, <1>12 DEF LoopSound
<1>16. QED
  BY <1>13 DEF h

\* The body of the loop.
LEMMA TakeFreeSound ==
    ASSUME BioInv, NEW g, LoopSound(g), NEW size, ~Enough(g, size)
    PROVE  LoopSound(TakeFree(g, size)) /\ Len(TakeFree(g, size).k.free) = Len(g.k.free) - 1
<1> DEFINE i == g.k
           b == Head(i.free)
           k == notavail(i, b)
<1>1. i.free # <<>> /\ g.save = NULL
  BY DEF Enough
<1>2. g \in [k : CacheType, save : Buffers \cup {NULL}] /\ i \in CacheType /\ i.free \in Seq(Buffers)
      /\ i.ev = {} /\ InUse \cup Saved(g) = InUse
  BY <1>1, CacheFields DEF LoopSound, Saved
<1>3. CacheSound(i, InUse) /\ CohSound(i, disk)
  BY <1>2 DEF LoopSound
<1>22. disk \in [Blocks -> BOOLEAN]
  BY DEF BioInv
<1>4. b \in Freed(i) /\ b \in Buffers
  BY <1>1, <1>2 DEF Freed, OnList
<1>5. NoDup(i.free) /\ NoDup(i.io) /\ SoundAt(i, InUse, b) /\ i.room >= 0 /\ i.room \in Int
  BY <1>2, <1>3, <1>4, CacheFields DEF CacheSound
<1>6. BufferSound(i.buf[b].flags, i.buf[b].blk, i.buf[b].size, TRUE, FALSE, FALSE) /\ b \notin Given(i)
  BY <1>4, <1>5 DEF SoundAt, BufferSound
<1>20. TakeFree(g, size) =
         IF "DELWRI" \in k.buf[b].flags
         THEN [g EXCEPT !.k = StartWrite(SetFlags(k, b, {"ASYNC", "AGE"}, {}), b)]
         ELSE IF k.buf[b].size = size
         THEN [g EXCEPT !.k = [k EXCEPT !.buf[b].blk = NULL, !.buf[b].cur = FALSE], !.save = b]
         ELSE [g EXCEPT !.k = [k EXCEPT !.buf[b] = NoBuf, !.room = @ + k.buf[b].size]]
  BY Zenon DEF TakeFree
<1>21. g.k = i
  OBVIOUS
<1> HIDE DEF i, b
<1>7. /\ Does(i, k, b, i.buf[b].flags \cup {"BUSY"}) /\ b \notin Freed(k)
      /\ Len(k.free) = Len(i.free) - 1 /\ k.io = i.io /\ k.want = i.want /\ k.ev = i.ev
  BY <1>2, <1>4, <1>5, NotavailDoes
<1> HIDE DEF k
<1>8. /\ k \in CacheType /\ NoDup(k.free) /\ NoDup(k.io) /\ b \notin Given(k)
      /\ k.buf[b].flags = i.buf[b].flags \cup {"BUSY"} /\ k.buf[b].size = i.buf[b].size
      /\ k.buf[b].blk = i.buf[b].blk /\ k.room = i.room
      /\ k.buf \in [Buffers -> Buf] /\ k.buf[b] \in Buf /\ k.buf[b].size \in Nat
  <2>1. /\ k \in CacheType /\ NoDup(k.free) /\ NoDup(k.io) /\ b \notin Given(k)
        /\ k.buf[b].flags = i.buf[b].flags \cup {"BUSY"} /\ k.buf[b].size = i.buf[b].size
        /\ k.buf[b].blk = i.buf[b].blk /\ k.room = i.room
    BY <1>6, <1>7 DEF Does, Touches, Given
  <2>2. k.buf \in [Buffers -> Buf] /\ k.buf[b] \in Buf
    BY <2>1, <1>4, CacheFields
  <2>3. QED
    BY <2>1, <2>2, BufFields
<1>9. "DELWRI" \in k.buf[b].flags <=> "DELWRI" \in i.buf[b].flags
  BY <1>8
<1>10. ASSUME NEW j, NEW save, save = NULL \/ save = b, j.free = k.free,
              LoopSound([g EXCEPT !.k = j, !.save = save]),
              TakeFree(g, size) = [g EXCEPT !.k = j, !.save = save]
       PROVE  LoopSound(TakeFree(g, size)) /\ Len(TakeFree(g, size).k.free) = Len(g.k.free) - 1
  <2>1. [g EXCEPT !.k = j, !.save = save].k = j
    BY <1>2, Zenon
  <2>2. QED
    BY <2>1, <1>7, <1>10, <1>21
<1>11. ASSUME NEW j PROVE [g EXCEPT !.k = j] = [g EXCEPT !.k = j, !.save = NULL]
  <2> DEFINE R == [k : {j}, save : {NULL}]
             x == [g EXCEPT !.k = j]
             y == [g EXCEPT !.k = j, !.save = NULL]
  <2>1. x \in R /\ y \in R
    BY <1>1, <1>2, Zenon
  <2> HIDE DEF x, y
  <2>2. x = [k |-> j, save |-> NULL] /\ y = [k |-> j, save |-> NULL]
    BY <2>1, Zenon
  <2>3. QED
    BY <2>2 DEF x, y
<1>12. CASE "DELWRI" \in k.buf[b].flags
  <2> DEFINE on == {"ASYNC", "AGE"}
             n == SetFlags(k, b, on, {})
             j == StartWrite(n, b)
             f2 == i.buf[b].flags \cup {"BUSY", "ASYNC", "AGE"}
  <2>1. TakeFree(g, size) = [g EXCEPT !.k = j, !.save = NULL]
    BY <1>11, <1>12, <1>20, Zenon
  <2>2. on \in SUBSET Flags /\ (k.buf[b].flags \ {}) \cup on = f2
    BY <1>8 DEF Flags
  <2> HIDE DEF on
  <2>3. Sets(k, n, b, on, {})
    BY <2>2, <1>4, <1>8, SetFlagsDoes
  <2> HIDE DEF n, f2
  <2>4. /\ Does(k, n, b, f2) /\ n.free = k.free /\ n.io = k.io /\ n.want = k.want /\ n.ev = k.ev
    BY <2>2, <2>3 DEF Sets
  <2>5. n \in CacheType /\ NoDup(n.free) /\ NoDup(n.io) /\ b \notin Given(n) /\ n.buf[b].flags = f2
    BY <2>4, <1>8 DEF Does, Touches, Given
  <2>6. /\ Does(n, j, b, WriteFlags(n.buf[b].flags)) /\ b \in Given(j)
        /\ j.free = n.free /\ j.want = n.want /\ j.ev = n.ev /\ j.io = Append(n.io, b)
    BY <2>5, <1>4, StartWriteDoes
  <2> HIDE DEF j
  <2>7. Does(i, j, b, WriteFlags(f2))
    <3>1. Does(i, n, b, f2)
      BY <2>4, <1>7, DoesTwice
    <3>2. QED
      BY <3>1, <2>5, <2>6, DoesTwice
  <2>8. BufferSound(WriteFlags(f2), i.buf[b].blk, i.buf[b].size, FALSE, TRUE, FALSE)
        /\ ("STALE" \in i.buf[b].flags => "STALE" \in WriteFlags(f2))
    BY <1>6, <1>9, <1>12 DEF BufferSound, WriteFlags, f2
  <2>9. /\ Touches(i, j, b) /\ j.ev = {} /\ j.room = i.room /\ j.buf[b].size = i.buf[b].size
        /\ j.buf[b].flags = WriteFlags(f2) /\ j.buf[b].blk = i.buf[b].blk /\ b \notin Freed(j)
    BY <2>4, <2>6, <2>7, <1>2, <1>7 DEF Does, Freed
  <2>10. b # NULL
    BY <1>4, NullNothing
  <2>11. BufferSound(j.buf[b].flags, j.buf[b].blk, j.buf[b].size, FALSE, b \in Given(j), NULL = b)
    BY <2>6, <2>8, <2>9, <2>10 DEF BufferSound
  <2>15. CohSound(j, disk)
    <3>1. j.io = Append(i.io, b) /\ "DELWRI" \in i.buf[b].flags
      BY <2>4, <2>6, <1>7, <1>9, <1>12
    <3>2. WriteFlags(f2) \cap {"READ", "DONE", "STALE"} = {}
      BY <3>1, <1>6 DEF BufferSound, WriteFlags, f2
    <3>3. QED
      BY <3>1, <3>2, <2>7, <1>3, <1>4, <1>6, <1>22, WriteCoherent
  <2>14. LoopSound([g EXCEPT !.k = j, !.save = NULL])
    BY <2>8, <2>9, <2>11, <2>15, <1>1, <1>4, <1>5, <1>21, TakenSound
  <2>12. j.free = k.free
    BY <2>4, <2>6
  <2>13. QED
    BY <2>1, <2>12, <2>14, <1>10
<1>13. CASE "DELWRI" \notin k.buf[b].flags /\ k.buf[b].size = size
  <2> DEFINE r == [k.buf[b] EXCEPT !.blk = NULL, !.cur = FALSE]
             m == [k.buf EXCEPT ![b] = r]
             j == [k EXCEPT !.buf[b].blk = NULL, !.buf[b].cur = FALSE]
  <2>1. TakeFree(g, size) = [g EXCEPT !.k = j, !.save = b]
    BY <1>13, <1>20, Zenon
  <2>2. j = [k EXCEPT !.buf = m]
    BY <1>4, <1>8, Zenon
  <2> HIDE DEF j
  <2>3. r \in Buf /\ r.flags = k.buf[b].flags /\ r.blk = NULL /\ r.size = k.buf[b].size /\ ~r.cur
    BY <1>8, Zenon DEF Buf
  <2> HIDE DEF r
  <2>4. m \in [Buffers -> Buf] /\ m[b] = r /\ \A c \in Buffers \ {b} : m[c] = k.buf[c]
    BY <2>3, <1>4, <1>8
  <2> HIDE DEF m
  <2>5. /\ j \in CacheType /\ j.buf = m /\ j.free = k.free /\ j.io = k.io
        /\ j.room = k.room /\ j.want = k.want /\ j.ev = k.ev
    BY <2>2, <2>4, <1>8, Zenon DEF CacheType
  <2>6. Touches(i, j, b)
    BY <2>4, <2>5, <1>7, <1>8 DEF Does, Touches, Freed, Given
  <2>7. /\ j.ev = {} /\ j.room = i.room /\ j.buf[b].size = i.buf[b].size /\ j.buf[b].blk = NULL
        /\ j.buf[b].flags = i.buf[b].flags \cup {"BUSY"} /\ b \notin Freed(j) /\ b \notin Given(j)
    BY <2>3, <2>4, <2>5, <1>2, <1>7, <1>8 DEF Freed, Given
  <2>8. BufferSound(j.buf[b].flags, j.buf[b].blk, j.buf[b].size, FALSE, b \in Given(j), b = b)
    BY <2>7, <1>6, <1>9, <1>13 DEF BufferSound
  <2>11. CohSound(j, disk)
    <3>1. /\ ~j.buf[b].cur /\ j.buf[b].blk = NULL /\ "DELWRI" \notin j.buf[b].flags
          /\ "DELWRI" \notin i.buf[b].flags /\ j.io = i.io
      BY <2>3, <2>4, <2>5, <1>7, <1>8, <1>9, <1>13
    <3>2. QED
      BY <3>1, <2>6, <1>3, <1>4, <1>6, LoseCoherent
  <2>9. LoopSound([g EXCEPT !.k = j, !.save = b])
    BY <2>6, <2>7, <2>8, <2>11, <1>1, <1>4, <1>5, <1>21, TakenSound
  <2>10. QED
    BY <2>1, <2>5, <2>9, <1>10
<1>14. CASE "DELWRI" \notin k.buf[b].flags /\ k.buf[b].size # size
  <2> DEFINE m == [k.buf EXCEPT ![b] = NoBuf]
             s == k.room + k.buf[b].size
             j == [k EXCEPT !.buf[b] = NoBuf, !.room = @ + k.buf[b].size]
  <2>1. TakeFree(g, size) = [g EXCEPT !.k = j, !.save = NULL]
    BY <1>11, <1>14, <1>20, Zenon
  <2>2. j = [k EXCEPT !.buf = m, !.room = s]
    BY <1>8, Zenon
  <2>3. NoBuf \in Buf /\ NoBuf.flags = {} /\ NoBuf.blk = NULL /\ NoBuf.size = 0 /\ ~NoBuf.cur /\ s \in Int /\ s >= 0
    <3>1. NoBuf \in Buf /\ NoBuf.flags = {} /\ NoBuf.blk = NULL /\ NoBuf.size = 0 /\ ~NoBuf.cur
      BY DEF NoBuf, Buf
    <3>2. s \in Int /\ s >= 0
      BY <1>5, <1>8
    <3>3. QED
      BY <3>1, <3>2
  <2> HIDE DEF j, s
  <2>4. m \in [Buffers -> Buf] /\ m[b] = NoBuf /\ \A c \in Buffers \ {b} : m[c] = k.buf[c]
    BY <2>3, <1>4, <1>8
  <2> HIDE DEF m
  <2>5. /\ j \in CacheType /\ j.buf = m /\ j.free = k.free /\ j.io = k.io
        /\ j.room = s /\ j.want = k.want /\ j.ev = k.ev
    BY <2>2, <2>3, <2>4, <1>8, Zenon DEF CacheType
  <2>6. Touches(i, j, b)
    BY <2>4, <2>5, <1>7, <1>8 DEF Does, Touches, Freed, Given
  <2>7. /\ j.ev = {} /\ j.room + j.buf[b].size = i.room + i.buf[b].size
        /\ j.buf[b].blk = NULL /\ j.buf[b].size = 0
        /\ j.buf[b].flags = {} /\ b \notin Freed(j) /\ b \notin Given(j)
    BY <2>3, <2>4, <2>5, <1>2, <1>5, <1>7, <1>8 DEF Freed, Given, s
  <2>8. b # NULL
    BY <1>4, NullNothing
  <2>9. BufferSound(j.buf[b].flags, j.buf[b].blk, j.buf[b].size, FALSE, b \in Given(j), NULL = b)
    BY <2>7, <2>8 DEF BufferSound
  <2>12. CohSound(j, disk)
    <3>1. /\ ~j.buf[b].cur /\ j.buf[b].blk = NULL /\ "DELWRI" \notin j.buf[b].flags
          /\ "DELWRI" \notin i.buf[b].flags /\ j.io = i.io
      BY <2>3, <2>4, <2>5, <2>7, <1>7, <1>9, <1>14
    <3>2. QED
      BY <3>1, <2>6, <1>3, <1>4, <1>6, LoseCoherent
  <2>10. LoopSound([g EXCEPT !.k = j, !.save = NULL])
    BY <2>3, <2>12, <2>5, <2>6, <2>7, <2>9, <1>1, <1>4, <1>21, TakenSound
  <2>11. QED
    BY <2>1, <2>5, <2>10, <1>10
<1>15. QED
  BY <1>12, <1>13, <1>14

\* The loop ends with enough, for it takes one buffer a time.
LEMMA ReclaimSound ==
    ASSUME BioInv, NEW size
    PROVE  LoopSound(Reclaim(size)) /\ Enough(Reclaim(size), size)
<1> DEFINE N == Cardinality(Buffers)
           f == TakeLoop(size)
           S == {n \in 0 .. N : LoopSound(f[n]) /\ (Enough(f[n], size) \/ Len(f[n].k.free) <= N - n)}
<1>1. N \in Nat
  BY Headers
<1>2. /\ Reclaim(size) = f[N]
      /\ f = [i \in 0 .. N |->
                IF i = 0 THEN [k |-> Cache, save |-> NULL]
                ELSE IF Enough(f[i - 1], size) THEN f[i - 1] ELSE TakeFree(f[i - 1], size)]
  BY TakeLoopIs
<1> HIDE DEF f
<1>12. /\ CacheSound(Cache, InUse) /\ Cache \in CacheType /\ NoDup(Cache.free) /\ Cache.ev = {}
       /\ Cache.free \in Seq(Buffers) /\ CohSound(Cache, disk)
  <2>1. CacheSound(Cache, InUse) /\ Cache.ev = {} /\ CohSound(Cache, disk)
    BY DEF BioInv, Cache
  <2>2. Cache \in CacheType /\ NoDup(Cache.free)
    BY <2>1 DEF CacheSound
  <2>3. QED
    BY <2>1, <2>2, CacheFields
<1>3. f[0] = [k |-> Cache, save |-> NULL]
  BY <1>1, <1>2
<1>4. LoopSound(f[0]) /\ Len(f[0].k.free) <= N
  <2>1. /\ f[0] \in [k : CacheType, save : Buffers \cup {NULL}] /\ f[0].k = Cache /\ f[0].save = NULL
    <3> DEFINE h == [k |-> Cache, save |-> NULL]
    <3>1. h \in [k : CacheType, save : Buffers \cup {NULL}] /\ h.k = Cache /\ h.save = NULL
      BY <1>12
    <3>2. f[0] = h
      BY <1>3
    <3> HIDE DEF h
    <3>3. QED
      BY <3>1, <3>2
  <2>2. InUse \cup Saved(f[0]) = InUse
    BY <2>1 DEF Saved
  <2>3. Len(Cache.free) <= N
    BY <1>12, ListLength
  <2>4. QED
    BY <2>1, <2>2, <2>3, <1>12, NoChange DEF LoopSound
<1>5. 0 \in S
  BY <1>1, <1>4
<1>6. ASSUME NEW n \in 1 .. N, n - 1 \in S PROVE n \in S
  <2> DEFINE g == f[n - 1]
  <2>1. f[n] = IF Enough(g, size) THEN g ELSE TakeFree(g, size)
    BY <1>2, <1>1
  <2>2. LoopSound(g) /\ (Enough(g, size) \/ Len(g.k.free) <= N - (n - 1))
    BY <1>6
  <2> HIDE DEF g
  <2>3. CASE Enough(g, size)
    BY <2>1, <2>2, <2>3, <1>1
  <2>4. CASE ~Enough(g, size)
    <3>1. f[n] = TakeFree(g, size)
      BY <2>1, <2>4
    <3>2. LoopSound(f[n]) /\ Len(f[n].k.free) = Len(g.k.free) - 1
      BY <3>1, <2>2, <2>4, TakeFreeSound
    <3>3. Len(g.k.free) \in Nat
      <4>1. g.k \in CacheType
        BY <2>2 DEF LoopSound
      <4>2. QED
        BY <4>1, CacheFields
    <3>4. Len(f[n].k.free) <= N - n
      BY <3>2, <3>3, <2>2, <2>4, <1>1
    <3>5. QED
      BY <3>2, <3>4
  <2>5. QED
    BY <2>3, <2>4
<1> HIDE DEF S, N
<1>7. \A n \in 0 .. N : n \in S
  BY <1>1, <1>5, <1>6, Induction
<1>8. N \in S
  BY <1>1, <1>7
<1>9. LoopSound(f[N]) /\ (Enough(f[N], size) \/ Len(f[N].k.free) <= 0)
  <2>1. N - N = 0
    BY <1>1
  <2>2. QED
    BY <2>1, <1>8 DEF S
<1>10. Len(f[N].k.free) <= 0 => f[N].k.free = <<>>
  <2>1. f[N].k \in CacheType
    BY <1>9 DEF LoopSound
  <2>2. f[N].k.free \in Seq(Buffers)
    BY <2>1, CacheFields
  <2>3. QED
    BY <2>2
<1>11. QED
  BY <1>2, <1>9, <1>10 DEF Enough

\* The locals with which getfreeblk() returns a buffer.
LEMMA NewPlace ==
    ASSUME BioInv, NEW p \in Procs, pc[p] = "getblk", loc[p].nbp = NULL, NEW b \in Buffers, b \notin InUse,
           NEW place \in {"getblk", "alloc"}, NEW k, k.buf[b].blk = NULL,
           \A c \in InUse : Keeps(Cache, k, c)
    PROVE  LET l == [loc[p] EXCEPT !.nbp = b]
           IN  /\ PlaceSound(k, place, l)
               /\ HeldBy(place, l) = HeldBy(pc[p], loc[p]) \cup {b}
<1> DEFINE l == [loc[p] EXCEPT !.nbp = b]
<1>1. LocalSound("getblk", loc[p]) /\ HandsSound(Cache, "getblk", loc[p]) /\ loc[p] \in Local
  BY AtHand
<1>2. /\ l \in Local /\ l.op = loc[p].op /\ l.blk = loc[p].blk /\ l.ra = loc[p].ra
      /\ l.bp = loc[p].bp /\ l.nbp = b /\ l.in = loc[p].in /\ l.chan = loc[p].chan
  BY <1>1, Zenon DEF Local
<1> HIDE DEF l
<1>3. b # NULL
  BY NullNothing
<1>4. HeldBy(place, l) = HeldBy(pc[p], loc[p]) \cup {b}
  BY <1>2, <1>3 DEF HeldBy
<1>5. loc[p].bp # NULL => loc[p].bp \in InUse
  BY AtHand DEF HeldBy
<1>6. LocalSound(place, l)
  BY <1>1, <1>2, <1>3, <1>5 DEF LocalSound, Getting
<1>7. HandsSound(k, place, l) /\ SleepSound(k, place, l)
  BY <1>1, <1>2, <1>5 DEF HandsSound, SleepSound, Keeps
<1>8. PlaceSound(k, place, l)
  BY <1>2, <1>6, <1>7 DEF PlaceSound, PC
<1>9. QED
  BY <1>4, <1>8 DEF l

\* There is a header for memory that is left.
LEMMA HeaderLeft ==
    ASSUME NEW k, NEW H, CacheSound(k, H), k.room > 0
    PROVE  \E c \in Buffers : k.buf[c].size = 0
<1>1. SUFFICES ASSUME \A c \in Buffers : k.buf[c].size # 0 PROVE FALSE
  OBVIOUS
<1>2. k \in CacheType /\ k.buf \in [Buffers -> Buf] /\ k.room \in Int
      /\ SumSizes(Sizes(k)) + k.room = bufhwm
  BY CacheFields DEF CacheSound
<1>3. \A c \in Buffers : k.buf[c].size \in Nat
  BY <1>2, BufFields
<1> DEFINE v == Sizes(k)
<1>4. v \in [Buffers -> Nat] /\ \A c \in Buffers : v[c] > 0
  BY <1>1, <1>3 DEF Sizes
<1> HIDE DEF v
<1>5. SumSizes(v) >= Cardinality(Buffers)
  BY <1>4, SumAtLeast
<1>7. SumSizes(v) + k.room = bufhwm
  BY <1>2 DEF v
<1>8. SumSizes(v) \in Nat
  BY <1>4, SumNat
<1>6. QED
  BY <1>2, <1>5, <1>7, <1>8, HeadersSuffice, RoomForOne, Headers

\* getfreeblk().
LEMMA GetfreeblkKeeps ==
    ASSUME BioInv, NEW p \in Procs, pc[p] = "getblk", loc[p].nbp = NULL, NEW size \in Nat \ {0},
           getfreeblk(p, size), UNCHANGED disk
    PROVE  BioInv'
<1> DEFINE g == Reclaim(size)
           k == g.k
<1>1. LoopSound(g) /\ Enough(g, size)
  BY ReclaimSound
<1>2. /\ k \in CacheType /\ CacheSound(k, InUse \cup Saved(g)) /\ g.save \in Buffers \cup {NULL}
      /\ g.save # NULL => g.save \notin InUse /\ k.buf[g.save].blk = NULL
      /\ Wakes(Cache, k) /\ \A c \in InUse : Keeps(Cache, k, c)
      /\ k.ev = {} /\ k.room \in Int /\ k.buf \in [Buffers -> Buf] /\ CohSound(k, disk)
  BY <1>1, CacheFields DEF LoopSound
<1>3. g.save = NULL /\ k.room < size => k.free = <<>>
  BY <1>1, <1>2 DEF Enough
<1>4. \/ /\ g.save # NULL
         /\ Go(p, k, "getblk", [loc[p] EXCEPT !.nbp = g.save])
      \/ /\ g.save = NULL /\ k.room < size
         /\ Go(p, [k EXCEPT !.want = TRUE], "asleep:free", [loc[p] EXCEPT !.chan = NULL])
      \/ /\ g.save = NULL /\ k.room >= size
         /\ LET b == CHOOSE c \in Buffers : k.buf[c].size = 0
            IN  Go(p, [k EXCEPT !.room = @ - size, !.buf[b].size = size], "alloc",
                   [loc[p] EXCEPT !.nbp = b])
  BY DEF getfreeblk, Sleep
<1> HIDE DEF g
<1>14. Saved(g) = {g.save} \ {NULL}
  BY DEF Saved
<1> HIDE DEF k
<1>5. InUse = Others(p) \cup HeldBy(pc[p], loc[p]) /\ Others(p) \cap HeldBy(pc[p], loc[p]) = {}
      /\ disk' \in [Blocks -> BOOLEAN] /\ InUse \subseteq Buffers
  BY AtHand
<1>6. ASSUME NEW j, NEW b \in Buffers, b \notin InUse, j.buf[b].blk = NULL, NEW place \in {"getblk", "alloc"},
             Go(p, j, place, [loc[p] EXCEPT !.nbp = b]), CacheSound(j, InUse \cup {b}),
             Wakes(Cache, j), \A c \in InUse : Keeps(Cache, j, c), CohSound(j, disk)
      PROVE  BioInv'
  <2> DEFINE l == [loc[p] EXCEPT !.nbp = b]
  <2>1. PlaceSound(j, place, l) /\ HeldBy(place, l) = HeldBy(pc[p], loc[p]) \cup {b}
    BY <1>6, NewPlace
  <2>2. Go(p, j, place, l)
    BY <1>6
  <2> HIDE DEF l
  <2>3. CacheSound(j, Others(p) \cup HeldBy(place, l)) /\ HeldBy(place, l) \cap Others(p) = {}
    <3>1. Others(p) \cup HeldBy(place, l) = InUse \cup {b}
      BY <2>1, <1>5
    <3>2. QED
      BY <3>1, <2>1, <1>5, <1>6
  <2>4. \A c \in Others(p) : Keeps(Cache, j, c)
    BY <1>5, <1>6
  <2>5. CohSound(j, disk')
    BY <1>6
  <2>6. QED
    BY <2>1, <2>2, <2>3, <2>4, <2>5, <1>5, <1>6, GoKeeps
<1>7. CASE g.save # NULL /\ Go(p, k, "getblk", [loc[p] EXCEPT !.nbp = g.save])
  <2>1. g.save \in Buffers /\ InUse \cup Saved(g) = InUse \cup {g.save}
    BY <1>2, <1>7, <1>14
  <2>2. QED
    BY <2>1, <1>2, <1>6, <1>7
<1>8. CASE /\ g.save = NULL /\ k.room < size
           /\ Go(p, [k EXCEPT !.want = TRUE], "asleep:free", [loc[p] EXCEPT !.chan = NULL])
  <2> DEFINE j == [k EXCEPT !.want = TRUE]
             l == [loc[p] EXCEPT !.chan = NULL]
  <2>1. /\ j \in CacheType /\ j.buf = k.buf /\ j.free = k.free /\ j.io = k.io /\ j.room = k.room
        /\ j.want = TRUE /\ j.ev = k.ev
    BY <1>2, Zenon DEF CacheType
  <2>2. Go(p, j, "asleep:free", l)
    BY <1>8
  <2> HIDE DEF j
  <2>3. LocalSound("getblk", loc[p]) /\ HandsSound(Cache, "getblk", loc[p]) /\ loc[p] \in Local
    BY AtHand
  <2>4. /\ l \in Local /\ l.op = loc[p].op /\ l.blk = loc[p].blk /\ l.ra = loc[p].ra
        /\ l.bp = loc[p].bp /\ l.nbp = NULL /\ l.in = loc[p].in /\ l.chan = NULL
    BY <2>3, Zenon DEF Local
  <2> HIDE DEF l
  <2>5. HeldBy("asleep:free", l) = HeldBy(pc[p], loc[p])
    BY <2>4 DEF HeldBy
  <2>6. InUse \cup Saved(g) = InUse
    BY <1>8, <1>14
  <2>7. CacheSound(k, InUse)
    BY <2>6, <1>2
  <2>8. CacheSound(j, InUse)
    BY <2>1, <2>7 DEF CacheSound, SoundAt, OneEach, Sizes, Freed, Given
  <2>9. Wakes(k, j) /\ \A c : Keeps(k, j, c)
    BY <2>1 DEF Wakes, Keeps, Started, Given
  <2>10. Wakes(Cache, j)
    BY <2>9, <1>2, WakesTwice
  <2>11. ASSUME NEW c \in InUse PROVE Keeps(Cache, j, c)
    BY <2>9, <1>2, KeepsTwice
  <2>12. loc[p].bp # NULL => loc[p].bp \in InUse
    BY <1>5 DEF HeldBy
  <2>13. /\ LocalSound("asleep:free", l) /\ HandsSound(j, "asleep:free", l)
    BY <2>3, <2>4, <2>11, <2>12 DEF LocalSound, HandsSound, Getting, Keeps
  <2>14. SleepSound(j, "asleep:free", l)
    BY <2>1, <1>3, <1>8 DEF SleepSound
  <2>15. PlaceSound(j, "asleep:free", l)
    BY <2>4, <2>13, <2>14 DEF PlaceSound, PC, Asleep
  <2>16. CacheSound(j, Others(p) \cup HeldBy("asleep:free", l)) /\ HeldBy("asleep:free", l) \cap Others(p) = {}
    BY <2>5, <2>8, <1>5
  <2>17. \A c \in Others(p) : Keeps(Cache, j, c)
    BY <2>11, <1>5
  <2>18. CohSound(j, disk')
    <3>1. CohSound(j, disk)
      BY <2>1, <1>2 DEF CohSound, LastKept, InOrder, DirtyOnly, Covered, Dirty, Given
    <3>2. QED
      BY <3>1
  <2>19. QED
    BY <2>2, <2>10, <2>15, <2>16, <2>17, <2>18, <1>5, GoKeeps
<1>9. CASE /\ g.save = NULL /\ k.room >= size
           /\ LET b == CHOOSE c \in Buffers : k.buf[c].size = 0
              IN  Go(p, [k EXCEPT !.room = @ - size, !.buf[b].size = size], "alloc",
                     [loc[p] EXCEPT !.nbp = b])
  <2> DEFINE b == CHOOSE c \in Buffers : k.buf[c].size = 0
             r == [k.buf[b] EXCEPT !.size = size]
             m == [k.buf EXCEPT ![b] = r]
             s == k.room - size
             j == [k EXCEPT !.room = @ - size, !.buf[b].size = size]
  <2>1. InUse \cup Saved(g) = InUse
    BY <1>9, <1>14
  <2>2. CacheSound(k, InUse)
    BY <2>1, <1>2
  <2>3. k.room > 0
    BY <1>2, <1>9
  <2>4. b \in Buffers /\ k.buf[b].size = 0
    <3>1. \E c \in Buffers : k.buf[c].size = 0
      BY <2>2, <2>3, HeaderLeft
    <3>2. QED
      BY <3>1
  <2>5. Go(p, j, "alloc", [loc[p] EXCEPT !.nbp = b])
    BY <1>9
  <2>6. j = [k EXCEPT !.room = s, !.buf = m]
    BY <1>2, Zenon
  <2>18. s \in Int /\ s >= 0 /\ s + size = k.room
    BY <1>2, <1>9
  <2> HIDE DEF b, j, s
  <2>7. /\ b \notin InUse /\ b \notin Freed(k) /\ b \notin Given(k) /\ k.buf[b].flags = {}
        /\ k.buf[b].blk = NULL
    <3>1. SoundAt(k, InUse, b)
      BY <2>2, <2>4 DEF CacheSound
    <3>2. QED
      BY <3>1, <2>4 DEF SoundAt, BufferSound
  <2>8. r \in Buf /\ r.flags = k.buf[b].flags /\ r.blk = k.buf[b].blk /\ r.size = size
        /\ r.cur = k.buf[b].cur
    <3>1. k.buf[b] \in Buf /\ size \in Nat
      BY <2>4, <1>2
    <3>2. QED
      BY <3>1, Zenon DEF Buf
  <2> HIDE DEF r
  <2>9. m \in [Buffers -> Buf] /\ m[b] = r /\ \A c \in Buffers \ {b} : m[c] = k.buf[c]
    BY <2>4, <2>8, <1>2
  <2> HIDE DEF m
  <2>10. /\ j \in CacheType /\ j.buf = m /\ j.free = k.free /\ j.io = k.io
         /\ j.room = s /\ j.want = k.want /\ j.ev = k.ev
    BY <2>6, <2>9, <2>18, <1>2, Zenon DEF CacheType
  <2>11. Touches(k, j, b)
    BY <2>2, <2>9, <2>10 DEF Touches, Freed, Given, CacheSound
  <2>12. /\ j.room >= 0 /\ j.room + j.buf[b].size = k.room + k.buf[b].size /\ j.buf[b].blk = NULL
         /\ j.buf[b].flags = {} /\ j.buf[b].size = size /\ b \notin Freed(j) /\ b \notin Given(j)
    BY <2>4, <2>7, <2>8, <2>9, <2>10, <2>18, <1>2 DEF Freed, Given
  <2> DEFINE G == InUse \cup {b}
  <2>13. G \subseteq Buffers /\ b \in G /\ \A c \in Buffers \ {b} : c \in G <=> c \in InUse
    BY <2>4, <1>5
  <2> HIDE DEF G
  <2>14. SoundAt(j, G, b)
    BY <2>12, <2>13 DEF SoundAt, BufferSound
  <2>15. CacheSound(j, G)
    BY <2>2, <2>4, <2>11, <2>12, <2>13, <2>14, TouchSound
  <2>16. Wakes(Cache, j)
    <3>1. Wakes(k, j)
      BY <2>7, <2>10, <2>11 DEF Wakes, Touches
    <3>2. QED
      BY <3>1, <1>2, WakesTwice
  <2>17. ASSUME NEW c \in InUse PROVE Keeps(Cache, j, c)
    <3>1. c \in Buffers \ {b}
      BY <2>7, <1>5
    <3>2. Keeps(k, j, c)
      BY <3>1, <2>11, TouchKeeps
    <3>3. QED
      BY <3>2, <1>2, KeepsTwice
  <2>19. CacheSound(j, InUse \cup {b})
    BY <2>15 DEF G
  <2>20. CohSound(j, disk)
    <3>1. \A c \in Buffers : /\ j.buf[c].flags = k.buf[c].flags /\ j.buf[c].blk = k.buf[c].blk
                            /\ j.buf[c].cur = k.buf[c].cur
      BY <2>8, <2>9, <2>10
    <3>2. Calm(k, j)
      BY <3>1, <2>10 DEF Calm, Tame
    <3>3. QED
      BY <3>2, <1>2, CalmCoherent
  <2>21. QED
    BY <2>4, <2>5, <2>7, <2>12, <2>16, <2>17, <2>19, <2>20, <1>6
<1>10. QED
  BY <1>4, <1>7, <1>8, <1>9

LEMMA GetblkFreeKeeps ==
    ASSUME BioInv, NEW p \in Procs, GetblkFree(p)
    PROVE  BioInv'
<1>1. /\ pc[p] = "getblk" /\ loc[p].op # "ngeteblk" /\ loc[p].nbp = NULL
      /\ getfreeblk(p, Size[Target(p)]) /\ UNCHANGED disk
  BY DEF GetblkFree
<1>2. Size[Target(p)] \in Nat \ {0}
  BY <1>1, TargetBlock, SizePositive
<1>3. QED
  BY <1>1, <1>2, GetfreeblkKeeps

LEMMA NgeteblkFreeKeeps ==
    ASSUME BioInv, NEW p \in Procs, NgeteblkFree(p)
    PROVE  BioInv'
  BY SizePositive, GetfreeblkKeeps DEF NgeteblkFree

(***************************************************************************)
(* Flushing.                                                               *)
(***************************************************************************)

\* What a write that nobody waits for does to a free buffer.
Writes(k, j, b, H) ==
    /\ CacheSound(j, H) /\ Touches(k, j, b) /\ Wakes(k, j) /\ \A c \in H : Keeps(k, j, c)
    /\ b \notin Freed(j) /\ "DELWRI" \notin j.buf[b].flags /\ j.ev = k.ev
    /\ \A d \in [Blocks -> BOOLEAN] : CohSound(k, d) => CohSound(j, d)

LEMMA WriteAsyncSound ==
    ASSUME NEW k, NEW H, CacheSound(k, H), NEW b \in Freed(k), "DELWRI" \in k.buf[b].flags
    PROVE  Writes(k, WriteAsync(k, b), b, H)
<1> DEFINE i == SetFlags(k, b, {"ASYNC"}, {})
           m == notavail(i, b)
           j == StartWrite(m, b)
           fl == WriteFlags(k.buf[b].flags \cup {"ASYNC", "BUSY"})
<1>1. k \in CacheType /\ NoDup(k.free) /\ NoDup(k.io) /\ H \subseteq Buffers /\ k.free \in Seq(Buffers)
  BY CacheFields DEF CacheSound
<1>2. b \in Buffers /\ k.free # <<>>
  BY <1>1 DEF Freed, OnList
<1>3. SoundAt(k, H, b)
  BY <1>2 DEF CacheSound
<1>4. /\ BufferSound(k.buf[b].flags, k.buf[b].blk, k.buf[b].size, TRUE, FALSE, FALSE)
      /\ b \notin Given(k) /\ b \notin H
  BY <1>3 DEF SoundAt, BufferSound
<1>5. WriteAsync(k, b) = j
  BY DEF WriteAsync
<1>6. Sets(k, i, b, {"ASYNC"}, {})
  BY <1>1, <1>2, SetFlagsDoes DEF Flags
<1> HIDE DEF i
<1>7. /\ Does(k, i, b, (k.buf[b].flags \ {}) \cup {"ASYNC"}) /\ i.free = k.free /\ i.io = k.io
      /\ i.want = k.want /\ i.ev = k.ev
  BY <1>6 DEF Sets
<1>8. /\ i \in CacheType /\ NoDup(i.free) /\ NoDup(i.io) /\ b \in Freed(i)
      /\ i.buf[b].flags = k.buf[b].flags \cup {"ASYNC"}
  BY <1>7 DEF Does, Touches, Freed
<1>9. /\ Does(i, m, b, i.buf[b].flags \cup {"BUSY"}) /\ b \notin Freed(m)
      /\ m.io = i.io /\ m.want = i.want /\ m.ev = i.ev
  BY <1>8, NotavailDoes
<1> HIDE DEF m
<1>10. /\ m \in CacheType /\ NoDup(m.free) /\ NoDup(m.io) /\ b \notin Given(m)
       /\ m.buf[b].flags = k.buf[b].flags \cup {"ASYNC", "BUSY"}
  BY <1>4, <1>7, <1>8, <1>9 DEF Does, Touches, Given
<1>11. /\ Does(m, j, b, WriteFlags(m.buf[b].flags)) /\ b \in Given(j) /\ j.free = m.free
       /\ j.want = m.want /\ j.ev = m.ev /\ j.io = Append(m.io, b)
  BY <1>2, <1>10, StartWriteDoes
<1> HIDE DEF j
<1>12. Does(k, j, b, fl)
  <2>1. Does(k, m, b, i.buf[b].flags \cup {"BUSY"})
    BY <1>7, <1>9, DoesTwice
  <2>2. WriteFlags(m.buf[b].flags) = fl
    BY <1>10
  <2>3. QED
    BY <2>1, <2>2, <1>11, DoesTwice
<1>13. b \notin Freed(j) /\ j.ev = k.ev
  BY <1>7, <1>9, <1>11 DEF Freed
<1>14. BufferSound(fl, k.buf[b].blk, k.buf[b].size, b \in Freed(j), b \in Given(j), b \in H)
       /\ ("STALE" \in k.buf[b].flags => "STALE" \in fl)
       /\ "DELWRI" \notin fl /\ "WANTED" \notin k.buf[b].flags
  BY <1>4, <1>11, <1>13 DEF BufferSound, WriteFlags
<1>20. fl \cap {"READ", "DONE", "STALE"} = {}
  BY <1>4 DEF BufferSound, WriteFlags
<1> HIDE DEF fl
<1>21. ASSUME NEW d \in [Blocks -> BOOLEAN], CohSound(k, d) PROVE CohSound(j, d)
  <2>1. j.io = Append(k.io, b)
    BY <1>7, <1>9, <1>11
  <2>2. QED
    BY <2>1, <1>2, <1>4, <1>12, <1>20, <1>21, WriteCoherent
<1>15. CacheSound(j, H)
  BY <1>1, <1>2, <1>12, <1>14, DoesSound
<1>16. Wakes(k, j)
  BY <1>2, <1>12, <1>13, <1>14, DoesWakes
<1>17. Touches(k, j, b) /\ j.buf[b].flags = fl
  BY <1>12 DEF Does
<1>18. \A c \in H : Keeps(k, j, c)
  BY <1>1, <1>4, <1>17, TouchKeeps
<1>19. QED
  BY <1>5, <1>13, <1>14, <1>15, <1>16, <1>17, <1>18, <1>21 DEF Writes

\* Without wakeups everyone stays where it is.
LEMMA NobodyWoken ==
    ASSUME BioInv
    PROVE  wakeprocs({}) = pc /\ NoChan({}) = loc
<1>1. pc \in [Procs -> PC] /\ loc \in [Procs -> Local]
  BY DEF BioInv
<1>2. Woken({}) = {}
  BY DEF Woken
<1>3. wakeprocs({}) = [p \in Procs |-> pc[p]] /\ NoChan({}) = [p \in Procs |-> loc[p]]
  BY <1>2 DEF wakeprocs, NoChan
<1>4. QED
  BY <1>1, <1>3

LEMMA FsflushKeeps ==
    ASSUME BioInv, Fsflush
    PROVE  BioInv'
<1>1. PICK i \in DOMAIN free : Has(free[i], "DELWRI") /\ Commit(WriteAsync(Cache, free[i]))
  BY DEF Fsflush
<1> DEFINE b == free[i]
           k == WriteAsync(Cache, b)
<1>2. CacheSound(Cache, InUse) /\ Cache.free = free /\ Cache.buf = buf /\ Cache.ev = {}
      /\ disk \in [Blocks -> BOOLEAN] /\ CohSound(Cache, disk)
  BY DEF BioInv, Cache
<1>3. b \in Freed(Cache) /\ "DELWRI" \in Cache.buf[b].flags /\ Commit(k)
  BY <1>1, <1>2 DEF Freed, OnList, Has
<1> HIDE DEF b
<1>4. Writes(Cache, k, b, InUse)
  BY <1>2, <1>3, WriteAsyncSound
<1> HIDE DEF k
<1>5. /\ CacheSound(k, InUse) /\ Wakes(Cache, k) /\ \A c \in InUse : Keeps(Cache, k, c)
      /\ k.ev = {} /\ CohSound(k, disk)
  BY <1>2, <1>4 DEF Writes
<1>6. pc' = wakeprocs(k.ev) /\ loc' = NoChan(k.ev) /\ UNCHANGED onproc /\ disk' \in [Blocks -> BOOLEAN]
  BY <1>2, <1>5, NobodyWoken DEF Fsflush
<1>7. CohSound(k, disk')
  BY <1>5 DEF Fsflush
<1>8. QED
  BY <1>3, <1>5, <1>6, <1>7, InterruptKeeps

\* bflush() leaves no delayed write on the free list.
LEMMA BflushSound ==
    ASSUME NEW k, NEW H, CacheSound(k, H), NEW d \in [Blocks -> BOOLEAN], CohSound(k, d)
    PROVE  /\ CacheSound(bflush(k), H) /\ Wakes(k, bflush(k))
           /\ bflush(k).ev = k.ev /\ CohSound(bflush(k), d)
           /\ \A b \in Freed(bflush(k)) : "DELWRI" \notin bflush(k).buf[b].flags
<1> DEFINE N == Len(k.free)
           f == FlushLoop(k)
           Good(g, n) ==
             /\ CacheSound(g, H) /\ Wakes(k, g) /\ g.ev = k.ev /\ CohSound(g, d)
             /\ Freed(g) \subseteq Freed(k)
             /\ \A m \in 1 .. N : m > n => /\ k.free[m] \in Freed(g)
                                           /\ g.buf[k.free[m]] = k.buf[k.free[m]]
             /\ \A m \in 1 .. N : m <= n => "DELWRI" \notin g.buf[k.free[m]].flags
           S == {n \in 0 .. N : Good(f[n], n)}
<1>1. k \in CacheType /\ k.free \in Seq(Buffers) /\ NoDup(k.free)
  BY CacheFields DEF CacheSound
<1>2. N \in Nat /\ DOMAIN k.free = 1 .. N
  BY <1>1
<1>3. /\ bflush(k) = f[N]
      /\ f = [i \in 0 .. N |->
                IF i = 0 THEN k
                ELSE IF "DELWRI" \in k.buf[k.free[i]].flags THEN WriteAsync(f[i - 1], k.free[i])
                ELSE f[i - 1]]
  BY <1>1, FlushLoopIs
<1> HIDE DEF f, N
<1>4. f[0] = k
  BY <1>2, <1>3
<1>5. Freed(k) = {k.free[m] : m \in 1 .. N}
  BY <1>2 DEF Freed, OnList
<1>6. 0 \in S
  <2>1. Good(k, 0)
    BY <1>2, <1>5, NoChange
  <2>2. QED
    BY <2>1, <1>2, <1>4
<1>7. ASSUME NEW n \in 1 .. N, n - 1 \in S PROVE n \in S
  <2> DEFINE g == f[n - 1]
             b == k.free[n]
  <2>1. f[n] = IF "DELWRI" \in k.buf[b].flags THEN WriteAsync(g, b) ELSE g
    BY <1>2, <1>3
  <2>2. Good(g, n - 1)
    BY <1>7
  <2> HIDE DEF g
  <2>3. /\ CacheSound(g, H) /\ Wakes(k, g) /\ g.ev = k.ev /\ CohSound(g, d) /\ Freed(g) \subseteq Freed(k)
        /\ b \in Freed(g) /\ g.buf[b] = k.buf[b]
    BY <2>2, <1>2
  <2>4. \A m \in 1 .. N : m # n => k.free[m] # b
    BY <1>1, <1>2 DEF NoDup
  <2>5. \A m \in 1 .. N : k.free[m] \in Buffers
    BY <1>1, <1>2
  <2>6. Good(f[n], n)
    <3>1. CASE "DELWRI" \in k.buf[b].flags
      <4> DEFINE j == WriteAsync(g, b)
      <4>1. f[n] = j
        BY <2>1, <3>1
      <4>2. Writes(g, j, b, H)
        BY <2>3, <3>1, WriteAsyncSound
      <4> HIDE DEF j
      <4>3. /\ CacheSound(j, H) /\ Touches(g, j, b) /\ Wakes(g, j) /\ j.ev = k.ev
            /\ b \notin Freed(j) /\ "DELWRI" \notin j.buf[b].flags /\ CohSound(j, d)
        BY <4>2, <2>3 DEF Writes
      <4>4. Wakes(k, j)
        BY <4>3, <2>3, WakesTwice
      <4>5. Freed(j) \subseteq Freed(k)
        <5>1. Freed(j) \subseteq Buffers
          <6>1. j.free \in Seq(Buffers)
            BY <4>3, CacheFields DEF CacheSound
          <6>2. QED
            BY <6>1 DEF Freed, OnList
        <5>2. QED
          BY <5>1, <4>3, <2>3 DEF Touches
      <4>6. ASSUME NEW m \in 1 .. N, m # n
            PROVE  /\ j.buf[k.free[m]] = g.buf[k.free[m]]
                   /\ k.free[m] \in Freed(j) <=> k.free[m] \in Freed(g)
        BY <4>3, <4>6, <2>4, <2>5 DEF Touches
      <4>7. ASSUME NEW m \in 1 .. N, m > n
            PROVE  k.free[m] \in Freed(j) /\ j.buf[k.free[m]] = k.buf[k.free[m]]
        BY <4>6, <4>7, <2>2, <1>2
      <4>8. ASSUME NEW m \in 1 .. N, m <= n
            PROVE  "DELWRI" \notin j.buf[k.free[m]].flags
        <5>1. CASE m = n
          BY <5>1, <4>3
        <5>2. CASE m # n
          BY <5>2, <4>6, <4>8, <2>2, <1>2
        <5>3. QED
          BY <5>1, <5>2
      <4>9. QED
        BY <4>1, <4>3, <4>4, <4>5, <4>7, <4>8
    <3>2. CASE "DELWRI" \notin k.buf[b].flags
      <4>1. f[n] = g
        BY <2>1, <3>2
      <4>2. ASSUME NEW m \in 1 .. N, m <= n PROVE "DELWRI" \notin g.buf[k.free[m]].flags
        <5>1. CASE m = n
          BY <5>1, <3>2, <2>3
        <5>2. CASE m # n
          BY <5>2, <4>2, <2>2, <1>2
        <5>3. QED
          BY <5>1, <5>2
      <4>3. QED
        BY <4>1, <4>2, <2>2, <1>2
    <3>3. QED
      BY <3>1, <3>2
  <2>7. QED
    BY <2>6, <1>2
<1> HIDE DEF S
<1>8. \A n \in 0 .. N : n \in S
  BY <1>2, <1>6, <1>7, Induction
<1>9. Good(f[N], N)
  BY <1>2, <1>8 DEF S
<1>10. ASSUME NEW b \in Freed(f[N]) PROVE "DELWRI" \notin f[N].buf[b].flags
  <2>1. PICK m \in 1 .. N : b = k.free[m]
    BY <1>5, <1>9, <1>10
  <2>2. QED
    BY <2>1, <1>2, <1>9
<1>11. QED
  BY <1>3, <1>9, <1>10

\* binval() makes the buffers stale, when nobody has one and none is dirty.
LEMMA BinvalSound ==
    ASSUME NEW k, CacheSound(k, {}), \A b \in Freed(k) : "DELWRI" \notin k.buf[b].flags
    PROVE  /\ CacheSound(binval(k), {}) /\ Wakes(k, binval(k)) /\ binval(k).ev = k.ev
           /\ \A d : CohSound(k, d) => CohSound(binval(k), d)
<1> DEFINE m == [b \in Buffers |-> IF k.buf[b].blk = NULL THEN k.buf[b]
                                   ELSE [k.buf[b] EXCEPT !.flags = @ \cup {"STALE", "AGE"}]]
           j == [k EXCEPT !.buf = m]
<1>1. k \in CacheType /\ k.buf \in [Buffers -> Buf]
  BY CacheFields DEF CacheSound
<1>2. binval(k) = j
  BY Zenon DEF binval
<1>3. ASSUME NEW b \in Buffers
      PROVE  /\ m[b] \in Buf /\ m[b].blk = k.buf[b].blk /\ m[b].size = k.buf[b].size
             /\ m[b].cur = k.buf[b].cur
             /\ m[b].flags = IF k.buf[b].blk = NULL THEN k.buf[b].flags
                             ELSE k.buf[b].flags \cup {"STALE", "AGE"}
  <2>1. k.buf[b] \in Buf
    BY <1>1
  <2>2. CASE k.buf[b].blk = NULL
    BY <2>1, <2>2
  <2>3. CASE k.buf[b].blk # NULL
    <3> DEFINE fl == k.buf[b].flags \cup {"STALE", "AGE"}
    <3>1. fl \in SUBSET Flags
      BY <2>1, BufFields DEF Flags
    <3>2. m[b] = [k.buf[b] EXCEPT !.flags = fl]
      BY <2>3
    <3> HIDE DEF m, fl
    <3>3. m[b] \in Buf /\ m[b].blk = k.buf[b].blk /\ m[b].size = k.buf[b].size /\ m[b].flags = fl
          /\ m[b].cur = k.buf[b].cur
      BY <2>1, <3>1, <3>2, Zenon DEF Buf
    <3>4. QED
      BY <3>3, <2>3 DEF fl
  <2>4. QED
    BY <2>2, <2>3
<1>4. m \in [Buffers -> Buf]
  <2>1. m = [b \in Buffers |-> m[b]]
    OBVIOUS
  <2> HIDE DEF m
  <2>2. QED
    BY <2>1, <1>3
<1> HIDE DEF m
<1>5. /\ j \in CacheType /\ j.buf = m /\ j.free = k.free /\ j.io = k.io /\ j.room = k.room
      /\ j.want = k.want /\ j.ev = k.ev
  BY <1>1, <1>4, Zenon DEF CacheType
<1> HIDE DEF j
<1>6. ASSUME NEW b \in Buffers PROVE SoundAt(j, {}, b)
  <2>1. SoundAt(k, {}, b)
    BY DEF CacheSound
  <2>2. b \in Freed(j) <=> b \in Freed(k)
    BY <1>5 DEF Freed
  <2>3. b \in Given(j) <=> b \in Given(k)
    BY <1>5 DEF Given
  <2>4. "DELWRI" \notin k.buf[b].flags
    BY <2>1 DEF SoundAt, BufferSound
  <2>5. j.buf[b].blk = k.buf[b].blk /\ j.buf[b].size = k.buf[b].size
    BY <1>3, <1>5
  <2>6. CASE k.buf[b].blk = NULL
    <3>1. j.buf[b].flags = k.buf[b].flags
      BY <2>6, <1>3, <1>5
    <3>2. QED
      BY <3>1, <2>1, <2>2, <2>3, <2>5 DEF SoundAt
  <2>7. CASE k.buf[b].blk # NULL
    <3>1. j.buf[b].flags = k.buf[b].flags \cup {"STALE", "AGE"}
      BY <2>7, <1>3, <1>5
    <3>2. QED
      BY <3>1, <2>1, <2>2, <2>3, <2>4, <2>5, <2>7 DEF SoundAt, BufferSound
  <2>8. QED
    BY <2>6, <2>7
<1>7. OneEach(j)
  BY <1>3, <1>5 DEF OneEach
<1>8. Sizes(j) = Sizes(k)
  BY <1>3, <1>5 DEF Sizes
<1>9. Wakes(k, j)
  <2>1. ASSUME NEW b \in Buffers, NEW f \in {"WANTED", "BUSY", "DONE"}
        PROVE  f \in j.buf[b].flags <=> f \in k.buf[b].flags
    <3>1. CASE k.buf[b].blk = NULL
      BY <3>1, <1>3, <1>5
    <3>2. CASE k.buf[b].blk # NULL
      BY <3>2, <1>3, <1>5
    <3>3. QED
      BY <3>1, <3>2
  <2>2. QED
    BY <2>1, <1>5 DEF Wakes
<1>11. Calm(k, j)
  <2>1. ASSUME NEW b \in Buffers
        PROVE  /\ j.buf[b].blk = k.buf[b].blk /\ j.buf[b].cur = k.buf[b].cur
               /\ Tame(k.buf[b].flags, j.buf[b].flags)
    <3>1. \/ j.buf[b].flags = k.buf[b].flags
          \/ j.buf[b].flags = k.buf[b].flags \cup {"STALE", "AGE"}
      BY <1>3, <1>5
    <3>2. Tame(k.buf[b].flags, j.buf[b].flags)
      BY <3>1 DEF Tame
    <3>3. QED
      BY <3>2, <1>3, <1>5
  <2>2. QED
    BY <2>1, <1>5 DEF Calm
<1>12. \A d : CohSound(k, d) => CohSound(j, d)
  BY <1>1, <1>11, CalmCoherent
<1>10. QED
  BY <1>2, <1>5, <1>6, <1>7, <1>8, <1>9, <1>12 DEF CacheSound

LEMMA LastCloseKeeps ==
    ASSUME BioInv, LastClose
    PROVE  BioInv'
<1> DEFINE i == bflush(Cache)
           k == binval(i)
<1>1. Commit(k) /\ (\A p \in Procs : pc[p] = "user") /\ UNCHANGED <<pc, loc, onproc, disk>>
  BY DEF LastClose
<1>2. InUse = {}
  <2>1. ASSUME NEW p \in Procs PROVE HeldBy(pc[p], loc[p]) = {}
    BY <1>1, AtHand, UserEmpty
  <2>2. QED
    BY <2>1 DEF InUse
<1>3. CacheSound(Cache, {}) /\ Cache.ev = {} /\ disk \in [Blocks -> BOOLEAN] /\ CohSound(Cache, disk)
  BY <1>2 DEF BioInv, Cache
<1>4. /\ CacheSound(i, {}) /\ Wakes(Cache, i) /\ i.ev = {} /\ CohSound(i, disk)
      /\ \A b \in Freed(i) : "DELWRI" \notin i.buf[b].flags
  BY <1>3, BflushSound
<1> HIDE DEF i
<1>5. CacheSound(k, {}) /\ Wakes(i, k) /\ k.ev = {} /\ CohSound(k, disk)
  BY <1>4, BinvalSound
<1> HIDE DEF k
<1>6. Wakes(Cache, k)
  BY <1>4, <1>5, WakesTwice
<1>7. /\ pc' = wakeprocs(k.ev) /\ loc' = NoChan(k.ev) /\ UNCHANGED onproc /\ disk' \in [Blocks -> BOOLEAN]
      /\ CacheSound(k, InUse) /\ \A c \in InUse : Keeps(Cache, k, c)
  BY <1>1, <1>2, <1>3, <1>5, NobodyWoken
<1>8. CohSound(k, disk')
  BY <1>1, <1>5
<1>9. QED
  BY <1>1, <1>6, <1>7, <1>8, InterruptKeeps

(***************************************************************************)
(* Interrupts.                                                             *)
(***************************************************************************)

\* What biodone() keeps.
LEMMA BiodoneSound ==
    ASSUME NEW k, NEW H, CacheSound(k, H), NEW b \in Given(k), k.ev = {}
    PROVE  LET j == biodone(k, b)
           IN  CacheSound(j, H) /\ Wakes(k, j) /\ \A c \in H : Keeps(k, j, c)
<1> DEFINE j == biodone(k, b)
           fl == DoneFlags(k.buf[b].flags)
<1>1. /\ k \in CacheType /\ NoDup(k.free) /\ NoDup(k.io) /\ k.io \in Seq(Buffers) /\ H \subseteq Buffers
  BY CacheFields DEF CacheSound
<1>2. b \in Buffers
  BY <1>1 DEF Given, OnList
<1>3. SoundAt(k, H, b)
  BY <1>2 DEF CacheSound
<1>4. /\ BufferSound(k.buf[b].flags, k.buf[b].blk, k.buf[b].size, FALSE, TRUE, b \in H)
      /\ b \notin Freed(k) /\ ("ASYNC" \in k.buf[b].flags <=> b \notin H)
  BY <1>3 DEF SoundAt, BufferSound
<1>5. /\ Does(k, j, b, fl) /\ b \notin Given(j)
      /\ "ASYNC" \in k.buf[b].flags => b \in Freed(j) /\ (k.want => NULL \in j.ev)
      /\ "ASYNC" \notin k.buf[b].flags => j.free = k.free /\ j.want = k.want
      /\ "WANTED" \in k.buf[b].flags => b \in j.ev
  BY <1>1, <1>4, BiodoneDoes
<1> HIDE DEF j
<1>6. /\ BufferSound(fl, k.buf[b].blk, k.buf[b].size, b \in Freed(j), b \in Given(j), b \in H)
      /\ "STALE" \in k.buf[b].flags => "STALE" \in fl
      /\ b \in H => "DONE" \in fl
  <2>1. CASE b \in H
    <3>1. fl = ((k.buf[b].flags \ {"READ"}) \cup {"DONE"}) \ {"WANTED"}
      BY <2>1, <1>4 DEF DoneFlags
    <3>2. b \notin Freed(j)
      BY <2>1, <1>4, <1>5 DEF Freed
    <3> HIDE DEF fl
    <3>3. QED
      BY <3>1, <3>2, <2>1, <1>4, <1>5 DEF BufferSound
  <2>2. CASE b \notin H
    <3> DEFINE done == (k.buf[b].flags \ {"READ"}) \cup {"DONE"}
    <3>1. fl = ReleaseFlags(done)
      BY <2>2, <1>4 DEF DoneFlags
    <3> HIDE DEF fl
    <3>2. b \in Freed(j)
      BY <2>2, <1>4, <1>5
    <3>3. QED
      BY <3>1, <3>2, <2>2, <1>4, <1>5 DEF BufferSound, ReleaseFlags
  <2>3. QED
    BY <2>1, <2>2
<1> HIDE DEF fl
<1>7. CacheSound(j, H)
  BY <1>1, <1>2, <1>5, <1>6, DoesSound
<1>8. Wakes(k, j)
  <2>1. k.ev \subseteq j.ev
    OBVIOUS
  <2>2. NULL \notin j.ev /\ k.want /\ k.free = <<>> => j.want /\ j.free = <<>>
    BY <1>5
  <2>3. QED
    BY <2>1, <2>2, <1>5, DoesWakes
<1>9. \A c \in H : Keeps(k, j, c)
  <2>1. Touches(k, j, b) /\ j.buf[b].flags = fl /\ j.buf[b].blk = k.buf[b].blk
    BY <1>5 DEF Does
  <2>2. \A c \in H \ {b} : Keeps(k, j, c)
    BY <2>1, <1>1, TouchKeeps
  <2>3. b \in H => Keeps(k, j, b)
    BY <2>1, <1>5, <1>6 DEF Keeps, Started
  <2>4. QED
    BY <2>2, <2>3
<1>10. QED
  BY <1>7, <1>8, <1>9 DEF j

\* The interrupt, whatever became of the data.
LEMMA DoneKeeps ==
    ASSUME BioInv, NEW k, CacheSound(k, InUse), Wakes(Cache, k), \A c \in InUse : Keeps(Cache, k, c),
           k.ev = {}, NEW b \in Given(k), Commit(biodone(k, b)),
           pc' = wakeprocs(biodone(k, b).ev), loc' = NoChan(biodone(k, b).ev), UNCHANGED onproc,
           disk' \in [Blocks -> BOOLEAN], CohSound(biodone(k, b), disk')
    PROVE  BioInv'
<1> DEFINE j == biodone(k, b)
<1>1. CacheSound(j, InUse) /\ Wakes(k, j) /\ \A c \in InUse : Keeps(k, j, c)
  BY BiodoneSound
<1>2. Commit(j) /\ pc' = wakeprocs(j.ev) /\ loc' = NoChan(j.ev) /\ CohSound(j, disk')
  OBVIOUS
<1> HIDE DEF j
<1>3. Wakes(Cache, j)
  BY <1>1, WakesTwice
<1>4. \A c \in InUse : Keeps(Cache, j, c)
  BY <1>1, KeepsTwice
<1>5. QED
  BY <1>1, <1>2, <1>3, <1>4, InterruptKeeps

\* Only b has other data.
OneData(k, j, b, v) == j.buf[b].cur = v /\ \A c \in Buffers \ {b} : j.buf[c] = k.buf[c]

\* A change of what b holds.
LEMMA CurSame ==
    ASSUME NEW k \in CacheType, NEW b \in Buffers, NEW v \in BOOLEAN
    PROVE  LET j == [k EXCEPT !.buf[b].cur = v]
           IN  SameButData(k, j) /\ OneData(k, j, b, v)
<1> DEFINE j == [k EXCEPT !.buf[b].cur = v]
           r == [k.buf[b] EXCEPT !.cur = v]
           m == [k.buf EXCEPT ![b] = r]
<1>1. k.buf \in [Buffers -> Buf] /\ k.buf[b] \in Buf
  BY CacheFields
<1>2. j = [k EXCEPT !.buf = m]
  BY Zenon
<1> HIDE DEF j
<1>3. r \in Buf /\ r.flags = k.buf[b].flags /\ r.blk = k.buf[b].blk /\ r.size = k.buf[b].size
      /\ r.cur = v
  BY <1>1, Zenon DEF Buf
<1> HIDE DEF r
<1>4. m \in [Buffers -> Buf] /\ m[b] = r /\ \A c \in Buffers \ {b} : m[c] = k.buf[c]
  BY <1>1, <1>3
<1> HIDE DEF m
<1>5. /\ j \in CacheType /\ j.buf = m /\ j.free = k.free /\ j.io = k.io /\ j.room = k.room
      /\ j.want = k.want /\ j.ev = k.ev
  BY <1>2, <1>4, Zenon DEF CacheType
<1>6. QED
  BY <1>3, <1>4, <1>5 DEF j, SameButData, OneData

\* A buffer that the device is done with.
LEMMA Transfer ==
    ASSUME BioInv, NEW i \in DOMAIN io, NEW b, b = io[i], NEW v \in BOOLEAN
    PROVE  /\ b \in Buffers /\ b \in Given(Cache) /\ buf[b].blk \in Blocks /\ buf[b].cur \in BOOLEAN
           /\ disk \in [Blocks -> BOOLEAN] /\ disk[buf[b].blk] \in BOOLEAN
           /\ LET k == [Cache EXCEPT !.buf[b].cur = v]
              IN  /\ CacheSound(k, InUse) /\ Wakes(Cache, k) /\ \A c \in InUse : Keeps(Cache, k, c)
                  /\ b \in Given(k) /\ k.ev = {}
                  /\ SameButData(Cache, k) /\ OneData(Cache, k, b, v)
<1>1. CacheSound(Cache, InUse) /\ Cache.io = io /\ Cache.buf = buf /\ Cache.ev = {}
      /\ disk \in [Blocks -> BOOLEAN]
  BY DEF BioInv, Cache
<1>2. Cache \in CacheType /\ io \in Seq(Buffers) /\ buf \in [Buffers -> Buf] /\ InUse \subseteq Buffers
  BY <1>1, CacheFields DEF CacheSound
<1>3. b \in Buffers /\ b \in Given(Cache)
  BY <1>1, <1>2 DEF Given, OnList
<1>4. SoundAt(Cache, InUse, b)
  BY <1>1, <1>3 DEF CacheSound
<1>5. buf[b].blk # NULL
  BY <1>1, <1>3, <1>4 DEF SoundAt, BufferSound
<1>6. buf[b].blk \in Blocks /\ buf[b].cur \in BOOLEAN
  BY <1>2, <1>3, <1>5, BufFields
<1> DEFINE k == [Cache EXCEPT !.buf[b].cur = v]
<1>7. SameButData(Cache, k) /\ OneData(Cache, k, b, v)
  BY <1>2, <1>3, CurSame
<1> HIDE DEF k
<1>8. CacheSound(k, InUse) /\ Wakes(Cache, k) /\ \A c \in Buffers : Keeps(Cache, k, c)
  BY <1>1, <1>7, DataSound
<1>9. b \in Given(k) /\ k.ev = {} /\ \A c \in InUse : Keeps(Cache, k, c)
  BY <1>1, <1>2, <1>3, <1>7, <1>8 DEF SameButData, Given
<1>10. QED
  BY <1>1, <1>3, <1>6, <1>7, <1>8, <1>9 DEF k

\* What biodone() leaves of the flags: a buffer that was stale is, and one with
\* an error is not valid.
LEMMA FlagsEnd ==
    ASSUME NEW fl, "DELWRI" \notin fl
    PROVE  /\ "DELWRI" \notin DoneFlags(fl)
           /\ "STALE" \in fl => "STALE" \in DoneFlags(fl)
           /\ "ERROR" \in fl => \A x : ~Valid(DoneFlags(fl), x)
  BY DEF DoneFlags, ReleaseFlags, Valid

\* biodone() changes flags and the driver's list.
LEMMA BiodoneEnds ==
    ASSUME NEW k, NEW H, CacheSound(k, H), NEW b \in Given(k), k.ev = {}
    PROVE  LET j == biodone(k, b)
           IN  /\ j.io = Without(k.io, b)
               /\ \A c \in Buffers \ {b} : j.buf[c] = k.buf[c]
               /\ j.buf[b].blk = k.buf[b].blk /\ j.buf[b].cur = k.buf[b].cur
               /\ j.buf[b].flags = DoneFlags(k.buf[b].flags)
               /\ "DELWRI" \notin k.buf[b].flags
<1> DEFINE j == biodone(k, b)
<1>1. k \in CacheType /\ NoDup(k.free) /\ NoDup(k.io) /\ b \in Buffers
  BY CacheFields DEF CacheSound, Given, OnList
<1>2. SoundAt(k, H, b)
  BY <1>1 DEF CacheSound
<1>3. b \notin Freed(k) /\ "DELWRI" \notin k.buf[b].flags
  BY <1>2 DEF SoundAt, BufferSound
<1>4. Does(k, j, b, DoneFlags(k.buf[b].flags)) /\ j.io = Without(k.io, b)
  BY <1>1, <1>3, BiodoneDoes
<1> HIDE DEF j
<1>5. QED
  BY <1>3, <1>4 DEF Does, Touches, j

\* The transfer leaves v in the buffer.
LEMMA TransferEnds ==
    ASSUME BioInv, NEW i \in DOMAIN io, Next_(i), NEW b, b = io[i],
           NEW k, NEW v, OneData(Cache, k, b, v), k.io = io, k.buf[b].blk = buf[b].blk,
           "STALE" \in buf[b].flags => "STALE" \in k.buf[b].flags,
           CacheSound(k, InUse), b \in Given(k), k.ev = {},
           v => Transferred(Cache, b, disk),
           "ERROR" \notin k.buf[b].flags /\ Transferred(Cache, b, disk) => v
    PROVE  CohSound(biodone(k, b), OnDisk(Cache, b, disk))
<1> DEFINE j == biodone(k, b)
<1>1. /\ CacheSound(Cache, InUse) /\ CohSound(Cache, disk) /\ disk \in [Blocks -> BOOLEAN]
      /\ Cache.io = io /\ Cache.buf = buf
  BY DEF BioInv, Cache
<1>2. /\ j.io = Without(k.io, b)
      /\ \A c \in Buffers \ {b} : j.buf[c] = k.buf[c]
      /\ j.buf[b].blk = k.buf[b].blk /\ j.buf[b].cur = k.buf[b].cur
      /\ j.buf[b].flags = DoneFlags(k.buf[b].flags)
      /\ "DELWRI" \notin k.buf[b].flags
  BY BiodoneEnds
<1> HIDE DEF j
<1>3. /\ "DELWRI" \notin j.buf[b].flags
      /\ "STALE" \in k.buf[b].flags => "STALE" \in j.buf[b].flags
      /\ "ERROR" \in k.buf[b].flags => ~Valid(j.buf[b].flags, j.buf[b].blk)
  BY <1>2, FlagsEnd
<1>4. Ends(Cache, j, b, disk)
  BY <1>1, <1>2, <1>3 DEF Ends, OneData
<1>5. i \in DOMAIN Cache.io /\ b = Cache.io[i]
      /\ \A m \in 1 .. i - 1 : Cache.buf[Cache.io[m]].blk # Cache.buf[b].blk
  BY <1>1 DEF Next_
<1> HIDE DEF Next_
<1>6. CohSound(j, OnDisk(Cache, b, disk))
  BY <1>1, <1>4, <1>5, EndCoherent
<1>7. QED
  BY <1>6 DEF j

LEMMA IodoneKeeps ==
    ASSUME BioInv, NEW i \in DOMAIN io, Iodone(i)
    PROVE  BioInv'
<1> DEFINE b == io[i]
           x == buf[b].blk
           v == IF Has(b, "READ") THEN disk[x] ELSE buf[b].cur
           k == [Cache EXCEPT !.buf[b].cur = v]
<1>1. v \in BOOLEAN /\ b \in Buffers /\ buf[b].cur \in BOOLEAN /\ disk \in [Blocks -> BOOLEAN]
      /\ Cache.buf = buf
  BY Transfer DEF Cache
<1>2. [Cache EXCEPT !.buf[b].cur = IF Has(b, "READ") THEN disk[x] ELSE @] = k
  BY <1>1, Zenon
<1>3. /\ Commit(biodone(k, b)) /\ pc' = wakeprocs(biodone(k, b).ev)
      /\ loc' = NoChan(biodone(k, b).ev) /\ UNCHANGED onproc
      /\ disk' = IF Has(b, "READ") THEN disk ELSE [disk EXCEPT ![x] = buf[b].cur]
  BY <1>2 DEF Iodone
<1>4. disk' \in [Blocks -> BOOLEAN]
  BY <1>1, <1>3
<1>7. b = io[i]
  OBVIOUS
<1> HIDE DEF v, b
<1>5. /\ CacheSound(k, InUse) /\ Wakes(Cache, k) /\ (\A c \in InUse : Keeps(Cache, k, c))
      /\ b \in Given(k) /\ k.ev = {}
      /\ SameButData(Cache, k) /\ OneData(Cache, k, b, v)
  BY <1>1, <1>7, Transfer
<1> HIDE DEF k
<1>8. disk' = OnDisk(Cache, b, disk) /\ v = Transferred(Cache, b, disk)
  BY <1>1, <1>3 DEF OnDisk, Transferred, Has, v
<1>9. k.io = io /\ k.buf[b].flags = buf[b].flags /\ k.buf[b].blk = buf[b].blk
  <2>1. Cache.io = io
    BY DEF Cache
  <2>2. QED
    BY <2>1, <1>1, <1>5 DEF SameButData
<1>10. Next_(i)
  BY DEF Iodone
<1>11. CohSound(biodone(k, b), disk')
  BY <1>5, <1>7, <1>8, <1>9, <1>10, TransferEnds
<1>6. QED
  BY <1>3, <1>4, <1>5, <1>11, DoneKeeps

LEMMA IodoneErrorKeeps ==
    ASSUME BioInv, NEW i \in DOMAIN io, IodoneError(i)
    PROVE  BioInv'
<1> DEFINE b == io[i]
           x == buf[b].blk
           j == [Cache EXCEPT !.buf[b].cur = FALSE]
           k == SetFlags(j, b, {"ERROR"}, {})
<1>1. /\ b \in Buffers /\ disk \in [Blocks -> BOOLEAN]
      /\ CacheSound(j, InUse) /\ Wakes(Cache, j) /\ (\A c \in InUse : Keeps(Cache, j, c))
      /\ b \in Given(j) /\ j.ev = {}
      /\ SameButData(Cache, j) /\ OneData(Cache, j, b, FALSE)
      /\ b \in Given(Cache) /\ x \in Blocks /\ buf[b].cur \in BOOLEAN
  BY Transfer
<1>2. /\ Commit(biodone(k, b)) /\ pc' = wakeprocs(biodone(k, b).ev)
      /\ loc' = NoChan(biodone(k, b).ev) /\ UNCHANGED onproc
      /\ disk' = IF Has(b, "READ") \/ ~buf[b].cur THEN disk ELSE [disk EXCEPT ![x] = TRUE]
  BY DEF IodoneError
<1>3. disk' \in [Blocks -> BOOLEAN]
  BY <1>1, <1>2
<1>12. Next_(i) /\ b = io[i]
  BY DEF IodoneError
<1> HIDE DEF b, j
<1>4. j \in CacheType /\ NoDup(j.free) /\ NoDup(j.io) /\ SoundAt(j, InUse, b) /\ InUse \subseteq Buffers
  BY <1>1 DEF CacheSound
<1> DEFINE fl == j.buf[b].flags \cup {"ERROR"}
<1>5. Sets(j, k, b, {"ERROR"}, {}) /\ (j.buf[b].flags \ {}) \cup {"ERROR"} = fl
  BY <1>1, <1>4, SetFlagsDoes DEF Flags
<1> HIDE DEF k
<1>6. /\ Does(j, k, b, fl) /\ k.free = j.free /\ k.io = j.io /\ k.want = j.want /\ k.ev = {}
      /\ b \in Given(k)
  BY <1>1, <1>5 DEF Sets, Given
<1>7. /\ BufferSound(fl, j.buf[b].blk, j.buf[b].size, b \in Freed(k), b \in Given(k), b \in InUse)
      /\ "STALE" \in j.buf[b].flags => "STALE" \in fl
  BY <1>1, <1>4, <1>6 DEF SoundAt, BufferSound, Freed
<1>8. CacheSound(k, InUse)
  BY <1>1, <1>4, <1>6, <1>7, DoesSound
<1>9. Wakes(Cache, k)
  <2>1. Wakes(j, k)
    BY <1>1, <1>6, DoesWakes
  <2>2. QED
    BY <2>1, <1>1, WakesTwice
<1>10. ASSUME NEW c \in InUse PROVE Keeps(Cache, k, c)
  <2>1. Keeps(j, k, c)
    BY <1>4, <1>6 DEF Does, Touches, Keeps, Started, Given
  <2>2. QED
    BY <2>1, <1>1, KeepsTwice
<1>13. disk' = OnDisk(Cache, b, disk)
  <2>1. Cache.buf = buf /\ DirtyOnly(Cache, disk)
    BY DEF BioInv, CohSound, Cache
  <2>2. ASSUME ~Has(b, "READ") PROVE ~disk[x]
    BY <2>1, <2>2, <1>1 DEF DirtyOnly, Dirty, Has
  <2>3. QED
    BY <2>1, <2>2, <1>1, <1>2 DEF OnDisk, Has
<1>14. /\ OneData(Cache, k, b, FALSE) /\ k.io = io /\ k.buf[b].blk = buf[b].blk
       /\ "STALE" \in buf[b].flags => "STALE" \in k.buf[b].flags
       /\ "ERROR" \in k.buf[b].flags
  <2>1. Cache.buf = buf /\ Cache.io = io
    BY DEF Cache
  <2>2. /\ k.buf[b].flags = fl /\ k.buf[b].blk = j.buf[b].blk /\ k.buf[b].cur = j.buf[b].cur
        /\ \A c \in Buffers \ {b} : k.buf[c] = j.buf[c]
    BY <1>6 DEF Does, Touches
  <2>3. QED
    BY <2>1, <2>2, <1>1, <1>6 DEF SameButData, OneData
<1>15. CohSound(biodone(k, b), disk')
  BY <1>6, <1>8, <1>12, <1>13, <1>14, TransferEnds
<1>11. QED
  BY <1>2, <1>3, <1>6, <1>8, <1>9, <1>10, <1>15, DoneKeeps

(***************************************************************************)
(* The theorems.                                                           *)
(***************************************************************************)

\* binit() leaves no buffer with memory and nobody in the cache.
LEMMA InitInv == Init => BioInv
<1> SUFFICES ASSUME Init PROVE BioInv
  OBVIOUS
<1>1. /\ buf = [b \in Buffers |-> NoBuf] /\ free = <<>> /\ room = bufhwm /\ want = FALSE /\ io = <<>>
      /\ pc = [p \in Procs |-> "user"] /\ loc = [p \in Procs |-> NoLocal] /\ onproc = NULL
      /\ disk = [x \in Blocks |-> TRUE]
  BY DEF Init
<1>2. NoBuf \in Buf /\ NoBuf.flags = {} /\ NoBuf.blk = NULL /\ NoBuf.size = 0 /\ ~NoBuf.cur
  BY DEF NoBuf, Buf
<1> DEFINE k == Cache
<1>3. /\ k = [buf |-> buf, free |-> free, room |-> room, want |-> want, io |-> io, ev |-> {}]
  BY DEF Cache
<1>4. buf \in [Buffers -> Buf] /\ \A b \in Buffers : buf[b] = NoBuf
  BY <1>1, <1>2
<1> HIDE DEF k
<1>5. /\ k \in CacheType /\ k.buf = buf /\ k.free = <<>> /\ k.room = bufhwm /\ k.want = FALSE
      /\ k.io = <<>> /\ k.ev = {}
  <2>1. /\ free \in Seq(Buffers) /\ io \in Seq(Buffers) /\ room \in Int /\ want \in BOOLEAN
        /\ {} \in SUBSET (Buffers \cup {NULL})
    <3>1. want \in BOOLEAN
      BY <1>1, Zenon
    <3>2. free \in Seq(Buffers) /\ io \in Seq(Buffers)
      BY <1>1
    <3>3. room \in Int
      BY <1>1, RoomForOne
    <3>4. QED
      BY <3>1, <3>2, <3>3
  <2>2. k \in CacheType /\ k.buf = buf /\ k.free = free /\ k.room = room /\ k.want = want
        /\ k.io = io /\ k.ev = {}
    BY <2>1, <1>3, <1>4, Zenon DEF CacheType
  <2>3. QED
    BY <2>2, <1>1
<1>6. InUse = {}
  <2>1. \A p \in Procs : HeldBy(pc[p], loc[p]) = {}
    BY <1>1, UserPlace
  <2>2. QED
    BY <2>1 DEF InUse
<1>7. Freed(k) = {} /\ Given(k) = {} /\ NoDup(k.free) /\ NoDup(k.io)
  BY <1>5 DEF Freed, Given, OnList, NoDup
<1>8. \A b \in Buffers : SoundAt(k, {}, b)
  BY <1>2, <1>4, <1>5, <1>7 DEF SoundAt, BufferSound
<1>9. OneEach(k)
  BY <1>2, <1>4, <1>5 DEF OneEach
<1>10. SumSizes(Sizes(k)) + k.room = bufhwm /\ k.room >= 0
  <2>1. Sizes(k) = [b \in Buffers |-> 0]
    BY <1>2, <1>4, <1>5 DEF Sizes
  <2>2. QED
    BY <2>1, <1>5, SumZero, RoomForOne
<1>11. CacheSound(k, InUse)
  BY <1>5, <1>6, <1>7, <1>8, <1>9, <1>10 DEF CacheSound
<1>12. \A p \in Procs : PlaceSound(k, pc[p], loc[p])
  BY <1>1, UserPlace
<1>13. Apart
  BY <1>1, UserPlace DEF Apart
<1>14. pc \in [Procs -> PC] /\ loc \in [Procs -> Local]
  BY <1>1, NoLocalFields DEF PC
<1>15. onproc \in Procs \cup {NULL} /\ disk \in [Blocks -> BOOLEAN]
  BY <1>1
<1>17. CohSound(k, disk)
  <2>1. LastKept(k)
    BY <1>2, <1>4, <1>5, <1>7 DEF LastKept, Dirty, Valid
  <2>2. InOrder(k)
    BY <1>5 DEF InOrder
  <2>3. DirtyOnly(k, disk)
    BY <1>2, <1>4, <1>5, <1>7 DEF DirtyOnly, Dirty
  <2>4. Covered(k, disk)
    BY <1>1 DEF Covered
  <2>5. QED
    BY <2>1, <2>2, <2>3, <2>4 DEF CohSound
<1>16. QED
  BY <1>11, <1>12, <1>13, <1>14, <1>15, <1>17 DEF BioInv, k

\* Every step keeps the invariant.
LEMMA NextInv == BioInv /\ [Next]_vars => BioInv'
<1> SUFFICES ASSUME BioInv, [Next]_vars PROVE BioInv'
  OBVIOUS
<1>1. ASSUME NEW p \in Procs, NEW op \in {"bread", "getblk", "blkflush", "ngeteblk"}, NEW x \in Blocks,
             Call(p, op, x)
      PROVE  BioInv'
  BY <1>1, CallKeeps
<1>2. ASSUME NEW p \in Procs, NEW x \in Blocks, NEW y \in Blocks, Breada(p, x, y)
      PROVE  BioInv'
  BY <1>2, BreadaKeeps
<1>3. ASSUME NEW p \in Procs,
             GetblkBusy(p) \/ GetblkHit(p) \/ GetblkFree(p) \/ GetblkAssign(p)
             \/ NgeteblkFree(p) \/ Ngeteblk(p) \/ Alloc(p)
      PROVE  BioInv'
  BY <1>3, GetblkBusyKeeps, GetblkHitKeeps, GetblkFreeKeeps, GetblkAssignKeeps,
     NgeteblkFreeKeeps, NgeteblkKeeps, AllocKeeps
<1>4. ASSUME NEW p \in Procs, Got(p) \/ Ra(p) \/ GotRa(p) \/ BiowaitSleep(p) \/ Biowait(p)
      PROVE  BioInv'
  BY <1>4, GotKeeps, RaKeeps, GotRaKeeps, BiowaitSleepKeeps, BiowaitKeeps
<1>5. ASSUME NEW p \in Procs, Brelse(p) \/ Bwrite(p) \/ Bawrite(p) \/ Bdwrite(p)
      PROVE  BioInv'
  BY <1>5, BrelseKeeps, BwriteKeeps, BawriteKeeps, BdwriteKeeps
<1>6. ASSUME NEW p \in Procs, BlkflushBusy(p) \/ BlkflushWrite(p) \/ BlkflushDone(p)
      PROVE  BioInv'
  BY <1>6, BlkflushBusyKeeps, BlkflushWriteKeeps, BlkflushDoneKeeps
<1>7. CASE Fsflush
  BY <1>7, FsflushKeeps
<1>8. CASE LastClose
  BY <1>8, LastCloseKeeps
<1>9. ASSUME NEW i \in DOMAIN io, Iodone(i) \/ IodoneError(i)
      PROVE  BioInv'
  BY <1>9, IodoneKeeps, IodoneErrorKeeps
<1>10. CASE UNCHANGED vars
  BY <1>10 DEF vars, BioInv, Cache, InUse, Apart, HeldBy
<1>11. QED
  BY <1>1, <1>2, <1>3, <1>4, <1>5, <1>6, <1>7, <1>8, <1>9, <1>10 DEF Next

\* The inductive invariant holds in every reachable state of the cache.
THEOREM Invariant == Spec => []BioInv
  BY InitInv, NextInv, PTL DEF Spec

\* Every variable keeps its type, and the memory that buffers use never
\* exceeds v_bufhwm, whatever sizes they are asked for with.
THEOREM Typed == Spec => []TypeOK
<1>1. BioInv => TypeOK
  <2> SUFFICES ASSUME BioInv PROVE TypeOK
    OBVIOUS
  <2>1. /\ CacheSound(Cache, InUse) /\ pc \in [Procs -> PC] /\ loc \in [Procs -> Local]
        /\ onproc \in Procs \cup {NULL} /\ disk \in [Blocks -> BOOLEAN]
        /\ Cache.buf = buf /\ Cache.free = free /\ Cache.io = io /\ Cache.room = room
        /\ Cache.want = want
    BY DEF BioInv, Cache
  <2>2. Cache \in CacheType
    BY <2>1 DEF CacheSound
  <2>3. /\ buf \in [Buffers -> Buf] /\ free \in Seq(Buffers) /\ io \in Seq(Buffers)
        /\ room \in Int /\ want \in BOOLEAN
    BY <2>1, <2>2, CacheFields
  <2>4. Sizes(Cache) \in [Buffers -> Nat]
    <3>1. \A b \in Buffers : buf[b].size \in Nat
      BY <2>3, BufFields
    <3>2. QED
      BY <3>1, <2>1 DEF Sizes
  <2>5. room \in 0 .. bufhwm
    <3>1. SumSizes(Sizes(Cache)) \in Nat
      BY <2>4, SumNat
    <3>2. room >= 0 /\ SumSizes(Sizes(Cache)) + room = bufhwm
      BY <2>1 DEF CacheSound
    <3>3. QED
      BY <3>1, <3>2, <2>3, RoomForOne
  <2>6. QED
    BY <2>1, <2>3, <2>5 DEF TypeOK
<1>2. QED
  BY <1>1, Invariant, PTL

\* A block is never in two buffers, whoever slept between the search of the
\* hash and the assignment; no buffer is on a list twice or on both, or has
\* two owners; the memory of all buffers is accounted for.
THEOREM Sound == Spec => []BuffersSound
<1>1. BioInv => BuffersSound
  <2> SUFFICES ASSUME BioInv PROVE BuffersSound
    OBVIOUS
  <2>1. /\ CacheSound(Cache, InUse) /\ Apart
        /\ Cache.buf = buf /\ Cache.free = free /\ Cache.io = io /\ Cache.room = room
    BY DEF BioInv, Cache
  <2>2. Cache \in CacheType
    BY <2>1 DEF CacheSound
  <2>3. free \in Seq(Buffers) /\ io \in Seq(Buffers) /\ NoDup(free) /\ NoDup(io)
        /\ OneEach(Cache) /\ \A b \in Buffers : SoundAt(Cache, InUse, b)
    BY <2>1, <2>2, CacheFields DEF CacheSound
  <2>4. ASSUME NEW x \in Blocks PROVE Cardinality(Hashed(Cache, x)) <= 1
    <3>1. CASE Hashed(Cache, x) = {}
      BY <3>1, FS_EmptySet
    <3>2. CASE Hashed(Cache, x) # {}
      <4>1. PICK b \in Hashed(Cache, x) : TRUE
        BY <3>2
      <4>2. x # NULL
        BY NullNothing
      <4>3. ASSUME NEW c \in Hashed(Cache, x) PROVE c = b
        BY <4>1, <4>2, <2>3 DEF Hashed, OneEach
      <4>4. Hashed(Cache, x) = {b}
        BY <4>1, <4>3
      <4>5. QED
        BY <4>4, FS_Singleton
    <3>3. QED
      BY <3>1, <3>2
  <2>5. Len(free) = Cardinality(OnList(free)) /\ Len(io) = Cardinality(OnList(io))
    BY <2>3, ListLength
  <2>6. ASSUME NEW b \in Live
        PROVE  Cardinality({p \in Procs : b \in Mine(p)})
               + (IF b \in OnList(io) /\ Has(b, "ASYNC") THEN 1 ELSE 0)
               + (IF b \in OnList(free) /\ ~Has(b, "BUSY") THEN 1 ELSE 0) = 1
    <3> DEFINE O == {p \in Procs : b \in Mine(p)}
    <3>1. BufferSound(buf[b].flags, buf[b].blk, buf[b].size, b \in OnList(free), b \in OnList(io), b \in InUse)
          /\ buf[b].size > 0
      BY <2>1, <2>3 DEF Live, SoundAt, Freed, Given
    <3>2. \A p \in Procs : Mine(p) = HeldBy(pc[p], loc[p])
      BY DEF Mine, HeldBy
    <3>3. CASE b \in InUse
      <4>1. PICK p \in Procs : b \in HeldBy(pc[p], loc[p])
        BY <3>3 DEF InUse
      <4>2. \A q \in Procs : b \in HeldBy(pc[q], loc[q]) => q = p
        BY <4>1, <2>1 DEF Apart
      <4>3. O = {p}
        BY <4>1, <4>2, <3>2
      <4> HIDE DEF O
      <4>4. Cardinality(O) = 1
        BY <4>3, FS_Singleton
      <4>5. ~(b \in OnList(io) /\ Has(b, "ASYNC")) /\ ~(b \in OnList(free) /\ ~Has(b, "BUSY"))
        BY <3>1, <3>3 DEF BufferSound, Has
      <4>6. QED
        BY <4>4, <4>5 DEF O
    <3>4. CASE b \notin InUse
      <4>1. O = {}
        BY <3>2, <3>4 DEF InUse
      <4> HIDE DEF O
      <4>2. Cardinality(O) = 0
        BY <4>1, FS_EmptySet
      <4>3. \/ /\ b \in OnList(io) /\ Has(b, "ASYNC")
               /\ ~(b \in OnList(free) /\ ~Has(b, "BUSY"))
            \/ /\ ~(b \in OnList(io) /\ Has(b, "ASYNC"))
               /\ b \in OnList(free) /\ ~Has(b, "BUSY")
        BY <3>1, <3>4 DEF BufferSound, Has
      <4>4. QED
        BY <4>2, <4>3 DEF O
    <3>5. QED
      BY <3>3, <3>4
  <2>7. OnList(free) \cup OnList(io) \subseteq Live
    <3>1. OnList(free) \subseteq Buffers /\ OnList(io) \subseteq Buffers
      BY <2>3 DEF OnList
    <3>2. ASSUME NEW b \in OnList(free) \cup OnList(io) PROVE buf[b].size > 0
      <4>1. SoundAt(Cache, InUse, b)
        BY <3>1, <3>2, <2>3
      <4>2. QED
        BY <4>1, <3>2, <2>1 DEF SoundAt, BufferSound, Freed, Given
    <3>3. QED
      BY <3>1, <3>2 DEF Live
  <2>8. SumSizes([b \in Buffers |-> buf[b].size]) + room = bufhwm
    BY <2>1 DEF CacheSound, Sizes
  <2>9. QED
    BY <2>4, <2>5, <2>6, <2>7, <2>8 DEF BuffersSound
<1>2. QED
  BY <1>1, Invariant, PTL

\* No wakeup of getblk(), blkflush(), biowait() or getfreeblk() is lost: what
\* a sleeper waits for has not happened yet, and it is marked as waiting.
THEOREM NoLostWakeup == Spec => []SleepersMustWait
<1>1. BioInv => SleepersMustWait
  <2> SUFFICES ASSUME BioInv, NEW p \in Procs
               PROVE  LET b == loc[p].chan
                      IN  CASE pc[p] \in {"asleep:getblk", "asleep:flush"} -> {"BUSY", "WANTED"} \subseteq buf[b].flags
                            [] pc[p] = "asleep:io" -> Has(b, "WANTED") /\ ~Has(b, "DONE")
                            [] pc[p] = "asleep:free" -> want /\ free = <<>>
                            [] OTHER -> TRUE
    BY DEF SleepersMustWait
  <2>1. SleepSound(Cache, pc[p], loc[p]) /\ Cache.buf = buf /\ Cache.want = want /\ Cache.free = free
    BY DEF BioInv, PlaceSound, Cache
  <2>2. QED
    BY <2>1 DEF SleepSound, Has
<1>2. QED
  BY <1>1, Invariant, PTL


\* No write that the device took is lost and no old data are read from the
\* cache, whoever slept and whatever is read ahead or written behind.  After a
\* write that failed the data on the disk count as the last ones.
THEOREM Coherence == Spec => []Coherent
<1>1. BioInv => Coherent
  <2> SUFFICES ASSUME BioInv PROVE Coherent
    OBVIOUS
  <2>1. /\ CacheSound(Cache, InUse) /\ CohSound(Cache, disk)
        /\ Cache.buf = buf /\ Cache.io = io
    BY DEF BioInv, Cache
  <2>2. LastKept(Cache) /\ Covered(Cache, disk) /\ buf \in [Buffers -> Buf]
    BY <2>1, CacheFields DEF CohSound, CacheSound
  <2>3. ASSUME NEW b \in Live, Has(b, "DONE"), ~Has(b, "ERROR"), ~Has(b, "STALE"), buf[b].blk # NULL
        PROVE  buf[b].cur
    BY <2>1, <2>2, <2>3 DEF LastKept, Valid, Has, Live
  <2>4. ASSUME NEW x \in Blocks, ~disk[x]
        PROVE  \E b \in Live : /\ buf[b].blk = x /\ buf[b].cur
                               /\ Has(b, "DELWRI") \/ (b \in OnList(io) /\ ~Has(b, "READ"))
    <3>1. PICK b \in Buffers : buf[b].blk = x /\ buf[b].cur /\ Dirty(Cache, b)
      BY <2>1, <2>2, <2>4 DEF Covered
    <3>2. SoundAt(Cache, InUse, b)
      BY <2>1 DEF CacheSound
    <3>3. buf[b].size > 0
      BY <2>1, <3>1, <3>2, NullNothing DEF SoundAt, BufferSound
    <3>4. QED
      BY <2>1, <3>1, <3>3 DEF Dirty, Given, Has, Live
  <2>5. QED
    BY <2>3, <2>4 DEF Coherent
<1>2. QED
  BY <1>1, Invariant, PTL
=============================================================================

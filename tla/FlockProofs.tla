----------------------------- MODULE FlockProofs -----------------------------
(***************************************************************************)
(* Proofs about record locking (os/flock.c), for any owners, file size,    *)
(* limit on records and requests.                                          *)
(*                                                                         *)
(* The first half is about one walk of flckadj() over the locks of a file: *)
(* lists of locks; what each row of the case table does to the list and to *)
(* the region asked for; what holds at every lock the walk has come to:    *)
(* the list behind it, a piece in hand and the locks ahead stand apart,    *)
(* cover the bytes the owners held less the region, and leave no sleeper   *)
(* behind; AdjustedIs is what comes out at the end.                        *)
(*                                                                         *)
(* The second is about the processes: what blocked() finds, why deadflck() *)
(* comes to every cycle, and the inductive invariant of the file's list of *)
(* locks, the chain sleeplcks, the count of records and the callers of     *)
(* reclock(), one action at a time.                                        *)
(***************************************************************************)
EXTENDS Flock, FiniteSetTheorems, WellFoundedInduction, TLAPS

(***************************************************************************)
(* Induction, with sets of numbers.                                        *)
(***************************************************************************)

\* A set of natural numbers has a least element.
LEMMA LeastNumber ==
    ASSUME NEW T, T \subseteq Nat, T # {}
    PROVE  \E n \in T : \A m \in T : n <= m
<1>1. PICK x \in T : \A y \in T : ~(<<y, x>> \in OpToRel(<, Nat))
  BY NatLessThanWellFounded, WFMin
<1>2. \A y \in T : ~(y < x)
  BY <1>1 DEF OpToRel
<1>3. QED
  BY <1>2

\* Least() chooses it.
LEMMA LeastIs ==
    ASSUME NEW T, T \subseteq Nat, T # {}
    PROVE  /\ Least(T) \in T
           /\ \A m \in T : Least(T) <= m
BY LeastNumber DEF Least

\* A set that has a, and with every number the next one, up to N, has them all.
LEMMA InductionFrom ==
    ASSUME NEW S, NEW a \in Nat, NEW N \in Nat, a \in S,
           \A n \in Nat : a < n /\ n <= N /\ n - 1 \in S => n \in S
    PROVE  \A n \in a .. N : n \in S
<1> DEFINE T == {n \in a .. N : n \notin S}
<1>1. SUFFICES ASSUME T # {} PROVE FALSE
  OBVIOUS
<1>2. PICK n \in T : \A m \in T : n <= m
  <2>1. T \subseteq Nat
    OBVIOUS
  <2>2. QED
    BY <2>1, <1>1, LeastNumber
<1>3. n \in a .. N /\ n \notin S /\ n # a
  BY <1>2
<1>4. n \in Nat /\ a < n /\ n <= N /\ n - 1 \in a .. N
  BY <1>3
<1>5. n - 1 \in T
  BY <1>3, <1>4
<1>6. QED
  BY <1>2, <1>4, <1>5

\* The same from 0.
LEMMA Induction ==
    ASSUME NEW S, NEW N \in Nat, 0 \in S,
           \A n \in 1 .. N : n - 1 \in S => n \in S
    PROVE  \A n \in 0 .. N : n \in S
<1>1. \A n \in Nat : 0 < n /\ n <= N => n \in 1 .. N
  OBVIOUS
<1>2. QED
  BY <1>1, InductionFrom

(***************************************************************************)
(* Taking entries out of lists and putting them in.                        *)
(***************************************************************************)

\* The list s without its entry k.
Removed(s, k) == [j \in 1 .. Len(s) - 1 |-> IF j < k THEN s[j] ELSE s[j + 1]]

\* It is as long less one, and what was behind k moves up.
LEMMA RemovedIs ==
    ASSUME NEW S, NEW s \in Seq(S), NEW k \in 1 .. Len(s)
    PROVE  /\ Removed(s, k) \in Seq(S)
           /\ Len(Removed(s, k)) = Len(s) - 1
           /\ \A j \in 1 .. k - 1 : Removed(s, k)[j] = s[j]
           /\ \A j \in k .. Len(s) - 1 : Removed(s, k)[j] = s[j + 1]
<1>1. Len(s) - 1 \in Nat
  OBVIOUS
<1>2. \A j \in 1 .. Len(s) - 1 : s[j] \in S /\ s[j + 1] \in S
  OBVIOUS
<1>3. Removed(s, k) \in [1 .. Len(s) - 1 -> S]
  BY <1>2 DEF Removed
<1>4. QED
  BY <1>1, <1>3 DEF Removed

\* Two lists one after the other.
LEMMA JoinedIs ==
    ASSUME NEW S, NEW s \in Seq(S), NEW t \in Seq(S)
    PROVE  /\ s \o t \in Seq(S)
           /\ Len(s \o t) = Len(s) + Len(t)
           /\ \A j \in 1 .. Len(s) : (s \o t)[j] = s[j]
           /\ \A j \in 1 .. Len(t) : (s \o t)[Len(s) + j] = t[j]
<1>1. s \o t \in Seq(S)
  OBVIOUS
<1>2. Len(s \o t) = Len(s) + Len(t) /\ \A j \in 1 .. Len(s) : (s \o t)[j] = s[j]
  OBVIOUS
<1>3. \A j \in 1 .. Len(t) : (s \o t)[Len(s) + j] = t[j]
  OBVIOUS
<1>4. QED
  BY <1>1, <1>2, <1>3

\* InsertAfter() keeps what was there and moves the rest down.
LEMMA InsertedIs ==
    ASSUME NEW S, NEW s \in Seq(S), NEW k \in 0 .. Len(s), NEW e \in S
    PROVE  /\ InsertAfter(s, k, e) \in Seq(S)
           /\ Len(InsertAfter(s, k, e)) = Len(s) + 1
           /\ InsertAfter(s, k, e)[k + 1] = e
           /\ \A j \in 1 .. k : InsertAfter(s, k, e)[j] = s[j]
           /\ \A j \in k + 2 .. Len(s) + 1 : InsertAfter(s, k, e)[j] = s[j - 1]
<1> DEFINE a == SubSeq(s, 1, k)
           c == SubSeq(s, k + 1, Len(s))
<1>1. /\ a \in Seq(S) /\ Len(a) = k
      /\ \A j \in 1 .. k : a[j] = s[j]
  OBVIOUS
<1>2. /\ c \in Seq(S) /\ Len(c) = Len(s) - k
      /\ \A j \in 1 .. Len(s) - k : c[j] = s[k + j]
  OBVIOUS
<1>3. InsertAfter(s, k, e) = a \o <<e>> \o c
  BY DEF InsertAfter
<1>4. <<e>> \in Seq(S) /\ Len(<<e>>) = 1 /\ <<e>>[1] = e
  OBVIOUS
<1> HIDE DEF a, c
<1> DEFINE d == a \o <<e>>
<1>5. /\ d \in Seq(S) /\ Len(d) = k + 1 /\ d[k + 1] = e
      /\ \A j \in 1 .. k : d[j] = s[j]
  BY <1>1, <1>4
<1>6. InsertAfter(s, k, e) = d \o c
  BY <1>3
<1> HIDE DEF d
<1> DEFINE t == d \o c
<1>70. d \in Seq(S) /\ c \in Seq(S)
  BY <1>2, <1>5
<1>7. /\ t \in Seq(S) /\ Len(t) = Len(d) + Len(c)
      /\ \A j \in 1 .. Len(d) : t[j] = d[j]
      /\ \A j \in 1 .. Len(c) : t[Len(d) + j] = c[j]
  BY <1>70, JoinedIs
<1> HIDE DEF t
<1>8. Len(t) = Len(s) + 1 /\ Len(s) \in Nat
  BY <1>2, <1>5, <1>7
<1>9. \A j \in k + 2 .. Len(s) + 1 : t[j] = s[j - 1]
  <2> SUFFICES ASSUME NEW j \in k + 2 .. Len(s) + 1 PROVE t[j] = s[j - 1]
    OBVIOUS
  <2>1. j - (k + 1) \in 1 .. Len(c) /\ Len(d) + (j - (k + 1)) = j /\ k + (j - (k + 1)) = j - 1
    BY <1>2, <1>5, <1>8
  <2>2. QED
    BY <2>1, <1>2, <1>7
<1>10. t[k + 1] = e /\ \A j \in 1 .. k : t[j] = s[j]
  BY <1>5, <1>7
<1>11. QED
  BY <1>6, <1>7, <1>8, <1>9, <1>10 DEF t

\* An entry is exchanged for another.
LEMMA ReplacedIs ==
    ASSUME NEW S, NEW s \in Seq(S), NEW k \in 1 .. Len(s), NEW e \in S
    PROVE  /\ [s EXCEPT ![k] = e] \in Seq(S)
           /\ Len([s EXCEPT ![k] = e]) = Len(s)
           /\ [s EXCEPT ![k] = e][k] = e
           /\ \A j \in 1 .. Len(s) : j # k => [s EXCEPT ![k] = e][j] = s[j]
OBVIOUS

(***************************************************************************)
(* Without(list, gone) is what is left of the list, in order.              *)
(***************************************************************************)

\* The part of s up to i without the places gone is v: f says where its
\* entries were.
Left(s, gone, i, v) ==
    /\ Len(v) = i - Cardinality(gone \cap (1 .. i))
    /\ \E f \in [1 .. Len(v) -> 1 .. i] :
          /\ \A j \in 1 .. Len(v) : f[j] \notin gone /\ v[j] = s[f[j]]
          /\ \A j, k \in 1 .. Len(v) : j < k => f[j] < f[k]
          /\ \A m \in 1 .. i : m \notin gone => \E j \in 1 .. Len(v) : f[j] = m

\* The places gone, as far as the list has been read.
LEMMA FinitePart ==
    ASSUME NEW gone, NEW i \in Int
    PROVE  IsFiniteSet(gone \cap (1 .. i)) /\ Cardinality(gone \cap (1 .. i)) \in Nat
<1>1. IsFiniteSet(1 .. i)
  BY FS_Interval
<1>2. gone \cap (1 .. i) \subseteq 1 .. i
  OBVIOUS
<1>3. IsFiniteSet(gone \cap (1 .. i))
  BY <1>1, <1>2, FS_Subset
<1>4. QED
  BY <1>3, FS_CardinalityType

\* At the start nothing is left,
LEMMA LeftStart ==
    ASSUME NEW s, NEW gone
    PROVE  Left(s, gone, 0, <<>>)
<1>1. Cardinality(gone \cap (1 .. 0)) = 0
  <2>1. gone \cap (1 .. 0) = {}
    OBVIOUS
  <2>2. QED
    BY <2>1, FS_EmptySet
<1>2. Len(<<>>) = 0
  OBVIOUS
<1>3. [j \in 1 .. 0 |-> j] \in [1 .. 0 -> 1 .. 0]
  OBVIOUS
<1>4. \A j \in 1 .. 0 : FALSE
  OBVIOUS
<1>5. \E f \in [1 .. Len(<<>>) -> 1 .. 0] :
          /\ \A j \in 1 .. Len(<<>>) : f[j] \notin gone /\ <<>>[j] = s[f[j]]
          /\ \A j, k \in 1 .. Len(<<>>) : j < k => f[j] < f[k]
          /\ \A m \in 1 .. 0 : m \notin gone => \E j \in 1 .. Len(<<>>) : f[j] = m
  BY <1>2, <1>3, <1>4
<1>6. Len(<<>>) = 0 - Cardinality(gone \cap (1 .. 0))
  BY <1>1, <1>2
<1>7. QED
  BY <1>5, <1>6 DEF Left

\* a place gone adds nothing,
LEMMA LeftGone ==
    ASSUME NEW S, NEW s \in Seq(S), NEW gone, NEW i \in 1 .. Len(s), NEW v \in Seq(S),
           i \in gone, Left(s, gone, i - 1, v)
    PROVE  Left(s, gone, i, v)
<1>0. i - 1 \in Int
  OBVIOUS
<1>1. Cardinality(gone \cap (1 .. i)) = Cardinality(gone \cap (1 .. i - 1)) + 1
  <2>1. gone \cap (1 .. i) = (gone \cap (1 .. i - 1)) \cup {i}
    OBVIOUS
  <2>2. IsFiniteSet(gone \cap (1 .. i - 1))
    BY <1>0, FinitePart
  <2>3. i \notin gone \cap (1 .. i - 1)
    OBVIOUS
  <2>4. QED
    BY <2>1, <2>2, <2>3, FS_AddElement
<1>2. Cardinality(gone \cap (1 .. i - 1)) \in Nat
  BY <1>0, FinitePart
<1>3. PICK f \in [1 .. Len(v) -> 1 .. i - 1] :
          /\ \A j \in 1 .. Len(v) : f[j] \notin gone /\ v[j] = s[f[j]]
          /\ \A j, k \in 1 .. Len(v) : j < k => f[j] < f[k]
          /\ \A m \in 1 .. i - 1 : m \notin gone => \E j \in 1 .. Len(v) : f[j] = m
  BY DEF Left
<1>4. f \in [1 .. Len(v) -> 1 .. i]
  BY <1>3
<1>5. Len(v) = i - Cardinality(gone \cap (1 .. i))
  <2>1. Len(v) = (i - 1) - Cardinality(gone \cap (1 .. i - 1))
    BY Zenon DEF Left
  <2>2. QED
    BY <2>1, <1>1, <1>2
<1>6. \A m \in 1 .. i : m \notin gone => m \in 1 .. i - 1
  OBVIOUS
<1>7. QED
  BY <1>3, <1>4, <1>5, <1>6 DEF Left

\* and any other its entry.
LEMMA LeftStays ==
    ASSUME NEW S, NEW s \in Seq(S), NEW gone, NEW i \in 1 .. Len(s), NEW v \in Seq(S),
           i \notin gone, Left(s, gone, i - 1, v)
    PROVE  Left(s, gone, i, Append(v, s[i]))
<1> DEFINE u == Append(v, s[i])
<1>0. s[i] \in S /\ i - 1 \in Int
  OBVIOUS
<1>1. /\ u \in Seq(S) /\ Len(u) = Len(v) + 1 /\ Len(v) \in Nat /\ u[Len(v) + 1] = s[i]
      /\ \A j \in 1 .. Len(v) : u[j] = v[j]
  BY <1>0
<1>2. gone \cap (1 .. i) = gone \cap (1 .. i - 1)
  OBVIOUS
<1>3. Cardinality(gone \cap (1 .. i - 1)) \in Nat
  BY <1>0, FinitePart
<1>4. PICK f \in [1 .. Len(v) -> 1 .. i - 1] :
          /\ \A j \in 1 .. Len(v) : f[j] \notin gone /\ v[j] = s[f[j]]
          /\ \A j, k \in 1 .. Len(v) : j < k => f[j] < f[k]
          /\ \A m \in 1 .. i - 1 : m \notin gone => \E j \in 1 .. Len(v) : f[j] = m
  BY DEF Left
<1> HIDE DEF u
<1> DEFINE g == [j \in 1 .. Len(u) |-> IF j = Len(u) THEN i ELSE f[j]]
<1>5. /\ g \in [1 .. Len(u) -> 1 .. i] /\ g[Len(u)] = i
      /\ \A j \in 1 .. Len(v) : g[j] = f[j]
  BY <1>1, <1>4
<1> HIDE DEF g
<1>6. Len(u) = i - Cardinality(gone \cap (1 .. i))
  <2>1. Len(v) = (i - 1) - Cardinality(gone \cap (1 .. i - 1))
    BY Zenon DEF Left
  <2>2. QED
    <3>1. Cardinality(gone \cap (1 .. i)) = Cardinality(gone \cap (1 .. i - 1))
      BY <1>2, Zenon
    <3> DEFINE c == Cardinality(gone \cap (1 .. i - 1))
    <3>2. c \in Nat /\ Len(v) = (i - 1) - c /\ i \in Int /\ Len(v) \in Nat /\ Len(u) = Len(v) + 1
      BY <2>1, <1>1, <1>3
    <3> HIDE DEF c
    <3>3. Len(u) = i - c
      BY <3>2
    <3>4. QED
      BY <3>1, <3>3, Zenon DEF c
<1>7. \A j \in 1 .. Len(u) : j = Len(u) \/ j \in 1 .. Len(v)
  BY <1>1
<1>8. \A j \in 1 .. Len(u) : g[j] \notin gone /\ u[j] = s[g[j]]
  BY <1>1, <1>4, <1>5, <1>7
<1>9. \A j, k \in 1 .. Len(u) : j < k => g[j] < g[k]
  <2> SUFFICES ASSUME NEW j \in 1 .. Len(u), NEW k \in 1 .. Len(u), j < k
               PROVE  g[j] < g[k]
    OBVIOUS
  <2>0. j \in 1 .. Len(v)
    BY <1>1
  <2>1. j \in 1 .. Len(v) /\ g[j] = f[j] /\ f[j] \in 1 .. i - 1
    BY <2>0, <1>4, <1>5
  <2>2. CASE k = Len(u)
    BY <2>1, <2>2, <1>5
  <2>3. CASE k \in 1 .. Len(v)
    BY <2>1, <2>3, <1>4, <1>5
  <2>4. QED
    BY <2>2, <2>3, <1>7
<1>10. \A m \in 1 .. i : m \notin gone => \E j \in 1 .. Len(u) : g[j] = m
  <2> SUFFICES ASSUME NEW m \in 1 .. i, m \notin gone
               PROVE  \E j \in 1 .. Len(u) : g[j] = m
    OBVIOUS
  <2>1. CASE m = i
    BY <2>1, <1>1, <1>5
  <2>2. CASE m \in 1 .. i - 1
    <3>1. PICK j \in 1 .. Len(v) : f[j] = m
      BY <2>2, <1>4
    <3>2. QED
      BY <3>1, <1>1, <1>5
  <2>3. QED
    BY <2>1, <2>2
<1>11. QED
  BY <1>5, <1>6, <1>8, <1>9, <1>10 DEF Left, u

\* kept, as Without() defines it.
Kept(s, gone) ==
    LET kept[i \in 0 .. Len(s)] ==
          IF i = 0 THEN <<>>
          ELSE IF i \in gone THEN kept[i - 1] ELSE Append(kept[i - 1], s[i])
    IN  kept

\* The recursive function kept is as its defining equation says.
LEMMA KeptIs ==
    ASSUME NEW s, NEW gone, Len(s) \in Nat
    PROVE  /\ Without(s, gone) = Kept(s, gone)[Len(s)]
           /\ Kept(s, gone) = [i \in 0 .. Len(s) |->
                                 IF i = 0 THEN <<>>
                                 ELSE IF i \in gone THEN Kept(s, gone)[i - 1]
                                 ELSE Append(Kept(s, gone)[i - 1], s[i])]
<1> DEFINE step(x, i) == IF i \in gone THEN x ELSE Append(x, s[i])
           body(f, i) == IF i = 0 THEN <<>> ELSE step(f[i - 1], i)
           N == Len(s)
           S == {n \in Nat : \E f : f = [i \in 0 .. n |-> body(f, i)]}
<1>0. N \in Nat
  OBVIOUS
<1> HIDE DEF step
<1>1. 0 \in S
  <2> DEFINE f == [i \in 0 .. 0 |-> <<>>]
  <2>1. f = [i \in 0 .. 0 |-> body(f, i)]
    OBVIOUS
  <2>2. QED
    BY <2>1
<1>2. ASSUME NEW n \in 1 .. N, n - 1 \in S PROVE n \in S
  <2>1. PICK f : f = [i \in 0 .. n - 1 |-> body(f, i)]
    BY <1>2
  <2> DEFINE h == [i \in 0 .. n |-> IF i = n THEN step(f[n - 1], n) ELSE f[i]]
  <2>2. ASSUME NEW i \in 0 .. n PROVE h[i] = body(h, i)
    <3>1. CASE i = n
      <4>1. h[n - 1] = f[n - 1] /\ n # 0
        BY <1>0
      <4>2. h[n] = step(f[n - 1], n)
        BY <1>0
      <4> HIDE DEF h
      <4>3. QED
        BY <4>1, <4>2, <3>1
    <3>2. CASE i # n
      <4>1. i \in 0 .. n - 1
        BY <3>2, <1>0
      <4>2. f[i] = body(f, i)
        BY <2>1, <4>1
      <4>3. h[i] = f[i] /\ (i # 0 => h[i - 1] = f[i - 1])
        BY <4>1, <1>0
      <4> HIDE DEF h
      <4>4. QED
        BY <4>2, <4>3
    <3>3. QED
      BY <3>1, <3>2
  <2>3. h = [i \in 0 .. n |-> body(h, i)]
    <3>1. h = [i \in 0 .. n |-> h[i]]
      OBVIOUS
    <3> HIDE DEF h, body
    <3>2. QED
      BY <3>1, <2>2
  <2> HIDE DEF h
  <2>4. QED
    BY <2>3, <1>0
<1>3. N \in S
  <2>1. \A n \in 1 .. N : n - 1 \in S => n \in S
    BY <1>2
  <2> HIDE DEF S, N
  <2>2. \A n \in 0 .. N : n \in S
    BY <1>0, <1>1, <2>1, Induction
  <2>3. QED
    BY <2>2, <1>0
<1>4. \E f : f = [i \in 0 .. N |-> body(f, i)]
  BY <1>3
<1>5. Kept(s, gone) = CHOOSE f : f = [i \in 0 .. N |-> body(f, i)]
  BY Zenon DEF Kept, step
<1>6. Kept(s, gone) = [i \in 0 .. N |-> body(Kept(s, gone), i)]
  <2> HIDE DEF body
  <2>1. QED
    BY <1>4, <1>5
<1>7. Without(s, gone) = Kept(s, gone)[N]
  BY Zenon DEF Kept, Without
<1>8. QED
  BY <1>6, <1>7, Zenon DEF step

\* Without() leaves the entries at the other places, in their order.
LEMMA WithoutIs ==
    ASSUME NEW S, NEW s \in Seq(S), NEW gone
    PROVE  /\ Without(s, gone) \in Seq(S)
           /\ Left(s, gone, Len(s), Without(s, gone))
<1>0. Len(s) \in Nat
  OBVIOUS
<1> DEFINE k == Kept(s, gone)
           N == Len(s)
           T == {i \in 0 .. N : k[i] \in Seq(S) /\ Left(s, gone, i, k[i])}
<1>1. /\ Without(s, gone) = k[N]
      /\ k[0] = <<>>
      /\ \A i \in 1 .. N : k[i] = IF i \in gone THEN k[i - 1] ELSE Append(k[i - 1], s[i])
  <2>1. k = [i \in 0 .. N |-> IF i = 0 THEN <<>>
                              ELSE IF i \in gone THEN k[i - 1] ELSE Append(k[i - 1], s[i])]
    BY <1>0, KeptIs, Zenon
  <2> HIDE DEF k
  <2>2. k[0] = <<>>
    BY <2>1, <1>0
  <2>3. \A i \in 1 .. N : k[i] = IF i \in gone THEN k[i - 1] ELSE Append(k[i - 1], s[i])
    <3> SUFFICES ASSUME NEW i \in 1 .. N
                 PROVE  k[i] = IF i \in gone THEN k[i - 1] ELSE Append(k[i - 1], s[i])
      OBVIOUS
    <3>1. i \in 0 .. N /\ i # 0
      BY <1>0
    <3>2. QED
      BY <2>1, <3>1, Zenon
  <2>4. QED
    BY <2>2, <2>3, <1>0, KeptIs, Zenon DEF k
<1> HIDE DEF k
<1>2. 0 \in T
  <2>1. <<>> \in Seq(S) /\ 0 \in 0 .. N
    BY <1>0
  <2>2. k[0] \in Seq(S) /\ Left(s, gone, 0, k[0])
    BY <2>1, <1>1, LeftStart
  <2>3. QED
    BY <2>1, <2>2
<1>3. ASSUME NEW i \in 1 .. N, i - 1 \in T PROVE i \in T
  <2>1. k[i - 1] \in Seq(S) /\ Left(s, gone, i - 1, k[i - 1])
    BY <1>3
  <2>2. CASE i \in gone
    BY <2>1, <2>2, <1>1, <1>0, LeftGone
  <2>3. CASE i \notin gone
    <3>0. s[i] \in S
      OBVIOUS
    <3>1. k[i] = Append(k[i - 1], s[i]) /\ s[i] \in S
      BY <2>3, <1>1, <3>0, Zenon
    <3>2. k[i] \in Seq(S)
      BY <3>1, <2>1
    <3>3. Left(s, gone, i, k[i])
      BY <3>1, <2>1, <2>3, LeftStays
    <3>4. QED
      BY <3>2, <3>3
  <2>4. QED
    BY <2>2, <2>3
<1>4. \A i \in 0 .. N : i \in T
  <2>1. \A n \in 1 .. N : n - 1 \in T => n \in T
    BY <1>3
  <2> HIDE DEF T, N
  <2>2. N \in Nat
    BY <1>0 DEF N
  <2>3. QED
    BY <2>1, <2>2, <1>2, Induction
<1>5. N \in T
  BY <1>4, <1>0
<1>6. QED
  BY <1>5, <1>1

(***************************************************************************)
(* The walk of flckadj(), entry by entry.                                  *)
(***************************************************************************)

\* walk, as Walk() defines it.
WalkTo(list, insrt, ld, count, mem) ==
    LET walk[i \in (WalkFrom(insrt) - 1) .. Len(list)] ==
          IF i = WalkFrom(insrt) - 1 THEN WalkStart(list, insrt, ld, count)
          ELSE Visit(walk[i - 1], list[i], mem)
    IN  walk

\* The recursive function walk is as its defining equation says.
LEMMA WalkIs ==
    ASSUME NEW list, Len(list) \in Nat, NEW insrt, WalkFrom(insrt) - 1 \in 0 .. Len(list),
           NEW ld, NEW count, NEW mem
    PROVE  LET walk == WalkTo(list, insrt, ld, count, mem)
               a == WalkFrom(insrt) - 1
           IN  /\ Walk(list, insrt, ld, count, mem) = walk[Len(list)]
               /\ walk[a] = WalkStart(list, insrt, ld, count)
               /\ \A i \in (a + 1) .. Len(list) : walk[i] = Visit(walk[i - 1], list[i], mem)
<1> DEFINE start == WalkStart(list, insrt, ld, count)
           step(x, i) == Visit(x, list[i], mem)
           a == WalkFrom(insrt) - 1
           N == Len(list)
           body(f, i) == IF i = a THEN start ELSE step(f[i - 1], i)
           S == {n \in Nat : \E f : f = [i \in a .. n |-> body(f, i)]}
           walk == WalkTo(list, insrt, ld, count, mem)
<1>0. N \in Nat /\ a \in Nat /\ a <= N
  OBVIOUS
<1>5. walk = CHOOSE f : f = [i \in a .. N |-> body(f, i)]
  BY Zenon DEF WalkTo
<1>7. Walk(list, insrt, ld, count, mem) = walk[N]
  BY Zenon DEF WalkTo, Walk
<1> HIDE DEF step, start, a, N, walk
<1>1. a \in S
  <2> DEFINE f == [i \in a .. a |-> start]
  <2>1. f = [i \in a .. a |-> body(f, i)]
    BY <1>0
  <2>2. QED
    BY <2>1, <1>0
<1>2. ASSUME NEW n \in Nat, a < n /\ n <= N, n - 1 \in S PROVE n \in S
  <2>1. PICK f : f = [i \in a .. n - 1 |-> body(f, i)]
    BY <1>2
  <2> DEFINE h == [i \in a .. n |-> IF i = n THEN step(f[n - 1], n) ELSE f[i]]
  <2>2. ASSUME NEW i \in a .. n PROVE h[i] = body(h, i)
    <3>1. CASE i = n
      <4>1. h[n - 1] = f[n - 1] /\ n # a
        BY <1>0, <1>2
      <4>2. h[n] = step(f[n - 1], n)
        BY <1>0, <1>2
      <4> HIDE DEF h
      <4>3. QED
        BY <4>1, <4>2, <3>1
    <3>2. CASE i # n
      <4>1. i \in a .. n - 1
        BY <3>2, <1>0
      <4>2. f[i] = body(f, i)
        BY <2>1, <4>1
      <4>3. h[i] = f[i] /\ (i # a => h[i - 1] = f[i - 1])
        BY <4>1, <1>0
      <4> HIDE DEF h
      <4>4. QED
        BY <4>2, <4>3
    <3>3. QED
      BY <3>1, <3>2
  <2>3. h = [i \in a .. n |-> body(h, i)]
    <3>1. h = [i \in a .. n |-> h[i]]
      OBVIOUS
    <3> HIDE DEF h, body
    <3>2. QED
      BY <3>1, <2>2
  <2> HIDE DEF h
  <2>4. QED
    BY <2>3, <1>0
<1>3. N \in S
  <2>1. \A n \in Nat : a < n /\ n <= N /\ n - 1 \in S => n \in S
    BY <1>2
  <2> HIDE DEF S
  <2>2. \A n \in a .. N : n \in S
    BY <1>0, <1>1, <2>1, InductionFrom
  <2>3. QED
    BY <2>2, <1>0
<1>4. \E f : f = [i \in a .. N |-> body(f, i)]
  BY <1>3
<1>6. walk = [i \in a .. N |-> body(walk, i)]
  <2> HIDE DEF body
  <2>1. QED
    BY <1>4, <1>5
<1>8. walk[a] = start
  BY <1>6, <1>0
<1>9. \A i \in (a + 1) .. N : walk[i] = step(walk[i - 1], i)
  <2> SUFFICES ASSUME NEW i \in (a + 1) .. N PROVE walk[i] = step(walk[i - 1], i)
    OBVIOUS
  <2>1. i \in a .. N /\ i # a
    BY <1>0
  <2>2. QED
    BY <1>6, <2>1, Zenon
<1>10. QED
  BY <1>7, <1>8, <1>9, Zenon DEF start, step, a, N, walk

\* V is the list as it stands when entry i of L has been visited: what is
\* behind the walk, and what is still before it.
Joins(V, out, L, i) ==
    /\ V \in Seq(Lock) /\ out \in Seq(Lock)
    /\ Len(V) = Len(out) + Len(L) - i
    /\ \A j \in 1 .. Len(out) : V[j] = out[j]
    /\ \A j \in 1 .. Len(L) - i : V[Len(out) + j] = L[i + j]

\* At the start of the walk it is L,
LEMMA JoinStart ==
    ASSUME NEW L \in Seq(Lock), NEW i \in 0 .. Len(L)
    PROVE  Joins(L, SubSeq(L, 1, i), L, i)
<1> DEFINE s == SubSeq(L, 1, i)
<1>1. s \in Seq(Lock) /\ Len(s) = i /\ \A j \in 1 .. i : s[j] = L[j]
  OBVIOUS
<1> HIDE DEF s
<1>2. Len(L) \in Nat
  OBVIOUS
<1>3. QED
  BY <1>1, <1>2 DEF Joins, s

\* and at its end the list behind it.
LEMMA JoinEnd ==
    ASSUME NEW L \in Seq(Lock), NEW V, NEW out, Joins(V, out, L, Len(L))
    PROVE  V = out
<1>1. V \in Seq(Lock) /\ out \in Seq(Lock) /\ Len(L) \in Nat
  BY DEF Joins
<1>2. Len(V) = Len(out)
  BY <1>1 DEF Joins
<1>3. \A j \in 1 .. Len(out) : V[j] = out[j]
  BY DEF Joins
<1>4. QED
  BY <1>1, <1>2, <1>3

\* The entry that is visited next.
LEMMA JoinNext ==
    ASSUME NEW L \in Seq(Lock), NEW i \in 0 .. Len(L) - 1, NEW V, NEW out, Joins(V, out, L, i)
    PROVE  /\ Len(out) + 1 \in 1 .. Len(V) /\ Len(out) \in 0 .. Len(V) /\ Len(V) \in Nat
           /\ V[Len(out) + 1] = L[i + 1]
           /\ L[i + 1] \in Lock
           /\ V \in Seq(Lock) /\ out \in Seq(Lock)
<1>1. Len(L) \in Nat /\ Len(out) \in Nat /\ Len(V) \in Nat
  BY DEF Joins
<1>2. 1 \in 1 .. Len(L) - i
  BY <1>1
<1>3. QED
  BY <1>1, <1>2 DEF Joins

\* It is passed over,
LEMMA JoinKeep ==
    ASSUME NEW L \in Seq(Lock), NEW i \in 0 .. Len(L) - 1, NEW V, NEW out, Joins(V, out, L, i)
    PROVE  Joins(V, Append(out, L[i + 1]), L, i + 1)
<1> DEFINE t == Append(out, L[i + 1])
<1>0. /\ Len(L) \in Nat /\ Len(out) \in Nat /\ Len(V) \in Nat
      /\ V[Len(out) + 1] = L[i + 1] /\ L[i + 1] \in Lock
      /\ V \in Seq(Lock) /\ out \in Seq(Lock)
  BY JoinNext
<1>1. /\ t \in Seq(Lock) /\ Len(t) = Len(out) + 1 /\ t[Len(out) + 1] = L[i + 1]
      /\ \A j \in 1 .. Len(out) : t[j] = out[j]
  BY <1>0
<1> HIDE DEF t
<1>2. \A j \in 1 .. Len(t) : V[j] = t[j]
  <2>1. \A j \in 1 .. Len(t) : j = Len(out) + 1 \/ j \in 1 .. Len(out)
    BY <1>0, <1>1
  <2>2. QED
    BY <2>1, <1>0, <1>1 DEF Joins
<1>3. \A j \in 1 .. Len(L) - (i + 1) : V[Len(t) + j] = L[(i + 1) + j]
  <2> SUFFICES ASSUME NEW j \in 1 .. Len(L) - (i + 1)
               PROVE  V[Len(t) + j] = L[(i + 1) + j]
    OBVIOUS
  <2>1. j + 1 \in 1 .. Len(L) - i /\ Len(out) + (j + 1) = Len(t) + j /\ i + (j + 1) = (i + 1) + j
    BY <1>0, <1>1
  <2>2. QED
    BY <2>1 DEF Joins
<1>4. Len(V) = Len(t) + Len(L) - (i + 1)
  BY <1>0, <1>1 DEF Joins
<1>5. QED
  BY <1>0, <1>1, <1>2, <1>3, <1>4 DEF Joins, t

\* deleted,
LEMMA JoinDel ==
    ASSUME NEW L \in Seq(Lock), NEW i \in 0 .. Len(L) - 1, NEW V, NEW out, Joins(V, out, L, i)
    PROVE  Joins(Removed(V, Len(out) + 1), out, L, i + 1)
<1> DEFINE n == Len(out)
           U == Removed(V, n + 1)
<1>0. /\ Len(L) \in Nat /\ n \in Nat /\ Len(V) \in Nat /\ n + 1 \in 1 .. Len(V)
      /\ V \in Seq(Lock) /\ out \in Seq(Lock)
  BY JoinNext
<1>1. /\ U \in Seq(Lock) /\ Len(U) = Len(V) - 1
      /\ \A j \in 1 .. (n + 1) - 1 : U[j] = V[j]
      /\ \A j \in n + 1 .. Len(V) - 1 : U[j] = V[j + 1]
  BY <1>0, RemovedIs
<1> HIDE DEF U
<1>2. Len(V) = n + Len(L) - i /\ \A j \in 1 .. n : V[j] = out[j]
  BY DEF Joins
<1>3. \A j \in 1 .. Len(L) - i : V[n + j] = L[i + j]
  BY DEF Joins
<1> HIDE DEF n
<1>4. \A j \in 1 .. n : U[j] = out[j]
  BY <1>0, <1>1, <1>2
<1>5. \A j \in 1 .. Len(L) - (i + 1) : U[n + j] = L[(i + 1) + j]
  <2> SUFFICES ASSUME NEW j \in 1 .. Len(L) - (i + 1)
               PROVE  U[n + j] = L[(i + 1) + j]
    OBVIOUS
  <2>1. j + 1 \in 1 .. Len(L) - i /\ n + j \in n + 1 .. Len(V) - 1
        /\ i + (j + 1) = (i + 1) + j /\ n + (j + 1) = (n + j) + 1
    BY <1>0, <1>2
  <2>2. U[n + j] = V[(n + j) + 1]
    BY <2>1, <1>1
  <2>3. V[n + (j + 1)] = L[i + (j + 1)]
    BY <2>1, <1>3
  <2>4. QED
    BY <2>1, <2>2, <2>3
<1>6. Len(U) = n + Len(L) - (i + 1)
  BY <1>0, <1>1, <1>2
<1>7. QED
  BY <1>0, <1>1, <1>4, <1>5, <1>6 DEF Joins, U, n

\* replaced by what is left of it,
LEMMA JoinPut ==
    ASSUME NEW L \in Seq(Lock), NEW i \in 0 .. Len(L) - 1, NEW V, NEW out, Joins(V, out, L, i),
           NEW c \in Lock
    PROVE  Joins([V EXCEPT ![Len(out) + 1] = c], Append(out, c), L, i + 1)
<1> DEFINE n == Len(out)
           U == [V EXCEPT ![n + 1] = c]
           t == Append(out, c)
<1>0. /\ Len(L) \in Nat /\ n \in Nat /\ Len(V) \in Nat /\ n + 1 \in 1 .. Len(V)
      /\ V \in Seq(Lock) /\ out \in Seq(Lock)
  BY JoinNext
<1>1. /\ U \in Seq(Lock) /\ Len(U) = Len(V) /\ U[n + 1] = c
      /\ \A j \in 1 .. Len(V) : j # n + 1 => U[j] = V[j]
  BY <1>0, ReplacedIs
<1>2. /\ t \in Seq(Lock) /\ Len(t) = n + 1 /\ t[n + 1] = c
      /\ \A j \in 1 .. n : t[j] = out[j]
  BY <1>0
<1> HIDE DEF U, t
<1>3. Len(V) = n + Len(L) - i /\ \A j \in 1 .. n : V[j] = out[j]
  BY DEF Joins
<1>4. \A j \in 1 .. Len(L) - i : V[n + j] = L[i + j]
  BY DEF Joins
<1> HIDE DEF n
<1>5. \A j \in 1 .. Len(t) : U[j] = t[j]
  <2>1. \A j \in 1 .. Len(t) : j = n + 1 \/ (j \in 1 .. n /\ j \in 1 .. Len(V))
    BY <1>0, <1>2
  <2>2. QED
    BY <2>1, <1>0, <1>1, <1>2, <1>3
<1>6. \A j \in 1 .. Len(L) - (i + 1) : U[Len(t) + j] = L[(i + 1) + j]
  <2> SUFFICES ASSUME NEW j \in 1 .. Len(L) - (i + 1)
               PROVE  U[Len(t) + j] = L[(i + 1) + j]
    OBVIOUS
  <2>1. j + 1 \in 1 .. Len(L) - i /\ n + (j + 1) \in 1 .. Len(V) /\ n + (j + 1) # n + 1
        /\ i + (j + 1) = (i + 1) + j /\ n + (j + 1) = Len(t) + j
    BY <1>0, <1>2, <1>3
  <2>2. U[n + (j + 1)] = V[n + (j + 1)]
    BY <2>1, <1>1
  <2>3. V[n + (j + 1)] = L[i + (j + 1)]
    BY <2>1, <1>4
  <2>4. QED
    BY <2>1, <2>2, <2>3
<1>7. Len(U) = Len(t) + Len(L) - (i + 1)
  BY <1>0, <1>1, <1>2, <1>3
<1>8. QED
  BY <1>1, <1>2, <1>5, <1>6, <1>7 DEF Joins, U, t, n

\* or passed over with a piece put in front of it.
LEMMA JoinPiece ==
    ASSUME NEW L \in Seq(Lock), NEW i \in 0 .. Len(L), NEW V, NEW out, Joins(V, out, L, i),
           NEW c \in Lock
    PROVE  Joins(InsertAfter(V, Len(out), c), Append(out, c), L, i)
<1> DEFINE n == Len(out)
           U == InsertAfter(V, n, c)
           t == Append(out, c)
<1>0. /\ Len(L) \in Nat /\ n \in Nat /\ Len(V) \in Nat /\ n \in 0 .. Len(V)
      /\ V \in Seq(Lock) /\ out \in Seq(Lock)
  BY DEF Joins
<1>1. /\ U \in Seq(Lock) /\ Len(U) = Len(V) + 1 /\ U[n + 1] = c
      /\ \A j \in 1 .. n : U[j] = V[j]
      /\ \A j \in n + 2 .. Len(V) + 1 : U[j] = V[j - 1]
  <2> HIDE DEF n
  <2>1. U \in Seq(Lock) /\ Len(U) = Len(V) + 1
    BY <1>0, InsertedIs
  <2>2. U[n + 1] = c /\ \A j \in 1 .. n : U[j] = V[j]
    BY <1>0, InsertedIs
  <2>3. \A j \in n + 2 .. Len(V) + 1 : U[j] = V[j - 1]
    BY <1>0, InsertedIs
  <2>4. QED
    BY <2>1, <2>2, <2>3
<1>2. /\ t \in Seq(Lock) /\ Len(t) = n + 1 /\ t[n + 1] = c
      /\ \A j \in 1 .. n : t[j] = out[j]
  BY <1>0
<1> HIDE DEF U, t
<1>3. Len(V) = n + Len(L) - i /\ \A j \in 1 .. n : V[j] = out[j]
  BY DEF Joins
<1>4. \A j \in 1 .. Len(L) - i : V[n + j] = L[i + j]
  BY DEF Joins
<1> HIDE DEF n
<1>5. \A j \in 1 .. Len(t) : U[j] = t[j]
  <2>1. \A j \in 1 .. Len(t) : j = n + 1 \/ j \in 1 .. n
    BY <1>0, <1>2
  <2>2. QED
    BY <2>1, <1>0, <1>1, <1>2, <1>3
<1>6. \A j \in 1 .. Len(L) - i : U[Len(t) + j] = L[i + j]
  <2> SUFFICES ASSUME NEW j \in 1 .. Len(L) - i
               PROVE  U[Len(t) + j] = L[i + j]
    OBVIOUS
  <2>1. n + j + 1 \in n + 2 .. Len(V) + 1 /\ n + j + 1 = Len(t) + j /\ (n + j + 1) - 1 = n + j
    BY <1>0, <1>2, <1>3
  <2>2. U[n + j + 1] = V[(n + j + 1) - 1]
    BY <2>1, <1>1
  <2>3. QED
    BY <2>1, <2>2, <1>4
<1>7. Len(U) = Len(t) + Len(L) - i
  BY <1>0, <1>1, <1>2, <1>3
<1>8. QED
  BY <1>1, <1>2, <1>5, <1>6, <1>7 DEF Joins, U, t, n

(***************************************************************************)
(* Sound lists: ordered by start, and any two locks can stand together.    *)
(***************************************************************************)

\* The fields of a lock.
LEMMA FlockFacts ==
    ASSUME NEW f \in Flock
    PROVE  /\ f.own \in Owners /\ f.type \in Types \cup {"F_UNLCK"}
           /\ f.start \in Bytes /\ f.end \in Bytes /\ f.start <= f.end
           /\ f.start \in Nat /\ f.end \in Nat /\ f.start <= MAXEND /\ f.end <= MAXEND
BY LimitsNatural DEF Flock, Bytes

\* A lock that begins elsewhere,
LEMMA NewStart ==
    ASSUME NEW f \in Flock, NEW s \in Bytes, s <= f.end
    PROVE  /\ [f EXCEPT !.start = s] \in Flock
           /\ [f EXCEPT !.start = s].own = f.own /\ [f EXCEPT !.start = s].type = f.type
           /\ [f EXCEPT !.start = s].start = s /\ [f EXCEPT !.start = s].end = f.end
<1> DEFINE R == [own : Owners, type : Types \cup {"F_UNLCK"}, start : Bytes, end : Bytes]
           g == [f EXCEPT !.start = s]
<1>1. f \in R
  BY DEF Flock
<1>2. /\ g \in R
      /\ g.own = f.own /\ g.type = f.type /\ g.start = s /\ g.end = f.end
  BY <1>1
<1>3. g \in Flock
  BY <1>2 DEF Flock
<1>4. QED
  BY <1>2, <1>3

\* or ends elsewhere, is still a lock.
LEMMA NewEnd ==
    ASSUME NEW f \in Flock, NEW e \in Bytes, f.start <= e
    PROVE  /\ [f EXCEPT !.end = e] \in Flock
           /\ [f EXCEPT !.end = e].own = f.own /\ [f EXCEPT !.end = e].type = f.type
           /\ [f EXCEPT !.end = e].start = f.start /\ [f EXCEPT !.end = e].end = e
<1> DEFINE R == [own : Owners, type : Types \cup {"F_UNLCK"}, start : Bytes, end : Bytes]
           g == [f EXCEPT !.end = e]
<1>1. f \in R
  BY DEF Flock
<1>2. /\ g \in R
      /\ g.own = f.own /\ g.type = f.type /\ g.start = f.start /\ g.end = e
  BY <1>1
<1>3. g \in Flock
  BY <1>2 DEF Flock
<1>4. QED
  BY <1>2, <1>3

\* The fields of a lock on the list, and whom a change of it wakes.
LEMMA LockFacts ==
    ASSUME NEW l \in Lock
    PROVE  /\ l.set \in Flock /\ l.wakeflg \in BOOLEAN /\ l.slp \in SUBSET Local
           /\ WAKEUP(l) \in SUBSET Local /\ WAKEUP(l) \subseteq l.slp
           /\ (l.slp = {} \/ l.wakeflg) => WAKEUP(l) = l.slp
BY DEF Lock, WAKEUP

\* Nobody sleeps on a new lock.
LEMMA NewLockIs ==
    ASSUME NEW f \in Flock
    PROVE  /\ NewLock(f) \in Lock /\ NewLock(f).set = f /\ NewLock(f).slp = {}
           /\ NewLock(f).wakeflg = FALSE
BY DEF NewLock, Lock

\* Locks of different owners that overlap are both for reading; those of one
\* owner do not overlap, and if they adjoin they are of different types.
Apart(f, g) ==
    /\ f.own # g.own /\ f.start <= g.end /\ g.start <= f.end
       => f.type = "F_RDLCK" /\ g.type = "F_RDLCK"
    /\ f.own = g.own =>
          \/ f.end + 1 < g.start \/ g.end + 1 < f.start
          \/ (f.end + 1 = g.start \/ g.end + 1 = f.start) /\ f.type # g.type

Sound(V) ==
    \A i, j \in DOMAIN V : i < j => /\ V[i].set.start <= V[j].set.start
                                    /\ Apart(V[i].set, V[j].set)

\* Apart is symmetric.
LEMMA ApartSym ==
    ASSUME NEW f \in Flock, NEW g \in Flock, Apart(f, g)
    PROVE  Apart(g, f)
BY FlockFacts DEF Apart

\* Any two locks of a sound list are apart.
LEMMA SoundPair ==
    ASSUME NEW V \in Seq(Lock), Sound(V), NEW i \in 1 .. Len(V), NEW j \in 1 .. Len(V), i # j
    PROVE  Apart(V[i].set, V[j].set)
<1>1. V[i].set \in Flock /\ V[j].set \in Flock /\ i \in Int /\ j \in Int
  BY LockFacts
<1>2. i \in DOMAIN V /\ j \in DOMAIN V
  OBVIOUS
<1>3. CASE i < j
  BY <1>2, <1>3 DEF Sound
<1>4. CASE j < i
  BY <1>1, <1>2, <1>4, ApartSym DEF Sound
<1>5. QED
  BY <1>1, <1>3, <1>4

\* ListSound says of filocks that it is sound.
LEMMA SoundIs == ASSUME TypeOK PROVE ListSound <=> Sound(filocks)
<1>1. ASSUME NEW i \in DOMAIN filocks, NEW j \in DOMAIN filocks, i < j
      PROVE  (LET f == filocks[i].set
                  g == filocks[j].set
              IN  /\ f.start <= g.start
                  /\ f.own # g.own /\ g.start <= f.end
                     => f.type = "F_RDLCK" /\ g.type = "F_RDLCK"
                  /\ f.own = g.own => \/ f.end + 1 < g.start
                                      \/ f.end + 1 = g.start /\ f.type # g.type)
             <=> /\ filocks[i].set.start <= filocks[j].set.start
                 /\ Apart(filocks[i].set, filocks[j].set)
  <2> DEFINE f == filocks[i].set
             g == filocks[j].set
  <2>1. f \in Flock /\ g \in Flock
    BY <1>1, LockFacts DEF TypeOK
  <2> HIDE DEF f, g
  <2>2. (/\ f.start <= g.start
         /\ f.own # g.own /\ g.start <= f.end
            => f.type = "F_RDLCK" /\ g.type = "F_RDLCK"
         /\ f.own = g.own => \/ f.end + 1 < g.start
                             \/ f.end + 1 = g.start /\ f.type # g.type)
        <=> f.start <= g.start /\ Apart(f, g)
    BY <2>1, FlockFacts DEF Apart
  <2>3. QED
    BY <2>2 DEF f, g
<1>2. QED
  BY <1>1, Zenon DEF ListSound, Sound

\* A lock may be taken out of a sound list.
LEMMA SoundDel ==
    ASSUME NEW V \in Seq(Lock), Sound(V), NEW k \in 1 .. Len(V)
    PROVE  Sound(Removed(V, k))
<1> DEFINE U == Removed(V, k)
<1>1. /\ U \in Seq(Lock) /\ Len(U) = Len(V) - 1 /\ Len(V) \in Nat
      /\ \A j \in 1 .. k - 1 : U[j] = V[j]
      /\ \A j \in k .. Len(V) - 1 : U[j] = V[j + 1]
  BY RemovedIs
<1> HIDE DEF U
<1>2. \A i, j \in 1 .. Len(U) : i < j => \E x, y \in 1 .. Len(V) : x < y /\ U[i] = V[x] /\ U[j] = V[y]
  <2> SUFFICES ASSUME NEW i \in 1 .. Len(U), NEW j \in 1 .. Len(U), i < j
               PROVE  \E x, y \in 1 .. Len(V) : x < y /\ U[i] = V[x] /\ U[j] = V[y]
    OBVIOUS
  <2>1. CASE j < k
    BY <2>1, <1>1
  <2>2. CASE i < k /\ k <= j
    <3>1. i \in 1 .. Len(V) /\ j + 1 \in 1 .. Len(V) /\ i < j + 1 /\ U[i] = V[i] /\ U[j] = V[j + 1]
      BY <2>2, <1>1
    <3>2. QED
      BY <3>1
  <2>3. CASE k <= i
    <3>1. i + 1 \in 1 .. Len(V) /\ j + 1 \in 1 .. Len(V) /\ i + 1 < j + 1
          /\ U[i] = V[i + 1] /\ U[j] = V[j + 1]
      BY <2>3, <1>1
    <3>2. QED
      BY <3>1
  <2>4. QED
    BY <2>1, <2>2, <2>3, <1>1
<1>3. DOMAIN U = 1 .. Len(U) /\ DOMAIN V = 1 .. Len(V)
  BY <1>1
<1>4. QED
  BY <1>2, <1>3 DEF Sound, U

\* A lock may lose its end,
LEMMA SoundPut ==
    ASSUME NEW V \in Seq(Lock), Sound(V), NEW k \in 1 .. Len(V), NEW c \in Lock,
           c.set.own = V[k].set.own, c.set.type = V[k].set.type,
           c.set.start = V[k].set.start, c.set.end <= V[k].set.end
    PROVE  Sound([V EXCEPT ![k] = c])
<1> DEFINE U == [V EXCEPT ![k] = c]
<1>1. /\ U \in Seq(Lock) /\ Len(U) = Len(V) /\ U[k] = c
      /\ \A j \in 1 .. Len(V) : j # k => U[j] = V[j]
  BY ReplacedIs
<1> HIDE DEF U
<1>2. c.set \in Flock /\ \A j \in 1 .. Len(V) : V[j].set \in Flock
  BY LockFacts
<1>3. ASSUME NEW g \in Flock, Apart(V[k].set, g)
      PROVE  Apart(c.set, g)
  BY <1>2, <1>3, FlockFacts DEF Apart
<1>4. DOMAIN U = 1 .. Len(V) /\ DOMAIN V = 1 .. Len(V)
  BY <1>1
<1>5. SUFFICES ASSUME NEW i \in 1 .. Len(V), NEW j \in 1 .. Len(V), i < j
               PROVE  U[i].set.start <= U[j].set.start /\ Apart(U[i].set, U[j].set)
  BY <1>4 DEF Sound, U
<1>6. V[i].set.start <= V[j].set.start /\ Apart(V[i].set, V[j].set)
  BY <1>4, <1>5 DEF Sound
<1>7. CASE i = k
  <2>1. U[i] = c /\ U[j] = V[j]
    BY <1>1, <1>5, <1>7
  <2>2. Apart(c.set, V[j].set)
    BY <1>6, <1>7, <1>3, <1>2
  <2>3. QED
    BY <2>1, <2>2, <1>6, <1>7
<1>8. CASE j = k
  <2>1. U[i] = V[i] /\ U[j] = c
    BY <1>1, <1>5, <1>8
  <2>2. Apart(c.set, V[i].set)
    BY <1>6, <1>8, <1>3, <1>2, ApartSym
  <2>3. Apart(V[i].set, c.set)
    BY <2>2, <1>2, ApartSym
  <2>4. QED
    BY <2>1, <2>3, <1>6, <1>8
<1>9. CASE i # k /\ j # k
  <2>1. U[i] = V[i] /\ U[j] = V[j]
    BY <1>1, <1>9
  <2>2. QED
    BY <2>1, <1>6
<1>10. QED
  BY <1>7, <1>8, <1>9

\* and one that is apart from all may be put in its place.
LEMMA SoundInsert ==
    ASSUME NEW V \in Seq(Lock), Sound(V), NEW k \in 0 .. Len(V), NEW c \in Lock,
           \A j \in 1 .. Len(V) : Apart(c.set, V[j].set),
           \A j \in 1 .. k : V[j].set.start <= c.set.start,
           \A j \in k + 1 .. Len(V) : c.set.start <= V[j].set.start
    PROVE  Sound(InsertAfter(V, k, c))
<1> DEFINE U == InsertAfter(V, k, c)
<1>1. /\ U \in Seq(Lock) /\ Len(U) = Len(V) + 1 /\ U[k + 1] = c /\ Len(V) \in Nat
      /\ \A j \in 1 .. k : U[j] = V[j]
      /\ \A j \in k + 2 .. Len(V) + 1 : U[j] = V[j - 1]
  <2>1. U \in Seq(Lock) /\ Len(U) = Len(V) + 1 /\ Len(V) \in Nat
    BY InsertedIs
  <2>2. U[k + 1] = c /\ \A j \in 1 .. k : U[j] = V[j]
    BY InsertedIs
  <2>3. \A j \in k + 2 .. Len(V) + 1 : U[j] = V[j - 1]
    BY InsertedIs
  <2>4. QED
    BY <2>1, <2>2, <2>3
<1> HIDE DEF U
<1>2. c.set \in Flock /\ \A j \in 1 .. Len(V) : V[j].set \in Flock /\ Apart(V[j].set, c.set)
  BY LockFacts, ApartSym
<1>4. DOMAIN U = 1 .. Len(V) + 1 /\ DOMAIN V = 1 .. Len(V)
  BY <1>1
<1>5. SUFFICES ASSUME NEW i \in 1 .. Len(V) + 1, NEW j \in 1 .. Len(V) + 1, i < j
               PROVE  U[i].set.start <= U[j].set.start /\ Apart(U[i].set, U[j].set)
  BY <1>4 DEF Sound, U
<1>6. \A x, y \in 1 .. Len(V) : x < y => V[x].set.start <= V[y].set.start /\ Apart(V[x].set, V[y].set)
  BY <1>4 DEF Sound
<1>7. CASE j <= k
  <2>1. i \in 1 .. k /\ j \in 1 .. k /\ i \in 1 .. Len(V) /\ j \in 1 .. Len(V)
    BY <1>5, <1>7
  <2>2. U[i] = V[i] /\ U[j] = V[j]
    BY <2>1, <1>1
  <2>3. QED
    BY <2>1, <2>2, <1>5, <1>6
<1>8. CASE j = k + 1
  <2>1. i \in 1 .. k /\ i \in 1 .. Len(V)
    BY <1>5, <1>8
  <2>2. U[i] = V[i] /\ U[j] = c
    BY <2>1, <1>1, <1>8
  <2>3. QED
    BY <2>1, <2>2, <1>2
<1>9. CASE k + 1 < j /\ i <= k
  <2>1. i \in 1 .. k /\ j \in k + 2 .. Len(V) + 1 /\ i \in 1 .. Len(V) /\ j - 1 \in 1 .. Len(V) /\ i < j - 1
    BY <1>5, <1>9
  <2>2. U[i] = V[i] /\ U[j] = V[j - 1]
    BY <2>1, <1>1
  <2>3. QED
    BY <2>1, <2>2, <1>6
<1>10. CASE k + 1 < j /\ i = k + 1
  <2>1. j \in k + 2 .. Len(V) + 1 /\ j - 1 \in k + 1 .. Len(V) /\ j - 1 \in 1 .. Len(V)
    BY <1>5, <1>10
  <2>2. U[i] = c /\ U[j] = V[j - 1]
    BY <2>1, <1>1, <1>10
  <2>3. QED
    BY <2>1, <2>2
<1>11. CASE k + 1 < i
  <2>1. i \in k + 2 .. Len(V) + 1 /\ j \in k + 2 .. Len(V) + 1
        /\ i - 1 \in 1 .. Len(V) /\ j - 1 \in 1 .. Len(V) /\ i - 1 < j - 1
    BY <1>5, <1>11
  <2>2. U[i] = V[i - 1] /\ U[j] = V[j - 1]
    BY <2>1, <1>1
  <2>3. QED
    BY <2>1, <2>2, <1>6
<1>12. QED
  BY <1>5, <1>7, <1>8, <1>9, <1>10, <1>11

(***************************************************************************)
(* What is locked: lock f covers byte b, and a list has such a lock.       *)
(***************************************************************************)

Cov(f, o, b, t) == f.own = o /\ f.start <= b /\ b <= f.end /\ f.type = t

Has(V, o, b, t) == \E j \in 1 .. Len(V) : Cov(V[j].set, o, b, t)

\* A byte is locked once by an owner.
LEMMA HasOnce ==
    ASSUME NEW V \in Seq(Lock), Sound(V), NEW o, NEW b \in Int, NEW t, NEW u,
           Has(V, o, b, t), Has(V, o, b, u)
    PROVE  t = u
<1>1. PICK i \in 1 .. Len(V) : Cov(V[i].set, o, b, t)
  BY DEF Has
<1>2. PICK j \in 1 .. Len(V) : Cov(V[j].set, o, b, u)
  BY DEF Has
<1>3. CASE i = j
  BY <1>1, <1>2, <1>3 DEF Cov
<1>4. CASE i # j
  <2>1. Apart(V[i].set, V[j].set)
    BY <1>4, SoundPair
  <2>2. V[i].set \in Flock /\ V[j].set \in Flock
    BY LockFacts
  <2>3. QED
    BY <2>1, <2>2, <1>1, <1>2, FlockFacts DEF Apart, Cov
<1>5. QED
  BY <1>3, <1>4

\* What a list has locked when a lock is taken out,
LEMMA HasDel ==
    ASSUME NEW V \in Seq(Lock), NEW k \in 1 .. Len(V), NEW o, NEW b, NEW t
    PROVE  /\ Has(V, o, b, t) => Has(Removed(V, k), o, b, t) \/ Cov(V[k].set, o, b, t)
           /\ Has(Removed(V, k), o, b, t) => Has(V, o, b, t)
<1> DEFINE U == Removed(V, k)
<1>1. /\ U \in Seq(Lock) /\ Len(U) = Len(V) - 1 /\ Len(V) \in Nat
      /\ \A j \in 1 .. k - 1 : U[j] = V[j]
      /\ \A j \in k .. Len(V) - 1 : U[j] = V[j + 1]
  <2>1. U \in Seq(Lock) /\ Len(U) = Len(V) - 1 /\ Len(V) \in Nat
    BY RemovedIs
  <2>2. \A j \in 1 .. k - 1 : U[j] = V[j]
    BY RemovedIs
  <2>3. \A j \in k .. Len(V) - 1 : U[j] = V[j + 1]
    BY RemovedIs
  <2>4. QED
    BY <2>1, <2>2, <2>3
<1> HIDE DEF U
<1>2. ASSUME Has(V, o, b, t), ~Cov(V[k].set, o, b, t) PROVE Has(U, o, b, t)
  <2>1. PICK j \in 1 .. Len(V) : Cov(V[j].set, o, b, t)
    BY <1>2 DEF Has
  <2>2. CASE j < k
    <3>1. j \in 1 .. Len(U) /\ U[j] = V[j]
      BY <2>2, <1>1
    <3>2. QED
      BY <3>1, <2>1 DEF Has
  <2>3. CASE j > k
    <3>1. j - 1 \in 1 .. Len(U) /\ j - 1 \in k .. Len(V) - 1 /\ (j - 1) + 1 = j
      BY <2>3, <1>1
    <3>2. U[j - 1] = V[j]
      BY <3>1, <1>1
    <3>3. QED
      BY <3>1, <3>2, <2>1 DEF Has
  <2>4. QED
    BY <2>1, <2>2, <2>3, <1>2, <1>1
<1>3. ASSUME Has(U, o, b, t) PROVE Has(V, o, b, t)
  <2>1. PICK j \in 1 .. Len(U) : Cov(U[j].set, o, b, t)
    BY <1>3 DEF Has
  <2>2. CASE j < k
    <3>1. j \in 1 .. Len(V) /\ U[j] = V[j]
      BY <2>2, <1>1
    <3>2. QED
      BY <3>1, <2>1 DEF Has
  <2>3. CASE j >= k
    <3>1. j + 1 \in 1 .. Len(V) /\ U[j] = V[j + 1]
      BY <2>3, <1>1
    <3>2. QED
      BY <3>1, <2>1 DEF Has
  <2>4. QED
    BY <2>2, <2>3, <1>1
<1>4. QED
  BY <1>2, <1>3 DEF U

\* exchanged,
LEMMA HasPut ==
    ASSUME NEW V \in Seq(Lock), NEW k \in 1 .. Len(V), NEW c \in Lock, NEW o, NEW b, NEW t
    PROVE  /\ Has(V, o, b, t) => Has([V EXCEPT ![k] = c], o, b, t) \/ Cov(V[k].set, o, b, t)
           /\ Has([V EXCEPT ![k] = c], o, b, t) => Has(V, o, b, t) \/ Cov(c.set, o, b, t)
           /\ Cov(c.set, o, b, t) => Has([V EXCEPT ![k] = c], o, b, t)
<1> DEFINE U == [V EXCEPT ![k] = c]
<1>1. /\ U \in Seq(Lock) /\ Len(U) = Len(V) /\ U[k] = c
      /\ \A j \in 1 .. Len(V) : j # k => U[j] = V[j]
  BY ReplacedIs
<1> HIDE DEF U
<1>2. ASSUME Has(V, o, b, t), ~Cov(V[k].set, o, b, t) PROVE Has(U, o, b, t)
  <2>1. PICK j \in 1 .. Len(V) : Cov(V[j].set, o, b, t)
    BY <1>2 DEF Has
  <2>2. j # k
    BY <2>1, <1>2
  <2>3. U[j] = V[j] /\ j \in 1 .. Len(U)
    BY <2>1, <2>2, <1>1
  <2>4. QED
    BY <2>1, <2>3 DEF Has
<1>3. Has(U, o, b, t) => Has(V, o, b, t) \/ Cov(c.set, o, b, t)
  BY <1>1 DEF Has
<1>4. Cov(c.set, o, b, t) => Has(U, o, b, t)
  BY <1>1 DEF Has
<1>5. QED
  BY <1>2, <1>3, <1>4 DEF U

\* or put in.
LEMMA HasInsert ==
    ASSUME NEW V \in Seq(Lock), NEW k \in 0 .. Len(V), NEW c \in Lock, NEW o, NEW b, NEW t
    PROVE  Has(InsertAfter(V, k, c), o, b, t) <=> Has(V, o, b, t) \/ Cov(c.set, o, b, t)
<1> DEFINE U == InsertAfter(V, k, c)
<1>1. U \in Seq(Lock) /\ Len(U) = Len(V) + 1 /\ Len(V) \in Nat
  BY InsertedIs
<1>2. U[k + 1] = c /\ \A j \in 1 .. k : U[j] = V[j]
  BY InsertedIs
<1>3. \A j \in k + 2 .. Len(V) + 1 : U[j] = V[j - 1]
  BY InsertedIs
<1> HIDE DEF U
<1>4. ASSUME Has(V, o, b, t) PROVE Has(U, o, b, t)
  <2>1. PICK j \in 1 .. Len(V) : Cov(V[j].set, o, b, t)
    BY <1>4 DEF Has
  <2>2. CASE j <= k
    <3>1. j \in 1 .. Len(U) /\ U[j] = V[j]
      BY <2>2, <1>1, <1>2
    <3>2. QED
      BY <3>1, <2>1 DEF Has
  <2>3. CASE j > k
    <3>1. j + 1 \in 1 .. Len(U) /\ j + 1 \in k + 2 .. Len(V) + 1 /\ (j + 1) - 1 = j
      BY <2>3, <1>1
    <3>2. U[j + 1] = V[j]
      BY <3>1, <1>3
    <3>3. QED
      BY <3>1, <3>2, <2>1 DEF Has
  <2>4. QED
    BY <2>2, <2>3, <1>1
<1>5. ASSUME Cov(c.set, o, b, t) PROVE Has(U, o, b, t)
  <2>1. k + 1 \in 1 .. Len(U)
    BY <1>1
  <2>2. QED
    BY <2>1, <1>2, <1>5 DEF Has
<1>6. ASSUME Has(U, o, b, t) PROVE Has(V, o, b, t) \/ Cov(c.set, o, b, t)
  <2>1. PICK j \in 1 .. Len(U) : Cov(U[j].set, o, b, t)
    BY <1>6 DEF Has
  <2>2. CASE j <= k
    <3>1. j \in 1 .. Len(V) /\ U[j] = V[j]
      BY <2>2, <1>1, <1>2
    <3>2. QED
      BY <3>1, <2>1 DEF Has
  <2>3. CASE j = k + 1
    BY <2>3, <2>1, <1>2
  <2>4. CASE j > k + 1
    <3>1. j - 1 \in 1 .. Len(V) /\ j \in k + 2 .. Len(V) + 1
      BY <2>4, <1>1
    <3>2. U[j] = V[j - 1]
      BY <3>1, <1>3
    <3>3. QED
      BY <3>1, <3>2, <2>1 DEF Has
  <2>5. QED
    BY <2>2, <2>3, <2>4, <1>1
<1>7. QED
  BY <1>4, <1>5, <1>6 DEF U

(***************************************************************************)
(* The steps flckadj() is built from, field by field.                      *)
(***************************************************************************)

WalkState ==
    [out : Seq(Lock), ld : Flock, insrtp : Nat, td : Flock \cup {NULL}, count : Int,
     woken : SUBSET Local, over : BOOLEAN, ret : {"ok", "have", "ENOLCK"}]

\* The fields of a walk.
LEMMA StateFacts ==
    ASSUME NEW w \in WalkState
    PROVE  /\ w.out \in Seq(Lock) /\ w.ld \in Flock /\ w.insrtp \in Nat
           /\ w.td \in Flock \cup {NULL} /\ w.count \in Int /\ w.woken \in SUBSET Local
           /\ w.over \in BOOLEAN /\ w.ret \in {"ok", "have", "ENOLCK"}
           /\ Len(w.out) \in Nat
BY DEF WalkState

\* A new value for out,
LEMMA StateOut ==
    ASSUME NEW w \in WalkState, NEW v \in Seq(Lock), NEW x, x = [w EXCEPT !.out = v]
    PROVE  /\ x \in WalkState /\ x.out = v /\ x.ld = w.ld /\ x.insrtp = w.insrtp
           /\ x.td = w.td /\ x.count = w.count /\ x.woken = w.woken
           /\ x.over = w.over /\ x.ret = w.ret
BY DEF WalkState

\* for ld,
LEMMA StateLd ==
    ASSUME NEW w \in WalkState, NEW v \in Flock, NEW x, x = [w EXCEPT !.ld = v]
    PROVE  /\ x \in WalkState /\ x.out = w.out /\ x.ld = v /\ x.insrtp = w.insrtp
           /\ x.td = w.td /\ x.count = w.count /\ x.woken = w.woken
           /\ x.over = w.over /\ x.ret = w.ret
BY DEF WalkState

\* for insrtp,
LEMMA StateInsrtp ==
    ASSUME NEW w \in WalkState, NEW v \in Nat, NEW x, x = [w EXCEPT !.insrtp = v]
    PROVE  /\ x \in WalkState /\ x.out = w.out /\ x.ld = w.ld /\ x.insrtp = v
           /\ x.td = w.td /\ x.count = w.count /\ x.woken = w.woken
           /\ x.over = w.over /\ x.ret = w.ret
BY DEF WalkState

\* for td,
LEMMA StateTd ==
    ASSUME NEW w \in WalkState, NEW v \in Flock \cup {NULL}, NEW x, x = [w EXCEPT !.td = v]
    PROVE  /\ x \in WalkState /\ x.out = w.out /\ x.ld = w.ld /\ x.insrtp = w.insrtp
           /\ x.td = v /\ x.count = w.count /\ x.woken = w.woken
           /\ x.over = w.over /\ x.ret = w.ret
BY DEF WalkState

\* for count,
LEMMA StateCount ==
    ASSUME NEW w \in WalkState, NEW v \in Int, NEW x, x = [w EXCEPT !.count = v]
    PROVE  /\ x \in WalkState /\ x.out = w.out /\ x.ld = w.ld /\ x.insrtp = w.insrtp
           /\ x.td = w.td /\ x.count = v /\ x.woken = w.woken
           /\ x.over = w.over /\ x.ret = w.ret
BY DEF WalkState

\* for woken,
LEMMA StateWoken ==
    ASSUME NEW w \in WalkState, NEW v \in SUBSET Local, NEW x, x = [w EXCEPT !.woken = v]
    PROVE  /\ x \in WalkState /\ x.out = w.out /\ x.ld = w.ld /\ x.insrtp = w.insrtp
           /\ x.td = w.td /\ x.count = w.count /\ x.woken = v
           /\ x.over = w.over /\ x.ret = w.ret
BY DEF WalkState

\* or for ret changes that field alone.
LEMMA StateRet ==
    ASSUME NEW w \in WalkState, NEW v \in {"ok", "have", "ENOLCK"}, NEW x, x = [w EXCEPT !.ret = v]
    PROVE  /\ x \in WalkState /\ x.out = w.out /\ x.ld = w.ld /\ x.insrtp = w.insrtp
           /\ x.td = w.td /\ x.count = w.count /\ x.woken = w.woken
           /\ x.over = w.over /\ x.ret = v
BY DEF WalkState

\* The end of the work.
LEMMA OverIs ==
    ASSUME NEW w \in WalkState, NEW x, x = Over(w)
    PROVE  /\ x \in WalkState /\ x.out = w.out /\ x.ld = w.ld /\ x.insrtp = w.insrtp
           /\ x.td = w.td /\ x.count = w.count /\ x.woken = w.woken
           /\ x.over = TRUE /\ x.ret = w.ret
BY DEF WalkState, Over

\* The new lock goes behind what the walk has behind it.
LEMMA BeforeIs ==
    ASSUME NEW w \in WalkState, NEW x, x = Before(w)
    PROVE  /\ x \in WalkState /\ x.out = w.out /\ x.ld = w.ld /\ x.insrtp = Len(w.out)
           /\ x.td = w.td /\ x.count = w.count /\ x.woken = w.woken
           /\ x.over = w.over /\ x.ret = w.ret
BY StateFacts, StateInsrtp DEF Before

\* A lock that is passed over, with no piece to place.
LEMMA KeepIs ==
    ASSUME NEW w \in WalkState, NEW l \in Lock, w.td = NULL \/ l.set.start < w.td.start,
           NEW x, x = Keep(w, l)
    PROVE  /\ x \in WalkState /\ x.out = Append(w.out, l) /\ x.ld = w.ld /\ x.insrtp = w.insrtp
           /\ x.td = w.td /\ x.count = w.count /\ x.woken = w.woken
           /\ x.over = w.over /\ x.ret = w.ret
<1>1. x = [w EXCEPT !.out = Append(w.out, l)]
  <2>1. ~(w.td # NULL /\ l.set.start >= w.td.start)
    <3>1. CASE w.td = NULL
      BY <3>1
    <3>2. CASE w.td # NULL
      <4>1. w.td \in Flock /\ l.set \in Flock
        BY <3>2, StateFacts, LockFacts
      <4>2. QED
        BY <4>1, <3>2, FlockFacts
    <3>3. QED
      BY <3>1, <3>2
  <2>2. QED
    BY <2>1, Zenon DEF Keep
<1> DEFINE v == Append(w.out, l)
<1>2. v \in Seq(Lock) /\ x = [w EXCEPT !.out = v]
  BY <1>1, StateFacts
<1> HIDE DEF v
<1>3. /\ x \in WalkState /\ x.out = v /\ x.ld = w.ld /\ x.insrtp = w.insrtp
      /\ x.td = w.td /\ x.count = w.count /\ x.woken = w.woken
      /\ x.over = w.over /\ x.ret = w.ret
  BY <1>2, StateOut
<1>4. QED
  BY <1>3 DEF v

\* delflck() of a lock that the walk comes to.
LEMMA DelIs ==
    ASSUME NEW w \in WalkState, NEW l \in Lock, NEW x, x = Del(w, l)
    PROVE  /\ x \in WalkState /\ x.out = w.out /\ x.ld = w.ld /\ x.insrtp = w.insrtp
           /\ x.td = w.td /\ x.count = w.count - 1 /\ x.woken = w.woken \cup WAKEUP(l)
           /\ x.over = w.over /\ x.ret = w.ret
<1> DEFINE v == [w EXCEPT !.woken = w.woken \cup WAKEUP(l)]
<1>1. w.woken \cup WAKEUP(l) \in SUBSET Local /\ w.count - 1 \in Int
  BY StateFacts, LockFacts
<1>2. /\ v \in WalkState /\ v.out = w.out /\ v.ld = w.ld /\ v.insrtp = w.insrtp
      /\ v.td = w.td /\ v.count = w.count /\ v.woken = w.woken \cup WAKEUP(l)
      /\ v.over = w.over /\ v.ret = w.ret
  BY <1>1, StateWoken
<1>3. x = [v EXCEPT !.count = w.count - 1]
  BY Zenon DEF Del, WalkState
<1> HIDE DEF v
<1>4. QED
  BY <1>1, <1>2, <1>3, StateCount

\* A lock that loses its end keeps its owner, type and start.
LEMMA ShrunkIs ==
    ASSUME NEW l \in Lock, NEW e \in Bytes, l.set.start <= e, NEW c, c = Shrunk(l, e)
    PROVE  /\ c \in Lock /\ c.set \in Flock /\ c.set.own = l.set.own /\ c.set.type = l.set.type
           /\ c.set.start = l.set.start /\ c.set.end = e
           /\ c.slp = l.slp \ WAKEUP(l) /\ c.wakeflg = FALSE
<1>1. /\ [l.set EXCEPT !.end = e] \in Flock
      /\ [l.set EXCEPT !.end = e].own = l.set.own /\ [l.set EXCEPT !.end = e].type = l.set.type
      /\ [l.set EXCEPT !.end = e].start = l.set.start /\ [l.set EXCEPT !.end = e].end = e
  BY LockFacts, NewEnd
<1> DEFINE g == [l.set EXCEPT !.end = e]
           b == [l EXCEPT !.set = g]
           d == [b EXCEPT !.wakeflg = FALSE]
<1>2. b \in Lock /\ b.set = g /\ b.slp = l.slp /\ b.wakeflg = l.wakeflg
  <2> HIDE DEF g
  <2>1. g \in Flock
    BY <1>1 DEF g
  <2>2. QED
    BY <2>1 DEF Lock
<1>3. d \in Lock /\ d.set = g /\ d.slp = l.slp /\ d.wakeflg = FALSE
  <2> HIDE DEF b
  <2>1. QED
    BY <1>2 DEF Lock
<1>4. c = [d EXCEPT !.slp = l.slp \ WAKEUP(l)]
  BY Zenon DEF Shrunk, Lock
<1>5. c \in Lock /\ c.set = g /\ c.wakeflg = FALSE /\ c.slp = l.slp \ WAKEUP(l)
  <2> HIDE DEF d
  <2>1. l.slp \ WAKEUP(l) \in SUBSET Local
    BY LockFacts
  <2>2. QED
    BY <2>1, <1>3, <1>4 DEF Lock
<1>6. QED
  BY <1>1, <1>5

\* The end of a lock is cut off where the region starts.
LEMMA CutIs ==
    ASSUME NEW w \in WalkState, NEW l \in Lock, l.set.start < w.ld.start, NEW x, x = Cut(w, l)
    PROVE  /\ x \in WalkState /\ x.out = Append(w.out, Shrunk(l, w.ld.start - 1))
           /\ x.ld = w.ld /\ x.insrtp = Len(w.out) + 1
           /\ x.td = w.td /\ x.count = w.count /\ x.woken = w.woken \cup WAKEUP(l)
           /\ x.over = w.over /\ x.ret = w.ret
<1> DEFINE c == Shrunk(l, w.ld.start - 1)
           s == Append(w.out, c)
           k == w.woken \cup WAKEUP(l)
           u == [w EXCEPT !.out = s]
           v == [u EXCEPT !.woken = k]
<1>1. k \in SUBSET Local /\ Len(w.out) + 1 \in Nat
  BY StateFacts, LockFacts
<1>2. l.set \in Flock /\ w.ld \in Flock
  BY StateFacts, LockFacts
<1>3. l.set.start \in Nat /\ w.ld.start \in Nat /\ w.ld.start <= MAXEND
  BY <1>2, FlockFacts
<1>4. w.ld.start - 1 \in Bytes /\ l.set.start <= w.ld.start - 1
  BY <1>3, LimitsNatural DEF Bytes
<1>5. c \in Lock
  BY <1>4, ShrunkIs
<1>6. x = [v EXCEPT !.insrtp = Len(w.out) + 1]
  BY Zenon DEF Cut, WalkState
<1> HIDE DEF c
<1>7. s \in Seq(Lock)
  BY <1>5, StateFacts
<1> HIDE DEF s, k
<1>8. /\ u \in WalkState /\ u.out = s /\ u.ld = w.ld /\ u.insrtp = w.insrtp
      /\ u.td = w.td /\ u.count = w.count /\ u.woken = w.woken
      /\ u.over = w.over /\ u.ret = w.ret
  BY <1>7, StateOut
<1> HIDE DEF u
<1>9. /\ v \in WalkState /\ v.out = s /\ v.ld = w.ld /\ v.insrtp = w.insrtp
      /\ v.td = w.td /\ v.count = w.count /\ v.woken = k
      /\ v.over = w.over /\ v.ret = w.ret
  BY <1>1, <1>8, StateWoken
<1> HIDE DEF v
<1>10. /\ x \in WalkState /\ x.out = s /\ x.ld = w.ld /\ x.insrtp = Len(w.out) + 1
       /\ x.td = w.td /\ x.count = w.count /\ x.woken = k
       /\ x.over = w.over /\ x.ret = w.ret
  BY <1>1, <1>6, <1>9, StateInsrtp
<1>11. QED
  BY <1>10 DEF c, s, k

(***************************************************************************)
(* The case table of flckadj().                                            *)
(***************************************************************************)

\* What each answer of regflck() says of the two regions.
LEMMA RegIs ==
    ASSUME NEW ld \in Flock, NEW f \in Flock, NEW reg, reg = regflck(ld, f)
    PROVE  \/ reg = <<"S_BEFORE", "E_BEFORE">> /\ ld.end + 1 < f.start
           \/ reg = <<"S_BEFORE", "E_START">> /\ ld.end + 1 = f.start
           \/ reg = <<"S_START", "E_END">> /\ ld.start = f.start /\ ld.end = f.end
           \/ reg = <<"S_START", "E_AFTER">> /\ ld.start = f.start /\ f.end < ld.end
           \/ reg = <<"S_BEFORE", "E_END">> /\ ld.start < f.start /\ ld.end = f.end
           \/ reg = <<"S_BEFORE", "E_AFTER">> /\ ld.start < f.start /\ f.end < ld.end
           \/ reg = <<"S_START", "E_MIDDLE">> /\ ld.start = f.start /\ ld.end < f.end
           \/ reg = <<"S_MIDDLE", "E_MIDDLE">> /\ f.start < ld.start /\ ld.end < f.end
           \/ /\ reg = <<"S_BEFORE", "E_MIDDLE">>
              /\ ld.start < f.start /\ f.start <= ld.end /\ ld.end < f.end
           \/ reg = <<"S_MIDDLE", "E_END">> /\ f.start < ld.start /\ ld.end = f.end
           \/ /\ reg = <<"S_MIDDLE", "E_AFTER">>
              /\ f.start < ld.start /\ ld.start <= f.end /\ f.end < ld.end
           \/ reg = <<"S_END", "E_AFTER">> /\ ld.start = f.end + 1
           \/ reg = <<"S_AFTER", "E_AFTER">> /\ f.end + 1 < ld.start
<1> DEFINE a == ld.start
           b == ld.end
           c == f.start
           d == f.end
<1>1. a \in Nat /\ b \in Nat /\ c \in Nat /\ d \in Nat /\ a <= b /\ c <= d
  BY FlockFacts
<1>2. reg = IF a > c /\ a - 1 = d THEN <<"S_END", "E_AFTER">>
            ELSE IF a > d THEN <<"S_AFTER", "E_AFTER">>
            ELSE << CASE a > c -> "S_MIDDLE"
                      [] a = c -> "S_START"
                      [] a < c -> "S_BEFORE",
                    CASE b = d -> "E_END"
                      [] b > d -> "E_AFTER"
                      [] b < d /\ b = c - 1 -> "E_START"
                      [] b < c - 1 -> "E_BEFORE"
                      [] b < d /\ b >= c -> "E_MIDDLE" >>
  BY Zenon DEF regflck
<1> HIDE DEF a, b, c, d
<1> DEFINE s == CASE a > c -> "S_MIDDLE"
                  [] a = c -> "S_START"
                  [] a < c -> "S_BEFORE"
           e == CASE b = d -> "E_END"
                  [] b > d -> "E_AFTER"
                  [] b < d /\ b = c - 1 -> "E_START"
                  [] b < c - 1 -> "E_BEFORE"
                  [] b < d /\ b >= c -> "E_MIDDLE"
<1>3. /\ a > c => s = "S_MIDDLE"
      /\ a = c => s = "S_START"
      /\ a < c => s = "S_BEFORE"
  BY <1>1
<1>4. /\ b = d => e = "E_END"
      /\ b > d => e = "E_AFTER"
      /\ b < d /\ b = c - 1 => e = "E_START"
      /\ b < c - 1 => e = "E_BEFORE"
      /\ b < d /\ b >= c => e = "E_MIDDLE"
  BY <1>1
<1>5. reg = IF a > c /\ a - 1 = d THEN <<"S_END", "E_AFTER">>
            ELSE IF a > d THEN <<"S_AFTER", "E_AFTER">>
            ELSE <<s, e>>
  BY <1>2, Zenon
<1> HIDE DEF s, e
<1>6. CASE a = d + 1
  BY <1>1, <1>5, <1>6 DEF a, b, c, d
<1>7. CASE a > d + 1
  BY <1>1, <1>5, <1>7 DEF a, b, c, d
<1>8. CASE a <= d
  <2>1. reg = <<s, e>>
    BY <1>1, <1>5, <1>8
  <2>2. CASE a < c
    <3>1. reg = <<"S_BEFORE", e>>
      BY <2>1, <2>2, <1>3
    <3>2. CASE b < c - 1
      BY <3>1, <3>2, <2>2, <1>1, <1>4 DEF a, b, c, d
    <3>3. CASE b = c - 1
      BY <3>1, <3>3, <2>2, <1>1, <1>4 DEF a, b, c, d
    <3>4. CASE b >= c /\ b < d
      BY <3>1, <3>4, <2>2, <1>1, <1>4 DEF a, b, c, d
    <3>5. CASE b = d
      BY <3>1, <3>5, <2>2, <1>1, <1>4 DEF a, b, c, d
    <3>6. CASE b > d
      BY <3>1, <3>6, <2>2, <1>1, <1>4 DEF a, b, c, d
    <3>7. QED
      BY <3>2, <3>3, <3>4, <3>5, <3>6, <1>1
  <2>3. CASE a = c
    <3>1. reg = <<"S_START", e>>
      BY <2>1, <2>3, <1>3
    <3>2. CASE b < d
      BY <3>1, <3>2, <2>3, <1>1, <1>4 DEF a, b, c, d
    <3>3. CASE b = d
      BY <3>1, <3>3, <2>3, <1>1, <1>4 DEF a, b, c, d
    <3>4. CASE b > d
      BY <3>1, <3>4, <2>3, <1>1, <1>4 DEF a, b, c, d
    <3>5. QED
      BY <3>2, <3>3, <3>4, <1>1
  <2>4. CASE a > c
    <3>1. reg = <<"S_MIDDLE", e>>
      BY <2>1, <2>4, <1>3
    <3>2. CASE b < d
      BY <3>1, <3>2, <2>4, <1>1, <1>4 DEF a, b, c, d
    <3>3. CASE b = d
      BY <3>1, <3>3, <2>4, <1>1, <1>4 DEF a, b, c, d
    <3>4. CASE b > d
      BY <3>1, <3>4, <2>4, <1>1, <1>4, <1>8 DEF a, b, c, d
    <3>5. QED
      BY <3>2, <3>3, <3>4, <1>1
  <2>5. QED
    BY <2>2, <2>3, <2>4, <1>1
<1>9. QED
  BY <1>6, <1>7, <1>8, <1>1

Rows(w, l, mem, reg, x) ==
    LET same == w.ld.type = l.set.type
            joinL == [w EXCEPT !.ld.start = l.set.start]
            joinR == [w EXCEPT !.ld.end = l.set.end]
            inside == Over([Keep(w, l) EXCEPT !.ret = "have"])
        IN  /\ reg = <<"S_BEFORE", "E_BEFORE">> => x = Over(Keep(w, l))
            /\ reg = <<"S_BEFORE", "E_START">> =>
                  x = Over(IF same THEN Del(joinR, l) ELSE Keep(w, l))
            /\ reg = <<"S_START", "E_END">> =>
                  x = IF same THEN inside ELSE Del(Before(w), l)
            /\ reg = <<"S_START", "E_AFTER">> => x = Del(Before(w), l)
            /\ reg = <<"S_BEFORE", "E_END">> =>
                  x = IF same THEN Over(Del(w, l)) ELSE Del(w, l)
            /\ reg = <<"S_BEFORE", "E_AFTER">> => x = Del(w, l)
            /\ reg = <<"S_START", "E_MIDDLE">> =>
                  x = IF same THEN inside ELSE Split(Before(w), l, reg, mem)
            /\ reg = <<"S_MIDDLE", "E_MIDDLE">> =>
                  x = IF same THEN inside ELSE Split(w, l, reg, mem)
            /\ reg = <<"S_BEFORE", "E_MIDDLE">> =>
                  x = IF same THEN Over(Del(joinR, l)) ELSE Split(w, l, reg, mem)
            /\ reg = <<"S_MIDDLE", "E_END">> => x = IF same THEN inside ELSE Cut(w, l)
            /\ reg = <<"S_MIDDLE", "E_AFTER">> =>
                  x = IF same THEN Del(Before(joinL), l) ELSE Cut(w, l)
            /\ reg = <<"S_END", "E_AFTER">> =>
                  x = IF same THEN Del(Before(joinL), l) ELSE Keep(w, l)
            /\ reg = <<"S_AFTER", "E_AFTER">> =>
                  x = Keep([w EXCEPT !.insrtp = Len(w.out) + 1], l)

\* What flckadj() does with a lock of the owner in each row of the table.
LEMMA AdjustIs ==
    ASSUME NEW w, NEW l, NEW mem, NEW reg, reg = regflck(w.ld, l.set),
           NEW x, x = Adjust(w, l, mem)
    PROVE  Rows(w, l, mem, reg, x)
<1> DEFINE same == w.ld.type = l.set.type
           joinL == [w EXCEPT !.ld.start = l.set.start]
           joinR == [w EXCEPT !.ld.end = l.set.end]
           inside == Over([Keep(w, l) EXCEPT !.ret = "have"])
           row1 == Over(Keep(w, l))
           row2 == Over(IF same THEN Del(joinR, l) ELSE Keep(w, l))
           row3 == IF same THEN inside ELSE Del(Before(w), l)
           row4 == Del(Before(w), l)
           row5 == IF same THEN Over(Del(w, l)) ELSE Del(w, l)
           row6 == Del(w, l)
           row7 == IF same THEN inside ELSE Split(Before(w), l, reg, mem)
           row8 == IF same THEN inside ELSE Split(w, l, reg, mem)
           row9 == IF same THEN Over(Del(joinR, l)) ELSE Split(w, l, reg, mem)
           row10 == IF same THEN inside ELSE Cut(w, l)
           row11 == IF same THEN Del(Before(joinL), l) ELSE Cut(w, l)
           row12 == IF same THEN Del(Before(joinL), l) ELSE Keep(w, l)
           row13 == Keep([w EXCEPT !.insrtp = Len(w.out) + 1], l)
<1>1. x = CASE reg = <<"S_BEFORE", "E_BEFORE">> -> row1
           [] reg = <<"S_BEFORE", "E_START">> -> row2
           [] reg = <<"S_START", "E_END">> -> row3
           [] reg = <<"S_START", "E_AFTER">> -> row4
           [] reg = <<"S_BEFORE", "E_END">> -> row5
           [] reg = <<"S_BEFORE", "E_AFTER">> -> row6
           [] reg = <<"S_START", "E_MIDDLE">> -> row7
           [] reg = <<"S_MIDDLE", "E_MIDDLE">> -> row8
           [] reg = <<"S_BEFORE", "E_MIDDLE">> -> row9
           [] reg = <<"S_MIDDLE", "E_END">> -> row10
           [] reg = <<"S_MIDDLE", "E_AFTER">> -> row11
           [] reg = <<"S_END", "E_AFTER">> -> row12
           [] reg = <<"S_AFTER", "E_AFTER">> -> row13
  BY Zenon DEF Adjust
<1> HIDE DEF row1, row2, row3, row4, row5, row6, row7, row8, row9, row10, row11, row12, row13
<1>2. reg = <<"S_BEFORE", "E_BEFORE">> => x = row1
  BY <1>1
<1>3. reg = <<"S_BEFORE", "E_START">> => x = row2
  BY <1>1
<1>4. reg = <<"S_START", "E_END">> => x = row3
  BY <1>1
<1>5. reg = <<"S_START", "E_AFTER">> => x = row4
  BY <1>1
<1>6. reg = <<"S_BEFORE", "E_END">> => x = row5
  BY <1>1
<1>7. reg = <<"S_BEFORE", "E_AFTER">> => x = row6
  BY <1>1
<1>8. reg = <<"S_START", "E_MIDDLE">> => x = row7
  BY <1>1
<1>9. reg = <<"S_MIDDLE", "E_MIDDLE">> => x = row8
  BY <1>1
<1>10. reg = <<"S_BEFORE", "E_MIDDLE">> => x = row9
  BY <1>1
<1>11. reg = <<"S_MIDDLE", "E_END">> => x = row10
  BY <1>1
<1>12. reg = <<"S_MIDDLE", "E_AFTER">> => x = row11
  BY <1>1
<1>13. reg = <<"S_END", "E_AFTER">> => x = row12
  BY <1>1
<1>14. reg = <<"S_AFTER", "E_AFTER">> => x = row13
  BY <1>1
<1>15. QED
  BY <1>2, <1>3, <1>4, <1>5, <1>6, <1>7, <1>8, <1>9, <1>10, <1>11, <1>12, <1>13, <1>14, Zenon
     DEF Rows, row1, row2, row3, row4, row5, row6, row7, row8, row9, row10, row11, row12, row13

(***************************************************************************)
(* The ways a visit can go: the lock is passed over, deleted, or cut.      *)
(***************************************************************************)

Passes(w, l, x) ==
    /\ x \in WalkState
    /\ x.out = Append(w.out, l) /\ x.ld = w.ld /\ x.td = w.td
    /\ x.count = w.count /\ x.woken = w.woken

\* It is another owner's, or all is done.
Passed(f, w, l, x) ==
    /\ Passes(w, l, x)
    /\ w.over \/ l.set.own # f.own
    /\ w.td = NULL \/ l.set.start < w.td.start
    /\ x.over = w.over /\ x.ret = w.ret /\ x.insrtp = w.insrtp

\* It does not overlap the region.
Cleared(w, l, x) ==
    /\ Passes(w, l, x)
    /\ Apart(w.ld, l.set)
    /\ x.ret = "ok"
    /\ x.over => w.ld.end < l.set.start
    /\ \/ x.insrtp = w.insrtp
       \/ x.insrtp = Len(w.out) + 1 /\ l.set.start <= w.ld.start

\* It has the region as asked.
Inside(w, l, x) ==
    /\ Passes(w, l, x)
    /\ w.ld.type = l.set.type /\ l.set.start <= w.ld.start /\ w.ld.end <= l.set.end
    /\ x.ret = "have" /\ x.over

\* There is no record for its rest.
Short(w, l, x) ==
    /\ Passes(w, l, x)
    /\ x.ret = "ENOLCK" /\ x.over

\* What becomes of the rest of l behind the region.
Rest(w, l, x) ==
    \/ x.td = NULL /\ l.set.end <= w.ld.end
    \/ /\ x.td \in Flock /\ x.td # NULL
       /\ x.td.own = l.set.own /\ x.td.type = l.set.type
       /\ x.td.start = w.ld.end + 1 /\ x.td.end = l.set.end
       /\ w.ld.end < l.set.end /\ x.over /\ w.count < t_flckrec

Gained(x) == IF x.td = NULL THEN 0 ELSE 1

\* The region takes l in, being of its type.
Joined(w, l, x) ==
    /\ w.ld.type = l.set.type /\ x.td = NULL
    /\ l.set.start <= w.ld.end + 1 /\ w.ld.start <= l.set.end + 1
    /\ x.ld.own = w.ld.own /\ x.ld.type = w.ld.type
    /\ x.ld.start = IF l.set.start < w.ld.start THEN l.set.start ELSE w.ld.start
    /\ x.ld.end = IF l.set.end > w.ld.end THEN l.set.end ELSE w.ld.end
    /\ x.over => x.ld.end = l.set.end

\* The region takes l away, or all of it but its rest.
Overlaid(w, l, x) ==
    /\ w.ld.type # l.set.type /\ x.ld = w.ld
    /\ w.ld.start <= l.set.start /\ l.set.start <= w.ld.end
    /\ Rest(w, l, x)
    /\ x.over => x.td # NULL

Deleted(w, l, x) ==
    /\ x \in WalkState
    /\ x.out = w.out /\ x.ret = "ok" /\ x.woken = w.woken \cup WAKEUP(l)
    /\ x.insrtp = IF l.set.start <= w.ld.start THEN Len(w.out) ELSE w.insrtp
    /\ x.count = w.count - 1 + Gained(x)
    /\ Joined(w, l, x) \/ Overlaid(w, l, x)

Shortened(w, l, x) ==
    /\ x \in WalkState
    /\ x.out = Append(w.out, Shrunk(l, w.ld.start - 1)) /\ x.ld = w.ld
    /\ x.ret = "ok" /\ x.woken = w.woken \cup WAKEUP(l)
    /\ x.insrtp = Len(w.out) + 1
    /\ x.count = w.count + Gained(x)
    /\ w.ld.type # l.set.type /\ l.set.start < w.ld.start /\ w.ld.start <= l.set.end
    /\ Rest(w, l, x)
    /\ x.over => x.td # NULL

Fresh(w) == w \in WalkState /\ w.td = NULL /\ w.ret = "ok" /\ ~w.over

\* NULL is neither a lock nor an owner nor a request.
LEMMA NullFacts == NULL \notin Flock /\ NULL \notin Owners /\ NULL \notin Call
BY NullIsNothing

\* A lock passed over is one of these.
LEMMA KeptCases ==
    ASSUME NEW w, Fresh(w), NEW l \in Lock, NEW k, k = Keep(w, l)
    PROVE  Passes(w, l, k) /\ k.ret = "ok" /\ k.insrtp = w.insrtp /\ k.over = FALSE
<1>1. /\ k \in WalkState /\ k.out = Append(w.out, l) /\ k.ld = w.ld /\ k.insrtp = w.insrtp
      /\ k.td = w.td /\ k.count = w.count /\ k.woken = w.woken
      /\ k.over = w.over /\ k.ret = w.ret
  BY KeepIs DEF Fresh
<1>2. w.over = FALSE
  BY StateFacts DEF Fresh
<1>3. QED
  BY <1>1, <1>2 DEF Passes, Fresh

\* So is one passed over when the work ends.
LEMMA OverCases ==
    ASSUME NEW w, NEW l, NEW k, Passes(w, l, k), NEW x, x = Over(k)
    PROVE  Passes(w, l, x) /\ x.ret = k.ret /\ x.insrtp = k.insrtp /\ x.over = TRUE
<1>1. k \in WalkState
  BY DEF Passes
<1>2. /\ x \in WalkState /\ x.out = k.out /\ x.ld = k.ld /\ x.insrtp = k.insrtp
      /\ x.td = k.td /\ x.count = k.count /\ x.woken = k.woken
      /\ x.over = TRUE /\ x.ret = k.ret
  BY <1>1, OverIs
<1>3. QED
  BY <1>2 DEF Passes

\* The work ends at a lock that is passed over, with this answer.
LEMMA InsideIs ==
    ASSUME NEW w, Fresh(w), NEW l \in Lock, NEW r \in {"have", "ENOLCK"},
           NEW x, x = Over([Keep(w, l) EXCEPT !.ret = r])
    PROVE  Passes(w, l, x) /\ x.ret = r /\ x.over
<1> DEFINE k == Keep(w, l)
           u == [k EXCEPT !.ret = r]
<1>1. /\ k \in WalkState /\ k.out = Append(w.out, l) /\ k.ld = w.ld /\ k.insrtp = w.insrtp
      /\ k.td = w.td /\ k.count = w.count /\ k.woken = w.woken
      /\ k.over = w.over /\ k.ret = w.ret
  BY KeepIs DEF Fresh
<1> HIDE DEF k
<1>2. /\ u \in WalkState /\ u.out = k.out /\ u.ld = k.ld /\ u.insrtp = k.insrtp
      /\ u.td = k.td /\ u.count = k.count /\ u.woken = k.woken
      /\ u.over = k.over /\ u.ret = r
  BY <1>1, StateRet
<1>3. x = Over(u)
  BY DEF k
<1> HIDE DEF u
<1>4. /\ x \in WalkState /\ x.out = u.out /\ x.ld = u.ld /\ x.insrtp = u.insrtp
      /\ x.td = u.td /\ x.count = u.count /\ x.woken = u.woken
      /\ x.over = TRUE /\ x.ret = u.ret
  BY <1>2, <1>3, OverIs
<1>5. QED
  BY <1>1, <1>2, <1>4 DEF Passes

Splits(v, l, reg, x) ==
    \/ Passes(v, l, x) /\ x.ret = "ENOLCK" /\ x.over
    \/ /\ x \in WalkState /\ x.ld = v.ld /\ x.ret = "ok"
       /\ x.woken = v.woken \cup WAKEUP(l) /\ x.over = TRUE
       /\ x.td # NULL /\ Rest(v, l, x)
       /\ IF reg = <<"S_MIDDLE", "E_MIDDLE">>
          THEN /\ x.out = Append(v.out, Shrunk(l, v.ld.start - 1))
               /\ x.insrtp = Len(v.out) + 1 /\ x.count = v.count + 1
          ELSE x.out = v.out /\ x.insrtp = v.insrtp /\ x.count = v.count

\* A split that finds no record passes over the lock; any other leaves its rest.
LEMMA SplitIs ==
    ASSUME NEW v, Fresh(v), NEW l \in Lock, v.ld.end < l.set.end, l.set.start <= v.ld.end,
           NEW mem \in BOOLEAN, NEW reg, reg = <<"S_MIDDLE", "E_MIDDLE">> => l.set.start < v.ld.start,
           NEW x, x = Split(v, l, reg, mem)
    PROVE  Splits(v, l, reg, x)
<1> DEFINE td == [l.set EXCEPT !.start = v.ld.end + 1]
           u == [v EXCEPT !.td = td]
           z == [u EXCEPT !.count = v.count + 1]
           y == IF reg = <<"S_MIDDLE", "E_MIDDLE">> THEN Cut(z, l) ELSE Del(z, l)
<1>1. CASE ~Room(v.count, mem)
  <2>1. x = Over([Keep(v, l) EXCEPT !.ret = "ENOLCK"])
    BY <1>1, Zenon DEF Split
  <2>2. QED
    BY <2>1, InsideIs DEF Splits
<1>2. CASE Room(v.count, mem)
  <2>1. v \in WalkState
    BY DEF Fresh
  <2>2. x = Over(y)
    BY <1>2, <2>1, Zenon DEF Split, WalkState
  <2>3. l.set \in Flock /\ v.ld \in Flock /\ v.count \in Int /\ v.count + 1 \in Int
    BY <2>1, LockFacts, StateFacts
  <2>4. /\ l.set.end \in Nat /\ v.ld.end \in Nat /\ l.set.end <= MAXEND /\ l.set.start \in Nat
        /\ v.ld.end + 1 \in Bytes /\ v.ld.end + 1 <= l.set.end
    BY <2>3, FlockFacts, LimitsNatural DEF Bytes
  <2>5. /\ td \in Flock /\ td.own = l.set.own /\ td.type = l.set.type
        /\ td.start = v.ld.end + 1 /\ td.end = l.set.end
    BY <2>3, <2>4, NewStart
  <2>6. td # NULL
    BY <2>5, NullFacts
  <2> HIDE DEF td
  <2>7. /\ u \in WalkState /\ u.out = v.out /\ u.ld = v.ld /\ u.insrtp = v.insrtp
        /\ u.td = td /\ u.count = v.count /\ u.woken = v.woken
        /\ u.over = v.over /\ u.ret = v.ret
    BY <2>1, <2>5, StateTd
  <2> HIDE DEF u
  <2>8. /\ z \in WalkState /\ z.out = v.out /\ z.ld = v.ld /\ z.insrtp = v.insrtp
        /\ z.td = td /\ z.count = v.count + 1 /\ z.woken = v.woken
        /\ z.over = v.over /\ z.ret = v.ret
    BY <2>3, <2>7, StateCount
  <2> HIDE DEF z
  <2>9. CASE reg = <<"S_MIDDLE", "E_MIDDLE">>
    <3>1. y = Cut(z, l) /\ l.set.start < z.ld.start
      BY <2>9, <2>8
    <3> HIDE DEF y
    <3>2. /\ y \in WalkState /\ y.out = Append(z.out, Shrunk(l, z.ld.start - 1))
          /\ y.ld = z.ld /\ y.insrtp = Len(z.out) + 1
          /\ y.td = z.td /\ y.count = z.count /\ y.woken = z.woken \cup WAKEUP(l)
          /\ y.over = z.over /\ y.ret = z.ret
      BY <3>1, <2>8, CutIs
    <3>3. /\ x \in WalkState /\ x.out = y.out /\ x.ld = y.ld /\ x.insrtp = y.insrtp
          /\ x.td = y.td /\ x.count = y.count /\ x.woken = y.woken
          /\ x.over = TRUE /\ x.ret = y.ret
      BY <3>2, <2>2, OverIs
    <3>4. x.out = Append(v.out, Shrunk(l, v.ld.start - 1)) /\ x.insrtp = Len(v.out) + 1
      BY <3>2, <3>3, <2>8
    <3>5. /\ x.ld = v.ld /\ x.ret = "ok" /\ x.count = v.count + 1 /\ x.td = td
          /\ x.woken = v.woken \cup WAKEUP(l)
      BY <3>2, <3>3, <2>8 DEF Fresh
    <3>6. Rest(v, l, x)
      BY <3>3, <3>5, <2>5, <2>6, <1>2 DEF Rest, Room
    <3>7. QED
      BY <3>3, <3>4, <3>5, <3>6, <2>6, <2>9 DEF Splits
  <2>10. CASE reg # <<"S_MIDDLE", "E_MIDDLE">>
    <3>1. y = Del(z, l)
      BY <2>10
    <3> HIDE DEF y
    <3>2. /\ y \in WalkState /\ y.out = z.out
          /\ y.ld = z.ld /\ y.insrtp = z.insrtp
          /\ y.td = z.td /\ y.count = z.count - 1 /\ y.woken = z.woken \cup WAKEUP(l)
          /\ y.over = z.over /\ y.ret = z.ret
      BY <3>1, <2>8, DelIs
    <3>3. /\ x \in WalkState /\ x.out = y.out /\ x.ld = y.ld /\ x.insrtp = y.insrtp
          /\ x.td = y.td /\ x.count = y.count /\ x.woken = y.woken
          /\ x.over = TRUE /\ x.ret = y.ret
      BY <3>2, <2>2, OverIs
    <3>4. x.out = v.out /\ x.insrtp = v.insrtp
      BY <3>2, <3>3, <2>8
    <3>5. /\ x.ld = v.ld /\ x.ret = "ok" /\ x.count = v.count /\ x.td = td
          /\ x.woken = v.woken \cup WAKEUP(l)
      BY <3>2, <3>3, <2>3, <2>8 DEF Fresh
    <3>6. Rest(v, l, x)
      BY <3>3, <3>5, <2>5, <2>6, <1>2 DEF Rest, Room
    <3>7. QED
      BY <3>3, <3>4, <3>5, <3>6, <2>6, <2>10 DEF Splits
  <2>11. QED
    BY <2>9, <2>10
<1>3. QED
  BY <1>1, <1>2

\* A deletion, with the region as it was or grown.
LEMMA DelForm ==
    ASSUME NEW w, Fresh(w), NEW l \in Lock, NEW v \in WalkState,
           v.out = w.out, v.td = w.td, v.count = w.count, v.woken = w.woken, v.ret = w.ret,
           NEW x, x = Del(v, l) \/ x = Over(Del(v, l))
    PROVE  /\ x \in WalkState /\ x.out = w.out /\ x.ret = "ok" /\ x.td = NULL
           /\ x.woken = w.woken \cup WAKEUP(l) /\ x.insrtp = v.insrtp
           /\ x.count = w.count - 1 + Gained(x) /\ x.ld = v.ld
<1> DEFINE d == Del(v, l)
<1>1. /\ d \in WalkState /\ d.out = v.out /\ d.ld = v.ld /\ d.insrtp = v.insrtp
      /\ d.td = v.td /\ d.count = v.count - 1 /\ d.woken = v.woken \cup WAKEUP(l)
      /\ d.over = v.over /\ d.ret = v.ret
  BY DelIs
<1> DEFINE o == Over(d)
<1>2. x = d \/ x = o
  OBVIOUS
<1> HIDE DEF d
<1>3. /\ o \in WalkState /\ o.out = d.out /\ o.ld = d.ld /\ o.insrtp = d.insrtp
      /\ o.td = d.td /\ o.count = d.count /\ o.woken = d.woken
      /\ o.over = TRUE /\ o.ret = d.ret
  BY <1>1, OverIs
<1> HIDE DEF o
<1>4. x \in WalkState /\ x.out = w.out /\ x.insrtp = v.insrtp /\ x.ld = v.ld /\ x.td = NULL
      /\ x.woken = w.woken \cup WAKEUP(l) /\ x.count = w.count - 1 /\ x.ret = "ok"
  BY <1>1, <1>2, <1>3 DEF Fresh
<1>5. Gained(x) = 0 /\ w.count \in Int
  BY <1>4, StateFacts DEF Gained, Fresh
<1>6. QED
  BY <1>4, <1>5

\* A deletion does not end the work.
LEMMA DelOver ==
    ASSUME NEW v \in WalkState, NEW l \in Lock, NEW x, x = Del(v, l)
    PROVE  x.over = v.over
BY DelIs

\* The region grows to the left or to the right.
Grown(w, v, s, e) ==
    /\ v \in WalkState /\ v.out = w.out /\ v.td = w.td
    /\ v.count = w.count /\ v.woken = w.woken /\ v.ret = w.ret
    /\ v.insrtp = w.insrtp /\ v.over = w.over
    /\ v.ld.own = w.ld.own /\ v.ld.type = w.ld.type
    /\ v.ld.start = s /\ v.ld.end = e

\* To the left, as far as a lock that meets it,
LEMMA GrownLeft ==
    ASSUME NEW w \in WalkState, NEW l \in Lock, l.set.start <= w.ld.end
    PROVE  Grown(w, [w EXCEPT !.ld.start = l.set.start], l.set.start, w.ld.end)
<1>0. w.ld \in Flock /\ l.set.start \in Bytes
  BY StateFacts, LockFacts, FlockFacts
<1> DEFINE L == [w.ld EXCEPT !.start = l.set.start]
           v == [w EXCEPT !.ld = L]
<1>1. v = [w EXCEPT !.ld.start = l.set.start]
  BY Zenon DEF WalkState
<1>2. /\ L \in Flock /\ L.own = w.ld.own /\ L.type = w.ld.type
      /\ L.start = l.set.start /\ L.end = w.ld.end
  BY <1>0, NewStart
<1> HIDE DEF L
<1>3. /\ v \in WalkState /\ v.out = w.out /\ v.td = w.td
      /\ v.count = w.count /\ v.woken = w.woken /\ v.ret = w.ret
      /\ v.insrtp = w.insrtp /\ v.over = w.over /\ v.ld = L
  BY <1>2, StateLd
<1> HIDE DEF v
<1>4. Grown(w, v, l.set.start, w.ld.end)
  BY <1>2, <1>3 DEF Grown
<1>5. QED
  BY <1>1, <1>4, Zenon

\* or to the right.
LEMMA GrownRight ==
    ASSUME NEW w \in WalkState, NEW l \in Lock, w.ld.start <= l.set.end
    PROVE  Grown(w, [w EXCEPT !.ld.end = l.set.end], w.ld.start, l.set.end)
<1>0. w.ld \in Flock /\ l.set.end \in Bytes
  BY StateFacts, LockFacts, FlockFacts
<1> DEFINE L == [w.ld EXCEPT !.end = l.set.end]
           v == [w EXCEPT !.ld = L]
<1>1. v = [w EXCEPT !.ld.end = l.set.end]
  BY Zenon DEF WalkState
<1>2. /\ L \in Flock /\ L.own = w.ld.own /\ L.type = w.ld.type
      /\ L.start = w.ld.start /\ L.end = l.set.end
  BY <1>0, NewEnd
<1> HIDE DEF L
<1>3. /\ v \in WalkState /\ v.out = w.out /\ v.td = w.td
      /\ v.count = w.count /\ v.woken = w.woken /\ v.ret = w.ret
      /\ v.insrtp = w.insrtp /\ v.over = w.over /\ v.ld = L
  BY <1>2, StateLd
<1> HIDE DEF v
<1>4. Grown(w, v, w.ld.start, l.set.end)
  BY <1>2, <1>3 DEF Grown
<1>5. QED
  BY <1>1, <1>4, Zenon

Visited(w, l, x) ==
    Cleared(w, l, x) \/ Inside(w, l, x) \/ Short(w, l, x) \/ Deleted(w, l, x) \/ Shortened(w, l, x)

\* The whole table: a visit goes one of these five ways.
LEMMA AdjustCases ==
    ASSUME NEW w, Fresh(w), NEW l \in Lock, l.set.own = w.ld.own, NEW mem \in BOOLEAN,
           NEW x, x = Adjust(w, l, mem)
    PROVE  Visited(w, l, x)
<1> DEFINE same == w.ld.type = l.set.type
           a == w.ld.start
           b == w.ld.end
           c == l.set.start
           d == l.set.end
<1>61. PICK reg : reg = regflck(w.ld, l.set)
  OBVIOUS
<1>62. PICK kept : kept = Keep(w, l)
  OBVIOUS
<1>63. PICK passed : passed = Over(kept)
  OBVIOUS
<1>64. PICK before : before = Before(w)
  OBVIOUS
<1>65. PICK behind : behind = [w EXCEPT !.insrtp = Len(w.out) + 1]
  OBVIOUS
<1>66. PICK joinL : joinL = [w EXCEPT !.ld.start = l.set.start]
  OBVIOUS
<1>67. PICK joinR : joinR = [w EXCEPT !.ld.end = l.set.end]
  OBVIOUS
<1>68. PICK inside : inside = Over([Keep(w, l) EXCEPT !.ret = "have"])
  OBVIOUS
<1>0. w \in WalkState /\ w.ld \in Flock /\ l.set \in Flock /\ w.td = NULL /\ w.ret = "ok"
      /\ w.over = FALSE /\ Len(w.out) \in Nat
  BY StateFacts, LockFacts DEF Fresh
<1>1. a \in Nat /\ b \in Nat /\ c \in Nat /\ d \in Nat /\ a <= b /\ c <= d
  BY <1>0, FlockFacts
<1>2. /\ Passes(w, l, kept) /\ kept.ret = "ok" /\ kept.insrtp = w.insrtp /\ kept.over = FALSE
      /\ Passes(w, l, passed) /\ passed.ret = "ok" /\ passed.insrtp = w.insrtp
  <2>1. Passes(w, l, kept) /\ kept.ret = "ok" /\ kept.insrtp = w.insrtp /\ kept.over = FALSE
    BY <1>62, KeptCases
  <2>2. Passes(w, l, passed) /\ passed.ret = "ok" /\ passed.insrtp = w.insrtp
    <3>1. Passes(w, l, kept)
      BY <2>1
    <3>2. Passes(w, l, passed) /\ passed.ret = kept.ret /\ passed.insrtp = kept.insrtp
      BY <3>1, <1>63, OverCases, Zenon
    <3>3. QED
      BY <3>2, <2>1
  <2>3. QED
    BY <2>1, <2>2
<1>3. /\ before \in WalkState /\ before.out = w.out /\ before.ld = w.ld
      /\ before.insrtp = Len(w.out)
      /\ before.td = w.td /\ before.count = w.count /\ before.woken = w.woken
      /\ before.over = w.over /\ before.ret = w.ret /\ Fresh(before)
  BY <1>0, <1>64, BeforeIs DEF Fresh
<1>4. /\ behind \in WalkState /\ behind.out = w.out /\ behind.ld = w.ld
      /\ behind.insrtp = Len(w.out) + 1
      /\ behind.td = w.td /\ behind.count = w.count /\ behind.woken = w.woken
      /\ behind.over = w.over /\ behind.ret = w.ret /\ Fresh(behind)
  BY <1>0, <1>65, StateInsrtp DEF Fresh
<1>5. c <= b => Grown(w, joinL, c, b)
  BY <1>0, <1>66, GrownLeft, Zenon
<1>6. a <= d => Grown(w, joinR, a, d)
  BY <1>0, <1>67, GrownRight, Zenon
<1>7. Passes(w, l, inside) /\ inside.ret = "have" /\ inside.over
  BY <1>68, InsideIs
<1>70. Rows(w, l, mem, reg, x)
  BY <1>61, AdjustIs
<1>8. reg = <<"S_BEFORE", "E_BEFORE">> => x = passed
  BY <1>70, <1>62, <1>63, <1>64, <1>65, <1>66, <1>67, <1>68, Zenon DEF Rows
<1>9. reg = <<"S_BEFORE", "E_START">> => x = Over(IF same THEN Del(joinR, l) ELSE kept)
  BY <1>70, <1>62, <1>63, <1>64, <1>65, <1>66, <1>67, <1>68, Zenon DEF Rows
<1>10. reg = <<"S_START", "E_END">> => x = IF same THEN inside ELSE Del(before, l)
  BY <1>70, <1>62, <1>63, <1>64, <1>65, <1>66, <1>67, <1>68, Zenon DEF Rows
<1>11. reg = <<"S_START", "E_AFTER">> => x = Del(before, l)
  BY <1>70, <1>62, <1>63, <1>64, <1>65, <1>66, <1>67, <1>68, Zenon DEF Rows
<1>12. reg = <<"S_BEFORE", "E_END">> => x = IF same THEN Over(Del(w, l)) ELSE Del(w, l)
  BY <1>70, <1>62, <1>63, <1>64, <1>65, <1>66, <1>67, <1>68, Zenon DEF Rows
<1>13. reg = <<"S_BEFORE", "E_AFTER">> => x = Del(w, l)
  BY <1>70, <1>62, <1>63, <1>64, <1>65, <1>66, <1>67, <1>68, Zenon DEF Rows
<1>14. reg = <<"S_START", "E_MIDDLE">> => x = IF same THEN inside ELSE Split(before, l, reg, mem)
  BY <1>70, <1>62, <1>63, <1>64, <1>65, <1>66, <1>67, <1>68, Zenon DEF Rows
<1>15. reg = <<"S_MIDDLE", "E_MIDDLE">> => x = IF same THEN inside ELSE Split(w, l, reg, mem)
  BY <1>70, <1>62, <1>63, <1>64, <1>65, <1>66, <1>67, <1>68, Zenon DEF Rows
<1>16. reg = <<"S_BEFORE", "E_MIDDLE">> => x = IF same THEN Over(Del(joinR, l)) ELSE Split(w, l, reg, mem)
  BY <1>70, <1>62, <1>63, <1>64, <1>65, <1>66, <1>67, <1>68, Zenon DEF Rows
<1>17. reg = <<"S_MIDDLE", "E_END">> => x = IF same THEN inside ELSE Cut(w, l)
  BY <1>70, <1>62, <1>63, <1>64, <1>65, <1>66, <1>67, <1>68, Zenon DEF Rows
<1>18. reg = <<"S_MIDDLE", "E_AFTER">> => x = IF same THEN Del(Before(joinL), l) ELSE Cut(w, l)
  BY <1>70, <1>62, <1>63, <1>64, <1>65, <1>66, <1>67, <1>68, Zenon DEF Rows
<1>19. reg = <<"S_END", "E_AFTER">> => x = IF same THEN Del(Before(joinL), l) ELSE kept
  BY <1>70, <1>62, <1>63, <1>64, <1>65, <1>66, <1>67, <1>68, Zenon DEF Rows
<1>20. reg = <<"S_AFTER", "E_AFTER">> => x = Keep(behind, l)
  BY <1>70, <1>62, <1>63, <1>64, <1>65, <1>66, <1>67, <1>68, Zenon DEF Rows
<1>21. \/ reg = <<"S_BEFORE", "E_BEFORE">> /\ b + 1 < c
       \/ reg = <<"S_BEFORE", "E_START">> /\ b + 1 = c
       \/ reg = <<"S_START", "E_END">> /\ a = c /\ b = d
       \/ reg = <<"S_START", "E_AFTER">> /\ a = c /\ d < b
       \/ reg = <<"S_BEFORE", "E_END">> /\ a < c /\ b = d
       \/ reg = <<"S_BEFORE", "E_AFTER">> /\ a < c /\ d < b
       \/ reg = <<"S_START", "E_MIDDLE">> /\ a = c /\ b < d
       \/ reg = <<"S_MIDDLE", "E_MIDDLE">> /\ c < a /\ b < d
       \/ reg = <<"S_BEFORE", "E_MIDDLE">> /\ a < c /\ c <= b /\ b < d
       \/ reg = <<"S_MIDDLE", "E_END">> /\ c < a /\ b = d
       \/ reg = <<"S_MIDDLE", "E_AFTER">> /\ c < a /\ a <= d /\ d < b
       \/ reg = <<"S_END", "E_AFTER">> /\ a = d + 1
       \/ reg = <<"S_AFTER", "E_AFTER">> /\ d + 1 < a
  BY <1>0, <1>61, RegIs
<1>22. CASE reg = <<"S_BEFORE", "E_BEFORE">> /\ b + 1 < c
  <2>1. Apart(w.ld, l.set)
    BY <1>0, <1>1, <1>22 DEF Apart
  <2>2. QED
    BY <1>8, <1>2, <1>22, <2>1, <1>1 DEF Visited, Cleared
<1>23. CASE reg = <<"S_BEFORE", "E_START">> /\ b + 1 = c
  <2>1. CASE same
    <3>1. x = Over(Del(joinR, l))
      BY <1>9, <1>23, <2>1
    <3>2. /\ joinR \in WalkState /\ joinR.out = w.out /\ joinR.td = w.td
          /\ joinR.count = w.count /\ joinR.woken = w.woken /\ joinR.ret = w.ret
          /\ joinR.insrtp = w.insrtp /\ joinR.ld.own = w.ld.own /\ joinR.ld.type = w.ld.type
          /\ joinR.ld.start = a /\ joinR.ld.end = d
      BY <1>6, <1>1, <1>23 DEF Grown
    <3>3. /\ x \in WalkState /\ x.out = w.out /\ x.ret = "ok" /\ x.td = NULL
          /\ x.woken = w.woken \cup WAKEUP(l) /\ x.insrtp = joinR.insrtp
          /\ x.count = w.count - 1 + Gained(x) /\ x.ld = joinR.ld
      BY <3>1, <3>2, DelForm
    <3>4. Joined(w, l, x)
      BY <3>2, <3>3, <2>1, <1>1, <1>23 DEF Joined
    <3>5. QED
      BY <3>2, <3>3, <3>4, <1>1, <1>23 DEF Visited, Deleted
  <2>2. CASE ~same
    <3>1. x = passed
      BY <1>9, <1>23, <1>63, <2>2
    <3>2. Apart(w.ld, l.set)
      BY <1>0, <1>1, <1>23, <2>2 DEF Apart
    <3>3. QED
      BY <3>1, <3>2, <1>2, <1>1, <1>23 DEF Visited, Cleared
  <2>3. QED
    BY <2>1, <2>2
<1>24. CASE reg = <<"S_START", "E_END">> /\ a = c /\ b = d
  <2>1. CASE same
    BY <1>10, <1>7, <1>1, <1>24, <2>1 DEF Visited, Inside
  <2>2. CASE ~same
    <3>1. x = Del(before, l)
      BY <1>10, <1>24, <2>2
    <3>2. /\ x \in WalkState /\ x.out = w.out /\ x.ret = "ok" /\ x.td = NULL
          /\ x.woken = w.woken \cup WAKEUP(l) /\ x.insrtp = before.insrtp
          /\ x.count = w.count - 1 + Gained(x) /\ x.ld = before.ld
      BY <3>1, <1>3, DelForm
    <3>5. x.over = FALSE
      BY <3>1, <1>0, <1>3, DelOver
    <3>3. Overlaid(w, l, x)
      BY <3>2, <3>5, <2>2, <1>1, <1>3, <1>24 DEF Overlaid, Rest
    <3>4. QED
      BY <3>2, <3>3, <1>1, <1>3, <1>24 DEF Visited, Deleted
  <2>3. QED
    BY <2>1, <2>2
<1>25. CASE reg = <<"S_START", "E_AFTER">> /\ a = c /\ d < b
  <2>1. x = Del(before, l)
    BY <1>11, <1>25
  <2>2. /\ x \in WalkState /\ x.out = w.out /\ x.ret = "ok" /\ x.td = NULL
        /\ x.woken = w.woken \cup WAKEUP(l) /\ x.insrtp = before.insrtp
        /\ x.count = w.count - 1 + Gained(x) /\ x.ld = before.ld
    BY <2>1, <1>3, DelForm
  <2>3. x.over = FALSE
    BY <2>1, <1>0, <1>3, DelOver
  <2>4. CASE same
    <3>1. Joined(w, l, x)
      BY <2>2, <2>3, <2>4, <1>1, <1>3, <1>25 DEF Joined
    <3>2. QED
      BY <2>2, <3>1, <1>1, <1>3, <1>25 DEF Visited, Deleted
  <2>5. CASE ~same
    <3>1. Overlaid(w, l, x)
      BY <2>2, <2>3, <2>5, <1>1, <1>3, <1>25 DEF Overlaid, Rest
    <3>2. QED
      BY <2>2, <3>1, <1>1, <1>3, <1>25 DEF Visited, Deleted
  <2>6. QED
    BY <2>4, <2>5
<1>26. CASE reg = <<"S_BEFORE", "E_END">> /\ a < c /\ b = d
  <2>1. x = Over(Del(w, l)) \/ x = Del(w, l)
    BY <1>12, <1>26
  <2>2. /\ x \in WalkState /\ x.out = w.out /\ x.ret = "ok" /\ x.td = NULL
        /\ x.woken = w.woken \cup WAKEUP(l) /\ x.insrtp = w.insrtp
        /\ x.count = w.count - 1 + Gained(x) /\ x.ld = w.ld
    BY <2>1, <1>0, DelForm
  <2>3. CASE same
    <3>1. Joined(w, l, x)
      BY <2>2, <2>3, <1>1, <1>26 DEF Joined
    <3>2. QED
      BY <2>2, <3>1, <1>1, <1>26 DEF Visited, Deleted
  <2>4. CASE ~same
    <3>3. x = Del(w, l)
      BY <1>12, <1>26, <2>4
    <3>4. x.over = FALSE
      BY <3>3, <1>0, DelOver
    <3>1. Overlaid(w, l, x)
      BY <2>2, <2>4, <3>4, <1>1, <1>26 DEF Overlaid, Rest
    <3>2. QED
      BY <2>2, <3>1, <1>1, <1>26 DEF Visited, Deleted
  <2>5. QED
    BY <2>3, <2>4
<1>27. CASE reg = <<"S_BEFORE", "E_AFTER">> /\ a < c /\ d < b
  <2>1. x = Del(w, l)
    BY <1>13, <1>27
  <2>2. /\ x \in WalkState /\ x.out = w.out /\ x.ret = "ok" /\ x.td = NULL
        /\ x.woken = w.woken \cup WAKEUP(l) /\ x.insrtp = w.insrtp
        /\ x.count = w.count - 1 + Gained(x) /\ x.ld = w.ld
    BY <2>1, <1>0, DelForm
  <2>3. x.over = FALSE
    BY <2>1, <1>0, DelOver
  <2>4. CASE same
    <3>1. Joined(w, l, x)
      BY <2>2, <2>3, <2>4, <1>1, <1>27 DEF Joined
    <3>2. QED
      BY <2>2, <3>1, <1>1, <1>27 DEF Visited, Deleted
  <2>5. CASE ~same
    <3>1. Overlaid(w, l, x)
      BY <2>2, <2>3, <2>5, <1>1, <1>27 DEF Overlaid, Rest
    <3>2. QED
      BY <2>2, <3>1, <1>1, <1>27 DEF Visited, Deleted
  <2>6. QED
    BY <2>4, <2>5
<1>28. CASE reg = <<"S_START", "E_MIDDLE">> /\ a = c /\ b < d
  <2>1. CASE same
    BY <1>14, <1>7, <1>1, <1>28, <2>1 DEF Visited, Inside
  <2>2. CASE ~same
    <3>1. x = Split(before, l, reg, mem)
      BY <1>14, <1>28, <2>2
    <3>2. reg # <<"S_MIDDLE", "E_MIDDLE">>
      BY <1>28
    <3>3. before.ld.end < d /\ c <= before.ld.end /\ Fresh(before)
          /\ (reg = <<"S_MIDDLE", "E_MIDDLE">> => c < before.ld.start)
      BY <1>0, <1>1, <1>3, <1>28, <3>2
    <3>4. \/ Passes(before, l, x) /\ x.ret = "ENOLCK" /\ x.over
          \/ /\ x \in WalkState /\ x.ld = before.ld /\ x.ret = "ok"
             /\ x.woken = before.woken \cup WAKEUP(l) /\ x.over = TRUE
             /\ x.td # NULL /\ Rest(before, l, x)
             /\ x.out = before.out /\ x.insrtp = before.insrtp /\ x.count = before.count
      <4>1. Splits(before, l, reg, x)
        BY <3>1, <3>3, SplitIs
      <4>2. QED
        BY <4>1, <3>2, Zenon DEF Splits
    <3>5. CASE Passes(before, l, x) /\ x.ret = "ENOLCK" /\ x.over
      BY <3>5, <1>3 DEF Visited, Short, Passes
    <3>6. CASE /\ x \in WalkState /\ x.ld = before.ld /\ x.ret = "ok"
               /\ x.woken = before.woken \cup WAKEUP(l) /\ x.over = TRUE
               /\ x.td # NULL /\ Rest(before, l, x)
               /\ x.out = before.out /\ x.insrtp = before.insrtp /\ x.count = before.count
      <4>1. Gained(x) = 1 /\ w.count \in Int
        BY <3>6, <1>0, StateFacts DEF Gained
      <4>2. x.count = w.count - 1 + Gained(x)
        BY <3>6, <4>1, <1>3
      <4>3. Rest(w, l, x)
        BY <3>6, <1>3 DEF Rest
      <4>4. Overlaid(w, l, x)
        BY <3>6, <4>3, <2>2, <1>1, <1>3, <1>28 DEF Overlaid
      <4>5. QED
        BY <3>6, <4>2, <4>4, <1>1, <1>3, <1>28 DEF Visited, Deleted
    <3>7. QED
      BY <3>4, <3>5, <3>6
  <2>3. QED
    BY <2>1, <2>2
<1>29. CASE reg = <<"S_MIDDLE", "E_MIDDLE">> /\ c < a /\ b < d
  <2>1. CASE same
    BY <1>15, <1>7, <1>1, <1>29, <2>1 DEF Visited, Inside
  <2>2. CASE ~same
    <3>1. x = Split(w, l, reg, mem)
      BY <1>15, <1>29, <2>2
    <3>2. reg = <<"S_MIDDLE", "E_MIDDLE">>
      BY <1>29
    <3>3. w.ld.end < d /\ c <= w.ld.end /\ Fresh(w)
          /\ (reg = <<"S_MIDDLE", "E_MIDDLE">> => c < w.ld.start)
      BY <1>0, <1>1, <1>3, <1>29, <3>2
    <3>4. \/ Passes(w, l, x) /\ x.ret = "ENOLCK" /\ x.over
          \/ /\ x \in WalkState /\ x.ld = w.ld /\ x.ret = "ok"
             /\ x.woken = w.woken \cup WAKEUP(l) /\ x.over = TRUE
             /\ x.td # NULL /\ Rest(w, l, x)
             /\ x.out = Append(w.out, Shrunk(l, w.ld.start - 1))
                 /\ x.insrtp = Len(w.out) + 1 /\ x.count = w.count + 1
      <4>1. Splits(w, l, reg, x)
        BY <3>1, <3>3, SplitIs
      <4>2. QED
        BY <4>1, <3>2, Zenon DEF Splits
    <3>5. CASE Passes(w, l, x) /\ x.ret = "ENOLCK" /\ x.over
      BY <3>5, <1>3 DEF Visited, Short, Passes
    <3>6. CASE /\ x \in WalkState /\ x.ld = w.ld /\ x.ret = "ok"
               /\ x.woken = w.woken \cup WAKEUP(l) /\ x.over = TRUE
               /\ x.td # NULL /\ Rest(w, l, x)
               /\ x.out = Append(w.out, Shrunk(l, w.ld.start - 1))
                   /\ x.insrtp = Len(w.out) + 1 /\ x.count = w.count + 1
      <4>1. Gained(x) = 1
        BY <3>6 DEF Gained
      <4>2. QED
        BY <3>6, <4>1, <2>2, <1>1, <1>29 DEF Visited, Shortened
    <3>7. QED
      BY <3>4, <3>5, <3>6
  <2>3. QED
    BY <2>1, <2>2
<1>30. CASE reg = <<"S_BEFORE", "E_MIDDLE">> /\ a < c /\ c <= b /\ b < d
  <2>1. CASE same
    <3>1. x = Over(Del(joinR, l))
      BY <1>16, <1>30, <2>1
    <3>2. /\ joinR \in WalkState /\ joinR.out = w.out /\ joinR.td = w.td
          /\ joinR.count = w.count /\ joinR.woken = w.woken /\ joinR.ret = w.ret
          /\ joinR.insrtp = w.insrtp /\ joinR.ld.own = w.ld.own /\ joinR.ld.type = w.ld.type
          /\ joinR.ld.start = a /\ joinR.ld.end = d
      BY <1>6, <1>1, <1>30 DEF Grown
    <3>3. /\ x \in WalkState /\ x.out = w.out /\ x.ret = "ok" /\ x.td = NULL
          /\ x.woken = w.woken \cup WAKEUP(l) /\ x.insrtp = joinR.insrtp
          /\ x.count = w.count - 1 + Gained(x) /\ x.ld = joinR.ld
      BY <3>1, <3>2, DelForm
    <3>4. Joined(w, l, x)
      BY <3>2, <3>3, <2>1, <1>1, <1>30 DEF Joined
    <3>5. QED
      BY <3>2, <3>3, <3>4, <1>1, <1>30 DEF Visited, Deleted
  <2>2. CASE ~same
    <3>1. x = Split(w, l, reg, mem)
      BY <1>16, <1>30, <2>2
    <3>2. reg # <<"S_MIDDLE", "E_MIDDLE">>
      BY <1>30
    <3>3. w.ld.end < d /\ c <= w.ld.end /\ Fresh(w)
          /\ (reg = <<"S_MIDDLE", "E_MIDDLE">> => c < w.ld.start)
      BY <1>0, <1>1, <1>3, <1>30, <3>2
    <3>4. \/ Passes(w, l, x) /\ x.ret = "ENOLCK" /\ x.over
          \/ /\ x \in WalkState /\ x.ld = w.ld /\ x.ret = "ok"
             /\ x.woken = w.woken \cup WAKEUP(l) /\ x.over = TRUE
             /\ x.td # NULL /\ Rest(w, l, x)
             /\ x.out = w.out /\ x.insrtp = w.insrtp /\ x.count = w.count
      <4>1. Splits(w, l, reg, x)
        BY <3>1, <3>3, SplitIs
      <4>2. QED
        BY <4>1, <3>2, Zenon DEF Splits
    <3>5. CASE Passes(w, l, x) /\ x.ret = "ENOLCK" /\ x.over
      BY <3>5, <1>3 DEF Visited, Short, Passes
    <3>6. CASE /\ x \in WalkState /\ x.ld = w.ld /\ x.ret = "ok"
               /\ x.woken = w.woken \cup WAKEUP(l) /\ x.over = TRUE
               /\ x.td # NULL /\ Rest(w, l, x)
               /\ x.out = w.out /\ x.insrtp = w.insrtp /\ x.count = w.count
      <4>1. Gained(x) = 1 /\ w.count \in Int
        BY <3>6, <1>0, StateFacts DEF Gained
      <4>2. x.count = w.count - 1 + Gained(x)
        BY <3>6, <4>1, <1>3
      <4>3. Rest(w, l, x)
        BY <3>6, <1>3 DEF Rest
      <4>4. Overlaid(w, l, x)
        BY <3>6, <4>3, <2>2, <1>1, <1>3, <1>30 DEF Overlaid
      <4>5. QED
        BY <3>6, <4>2, <4>4, <1>1, <1>3, <1>30 DEF Visited, Deleted
    <3>7. QED
      BY <3>4, <3>5, <3>6
  <2>3. QED
    BY <2>1, <2>2
<1>31. CASE reg = <<"S_MIDDLE", "E_END">> /\ c < a /\ b = d
  <2>1. CASE same
    BY <1>17, <1>7, <1>1, <1>31, <2>1 DEF Visited, Inside
  <2>2. CASE ~same
    <3>1. x = Cut(w, l)
      BY <1>17, <1>31, <2>2
    <3>2. /\ x \in WalkState /\ x.out = Append(w.out, Shrunk(l, w.ld.start - 1))
          /\ x.ld = w.ld /\ x.insrtp = Len(w.out) + 1
          /\ x.td = w.td /\ x.count = w.count /\ x.woken = w.woken \cup WAKEUP(l)
          /\ x.over = w.over /\ x.ret = w.ret
      BY <3>1, <1>0, <1>31, CutIs
    <3>3. Gained(x) = 0 /\ w.count \in Int
      BY <3>2, <1>0, StateFacts DEF Gained
    <3>4. Rest(w, l, x)
      BY <3>2, <1>0, <1>1, <1>31 DEF Rest
    <3>5. x.count = w.count + Gained(x)
      BY <3>2, <3>3
    <3>6. QED
      BY <3>2, <3>4, <3>5, <2>2, <1>0, <1>1, <1>31 DEF Visited, Shortened
  <2>3. QED
    BY <2>1, <2>2
<1>32. CASE reg = <<"S_MIDDLE", "E_AFTER">> /\ c < a /\ a <= d /\ d < b
  <2>1. CASE same
    <3> DEFINE v == Before(joinL)
    <3>1. x = Del(v, l)
      BY <1>18, <1>32, <2>1
    <3>2. /\ joinL \in WalkState /\ joinL.out = w.out /\ joinL.td = w.td
          /\ joinL.count = w.count /\ joinL.woken = w.woken /\ joinL.ret = w.ret
          /\ joinL.ld.own = w.ld.own /\ joinL.ld.type = w.ld.type /\ joinL.over = w.over
          /\ joinL.ld.start = c /\ joinL.ld.end = b
      BY <1>5, <1>1, <1>32 DEF Grown
    <3>3. /\ v \in WalkState /\ v.out = joinL.out /\ v.ld = joinL.ld
          /\ v.insrtp = Len(joinL.out)
          /\ v.td = joinL.td /\ v.count = joinL.count /\ v.woken = joinL.woken
          /\ v.over = joinL.over /\ v.ret = joinL.ret
      BY <3>2, BeforeIs
    <3> HIDE DEF v
    <3>4. /\ x \in WalkState /\ x.out = w.out /\ x.ret = "ok" /\ x.td = NULL
          /\ x.woken = w.woken \cup WAKEUP(l) /\ x.insrtp = v.insrtp
          /\ x.count = w.count - 1 + Gained(x) /\ x.ld = v.ld
      BY <3>1, <3>2, <3>3, DelForm
    <3>5. x.over = FALSE
      BY <3>1, <3>2, <3>3, <1>0, DelOver
    <3>6. x.ld = joinL.ld /\ x.insrtp = Len(w.out)
      BY <3>2, <3>3, <3>4
    <3>7. Joined(w, l, x)
      BY <3>2, <3>4, <3>5, <3>6, <2>1, <1>1, <1>32 DEF Joined
    <3>8. QED
      BY <3>4, <3>6, <3>7, <1>1, <1>32 DEF Visited, Deleted
  <2>2. CASE ~same
    <3>1. x = Cut(w, l)
      BY <1>18, <1>32, <2>2
    <3>2. /\ x \in WalkState /\ x.out = Append(w.out, Shrunk(l, w.ld.start - 1))
          /\ x.ld = w.ld /\ x.insrtp = Len(w.out) + 1
          /\ x.td = w.td /\ x.count = w.count /\ x.woken = w.woken \cup WAKEUP(l)
          /\ x.over = w.over /\ x.ret = w.ret
      BY <3>1, <1>0, <1>32, CutIs
    <3>3. Gained(x) = 0 /\ w.count \in Int
      BY <3>2, <1>0, StateFacts DEF Gained
    <3>4. Rest(w, l, x)
      BY <3>2, <1>0, <1>1, <1>32 DEF Rest
    <3>5. x.count = w.count + Gained(x)
      BY <3>2, <3>3
    <3>6. QED
      BY <3>2, <3>4, <3>5, <2>2, <1>0, <1>1, <1>32 DEF Visited, Shortened
  <2>3. QED
    BY <2>1, <2>2
<1>33. CASE reg = <<"S_END", "E_AFTER">> /\ a = d + 1
  <2>1. CASE same
    <3> DEFINE v == Before(joinL)
    <3>1. x = Del(v, l)
      BY <1>19, <1>33, <2>1
    <3>2. /\ joinL \in WalkState /\ joinL.out = w.out /\ joinL.td = w.td
          /\ joinL.count = w.count /\ joinL.woken = w.woken /\ joinL.ret = w.ret
          /\ joinL.ld.own = w.ld.own /\ joinL.ld.type = w.ld.type /\ joinL.over = w.over
          /\ joinL.ld.start = c /\ joinL.ld.end = b
      BY <1>5, <1>1, <1>33 DEF Grown
    <3>3. /\ v \in WalkState /\ v.out = joinL.out /\ v.ld = joinL.ld
          /\ v.insrtp = Len(joinL.out)
          /\ v.td = joinL.td /\ v.count = joinL.count /\ v.woken = joinL.woken
          /\ v.over = joinL.over /\ v.ret = joinL.ret
      BY <3>2, BeforeIs
    <3> HIDE DEF v
    <3>4. /\ x \in WalkState /\ x.out = w.out /\ x.ret = "ok" /\ x.td = NULL
          /\ x.woken = w.woken \cup WAKEUP(l) /\ x.insrtp = v.insrtp
          /\ x.count = w.count - 1 + Gained(x) /\ x.ld = v.ld
      BY <3>1, <3>2, <3>3, DelForm
    <3>5. x.over = FALSE
      BY <3>1, <3>2, <3>3, <1>0, DelOver
    <3>6. x.ld = joinL.ld /\ x.insrtp = Len(w.out)
      BY <3>2, <3>3, <3>4
    <3>7. Joined(w, l, x)
      BY <3>2, <3>4, <3>5, <3>6, <2>1, <1>1, <1>33 DEF Joined
    <3>8. QED
      BY <3>4, <3>6, <3>7, <1>1, <1>33 DEF Visited, Deleted
  <2>2. CASE ~same
    <3>1. x = kept
      BY <1>19, <1>33, <2>2
    <3>2. Apart(w.ld, l.set)
      BY <1>0, <1>1, <1>33, <2>2 DEF Apart
    <3>3. QED
      BY <3>1, <3>2, <1>2, <1>1, <1>33 DEF Visited, Cleared
  <2>3. QED
    BY <2>1, <2>2
<1>34. CASE reg = <<"S_AFTER", "E_AFTER">> /\ d + 1 < a
  <2>1. x = Keep(behind, l)
    BY <1>20, <1>34
  <2>2. Passes(behind, l, x) /\ x.ret = "ok" /\ x.insrtp = behind.insrtp /\ x.over = FALSE
    BY <2>1, <1>4, KeptCases
  <2>3. Passes(w, l, x)
    BY <2>2, <1>4 DEF Passes
  <2>4. Apart(w.ld, l.set)
    BY <1>0, <1>1, <1>34 DEF Apart
  <2>5. QED
    BY <2>2, <2>3, <2>4, <1>1, <1>4, <1>34 DEF Visited, Cleared
<1>35. QED
  BY <1>21, <1>22, <1>23, <1>24, <1>25, <1>26, <1>27, <1>28, <1>29, <1>30, <1>31, <1>32, <1>33, <1>34

\* Where an entry of the list was before one was taken out,
LEMMA RemovedFrom ==
    ASSUME NEW V \in Seq(Lock), NEW k \in 1 .. Len(V), NEW j \in 1 .. Len(Removed(V, k))
    PROVE  \E m \in 1 .. Len(V) : /\ m # k /\ Removed(V, k)[j] = V[m]
                                  /\ j < k => m = j
                                  /\ j >= k => m = j + 1
<1> DEFINE U == Removed(V, k)
<1>1. Len(U) = Len(V) - 1 /\ Len(V) \in Nat
  BY RemovedIs
<1>2. \A m \in 1 .. k - 1 : U[m] = V[m]
  BY RemovedIs
<1>3. \A m \in k .. Len(V) - 1 : U[m] = V[m + 1]
  BY RemovedIs
<1> HIDE DEF U
<1>4. CASE j < k
  <2>1. j \in 1 .. k - 1 /\ j \in 1 .. Len(V) /\ j # k
    BY <1>1, <1>4 DEF U
  <2>2. QED
    BY <2>1, <1>2, <1>4 DEF U
<1>5. CASE j >= k
  <2>1. j \in k .. Len(V) - 1 /\ j + 1 \in 1 .. Len(V) /\ j + 1 # k
    BY <1>1, <1>5 DEF U
  <2>2. U[j] = V[j + 1]
    BY <2>1, <1>3
  <2>3. QED
    BY <2>1, <2>2, <1>5 DEF U
<1>6. j \in Int /\ k \in Int
  BY <1>1 DEF U
<1>7. QED
  BY <1>4, <1>5, <1>6

\* or put in.
LEMMA InsertedFrom ==
    ASSUME NEW V \in Seq(Lock), NEW k \in 0 .. Len(V), NEW c \in Lock,
           NEW j \in 1 .. Len(InsertAfter(V, k, c))
    PROVE  \/ j = k + 1 /\ InsertAfter(V, k, c)[j] = c
           \/ \E m \in 1 .. Len(V) : /\ InsertAfter(V, k, c)[j] = V[m]
                                     /\ j <= k => m = j
                                     /\ j > k => m = j - 1 /\ j > k + 1
<1> DEFINE U == InsertAfter(V, k, c)
<1>1. Len(U) = Len(V) + 1 /\ Len(V) \in Nat
  BY InsertedIs
<1>2. U[k + 1] = c /\ \A m \in 1 .. k : U[m] = V[m]
  <2>1. U[k + 1] = c
    BY InsertedIs
  <2>2. \A m \in 1 .. k : U[m] = V[m]
    BY InsertedIs
  <2>3. QED
    BY <2>1, <2>2
<1>3. \A m \in k + 2 .. Len(V) + 1 : U[m] = V[m - 1]
  BY InsertedIs
<1>4. j \in 1 .. Len(V) + 1
  BY <1>1
<1> HIDE DEF U
<1>5. CASE j <= k
  <2>1. j \in 1 .. k /\ j \in 1 .. Len(V) /\ ~(j > k)
    BY <1>1, <1>4, <1>5
  <2>2. U[j] = V[j]
    BY <2>1, <1>2
  <2>3. QED
    BY <2>1, <2>2, <1>5 DEF U
<1>6. CASE j = k + 1
  BY <1>2, <1>6 DEF U
<1>7. CASE j > k + 1
  <2>1. j \in k + 2 .. Len(V) + 1 /\ j - 1 \in 1 .. Len(V) /\ ~(j <= k)
    BY <1>1, <1>4, <1>7
  <2>2. U[j] = V[j - 1]
    BY <2>1, <1>3
  <2>3. QED
    BY <2>1, <2>2, <1>7 DEF U
<1>8. QED
  BY <1>1, <1>4, <1>5, <1>6, <1>7

(***************************************************************************)
(* What holds all along the walk.  V is the list as it stands.             *)
(***************************************************************************)

\* A visit that passes over the lock.
Passing(f, w, l, x) ==
    \/ Passed(f, w, l, x)
    \/ Fresh(w) /\ l.set.own = f.own /\ (Cleared(w, l, x) \/ Inside(w, l, x) \/ Short(w, l, x))

Changing(f, w, l, x) ==
    Fresh(w) /\ l.set.own = f.own /\ (Deleted(w, l, x) \/ Shortened(w, l, x))

\* The region asked for is inside the region as it has grown; a piece cut off
\* is the owner's and lies behind it.
WRange(f, w) ==
    /\ w \in WalkState
    /\ w.ld.own = f.own /\ w.ld.type = f.type
    /\ w.ld.start <= f.start /\ f.end <= w.ld.end
    /\ w.ret # "ok" => w.over
    /\ w.td # NULL => /\ w.over /\ w.ret = "ok"
                      /\ w.td.own = f.own /\ w.td.type \in Types /\ w.td.type # f.type
                      /\ w.ld.end < w.td.start

\* Passing over a lock changes nothing but the place in the list.
LEMMA PassingPasses ==
    ASSUME NEW f, NEW w, NEW l, NEW x, Passing(f, w, l, x)
    PROVE  /\ x \in WalkState
           /\ x.out = Append(w.out, l) /\ x.ld = w.ld /\ x.td = w.td
           /\ x.count = w.count /\ x.woken = w.woken
<1>1. Passed(f, w, l, x) => Passes(w, l, x)
  BY DEF Passed
<1>2. Cleared(w, l, x) => Passes(w, l, x)
  BY DEF Cleared
<1>3. Inside(w, l, x) => Passes(w, l, x)
  BY DEF Inside
<1>4. Short(w, l, x) => Passes(w, l, x)
  BY DEF Short
<1>5. QED
  BY <1>1, <1>2, <1>3, <1>4 DEF Passing, Passes

\* It is so when a lock is passed over,
LEMMA RangePass ==
    ASSUME NEW f \in Flock, NEW w, WRange(f, w), NEW l \in Lock, NEW x, Passing(f, w, l, x)
    PROVE  WRange(f, x)
<1>1. x \in WalkState /\ x.ld = w.ld /\ x.td = w.td
  BY PassingPasses
<1>2. CASE Passed(f, w, l, x)
  BY <1>1, <1>2 DEF WRange, Passed
<1>3. CASE Fresh(w) /\ (Cleared(w, l, x) \/ Inside(w, l, x) \/ Short(w, l, x))
  <2>1. w.td = NULL /\ (x.ret = "ok" \/ x.over)
    BY <1>3 DEF Fresh, Cleared, Inside, Short
  <2>2. QED
    BY <1>1, <2>1 DEF WRange
<1>4. QED
  BY <1>2, <1>3 DEF Passing

\* changed,
LEMMA RangeChange ==
    ASSUME NEW f \in Flock, NEW w, WRange(f, w), NEW l \in Lock, l.set.type \in Types,
           NEW x, Changing(f, w, l, x)
    PROVE  WRange(f, x)
<1>1. /\ w \in WalkState /\ w.ld \in Flock /\ l.set \in Flock /\ w.td = NULL
      /\ w.ld.own = f.own /\ w.ld.type = f.type /\ w.ld.start <= f.start /\ f.end <= w.ld.end
      /\ l.set.own = f.own
  BY StateFacts, LockFacts DEF WRange, Fresh, Changing
<1>2. /\ w.ld.start \in Nat /\ w.ld.end \in Nat /\ l.set.start \in Nat /\ l.set.end \in Nat
      /\ f.start \in Nat /\ f.end \in Nat /\ w.ld.start <= w.ld.end
  BY <1>1, FlockFacts
<1>3. CASE Deleted(w, l, x)
  <2>1. CASE Joined(w, l, x)
    BY <2>1, <1>1, <1>2, <1>3 DEF Deleted, Joined, WRange
  <2>2. CASE Overlaid(w, l, x)
    BY <2>2, <1>1, <1>2, <1>3 DEF Deleted, Overlaid, Rest, WRange
  <2>3. QED
    BY <1>3, <2>1, <2>2 DEF Deleted
<1>4. CASE Shortened(w, l, x)
  BY <1>4, <1>1, <1>2 DEF Shortened, Rest, WRange
<1>5. QED
  BY <1>3, <1>4 DEF Changing

\* and when the piece is put in its place.
LEMMA RangePlace ==
    ASSUME NEW f \in Flock, NEW w, WRange(f, w), w.td # NULL
    PROVE  /\ WRange(f, PlacePiece(w))
           /\ PlacePiece(w) \in WalkState
           /\ NewLock(w.td) \in Lock /\ NewLock(w.td).set = w.td /\ NewLock(w.td).slp = {}
           /\ PlacePiece(w).out = Append(w.out, NewLock(w.td)) /\ PlacePiece(w).td = NULL
           /\ PlacePiece(w).ld = w.ld /\ PlacePiece(w).insrtp = w.insrtp
           /\ PlacePiece(w).count = w.count /\ PlacePiece(w).woken = w.woken
           /\ PlacePiece(w).over = w.over /\ PlacePiece(w).ret = w.ret
<1>1. w \in WalkState /\ w.td \in Flock
  BY StateFacts DEF WRange
<1>2. NewLock(w.td) \in Lock /\ NewLock(w.td).set = w.td /\ NewLock(w.td).slp = {}
  BY <1>1, NewLockIs
<1> DEFINE v == Append(w.out, NewLock(w.td))
           u == [w EXCEPT !.out = v]
           x == [u EXCEPT !.td = NULL]
<1>3. PlacePiece(w) = x
  BY <1>1, Zenon DEF PlacePiece, WalkState
<1>4. v \in Seq(Lock)
  BY <1>1, <1>2, StateFacts
<1> HIDE DEF v
<1>5. /\ u \in WalkState /\ u.out = v /\ u.ld = w.ld /\ u.insrtp = w.insrtp
      /\ u.td = w.td /\ u.count = w.count /\ u.woken = w.woken
      /\ u.over = w.over /\ u.ret = w.ret
  BY <1>1, <1>4, StateOut
<1> HIDE DEF u
<1>6. /\ x \in WalkState /\ x.out = v /\ x.ld = w.ld /\ x.insrtp = w.insrtp
      /\ x.td = NULL /\ x.count = w.count /\ x.woken = w.woken
      /\ x.over = w.over /\ x.ret = w.ret
  BY <1>5, StateTd
<1> HIDE DEF x
<1>7. WRange(f, x)
  BY <1>6 DEF WRange
<1>8. QED
  BY <1>2, <1>3, <1>6, <1>7 DEF v

\* The list stands; a piece cut off is apart from all of it, and behind the
\* walk no lock starts after it.
WLists(w, V) ==
    /\ Sound(V)
    /\ \A j \in 1 .. Len(V) : V[j].set.type \in Types
    /\ w.td # NULL => \A j \in 1 .. Len(V) :
          Apart(w.td, V[j].set) /\ (j <= Len(w.out) => V[j].set.start <= w.td.start)

\* The walk comes to lock l of V.
Comes(w, V, l) ==
    /\ w \in WalkState /\ V \in Seq(Lock) /\ l \in Lock
    /\ Len(w.out) + 1 \in 1 .. Len(V)
    /\ V[Len(w.out) + 1] = l

\* The length of a list with one lock more.
LEMMA Appended ==
    ASSUME NEW s \in Seq(Lock), NEW c \in Lock
    PROVE  Len(Append(s, c)) = Len(s) + 1 /\ Len(s) \in Nat
OBVIOUS

\* Part of a lock is apart from what the whole is apart from.
LEMMA ApartPart ==
    ASSUME NEW f \in Flock, NEW g \in Flock, NEW h \in Flock, Apart(f, g),
           h.own = f.own, h.type = f.type, f.start <= h.start, h.end <= f.end
    PROVE  Apart(h, g)
BY FlockFacts DEF Apart

\* A sound list is ordered.
LEMMA OrderedPair ==
    ASSUME NEW V \in Seq(Lock), Sound(V), NEW i \in 1 .. Len(V), NEW j \in 1 .. Len(V), i <= j
    PROVE  V[i].set.start <= V[j].set.start
<1>1. V[i].set.start \in Nat
  BY LockFacts, FlockFacts
<1>2. CASE i = j
  BY <1>1, <1>2
<1>3. CASE i < j
  BY <1>3 DEF Sound
<1>4. QED
  BY <1>2, <1>3

\* The list stands when a lock is passed over,
LEMMA ListsPass ==
    ASSUME NEW f \in Flock, NEW w, NEW V, NEW l, Comes(w, V, l), WRange(f, w), WLists(w, V),
           NEW x, Passing(f, w, l, x)
    PROVE  WLists(x, V)
<1>1. x.td = w.td /\ x.out = Append(w.out, l) /\ l \in Lock /\ w.out \in Seq(Lock) /\ V \in Seq(Lock)
  BY PassingPasses, StateFacts DEF Comes
<1>2. Len(x.out) = Len(w.out) + 1 /\ Len(w.out) \in Nat
  BY <1>1, Appended
<1>3. CASE w.td = NULL
  BY <1>1, <1>3 DEF WLists
<1>4. CASE w.td # NULL
  <2>1. Passed(f, w, l, x)
    BY <1>4 DEF Passing, Fresh
  <2>2. l.set.start < w.td.start /\ l.set.start \in Nat /\ w.td.start \in Nat
    BY <2>1, <1>1, <1>4, LockFacts, StateFacts, FlockFacts DEF Passed, Comes
  <2>3. \A j \in 1 .. Len(V) : j <= Len(x.out) => j <= Len(w.out) \/ j = Len(w.out) + 1
    BY <1>1, <1>2
  <2>4. \A j \in 1 .. Len(V) : j <= Len(x.out) => V[j].set.start <= w.td.start
    BY <2>2, <2>3, <1>4 DEF WLists, Comes
  <2>5. QED
    BY <2>4, <1>1 DEF WLists
<1>5. QED
  BY <1>3, <1>4

\* The rest of l behind the region.
LEMMA RestIs ==
    ASSUME NEW w \in WalkState, NEW l \in Lock, NEW x, Rest(w, l, x), x.td # NULL,
           l.set.start <= w.ld.end
    PROVE  /\ x.td \in Flock /\ l.set.start <= x.td.start /\ x.td.start > w.ld.end
           /\ x.td.own = l.set.own /\ x.td.type = l.set.type
           /\ x.td.end = l.set.end
           /\ \A g \in Flock : Apart(l.set, g) => Apart(x.td, g)
<1>1. /\ x.td \in Flock /\ x.td.start = w.ld.end + 1 /\ x.td.end = l.set.end
      /\ x.td.own = l.set.own /\ x.td.type = l.set.type
  BY DEF Rest
<1>2. w.ld \in Flock /\ l.set \in Flock
  BY StateFacts, LockFacts
<1>3. w.ld.end \in Nat /\ l.set.start \in Nat /\ l.set.end \in Nat
  BY <1>2, FlockFacts
<1>4. l.set.start <= x.td.start /\ x.td.start > w.ld.end /\ x.td.end <= l.set.end
  BY <1>1, <1>3
<1>5. \A g \in Flock : Apart(l.set, g) => Apart(x.td, g)
  BY <1>1, <1>2, <1>4, ApartPart
<1>6. QED
  BY <1>1, <1>4, <1>5

\* A region that a changed lock had to do with.
LEMMA ChangingIs ==
    ASSUME NEW f \in Flock, NEW w, NEW l \in Lock, WRange(f, w), NEW x, Changing(f, w, l, x)
    PROVE  /\ w \in WalkState /\ x \in WalkState /\ w.td = NULL
           /\ x.td # NULL => Rest(w, l, x) /\ l.set.start <= w.ld.end
<1>1. w \in WalkState /\ x \in WalkState /\ w.td = NULL
  BY DEF WRange, Changing, Fresh, Deleted, Shortened
<1>2. ASSUME x.td # NULL PROVE Rest(w, l, x) /\ l.set.start <= w.ld.end
  <2>1. CASE Deleted(w, l, x)
    BY <1>2, <2>1 DEF Deleted, Joined, Overlaid
  <2>2. CASE Shortened(w, l, x)
    <3>1. w.ld \in Flock /\ l.set \in Flock
      BY <1>1, StateFacts, LockFacts
    <3>2. w.ld.start \in Nat /\ w.ld.end \in Nat /\ l.set.start \in Nat /\ w.ld.start <= w.ld.end
      BY <3>1, FlockFacts
    <3>3. QED
      BY <3>2, <2>2 DEF Shortened
  <2>3. QED
    BY <2>1, <2>2 DEF Changing
<1>3. QED
  BY <1>1, <1>2

\* It stands when the lock is deleted,
LEMMA ListsDelete ==
    ASSUME NEW f \in Flock, NEW w, NEW V, NEW l, Comes(w, V, l), WRange(f, w), WLists(w, V),
           NEW x, Changing(f, w, l, x), Deleted(w, l, x)
    PROVE  WLists(x, Removed(V, Len(w.out) + 1))
<1> DEFINE n == Len(w.out)
           U == Removed(V, n + 1)
<1>1. V \in Seq(Lock) /\ n + 1 \in 1 .. Len(V) /\ V[n + 1] = l /\ l \in Lock /\ n \in Nat
      /\ x.out = w.out /\ w \in WalkState
  BY StateFacts DEF Comes, Deleted
<1>2. Sound(V) /\ \A j \in 1 .. Len(V) : V[j].set.type \in Types
  BY DEF WLists
<1> HIDE DEF n
<1>3. Sound(U) /\ Len(U) = Len(V) - 1
  BY <1>1, <1>2, SoundDel, RemovedIs
<1>4. \A j \in 1 .. Len(U) : \E m \in 1 .. Len(V) :
         m # n + 1 /\ U[j] = V[m] /\ (j < n + 1 => m = j)
  BY <1>1, RemovedFrom
<1> HIDE DEF U
<1>5. \A j \in 1 .. Len(U) : U[j].set.type \in Types
  BY <1>2, <1>4, Zenon
<1>6. ASSUME x.td # NULL, NEW j \in 1 .. Len(U)
      PROVE  Apart(x.td, U[j].set) /\ (j <= Len(x.out) => U[j].set.start <= x.td.start)
  <2>1. Rest(w, l, x) /\ l.set.start <= w.ld.end
    BY <1>6, <1>1, ChangingIs
  <2>2. /\ x.td \in Flock /\ l.set.start <= x.td.start
        /\ \A g \in Flock : Apart(l.set, g) => Apart(x.td, g)
    BY <2>1, <1>1, <1>6, RestIs
  <2>3. PICK m \in 1 .. Len(V) : m # n + 1 /\ U[j] = V[m] /\ (j < n + 1 => m = j)
    BY <1>4, <1>6, Zenon
  <2>4. V[m].set \in Flock
    BY <1>1, LockFacts
  <2>5. Apart(x.td, U[j].set)
    BY <2>2, <2>3, <2>4, <1>1, <1>2, SoundPair
  <2>6. ASSUME j <= n PROVE U[j].set.start <= x.td.start
    <3>1. m = j /\ m <= n + 1 /\ m \in Int
      BY <2>3, <2>6, <1>1
    <3>2. V[m].set.start <= V[n + 1].set.start
      BY <3>1, <1>1, <1>2, OrderedPair
    <3>3. V[m].set.start \in Nat /\ l.set.start \in Nat /\ x.td.start \in Nat
      BY <2>2, <2>4, <1>1, LockFacts, FlockFacts
    <3>4. QED
      BY <2>2, <2>3, <3>2, <3>3, <1>1
  <2>7. QED
    BY <2>5, <2>6, <1>1 DEF n
<1>7. WLists(x, U)
  BY <1>3, <1>5, <1>6 DEF WLists
<1>8. QED
  BY <1>7 DEF U, n

\* What is left of l in front of the region.
LEMMA FrontIs ==
    ASSUME NEW w \in WalkState, NEW l \in Lock, l.set.start < w.ld.start,
           NEW c, c = Shrunk(l, w.ld.start - 1)
    PROVE  /\ c \in Lock /\ c.set \in Flock /\ c.set.own = l.set.own /\ c.set.type = l.set.type
           /\ c.set.start = l.set.start /\ c.set.end = w.ld.start - 1
           /\ c.slp = l.slp \ WAKEUP(l) /\ c.wakeflg = FALSE
<1>1. l.set \in Flock /\ w.ld \in Flock
  BY StateFacts, LockFacts
<1>2. l.set.start \in Nat /\ w.ld.start \in Nat /\ w.ld.start <= MAXEND
  BY <1>1, FlockFacts
<1>3. w.ld.start - 1 \in Bytes /\ l.set.start <= w.ld.start - 1
  BY <1>2, LimitsNatural DEF Bytes
<1> DEFINE e == w.ld.start - 1
<1>4. e \in Bytes /\ l.set.start <= e /\ c = Shrunk(l, e)
  BY <1>3
<1> HIDE DEF e
<1>5. /\ c \in Lock /\ c.set \in Flock /\ c.set.own = l.set.own /\ c.set.type = l.set.type
      /\ c.set.start = l.set.start /\ c.set.end = e
      /\ c.slp = l.slp \ WAKEUP(l) /\ c.wakeflg = FALSE
  BY <1>4, ShrunkIs
<1>6. QED
  BY <1>5 DEF e

\* when the lock is cut,
LEMMA ListsShorten ==
    ASSUME NEW f \in Flock, NEW w, NEW V, NEW l, Comes(w, V, l), WRange(f, w), WLists(w, V),
           NEW x, Changing(f, w, l, x), Shortened(w, l, x),
           NEW c, c = Shrunk(l, w.ld.start - 1)
    PROVE  WLists(x, [V EXCEPT ![Len(w.out) + 1] = c])
<1> DEFINE n == Len(w.out)
           U == [V EXCEPT ![n + 1] = c]
<1>1. V \in Seq(Lock) /\ n + 1 \in 1 .. Len(V) /\ V[n + 1] = l /\ l \in Lock /\ n \in Nat
      /\ w \in WalkState /\ w.out \in Seq(Lock)
  BY StateFacts DEF Comes
<1>2. Sound(V) /\ \A j \in 1 .. Len(V) : V[j].set.type \in Types
  BY DEF WLists
<1>3. x.out = Append(w.out, c) /\ l.set.start < w.ld.start /\ w.ld.start <= l.set.end
  BY DEF Shortened
<1>4. /\ c \in Lock /\ c.set \in Flock /\ c.set.own = l.set.own /\ c.set.type = l.set.type
      /\ c.set.start = l.set.start /\ c.set.end = w.ld.start - 1
  <2>1. w \in WalkState /\ l \in Lock /\ l.set.start < w.ld.start
    BY <1>1, <1>3
  <2>2. QED
    BY <2>1, FrontIs, ZenonT(60)
<1>5. Len(x.out) = n + 1
  BY <1>1, <1>3, <1>4, Appended
<1>6. /\ w.ld \in Flock /\ l.set \in Flock /\ w.ld.start \in Nat /\ l.set.start \in Nat
      /\ l.set.end \in Nat /\ w.ld.end \in Nat /\ w.ld.start <= w.ld.end
  BY <1>1, StateFacts, LockFacts, FlockFacts
<1> HIDE DEF n
<1>7. Sound(U)
  <2>1. c.set.end <= V[n + 1].set.end
    BY <1>1, <1>3, <1>4, <1>6
  <2>2. QED
    BY <2>1, <1>1, <1>2, <1>4, SoundPut
<1>8. /\ Len(U) = Len(V) /\ U[n + 1] = c
      /\ \A j \in 1 .. Len(V) : j # n + 1 => U[j] = V[j]
  <2>1. Len(U) = Len(V) /\ U[n + 1] = c
    BY <1>1, <1>4, ReplacedIs
  <2>2. \A j \in 1 .. Len(V) : j # n + 1 => U[j] = V[j]
    BY <1>1, <1>4, ReplacedIs
  <2>3. QED
    BY <2>1, <2>2
<1> HIDE DEF U
<1>9. \A j \in 1 .. Len(U) : U[j].set.type \in Types
  BY <1>1, <1>2, <1>4, <1>8
<1>10. ASSUME x.td # NULL, NEW j \in 1 .. Len(U)
       PROVE  Apart(x.td, U[j].set) /\ (j <= Len(x.out) => U[j].set.start <= x.td.start)
  <2>1. Rest(w, l, x) /\ l.set.start <= w.ld.end
    BY <1>10, <1>1, ChangingIs
  <2>2. /\ x.td \in Flock /\ l.set.start <= x.td.start /\ x.td.start > w.ld.end
        /\ x.td.own = l.set.own /\ x.td.type = l.set.type
        /\ \A g \in Flock : Apart(l.set, g) => Apart(x.td, g)
    BY <2>1, <1>1, <1>10, RestIs
  <2>3. x.td.start \in Nat /\ x.td.end \in Nat /\ x.td.start <= x.td.end
    BY <2>2, FlockFacts
  <2>4. CASE j = n + 1
    <3>1. Apart(x.td, c.set)
      BY <2>2, <2>3, <1>4, <1>6 DEF Apart
    <3>2. QED
      BY <3>1, <2>4, <2>2, <1>4, <1>8
  <2>5. CASE j # n + 1
    <3>1. j \in 1 .. Len(V) /\ U[j] = V[j] /\ V[j].set \in Flock
      BY <2>5, <1>1, <1>8, LockFacts
    <3>2. Apart(x.td, U[j].set)
      BY <2>2, <2>5, <3>1, <1>1, <1>2, SoundPair
    <3>3. ASSUME j <= n + 1 PROVE U[j].set.start <= x.td.start
      <4>1. V[j].set.start <= V[n + 1].set.start
        BY <3>1, <3>3, <1>1, <1>2, OrderedPair
      <4>2. V[j].set.start \in Nat
        BY <3>1, FlockFacts
      <4>3. QED
        BY <4>1, <4>2, <3>1, <2>2, <2>3, <1>1, <1>6, SMTT(30)
    <3>4. QED
      BY <3>2, <3>3, <1>5
  <2>6. QED
    BY <2>4, <2>5
<1>11. WLists(x, U)
  BY <1>7, <1>9, <1>10 DEF WLists
<1>12. QED
  BY <1>11 DEF U, n

\* The piece comes to its place: no lock that is still ahead starts before it.
Places(w, V) ==
    /\ w \in WalkState /\ V \in Seq(Lock) /\ Len(w.out) \in 0 .. Len(V)
    /\ w.td # NULL
    /\ \A j \in Len(w.out) + 1 .. Len(V) : w.td.start <= V[j].set.start

\* and when the piece is put there.
LEMMA ListsPlace ==
    ASSUME NEW f \in Flock, NEW w, NEW V, Places(w, V), WRange(f, w), WLists(w, V)
    PROVE  WLists(PlacePiece(w), InsertAfter(V, Len(w.out), NewLock(w.td)))
<1> DEFINE n == Len(w.out)
           c == NewLock(w.td)
           U == InsertAfter(V, n, c)
           x == PlacePiece(w)
<1>1. x.td = NULL /\ c \in Lock /\ c.set = w.td
  BY RangePlace DEF Places
<1>2. V \in Seq(Lock) /\ n \in 0 .. Len(V)
  BY DEF Places
<1>3. /\ Sound(V)
      /\ \A j \in 1 .. Len(V) : V[j].set.type \in Types
      /\ \A j \in 1 .. Len(V) : Apart(w.td, V[j].set) /\ (j <= Len(w.out) => V[j].set.start <= w.td.start)
  BY DEF WLists, Places
<1>4. \A j \in n + 1 .. Len(V) : w.td.start <= V[j].set.start
  BY DEF Places
<1>5. \A j \in 1 .. n : V[j].set.start <= w.td.start
  BY <1>2, <1>3
<1>6. w.td.type \in Types
  BY DEF WRange, Places
<1> HIDE DEF n, c, x
<1>7. Sound(U)
  BY <1>1, <1>2, <1>3, <1>4, <1>5, SoundInsert
<1>8. \A j \in 1 .. Len(U) : U[j] = c \/ \E m \in 1 .. Len(V) : U[j] = V[m]
  BY <1>1, <1>2, InsertedFrom
<1> HIDE DEF U
<1>9. \A j \in 1 .. Len(U) : U[j].set.type \in Types
  <2> SUFFICES ASSUME NEW j \in 1 .. Len(U) PROVE U[j].set.type \in Types
    OBVIOUS
  <2>1. CASE U[j] = c
    BY <2>1, <1>1, <1>6
  <2>2. CASE \E m \in 1 .. Len(V) : U[j] = V[m]
    BY <2>2, <1>3
  <2>3. QED
    BY <2>1, <2>2, <1>8
<1>10. WLists(x, U)
  BY <1>1, <1>7, <1>9 DEF WLists
<1>11. QED
  BY <1>10 DEF U, n, c, x

\* The region does not overlap what the owner has behind the walk; and what
\* others have, if it is to be locked.
WApart(f, w, V) ==
    w.ret = "ok" => \A j \in 1 .. Len(V) :
        /\ V[j].set.own = f.own /\ (j <= Len(w.out) \/ w.over) => Apart(w.ld, V[j].set)
        /\ V[j].set.own # f.own /\ f.type # "F_UNLCK" => Apart(w.ld, V[j].set)

\* Behind a lock of the owner its next one starts behind the end.
LEMMA Beyond ==
    ASSUME NEW V \in Seq(Lock), Sound(V), NEW i \in 1 .. Len(V), NEW j \in 1 .. Len(V), i < j,
           V[i].set.own = V[j].set.own
    PROVE  /\ V[i].set.end < V[j].set.start
           /\ V[j].set.start = V[i].set.end + 1 => V[i].set.type # V[j].set.type
<1>1. V[i].set.start <= V[j].set.start /\ Apart(V[i].set, V[j].set)
  BY DEF Sound
<1>2. V[i].set \in Flock /\ V[j].set \in Flock
  BY LockFacts
<1>3. QED
  BY <1>1, <1>2, FlockFacts DEF Apart

\* It is so when a lock is passed over,
LEMMA ApartPass ==
    ASSUME NEW f \in Flock, NEW w, NEW V, NEW l, Comes(w, V, l), WRange(f, w), WLists(w, V),
           WApart(f, w, V), NEW x, Passing(f, w, l, x)
    PROVE  WApart(f, x, V)
<1> DEFINE n == Len(w.out)
<1>1. /\ x.ld = w.ld /\ x.out = Append(w.out, l) /\ l \in Lock /\ w.out \in Seq(Lock)
      /\ V \in Seq(Lock) /\ n + 1 \in 1 .. Len(V) /\ V[n + 1] = l /\ n \in Nat /\ w \in WalkState
  BY PassingPasses, StateFacts DEF Comes
<1>2. Len(x.out) = n + 1
  BY <1>1, Appended
<1> HIDE DEF n
<1>3. CASE Passed(f, w, l, x)
  <2>1. x.ret = w.ret /\ x.over = w.over /\ (w.over \/ l.set.own # f.own)
    BY <1>3 DEF Passed
  <2>2. SUFFICES ASSUME x.ret = "ok", NEW j \in 1 .. Len(V)
                 PROVE  /\ V[j].set.own = f.own /\ (j <= n + 1 \/ x.over) => Apart(x.ld, V[j].set)
                        /\ V[j].set.own # f.own /\ f.type # "F_UNLCK" => Apart(x.ld, V[j].set)
    BY <1>2 DEF WApart
  <2>3. j <= n + 1 => j <= n \/ j = n + 1
    BY <1>1
  <2>4. QED
    BY <2>1, <2>2, <2>3, <1>1 DEF WApart, n
<1>4. CASE Fresh(w) /\ l.set.own = f.own /\ Cleared(w, l, x)
  <2>1. w.ret = "ok" /\ ~w.over /\ Apart(w.ld, l.set) /\ (x.over => w.ld.end < l.set.start)
    BY <1>4 DEF Fresh, Cleared
  <2>2. SUFFICES ASSUME NEW j \in 1 .. Len(V)
                 PROVE  /\ V[j].set.own = f.own /\ (j <= n + 1 \/ x.over) => Apart(x.ld, V[j].set)
                        /\ V[j].set.own # f.own /\ f.type # "F_UNLCK" => Apart(x.ld, V[j].set)
    BY <1>2 DEF WApart
  <2>3. CASE j <= n
    BY <2>1, <2>3, <1>1 DEF WApart, n
  <2>4. CASE j = n + 1
    BY <2>1, <2>4, <1>1, <1>4
  <2>5. CASE j > n + 1
    <3>1. V[j].set.own # f.own /\ f.type # "F_UNLCK" => Apart(x.ld, V[j].set)
      BY <2>1, <1>1 DEF WApart
    <3>2. ASSUME V[j].set.own = f.own, x.over PROVE Apart(x.ld, V[j].set)
      <4>1. l.set.end < V[j].set.start
        BY <2>5, <3>2, <1>1, <1>4, Beyond DEF WLists
      <4>2. l.set \in Flock /\ V[j].set \in Flock /\ w.ld \in Flock
        BY <1>1, LockFacts, StateFacts
      <4>3. /\ l.set.start \in Nat /\ l.set.end \in Nat /\ l.set.start <= l.set.end
            /\ V[j].set.start \in Nat /\ w.ld.end \in Nat
        BY <4>2, FlockFacts
      <4>4. w.ld.end + 1 < V[j].set.start
        BY <4>1, <4>3, <3>2, <2>1
      <4>5. QED
        BY <4>4, <3>2, <1>1 DEF Apart, WRange
    <3>3. QED
      BY <2>5, <3>1, <3>2, <1>1
  <2>6. QED
    BY <2>3, <2>4, <2>5, <1>1
<1>5. CASE Inside(w, l, x) \/ Short(w, l, x)
  BY <1>5 DEF WApart, Inside, Short
<1>6. QED
  BY <1>3, <1>4, <1>5 DEF Passing

\* The hull of two regions that meet.
LEMMA HullApart ==
    ASSUME NEW d \in Flock, NEW l \in Flock, NEW h \in Flock, NEW g \in Flock,
           l.start <= d.end + 1, d.start <= l.end + 1,
           d.own = l.own, h.own = d.own, d.type = l.type, h.type = d.type,
           h.start = IF l.start < d.start THEN l.start ELSE d.start,
           h.end = IF l.end > d.end THEN l.end ELSE d.end,
           Apart(d, g), Apart(l, g)
    PROVE  Apart(h, g)
<1>1. /\ d.start \in Nat /\ d.end \in Nat /\ l.start \in Nat /\ l.end \in Nat
      /\ g.start \in Nat /\ g.end \in Nat /\ g.start <= g.end /\ d.start <= d.end /\ l.start <= l.end
      /\ h.start \in Nat /\ h.end \in Nat
  BY FlockFacts
<1>2. CASE h.own = g.own
  BY <1>1, <1>2 DEF Apart
<1>3. CASE h.own # g.own
  <2>1. SUFFICES ASSUME h.start <= g.end /\ g.start <= h.end
                 PROVE  h.type = "F_RDLCK" /\ g.type = "F_RDLCK"
    BY <1>3 DEF Apart
  <2>2. (d.start <= g.end /\ g.start <= d.end) \/ (l.start <= g.end /\ g.start <= l.end)
    BY <2>1, <1>1
  <2>3. QED
    BY <2>2, <1>3 DEF Apart
<1>4. QED
  BY <1>2, <1>3

\* when it is deleted, and the region takes it in or overlays it,
LEMMA ApartDelete ==
    ASSUME NEW f \in Flock, NEW w, NEW V, NEW l, Comes(w, V, l), WRange(f, w), WLists(w, V),
           WApart(f, w, V), NEW x, Changing(f, w, l, x), Deleted(w, l, x)
    PROVE  WApart(f, x, Removed(V, Len(w.out) + 1))
<1> DEFINE n == Len(w.out)
           U == Removed(V, n + 1)
<1>1. V \in Seq(Lock) /\ n + 1 \in 1 .. Len(V) /\ V[n + 1] = l /\ l \in Lock /\ n \in Nat
      /\ x.out = w.out /\ w \in WalkState /\ x \in WalkState
  BY StateFacts DEF Comes, Deleted
<1>2. Sound(V) /\ l.set.own = f.own /\ w.ld.own = f.own /\ w.ld.type = f.type
      /\ w.ret = "ok" /\ ~w.over
  BY DEF WLists, WRange, Changing, Fresh
<1>3. w.ld \in Flock /\ x.ld \in Flock /\ l.set \in Flock
  BY <1>1, StateFacts, LockFacts
<1>4. /\ w.ld.start \in Nat /\ w.ld.end \in Nat /\ l.set.start \in Nat /\ l.set.end \in Nat
      /\ w.ld.start <= w.ld.end /\ l.set.start <= l.set.end
  BY <1>3, FlockFacts
<1> HIDE DEF n
<1>5. Len(U) = Len(V) - 1
  BY <1>1, RemovedIs
<1>6. \A j \in 1 .. Len(U) : \E m \in 1 .. Len(V) :
         m # n + 1 /\ U[j] = V[m] /\ (j < n + 1 => m = j) /\ (j >= n + 1 => m = j + 1)
  BY <1>1, RemovedFrom
<1> HIDE DEF U
\* The region as it is now, and any lock that the old one is apart from.
<1>7. ASSUME NEW g \in Flock, Apart(w.ld, g), Apart(l.set, g) PROVE Apart(x.ld, g)
  <2>1. CASE Joined(w, l, x)
    <3>1. /\ l.set.start <= w.ld.end + 1 /\ w.ld.start <= l.set.end + 1
          /\ w.ld.own = l.set.own /\ x.ld.own = w.ld.own
          /\ w.ld.type = l.set.type /\ x.ld.type = w.ld.type
          /\ x.ld.start = IF l.set.start < w.ld.start THEN l.set.start ELSE w.ld.start
          /\ x.ld.end = IF l.set.end > w.ld.end THEN l.set.end ELSE w.ld.end
      BY <2>1, <1>2 DEF Joined
    <3>2. QED
      BY <3>1, <1>3, <1>7, HullApart, Zenon
  <2>2. CASE Overlaid(w, l, x)
    BY <2>2, <1>7 DEF Overlaid
  <2>3. QED
    BY <2>1, <2>2 DEF Deleted
\* And the owner's next locks, when all is done.
<1>8. ASSUME NEW g \in Flock, g.own = f.own, x.over, l.set.end < g.start,
             g.start = l.set.end + 1 => l.set.type # g.type
      PROVE  Apart(x.ld, g)
  <2>1. CASE Joined(w, l, x)
    BY <2>1, <1>2, <1>3, <1>4, <1>8, FlockFacts DEF Joined, Apart
  <2>2. CASE Overlaid(w, l, x)
    BY <2>2, <1>2, <1>3, <1>4, <1>8, FlockFacts DEF Overlaid, Rest, Apart
  <2>3. QED
    BY <2>1, <2>2 DEF Deleted
<1>9. ASSUME NEW j \in 1 .. Len(U)
      PROVE  /\ U[j].set.own = f.own /\ (j <= n \/ x.over) => Apart(x.ld, U[j].set)
             /\ U[j].set.own # f.own /\ f.type # "F_UNLCK" => Apart(x.ld, U[j].set)
  <2>1. PICK m \in 1 .. Len(V) :
         m # n + 1 /\ U[j] = V[m] /\ (j < n + 1 => m = j) /\ (j >= n + 1 => m = j + 1)
    BY <1>6, <1>9, Zenon
  <2>2. Apart(l.set, V[m].set) /\ V[m].set \in Flock
    BY <2>1, <1>1, <1>2, SoundPair, LockFacts
  <2>3. ASSUME U[j].set.own # f.own, f.type # "F_UNLCK" PROVE Apart(x.ld, U[j].set)
    <3>1. Apart(w.ld, V[m].set)
      BY <2>1, <2>3, <1>2 DEF WApart
    <3>2. QED
      BY <3>1, <2>1, <2>2, <1>7
  <2>4. ASSUME U[j].set.own = f.own, j <= n PROVE Apart(x.ld, U[j].set)
    <3>1. m = j /\ m <= n
      BY <2>1, <2>4, <1>1
    <3>2. Apart(w.ld, V[m].set)
      BY <2>1, <2>4, <3>1, <1>2 DEF WApart, n
    <3>3. QED
      BY <3>2, <2>1, <2>2, <1>7
  <2>5. ASSUME U[j].set.own = f.own, ~(j <= n), x.over PROVE Apart(x.ld, U[j].set)
    <3>1. n + 1 < m
      BY <2>1, <2>5, <1>1
    <3>2. /\ l.set.end < V[m].set.start
          /\ V[m].set.start = l.set.end + 1 => l.set.type # V[m].set.type
      BY <3>1, <2>1, <2>5, <1>1, <1>2, Beyond
    <3>3. QED
      BY <3>2, <2>1, <2>2, <2>5, <1>8
  <2>6. QED
    BY <2>3, <2>4, <2>5
<1>10. WApart(f, x, U)
  BY <1>9, <1>1 DEF WApart, n
<1>11. QED
  BY <1>10 DEF U, n

\* when it is cut,
LEMMA ApartShorten ==
    ASSUME NEW f \in Flock, NEW w, NEW V, NEW l, Comes(w, V, l), WRange(f, w), WLists(w, V),
           WApart(f, w, V), NEW x, Changing(f, w, l, x), Shortened(w, l, x),
           NEW c, c = Shrunk(l, w.ld.start - 1)
    PROVE  WApart(f, x, [V EXCEPT ![Len(w.out) + 1] = c])
<1> DEFINE n == Len(w.out)
           U == [V EXCEPT ![n + 1] = c]
<1>1. V \in Seq(Lock) /\ n + 1 \in 1 .. Len(V) /\ V[n + 1] = l /\ l \in Lock /\ n \in Nat
      /\ w \in WalkState /\ w.out \in Seq(Lock)
  BY StateFacts DEF Comes
<1>2. Sound(V) /\ l.set.own = f.own /\ w.ld.own = f.own /\ w.ld.type = f.type
      /\ w.ret = "ok" /\ ~w.over
  BY DEF WLists, WRange, Changing, Fresh
<1>3. /\ x.out = Append(w.out, c) /\ l.set.start < w.ld.start /\ w.ld.start <= l.set.end
      /\ x.ld = w.ld /\ w.ld.type # l.set.type /\ (x.over => w.ld.end < l.set.end)
  BY DEF Shortened, Rest
<1>4. /\ c \in Lock /\ c.set \in Flock /\ c.set.own = l.set.own /\ c.set.type = l.set.type
      /\ c.set.start = l.set.start /\ c.set.end = w.ld.start - 1
  <2>1. w \in WalkState /\ l \in Lock /\ l.set.start < w.ld.start
    BY <1>1, <1>3
  <2>2. QED
    BY <2>1, FrontIs, Zenon
<1>5. Len(x.out) = n + 1
  BY <1>1, <1>3, <1>4, Appended
<1>6. /\ w.ld \in Flock /\ l.set \in Flock /\ w.ld.start \in Nat /\ l.set.start \in Nat
      /\ l.set.end \in Nat /\ w.ld.end \in Nat /\ w.ld.start <= w.ld.end
  BY <1>1, StateFacts, LockFacts, FlockFacts
<1> HIDE DEF n
<1>7. Len(U) = Len(V) /\ U[n + 1] = c
  BY <1>1, <1>4, ReplacedIs
<1>8. \A j \in 1 .. Len(V) : j # n + 1 => U[j] = V[j]
  BY <1>1, <1>4, ReplacedIs
<1> HIDE DEF U
<1>9. ASSUME NEW j \in 1 .. Len(V)
      PROVE  /\ U[j].set.own = f.own /\ (j <= n + 1 \/ x.over) => Apart(x.ld, U[j].set)
             /\ U[j].set.own # f.own /\ f.type # "F_UNLCK" => Apart(x.ld, U[j].set)
  <2>1. CASE j = n + 1
    <3>0. c.set.end + 1 = w.ld.start /\ c.set.own = w.ld.own /\ w.ld.type # c.set.type
      <4>1. c.set.end + 1 = w.ld.start
        BY <1>4, <1>6
      <4>2. c.set.own = w.ld.own
        BY <1>2, <1>4
      <4>3. w.ld.type # c.set.type
        BY <1>3, <1>4
      <4>4. QED
        BY <4>1, <4>2, <4>3
    <3>1. Apart(w.ld, c.set)
      <4> DEFINE d == w.ld
                 e == c.set
      <4>1. e.end + 1 = d.start /\ e.own = d.own /\ d.type # e.type
        BY <3>0
      <4> HIDE DEF d, e
      <4>2. Apart(d, e)
        BY <4>1 DEF Apart
      <4>3. QED
        BY <4>2 DEF d, e
    <3>2. QED
      BY <3>1, <2>1, <1>2, <1>3, <1>4, <1>7
  <2>2. CASE j < n + 1
    <3>1. U[j] = V[j] /\ j <= n
      BY <2>2, <1>1, <1>8
    <3>2. QED
      BY <3>1, <1>2, <1>3 DEF WApart, n
  <2>3. CASE j > n + 1
    <3>1. U[j] = V[j] /\ V[j].set \in Flock
      BY <2>3, <1>1, <1>8, LockFacts
    <3>2. V[j].set.own # f.own /\ f.type # "F_UNLCK" => Apart(x.ld, V[j].set)
      BY <1>2, <1>3 DEF WApart
    <3>3. ASSUME V[j].set.own = f.own, x.over PROVE Apart(x.ld, V[j].set)
      <4>1. l.set.end < V[j].set.start
        BY <2>3, <3>3, <1>1, <1>2, Beyond
      <4>2. V[j].set.start \in Nat
        BY <3>1, FlockFacts
      <4>3. w.ld.end + 1 < V[j].set.start
        BY <4>1, <4>2, <3>3, <1>3, <1>6
      <4>4. QED
        BY <4>3, <3>3, <1>2, <1>3 DEF Apart
    <3>4. QED
      BY <3>1, <3>2, <3>3, <2>3, <1>1
  <2>4. QED
    BY <2>1, <2>2, <2>3, <1>1
<1>10. WApart(f, x, U)
  BY <1>5, <1>7, <1>9 DEF WApart
<1>11. QED
  BY <1>10 DEF U, n

\* and when the piece is put in its place.
LEMMA ApartPlace ==
    ASSUME NEW f \in Flock, NEW w, NEW V, Places(w, V), WRange(f, w), WLists(w, V),
           WApart(f, w, V)
    PROVE  WApart(f, PlacePiece(w), InsertAfter(V, Len(w.out), NewLock(w.td)))
<1> DEFINE n == Len(w.out)
           c == NewLock(w.td)
           U == InsertAfter(V, n, c)
           x == PlacePiece(w)
<1>1. c \in Lock /\ c.set = w.td /\ x.ld = w.ld /\ x.ret = w.ret
  BY RangePlace DEF Places
<1>2. V \in Seq(Lock) /\ n \in 0 .. Len(V) /\ w.td \in Flock /\ w.ld \in Flock
  BY StateFacts DEF Places
<1>3. /\ w.over /\ w.ret = "ok" /\ w.td.own = f.own /\ w.td.type # f.type
      /\ w.ld.end < w.td.start /\ w.ld.own = f.own /\ w.ld.type = f.type
  BY DEF Places, WRange
<1>4. Apart(w.ld, w.td)
  BY <1>2, <1>3, FlockFacts DEF Apart
<1> HIDE DEF n, c, x
<1>5. \A j \in 1 .. Len(U) : U[j] = c \/ \E m \in 1 .. Len(V) : U[j] = V[m]
  BY <1>1, <1>2, InsertedFrom
<1> HIDE DEF U
<1>6. ASSUME NEW j \in 1 .. Len(U)
      PROVE  /\ U[j].set.own = f.own => Apart(x.ld, U[j].set)
             /\ U[j].set.own # f.own /\ f.type # "F_UNLCK" => Apart(x.ld, U[j].set)
  <2>1. CASE U[j] = c
    BY <2>1, <1>1, <1>3, <1>4
  <2>2. CASE \E m \in 1 .. Len(V) : U[j] = V[m]
    BY <2>2, <1>1, <1>3 DEF WApart
  <2>3. QED
    BY <2>1, <2>2, <1>5
<1>7. WApart(f, x, U)
  BY <1>6 DEF WApart
<1>8. QED
  BY <1>7 DEF U, n, c, x

\* The new lock goes behind the lock insrtp, which does not start after the
\* region; without insrtp, no lock starts before it.
WPlace(f, w, V) ==
    w.ret = "ok" /\ f.type # "F_UNLCK" =>
        /\ w.insrtp <= Len(V)
        /\ w.insrtp <= Len(w.out) + 1
        /\ w.over => w.insrtp <= Len(w.out)
        /\ w.insrtp # 0 => V[w.insrtp].set.start <= w.ld.start
        /\ w.insrtp = 0 => \A j \in 1 .. Len(V) : w.ld.start <= V[j].set.start

\* It is so when a lock is passed over,
LEMMA PlacePass ==
    ASSUME NEW f \in Flock, NEW w, NEW V, NEW l, Comes(w, V, l), WRange(f, w),
           WPlace(f, w, V), NEW x, Passing(f, w, l, x)
    PROVE  WPlace(f, x, V)
<1> DEFINE n == Len(w.out)
<1>1. /\ x.ld = w.ld /\ x.out = Append(w.out, l) /\ l \in Lock /\ w.out \in Seq(Lock)
      /\ V \in Seq(Lock) /\ n + 1 \in 1 .. Len(V) /\ V[n + 1] = l /\ n \in Nat /\ w \in WalkState
      /\ w.insrtp \in Nat /\ Len(V) \in Nat
  BY PassingPasses, StateFacts DEF Comes
<1>2. Len(x.out) = n + 1
  BY <1>1, Appended
<1>3. SUFFICES ASSUME x.ret = "ok", f.type # "F_UNLCK"
               PROVE  /\ x.insrtp <= Len(V)
                      /\ x.insrtp <= n + 1
                      /\ x.insrtp # 0 => V[x.insrtp].set.start <= x.ld.start
                      /\ x.insrtp = 0 => \A j \in 1 .. Len(V) : x.ld.start <= V[j].set.start
  <2> HIDE DEF n
  <2>1. x.insrtp <= n + 1 => x.insrtp <= (n + 1) + 1
    <3>1. x.insrtp \in Nat
      BY PassingPasses, StateFacts
    <3>2. QED
      BY <1>1, <3>1
  <2>2. QED
    BY <1>2, <2>1 DEF WPlace
<1>4. w.ret = "ok"
  BY <1>3 DEF Passing, Passed, Fresh
<1>5. /\ w.insrtp <= Len(V) /\ w.insrtp <= n + 1
      /\ w.insrtp # 0 => V[w.insrtp].set.start <= w.ld.start
      /\ w.insrtp = 0 => \A j \in 1 .. Len(V) : w.ld.start <= V[j].set.start
  BY <1>3, <1>4 DEF WPlace
<1>6. CASE x.insrtp = w.insrtp
  BY <1>1, <1>5, <1>6
<1>7. CASE x.insrtp = n + 1 /\ l.set.start <= w.ld.start
  BY <1>1, <1>7
<1>8. x.insrtp = w.insrtp \/ (x.insrtp = n + 1 /\ l.set.start <= w.ld.start)
  <2>1. Passed(f, w, l, x) => x.insrtp = w.insrtp
    BY DEF Passed
  <2>2. Cleared(w, l, x) => x.insrtp = w.insrtp \/ (x.insrtp = n + 1 /\ l.set.start <= w.ld.start)
    BY DEF Cleared
  <2>3. ~Inside(w, l, x) /\ ~Short(w, l, x)
    BY <1>3 DEF Inside, Short
  <2>4. QED
    BY <2>1, <2>2, <2>3 DEF Passing
<1>9. QED
  BY <1>6, <1>7, <1>8

\* deleted,
LEMMA PlaceDelete ==
    ASSUME NEW f \in Flock, NEW w, NEW V, NEW l, Comes(w, V, l), WRange(f, w), WLists(w, V),
           WPlace(f, w, V), NEW x, Changing(f, w, l, x), Deleted(w, l, x)
    PROVE  WPlace(f, x, Removed(V, Len(w.out) + 1))
<1> DEFINE n == Len(w.out)
           U == Removed(V, n + 1)
<1>1. V \in Seq(Lock) /\ n + 1 \in 1 .. Len(V) /\ V[n + 1] = l /\ l \in Lock /\ n \in Nat
      /\ x.out = w.out /\ w \in WalkState /\ w.insrtp \in Nat /\ Len(V) \in Nat
  BY StateFacts DEF Comes, Deleted
<1>2. Sound(V) /\ w.ret = "ok"
  BY DEF WLists, Changing, Fresh
<1>3. w.ld \in Flock /\ l.set \in Flock /\ \A j \in 1 .. Len(V) : V[j].set.start \in Nat
  BY <1>1, StateFacts, LockFacts, FlockFacts
<1>4. w.ld.start \in Nat /\ l.set.start \in Nat
  BY <1>3, FlockFacts
<1>5. x.insrtp = IF l.set.start <= w.ld.start THEN n ELSE w.insrtp
  BY DEF Deleted
<1>6. SUFFICES ASSUME f.type # "F_UNLCK" PROVE WPlace(f, x, U)
  BY DEF WPlace
<1>7. /\ w.insrtp <= Len(V) /\ w.insrtp <= n + 1
      /\ w.insrtp # 0 => V[w.insrtp].set.start <= w.ld.start
      /\ w.insrtp = 0 => \A j \in 1 .. Len(V) : w.ld.start <= V[j].set.start
  BY <1>2, <1>6 DEF WPlace
\* The region starts where it did, or at the lock deleted if that is before.
<1>8. x.ld.start = IF l.set.start < w.ld.start THEN l.set.start ELSE w.ld.start
  <2>1. CASE Joined(w, l, x)
    BY <2>1 DEF Joined
  <2>2. CASE Overlaid(w, l, x)
    BY <2>2, <1>4 DEF Overlaid
  <2>3. QED
    BY <2>1, <2>2 DEF Deleted
<1> HIDE DEF n
<1>9. Len(U) = Len(V) - 1
  BY <1>1, RemovedIs
<1>10. \A j \in 1 .. n : U[j] = V[j]
  <2>1. \A j \in 1 .. (n + 1) - 1 : U[j] = V[j]
    BY <1>1, RemovedIs
  <2>2. QED
    BY <2>1, <1>1
<1>11. \A j \in 1 .. Len(U) : \E m \in 1 .. Len(V) :
         m # n + 1 /\ U[j] = V[m] /\ (j < n + 1 => m = j) /\ (j >= n + 1 => m = j + 1)
  BY <1>1, RemovedFrom
<1> HIDE DEF U
<1>12. SUFFICES /\ x.insrtp <= n
                /\ x.insrtp # 0 => U[x.insrtp].set.start <= x.ld.start
                /\ x.insrtp = 0 => \A j \in 1 .. Len(U) : x.ld.start <= U[j].set.start
  <2>1. x.insrtp \in Nat
    BY <1>1, <1>5
  <2>2. x.insrtp <= n => x.insrtp <= Len(U) /\ x.insrtp <= n + 1
    BY <2>1, <1>1, <1>9
  <2>3. QED
    BY <1>1, <2>2 DEF WPlace, n
<1>13. CASE l.set.start <= w.ld.start
  <2>1. x.insrtp = n /\ x.ld.start = l.set.start
    BY <1>4, <1>5, <1>8, <1>13
  <2>2. ASSUME n # 0 PROVE U[n].set.start <= l.set.start
    <3>1. n \in 1 .. n /\ n \in 1 .. Len(V) /\ n <= n + 1
      BY <2>2, <1>1
    <3>2. V[n].set.start <= V[n + 1].set.start
      BY <3>1, <1>1, <1>2, OrderedPair
    <3>3. QED
      BY <3>1, <3>2, <1>1, <1>10
  <2>3. ASSUME n = 0, NEW j \in 1 .. Len(U) PROVE l.set.start <= U[j].set.start
    <3>1. PICK m \in 1 .. Len(V) :
         m # n + 1 /\ U[j] = V[m] /\ (j < n + 1 => m = j) /\ (j >= n + 1 => m = j + 1)
      BY <1>11, <2>3, Zenon
    <3>2. n + 1 <= m
      BY <2>3, <3>1
    <3>3. V[n + 1].set.start <= V[m].set.start
      BY <3>2, <1>1, <1>2, OrderedPair
    <3>4. QED
      BY <3>1, <3>3, <1>1
  <2>4. QED
    BY <2>1, <2>2, <2>3, <1>1
<1>14. CASE ~(l.set.start <= w.ld.start)
  <2>1. x.insrtp = w.insrtp /\ x.ld.start = w.ld.start
    BY <1>4, <1>5, <1>8, <1>14
  <2>2. w.insrtp # n + 1
    BY <1>1, <1>7, <1>14
  <2>3. w.insrtp <= n
    BY <2>2, <1>1, <1>7
  <2>4. ASSUME w.insrtp # 0 PROVE U[w.insrtp].set.start <= w.ld.start
    <3>1. w.insrtp \in 1 .. n
      BY <2>3, <2>4, <1>1
    <3>2. QED
      BY <3>1, <2>4, <1>7, <1>10
  <2>5. ASSUME w.insrtp = 0, NEW j \in 1 .. Len(U) PROVE w.ld.start <= U[j].set.start
    BY <2>5, <1>7, <1>11
  <2>6. QED
    BY <2>1, <2>3, <2>4, <2>5
<1>15. QED
  BY <1>13, <1>14

\* cut,
LEMMA PlaceShorten ==
    ASSUME NEW f \in Flock, NEW w, NEW V, NEW l, Comes(w, V, l), WRange(f, w),
           NEW x, Changing(f, w, l, x), Shortened(w, l, x),
           NEW c, c = Shrunk(l, w.ld.start - 1)
    PROVE  WPlace(f, x, [V EXCEPT ![Len(w.out) + 1] = c])
<1> DEFINE n == Len(w.out)
           U == [V EXCEPT ![n + 1] = c]
<1>1. V \in Seq(Lock) /\ n + 1 \in 1 .. Len(V) /\ V[n + 1] = l /\ l \in Lock /\ n \in Nat
      /\ w \in WalkState /\ w.out \in Seq(Lock)
  BY StateFacts DEF Comes
<1>3. /\ x.out = Append(w.out, c) /\ l.set.start < w.ld.start
      /\ x.ld = w.ld /\ x.insrtp = n + 1
  BY DEF Shortened
<1>4. c \in Lock /\ c.set.start = l.set.start
  <2>1. w \in WalkState /\ l \in Lock /\ l.set.start < w.ld.start
    BY <1>1, <1>3
  <2>2. QED
    BY <2>1, FrontIs, Zenon
<1>5. Len(x.out) = n + 1
  BY <1>1, <1>3, <1>4, Appended
<1>6. w.ld.start \in Nat /\ l.set.start \in Nat
  BY <1>1, StateFacts, LockFacts, FlockFacts
<1> HIDE DEF n
<1>7. Len(U) = Len(V) /\ U[n + 1] = c
  BY <1>1, <1>4, ReplacedIs
<1> HIDE DEF U
<1>8. /\ x.insrtp <= Len(U)
      /\ x.insrtp <= Len(x.out) /\ x.insrtp <= Len(x.out) + 1
      /\ x.insrtp # 0
      /\ U[x.insrtp].set.start <= x.ld.start
  BY <1>1, <1>3, <1>4, <1>5, <1>6, <1>7
<1>9. WPlace(f, x, U)
  BY <1>8 DEF WPlace
<1>10. QED
  BY <1>9 DEF U, n

\* and when the piece is put in its place.
LEMMA PlacePlace ==
    ASSUME NEW f \in Flock, NEW w, NEW V, Places(w, V), WRange(f, w), WPlace(f, w, V)
    PROVE  WPlace(f, PlacePiece(w), InsertAfter(V, Len(w.out), NewLock(w.td)))
<1> DEFINE n == Len(w.out)
           c == NewLock(w.td)
           U == InsertAfter(V, n, c)
           x == PlacePiece(w)
<1>1. /\ c \in Lock /\ c.set = w.td /\ x.ld = w.ld /\ x.ret = w.ret /\ x.over = w.over
      /\ x.insrtp = w.insrtp /\ x.out = Append(w.out, c)
  BY RangePlace DEF Places
<1>2. /\ V \in Seq(Lock) /\ n \in 0 .. Len(V) /\ w.td \in Flock /\ w.ld \in Flock
      /\ w.out \in Seq(Lock) /\ n \in Nat /\ Len(V) \in Nat /\ w.insrtp \in Nat
  BY StateFacts DEF Places
<1>3. w.over /\ w.ret = "ok" /\ w.ld.end < w.td.start
  BY DEF Places, WRange
<1>4. Len(x.out) = n + 1
  BY <1>1, <1>2, Appended
<1>5. /\ w.ld.start \in Nat /\ w.ld.end \in Nat /\ w.td.start \in Nat /\ w.ld.start <= w.ld.end
  BY <1>2, FlockFacts
<1> HIDE DEF n, c, x
<1>6. \A j \in 1 .. Len(U) : U[j] = c \/ \E m \in 1 .. Len(V) : U[j] = V[m]
  BY <1>1, <1>2, InsertedFrom
<1>7. Len(U) = Len(V) + 1
  BY <1>1, <1>2, InsertedIs
<1>8. \A j \in 1 .. n : U[j] = V[j]
  BY <1>1, <1>2, InsertedIs
<1> HIDE DEF U
<1>9. SUFFICES ASSUME f.type # "F_UNLCK" PROVE WPlace(f, x, U)
  BY DEF WPlace, U, x, n, c
<1>10. /\ w.insrtp <= n
       /\ w.insrtp # 0 => V[w.insrtp].set.start <= w.ld.start
       /\ w.insrtp = 0 => \A j \in 1 .. Len(V) : w.ld.start <= V[j].set.start
  BY <1>3, <1>9 DEF WPlace, n
<1>11. w.insrtp # 0 => U[w.insrtp].set.start <= w.ld.start
  <2>1. w.insrtp # 0 => w.insrtp \in 1 .. n
    BY <1>2, <1>10
  <2>2. QED
    BY <2>1, <1>8, <1>10
<1>12. ASSUME w.insrtp = 0, NEW j \in 1 .. Len(U) PROVE w.ld.start <= U[j].set.start
  <2>1. CASE U[j] = c
    BY <2>1, <1>1, <1>3, <1>5
  <2>2. CASE \E m \in 1 .. Len(V) : U[j] = V[m]
    BY <2>2, <1>10, <1>12
  <2>3. QED
    BY <2>1, <2>2, <1>6
<1>13. w.insrtp <= Len(U) /\ w.insrtp <= n + 1 /\ w.insrtp <= (n + 1) + 1
  BY <1>2, <1>7, <1>10
<1>14. QED
  BY <1>1, <1>4, <1>11, <1>12, <1>13 DEF WPlace

Within(f, b) == f.start <= b /\ b <= f.end

Codes == Types \cup {"F_UNLCK"}

\* What is locked when the walk has come to V: the others have what they had
\* in L; the owner has nothing it had not, and lacks only what the region
\* covers and the piece, unless the walk has failed.
HeldAt(L, f, w, V, o, b, t) ==
    /\ Has(V, o, b, t) => Has(L, o, b, t)
    /\ o # f.own /\ Has(L, o, b, t) => Has(V, o, b, t)
    /\ o = f.own =>
          /\ w.td # NULL /\ Cov(w.td, o, b, t) => Has(L, o, b, t)
          /\ w.ret = "ok" =>
                /\ Has(L, o, b, t) => \/ Has(V, o, b, t) \/ Within(w.ld, b)
                                      \/ w.td # NULL /\ Cov(w.td, o, b, t)
                /\ Within(w.ld, b) => Within(f, b) \/ Has(L, o, b, f.type)
          /\ w.ret = "have" =>
                /\ Within(f, b) => Has(V, o, b, f.type)
                /\ Has(L, o, b, t) => Has(V, o, b, t) \/ Within(f, b)

WHeld(L, f, w, V) == \A o \in Owners, b \in Bytes, t \in Codes : HeldAt(L, f, w, V, o, b, t)

\* It is so when a lock is passed over,
LEMMA HeldPass ==
    ASSUME NEW L \in Seq(Lock), Sound(L), NEW f \in Flock, NEW w, NEW V, NEW l,
           Comes(w, V, l), WRange(f, w), WHeld(L, f, w, V), NEW x, Passing(f, w, l, x)
    PROVE  WHeld(L, f, x, V)
<1>1. x.ld = w.ld /\ x.td = w.td
  BY PassingPasses
<1>2. SUFFICES ASSUME NEW o \in Owners, NEW b \in Bytes, NEW t \in Codes, o = f.own
               PROVE  /\ x.ret = "ok" => w.ret = "ok"
                      /\ x.ret = "have" =>
                            /\ Within(f, b) => Has(V, o, b, f.type)
                            /\ Has(L, o, b, t) => Has(V, o, b, t) \/ Within(f, b)
  <2>1. SUFFICES ASSUME NEW o \in Owners, NEW b \in Bytes, NEW t \in Codes
                 PROVE  HeldAt(L, f, x, V, o, b, t)
    BY DEF WHeld
  <2>2. HeldAt(L, f, w, V, o, b, t)
    BY DEF WHeld
  <2>3. QED
    BY <1>1, <2>2 DEF HeldAt
<1>3. x.ret = "ok" => w.ret = "ok"
  BY DEF Passing, Passed, Fresh
<1>4. CASE x.ret = w.ret
  BY <1>2, <1>3, <1>4 DEF WHeld, HeldAt
<1>5. CASE Inside(w, l, x) /\ l.set.own = f.own /\ w.ret = "ok" /\ w.td = NULL
  <2>1. /\ V \in Seq(Lock) /\ Len(w.out) + 1 \in 1 .. Len(V) /\ V[Len(w.out) + 1] = l /\ l \in Lock
    BY DEF Comes
  <2>2. /\ w.ld.type = l.set.type /\ l.set.start <= w.ld.start /\ w.ld.end <= l.set.end
    BY <1>5 DEF Inside
  <2>3. /\ w.ld.start <= f.start /\ f.end <= w.ld.end /\ w.ld.type = f.type /\ w.ld \in Flock
    BY StateFacts DEF WRange
  <2>4. b \in Int /\ f.type \in Codes /\ l.set \in Flock
    BY FlockFacts, LockFacts, <2>1, LimitsNatural DEF Bytes, Codes
  <2>5. f.start \in Nat /\ f.end \in Nat /\ w.ld.start \in Nat /\ w.ld.end \in Nat
        /\ l.set.start \in Nat /\ l.set.end \in Nat
    BY <2>3, <2>4, FlockFacts
  <2>6. Within(f, b) => Within(w.ld, b)
    BY <2>3, <2>4, <2>5 DEF Within
  <2>7. Within(w.ld, b) => Cov(l.set, o, b, f.type)
    BY <1>2, <1>5, <2>2, <2>3, <2>4, <2>5 DEF Within, Cov
  <2>8. Cov(l.set, o, b, f.type) => Has(V, o, b, f.type)
    BY <2>1 DEF Has
  <2>9. ASSUME Has(L, o, b, t), ~Has(V, o, b, t) PROVE Within(f, b)
    <3>1. Within(w.ld, b)
      BY <1>2, <1>5, <2>9 DEF WHeld, HeldAt
    <3>2. Within(f, b) \/ Has(L, o, b, f.type)
      BY <1>2, <1>5, <3>1 DEF WHeld, HeldAt
    <3>3. Has(L, o, b, f.type) => t = f.type
      BY <2>4, <2>9, HasOnce
    <3>4. QED
      BY <2>7, <2>8, <2>9, <3>1, <3>2, <3>3
  <2>10. QED
    BY <1>3, <2>6, <2>7, <2>8, <2>9
<1>6. CASE x.ret = "ENOLCK"
  BY <1>6
<1>7. QED
  <2>1. Passed(f, w, l, x) => x.ret = w.ret
    BY DEF Passed
  <2>2. Fresh(w) /\ Cleared(w, l, x) => x.ret = w.ret
    BY DEF Fresh, Cleared
  <2>3. Short(w, l, x) => x.ret = "ENOLCK"
    BY DEF Short
  <2>4. Fresh(w) => w.ret = "ok" /\ w.td = NULL
    BY DEF Fresh
  <2>5. QED
    BY <1>4, <1>5, <1>6, <2>1, <2>2, <2>3, <2>4 DEF Passing

\* deleted,
LEMMA HeldDelete ==
    ASSUME NEW L \in Seq(Lock), NEW f \in Flock, NEW w, NEW V, NEW l,
           Comes(w, V, l), WRange(f, w), WHeld(L, f, w, V),
           NEW x, Changing(f, w, l, x), Deleted(w, l, x)
    PROVE  WHeld(L, f, x, Removed(V, Len(w.out) + 1))
<1> DEFINE k == Len(w.out) + 1
           U == Removed(V, k)
<1>1. /\ V \in Seq(Lock) /\ k \in 1 .. Len(V) /\ V[k] = l /\ l \in Lock /\ w \in WalkState
  BY DEF Comes
<1>2. w.ret = "ok" /\ w.td = NULL /\ l.set.own = f.own /\ x.ret = "ok"
  BY DEF Changing, Fresh, Deleted
<1>3. w.ld.own = f.own /\ w.ld.type = f.type
  BY DEF WRange
<1>4. SUFFICES ASSUME NEW o \in Owners, NEW b \in Bytes, NEW t \in Codes
               PROVE  HeldAt(L, f, x, U, o, b, t)
  BY DEF WHeld
<1>5. \A u \in Codes : HeldAt(L, f, w, V, o, b, u)
  BY DEF WHeld
<1> HIDE DEF k
<1>6. \A u \in Codes : /\ Has(V, o, b, u) => Has(U, o, b, u) \/ Cov(l.set, o, b, u)
                       /\ Has(U, o, b, u) => Has(V, o, b, u)
  BY <1>1, HasDel
<1>7. \A u \in Codes : Cov(l.set, o, b, u) => Has(V, o, b, u)
  BY <1>1 DEF Has
<1> HIDE DEF U
<1>8. b \in Int /\ l.set \in Flock /\ w.ld \in Flock /\ f.type \in Codes
  BY <1>1, StateFacts, FlockFacts, LockFacts, LimitsNatural DEF Bytes, Codes
<1>9. w.ld.start \in Nat /\ w.ld.end \in Nat /\ l.set.start \in Nat /\ l.set.end \in Nat
  BY <1>8, FlockFacts
<1>10. CASE o # f.own
  <2>1. ~Cov(l.set, o, b, t)
    BY <1>2, <1>10 DEF Cov
  <2>2. QED
    BY <2>1, <1>5, <1>6, <1>10 DEF HeldAt
<1>11. CASE o = f.own
  <2>1. \A u \in Codes :
           /\ Has(V, o, b, u) => Has(L, o, b, u)
           /\ Has(L, o, b, u) => Has(V, o, b, u) \/ Within(w.ld, b)
           /\ Within(w.ld, b) => Within(f, b) \/ Has(L, o, b, f.type)
    BY <1>2, <1>5, <1>11 DEF HeldAt
  <2>2. SUFFICES /\ x.td # NULL /\ Cov(x.td, o, b, t) => Cov(l.set, o, b, t)
                 /\ Within(w.ld, b) => Within(x.ld, b)
                 /\ Cov(l.set, o, b, t) => \/ Within(x.ld, b)
                                           \/ x.td # NULL /\ Cov(x.td, o, b, t)
                 /\ Within(x.ld, b) => Within(w.ld, b) \/ Cov(l.set, o, b, f.type)
    BY <2>1, <1>2, <1>6, <1>7, <1>8, <1>11 DEF HeldAt
  <2>3. CASE Joined(w, l, x)
    <3>1. /\ f.type = l.set.type /\ x.td = NULL
          /\ l.set.start <= w.ld.end + 1 /\ w.ld.start <= l.set.end + 1
          /\ x.ld.start = IF l.set.start < w.ld.start THEN l.set.start ELSE w.ld.start
          /\ x.ld.end = IF l.set.end > w.ld.end THEN l.set.end ELSE w.ld.end
      BY <2>3, <1>3 DEF Joined
    <3>2. Cov(l.set, o, b, t) => Within(x.ld, b)
      BY <3>1, <1>8, <1>9 DEF Within, Cov
    <3>3. Within(w.ld, b) => Within(x.ld, b)
      BY <3>1, <1>8, <1>9 DEF Within
    <3>4. Within(x.ld, b) => Within(w.ld, b) \/ Within(l.set, b)
      BY <3>1, <1>8, <1>9 DEF Within
    <3>5. Within(l.set, b) => Cov(l.set, o, b, f.type)
      BY <3>1, <1>2, <1>11 DEF Within, Cov
    <3>6. QED
      BY <3>1, <3>2, <3>3, <3>4, <3>5
  <2>4. CASE Overlaid(w, l, x)
    <3>1. x.ld = w.ld /\ w.ld.start <= l.set.start /\ Rest(w, l, x)
      BY <2>4 DEF Overlaid
    <3>2. CASE x.td = NULL /\ l.set.end <= w.ld.end
      BY <3>1, <3>2, <1>8, <1>9 DEF Within, Cov
    <3>3. CASE /\ x.td \in Flock /\ x.td # NULL
               /\ x.td.own = l.set.own /\ x.td.type = l.set.type
               /\ x.td.start = w.ld.end + 1 /\ x.td.end = l.set.end
               /\ w.ld.end < l.set.end
      <4>1. l.set.start <= w.ld.end
        BY <2>4 DEF Overlaid
      <4>2. QED
        BY <4>1, <3>1, <3>3, <1>8, <1>9 DEF Within, Cov
    <3>4. QED
      BY <3>1, <3>2, <3>3 DEF Rest
  <2>5. QED
    BY <2>3, <2>4 DEF Deleted
<1>12. QED
  BY <1>10, <1>11

\* cut,
LEMMA HeldShorten ==
    ASSUME NEW L \in Seq(Lock), NEW f \in Flock, NEW w, NEW V, NEW l,
           Comes(w, V, l), WRange(f, w), WHeld(L, f, w, V),
           NEW x, Changing(f, w, l, x), Shortened(w, l, x),
           NEW c, c = Shrunk(l, w.ld.start - 1)
    PROVE  WHeld(L, f, x, [V EXCEPT ![Len(w.out) + 1] = c])
<1> DEFINE k == Len(w.out) + 1
           U == [V EXCEPT ![k] = c]
<1>1. /\ V \in Seq(Lock) /\ k \in 1 .. Len(V) /\ V[k] = l /\ l \in Lock /\ w \in WalkState
  BY DEF Comes
<1>2. w.ret = "ok" /\ w.td = NULL /\ l.set.own = f.own /\ x.ret = "ok" /\ x.ld = w.ld
      /\ l.set.start < w.ld.start /\ w.ld.start <= l.set.end /\ Rest(w, l, x)
  BY DEF Changing, Fresh, Shortened
<1>3. c \in Lock /\ c.set.own = l.set.own /\ c.set.type = l.set.type
      /\ c.set.start = l.set.start /\ c.set.end = w.ld.start - 1
  <2>1. w \in WalkState /\ l \in Lock /\ l.set.start < w.ld.start
    BY <1>1, <1>2
  <2>2. QED
    BY <2>1, FrontIs, ZenonT(60)
<1>4. SUFFICES ASSUME NEW o \in Owners, NEW b \in Bytes, NEW t \in Codes
               PROVE  HeldAt(L, f, x, U, o, b, t)
  BY DEF WHeld
<1>5. HeldAt(L, f, w, V, o, b, t)
  BY DEF WHeld
<1> HIDE DEF k
<1>6. /\ Has(V, o, b, t) => Has(U, o, b, t) \/ Cov(l.set, o, b, t)
      /\ Has(U, o, b, t) => Has(V, o, b, t) \/ Cov(c.set, o, b, t)
      /\ Cov(c.set, o, b, t) => Has(U, o, b, t)
  BY <1>1, <1>3, HasPut
<1>7. Cov(l.set, o, b, t) => Has(V, o, b, t)
  BY <1>1 DEF Has
<1> HIDE DEF U
<1>8. b \in Int /\ l.set \in Flock /\ w.ld \in Flock
  BY <1>1, StateFacts, LockFacts, LimitsNatural DEF Bytes
<1>9. w.ld.start \in Nat /\ w.ld.end \in Nat /\ l.set.start \in Nat /\ l.set.end \in Nat
      /\ w.ld.start <= w.ld.end
  BY <1>8, FlockFacts
<1>10. Cov(c.set, o, b, t) => Cov(l.set, o, b, t)
  BY <1>2, <1>3, <1>8, <1>9 DEF Cov
<1>11. CASE o # f.own
  <2>1. ~Cov(l.set, o, b, t)
    BY <1>2, <1>11 DEF Cov
  <2>2. QED
    BY <2>1, <1>5, <1>6, <1>10, <1>11 DEF HeldAt
<1>12. CASE o = f.own
  <2>1. SUFFICES /\ x.td # NULL /\ Cov(x.td, o, b, t) => Cov(l.set, o, b, t)
                 /\ Cov(l.set, o, b, t) => \/ Within(x.ld, b) \/ Cov(c.set, o, b, t)
                                           \/ x.td # NULL /\ Cov(x.td, o, b, t)
    BY <1>2, <1>5, <1>6, <1>7, <1>10, <1>12 DEF HeldAt
  <2>2. CASE x.td = NULL /\ l.set.end <= w.ld.end
    BY <2>2, <1>2, <1>3, <1>8, <1>9 DEF Within, Cov
  <2>3. CASE /\ x.td \in Flock /\ x.td # NULL
             /\ x.td.own = l.set.own /\ x.td.type = l.set.type
             /\ x.td.start = w.ld.end + 1 /\ x.td.end = l.set.end
             /\ w.ld.end < l.set.end
    BY <2>3, <1>2, <1>3, <1>8, <1>9 DEF Within, Cov
  <2>4. QED
    BY <2>2, <2>3, <1>2 DEF Rest
<1>13. QED
  BY <1>11, <1>12

\* and when the piece is put in its place.
LEMMA HeldPlace ==
    ASSUME NEW L \in Seq(Lock), NEW f \in Flock, NEW w, NEW V, Places(w, V), WRange(f, w),
           WHeld(L, f, w, V)
    PROVE  WHeld(L, f, PlacePiece(w), InsertAfter(V, Len(w.out), NewLock(w.td)))
<1> DEFINE n == Len(w.out)
           c == NewLock(w.td)
           U == InsertAfter(V, n, c)
           x == PlacePiece(w)
<1>1. c \in Lock /\ c.set = w.td /\ x.ld = w.ld /\ x.ret = w.ret /\ x.td = NULL
  BY RangePlace DEF Places
<1>2. V \in Seq(Lock) /\ n \in 0 .. Len(V) /\ w.td # NULL
  BY DEF Places
<1>3. w.ret = "ok" /\ w.td.own = f.own
  BY <1>2 DEF WRange
<1>4. SUFFICES ASSUME NEW o \in Owners, NEW b \in Bytes, NEW t \in Codes
               PROVE  HeldAt(L, f, x, U, o, b, t)
  BY DEF WHeld
<1>5. HeldAt(L, f, w, V, o, b, t)
  BY DEF WHeld
<1> HIDE DEF n, c, x
<1>6. Has(U, o, b, t) <=> Has(V, o, b, t) \/ Cov(w.td, o, b, t)
  BY <1>1, <1>2, HasInsert
<1> HIDE DEF U
<1>7. Cov(w.td, o, b, t) => o = f.own
  BY <1>3 DEF Cov
<1>8. QED
  BY <1>1, <1>2, <1>3, <1>5, <1>6, <1>7 DEF HeldAt

\* Who is asleep is so once, on a lock that knows.
Sleeps(V) ==
    /\ \A i \in 1 .. Len(V) : V[i].slp # {} => V[i].wakeflg
    /\ \A i, j \in 1 .. Len(V) : i # j => V[i].slp \cap V[j].slp = {}

\* Every lock of L stands as it was or its sleepers are awake; who still is
\* asleep was so on the same lock.
WSleep(L, w, V) ==
    /\ Sleeps(V)
    /\ \A i \in 1 .. Len(L) : L[i].slp \subseteq w.woken \/ \E j \in 1 .. Len(V) : V[j] = L[i]
    /\ \A j \in 1 .. Len(V) : /\ V[j].slp \cap w.woken = {}
                              /\ V[j].slp # {} => \E i \in 1 .. Len(L) : V[j] = L[i]
    /\ \A p \in w.woken : \E i \in 1 .. Len(L) : p \in L[i].slp

\* It is so when a lock is passed over.
LEMMA SleepPass ==
    ASSUME NEW L, NEW f, NEW w, NEW V, NEW l, WSleep(L, w, V), NEW x, Passing(f, w, l, x)
    PROVE  WSleep(L, x, V)
<1>1. x.woken = w.woken
  BY PassingPasses
<1>2. QED
  BY <1>1 DEF WSleep

\* Every entry but the one taken out stands.
LEMMA RemovedTo ==
    ASSUME NEW V \in Seq(Lock), NEW k \in 1 .. Len(V), NEW m \in 1 .. Len(V), m # k
    PROVE  \E j \in 1 .. Len(Removed(V, k)) : Removed(V, k)[j] = V[m]
<1> DEFINE U == Removed(V, k)
<1>1. Len(V) \in Nat
  OBVIOUS
<1>2. Len(U) = Len(V) - 1
  BY RemovedIs
<1>3. /\ \A j \in 1 .. k - 1 : U[j] = V[j]
      /\ \A j \in k .. Len(V) - 1 : U[j] = V[j + 1]
  BY RemovedIs
<1> HIDE DEF U
<1>4. CASE m < k
  <2>1. m \in 1 .. k - 1 /\ m \in 1 .. Len(U)
    BY <1>1, <1>2, <1>4
  <2>2. QED
    BY <2>1, <1>3 DEF U
<1>5. CASE m > k
  <2>1. m - 1 \in k .. Len(V) - 1 /\ m - 1 \in 1 .. Len(U) /\ (m - 1) + 1 = m
    BY <1>1, <1>2, <1>5
  <2>2. U[m - 1] = V[(m - 1) + 1]
    BY <2>1, <1>3
  <2>3. QED
    BY <2>1, <2>2 DEF U
<1>6. QED
  BY <1>4, <1>5

\* Every entry stands when one is put in.
LEMMA InsertedTo ==
    ASSUME NEW V \in Seq(Lock), NEW k \in 0 .. Len(V), NEW c \in Lock, NEW m \in 1 .. Len(V)
    PROVE  \E j \in 1 .. Len(InsertAfter(V, k, c)) : InsertAfter(V, k, c)[j] = V[m]
<1> DEFINE U == InsertAfter(V, k, c)
<1>1. Len(V) \in Nat
  OBVIOUS
<1>2. Len(U) = Len(V) + 1
  BY InsertedIs
<1>3. \A j \in 1 .. k : U[j] = V[j]
  BY InsertedIs
<1>4. \A j \in k + 2 .. Len(V) + 1 : U[j] = V[j - 1]
  BY InsertedIs
<1> HIDE DEF U
<1>5. CASE m <= k
  <2>1. m \in 1 .. k /\ m \in 1 .. Len(U)
    BY <1>1, <1>2, <1>5
  <2>2. QED
    BY <2>1, <1>3 DEF U
<1>6. CASE m > k
  <2>1. m + 1 \in k + 2 .. Len(V) + 1 /\ m + 1 \in 1 .. Len(U) /\ (m + 1) - 1 = m
    BY <1>1, <1>2, <1>6
  <2>2. U[m + 1] = V[(m + 1) - 1]
    BY <2>1, <1>4
  <2>3. QED
    BY <2>1, <2>2 DEF U
<1>7. QED
  BY <1>5, <1>6

\* Whom a change of a lock wakes.
LEMMA WakesAll ==
    ASSUME NEW V \in Seq(Lock), Sleeps(V), NEW k \in 1 .. Len(V)
    PROVE  WAKEUP(V[k]) = V[k].slp
<1>1. V[k] \in Lock
  OBVIOUS
<1>2. V[k].slp = {} \/ V[k].wakeflg
  BY DEF Sleeps
<1>3. QED
  BY <1>1, <1>2, LockFacts

\* The sleepers of a lock that is deleted are woken,
LEMMA SleepDelete ==
    ASSUME NEW L, NEW f, NEW w, NEW V, NEW l, Comes(w, V, l), WSleep(L, w, V),
           NEW x, Deleted(w, l, x)
    PROVE  WSleep(L, x, Removed(V, Len(w.out) + 1))
<1> DEFINE k == Len(w.out) + 1
           U == Removed(V, k)
<1>1. /\ V \in Seq(Lock) /\ k \in 1 .. Len(V) /\ V[k] = l /\ l \in Lock
  BY DEF Comes
<1>2. Sleeps(V)
  BY DEF WSleep
<1> HIDE DEF k
<1>3. x.woken = w.woken \cup l.slp
  <2>1. WAKEUP(l) = l.slp
    BY <1>1, <1>2, WakesAll
  <2>2. QED
    BY <2>1 DEF Deleted
<1>4. \A j \in 1 .. Len(U) : \E m \in 1 .. Len(V) :
         m # k /\ U[j] = V[m] /\ (j < k => m = j) /\ (j >= k => m = j + 1)
  BY <1>1, RemovedFrom
<1>5. \A m \in 1 .. Len(V) : m # k => \E j \in 1 .. Len(U) : U[j] = V[m]
  BY <1>1, RemovedTo
<1> HIDE DEF U
<1>6. Sleeps(U)
  <2>1. \A i \in 1 .. Len(U) : U[i].slp # {} => U[i].wakeflg
    BY <1>2, <1>4 DEF Sleeps
  <2>2. ASSUME NEW i \in 1 .. Len(U), NEW j \in 1 .. Len(U), i # j
        PROVE  U[i].slp \cap U[j].slp = {}
    <3>1. PICK m \in 1 .. Len(V) : U[i] = V[m] /\ (i < k => m = i) /\ (i >= k => m = i + 1)
      BY <1>4, Zenon
    <3>2. PICK n \in 1 .. Len(V) : U[j] = V[n] /\ (j < k => n = j) /\ (j >= k => n = j + 1)
      BY <1>4, Zenon
    <3>3. m # n
      BY <1>1, <2>2, <3>1, <3>2
    <3>4. V[m].slp \cap V[n].slp = {}
      BY <1>2, <3>3 DEF Sleeps
    <3>5. QED
      BY <3>1, <3>2, <3>4
  <2>3. QED
    BY <2>1, <2>2 DEF Sleeps
<1>7. ASSUME NEW i \in 1 .. Len(L)
      PROVE  L[i].slp \subseteq x.woken \/ \E j \in 1 .. Len(U) : U[j] = L[i]
  <2>1. L[i].slp \subseteq w.woken \/ \E j \in 1 .. Len(V) : V[j] = L[i]
    BY DEF WSleep
  <2>2. ASSUME NEW j \in 1 .. Len(V), V[j] = L[i], j # k PROVE \E n \in 1 .. Len(U) : U[n] = L[i]
    BY <2>2, <1>5
  <2>3. ASSUME V[k] = L[i] PROVE L[i].slp \subseteq x.woken
    BY <2>3, <1>1, <1>3
  <2>4. L[i].slp \subseteq w.woken => L[i].slp \subseteq x.woken
    BY <1>3
  <2>5. QED
    BY <2>1, <2>2, <2>3, <2>4
<1>8. ASSUME NEW j \in 1 .. Len(U)
      PROVE  /\ U[j].slp \cap x.woken = {}
             /\ U[j].slp # {} => \E i \in 1 .. Len(L) : U[j] = L[i]
  <2>1. PICK m \in 1 .. Len(V) : m # k /\ U[j] = V[m]
    BY <1>4, Zenon
  <2>2. V[m].slp \cap V[k].slp = {}
    BY <1>1, <1>2, <2>1 DEF Sleeps
  <2>3. /\ V[m].slp \cap w.woken = {}
        /\ V[m].slp # {} => \E i \in 1 .. Len(L) : V[m] = L[i]
    BY DEF WSleep
  <2>4. QED
    BY <1>1, <1>3, <2>1, <2>2, <2>3
<1>9. ASSUME NEW p \in x.woken PROVE \E i \in 1 .. Len(L) : p \in L[i].slp
  <2>1. CASE p \in w.woken
    BY <2>1 DEF WSleep
  <2>2. CASE p \in l.slp
    <3>1. \E i \in 1 .. Len(L) : l = L[i]
      BY <1>1, <2>2 DEF WSleep
    <3>2. QED
      BY <3>1, <2>2
  <2>3. QED
    BY <1>3, <2>1, <2>2
<1>10. WSleep(L, x, U)
  BY <1>6, <1>7, <1>8, <1>9 DEF WSleep
<1>11. QED
  BY <1>10 DEF U, k

\* and of one that is cut.
LEMMA SleepShorten ==
    ASSUME NEW L, NEW f, NEW w, NEW V, NEW l, Comes(w, V, l), WSleep(L, w, V),
           NEW x, Shortened(w, l, x), NEW c, c = Shrunk(l, w.ld.start - 1)
    PROVE  WSleep(L, x, [V EXCEPT ![Len(w.out) + 1] = c])
<1> DEFINE k == Len(w.out) + 1
           U == [V EXCEPT ![k] = c]
<1>1. /\ V \in Seq(Lock) /\ k \in 1 .. Len(V) /\ V[k] = l /\ l \in Lock /\ w \in WalkState
      /\ l.set.start < w.ld.start
  BY DEF Comes, Shortened
<1>2. Sleeps(V)
  BY DEF WSleep
<1> HIDE DEF k
<1>3. WAKEUP(l) = l.slp
  BY <1>1, <1>2, WakesAll
<1>4. x.woken = w.woken \cup l.slp
  BY <1>3 DEF Shortened
<1>5. c \in Lock /\ c.slp = l.slp \ WAKEUP(l)
  <2>1. w \in WalkState /\ l \in Lock /\ l.set.start < w.ld.start
    BY <1>1
  <2>2. QED
    BY <2>1, FrontIs, ZenonT(60)
<1>6. c.slp = {}
  BY <1>3, <1>5
<1>7. Len(U) = Len(V) /\ U[k] = c
  BY <1>1, <1>5, ReplacedIs
<1>8. \A j \in 1 .. Len(V) : j # k => U[j] = V[j]
  BY <1>1, <1>5, ReplacedIs
<1> HIDE DEF U
<1>9. Sleeps(U)
  BY <1>2, <1>6, <1>7, <1>8 DEF Sleeps
<1>10. ASSUME NEW i \in 1 .. Len(L)
       PROVE  L[i].slp \subseteq x.woken \/ \E j \in 1 .. Len(U) : U[j] = L[i]
  <2>1. L[i].slp \subseteq w.woken \/ \E j \in 1 .. Len(V) : V[j] = L[i]
    BY DEF WSleep
  <2>2. ASSUME NEW j \in 1 .. Len(V), V[j] = L[i], j # k PROVE \E n \in 1 .. Len(U) : U[n] = L[i]
    BY <2>2, <1>7, <1>8
  <2>3. ASSUME V[k] = L[i] PROVE L[i].slp \subseteq x.woken
    BY <2>3, <1>1, <1>4
  <2>4. L[i].slp \subseteq w.woken => L[i].slp \subseteq x.woken
    BY <1>4
  <2>5. QED
    BY <2>1, <2>2, <2>3, <2>4
<1>11. ASSUME NEW j \in 1 .. Len(U)
       PROVE  /\ U[j].slp \cap x.woken = {}
              /\ U[j].slp # {} => \E i \in 1 .. Len(L) : U[j] = L[i]
  <2>1. CASE j = k
    BY <2>1, <1>6, <1>7
  <2>2. CASE j # k
    <3>1. U[j] = V[j] /\ j \in 1 .. Len(V)
      BY <2>2, <1>7, <1>8
    <3>2. V[j].slp \cap V[k].slp = {}
      BY <1>1, <1>2, <2>2, <3>1 DEF Sleeps
    <3>3. /\ V[j].slp \cap w.woken = {}
          /\ V[j].slp # {} => \E i \in 1 .. Len(L) : V[j] = L[i]
      BY <3>1 DEF WSleep
    <3>4. QED
      BY <1>1, <1>4, <3>1, <3>2, <3>3
  <2>3. QED
    BY <2>1, <2>2
<1>12. ASSUME NEW p \in x.woken PROVE \E i \in 1 .. Len(L) : p \in L[i].slp
  <2>1. CASE p \in w.woken
    BY <2>1 DEF WSleep
  <2>2. CASE p \in l.slp
    <3>1. \E i \in 1 .. Len(L) : l = L[i]
      BY <1>1, <2>2 DEF WSleep
    <3>2. QED
      BY <3>1, <2>2
  <2>3. QED
    BY <1>4, <2>1, <2>2
<1>13. WSleep(L, x, U)
  BY <1>9, <1>10, <1>11, <1>12 DEF WSleep
<1>14. QED
  BY <1>13 DEF U, k

\* A lock nobody sleeps on comes into the list.
LEMMA SleepInsert ==
    ASSUME NEW L, NEW w, NEW V \in Seq(Lock), WSleep(L, w, V), NEW k \in 0 .. Len(V),
           NEW c \in Lock, c.slp = {}, NEW x, x.woken = w.woken
    PROVE  WSleep(L, x, InsertAfter(V, k, c))
<1> DEFINE U == InsertAfter(V, k, c)
<1>1. \A j \in 1 .. Len(U) :
         \/ j = k + 1 /\ U[j] = c
         \/ \E m \in 1 .. Len(V) : U[j] = V[m] /\ (j <= k => m = j) /\ (j > k => m = j - 1 /\ j > k + 1)
  BY InsertedFrom
<1>2. \A m \in 1 .. Len(V) : \E j \in 1 .. Len(U) : U[j] = V[m]
  BY InsertedTo
<1> HIDE DEF U
<1>3. Sleeps(V)
  BY DEF WSleep
<1>4. Sleeps(U)
  <2>1. \A i \in 1 .. Len(U) : U[i].slp # {} => U[i].wakeflg
    BY <1>1, <1>3 DEF Sleeps
  <2>2. ASSUME NEW i \in 1 .. Len(U), NEW j \in 1 .. Len(U), i # j
        PROVE  U[i].slp \cap U[j].slp = {}
    <3>1. CASE U[i] = c \/ U[j] = c
      BY <3>1
    <3>2. CASE U[i] # c /\ U[j] # c
      <4>1. PICK m \in 1 .. Len(V) : U[i] = V[m] /\ (i <= k => m = i) /\ (i > k => m = i - 1 /\ i > k + 1)
        BY <1>1, <3>2, Zenon
      <4>2. PICK n \in 1 .. Len(V) : U[j] = V[n] /\ (j <= k => n = j) /\ (j > k => n = j - 1 /\ j > k + 1)
        BY <1>1, <3>2, Zenon
      <4>3. m # n
        BY <2>2, <4>1, <4>2
      <4>4. V[m].slp \cap V[n].slp = {}
        BY <1>3, <4>3 DEF Sleeps
      <4>5. QED
        BY <4>1, <4>2, <4>4
    <3>3. QED
      BY <3>1, <3>2
  <2>3. QED
    BY <2>1, <2>2 DEF Sleeps
<1>5. \A i \in 1 .. Len(L) : L[i].slp \subseteq x.woken \/ \E j \in 1 .. Len(U) : U[j] = L[i]
  BY <1>2 DEF WSleep
<1>6. ASSUME NEW j \in 1 .. Len(U)
      PROVE  /\ U[j].slp \cap x.woken = {}
             /\ U[j].slp # {} => \E i \in 1 .. Len(L) : U[j] = L[i]
  <2>1. CASE U[j] = c
    BY <2>1
  <2>2. CASE \E m \in 1 .. Len(V) : U[j] = V[m]
    BY <2>2 DEF WSleep
  <2>3. QED
    BY <1>1, <2>1, <2>2
<1>7. \A p \in x.woken : \E i \in 1 .. Len(L) : p \in L[i].slp
  BY DEF WSleep
<1>8. WSleep(L, x, U)
  BY <1>4, <1>5, <1>6, <1>7 DEF WSleep
<1>9. QED
  BY <1>8 DEF U

\* So does the piece.
LEMMA SleepPlace ==
    ASSUME NEW L, NEW f \in Flock, NEW w, NEW V, Places(w, V), WRange(f, w), WSleep(L, w, V)
    PROVE  WSleep(L, PlacePiece(w), InsertAfter(V, Len(w.out), NewLock(w.td)))
<1> DEFINE c == NewLock(w.td)
           x == PlacePiece(w)
<1>1. c \in Lock /\ c.slp = {} /\ x.woken = w.woken
  BY RangePlace DEF Places
<1>2. V \in Seq(Lock) /\ Len(w.out) \in 0 .. Len(V)
  BY DEF Places
<1> HIDE DEF c, x
<1>3. WSleep(L, x, InsertAfter(V, Len(w.out), c))
  BY <1>1, <1>2, SleepInsert
<1>4. QED
  BY <1>3 DEF c, x

\* The records of the list, with the piece that waits for its place.
WCount(L, count, w, V) ==
    /\ w.count = count - Len(L) + Len(V) + Gained(w)
    /\ w.count <= t_flckrec

\* It is so when a lock is passed over,
LEMMA CountPass ==
    ASSUME NEW L, NEW f, NEW count, NEW w, NEW V, NEW l, WCount(L, count, w, V),
           NEW x, Passing(f, w, l, x)
    PROVE  WCount(L, count, x, V)
<1>1. x.count = w.count /\ x.td = w.td
  BY PassingPasses
<1>2. QED
  BY <1>1 DEF WCount, Gained

\* A rest takes one record.
LEMMA GainedIs == ASSUME NEW x PROVE Gained(x) \in {0, 1}
  BY DEF Gained

\* when it is deleted, with or without a rest,
LEMMA CountDelete ==
    ASSUME NEW L \in Seq(Lock), NEW f \in Flock, NEW count \in Int, NEW w, NEW V, NEW l,
           Comes(w, V, l), WCount(L, count, w, V), NEW x, Changing(f, w, l, x), Deleted(w, l, x)
    PROVE  WCount(L, count, x, Removed(V, Len(w.out) + 1))
<1> DEFINE k == Len(w.out) + 1
           n == Len(Removed(V, k))
           g == Gained(x)
           m == Len(V)
           e == Len(L)
<1>1. V \in Seq(Lock) /\ k \in 1 .. Len(V) /\ w \in WalkState /\ w.count \in Int
  BY StateFacts DEF Comes
<1>2. n = m - 1 /\ m \in Int /\ e \in Int
  BY <1>1, RemovedIs
<1>3. Gained(w) = 0
  BY DEF Changing, Fresh, Gained
<1>4. x.count = w.count - 1 + g
  BY DEF Deleted
<1>5. g \in {0, 1}
  BY GainedIs
<1>6. w.count = count - e + m + 0 /\ w.count <= t_flckrec
  BY <1>3 DEF WCount
<1> HIDE DEF k, n, g, m, e
<1>7. x.count = count - e + n + g /\ x.count <= t_flckrec
  BY <1>1, <1>2, <1>4, <1>5, <1>6, LimitsNatural
<1>8. QED
  BY <1>7 DEF WCount, n, g, e, k

\* when it is cut,
LEMMA CountShorten ==
    ASSUME NEW L \in Seq(Lock), NEW f \in Flock, NEW count \in Int, NEW w, NEW V, NEW l,
           Comes(w, V, l), WCount(L, count, w, V), NEW x, Changing(f, w, l, x),
           Shortened(w, l, x), NEW c, c = Shrunk(l, w.ld.start - 1)
    PROVE  WCount(L, count, x, [V EXCEPT ![Len(w.out) + 1] = c])
<1> DEFINE U == [V EXCEPT ![Len(w.out) + 1] = c]
           k == Len(w.out) + 1
           n == Len(U)
           g == Gained(x)
           m == Len(V)
           e == Len(L)
<1>1. V \in Seq(Lock) /\ k \in 1 .. Len(V) /\ w \in WalkState /\ w.count \in Int /\ l \in Lock
      /\ l.set.start < w.ld.start
  BY StateFacts DEF Comes, Shortened
<1>2. c \in Lock
  <2>1. w \in WalkState /\ l \in Lock /\ l.set.start < w.ld.start
    BY <1>1
  <2>2. QED
    BY <2>1, FrontIs, Zenon
<1>3. n = m /\ m \in Int /\ e \in Int
  BY <1>1, <1>2, ReplacedIs
<1>4. Gained(w) = 0
  BY DEF Changing, Fresh, Gained
<1>5. x.count = w.count + g
  BY DEF Shortened
<1>6. g = 0 \/ (g = 1 /\ w.count < t_flckrec)
  BY DEF Shortened, Rest, Gained
<1>7. w.count = count - e + m + 0 /\ w.count <= t_flckrec
  BY <1>4 DEF WCount
<1> HIDE DEF k, n, g, m, e, U
<1>8. x.count = count - e + n + g /\ x.count <= t_flckrec
  BY <1>1, <1>3, <1>5, <1>6, <1>7, LimitsNatural
<1>9. QED
  BY <1>8 DEF WCount, n, g, e, U

\* and when the piece is put in its place.
LEMMA CountPlace ==
    ASSUME NEW L \in Seq(Lock), NEW f \in Flock, NEW count \in Int, NEW w, NEW V,
           Places(w, V), WRange(f, w), WCount(L, count, w, V)
    PROVE  WCount(L, count, PlacePiece(w), InsertAfter(V, Len(w.out), NewLock(w.td)))
<1> DEFINE c == NewLock(w.td)
           x == PlacePiece(w)
           n == Len(InsertAfter(V, Len(w.out), c))
           m == Len(V)
           e == Len(L)
<1>1. c \in Lock /\ x.count = w.count /\ x.td = NULL
  BY RangePlace DEF Places
<1>2. V \in Seq(Lock) /\ Len(w.out) \in 0 .. Len(V) /\ w.td # NULL
  BY DEF Places
<1> HIDE DEF c, x
<1>3. n = m + 1 /\ m \in Int /\ e \in Int
  BY <1>1, <1>2, InsertedIs
<1>4. Gained(w) = 1 /\ Gained(x) = 0
  BY <1>1, <1>2 DEF Gained
<1>5. w.count = count - e + m + 1 /\ w.count <= t_flckrec
  BY <1>4 DEF WCount
<1> HIDE DEF n, m, e
<1>6. x.count = count - e + n + 0 /\ x.count <= t_flckrec
  BY <1>1, <1>3, <1>5
<1>7. QED
  BY <1>4, <1>6 DEF WCount, n, e, x, c

(***************************************************************************)
(* One step of the walk, and the whole of it.                              *)
(***************************************************************************)

Walking(L, f, count, w, V, i) ==
    /\ Joins(V, w.out, L, i)
    /\ WRange(f, w)
    /\ WLists(w, V)
    /\ WApart(f, w, V)
    /\ WPlace(f, w, V)
    /\ WHeld(L, f, w, V)
    /\ WSleep(L, w, V)
    /\ WCount(L, count, w, V)

\* A list flckadj() is asked to work on, for request f.
Asked(L, f) ==
    /\ L \in Seq(Lock) /\ f \in Flock
    /\ Sound(L) /\ Sleeps(L)
    /\ \A j \in 1 .. Len(L) : L[j].set.type \in Types
    /\ f.type # "F_UNLCK" =>
          \A j \in 1 .. Len(L) : L[j].set.own # f.own => Apart(f, L[j].set)

\* The lock that the walk comes to next.
LEMMA WalkingComes ==
    ASSUME NEW L \in Seq(Lock), NEW f, NEW count, NEW w, NEW V, NEW i \in 0 .. Len(L) - 1,
           Walking(L, f, count, w, V, i), NEW l, l = L[i + 1]
    PROVE  Comes(w, V, l) /\ l \in Lock
<1>1. Joins(V, w.out, L, i)
  BY DEF Walking
<1>2. /\ Len(w.out) + 1 \in 1 .. Len(V)
      /\ V[Len(w.out) + 1] = L[i + 1]
      /\ L[i + 1] \in Lock
      /\ V \in Seq(Lock)
  BY <1>1, JoinNext
<1>3. w \in WalkState
  BY DEF Walking, WRange
<1>4. QED
  BY <1>2, <1>3 DEF Comes

\* All of it holds when the lock is passed over,
LEMMA WalkingPass ==
    ASSUME NEW L, NEW f, Asked(L, f), NEW count \in Int, NEW i \in 0 .. Len(L) - 1,
           NEW w, NEW V, Walking(L, f, count, w, V, i),
           NEW l, l = L[i + 1], NEW x, Passing(f, w, l, x)
    PROVE  Walking(L, f, count, x, V, i + 1)
<1>1. L \in Seq(Lock) /\ f \in Flock /\ Sound(L)
  BY DEF Asked
<1>2. Comes(w, V, l) /\ l \in Lock
  BY <1>1, WalkingComes
<1>3. /\ Joins(V, w.out, L, i) /\ WRange(f, w) /\ WLists(w, V) /\ WApart(f, w, V)
      /\ WPlace(f, w, V) /\ WHeld(L, f, w, V) /\ WSleep(L, w, V) /\ WCount(L, count, w, V)
  BY DEF Walking
<1>4. Joins(V, x.out, L, i + 1)
  <2>1. x.out = Append(w.out, l)
    BY PassingPasses
  <2>2. Joins(V, Append(w.out, L[i + 1]), L, i + 1)
    BY <1>1, <1>3, JoinKeep
  <2>3. QED
    BY <2>1, <2>2
<1>5. WRange(f, x)
  BY <1>1, <1>2, <1>3, RangePass
<1>6. WLists(x, V)
  BY <1>1, <1>2, <1>3, ListsPass
<1>7. WApart(f, x, V)
  BY <1>1, <1>2, <1>3, ApartPass
<1>8. WPlace(f, x, V)
  BY <1>1, <1>2, <1>3, PlacePass
<1>9. WHeld(L, f, x, V)
  BY <1>1, <1>2, <1>3, HeldPass
<1>10. WSleep(L, x, V)
  BY <1>3, SleepPass
<1>11. WCount(L, count, x, V)
  BY <1>3, CountPass
<1>12. QED
  BY <1>4, <1>5, <1>6, <1>7, <1>8, <1>9, <1>10, <1>11 DEF Walking

\* deleted,
LEMMA WalkingDelete ==
    ASSUME NEW L, NEW f, Asked(L, f), NEW count \in Int, NEW i \in 0 .. Len(L) - 1,
           NEW w, NEW V, Walking(L, f, count, w, V, i),
           NEW l, l = L[i + 1], NEW x, Changing(f, w, l, x), Deleted(w, l, x)
    PROVE  Walking(L, f, count, x, Removed(V, Len(w.out) + 1), i + 1)
<1> DEFINE U == Removed(V, Len(w.out) + 1)
<1>1. L \in Seq(Lock) /\ f \in Flock
  BY DEF Asked
<1>2. Comes(w, V, l) /\ l \in Lock
  BY <1>1, WalkingComes
<1>3. /\ Joins(V, w.out, L, i) /\ WRange(f, w) /\ WLists(w, V) /\ WApart(f, w, V)
      /\ WPlace(f, w, V) /\ WHeld(L, f, w, V) /\ WSleep(L, w, V) /\ WCount(L, count, w, V)
  BY DEF Walking
<1>4. Joins(U, x.out, L, i + 1)
  <2>1. x.out = w.out
    BY DEF Deleted
  <2>2. Joins(U, w.out, L, i + 1)
    BY <1>1, <1>3, JoinDel
  <2>3. QED
    BY <2>1, <2>2
<1>5. WRange(f, x)
  <2>1. l.set.type \in Types
    BY DEF Asked
  <2>2. QED
    BY <2>1, <1>1, <1>2, <1>3, RangeChange
<1>6. WLists(x, U)
  BY <1>1, <1>2, <1>3, ListsDelete
<1>7. WApart(f, x, U)
  BY <1>1, <1>2, <1>3, ApartDelete
<1>8. WPlace(f, x, U)
  BY <1>1, <1>2, <1>3, PlaceDelete
<1>9. WHeld(L, f, x, U)
  BY <1>1, <1>2, <1>3, HeldDelete
<1>10. WSleep(L, x, U)
  BY <1>2, <1>3, SleepDelete
<1>11. WCount(L, count, x, U)
  BY <1>1, <1>2, <1>3, CountDelete
<1> HIDE DEF U
<1>12. Walking(L, f, count, x, U, i + 1)
  BY <1>4, <1>5, <1>6, <1>7, <1>8, <1>9, <1>10, <1>11 DEF Walking
<1>13. QED
  BY <1>12 DEF U

\* cut,
LEMMA WalkingShorten ==
    ASSUME NEW L, NEW f, Asked(L, f), NEW count \in Int, NEW i \in 0 .. Len(L) - 1,
           NEW w, NEW V, Walking(L, f, count, w, V, i),
           NEW l, l = L[i + 1], NEW x, Changing(f, w, l, x), Shortened(w, l, x),
           NEW c, c = Shrunk(l, w.ld.start - 1)
    PROVE  Walking(L, f, count, x, [V EXCEPT ![Len(w.out) + 1] = c], i + 1)
<1> DEFINE U == [V EXCEPT ![Len(w.out) + 1] = c]
<1>1. L \in Seq(Lock) /\ f \in Flock
  BY DEF Asked
<1>2. Comes(w, V, l) /\ l \in Lock
  BY <1>1, WalkingComes
<1>3. /\ Joins(V, w.out, L, i) /\ WRange(f, w) /\ WLists(w, V) /\ WApart(f, w, V)
      /\ WPlace(f, w, V) /\ WHeld(L, f, w, V) /\ WSleep(L, w, V) /\ WCount(L, count, w, V)
  BY DEF Walking
<1>4. Joins(U, x.out, L, i + 1)
  <2>1. x.out = Append(w.out, c) /\ l.set.start < w.ld.start
    BY DEF Shortened
  <2>2. w \in WalkState
    BY <1>3 DEF WRange
  <2>3. c \in Lock
    BY <2>1, <2>2, <1>2, FrontIs, Zenon
  <2>4. Joins(U, Append(w.out, c), L, i + 1)
    BY <1>1, <1>3, <2>3, JoinPut
  <2>5. QED
    BY <2>1, <2>4
<1>5. WRange(f, x)
  <2>1. l.set.type \in Types
    BY DEF Asked
  <2>2. QED
    BY <2>1, <1>1, <1>2, <1>3, RangeChange
<1>6. WLists(x, U)
  BY <1>1, <1>2, <1>3, ListsShorten
<1>7. WApart(f, x, U)
  BY <1>1, <1>2, <1>3, ApartShorten
<1>8. WPlace(f, x, U)
  BY <1>1, <1>2, <1>3, PlaceShorten
<1>9. WHeld(L, f, x, U)
  BY <1>1, <1>2, <1>3, HeldShorten
<1>10. WSleep(L, x, U)
  BY <1>2, <1>3, SleepShorten
<1>11. WCount(L, count, x, U)
  BY <1>1, <1>2, <1>3, CountShorten
<1> HIDE DEF U
<1>12. Walking(L, f, count, x, U, i + 1)
  BY <1>4, <1>5, <1>6, <1>7, <1>8, <1>9, <1>10, <1>11 DEF Walking
<1>13. QED
  BY <1>12 DEF U

\* and when the piece is put in its place.
LEMMA WalkingPlace ==
    ASSUME NEW L, NEW f, Asked(L, f), NEW count \in Int, NEW i \in 0 .. Len(L),
           NEW w, NEW V, Walking(L, f, count, w, V, i), Places(w, V)
    PROVE  Walking(L, f, count, PlacePiece(w), InsertAfter(V, Len(w.out), NewLock(w.td)), i)
<1> DEFINE x == PlacePiece(w)
           U == InsertAfter(V, Len(w.out), NewLock(w.td))
<1>1. L \in Seq(Lock) /\ f \in Flock
  BY DEF Asked
<1>2. /\ Joins(V, w.out, L, i) /\ WRange(f, w) /\ WLists(w, V) /\ WApart(f, w, V)
      /\ WPlace(f, w, V) /\ WHeld(L, f, w, V) /\ WSleep(L, w, V) /\ WCount(L, count, w, V)
  BY DEF Walking
<1>3. w.td # NULL
  BY DEF Places
<1>4. Joins(U, x.out, L, i)
  <2>1. NewLock(w.td) \in Lock /\ x.out = Append(w.out, NewLock(w.td))
    BY <1>1, <1>2, <1>3, RangePlace
  <2>2. Joins(U, Append(w.out, NewLock(w.td)), L, i)
    BY <1>1, <1>2, <2>1, JoinPiece
  <2>3. QED
    BY <2>1, <2>2
<1>5. WRange(f, x)
  BY <1>1, <1>2, <1>3, RangePlace
<1>6. WLists(x, U)
  BY <1>1, <1>2, ListsPlace
<1>7. WApart(f, x, U)
  BY <1>1, <1>2, ApartPlace
<1>8. WPlace(f, x, U)
  BY <1>1, <1>2, PlacePlace
<1>9. WHeld(L, f, x, U)
  BY <1>1, <1>2, HeldPlace
<1>10. WSleep(L, x, U)
  BY <1>1, <1>2, SleepPlace
<1>11. WCount(L, count, x, U)
  BY <1>1, <1>2, CountPlace
<1> HIDE DEF U, x
<1>12. Walking(L, f, count, x, U, i)
  BY <1>4, <1>5, <1>6, <1>7, <1>8, <1>9, <1>10, <1>11 DEF Walking
<1>13. QED
  BY <1>12 DEF U, x

\* Passing over a lock with the piece put in front of it.
LEMMA KeepPiece ==
    ASSUME NEW w \in WalkState, NEW l \in Lock, w.td # NULL, w.td \in Flock,
           l.set.start >= w.td.start, NEW x, x = Keep(w, l)
    PROVE  /\ x \in WalkState /\ x.out = Append(Append(w.out, NewLock(w.td)), l)
           /\ x.ld = w.ld /\ x.insrtp = w.insrtp
           /\ x.td = NULL /\ x.count = w.count /\ x.woken = w.woken
           /\ x.over = w.over /\ x.ret = w.ret
<1> DEFINE v == Append(Append(w.out, NewLock(w.td)), l)
           u == [w EXCEPT !.out = v]
           y == [u EXCEPT !.td = NULL]
<1>1. NewLock(w.td) \in Lock /\ w.out \in Seq(Lock)
  BY NewLockIs, StateFacts
<1>2. w.out \o <<NewLock(w.td), l>> = v /\ v \in Seq(Lock)
  <2> DEFINE a == NewLock(w.td)
             s == w.out
  <2>1. a \in Lock /\ s \in Seq(Lock)
    BY <1>1
  <2> HIDE DEF a, s
  <2>2. s \o <<a, l>> = Append(Append(s, a), l) /\ Append(Append(s, a), l) \in Seq(Lock)
    BY <2>1
  <2>3. QED
    BY <2>2 DEF a, s
<1>3. x = [w EXCEPT !.out = w.out \o <<NewLock(w.td), l>>, !.td = NULL]
  BY Zenon DEF Keep
<1>4. x = y
  BY <1>2, <1>3, Zenon DEF WalkState
<1> HIDE DEF v
<1>5. /\ u \in WalkState /\ u.out = v /\ u.ld = w.ld /\ u.insrtp = w.insrtp
      /\ u.td = w.td /\ u.count = w.count /\ u.woken = w.woken
      /\ u.over = w.over /\ u.ret = w.ret
  BY <1>2, StateOut
<1> HIDE DEF u
<1>6. /\ y \in WalkState /\ y.out = v /\ y.ld = w.ld /\ y.insrtp = w.insrtp
      /\ y.td = NULL /\ y.count = w.count /\ y.woken = w.woken
      /\ y.over = w.over /\ y.ret = w.ret
  <2>1. NULL \in Flock \cup {NULL}
    OBVIOUS
  <2>2. QED
    BY <1>5, <2>1, StateTd
<1> HIDE DEF y
<1>7. QED
  BY <1>4, <1>6 DEF v

\* One visit takes the walk one lock further.
LEMMA WalkingVisit ==
    ASSUME NEW L, NEW f, Asked(L, f), NEW count \in Int, NEW mem \in BOOLEAN,
           NEW i \in 0 .. Len(L) - 1, NEW w, NEW V, Walking(L, f, count, w, V, i)
    PROVE  \E U : Walking(L, f, count, Visit(w, L[i + 1], mem), U, i + 1)
<1> DEFINE l == L[i + 1]
<1>1. PICK x : x = Visit(w, l, mem)
  OBVIOUS
<1>2. L \in Seq(Lock) /\ f \in Flock
  BY DEF Asked
<1>3. Comes(w, V, l) /\ l \in Lock
  BY <1>2, WalkingComes
<1>4. WRange(f, w) /\ Sound(V)
  BY DEF Walking, WLists
<1>5. w \in WalkState /\ w.ld.own = f.own
  BY <1>4 DEF WRange
<1> SUFFICES \E U : Walking(L, f, count, x, U, i + 1)
  BY <1>1
<1>6. CASE w.over \/ l.set.own # f.own
  <2>1. x = Keep(w, l)
    BY <1>1, <1>5, <1>6 DEF Visit
  <2>2. CASE w.td = NULL \/ l.set.start < w.td.start
    <3>1. /\ x \in WalkState /\ x.out = Append(w.out, l) /\ x.ld = w.ld /\ x.insrtp = w.insrtp
          /\ x.td = w.td /\ x.count = w.count /\ x.woken = w.woken
          /\ x.over = w.over /\ x.ret = w.ret
      BY <1>3, <1>5, <2>1, <2>2, KeepIs
    <3>2. Passing(f, w, l, x)
      BY <1>6, <2>2, <3>1 DEF Passing, Passed, Passes
    <3>3. Walking(L, f, count, x, V, i + 1)
      BY <3>2, WalkingPass
    <3>4. QED
      BY <3>3
  <2>3. CASE w.td # NULL /\ l.set.start >= w.td.start
    <3>1. w.td \in Flock
      BY <1>5, <2>3, StateFacts
    <3>2. Places(w, V)
      <4>1. /\ V \in Seq(Lock) /\ Len(w.out) + 1 \in 1 .. Len(V) /\ V[Len(w.out) + 1] = l
            /\ w.out \in Seq(Lock)
        BY <1>3, StateFacts DEF Comes
      <4> DEFINE n == Len(w.out)
      <4>2. n \in Nat /\ Len(V) \in Nat
        BY <4>1
      <4> HIDE DEF n
      <4>3. ASSUME NEW j \in n + 1 .. Len(V) PROVE w.td.start <= V[j].set.start
        <5>1. j \in 1 .. Len(V) /\ n + 1 \in 1 .. Len(V) /\ n + 1 <= j
          BY <4>1, <4>2 DEF n
        <5>2. V[n + 1].set.start <= V[j].set.start
          BY <1>4, <4>1, <5>1, OrderedPair
        <5>3. V[n + 1].set.start \in Nat /\ V[j].set.start \in Nat /\ w.td.start \in Nat
          BY <3>1, <4>1, <5>1, LockFacts, FlockFacts
        <5>4. V[n + 1].set.start >= w.td.start
          BY <2>3, <4>1 DEF n
        <5>5. QED
          BY <5>2, <5>3, <5>4
      <4>4. n \in 0 .. Len(V)
        BY <4>1, <4>2 DEF n
      <4>5. QED
        BY <1>5, <2>3, <4>1, <4>3, <4>4 DEF Places, n
    <3>3. PICK y : y = PlacePiece(w)
      OBVIOUS
    <3>4. PICK U : U = InsertAfter(V, Len(w.out), NewLock(w.td))
      OBVIOUS
    <3>5. i \in 0 .. Len(L)
      BY <1>2
    <3>6. Walking(L, f, count, y, U, i)
      BY <3>2, <3>3, <3>4, <3>5, WalkingPlace
    <3>7. /\ y \in WalkState /\ y.out = Append(w.out, NewLock(w.td)) /\ y.td = NULL
          /\ y.ld = w.ld /\ y.insrtp = w.insrtp
          /\ y.count = w.count /\ y.woken = w.woken
          /\ y.over = w.over /\ y.ret = w.ret
      BY <1>2, <1>4, <2>3, <3>3, RangePlace
    <3>8. /\ x \in WalkState /\ x.out = Append(Append(w.out, NewLock(w.td)), l)
          /\ x.ld = w.ld /\ x.insrtp = w.insrtp
          /\ x.td = NULL /\ x.count = w.count /\ x.woken = w.woken
          /\ x.over = w.over /\ x.ret = w.ret
      BY <1>3, <1>5, <2>1, <2>3, <3>1, KeepPiece
    <3>9. Passing(f, y, l, x)
      BY <1>6, <3>7, <3>8 DEF Passing, Passed, Passes
    <3>10. Walking(L, f, count, x, U, i + 1)
      BY <3>6, <3>9, WalkingPass
    <3>11. QED
      BY <3>10
  <2>4. w.td = NULL \/ l.set.start < w.td.start \/ l.set.start >= w.td.start
    <3>1. w.td # NULL => w.td.start \in Nat
      BY <1>5, StateFacts, FlockFacts
    <3>2. l.set.start \in Nat
      BY <1>3, LockFacts, FlockFacts
    <3>3. QED
      BY <3>1, <3>2
  <2>5. QED
    BY <2>2, <2>3, <2>4
<1>7. CASE ~w.over /\ l.set.own = f.own
  <2>1. Fresh(w)
    BY <1>4, <1>7 DEF Fresh, WRange
  <2>2. x = Adjust(w, l, mem)
    BY <1>1, <1>5, <1>7 DEF Visit
  <2>3. Visited(w, l, x)
    BY <1>3, <1>5, <1>7, <2>1, <2>2, AdjustCases
  <2>4. CASE Cleared(w, l, x) \/ Inside(w, l, x) \/ Short(w, l, x)
    <3>1. Passing(f, w, l, x)
      BY <1>7, <2>1, <2>4 DEF Passing
    <3>2. Walking(L, f, count, x, V, i + 1)
      BY <3>1, WalkingPass
    <3>3. QED
      BY <3>2
  <2>5. CASE Deleted(w, l, x)
    <3>1. Changing(f, w, l, x)
      BY <1>7, <2>1, <2>5 DEF Changing
    <3>2. Walking(L, f, count, x, Removed(V, Len(w.out) + 1), i + 1)
      BY <2>5, <3>1, WalkingDelete
    <3>3. QED
      BY <3>2
  <2>6. CASE Shortened(w, l, x)
    <3>1. Changing(f, w, l, x)
      BY <1>7, <2>1, <2>6 DEF Changing
    <3>2. PICK c : c = Shrunk(l, w.ld.start - 1)
      OBVIOUS
    <3>3. Walking(L, f, count, x, [V EXCEPT ![Len(w.out) + 1] = c], i + 1)
      BY <2>6, <3>1, <3>2, WalkingShorten
    <3>4. QED
      BY <3>3
  <2>7. QED
    BY <2>3, <2>4, <2>5, <2>6 DEF Visited
<1>8. QED
  BY <1>6, <1>7

\* Where the walk for request f may begin in L: what the owner has before is
\* apart from the region, and a new lock belongs behind insrt.
Begins(L, f, insrt) ==
    /\ insrt \in 0 .. Len(L)
    /\ \A j \in 1 .. Len(L) : j < insrt /\ L[j].set.own = f.own => Apart(f, L[j].set)
    /\ f.type # "F_UNLCK" =>
          /\ insrt # 0 => L[insrt].set.start <= f.start
          /\ insrt = 0 => \A j \in 1 .. Len(L) : f.start <= L[j].set.start

\* The walk begins at a lock of the list.
LEMMA FromIs ==
    ASSUME NEW L \in Seq(Lock), NEW insrt \in 0 .. Len(L)
    PROVE  /\ WalkFrom(insrt) - 1 \in 0 .. Len(L)
           /\ insrt <= (WalkFrom(insrt) - 1) + 1
           /\ \A j \in 1 .. WalkFrom(insrt) - 1 : j < insrt
<1>1. Len(L) \in Nat
  OBVIOUS
<1>2. CASE insrt = 0
  <2>1. WalkFrom(insrt) = 1
    BY <1>2 DEF WalkFrom
  <2>2. QED
    BY <2>1, <1>1, <1>2
<1>3. CASE insrt # 0
  <2>1. WalkFrom(insrt) = insrt
    BY <1>3 DEF WalkFrom
  <2>2. QED
    BY <2>1, <1>1, <1>3
<1>4. QED
  BY <1>2, <1>3

Starts(L, insrt, f, count, w) ==
    /\ w \in WalkState /\ w.out = SubSeq(L, 1, WalkFrom(insrt) - 1)
    /\ w.ld = f /\ w.insrtp = insrt /\ w.td = NULL /\ w.count = count
    /\ w.woken = {} /\ w.over = FALSE /\ w.ret = "ok"
    /\ Joins(L, w.out, L, WalkFrom(insrt) - 1)
    /\ Len(w.out) = WalkFrom(insrt) - 1

\* The state it begins with.
LEMMA StartIs ==
    ASSUME NEW L \in Seq(Lock), NEW insrt \in 0 .. Len(L), NEW f \in Flock, NEW count \in Int,
           NEW w, w = WalkStart(L, insrt, f, count)
    PROVE  Starts(L, insrt, f, count, w)
<1> DEFINE a == WalkFrom(insrt) - 1
           s == SubSeq(L, 1, a)
<1>1. a \in 0 .. Len(L)
  BY FromIs
<1> HIDE DEF a
<1>2. Joins(L, s, L, a)
  BY <1>1, JoinStart
<1>3. s \in Seq(Lock)
  BY <1>2 DEF Joins
<1>4. Len(s) = a
  BY <1>1
<1>5. w = [out |-> s, ld |-> f, insrtp |-> insrt, td |-> NULL,
           count |-> count, woken |-> {}, over |-> FALSE, ret |-> "ok"]
  BY Zenon DEF WalkStart, a
<1> HIDE DEF s
<1>6. /\ w.out = s /\ w.ld = f /\ w.insrtp = insrt /\ w.td = NULL /\ w.count = count
      /\ w.woken = {} /\ w.over = FALSE /\ w.ret = "ok"
  BY <1>5
<1>7. insrt \in Nat /\ NULL \in Flock \cup {NULL} /\ {} \in SUBSET Local /\ FALSE \in BOOLEAN
      /\ "ok" \in {"ok", "have", "ENOLCK"}
  OBVIOUS
<1>8. w \in WalkState
  <2>1. f \in Flock /\ count \in Int
    OBVIOUS
  <2>2. QED
    BY <1>3, <1>5, <1>7, <2>1 DEF WalkState
<1>9. QED
  BY <1>2, <1>4, <1>6, <1>8 DEF s, a, Starts

\* All of it holds at the start.
LEMMA WalkingStart ==
    ASSUME NEW L, NEW f, Asked(L, f), NEW insrt, Begins(L, f, insrt), NEW count \in Int,
           count <= t_flckrec, NEW w, w = WalkStart(L, insrt, f, count)
    PROVE  Walking(L, f, count, w, L, WalkFrom(insrt) - 1)
<1> DEFINE a == WalkFrom(insrt) - 1
<1>1. L \in Seq(Lock) /\ f \in Flock /\ insrt \in 0 .. Len(L) /\ Len(L) \in Nat
  BY DEF Asked, Begins
<1>2. /\ w \in WalkState /\ Joins(L, w.out, L, a)
      /\ w.ld = f /\ w.insrtp = insrt /\ w.td = NULL /\ w.count = count
      /\ w.woken = {} /\ w.over = FALSE /\ w.ret = "ok" /\ Len(w.out) = a
  <2>1. L \in Seq(Lock) /\ f \in Flock /\ insrt \in 0 .. Len(L)
    BY <1>1
  <2>2. Starts(L, insrt, f, count, w)
    BY <2>1, StartIs
  <2>3. QED
    BY <2>2 DEF Starts
<1>3. /\ a \in 0 .. Len(L)
      /\ insrt <= a + 1
      /\ \A j \in 1 .. a : j < insrt
  BY <1>1, FromIs
<1> HIDE DEF a
<1>4. WRange(f, w)
  <2>1. f.start \in Nat /\ f.end \in Nat
    BY <1>1, FlockFacts
  <2>2. QED
    BY <1>2, <2>1 DEF WRange
<1>5. WLists(w, L)
  BY <1>2 DEF WLists, Asked
<1>6. WApart(f, w, L)
  <2>1. ASSUME NEW j \in 1 .. Len(L), L[j].set.own = f.own, j <= Len(w.out)
        PROVE  Apart(w.ld, L[j].set)
    <3>1. j < insrt
      BY <1>2, <1>3, <2>1
    <3>2. QED
      BY <1>2, <2>1, <3>1 DEF Begins
  <2>2. ASSUME NEW j \in 1 .. Len(L), L[j].set.own # f.own, f.type # "F_UNLCK"
        PROVE  Apart(w.ld, L[j].set)
    BY <1>2, <2>2 DEF Asked
  <2>3. QED
    BY <1>2, <2>1, <2>2 DEF WApart
<1>7. WPlace(f, w, L)
  <2>1. insrt <= Len(L) /\ insrt <= a + 1
    BY <1>1, <1>3
  <2>2. f.type # "F_UNLCK" =>
          /\ insrt # 0 => L[insrt].set.start <= f.start
          /\ insrt = 0 => \A j \in 1 .. Len(L) : f.start <= L[j].set.start
    BY DEF Begins
  <2>3. QED
    BY <1>2, <2>1, <2>2 DEF WPlace
<1>8. WHeld(L, f, w, L)
  BY <1>2 DEF WHeld, HeldAt
<1>9. WSleep(L, w, L)
  BY <1>2 DEF WSleep, Asked
<1>10. WCount(L, count, w, L)
  <2>1. Gained(w) = 0
    BY <1>2 DEF Gained
  <2>2. count = count - Len(L) + Len(L) + 0
    BY <1>1
  <2>3. QED
    BY <1>2, <2>1, <2>2 DEF WCount
<1>11. Walking(L, f, count, w, L, a)
  BY <1>2, <1>4, <1>5, <1>6, <1>7, <1>8, <1>9, <1>10 DEF Walking
<1>12. QED
  BY <1>11 DEF a

\* The walk to the end of the list.
LEMMA WalkedIs ==
    ASSUME NEW L, NEW f, Asked(L, f), NEW insrt, Begins(L, f, insrt), NEW count \in Int,
           count <= t_flckrec, NEW mem \in BOOLEAN, NEW w, w = Walk(L, insrt, f, count, mem)
    PROVE  Walking(L, f, count, w, w.out, Len(L))
<1> DEFINE a == WalkFrom(insrt) - 1
           N == Len(L)
           walk == WalkTo(L, insrt, f, count, mem)
           S == {i \in Nat : \E U : Walking(L, f, count, walk[i], U, i)}
<1>1. L \in Seq(Lock) /\ f \in Flock /\ insrt \in 0 .. Len(L)
  BY DEF Asked, Begins
<1>2. N \in Nat /\ a \in 0 .. N
  BY <1>1, FromIs
<1>3. /\ Walk(L, insrt, f, count, mem) = walk[N]
      /\ walk[a] = WalkStart(L, insrt, f, count)
      /\ \A i \in (a + 1) .. N : walk[i] = Visit(walk[i - 1], L[i], mem)
  BY <1>2, WalkIs
<1> HIDE DEF walk
<1>4. Walking(L, f, count, walk[a], L, a)
  BY <1>3, WalkingStart
<1> HIDE DEF a, N
<1>5. a \in S
  BY <1>2, <1>4
<1>6. ASSUME NEW n \in Nat, a < n, n <= N, n - 1 \in S PROVE n \in S
  <2>1. n - 1 \in 0 .. Len(L) - 1 /\ n \in (a + 1) .. N /\ (n - 1) + 1 = n
    BY <1>2, <1>6 DEF N
  <2>2. PICK V : Walking(L, f, count, walk[n - 1], V, n - 1)
    BY <1>6
  <2>3. \E U : Walking(L, f, count, Visit(walk[n - 1], L[(n - 1) + 1], mem), U, (n - 1) + 1)
    <3> DEFINE m == n - 1
               x == walk[n - 1]
    <3>1. m \in 0 .. Len(L) - 1 /\ Walking(L, f, count, x, V, m)
      BY <2>1, <2>2
    <3> HIDE DEF m, x
    <3>2. \E U : Walking(L, f, count, Visit(x, L[m + 1], mem), U, m + 1)
      BY <3>1, WalkingVisit
    <3>3. QED
      BY <3>2 DEF m, x
  <2>4. \E U : Walking(L, f, count, walk[n], U, n)
    BY <1>3, <2>1, <2>3
  <2>5. QED
    BY <2>4
<1> HIDE DEF S
<1>7. a \in Nat /\ N \in a .. N
  BY <1>2
<1>8. \A n \in a .. N : n \in S
  BY <1>2, <1>5, <1>6, <1>7, InductionFrom
<1>9. PICK U : Walking(L, f, count, walk[N], U, N)
  BY <1>7, <1>8 DEF S
<1>10. Walking(L, f, count, w, U, Len(L))
  BY <1>3, <1>9 DEF N
<1>11. Joins(U, w.out, L, Len(L))
  BY <1>10 DEF Walking
<1>12. U = w.out
  BY <1>1, <1>11, JoinEnd
<1>13. QED
  BY <1>10, <1>12

\* The piece at the end.
LEMMA WalkingPlaced ==
    ASSUME NEW L, NEW f, Asked(L, f), NEW count \in Int, NEW w,
           Walking(L, f, count, w, w.out, Len(L)), NEW x, x = PlacePiece(w)
    PROVE  Walking(L, f, count, x, x.out, Len(L)) /\ x.td = NULL
<1>1. L \in Seq(Lock) /\ f \in Flock /\ WRange(f, w) /\ Len(L) \in 0 .. Len(L)
  BY DEF Asked, Walking
<1>2. CASE w.td = NULL
  <2>1. x = w
    BY <1>2 DEF PlacePiece
  <2>2. QED
    BY <1>2, <2>1
<1>3. CASE w.td # NULL
  <2>1. w \in WalkState /\ w.out \in Seq(Lock) /\ Len(w.out) \in Nat
    BY <1>1, StateFacts DEF WRange
  <2>2. Places(w, w.out)
    <3> DEFINE n == Len(w.out)
    <3>1. n \in 0 .. n /\ \A j \in n + 1 .. n : FALSE
      <4>1. n \in Nat
        BY <2>1
      <4> HIDE DEF n
      <4>2. QED
        BY <4>1
    <3>2. QED
      BY <1>3, <2>1, <3>1 DEF Places
  <2>3. PICK U : U = InsertAfter(w.out, Len(w.out), NewLock(w.td))
    OBVIOUS
  <2>4. Walking(L, f, count, x, U, Len(L))
    BY <1>1, <2>2, <2>3, WalkingPlace
  <2>5. Joins(U, x.out, L, Len(L))
    BY <2>4 DEF Walking
  <2>6. U = x.out
    BY <1>1, <2>5, JoinEnd
  <2>7. x.td = NULL
    BY <1>1, <1>3, RangePlace
  <2>8. QED
    BY <2>4, <2>6, <2>7
<1>4. QED
  BY <1>2, <1>3

\* Where a new lock d goes: behind the locks that start before it.
LEMMA InsertPlaceIs ==
    ASSUME NEW V \in Seq(Lock), Sound(V), NEW d \in Flock, NEW p \in 0 .. Len(V),
           p # 0 => V[p].set.start <= d.start,
           p = 0 => \A j \in 1 .. Len(V) : d.start <= V[j].set.start,
           NEW k, k = InsertPlace(V, p, d)
    PROVE  /\ k \in 0 .. Len(V)
           /\ \A j \in 1 .. k : V[j].set.start <= d.start
           /\ \A j \in k + 1 .. Len(V) : d.start <= V[j].set.start
<1> DEFINE T == {Len(V) + 1} \cup {j \in p .. Len(V) : V[j].set.start >= d.start}
           n == Least(T)
<1>1. k = IF p = 0 THEN 0 ELSE IF n = p THEN n ELSE n - 1
  BY DEF InsertPlace
<1>2. Len(V) \in Nat /\ d.start \in Nat /\ \A j \in 1 .. Len(V) : V[j].set.start \in Nat
  <2>1. \A j \in 1 .. Len(V) : V[j] \in Lock
    OBVIOUS
  <2>2. QED
    BY <2>1, LockFacts, FlockFacts
<1>3. CASE p = 0
  BY <1>1, <1>2, <1>3
<1>4. CASE p # 0
  <2>1. T \subseteq Nat /\ T # {}
    BY <1>2, <1>4
  <2>2. n \in T /\ \A m \in T : n <= m
    BY <2>1, LeastIs
  <2> HIDE DEF n
  <2>3. n \in Nat /\ p <= n /\ n <= Len(V) + 1
    BY <1>2, <1>4, <2>1, <2>2
  <2>4. \A i, j \in 1 .. Len(V) : i <= j => V[i].set.start <= V[j].set.start
    BY OrderedPair
  <2>5. CASE n = p
    <3>1. k = p /\ p \in 1 .. Len(V)
      BY <1>1, <1>2, <1>4, <2>5
    <3>2. V[p].set.start = d.start
      BY <1>2, <2>2, <2>5, <3>1
    <3>3. QED
      BY <1>2, <2>4, <3>1, <3>2
  <2>6. CASE n # p
    <3>1. k = n - 1 /\ p \in 1 .. Len(V) /\ p <= k /\ k <= Len(V)
      BY <1>1, <1>2, <1>4, <2>3, <2>6
    <3>2. ASSUME NEW j \in 1 .. k PROVE V[j].set.start <= d.start
      <4>1. j \in 1 .. Len(V)
        BY <1>2, <3>1
      <4>2. CASE j < p
        BY <1>2, <1>4, <2>4, <3>1, <4>1, <4>2
      <4>3. CASE j >= p
        <5>1. j \notin T
          BY <1>2, <2>2, <2>3, <3>1, <4>1
        <5>2. j \in p .. Len(V)
          BY <4>1, <4>3
        <5>3. QED
          BY <1>2, <4>1, <5>1, <5>2
      <4>4. QED
        BY <4>1, <4>2, <4>3
    <3>3. ASSUME NEW j \in k + 1 .. Len(V) PROVE d.start <= V[j].set.start
      <4>1. n \in 1 .. Len(V) /\ j \in 1 .. Len(V) /\ n <= j
        BY <1>2, <2>3, <3>1
      <4>2. V[n].set.start >= d.start
        BY <1>2, <2>2, <4>1
      <4>3. V[n].set.start <= V[j].set.start
        BY <2>4, <4>1
      <4>4. QED
        BY <1>2, <4>1, <4>2, <4>3
    <3>4. QED
      BY <1>2, <3>1, <3>2, <3>3
  <2>7. QED
    BY <2>5, <2>6
<1>5. QED
  BY <1>3, <1>4

\* What is locked in the end, byte by byte.
ExactAt(L, f, a, o, b, t) ==
    /\ o # f.own => (Has(a.out, o, b, t) <=> Has(L, o, b, t))
    /\ o = f.own /\ a.ret = "ENOLCK" => (Has(a.out, o, b, t) => Has(L, o, b, t))
    /\ o = f.own /\ a.ret # "ENOLCK" =>
          IF Within(f, b) THEN Has(a.out, o, b, t) <=> t = f.type /\ f.type # "F_UNLCK"
          ELSE Has(a.out, o, b, t) <=> Has(L, o, b, t)

\* The result a of flckadj() for request f on list L.
Result(L, f, count, a) ==
    /\ a \in WalkState
    /\ a.ld.own = f.own
    /\ Sound(a.out)
    /\ \A j \in 1 .. Len(a.out) : a.out[j].set.type \in Types
    /\ WSleep(L, a, a.out)
    /\ a.count = count - Len(L) + Len(a.out) /\ a.count <= t_flckrec
    /\ \A o \in Owners, b \in Bytes, t \in Codes : ExactAt(L, f, a, o, b, t)

\* A list with locks of these types has no other.
LEMMA HasType ==
    ASSUME NEW V, \A j \in 1 .. Len(V) : V[j].set.type \in Types, NEW o, NEW b, NEW t,
           Has(V, o, b, t)
    PROVE  t \in Types
BY DEF Has, Cov

\* What is apart and of one owner has no byte in common.
LEMMA NoCommon ==
    ASSUME NEW d \in Flock, NEW g \in Flock, g.own = d.own, Apart(d, g), NEW b \in Int,
           Within(d, b), Within(g, b)
    PROVE  FALSE
<1>1. d.start \in Nat /\ d.end \in Nat /\ g.start \in Nat /\ g.end \in Nat
  BY FlockFacts
<1>2. \/ d.end + 1 < g.start \/ g.end + 1 < d.start
      \/ d.end + 1 = g.start \/ g.end + 1 = d.start
  BY DEF Apart
<1>3. QED
  BY <1>1, <1>2 DEF Within

\* Without a new lock.
LEMMA ExactWithout ==
    ASSUME NEW L, NEW f, Asked(L, f), NEW count \in Int, NEW w,
           Walking(L, f, count, w, w.out, Len(L)), w.td = NULL,
           w.ret # "ok" \/ f.type = "F_UNLCK",
           NEW o \in Owners, NEW b \in Bytes, NEW t \in Codes
    PROVE  ExactAt(L, f, w, o, b, t)
<1> DEFINE V == w.out
<1>1. /\ L \in Seq(Lock) /\ f \in Flock /\ Sound(L) /\ Sound(V) /\ WRange(f, w) /\ WApart(f, w, V)
      /\ \A j \in 1 .. Len(L) : L[j].set.type \in Types
      /\ \A j \in 1 .. Len(V) : V[j].set.type \in Types
  BY DEF Asked, Walking, WLists
<1>2. V \in Seq(Lock) /\ w.ret \in {"ok", "have", "ENOLCK"} /\ w.ld \in Flock
  BY <1>1, StateFacts DEF WRange
<1>3. \A u \in Codes : HeldAt(L, f, w, V, o, b, u)
  BY DEF Walking, WHeld
<1>4. f.type \in Codes /\ b \in Int /\ "F_UNLCK" \notin Types /\ f.own \in Owners
  BY <1>1, FlockFacts DEF Codes, Bytes, Types
<1>5. Within(f, b) => Within(w.ld, b)
  <2>1. w.ld.start <= f.start /\ f.end <= w.ld.end
    BY <1>1 DEF WRange
  <2>2. w.ld.start \in Nat /\ w.ld.end \in Nat /\ f.start \in Nat /\ f.end \in Nat
    BY <1>1, <1>2, FlockFacts
  <2>3. QED
    BY <1>4, <2>1, <2>2 DEF Within
<1> HIDE DEF V
<1>6. SUFFICES ASSUME o = f.own
               PROVE  /\ w.ret = "ENOLCK" => (Has(V, o, b, t) => Has(L, o, b, t))
                      /\ w.ret # "ENOLCK" =>
                            IF Within(f, b) THEN Has(V, o, b, t) <=> t = f.type /\ f.type # "F_UNLCK"
                            ELSE Has(V, o, b, t) <=> Has(L, o, b, t)
  BY <1>3 DEF HeldAt, ExactAt, V
<1>7. CASE w.ret = "ENOLCK"
  BY <1>3, <1>7 DEF HeldAt
<1>8. CASE w.ret = "have"
  <2>1. /\ Within(f, b) => Has(V, o, b, f.type)
        /\ Has(L, o, b, t) => Has(V, o, b, t) \/ Within(f, b)
        /\ Has(V, o, b, t) => Has(L, o, b, t)
    BY <1>3, <1>6, <1>8 DEF HeldAt
  <2>2. Has(V, o, b, f.type) => f.type # "F_UNLCK"
    BY <1>1, <1>4, HasType DEF V
  <2>3. Has(V, o, b, f.type) /\ Has(V, o, b, t) => t = f.type
    BY <1>1, <1>2, <1>4, HasOnce DEF V
  <2>4. QED
    BY <1>8, <2>1, <2>2, <2>3
<1>9. CASE w.ret = "ok"
  <2>1. f.type = "F_UNLCK"
    BY <1>9
  <2>2. ~Has(L, o, b, f.type)
    BY <1>1, <1>4, <2>1, HasType
  <2>3. /\ Has(L, o, b, t) => Has(V, o, b, t) \/ Within(w.ld, b)
        /\ Within(w.ld, b) => Within(f, b) \/ Has(L, o, b, f.type)
        /\ Has(V, o, b, t) => Has(L, o, b, t)
    BY <1>3, <1>6, <1>9 DEF HeldAt
  <2>4. ASSUME Within(w.ld, b), Has(V, o, b, t) PROVE FALSE
    <3>1. PICK j \in 1 .. Len(V) : Cov(V[j].set, o, b, t)
      BY <2>4 DEF Has
    <3>2. j <= Len(w.out)
      BY <1>2, <3>1 DEF V
    <3>3. Apart(w.ld, V[j].set) /\ w.ld.own = f.own
      BY <1>1, <1>6, <1>9, <3>1, <3>2 DEF WApart, Cov, WRange, V
    <3>4. V[j].set \in Flock
      BY <1>2, LockFacts DEF V
    <3>5. V[j].set.own = w.ld.own /\ Within(V[j].set, b)
      BY <1>6, <3>1, <3>3 DEF Cov, Within
    <3>6. QED
      BY <1>2, <1>4, <2>4, <3>3, <3>4, <3>5, NoCommon
  <2>5. QED
    BY <1>5, <1>9, <2>1, <2>2, <2>3, <2>4
<1>10. QED
  BY <1>2, <1>7, <1>8, <1>9

\* With a new lock for the region.
LEMMA ExactWith ==
    ASSUME NEW L, NEW f, Asked(L, f), NEW count \in Int, NEW w,
           Walking(L, f, count, w, w.out, Len(L)), w.td = NULL,
           w.ret = "ok", f.type # "F_UNLCK",
           NEW U \in Seq(Lock), Sound(U), NEW a, a.out = U, a.ret = "ok",
           \A o \in Owners, b \in Bytes, t \in Codes :
               Has(U, o, b, t) <=> Has(w.out, o, b, t) \/ Cov(w.ld, o, b, t),
           NEW o \in Owners, NEW b \in Bytes, NEW t \in Codes
    PROVE  ExactAt(L, f, a, o, b, t)
<1> DEFINE V == w.out
<1>1. /\ L \in Seq(Lock) /\ f \in Flock /\ Sound(L) /\ WRange(f, w)
  BY DEF Asked, Walking
<1>2. w.ld \in Flock
  BY <1>1, StateFacts DEF WRange
<1>3. \A u \in Codes : HeldAt(L, f, w, V, o, b, u)
  BY DEF Walking, WHeld
<1>4. f.type \in Codes /\ b \in Int
  BY <1>1, FlockFacts DEF Codes, Bytes
<1>5. \A u \in Codes : Has(U, o, b, u) <=> Has(V, o, b, u) \/ Cov(w.ld, o, b, u)
  OBVIOUS
<1>6. /\ w.ld.own = f.own /\ w.ld.type = f.type
      /\ w.ld.start <= f.start /\ f.end <= w.ld.end
  BY <1>1 DEF WRange
<1> HIDE DEF V
<1>7. CASE o # f.own
  <2>1. ~Cov(w.ld, o, b, t)
    BY <1>6, <1>7 DEF Cov
  <2>2. Has(V, o, b, t) <=> Has(L, o, b, t)
    BY <1>3, <1>7 DEF HeldAt
  <2>3. QED
    BY <1>5, <1>7, <2>1, <2>2 DEF ExactAt
<1>8. CASE o = f.own
  <2>1. Within(f, b) => Within(w.ld, b)
    <3>1. w.ld.start \in Nat /\ w.ld.end \in Nat /\ f.start \in Nat /\ f.end \in Nat
      BY <1>1, <1>2, FlockFacts
    <3>2. QED
      BY <1>4, <1>6, <3>1 DEF Within
  <2>2. Within(w.ld, b) <=> Cov(w.ld, o, b, f.type)
    BY <1>6, <1>8 DEF Within, Cov
  <2>3. Cov(w.ld, o, b, t) => t = f.type
    BY <1>6 DEF Cov
  <2>4. Has(U, o, b, f.type) /\ Has(U, o, b, t) => t = f.type
    BY <1>4, HasOnce
  <2>5. Has(L, o, b, f.type) /\ Has(L, o, b, t) => t = f.type
    BY <1>1, <1>4, HasOnce
  <2>6. /\ Has(L, o, b, t) => Has(V, o, b, t) \/ Within(w.ld, b)
        /\ Within(w.ld, b) => Within(f, b) \/ Has(L, o, b, f.type)
        /\ Has(V, o, b, t) => Has(L, o, b, t)
    BY <1>3, <1>8 DEF HeldAt
  <2>7. IF Within(f, b) THEN Has(U, o, b, t) <=> t = f.type /\ f.type # "F_UNLCK"
        ELSE Has(U, o, b, t) <=> Has(L, o, b, t)
    BY <1>4, <1>5, <2>1, <2>2, <2>3, <2>4, <2>5, <2>6
  <2>8. QED
    BY <1>8, <2>7 DEF ExactAt
<1>9. QED
  BY <1>7, <1>8

\* The new lock is put in, if one is wanted and there is a record for it.
LEMMA AddLockIs ==
    ASSUME NEW L, NEW f, Asked(L, f), NEW count \in Int, NEW w,
           Walking(L, f, count, w, w.out, Len(L)), w.td = NULL,
           NEW mem \in BOOLEAN, NEW a, a = AddLock(w, mem)
    PROVE  Result(L, f, count, a)
<1> DEFINE V == w.out
<1>1. /\ WRange(f, w) /\ WLists(w, V) /\ WApart(f, w, V) /\ WPlace(f, w, V)
      /\ WSleep(L, w, V) /\ WCount(L, count, w, V) /\ f \in Flock /\ L \in Seq(Lock)
  BY DEF Walking, Asked
<1>2. /\ w \in WalkState /\ V \in Seq(Lock) /\ w.ld \in Flock /\ w.count \in Int
      /\ w.ret \in {"ok", "have", "ENOLCK"} /\ w.insrtp \in Nat /\ Len(V) \in Nat
  BY <1>1, StateFacts DEF WRange
<1>3. w.ld.own = f.own /\ w.ld.type = f.type
  BY <1>1 DEF WRange
<1>4. Sound(V) /\ \A j \in 1 .. Len(V) : V[j].set.type \in Types
  BY <1>1 DEF WLists
<1>5. w.count = count - Len(L) + Len(V) /\ w.count <= t_flckrec
  <2>1. Gained(w) = 0
    BY DEF Gained
  <2>2. Len(L) \in Nat
    BY <1>1
  <2>3. QED
    BY <1>1, <1>2, <2>1, <2>2 DEF WCount
<1>6. CASE w.ret # "ok" \/ w.ld.type = "F_UNLCK"
  <2>1. a = w
    BY <1>6 DEF AddLock
  <2>2. \A o \in Owners, b \in Bytes, t \in Codes : ExactAt(L, f, w, o, b, t)
    BY <1>3, <1>6, ExactWithout
  <2>3. QED
    BY <1>1, <1>2, <1>3, <1>4, <1>5, <2>1, <2>2 DEF Result
<1>7. CASE w.ret = "ok" /\ w.ld.type # "F_UNLCK" /\ ~Room(w.count, mem)
  <2>1. a = [w EXCEPT !.ret = "ENOLCK"]
    BY <1>7 DEF AddLock
  <2>2. /\ a \in WalkState /\ a.out = V /\ a.ld = w.ld
        /\ a.count = w.count /\ a.woken = w.woken /\ a.ret = "ENOLCK"
    <3>1. "ENOLCK" \in {"ok", "have", "ENOLCK"}
      OBVIOUS
    <3>2. QED
      BY <1>2, <2>1, <3>1, StateRet
  <2>3. WSleep(L, a, V)
    BY <1>1, <2>2 DEF WSleep
  <2>4. ASSUME NEW o \in Owners, NEW b \in Bytes, NEW t \in Codes
        PROVE  ExactAt(L, f, a, o, b, t)
    <3>1. HeldAt(L, f, w, V, o, b, t)
      BY DEF Walking, WHeld
    <3>2. QED
      BY <2>2, <3>1 DEF HeldAt, ExactAt
  <2>5. QED
    BY <1>3, <1>4, <1>5, <2>2, <2>3, <2>4 DEF Result
<1>8. CASE w.ret = "ok" /\ w.ld.type # "F_UNLCK" /\ Room(w.count, mem)
  <2> DEFINE c == NewLock(w.ld)
             k == InsertPlace(V, w.insrtp, w.ld)
             U == InsertAfter(V, k, c)
             n == w.count + 1
  <2>1. a = [w EXCEPT !.out = U, !.count = n]
    BY <1>2, <1>8, Zenon DEF AddLock, WalkState
  <2>2. c \in Lock /\ c.set = w.ld /\ c.slp = {}
    BY <1>2, NewLockIs
  <2>3. /\ w.insrtp \in 0 .. Len(V)
        /\ w.insrtp # 0 => V[w.insrtp].set.start <= w.ld.start
        /\ w.insrtp = 0 => \A j \in 1 .. Len(V) : w.ld.start <= V[j].set.start
    BY <1>1, <1>2, <1>3, <1>8 DEF WPlace
  <2>4. /\ k \in 0 .. Len(V)
        /\ \A j \in 1 .. k : V[j].set.start <= w.ld.start
        /\ \A j \in k + 1 .. Len(V) : w.ld.start <= V[j].set.start
    BY <1>2, <1>4, <2>3, InsertPlaceIs
  <2>5. \A j \in 1 .. Len(V) : Apart(w.ld, V[j].set)
    <3>1. \A j \in 1 .. Len(V) : j <= Len(w.out)
      BY <1>2
    <3>2. QED
      BY <1>1, <1>3, <1>8, <3>1 DEF WApart
  <2> HIDE DEF k, c
  <2>6. U \in Seq(Lock) /\ Len(U) = Len(V) + 1
    BY <1>2, <2>2, <2>4, InsertedIs
  <2>7. Sound(U)
    BY <1>2, <1>4, <2>2, <2>4, <2>5, SoundInsert
  <2>8. \A j \in 1 .. Len(U) : U[j] = c \/ \E m \in 1 .. Len(V) : U[j] = V[m]
    BY <1>2, <2>2, <2>4, InsertedFrom
  <2>9. \A o, b, t : Has(U, o, b, t) <=> Has(V, o, b, t) \/ Cov(w.ld, o, b, t)
    BY <1>2, <2>2, <2>4, HasInsert
  <2>10. \A x : x.woken = w.woken => WSleep(L, x, U)
    BY <1>1, <1>2, <2>2, <2>4, SleepInsert
  <2> HIDE DEF U
  <2>11. \A j \in 1 .. Len(U) : U[j].set.type \in Types
    <3>1. c.set.type \in Types
      <4>1. w.ld.type \in Types \cup {"F_UNLCK"}
        BY <1>2, FlockFacts
      <4>2. QED
        BY <4>1, <1>8, <2>2
    <3>2. QED
      BY <1>4, <2>8, <3>1
  <2>12. n \in Int /\ n = count - Len(L) + Len(U) /\ n <= t_flckrec
    <3> DEFINE e == Len(L)
               m == Len(V)
               z == Len(U)
    <3>1. e \in Int /\ m \in Int /\ z = m + 1 /\ w.count \in Int /\ w.count = count - e + m
      BY <1>1, <1>2, <1>5, <2>6
    <3>2. w.count < t_flckrec /\ t_flckrec \in Nat
      BY <1>8, LimitsNatural DEF Room
    <3> HIDE DEF e, m, z
    <3>3. n \in Int /\ n = count - e + z /\ n <= t_flckrec
      BY <3>1, <3>2
    <3>4. QED
      BY <3>3 DEF e, z
  <2> HIDE DEF n
  <2>13. /\ a \in WalkState /\ a.out = U /\ a.ld = w.ld
         /\ a.count = n /\ a.woken = w.woken /\ a.ret = w.ret
    <3> DEFINE u == [w EXCEPT !.out = U]
               y == [u EXCEPT !.count = n]
    <3>1. a = y
      BY <1>2, <2>1, Zenon DEF WalkState
    <3>2. /\ u \in WalkState /\ u.out = U /\ u.ld = w.ld /\ u.insrtp = w.insrtp
          /\ u.td = w.td /\ u.count = w.count /\ u.woken = w.woken
          /\ u.over = w.over /\ u.ret = w.ret
      BY <1>2, <2>6, StateOut
    <3> HIDE DEF u
    <3>3. /\ y \in WalkState /\ y.out = u.out /\ y.ld = u.ld /\ y.insrtp = u.insrtp
          /\ y.td = u.td /\ y.count = n /\ y.woken = u.woken
          /\ y.over = u.over /\ y.ret = u.ret
      BY <2>12, <3>2, StateCount
    <3> HIDE DEF y
    <3>4. QED
      BY <3>1, <3>2, <3>3
  <2>14. \A o \in Owners, b \in Bytes, t \in Codes : ExactAt(L, f, a, o, b, t)
    <3>1. a.out = U /\ a.ret = "ok" /\ U \in Seq(Lock) /\ Sound(U) /\ w.ret = "ok"
          /\ f.type # "F_UNLCK"
      BY <1>3, <1>8, <2>6, <2>7, <2>13
    <3>2. \A o \in Owners, b \in Bytes, t \in Codes :
             Has(U, o, b, t) <=> Has(w.out, o, b, t) \/ Cov(w.ld, o, b, t)
      BY <2>9
    <3>3. QED
      BY <3>1, <3>2, ExactWith
  <2>15. WSleep(L, a, U)
    BY <2>10, <2>13
  <2>16. QED
    BY <1>3, <2>7, <2>11, <2>12, <2>13, <2>14, <2>15 DEF Result
<1>9. QED
  BY <1>6, <1>7, <1>8

\* What flckadj() does.
LEMMA AdjustedIs ==
    ASSUME NEW L, NEW f, Asked(L, f), NEW insrt, Begins(L, f, insrt), NEW count \in Int,
           count <= t_flckrec, NEW mem \in BOOLEAN,
           NEW a, a = flckadj(L, insrt, f, count, mem)
    PROVE  Result(L, f, count, a)
<1>1. PICK w : w = Walk(L, insrt, f, count, mem)
  OBVIOUS
<1>2. PICK x : x = PlacePiece(w)
  OBVIOUS
<1>3. Walking(L, f, count, w, w.out, Len(L))
  BY <1>1, WalkedIs
<1>4. Walking(L, f, count, x, x.out, Len(L)) /\ x.td = NULL
  BY <1>2, <1>3, WalkingPlaced
<1>5. a = AddLock(x, mem)
  BY <1>1, <1>2 DEF flckadj
<1>6. QED
  BY <1>4, <1>5, AddLockIs

(***************************************************************************)
(* blocked(): what it finds, and where it lets flckadj() begin.            *)
(***************************************************************************)

\* Lock g is in the way of request f.
Bars(g, f) ==
    g.own # f.own /\ g.start <= f.end /\ f.start <= g.end /\ InTheWay(g, f)

\* Where the first loop stops.
LEMMA FirstStopIs ==
    ASSUME NEW L \in Seq(Lock), NEW f, NEW n, n = FirstStop(L, f)
    PROVE  /\ n \in 1 .. Len(L) + 1
           /\ \A j \in 1 .. Len(L) : j < n =>
                 ~(L[j].set.start >= f.start) /\ ~(L[j].set.own = f.own /\ f.start - 1 <= L[j].set.end)
           /\ n <= Len(L) => \/ L[n].set.start >= f.start
                             \/ L[n].set.own = f.own /\ f.start - 1 <= L[n].set.end
<1> DEFINE T == {Len(L) + 1} \cup
                {i \in DOMAIN L : \/ L[i].set.start >= f.start
                                  \/ L[i].set.own = f.own /\ f.start - 1 <= L[i].set.end}
<1>1. Len(L) \in Nat /\ DOMAIN L = 1 .. Len(L)
  OBVIOUS
<1>2. T \subseteq Nat /\ T # {}
  BY <1>1
<1>3. n = Least(T)
  BY DEF FirstStop
<1>4. n \in T /\ \A m \in T : n <= m
  BY <1>2, <1>3, LeastIs
<1>5. Len(L) + 1 \in T
  OBVIOUS
<1>6. n \in 1 .. Len(L) + 1
  BY <1>1, <1>4, <1>5
<1>7. ASSUME NEW j \in 1 .. Len(L), j < n PROVE j \notin T
  BY <1>1, <1>4, <1>6, <1>7
<1>8. n <= Len(L) => n # Len(L) + 1
  BY <1>1
<1>9. QED
  BY <1>1, <1>4, <1>6, <1>7, <1>8

\* The two loops of blocked() find just the others' locks that are in the way.
LEMMA BlockersIs ==
    ASSUME NEW L \in Seq(Lock), Sound(L), NEW f \in Flock
    PROVE  \A i : i \in Blockers(L, f) <=> i \in 1 .. Len(L) /\ Bars(L[i].set, f)
<1> DEFINE n == FirstStop(L, f)
           T == {Len(L) + 1} \cup {i \in n .. Len(L) : f.end < L[i].set.start}
           m == Least(T)
<1>1. Len(L) \in Nat /\ DOMAIN L = 1 .. Len(L)
  OBVIOUS
<1>2. f.start \in Nat /\ f.end \in Nat /\ f.start <= f.end
  BY FlockFacts
<1>3. \A i \in 1 .. Len(L) : L[i].set.start \in Nat /\ L[i].set.end \in Nat
  <2>1. \A i \in 1 .. Len(L) : L[i] \in Lock
    OBVIOUS
  <2>2. QED
    BY <2>1, LockFacts, FlockFacts
<1>4. n \in 1 .. Len(L) + 1
  BY FirstStopIs
<1>5. \A j \in 1 .. Len(L) : j < n => ~(L[j].set.start >= f.start)
  BY FirstStopIs
<1>6. \A i, j \in 1 .. Len(L) : i <= j => L[i].set.start <= L[j].set.start
  BY OrderedPair
<1>7. SecondStop(L, f) = m
  BY DEF SecondStop
<1> HIDE DEF n
<1>8. T \subseteq Nat /\ T # {}
  BY <1>1, <1>4
<1>9. m \in T /\ \A k \in T : m <= k
  BY <1>8, LeastIs
<1> HIDE DEF m
<1>10. m \in 1 .. Len(L) + 1
  BY <1>1, <1>4, <1>9
<1>11. ASSUME NEW i PROVE i \in 1 .. m - 1 <=> i \in 1 .. Len(L) /\ L[i].set.start <= f.end
  <2>1. ASSUME i \in 1 .. m - 1 PROVE i \in 1 .. Len(L) /\ L[i].set.start <= f.end
    <3>1. i \in 1 .. Len(L) /\ i < m
      BY <1>1, <1>10, <2>1
    <3>2. i \notin T
      BY <1>9, <1>10, <3>1
    <3>3. CASE i < n
      BY <1>2, <1>3, <1>5, <3>1, <3>3
    <3>4. CASE i >= n
      <4>1. i \in n .. Len(L)
        BY <1>4, <3>1, <3>4
      <4>2. QED
        BY <1>2, <1>3, <3>1, <3>2, <4>1
    <3>5. QED
      BY <1>4, <3>1, <3>3, <3>4
  <2>2. ASSUME i \in 1 .. Len(L), L[i].set.start <= f.end PROVE i \in 1 .. m - 1
    <3>1. CASE m = Len(L) + 1
      BY <1>1, <2>2, <3>1
    <3>2. CASE m # Len(L) + 1
      <4>1. m \in 1 .. Len(L) /\ f.end < L[m].set.start
        BY <1>4, <1>9, <1>10, <3>2
      <4>2. ~(m <= i)
        <5>1. SUFFICES ASSUME m <= i PROVE FALSE
          OBVIOUS
        <5>2. L[m].set.start <= L[i].set.start
          BY <1>6, <2>2, <4>1, <5>1
        <5>3. QED
          BY <1>2, <1>3, <2>2, <4>1, <5>2
      <4>3. QED
        BY <1>10, <2>2, <4>2
    <3>3. QED
      BY <3>1, <3>2
  <2>3. QED
    BY <2>1, <2>2
<1>12. ASSUME NEW i PROVE i \in Blockers(L, f) <=> i \in 1 .. Len(L) /\ Bars(L[i].set, f)
  <2>1. i \in Blockers(L, f) <=> /\ i \in 1 .. m - 1
                                 /\ L[i].set.own # f.own /\ f.start <= L[i].set.end
                                 /\ InTheWay(L[i].set, f)
    BY <1>7 DEF Blockers
  <2>2. QED
    BY <1>11, <2>1 DEF Bars
<1>13. QED
  BY <1>12

\* With nothing in the way the others' locks are apart from the region.
LEMMA NobodyBars ==
    ASSUME NEW L \in Seq(Lock), Sound(L), NEW f \in Flock, Blockers(L, f) = {},
           f.type \in Types, \A j \in 1 .. Len(L) : L[j].set.type \in Types,
           NEW i \in 1 .. Len(L), L[i].set.own # f.own
    PROVE  Apart(f, L[i].set)
<1>1. ~Bars(L[i].set, f)
  BY BlockersIs
<1>2. QED
  BY <1>1 DEF Bars, InTheWay, Apart, Types

\* The last lock in front of the region is a place to begin at.
LEMMA InsrtBegins ==
    ASSUME NEW L \in Seq(Lock), Sound(L), NEW f \in Flock
    PROVE  Begins(L, f, Insrt(L, f))
<1> DEFINE n == FirstStop(L, f)
<1>1. PICK k : k = Insrt(L, f)
  OBVIOUS
<1>2. k = IF n <= Len(L) /\ L[n].set.start < f.start THEN n ELSE n - 1
  BY <1>1 DEF Insrt
<1>3. n \in 1 .. Len(L) + 1
  BY FirstStopIs
<1>4. \A j \in 1 .. Len(L) : j < n =>
                 ~(L[j].set.start >= f.start) /\ ~(L[j].set.own = f.own /\ f.start - 1 <= L[j].set.end)
  BY FirstStopIs
<1>5. f.start \in Nat /\ f.end \in Nat /\ f.start <= f.end /\ Len(L) \in Nat
  BY FlockFacts
<1>6. \A i \in 1 .. Len(L) : L[i].set.start \in Nat /\ L[i].set.end \in Nat
  <2>1. \A i \in 1 .. Len(L) : L[i] \in Lock
    OBVIOUS
  <2>2. QED
    BY <2>1, LockFacts, FlockFacts
<1>7. \A i, j \in 1 .. Len(L) : i <= j => L[i].set.start <= L[j].set.start
  BY OrderedPair
<1> HIDE DEF n
<1>8. k \in 0 .. Len(L) /\ k <= n
  BY <1>2, <1>3, <1>5
<1>9. ASSUME NEW j \in 1 .. Len(L), j < k, L[j].set.own = f.own PROVE Apart(f, L[j].set)
  <2>1. j < n
    BY <1>3, <1>8, <1>9
  <2>2. L[j].set.end + 1 < f.start
    BY <1>4, <1>5, <1>6, <1>9, <2>1
  <2>3. QED
    BY <1>9, <2>2 DEF Apart
<1>10. ASSUME k # 0 PROVE L[k].set.start <= f.start
  <2>1. k \in 1 .. Len(L)
    BY <1>8, <1>10
  <2>2. CASE k = n
    BY <1>2, <1>3, <1>5, <1>6, <2>1, <2>2
  <2>3. CASE k < n
    BY <1>4, <1>5, <1>6, <2>1, <2>3
  <2>4. QED
    BY <1>3, <1>8, <2>2, <2>3
<1>11. ASSUME k = 0, NEW j \in 1 .. Len(L) PROVE f.start <= L[j].set.start
  <2>1. n = 1 /\ 1 \in 1 .. Len(L) /\ 1 <= j
    BY <1>2, <1>3, <1>5, <1>11
  <2>2. ~(L[1].set.start < f.start)
    BY <1>2, <1>5, <1>11, <2>1
  <2>3. L[1].set.start <= L[j].set.start
    BY <1>7, <2>1
  <2>4. QED
    BY <1>5, <1>6, <2>1, <2>2, <2>3
<1>12. Begins(L, f, k)
  BY <1>8, <1>9, <1>10, <1>11 DEF Begins
<1>13. QED
  BY <1>1, <1>12

\* An unlock begins at the first lock.
LEMMA FirstBegins ==
    ASSUME NEW L \in Seq(Lock), NEW f, f.type = "F_UNLCK"
    PROVE  Begins(L, f, IF L = <<>> THEN 0 ELSE 1)
<1>1. Len(L) \in Nat /\ (L # <<>> => Len(L) # 0)
  OBVIOUS
<1>2. QED
  BY <1>1 DEF Begins

(***************************************************************************)
(* What an owner has locked a byte for.                                    *)
(***************************************************************************)
\* A byte that is locked.
LEMMA HeldIs ==
    ASSUME NEW V \in Seq(Lock), Sound(V), NEW o, NEW b \in Int, NEW t, Has(V, o, b, t)
    PROVE  Held(V, o, b) = t
<1> DEFINE at == {i \in DOMAIN V : V[i].set.own = o /\ V[i].set.start <= b /\ b <= V[i].set.end}
           i == CHOOSE i \in at : TRUE
<1>1. DOMAIN V = 1 .. Len(V)
  OBVIOUS
<1>2. at # {}
  BY <1>1 DEF Has, Cov
<1>3. i \in at
  BY <1>2
<1>4. Held(V, o, b) = V[i].set.type
  BY <1>2, Zenon DEF Held
<1> HIDE DEF i
<1>5. Has(V, o, b, V[i].set.type)
  BY <1>1, <1>3 DEF Has, Cov
<1>6. V[i].set.type = t
  BY <1>5, HasOnce
<1>7. QED
  BY <1>4, <1>6

\* What is not locked.
LEMMA HeldNot ==
    ASSUME NEW V \in Seq(Lock), \A j \in 1 .. Len(V) : V[j].set.type \in Types,
           NEW o, NEW b, \A t \in Codes : ~Has(V, o, b, t)
    PROVE  Held(V, o, b) = "F_UNLCK"
<1> DEFINE at == {i \in DOMAIN V : V[i].set.own = o /\ V[i].set.start <= b /\ b <= V[i].set.end}
<1>1. DOMAIN V = 1 .. Len(V)
  OBVIOUS
<1>2. ASSUME NEW i \in at PROVE FALSE
  <2>1. i \in 1 .. Len(V) /\ V[i].set.type \in Codes
    BY <1>1, <1>2 DEF Codes
  <2>2. Has(V, o, b, V[i].set.type)
    BY <1>2, <2>1 DEF Has, Cov
  <2>3. QED
    BY <2>1, <2>2
<1>3. at = {}
  BY <1>2
<1>4. QED
  BY <1>3, Zenon DEF Held

\* Two lists that have the same lock on a byte, or the second has none.
LEMMA HeldSame ==
    ASSUME NEW L \in Seq(Lock), Sound(L), \A j \in 1 .. Len(L) : L[j].set.type \in Types,
           NEW V \in Seq(Lock), Sound(V), \A j \in 1 .. Len(V) : V[j].set.type \in Types,
           NEW o, NEW b \in Int, \A t \in Codes : Has(V, o, b, t) => Has(L, o, b, t)
    PROVE  /\ Held(V, o, b) \in {Held(L, o, b), "F_UNLCK"}
           /\ (\A t \in Codes : Has(L, o, b, t) => Has(V, o, b, t)) => Held(V, o, b) = Held(L, o, b)
<1>1. CASE \E t \in Codes : Has(V, o, b, t)
  <2>1. PICK t \in Codes : Has(V, o, b, t)
    BY <1>1
  <2>2. Held(V, o, b) = t /\ Held(L, o, b) = t
    BY <2>1, HeldIs
  <2>3. QED
    BY <2>2
<1>2. CASE \A t \in Codes : ~Has(V, o, b, t)
  <2>1. Held(V, o, b) = "F_UNLCK"
    BY <1>2, HeldNot
  <2>2. (\A t \in Codes : Has(L, o, b, t) => Has(V, o, b, t)) => Held(L, o, b) = "F_UNLCK"
    BY <1>2, HeldNot
  <2>3. QED
    BY <2>1, <2>2
<1>3. QED
  BY <1>1, <1>2

(***************************************************************************)
(* AdjustExact, from a list that stands.                                   *)
(***************************************************************************)
\* A walk that has done its work is exact.
LEMMA ResultExact ==
    ASSUME NEW f \in Flock, NEW count, NEW a, Result(filocks, f, count, a),
           filocks \in Seq(Lock), Sound(filocks),
           \A j \in 1 .. Len(filocks) : filocks[j].set.type \in Types
    PROVE  Exact(f, a)
<1>1. a \in WalkState /\ Sound(a.out) /\ \A j \in 1 .. Len(a.out) : a.out[j].set.type \in Types
  BY DEF Result
<1>2. a.out \in Seq(Lock)
  BY <1>1, StateFacts
<1>3. SUFFICES ASSUME NEW o \in Owners, NEW b \in Bytes
               PROVE  Held(a.out, o, b) \in
                        CASE o # f.own -> {Held(filocks, o, b)}
                          [] o = f.own /\ a.ret = "ENOLCK" -> {Held(filocks, o, b), "F_UNLCK"}
                          [] OTHER -> {IF f.start <= b /\ b <= f.end THEN f.type
                                       ELSE Held(filocks, o, b)}
  BY DEF Exact
<1>4. \A t \in Codes : ExactAt(filocks, f, a, o, b, t)
  BY DEF Result
<1>5. b \in Int /\ f.type \in Codes
  BY FlockFacts DEF Bytes, Codes
<1> DEFINE V == a.out
<1>6. /\ (\A t \in Codes : Has(V, o, b, t) => Has(filocks, o, b, t)) =>
            Held(V, o, b) \in {Held(filocks, o, b), "F_UNLCK"}
      /\ (\A t \in Codes : Has(V, o, b, t) <=> Has(filocks, o, b, t)) =>
            Held(V, o, b) = Held(filocks, o, b)
  BY <1>1, <1>2, <1>5, HeldSame
<1>7. CASE o # f.own
  <2>1. Held(V, o, b) = Held(filocks, o, b)
    BY <1>4, <1>6, <1>7 DEF ExactAt
  <2>2. QED
    BY <1>7, <2>1
<1>8. CASE o = f.own /\ a.ret = "ENOLCK"
  <2>1. Held(V, o, b) \in {Held(filocks, o, b), "F_UNLCK"}
    BY <1>4, <1>6, <1>8 DEF ExactAt
  <2>2. QED
    BY <1>8, <2>1
<1>9. CASE o = f.own /\ a.ret # "ENOLCK"
  <2>1. \A t \in Codes :
           IF Within(f, b) THEN Has(V, o, b, t) <=> t = f.type /\ f.type # "F_UNLCK"
           ELSE Has(V, o, b, t) <=> Has(filocks, o, b, t)
    BY <1>4, <1>9 DEF ExactAt
  <2>2. CASE Within(f, b) /\ f.type # "F_UNLCK"
    <3>1. Has(V, o, b, f.type)
      BY <1>5, <2>1, <2>2
    <3>2. Held(V, o, b) = f.type
      BY <1>1, <1>2, <1>5, <3>1, HeldIs
    <3>3. QED
      BY <1>9, <2>2, <3>2 DEF Within
  <2>3. CASE Within(f, b) /\ f.type = "F_UNLCK"
    <3>1. \A t \in Codes : ~Has(V, o, b, t)
      BY <2>1, <2>3
    <3>2. Held(V, o, b) = f.type
      BY <1>1, <1>2, <2>3, <3>1, HeldNot
    <3>3. QED
      BY <1>9, <2>3, <3>2 DEF Within
  <2>4. CASE ~Within(f, b)
    <3>1. Held(V, o, b) = Held(filocks, o, b)
      BY <1>6, <2>1, <2>4
    <3>2. QED
      BY <1>9, <2>4, <3>1 DEF Within
  <2>5. QED
    BY <2>2, <2>3, <2>4
<1>10. QED
  BY <1>7, <1>8, <1>9

\* A list that stands, for any request that nothing bars.
LEMMA AskedIs ==
    ASSUME NEW L \in Seq(Lock), Sound(L), Sleeps(L),
           \A j \in 1 .. Len(L) : L[j].set.type \in Types,
           NEW f \in Flock, f.type = "F_UNLCK" \/ Blockers(L, f) = {}
    PROVE  Asked(L, f)
<1>1. ASSUME f.type # "F_UNLCK", NEW j \in 1 .. Len(L), L[j].set.own # f.own
      PROVE  Apart(f, L[j].set)
  <2>1. f.type \in Types /\ Blockers(L, f) = {}
    BY <1>1, FlockFacts
  <2>2. QED
    BY <1>1, <2>1, NobodyBars
<1>2. QED
  BY <1>1 DEF Asked

\* AdjustExact, for any request that can come.
LEMMA AdjustExactIs ==
    ASSUME filocks \in Seq(Lock), Sound(filocks), Sleeps(filocks),
           \A j \in 1 .. Len(filocks) : filocks[j].set.type \in Types,
           reccnt \in Int, reccnt <= t_flckrec
    PROVE  AdjustExact
<1>1. SUFFICES ASSUME NEW f \in Flock, NEW mem \in BOOLEAN,
                      f.type = "F_UNLCK" \/ Blockers(filocks, f) = {},
                      NEW insrt, insrt = IF f.type # "F_UNLCK" THEN Insrt(filocks, f)
                                         ELSE IF filocks = <<>> THEN 0 ELSE 1
               PROVE  Exact(f, flckadj(filocks, insrt, f, reccnt, mem))
  BY DEF AdjustExact
<1>2. Asked(filocks, f)
  BY <1>1, AskedIs
<1>3. Begins(filocks, f, insrt)
  <2>1. CASE f.type # "F_UNLCK"
    BY <1>1, <2>1, InsrtBegins
  <2>2. CASE f.type = "F_UNLCK"
    BY <1>1, <2>2, FirstBegins
  <2>3. QED
    BY <2>1, <2>2
<1>4. PICK a : a = flckadj(filocks, insrt, f, reccnt, mem)
  OBVIOUS
<1>5. Result(filocks, f, reccnt, a)
  BY <1>2, <1>3, <1>4, AdjustedIs
<1>6. QED
  BY <1>4, <1>5, ResultExact

(***************************************************************************)
(* The chain of waiting requests.                                          *)
(***************************************************************************)
Entry == [set : Flock, blk : Owners]

\* Outside of a call an owner has no entry on the chain, in it just one.
Entered(chain, pcs, p) ==
    IF pcs[p] = "user" THEN SleepingFor(chain, p) = {}
    ELSE \E k : SleepingFor(chain, p) = {k}

\* It is what TypeOK says of it.
LEMMA EnteredIs ==
    ASSUME NEW chain \in Seq(Entry), NEW pcs, NEW p
    PROVE  Entered(chain, pcs, p) <=>
              Cardinality(SleepingFor(chain, p)) = IF pcs[p] = "user" THEN 0 ELSE 1
<1> DEFINE S == SleepingFor(chain, p)
<1>1. IsFiniteSet(S)
  <2>1. S \subseteq 1 .. Len(chain) /\ Len(chain) \in Nat
    BY DEF SleepingFor
  <2>2. IsFiniteSet(1 .. Len(chain))
    BY <2>1, FS_Interval
  <2>3. QED
    BY <2>1, <2>2, FS_Subset
<1> HIDE DEF S
<1>2. Cardinality(S) = 0 <=> S = {}
  BY <1>1, FS_EmptySet
<1>3. Cardinality(S) = 1 <=> \E k : S = {k}
  <2>1. (\E k : S = {k}) => Cardinality(S) = 1
    BY FS_Singleton
  <2>2. Cardinality(S) = 1 => \E k : S = {k}
    BY <1>1, FS_Singleton
  <2>3. QED
    BY <2>1, <2>2
<1>4. QED
  BY <1>2, <1>3 DEF Entered, S

\* Entries are taken off the chain.
TakenOff(chain, gone, v) ==
    /\ v \in Seq(Entry)
    /\ Len(v) = Len(chain) - Cardinality(gone)
    /\ \A j \in 1 .. Len(v) : \E k \in 1 .. Len(chain) : k \notin gone /\ v[j] = chain[k]
    /\ \A p : SleepingFor(chain, p) \subseteq gone => SleepingFor(v, p) = {}
    /\ \A p, k : SleepingFor(chain, p) = {k} /\ k \notin gone =>
                    \E j : SleepingFor(v, p) = {j}

\* Entries are taken off the chain,
LEMMA ChainWithout ==
    ASSUME NEW chain \in Seq(Entry), NEW gone \in SUBSET (DOMAIN chain),
           NEW v, v = Without(chain, gone)
    PROVE  TakenOff(chain, gone, v)
<1> DEFINE n == Len(chain)
<1>1. n \in Nat /\ DOMAIN chain = 1 .. n
  OBVIOUS
<1>2. v \in Seq(Entry) /\ Left(chain, gone, n, v)
  BY WithoutIs
<1>3. DOMAIN v = 1 .. Len(v)
  BY <1>2
<1> HIDE DEF n
<1>4. gone \cap (1 .. n) = gone
  BY <1>1
<1>5. Len(v) = n - Cardinality(gone)
  BY <1>2, <1>4, Zenon DEF Left
<1>6. PICK f \in [1 .. Len(v) -> 1 .. n] :
          /\ \A j \in 1 .. Len(v) : f[j] \notin gone /\ v[j] = chain[f[j]]
          /\ \A j, k \in 1 .. Len(v) : j < k => f[j] < f[k]
          /\ \A m \in 1 .. n : m \notin gone => \E j \in 1 .. Len(v) : f[j] = m
  BY <1>2 DEF Left
<1>7. \A j \in 1 .. Len(v) : f[j] \in 1 .. n
  BY <1>6
<1>8. ASSUME NEW p, SleepingFor(chain, p) \subseteq gone PROVE SleepingFor(v, p) = {}
  BY <1>1, <1>3, <1>6, <1>7, <1>8 DEF SleepingFor
<1>9. ASSUME NEW p, NEW k, SleepingFor(chain, p) = {k}, k \notin gone
      PROVE  \E j : SleepingFor(v, p) = {j}
  <2>1. k \in 1 .. n /\ chain[k].set.own = p
    BY <1>1, <1>9 DEF SleepingFor
  <2>2. PICK j \in 1 .. Len(v) : f[j] = k
    BY <1>6, <1>9, <2>1
  <2>3. j \in SleepingFor(v, p)
    BY <1>3, <1>6, <2>1, <2>2 DEF SleepingFor
  <2>4. ASSUME NEW m \in SleepingFor(v, p) PROVE m = j
    <3>1. m \in 1 .. Len(v) /\ f[m] \in SleepingFor(chain, p)
      BY <1>1, <1>3, <1>6, <1>7, <2>4 DEF SleepingFor
    <3>2. f[m] = f[j]
      BY <1>9, <2>2, <3>1
    <3>3. ~(m < j) /\ ~(j < m)
      BY <1>6, <1>7, <3>1, <3>2
    <3>4. QED
      BY <3>1, <3>3
  <2>5. SleepingFor(v, p) = {j}
    BY <2>3, <2>4
  <2>6. QED
    BY <2>5
<1>10. \A j \in 1 .. Len(v) : \E k \in 1 .. n : k \notin gone /\ v[j] = chain[k]
  BY <1>6, <1>7
<1>11. QED
  BY <1>2, <1>5, <1>8, <1>9, <1>10 DEF n, TakenOff

\* e is put in front of the chain.
PutOn(chain, e, v) ==
    /\ v \in Seq(Entry)
    /\ Len(v) = Len(chain) + 1
    /\ v[1] = e /\ \A j \in 2 .. Len(v) : j - 1 \in 1 .. Len(chain) /\ v[j] = chain[j - 1]
    /\ SleepingFor(chain, e.set.own) = {} => SleepingFor(v, e.set.own) = {1}
    /\ \A p : p # e.set.own /\ SleepingFor(chain, p) = {} => SleepingFor(v, p) = {}
    /\ \A p, k : p # e.set.own /\ SleepingFor(chain, p) = {k} =>
                    SleepingFor(v, p) = {k + 1}

\* or one is put on.
LEMMA ChainPut ==
    ASSUME NEW chain \in Seq(Entry), NEW e \in Entry, NEW v, v = <<e>> \o chain
    PROVE  PutOn(chain, e, v)
<1>1. Len(chain) \in Nat /\ DOMAIN chain = 1 .. Len(chain)
  OBVIOUS
<1>2. <<e>> \in Seq(Entry) /\ Len(<<e>>) = 1 /\ <<e>>[1] = e
  OBVIOUS
<1>3. v \in Seq(Entry) /\ Len(v) = Len(<<e>>) + Len(chain)
  BY <1>2, JoinedIs
<1>4. Len(v) = Len(chain) + 1 /\ DOMAIN v = 1 .. Len(v)
  BY <1>1, <1>2, <1>3
<1>5. v[1] = e
  <2>1. \A j \in 1 .. Len(<<e>>) : v[j] = <<e>>[j]
    BY <1>2, JoinedIs
  <2>2. QED
    BY <2>1, <1>2
<1>6. \A j \in 1 .. Len(chain) : v[1 + j] = chain[j]
  <2>1. \A j \in 1 .. Len(chain) : v[Len(<<e>>) + j] = chain[j]
    BY <1>2, JoinedIs
  <2>2. QED
    BY <2>1, <1>2
<1>7. ASSUME NEW j \in 2 .. Len(v) PROVE j - 1 \in 1 .. Len(chain) /\ v[j] = chain[j - 1]
  <2>1. j - 1 \in 1 .. Len(chain) /\ 1 + (j - 1) = j
    BY <1>1, <1>4
  <2>2. QED
    BY <2>1, <1>6
<1>8. ASSUME NEW p, NEW j
      PROVE  j \in SleepingFor(v, p) <=> \/ j = 1 /\ e.set.own = p
                                         \/ j \in 2 .. Len(v) /\ j - 1 \in SleepingFor(chain, p)
  BY <1>1, <1>4, <1>5, <1>7 DEF SleepingFor
<1>9. SleepingFor(chain, e.set.own) = {} => SleepingFor(v, e.set.own) = {1}
  BY <1>8
<1>10. \A p : p # e.set.own /\ SleepingFor(chain, p) = {} => SleepingFor(v, p) = {}
  BY <1>8
<1>11. ASSUME NEW p, NEW k, p # e.set.own, SleepingFor(chain, p) = {k}
       PROVE  SleepingFor(v, p) = {k + 1}
  <2>1. k \in 1 .. Len(chain)
    BY <1>1, <1>11 DEF SleepingFor
  <2>2. k + 1 \in 2 .. Len(v) /\ (k + 1) - 1 = k
    BY <1>1, <1>4, <2>1
  <2>3. k + 1 \in SleepingFor(v, p)
    BY <1>8, <1>11, <2>2
  <2>4. ASSUME NEW j \in SleepingFor(v, p) PROVE j = k + 1
    <3>1. j \in 2 .. Len(v) /\ j - 1 \in SleepingFor(chain, p)
      BY <1>8, <1>11
    <3>2. j - 1 = k
      BY <1>11, <3>1
    <3>3. QED
      BY <1>4, <2>1, <3>1, <3>2
  <2>5. QED
    BY <2>3, <2>4
<1>12. QED
  BY <1>3, <1>4, <1>5, <1>7, <1>9, <1>10, <1>11 DEF PutOn

(***************************************************************************)
(* The inductive invariant, of a list L, a chain, the count of records,    *)
(* where the owners are, and their calls.                                  *)
(***************************************************************************)
Stages == {"user", "SSLEEP", "woken", "signalled"}

\* No set of sleepers holds all the locks they sleep on.
Free(L, pcs) ==
    \A S \in SUBSET {p \in Local : pcs[p] = "SSLEEP"} :
        S # {} => \E p \in S : \E i \in 1 .. Len(L) : p \in L[i].slp /\ L[i].set.own \notin S

GoodList(L) ==
    /\ L \in Seq(Lock) /\ Sound(L) /\ Sleeps(L)
    /\ \A j \in 1 .. Len(L) : L[j].set.type \in Types

\* Who is inside a call has a request that can be kept on a list.
GoodCalls(pcs, cs) ==
    /\ pcs \in [Local -> Stages]
    /\ cs \in [Owners -> Call \cup {NULL}]
    /\ \A p \in Local : pcs[p] # "user" =>
          cs[p] \in Call /\ cs[p].set.own = p /\ cs[p].set.type \in Types

\* Sleepers are on a lock that is in their way, and their entry names its owner.
GoodSleep(L, chain, pcs, cs) ==
    /\ \A i \in 1 .. Len(L) : \A p \in L[i].slp :
          /\ pcs[p] = "SSLEEP"
          /\ \A k \in 1 .. Len(chain) : chain[k].set.own = p => chain[k].blk = L[i].set.own
    /\ \A p \in Local : pcs[p] = "SSLEEP" =>
          \E i \in 1 .. Len(L) : p \in L[i].slp /\ Bars(L[i].set, cs[p].set)
    /\ Free(L, pcs)

GoodChain(chain, pcs) ==
    /\ chain \in Seq(Entry)
    /\ \A p \in Local : Entered(chain, pcs, p)

Good(L, chain, cnt, pcs, cs) ==
    /\ GoodList(L)
    /\ GoodChain(chain, pcs)
    /\ cnt = Len(L) + Len(chain) /\ cnt <= t_flckrec
    /\ GoodCalls(pcs, cs)
    /\ GoodSleep(L, chain, pcs, cs)

\* Sleepers who are not woken sleep on.
Awake(pcs, pcs2, woken) ==
    \A p \in Local : pcs2[p] = "SSLEEP" <=> pcs[p] = "SSLEEP" /\ p \notin woken

\* The local owners have no entry they had not before.
Carried(chain, chain2) ==
    \A j \in 1 .. Len(chain2) : chain2[j].set.own \in Local =>
        \E k \in 1 .. Len(chain) : chain2[j] = chain[k]

\* The list changes and sleepers of what changed are woken.
LEMMA SleepStep ==
    ASSUME NEW L, NEW chain, NEW pcs, NEW cs, GoodSleep(L, chain, pcs, cs), L \in Seq(Lock),
           NEW w, NEW V, WSleep(L, w, V), V \in Seq(Lock),
           NEW pcs2, Awake(pcs, pcs2, w.woken),
           NEW chain2, Carried(chain, chain2),
           NEW cs2, \A p \in Local : pcs2[p] = "SSLEEP" => cs2[p] = cs[p]
    PROVE  GoodSleep(V, chain2, pcs2, cs2)
<1>1. \A i \in 1 .. Len(L) : L[i].slp \subseteq w.woken \/ \E j \in 1 .. Len(V) : V[j] = L[i]
  BY DEF WSleep
<1>2. \A j \in 1 .. Len(V) : /\ V[j].slp \cap w.woken = {}
                             /\ V[j].slp # {} => \E i \in 1 .. Len(L) : V[j] = L[i]
  BY DEF WSleep
<1>3. \A j \in 1 .. Len(V) : V[j].slp \subseteq Local
  <2>1. \A j \in 1 .. Len(V) : V[j] \in Lock
    OBVIOUS
  <2>2. QED
    BY <2>1, LockFacts
<1>4. ASSUME NEW j \in 1 .. Len(V), NEW p \in V[j].slp
      PROVE  /\ pcs2[p] = "SSLEEP"
             /\ \A k \in 1 .. Len(chain2) : chain2[k].set.own = p => chain2[k].blk = V[j].set.own
  <2>1. PICK i \in 1 .. Len(L) : V[j] = L[i]
    BY <1>2
  <2>2. p \in L[i].slp /\ p \in Local /\ p \notin w.woken
    BY <1>2, <1>3, <2>1
  <2>3. /\ pcs[p] = "SSLEEP"
        /\ \A k \in 1 .. Len(chain) : chain[k].set.own = p => chain[k].blk = L[i].set.own
    BY <2>2 DEF GoodSleep
  <2>4. QED
    BY <2>1, <2>2, <2>3 DEF Awake, Carried
<1>5. ASSUME NEW p \in Local, pcs2[p] = "SSLEEP"
      PROVE  \E j \in 1 .. Len(V) : p \in V[j].slp /\ Bars(V[j].set, cs2[p].set)
  <2>1. pcs[p] = "SSLEEP" /\ p \notin w.woken /\ cs2[p] = cs[p]
    BY <1>5 DEF Awake
  <2>2. PICK i \in 1 .. Len(L) : p \in L[i].slp /\ Bars(L[i].set, cs[p].set)
    BY <2>1 DEF GoodSleep
  <2>3. PICK j \in 1 .. Len(V) : V[j] = L[i]
    BY <1>1, <2>1, <2>2
  <2>4. QED
    BY <2>1, <2>2, <2>3
<1>6. ASSUME NEW S \in SUBSET {p \in Local : pcs2[p] = "SSLEEP"}, S # {}
      PROVE  \E p \in S : \E j \in 1 .. Len(V) : p \in V[j].slp /\ V[j].set.own \notin S
  <2>1. S \in SUBSET {p \in Local : pcs[p] = "SSLEEP"}
    BY DEF Awake
  <2>2. PICK p \in S, i \in 1 .. Len(L) : p \in L[i].slp /\ L[i].set.own \notin S
    BY <1>6, <2>1 DEF GoodSleep, Free
  <2>3. p \notin w.woken
    BY DEF Awake
  <2>4. PICK j \in 1 .. Len(V) : V[j] = L[i]
    BY <1>1, <2>2, <2>3
  <2>5. QED
    BY <2>2, <2>4
<1>7. QED
  BY <1>4, <1>5, <1>6 DEF GoodSleep, Free

\* The list as it is, with nobody woken.
LEMMA NobodyWoken ==
    ASSUME NEW L, Sleeps(L)
    PROVE  WSleep(L, [woken |-> {}], L)
<1> DEFINE w == [woken |-> {}]
<1>1. w.woken = {}
  OBVIOUS
<1> HIDE DEF w
<1>2. WSleep(L, w, L)
  BY <1>1 DEF WSleep
<1>3. QED
  BY <1>2 DEF w

(***************************************************************************)
(* Locks are taken out of the list.                                        *)
(***************************************************************************)
\* What is left of a sound list is sound, and the sleepers on the rest are woken.
LEMMA ListWithout ==
    ASSUME NEW L, GoodList(L), NEW gone \in SUBSET (DOMAIN L), NEW V, V = Without(L, gone),
           NEW w, w = [woken |-> UNION {WAKEUP(L[i]) : i \in gone}]
    PROVE  /\ GoodList(V) /\ WSleep(L, w, V)
           /\ Len(V) = Len(L) - Cardinality(gone)
<1> DEFINE n == Len(L)
<1>1. L \in Seq(Lock) /\ n \in Nat /\ DOMAIN L = 1 .. n /\ Sound(L) /\ Sleeps(L)
      /\ \A j \in 1 .. n : L[j].set.type \in Types
  BY DEF GoodList
<1>2. V \in Seq(Lock) /\ Left(L, gone, n, V)
  BY <1>1, WithoutIs
<1>3. DOMAIN V = 1 .. Len(V)
  BY <1>2
<1>4. \A i \in 1 .. n : WAKEUP(L[i]) = L[i].slp
  BY <1>1, WakesAll
<1>5. \A p : p \in w.woken <=> \E i \in gone : p \in L[i].slp
  <2>1. w.woken = UNION {WAKEUP(L[i]) : i \in gone}
    OBVIOUS
  <2>2. \A i \in gone : WAKEUP(L[i]) = L[i].slp
    BY <1>1, <1>4
  <2>3. QED
    BY <2>1, <2>2
<1> HIDE DEF n
<1>6. gone \cap (1 .. n) = gone
  BY <1>1
<1>7. Len(V) = n - Cardinality(gone)
  BY <1>2, <1>6, Zenon DEF Left
<1>8. PICK f \in [1 .. Len(V) -> 1 .. n] :
          /\ \A j \in 1 .. Len(V) : f[j] \notin gone /\ V[j] = L[f[j]]
          /\ \A j, k \in 1 .. Len(V) : j < k => f[j] < f[k]
          /\ \A m \in 1 .. n : m \notin gone => \E j \in 1 .. Len(V) : f[j] = m
  BY <1>2 DEF Left
<1>9. \A j \in 1 .. Len(V) : f[j] \in 1 .. n /\ f[j] \in Nat
  BY <1>8
<1>10. Sound(V)
  <2>1. ASSUME NEW i \in DOMAIN V, NEW j \in DOMAIN V, i < j
        PROVE  V[i].set.start <= V[j].set.start /\ Apart(V[i].set, V[j].set)
    <3>1. i \in 1 .. Len(V) /\ j \in 1 .. Len(V)
      BY <1>3
    <3>2. f[i] \in DOMAIN L /\ f[j] \in DOMAIN L /\ f[i] < f[j] /\ V[i] = L[f[i]] /\ V[j] = L[f[j]]
      BY <1>1, <1>8, <1>9, <2>1, <3>1
    <3>3. QED
      BY <1>1, <3>2 DEF Sound
  <2>2. QED
    BY <2>1 DEF Sound
<1>11. \A i, j \in 1 .. Len(V) : i # j => f[i] # f[j]
  <2>1. ASSUME NEW i \in 1 .. Len(V), NEW j \in 1 .. Len(V), i # j PROVE f[i] # f[j]
    <3>1. i < j \/ j < i
      BY <1>2, <2>1
    <3>2. f[i] < f[j] \/ f[j] < f[i]
      BY <1>8, <3>1
    <3>3. QED
      BY <1>9, <3>2
  <2>2. QED
    BY <2>1
<1>12. Sleeps(V)
  <2>1. \A i \in 1 .. Len(V) : V[i].slp # {} => V[i].wakeflg
    BY <1>1, <1>8, <1>9 DEF Sleeps, n
  <2>2. \A i, j \in 1 .. Len(V) : i # j => V[i].slp \cap V[j].slp = {}
    BY <1>1, <1>8, <1>9, <1>11 DEF Sleeps, n
  <2>3. QED
    BY <2>1, <2>2 DEF Sleeps
<1>13. GoodList(V)
  BY <1>1, <1>2, <1>8, <1>9, <1>10, <1>12 DEF GoodList
<1>14. WSleep(L, w, V)
  <2>1. ASSUME NEW i \in 1 .. n PROVE L[i].slp \subseteq w.woken \/ \E j \in 1 .. Len(V) : V[j] = L[i]
    <3>1. CASE i \in gone
      BY <1>5, <3>1
    <3>2. CASE i \notin gone
      BY <1>8, <3>2
    <3>3. QED
      BY <3>1, <3>2
  <2>2. ASSUME NEW j \in 1 .. Len(V)
        PROVE  /\ V[j].slp \cap w.woken = {}
               /\ \E i \in 1 .. n : V[j] = L[i]
    <3>1. f[j] \in 1 .. n /\ f[j] \notin gone /\ V[j] = L[f[j]]
      BY <1>8, <1>9
    <3>2. \A i \in gone : L[i].slp \cap L[f[j]].slp = {}
      BY <1>1, <3>1 DEF Sleeps, n
    <3>3. QED
      BY <1>5, <3>1, <3>2
  <2>3. \A p \in w.woken : \E i \in 1 .. n : p \in L[i].slp
    BY <1>1, <1>5
  <2>4. QED
    BY <1>12, <2>1, <2>2, <2>3 DEF WSleep, n
<1>15. QED
  BY <1>7, <1>13, <1>14 DEF n

(***************************************************************************)
(* deadflck(): the owners it comes to, and why it finds every cycle.       *)
(***************************************************************************)
\* There are finitely many owners.
LEMMA CountOwners ==
    /\ IsFiniteSet(Owners) /\ Cardinality(Owners) \in Nat
<1>1. IsFiniteSet(Owners)
  BY OwnersFinite, FS_Union DEF Owners
<1>2. QED
  BY <1>1, FS_CardinalityType

\* The recursive function at is as its defining equation says.
LEMMA ChainIs ==
    ASSUME NEW chain, NEW b
    PROVE  LET at == ChainFrom(chain, b)
               N == Cardinality(Owners)
           IN  /\ at[0] = b
               /\ \A n \in 1 .. N : at[n] = IF at[n - 1] = NULL THEN NULL
                                            ELSE BlockerOf(chain, at[n - 1])
<1> DEFINE step(x) == IF x = NULL THEN NULL ELSE BlockerOf(chain, x)
           body(f, i) == IF i = 0 THEN b ELSE step(f[i - 1])
           N == Cardinality(Owners)
           S == {n \in Nat : \E f : f = [i \in 0 .. n |-> body(f, i)]}
<1>0. N \in Nat
  BY CountOwners
<1> HIDE DEF step, N
<1>1. 0 \in S
  <2> DEFINE f == [i \in 0 .. 0 |-> b]
  <2>1. f = [i \in 0 .. 0 |-> body(f, i)]
    OBVIOUS
  <2>2. QED
    BY <2>1
<1>2. ASSUME NEW n \in 1 .. N, n - 1 \in S PROVE n \in S
  <2>1. PICK f : f = [i \in 0 .. n - 1 |-> body(f, i)]
    BY <1>2
  <2> DEFINE h == [i \in 0 .. n |-> IF i = n THEN step(f[n - 1]) ELSE f[i]]
  <2>2. ASSUME NEW i \in 0 .. n PROVE h[i] = body(h, i)
    <3>1. CASE i = n
      <4>1. h[n - 1] = f[n - 1] /\ n # 0
        BY <1>0
      <4>2. h[n] = step(f[n - 1])
        BY <1>0
      <4> HIDE DEF h
      <4>3. QED
        BY <4>1, <4>2, <3>1
    <3>2. CASE i # n
      <4>1. i \in 0 .. n - 1
        BY <3>2, <1>0
      <4>2. f[i] = body(f, i)
        BY <2>1, <4>1
      <4>3. h[i] = f[i] /\ (i # 0 => h[i - 1] = f[i - 1])
        BY <4>1, <1>0
      <4> HIDE DEF h
      <4>4. QED
        BY <4>2, <4>3
    <3>3. QED
      BY <3>1, <3>2
  <2>3. h = [i \in 0 .. n |-> body(h, i)]
    <3>1. h = [i \in 0 .. n |-> h[i]]
      OBVIOUS
    <3> HIDE DEF h, body
    <3>2. QED
      BY <3>1, <2>2
  <2> HIDE DEF h
  <2>4. QED
    BY <2>3, <1>0
<1>3. N \in S
  <2>1. \A n \in 1 .. N : n - 1 \in S => n \in S
    BY <1>2
  <2> HIDE DEF S
  <2>2. \A n \in 0 .. N : n \in S
    BY <1>0, <1>1, <2>1, Induction
  <2>3. QED
    BY <2>2, <1>0
<1>4. \E f : f = [i \in 0 .. N |-> body(f, i)]
  BY <1>3
<1>5. ChainFrom(chain, b) = CHOOSE f : f = [i \in 0 .. N |-> body(f, i)]
  BY Zenon DEF ChainFrom, step, N
<1>6. ChainFrom(chain, b) = [i \in 0 .. N |-> body(ChainFrom(chain, b), i)]
  <2> HIDE DEF body
  <2>1. QED
    BY <1>4, <1>5
<1> DEFINE at == ChainFrom(chain, b)
<1>7. at[0] = b
  <2>1. 0 \in 0 .. N
    BY <1>0
  <2>2. at[0] = body(at, 0)
    BY <1>6, <2>1, Zenon
  <2>3. QED
    BY <2>2
<1>8. ASSUME NEW n \in 1 .. N PROVE at[n] = step(at[n - 1])
  <2>1. n \in 0 .. N /\ n # 0
    BY <1>0
  <2>2. at[n] = body(at, n)
    BY <1>6, <2>1, Zenon
  <2>3. QED
    BY <2>1, <2>2
<1>9. QED
  BY <1>7, <1>8, Zenon DEF step, N

\* The one entry of an owner names whom it waits for.
LEMMA BlockerIs ==
    ASSUME NEW chain \in Seq(Entry), NEW q, NEW k, SleepingFor(chain, q) = {k}
    PROVE  /\ k \in 1 .. Len(chain) /\ chain[k].set.own = q
           /\ BlockerOf(chain, q) = chain[k].blk
<1>1. DOMAIN chain = 1 .. Len(chain)
  OBVIOUS
<1>2. k \in 1 .. Len(chain) /\ chain[k].set.own = q
  BY <1>1 DEF SleepingFor
<1>3. Least({k}) = k
  BY DEF Least
<1>4. QED
  BY <1>2, <1>3 DEF BlockerOf

\* S is a set of sleepers, and of p and the one in its way, that holds all the
\* locks its sleepers lie on.
Ring(L, pcs, S, p, by) ==
    /\ p \in S /\ by \in S /\ S \subseteq Local
    /\ \A q \in S \ {p} : pcs[q] = "SSLEEP"
    /\ \A q \in S \ {p} : \A i \in 1 .. Len(L) : q \in L[i].slp => L[i].set.own \in S

\* Nobody in a set of sleepers that holds all the locks they sleep on could
\* have gone to sleep last: deadflck() would have come back to it.
LEMMA NoCycle ==
    ASSUME NEW L \in Seq(Lock), NEW chain, NEW pcs, NEW cs,
           GoodSleep(L, chain, pcs, cs), GoodChain(chain, pcs),
           NEW p, NEW by, ~deadflck(chain, by, p),
           NEW S, Ring(L, pcs, S, p, by)
    PROVE  FALSE
<1>0. /\ p \in S /\ by \in S /\ S \subseteq Local
      /\ \A q \in S \ {p} : pcs[q] = "SSLEEP"
      /\ \A q \in S \ {p} : \A i \in 1 .. Len(L) : q \in L[i].slp => L[i].set.own \in S
  BY DEF Ring
<1> DEFINE N == Cardinality(Owners)
           at == ChainFrom(chain, by)
           In == {n \in Nat : at[n] \in S}
<1>1. N \in Nat /\ IsFiniteSet(Owners)
  BY CountOwners
<1>2. at[0] = by /\ \A n \in 1 .. N : at[n] = IF at[n - 1] = NULL THEN NULL
                                              ELSE BlockerOf(chain, at[n - 1])
  BY ChainIs
<1>3. \A n \in 0 .. N : at[n] # p
  BY DEF deadflck
<1> HIDE DEF at, N
\* From a member of S the chain leads to the owner of the lock it sleeps on.
<1>4. ASSUME NEW n \in 0 .. N, n + 1 \in 0 .. N, at[n] \in S
      PROVE  /\ at[n] \in Local /\ pcs[at[n]] = "SSLEEP"
             /\ \A i \in 1 .. Len(L) : at[n] \in L[i].slp => L[i].set.own = at[n + 1]
             /\ at[n + 1] \in S
  <2> DEFINE q == at[n]
  <2>1. q \in S \ {p} /\ q \in Local /\ pcs[q] = "SSLEEP"
    BY <1>0, <1>3, <1>4
  <2>2. q # NULL
    BY <2>1, NullFacts DEF Owners
  <2>3. n + 1 \in 1 .. N /\ (n + 1) - 1 = n
    BY <1>1, <1>4
  <2>4. at[n + 1] = BlockerOf(chain, q)
    BY <1>2, <2>2, <2>3
  <2> HIDE DEF q
  <2>5. chain \in Seq(Entry)
    BY DEF GoodChain
  <2>6. PICK k : SleepingFor(chain, q) = {k}
    BY <2>1 DEF GoodChain, Entered
  <2>7. k \in 1 .. Len(chain) /\ chain[k].set.own = q /\ BlockerOf(chain, q) = chain[k].blk
    BY <2>5, <2>6, BlockerIs
  <2>8. \A i \in 1 .. Len(L) : q \in L[i].slp => L[i].set.own = at[n + 1]
    BY <2>4, <2>7 DEF GoodSleep
  <2>9. \E i \in 1 .. Len(L) : q \in L[i].slp
    BY <2>1 DEF GoodSleep
  <2>10. at[n + 1] \in S
    BY <1>0, <2>1, <2>8, <2>9
  <2>11. QED
    BY <2>1, <2>8, <2>10 DEF q
<1>5. \A n \in 0 .. N : at[n] \in S
  <2>1. 0 \in In
    BY <1>0, <1>2
  <2>2. ASSUME NEW n \in 1 .. N, n - 1 \in In PROVE n \in In
    <3>1. n - 1 \in 0 .. N /\ (n - 1) + 1 = n /\ n \in 0 .. N /\ n \in Nat
      BY <1>1
    <3>2. at[(n - 1) + 1] \in S
      BY <1>4, <2>2, <3>1
    <3>3. QED
      BY <3>1, <3>2
  <2> HIDE DEF In
  <2>3. \A n \in 0 .. N : n \in In
    BY <1>1, <2>1, <2>2, Induction
  <2>4. QED
    BY <2>3 DEF In
<1>6. PICK x \in 0 .. N, y \in 0 .. N : x < y /\ at[x] = at[y]
  <2> DEFINE g == [n \in 0 .. N |-> at[n]]
  <2>1. g \in [0 .. N -> Owners]
    BY <1>0, <1>5 DEF Owners
  <2>2. IsFiniteSet(0 .. N) /\ Cardinality(0 .. N) = N + 1
    BY <1>1, FS_Interval
  <2>3. Cardinality(Owners) < Cardinality(0 .. N)
    <3>1. N < N + 1
      BY <1>1
    <3>2. QED
      BY <2>2, <3>1 DEF N
  <2> HIDE DEF g
  <2>4. \E x, y \in 0 .. N : x # y /\ g[x] = g[y]
    BY <1>1, <2>1, <2>2, <2>3, FS_PigeonHole
  <2>5. PICK x \in 0 .. N, y \in 0 .. N : x # y /\ g[x] = g[y]
    BY <2>4
  <2>6. at[x] = at[y]
    BY <2>5 DEF g
  <2>7. x < y \/ y < x
    BY <1>1, <2>5
  <2>8. QED
    BY <2>6, <2>7
<1>7. DEFINE R == {at[n] : n \in x .. y - 1}
<1>8. x .. y - 1 \subseteq 0 .. N /\ x \in x .. y - 1
  BY <1>1, <1>6
<1>9. \A n \in x .. y - 1 : n + 1 \in 0 .. N /\ (n + 1 \in x .. y - 1 \/ n + 1 = y)
  BY <1>1, <1>6
<1>10. R \in SUBSET {q \in Local : pcs[q] = "SSLEEP"} /\ R # {}
  <2>1. ASSUME NEW n \in x .. y - 1 PROVE at[n] \in Local /\ pcs[at[n]] = "SSLEEP"
    BY <1>4, <1>5, <1>8, <1>9
  <2>2. QED
    BY <1>8, <2>1
<1>11. PICK q \in R, i \in 1 .. Len(L) : q \in L[i].slp /\ L[i].set.own \notin R
  <2> HIDE DEF R
  <2>1. QED
    BY <1>10 DEF GoodSleep, Free
<1>12. PICK n \in x .. y - 1 : q = at[n]
  BY <1>11
<1>13. L[i].set.own = at[n + 1]
  BY <1>4, <1>5, <1>8, <1>9, <1>11, <1>12
<1>14. at[n + 1] \in R
  <2>1. CASE n + 1 \in x .. y - 1
    BY <2>1
  <2>2. CASE n + 1 = y
    BY <1>6, <1>8, <2>2
  <2>3. QED
    BY <1>9, <2>1, <2>2
<1>15. QED
  BY <1>11, <1>13, <1>14

(***************************************************************************)
(* A process goes to sleep.                                                *)
(***************************************************************************)
\* The lock a process goes to sleep on.
LEMMA QueuedIs ==
    ASSUME NEW l \in Lock, NEW p \in Local
    PROVE  LET q == Queued(l, p)
           IN  q \in Lock /\ q.set = l.set /\ q.wakeflg = TRUE /\ q.slp = l.slp \cup {p}
<1> DEFINE d == [l EXCEPT !.wakeflg = TRUE]
           S == l.slp \cup {p}
           q == [d EXCEPT !.slp = S]
<1>1. S \in SUBSET Local
  BY LockFacts
<1>2. d \in Lock /\ d.set = l.set /\ d.wakeflg = TRUE
  BY DEF Lock
<1>3. Queued(l, p) = q
  BY Zenon DEF Queued, Lock
<1> HIDE DEF d, S
<1>4. q \in Lock /\ q.set = d.set /\ q.wakeflg = d.wakeflg /\ q.slp = S
  BY <1>1, <1>2 DEF Lock
<1> HIDE DEF q
<1>5. QED
  BY <1>2, <1>3, <1>4 DEF S

\* A request that a lock bars goes to sleep on it: deadflck() has found no cycle,
\* so none is closed.
LEMMA AsleepStep ==
    ASSUME NEW L, NEW chain, NEW cnt, NEW pcs, NEW cs, Good(L, chain, cnt, pcs, cs),
           NEW p \in Local, pcs[p] = "user",
           NEW r \in Call, r.set.own = p, r.set.type \in Types,
           NEW found \in 1 .. Len(L), Bars(L[found].set, r.set),
           NEW by, by = L[found].set.own, ~deadflck(chain, by, p), cnt < t_flckrec,
           NEW V, V = [L EXCEPT ![found] = Queued(L[found], p)],
           NEW chain2, chain2 = <<[set |-> r.set, blk |-> by]>> \o chain,
           NEW pcs2, pcs2 = [pcs EXCEPT ![p] = "SSLEEP"],
           NEW cs2, cs2 = [cs EXCEPT ![p] = r]
    PROVE  Good(V, chain2, cnt + 1, pcs2, cs2)
<1> DEFINE q == Queued(L[found], p)
           e == [set |-> r.set, blk |-> by]
<1>1. /\ GoodList(L) /\ GoodChain(chain, pcs) /\ cnt = Len(L) + Len(chain) /\ cnt <= t_flckrec
      /\ GoodCalls(pcs, cs) /\ GoodSleep(L, chain, pcs, cs)
  BY DEF Good
<1>2. /\ L \in Seq(Lock) /\ Len(L) \in Nat /\ DOMAIN L = 1 .. Len(L) /\ Sound(L) /\ Sleeps(L)
      /\ \A j \in 1 .. Len(L) : L[j].set.type \in Types /\ L[j] \in Lock
  BY <1>1 DEF GoodList
<1>3. /\ q \in Lock /\ q.set = L[found].set /\ q.wakeflg = TRUE
      /\ q.slp = L[found].slp \cup {p}
  BY <1>2, QueuedIs
<1> HIDE DEF q
<1>4. V = [L EXCEPT ![found] = q]
  BY DEF q
<1>5. /\ V \in Seq(Lock) /\ Len(V) = Len(L) /\ DOMAIN V = 1 .. Len(L) /\ V[found] = q
      /\ \A j \in 1 .. Len(L) : j # found => V[j] = L[j]
  BY <1>2, <1>3, <1>4
<1>6. \A j \in 1 .. Len(L) : V[j].set = L[j].set
  BY <1>3, <1>5
<1>7. \A j \in 1 .. Len(L) : p \notin L[j].slp
  BY <1>1 DEF GoodSleep
<1>8. \A j \in 1 .. Len(L) : V[j].slp = L[j].slp \cup (IF j = found THEN {p} ELSE {})
  BY <1>3, <1>5
<1>9. GoodList(V)
  <2>1. Sound(V)
    BY <1>2, <1>5, <1>6 DEF Sound
  <2>2. \A i \in 1 .. Len(V) : V[i].slp # {} => V[i].wakeflg
    BY <1>2, <1>3, <1>5 DEF Sleeps
  <2>3. \A i, j \in 1 .. Len(V) : i # j => V[i].slp \cap V[j].slp = {}
    BY <1>2, <1>5, <1>7, <1>8 DEF Sleeps
  <2>4. Sleeps(V)
    BY <2>2, <2>3 DEF Sleeps
  <2>5. QED
    BY <1>2, <1>5, <1>6, <2>1, <2>4 DEF GoodList
<1>10. r.set \in Flock
  BY DEF Call
<1>11. by \in Owners
  <2>1. L[found].set \in Flock
    BY <1>2, LockFacts
  <2>2. QED
    BY <2>1 DEF Flock
<1>12. e \in Entry /\ e.set = r.set /\ e.blk = by
  BY <1>10, <1>11 DEF Entry
<1>13. chain \in Seq(Entry) /\ \A x \in Local : Entered(chain, pcs, x)
  BY <1>1 DEF GoodChain
<1> HIDE DEF e
<1>14. chain2 = <<e>> \o chain
  BY DEF e
<1>15. PutOn(chain, e, chain2)
  <2>1. chain \in Seq(Entry) /\ e \in Entry
    BY <1>12, <1>13
  <2>2. QED
    BY <1>14, <2>1, ChainPut
<1>16. /\ chain2 \in Seq(Entry)
       /\ Len(chain2) = Len(chain) + 1
       /\ chain2[1] = e
       /\ \A j \in 2 .. Len(chain2) : j - 1 \in 1 .. Len(chain) /\ chain2[j] = chain[j - 1]
       /\ SleepingFor(chain, e.set.own) = {} => SleepingFor(chain2, e.set.own) = {1}
       /\ \A x : x # e.set.own /\ SleepingFor(chain, x) = {} => SleepingFor(chain2, x) = {}
       /\ \A x, k : x # e.set.own /\ SleepingFor(chain, x) = {k} =>
                           SleepingFor(chain2, x) = {k + 1}
  BY <1>15 DEF PutOn
<1>17. /\ pcs2 \in [Local -> Stages] /\ pcs2[p] = "SSLEEP"
       /\ \A x \in Local : x # p => pcs2[x] = pcs[x]
  BY <1>1 DEF GoodCalls, Stages
<1>18. GoodChain(chain2, pcs2)
  <2>1. ASSUME NEW x \in Local PROVE Entered(chain2, pcs2, x)
    <3>1. Entered(chain, pcs, x)
      BY <1>13
    <3>2. CASE x = p
      BY <1>12, <1>16, <1>17, <3>1, <3>2 DEF Entered
    <3>3. CASE x # p
      <4>1. pcs2[x] = pcs[x] /\ x # e.set.own
        BY <1>12, <1>17, <3>3
      <4>2. CASE pcs[x] = "user"
        BY <1>16, <3>1, <4>1, <4>2 DEF Entered
      <4>3. CASE pcs[x] # "user"
        <5>1. PICK k : SleepingFor(chain, x) = {k}
          BY <3>1, <4>3 DEF Entered
        <5>2. SleepingFor(chain2, x) = {k + 1}
          BY <1>16, <4>1, <5>1
        <5>3. QED
          BY <4>1, <4>3, <5>2 DEF Entered
      <4>4. QED
        BY <4>2, <4>3
    <3>4. QED
      BY <3>2, <3>3
  <2>2. QED
    BY <1>16, <2>1 DEF GoodChain
<1>19. p \in Owners
  BY DEF Owners
<1>20. cs2 \in [Owners -> Call \cup {NULL}] /\ cs2[p] = r /\ \A x \in Local : x # p => cs2[x] = cs[x]
  BY <1>1, <1>19 DEF GoodCalls, Owners
<1>21. GoodCalls(pcs2, cs2)
  BY <1>1, <1>17, <1>20 DEF GoodCalls
<1>22. Len(chain) \in Nat /\ cnt + 1 = Len(V) + Len(chain2) /\ cnt + 1 <= t_flckrec
  BY <1>1, <1>2, <1>5, <1>13, <1>16, LimitsNatural
<1>23. \A j \in 1 .. Len(chain2) : chain2[j] = e \/ \E k \in 1 .. Len(chain) : chain2[j] = chain[k]
  <2>1. ASSUME NEW j \in 1 .. Len(chain2)
        PROVE  chain2[j] = e \/ \E k \in 1 .. Len(chain) : chain2[j] = chain[k]
    <3>1. j = 1 \/ j \in 2 .. Len(chain2)
      BY <1>16
    <3>2. QED
      BY <1>16, <3>1
  <2>2. QED
    BY <2>1
<1>24. \A k \in 1 .. Len(chain) : chain[k].set.own # p
  BY <1>13 DEF Entered, SleepingFor
<1>25. ASSUME NEW i \in 1 .. Len(V), NEW x \in V[i].slp
       PROVE  /\ pcs2[x] = "SSLEEP"
              /\ \A k \in 1 .. Len(chain2) : chain2[k].set.own = x => chain2[k].blk = V[i].set.own
  <2>1. CASE x = p
    <3>1. i = found
      BY <1>5, <1>7, <1>8, <2>1
    <3>2. QED
      BY <1>5, <1>6, <1>12, <1>17, <1>23, <1>24, <2>1, <3>1
  <2>2. CASE x # p
    <3>1. x \in L[i].slp /\ x \in Local
      <4>1. L[i].slp \subseteq Local
        BY <1>2, <1>5, LockFacts
      <4>2. QED
        BY <1>5, <1>8, <2>2, <4>1
    <3>2. /\ pcs[x] = "SSLEEP"
          /\ \A k \in 1 .. Len(chain) : chain[k].set.own = x => chain[k].blk = L[i].set.own
      BY <1>1, <1>5, <3>1 DEF GoodSleep
    <3>3. QED
      BY <1>5, <1>6, <1>12, <1>17, <1>23, <2>2, <3>1, <3>2
  <2>3. QED
    BY <2>1, <2>2
<1>26. ASSUME NEW x \in Local, pcs2[x] = "SSLEEP"
       PROVE  \E i \in 1 .. Len(V) : x \in V[i].slp /\ Bars(V[i].set, cs2[x].set)
  <2>1. CASE x = p
    BY <1>5, <1>6, <1>8, <1>20, <2>1
  <2>2. CASE x # p
    <3>1. PICK i \in 1 .. Len(L) : x \in L[i].slp /\ Bars(L[i].set, cs[x].set)
      BY <1>1, <1>17, <1>26, <2>2 DEF GoodSleep
    <3>2. QED
      BY <1>5, <1>6, <1>8, <1>20, <2>2, <3>1
  <2>3. QED
    BY <2>1, <2>2
<1>27. ASSUME NEW S \in SUBSET {x \in Local : pcs2[x] = "SSLEEP"}, S # {}
       PROVE  \E x \in S : \E i \in 1 .. Len(V) : x \in V[i].slp /\ V[i].set.own \notin S
  <2> SUFFICES ASSUME \A x \in S : \A i \in 1 .. Len(V) : x \in V[i].slp => V[i].set.own \in S
               PROVE  FALSE
    OBVIOUS
  <2>1. \A x \in S : \A i \in 1 .. Len(L) : x \in L[i].slp => L[i].set.own \in S
    BY <1>5, <1>6, <1>8
  <2>2. S \subseteq Local
    OBVIOUS
  <2>3. \A x \in S \ {p} : pcs[x] = "SSLEEP"
    BY <1>17
  <2>4. CASE p \in S
    <3>1. by \in S
      BY <1>5, <1>6, <1>8, <2>4
    <3>2. \A x \in S \ {p} : \A i \in 1 .. Len(L) : x \in L[i].slp => L[i].set.own \in S
      BY <2>1
    <3>3. Ring(L, pcs, S, p, by)
      BY <2>2, <2>3, <2>4, <3>1, <3>2 DEF Ring
    <3>4. L \in Seq(Lock) /\ GoodSleep(L, chain, pcs, cs) /\ GoodChain(chain, pcs)
      BY <1>1, <1>2
    <3>5. QED
      BY <3>3, <3>4, NoCycle, Zenon
  <2>5. CASE p \notin S
    <3>1. S \in SUBSET {x \in Local : pcs[x] = "SSLEEP"}
      BY <2>2, <2>3, <2>5
    <3>2. QED
      BY <1>1, <1>27, <2>1, <3>1 DEF GoodSleep, Free
  <2>6. QED
    BY <2>4, <2>5
<1>28. GoodSleep(V, chain2, pcs2, cs2)
  BY <1>25, <1>26, <1>27 DEF GoodSleep, Free
<1>29. QED
  BY <1>9, <1>18, <1>21, <1>22, <1>28 DEF Good

(***************************************************************************)
(* A signal takes a process off the queue it sleeps on.                    *)
(***************************************************************************)
\* Nobody else is touched.
LEMMA SignalStep ==
    ASSUME NEW L, NEW chain, NEW cnt, NEW pcs, NEW cs, Good(L, chain, cnt, pcs, cs),
           NEW p \in Local, pcs[p] = "SSLEEP",
           NEW V, V = [i \in DOMAIN L |-> [L[i] EXCEPT !.slp = @ \ {p}]],
           NEW pcs2, pcs2 = [pcs EXCEPT ![p] = "signalled"]
    PROVE  Good(V, chain, cnt, pcs2, cs)
<1>1. /\ GoodList(L) /\ GoodChain(chain, pcs) /\ cnt = Len(L) + Len(chain) /\ cnt <= t_flckrec
      /\ GoodCalls(pcs, cs) /\ GoodSleep(L, chain, pcs, cs)
  BY DEF Good
<1>2. /\ L \in Seq(Lock) /\ Len(L) \in Nat /\ DOMAIN L = 1 .. Len(L) /\ Sound(L) /\ Sleeps(L)
      /\ \A j \in 1 .. Len(L) : L[j].set.type \in Types /\ L[j] \in Lock
  BY <1>1 DEF GoodList
<1>3. ASSUME NEW l \in Lock
      PROVE  LET v == [l EXCEPT !.slp = @ \ {p}]
             IN  v \in Lock /\ v.set = l.set /\ v.wakeflg = l.wakeflg /\ v.slp = l.slp \ {p}
  <2> DEFINE S == l.slp \ {p}
             v == [l EXCEPT !.slp = S]
  <2>1. S \in SUBSET Local
    BY LockFacts
  <2> HIDE DEF S
  <2>2. v \in Lock /\ v.set = l.set /\ v.wakeflg = l.wakeflg /\ v.slp = S
    BY <2>1 DEF Lock
  <2>3. QED
    BY <2>2 DEF S
<1>4. /\ V \in Seq(Lock) /\ Len(V) = Len(L) /\ DOMAIN V = 1 .. Len(L)
      /\ \A j \in 1 .. Len(L) : V[j].set = L[j].set /\ V[j].wakeflg = L[j].wakeflg
                                /\ V[j].slp = L[j].slp \ {p}
  <2>1. \A j \in 1 .. Len(L) : V[j] = [L[j] EXCEPT !.slp = @ \ {p}]
    BY <1>2
  <2>2. ASSUME NEW j \in 1 .. Len(L)
        PROVE  V[j] \in Lock /\ V[j].set = L[j].set /\ V[j].wakeflg = L[j].wakeflg
               /\ V[j].slp = L[j].slp \ {p}
    <3>1. L[j] \in Lock /\ V[j] = [L[j] EXCEPT !.slp = @ \ {p}]
      BY <1>2, <2>1
    <3>2. QED
      BY <1>3, <3>1, Zenon
  <2>3. V = [j \in 1 .. Len(L) |-> V[j]]
    BY <1>2
  <2>4. V \in [1 .. Len(L) -> Lock]
    BY <2>2, <2>3
  <2>5. V \in Seq(Lock) /\ Len(V) = Len(L) /\ DOMAIN V = 1 .. Len(L)
    BY <1>2, <2>4
  <2>6. QED
    BY <2>2, <2>5
<1>5. GoodList(V)
  <2>1. Sound(V)
    <3>1. ASSUME NEW i \in DOMAIN V, NEW j \in DOMAIN V, i < j
          PROVE  V[i].set.start <= V[j].set.start /\ Apart(V[i].set, V[j].set)
      <4>1. i \in DOMAIN L /\ j \in DOMAIN L /\ V[i].set = L[i].set /\ V[j].set = L[j].set
        BY <1>2, <1>4
      <4>2. L[i].set.start <= L[j].set.start /\ Apart(L[i].set, L[j].set)
        BY <1>2, <3>1, <4>1 DEF Sound
      <4>3. QED
        BY <4>1, <4>2
    <3>2. QED
      BY <3>1 DEF Sound
  <2>2. \A i \in 1 .. Len(V) : V[i].slp # {} => V[i].wakeflg
    BY <1>2, <1>4 DEF Sleeps
  <2>3. \A i, j \in 1 .. Len(V) : i # j => V[i].slp \cap V[j].slp = {}
    BY <1>2, <1>4 DEF Sleeps
  <2>4. Sleeps(V)
    BY <2>2, <2>3 DEF Sleeps
  <2>5. QED
    BY <1>2, <1>4, <2>1, <2>4 DEF GoodList
<1>6. /\ pcs2 \in [Local -> Stages] /\ pcs2[p] = "signalled"
      /\ \A x \in Local : x # p => pcs2[x] = pcs[x]
  BY <1>1 DEF GoodCalls, Stages
<1>7. GoodChain(chain, pcs2)
  BY <1>1, <1>6 DEF GoodChain, Entered
<1>8. GoodCalls(pcs2, cs)
  BY <1>1, <1>6 DEF GoodCalls
<1>9. ASSUME NEW i \in 1 .. Len(V), NEW x \in V[i].slp
      PROVE  /\ pcs2[x] = "SSLEEP"
             /\ \A k \in 1 .. Len(chain) : chain[k].set.own = x => chain[k].blk = V[i].set.own
  <2>1. x \in L[i].slp /\ x # p /\ L[i].slp \subseteq Local
    BY <1>2, <1>4, LockFacts
  <2>2. QED
    BY <1>1, <1>4, <1>6, <2>1 DEF GoodSleep
<1>10. ASSUME NEW x \in Local, pcs2[x] = "SSLEEP"
       PROVE  x # p /\ pcs[x] = "SSLEEP"
              /\ \E i \in 1 .. Len(V) : x \in V[i].slp /\ Bars(V[i].set, cs[x].set)
  <2>1. x # p /\ pcs[x] = "SSLEEP"
    BY <1>6, <1>10
  <2>2. PICK i \in 1 .. Len(L) : x \in L[i].slp /\ Bars(L[i].set, cs[x].set)
    BY <1>1, <2>1 DEF GoodSleep
  <2>3. QED
    BY <1>4, <2>1, <2>2
<1>11. ASSUME NEW S \in SUBSET {x \in Local : pcs2[x] = "SSLEEP"}, S # {}
       PROVE  \E x \in S : \E i \in 1 .. Len(V) : x \in V[i].slp /\ V[i].set.own \notin S
  <2>1. S \in SUBSET {x \in Local : pcs[x] = "SSLEEP"} /\ p \notin S
    BY <1>6, <1>10
  <2>2. PICK x \in S, i \in 1 .. Len(L) : x \in L[i].slp /\ L[i].set.own \notin S
    BY <1>1, <1>11, <2>1 DEF GoodSleep, Free
  <2>3. QED
    BY <1>4, <2>1, <2>2
<1>12. GoodSleep(V, chain, pcs2, cs)
  BY <1>9, <1>10, <1>11 DEF GoodSleep, Free
<1>13. QED
  BY <1>1, <1>4, <1>5, <1>7, <1>8, <1>12 DEF Good

(***************************************************************************)
(* The invariant is kept when the list is replaced and sleepers are woken. *)
(***************************************************************************)
\* The owners go on: the woken do not sleep, and nobody enters a call.
Onward(pcs, cs, pcs2, cs2, woken) ==
    /\ pcs2 \in [Local -> Stages] /\ cs2 \in [Owners -> Call \cup {NULL}]
    /\ Awake(pcs, pcs2, woken)
    /\ \A p \in Local : pcs2[p] # "user" => pcs[p] # "user" /\ cs2[p] = cs[p]

\* Nobody is left asleep on what has changed, and the records are counted.
LEMMA ListStep ==
    ASSUME NEW L, NEW chain, NEW cnt, NEW pcs, NEW cs, Good(L, chain, cnt, pcs, cs),
           NEW w, NEW V, GoodList(V), WSleep(L, w, V),
           NEW chain2, NEW pcs2, NEW cs2, GoodChain(chain2, pcs2), Carried(chain, chain2),
           Onward(pcs, cs, pcs2, cs2, w.woken),
           NEW cnt2, cnt2 = Len(V) + Len(chain2), cnt2 <= t_flckrec
    PROVE  Good(V, chain2, cnt2, pcs2, cs2)
<1>0. /\ pcs2 \in [Local -> Stages] /\ cs2 \in [Owners -> Call \cup {NULL}]
      /\ Awake(pcs, pcs2, w.woken)
      /\ \A p \in Local : pcs2[p] # "user" => pcs[p] # "user" /\ cs2[p] = cs[p]
  BY DEF Onward
<1>1. /\ GoodList(L) /\ GoodCalls(pcs, cs) /\ GoodSleep(L, chain, pcs, cs)
  BY DEF Good
<1>2. GoodCalls(pcs2, cs2)
  BY <1>0, <1>1 DEF GoodCalls
<1>3. L \in Seq(Lock) /\ V \in Seq(Lock)
  BY <1>1 DEF GoodList
<1>4. \A p \in Local : pcs2[p] = "SSLEEP" => cs2[p] = cs[p]
  BY <1>0
<1>5. GoodSleep(V, chain2, pcs2, cs2)
  BY <1>0, <1>1, <1>3, <1>4, SleepStep, Zenon
<1>6. QED
  BY <1>2, <1>5 DEF Good

\* wakeprocs() makes the sleepers runnable and touches nobody else.
LEMMA WakeIs ==
    ASSUME NEW pcs \in [Local -> Stages], NEW S, NEW pcs2, pcs2 = Wake(pcs, S)
    PROVE  /\ pcs2 \in [Local -> Stages] /\ Awake(pcs, pcs2, S)
           /\ \A p \in Local : pcs2[p] = "user" <=> pcs[p] = "user"
<1>1. \A p \in Local : pcs2[p] = IF p \in S /\ pcs[p] = "SSLEEP" THEN "woken" ELSE pcs[p]
  BY DEF Wake
<1>2. pcs2 \in [Local -> Stages]
  BY DEF Wake, Stages
<1>3. QED
  BY <1>1, <1>2 DEF Awake

\* The chain does not depend on how those inside a call wait.
LEMMA SameUsers ==
    ASSUME NEW chain, NEW pcs, NEW pcs2, GoodChain(chain, pcs),
           \A p \in Local : pcs2[p] = "user" <=> pcs[p] = "user"
    PROVE  GoodChain(chain, pcs2)
BY DEF GoodChain, Entered

\* A chain as it is.
LEMMA CarriedSame ==
    ASSUME NEW chain
    PROVE  Carried(chain, chain)
BY DEF Carried

\* A walk that has done its work.
LEMMA AdjustStep ==
    ASSUME NEW L, NEW chain, NEW cnt, NEW pcs, NEW cs, Good(L, chain, cnt, pcs, cs),
           NEW f, NEW a, Result(L, f, cnt, a),
           NEW pcs2, pcs2 = Wake(pcs, a.woken),
           NEW chain2, GoodChain(chain2, pcs), Carried(chain, chain2), Len(chain2) <= Len(chain),
           NEW cs2 \in [Owners -> Call \cup {NULL}],
           \A p \in Local : pcs[p] # "user" => cs2[p] = cs[p],
           NEW cnt2, cnt2 = Len(a.out) + Len(chain2)
    PROVE  Good(a.out, chain2, cnt2, pcs2, cs2)
<1>1. /\ a \in WalkState /\ Sound(a.out) /\ WSleep(L, a, a.out)
      /\ \A j \in 1 .. Len(a.out) : a.out[j].set.type \in Types
      /\ a.count = cnt - Len(L) + Len(a.out) /\ a.count <= t_flckrec
  BY DEF Result
<1>2. a.out \in Seq(Lock)
  BY <1>1 DEF WalkState
<1>3. GoodList(a.out)
  BY <1>1, <1>2 DEF GoodList, WSleep
<1>4. L \in Seq(Lock) /\ chain \in Seq(Entry) /\ cnt = Len(L) + Len(chain)
      /\ pcs \in [Local -> Stages]
  BY DEF Good, GoodList, GoodChain, GoodCalls
<1>5. chain2 \in Seq(Entry)
  BY DEF GoodChain
<1>6. cnt2 <= t_flckrec
  BY <1>1, <1>2, <1>4, <1>5, LimitsNatural
<1>7. /\ pcs2 \in [Local -> Stages] /\ Awake(pcs, pcs2, a.woken)
      /\ \A p \in Local : pcs2[p] = "user" <=> pcs[p] = "user"
  BY <1>4, WakeIs
<1>8. GoodChain(chain2, pcs2)
  BY <1>7, SameUsers
<1>9. \A p \in Local : pcs2[p] # "user" => pcs[p] # "user" /\ cs2[p] = cs[p]
  BY <1>7
<1>10. Onward(pcs, cs, pcs2, cs2, a.woken)
  BY <1>7, <1>9 DEF Onward
<1>11. PICK V : V = a.out
  OBVIOUS
<1>12. GoodList(V) /\ WSleep(L, a, V) /\ cnt2 = Len(V) + Len(chain2)
  BY <1>1, <1>3, <1>11
<1>13. Good(V, chain2, cnt2, pcs2, cs2)
  BY <1>6, <1>8, <1>10, <1>12, ListStep, Zenon
<1>14. QED
  BY <1>11, <1>13

\* The list and the sleepers as they are.
LEMMA QuietStep ==
    ASSUME NEW L, NEW chain, NEW cnt, NEW pcs, NEW cs, Good(L, chain, cnt, pcs, cs),
           NEW chain2, NEW pcs2, NEW cs2, GoodChain(chain2, pcs2), Carried(chain, chain2),
           Onward(pcs, cs, pcs2, cs2, {}),
           NEW cnt2, cnt2 = Len(L) + Len(chain2), cnt2 <= t_flckrec
    PROVE  Good(L, chain2, cnt2, pcs2, cs2)
<1> DEFINE w == [woken |-> {}]
<1>1. w.woken = {}
  OBVIOUS
<1>2. GoodList(L) /\ Sleeps(L)
  BY DEF Good, GoodList
<1>3. WSleep(L, w, L)
  BY <1>2, NobodyWoken
<1> HIDE DEF w
<1>4. Onward(pcs, cs, pcs2, cs2, w.woken)
  BY <1>1
<1>5. QED
  BY <1>2, <1>3, <1>4, ListStep, Zenon

(***************************************************************************)
(* The chain when entries are taken off it.                                *)
(***************************************************************************)
\* One entry.
LEMMA Singleton ==
    ASSUME NEW k
    PROVE  Cardinality({k}) = 1
BY FS_Singleton

\* Entries that are taken off can be counted.
LEMMA GoneFinite ==
    ASSUME NEW chain \in Seq(Entry), NEW gone \in SUBSET (DOMAIN chain)
    PROVE  Cardinality(gone) \in Nat
<1>1. DOMAIN chain = 1 .. Len(chain) /\ Len(chain) \in Nat
  OBVIOUS
<1>2. IsFiniteSet(1 .. Len(chain))
  BY <1>1, FS_Interval
<1>3. IsFiniteSet(gone)
  BY <1>1, <1>2, FS_Subset
<1>4. QED
  BY <1>3, FS_CardinalityType

\* A chain that entries are taken off.
LEMMA CarriedWithout ==
    ASSUME NEW chain \in Seq(Entry), NEW gone \in SUBSET (DOMAIN chain)
    PROVE  Carried(chain, Without(chain, gone))
<1>1. PICK v : v = Without(chain, gone)
  OBVIOUS
<1>2. \A j \in 1 .. Len(v) : \E k \in 1 .. Len(chain) : k \notin gone /\ v[j] = chain[k]
  BY <1>1, ChainWithout DEF TakenOff
<1>3. Carried(chain, v)
  BY <1>2 DEF Carried
<1>4. QED
  BY <1>1, <1>3

\* p takes its entry off.
LEMMA OwnTaken ==
    ASSUME NEW L, NEW chain, NEW cnt, NEW pcs, NEW cs, Good(L, chain, cnt, pcs, cs),
           NEW p \in Local, pcs[p] \in {"woken", "signalled"},
           NEW pcs2, pcs2 = [pcs EXCEPT ![p] = "user"],
           NEW chain2, chain2 = Without(chain, SleepingFor(chain, p)),
           NEW cs2 \in [Owners -> Call \cup {NULL}],
           \A x \in Local : x # p => cs2[x] = cs[x]
    PROVE  Good(L, chain2, cnt - 1, pcs2, cs2)
<1>1. /\ GoodList(L) /\ GoodChain(chain, pcs) /\ cnt = Len(L) + Len(chain) /\ cnt <= t_flckrec
      /\ GoodCalls(pcs, cs) /\ GoodSleep(L, chain, pcs, cs)
  BY DEF Good
<1>2. chain \in Seq(Entry) /\ \A x \in Local : Entered(chain, pcs, x)
  BY <1>1 DEF GoodChain
<1> DEFINE gone == SleepingFor(chain, p)
<1>3. gone \in SUBSET (DOMAIN chain)
  BY DEF SleepingFor
<1>4. PICK k : gone = {k}
  BY <1>2 DEF Entered
<1>5. \A x, j : x # p /\ j \in SleepingFor(chain, x) => j \notin gone
  BY DEF SleepingFor
<1> HIDE DEF gone
<1>6. chain2 = Without(chain, gone)
  BY DEF gone
<1>7. Cardinality(gone) = 1
  BY <1>4, Singleton
<1>8. chain2 \in Seq(Entry) /\ Len(chain2) = Len(chain) - Cardinality(gone)
  BY <1>2, <1>3, <1>6, ChainWithout DEF TakenOff
<1>9. SleepingFor(chain2, p) = {}
  <2>1. SleepingFor(chain, p) \subseteq gone
    BY DEF gone
  <2>2. \A x : SleepingFor(chain, x) \subseteq gone => SleepingFor(chain2, x) = {}
    BY <1>2, <1>3, <1>6, ChainWithout DEF TakenOff
  <2>3. QED
    BY <2>1, <2>2
<1>10. \A x, i : SleepingFor(chain, x) = {i} /\ i \notin gone =>
                     \E j : SleepingFor(chain2, x) = {j}
  <2>1. TakenOff(chain, gone, chain2)
    BY <1>2, <1>3, <1>6, ChainWithout
  <2>2. QED
    BY <2>1 DEF TakenOff
<1>11. \A x : SleepingFor(chain, x) = {} => SleepingFor(chain2, x) = {}
  <2>1. \A x : SleepingFor(chain, x) \subseteq gone => SleepingFor(chain2, x) = {}
    BY <1>2, <1>3, <1>6, ChainWithout DEF TakenOff
  <2>2. QED
    BY <2>1
<1>12. /\ pcs2 \in [Local -> Stages] /\ pcs2[p] = "user"
       /\ \A x \in Local : x # p => pcs2[x] = pcs[x]
  BY <1>1 DEF GoodCalls, Stages
<1>13. ASSUME NEW x \in Local PROVE Entered(chain2, pcs2, x)
  <2>1. CASE x = p
    BY <1>9, <1>12, <2>1 DEF Entered
  <2>2. CASE x # p /\ pcs[x] = "user"
    BY <1>2, <1>11, <1>12, <2>2 DEF Entered
  <2>3. CASE x # p /\ pcs[x] # "user"
    <3>1. PICK i : SleepingFor(chain, x) = {i}
      BY <1>2, <2>3 DEF Entered
    <3>2. \E j : SleepingFor(chain2, x) = {j}
      BY <1>5, <1>10, <2>3, <3>1
    <3>3. QED
      BY <1>12, <2>3, <3>2 DEF Entered
  <2>4. QED
    BY <2>1, <2>2, <2>3
<1>14. GoodChain(chain2, pcs2)
  BY <1>8, <1>13 DEF GoodChain
<1>15. Carried(chain, chain2)
  BY <1>2, <1>3, <1>6, CarriedWithout
<1>16. cnt - 1 = Len(L) + Len(chain2) /\ cnt - 1 <= t_flckrec
  <2>1. L \in Seq(Lock)
    BY <1>1 DEF GoodList
  <2>2. Len(L) \in Nat /\ Len(chain) \in Nat /\ Len(chain2) = Len(chain) - 1
    BY <1>2, <1>7, <1>8, <2>1
  <2>3. QED
    BY <1>1, <2>2, LimitsNatural
<1>17. \A x \in Local : pcs2[x] = "SSLEEP" <=> pcs[x] = "SSLEEP"
  BY <1>12
<1>18. \A x \in Local : pcs2[x] # "user" => pcs[x] # "user" /\ cs2[x] = cs[x]
  BY <1>12
<1>19. Onward(pcs, cs, pcs2, cs2, {})
  BY <1>12, <1>17, <1>18 DEF Onward, Awake
<1>20. QED
  BY <1>14, <1>15, <1>16, <1>19, QuietStep, Zenon

(***************************************************************************)
(* reclock(): the actions.                                                 *)
(***************************************************************************)
\* blocked() answers with a lock that is in the way.
LEMMA BlockerFound ==
    ASSUME NEW L, GoodList(L), NEW f \in Flock, NEW B, B = Blockers(L, f), B # {},
           NEW found, found = Least(B)
    PROVE  found \in 1 .. Len(L) /\ Bars(L[found].set, f)
<1>1. L \in Seq(Lock) /\ Sound(L) /\ Len(L) \in Nat
  BY DEF GoodList
<1>2. \A i : i \in B <=> i \in 1 .. Len(L) /\ Bars(L[i].set, f)
  BY <1>1, BlockersIs
<1>3. B \subseteq Nat
  BY <1>2
<1>4. found \in B
  BY <1>3, LeastIs
<1>5. QED
  BY <1>2, <1>4

\* A request that nothing bars gets its locks.
LEMMA Granted ==
    ASSUME NEW L, NEW chain, NEW cnt, NEW pcs, NEW cs, Good(L, chain, cnt, pcs, cs),
           NEW f \in Flock, NEW mem \in BOOLEAN,
           f.type \in Types, Blockers(L, f) = {},
           NEW a, a = flckadj(L, Insrt(L, f), f, cnt, mem)
    PROVE  Result(L, f, cnt, a)
<1>1. /\ L \in Seq(Lock) /\ Sound(L) /\ Sleeps(L)
      /\ \A j \in 1 .. Len(L) : L[j].set.type \in Types
  BY DEF Good, GoodList
<1>2. cnt \in Int /\ cnt <= t_flckrec
  BY <1>1 DEF Good, GoodChain
<1>3. Asked(L, f)
  BY <1>1, AskedIs
<1>4. Begins(L, f, Insrt(L, f))
  BY <1>1, InsrtBegins
<1>5. QED
  BY <1>2, <1>3, <1>4, AdjustedIs

\* An unlock.
LEMMA Unlocked ==
    ASSUME NEW L, NEW chain, NEW cnt, NEW pcs, NEW cs, Good(L, chain, cnt, pcs, cs),
           NEW f \in Flock, NEW mem \in BOOLEAN, f.type = "F_UNLCK",
           NEW a, a = flckadj(L, IF L = <<>> THEN 0 ELSE 1, f, cnt, mem)
    PROVE  Result(L, f, cnt, a)
<1>1. /\ L \in Seq(Lock) /\ Sound(L) /\ Sleeps(L)
      /\ \A j \in 1 .. Len(L) : L[j].set.type \in Types
  BY DEF Good, GoodList
<1>2. cnt \in Int /\ cnt <= t_flckrec
  BY <1>1 DEF Good, GoodChain
<1>3. Asked(L, f)
  BY <1>1, AskedIs
<1>4. PICK insrt : insrt = IF L = <<>> THEN 0 ELSE 1
  OBVIOUS
<1>5. Begins(L, f, insrt)
  BY <1>1, <1>4, FirstBegins
<1>6. a = flckadj(L, insrt, f, cnt, mem)
  BY <1>4
<1>7. QED
  BY <1>2, <1>3, <1>5, <1>6, AdjustedIs

Inv == Good(filocks, sleeplcks, reccnt, pc, call)

\* p, out of the call, goes through the loop with request r.
LEMMA PassStep ==
    ASSUME NEW p \in Local, NEW r \in Call, r.set.own = p, r.set.type \in Types,
           NEW chain, NEW count, NEW mem \in BOOLEAN,
           pc \in [Local -> Stages], call \in [Owners -> Call \cup {NULL}],
           Good(filocks, chain, count, Back(p), call),
           Pass(p, r, chain, count, mem)
    PROVE  Inv'
<1> DEFINE B == Blockers(filocks, r.set)
           found == Least(B)
           by == filocks[found].set.own
           a == flckadj(filocks, Insrt(filocks, r.set), r.set, count, mem)
           pcs == Back(p)
<1>1. r.set \in Flock /\ p \in Owners
  BY DEF Call, Owners
<1>2. /\ pcs \in [Local -> Stages] /\ pcs[p] = "user"
      /\ GoodList(filocks) /\ GoodChain(chain, pcs) /\ count = Len(filocks) + Len(chain)
      /\ count <= t_flckrec
  BY DEF Back, Stages, Good
<1>3. Ended(p) \in [Owners -> Call \cup {NULL}] /\ \A x \in Local : x # p => Ended(p)[x] = call[x]
  BY <1>1 DEF Ended, Owners
<1>4. \A x \in Local : pcs[x] # "user" => Ended(p)[x] = call[x]
  BY <1>2, <1>3
<1>5. Carried(chain, chain)
  BY CarriedSame
<1>6. filocks \in Seq(Lock) /\ chain \in Seq(Entry)
  BY <1>2 DEF GoodList, GoodChain
<1>7. [pcs EXCEPT ![p] = "SSLEEP"] = [pc EXCEPT ![p] = "SSLEEP"]
  BY DEF Back
<1>8. \/ /\ B = {} /\ r.keep
         /\ filocks' = a.out /\ pc' = Wake(pcs, a.woken)
         /\ reccnt' = a.count /\ sleeplcks' = chain /\ call' = Ended(p)
      \/ /\ pc' = pcs /\ call' = Ended(p) /\ sleeplcks' = chain /\ reccnt' = count
         /\ filocks' = filocks
      \/ /\ B # {} /\ ChainEnds(chain, by, p) /\ Room(count, mem)
         /\ sleeplcks' = <<[set |-> r.set, blk |-> by]>> \o chain
         /\ reccnt' = count + 1
         /\ filocks' = [filocks EXCEPT ![found] = Queued(filocks[found], p)]
         /\ pc' = [pc EXCEPT ![p] = "SSLEEP"]
         /\ call' = [call EXCEPT ![p] = r]
  BY DEF Pass, Adjusted
<1>9. CASE /\ B = {} /\ r.keep
           /\ filocks' = a.out /\ pc' = Wake(pcs, a.woken)
           /\ reccnt' = a.count /\ sleeplcks' = chain /\ call' = Ended(p)
  <2>1. Result(filocks, r.set, count, a)
    BY <1>1, <1>9, Granted
  <2> HIDE DEF a, pcs
  <2>2. Good(filocks, chain, count, pcs, call)
    BY DEF pcs
  <2>3. a.count = Len(a.out) + Len(chain)
    <3>1. a.out \in Seq(Lock) /\ a.count = count - Len(filocks) + Len(a.out)
      BY <2>1 DEF Result, WalkState
    <3>2. QED
      BY <1>2, <1>6, <3>1
  <2>4. PICK x, pcs2, cs2, n : x = a /\ pcs2 = Wake(pcs, x.woken) /\ cs2 = Ended(p) /\ n = x.count
    OBVIOUS
  <2>5. /\ cs2 \in [Owners -> Call \cup {NULL}]
        /\ \A y \in Local : pcs[y] # "user" => cs2[y] = call[y]
        /\ n = Len(x.out) + Len(chain) /\ Len(chain) <= Len(chain)
    BY <1>3, <1>4, <1>6, <2>3, <2>4
  <2>6. Result(filocks, r.set, count, x)
    BY <2>1, <2>4
  <2>7. Good(x.out, chain, n, pcs2, cs2)
    BY <1>2, <1>5, <2>2, <2>4, <2>5, <2>6, AdjustStep
  <2>8. QED
    BY <1>9, <2>4, <2>7 DEF Inv
<1>10. CASE /\ pc' = pcs /\ call' = Ended(p) /\ sleeplcks' = chain /\ reccnt' = count
            /\ filocks' = filocks
  <2>1. Onward(pcs, call, pcs, Ended(p), {})
    BY <1>2, <1>3, <1>4 DEF Onward, Awake
  <2>2. Good(filocks, chain, count, pcs, Ended(p))
    BY <1>2, <1>5, <2>1, QuietStep
  <2>3. QED
    BY <1>10, <2>2 DEF Inv
<1>11. CASE /\ B # {} /\ ChainEnds(chain, by, p) /\ Room(count, mem)
            /\ sleeplcks' = <<[set |-> r.set, blk |-> by]>> \o chain
            /\ reccnt' = count + 1
            /\ filocks' = [filocks EXCEPT ![found] = Queued(filocks[found], p)]
            /\ pc' = [pc EXCEPT ![p] = "SSLEEP"]
            /\ call' = [call EXCEPT ![p] = r]
  <2>1. found \in 1 .. Len(filocks) /\ Bars(filocks[found].set, r.set)
    BY <1>1, <1>2, <1>11, BlockerFound
  <2>2. count < t_flckrec
    BY <1>11 DEF Room
  <2> HIDE DEF found, pcs
  <2>3. PICK b, V, chain2, pcs2, cs2 :
            /\ b = filocks[found].set.own
            /\ V = [filocks EXCEPT ![found] = Queued(filocks[found], p)]
            /\ chain2 = <<[set |-> r.set, blk |-> b]>> \o chain
            /\ pcs2 = [pcs EXCEPT ![p] = "SSLEEP"]
            /\ cs2 = [call EXCEPT ![p] = r]
    OBVIOUS
  <2>4. Good(filocks, chain, count, pcs, call) /\ pcs[p] = "user" /\ ~deadflck(chain, b, p)
    BY <1>2, <1>11, <2>3 DEF pcs, ChainEnds
  <2>5. Good(V, chain2, count + 1, pcs2, cs2)
    BY <2>1, <2>2, <2>3, <2>4, AsleepStep
  <2>6. pc' = pcs2 /\ call' = cs2 /\ filocks' = V /\ sleeplcks' = chain2
    BY <1>7, <1>11, <2>3 DEF pcs
  <2>7. QED
    BY <1>11, <2>5, <2>6 DEF Inv
<1>12. QED
  BY <1>8, <1>9, <1>10, <1>11

\* What an owner asks for.
LEMMA LocksOfIs ==
    ASSUME NEW o \in Owners, NEW f \in LocksOf(o)
    PROVE  f \in Flock /\ f.own = o /\ f.type \in Types
<1>1. PICK g \in Asks[o] : f = [own |-> o, type |-> g[1], start |-> g[2], end |-> g[3]]
  BY DEF LocksOf
<1>2. /\ g[1] \in {"F_RDLCK", "F_WRLCK"}
      /\ g[2] \in 0 .. MAXEND /\ g[3] \in g[2] .. MAXEND
  BY AsksProper DEF Owners
<1>3. f.own = o /\ f.type = g[1] /\ f.start = g[2] /\ f.end = g[3]
  BY <1>1
<1>4. g[3] \in 0 .. MAXEND /\ g[2] <= g[3]
  BY <1>2, LimitsNatural
<1>5. f \in [own : Owners, type : Types \cup {"F_UNLCK"}, start : Bytes, end : Bytes]
  BY <1>1, <1>2, <1>4 DEF Types, Bytes
<1>6. QED
  BY <1>2, <1>3, <1>4, <1>5 DEF Flock, Types

\* What an owner gives up.
LEMMA UnlocksOfIs ==
    ASSUME NEW o \in Owners, NEW f \in UnlocksOf(o)
    PROVE  f \in Flock /\ f.own = o /\ f.type = "F_UNLCK"
<1>1. PICK g \in LocksOf(o) : f = [g EXCEPT !.type = "F_UNLCK"]
  BY DEF UnlocksOf
<1>2. g \in Flock /\ g.own = o
  BY LocksOfIs
<1>3. g \in [own : Owners, type : Types \cup {"F_UNLCK"}, start : Bytes, end : Bytes]
      /\ g.start <= g.end
  BY <1>2 DEF Flock
<1>4. /\ f \in [own : Owners, type : Types \cup {"F_UNLCK"}, start : Bytes, end : Bytes]
      /\ f.own = g.own /\ f.type = "F_UNLCK" /\ f.start = g.start /\ f.end = g.end
  BY <1>1, <1>3
<1>5. QED
  BY <1>2, <1>3, <1>4 DEF Flock

\* The parts of the invariant.
LEMMA InvFacts ==
    ASSUME Inv
    PROVE  /\ GoodList(filocks) /\ GoodChain(sleeplcks, pc) /\ GoodCalls(pc, call)
           /\ filocks \in Seq(Lock) /\ sleeplcks \in Seq(Entry)
           /\ pc \in [Local -> Stages] /\ call \in [Owners -> Call \cup {NULL}]
           /\ reccnt = Len(filocks) + Len(sleeplcks) /\ reccnt <= t_flckrec
BY DEF Inv, Good, GoodList, GoodChain, GoodCalls

\* fcntl(F_SETLKW) and chklock().
LEMMA WaitStep ==
    ASSUME Inv, NEW p \in Local, NEW f \in LocksOf(p), NEW keep \in BOOLEAN,
           NEW mem \in BOOLEAN, ReclockWait(p, [set |-> f, keep |-> keep], mem)
    PROVE  Inv'
<1> DEFINE r == [set |-> f, keep |-> keep]
<1>1. f \in Flock /\ f.own = p /\ f.type \in Types
  BY LocksOfIs DEF Owners
<1>2. r \in Call /\ r.set.own = p /\ r.set.type \in Types
  BY <1>1 DEF Call
<1> HIDE DEF r
<1>3. pc[p] = "user" /\ Pass(p, r, sleeplcks, reccnt, mem)
  BY DEF ReclockWait, r
<1>4. pc \in [Local -> Stages] /\ call \in [Owners -> Call \cup {NULL}]
  BY InvFacts
<1>5. Back(p) = pc
  BY <1>3, <1>4 DEF Back
<1>6. Good(filocks, sleeplcks, reccnt, Back(p), call)
  BY <1>5 DEF Inv
<1>7. QED
  BY <1>2, <1>3, <1>4, <1>6, PassStep

\* SLEEP() has returned 0.
LEMMA ResumeStep ==
    ASSUME Inv, NEW p \in Local, NEW mem \in BOOLEAN, ReclockResume(p, mem)
    PROVE  Inv'
<1>1. pc[p] = "woken" /\ Pass(p, call[p], WithoutOwn(p), reccnt - 1, mem)
  BY DEF ReclockResume
<1>2. pc \in [Local -> Stages] /\ call \in [Owners -> Call \cup {NULL}]
  BY InvFacts
<1>3. call[p] \in Call /\ call[p].set.own = p /\ call[p].set.type \in Types
  BY <1>1, InvFacts DEF GoodCalls
<1>4. PICK chain2, pcs2, n : chain2 = Without(sleeplcks, SleepingFor(sleeplcks, p))
                             /\ pcs2 = [pc EXCEPT ![p] = "user"] /\ n = reccnt - 1
  OBVIOUS
<1>5. Good(filocks, sleeplcks, reccnt, pc, call)
  BY DEF Inv
<1>6. Good(filocks, chain2, n, pcs2, call)
  BY <1>1, <1>2, <1>4, <1>5, OwnTaken
<1>7. chain2 = WithoutOwn(p) /\ pcs2 = Back(p)
  BY <1>4 DEF WithoutOwn, Back
<1>8. Good(filocks, WithoutOwn(p), reccnt - 1, Back(p), call)
  BY <1>4, <1>6, <1>7
<1>9. QED
  BY <1>1, <1>2, <1>3, <1>8, PassStep

\* SLEEP() has been interrupted.
LEMMA IntrStep ==
    ASSUME Inv, NEW p \in Local, ReclockIntr(p)
    PROVE  Inv'
<1>1. /\ pc[p] = "signalled" /\ pc' = Back(p) /\ sleeplcks' = WithoutOwn(p)
      /\ reccnt' = reccnt - 1 /\ call' = Ended(p) /\ filocks' = filocks
  BY DEF ReclockIntr
<1>2. pc \in [Local -> Stages] /\ call \in [Owners -> Call \cup {NULL}]
  BY InvFacts
<1>3. PICK chain2, pcs2, cs2 : chain2 = Without(sleeplcks, SleepingFor(sleeplcks, p))
                             /\ pcs2 = [pc EXCEPT ![p] = "user"] /\ cs2 = Ended(p)
  OBVIOUS
<1>4. cs2 \in [Owners -> Call \cup {NULL}] /\ \A x \in Local : x # p => cs2[x] = call[x]
  BY <1>2, <1>3 DEF Ended, Owners
<1>5. Good(filocks, sleeplcks, reccnt, pc, call)
  BY DEF Inv
<1>6. Good(filocks, chain2, reccnt - 1, pcs2, cs2)
  BY <1>1, <1>3, <1>4, <1>5, OwnTaken
<1>7. chain2 = sleeplcks' /\ pcs2 = pc' /\ cs2 = call'
  BY <1>1, <1>3 DEF WithoutOwn, Back
<1>8. QED
  BY <1>1, <1>6, <1>7 DEF Inv

\* A signal.
LEMMA SignalledStep ==
    ASSUME Inv, NEW p \in Local, Signal(p)
    PROVE  Inv'
<1>1. /\ pc[p] = "SSLEEP" /\ pc' = [pc EXCEPT ![p] = "signalled"]
      /\ filocks' = [i \in DOMAIN filocks |-> [filocks[i] EXCEPT !.slp = @ \ {p}]]
      /\ sleeplcks' = sleeplcks /\ reccnt' = reccnt /\ call' = call
  BY DEF Signal
<1>2. Good(filocks, sleeplcks, reccnt, pc, call)
  BY DEF Inv
<1>3. Good(filocks', sleeplcks, reccnt, pc', call)
  BY <1>1, <1>2, SignalStep
<1>4. QED
  BY <1>1, <1>3 DEF Inv

\* A walk of an owner that is not asleep, with the chain as it is.
LEMMA WalkStep ==
    ASSUME Inv, NEW f, NEW a, Result(filocks, f, reccnt, a), Adjusted(a, pc),
           reccnt' = a.count, UNCHANGED <<sleeplcks, call>>
    PROVE  Inv'
<1>1. Good(filocks, sleeplcks, reccnt, pc, call)
  BY DEF Inv
<1>2. filocks' = a.out /\ pc' = Wake(pc, a.woken)
  BY DEF Adjusted
<1>3. PICK n : n = a.count
  OBVIOUS
<1>4. n = Len(a.out) + Len(sleeplcks)
  <2>1. a.out \in Seq(Lock) /\ a.count = reccnt - Len(filocks) + Len(a.out)
    BY DEF Result, WalkState
  <2>2. QED
    BY <1>3, <2>1, InvFacts
<1>5. GoodChain(sleeplcks, pc) /\ Carried(sleeplcks, sleeplcks)
      /\ Len(sleeplcks) <= Len(sleeplcks) /\ call \in [Owners -> Call \cup {NULL}]
      /\ \A p \in Local : pc[p] # "user" => call[p] = call[p]
  BY InvFacts, CarriedSame
<1>6. Good(a.out, sleeplcks, n, pc', call)
  BY <1>1, <1>2, <1>4, <1>5, AdjustStep
<1>7. QED
  BY <1>2, <1>3, <1>6 DEF Inv

\* fcntl(F_SETLK).
LEMMA TryStep ==
    ASSUME Inv, NEW p \in Local, NEW f \in LocksOf(p), NEW mem \in BOOLEAN,
           ReclockTry(p, f, mem)
    PROVE  Inv'
<1>1. f \in Flock /\ f.own = p /\ f.type \in Types
  BY LocksOfIs DEF Owners
<1>2. PICK a : a = flckadj(filocks, Insrt(filocks, f), f, reccnt, mem)
  OBVIOUS
<1>3. /\ Blockers(filocks, f) = {} /\ Adjusted(a, pc) /\ reccnt' = a.count
      /\ UNCHANGED <<sleeplcks, call>>
  BY <1>2 DEF ReclockTry
<1>4. Good(filocks, sleeplcks, reccnt, pc, call)
  BY DEF Inv
<1>5. Result(filocks, f, reccnt, a)
  BY <1>1, <1>2, <1>3, <1>4, Granted
<1>6. QED
  BY <1>3, <1>5, WalkStep

\* F_RSETLK.
LEMMA RemoteTryStep ==
    ASSUME Inv, NEW r \in Remote, NEW f \in LocksOf(r), NEW mem \in BOOLEAN,
           RemoteTry(r, f, mem)
    PROVE  Inv'
<1>1. f \in Flock /\ f.own = r /\ f.type \in Types
  BY LocksOfIs DEF Owners
<1>2. PICK a : a = flckadj(filocks, Insrt(filocks, f), f, reccnt, mem)
  OBVIOUS
<1>3. /\ Blockers(filocks, f) = {} /\ Adjusted(a, pc) /\ reccnt' = a.count
      /\ UNCHANGED <<sleeplcks, call>>
  BY <1>2 DEF RemoteTry
<1>4. Good(filocks, sleeplcks, reccnt, pc, call)
  BY DEF Inv
<1>5. Result(filocks, f, reccnt, a)
  BY <1>1, <1>2, <1>3, <1>4, Granted
<1>6. QED
  BY <1>3, <1>5, WalkStep

\* fcntl() with F_UNLCK.
LEMMA UnlockStep ==
    ASSUME Inv, NEW p \in Local, NEW f \in UnlocksOf(p), NEW mem \in BOOLEAN,
           ReclockUnlock(p, f, mem)
    PROVE  Inv'
<1>1. f \in Flock /\ f.own = p /\ f.type = "F_UNLCK"
  BY UnlocksOfIs DEF Owners
<1>2. PICK a : a = flckadj(filocks, IF filocks = <<>> THEN 0 ELSE 1, f, reccnt, mem)
  OBVIOUS
<1>3. Adjusted(a, pc) /\ reccnt' = a.count /\ UNCHANGED <<sleeplcks, call>>
  BY <1>2 DEF ReclockUnlock
<1>4. Good(filocks, sleeplcks, reccnt, pc, call)
  BY DEF Inv
<1>5. Result(filocks, f, reccnt, a)
  BY <1>1, <1>2, <1>4, Unlocked
<1>6. QED
  BY <1>3, <1>5, WalkStep

(***************************************************************************)
(* The lock manager.                                                       *)
(***************************************************************************)
\* cleanslp() takes off entries of that owner alone, and no local owner's.
LEMMA CleanedIs ==
    ASSUME Inv, NEW f, f.own \in Remote, NEW v, v = CleanSlp(f)
    PROVE  /\ GoodChain(v, pc) /\ Carried(sleeplcks, v)
           /\ Len(v) = Len(sleeplcks) - Cleaned(f) /\ Len(v) <= Len(sleeplcks)
           /\ Cleaned(f) \in Nat
<1>1. sleeplcks \in Seq(Entry) /\ \A x \in Local : Entered(sleeplcks, pc, x)
  BY InvFacts DEF GoodChain
<1> DEFINE gone == GivenUp(f)
<1>2. gone \in SUBSET (DOMAIN sleeplcks) /\ \A i \in gone : sleeplcks[i].set.own = f.own
  BY DEF GivenUp
<1> HIDE DEF gone
<1>3. v = Without(sleeplcks, gone) /\ Cleaned(f) = Cardinality(gone)
  BY DEF CleanSlp, Cleaned, gone
<1>4. TakenOff(sleeplcks, gone, v)
  BY <1>1, <1>2, <1>3, ChainWithout
<1>5. Cardinality(gone) \in Nat
  BY <1>1, <1>2, GoneFinite
<1>6. Carried(sleeplcks, v)
  BY <1>1, <1>2, <1>3, CarriedWithout
<1>7. ASSUME NEW x \in Local PROVE Entered(v, pc, x)
  <2>1. x # f.own
    BY OwnersDistinct
  <2>2. \A i : i \in SleepingFor(sleeplcks, x) => i \notin gone
    BY <1>2, <2>1 DEF SleepingFor
  <2>3. CASE pc[x] = "user"
    <3>1. SleepingFor(sleeplcks, x) \subseteq gone
      BY <1>1, <2>3 DEF Entered
    <3>2. QED
      BY <1>4, <2>3, <3>1 DEF TakenOff, Entered
  <2>4. CASE pc[x] # "user"
    <3>1. PICK k : SleepingFor(sleeplcks, x) = {k}
      BY <1>1, <2>4 DEF Entered
    <3>2. \E j : SleepingFor(v, x) = {j}
      BY <1>4, <2>2, <3>1 DEF TakenOff
    <3>3. QED
      BY <2>4, <3>2 DEF Entered
  <2>5. QED
    BY <2>3, <2>4
<1>8. v \in Seq(Entry) /\ Len(v) = Len(sleeplcks) - Cleaned(f)
  BY <1>3, <1>4 DEF TakenOff
<1>9. GoodChain(v, pc)
  BY <1>7, <1>8 DEF GoodChain
<1>10. QED
  BY <1>1, <1>3, <1>5, <1>6, <1>8, <1>9

\* A walk for an owner elsewhere, whose requests are cleaned.
LEMMA RemoteStep ==
    ASSUME Inv, NEW r \in Remote, NEW f, f.own = r, NEW a, Result(filocks, f, reccnt, a),
           Adjusted(a, pc), sleeplcks' = CleanSlp(a.ld), reccnt' = a.count - Cleaned(a.ld),
           call' = Ended(r)
    PROVE  Inv'
<1>1. Good(filocks, sleeplcks, reccnt, pc, call)
  BY DEF Inv
<1>2. filocks' = a.out /\ pc' = Wake(pc, a.woken)
  BY DEF Adjusted
<1>3. a.ld.own \in Remote
  BY DEF Result
<1>4. PICK n, v, cs2 : n = a.count - Cleaned(a.ld) /\ v = CleanSlp(a.ld) /\ cs2 = Ended(r)
  OBVIOUS
<1>5. /\ GoodChain(v, pc) /\ Carried(sleeplcks, v)
      /\ Len(v) = Len(sleeplcks) - Cleaned(a.ld) /\ Len(v) <= Len(sleeplcks)
      /\ Cleaned(a.ld) \in Nat
  BY <1>3, <1>4, CleanedIs
<1>6. n = Len(a.out) + Len(v)
  <2>1. a.out \in Seq(Lock) /\ a.count = reccnt - Len(filocks) + Len(a.out)
    BY DEF Result, WalkState
  <2>2. filocks \in Seq(Lock) /\ sleeplcks \in Seq(Entry) /\ reccnt = Len(filocks) + Len(sleeplcks)
    BY InvFacts
  <2>3. Len(a.out) \in Nat /\ Len(filocks) \in Nat /\ Len(sleeplcks) \in Nat
    BY <2>1, <2>2
  <2>4. QED
    BY <1>4, <1>5, <2>1, <2>2, <2>3
<1>7. cs2 \in [Owners -> Call \cup {NULL}] /\ \A x \in Local : pc[x] # "user" => cs2[x] = call[x]
  BY <1>4, InvFacts, OwnersDistinct DEF Ended, Owners
<1>8. Good(a.out, v, n, pc', cs2)
  BY <1>1, <1>2, <1>5, <1>6, <1>7, AdjustStep
<1>9. QED
  BY <1>2, <1>4, <1>8 DEF Inv

\* F_RSETLK with F_UNLCK.
LEMMA RemoteUnlockStep ==
    ASSUME Inv, NEW r \in Remote, NEW f \in UnlocksOf(r), NEW mem \in BOOLEAN,
           RemoteUnlock(r, f, mem)
    PROVE  Inv'
<1>1. f \in Flock /\ f.own = r /\ f.type = "F_UNLCK"
  BY UnlocksOfIs DEF Owners
<1>2. PICK a : a = flckadj(filocks, IF filocks = <<>> THEN 0 ELSE 1, f, reccnt, mem)
  OBVIOUS
<1>3. /\ Adjusted(a, pc) /\ sleeplcks' = CleanSlp(a.ld) /\ reccnt' = a.count - Cleaned(a.ld)
      /\ call' = Ended(r)
  BY <1>2 DEF RemoteUnlock
<1>4. Good(filocks, sleeplcks, reccnt, pc, call)
  BY DEF Inv
<1>5. Result(filocks, f, reccnt, a)
  BY <1>1, <1>2, <1>4, Unlocked
<1>6. QED
  BY <1>1, <1>3, <1>5, RemoteStep

\* A request of the lock manager is put on the chain.
LEMMA RemotePut ==
    ASSUME Inv, NEW r \in Remote, NEW f \in Flock, f.own = r, NEW by \in Owners,
           reccnt < t_flckrec,
           sleeplcks' = <<[set |-> f, blk |-> by]>> \o sleeplcks, reccnt' = reccnt + 1,
           call' \in [Owners -> Call \cup {NULL}],
           \A x \in Local : call'[x] = call[x], filocks' = filocks, pc' = pc
    PROVE  Inv'
<1> DEFINE e == [set |-> f, blk |-> by]
<1>1. e \in Entry /\ e.set = f
  BY DEF Entry
<1> HIDE DEF e
<1>2. /\ sleeplcks \in Seq(Entry) /\ \A x \in Local : Entered(sleeplcks, pc, x)
      /\ reccnt = Len(filocks) + Len(sleeplcks) /\ filocks \in Seq(Lock)
      /\ pc \in [Local -> Stages]
  BY InvFacts DEF GoodChain
<1>3. PICK v : v = <<e>> \o sleeplcks
  OBVIOUS
<1>4. sleeplcks' = v
  BY <1>3 DEF e
<1>5. PutOn(sleeplcks, e, v)
  BY <1>1, <1>2, <1>3, ChainPut
<1>6. /\ v \in Seq(Entry) /\ Len(v) = Len(sleeplcks) + 1 /\ v[1] = e
      /\ \A j \in 2 .. Len(v) : j - 1 \in 1 .. Len(sleeplcks) /\ v[j] = sleeplcks[j - 1]
  BY <1>5 DEF PutOn
<1>7. ASSUME NEW x \in Local PROVE x # e.set.own /\ Entered(v, pc, x)
  <2>1. x # e.set.own
    BY <1>1, OwnersDistinct
  <2>2. CASE pc[x] = "user"
    <3>1. SleepingFor(sleeplcks, x) = {}
      BY <1>2, <2>2 DEF Entered
    <3>2. SleepingFor(v, x) = {}
      BY <1>5, <2>1, <3>1 DEF PutOn
    <3>3. QED
      BY <2>1, <2>2, <3>2 DEF Entered
  <2>3. CASE pc[x] # "user"
    <3>1. PICK k : SleepingFor(sleeplcks, x) = {k}
      BY <1>2, <2>3 DEF Entered
    <3>2. SleepingFor(v, x) = {k + 1}
      BY <1>5, <2>1, <3>1 DEF PutOn
    <3>3. QED
      BY <2>1, <2>3, <3>2 DEF Entered
  <2>4. QED
    BY <2>2, <2>3
<1>8. GoodChain(v, pc)
  BY <1>6, <1>7 DEF GoodChain
<1>9. Carried(sleeplcks, v)
  <2>1. ASSUME NEW j \in 1 .. Len(v), v[j].set.own \in Local
        PROVE  \E k \in 1 .. Len(sleeplcks) : v[j] = sleeplcks[k]
    <3>1. j # 1
      BY <1>6, <1>7, <2>1
    <3>2. Len(sleeplcks) \in Nat /\ Len(v) \in Nat
      BY <1>2, <1>6
    <3>3. j \in 2 .. Len(v)
      BY <3>1, <3>2
    <3>4. QED
      BY <1>6, <3>3
  <2>2. QED
    BY <2>1 DEF Carried
<1>10. PICK cs2 : cs2 = call'
  OBVIOUS
<1>11. Onward(pc, call, pc, cs2, {})
  BY <1>2, <1>10 DEF Onward, Awake
<1>12. PICK n : n = reccnt + 1
  OBVIOUS
<1>13. n = Len(filocks) + Len(v) /\ n <= t_flckrec
  BY <1>2, <1>6, <1>12, LimitsNatural
<1>14. Good(filocks, sleeplcks, reccnt, pc, call)
  BY DEF Inv
<1>15. Good(filocks, v, n, pc, cs2)
  BY <1>8, <1>9, <1>11, <1>13, <1>14, QuietStep
<1>16. QED
  BY <1>4, <1>10, <1>12, <1>15 DEF Inv

\* Only the requests of the lock manager change.
LEMMA RemoteCall ==
    ASSUME Inv, call' \in [Owners -> Call \cup {NULL}], \A x \in Local : call'[x] = call[x],
           UNCHANGED <<filocks, sleeplcks, reccnt, pc>>
    PROVE  Inv'
<1>1. PICK cs2 : cs2 = call'
  OBVIOUS
<1>2. Good(filocks, sleeplcks, reccnt, pc, call)
  BY DEF Inv
<1>3. GoodChain(sleeplcks, pc) /\ Carried(sleeplcks, sleeplcks) /\ pc \in [Local -> Stages]
      /\ reccnt = Len(filocks) + Len(sleeplcks) /\ reccnt <= t_flckrec
  BY InvFacts, CarriedSame
<1>4. Onward(pc, call, pc, cs2, {})
  BY <1>1, <1>3 DEF Onward, Awake
<1>5. Good(filocks, sleeplcks, reccnt, pc, cs2)
  BY <1>2, <1>3, <1>4, QuietStep
<1>6. QED
  BY <1>1, <1>5 DEF Inv

\* F_RSETLKW.
LEMMA RemoteWaitStep ==
    ASSUME Inv, NEW r \in Remote, NEW f \in LocksOf(r), NEW mem \in BOOLEAN,
           RemoteWait(r, f, mem)
    PROVE  Inv'
<1>1. f \in Flock /\ f.own = r /\ f.type \in Types /\ r \in Owners
  BY LocksOfIs DEF Owners
<1>2. PICK a, B, by : /\ a = flckadj(filocks, Insrt(filocks, f), f, reccnt, mem)
                      /\ B = Blockers(filocks, f)
                      /\ by = filocks[Least(B)].set.own
  OBVIOUS
<1>3. \/ /\ B = {} /\ Adjusted(a, pc) /\ sleeplcks' = CleanSlp(a.ld)
         /\ reccnt' = a.count - Cleaned(a.ld) /\ call' = Ended(r)
      \/ /\ call' = Ended(r) /\ UNCHANGED <<filocks, sleeplcks, reccnt, pc>>
      \/ /\ B # {} /\ (Listed(f, by) \/ Room(reccnt, mem))
         /\ sleeplcks' = IF Listed(f, by) THEN sleeplcks
                         ELSE <<[set |-> f, blk |-> by]>> \o sleeplcks
         /\ reccnt' = IF Listed(f, by) THEN reccnt ELSE reccnt + 1
         /\ call' = [call EXCEPT ![r] = [set |-> f, keep |-> TRUE]]
         /\ UNCHANGED <<filocks, pc>>
  BY <1>2 DEF RemoteWait
<1>4. Good(filocks, sleeplcks, reccnt, pc, call) /\ GoodList(filocks)
      /\ call \in [Owners -> Call \cup {NULL}]
  BY InvFacts DEF Inv
<1>5. CASE /\ B = {} /\ Adjusted(a, pc) /\ sleeplcks' = CleanSlp(a.ld)
           /\ reccnt' = a.count - Cleaned(a.ld) /\ call' = Ended(r)
  <2>1. Result(filocks, f, reccnt, a)
    BY <1>1, <1>2, <1>4, <1>5, Granted
  <2>2. QED
    BY <1>1, <1>5, <2>1, RemoteStep
<1>6. Ended(r) \in [Owners -> Call \cup {NULL}] /\ \A x \in Local : Ended(r)[x] = call[x]
  BY <1>1, <1>4, OwnersDistinct DEF Ended, Owners
<1>7. CASE call' = Ended(r) /\ UNCHANGED <<filocks, sleeplcks, reccnt, pc>>
  BY <1>6, <1>7, RemoteCall
<1>8. CASE /\ B # {} /\ (Listed(f, by) \/ Room(reccnt, mem))
           /\ sleeplcks' = IF Listed(f, by) THEN sleeplcks
                           ELSE <<[set |-> f, blk |-> by]>> \o sleeplcks
           /\ reccnt' = IF Listed(f, by) THEN reccnt ELSE reccnt + 1
           /\ call' = [call EXCEPT ![r] = [set |-> f, keep |-> TRUE]]
           /\ UNCHANGED <<filocks, pc>>
  <2>1. call' \in [Owners -> Call \cup {NULL}] /\ \A x \in Local : call'[x] = call[x]
    <3>1. [set |-> f, keep |-> TRUE] \in Call
      BY <1>1 DEF Call
    <3>2. QED
      BY <1>1, <1>4, <1>8, <3>1, OwnersDistinct DEF Owners
  <2>2. CASE Listed(f, by)
    BY <1>8, <2>1, <2>2, RemoteCall
  <2>3. CASE ~Listed(f, by)
    <3>1. PICK found : found = Least(B)
      OBVIOUS
    <3>2. B # {}
      BY <1>8
    <3>3. found \in 1 .. Len(filocks)
      BY <1>1, <1>2, <1>4, <3>1, <3>2, BlockerFound
    <3>4. by \in Owners
      <4>1. filocks[found] \in Lock
        BY <1>4, <3>3 DEF GoodList
      <4>2. QED
        BY <1>2, <3>1, <4>1, LockFacts DEF Flock
    <3>5. reccnt < t_flckrec
      BY <1>8, <2>3 DEF Room
    <3>6. sleeplcks' = <<[set |-> f, blk |-> by]>> \o sleeplcks /\ reccnt' = reccnt + 1
          /\ filocks' = filocks /\ pc' = pc
      BY <1>8, <2>3
    <3>7. QED
      BY <1>1, <2>1, <3>4, <3>5, <3>6, RemotePut
  <2>4. QED
    BY <2>2, <2>3
<1>9. QED
  BY <1>3, <1>5, <1>7, <1>8

\* cleanlocks().
LEMMA CleanStep ==
    ASSUME Inv, NEW S, CleanLocks(S)
    PROVE  Inv'
<1> DEFINE gone == {i \in DOMAIN filocks : filocks[i].set.own \in S}
           woken == UNION {WAKEUP(filocks[i]) : i \in gone}
           w == [woken |-> woken]
<1>1. /\ filocks' = Without(filocks, gone) /\ reccnt' = reccnt - Cardinality(gone)
      /\ pc' = Wake(pc, woken) /\ sleeplcks' = sleeplcks /\ call' = call
  BY DEF CleanLocks
<1>2. gone \in SUBSET (DOMAIN filocks) /\ w.woken = woken
  OBVIOUS
<1> HIDE DEF gone
<1>3. PICK V, x : V = Without(filocks, gone) /\ x = [woken |-> UNION {WAKEUP(filocks[i]) : i \in gone}]
  OBVIOUS
<1>4. GoodList(filocks) /\ Good(filocks, sleeplcks, reccnt, pc, call)
  BY InvFacts DEF Inv
<1>5. GoodList(V) /\ WSleep(filocks, x, V) /\ Len(V) = Len(filocks) - Cardinality(gone)
  BY <1>2, <1>3, <1>4, ListWithout
<1>6. x.woken = woken
  BY <1>3
<1> HIDE DEF woken, w
<1>7. /\ filocks \in Seq(Lock) /\ sleeplcks \in Seq(Entry) /\ pc \in [Local -> Stages]
      /\ call \in [Owners -> Call \cup {NULL}] /\ GoodChain(sleeplcks, pc)
      /\ reccnt = Len(filocks) + Len(sleeplcks) /\ reccnt <= t_flckrec
  BY InvFacts
<1>8. PICK pcs2 : pcs2 = Wake(pc, x.woken)
  OBVIOUS
<1>9. /\ pcs2 \in [Local -> Stages] /\ Awake(pc, pcs2, x.woken)
      /\ \A p \in Local : pcs2[p] = "user" <=> pc[p] = "user"
  BY <1>7, <1>8, WakeIs
<1>10. GoodChain(sleeplcks, pcs2) /\ Carried(sleeplcks, sleeplcks)
  BY <1>7, <1>9, SameUsers, CarriedSame
<1>11. Onward(pc, call, pcs2, call, x.woken)
  BY <1>7, <1>9 DEF Onward
<1>12. V \in Seq(Lock)
  BY <1>5 DEF GoodList
<1>13. PICK n : n = reccnt - Cardinality(gone)
  OBVIOUS
<1>14. n = Len(V) + Len(sleeplcks) /\ n <= t_flckrec
  <2>1. IsFiniteSet(gone)
    <3>1. DOMAIN filocks = 1 .. Len(filocks) /\ Len(filocks) \in Nat
      BY <1>7
    <3>2. QED
      <4>1. IsFiniteSet(1 .. Len(filocks))
        BY <3>1, FS_Interval
      <4>2. QED
        BY <1>2, <3>1, <4>1, FS_Subset
  <2>2. Cardinality(gone) \in Nat
    BY <2>1, FS_CardinalityType
  <2>3. QED
    BY <1>5, <1>7, <1>12, <1>13, <2>2, LimitsNatural
<1>15. Good(V, sleeplcks, n, pcs2, call)
  BY <1>4, <1>5, <1>10, <1>11, <1>14, ListStep
<1>16. QED
  BY <1>1, <1>3, <1>6, <1>8, <1>13, <1>15 DEF Inv

(***************************************************************************)
(* The invariant and what follows from it.                                 *)
(***************************************************************************)
\* No locks and no calls.
LEMMA InvInit == ASSUME Init PROVE Inv
<1>1. /\ filocks = <<>> /\ sleeplcks = <<>> /\ reccnt = 0
      /\ pc = [p \in Local |-> "user"] /\ call = [o \in Owners |-> NULL]
  BY DEF Init
<1>2. Len(filocks) = 0 /\ Len(sleeplcks) = 0 /\ DOMAIN filocks = {} /\ DOMAIN sleeplcks = {}
      /\ filocks \in Seq(Lock) /\ sleeplcks \in Seq(Entry)
      /\ 1 .. Len(filocks) = {} /\ 1 .. Len(sleeplcks) = {}
  BY <1>1
<1>3. \A p \in Local : pc[p] = "user"
  BY <1>1
<1>4. GoodList(filocks)
  BY <1>2 DEF GoodList, Sound, Sleeps
<1>5. GoodChain(sleeplcks, pc)
  BY <1>2, <1>3 DEF GoodChain, Entered, SleepingFor
<1>6. GoodCalls(pc, call)
  BY <1>1, <1>3 DEF GoodCalls, Stages
<1>7. GoodSleep(filocks, sleeplcks, pc, call)
  <2>1. \A S \in SUBSET {p \in Local : pc[p] = "SSLEEP"} : S = {}
    BY <1>3
  <2>2. QED
    BY <1>2, <1>3, <2>1 DEF GoodSleep, Free
<1>8. QED
  BY <1>1, <1>2, <1>4, <1>5, <1>6, <1>7, LimitsNatural DEF Inv, Good

\* Every step keeps the invariant.
LEMMA InvNext == ASSUME Inv, [Next]_vars PROVE Inv'
<1>1. CASE UNCHANGED locks
  BY <1>1 DEF locks, Inv
<1>2. ASSUME NEW p \in Local, NEW mem \in BOOLEAN, NEW f \in LocksOf(p), NEW keep \in BOOLEAN,
             ReclockWait(p, [set |-> f, keep |-> keep], mem)
      PROVE  Inv'
  BY <1>2, WaitStep
<1>3. ASSUME NEW p \in Local, NEW mem \in BOOLEAN, NEW f \in LocksOf(p), ReclockTry(p, f, mem)
      PROVE  Inv'
  BY <1>3, TryStep
<1>4. ASSUME NEW p \in Local, NEW mem \in BOOLEAN, NEW f \in UnlocksOf(p),
             ReclockUnlock(p, f, mem)
      PROVE  Inv'
  BY <1>4, UnlockStep
<1>5. ASSUME NEW p \in Local, NEW mem \in BOOLEAN, ReclockResume(p, mem)
      PROVE  Inv'
  BY <1>5, ResumeStep
<1>6. ASSUME NEW r \in Remote, NEW mem \in BOOLEAN, NEW f \in LocksOf(r), RemoteWait(r, f, mem)
      PROVE  Inv'
  BY <1>6, RemoteWaitStep
<1>7. ASSUME NEW r \in Remote, NEW mem \in BOOLEAN, NEW f \in UnlocksOf(r),
             RemoteUnlock(r, f, mem)
      PROVE  Inv'
  BY <1>7, RemoteUnlockStep
<1>8. ASSUME NEW p \in Local, Signal(p) \/ ReclockIntr(p) \/ Close(p)
      PROVE  Inv'
  BY <1>8, SignalledStep, IntrStep, CleanStep DEF Close
<1>9. CASE Recover
  BY <1>9, CleanStep DEF Recover
<1>10. ASSUME NEW r \in Remote, NEW mem \in BOOLEAN, NEW f \in LocksOf(r), RemoteTry(r, f, mem)
       PROVE  Inv'
  BY <1>10, RemoteTryStep
<1>11. ASSUME UNCHANGED vars \/ Spin \/ \E o \in Owners : Hang(o) PROVE Inv'
  BY <1>1, <1>11 DEF vars, Spin, Hang
<1>12. QED
  BY <1>2, <1>3, <1>4, <1>5, <1>6, <1>7, <1>8, <1>9, <1>10, <1>11 DEF Next

\* No sleeper, lock, entry or record is lost: the list, the chain, the count
\* and the calls of the owners always fit together.
THEOREM Invariant == Spec => []Inv
<1>1. Init => Inv
  BY InvInit
<1>2. Inv /\ [Next]_vars => Inv'
  BY InvNext
<1>3. QED
  BY <1>1, <1>2, PTL DEF Spec

\* Calls that come to their end leave the processor as they found it.
LEMMA HungNext == ASSUME hung \in BOOLEAN, [Next]_vars PROVE hung' \in BOOLEAN
<1>1. \A p \in Local, mem \in BOOLEAN :
          /\ \A r : ReclockWait(p, r, mem) => UNCHANGED hung
          /\ \A f : ReclockTry(p, f, mem) \/ ReclockUnlock(p, f, mem) => UNCHANGED hung
          /\ ReclockResume(p, mem) => UNCHANGED hung
  BY DEF ReclockWait, ReclockTry, ReclockUnlock, ReclockResume, Running
<1>2. \A r, f, mem : RemoteWait(r, f, mem) \/ RemoteTry(r, f, mem) \/ RemoteUnlock(r, f, mem)
                     => UNCHANGED hung
  BY DEF RemoteWait, RemoteTry, RemoteUnlock, Running
<1>3. /\ \A p : Signal(p) \/ ReclockIntr(p) \/ Close(p) => UNCHANGED hung
      /\ Recover => UNCHANGED hung
  BY DEF Signal, ReclockIntr, Close, Recover, CleanLocks, Running
<1>4. \A o : Hang(o) => hung' = TRUE
  BY DEF Hang
<1>5. QED
  BY <1>1, <1>2, <1>3, <1>4 DEF Next, Spin, vars

\* The invariant contains what TypeOK says.
LEMMA InvTyped == ASSUME Inv, hung \in BOOLEAN PROVE TypeOK
<1>1. /\ GoodList(filocks) /\ GoodChain(sleeplcks, pc) /\ GoodCalls(pc, call)
      /\ filocks \in Seq(Lock) /\ sleeplcks \in Seq(Entry)
      /\ reccnt = Len(filocks) + Len(sleeplcks) /\ reccnt <= t_flckrec
  BY InvFacts
<1>2. \A p \in Local :
          Cardinality(SleepingFor(sleeplcks, p)) = IF pc[p] = "user" THEN 0 ELSE 1
  BY <1>1, EnteredIs DEF GoodChain
<1>3. sleeplcks \in Seq([set : Flock, blk : Owners])
  BY <1>1 DEF Entry
<1>4. \A i \in DOMAIN filocks : filocks[i].set.type \in Types
  BY <1>1 DEF GoodList
<1>5. reccnt \in 0 .. t_flckrec
  BY <1>1, LimitsNatural
<1>6. /\ pc \in [Local -> {"user", "SSLEEP", "woken", "signalled"}]
      /\ call \in [Owners -> Call \cup {NULL}]
  BY <1>1 DEF GoodCalls, Stages
<1>7. QED
  BY <1>1, <1>2, <1>3, <1>4, <1>5, <1>6 DEF TypeOK

\* TypeOK: every variable of os/flock.c keeps its type, reccnt is the number
\* of records on v_filocks and sleeplcks and within t_flckrec, and a local
\* owner has an entry on sleeplcks exactly while it is inside a wait.
THEOREM Typed == Spec => []TypeOK
<1>1. Inv /\ hung \in BOOLEAN => TypeOK
  BY InvTyped
<1>2. Init => hung \in BOOLEAN
  BY DEF Init
<1>3. hung \in BOOLEAN /\ [Next]_vars => (hung \in BOOLEAN)'
  BY HungNext
<1>4. QED
  BY <1>1, <1>2, <1>3, Invariant, PTL DEF Spec

\* ListSound: insflck(), delflck() and flckadj() keep v_filocks ordered, locks
\* of one owner apart or different, and no byte for two owners if one writes.
THEOREM ListCorrect == Spec => []ListSound
<1>1. Inv /\ TypeOK => ListSound
  <2>1. SUFFICES ASSUME Inv, TypeOK PROVE ListSound
    OBVIOUS
  <2>2. Sound(filocks)
    BY <2>1, InvFacts DEF GoodList
  <2>3. QED
    BY <2>1, <2>2, SoundIs
<1>2. QED
  BY <1>1, Invariant, Typed, PTL

\* AdjustExact: from every list that comes about, flckadj() makes the owner's
\* region what the request asks, byte by byte, and leaves the others alone;
\* short of records, it takes nothing from anybody else and gives nothing.
THEOREM AdjustsExactly == Spec => []AdjustExact
<1>1. Inv => AdjustExact
  <2>1. SUFFICES ASSUME Inv PROVE AdjustExact
    OBVIOUS
  <2>2. /\ filocks \in Seq(Lock) /\ Sound(filocks) /\ Sleeps(filocks)
        /\ \A j \in 1 .. Len(filocks) : filocks[j].set.type \in Types
        /\ reccnt \in Int /\ reccnt <= t_flckrec
    BY <2>1, InvFacts DEF GoodList
  <2>3. QED
    BY <2>2, AdjustExactIs
<1>2. QED
  BY <1>1, Invariant, PTL

\* SleeperBlocked: a process asleep in reclock() is on the queue of a lock
\* that is still in its way and whose next change will wake it.
THEOREM NoLostWakeup == Spec => []SleeperBlocked
<1>1. Inv => SleeperBlocked
  <2>1. SUFFICES ASSUME Inv, NEW p \in Local, pc[p] = "SSLEEP"
                 PROVE  \E i \in DOMAIN filocks : /\ p \in filocks[i].slp
                                                  /\ filocks[i].wakeflg
                                                  /\ i \in Blockers(filocks, call[p].set)
    BY DEF SleeperBlocked
  <2>2. /\ GoodList(filocks) /\ GoodCalls(pc, call)
        /\ GoodSleep(filocks, sleeplcks, pc, call)
    BY <2>1 DEF Inv, Good
  <2>3. filocks \in Seq(Lock) /\ Sound(filocks) /\ Sleeps(filocks)
    BY <2>2 DEF GoodList
  <2>4. PICK i \in 1 .. Len(filocks) : p \in filocks[i].slp /\ Bars(filocks[i].set, call[p].set)
    BY <2>1, <2>2 DEF GoodSleep
  <2>5. call[p].set \in Flock
    BY <2>1, <2>2 DEF GoodCalls, Call
  <2>6. i \in Blockers(filocks, call[p].set)
    BY <2>3, <2>4, <2>5, BlockersIs
  <2>7. filocks[i].wakeflg
    BY <2>3, <2>4 DEF Sleeps
  <2>8. i \in DOMAIN filocks
    BY <2>3
  <2>9. QED
    BY <2>4, <2>6, <2>7, <2>8
<1>2. QED
  BY <1>1, Invariant, PTL

\* NoDeadlock: no processes sleep on locks that only they themselves hold.
\* deadflck() follows only one entry of each owner, yet a process goes to
\* sleep only after it has come to the end of a chain that does not meet it.
THEOREM DeadlockFree == Spec => []NoDeadlock
<1>1. Inv => NoDeadlock
  <2>1. SUFFICES ASSUME Inv, NEW S \in SUBSET {p \in Local : pc[p] = "SSLEEP"}, S # {}
                 PROVE  \E p \in S : ~(WaitsFor(p) \subseteq S)
    BY DEF NoDeadlock
  <2>2. Free(filocks, pc) /\ filocks \in Seq(Lock)
    BY <2>1, InvFacts DEF Inv, Good, GoodSleep
  <2>3. PICK p \in S, i \in 1 .. Len(filocks) :
            p \in filocks[i].slp /\ filocks[i].set.own \notin S
    BY <2>1, <2>2 DEF Free
  <2>4. i \in DOMAIN filocks
    BY <2>2
  <2>5. filocks[i].set.own \in WaitsFor(p)
    BY <2>3, <2>4 DEF WaitsFor
  <2>6. QED
    BY <2>3, <2>5
<1>2. QED
  BY <1>1, Invariant, PTL

=============================================================================

------------------------------ MODULE MsgTables ------------------------------
(***************************************************************************)
(* Lemmas about the tables of the System V messages, Msg, and about the    *)
(* resource maps, Rmap, for any number of queues, headers and units of     *)
(* text.  The lists of headers are followed in the tables; the lemmas      *)
(* speak instead of sequences, chain, that the pointers follow, and spans  *)
(* of the pool, text, that the headers own.  Books() says that tables,     *)
(* sequences and spans agree, Told() that a change of the tables has woken *)
(* everyone it should: every helper of os/msg.c is shown to keep the one   *)
(* and do the other.                                                       *)
(***************************************************************************)
EXTENDS Msg, FiniteSetTheorems, WellFoundedInduction, TLAPS

(***************************************************************************)
(* Induction, with sets of numbers.                                        *)
(***************************************************************************)

\* A set of natural numbers has a least element, and First() finds it.
LEMMA FirstIs ==
    ASSUME NEW T, T \subseteq Nat, T # {}
    PROVE  /\ First(T) \in T
           /\ \A m \in T : First(T) <= m
<1>1. PICK x \in T : \A y \in T : ~(<<y, x>> \in OpToRel(<, Nat))
  BY NatLessThanWellFounded, WFMin
<1>2. \A y \in T : ~(y < x)
  BY <1>1 DEF OpToRel
<1>3. \E n \in T : \A m \in T : n <= m
  BY <1>2
<1>4. QED
  BY <1>3 DEF First

\* A set that has 0, and with every number the next one, up to N, has them all.
LEMMA Induction ==
    ASSUME NEW S, NEW N \in Nat, 0 \in S,
           \A n \in 1 .. N : n - 1 \in S => n \in S
    PROVE  \A n \in 0 .. N : n \in S
<1> DEFINE T == {n \in 0 .. N : n \notin S}
<1>1. SUFFICES ASSUME T # {} PROVE FALSE
  OBVIOUS
<1>2. T \subseteq Nat
  OBVIOUS
<1>3. First(T) \in T /\ \A m \in T : First(T) <= m
  BY <1>1, <1>2, FirstIs
<1>4. PICK n \in T : \A m \in T : n <= m
  BY <1>3
<1>5. n \in 1 .. N /\ n - 1 \in 0 .. N /\ ~(n <= n - 1)
  BY <1>4
<1>6. n - 1 \in T
  BY <1>4, <1>5
<1>7. QED
  BY <1>4, <1>5, <1>6

(***************************************************************************)
(* Sequences.                                                              *)
(***************************************************************************)

\* Two sequences one after the other.
LEMMA JoinedIs ==
    ASSUME NEW S, NEW s \in Seq(S), NEW t \in Seq(S)
    PROVE  /\ s \o t \in Seq(S)
           /\ Len(s \o t) = Len(s) + Len(t)
           /\ \A j \in 1 .. Len(s) : (s \o t)[j] = s[j]
           /\ \A j \in 1 .. Len(t) : (s \o t)[Len(s) + j] = t[j]
<1>1. s \o t \in Seq(S)
  OBVIOUS
<1>2. Len(s \o t) = Len(s) + Len(t) /\ \A j \in 1 .. Len(s) : (s \o t)[j] = s[j]
  OBVIOUS
<1>3. \A j \in 1 .. Len(t) : (s \o t)[Len(s) + j] = t[j]
  OBVIOUS
<1>4. QED
  BY <1>1, <1>2, <1>3

\* Closed() takes one out, and what is behind it moves up.
LEMMA ClosedIs ==
    ASSUME NEW S, NEW s \in Seq(S), NEW k \in 1 .. Len(s)
    PROVE  /\ Closed(s, k) \in Seq(S)
           /\ Len(Closed(s, k)) = Len(s) - 1
           /\ \A j \in 1 .. k - 1 : Closed(s, k)[j] = s[j]
           /\ \A j \in k .. Len(s) - 1 : Closed(s, k)[j] = s[j + 1]
<1> DEFINE a == SubSeq(s, 1, k - 1)
           c == SubSeq(s, k + 1, Len(s))
<1>1. /\ a \in Seq(S) /\ Len(a) = k - 1
      /\ \A j \in 1 .. k - 1 : a[j] = s[j]
  OBVIOUS
<1>2. /\ c \in Seq(S) /\ Len(c) = Len(s) - k
      /\ \A j \in 1 .. Len(s) - k : c[j] = s[k + j]
  OBVIOUS
<1>3. Closed(s, k) = a \o c
  BY DEF Closed
<1>4. Len(s) \in Nat
  OBVIOUS
<1> HIDE DEF a, c
<1> DEFINE t == a \o c
<1>5. /\ t \in Seq(S) /\ Len(t) = Len(a) + Len(c)
      /\ \A j \in 1 .. Len(a) : t[j] = a[j]
      /\ \A j \in 1 .. Len(c) : t[Len(a) + j] = c[j]
  <2>1. a \in Seq(S) /\ c \in Seq(S)
    BY <1>1, <1>2
  <2>2. QED
    BY <2>1, JoinedIs
<1> HIDE DEF t
<1>6. ASSUME NEW j \in k .. Len(s) - 1 PROVE t[j] = s[j + 1]
  <2>1. PICK m \in 1 .. Len(c) : Len(a) + m = j /\ k + m = j + 1
    <3>1. j - (k - 1) \in 1 .. Len(c) /\ Len(a) + (j - (k - 1)) = j /\ k + (j - (k - 1)) = j + 1
      BY <1>1, <1>2, <1>4
    <3>2. QED
      BY <3>1
  <2>2. t[Len(a) + m] = c[m]
    BY <1>5
  <2>3. m \in 1 .. Len(s) - k
    BY <1>2
  <2>4. c[m] = s[k + m]
    BY <1>2, <2>3
  <2>5. QED
    BY <2>1, <2>2, <2>4
<1>7. \A j \in 1 .. k - 1 : t[j] = s[j]
  BY <1>1, <1>5
<1>8. Len(t) = Len(s) - 1
  BY <1>1, <1>2, <1>4, <1>5
<1>9. QED
  BY <1>3, <1>5, <1>6, <1>7, <1>8 DEF t

\* t is s with e behind the first n.
OpenedAs(s, n, e, t) ==
    /\ t \in Seq(Extent)
    /\ Len(t) = Len(s) + 1
    /\ t[n + 1] = e
    /\ \A j \in 1 .. n : t[j] = s[j]
    /\ \A j \in n + 2 .. Len(s) + 1 : t[j] = s[j - 1]

\* Opened() gives it.
LEMMA InsertIs ==
    ASSUME NEW s \in Seq(Extent), NEW n \in 0 .. Len(s), NEW e \in Extent, NEW t, t = Opened(s, n, e)
    PROVE  OpenedAs(s, n, e, t)
<1> DEFINE a == SubSeq(s, 1, n)
           c == SubSeq(s, n + 1, Len(s))
<1>1. /\ a \in Seq(Extent) /\ Len(a) = n
      /\ \A j \in 1 .. n : a[j] = s[j]
  OBVIOUS
<1>2. /\ c \in Seq(Extent) /\ Len(c) = Len(s) - n
      /\ \A j \in 1 .. Len(s) - n : c[j] = s[n + j]
  OBVIOUS
<1>3. t = a \o <<e>> \o c
  BY DEF Opened
<1>4. <<e>> \in Seq(Extent) /\ Len(<<e>>) = 1 /\ <<e>>[1] = e
  OBVIOUS
<1> HIDE DEF a, c
<1> DEFINE d == a \o <<e>>
<1>5. /\ d \in Seq(Extent) /\ Len(d) = n + 1 /\ d[n + 1] = e
      /\ \A j \in 1 .. n : d[j] = s[j]
  BY <1>1, <1>4
<1>6. t = d \o c
  BY <1>3
<1> HIDE DEF d
<1>7. /\ t \in Seq(Extent) /\ Len(t) = Len(d) + Len(c)
      /\ \A j \in 1 .. Len(d) : t[j] = d[j]
      /\ \A j \in 1 .. Len(c) : t[Len(d) + j] = c[j]
  <2>1. d \in Seq(Extent) /\ c \in Seq(Extent)
    BY <1>2, <1>5
  <2>2. QED
    BY <1>6, <2>1, JoinedIs
<1>8. Len(t) = Len(s) + 1 /\ Len(s) \in Nat
  BY <1>2, <1>5, <1>7
<1>9. ASSUME NEW j \in n + 2 .. Len(s) + 1 PROVE t[j] = s[j - 1]
  <2>1. PICK m \in 1 .. Len(c) : Len(d) + m = j /\ n + m = j - 1
    <3>1. j - (n + 1) \in 1 .. Len(c) /\ Len(d) + (j - (n + 1)) = j /\ n + (j - (n + 1)) = j - 1
      BY <1>2, <1>5, <1>8
    <3>2. QED
      BY <3>1
  <2>2. t[Len(d) + m] = c[m]
    BY <1>7
  <2>3. m \in 1 .. Len(s) - n
    BY <1>2
  <2>4. c[m] = s[n + m]
    BY <1>2, <2>3
  <2>5. QED
    BY <2>1, <2>2, <2>4
<1>10. t[n + 1] = e /\ \A j \in 1 .. n : t[j] = s[j]
  BY <1>5, <1>7
<1>11. QED
  BY <1>7, <1>8, <1>9, <1>10 DEF OpenedAs

\* One put in front of the others.
LEMMA FrontIs ==
    ASSUME NEW S, NEW s \in Seq(S), NEW e \in S
    PROVE  /\ <<e>> \o s \in Seq(S)
           /\ Len(<<e>> \o s) = Len(s) + 1
           /\ (<<e>> \o s)[1] = e
           /\ \A j \in 2 .. Len(s) + 1 : (<<e>> \o s)[j] = s[j - 1]
<1> DEFINE o == <<e>>
           t == o \o s
<1>1. o \in Seq(S) /\ Len(o) = 1 /\ o[1] = e
  OBVIOUS
<1> HIDE DEF o
<1>2. /\ t \in Seq(S) /\ Len(t) = Len(o) + Len(s)
      /\ \A j \in 1 .. Len(o) : t[j] = o[j]
      /\ \A j \in 1 .. Len(s) : t[Len(o) + j] = s[j]
  BY <1>1, JoinedIs
<1> HIDE DEF t
<1>3. Len(s) \in Nat
  OBVIOUS
<1>4. ASSUME NEW j \in 2 .. Len(s) + 1 PROVE t[j] = s[j - 1]
  <2>1. j - 1 \in 1 .. Len(s) /\ Len(o) + (j - 1) = j
    BY <1>1, <1>3
  <2>2. QED
    BY <1>2, <2>1
<1>5. t[1] = e /\ Len(t) = Len(s) + 1
  BY <1>1, <1>2, <1>3
<1>6. QED
  BY <1>2, <1>4, <1>5 DEF t, o

(***************************************************************************)
(* Chains of headers.                                                      *)
(***************************************************************************)

\* No header is on c twice.
Once(c) == \A i, j \in 1 .. Len(c) : c[i] = c[j] => i = j

\* c is what the pointers lead to from first on.
Run(hd, first, c) ==
    /\ c \in Seq(Headers) /\ Once(c)
    /\ first = IF c = <<>> THEN NULL ELSE c[1]
    /\ \A i \in 1 .. Len(c) : hd[c[i]].next = IF i = Len(c) THEN NULL ELSE c[i + 1]

\* A chain is not longer than there are headers.
LEMMA ChainBounded ==
    ASSUME NEW c \in Seq(Headers), Once(c)
    PROVE  Len(c) <= Cardinality(Headers) /\ Len(c) \in Nat /\ Cardinality(Headers) \in Nat
<1>1. Len(c) \in Nat
  OBVIOUS
<1>2. Cardinality(Headers) \in Nat
  BY HeadersFinite, FS_CardinalityType
<1>3. SUFFICES ASSUME Cardinality(Headers) < Len(c) PROVE FALSE
  BY <1>1, <1>2
<1>4. IsFiniteSet(1 .. Len(c)) /\ Cardinality(1 .. Len(c)) = Len(c)
  BY <1>1, FS_Interval
<1>5. c \in [1 .. Len(c) -> Headers]
  OBVIOUS
<1>6. \E x, y \in 1 .. Len(c) : x # y /\ c[x] = c[y]
  BY <1>3, <1>4, <1>5, HeadersFinite, FS_PigeonHole
<1>7. QED
  BY <1>6 DEF Once

\* at, as Chain() defines it.
At(k, q) ==
    LET at[i \in 0 .. Cardinality(Headers) + 1] ==
          IF i = 0 THEN k.que[q].first
          ELSE IF at[i - 1] = NULL THEN NULL ELSE k.hdr[at[i - 1]].next
    IN  at

\* Where the walk from first along next ends.
Ends(k, q) ==
    CHOOSE i \in 0 .. Cardinality(Headers) + 1 :
        /\ At(k, q)[i] = NULL \/ i = Cardinality(Headers) + 1
        /\ \A j \in 0 .. i - 1 : At(k, q)[j] # NULL

\* Chain() finds it.
LEMMA ChainIs ==
    ASSUME NEW k, NEW q, NEW c, Run(k.hdr, k.que[q].first, c)
    PROVE  Chain(k, q) = c
<1>0. /\ c \in Seq(Headers) /\ Once(c)
      /\ k.que[q].first = IF c = <<>> THEN NULL ELSE c[1]
      /\ \A i \in 1 .. Len(c) : k.hdr[c[i]].next = IF i = Len(c) THEN NULL ELSE c[i + 1]
  BY DEF Run
<1> DEFINE N == Cardinality(Headers)
           body(f, i) == IF i = 0 THEN k.que[q].first
                         ELSE IF f[i - 1] = NULL THEN NULL ELSE k.hdr[f[i - 1]].next
           g == [i \in 0 .. N + 1 |-> IF i < Len(c) THEN c[i + 1] ELSE NULL]
           at == At(k, q)
<1>1. Len(c) \in Nat /\ N \in Nat /\ Len(c) <= N
  BY <1>0, ChainBounded
<1>2. \A i \in 1 .. Len(c) : c[i] \in Headers /\ c[i] # NULL
  BY <1>0, NullIsNothing
<1>3. c = <<>> <=> Len(c) = 0
  BY <1>0
<1> HIDE DEF N
<1>4. ASSUME NEW i \in 0 .. N + 1 PROVE g[i] = body(g, i)
  <2>1. CASE i = 0
    BY <1>0, <1>1, <1>3, <2>1
  <2>2. CASE i # 0
    <3>1. i - 1 \in 0 .. N + 1 /\ i \in 1 .. N + 1
      BY <1>1, <2>2
    <3>2. CASE i - 1 < Len(c)
      <4>1. g[i - 1] = c[i] /\ i \in 1 .. Len(c)
        BY <1>1, <3>1, <3>2
      <4>2. g[i] = IF i = Len(c) THEN NULL ELSE c[i + 1]
        BY <1>1, <3>1, <4>1
      <4>3. k.hdr[c[i]].next = IF i = Len(c) THEN NULL ELSE c[i + 1]
        BY <1>0, <4>1
      <4>4. c[i] # NULL
        BY <1>2, <4>1
      <4>5. body(g, i) = k.hdr[c[i]].next
        <5> HIDE DEF g
        <5>1. QED
          BY <2>2, <4>1, <4>4
      <4>6. QED
        BY <4>2, <4>3, <4>5
    <3>3. CASE ~(i - 1 < Len(c))
      <4>1. g[i - 1] = NULL /\ g[i] = NULL
        BY <1>1, <3>1, <3>3
      <4>2. QED
        BY <2>2, <4>1
    <3>4. QED
      BY <3>2, <3>3
  <2>3. QED
    BY <2>1, <2>2
<1>5. g = [i \in 0 .. N + 1 |-> body(g, i)]
  <2>1. g = [i \in 0 .. N + 1 |-> g[i]]
    OBVIOUS
  <2> HIDE DEF g, body
  <2>2. QED
    BY <1>4, <2>1
<1>6. at = CHOOSE f : f = [i \in 0 .. N + 1 |-> body(f, i)]
  BY DEF At, N
<1>7. at = [i \in 0 .. N + 1 |-> body(at, i)]
  <2> HIDE DEF body, at, g
  <2>1. QED
    BY <1>5, <1>6
<1> HIDE DEF at
<1>8. ASSUME NEW i \in 0 .. N + 1 PROVE at[i] = g[i]
  <2> DEFINE S == {n \in 0 .. N + 1 : at[n] = g[n]}
  <2>1. \A n \in 0 .. N + 1 : at[n] = body(at, n) /\ g[n] = body(g, n)
    <3> HIDE DEF body
    <3>1. QED
      BY <1>4, <1>7, Zenon
  <2> HIDE DEF g
  <2>2. 0 \in 0 .. N + 1 /\ N + 1 \in Nat
    BY <1>1
  <2>3. 0 \in S
    BY <2>1, <2>2
  <2>4. ASSUME NEW n \in 1 .. N + 1, n - 1 \in S PROVE n \in S
    <3>1. n \in 0 .. N + 1 /\ n # 0
      BY <2>2
    <3>2. at[n - 1] = g[n - 1]
      BY <2>4
    <3>3. at[n] = body(at, n) /\ g[n] = body(g, n)
      BY <2>1, <3>1
    <3>4. QED
      BY <3>1, <3>2, <3>3
  <2> HIDE DEF S
  <2>5. \A n \in 0 .. N + 1 : n \in S
    BY <2>2, <2>3, <2>4, Induction
  <2>6. QED
    BY <2>5 DEF S
<1>9. \A i \in 0 .. N + 1 : at[i] = IF i < Len(c) THEN c[i + 1] ELSE NULL
  BY <1>8
<1> HIDE DEF g
<1> DEFINE P(i) == /\ at[i] = NULL \/ i = N + 1
                   /\ \A j \in 0 .. i - 1 : at[j] # NULL
<1>10. Len(c) \in 0 .. N + 1 /\ P(Len(c))
  <2>1. Len(c) \in 0 .. N + 1
    BY <1>1
  <2>2. at[Len(c)] = NULL
    BY <1>1, <1>9, <2>1
  <2>3. ASSUME NEW j \in 0 .. Len(c) - 1 PROVE at[j] # NULL
    BY <1>1, <1>2, <1>9
  <2>4. QED
    BY <2>1, <2>2, <2>3
<1>11. ASSUME NEW i \in 0 .. N + 1, P(i) PROVE i = Len(c)
  <2>1. CASE i < Len(c)
    <3>1. i + 1 \in 1 .. Len(c) /\ i # N + 1
      BY <1>1, <2>1
    <3>2. at[i] # NULL
      BY <1>2, <1>9, <2>1, <3>1
    <3>3. QED
      BY <1>11, <3>1, <3>2
  <2>2. CASE Len(c) < i
    <3>1. Len(c) \in 0 .. i - 1
      BY <1>1, <2>2
    <3>2. at[Len(c)] = NULL
      BY <1>10, <1>1, <1>9
    <3>3. QED
      BY <1>11, <3>1, <3>2
  <2>3. QED
    BY <1>1, <2>1, <2>2
<1>12. Ends(k, q) = CHOOSE i \in 0 .. N + 1 : P(i)
  BY DEF Ends, at, N
<1> HIDE DEF P
<1>13. Ends(k, q) = Len(c)
  BY <1>10, <1>11, <1>12
<1>14. Chain(k, q) = [i \in 1 .. Ends(k, q) |-> at[i - 1]]
  BY DEF Chain, Ends, At, at
<1>15. ASSUME NEW i \in 1 .. Len(c) PROVE at[i - 1] = c[i]
  <2>1. i - 1 \in 0 .. N + 1 /\ i - 1 < Len(c) /\ (i - 1) + 1 = i
    BY <1>1
  <2>2. QED
    BY <1>9, <2>1
<1>16. Chain(k, q) = [i \in 1 .. Len(c) |-> c[i]]
  BY <1>13, <1>14, <1>15
<1>17. QED
  BY <1>0, <1>16

(***************************************************************************)
(* The bytes on a chain.                                                   *)
(***************************************************************************)

\* sum, as SumTs() defines it, with the headers hd.
Sums(hd, c) ==
    LET sum[i \in 0 .. Len(c)] == IF i = 0 THEN 0 ELSE sum[i - 1] + hd[c[i]].ts
    IN  sum

\* The bytes of the messages on c.
Total(hd, c) == Sums(hd, c)[Len(c)]

\* The recursive function sum is as its defining equation says.
LEMMA SumsIs ==
    ASSUME NEW hd \in [Headers -> Header], NEW c \in Seq(Headers)
    PROVE  /\ Sums(hd, c)[0] = 0
           /\ \A i \in 1 .. Len(c) : Sums(hd, c)[i] = Sums(hd, c)[i - 1] + hd[c[i]].ts
<1> DEFINE step(x, i) == x + hd[c[i]].ts
           body(f, i) == IF i = 0 THEN 0 ELSE step(f[i - 1], i)
           N == Len(c)
           S == {n \in Nat : \E f : f = [i \in 0 .. n |-> body(f, i)]}
<1>0. N \in Nat
  OBVIOUS
<1> HIDE DEF step
<1>1. 0 \in S
  <2> DEFINE f == [i \in 0 .. 0 |-> 0]
  <2>1. f = [i \in 0 .. 0 |-> body(f, i)]
    OBVIOUS
  <2>2. QED
    BY <2>1
<1>2. ASSUME NEW n \in 1 .. N, n - 1 \in S PROVE n \in S
  <2>1. PICK f : f = [i \in 0 .. n - 1 |-> body(f, i)]
    BY <1>2
  <2> DEFINE h == [i \in 0 .. n |-> IF i = n THEN step(f[n - 1], n) ELSE f[i]]
  <2>2. ASSUME NEW i \in 0 .. n PROVE h[i] = body(h, i)
    <3>1. CASE i = n
      <4>1. h[n - 1] = f[n - 1] /\ n # 0
        BY <1>0
      <4>2. h[n] = step(f[n - 1], n)
        BY <1>0
      <4> HIDE DEF h
      <4>3. QED
        BY <4>1, <4>2, <3>1
    <3>2. CASE i # n
      <4>1. i \in 0 .. n - 1
        BY <3>2, <1>0
      <4>2. f[i] = body(f, i)
        BY <2>1, <4>1
      <4>3. h[i] = f[i] /\ (i # 0 => h[i - 1] = f[i - 1])
        BY <4>1, <1>0
      <4> HIDE DEF h
      <4>4. QED
        BY <4>2, <4>3
    <3>3. QED
      BY <3>1, <3>2
  <2>3. h = [i \in 0 .. n |-> body(h, i)]
    <3>1. h = [i \in 0 .. n |-> h[i]]
      OBVIOUS
    <3> HIDE DEF h, body
    <3>2. QED
      BY <3>1, <2>2
  <2> HIDE DEF h
  <2>4. QED
    BY <2>3, <1>0
<1>3. N \in S
  <2>1. \A n \in 1 .. N : n - 1 \in S => n \in S
    BY <1>2
  <2> HIDE DEF S, N
  <2>2. \A n \in 0 .. N : n \in S
    BY <1>0, <1>1, <2>1, Induction
  <2>3. QED
    BY <2>2, <1>0
<1>4. \E f : f = [i \in 0 .. N |-> body(f, i)]
  BY <1>3
<1>5. Sums(hd, c) = CHOOSE f : f = [i \in 0 .. N |-> body(f, i)]
  BY Zenon DEF Sums, step
<1>6. Sums(hd, c) = [i \in 0 .. N |-> body(Sums(hd, c), i)]
  <2> HIDE DEF body
  <2>1. QED
    BY <1>4, <1>5
<1>7. \A i \in 0 .. N : Sums(hd, c)[i] = body(Sums(hd, c), i)
  <2> HIDE DEF body
  <2>1. QED
    BY <1>6, Zenon
<1> HIDE DEF N
<1>8. 0 \in 0 .. N /\ \A i \in 1 .. N : i \in 0 .. N /\ i # 0
  BY <1>0
<1>9. QED
  BY <1>7, <1>8 DEF step, N

\* The sums are numbers.
LEMMA SumsNat ==
    ASSUME NEW hd \in [Headers -> Header], NEW c \in Seq(Headers)
    PROVE  \A i \in 0 .. Len(c) : Sums(hd, c)[i] \in Nat
<1> DEFINE s == Sums(hd, c)
           S == {i \in 0 .. Len(c) : s[i] \in Nat}
<1>1. Len(c) \in Nat
  OBVIOUS
<1>2. s[0] = 0 /\ \A i \in 1 .. Len(c) : s[i] = s[i - 1] + hd[c[i]].ts
  BY SumsIs
<1> HIDE DEF s
<1>3. \A i \in 1 .. Len(c) : hd[c[i]].ts \in Nat
  BY DEF Header
<1>4. 0 \in S
  BY <1>1, <1>2
<1>5. ASSUME NEW i \in 1 .. Len(c), i - 1 \in S PROVE i \in S
  <2>1. s[i - 1] \in Nat /\ hd[c[i]].ts \in Nat /\ s[i] = s[i - 1] + hd[c[i]].ts
    BY <1>2, <1>3, <1>5
  <2>2. i \in 0 .. Len(c)
    BY <1>1
  <2>3. QED
    BY <2>1, <2>2
<1> HIDE DEF S
<1>6. \A i \in 0 .. Len(c) : i \in S
  BY <1>1, <1>4, <1>5, Induction
<1>7. QED
  BY <1>6 DEF S, s

\* Parts of chains with the same sizes have the same sum.
LEMMA SumsSame ==
    ASSUME NEW hd \in [Headers -> Header], NEW c \in Seq(Headers),
           NEW hd2 \in [Headers -> Header], NEW c2 \in Seq(Headers),
           NEW n \in Nat, n <= Len(c), n <= Len(c2),
           \A j \in 1 .. n : hd2[c2[j]].ts = hd[c[j]].ts
    PROVE  Sums(hd2, c2)[n] = Sums(hd, c)[n]
<1> DEFINE s == Sums(hd, c)
           t == Sums(hd2, c2)
           S == {i \in 0 .. n : t[i] = s[i]}
<1>1. Len(c) \in Nat /\ Len(c2) \in Nat
  OBVIOUS
<1>2. s[0] = 0 /\ \A i \in 1 .. Len(c) : s[i] = s[i - 1] + hd[c[i]].ts
  BY SumsIs
<1>3. t[0] = 0 /\ \A i \in 1 .. Len(c2) : t[i] = t[i - 1] + hd2[c2[i]].ts
  BY SumsIs
<1> HIDE DEF s, t
<1>4. 0 \in S
  BY <1>2, <1>3
<1>5. ASSUME NEW i \in 1 .. n, i - 1 \in S PROVE i \in S
  <2>1. i \in 1 .. Len(c) /\ i \in 1 .. Len(c2) /\ i \in 0 .. n
    BY <1>1
  <2>2. t[i - 1] = s[i - 1] /\ hd2[c2[i]].ts = hd[c[i]].ts
    BY <1>5
  <2>3. QED
    BY <1>2, <1>3, <2>1, <2>2
<1> HIDE DEF S
<1>6. \A i \in 0 .. n : i \in S
  BY <1>4, <1>5, Induction
<1>7. n \in S
  BY <1>6
<1>8. QED
  BY <1>7 DEF S, s, t

\* and so is the total, 0 for no messages.
LEMMA TotalNat ==
    ASSUME NEW hd \in [Headers -> Header], NEW c \in Seq(Headers)
    PROVE  Total(hd, c) \in Nat /\ (c = <<>> => Total(hd, c) = 0)
<1>1. Len(c) \in 0 .. Len(c)
  OBVIOUS
<1>2. Total(hd, c) \in Nat
  BY <1>1, SumsNat DEF Total
<1>3. ASSUME c = <<>> PROVE Total(hd, c) = 0
  <2>1. Len(c) = 0
    BY <1>3
  <2>2. QED
    BY <2>1, SumsIs DEF Total
<1>4. QED
  BY <1>2, <1>3

\* The total depends on the sizes of the headers on the list only.
LEMMA TotalSame ==
    ASSUME NEW hd \in [Headers -> Header], NEW c \in Seq(Headers),
           NEW hd2 \in [Headers -> Header],
           \A j \in 1 .. Len(c) : hd2[c[j]].ts = hd[c[j]].ts
    PROVE  Total(hd2, c) = Total(hd, c)
<1>1. Len(c) \in Nat
  OBVIOUS
<1>2. QED
  BY <1>1, SumsSame DEF Total

\* A header at the end adds its bytes,
LEMMA TotalAppend ==
    ASSUME NEW hd \in [Headers -> Header], NEW c \in Seq(Headers),
           NEW hd2 \in [Headers -> Header], NEW h \in Headers,
           \A j \in 1 .. Len(c) : hd2[c[j]].ts = hd[c[j]].ts
    PROVE  Total(hd2, Append(c, h)) = Total(hd, c) + hd2[h].ts
<1> DEFINE d == Append(c, h)
<1>1. /\ d \in Seq(Headers) /\ Len(d) = Len(c) + 1 /\ d[Len(d)] = h
      /\ \A j \in 1 .. Len(c) : d[j] = c[j]
  OBVIOUS
<1> HIDE DEF d
<1>2. Len(c) \in Nat /\ Len(c) <= Len(d) /\ Len(d) \in 1 .. Len(d) /\ Len(d) - 1 = Len(c)
  BY <1>1
<1>3. \A j \in 1 .. Len(c) : hd2[d[j]].ts = hd[c[j]].ts
  BY <1>1
<1>4. Sums(hd2, d)[Len(c)] = Sums(hd, c)[Len(c)]
  BY <1>1, <1>2, <1>3, SumsSame
<1>5. Sums(hd2, d)[Len(d)] = Sums(hd2, d)[Len(d) - 1] + hd2[d[Len(d)]].ts
  BY <1>1, <1>2, SumsIs
<1>6. QED
  BY <1>1, <1>2, <1>4, <1>5 DEF Total, d

\* and one that is taken out had them.
LEMMA TotalClosed ==
    ASSUME NEW hd \in [Headers -> Header], NEW c \in Seq(Headers), NEW i \in 1 .. Len(c),
           NEW hd2 \in [Headers -> Header],
           \A j \in 1 .. Len(c) : j # i => hd2[c[j]].ts = hd[c[j]].ts
    PROVE  Total(hd2, Closed(c, i)) = Total(hd, c) - hd[c[i]].ts
<1> DEFINE d == Closed(c, i)
           s == Sums(hd, c)
           t == Sums(hd2, d)
           S == {n \in 0 .. Len(d) : t[n] = IF n < i THEN s[n] ELSE s[n + 1] - hd[c[i]].ts}
<1>1. /\ d \in Seq(Headers) /\ Len(d) = Len(c) - 1
      /\ \A j \in 1 .. i - 1 : d[j] = c[j]
      /\ \A j \in i .. Len(c) - 1 : d[j] = c[j + 1]
  BY ClosedIs
<1> HIDE DEF d
<1>2. Len(c) \in Nat /\ Len(d) \in Nat
  BY <1>1
<1>3. s[0] = 0 /\ \A n \in 1 .. Len(c) : s[n] = s[n - 1] + hd[c[n]].ts
  BY SumsIs
<1>4. t[0] = 0 /\ \A n \in 1 .. Len(d) : t[n] = t[n - 1] + hd2[d[n]].ts
  BY <1>1, SumsIs
<1>5. \A n \in 0 .. Len(c) : s[n] \in Nat
  BY SumsNat
<1> HIDE DEF s, t
<1>6. \A n \in 1 .. Len(c) : hd[c[n]].ts \in Nat
  <2>1. \A n \in 1 .. Len(c) : hd[c[n]] \in Header
    OBVIOUS
  <2>2. QED
    BY <2>1 DEF Header
<1>7. 0 \in S
  BY <1>2, <1>3, <1>4
<1>8. ASSUME NEW n \in 1 .. Len(d), n - 1 \in S PROVE n \in S
  <2>1. t[n] = t[n - 1] + hd2[d[n]].ts /\ n \in 0 .. Len(d)
    BY <1>4
  <2>2. CASE n < i
    <3>1. /\ n - 1 < i /\ n \in 1 .. Len(c) /\ n # i /\ d[n] = c[n]
      BY <1>1, <1>2, <2>2
    <3>2. t[n - 1] = s[n - 1] /\ hd2[d[n]].ts = hd[c[n]].ts
      BY <1>8, <3>1
    <3>3. t[n] = s[n]
      BY <1>3, <2>1, <3>1, <3>2
    <3>4. QED
      BY <2>1, <2>2, <3>3
  <2>3. CASE n = i
    <3>0. n \in i .. Len(c) - 1
      BY <1>1, <1>2, <2>3
    <3>1. /\ n - 1 < i /\ ~(n < i) /\ n + 1 \in 1 .. Len(c) /\ (n + 1) - 1 = n /\ n + 1 # i
          /\ d[n] = c[n + 1]
      <4>1. d[n] = c[n + 1]
        BY <1>1, <3>0
      <4>2. QED
        BY <1>1, <1>2, <2>3, <4>1
    <3>2. t[n - 1] = s[n - 1] /\ hd2[d[n]].ts = hd[c[n + 1]].ts
      BY <1>8, <3>1
    <3>3. s[n + 1] = s[n] + hd[c[n + 1]].ts
      BY <1>3, <3>1
    <3>4. s[n] = s[n - 1] + hd[c[i]].ts
      BY <1>3, <2>3
    <3>5. s[n - 1] \in Nat /\ s[n] \in Nat /\ s[n + 1] \in Nat
      BY <1>2, <1>5, <3>1, <2>3
    <3>6. hd[c[i]].ts \in Nat /\ hd[c[n + 1]].ts \in Nat
      BY <1>6, <3>1
    <3>7. t[n] = s[n + 1] - hd[c[i]].ts
      <4>1. t[n] = s[n - 1] + hd[c[n + 1]].ts
        BY <2>1, <3>2
      <4>2. PICK a \in Nat, b \in Nat, x \in Nat, y \in Nat, z \in Nat :
               /\ a = hd[c[n + 1]].ts /\ b = hd[c[i]].ts
               /\ x = s[n + 1] /\ y = s[n] /\ z = s[n - 1]
        BY <3>5, <3>6
      <4>3. x = y + a /\ y = z + b /\ t[n] = z + a
        BY <3>3, <3>4, <4>1, <4>2
      <4>4. t[n] = x - b
        BY <4>3
      <4>5. QED
        BY <4>2, <4>4
    <3>8. QED
      BY <2>1, <3>1, <3>7
  <2>4. CASE n > i
    <3>1. /\ ~(n - 1 < i) /\ ~(n < i) /\ n + 1 \in 1 .. Len(c) /\ (n + 1) - 1 = n /\ n + 1 # i
          /\ (n - 1) + 1 = n /\ d[n] = c[n + 1] /\ n \in 0 .. Len(c)
      BY <1>1, <1>2, <2>4
    <3>2. t[n - 1] = s[n] - hd[c[i]].ts /\ hd2[d[n]].ts = hd[c[n + 1]].ts
      BY <1>8, <3>1
    <3>3. s[n + 1] = s[n] + hd[c[n + 1]].ts
      BY <1>3, <3>1
    <3>4. s[n] \in Nat
      BY <1>5, <3>1
    <3>5. hd[c[i]].ts \in Nat /\ hd[c[n + 1]].ts \in Nat
      BY <1>6, <3>1
    <3>6. t[n] = s[n + 1] - hd[c[i]].ts
      BY <2>1, <3>2, <3>3, <3>4, <3>5
    <3>7. QED
      BY <2>1, <3>1, <3>6
  <2>5. QED
    BY <2>2, <2>3, <2>4
<1> HIDE DEF S
<1>9. \A n \in 0 .. Len(d) : n \in S
  BY <1>2, <1>7, <1>8, Induction
<1>10. Len(d) \in S
  BY <1>2, <1>9
<1>11. t[Len(d)] = IF Len(d) < i THEN s[Len(d)] ELSE s[Len(d) + 1] - hd[c[i]].ts
  BY <1>10 DEF S
<1>12. Len(d) + 1 = Len(c)
  BY <1>1, <1>2
<1>13. CASE Len(d) < i
  <2>1. i = Len(c) /\ Len(d) = i - 1
    BY <1>2, <1>12, <1>13
  <2>2. s[Len(c)] = s[Len(d)] + hd[c[i]].ts /\ s[Len(d)] \in Nat
    BY <1>2, <1>3, <1>5, <2>1
  <2>3. hd[c[i]].ts \in Nat
    BY <1>6
  <2>4. t[Len(d)] = s[Len(c)] - hd[c[i]].ts
    BY <1>11, <1>13, <2>2, <2>3
  <2>5. QED
    BY <2>4 DEF Total, s, t, d
<1>14. CASE ~(Len(d) < i)
  <2>1. t[Len(d)] = s[Len(c)] - hd[c[i]].ts
    BY <1>11, <1>12, <1>14
  <2>2. QED
    BY <2>1 DEF Total, s, t, d
<1>15. QED
  BY <1>13, <1>14

(***************************************************************************)
(* Taking headers off chains and putting them on.                          *)
(***************************************************************************)

\* Header h is on c.
Has(c, h) == \E i \in 1 .. Len(c) : c[i] = h

\* One is taken out of a chain,
LEMMA ClosedHas ==
    ASSUME NEW c \in Seq(Headers), Once(c), NEW i \in 1 .. Len(c), NEW d, d = Closed(c, i)
    PROVE  /\ d \in Seq(Headers) /\ Once(d)
           /\ \A g : Has(d, g) <=> Has(c, g) /\ g # c[i]
<1>1. /\ d \in Seq(Headers) /\ Len(d) = Len(c) - 1
      /\ \A j \in 1 .. i - 1 : d[j] = c[j]
      /\ \A j \in i .. Len(c) - 1 : d[j] = c[j + 1]
  BY ClosedIs
<1>2. Len(c) \in Nat /\ Len(d) \in Nat
  BY <1>1
<1>3. \A j \in 1 .. Len(d) : \/ j < i /\ j \in 1 .. Len(c) /\ d[j] = c[j]
                             \/ j >= i /\ j + 1 \in 1 .. Len(c) /\ d[j] = c[j + 1]
  <2>1. ASSUME NEW j \in 1 .. Len(d), j < i PROVE j \in 1 .. Len(c) /\ d[j] = c[j]
    BY <1>1, <1>2, <2>1
  <2>2. ASSUME NEW j \in 1 .. Len(d), j >= i PROVE j + 1 \in 1 .. Len(c) /\ d[j] = c[j + 1]
    <3>1. j \in i .. Len(c) - 1
      BY <1>1, <1>2, <2>2
    <3>2. QED
      BY <1>1, <1>2, <3>1
  <2>3. QED
    BY <1>2, <2>1, <2>2
<1>4. Once(d)
  <2>1. SUFFICES ASSUME NEW j \in 1 .. Len(d), NEW k \in 1 .. Len(d), d[j] = d[k] PROVE j = k
    BY DEF Once
  <2>2. \/ j < i /\ j \in 1 .. Len(c) /\ d[j] = c[j]
        \/ j >= i /\ j + 1 \in 1 .. Len(c) /\ d[j] = c[j + 1]
    BY <1>3
  <2>3. \/ k < i /\ k \in 1 .. Len(c) /\ d[k] = c[k]
        \/ k >= i /\ k + 1 \in 1 .. Len(c) /\ d[k] = c[k + 1]
    BY <1>3
  <2>4. QED
    BY <2>1, <2>2, <2>3, <1>2 DEF Once
<1>5. ASSUME NEW g, Has(d, g) PROVE Has(c, g) /\ g # c[i]
  <2>1. PICK j \in 1 .. Len(d) : d[j] = g
    BY <1>5 DEF Has
  <2>2. \/ j < i /\ j \in 1 .. Len(c) /\ d[j] = c[j]
        \/ j >= i /\ j + 1 \in 1 .. Len(c) /\ d[j] = c[j + 1]
    BY <1>3
  <2>3. PICK m \in 1 .. Len(c) : m # i /\ c[m] = g
    BY <1>2, <2>1, <2>2
  <2>4. QED
    BY <2>3 DEF Has, Once
<1>6. ASSUME NEW g, Has(c, g), g # c[i] PROVE Has(d, g)
  <2>1. PICK m \in 1 .. Len(c) : c[m] = g
    BY <1>6 DEF Has
  <2>2. m # i
    BY <1>6, <2>1
  <2>3. CASE m < i
    <3>1. m \in 1 .. i - 1 /\ m \in 1 .. Len(d)
      BY <1>1, <1>2, <2>3
    <3>2. d[m] = g
      BY <1>1, <2>1, <3>1
    <3>3. QED
      BY <3>1, <3>2 DEF Has
  <2>4. CASE m > i
    <3>1. m - 1 \in i .. Len(c) - 1 /\ m - 1 \in 1 .. Len(d) /\ (m - 1) + 1 = m
      BY <1>1, <1>2, <2>4
    <3>2. d[m - 1] = g
      BY <1>1, <2>1, <3>1
    <3>3. QED
      BY <3>1, <3>2 DEF Has
  <2>5. QED
    BY <2>2, <2>3, <2>4
<1>7. QED
  BY <1>1, <1>4, <1>5, <1>6

\* put in front of one,
LEMMA FrontHas ==
    ASSUME NEW c \in Seq(Headers), Once(c), NEW h \in Headers, ~Has(c, h), NEW d, d = <<h>> \o c
    PROVE  /\ d \in Seq(Headers) /\ Once(d)
           /\ \A g : Has(d, g) <=> Has(c, g) \/ g = h
<1>1. /\ d \in Seq(Headers) /\ Len(d) = Len(c) + 1 /\ d[1] = h
      /\ \A j \in 2 .. Len(c) + 1 : d[j] = c[j - 1]
  BY FrontIs
<1>2. Len(c) \in Nat
  OBVIOUS
<1>3. \A j \in 1 .. Len(d) : j = 1 \/ (j - 1 \in 1 .. Len(c) /\ d[j] = c[j - 1])
  BY <1>1, <1>2
<1>4. \A j \in 1 .. Len(c) : j + 1 \in 1 .. Len(d) /\ d[j + 1] = c[j]
  <2>1. ASSUME NEW j \in 1 .. Len(c) PROVE j + 1 \in 1 .. Len(d) /\ d[j + 1] = c[j]
    <3>1. j + 1 \in 2 .. Len(c) + 1 /\ (j + 1) - 1 = j
      BY <1>2
    <3>2. QED
      BY <1>1, <1>2, <3>1
  <2>2. QED
    BY <2>1
<1>5. Once(d)
  <2>1. SUFFICES ASSUME NEW j \in 1 .. Len(d), NEW k \in 1 .. Len(d), d[j] = d[k] PROVE j = k
    BY DEF Once
  <2>2. j = 1 \/ (j - 1 \in 1 .. Len(c) /\ d[j] = c[j - 1])
    BY <1>3
  <2>3. k = 1 \/ (k - 1 \in 1 .. Len(c) /\ d[k] = c[k - 1])
    BY <1>3
  <2>4. \A m \in 1 .. Len(c) : c[m] # h
    BY DEF Has
  <2>5. CASE j # 1 /\ k # 1
    <3>1. j - 1 = k - 1
      BY <2>1, <2>2, <2>3, <2>5 DEF Once
    <3>2. QED
      BY <3>1
  <2>6. QED
    BY <1>1, <2>1, <2>2, <2>3, <2>4, <2>5
<1>6. 1 \in 1 .. Len(d)
  BY <1>1, <1>2
<1>7. QED
  BY <1>1, <1>3, <1>4, <1>5, <1>6 DEF Has

\* and put at the end of one.
LEMMA AppendHas ==
    ASSUME NEW c \in Seq(Headers), Once(c), NEW h \in Headers, ~Has(c, h), NEW d, d = Append(c, h)
    PROVE  /\ d \in Seq(Headers) /\ Once(d)
           /\ \A g : Has(d, g) <=> Has(c, g) \/ g = h
<1>1. /\ d \in Seq(Headers) /\ Len(d) = Len(c) + 1 /\ d[Len(c) + 1] = h
      /\ \A j \in 1 .. Len(c) : d[j] = c[j]
  OBVIOUS
<1>2. Len(c) \in Nat
  OBVIOUS
<1>3. \A j \in 1 .. Len(d) : j = Len(c) + 1 \/ (j \in 1 .. Len(c) /\ d[j] = c[j])
  BY <1>1, <1>2
<1>4. Once(d)
  <2>1. SUFFICES ASSUME NEW j \in 1 .. Len(d), NEW k \in 1 .. Len(d), d[j] = d[k] PROVE j = k
    BY DEF Once
  <2>2. j = Len(c) + 1 \/ (j \in 1 .. Len(c) /\ d[j] = c[j])
    BY <1>3
  <2>3. k = Len(c) + 1 \/ (k \in 1 .. Len(c) /\ d[k] = c[k])
    BY <1>3
  <2>4. \A m \in 1 .. Len(c) : c[m] # h
    BY DEF Has
  <2>5. QED
    BY <1>1, <2>1, <2>2, <2>3, <2>4 DEF Once
<1>5. Len(c) + 1 \in 1 .. Len(d) /\ \A j \in 1 .. Len(c) : j \in 1 .. Len(d)
  BY <1>1, <1>2
<1>6. QED
  BY <1>1, <1>3, <1>4, <1>5 DEF Has

\* The pointers of a chain that nobody touches lead where they did.
LEMMA RunFrame ==
    ASSUME NEW hd, NEW first, NEW c, Run(hd, first, c), NEW hd2,
           \A h \in Headers : Has(c, h) => hd2[h].next = hd[h].next
    PROVE  Run(hd2, first, c)
<1>1. c \in Seq(Headers)
  BY DEF Run
<1>2. \A i \in 1 .. Len(c) : c[i] \in Headers /\ Has(c, c[i])
  BY <1>1 DEF Has
<1>3. \A i \in 1 .. Len(c) : hd2[c[i]].next = hd[c[i]].next
  BY <1>2
<1>4. QED
  BY <1>3 DEF Run

\* A header is put in front: its pointer is the old beginning.
LEMMA RunFront ==
    ASSUME NEW hd, NEW first, NEW c, Run(hd, first, c), NEW h \in Headers, ~Has(c, h), NEW hd2,
           \A g \in Headers : Has(c, g) => hd2[g].next = hd[g].next,
           hd2[h].next = first
    PROVE  Run(hd2, h, <<h>> \o c)
<1> DEFINE d == <<h>> \o c
<1>1. /\ c \in Seq(Headers) /\ Once(c)
      /\ first = IF c = <<>> THEN NULL ELSE c[1]
      /\ \A i \in 1 .. Len(c) : hd[c[i]].next = IF i = Len(c) THEN NULL ELSE c[i + 1]
  BY DEF Run
<1>2. /\ d \in Seq(Headers) /\ Len(d) = Len(c) + 1 /\ d[1] = h
      /\ \A j \in 2 .. Len(c) + 1 : d[j] = c[j - 1]
  BY <1>1, FrontIs
<1>3. d \in Seq(Headers) /\ Once(d)
  BY <1>1, FrontHas
<1> HIDE DEF d
<1>4. Len(c) \in Nat /\ (c = <<>> <=> Len(c) = 0)
  BY <1>1
<1>5. \A i \in 1 .. Len(c) : hd2[c[i]].next = hd[c[i]].next
  BY <1>1 DEF Has
<1>6. ASSUME NEW i \in 1 .. Len(d) PROVE hd2[d[i]].next = IF i = Len(d) THEN NULL ELSE d[i + 1]
  <2>1. CASE i = 1
    <3>1. CASE Len(c) = 0
      BY <1>1, <1>2, <1>4, <2>1, <3>1
    <3>2. CASE Len(c) # 0
      <4>1. 2 \in 2 .. Len(c) + 1 /\ i + 1 = 2 /\ 2 - 1 = 1 /\ i # Len(d)
        BY <1>2, <1>4, <2>1, <3>2
      <4>2. d[2] = c[1]
        BY <1>2, <4>1
      <4>3. QED
        BY <1>1, <1>2, <1>4, <2>1, <3>2, <4>1, <4>2
    <3>3. QED
      BY <3>1, <3>2
  <2>2. CASE i # 1
    <3>1. /\ i - 1 \in 1 .. Len(c) /\ i \in 2 .. Len(c) + 1 /\ (i - 1) + 1 = i
          /\ (i - 1 = Len(c) <=> i = Len(d))
      BY <1>2, <1>4, <2>2
    <3>2. d[i] = c[i - 1]
      BY <1>2, <3>1
    <3>3. hd2[d[i]].next = IF i - 1 = Len(c) THEN NULL ELSE c[i]
      BY <1>1, <1>5, <3>1, <3>2
    <3>4. CASE i = Len(d)
      BY <3>1, <3>3, <3>4
    <3>5. CASE i # Len(d)
      <4>1. i + 1 \in 2 .. Len(c) + 1 /\ (i + 1) - 1 = i
        BY <1>2, <1>4, <3>1, <3>5
      <4>2. d[i + 1] = c[i]
        BY <1>2, <4>1
      <4>3. QED
        BY <3>1, <3>3, <3>5, <4>2
    <3>6. QED
      BY <3>4, <3>5
  <2>3. QED
    BY <2>1, <2>2
<1>7. d # <<>>
  <2>1. Len(d) # 0
    BY <1>2, <1>4
  <2>2. QED
    BY <2>1
<1>8. h = IF d = <<>> THEN NULL ELSE d[1]
  BY <1>2, <1>7
<1>9. Run(hd2, h, d)
  BY <1>3, <1>6, <1>8 DEF Run
<1>10. QED
  BY <1>9 DEF d

\* One is put at the end: the last one's pointer, or the queue's, is set.
LEMMA RunAppend ==
    ASSUME NEW hd, NEW first, NEW c, Run(hd, first, c), NEW h \in Headers, ~Has(c, h), NEW hd2,
           hd2[h].next = NULL,
           \A i \in 1 .. Len(c) : hd2[c[i]].next = IF i = Len(c) THEN h ELSE hd[c[i]].next,
           NEW first2, first2 = IF c = <<>> THEN h ELSE first
    PROVE  Run(hd2, first2, Append(c, h))
<1> DEFINE d == Append(c, h)
<1>1. /\ c \in Seq(Headers) /\ Once(c)
      /\ first = IF c = <<>> THEN NULL ELSE c[1]
      /\ \A i \in 1 .. Len(c) : hd[c[i]].next = IF i = Len(c) THEN NULL ELSE c[i + 1]
  BY DEF Run
<1>2. /\ d \in Seq(Headers) /\ Len(d) = Len(c) + 1 /\ d[Len(c) + 1] = h
      /\ \A j \in 1 .. Len(c) : d[j] = c[j]
  BY <1>1
<1>3. d \in Seq(Headers) /\ Once(d)
  BY <1>1, AppendHas
<1> HIDE DEF d
<1>4. Len(c) \in Nat /\ (c = <<>> <=> Len(c) = 0)
  BY <1>1
<1>5. ASSUME NEW i \in 1 .. Len(d) PROVE hd2[d[i]].next = IF i = Len(d) THEN NULL ELSE d[i + 1]
  <2>1. CASE i = Len(c) + 1
    BY <1>2, <2>1
  <2>2. CASE i # Len(c) + 1
    <3>1. i \in 1 .. Len(c) /\ i # Len(d) /\ d[i] = c[i]
      BY <1>2, <1>4, <2>2
    <3>2. CASE i = Len(c)
      <4>1. d[i + 1] = h
        BY <1>2, <3>2
      <4>2. hd2[c[i]].next = h
        BY <3>1, <3>2
      <4>3. QED
        BY <3>1, <4>1, <4>2
    <3>3. CASE i # Len(c)
      <4>1. i + 1 \in 1 .. Len(c)
        BY <1>4, <3>1, <3>3
      <4>2. d[i + 1] = c[i + 1]
        BY <1>2, <4>1
      <4>3. hd2[c[i]].next = c[i + 1]
        BY <1>1, <3>1, <3>3
      <4>4. QED
        BY <3>1, <4>2, <4>3
    <3>4. QED
      BY <3>2, <3>3
  <2>3. QED
    BY <2>1, <2>2
<1>6. d # <<>>
  <2>1. Len(d) # 0
    BY <1>2, <1>4
  <2>2. QED
    BY <2>1
<1>7. first2 = d[1]
  <2>1. CASE c = <<>>
    BY <1>2, <1>4, <2>1
  <2>2. CASE c # <<>>
    <3>1. 1 \in 1 .. Len(c)
      BY <1>4, <2>2
    <3>2. QED
      BY <1>1, <1>2, <2>2, <3>1
  <2>3. QED
    BY <2>1, <2>2
<1>8. Run(hd2, first2, d)
  BY <1>3, <1>5, <1>6, <1>7 DEF Run
<1>9. QED
  BY <1>8 DEF d

\* One is taken out: its predecessor's pointer, or the queue's, goes past it.
LEMMA RunClosed ==
    ASSUME NEW hd, NEW first, NEW c, Run(hd, first, c), NEW i \in 1 .. Len(c), NEW hd2,
           \A j \in 1 .. Len(c) : j # i =>
              hd2[c[j]].next = IF j = i - 1 THEN hd[c[i]].next ELSE hd[c[j]].next,
           NEW first2, first2 = IF i = 1 THEN hd[c[i]].next ELSE first
    PROVE  Run(hd2, first2, Closed(c, i))
<1> DEFINE d == Closed(c, i)
<1>1. /\ c \in Seq(Headers) /\ Once(c)
      /\ first = IF c = <<>> THEN NULL ELSE c[1]
      /\ \A j \in 1 .. Len(c) : hd[c[j]].next = IF j = Len(c) THEN NULL ELSE c[j + 1]
  BY DEF Run
<1>2. /\ Len(d) = Len(c) - 1
      /\ \A j \in 1 .. i - 1 : d[j] = c[j]
      /\ \A j \in i .. Len(c) - 1 : d[j] = c[j + 1]
  BY <1>1, ClosedIs
<1>3. d \in Seq(Headers) /\ Once(d)
  BY <1>1, ClosedHas
<1> HIDE DEF d
<1>4. Len(c) \in Nat /\ Len(d) \in Nat /\ (d = <<>> <=> Len(d) = 0) /\ c # <<>>
  BY <1>1, <1>3
<1>5. ASSUME NEW j \in 1 .. Len(d) PROVE hd2[d[j]].next = IF j = Len(d) THEN NULL ELSE d[j + 1]
  <2>1. CASE j < i - 1
    <3>1. /\ j \in 1 .. i - 1 /\ j + 1 \in 1 .. i - 1 /\ j \in 1 .. Len(c) /\ j # i /\ j # i - 1
          /\ j # Len(c) /\ j # Len(d)
      BY <1>2, <1>4, <2>1
    <3>2. d[j] = c[j] /\ d[j + 1] = c[j + 1]
      BY <1>2, <3>1
    <3>3. hd2[c[j]].next = c[j + 1]
      BY <1>1, <3>1
    <3>4. QED
      BY <3>1, <3>2, <3>3
  <2>2. CASE j = i - 1
    <3>1. j \in 1 .. i - 1 /\ j \in 1 .. Len(c) /\ j # i /\ j + 1 = i
      BY <1>2, <1>4, <2>2
    <3>2. d[j] = c[j]
      BY <1>2, <3>1
    <3>3. hd2[c[j]].next = IF i = Len(c) THEN NULL ELSE c[i + 1]
      BY <1>1, <2>2, <3>1
    <3>4. CASE i = Len(c)
      BY <1>2, <1>4, <3>1, <3>2, <3>3, <3>4
    <3>5. CASE i # Len(c)
      <4>1. i \in i .. Len(c) - 1 /\ j # Len(d)
        BY <1>2, <1>4, <3>1, <3>5
      <4>2. d[i] = c[i + 1]
        BY <1>2, <4>1
      <4>3. QED
        BY <3>1, <3>2, <3>3, <3>5, <4>1, <4>2
    <3>6. QED
      BY <3>4, <3>5
  <2>3. CASE j > i - 1
    <3>1. /\ j \in i .. Len(c) - 1 /\ j + 1 \in 1 .. Len(c) /\ j + 1 # i /\ j + 1 # i - 1
          /\ (j + 1 = Len(c) <=> j = Len(d))
      BY <1>2, <1>4, <2>3
    <3>2. d[j] = c[j + 1]
      BY <1>2, <3>1
    <3>3. hd2[c[j + 1]].next = IF j + 1 = Len(c) THEN NULL ELSE c[(j + 1) + 1]
      BY <1>1, <3>1
    <3>4. CASE j = Len(d)
      BY <3>1, <3>2, <3>3, <3>4
    <3>5. CASE j # Len(d)
      <4>1. j + 1 \in i .. Len(c) - 1
        BY <1>2, <1>4, <3>1, <3>5
      <4>2. d[j + 1] = c[(j + 1) + 1]
        BY <1>2, <4>1
      <4>3. QED
        BY <3>1, <3>2, <3>3, <3>5, <4>2
    <3>6. QED
      BY <3>4, <3>5
  <2>4. QED
    BY <1>4, <2>1, <2>2, <2>3
<1>6. first2 = IF d = <<>> THEN NULL ELSE d[1]
  <2>1. CASE i = 1
    <3>1. hd[c[i]].next = IF i = Len(c) THEN NULL ELSE c[i + 1]
      BY <1>1
    <3>2. CASE Len(c) = 1
      BY <1>2, <1>4, <2>1, <3>1, <3>2
    <3>3. CASE Len(c) # 1
      <4>1. 1 \in i .. Len(c) - 1 /\ Len(d) # 0
        BY <1>2, <1>4, <2>1, <3>3
      <4>2. d[1] = c[1 + 1]
        BY <1>2, <4>1
      <4>3. QED
        BY <1>4, <2>1, <3>1, <3>3, <4>1, <4>2
    <3>4. QED
      BY <3>2, <3>3
  <2>2. CASE i # 1
    <3>1. 1 \in 1 .. i - 1 /\ Len(d) # 0
      BY <1>2, <1>4, <2>2
    <3>2. d[1] = c[1]
      BY <1>2, <3>1
    <3>3. QED
      BY <1>1, <1>4, <2>2, <3>1, <3>2
  <2>3. QED
    BY <2>1, <2>2
<1>7. Run(hd2, first2, d)
  BY <1>3, <1>5, <1>6 DEF Run
<1>8. QED
  BY <1>7 DEF d

(***************************************************************************)
(* Resource maps.                                                          *)
(***************************************************************************)

\* A resource map.
Map == [ext : Seq(Extent), slots : Nat, want : BOOLEAN]

\* Extent e has unit u free.
InExtent(e, u) == e.addr <= u /\ u < e.addr + e.size

\* The extents of a table are apart and in order.
Ordered(ext) ==
    /\ ext \in Seq(Extent)
    /\ \A i \in 1 .. Len(ext) - 1 : ext[i].addr + ext[i].size < ext[i + 1].addr

\* An extent in a map is not empty.
LEMMA ExtentFacts ==
    ASSUME NEW e \in Extent
    PROVE  e.addr \in Nat /\ e.size \in Nat /\ e.size > 0
BY DEF Extent

\* Soundness of a map is about its extents.
LEMMA OrderedIs ==
    ASSUME NEW map \in Map
    PROVE  MapSound(map) <=> Ordered(map.ext)
<1>1. map.ext \in Seq(Extent) /\ DOMAIN map.ext = 1 .. Len(map.ext)
  BY DEF Map
<1>2. \A i \in 1 .. Len(map.ext) : map.ext[i] \in Extent
  BY <1>1
<1>3. \A i \in DOMAIN map.ext : map.ext[i].size > 0
  BY <1>1, <1>2, ExtentFacts
<1>4. QED
  BY <1>1, <1>3 DEF MapSound, Ordered

\* The units a map has free are those in its extents.
LEMMA FreeUnitsIs ==
    ASSUME NEW map \in Map
    PROVE  \A u : u \in FreeUnits(map) <=>
                    u \in Int /\ \E i \in 1 .. Len(map.ext) : InExtent(map.ext[i], u)
<1>1. map.ext \in Seq(Extent) /\ DOMAIN map.ext = 1 .. Len(map.ext)
  BY DEF Map
<1>2. \A i \in 1 .. Len(map.ext) : map.ext[i] \in Extent
  BY <1>1
<1>3. \A i \in 1 .. Len(map.ext) : map.ext[i].addr \in Nat /\ map.ext[i].size \in Nat
  BY <1>2, ExtentFacts
<1>4. ASSUME NEW u PROVE u \in FreeUnits(map) <=>
                    \E i \in 1 .. Len(map.ext) :
                        u \in map.ext[i].addr .. map.ext[i].addr + map.ext[i].size - 1
  BY <1>1 DEF FreeUnits
<1>5. ASSUME NEW u, NEW i \in 1 .. Len(map.ext)
      PROVE  u \in map.ext[i].addr .. map.ext[i].addr + map.ext[i].size - 1
             <=> u \in Int /\ InExtent(map.ext[i], u)
  BY <1>3 DEF InExtent
<1>6. QED
  BY <1>4, <1>5

\* Not only neighbours are in order.
LEMMA OrderedPair ==
    ASSUME NEW ext, Ordered(ext)
    PROVE  \A i, j \in 1 .. Len(ext) : i < j => ext[i].addr + ext[i].size < ext[j].addr
<1>1. Len(ext) \in Nat /\ ext \in Seq(Extent)
  BY DEF Ordered
<1>2. \A i \in 1 .. Len(ext) : ext[i] \in Extent
  BY <1>1
<1>3. \A i \in 1 .. Len(ext) : ext[i].addr \in Nat /\ ext[i].size \in Nat /\ ext[i].size > 0
  BY <1>2, ExtentFacts
<1>4. SUFFICES ASSUME NEW i \in 1 .. Len(ext)
               PROVE  \A j \in 1 .. Len(ext) : i < j => ext[i].addr + ext[i].size < ext[j].addr
  OBVIOUS
<1> DEFINE S == {j \in 0 .. Len(ext) : i < j => ext[i].addr + ext[i].size < ext[j].addr}
<1>5. 0 \in S
  BY <1>1
<1>6. ASSUME NEW j \in 1 .. Len(ext), j - 1 \in S PROVE j \in S
  <2>1. CASE i < j - 1
    <3>1. j - 1 \in 1 .. Len(ext) /\ j - 1 \in 1 .. Len(ext) - 1 /\ (j - 1) + 1 = j
      BY <1>1, <2>1
    <3>2. ext[i].addr + ext[i].size < ext[j - 1].addr
      BY <1>6, <2>1
    <3>3. ext[j - 1].addr + ext[j - 1].size < ext[j].addr
      BY <3>1 DEF Ordered
    <3> DEFINE a == ext[i].addr + ext[i].size
               b == ext[j - 1].addr
               s == ext[j - 1].size
               e == ext[j].addr
    <3>6. a \in Nat /\ b \in Nat /\ s \in Nat /\ e \in Nat
      BY <1>3, <3>1, SMTT(40)
    <3>7. a < b /\ b + s < e
      BY <3>2, <3>3
    <3> HIDE DEF a, b, s, e
    <3>8. a < e
      BY <3>6, <3>7
    <3>4. ext[i].addr + ext[i].size < ext[j].addr
      BY <3>8 DEF a, e
    <3>5. QED
      BY <1>1, <3>4
  <2>2. CASE i = j - 1
    <3>1. i \in 1 .. Len(ext) - 1 /\ i + 1 = j
      BY <1>1, <2>2
    <3>2. ext[i].addr + ext[i].size < ext[j].addr
      BY <3>1 DEF Ordered
    <3>3. QED
      BY <1>1, <3>2
  <2>3. CASE i > j - 1
    BY <1>1, <2>3
  <2>4. QED
    BY <1>1, <2>1, <2>2, <2>3
<1> HIDE DEF S
<1>7. \A j \in 0 .. Len(ext) : j \in S
  BY <1>1, <1>5, <1>6, Induction
<1>8. \A j \in 1 .. Len(ext) : j \in 0 .. Len(ext)
  BY <1>1
<1>9. QED
  BY <1>7, <1>8 DEF S

\* A map that has nothing large enough, and what it gives otherwise.
LEMMA MallocIs ==
    ASSUME NEW map \in Map, MapSound(map), NEW size \in Nat, size > 0, Fits(map, size) # {},
           NEW map2, map2 = rmalloc(map, size), NEW addr, addr = rmalloc_addr(map, size)
    PROVE  /\ map2 \in Map /\ MapSound(map2) /\ map2.want = map.want
           /\ addr \in Nat
           /\ \A u \in addr .. addr + size - 1 : u \in FreeUnits(map)
           /\ \A u : u \in FreeUnits(map2) <=> u \in FreeUnits(map) /\ u \notin addr .. addr + size - 1
           /\ \A s \in Nat : Fits(map, s) = {} => Fits(map2, s) = {}
           /\ Len(map2.ext) + map2.slots = Len(map.ext) + map.slots
<1> DEFINE i == First(Fits(map, size))
           ext == map.ext
           L == Len(map.ext)
<1>1. ext \in Seq(Extent) /\ DOMAIN ext = 1 .. L /\ L \in Nat /\ map.slots \in Nat
  BY DEF Map
<1>2. i \in 1 .. L /\ ext[i].size >= size
  <2>1. Fits(map, size) \subseteq Nat
    BY <1>1 DEF Fits
  <2>2. i \in Fits(map, size)
    BY <2>1, FirstIs
  <2>3. QED
    BY <1>1, <2>2 DEF Fits
<1>3. addr = ext[i].addr
  BY DEF rmalloc_addr
<1>4. map2 = IF ext[i].size = size THEN [map EXCEPT !.ext = Closed(ext, i), !.slots = map.slots + 1]
             ELSE [map EXCEPT !.ext = [ext EXCEPT ![i] = Behind(ext[i], size)]]
  BY DEF rmalloc
<1> HIDE DEF i
<1>5. \A j \in 1 .. L : ext[j].addr \in Nat /\ ext[j].size \in Nat /\ ext[j].size > 0
  <2>1. \A j \in 1 .. L : ext[j] \in Extent
    BY <1>1
  <2>2. QED
    BY <2>1, ExtentFacts
<1>6. Ordered(ext)
  BY OrderedIs
<1>7. \A j, k \in 1 .. L : j < k => ext[j].addr + ext[j].size < ext[k].addr
  BY <1>6, OrderedPair
<1>8. \A u : u \in FreeUnits(map) <=> u \in Int /\ \E j \in 1 .. L : InExtent(ext[j], u)
  BY FreeUnitsIs
<1>9. addr \in Nat /\ \A u \in addr .. addr + size - 1 : u \in FreeUnits(map)
  <2>1. addr \in Nat
    BY <1>2, <1>3, <1>5
  <2>2. ASSUME NEW u \in addr .. addr + size - 1 PROVE u \in FreeUnits(map)
    <3>1. u \in Int /\ InExtent(ext[i], u)
      BY <1>2, <1>3, <1>5, <2>1, SMTT(40) DEF InExtent
    <3>2. QED
      BY <1>2, <1>8, <3>1
  <2>3. QED
    BY <2>1, <2>2
\* What matters of the new table.
<1> DEFINE new == map2.ext
<1>10. ASSUME map2 \in Map, map2.want = map.want, Ordered(new),
              Len(new) + map2.slots = L + map.slots,
              \A j \in 1 .. Len(new) : \E k \in 1 .. L : new[j].size <= ext[k].size,
              \A u \in Int : (\E j \in 1 .. Len(new) : InExtent(new[j], u))
                             <=> \/ \E k \in 1 .. L : k # i /\ InExtent(ext[k], u)
                                 \/ addr + size <= u /\ u < ext[i].addr + ext[i].size
       PROVE  /\ MapSound(map2)
              /\ \A u : u \in FreeUnits(map2) <=> u \in FreeUnits(map) /\ u \notin addr .. addr + size - 1
              /\ \A s \in Nat : Fits(map, s) = {} => Fits(map2, s) = {}
              /\ Len(map2.ext) + map2.slots = Len(map.ext) + map.slots
  <2>1. MapSound(map2)
    BY <1>10, OrderedIs
  <2>2. \A u : u \in FreeUnits(map2) <=> u \in Int /\ \E j \in 1 .. Len(new) : InExtent(new[j], u)
    BY <1>10, FreeUnitsIs
  <2>3. ASSUME NEW u \in Int
        PROVE  (\E j \in 1 .. Len(new) : InExtent(new[j], u))
               <=> (\E k \in 1 .. L : InExtent(ext[k], u)) /\ u \notin addr .. addr + size - 1
    <3>1. ASSUME NEW k \in 1 .. L, k # i, InExtent(ext[k], u)
          PROVE  u \notin addr .. addr + size - 1
      <4>1. k < i \/ i < k
        BY <1>1, <1>2, <3>1
      <4> DEFINE a == ext[k].addr
                 s == ext[k].size
                 t == ext[i].size
      <4>5. a \in Nat /\ s \in Nat /\ t \in Nat /\ addr \in Nat /\ t >= size
        BY <1>2, <1>3, <1>5
      <4>6. a <= u /\ u < a + s
        BY <3>1 DEF InExtent
      <4>2. CASE k < i
        <5>1. a + s < addr
          BY <1>2, <1>3, <1>7, <4>2
        <5> HIDE DEF a, s, t
        <5>2. QED
          BY <4>5, <4>6, <5>1
      <4>3. CASE i < k
        <5>1. addr + t < a
          BY <1>2, <1>3, <1>7, <4>3
        <5> HIDE DEF a, s, t
        <5>2. QED
          BY <4>5, <4>6, <5>1
      <4>4. QED
        BY <4>1, <4>2, <4>3
    <3>2. InExtent(ext[i], u) /\ u \notin addr .. addr + size - 1
          <=> addr + size <= u /\ u < ext[i].addr + ext[i].size
      BY <1>2, <1>3, <1>5, <1>9 DEF InExtent
    <3> HIDE DEF new
    <3>3. QED
      BY <1>2, <1>10, <3>1, <3>2
  <2>4. ASSUME NEW s \in Nat, Fits(map, s) = {}, Fits(map2, s) # {} PROVE FALSE
    <3>1. DOMAIN new = 1 .. Len(new) /\ \A j \in 1 .. Len(new) : new[j] \in Extent
      BY <1>10 DEF Ordered
    <3>2. PICK j \in 1 .. Len(new) : new[j].size >= s
      BY <2>4, <3>1 DEF Fits
    <3>3. PICK k \in 1 .. L : new[j].size <= ext[k].size
      BY <1>10
    <3>4. new[j].size \in Nat /\ ext[k].size \in Nat
      BY <1>5, <3>1, ExtentFacts
    <3>5. ext[k].size >= s
      BY <3>2, <3>3, <3>4
    <3>6. k \in Fits(map, s)
      BY <1>1, <3>5 DEF Fits
    <3>7. QED
      BY <2>4, <3>6
  <2>5. QED
    BY <1>10, <2>1, <2>2, <2>3, <2>4, <1>8
<1>11. CASE ext[i].size = size
  <2> DEFINE cl == Closed(ext, i)
  <2>1. /\ cl \in Seq(Extent) /\ Len(cl) = L - 1
        /\ \A j \in 1 .. i - 1 : cl[j] = ext[j]
        /\ \A j \in i .. L - 1 : cl[j] = ext[j + 1]
    BY <1>1, <1>2, ClosedIs
  <2>2. map2 = [map EXCEPT !.ext = cl, !.slots = map.slots + 1]
    BY <1>4, <1>11
  <2> HIDE DEF cl
  <2>3. map2 \in Map /\ new = cl /\ map2.slots = map.slots + 1 /\ map2.want = map.want
    <3>1. map.slots + 1 \in Nat
      BY <1>1
    <3>2. QED
      BY <2>1, <2>2, <3>1, Zenon DEF Map
  <2>4. \A j \in 1 .. Len(cl) : \/ j < i /\ j \in 1 .. L /\ cl[j] = ext[j]
                                \/ j >= i /\ j + 1 \in 1 .. L /\ cl[j] = ext[j + 1]
    <3>1. ASSUME NEW j \in 1 .. Len(cl) PROVE \/ j < i /\ j \in 1 .. L /\ cl[j] = ext[j]
                                              \/ j >= i /\ j + 1 \in 1 .. L /\ cl[j] = ext[j + 1]
      <4>1. (j < i /\ j \in 1 .. i - 1 /\ j \in 1 .. L) \/ (j >= i /\ j \in i .. L - 1 /\ j + 1 \in 1 .. L)
        BY <1>1, <1>2, <2>1
      <4>2. QED
        BY <2>1, <4>1
    <3>2. QED
      BY <3>1
  <2>5. Ordered(cl)
    <3>1. ASSUME NEW j \in 1 .. Len(cl) - 1 PROVE cl[j].addr + cl[j].size < cl[j + 1].addr
      <4>1. j \in 1 .. Len(cl) /\ j + 1 \in 1 .. Len(cl)
        BY <1>1, <2>1
      <4>2. PICK x \in 1 .. L, y \in 1 .. L : x < y /\ cl[j] = ext[x] /\ cl[j + 1] = ext[y]
        <5>1. CASE j + 1 < i
          <6>1. /\ cl[j + 1] = ext[j + 1] /\ j + 1 \in 1 .. L
                /\ cl[j] = ext[j] /\ j \in 1 .. L /\ j < j + 1
            BY <1>1, <1>2, <2>1, <4>1, <5>1
          <6>2. QED
            BY <6>1
        <5>2. CASE j + 1 >= i /\ j < i
          <6>1. /\ cl[j + 1] = ext[(j + 1) + 1] /\ (j + 1) + 1 \in 1 .. L
                /\ cl[j] = ext[j] /\ j \in 1 .. L /\ j < (j + 1) + 1
            BY <1>1, <1>2, <2>4, <4>1, <5>2
          <6>2. QED
            BY <6>1
        <5>3. CASE j >= i
          <6>1. /\ cl[j + 1] = ext[(j + 1) + 1] /\ (j + 1) + 1 \in 1 .. L
                /\ cl[j] = ext[j + 1] /\ j + 1 \in 1 .. L /\ j + 1 < (j + 1) + 1
            <7>1. /\ cl[j] = ext[j + 1] /\ j + 1 \in 1 .. L
                  /\ cl[j + 1] = ext[(j + 1) + 1] /\ (j + 1) + 1 \in 1 .. L
              <8>1. j \in Int /\ i \in Int /\ j + 1 >= i
                BY <1>2, <4>1, <5>3
              <8>2. QED
                BY <2>4, <4>1, <5>3, <8>1
            <7>2. QED
              BY <4>1, <7>1
          <6>2. QED
            BY <6>1
        <5>4. QED
          BY <1>2, <4>1, <5>1, <5>2, <5>3
      <4>3. QED
        BY <1>7, <4>2
    <3>2. QED
      BY <2>1, <3>1 DEF Ordered
  <2>6. \A j \in 1 .. Len(cl) : \E k \in 1 .. L : k # i /\ cl[j] = ext[k]
    <3>1. ASSUME NEW j \in 1 .. Len(cl) PROVE \E k \in 1 .. L : k # i /\ cl[j] = ext[k]
      <4>1. CASE j < i /\ j \in 1 .. L /\ cl[j] = ext[j]
        BY <1>2, <4>1
      <4>2. CASE j >= i /\ j + 1 \in 1 .. L /\ cl[j] = ext[j + 1]
        <5>1. j + 1 # i
          BY <1>2, <3>1, <4>2
        <5>2. QED
          BY <4>2, <5>1
      <4>3. QED
        BY <2>4, <4>1, <4>2
    <3>2. QED
      BY <3>1
  <2>7. \A k \in 1 .. L : k # i => \E j \in 1 .. Len(cl) : cl[j] = ext[k]
    <3>1. ASSUME NEW k \in 1 .. L, k < i PROVE \E j \in 1 .. Len(cl) : cl[j] = ext[k]
      BY <1>1, <1>2, <2>1, <3>1
    <3>2. ASSUME NEW k \in 1 .. L, k > i PROVE \E j \in 1 .. Len(cl) : cl[j] = ext[k]
      <4>1. k - 1 \in i .. L - 1 /\ (k - 1) + 1 = k /\ k - 1 \in 1 .. Len(cl)
        BY <1>1, <1>2, <2>1, <3>2
      <4>2. QED
        BY <2>1, <4>1
    <3>3. QED
      BY <1>1, <1>2, <3>1, <3>2
  <2>8. ASSUME NEW u \in Int PROVE ~(addr + size <= u /\ u < ext[i].addr + ext[i].size)
    BY <1>2, <1>3, <1>5, <1>11
  <2>9. \A j \in 1 .. Len(cl) : \E k \in 1 .. L : cl[j].size <= ext[k].size
    BY <1>5, <2>6
  <2>10. Len(cl) + map2.slots = L + map.slots
    BY <1>1, <2>1, <2>3
  <2>11. \A u \in Int : (\E j \in 1 .. Len(cl) : InExtent(cl[j], u))
                             <=> \/ \E k \in 1 .. L : k # i /\ InExtent(ext[k], u)
                                 \/ addr + size <= u /\ u < ext[i].addr + ext[i].size
    BY <2>6, <2>7, <2>8
  <2>12. QED
    BY <1>9, <1>10, <2>3, <2>5, <2>9, <2>10, <2>11
<1>12. CASE ext[i].size # size
  <2> DEFINE e == Behind(ext[i], size)
             cl == [ext EXCEPT ![i] = e]
  <2>1. e \in Extent /\ e.addr = addr + size /\ e.size = ext[i].size - size
    BY <1>2, <1>3, <1>5, <1>12 DEF Behind, Extent
  <2>2. /\ cl \in Seq(Extent) /\ Len(cl) = L /\ cl[i] = e
        /\ \A j \in 1 .. L : j # i => cl[j] = ext[j]
    BY <1>1, <1>2, <2>1
  <2>3. map2 = [map EXCEPT !.ext = cl]
    BY <1>4, <1>12
  <2> HIDE DEF cl, e
  <2>4. map2 \in Map /\ new = cl /\ map2.slots = map.slots /\ map2.want = map.want
    BY <2>2, <2>3 DEF Map
  <2>5. e.addr \in Nat /\ e.size \in Nat /\ e.addr + e.size = ext[i].addr + ext[i].size
        /\ ext[i].addr <= e.addr /\ e.size <= ext[i].size
    BY <1>2, <1>3, <1>5, <2>1, SMTT(40)
  <2>6. Ordered(cl)
    <3>1. ASSUME NEW j \in 1 .. Len(cl) - 1 PROVE cl[j].addr + cl[j].size < cl[j + 1].addr
      <4>1. j \in 1 .. L /\ j + 1 \in 1 .. L /\ j < j + 1
        BY <1>1, <2>2
      <4>2. ext[j].addr + ext[j].size < ext[j + 1].addr
        BY <1>7, <4>1
      <4>3. CASE j = i
        BY <2>2, <2>5, <4>1, <4>2, <4>3
      <4>4. CASE j + 1 = i
        <5>1. cl[j] = ext[j] /\ cl[j + 1] = e /\ ext[j + 1] = ext[i]
          BY <2>2, <4>1, <4>4
        <5>2. ext[j].addr + ext[j].size \in Nat /\ ext[i].addr \in Nat
          BY <1>2, <1>5, <4>1, SMTT(40)
        <5>3. QED
          BY <2>5, <4>2, <5>1, <5>2
      <4>5. CASE j # i /\ j + 1 # i
        BY <2>2, <4>1, <4>2, <4>5
      <4>6. QED
        BY <4>3, <4>4, <4>5
    <3>2. QED
      BY <2>2, <3>1 DEF Ordered
  <2>7. \A j \in 1 .. Len(cl) : \E k \in 1 .. L : cl[j].size <= ext[k].size
    <3>1. ASSUME NEW j \in 1 .. Len(cl) PROVE cl[j].size <= ext[j].size /\ j \in 1 .. L
      <4>1. CASE j = i
        BY <1>2, <2>2, <2>5, <4>1
      <4>2. CASE j # i
        BY <1>5, <2>2, <4>2
      <4>3. QED
        BY <4>1, <4>2
    <3>2. QED
      BY <3>1
  <2>8. Len(cl) + map2.slots = L + map.slots
    BY <2>2, <2>4
  <2>9. ASSUME NEW u \in Int
        PROVE  InExtent(e, u) <=> addr + size <= u /\ u < ext[i].addr + ext[i].size
    BY <2>1, <2>5 DEF InExtent
  <2>10. \A u \in Int : (\E j \in 1 .. Len(cl) : InExtent(cl[j], u))
                             <=> \/ \E k \in 1 .. L : k # i /\ InExtent(ext[k], u)
                                 \/ addr + size <= u /\ u < ext[i].addr + ext[i].size
    BY <1>2, <2>2, <2>9
  <2>11. QED
    BY <1>9, <1>10, <2>4, <2>6, <2>7, <2>8, <2>10
<1>13. QED
  BY <1>9, <1>11, <1>12

\* Table new is ext with the entry e in place of entries lo + 1 to hi.
Spliced(ext, lo, hi, e, new) ==
    /\ Ordered(ext) /\ lo \in 0 .. Len(ext) /\ hi \in lo .. Len(ext) /\ e \in Extent
    /\ new \in Seq(Extent) /\ Len(new) = Len(ext) - (hi - lo) + 1
    /\ \A j \in 1 .. lo : new[j] = ext[j]
    /\ new[lo + 1] = e
    /\ \A j \in hi + 1 .. Len(ext) : new[j - hi + lo + 1] = ext[j]
    /\ \A j \in 1 .. lo : ext[j].addr + ext[j].size < e.addr
    /\ \A j \in hi + 1 .. Len(ext) : e.addr + e.size < ext[j].addr

\* Replacing some extents by one that lies between the rest keeps the order, and
\* the units are those of the new one and of the rest.
LEMMA Replaced ==
    ASSUME NEW ext, NEW lo, NEW hi, NEW e, NEW new, Spliced(ext, lo, hi, e, new)
    PROVE  /\ Ordered(new)
           /\ \A u : (\E j \in 1 .. Len(new) : InExtent(new[j], u))
                     <=> \/ InExtent(e, u)
                         \/ \E j \in 1 .. Len(ext) : (j <= lo \/ j > hi) /\ InExtent(ext[j], u)
<1> DEFINE L == Len(ext)
<1>0. /\ Ordered(ext) /\ lo \in 0 .. L /\ hi \in lo .. L /\ e \in Extent
      /\ new \in Seq(Extent) /\ Len(new) = L - (hi - lo) + 1
      /\ \A j \in 1 .. lo : new[j] = ext[j]
      /\ new[lo + 1] = e
      /\ \A j \in hi + 1 .. L : new[j - hi + lo + 1] = ext[j]
      /\ \A j \in 1 .. lo : ext[j].addr + ext[j].size < e.addr
      /\ \A j \in hi + 1 .. L : e.addr + e.size < ext[j].addr
  BY DEF Spliced
<1>1. L \in Nat /\ lo \in Nat /\ hi \in Nat /\ Len(new) \in Nat /\ lo <= hi /\ hi <= L
  BY <1>0 DEF Ordered
<1>2. \A i, j \in 1 .. L : i < j => ext[i].addr + ext[i].size < ext[j].addr
  BY <1>0, OrderedPair
\* Where an entry of the new table comes from.
<1>3. ASSUME NEW j \in 1 .. Len(new)
      PROVE  \/ j <= lo /\ j \in 1 .. L /\ new[j] = ext[j]
             \/ j = lo + 1 /\ new[j] = e
             \/ j > lo + 1 /\ (j + hi - lo - 1) \in hi + 1 .. L /\ new[j] = ext[j + hi - lo - 1]
  <2>1. CASE j <= lo
    BY <1>0, <1>1, <2>1
  <2>2. CASE j = lo + 1
    BY <1>0, <2>2
  <2>3. CASE j > lo + 1
    <3>1. (j + hi - lo - 1) \in hi + 1 .. L /\ (j + hi - lo - 1) - hi + lo + 1 = j
      BY <1>0, <1>1, <2>3
    <3>2. QED
      BY <1>0, <2>3, <3>1
  <2>4. QED
    BY <1>0, <1>1, <2>1, <2>2, <2>3
<1>4. ASSUME NEW j \in 1 .. Len(new) - 1 PROVE new[j].addr + new[j].size < new[j + 1].addr
  <2>1. j \in 1 .. Len(new) /\ j + 1 \in 1 .. Len(new)
    BY <1>0, <1>1
  <2>2. CASE j + 1 <= lo
    <3>1. new[j] = ext[j] /\ new[j + 1] = ext[j + 1] /\ j \in 1 .. L /\ j + 1 \in 1 .. L /\ j < j + 1
      BY <1>0, <1>1, <2>1, <2>2, SMTT(40)
    <3>2. QED
      BY <1>0, <1>2, <3>1
  <2>3. CASE j = lo
    <3>1. new[j] = ext[j] /\ new[j + 1] = e /\ j \in 1 .. lo
      BY <1>0, <1>1, <2>1, <2>3
    <3>2. QED
      BY <1>0, <3>1
  <2>4. CASE j = lo + 1
    <3>1. /\ (j + 1 + hi - lo - 1) \in hi + 1 .. L /\ new[j + 1] = ext[j + 1 + hi - lo - 1]
          /\ new[j] = e
      <4>1. j + 1 > lo + 1 /\ ~(j + 1 <= lo) /\ j + 1 # lo + 1
        BY <1>0, <1>1, <2>4
      <4>2. QED
        BY <1>0, <1>3, <2>1, <2>4, <4>1
    <3>2. QED
      BY <1>0, <3>1
  <2>5. CASE j > lo + 1
    <3> DEFINE x == j + hi - lo - 1
               y == j + 1 + hi - lo - 1
    <3>1. x \in hi + 1 .. L /\ new[j] = ext[x]
      BY <1>0, <1>1, <1>3, <2>1, <2>5
    <3>2. y \in hi + 1 .. L /\ new[j + 1] = ext[y]
      <4>1. j + 1 > lo + 1 /\ ~(j + 1 <= lo) /\ j + 1 # lo + 1
        BY <1>0, <1>1, <2>5
      <4>2. QED
        BY <1>0, <1>3, <2>1, <4>1
    <3>3. x < y /\ x \in 1 .. L /\ y \in 1 .. L
      BY <1>0, <1>1, <3>1, <3>2
    <3> HIDE DEF x, y
    <3>4. QED
      BY <1>0, <1>2, <3>1, <3>2, <3>3
  <2>6. QED
    BY <1>0, <1>1, <2>2, <2>3, <2>4, <2>5
<1>5. Ordered(new)
  BY <1>0, <1>4 DEF Ordered
<1>6. ASSUME NEW u, NEW j \in 1 .. Len(new), InExtent(new[j], u)
      PROVE  InExtent(e, u) \/ \E i \in 1 .. L : (i <= lo \/ i > hi) /\ InExtent(ext[i], u)
  <2>1. CASE j <= lo /\ j \in 1 .. L /\ new[j] = ext[j]
    BY <1>0, <1>6, <2>1
  <2>2. CASE j = lo + 1 /\ new[j] = e
    BY <1>0, <1>6, <2>2
  <2>3. CASE j > lo + 1 /\ (j + hi - lo - 1) \in hi + 1 .. L /\ new[j] = ext[j + hi - lo - 1]
    <3>1. PICK x \in hi + 1 .. L : new[j] = ext[x]
      BY <1>0, <2>3
    <3>2. x \in 1 .. L /\ x > hi
      BY <1>0, <1>1
    <3>3. QED
      BY <1>0, <1>6, <3>1, <3>2
  <2>4. QED
    BY <1>0, <1>3, <2>1, <2>2, <2>3
<1>7. ASSUME NEW u, InExtent(e, u) PROVE \E j \in 1 .. Len(new) : InExtent(new[j], u)
  <2>1. lo + 1 \in 1 .. Len(new)
    BY <1>0, <1>1
  <2>2. QED
    BY <1>0, <1>7, <2>1
<1>8. ASSUME NEW u, NEW i \in 1 .. L, i <= lo \/ i > hi, InExtent(ext[i], u)
      PROVE  \E j \in 1 .. Len(new) : InExtent(new[j], u)
  <2>1. CASE i <= lo
    <3>1. i \in 1 .. Len(new) /\ i \in 1 .. lo
      BY <1>0, <1>1, <2>1
    <3>2. QED
      BY <1>0, <1>8, <3>1
  <2>2. CASE i > hi
    <3>1. i \in hi + 1 .. L /\ i - hi + lo + 1 \in 1 .. Len(new)
      BY <1>0, <1>1, <2>2
    <3>2. QED
      BY <1>0, <1>8, <3>1
  <2>3. QED
    BY <1>0, <1>8, <2>1, <2>2
<1>9. QED
  BY <1>0, <1>5, <1>6, <1>7, <1>8

\* The entries below a are the first ones.
LEMMA BelowIs ==
    ASSUME NEW map \in Map, MapSound(map), NEW a \in Nat,
           NEW n, n = Cardinality(Below(map, a))
    PROVE  /\ n \in 0 .. Len(map.ext)
           /\ \A j \in 1 .. n : map.ext[j].addr <= a
           /\ \A j \in n + 1 .. Len(map.ext) : map.ext[j].addr > a
<1> DEFINE ext == map.ext
           L == Len(map.ext)
           T == {j \in 1 .. L + 1 : j = L + 1 \/ ext[j].addr > a}
           m == First(T) - 1
<1>1. ext \in Seq(Extent) /\ DOMAIN ext = 1 .. L /\ L \in Nat
  BY DEF Map
<1>2. \A j \in 1 .. L : ext[j].addr \in Nat /\ ext[j].size \in Nat
  <2>1. \A j \in 1 .. L : ext[j] \in Extent
    BY <1>1
  <2>2. QED
    BY <2>1, ExtentFacts
<1>3. Ordered(ext)
  BY OrderedIs
<1>4. \A i, j \in 1 .. L : i < j => ext[i].addr + ext[i].size < ext[j].addr
  BY <1>3, OrderedPair
<1>5. T \subseteq Nat /\ T # {}
  <2>1. L + 1 \in T
    BY <1>1
  <2>2. QED
    BY <1>1, <2>1
<1>6. First(T) \in T /\ \A t \in T : First(T) <= t
  BY <1>5, FirstIs
<1>7. m \in 0 .. L /\ m + 1 = First(T)
  BY <1>1, <1>6
<1> HIDE DEF m
<1>8. ASSUME NEW j \in 1 .. m PROVE ext[j].addr <= a
  <2>1. j \in 1 .. L /\ j < First(T) /\ j \in 1 .. L + 1
    BY <1>1, <1>7
  <2>2. j \notin T
    BY <1>1, <1>6, <1>7, <2>1
  <2>3. ~(ext[j].addr > a)
    BY <2>1, <2>2
  <2>4. QED
    BY <1>2, <2>1, <2>3
<1>9. ASSUME NEW j \in m + 1 .. L PROVE ext[j].addr > a
  <2>1. j \in 1 .. L /\ m + 1 \in 1 .. L
    BY <1>1, <1>7
  <2>2. ext[m + 1].addr > a
    <3>1. m + 1 \in T /\ m + 1 # L + 1
      <4>1. m + 1 # L + 1
        BY <1>1, <2>1
      <4>2. QED
        BY <1>6, <1>7, <4>1
    <3>2. QED
      BY <3>1
  <2>3. CASE j = m + 1
    BY <2>2, <2>3
  <2>4. CASE j > m + 1
    <3>1. ext[m + 1].addr + ext[m + 1].size < ext[j].addr
      BY <1>4, <2>1, <2>4
    <3>2. ext[m + 1].addr \in Nat /\ ext[m + 1].size \in Nat /\ ext[j].addr \in Nat
      BY <1>2, <2>1
    <3>3. QED
      BY <2>2, <3>1, <3>2, SMTT(40)
  <2>5. QED
    BY <1>7, <2>3, <2>4
<1>10. Below(map, a) = 1 .. m
  <2>1. ASSUME NEW j \in 1 .. L PROVE ext[j].addr <= a <=> j \in 1 .. m
    <3>1. CASE j <= m
      BY <1>7, <1>8, <3>1
    <3>2. CASE j > m
      <4>1. ext[j].addr > a
        BY <1>7, <1>9, <3>2
      <4>2. QED
        BY <1>2, <1>7, <3>2, <4>1
    <3>3. QED
      BY <1>7, <3>1, <3>2
  <2>2. 1 .. m \subseteq 1 .. L
    BY <1>1, <1>7
  <2>3. Below(map, a) = {j \in 1 .. L : ext[j].addr <= a}
    BY <1>1 DEF Below
  <2>4. QED
    BY <2>1, <2>2, <2>3
<1>11. n = m
  <2>1. 1 \in Int /\ m \in Int /\ m \in Nat
    BY <1>7
  <2>2. Cardinality(1 .. m) = IF 1 > m THEN 0 ELSE m - 1 + 1
    BY <2>1, FS_Interval
  <2>3. QED
    BY <1>10, <2>1, <2>2
<1>12. QED
  BY <1>7, <1>8, <1>9, <1>11

\* What rmfree() makes of a map: the units are free, and nobody need wait,
Given(map, size, a, map2) ==
    /\ ~map2.want
    /\ \A u : u \in FreeUnits(map2) <=> u \in FreeUnits(map) \/ u \in a .. a + size - 1

\* or the table is full.
Lost(map, size, a, map2) ==
    /\ map2 = map /\ map.slots = 0
    /\ \A j \in 1 .. Len(map.ext) :
           map.ext[j].addr + map.ext[j].size < a \/ a + size < map.ext[j].addr

\* rmfree() (os/malloc.c:93): the map stays ordered, an entry is used or given
\* back, and the units are free, or all of them are lost to a full map.
LEMMA MfreeIs ==
    ASSUME NEW map \in Map, MapSound(map), NEW size \in Nat, size > 0, NEW a \in Nat,
           \A u \in a .. a + size - 1 : u \notin FreeUnits(map),
           NEW map2, map2 = rmfree(map, size, a)
    PROVE  /\ map2 \in Map /\ MapSound(map2)
           /\ Len(map2.ext) + map2.slots = Len(map.ext) + map.slots
           /\ Given(map, size, a, map2) \/ Lost(map, size, a, map2)
<1> DEFINE ext == map.ext
           L == Len(map.ext)
           n == Cardinality(Below(map, a))
           joinL == n > 0 /\ ext[n].addr + ext[n].size = a
           joinR == n < L /\ a + size = ext[n + 1].addr
<1>1. ext \in Seq(Extent) /\ DOMAIN ext = 1 .. L /\ L \in Nat /\ map.slots \in Nat
  BY DEF Map
<1>2. \A j \in 1 .. L : ext[j].addr \in Nat /\ ext[j].size \in Nat /\ ext[j].size > 0
  <2>1. \A j \in 1 .. L : ext[j] \in Extent
    BY <1>1
  <2>2. QED
    BY <2>1, ExtentFacts
<1>3. Ordered(ext)
  BY OrderedIs
<1>4. \A i, j \in 1 .. L : i < j => ext[i].addr + ext[i].size < ext[j].addr
  BY <1>3, OrderedPair
<1>5. \A u : u \in FreeUnits(map) <=> u \in Int /\ \E j \in 1 .. L : InExtent(ext[j], u)
  BY FreeUnitsIs
<1>6. /\ n \in 0 .. L
      /\ \A j \in 1 .. n : ext[j].addr <= a
      /\ \A j \in n + 1 .. L : ext[j].addr > a
  BY BelowIs
<1>7. map2 = CASE joinL /\ joinR ->
                       [map EXCEPT !.ext = Closed([ext EXCEPT ![n].size = @ + size + ext[n + 1].size], n + 1),
                                   !.slots = map.slots + 1, !.want = FALSE]
                  [] joinL /\ ~joinR ->
                       [map EXCEPT !.ext = [ext EXCEPT ![n].size = @ + size], !.want = FALSE]
                  [] ~joinL /\ joinR ->
                       [map EXCEPT !.ext = [ext EXCEPT ![n + 1] = [addr |-> a, size |-> @.size + size]],
                                   !.want = FALSE]
                  [] ~joinL /\ ~joinR /\ map.slots = 0 -> map
                  [] OTHER ->
                       [map EXCEPT !.ext = Opened(ext, n, [addr |-> a, size |-> size]),
                                   !.slots = map.slots - 1, !.want = FALSE]
  BY DEF rmfree
<1> HIDE DEF n, ext, L
<1>8. n \in Nat /\ n <= L /\ L \in Nat
  BY <1>1, <1>6
<1>9. ASSUME NEW j \in 1 .. n PROVE j \in 1 .. L /\ ext[j].addr + ext[j].size <= a
  <2>1. j \in 1 .. L /\ ext[j].addr <= a
    BY <1>1, <1>6, <1>8
  <2>2. a \in a .. a + size - 1 /\ a \in Int
    OBVIOUS
  <2>3. ~InExtent(ext[j], a)
    BY <1>5, <2>1, <2>2
  <2>4. QED
    BY <1>2, <2>1, <2>3 DEF InExtent
<1>10. ASSUME NEW j \in n + 1 .. L PROVE j \in 1 .. L /\ a + size <= ext[j].addr
  <2>1. j \in 1 .. L /\ ext[j].addr > a
    BY <1>1, <1>6, <1>8
  <2>2. InExtent(ext[j], ext[j].addr) /\ ext[j].addr \in Int
    BY <1>2, <2>1 DEF InExtent
  <2>3. ext[j].addr \notin a .. a + size - 1
    BY <1>5, <2>1, <2>2
  <2>4. QED
    BY <1>2, <2>1, <2>3
\* The new table has e in place of entries lo + 1 to hi.
<1> DEFINE new == map2.ext
<1> HIDE DEF new
<1> DEFINE W(lo, hi, e) ==
             /\ lo \in 0 .. L /\ hi \in lo .. L /\ e \in Extent
             /\ lo = IF joinL THEN n - 1 ELSE n
             /\ hi = IF joinR THEN n + 1 ELSE n
             /\ e.addr = IF joinL THEN ext[n].addr ELSE a
             /\ e.addr + e.size = IF joinR THEN ext[n + 1].addr + ext[n + 1].size ELSE a + size
             /\ map2 \in Map /\ ~map2.want /\ Len(new) + map2.slots = L + map.slots
             /\ Len(new) = L - (hi - lo) + 1
             /\ \A j \in 1 .. lo : new[j] = ext[j]
             /\ new[lo + 1] = e
             /\ \A j \in hi + 1 .. L : new[j - hi + lo + 1] = ext[j]
<1>11. ASSUME NEW lo, NEW hi, NEW e, W(lo, hi, e)
       PROVE  /\ map2 \in Map /\ MapSound(map2)
              /\ Len(map2.ext) + map2.slots = L + map.slots
              /\ ~map2.want
              /\ \A u : u \in FreeUnits(map2) <=> u \in FreeUnits(map) \/ u \in a .. a + size - 1
  <2>1. new \in Seq(Extent)
    BY <1>11 DEF Map, new
  <2>2. e.addr \in Nat /\ e.size \in Nat /\ e.size > 0
    BY <1>11, ExtentFacts
  <2>3. ASSUME NEW j \in 1 .. lo PROVE ext[j].addr + ext[j].size < e.addr
    <3>1. CASE joinL
      <4>1. j \in 1 .. L /\ n \in 1 .. L /\ j < n
        BY <1>8, <1>11, <3>1
      <4>2. QED
        BY <1>4, <1>11, <3>1, <4>1
    <3>2. CASE ~joinL
      <4>1. j \in 1 .. n
        BY <1>11, <3>2
      <4>2. j \in 1 .. L /\ ext[j].addr + ext[j].size <= a
        BY <1>9, <4>1
      <4>3. CASE j = n
        <5>1. ext[j].addr + ext[j].size # a
          BY <1>8, <3>2, <4>1, <4>3
        <5>2. ext[j].addr + ext[j].size \in Nat
          BY <1>2, <4>2
        <5>3. ext[j].addr + ext[j].size < a
          BY <4>2, <5>1, <5>2
        <5>4. QED
          BY <1>11, <3>2, <5>3
      <4>4. CASE j < n
        <5>1. n \in 1 .. n /\ n \in 1 .. L
          BY <1>8, <4>1, <4>4
        <5>2. ext[j].addr + ext[j].size < ext[n].addr /\ ext[n].addr <= a
          BY <1>4, <1>6, <4>2, <4>4, <5>1
        <5>3. ext[j].addr + ext[j].size \in Nat /\ ext[n].addr \in Nat
          BY <1>2, <4>2, <5>1
        <5>4. ext[j].addr + ext[j].size < a
          BY <5>2, <5>3
        <5>5. QED
          BY <1>11, <3>2, <5>4
      <4>5. QED
        BY <1>8, <4>1, <4>3, <4>4
    <3>3. QED
      BY <3>1, <3>2
  <2>4. ASSUME NEW j \in hi + 1 .. L PROVE e.addr + e.size < ext[j].addr
    <3>1. CASE joinR
      <4>1. j \in 1 .. L /\ n + 1 \in 1 .. L /\ n + 1 < j
        BY <1>8, <1>11, <3>1
      <4>2. QED
        BY <1>4, <1>11, <3>1, <4>1
    <3>2. CASE ~joinR
      <4>1. j \in n + 1 .. L
        BY <1>11, <3>2
      <4>2. j \in 1 .. L /\ a + size <= ext[j].addr
        BY <1>10, <4>1
      <4>3. CASE j = n + 1
        <5>1. ext[j].addr # a + size
          BY <1>8, <3>2, <4>1, <4>3
        <5>2. ext[j].addr \in Nat
          BY <1>2, <4>2
        <5>3. a + size < ext[j].addr
          BY <4>2, <5>1, <5>2
        <5>4. QED
          BY <1>11, <3>2, <5>3
      <4>4. CASE n + 1 < j
        <5>1. n + 1 \in n + 1 .. L /\ n + 1 \in 1 .. L
          BY <1>8, <4>1, <4>4
        <5>2. ext[n + 1].addr + ext[n + 1].size < ext[j].addr /\ a + size <= ext[n + 1].addr
          BY <1>4, <1>10, <4>2, <4>4, <5>1
        <5>3. ext[n + 1].addr \in Nat /\ ext[n + 1].size \in Nat /\ ext[j].addr \in Nat
          BY <1>2, <4>2, <5>1
        <5>4. a + size < ext[j].addr
          BY <5>2, <5>3
        <5>5. QED
          BY <1>11, <3>2, <5>4
      <4>5. QED
        BY <1>8, <4>1, <4>3, <4>4
    <3>3. QED
      BY <3>1, <3>2
  <2>5. /\ Ordered(new)
        /\ \A u : (\E j \in 1 .. Len(new) : InExtent(new[j], u))
                  <=> InExtent(e, u) \/ \E j \in 1 .. L : (j <= lo \/ j > hi) /\ InExtent(ext[j], u)
    <3> HIDE DEF joinL, joinR
    <3>1. QED
      <4>1. Spliced(ext, lo, hi, e, new)
        BY <1>3, <1>11, <2>1, <2>3, <2>4 DEF Spliced, L, ext
      <4>2. QED
        BY <4>1, Replaced DEF L, ext
  <2>6. ASSUME NEW u \in Int
        PROVE  InExtent(e, u) <=> \/ u \in a .. a + size - 1
                                  \/ joinL /\ InExtent(ext[n], u)
                                  \/ joinR /\ InExtent(ext[n + 1], u)
    <3>1. joinL => n \in 1 .. L
      BY <1>8
    <3>2. joinR => n + 1 \in 1 .. L
      BY <1>8
    <3>3. joinL => ext[n].addr \in Nat /\ ext[n].size \in Nat /\ ext[n].addr + ext[n].size = a
      BY <1>2, <3>1
    <3>4. joinR => ext[n + 1].addr \in Nat /\ ext[n + 1].size \in Nat /\ ext[n + 1].addr = a + size
      BY <1>2, <3>2
    <3> HIDE DEF joinL, joinR
    <3>5. /\ e.addr = IF joinL THEN ext[n].addr ELSE a
          /\ e.addr + e.size = IF joinR THEN ext[n + 1].addr + ext[n + 1].size ELSE a + size
      BY <1>11
    <3>6. CASE joinL /\ joinR
      BY <2>2, <3>3, <3>4, <3>5, <3>6 DEF InExtent
    <3>7. CASE joinL /\ ~joinR
      BY <2>2, <3>3, <3>5, <3>7 DEF InExtent
    <3>8. CASE ~joinL /\ joinR
      BY <2>2, <3>4, <3>5, <3>8 DEF InExtent
    <3>9. CASE ~joinL /\ ~joinR
      BY <2>2, <3>5, <3>9 DEF InExtent
    <3>10. QED
      BY <3>6, <3>7, <3>8, <3>9
  <2>7. ASSUME NEW j \in 1 .. L
        PROVE  ~(j <= lo \/ j > hi) <=> (joinL /\ j = n) \/ (joinR /\ j = n + 1)
    <3>1. /\ lo \in Nat /\ hi \in Nat
          /\ lo = IF joinL THEN n - 1 ELSE n
          /\ hi = IF joinR THEN n + 1 ELSE n
      BY <1>8, <1>11
    <3> HIDE DEF joinL, joinR
    <3>2. QED
      BY <1>8, <3>1
  <2>8. joinL => n \in 1 .. L
    BY <1>8
  <2>9. joinR => n + 1 \in 1 .. L
    BY <1>8
  <2>10. \A u : u \in FreeUnits(map2) <=> u \in Int /\ \E j \in 1 .. Len(new) : InExtent(new[j], u)
    BY <1>11, FreeUnitsIs DEF new
  <2>11. ASSUME NEW u PROVE u \in FreeUnits(map2) <=> u \in FreeUnits(map) \/ u \in a .. a + size - 1
    <3>1. u \in a .. a + size - 1 => u \in Int
      OBVIOUS
    <3>2. CASE u \notin Int
      BY <1>5, <2>10, <3>1, <3>2
    <3>3. CASE u \in Int
      <4>1. u \in FreeUnits(map2) <=> InExtent(e, u) \/ \E j \in 1 .. L : (j <= lo \/ j > hi) /\ InExtent(ext[j], u)
        BY <2>5, <2>10, <3>3
      <4>2. u \in FreeUnits(map) <=> \E j \in 1 .. L : InExtent(ext[j], u)
        BY <1>5, <3>3
      <4> HIDE DEF joinL, joinR
      <4>3. InExtent(e, u) <=> \/ u \in a .. a + size - 1
                               \/ joinL /\ InExtent(ext[n], u)
                               \/ joinR /\ InExtent(ext[n + 1], u)
        BY <2>6, <3>3, Zenon
      <4>5. ASSUME NEW j \in 1 .. L, InExtent(ext[j], u)
            PROVE  \/ (j <= lo \/ j > hi) /\ InExtent(ext[j], u)
                   \/ joinL /\ InExtent(ext[n], u)
                   \/ joinR /\ InExtent(ext[n + 1], u)
        BY <2>7, <4>5, Zenon
      <4>4. QED
        BY <2>8, <2>9, <4>1, <4>2, <4>3, <4>5, Zenon
    <3>4. QED
      BY <3>2, <3>3
  <2>12. QED
    BY <1>11, <2>5, <2>11, OrderedIs DEF new
<1>12. CASE joinL /\ joinR
  <2> DEFINE e == [addr |-> ext[n].addr, size |-> ext[n].size + size + ext[n + 1].size]
             jo == [ext EXCEPT ![n].size = @ + size + ext[n + 1].size]
             cl == Closed(jo, n + 1)
  <2>1. n \in 1 .. L /\ n + 1 \in 1 .. L
    BY <1>8, <1>12
  <2>2. e \in Extent /\ e.addr = ext[n].addr /\ e.addr + e.size = ext[n + 1].addr + ext[n + 1].size
    <3>1. e.size = ext[n].size + size + ext[n + 1].size /\ e.addr = ext[n].addr
      OBVIOUS
    <3>2. ext[n].addr \in Nat /\ ext[n].size \in Nat /\ ext[n + 1].size \in Nat /\ ext[n].size > 0
      BY <1>2, <2>1
    <3>3. ext[n].size + size + ext[n + 1].size \in Nat \ {0}
      BY <3>2
    <3>4. e \in Extent
      BY <3>2, <3>3 DEF Extent
    <3>5. ext[n].addr + ext[n].size = a /\ a + size = ext[n + 1].addr
      BY <1>12
    <3>6. QED
      BY <3>1, <3>2, <3>4, <3>5
  <2>3. /\ jo \in Seq(Extent) /\ Len(jo) = L /\ jo[n] = e
        /\ \A j \in 1 .. L : j # n => jo[j] = ext[j]
    <3>1. ext[n] \in Extent
      BY <1>1, <2>1
    <3>2. [ext[n] EXCEPT !.size = ext[n].size + size + ext[n + 1].size] = e
      BY <3>1 DEF Extent
    <3>3. jo = [ext EXCEPT ![n] = e]
      BY <3>2
    <3> HIDE DEF jo, e
    <3>4. QED
      BY <1>1, <2>1, <2>2, <3>3
  <2>4. map2 = [map EXCEPT !.ext = cl, !.slots = map.slots + 1, !.want = FALSE]
    BY <1>7, <1>12
  <2> HIDE DEF jo, e
  <2>5. /\ cl \in Seq(Extent) /\ Len(cl) = L - 1
        /\ \A j \in 1 .. n : cl[j] = jo[j]
        /\ \A j \in n + 1 .. L - 1 : cl[j] = jo[j + 1]
    <3>1. n + 1 \in 1 .. Len(jo) /\ (n + 1) - 1 = n
      BY <1>8, <2>1, <2>3
    <3>2. QED
      BY <2>3, <3>1, ClosedIs
  <2> HIDE DEF cl
  <2>6. map2 \in Map /\ new = cl /\ map2.slots = map.slots + 1 /\ ~map2.want
    <3>1. map.slots + 1 \in Nat
      BY <1>1
    <3>2. QED
      BY <2>4, <2>5, <3>1, Zenon DEF Map, new
  <2>7. /\ n - 1 \in 0 .. L /\ n + 1 \in n - 1 .. L
        /\ Len(new) = L - ((n + 1) - (n - 1)) + 1 /\ Len(new) + map2.slots = L + map.slots
    <3>1. QED
      BY <1>1, <1>8, <2>1, <2>5, <2>6
  <2>8. \A j \in 1 .. n - 1 : cl[j] = ext[j]
    BY <1>8, <2>1, <2>3, <2>5, SMTT(40)
  <2>9. cl[(n - 1) + 1] = e
    BY <1>8, <2>1, <2>3, <2>5
  <2>10. \A j \in (n + 1) + 1 .. L : cl[j - (n + 1) + (n - 1) + 1] = ext[j]
    <3>1. ASSUME NEW j \in (n + 1) + 1 .. L PROVE cl[j - (n + 1) + (n - 1) + 1] = ext[j]
      <4>1. /\ j - (n + 1) + (n - 1) + 1 = j - 1 /\ j - 1 \in n + 1 .. L - 1 /\ (j - 1) + 1 = j
            /\ j \in 1 .. L /\ j # n
        BY <1>1, <1>8
      <4>2. QED
        BY <2>3, <2>5, <4>1
    <3>2. QED
      BY <3>1
  <2>11. /\ n - 1 = IF joinL THEN n - 1 ELSE n
         /\ n + 1 = IF joinR THEN n + 1 ELSE n
         /\ e.addr = IF joinL THEN ext[n].addr ELSE a
         /\ e.addr + e.size = IF joinR THEN ext[n + 1].addr + ext[n + 1].size ELSE a + size
    BY <1>12, <2>2
  <2> HIDE DEF joinL, joinR
  <2>12. W(n - 1, n + 1, e)
    BY <2>2, <2>6, <2>7, <2>8, <2>9, <2>10, <2>11
  <2> HIDE DEF W
  <2>13. QED
    BY <1>11, <2>12, Zenon DEF L, ext, Given
<1>13. CASE joinL /\ ~joinR
  <2> DEFINE e == [addr |-> ext[n].addr, size |-> ext[n].size + size]
             jo == [ext EXCEPT ![n].size = @ + size]
  <2>1. n \in 1 .. L
    BY <1>8, <1>13
  <2>2. e \in Extent /\ e.addr = ext[n].addr /\ e.addr + e.size = a + size
    <3>1. e.size = ext[n].size + size /\ e.addr = ext[n].addr
      OBVIOUS
    <3>2. ext[n].addr \in Nat /\ ext[n].size \in Nat /\ ext[n].size > 0
      BY <1>2, <2>1
    <3>3. ext[n].size + size \in Nat \ {0}
      BY <3>2
    <3>4. e \in Extent
      BY <3>2, <3>3 DEF Extent
    <3>5. ext[n].addr + ext[n].size = a
      BY <1>13
    <3>6. QED
      BY <3>1, <3>2, <3>4, <3>5
  <2>3. /\ jo \in Seq(Extent) /\ Len(jo) = L /\ jo[n] = e
        /\ \A j \in 1 .. L : j # n => jo[j] = ext[j]
    <3>1. ext[n] \in Extent
      BY <1>1, <2>1
    <3>2. [ext[n] EXCEPT !.size = ext[n].size + size] = e
      BY <3>1 DEF Extent
    <3>3. jo = [ext EXCEPT ![n] = e]
      BY <3>2
    <3> HIDE DEF jo, e
    <3>4. QED
      BY <1>1, <2>1, <2>2, <3>3
  <2>4. map2 = [map EXCEPT !.ext = jo, !.want = FALSE]
    BY <1>7, <1>13
  <2> HIDE DEF jo, e
  <2>6. map2 \in Map /\ new = jo /\ map2.slots = map.slots /\ ~map2.want
    BY <2>3, <2>4, Zenon DEF Map, new
  <2>7. /\ n - 1 \in 0 .. L /\ n \in n - 1 .. L
        /\ Len(new) = L - (n - (n - 1)) + 1 /\ Len(new) + map2.slots = L + map.slots
    <3>1. QED
      BY <1>1, <1>8, <2>1, <2>3, <2>6
  <2>8. \A j \in 1 .. n - 1 : jo[j] = ext[j]
    BY <1>8, <2>1, <2>3
  <2>9. jo[(n - 1) + 1] = e
    BY <1>8, <2>1, <2>3
  <2>10. \A j \in n + 1 .. L : jo[j - n + (n - 1) + 1] = ext[j]
    <3>1. ASSUME NEW j \in n + 1 .. L PROVE jo[j - n + (n - 1) + 1] = ext[j]
      <4>1. j - n + (n - 1) + 1 = j /\ j \in 1 .. L /\ j # n
        BY <1>1, <1>8
      <4>2. QED
        BY <2>3, <4>1
    <3>2. QED
      BY <3>1
  <2>11. /\ n - 1 = IF joinL THEN n - 1 ELSE n
         /\ n = IF joinR THEN n + 1 ELSE n
         /\ e.addr = IF joinL THEN ext[n].addr ELSE a
         /\ e.addr + e.size = IF joinR THEN ext[n + 1].addr + ext[n + 1].size ELSE a + size
    BY <1>13, <2>2
  <2> HIDE DEF joinL, joinR
  <2>12. W(n - 1, n, e)
    BY <2>2, <2>6, <2>7, <2>8, <2>9, <2>10, <2>11
  <2> HIDE DEF W
  <2>13. QED
    BY <1>11, <2>12, Zenon DEF L, ext, Given
<1>14. CASE ~joinL /\ joinR
  <2> DEFINE e == [addr |-> a, size |-> ext[n + 1].size + size]
             jo == [ext EXCEPT ![n + 1] = [addr |-> a, size |-> @.size + size]]
  <2>1. n + 1 \in 1 .. L
    BY <1>8, <1>14
  <2>2. e \in Extent /\ e.addr = a /\ e.addr + e.size = ext[n + 1].addr + ext[n + 1].size
    <3>1. e.size = ext[n + 1].size + size /\ e.addr = a
      OBVIOUS
    <3>2. ext[n + 1].addr \in Nat /\ ext[n + 1].size \in Nat /\ ext[n + 1].size > 0
      BY <1>2, <2>1
    <3>3. ext[n + 1].size + size \in Nat \ {0}
      BY <3>2
    <3>4. e \in Extent
      BY <3>2, <3>3 DEF Extent
    <3>5. a + size = ext[n + 1].addr
      BY <1>14
    <3>6. QED
      BY <3>1, <3>2, <3>4, <3>5
  <2>3. /\ jo \in Seq(Extent) /\ Len(jo) = L /\ jo[n + 1] = e
        /\ \A j \in 1 .. L : j # n + 1 => jo[j] = ext[j]
    <3>3. jo = [ext EXCEPT ![n + 1] = e]
      OBVIOUS
    <3> HIDE DEF jo, e
    <3>4. QED
      BY <1>1, <2>1, <2>2, <3>3
  <2>4. map2 = [map EXCEPT !.ext = jo, !.want = FALSE]
    BY <1>7, <1>14
  <2> HIDE DEF jo, e
  <2>6. map2 \in Map /\ new = jo /\ map2.slots = map.slots /\ ~map2.want
    BY <2>3, <2>4, Zenon DEF Map, new
  <2>7. /\ n \in 0 .. L /\ n + 1 \in n .. L
        /\ Len(new) = L - ((n + 1) - n) + 1 /\ Len(new) + map2.slots = L + map.slots
    <3>1. QED
      BY <1>1, <1>8, <2>1, <2>3, <2>6
  <2>8. \A j \in 1 .. n : jo[j] = ext[j]
    BY <1>8, <2>1, <2>3
  <2>9. jo[n + 1] = e
    BY <2>3
  <2>10. \A j \in (n + 1) + 1 .. L : jo[j - (n + 1) + n + 1] = ext[j]
    <3>1. ASSUME NEW j \in (n + 1) + 1 .. L PROVE jo[j - (n + 1) + n + 1] = ext[j]
      <4>1. j - (n + 1) + n + 1 = j /\ j \in 1 .. L /\ j # n + 1
        BY <1>1, <1>8
      <4>2. QED
        BY <2>3, <4>1
    <3>2. QED
      BY <3>1
  <2>11. /\ n = IF joinL THEN n - 1 ELSE n
         /\ n + 1 = IF joinR THEN n + 1 ELSE n
         /\ e.addr = IF joinL THEN ext[n].addr ELSE a
         /\ e.addr + e.size = IF joinR THEN ext[n + 1].addr + ext[n + 1].size ELSE a + size
    BY <1>14, <2>2
  <2> HIDE DEF joinL, joinR
  <2>12. W(n, n + 1, e)
    BY <2>2, <2>6, <2>7, <2>8, <2>9, <2>10, <2>11
  <2> HIDE DEF W
  <2>13. QED
    BY <1>11, <2>12, Zenon DEF L, ext, Given
<1>15. CASE ~joinL /\ ~joinR /\ map.slots = 0
  <2>1. map2 = map
    BY <1>7, <1>15
  <2>2. ASSUME NEW j \in 1 .. L PROVE ext[j].addr + ext[j].size < a \/ a + size < ext[j].addr
    <3>1. ext[j].addr \in Nat /\ ext[j].size \in Nat
      BY <1>2
    <3>2. CASE j < n
      <4>1. j \in 1 .. n /\ n \in 1 .. n /\ n \in 1 .. L
        BY <1>8, <3>2
      <4>2. ext[j].addr + ext[j].size < ext[n].addr /\ ext[n].addr <= a /\ ext[n].addr \in Nat
        BY <1>2, <1>4, <1>6, <3>2, <4>1
      <4>3. QED
        BY <3>1, <4>2
    <3>3. CASE j = n
      <4>1. j \in 1 .. n /\ n > 0
        BY <1>8, <3>3
      <4>2. ext[j].addr + ext[j].size <= a /\ ext[j].addr + ext[j].size # a
        BY <1>9, <1>15, <3>3, <4>1
      <4>3. QED
        BY <3>1, <4>2
    <3>4. CASE j = n + 1
      <4>1. j \in n + 1 .. L /\ n < L
        BY <1>8, <3>4
      <4>2. a + size <= ext[j].addr /\ a + size # ext[j].addr
        BY <1>10, <1>15, <3>4, <4>1
      <4>3. QED
        BY <3>1, <4>2
    <3>5. CASE j > n + 1
      <4>1. n + 1 \in n + 1 .. L /\ n + 1 \in 1 .. L
        BY <1>8, <3>5
      <4>2. /\ ext[n + 1].addr + ext[n + 1].size < ext[j].addr /\ a + size <= ext[n + 1].addr
            /\ ext[n + 1].addr \in Nat /\ ext[n + 1].size \in Nat
        BY <1>2, <1>4, <1>10, <3>5, <4>1
      <4>3. QED
        BY <3>1, <4>2
    <3>6. j < n \/ j = n \/ j = n + 1 \/ j > n + 1
      BY <1>8
    <3>7. QED
      BY <3>2, <3>3, <3>4, <3>5, <3>6, Zenon
  <2>3. QED
    BY <1>3, <1>15, <2>1, <2>2 DEF L, ext, Lost
<1>16. CASE ~joinL /\ ~joinR /\ map.slots # 0
  <2> DEFINE e == [addr |-> a, size |-> size]
             jo == Opened(ext, n, e)
  <2>1. map2 = [map EXCEPT !.ext = jo, !.slots = map.slots - 1, !.want = FALSE]
    BY <1>7, <1>16
  <2>2. e \in Extent /\ e.addr = a /\ e.addr + e.size = a + size
    BY DEF Extent
  <2> HIDE DEF e
  <2>3. /\ jo \in Seq(Extent) /\ Len(jo) = L + 1 /\ jo[n + 1] = e
        /\ \A j \in 1 .. n : jo[j] = ext[j]
        /\ \A j \in n + 2 .. L + 1 : jo[j] = ext[j - 1]
    <3>1. n \in 0 .. Len(ext)
      BY <1>6 DEF L, ext
    <3>2. jo = Opened(ext, n, e)
      OBVIOUS
    <3> HIDE DEF jo
    <3>3. /\ jo \in Seq(Extent) /\ Len(jo) = Len(ext) + 1 /\ jo[n + 1] = e
          /\ \A j \in 1 .. n : jo[j] = ext[j]
          /\ \A j \in n + 2 .. Len(ext) + 1 : jo[j] = ext[j - 1]
      <4>1. OpenedAs(ext, n, e, jo)
        BY <1>1, <2>2, <3>1, <3>2, InsertIs
      <4>2. QED
        BY <4>1 DEF OpenedAs
    <3>4. QED
      BY <3>3 DEF L, ext
  <2> HIDE DEF jo
  <2>6. map2 \in Map /\ new = jo /\ map2.slots = map.slots - 1 /\ ~map2.want
    <3>1. map.slots - 1 \in Nat
      BY <1>1, <1>16
    <3>2. QED
      BY <2>1, <2>3, <3>1, Zenon DEF Map, new
  <2>7. /\ n \in 0 .. L /\ n \in n .. L
        /\ Len(new) = L - (n - n) + 1 /\ Len(new) + map2.slots = L + map.slots
    <3>1. QED
      BY <1>1, <1>8, <2>3, <2>6
  <2>10. \A j \in n + 1 .. L : jo[j - n + n + 1] = ext[j]
    <3>1. ASSUME NEW j \in n + 1 .. L PROVE jo[j - n + n + 1] = ext[j]
      <4>1. j - n + n + 1 = j + 1 /\ j + 1 \in n + 2 .. L + 1 /\ (j + 1) - 1 = j
        BY <1>1, <1>8
      <4>2. QED
        BY <2>3, <4>1
    <3>2. QED
      BY <3>1
  <2>11. /\ n = IF joinL THEN n - 1 ELSE n
         /\ n = IF joinR THEN n + 1 ELSE n
         /\ e.addr = IF joinL THEN ext[n].addr ELSE a
         /\ e.addr + e.size = IF joinR THEN ext[n + 1].addr + ext[n + 1].size ELSE a + size
    BY <1>16, <2>2
  <2> HIDE DEF joinL, joinR
  <2>12. W(n, n, e)
    BY <2>2, <2>3, <2>6, <2>7, <2>10, <2>11
  <2> HIDE DEF W
  <2>13. QED
    BY <1>11, <2>12, Zenon DEF L, ext, Given
<1>17. QED
  BY <1>12, <1>13, <1>14, <1>15, <1>16 DEF L, ext

(***************************************************************************)
(* The pool of text space: text[h] is what header h has of it.             *)
(***************************************************************************)

\* The map has an entry for every gap there can be between two messages.
MapSuffices == msgmap_len >= Cardinality(Headers) + 2

\* What a header has of the pool.
Span == [addr : Nat, size : Nat]

\* Nothing of it.
None == [addr |-> 0, size |-> 0]

\* Header h, or the map, has unit u.
Taken(map, text, u) == u \in FreeUnits(map) \/ \E h \in Headers : InExtent(text[h], u)

\* The map and the texts share the pool: no unit is of two headers, none of a
\* header and free, none outside; and none is lost when the map suffices.
Pool(map, text) ==
    /\ map \in Map /\ MapSound(map) /\ Len(map.ext) + map.slots = msgmap_len - 2
    /\ text \in [Headers -> Span]
    /\ \A g, h \in Headers : g # h => \A u \in Int : ~(InExtent(text[g], u) /\ InExtent(text[h], u))
    /\ \A h \in Headers : \A u \in Int : InExtent(text[h], u) => u \notin FreeUnits(map)
    /\ \A u \in Int : Taken(map, text, u) => u \in 1 .. msgseg
    /\ MapSuffices => \A u \in 1 .. msgseg : Taken(map, text, u)

\* The units of a span.
LEMMA SpanIs ==
    ASSUME NEW s \in Span
    PROVE  /\ s.addr \in Nat /\ s.size \in Nat
           /\ \A u \in Int : InExtent(s, u) <=> u \in s.addr .. s.addr + s.size - 1
           /\ s.size = 0 => \A u \in Int : ~InExtent(s, u)
BY DEF Span, InExtent

\* Spans without units do not matter.
LEMMA PoolSame ==
    ASSUME NEW map, NEW text, Pool(map, text), NEW text2 \in [Headers -> Span],
           \A h \in Headers : text2[h] = text[h] \/ (text[h].size = 0 /\ text2[h].size = 0)
    PROVE  Pool(map, text2)
<1>1. text \in [Headers -> Span]
  BY DEF Pool
<1>2. \A h \in Headers : text[h] \in Span /\ text2[h] \in Span
  BY <1>1
<1>3. ASSUME NEW h \in Headers, NEW u \in Int PROVE InExtent(text2[h], u) <=> InExtent(text[h], u)
  <2>1. CASE text2[h] = text[h]
    BY <2>1
  <2>2. CASE text[h].size = 0 /\ text2[h].size = 0
    BY <1>2, <2>2, SpanIs
  <2>3. QED
    BY <2>1, <2>2
<1>4. ASSUME NEW u \in Int PROVE Taken(map, text2, u) <=> Taken(map, text, u)
  BY <1>3 DEF Taken
<1>5. 1 .. msgseg \subseteq Int
  BY SizesNatural
<1>6. QED
  BY <1>3, <1>4, <1>5 DEF Pool

\* Nor does who waits.
LEMMA PoolWant ==
    ASSUME NEW map, NEW text, Pool(map, text), NEW w \in BOOLEAN, NEW map2, map2 = [map EXCEPT !.want = w]
    PROVE  Pool(map2, text) /\ map2.want = w /\ \A s : Fits(map2, s) = Fits(map, s)
<1>1. map \in Map
  BY DEF Pool
<1>2. map2 \in Map /\ map2.ext = map.ext /\ map2.slots = map.slots /\ map2.want = w
  BY <1>1 DEF Map
<1>3. FreeUnits(map2) = FreeUnits(map) /\ (MapSound(map2) <=> MapSound(map))
  BY <1>2 DEF FreeUnits, MapSound
<1>4. \A u : Taken(map2, text, u) <=> Taken(map, text, u)
  BY <1>3 DEF Taken
<1>5. \A s : Fits(map2, s) = Fits(map, s)
  BY <1>2 DEF Fits
<1>6. QED
  BY <1>2, <1>3, <1>4, <1>5 DEF Pool

\* An address of 0 from rmalloc() says that nothing is large enough.
LEMMA AddrZero ==
    ASSUME NEW map, NEW text, Pool(map, text), NEW size \in Nat
    PROVE  /\ rmalloc_addr(map, size) = 0 <=> size = 0 \/ Fits(map, size) = {}
           /\ rmalloc_addr(map, size) \in Nat
<1>1. CASE size = 0 \/ Fits(map, size) = {}
  BY <1>1 DEF rmalloc_addr
<1>2. CASE size # 0 /\ Fits(map, size) # {}
  <2>1. map \in Map /\ MapSound(map) /\ size > 0
    BY <1>2 DEF Pool
  <2> DEFINE addr == rmalloc_addr(map, size)
  <2>2. addr \in Nat /\ \A u \in addr .. addr + size - 1 : u \in FreeUnits(map)
    BY <1>2, <2>1, MallocIs
  <2> HIDE DEF addr
  <2>3. addr \in addr .. addr + size - 1 /\ addr \in Int
    BY <2>1, <2>2
  <2>4. Taken(map, text, addr)
    BY <2>2, <2>3 DEF Taken
  <2>5. addr \in 1 .. msgseg
    BY <2>3, <2>4 DEF Pool
  <2>6. addr # 0
    BY <2>5, SizesNatural
  <2>7. QED
    BY <1>2, <2>2, <2>6 DEF addr
<1>3. QED
  BY <1>1, <1>2

\* Header h takes what rmalloc() gives.
LEMMA PoolTakes ==
    ASSUME NEW map, NEW text, Pool(map, text), NEW h \in Headers, text[h].size = 0,
           NEW size \in Nat, size > 0, Fits(map, size) # {}
    PROVE  /\ Pool(rmalloc(map, size), [text EXCEPT ![h] = [addr |-> rmalloc_addr(map, size), size |-> size]])
           /\ rmalloc(map, size).want = map.want
           /\ \A s \in Nat : Fits(map, s) = {} => Fits(rmalloc(map, size), s) = {}
<1> DEFINE addr == rmalloc_addr(map, size)
           map2 == rmalloc(map, size)
           text2 == [text EXCEPT ![h] = [addr |-> addr, size |-> size]]
<1>0. addr = rmalloc_addr(map, size) /\ map2 = rmalloc(map, size)
      /\ text2 = [text EXCEPT ![h] = [addr |-> addr, size |-> size]]
  OBVIOUS
<1> HIDE DEF addr, map2, text2
<1>1. map \in Map /\ MapSound(map) /\ text \in [Headers -> Span]
  BY DEF Pool
<1>2. /\ map2 \in Map /\ MapSound(map2) /\ map2.want = map.want
      /\ addr \in Nat
      /\ \A u \in addr .. addr + size - 1 : u \in FreeUnits(map)
      /\ \A u : u \in FreeUnits(map2) <=> u \in FreeUnits(map) /\ u \notin addr .. addr + size - 1
      /\ \A s \in Nat : Fits(map, s) = {} => Fits(map2, s) = {}
      /\ Len(map2.ext) + map2.slots = Len(map.ext) + map.slots
  BY <1>0, <1>1, MallocIs
<1> DEFINE new == [addr |-> addr, size |-> size]
<1>3. new \in Span /\ \A u \in Int : InExtent(new, u) <=> u \in addr .. addr + size - 1
  <2>1. new \in Span /\ new.addr = addr /\ new.size = size
    BY <1>2 DEF Span
  <2>2. QED
    BY <2>1, SpanIs
<1> HIDE DEF new
<1>4. text2 \in [Headers -> Span] /\ text2[h] = new /\ \A g \in Headers : g # h => text2[g] = text[g]
  BY <1>0, <1>1, <1>3 DEF new
<1>5. \A u \in Int : ~InExtent(text[h], u)
  BY <1>1, SpanIs
<1>6. ASSUME NEW u \in Int PROVE Taken(map2, text2, u) <=> Taken(map, text, u)
  <2>1. CASE u \in addr .. addr + size - 1
    BY <1>2, <1>3, <1>4, <2>1 DEF Taken
  <2>2. CASE u \notin addr .. addr + size - 1
    <3>1. \A g \in Headers : InExtent(text2[g], u) <=> InExtent(text[g], u)
      BY <1>3, <1>4, <1>5, <2>2
    <3>2. QED
      BY <1>2, <2>2, <3>1 DEF Taken
  <2>3. QED
    BY <2>1, <2>2
<1>7. ASSUME NEW g \in Headers, NEW u \in Int, InExtent(text2[g], u)
      PROVE  /\ u \notin FreeUnits(map2)
             /\ \A f \in Headers : f # g => ~InExtent(text2[f], u)
  <2>1. CASE g = h
    <3>1. u \in addr .. addr + size - 1
      BY <1>3, <1>4, <1>7, <2>1
    <3>2. u \in FreeUnits(map)
      BY <1>2, <3>1
    <3>3. \A f \in Headers : ~InExtent(text[f], u)
      BY <3>2 DEF Pool
    <3>4. QED
      BY <1>2, <1>4, <2>1, <3>1, <3>3
  <2>2. CASE g # h
    <3>1. InExtent(text[g], u)
      BY <1>4, <1>7, <2>2
    <3>2. u \notin FreeUnits(map) /\ \A f \in Headers : f # g => ~InExtent(text[f], u)
      BY <3>1 DEF Pool
    <3>3. ~InExtent(new, u)
      BY <1>2, <1>3, <3>2
    <3>4. QED
      BY <1>2, <1>4, <3>2, <3>3
  <2>3. QED
    BY <2>1, <2>2
<1>8. 1 .. msgseg \subseteq Int
  BY SizesNatural
<1>9. QED
  <2>1. /\ Len(map.ext) + map.slots = msgmap_len - 2
        /\ \A u \in Int : Taken(map, text, u) => u \in 1 .. msgseg
        /\ MapSuffices => \A u \in 1 .. msgseg : Taken(map, text, u)
    BY DEF Pool
  <2>2. /\ \A u \in Int : Taken(map2, text2, u) => u \in 1 .. msgseg
        /\ MapSuffices => \A u \in 1 .. msgseg : Taken(map2, text2, u)
    BY <1>6, <1>8, <2>1
  <2>3. /\ \A f, g \in Headers : f # g => \A u \in Int : ~(InExtent(text2[f], u) /\ InExtent(text2[g], u))
        /\ \A g \in Headers : \A u \in Int : InExtent(text2[g], u) => u \notin FreeUnits(map2)
    BY <1>7
  <2>4. Pool(map2, text2)
    BY <1>2, <1>4, <2>1, <2>2, <2>3 DEF Pool
  <2>5. QED
    BY <1>2, <2>4 DEF addr, map2, text2

(***************************************************************************)
(* The table of a map that suffices is never full when text comes back:    *)
(* there is a message between any two free extents.                        *)
(***************************************************************************)

\* A map that suffices is not full when text that no free extent touches comes
\* back.
LEMMA Gaps ==
    ASSUME NEW map, NEW text, Pool(map, text), MapSuffices, NEW h \in Headers,
           text[h].size > 0,
           NEW size, size = text[h].size, NEW a, a = text[h].addr,
           \A j \in 1 .. Len(map.ext) :
               map.ext[j].addr + map.ext[j].size < a \/ a + size < map.ext[j].addr
    PROVE  map.slots # 0
<1> DEFINE ext == map.ext
           L == Len(ext)
           beg(j) == ext[j].addr
           end(j) == ext[j].addr + ext[j].size
           gap(j) == IF end(j) < a THEN end(j) ELSE beg(j) - 1
<1>1. /\ map \in Map /\ MapSound(map) /\ text \in [Headers -> Span]
      /\ L + map.slots = msgmap_len - 2
  BY DEF Pool
<1>2. ext \in Seq(Extent) /\ DOMAIN ext = 1 .. L /\ L \in Nat /\ map.slots \in Nat
  BY <1>1 DEF Map
<1>3. \A j \in 1 .. L : beg(j) \in Nat /\ end(j) \in Nat /\ beg(j) < end(j)
  <2>1. \A j \in 1 .. L : ext[j] \in Extent
    BY <1>2
  <2>2. QED
    BY <2>1, ExtentFacts
<1>4. \A i, j \in 1 .. L : i < j => end(i) < beg(j)
  BY <1>1, OrderedIs, OrderedPair
<1>5. a \in Nat /\ size \in Nat /\ size > 0
  BY <1>1, SpanIs
<1>6. \A u : u \in FreeUnits(map) <=> u \in Int /\ \E j \in 1 .. L : beg(j) <= u /\ u < end(j)
  BY <1>1, FreeUnitsIs DEF InExtent
<1>7. \A u \in Int : InExtent(text[h], u) <=> a <= u /\ u < a + size
  BY DEF InExtent
<1>8. \A u \in Int : Taken(map, text, u) => 1 <= u /\ u <= msgseg
  BY SizesNatural DEF Pool
<1>19. \A j \in 1 .. L : end(j) < a \/ a + size < beg(j)
  OBVIOUS
<1>9. 1 <= a /\ a + size - 1 <= msgseg /\ msgseg \in Nat
  <2>1. InExtent(text[h], a) /\ InExtent(text[h], a + size - 1) /\ a \in Int /\ a + size - 1 \in Int
    BY <1>5, <1>7
  <2>2. QED
    BY <1>8, <2>1, SizesNatural DEF Taken
<1> HIDE DEF ext, L, beg, end
<1>18. \A j \in 1 .. L : gap(j) = IF end(j) < a THEN end(j) ELSE beg(j) - 1
  OBVIOUS
<1> HIDE DEF gap
\* What is before the first and behind the last unit of an extent is a gap.
<1>10. ASSUME NEW j \in 1 .. L, NEW u \in Int, u = end(j) \/ u = beg(j) - 1
       PROVE  u \notin FreeUnits(map)
  <2>1. SUFFICES ASSUME NEW i \in 1 .. L, beg(i) <= u, u < end(i) PROVE FALSE
    BY <1>6
  <2>2. beg(i) \in Nat /\ end(i) \in Nat /\ beg(j) \in Nat /\ end(j) \in Nat /\ beg(j) < end(j)
    BY <1>3
  <2>3. CASE i < j
    <3>1. end(i) < beg(j)
      BY <1>4, <2>3
    <3>2. QED
      BY <1>10, <2>1, <2>2, <3>1
  <2>4. CASE i = j
    BY <1>10, <2>1, <2>2, <2>4
  <2>5. CASE i > j
    <3>1. end(j) < beg(i)
      BY <1>4, <2>5
    <3>2. QED
      BY <1>10, <2>1, <2>2, <3>1
  <2>6. QED
    BY <1>2, <2>3, <2>4, <2>5
<1>11. ASSUME NEW j \in 1 .. L
       PROVE  /\ gap(j) \in Int /\ 1 <= gap(j) /\ gap(j) <= msgseg
              /\ gap(j) \notin FreeUnits(map)
              /\ ~InExtent(text[h], gap(j))
              /\ \/ end(j) < a /\ gap(j) = end(j)
                 \/ ~(end(j) < a) /\ a + size < beg(j) /\ gap(j) = beg(j) - 1
  <2>1. /\ beg(j) \in Nat /\ end(j) \in Nat /\ beg(j) < end(j)
        /\ end(j) < a \/ a + size < beg(j)
    BY <1>3, <1>19
  <2>3. beg(j) \in FreeUnits(map) /\ end(j) - 1 \in FreeUnits(map)
    BY <1>6, <2>1
  <2>4. 1 <= beg(j) /\ end(j) - 1 <= msgseg
    BY <1>8, <2>1, <2>3 DEF Taken
  <2>5. CASE end(j) < a
    <3>1. gap(j) = end(j)
      BY <1>18, <2>5
    <3>2. gap(j) \in Int /\ 1 <= gap(j) /\ gap(j) <= msgseg
      <4>1. ASSUME NEW b \in Nat, NEW e \in Nat, b < e, 1 <= b, e < a
            PROVE  1 <= e /\ e <= msgseg /\ e \in Int
        BY <1>5, <1>9, <4>1
      <4>2. QED
        BY <2>1, <2>4, <2>5, <3>1, <4>1
    <3>3. gap(j) \notin FreeUnits(map)
      BY <1>10, <3>1, <3>2
    <3>4. ~InExtent(text[h], gap(j))
      BY <1>5, <1>7, <2>1, <2>5, <3>1
    <3>5. QED
      BY <2>5, <3>1, <3>2, <3>3, <3>4
  <2>6. CASE ~(end(j) < a)
    <3>1. gap(j) = beg(j) - 1 /\ a + size < beg(j)
      BY <1>18, <2>1, <2>6
    <3>2. gap(j) \in Int /\ 1 <= gap(j) /\ gap(j) <= msgseg
      <4>1. ASSUME NEW b \in Nat, NEW e \in Nat, b < e, e - 1 <= msgseg, a + size < b
            PROVE  1 <= b - 1 /\ b - 1 <= msgseg /\ b - 1 \in Int
        BY <1>5, <1>9, <4>1, SMTT(40)
      <4>2. QED
        BY <2>1, <2>4, <3>1, <4>1
    <3>3. gap(j) \notin FreeUnits(map)
      BY <1>10, <3>1, <3>2
    <3>4. ~InExtent(text[h], gap(j))
      BY <1>5, <1>7, <2>1, <3>1
    <3>5. QED
      BY <2>6, <3>1, <3>2, <3>3, <3>4
  <2>7. QED
    BY <2>5, <2>6
<1>12. \A j \in 1 .. L : \E g \in Headers \ {h} : InExtent(text[g], gap(j))
  <2>1. \A u \in 1 .. msgseg : Taken(map, text, u)
    BY DEF Pool
  <2>2. \A j \in 1 .. L : gap(j) \in 1 .. msgseg
    BY <1>9, <1>11
  <2>3. QED
    BY <1>11, <2>1, <2>2 DEF Taken
<1> DEFINE own == [j \in 1 .. L |-> CHOOSE g \in Headers \ {h} : InExtent(text[g], gap(j))]
<1>13. \A j \in 1 .. L : own[j] \in Headers \ {h} /\ InExtent(text[own[j]], gap(j))
  BY <1>12
<1> HIDE DEF own
\* No header has two of them: there would be a free unit, or one of h, between.
<1>14. ASSUME NEW i \in 1 .. L, NEW j \in 1 .. L, i < j, own[i] = own[j] PROVE FALSE
  <2> DEFINE t == text[own[i]]
  <2>1. t \in Span /\ own[i] \in Headers /\ own[i] # h
    BY <1>1, <1>13
  <2>2. InExtent(t, gap(i)) /\ InExtent(t, gap(j)) /\ gap(i) \in Int /\ gap(j) \in Int
    BY <1>11, <1>13, <1>14
  <2>3. \A u \in Int : gap(i) <= u /\ u <= gap(j) => InExtent(t, u)
    <3>1. t.addr \in Nat /\ t.size \in Nat
      BY <2>1, SpanIs
    <3> HIDE DEF t
    <3>2. QED
      BY <2>2, <3>1 DEF InExtent
  <2>4. \A u \in Int : InExtent(t, u) => u \notin FreeUnits(map) /\ ~InExtent(text[h], u)
    BY <2>1 DEF Pool
  <2>5. /\ beg(i) \in Nat /\ end(i) \in Nat /\ beg(i) < end(i)
        /\ beg(j) \in Nat /\ end(j) \in Nat /\ beg(j) < end(j)
        /\ end(i) < beg(j)
    BY <1>3, <1>4, <1>14
  <2>6. \A u \in Int : (beg(i) <= u /\ u < end(i)) \/ (beg(j) <= u /\ u < end(j)) => u \in FreeUnits(map)
    BY <1>6
  <2> HIDE DEF t
  <2>12. /\ gap(i) = IF end(i) < a THEN end(i) ELSE beg(i) - 1
         /\ gap(j) = IF end(j) < a THEN end(j) ELSE beg(j) - 1
    BY <1>18
  <2>7. CASE end(j) < a
    <3>3. gap(i) <= beg(j) /\ beg(j) <= gap(j) /\ beg(j) \in Int
      BY <1>5, <2>5, <2>7, <2>12
    <3>4. QED
      BY <2>3, <2>4, <2>5, <2>6, <3>3
  <2>8. CASE ~(end(j) < a) /\ end(i) < a
    <3>1. InExtent(text[h], a) /\ a \in Int
      BY <1>5, <1>7
    <3>2. a + size < beg(j)
      BY <1>11, <2>8
    <3>3. gap(i) <= a /\ a <= gap(j)
      BY <1>5, <2>5, <2>8, <2>12, <3>2, SMTT(40)
    <3>4. QED
      BY <2>3, <2>4, <3>1, <3>3
  <2>9. CASE ~(end(j) < a) /\ ~(end(i) < a)
    <3>3. gap(i) <= beg(i) /\ beg(i) <= gap(j) /\ beg(i) \in Int
      BY <1>5, <2>5, <2>9, <2>12
    <3>4. QED
      BY <2>3, <2>4, <2>5, <2>6, <3>3
  <2>11. QED
    BY <2>7, <2>8, <2>9
<1>15. L <= Cardinality(Headers) - 1
  <2>1. own \in Injection(1 .. L, Headers \ {h})
    <3>1. own \in [1 .. L -> Headers \ {h}]
      <4>1. own = [j \in 1 .. L |-> own[j]]
        BY DEF own
      <4>2. QED
        BY <1>13, <4>1
    <3>2. \A i, j \in 1 .. L : own[i] = own[j] => i = j
      BY <1>2, <1>14
    <3>3. QED
      BY <3>1, <3>2 DEF Injection, IsInjective
  <2>2. IsFiniteSet(Headers) /\ Cardinality(Headers) \in Nat
    BY HeadersFinite, FS_CardinalityType
  <2>3. IsFiniteSet(Headers \ {h}) /\ Cardinality(Headers \ {h}) = Cardinality(Headers) - 1
    BY <2>2, FS_RemoveElement
  <2>4. Cardinality(1 .. L) = L /\ IsFiniteSet(1 .. L)
    BY <1>2, FS_Interval
  <2>5. Cardinality(1 .. L) <= Cardinality(Headers \ {h})
    BY <2>1, <2>3, <2>4, FS_Injection
  <2>6. QED
    BY <2>2, <2>3, <2>4, <2>5
<1>16. Cardinality(Headers) \in Nat
  BY HeadersFinite, FS_CardinalityType
<1>17. QED
  BY <1>1, <1>2, <1>15, <1>16, UnitPositive DEF MapSuffices

\* Header h gives its text back.
LEMMA PoolGives ==
    ASSUME NEW map, NEW text, Pool(map, text), NEW h \in Headers, text[h].size > 0
    PROVE  LET map2 == rmfree(map, text[h].size, text[h].addr)
           IN  Pool(map2, [text EXCEPT ![h] = None]) /\ (map2 = map \/ ~map2.want)
<1>0. SUFFICES ASSUME NEW size, size = text[h].size, NEW a, a = text[h].addr,
                      NEW map2, map2 = rmfree(map, size, a),
                      NEW text2, text2 = [text EXCEPT ![h] = None]
               PROVE  Pool(map2, text2) /\ (map2 = map \/ ~map2.want)
  OBVIOUS
<1>1. map \in Map /\ MapSound(map) /\ text \in [Headers -> Span]
  BY DEF Pool
<1>2. a \in Nat /\ size \in Nat /\ size > 0
      /\ \A u \in Int : InExtent(text[h], u) <=> u \in a .. a + size - 1
  BY <1>0, <1>1, SpanIs
<1>3. \A u \in a .. a + size - 1 : u \notin FreeUnits(map)
  BY <1>2 DEF Pool
<1>4. /\ map2 \in Map /\ MapSound(map2)
      /\ Len(map2.ext) + map2.slots = Len(map.ext) + map.slots
      /\ Given(map, size, a, map2) \/ Lost(map, size, a, map2)
  <2>1. /\ map \in Map /\ MapSound(map) /\ size \in Nat /\ size > 0 /\ a \in Nat
        /\ \A u \in a .. a + size - 1 : u \notin FreeUnits(map)
        /\ map2 = rmfree(map, size, a)
    BY <1>0, <1>1, <1>2, <1>3
  <2>2. QED
    BY <2>1, MfreeIs, ZenonT(60)
<1>5. None \in Span /\ \A u \in Int : ~InExtent(None, u)
  <2>1. None \in Span /\ None.size = 0
    BY DEF None, Span
  <2>2. QED
    BY <2>1, SpanIs
<1>6. text2 \in [Headers -> Span] /\ text2[h] = None /\ \A g \in Headers : g # h => text2[g] = text[g]
  BY <1>0, <1>1, <1>5
<1>7. ASSUME NEW g \in Headers, NEW u \in Int, InExtent(text2[g], u)
      PROVE  g # h /\ InExtent(text[g], u) /\ u \notin a .. a + size - 1
  <2>1. g # h /\ InExtent(text[g], u)
    BY <1>5, <1>6, <1>7
  <2>2. ~InExtent(text[h], u)
    BY <2>1 DEF Pool
  <2>3. QED
    BY <1>2, <2>1, <2>2
<1>8. /\ \A f, g \in Headers : f # g => \A u \in Int : ~(InExtent(text2[f], u) /\ InExtent(text2[g], u))
      /\ \A g \in Headers : \A u \in Int : InExtent(text2[g], u) => u \notin FreeUnits(map)
  BY <1>7 DEF Pool
<1>9. /\ Len(map.ext) + map.slots = msgmap_len - 2
      /\ \A u \in Int : Taken(map, text, u) => u \in 1 .. msgseg
      /\ MapSuffices => \A u \in 1 .. msgseg : Taken(map, text, u)
  BY DEF Pool
<1>10. CASE Lost(map, size, a, map2)
  <2>1. ~MapSuffices
    BY <1>0, <1>10, Gaps DEF Lost
  <2>2. \A u \in Int : Taken(map2, text2, u) => Taken(map, text, u)
    BY <1>7, <1>10 DEF Taken, Lost
  <2>3. QED
    BY <1>1, <1>6, <1>8, <1>9, <1>10, <2>1, <2>2 DEF Pool, Lost
<1>11. CASE Given(map, size, a, map2)
  <2>1. ASSUME NEW u \in Int PROVE Taken(map2, text2, u) <=> Taken(map, text, u)
    <3>1. CASE u \in a .. a + size - 1
      BY <1>2, <1>11, <3>1 DEF Taken, Given
    <3>2. CASE u \notin a .. a + size - 1
      <4>1. \A g \in Headers : InExtent(text2[g], u) <=> InExtent(text[g], u)
        BY <1>2, <1>6, <1>7, <3>2
      <4>2. QED
        BY <1>11, <3>2, <4>1 DEF Taken, Given
    <3>3. QED
      BY <3>1, <3>2
  <2>2. 1 .. msgseg \subseteq Int
    BY SizesNatural
  <2>3. /\ \A u \in Int : Taken(map2, text2, u) => u \in 1 .. msgseg
        /\ MapSuffices => \A u \in 1 .. msgseg : Taken(map2, text2, u)
    BY <1>9, <2>1, <2>2
  <2>4. \A g \in Headers : \A u \in Int : InExtent(text2[g], u) => u \notin FreeUnits(map2)
    BY <1>7, <1>8, <1>11 DEF Given
  <2>5. QED
    BY <1>4, <1>6, <1>8, <1>9, <1>11, <2>3, <2>4 DEF Pool, Given
<1>12. QED
  BY <1>4, <1>10, <1>11 DEF Given, Lost

(***************************************************************************)
(* Where the headers are: chain[NULL] is the free list, chain[q] what is   *)
(* on queue q.                                                             *)
(***************************************************************************)

\* The lists of headers: a queue each, and the free list.
Lists == Queues \cup {NULL}

\* No header is in two places.
Filled(chain) ==
    /\ chain \in [Lists -> Seq(Headers)]
    /\ \A l \in Lists : Once(chain[l])
    /\ \A l, m \in Lists : \A h \in Headers : Has(chain[l], h) /\ Has(chain[m], h) => l = m

\* Header h is in none.
Out(chain, h) == \A l \in Lists : ~Has(chain[l], h)

\* The chains after entry i of list l has been taken off,
Dropped(chain, l, i, chain2) ==
    /\ Filled(chain2) /\ Out(chain2, chain[l][i]) /\ chain[l][i] \in Headers
    /\ chain2[l] = Closed(chain[l], i)
    /\ \A m \in Lists : m # l => chain2[m] = chain[m]
    /\ \A m \in Lists, g \in Headers : Has(chain2[m], g) => Has(chain[m], g) /\ g # chain[l][i]
    /\ \A g \in Headers : Out(chain2, g) => Out(chain, g) \/ g = chain[l][i]

\* and after header h has been put on list l, which d is then.
Gained(chain, l, h, d, chain2) ==
    /\ Filled(chain2)
    /\ chain2[l] = d
    /\ \A m \in Lists : m # l => chain2[m] = chain[m]
    /\ \A m \in Lists, g \in Headers : Has(chain2[m], g) <=> Has(chain[m], g) \/ (m = l /\ g = h)
    /\ \A g \in Headers : Out(chain2, g) <=> Out(chain, g) /\ g # h

\* A header taken off one list is on none.
LEMMA TakenOff ==
    ASSUME NEW chain, Filled(chain), NEW l \in Lists, NEW i \in 1 .. Len(chain[l])
    PROVE  Dropped(chain, l, i, [chain EXCEPT ![l] = Closed(chain[l], i)])
<1> DEFINE h == chain[l][i]
           chain2 == [chain EXCEPT ![l] = Closed(chain[l], i)]
<1> HIDE DEF h, chain2
<1>0. h = chain[l][i] /\ chain2 = [chain EXCEPT ![l] = Closed(chain[l], i)]
  BY DEF h, chain2
<1> DEFINE c == chain[l]
           d == Closed(chain[l], i)
<1>1. c \in Seq(Headers) /\ Once(c) /\ i \in 1 .. Len(c)
  BY DEF Filled
<1>2. /\ d \in Seq(Headers) /\ Once(d)
      /\ \A g : Has(d, g) <=> Has(c, g) /\ g # c[i]
  BY <1>1, ClosedHas, Zenon
<1>3. chain2[l] = d /\ \A m \in Lists : m # l => chain2[m] = chain[m]
  BY <1>0 DEF Filled
<1> HIDE DEF d
<1>4. chain2 \in [Lists -> Seq(Headers)]
  BY <1>0, <1>2 DEF Filled, d
<1>5. h \in Headers /\ Has(c, h)
  BY <1>0, <1>1 DEF Has
<1>6. ASSUME NEW m \in Lists, NEW g \in Headers
      PROVE  Has(chain2[m], g) <=> Has(chain[m], g) /\ g # h
  <2>1. CASE m = l
    BY <1>0, <1>2, <1>3, <2>1
  <2>2. CASE m # l
    <3>1. ~Has(chain[m], h)
      BY <1>5, <2>2 DEF Filled
    <3>2. QED
      BY <1>3, <2>2, <3>1
  <2>3. QED
    BY <2>1, <2>2
<1>7. Filled(chain2)
  <2>1. \A m \in Lists : Once(chain2[m])
    BY <1>2, <1>3 DEF Filled
  <2>2. \A k, m \in Lists : \A g \in Headers : Has(chain2[k], g) /\ Has(chain2[m], g) => k = m
    BY <1>6 DEF Filled
  <2>3. QED
    BY <1>4, <2>1, <2>2 DEF Filled
<1>8. Dropped(chain, l, i, chain2)
  BY <1>0, <1>3, <1>5, <1>6, <1>7 DEF Out, d, Dropped
<1>9. QED
  BY <1>8 DEF chain2

\* and one that is on none is put on a list, as d then is.
LEMMA PutOn ==
    ASSUME NEW chain, Filled(chain), NEW l \in Lists, NEW h \in Headers, Out(chain, h),
           NEW d \in Seq(Headers), Once(d), \A g : Has(d, g) <=> Has(chain[l], g) \/ g = h
    PROVE  Gained(chain, l, h, d, [chain EXCEPT ![l] = d])
<1> DEFINE chain2 == [chain EXCEPT ![l] = d]
<1>1. chain2 \in [Lists -> Seq(Headers)] /\ chain2[l] = d /\ \A m \in Lists : m # l => chain2[m] = chain[m]
  BY DEF Filled
<1> HIDE DEF chain2
<1>2. ASSUME NEW m \in Lists, NEW g \in Headers
      PROVE  Has(chain2[m], g) <=> Has(chain[m], g) \/ (m = l /\ g = h)
  BY <1>1
<1>3. Filled(chain2)
  <2>1. \A m \in Lists : Once(chain2[m])
    BY <1>1 DEF Filled
  <2>2. \A k, m \in Lists : \A g \in Headers : Has(chain2[k], g) /\ Has(chain2[m], g) => k = m
    BY <1>2 DEF Filled, Out
  <2>3. QED
    BY <1>1, <2>1, <2>2 DEF Filled
<1>4. Gained(chain, l, h, d, chain2)
  BY <1>1, <1>2, <1>3 DEF Out, Gained
<1>5. QED
  BY <1>4 DEF chain2

(***************************************************************************)
(* The tables.                                                             *)
(***************************************************************************)

\* What processes sleep on.
Channels == {"qnum", "que", "msgfp", "msgmap", "lock"} \X Lists

\* The tables a handler works on.
Kit == [que : [Queues -> Queue], hdr : [Headers -> Header], fp : Ptr, map : Map,
        ev : SUBSET Channels]

\* The pointers and counters say what is on the chains, and text what text
\* the headers there have.
Books(k, chain, text) ==
    /\ k \in Kit
    /\ Filled(chain)
    /\ Run(k.hdr, k.fp, chain[NULL])
    /\ \A q \in Queues :
          /\ Run(k.hdr, k.que[q].first, chain[q])
          /\ k.que[q].qnum = Len(chain[q])
          /\ k.que[q].last = IF chain[q] = <<>> THEN NULL ELSE chain[q][Len(chain[q])]
          /\ ~k.que[q].alloc => chain[q] = <<>>
    /\ \A q \in Queues, h \in Headers :
          Has(chain[q], h) => text[h] = [addr |-> k.hdr[h].addr, size |-> btoq(k.hdr[h].ts)]
    /\ \A h \in Headers : Has(chain[NULL], h) => text[h].size = 0
    /\ Pool(k.map, text)

\* msg_cbytes counts the bytes on the queue.
Bytes(k, chain) == \A q \in Queues : k.que[q].cbytes = Total(k.hdr, chain[q])

(***************************************************************************)
(* Who has been told: whatever a sleeper may wait for has not come, or its *)
(* channel is among the events.                                            *)
(***************************************************************************)

\* If readers wait on q they are woken, or nothing has come to the queue and they
\* are still noted as waiting.
ReadersTold(k, chain, k2, chain2, q) ==
    k.que[q].rwait =>
        \/ <<"qnum", q>> \in k2.ev
        \/ /\ k2.que[q].rwait
           /\ k2.que[q].alloc = k.que[q].alloc /\ k2.que[q].seq = k.que[q].seq
           /\ \A h \in Headers : Has(chain2[q], h) => Has(chain[q], h) /\ k2.hdr[h].type = k.hdr[h].type

\* The same of its writers: woken, or no room has been made.
WritersTold(k, k2, q) ==
    k.que[q].wwait =>
        \/ <<"que", q>> \in k2.ev
        \/ /\ k2.que[q].wwait
           /\ k2.que[q].alloc = k.que[q].alloc /\ k2.que[q].seq = k.que[q].seq
           /\ k2.que[q].cbytes >= k.que[q].cbytes /\ k2.que[q].qbytes = k.que[q].qbytes

\* Of those who wait for a header: woken, or there is none still.
HeadersTold(k, k2) == k.fp = NULL => <<"msgfp", NULL>> \in k2.ev \/ k2.fp = NULL

\* Of those who wait for text space: woken, or what did not fit still does not.
TextTold(k, k2) ==
    k.map.want => \/ <<"msgmap", NULL>> \in k2.ev
                  \/ k2.map.want /\ \A s \in Nat : Fits(k.map, s) = {} => Fits(k2.map, s) = {}

\* Of all of them.
Told(k, chain, k2, chain2) ==
    /\ k.ev \subseteq k2.ev
    /\ \A q \in Queues : ReadersTold(k, chain, k2, chain2, q) /\ WritersTold(k, k2, q)
    /\ HeadersTold(k, k2)
    /\ TextTold(k, k2)

\* What the tables are made of.
LEMMA KitIs ==
    ASSUME NEW k \in Kit
    PROVE  /\ k.que \in [Queues -> Queue] /\ k.hdr \in [Headers -> Header] /\ k.fp \in Ptr
           /\ k.map \in Map /\ k.ev \subseteq Channels
           /\ \A q \in Queues : k.que[q] \in Queue
           /\ \A h \in Headers : k.hdr[h] \in Header
BY DEF Kit

\* The fields of a queue.
LEMMA QueueIs ==
    ASSUME NEW m \in Queue
    PROVE  /\ m.alloc \in BOOLEAN /\ m.seq \in 0 .. MaxSeq /\ m.first \in Ptr /\ m.last \in Ptr
           /\ m.qnum \in Int /\ m.cbytes \in Int /\ m.qbytes \in Nat
           /\ m.rwait \in BOOLEAN /\ m.wwait \in BOOLEAN
BY DEF Queue

\* The fields of a header.
LEMMA HeaderIs ==
    ASSUME NEW m \in Header
    PROVE  m.next \in Ptr /\ m.type \in Nat /\ m.ts \in Nat /\ m.addr \in Nat
BY DEF Header

\* Two changes that tell the sleepers, one after the other, tell them.
LEMMA ToldTwice ==
    ASSUME NEW k \in Kit, NEW k1 \in Kit, NEW k2 \in Kit, NEW chain, NEW chain1, NEW chain2,
           Told(k, chain, k1, chain1), Told(k1, chain1, k2, chain2)
    PROVE  Told(k, chain, k2, chain2)
<1>1. k.ev \subseteq k1.ev /\ k1.ev \subseteq k2.ev
  BY DEF Told
<1>2. ASSUME NEW q \in Queues PROVE ReadersTold(k, chain, k2, chain2, q)
  BY <1>1 DEF Told, ReadersTold
<1>3. ASSUME NEW q \in Queues PROVE WritersTold(k, k2, q)
  <2>1. WritersTold(k, k1, q) /\ WritersTold(k1, k2, q)
    BY DEF Told
  <2>2. k.que[q].cbytes \in Int /\ k1.que[q].cbytes \in Int /\ k2.que[q].cbytes \in Int
    BY KitIs, QueueIs
  <2>3. QED
    BY <1>1, <2>1, <2>2 DEF WritersTold
<1>4. HeadersTold(k, k2)
  BY <1>1 DEF Told, HeadersTold
<1>5. TextTold(k, k2)
  BY <1>1 DEF Told, TextTold
<1>6. QED
  BY <1>1, <1>2, <1>3, <1>4, <1>5 DEF Told

\* FreeHeader().
PutBack(k, chain, text, h, k2, chain2) ==
    /\ Books(k2, chain2, text) /\ Told(k, chain, k2, chain2)
    /\ k2.que = k.que /\ k2.map = k.map
    /\ \A g \in Headers : g # h => k2.hdr[g] = k.hdr[g]

\* The header goes to the front of the free list (msgfree(), os/msg.c:123-127).
LEMMA FreeHeaderIs ==
    ASSUME NEW k, NEW chain, NEW text, Books(k, chain, text),
           NEW h \in Headers, Out(chain, h), text[h].size = 0,
           NEW k2, k2 = FreeHeader(k, h),
           NEW chain2, chain2 = [chain EXCEPT ![NULL] = <<h>> \o chain[NULL]]
    PROVE  PutBack(k, chain, text, h, k2, chain2)
<1> DEFINE c == chain[NULL]
           d == <<h>> \o chain[NULL]
           new == [NoHeader EXCEPT !.next = k.fp]
<1>1. k \in Kit /\ Filled(chain) /\ NULL \in Lists /\ Queues \subseteq Lists /\ NULL \notin Queues
  BY NullIsNothing DEF Books, Lists
<1>2. /\ k2.que = k.que /\ k2.hdr = [k.hdr EXCEPT ![h] = new] /\ k2.fp = h /\ k2.map = k.map
      /\ k2.ev = IF k.fp = NULL THEN k.ev \cup {<<"msgfp", NULL>>} ELSE k.ev
  BY <1>1 DEF FreeHeader, Kit
<1>3. /\ k.que \in [Queues -> Queue] /\ k.hdr \in [Headers -> Header] /\ k.fp \in Ptr
      /\ k.map \in Map /\ k.ev \subseteq Channels
  BY <1>1, KitIs
<1>4. new \in Header /\ new.next = k.fp
  BY <1>3 DEF NoHeader, Header
<1> HIDE DEF new
<1>5. k2.hdr \in [Headers -> Header] /\ k2.hdr[h] = new /\ \A g \in Headers : g # h => k2.hdr[g] = k.hdr[g]
  BY <1>2, <1>3, <1>4
<1>6. k2 \in Kit
  <2>1. <<"msgfp", NULL>> \in Channels
    BY <1>1 DEF Channels
  <2>2. k2.ev \subseteq Channels /\ h \in Ptr
    BY <1>2, <1>3, <2>1 DEF Ptr
  <2>3. k2 = [que |-> k2.que, hdr |-> k2.hdr, fp |-> k2.fp, map |-> k2.map, ev |-> k2.ev]
    BY <1>1 DEF FreeHeader, Kit
  <2>4. QED
    BY <1>2, <1>3, <1>5, <2>2, <2>3, Zenon DEF Kit
<1>7. /\ d \in Seq(Headers) /\ Once(d)
      /\ \A g : Has(d, g) <=> Has(c, g) \/ g = h
  <2>1. c \in Seq(Headers) /\ Once(c) /\ ~Has(c, h)
    BY <1>1 DEF Filled, Out
  <2>2. QED
    BY <2>1, FrontHas, Zenon
<1> HIDE DEF d
<1>8. Gained(chain, NULL, h, d, chain2)
  <2>1. chain2 = [chain EXCEPT ![NULL] = d]
    BY DEF d
  <2>2. Gained(chain, NULL, h, d, [chain EXCEPT ![NULL] = d])
    BY <1>1, <1>7, PutOn
  <2>3. QED
    BY <2>1, <2>2
<1>9. \A q \in Queues : chain2[q] = chain[q] /\ q \in Lists /\ ~Has(chain[q], h)
  BY <1>1, <1>8 DEF Out, Gained
<1>10. Run(k2.hdr, k2.fp, chain2[NULL])
  <2>1. Run(k.hdr, k.fp, c) /\ ~Has(c, h)
    BY <1>1 DEF Books, Out
  <2>2. /\ \A g \in Headers : Has(c, g) => k2.hdr[g].next = k.hdr[g].next
        /\ k2.hdr[h].next = k.fp
    BY <1>4, <1>5, <2>1
  <2>3. Run(k2.hdr, h, <<h>> \o c)
    BY <2>1, <2>2, RunFront
  <2>4. QED
    BY <1>2, <1>8, <2>3 DEF d, Gained
<1>11. ASSUME NEW q \in Queues
       PROVE  /\ Run(k2.hdr, k2.que[q].first, chain2[q])
              /\ k2.que[q].qnum = Len(chain2[q])
              /\ k2.que[q].last = IF chain2[q] = <<>> THEN NULL ELSE chain2[q][Len(chain2[q])]
              /\ ~k2.que[q].alloc => chain2[q] = <<>>
  <2>1. Run(k.hdr, k.que[q].first, chain[q])
    BY DEF Books
  <2>2. \A g \in Headers : Has(chain[q], g) => k2.hdr[g].next = k.hdr[g].next
    BY <1>5, <1>9
  <2>3. Run(k2.hdr, k.que[q].first, chain[q])
    BY <2>1, <2>2, RunFrame
  <2>4. /\ k.que[q].qnum = Len(chain[q])
        /\ k.que[q].last = IF chain[q] = <<>> THEN NULL ELSE chain[q][Len(chain[q])]
        /\ ~k.que[q].alloc => chain[q] = <<>>
    BY DEF Books
  <2>5. k2.que[q] = k.que[q] /\ chain2[q] = chain[q]
    BY <1>2, <1>9
  <2>6. QED
    BY <2>3, <2>4, <2>5, Zenon
<1>12. ASSUME NEW q \in Queues, NEW g \in Headers, Has(chain2[q], g)
       PROVE  text[g] = [addr |-> k2.hdr[g].addr, size |-> btoq(k2.hdr[g].ts)]
  <2>1. Has(chain[q], g) /\ k2.hdr[g] = k.hdr[g]
    BY <1>5, <1>9, <1>12
  <2>2. text[g] = [addr |-> k.hdr[g].addr, size |-> btoq(k.hdr[g].ts)]
    BY <2>1 DEF Books
  <2>3. QED
    BY <2>1, <2>2
<1>13. \A g \in Headers : Has(chain2[NULL], g) => text[g].size = 0
  BY <1>1, <1>8 DEF Books, Gained
<1>14. Books(k2, chain2, text)
  BY <1>2, <1>6, <1>8, <1>10, <1>11, <1>12, <1>13 DEF Books, Gained
<1>15. Told(k, chain, k2, chain2)
  <2>1. k.ev \subseteq k2.ev
    BY <1>2
  <2>2. ASSUME NEW q \in Queues PROVE ReadersTold(k, chain, k2, chain2, q) /\ WritersTold(k, k2, q)
    <3>1. k.que[q].cbytes >= k.que[q].cbytes
      BY <1>1, KitIs, QueueIs
    <3>2. \A g \in Headers : Has(chain2[q], g) => Has(chain[q], g) /\ k2.hdr[g].type = k.hdr[g].type
      BY <1>5, <1>9
    <3>3. QED
      BY <1>2, <3>1, <3>2 DEF ReadersTold, WritersTold
  <2>3. HeadersTold(k, k2) /\ TextTold(k, k2)
    BY <1>2 DEF HeadersTold, TextTold
  <2>4. QED
    BY <2>1, <2>2, <2>3 DEF Told
<1>16. QED
  BY <1>2, <1>5, <1>14, <1>15 DEF PutBack

\* FreeText().
LEMMA FreeTextIs ==
    ASSUME NEW k, NEW chain, NEW text, Books(k, chain, text),
           NEW h \in Headers, Out(chain, h), text[h].size > 0,
           NEW k2, k2 = FreeText(k, text[h].size, text[h].addr),
           NEW text2, text2 = [text EXCEPT ![h] = None]
    PROVE  /\ Books(k2, chain, text2) /\ Told(k, chain, k2, chain)
           /\ k2.que = k.que /\ k2.hdr = k.hdr /\ k2.fp = k.fp
<1> DEFINE size == text[h].size
           addr == text[h].addr
<1>1. k \in Kit /\ NULL \in Lists /\ Queues \subseteq Lists /\ text \in [Headers -> Span]
  BY DEF Books, Lists, Pool
<1>2. /\ k2.que = k.que /\ k2.hdr = k.hdr /\ k2.fp = k.fp /\ k2.map = rmfree(k.map, size, addr)
      /\ k2.ev = IF k.map.want /\ ~k2.map.want THEN k.ev \cup {<<"msgmap", NULL>>} ELSE k.ev
  BY <1>1 DEF FreeText, rmfree_wakes, Kit
<1>3. Pool(k2.map, text2) /\ (k2.map = k.map \/ ~k2.map.want)
  <2>1. Pool(k.map, text)
    BY DEF Books
  <2>2. LET m == rmfree(k.map, text[h].size, text[h].addr)
        IN  Pool(m, [text EXCEPT ![h] = None]) /\ (m = k.map \/ ~m.want)
    BY <2>1, PoolGives
  <2>3. QED
    BY <1>2, <2>2
<1>4. /\ k.que \in [Queues -> Queue] /\ k.hdr \in [Headers -> Header] /\ k.fp \in Ptr
      /\ k.map \in Map /\ k.ev \subseteq Channels
  BY <1>1, KitIs
<1>5. k2 \in Kit
  <2>1. <<"msgmap", NULL>> \in Channels
    BY <1>1 DEF Channels
  <2>2. k2.ev \subseteq Channels /\ k2.map \in Map
    BY <1>2, <1>3, <1>4, <2>1 DEF Pool
  <2>3. k2 = [que |-> k2.que, hdr |-> k2.hdr, fp |-> k2.fp, map |-> k2.map, ev |-> k2.ev]
    BY <1>1 DEF FreeText, Kit
  <2>4. QED
    BY <1>2, <1>4, <2>2, <2>3, Zenon DEF Kit
<1>6. text2[h] = None /\ \A g \in Headers : g # h => text2[g] = text[g]
  BY <1>1
<1>7. \A l \in Lists, g \in Headers : Has(chain[l], g) => text2[g] = text[g]
  BY <1>6 DEF Out
<1>8. Books(k2, chain, text2)
  BY <1>1, <1>2, <1>3, <1>5, <1>7 DEF Books
<1>9. Told(k, chain, k2, chain)
  <2>1. k.ev \subseteq k2.ev
    BY <1>2
  <2>2. ASSUME NEW q \in Queues PROVE ReadersTold(k, chain, k2, chain, q) /\ WritersTold(k, k2, q)
    <3>1. k.que[q].cbytes >= k.que[q].cbytes
      BY <1>1, KitIs, QueueIs
    <3>2. QED
      BY <1>2, <3>1 DEF ReadersTold, WritersTold
  <2>3. HeadersTold(k, k2) /\ TextTold(k, k2)
    BY <1>2, <1>3, SMTT(40) DEF HeadersTold, TextTold
  <2>4. QED
    BY <2>1, <2>2, <2>3 DEF Told
<1>10. QED
  BY <1>2, <1>8, <1>9

\* What taking messages off queue q leaves alone.
Shrunk(k, k2, q) ==
    /\ \A r \in Queues : r # q => k2.que[r] = k.que[r]
    /\ k2.que[q].alloc = k.que[q].alloc /\ k2.que[q].seq = k.que[q].seq
    /\ k2.que[q].cbytes = k.que[q].cbytes /\ k2.que[q].qbytes = k.que[q].qbytes
    /\ k2.que[q].rwait = k.que[q].rwait

\* What header g says but for where it is.
SameText(k, k2, g) ==
    k2.hdr[g].type = k.hdr[g].type /\ k2.hdr[g].ts = k.hdr[g].ts /\ k2.hdr[g].addr = k.hdr[g].addr

\* Message i behind pmp is off queue q, nothing else is changed.
Unlinked(k, chain, text, q, i, pmp, k2, chain2) ==
    /\ Books(k2, chain2, text) /\ Dropped(chain, q, i, chain2)
    /\ k2.fp = k.fp /\ k2.map = k.map /\ k2.ev = k.ev
    /\ Shrunk(k, k2, q) /\ k2.que[q].wwait = k.que[q].wwait
    /\ \A g \in Headers : SameText(k, k2, g)

\* Unlink().
LEMMA UnlinkIs ==
    ASSUME NEW k, NEW chain, NEW text, Books(k, chain, text),
           NEW q \in Queues, NEW i \in 1 .. Len(chain[q]),
           NEW pmp, pmp = IF i = 1 THEN NULL ELSE chain[q][i - 1],
           NEW k2, k2 = Unlink(k, q, pmp, chain[q][i]),
           NEW chain2, chain2 = [chain EXCEPT ![q] = Closed(chain[q], i)]
    PROVE  Unlinked(k, chain, text, q, i, pmp, k2, chain2)
<1> DEFINE c == chain[q]
           n == Len(c)
           d == Closed(c, i)
           mp == c[i]
           next == k.hdr[mp].next
           less == [k.que[q] EXCEPT !.last = IF next = NULL THEN pmp ELSE @, !.qnum = @ - 1]
           new == IF pmp = NULL THEN [less EXCEPT !.first = next] ELSE less
<1>1. /\ k \in Kit /\ Filled(chain) /\ NULL \in Lists /\ Queues \subseteq Lists /\ NULL \notin Queues
      /\ NULL \notin Headers
  BY NullIsNothing DEF Books, Lists
<1>2. /\ k.que \in [Queues -> Queue] /\ k.hdr \in [Headers -> Header] /\ k.fp \in Ptr
      /\ k.map \in Map /\ k.ev \subseteq Channels /\ k.que[q] \in Queue
  BY <1>1, KitIs
<1>3. c \in Seq(Headers) /\ Once(c) /\ n \in Nat /\ i \in 1 .. n /\ q \in Lists
  BY <1>1 DEF Filled
<1>4. \A j \in 1 .. n : c[j] \in Headers
  BY <1>3
<1>5. /\ Run(k.hdr, k.que[q].first, c) /\ k.que[q].qnum = n
      /\ k.que[q].last = IF c = <<>> THEN NULL ELSE c[n]
      /\ ~k.que[q].alloc => c = <<>>
  BY DEF Books
<1>6. next = IF i = n THEN NULL ELSE c[i + 1]
  BY <1>3, <1>5 DEF Run
<1>7. next \in Ptr /\ (next = NULL <=> i = n)
  <2>1. CASE i = n
    BY <1>6, <2>1 DEF Ptr
  <2>2. CASE i # n
    <3>1. i + 1 \in 1 .. n
      BY <1>3, <2>2
    <3>2. QED
      BY <1>1, <1>4, <1>6, <2>2, <3>1 DEF Ptr
  <2>3. QED
    BY <2>1, <2>2
<1>8. pmp \in Ptr /\ (pmp = NULL <=> i = 1) /\ mp \in Headers /\ (i # 1 => pmp \in Headers /\ Has(c, pmp))
  <2>1. CASE i = 1
    BY <1>3, <1>4, <2>1 DEF Ptr
  <2>2. CASE i # 1
    <3>1. i - 1 \in 1 .. n /\ pmp = c[i - 1]
      BY <1>3, <2>2, SMTT(40)
    <3>2. QED
      BY <1>1, <1>3, <1>4, <2>2, <3>1 DEF Ptr, Has
  <2>3. QED
    BY <2>1, <2>2
<1> HIDE DEF next, mp, d
<1>9. /\ k2.que = [k.que EXCEPT ![q] = new] /\ k2.fp = k.fp /\ k2.map = k.map /\ k2.ev = k.ev
      /\ k2.hdr = IF pmp = NULL THEN k.hdr ELSE [k.hdr EXCEPT ![pmp] = [@ EXCEPT !.next = next]]
      /\ k2 = [que |-> k2.que, hdr |-> k2.hdr, fp |-> k2.fp, map |-> k2.map, ev |-> k2.ev]
  <2>1. CASE pmp = NULL
    BY <1>1, <2>1 DEF Unlink, Kit, next, mp
  <2>2. CASE pmp # NULL
    BY <1>1, <2>2 DEF Unlink, Kit, next, mp
  <2>3. QED
    BY <2>1, <2>2
<1>10. /\ new \in Queue /\ new.qnum = n - 1
       /\ new.first = (IF pmp = NULL THEN next ELSE k.que[q].first)
       /\ new.last = (IF next = NULL THEN pmp ELSE k.que[q].last)
       /\ new.alloc = k.que[q].alloc /\ new.seq = k.que[q].seq /\ new.cbytes = k.que[q].cbytes
       /\ new.qbytes = k.que[q].qbytes /\ new.rwait = k.que[q].rwait /\ new.wwait = k.que[q].wwait
  <2>1. k.que[q].qnum - 1 \in Int /\ k.que[q].qnum = n /\ (IF next = NULL THEN pmp ELSE k.que[q].last) \in Ptr
    BY <1>2, <1>3, <1>5, <1>7, <1>8, QueueIs
  <2>2. /\ less \in Queue /\ less.qnum = n - 1 /\ less.first = k.que[q].first
        /\ less.last = (IF next = NULL THEN pmp ELSE k.que[q].last)
        /\ less.alloc = k.que[q].alloc /\ less.seq = k.que[q].seq /\ less.cbytes = k.que[q].cbytes
        /\ less.qbytes = k.que[q].qbytes /\ less.rwait = k.que[q].rwait /\ less.wwait = k.que[q].wwait
    BY <1>2, <2>1 DEF Queue
  <2> HIDE DEF less
  <2>3. CASE pmp = NULL
    BY <1>7, <2>2, <2>3 DEF Queue
  <2>4. CASE pmp # NULL
    BY <2>2, <2>4, SMTT(40)
  <2>5. QED
    BY <2>3, <2>4
<1> HIDE DEF new, less
<1>11. /\ k2.que \in [Queues -> Queue] /\ k2.que[q] = new
       /\ \A r \in Queues : r # q => k2.que[r] = k.que[r]
  BY <1>2, <1>9, <1>10
<1>12. /\ k2.hdr \in [Headers -> Header]
       /\ \A g \in Headers : SameText(k, k2, g)
       /\ \A g \in Headers : g # pmp => k2.hdr[g] = k.hdr[g]
       /\ pmp # NULL => k2.hdr[pmp].next = next
  <2>1. CASE pmp = NULL
    BY <1>2, <1>9, <2>1, ZenonT(60) DEF SameText
  <2>2. CASE pmp # NULL
    <3> DEFINE m == [k.hdr[pmp] EXCEPT !.next = next]
    <3>1. pmp \in Headers /\ k.hdr[pmp] \in Header
      BY <1>2, <1>8, <2>2
    <3>2. /\ m \in Header /\ m.next = next /\ m.type = k.hdr[pmp].type /\ m.ts = k.hdr[pmp].ts
          /\ m.addr = k.hdr[pmp].addr
      BY <1>7, <3>1 DEF Header
    <3>3. k2.hdr = [k.hdr EXCEPT ![pmp] = m]
      BY <1>9, <2>2
    <3> HIDE DEF m
    <3>4. QED
      BY <1>2, <3>1, <3>2, <3>3 DEF SameText
  <2>3. QED
    BY <2>1, <2>2, SMTT(40)
<1>13. k2 \in Kit
  BY <1>2, <1>9, <1>11, <1>12, Zenon DEF Kit
<1>14. Dropped(chain, q, i, chain2)
  BY <1>1, <1>3, TakenOff
<1>15. /\ Filled(chain2) /\ chain2[q] = d /\ \A m \in Lists : m # q => chain2[m] = chain[m]
       /\ \A m \in Lists, g \in Headers : Has(chain2[m], g) => Has(chain[m], g) /\ g # mp
  BY <1>14 DEF Dropped, d, mp
<1>16. /\ d \in Seq(Headers) /\ Len(d) = n - 1
       /\ \A j \in 1 .. i - 1 : d[j] = c[j]
       /\ \A j \in i .. n - 1 : d[j] = c[j + 1]
  BY <1>3, ClosedIs DEF d
<1>17. Run(k2.hdr, k2.que[q].first, d)
  <2>1. ASSUME NEW j \in 1 .. n, j # i
        PROVE  k2.hdr[c[j]].next = IF j = i - 1 THEN k.hdr[c[i]].next ELSE k.hdr[c[j]].next
    <3>1. CASE j = i - 1
      <4>1. i # 1 /\ pmp # NULL /\ c[j] = pmp
        BY <1>3, <1>8, <3>1
      <4>2. QED
        BY <1>12, <3>1, <4>1 DEF next, mp
    <3>2. CASE j # i - 1
      <4>1. c[j] # pmp
        <5>1. CASE i = 1
          BY <1>1, <1>4, <1>8, <5>1
        <5>2. CASE i # 1
          <6>1. i - 1 \in 1 .. n /\ pmp = c[i - 1]
            BY <1>3, <5>2
          <6>2. QED
            BY <1>3, <3>2, <6>1 DEF Once
        <5>3. QED
          BY <5>1, <5>2
      <4>2. QED
        BY <1>4, <1>12, <3>2, <4>1
    <3>3. QED
      BY <3>1, <3>2
  <2>2. k2.que[q].first = IF i = 1 THEN k.hdr[c[i]].next ELSE k.que[q].first
    BY <1>8, <1>10, <1>11 DEF next, mp
  <2>3. ASSUME NEW hd, hd = k.hdr, NEW hd2, hd2 = k2.hdr, NEW first, first = k.que[q].first,
               NEW first2, first2 = k2.que[q].first, NEW e, e = c
        PROVE  Run(hd2, first2, Closed(e, i))
    <3>1. Run(hd, first, e) /\ i \in 1 .. Len(e)
      BY <1>3, <1>5, <2>3
    <3>2. \A j \in 1 .. Len(e) : j # i =>
             hd2[e[j]].next = IF j = i - 1 THEN hd[e[i]].next ELSE hd[e[j]].next
      BY <2>1, <2>3
    <3>3. first2 = IF i = 1 THEN hd[e[i]].next ELSE first
      BY <2>2, <2>3
    <3>4. QED
      BY <3>1, <3>2, <3>3, RunClosed, Zenon
  <2>4. QED
    BY <2>3 DEF d
<1>18. new.last = IF d = <<>> THEN NULL ELSE d[Len(d)]
  <2>1. CASE i = n
    <3>1. new.last = pmp
      BY <1>7, <1>10, <2>1
    <3>2. CASE n = 1
      <4>1. d = <<>>
        BY <1>16, <3>2
      <4>2. QED
        BY <1>8, <2>1, <3>1, <3>2, <4>1
    <3>3. CASE n # 1
      <4>0. n \in Nat /\ n >= 2 /\ Len(d) = n - 1
        <5>1. n \in Nat /\ i \in 1 .. n
          BY <1>3
        <5>2. Len(d) = n - 1
          BY <1>16
        <5>3. n >= 2
          <6>1. ASSUME NEW x \in Nat, i \in 1 .. x, x # 1 PROVE x >= 2
            BY <6>1
          <6>2. QED
            BY <3>3, <5>1, <6>1
        <5>4. QED
          BY <5>1, <5>2, <5>3
      <4>1. n - 1 \in 1 .. i - 1 /\ Len(d) # 0 /\ i # 1 /\ i - 1 = n - 1
        BY <2>1, <4>0
      <4>2. d # <<>> /\ d[n - 1] = c[n - 1] /\ Len(d) = n - 1
        BY <1>16, <4>0, <4>1
      <4>3. QED
        BY <3>1, <4>1, <4>2
    <3>4. QED
      BY <3>2, <3>3
  <2>2. CASE i # n
    <3>1. new.last = k.que[q].last /\ c # <<>>
      BY <1>3, <1>7, <1>10, <2>2
    <3>2. n - 1 \in i .. n - 1 /\ Len(d) = n - 1 /\ Len(d) # 0 /\ (n - 1) + 1 = n
      BY <1>3, <1>16, <2>2
    <3>3. d # <<>> /\ d[n - 1] = c[n]
      BY <1>16, <3>2
    <3>4. QED
      BY <1>5, <3>1, <3>2, <3>3
  <2>3. QED
    BY <2>1, <2>2
<1>19. ASSUME NEW l \in Lists, l # q, NEW first, Run(k.hdr, first, chain[l])
       PROVE  Run(k2.hdr, first, chain2[l])
  <2>1. ~Has(chain[l], pmp) \/ pmp = NULL
    <3>1. CASE pmp # NULL
      <4>1. pmp \in Headers /\ Has(chain[q], pmp)
        BY <1>8, <3>1
      <4>2. Has(chain[l], pmp) => l = q
        BY <1>1, <1>3, <4>1 DEF Filled
      <4>3. QED
        BY <1>19, <4>2
    <3>2. QED
      BY <3>1
  <2>2. \A g \in Headers : Has(chain[l], g) => k2.hdr[g].next = k.hdr[g].next
    BY <1>1, <1>12, <2>1
  <2>3. Run(k2.hdr, first, chain[l])
    BY <1>19, <2>2, RunFrame
  <2>4. QED
    BY <1>15, <1>19, <2>3
<1>20. ASSUME NEW r \in Queues
       PROVE  /\ Run(k2.hdr, k2.que[r].first, chain2[r])
              /\ k2.que[r].qnum = Len(chain2[r])
              /\ k2.que[r].last = IF chain2[r] = <<>> THEN NULL ELSE chain2[r][Len(chain2[r])]
              /\ ~k2.que[r].alloc => chain2[r] = <<>>
  <2>1. CASE r = q
    <3>1. ~new.alloc => d = <<>>
      BY <1>3, <1>5, <1>10
    <3>2. QED
      BY <1>10, <1>11, <1>15, <1>16, <1>17, <1>18, <2>1, <3>1, ZenonT(60)
  <2>2. CASE r # q
    <3>1. /\ Run(k.hdr, k.que[r].first, chain[r]) /\ k.que[r].qnum = Len(chain[r])
          /\ k.que[r].last = IF chain[r] = <<>> THEN NULL ELSE chain[r][Len(chain[r])]
          /\ ~k.que[r].alloc => chain[r] = <<>>
      BY DEF Books
    <3>2. k2.que[r] = k.que[r] /\ chain2[r] = chain[r] /\ r \in Lists
      BY <1>1, <1>11, <1>15, <2>2
    <3>3. Run(k2.hdr, k.que[r].first, chain2[r])
      BY <1>19, <2>2, <3>1, <3>2
    <3>4. QED
      BY <3>1, <3>2, <3>3, Zenon
  <2>3. QED
    BY <2>1, <2>2, SMTT(40)
<1>21. Run(k2.hdr, k2.fp, chain2[NULL])
  <2>1. Run(k.hdr, k.fp, chain[NULL]) /\ NULL # q
    BY <1>1 DEF Books
  <2>2. QED
    BY <1>1, <1>9, <1>19, <2>1
<1>22. \A r \in Queues, h \in Headers :
          Has(chain2[r], h) => text[h] = [addr |-> k2.hdr[h].addr, size |-> btoq(k2.hdr[h].ts)]
  <2>1. ASSUME NEW r \in Queues, NEW h \in Headers, Has(chain2[r], h)
        PROVE  text[h] = [addr |-> k2.hdr[h].addr, size |-> btoq(k2.hdr[h].ts)]
    <3>1. Has(chain[r], h) /\ k2.hdr[h].addr = k.hdr[h].addr /\ k2.hdr[h].ts = k.hdr[h].ts
      BY <1>1, <1>12, <1>15, <2>1 DEF SameText
    <3>2. text[h] = [addr |-> k.hdr[h].addr, size |-> btoq(k.hdr[h].ts)]
      BY <3>1, Zenon DEF Books
    <3>3. QED
      BY <3>1, <3>2
  <2>2. QED
    BY <2>1
<1>23. \A h \in Headers : Has(chain2[NULL], h) => text[h].size = 0
  BY <1>1, <1>15 DEF Books
<1>24. Books(k2, chain2, text)
  <2>1. Pool(k2.map, text)
    BY <1>9 DEF Books
  <2>2. QED
    BY <1>13, <1>15, <1>20, <1>21, <1>22, <1>23, <2>1, Zenon DEF Books
<1>25. Shrunk(k, k2, q) /\ k2.que[q].wwait = k.que[q].wwait
  BY <1>10, <1>11 DEF Shrunk
<1>26. QED
  BY <1>9, <1>12, <1>14, <1>24, <1>25, Zenon DEF Unlinked

\* WakeWriters().
LEMMA WakeWritersIs ==
    ASSUME NEW k, NEW chain, NEW text, Books(k, chain, text), NEW q \in Queues,
           NEW k2, k2 = WakeWriters(k, q)
    PROVE  /\ Books(k2, chain, text)
           /\ k2.fp = k.fp /\ k2.map = k.map /\ k2.hdr = k.hdr /\ k.ev \subseteq k2.ev
           /\ Shrunk(k, k2, q)
           /\ k.que[q].wwait => <<"que", q>> \in k2.ev
<1>1. CASE ~k.que[q].wwait
  BY <1>1 DEF WakeWriters, Shrunk
<1>2. CASE k.que[q].wwait
  <2> DEFINE new == [k.que[q] EXCEPT !.wwait = FALSE]
  <2>1. k \in Kit
    BY DEF Books
  <2>2. /\ k.que \in [Queues -> Queue] /\ k.hdr \in [Headers -> Header] /\ k.fp \in Ptr
        /\ k.map \in Map /\ k.ev \subseteq Channels /\ k.que[q] \in Queue
    BY <2>1, KitIs
  <2>3. /\ k2.que = [k.que EXCEPT ![q] = new] /\ k2.fp = k.fp /\ k2.map = k.map /\ k2.hdr = k.hdr
        /\ k2.ev = k.ev \cup {<<"que", q>>}
        /\ k2 = [que |-> k2.que, hdr |-> k2.hdr, fp |-> k2.fp, map |-> k2.map, ev |-> k2.ev]
    BY <1>2, <2>1 DEF WakeWriters, Kit
  <2>4. /\ new \in Queue /\ new.first = k.que[q].first /\ new.last = k.que[q].last /\ new.qnum = k.que[q].qnum
        /\ new.alloc = k.que[q].alloc /\ new.seq = k.que[q].seq /\ new.cbytes = k.que[q].cbytes
        /\ new.qbytes = k.que[q].qbytes /\ new.rwait = k.que[q].rwait
    BY <2>2 DEF Queue
  <2> HIDE DEF new
  <2>5. /\ k2.que \in [Queues -> Queue] /\ k2.que[q] = new
        /\ \A r \in Queues : r # q => k2.que[r] = k.que[r]
    BY <2>2, <2>3, <2>4
  <2>6. <<"que", q>> \in Channels
    BY DEF Channels, Lists
  <2>7. k2.ev \subseteq Channels
    BY <2>2, <2>3, <2>6
  <2>8. k2 \in Kit
    BY <2>2, <2>3, <2>5, <2>7, Zenon DEF Kit
  <2>9. \A r \in Queues : /\ k2.que[r].first = k.que[r].first /\ k2.que[r].last = k.que[r].last
                          /\ k2.que[r].qnum = k.que[r].qnum /\ k2.que[r].alloc = k.que[r].alloc
    BY <2>4, <2>5
  <2>10. Books(k2, chain, text)
    <3>1. \A r \in Queues :
             /\ Run(k2.hdr, k2.que[r].first, chain[r])
             /\ k2.que[r].qnum = Len(chain[r])
             /\ k2.que[r].last = IF chain[r] = <<>> THEN NULL ELSE chain[r][Len(chain[r])]
             /\ ~k2.que[r].alloc => chain[r] = <<>>
      <4>1. ASSUME NEW r \in Queues
            PROVE  /\ Run(k.hdr, k.que[r].first, chain[r])
                   /\ k.que[r].qnum = Len(chain[r])
                   /\ k.que[r].last = IF chain[r] = <<>> THEN NULL ELSE chain[r][Len(chain[r])]
                   /\ ~k.que[r].alloc => chain[r] = <<>>
        BY DEF Books
      <4>2. QED
        BY <2>3, <2>9, <4>1, ZenonT(60)
    <3>2. Run(k2.hdr, k2.fp, chain[NULL]) /\ Filled(chain) /\ Pool(k2.map, text)
      BY <2>3 DEF Books
    <3>3. \A r \in Queues, h \in Headers :
             Has(chain[r], h) => text[h] = [addr |-> k2.hdr[h].addr, size |-> btoq(k2.hdr[h].ts)]
      BY <2>3 DEF Books
    <3>4. \A h \in Headers : Has(chain[NULL], h) => text[h].size = 0
      BY DEF Books
    <3>5. QED
      BY <2>8, <3>1, <3>2, <3>3, <3>4 DEF Books
  <2>11. QED
    BY <2>3, <2>4, <2>5, <2>10 DEF Shrunk
<1>3. QED
  BY <1>1, <1>2

\* A message of some bytes has some units, an empty one none.
LEMMA UnitsIs ==
    ASSUME NEW n \in Nat
    PROVE  btoq(n) \in Nat /\ (n = 0 => btoq(n) = 0) /\ (n > 0 => btoq(n) > 0)
<1>1. msgssz \in Nat /\ msgssz > 0
  BY UnitPositive
<1>2. ASSUME NEW a \in Nat, NEW b \in Nat, b > 0
      PROVE  a \div b \in Nat /\ (a < b => a \div b = 0) /\ (a >= b => a \div b > 0)
  BY <1>2
<1>3. QED
  BY <1>1, <1>2 DEF btoq

\* Text of a header that is on no list need not be noted if it has no units.
LEMMA NoteNone ==
    ASSUME NEW k, NEW chain, NEW text, Books(k, chain, text),
           NEW h \in Headers, Out(chain, h), text[h].size = 0
    PROVE  Books(k, chain, [text EXCEPT ![h] = None])
<1> DEFINE text2 == [text EXCEPT ![h] = None]
<1>1. text \in [Headers -> Span] /\ Pool(k.map, text)
  BY DEF Books, Pool
<1>2. /\ text2 \in [Headers -> Span] /\ text2[h] = None
      /\ \A g \in Headers : g # h => text2[g] = text[g]
  BY <1>1 DEF None, Span
<1>3. None.size = 0
  BY DEF None
<1> HIDE DEF text2
<1>4. Pool(k.map, text2)
  <2>1. \A g \in Headers : text2[g] = text[g] \/ (text[g].size = 0 /\ text2[g].size = 0)
    BY <1>2, <1>3
  <2>2. QED
    BY <1>1, <1>2, <2>1, PoolSame
<1>5. NULL \in Lists /\ Queues \subseteq Lists
  BY DEF Lists
<1>6. \A q \in Queues, g \in Headers :
          Has(chain[q], g) => text2[g] = [addr |-> k.hdr[g].addr, size |-> btoq(k.hdr[g].ts)]
  <2>1. ASSUME NEW q \in Queues, NEW g \in Headers, Has(chain[q], g)
        PROVE  text2[g] = [addr |-> k.hdr[g].addr, size |-> btoq(k.hdr[g].ts)]
    <3>1. g # h
      BY <1>5, <2>1 DEF Out
    <3>2. text[g] = [addr |-> k.hdr[g].addr, size |-> btoq(k.hdr[g].ts)]
      BY <2>1 DEF Books
    <3>3. QED
      BY <1>2, <3>1, <3>2
  <2>2. QED
    BY <2>1
<1>7. \A g \in Headers : Has(chain[NULL], g) => text2[g].size = 0
  BY <1>2, <1>3 DEF Books
<1>8. Books(k, chain, text2)
  BY <1>4, <1>6, <1>7 DEF Books
<1>9. QED
  BY <1>8 DEF text2

\* What it is to take message i off queue q and give all it had back.
Freed(k, chain, text, q, i, k2, chain2, text2) ==
    /\ Told(k, chain, k2, chain2) /\ Shrunk(k, k2, q)
    /\ k.que[q].wwait => <<"que", q>> \in k2.ev
    /\ chain2[q] = Closed(chain[q], i)
    /\ \A r \in Queues : r # q => chain2[r] = chain[r]
    /\ \A r \in Queues, g \in Headers : Has(chain2[r], g) => SameText(k, k2, g)
    /\ \A g \in Headers : Out(chain2, g) <=> Out(chain, g)
    /\ \A g \in Headers : Out(chain, g) => text2[g] = text[g]

\* msgfree() of a message on a queue: off the queue, its text back in the map, its
\* header on the free list, everyone told.
LEMMA msgfreeIs ==
    ASSUME NEW k, NEW chain, NEW text, Books(k, chain, text),
           NEW q \in Queues, NEW i \in 1 .. Len(chain[q]),
           NEW pmp, pmp = IF i = 1 THEN NULL ELSE chain[q][i - 1],
           NEW k2, k2 = msgfree(k, q, pmp, chain[q][i])
    PROVE  \E chain2, text2 : Books(k2, chain2, text2) /\ Freed(k, chain, text, q, i, k2, chain2, text2)
<1> DEFINE mp == chain[q][i]
           ts == k.hdr[mp].ts
           addr == k.hdr[mp].addr
<1>1. k \in Kit /\ Filled(chain) /\ NULL \in Lists /\ Queues \subseteq Lists /\ NULL \notin Queues
  BY NullIsNothing DEF Books, Lists
<1>2. mp \in Headers /\ Has(chain[q], mp) /\ q \in Lists
  BY <1>1 DEF Filled, Has
<1>3. ts \in Nat /\ addr \in Nat /\ text[mp] = [addr |-> addr, size |-> btoq(ts)]
  <2>1. k.hdr[mp] \in Header
    BY <1>1, <1>2, KitIs
  <2>2. ts \in Nat /\ addr \in Nat
    BY <2>1, HeaderIs
  <2>3. QED
    BY <1>2, <2>2 DEF Books
<1>4. text[mp].addr = addr /\ text[mp].size = btoq(ts) /\ btoq(ts) \in Nat /\ (ts = 0 <=> btoq(ts) = 0)
  <2>1. btoq(ts) \in Nat /\ (ts = 0 => btoq(ts) = 0) /\ (ts > 0 => btoq(ts) > 0)
    BY <1>3, UnitsIs
  <2>2. ts = 0 \/ ts > 0
    BY <1>3
  <2>3. ts = 0 <=> btoq(ts) = 0
    BY <2>1, <2>2
  <2>4. QED
    BY <1>3, <2>1, <2>3
<1> HIDE DEF mp, ts, addr
<1> DEFINE u == Unlink(k, q, pmp, mp)
           w == WakeWriters(u, q)
           t == IF ts = 0 THEN w ELSE FreeText(w, btoq(ts), addr)
           chain1 == [chain EXCEPT ![q] = Closed(chain[q], i)]
           chain2 == [chain1 EXCEPT ![NULL] = <<mp>> \o chain1[NULL]]
           text2 == [text EXCEPT ![mp] = None]
<1>5. k2 = FreeHeader(t, mp)
  BY DEF msgfree, mp, ts, addr
<1>6. /\ Books(u, chain1, text) /\ Dropped(chain, q, i, chain1)
      /\ u.fp = k.fp /\ u.map = k.map /\ u.ev = k.ev
      /\ Shrunk(k, u, q) /\ u.que[q].wwait = k.que[q].wwait
      /\ \A g \in Headers : SameText(k, u, g)
  <2>1. ASSUME NEW x, x = Unlink(k, q, pmp, chain[q][i]),
               NEW y, y = [chain EXCEPT ![q] = Closed(chain[q], i)]
        PROVE  Unlinked(k, chain, text, q, i, pmp, x, y)
    BY <2>1, UnlinkIs
  <2>2. Unlinked(k, chain, text, q, i, pmp, u, chain1)
    BY <2>1 DEF mp
  <2>3. QED
    BY <2>2 DEF Unlinked
<1> HIDE DEF u, chain1
<1>7. /\ Books(w, chain1, text)
      /\ w.fp = u.fp /\ w.map = u.map /\ w.hdr = u.hdr /\ u.ev \subseteq w.ev
      /\ Shrunk(u, w, q)
      /\ u.que[q].wwait => <<"que", q>> \in w.ev
  BY <1>6, WakeWritersIs, Zenon
<1> HIDE DEF w
<1>8. /\ Filled(chain1) /\ Out(chain1, mp) /\ chain1[q] = Closed(chain[q], i)
      /\ \A m \in Lists : m # q => chain1[m] = chain[m]
      /\ \A m \in Lists, g \in Headers : Has(chain1[m], g) => Has(chain[m], g) /\ g # mp
      /\ \A g \in Headers : Out(chain1, g) => Out(chain, g) \/ g = mp
  BY <1>6 DEF Dropped, mp
<1>9. k \in Kit /\ u \in Kit /\ w \in Kit
  BY <1>1, <1>6, <1>7 DEF Books
<1>10. Told(k, chain, w, chain1)
  <2>1. k.ev \subseteq w.ev /\ w.fp = k.fp /\ w.map = k.map
    BY <1>6, <1>7
  <2>2. ASSUME NEW r \in Queues PROVE ReadersTold(k, chain, w, chain1, r)
    <3>1. w.que[r].rwait = k.que[r].rwait /\ w.que[r].alloc = k.que[r].alloc /\ w.que[r].seq = k.que[r].seq
      BY <1>6, <1>7 DEF Shrunk
    <3>2. \A g \in Headers : Has(chain1[r], g) => Has(chain[r], g) /\ w.hdr[g].type = k.hdr[g].type
      BY <1>1, <1>6, <1>7, <1>8 DEF SameText
    <3>3. QED
      BY <3>1, <3>2 DEF ReadersTold
  <2>3. ASSUME NEW r \in Queues PROVE WritersTold(k, w, r)
    <3>1. CASE r = q
      BY <1>6, <1>7, <3>1 DEF WritersTold
    <3>2. CASE r # q
      <4>1. w.que[r] = k.que[r]
        BY <1>6, <1>7, <3>2 DEF Shrunk
      <4>2. k.que[r].cbytes >= k.que[r].cbytes
        BY <1>1, KitIs, QueueIs
      <4>3. QED
        BY <4>1, <4>2 DEF WritersTold
    <3>3. QED
      BY <3>1, <3>2
  <2>4. HeadersTold(k, w) /\ TextTold(k, w)
    BY <2>1 DEF HeadersTold, TextTold
  <2>5. QED
    BY <2>1, <2>2, <2>3, <2>4 DEF Told
<1>11. /\ Books(t, chain1, text2) /\ Told(w, chain1, t, chain1)
       /\ t.que = w.que /\ t.hdr = w.hdr /\ t.fp = w.fp
  <2>1. CASE ts = 0
    <3>1. Books(w, chain1, text2)
      BY <1>2, <1>4, <1>7, <1>8, <2>1, NoteNone
    <3>2. Told(w, chain1, w, chain1)
      <4>1. \A r \in Queues : w.que[r].cbytes >= w.que[r].cbytes
        BY <1>9, KitIs, QueueIs
      <4>2. \A r \in Queues : ReadersTold(w, chain1, w, chain1, r) /\ WritersTold(w, w, r)
        BY <4>1 DEF ReadersTold, WritersTold
      <4>3. HeadersTold(w, w) /\ TextTold(w, w)
        BY DEF HeadersTold, TextTold
      <4>4. QED
        BY <4>2, <4>3 DEF Told
    <3>3. QED
      BY <2>1, <3>1, <3>2
  <2>2. CASE ts # 0
    <3>1. text[mp].size > 0 /\ t = FreeText(w, text[mp].size, text[mp].addr)
      BY <1>4, <2>2
    <3>2. QED
      BY <1>2, <1>7, <1>8, <3>1, FreeTextIs
  <2>3. QED
    BY <2>1, <2>2
<1> HIDE DEF t
<1>12. text2[mp].size = 0 /\ \A g \in Headers : g # mp => text2[g] = text[g]
  <2>1. text \in [Headers -> Span] /\ None.size = 0
    BY DEF Books, Pool, None
  <2>2. QED
    BY <1>2, <2>1
<1> HIDE DEF text2
<1>13. /\ Books(k2, chain2, text2) /\ Told(t, chain1, k2, chain2)
       /\ k2.que = t.que /\ k2.map = t.map
       /\ \A g \in Headers : g # mp => k2.hdr[g] = t.hdr[g]
  <2>1. PutBack(t, chain1, text2, mp, k2, chain2)
    BY <1>2, <1>5, <1>8, <1>11, <1>12, FreeHeaderIs
  <2>2. QED
    BY <2>1 DEF PutBack
<1>14. /\ chain2[q] = Closed(chain[q], i)
       /\ \A m \in Lists : m # q /\ m # NULL => chain2[m] = chain[m]
       /\ \A m \in Lists : m # NULL => chain2[m] = chain1[m]
       /\ chain2[NULL] = <<mp>> \o chain1[NULL]
  BY <1>1, <1>2, <1>8 DEF Filled
<1>15. \A m \in Lists, g \in Headers : Has(chain2[m], g) <=> Has(chain1[m], g) \/ (m = NULL /\ g = mp)
  <2>1. \A g : Has(<<mp>> \o chain1[NULL], g) <=> Has(chain1[NULL], g) \/ g = mp
    <3>1. chain1[NULL] \in Seq(Headers) /\ Once(chain1[NULL]) /\ ~Has(chain1[NULL], mp)
      BY <1>1, <1>8 DEF Filled, Out
    <3>2. QED
      BY <1>2, <3>1, FrontHas, ZenonT(60)
  <2>2. QED
    BY <1>14, <2>1
<1> HIDE DEF chain2
<1>16. Told(k, chain, k2, chain2)
  <2>1. t \in Kit /\ k2 \in Kit
    BY <1>11, <1>13, Zenon DEF Books
  <2>2. Told(k, chain, t, chain1)
    BY <1>9, <1>10, <1>11, <2>1, ToldTwice
  <2>3. QED
    BY <1>9, <1>13, <2>1, <2>2, ToldTwice
<1>17. Shrunk(k, k2, q)
  BY <1>6, <1>7, <1>11, <1>13 DEF Shrunk
<1>18. k.que[q].wwait => <<"que", q>> \in k2.ev
  BY <1>6, <1>7, <1>11, <1>13 DEF Told
<1>19. ASSUME NEW r \in Queues, NEW g \in Headers, Has(chain2[r], g)
       PROVE  SameText(k, k2, g)
  <2>1. Has(chain1[r], g) /\ g # mp
    BY <1>1, <1>8, <1>15, <1>19
  <2>2. QED
    BY <1>6, <1>7, <1>11, <1>13, <2>1 DEF SameText
<1>20. ASSUME NEW g \in Headers
       PROVE  Out(chain2, g) <=> Out(chain, g)
  <2>1. CASE g = mp
    BY <1>1, <1>2, <1>15, <2>1 DEF Out
  <2>2. CASE g # mp
    <3>1. Out(chain, g) => Out(chain1, g)
      BY <1>8 DEF Out
    <3>2. QED
      BY <1>8, <1>15, <2>2, <3>1 DEF Out
  <2>3. QED
    BY <2>1, <2>2
<1>21. \A g \in Headers : Out(chain, g) => text2[g] = text[g]
  BY <1>2, <1>12 DEF Out
<1>22. Freed(k, chain, text, q, i, k2, chain2, text2)
  BY <1>1, <1>14, <1>16, <1>17, <1>18, <1>19, <1>20, <1>21 DEF Freed
<1>23. QED
  BY <1>13, <1>22

\* What Linked() sets.
LinkedAs(k, q, h, last, longer, k2) ==
    /\ k2.que = [k.que EXCEPT ![q] = IF last = NULL THEN [longer EXCEPT !.first = h] ELSE longer]
    /\ k2.fp = k.fp /\ k2.map = k.map /\ k2.ev = k.ev
    /\ k2.hdr = IF last = NULL THEN k.hdr ELSE [k.hdr EXCEPT ![last] = [@ EXCEPT !.next = h]]
    /\ k2 = [que |-> k2.que, hdr |-> k2.hdr, fp |-> k2.fp, map |-> k2.map, ev |-> k2.ev]

\* The tables after the header has become the last of its queue.
LEMMA LinkedSets ==
    ASSUME NEW k \in Kit, NEW q \in Queues, NEW h \in Headers, NEW last, last = k.que[q].last,
           NEW longer, longer = [k.que[q] EXCEPT !.last = h], NEW k2, k2 = Linked(k, q, h)
    PROVE  LinkedAs(k, q, h, last, longer, k2)
<1>1. CASE last = NULL
  BY <1>1 DEF Linked, Kit, LinkedAs
<1>2. CASE last # NULL
  <2>1. k2 = [k EXCEPT !.hdr[last].next = h, !.que[q] = longer]
    BY <1>2 DEF Linked
  <2>2. QED
    BY <1>2, <2>1, Zenon DEF Kit, LinkedAs
<1>3. QED
  BY <1>1, <1>2

\* What it is to put header h, with cnt bytes, on queue q.
Sent(k, chain, text, q, h, cnt, k2, chain2) ==
    /\ Books(k2, chain2, text) /\ Told(k, chain, k2, chain2)
    /\ \A r \in Queues : r # q => k2.que[r] = k.que[r] /\ chain2[r] = chain[r]
    /\ k2.que[q].alloc = k.que[q].alloc /\ k2.que[q].seq = k.que[q].seq
    /\ k2.que[q].cbytes = k.que[q].cbytes + cnt /\ k2.que[q].qbytes = k.que[q].qbytes
    /\ chain2[q] = Append(chain[q], h)
    /\ \A r \in Queues, g \in Headers : Has(chain[r], g) => SameText(k, k2, g)
    /\ k2.hdr[h].ts = cnt
    /\ \A g \in Headers : Out(chain2, g) <=> Out(chain, g) /\ g # h

\* The tables after header h, filled in, has become the last of queue q, whose
\* readers have been woken.
Enqueued(k, chain, q, h, full, k2) ==
    /\ k2 \in Kit /\ k2.fp = k.fp /\ k2.map = k.map /\ k.ev \subseteq k2.ev
    /\ k.que[q].rwait => <<"qnum", q>> \in k2.ev
    /\ \A r \in Queues : r # q => k2.que[r] = k.que[r]
    /\ k2.que[q].qnum = Len(chain[q]) + 1 /\ k2.que[q].cbytes = k.que[q].cbytes + full.ts
    /\ k2.que[q].first = (IF chain[q] = <<>> THEN h ELSE k.que[q].first) /\ k2.que[q].last = h
    /\ k2.que[q].alloc = k.que[q].alloc /\ k2.que[q].seq = k.que[q].seq
    /\ k2.que[q].qbytes = k.que[q].qbytes /\ k2.que[q].wwait = k.que[q].wwait
    /\ k2.hdr[h] = full /\ \A g \in Headers : g # h => SameText(k, k2, g)
    /\ \A g \in Headers : g # h /\ g # k.que[q].last => k2.hdr[g] = k.hdr[g]
    /\ k.que[q].last # NULL => k2.hdr[k.que[q].last].next = h

\* So they are at the end of msgsnd().
LEMMA EnqueuedIs ==
    ASSUME NEW k, NEW chain, NEW text, Books(k, chain, text),
           NEW q \in Queues, NEW h \in Headers, Out(chain, h), k.que[q].alloc,
           NEW full \in Header, full.next = NULL,
           NEW more, more = [k.que[q] EXCEPT !.qnum = @ + 1, !.cbytes = @ + full.ts],
           NEW k1, k1 = [k EXCEPT !.que[q] = more, !.hdr[h] = full],
           NEW k2, k2 = WakeReaders(Linked(k1, q, h), q)
    PROVE  Enqueued(k, chain, q, h, full, k2)
<1> DEFINE c == chain[q]
           n == Len(c)
           last == k.que[q].last
           l1 == Linked(k1, q, h)
           longer == [more EXCEPT !.last = h]
           new == IF last = NULL THEN [longer EXCEPT !.first = h] ELSE longer
           new2 == [new EXCEPT !.rwait = FALSE]
           tail == [k.hdr[last] EXCEPT !.next = h]
<1>1. /\ k \in Kit /\ Filled(chain) /\ NULL \in Lists /\ Queues \subseteq Lists /\ NULL \notin Queues
      /\ NULL \notin Headers
  BY NullIsNothing DEF Books, Lists
<1>2. /\ k.que \in [Queues -> Queue] /\ k.hdr \in [Headers -> Header] /\ k.fp \in Ptr
      /\ k.map \in Map /\ k.ev \subseteq Channels /\ k.que[q] \in Queue
  BY <1>1, KitIs
<1>3. c \in Seq(Headers) /\ Once(c) /\ n \in Nat /\ q \in Lists /\ ~Has(c, h)
  BY <1>1 DEF Filled, Out
<1>4. \A j \in 1 .. n : c[j] \in Headers /\ c[j] # h
  BY <1>3 DEF Has
<1>5. /\ Run(k.hdr, k.que[q].first, c) /\ k.que[q].qnum = n
      /\ last = IF c = <<>> THEN NULL ELSE c[n]
  BY DEF Books
<1>6. /\ last = NULL <=> c = <<>>
      /\ last # NULL => n \in 1 .. n /\ last = c[n] /\ last \in Headers /\ last # h /\ Has(c, last)
  <2>1. CASE c = <<>>
    BY <1>5, <2>1
  <2>2. CASE c # <<>>
    <3>1. n \in 1 .. n
      BY <1>3, <2>2
    <3>2. QED
      BY <1>1, <1>4, <1>5, <2>2, <3>1 DEF Has
  <2>3. QED
    BY <2>1, <2>2
<1>7. full.ts \in Nat /\ full.addr \in Nat
  BY HeaderIs
<1> HIDE DEF last
<1>8. /\ more \in Queue /\ more.qnum = n + 1 /\ more.cbytes = k.que[q].cbytes + full.ts
      /\ more.first = k.que[q].first /\ more.last = last
      /\ more.alloc = k.que[q].alloc /\ more.seq = k.que[q].seq /\ more.qbytes = k.que[q].qbytes
      /\ more.rwait = k.que[q].rwait /\ more.wwait = k.que[q].wwait
  <2>1. k.que[q].qnum + 1 \in Int /\ k.que[q].qnum = n /\ k.que[q].cbytes + full.ts \in Int
    BY <1>2, <1>3, <1>5, <1>7, QueueIs
  <2>2. QED
    BY <1>2, <2>1 DEF Queue, last
<1>9. /\ k1.que = [k.que EXCEPT ![q] = more] /\ k1.hdr = [k.hdr EXCEPT ![h] = full]
      /\ k1.fp = k.fp /\ k1.map = k.map /\ k1.ev = k.ev
      /\ k1 = [que |-> k1.que, hdr |-> k1.hdr, fp |-> k1.fp, map |-> k1.map, ev |-> k1.ev]
  BY <1>1 DEF Kit
<1>10. /\ k1.que[q] = more /\ \A r \in Queues : r # q => k1.que[r] = k.que[r]
       /\ k1.hdr[h] = full /\ \A g \in Headers : g # h => k1.hdr[g] = k.hdr[g]
       /\ k1.que \in [Queues -> Queue] /\ k1.hdr \in [Headers -> Header]
       /\ k1.fp \in Ptr /\ k1.map \in Map /\ k1.ev \in SUBSET Channels
  BY <1>2, <1>8, <1>9
<1>11. /\ new \in Queue /\ new.qnum = n + 1 /\ new.cbytes = k.que[q].cbytes + full.ts
       /\ new.first = (IF last = NULL THEN h ELSE k.que[q].first) /\ new.last = h
       /\ new.alloc = k.que[q].alloc /\ new.seq = k.que[q].seq /\ new.qbytes = k.que[q].qbytes
       /\ new.rwait = k.que[q].rwait /\ new.wwait = k.que[q].wwait
  <2>1. h \in Ptr
    BY DEF Ptr
  <2>2. /\ longer \in Queue /\ longer.qnum = n + 1 /\ longer.cbytes = k.que[q].cbytes + full.ts
        /\ longer.first = k.que[q].first /\ longer.last = h
        /\ longer.alloc = k.que[q].alloc /\ longer.seq = k.que[q].seq /\ longer.qbytes = k.que[q].qbytes
        /\ longer.rwait = k.que[q].rwait /\ longer.wwait = k.que[q].wwait
    BY <1>8, <2>1 DEF Queue
  <2> HIDE DEF longer
  <2>3. CASE last = NULL
    BY <2>1, <2>2, <2>3 DEF Queue
  <2>4. CASE last # NULL
    BY <2>2, <2>4
  <2>5. QED
    BY <2>3, <2>4
<1>12. /\ l1.que = [k1.que EXCEPT ![q] = new] /\ l1.fp = k.fp /\ l1.map = k.map /\ l1.ev = k.ev
       /\ l1.hdr = IF last = NULL THEN k1.hdr ELSE [k1.hdr EXCEPT ![last] = [@ EXCEPT !.next = h]]
       /\ l1 = [que |-> l1.que, hdr |-> l1.hdr, fp |-> l1.fp, map |-> l1.map, ev |-> l1.ev]
  <2>1. k1.que[q].last = last /\ k1.que[q] = more
    BY <1>8, <1>10
  <2>2. k1 \in Kit
    BY <1>9, <1>10, Zenon DEF Kit
  <2>3. longer = [k1.que[q] EXCEPT !.last = h]
    BY <2>1
  <2>4. /\ l1.que = [k1.que EXCEPT ![q] = IF last = NULL THEN [longer EXCEPT !.first = h] ELSE longer]
        /\ l1.fp = k1.fp /\ l1.map = k1.map /\ l1.ev = k1.ev
        /\ l1.hdr = IF last = NULL THEN k1.hdr ELSE [k1.hdr EXCEPT ![last] = [@ EXCEPT !.next = h]]
        /\ l1 = [que |-> l1.que, hdr |-> l1.hdr, fp |-> l1.fp, map |-> l1.map, ev |-> l1.ev]
    <3> HIDE DEF longer, l1
    <3>1. l1 = Linked(k1, q, h)
      BY DEF l1
    <3>2. k1.que[q].last = last
      BY <2>1
    <3>3. LinkedAs(k1, q, h, last, longer, l1)
      BY <2>2, <2>3, <3>1, <3>2, LinkedSets
    <3>4. QED
      BY <3>3 DEF LinkedAs
  <2>5. QED
    BY <1>9, <2>4
<1>13. /\ \A r \in Queues : r # q => l1.que[r] = k.que[r]
       /\ l1.que[q] = new /\ DOMAIN l1.que = Queues
  <2>1. l1.que = [k1.que EXCEPT ![q] = new] /\ DOMAIN k1.que = Queues
    BY <1>10, <1>12
  <2> HIDE DEF l1, new
  <2>2. \A r \in Queues : r # q => l1.que[r] = k1.que[r]
    BY <2>1
  <2>3. l1.que[q] = new /\ DOMAIN l1.que = Queues
    BY <2>1, SMTT(40)
  <2>4. QED
    BY <1>10, <2>2, <2>3
<1>14. /\ l1.hdr \in [Headers -> Header] /\ l1.hdr[h] = full
       /\ \A g \in Headers : g # h => SameText(k, l1, g)
       /\ \A g \in Headers : g # h /\ g # last => l1.hdr[g] = k.hdr[g]
       /\ last # NULL => l1.hdr[last].next = h
  <2>1. k1.hdr \in [Headers -> Header]
    BY <1>2, <1>9, SMTT(40)
  <2>2. CASE last = NULL
    <3>1. l1.hdr = k1.hdr
      BY <1>12, <2>2
    <3>2. \A g \in Headers : g # h => l1.hdr[g] = k.hdr[g]
      BY <1>10, <3>1
    <3>3. \A g \in Headers : g # h => SameText(k, l1, g)
      BY <3>2, SMTT(40) DEF SameText
    <3>4. QED
      BY <1>10, <2>1, <2>2, <3>1, <3>2, <3>3
  <2>3. CASE last # NULL
    <3>1. last \in Headers /\ last # h /\ k1.hdr[last] = k.hdr[last] /\ k.hdr[last] \in Header
      BY <1>2, <1>6, <1>10, <2>3
    <3>2. /\ tail \in Header /\ tail.next = h /\ tail.type = k.hdr[last].type
          /\ tail.ts = k.hdr[last].ts /\ tail.addr = k.hdr[last].addr
      <4>1. h \in Ptr
        BY DEF Ptr
      <4>2. QED
        BY <3>1, <4>1 DEF Header
    <3>3. l1.hdr = [k1.hdr EXCEPT ![last] = tail]
      BY <1>12, <2>3, <3>1
    <3> HIDE DEF tail
    <3>4. l1.hdr \in [Headers -> Header] /\ l1.hdr[last] = tail /\ \A g \in Headers : g # last => l1.hdr[g] = k1.hdr[g]
      BY <2>1, <3>1, <3>2, <3>3
    <3>5. \A g \in Headers : g # h /\ g # last => l1.hdr[g] = k.hdr[g]
      BY <1>10, <3>4
    <3>6. \A g \in Headers : g # h => SameText(k, l1, g)
      <4>1. SameText(k, l1, last)
        BY <3>2, <3>4 DEF SameText
      <4>2. \A g \in Headers : g # h /\ g # last => SameText(k, l1, g)
        BY <3>5 DEF SameText
      <4>3. QED
        BY <4>1, <4>2
    <3>7. QED
      BY <1>10, <3>1, <3>2, <3>4, <3>5, <3>6
  <2>4. QED
    BY <2>2, <2>3, Zenon
<1> HIDE DEF l1, new, tail
<1>15. /\ new2 \in Queue /\ new2.qnum = n + 1 /\ new2.cbytes = k.que[q].cbytes + full.ts
       /\ new2.first = new.first /\ new2.last = h
       /\ new2.alloc = k.que[q].alloc /\ new2.seq = k.que[q].seq /\ new2.qbytes = k.que[q].qbytes
       /\ new2.wwait = k.que[q].wwait
  BY <1>11 DEF Queue
<1>16. /\ k2.que = [l1.que EXCEPT ![q] = IF k.que[q].rwait THEN new2 ELSE new]
       /\ k2.fp = k.fp /\ k2.map = k.map /\ k2.hdr = l1.hdr
       /\ k2.ev = (IF k.que[q].rwait THEN k.ev \cup {<<"qnum", q>>} ELSE k.ev)
       /\ k2 = [que |-> k2.que, hdr |-> k2.hdr, fp |-> k2.fp, map |-> k2.map, ev |-> k2.ev]
  <2>1. k2 = WakeReaders(l1, q)
    BY DEF l1
  <2>2. l1.que[q].rwait = k.que[q].rwait
    BY <1>11, <1>13, SMTT(40)
  <2>3. CASE k.que[q].rwait
    <3>1. k2 = [l1 EXCEPT !.que[q].rwait = FALSE, !.ev = @ \cup {<<"qnum", q>>}]
      BY <2>1, <2>2, <2>3 DEF WakeReaders
    <3>2. k2.que = [l1.que EXCEPT ![q] = [@ EXCEPT !.rwait = FALSE]]
      BY <1>12, <3>1
    <3>3. k2.que = [l1.que EXCEPT ![q] = new2]
      BY <1>13, <3>2
    <3>4. QED
      BY <1>12, <2>3, <3>1, <3>3
  <2>4. CASE ~k.que[q].rwait
    <3>1. k2 = l1
      BY <2>1, <2>2, <2>4 DEF WakeReaders
    <3>2. l1.que = [l1.que EXCEPT ![q] = new]
      BY <1>12, <1>13, SMTT(40)
    <3>3. QED
      BY <1>12, <2>4, <3>1, <3>2
  <2>5. QED
    BY <2>3, <2>4
<1> HIDE DEF new2
<1>17. /\ k2.que \in [Queues -> Queue] /\ k2.que[q] \in {new, new2}
       /\ \A r \in Queues : r # q => k2.que[r] = k.que[r]
  <2>1. PICK m : m = IF k.que[q].rwait THEN new2 ELSE new
    OBVIOUS
  <2>2. m \in Queue /\ m \in {new, new2} /\ k2.que = [l1.que EXCEPT ![q] = m]
    BY <1>11, <1>15, <1>16, <2>1
  <2>3. k2.que[q] = m /\ DOMAIN k2.que = Queues /\ \A r \in Queues : r # q => k2.que[r] = l1.que[r]
    BY <1>13, <2>2
  <2>4. l1.que \in [Queues -> Queue]
    <3>1. l1.que = [k1.que EXCEPT ![q] = new]
      BY <1>12
    <3>2. k1.que \in [Queues -> Queue] /\ new \in Queue
      BY <1>10, <1>11
    <3>3. QED
      BY <3>1, <3>2
  <2>5. k2.que \in [Queues -> Queue]
    BY <2>2, <2>4, SMTT(40)
  <2>6. QED
    BY <1>13, <2>2, <2>3, <2>5
<1>18. /\ k2.que[q].qnum = n + 1 /\ k2.que[q].cbytes = k.que[q].cbytes + full.ts
       /\ k2.que[q].first = (IF c = <<>> THEN h ELSE k.que[q].first) /\ k2.que[q].last = h
       /\ k2.que[q].alloc = k.que[q].alloc /\ k2.que[q].seq = k.que[q].seq
       /\ k2.que[q].qbytes = k.que[q].qbytes /\ k2.que[q].wwait = k.que[q].wwait
  BY <1>6, <1>11, <1>15, <1>17, ZenonT(60)
<1>19. k2 \in Kit
  <2>1. <<"qnum", q>> \in Channels
    BY <1>3 DEF Channels
  <2>2. k2.ev \subseteq Channels
    BY <1>2, <1>16, <2>1
  <2>3. k2.hdr \in [Headers -> Header] /\ k2.fp \in Ptr /\ k2.map \in Map
    BY <1>2, <1>14, <1>16, SMTT(40)
  <2>4. QED
    BY <1>16, <1>17, <2>2, <2>3, Zenon DEF Kit
<1>20. k.ev \subseteq k2.ev /\ (k.que[q].rwait => <<"qnum", q>> \in k2.ev)
  BY <1>16
<1>21. /\ k2.hdr[h] = full /\ \A g \in Headers : g # h => SameText(k, k2, g)
       /\ \A g \in Headers : g # h /\ g # last => k2.hdr[g] = k.hdr[g]
       /\ last # NULL => k2.hdr[last].next = h
  <2>1. k2.hdr = l1.hdr
    BY <1>16
  <2>2. \A g \in Headers : g # h => SameText(k, k2, g)
    BY <1>14, <2>1 DEF SameText
  <2>3. QED
    BY <1>14, <2>1, <2>2
<1>22. QED
  BY <1>16, <1>17, <1>18, <1>19, <1>20, <1>21, Zenon DEF Enqueued, last

\* The books agree with that, and everyone is told.
LEMMA SentOne ==
    ASSUME NEW k, NEW chain, NEW text, Books(k, chain, text),
           NEW q \in Queues, NEW h \in Headers, Out(chain, h), k.que[q].alloc,
           NEW full \in Header, full.next = NULL,
           text[h] = [addr |-> full.addr, size |-> btoq(full.ts)],
           NEW k2, Enqueued(k, chain, q, h, full, k2),
           NEW chain2, chain2 = [chain EXCEPT ![q] = Append(chain[q], h)]
    PROVE  Sent(k, chain, text, q, h, full.ts, k2, chain2)
<1> DEFINE c == chain[q]
           n == Len(c)
           d == Append(c, h)
           last == k.que[q].last
<1>1. /\ k \in Kit /\ Filled(chain) /\ NULL \in Lists /\ Queues \subseteq Lists /\ NULL \notin Queues
      /\ NULL \notin Headers
  BY NullIsNothing DEF Books, Lists
<1>2. /\ k.que \in [Queues -> Queue] /\ k.hdr \in [Headers -> Header] /\ k.fp \in Ptr
      /\ k.map \in Map /\ k.ev \subseteq Channels /\ k.que[q] \in Queue
  BY <1>1, KitIs
<1>3. c \in Seq(Headers) /\ Once(c) /\ n \in Nat /\ q \in Lists /\ ~Has(c, h)
  BY <1>1 DEF Filled, Out
<1>4. \A j \in 1 .. n : c[j] \in Headers /\ c[j] # h
  BY <1>3 DEF Has
<1>5. /\ Run(k.hdr, k.que[q].first, c) /\ k.que[q].qnum = n
      /\ last = IF c = <<>> THEN NULL ELSE c[n]
  BY DEF Books
<1>6. /\ last = NULL <=> c = <<>>
      /\ last # NULL => n \in 1 .. n /\ last = c[n] /\ last \in Headers /\ last # h /\ Has(c, last)
  <2>1. CASE c = <<>>
    BY <1>5, <2>1
  <2>2. CASE c # <<>>
    <3>1. n \in 1 .. n
      BY <1>3, <2>2
    <3>2. QED
      BY <1>1, <1>4, <1>5, <2>2, <3>1 DEF Has
  <2>3. QED
    BY <2>1, <2>2
<1>7. full.ts \in Nat /\ full.addr \in Nat
  BY HeaderIs
<1>14. /\ k2.fp = k.fp /\ k2.map = k.map /\ k.ev \subseteq k2.ev
       /\ k.que[q].rwait => <<"qnum", q>> \in k2.ev
       /\ k2.hdr[h] = full /\ \A g \in Headers : g # h => SameText(k, k2, g)
       /\ \A g \in Headers : g # h /\ g # last => k2.hdr[g] = k.hdr[g]
       /\ last # NULL => k2.hdr[last].next = h
  BY DEF Enqueued
<1>17. \A r \in Queues : r # q => k2.que[r] = k.que[r]
  BY DEF Enqueued
<1>18. /\ k2.que[q].qnum = n + 1 /\ k2.que[q].cbytes = k.que[q].cbytes + full.ts
       /\ k2.que[q].first = (IF c = <<>> THEN h ELSE k.que[q].first) /\ k2.que[q].last = h
       /\ k2.que[q].alloc = k.que[q].alloc /\ k2.que[q].seq = k.que[q].seq
       /\ k2.que[q].qbytes = k.que[q].qbytes /\ k2.que[q].wwait = k.que[q].wwait
  BY DEF Enqueued
<1>19. k2 \in Kit
  BY DEF Enqueued
<1> HIDE DEF last
<1>20. d \in Seq(Headers) /\ Once(d) /\ \A g : Has(d, g) <=> Has(c, g) \/ g = h
  BY <1>3, AppendHas, Zenon
<1>21. Len(d) = n + 1 /\ d # <<>> /\ d[n + 1] = h
  BY <1>3
<1> HIDE DEF d
<1>22. Gained(chain, q, h, d, chain2)
  <2>1. chain2 = [chain EXCEPT ![q] = d]
    BY DEF d
  <2>2. Gained(chain, q, h, d, [chain EXCEPT ![q] = d])
    BY <1>1, <1>3, <1>20, PutOn
  <2>3. QED
    BY <2>1, <2>2
<1>23. /\ Filled(chain2) /\ chain2[q] = d /\ \A m \in Lists : m # q => chain2[m] = chain[m]
       /\ \A m \in Lists, g \in Headers : Has(chain2[m], g) <=> Has(chain[m], g) \/ (m = q /\ g = h)
       /\ \A g \in Headers : Out(chain2, g) <=> Out(chain, g) /\ g # h
  BY <1>22 DEF Gained
<1>24. Run(k2.hdr, k2.que[q].first, d)
  <2>1. ASSUME NEW i \in 1 .. n
        PROVE  k2.hdr[c[i]].next = IF i = n THEN h ELSE k.hdr[c[i]].next
    <3>1. CASE i = n
      <4>1. c # <<>>
        BY <1>3, <3>1
      <4>2. QED
        BY <1>6, <1>14, <3>1, <4>1
    <3>2. CASE i # n
      <4>1. last # NULL /\ last = c[n] /\ n \in 1 .. n
        BY <1>3, <1>6
      <4>2. c[i] # last
        BY <1>3, <3>2, <4>1 DEF Once
      <4>3. QED
        BY <1>4, <1>14, <3>2, <4>2
    <3>3. QED
      BY <3>1, <3>2
  <2>2. k2.hdr[h].next = NULL
    BY <1>14
  <2>3. ASSUME NEW hd, hd = k.hdr, NEW hd2, hd2 = k2.hdr, NEW first, first = k.que[q].first,
               NEW first2, first2 = k2.que[q].first, NEW e, e = c
        PROVE  Run(hd2, first2, Append(e, h))
    <3>1. Run(hd, first, e) /\ ~Has(e, h) /\ hd2[h].next = NULL
      BY <1>3, <1>5, <2>2, <2>3
    <3>2. \A i \in 1 .. Len(e) : hd2[e[i]].next = IF i = Len(e) THEN h ELSE hd[e[i]].next
      BY <2>1, <2>3
    <3>3. first2 = IF e = <<>> THEN h ELSE first
      BY <1>18, <2>3, Zenon
    <3>4. QED
      BY <3>1, <3>2, <3>3, RunAppend, Zenon
  <2>4. QED
    BY <2>3 DEF d
<1>25. ASSUME NEW l \in Lists, l # q, NEW first, Run(k.hdr, first, chain[l])
       PROVE  Run(k2.hdr, first, chain2[l])
  <2>1. ~Has(chain[l], last) \/ last = NULL
    <3>1. CASE last # NULL
      <4>1. last \in Headers /\ Has(chain[q], last)
        BY <1>6, <3>1
      <4>2. Has(chain[l], last) => l = q
        BY <1>1, <1>3, <4>1 DEF Filled
      <4>3. QED
        BY <1>25, <4>2
    <3>2. QED
      BY <3>1
  <2>2. \A g \in Headers : Has(chain[l], g) => k2.hdr[g].next = k.hdr[g].next
    BY <1>1, <1>14, <2>1 DEF Out
  <2>3. Run(k2.hdr, first, chain[l])
    BY <1>25, <2>2, RunFrame
  <2>4. QED
    BY <1>23, <1>25, <2>3
<1>26. ASSUME NEW r \in Queues
       PROVE  /\ Run(k2.hdr, k2.que[r].first, chain2[r])
              /\ k2.que[r].qnum = Len(chain2[r])
              /\ k2.que[r].last = IF chain2[r] = <<>> THEN NULL ELSE chain2[r][Len(chain2[r])]
              /\ ~k2.que[r].alloc => chain2[r] = <<>>
  <2>1. CASE r = q
    <3>1. k2.que[q].alloc
      BY <1>18, Zenon
    <3>2. QED
      BY <1>18, <1>21, <1>23, <1>24, <2>1, <3>1
  <2>2. CASE r # q
    <3>1. /\ Run(k.hdr, k.que[r].first, chain[r]) /\ k.que[r].qnum = Len(chain[r])
          /\ k.que[r].last = IF chain[r] = <<>> THEN NULL ELSE chain[r][Len(chain[r])]
          /\ ~k.que[r].alloc => chain[r] = <<>>
      BY DEF Books
    <3>2. k2.que[r] = k.que[r] /\ chain2[r] = chain[r] /\ r \in Lists
      BY <1>1, <1>17, <1>23, <2>2
    <3>3. Run(k2.hdr, k.que[r].first, chain2[r])
      BY <1>25, <2>2, <3>1, <3>2
    <3>4. QED
      BY <3>1, <3>2, <3>3, Zenon
  <2>3. QED
    BY <2>1, <2>2
<1>27. Run(k2.hdr, k2.fp, chain2[NULL])
  <2>1. Run(k.hdr, k.fp, chain[NULL]) /\ NULL # q
    BY <1>1 DEF Books
  <2>2. QED
    BY <1>1, <1>14, <1>25, <2>1
<1>28. \A r \in Queues, g \in Headers : Has(chain[r], g) => SameText(k, k2, g)
  <2>1. \A r \in Queues, g \in Headers : Has(chain[r], g) => g # h
    BY <1>1 DEF Out
  <2>2. QED
    BY <1>14, <2>1 DEF SameText
<1>29. ASSUME NEW r \in Queues, NEW g \in Headers, Has(chain2[r], g)
       PROVE  text[g] = [addr |-> k2.hdr[g].addr, size |-> btoq(k2.hdr[g].ts)]
  <2>1. CASE g = h
    BY <1>14, <2>1
  <2>2. CASE g # h
    <3>1. Has(chain[r], g)
      BY <1>1, <1>23, <1>29, <2>2
    <3>2. k2.hdr[g].addr = k.hdr[g].addr /\ k2.hdr[g].ts = k.hdr[g].ts
      BY <1>28, <3>1, Zenon DEF SameText
    <3>3. text[g] = [addr |-> k.hdr[g].addr, size |-> btoq(k.hdr[g].ts)]
      BY <3>1 DEF Books
    <3>4. QED
      BY <3>2, <3>3
  <2>3. QED
    BY <2>1, <2>2
<1>30. \A g \in Headers : Has(chain2[NULL], g) => text[g].size = 0
  BY <1>1, <1>23 DEF Books
<1>31. Books(k2, chain2, text)
  <2>1. Pool(k2.map, text)
    BY <1>14 DEF Books
  <2>2. QED
    BY <1>19, <1>23, <1>26, <1>27, <1>29, <1>30, <2>1, Zenon DEF Books
<1>32. Told(k, chain, k2, chain2)
  <2>1. ASSUME NEW r \in Queues PROVE ReadersTold(k, chain, k2, chain2, r)
    <3>1. CASE r = q
      <4>1. k.que[q].rwait => <<"qnum", q>> \in k2.ev
        BY <1>14
      <4>2. QED
        BY <3>1, <4>1 DEF ReadersTold
    <3>2. CASE r # q
      <4>1. k2.que[r] = k.que[r] /\ chain2[r] = chain[r]
        BY <1>1, <1>17, <1>23, <3>2
      <4>2. QED
        BY <1>28, <4>1, Zenon DEF ReadersTold, SameText
    <3>3. QED
      BY <3>1, <3>2
  <2>2. ASSUME NEW r \in Queues PROVE WritersTold(k, k2, r)
    <3>1. k.que[r].cbytes \in Int
      BY <1>1, KitIs, QueueIs
    <3>2. k2.que[r].wwait = k.que[r].wwait /\ k2.que[r].alloc = k.que[r].alloc /\ k2.que[r].seq = k.que[r].seq
          /\ k2.que[r].qbytes = k.que[r].qbytes /\ k2.que[r].cbytes >= k.que[r].cbytes
      <4>1. CASE r = q
        <5>1. \A x \in Int, y \in Nat : x + y >= x
          OBVIOUS
        <5>2. k2.que[q].cbytes >= k.que[q].cbytes
          BY <1>7, <1>18, <3>1, <4>1, <5>1
        <5>3. QED
          BY <1>18, <4>1, <5>2
      <4>2. CASE r # q
        <5>1. k2.que[r] = k.que[r]
          BY <1>17, <4>2
        <5>2. QED
          BY <3>1, <5>1
      <4>3. QED
        BY <4>1, <4>2
    <3>3. QED
      BY <3>2, Zenon DEF WritersTold
  <2>3. HeadersTold(k, k2) /\ TextTold(k, k2) /\ k.ev \subseteq k2.ev
    <3>1. k2.fp = k.fp /\ k2.map = k.map
      BY <1>14
    <3>2. k.ev \subseteq k2.ev
      BY <1>14
    <3>3. HeadersTold(k, k2)
      BY <3>1 DEF HeadersTold
    <3>4. TextTold(k, k2)
      BY <3>1, Zenon DEF TextTold
    <3>5. QED
      BY <3>2, <3>3, <3>4
  <2>4. QED
    BY <2>1, <2>2, <2>3 DEF Told
<1>33. k2.hdr[h].ts = full.ts
  BY <1>14
<1>34. \A r \in Queues : r # q => k2.que[r] = k.que[r] /\ chain2[r] = chain[r]
  BY <1>1, <1>17, <1>23
<1>35. QED
  BY <1>18, <1>23, <1>28, <1>31, <1>32, <1>33, <1>34, Zenon DEF Sent, d

\* The end of msgsnd(): the header is filled in and linked, and readers are woken.
LEMMA SendIs ==
    ASSUME NEW k, NEW chain, NEW text, Books(k, chain, text),
           NEW q \in Queues, NEW h \in Headers, Out(chain, h), k.que[q].alloc,
           NEW full \in Header, full.next = NULL,
           text[h] = [addr |-> full.addr, size |-> btoq(full.ts)],
           NEW more, more = [k.que[q] EXCEPT !.qnum = @ + 1, !.cbytes = @ + full.ts],
           NEW k1, k1 = [k EXCEPT !.que[q] = more, !.hdr[h] = full],
           NEW k2, k2 = WakeReaders(Linked(k1, q, h), q),
           NEW chain2, chain2 = [chain EXCEPT ![q] = Append(chain[q], h)]
    PROVE  Sent(k, chain, text, q, h, full.ts, k2, chain2)
<1>1. Enqueued(k, chain, q, h, full, k2)
  BY EnqueuedIs, Zenon
<1>2. QED
  BY <1>1, SentOne, Zenon

\* The queues have the same messages in k and k2.
Alike(k, k2) ==
    \A q \in Queues : /\ k2.que[q].first = k.que[q].first /\ k2.que[q].last = k.que[q].last
                      /\ k2.que[q].qnum = k.que[q].qnum
                      /\ ~k2.que[q].alloc => ~k.que[q].alloc

\* The books are about pointers, counts and text, and not about flags.
LEMMA BooksKept ==
    ASSUME NEW k, NEW chain, NEW text, Books(k, chain, text),
           NEW k2, k2 \in Kit, k2.hdr = k.hdr, k2.fp = k.fp, Pool(k2.map, text), Alike(k, k2)
    PROVE  Books(k2, chain, text)
<1>1. \A r \in Queues :
         /\ Run(k2.hdr, k2.que[r].first, chain[r])
         /\ k2.que[r].qnum = Len(chain[r])
         /\ k2.que[r].last = IF chain[r] = <<>> THEN NULL ELSE chain[r][Len(chain[r])]
         /\ ~k2.que[r].alloc => chain[r] = <<>>
  <2>1. ASSUME NEW r \in Queues
        PROVE  /\ Run(k.hdr, k.que[r].first, chain[r])
               /\ k.que[r].qnum = Len(chain[r])
               /\ k.que[r].last = IF chain[r] = <<>> THEN NULL ELSE chain[r][Len(chain[r])]
               /\ ~k.que[r].alloc => chain[r] = <<>>
    BY DEF Books
  <2>2. QED
    BY <2>1, Zenon DEF Alike
<1>2. Run(k2.hdr, k2.fp, chain[NULL]) /\ Filled(chain)
  BY DEF Books
<1>3. \A r \in Queues, h \in Headers :
         Has(chain[r], h) => text[h] = [addr |-> k2.hdr[h].addr, size |-> btoq(k2.hdr[h].ts)]
  BY DEF Books
<1>4. \A h \in Headers : Has(chain[NULL], h) => text[h].size = 0
  BY DEF Books
<1>5. QED
  BY <1>1, <1>2, <1>3, <1>4 DEF Books

\* The first free header is taken off the list.
Popped(k, chain, text, k2, chain2) ==
    /\ Books(k2, chain2, text)
    /\ k.fp \in Headers /\ text[k.fp].size = 0 /\ ~Out(chain, k.fp)
    /\ k2.que = k.que /\ k2.hdr = k.hdr /\ k2.map = k.map /\ k2.ev = k.ev
    /\ k2 \in Kit /\ k2.fp = k.hdr[k.fp].next
    /\ \A q \in Queues : chain2[q] = chain[q]
    /\ \A g \in Headers : Out(chain2, g) <=> Out(chain, g) \/ g = k.fp

\* Taking the first header off the free list.
LEMMA FirstFree ==
    ASSUME NEW k, NEW chain, NEW text, Books(k, chain, text), k.fp # NULL,
           NEW k2, k2 = [k EXCEPT !.fp = k.hdr[k.fp].next],
           NEW chain2, chain2 = [chain EXCEPT ![NULL] = Closed(chain[NULL], 1)]
    PROVE  Popped(k, chain, text, k2, chain2)
<1> DEFINE c == chain[NULL]
           h == k.fp
<1>1. /\ k \in Kit /\ Filled(chain) /\ NULL \in Lists /\ Queues \subseteq Lists /\ NULL \notin Queues
      /\ NULL \notin Headers
  BY NullIsNothing DEF Books, Lists
<1>2. Run(k.hdr, h, c)
  BY DEF Books
<1>3. c \in Seq(Headers) /\ Once(c) /\ c # <<>> /\ c[1] = h /\ 1 \in 1 .. Len(c)
  BY <1>2 DEF Run
<1>4. h \in Headers /\ Has(c, h)
  BY <1>3 DEF Has
<1>5. Dropped(chain, NULL, 1, chain2)
  BY <1>1, <1>3, TakenOff
<1>6. /\ Filled(chain2) /\ Out(chain2, h) /\ chain2[NULL] = Closed(c, 1)
      /\ \A m \in Lists : m # NULL => chain2[m] = chain[m]
      /\ \A m \in Lists, g \in Headers : Has(chain2[m], g) => Has(chain[m], g) /\ g # h
      /\ \A g \in Headers : Out(chain2, g) => Out(chain, g) \/ g = h
  BY <1>3, <1>5 DEF Dropped
<1>7. k.hdr[h].next \in Ptr
  BY <1>1, <1>4, KitIs, HeaderIs
<1>8. /\ k2.que = k.que /\ k2.hdr = k.hdr /\ k2.fp = k.hdr[h].next /\ k2.map = k.map /\ k2.ev = k.ev
      /\ k2 = [que |-> k2.que, hdr |-> k2.hdr, fp |-> k2.fp, map |-> k2.map, ev |-> k2.ev]
  BY <1>1 DEF Kit
<1>9. k2 \in Kit
  <2>1. /\ k.que \in [Queues -> Queue] /\ k.hdr \in [Headers -> Header]
        /\ k.map \in Map /\ k.ev \in SUBSET Channels
    BY <1>1, KitIs
  <2>2. QED
    BY <1>7, <1>8, <2>1, Zenon DEF Kit
<1>10. Run(k2.hdr, k2.fp, chain2[NULL])
  <2>1. ASSUME NEW hd, hd = k.hdr, NEW first, first = h, NEW first2, first2 = k.hdr[h].next, NEW e, e = c
        PROVE  Run(hd, first2, Closed(e, 1))
    <3>1. Run(hd, first, e) /\ 1 \in 1 .. Len(e)
      BY <1>2, <1>3, <2>1
    <3>2. \A j \in 1 .. Len(e) : j # 1 =>
             hd[e[j]].next = IF j = 1 - 1 THEN hd[e[1]].next ELSE hd[e[j]].next
      OBVIOUS
    <3>3. first2 = IF 1 = 1 THEN hd[e[1]].next ELSE first
      BY <1>3, <2>1
    <3>4. QED
      BY <3>1, <3>2, <3>3, RunClosed, Zenon
  <2>2. QED
    BY <1>6, <1>8, <2>1
<1>11. \A q \in Queues : chain2[q] = chain[q]
  BY <1>1, <1>6
<1>12. text[h].size = 0
  BY <1>4 DEF Books
<1>13. Books(k2, chain2, text)
  <2>1. \A q \in Queues :
          /\ Run(k2.hdr, k2.que[q].first, chain2[q])
          /\ k2.que[q].qnum = Len(chain2[q])
          /\ k2.que[q].last = IF chain2[q] = <<>> THEN NULL ELSE chain2[q][Len(chain2[q])]
          /\ ~k2.que[q].alloc => chain2[q] = <<>>
    <3>1. ASSUME NEW q \in Queues
          PROVE  /\ Run(k.hdr, k.que[q].first, chain[q])
                 /\ k.que[q].qnum = Len(chain[q])
                 /\ k.que[q].last = IF chain[q] = <<>> THEN NULL ELSE chain[q][Len(chain[q])]
                 /\ ~k.que[q].alloc => chain[q] = <<>>
      BY DEF Books
    <3>2. ASSUME NEW q \in Queues
          PROVE  /\ Run(k2.hdr, k2.que[q].first, chain2[q])
                 /\ k2.que[q].qnum = Len(chain2[q])
                 /\ k2.que[q].last = IF chain2[q] = <<>> THEN NULL ELSE chain2[q][Len(chain2[q])]
                 /\ ~k2.que[q].alloc => chain2[q] = <<>>
      <4>1. k2.que = k.que /\ k2.hdr = k.hdr /\ chain2[q] = chain[q]
        BY <1>8, <1>11
      <4>2. QED
        BY <3>1, <4>1
    <3>3. QED
      BY <3>2
  <2>2. \A q \in Queues, g \in Headers :
          Has(chain2[q], g) => text[g] = [addr |-> k2.hdr[g].addr, size |-> btoq(k2.hdr[g].ts)]
    BY <1>8, <1>11, SMTT(40) DEF Books
  <2>3. \A g \in Headers : Has(chain2[NULL], g) => text[g].size = 0
    BY <1>1, <1>6 DEF Books
  <2>4. Pool(k2.map, text)
    BY <1>8 DEF Books
  <2>5. QED
    BY <1>6, <1>9, <1>10, <2>1, <2>2, <2>3, <2>4 DEF Books
<1>14. \A g \in Headers : Out(chain2, g) <=> Out(chain, g) \/ g = h
  <2>1. \A g \in Headers : Out(chain, g) => Out(chain2, g)
    BY <1>6 DEF Out
  <2>2. QED
    BY <1>6, <2>1
<1>15. ~Out(chain, h)
  BY <1>1, <1>4 DEF Out
<1>16. QED
  BY <1>4, <1>8, <1>9, <1>11, <1>12, <1>13, <1>14, <1>15 DEF Popped

\* Nothing has happened.
LEMMA ToldSame ==
    ASSUME NEW k \in Kit, NEW chain
    PROVE  Told(k, chain, k, chain)
<1>1. \A r \in Queues : k.que[r].cbytes >= k.que[r].cbytes
  BY KitIs, QueueIs
<1>2. \A r \in Queues : ReadersTold(k, chain, k, chain, r) /\ WritersTold(k, k, r)
  BY <1>1 DEF ReadersTold, WritersTold
<1>3. HeadersTold(k, k) /\ TextTold(k, k)
  BY DEF HeadersTold, TextTold
<1>4. QED
  BY <1>2, <1>3 DEF Told

\* getres has taken the first free header and size units of text.
Got(k, chain, text, size, k2, chain2, text2) ==
    /\ Books(k2, chain2, text2) /\ Told(k, chain, k2, chain2)
    /\ k2.que = k.que /\ k2.hdr = k.hdr /\ k2.ev = k.ev
    /\ \A q \in Queues : chain2[q] = chain[q]
    /\ k.fp \in Headers /\ ~Out(chain, k.fp)
    /\ text2[k.fp] = [addr |-> rmalloc_addr(k.map, size), size |-> size]
    /\ \A g \in Headers : g # k.fp => text2[g] = text[g]
    /\ \A g \in Headers : Out(chain2, g) <=> Out(chain, g) \/ g = k.fp

\* A header and text for a message: what the sender then has is nobody else's.
LEMMA GotIs ==
    ASSUME NEW k, NEW chain, NEW text, Books(k, chain, text), k.fp # NULL,
           NEW size \in Nat, size = 0 \/ rmalloc_addr(k.map, size) # 0,
           NEW k2, k2 = [k EXCEPT !.fp = k.hdr[k.fp].next, !.map = rmalloc(k.map, size)],
           NEW chain2, chain2 = [chain EXCEPT ![NULL] = Closed(chain[NULL], 1)],
           NEW text2, text2 = [text EXCEPT ![k.fp] = [addr |-> rmalloc_addr(k.map, size), size |-> size]]
    PROVE  Got(k, chain, text, size, k2, chain2, text2)
<1> DEFINE k1 == [k EXCEPT !.fp = k.hdr[k.fp].next]
           h == k.fp
           addr == rmalloc_addr(k.map, size)
<1>1. k \in Kit /\ Pool(k.map, text) /\ text \in [Headers -> Span] /\ Queues \subseteq Lists /\ NULL \in Lists
  BY DEF Books, Pool, Lists
<1>2. /\ Books(k1, chain2, text)
      /\ k.fp \in Headers /\ text[k.fp].size = 0 /\ ~Out(chain, k.fp)
      /\ k1.que = k.que /\ k1.hdr = k.hdr /\ k1.map = k.map /\ k1.ev = k.ev
      /\ k1 \in Kit /\ k1.fp = k.hdr[k.fp].next
      /\ \A q \in Queues : chain2[q] = chain[q]
      /\ \A g \in Headers : Out(chain2, g) <=> Out(chain, g) \/ g = k.fp
  <2>1. ASSUME NEW x, x = [k EXCEPT !.fp = k.hdr[k.fp].next],
               NEW y, y = [chain EXCEPT ![NULL] = Closed(chain[NULL], 1)]
        PROVE  Popped(k, chain, text, x, y)
    BY <2>1, FirstFree
  <2>2. Popped(k, chain, text, k1, chain2)
    BY <2>1
  <2>3. QED
    BY <2>2 DEF Popped
<1>3. /\ k2.que = k.que /\ k2.hdr = k.hdr /\ k2.fp = k1.fp /\ k2.map = rmalloc(k.map, size) /\ k2.ev = k.ev
      /\ k2 = [que |-> k2.que, hdr |-> k2.hdr, fp |-> k2.fp, map |-> k2.map, ev |-> k2.ev]
  BY <1>1, <1>2 DEF Kit
<1> HIDE DEF k1
<1>4. addr \in Nat /\ (addr = 0 <=> size = 0 \/ Fits(k.map, size) = {})
  BY <1>1, AddrZero
<1>5. /\ text2[h] = [addr |-> addr, size |-> size] /\ \A g \in Headers : g # h => text2[g] = text[g]
      /\ text2 \in [Headers -> Span] /\ text2[h].size = size
  <2>1. [addr |-> addr, size |-> size] \in Span
    BY <1>4 DEF Span
  <2>2. QED
    BY <1>1, <1>2, <2>1
<1>6. /\ Pool(k2.map, text2) /\ k2.map.want = k.map.want
      /\ \A s \in Nat : Fits(k.map, s) = {} => Fits(k2.map, s) = {}
  <2>1. CASE size = 0
    <3>1. k2.map = k.map
      BY <1>3, <2>1 DEF rmalloc
    <3>2. \A g \in Headers : text2[g] = text[g] \/ (text[g].size = 0 /\ text2[g].size = 0)
      BY <1>2, <1>5, <2>1
    <3>3. Pool(k.map, text2)
      BY <1>1, <1>5, <3>2, PoolSame, ZenonT(60)
    <3>4. QED
      BY <3>1, <3>3
  <2>2. CASE size # 0
    <3>1. size > 0 /\ Fits(k.map, size) # {}
      BY <1>4, <2>2
    <3>2. /\ Pool(rmalloc(k.map, size), [text EXCEPT ![h] = [addr |-> addr, size |-> size]])
          /\ rmalloc(k.map, size).want = k.map.want
          /\ \A s \in Nat : Fits(k.map, s) = {} => Fits(rmalloc(k.map, size), s) = {}
      BY <1>1, <1>2, <3>1, PoolTakes
    <3>3. QED
      BY <1>3, <3>2
  <2>3. QED
    BY <2>1, <2>2
<1>7. k2 \in Kit
  <2>1. /\ k1.que \in [Queues -> Queue] /\ k1.hdr \in [Headers -> Header]
        /\ k1.fp \in Ptr /\ k1.ev \in SUBSET Channels /\ k2.map \in Map
    BY <1>2, <1>6, KitIs DEF Pool
  <2>2. QED
    BY <1>2, <1>3, <2>1, Zenon DEF Kit
<1>8. Out(chain2, h)
  BY <1>2
<1>9. Books(k2, chain2, text2)
  <2>1. /\ Filled(chain2) /\ Run(k2.hdr, k2.fp, chain2[NULL])
        /\ \A q \in Queues :
             /\ Run(k2.hdr, k2.que[q].first, chain2[q])
             /\ k2.que[q].qnum = Len(chain2[q])
             /\ k2.que[q].last = IF chain2[q] = <<>> THEN NULL ELSE chain2[q][Len(chain2[q])]
             /\ ~k2.que[q].alloc => chain2[q] = <<>>
    BY <1>2, <1>3 DEF Books
  <2>2. \A q \in Queues, g \in Headers :
          Has(chain2[q], g) => text2[g] = [addr |-> k2.hdr[g].addr, size |-> btoq(k2.hdr[g].ts)]
    <3>1. ASSUME NEW q \in Queues, NEW g \in Headers, Has(chain2[q], g)
          PROVE  text2[g] = [addr |-> k2.hdr[g].addr, size |-> btoq(k2.hdr[g].ts)]
      <4>1. g # h
        BY <1>1, <1>8, <3>1 DEF Out
      <4>2. text[g] = [addr |-> k1.hdr[g].addr, size |-> btoq(k1.hdr[g].ts)]
        BY <1>2, <3>1 DEF Books
      <4>3. QED
        BY <1>2, <1>3, <1>5, <4>1, <4>2
    <3>2. QED
      BY <3>1
  <2>3. \A g \in Headers : Has(chain2[NULL], g) => text2[g].size = 0
    <3>1. ASSUME NEW g \in Headers, Has(chain2[NULL], g) PROVE text2[g].size = 0
      <4>1. g # h
        BY <1>1, <1>8, <3>1 DEF Out
      <4>2. text[g].size = 0
        BY <1>2, <3>1 DEF Books
      <4>3. QED
        BY <1>5, <4>1, <4>2
    <3>2. QED
      BY <3>1
  <2>4. QED
    BY <1>6, <1>7, <2>1, <2>2, <2>3 DEF Books
<1>10. Told(k, chain, k2, chain2)
  <2>1. Told(k, chain, k, chain)
    BY <1>1, ToldSame
  <2>2. \A r \in Queues : ReadersTold(k, chain, k2, chain2, r) /\ WritersTold(k, k2, r)
    BY <1>2, <1>3, <2>1 DEF Told, ReadersTold, WritersTold
  <2>3. HeadersTold(k, k2) /\ TextTold(k, k2)
    BY <1>6 DEF HeadersTold, TextTold
  <2>4. QED
    BY <1>3, <2>2, <2>3 DEF Told
<1>11. QED
  BY <1>2, <1>3, <1>5, <1>9, <1>10 DEF Got

\* getres puts the header back.
Back(k, chain, text, k2, chain2) ==
    /\ Books(k2, chain2, text) /\ Told(k, chain, k2, chain2)
    /\ k2.que = k.que /\ k2.map = k.map
    /\ \A q \in Queues : chain2[q] = chain[q]
    /\ \A r \in Queues, g \in Headers : Has(chain[r], g) => SameText(k, k2, g)
    /\ \A g \in Headers : Out(chain2, g) <=> Out(chain, g)

\* A header taken and given back at once, because there was no text for it.
LEMMA BackIs ==
    ASSUME NEW k, NEW chain, NEW text, Books(k, chain, text), k.fp # NULL,
           NEW k1, k1 = [k EXCEPT !.fp = k.hdr[k.fp].next],
           NEW k2, k2 = FreeHeader(k1, k.fp)
    PROVE  \E chain2 : Back(k, chain, text, k2, chain2)
<1> DEFINE chain1 == [chain EXCEPT ![NULL] = Closed(chain[NULL], 1)]
           h == k.fp
           chain2 == [chain1 EXCEPT ![NULL] = <<h>> \o chain1[NULL]]
<1>0. k \in Kit /\ Queues \subseteq Lists /\ NULL \in Lists /\ NULL \notin Queues
  BY NullIsNothing DEF Books, Lists
<1>1. /\ Books(k1, chain1, text)
      /\ k.fp \in Headers /\ text[k.fp].size = 0 /\ ~Out(chain, k.fp)
      /\ k1.que = k.que /\ k1.hdr = k.hdr /\ k1.map = k.map /\ k1.ev = k.ev
      /\ k1 \in Kit /\ k1.fp = k.hdr[k.fp].next
      /\ \A q \in Queues : chain1[q] = chain[q]
      /\ \A g \in Headers : Out(chain1, g) <=> Out(chain, g) \/ g = k.fp
  <2>1. ASSUME NEW x, x = [k EXCEPT !.fp = k.hdr[k.fp].next],
               NEW y, y = [chain EXCEPT ![NULL] = Closed(chain[NULL], 1)]
        PROVE  Popped(k, chain, text, x, y)
    BY <2>1, FirstFree
  <2>2. Popped(k, chain, text, k1, chain1)
    BY <2>1
  <2>3. QED
    BY <2>2 DEF Popped
<1> HIDE DEF chain1
<1>2. Out(chain1, h)
  BY <1>1
<1>3. /\ Books(k2, chain2, text) /\ Told(k1, chain1, k2, chain2)
      /\ k2.que = k1.que /\ k2.map = k1.map
      /\ \A g \in Headers : g # h => k2.hdr[g] = k1.hdr[g]
  <2>1. ASSUME NEW x, x = h, NEW y, y = chain2
        PROVE  PutBack(k1, chain1, text, x, k2, y)
    <3>1. x \in Headers /\ Out(chain1, x) /\ text[x].size = 0 /\ k2 = FreeHeader(k1, x)
      BY <1>1, <1>2, <2>1
    <3>2. y = [chain1 EXCEPT ![NULL] = <<x>> \o chain1[NULL]]
      BY <2>1
    <3>3. QED
      BY <1>1, <3>1, <3>2, FreeHeaderIs
  <2>2. QED
    BY <2>1 DEF PutBack
<1>4. /\ \A q \in Queues : chain2[q] = chain[q]
      /\ chain2[NULL] = <<h>> \o chain1[NULL]
      /\ \A m \in Lists : m # NULL => chain2[m] = chain1[m]
      /\ chain1[NULL] \in Seq(Headers) /\ Once(chain1[NULL]) /\ ~Has(chain1[NULL], h)
  BY <1>0, <1>1, <1>2 DEF Books, Filled, Out
<1>5. \A g : Has(chain2[NULL], g) <=> Has(chain1[NULL], g) \/ g = h
  <2>1. \A g : Has(<<h>> \o chain1[NULL], g) <=> Has(chain1[NULL], g) \/ g = h
    <3>1. ASSUME NEW x \in Headers, x = h
          PROVE  \A g : Has(<<x>> \o chain1[NULL], g) <=> Has(chain1[NULL], g) \/ g = x
      <4>1. chain1[NULL] \in Seq(Headers) /\ Once(chain1[NULL]) /\ ~Has(chain1[NULL], x)
        BY <1>4, <3>1
      <4>2. QED
        BY <4>1, FrontHas, Zenon
    <3>2. QED
      BY <1>1, <3>1
  <2>2. QED
    BY <1>4, <2>1
<1> HIDE DEF chain2
<1>6. ASSUME NEW g \in Headers PROVE Out(chain2, g) <=> Out(chain, g)
  <2>1. CASE g = h
    BY <1>0, <1>1, <1>5, <2>1 DEF Out
  <2>2. CASE g # h
    <3>1. Out(chain2, g) <=> Out(chain1, g)
      BY <1>0, <1>4, <1>5, <2>2 DEF Out
    <3>2. QED
      BY <1>1, <2>2, <3>1
  <2>3. QED
    BY <2>1, <2>2
<1>7. \A r \in Queues, g \in Headers : Has(chain[r], g) => SameText(k, k2, g)
  <2>1. \A r \in Queues : ~Has(chain[r], h)
    BY <1>0, <1>1, <1>2 DEF Out
  <2>2. QED
    BY <1>1, <1>3, <2>1 DEF SameText
<1>8. Told(k, chain, k2, chain2)
  <2>1. ASSUME NEW r \in Queues PROVE ReadersTold(k, chain, k2, chain2, r) /\ WritersTold(k, k2, r)
    <3>1. k.que[r].cbytes >= k.que[r].cbytes
      BY <1>0, KitIs, QueueIs
    <3>2. \A g \in Headers : Has(chain2[r], g) => Has(chain[r], g) /\ k2.hdr[g].type = k.hdr[g].type
      BY <1>4, <1>7, SMTT(40) DEF SameText
    <3>3. QED
      BY <1>1, <1>3, <3>1, <3>2, Zenon DEF ReadersTold, WritersTold
  <2>2. HeadersTold(k, k2) /\ TextTold(k, k2) /\ k.ev \subseteq k2.ev
    BY <1>1, <1>3 DEF HeadersTold, TextTold, Told
  <2>3. QED
    BY <2>1, <2>2, SMTT(40) DEF Told
<1>9. Back(k, chain, text, k2, chain2)
  BY <1>1, <1>3, <1>4, <1>6, <1>7, <1>8 DEF Back
<1>10. QED
  BY <1>9

\* What taking any number of messages off queue q does.
Reduced(k, chain, text, q, k2, chain2, text2) ==
    /\ Told(k, chain, k2, chain2)
    /\ \A r \in Queues : r # q => k2.que[r] = k.que[r] /\ chain2[r] = chain[r]
    /\ k2.que[q].alloc = k.que[q].alloc /\ k2.que[q].seq = k.que[q].seq
    /\ k2.que[q].rwait = k.que[q].rwait
    /\ \A r \in Queues, g \in Headers : Has(chain2[r], g) => Has(chain[r], g) /\ SameText(k, k2, g)
    /\ \A g \in Headers : Out(chain2, g) <=> Out(chain, g)
    /\ \A g \in Headers : Out(chain, g) => text2[g] = text[g]

\* k, as AllFreed() defines it.
Frees(q) ==
    LET k[i \in 0 .. Cardinality(Headers)] ==
          IF i = 0 THEN Tables
          ELSE IF k[i - 1].que[q].first = NULL THEN k[i - 1]
          ELSE msgfree(k[i - 1], q, NULL, k[i - 1].que[q].first)
    IN  k

\* One round of the loop.
Round(k, q) == IF k.que[q].first = NULL THEN k ELSE msgfree(k, q, NULL, k.que[q].first)

\* The recursive function k is as its defining equation says.
LEMMA FreesIs ==
    ASSUME NEW q
    PROVE  /\ Cardinality(Headers) \in Nat
           /\ Frees(q)[0] = Tables
           /\ \A i \in 1 .. Cardinality(Headers) : Frees(q)[i] = Round(Frees(q)[i - 1], q)
<1> DEFINE body(f, i) == IF i = 0 THEN Tables ELSE Round(f[i - 1], q)
           N == Cardinality(Headers)
           S == {n \in Nat : \E f : f = [i \in 0 .. n |-> body(f, i)]}
<1>0. N \in Nat
  BY HeadersFinite, FS_CardinalityType
<1>1. 0 \in S
  <2> DEFINE f == [i \in 0 .. 0 |-> Tables]
  <2>1. f = [i \in 0 .. 0 |-> body(f, i)]
    OBVIOUS
  <2>2. QED
    BY <2>1
<1>2. ASSUME NEW n \in 1 .. N, n - 1 \in S PROVE n \in S
  <2>1. PICK f : f = [i \in 0 .. n - 1 |-> body(f, i)]
    BY <1>2
  <2> DEFINE h == [i \in 0 .. n |-> IF i = n THEN Round(f[n - 1], q) ELSE f[i]]
  <2>2. ASSUME NEW i \in 0 .. n PROVE h[i] = body(h, i)
    <3>1. CASE i = n
      <4>1. h[n - 1] = f[n - 1] /\ n # 0
        BY <1>0
      <4>2. h[n] = Round(f[n - 1], q)
        BY <1>0
      <4> HIDE DEF h
      <4>3. QED
        BY <4>1, <4>2, <3>1
    <3>2. CASE i # n
      <4>1. i \in 0 .. n - 1
        BY <3>2, <1>0
      <4>2. f[i] = body(f, i)
        BY <2>1, <4>1
      <4>3. h[i] = f[i] /\ (i # 0 => h[i - 1] = f[i - 1])
        BY <4>1, <1>0
      <4> HIDE DEF h
      <4>4. QED
        BY <4>2, <4>3
    <3>3. QED
      BY <3>1, <3>2
  <2>3. h = [i \in 0 .. n |-> body(h, i)]
    <3>1. h = [i \in 0 .. n |-> h[i]]
      OBVIOUS
    <3> HIDE DEF h, body
    <3>2. QED
      BY <3>1, <2>2
  <2> HIDE DEF h
  <2>4. QED
    BY <2>3, <1>0
<1>3. N \in S
  <2>1. \A n \in 1 .. N : n - 1 \in S => n \in S
    BY <1>2
  <2> HIDE DEF S, N
  <2>2. \A n \in 0 .. N : n \in S
    BY <1>0, <1>1, <2>1, Induction
  <2>3. QED
    BY <2>2, <1>0
<1>4. \E f : f = [i \in 0 .. N |-> body(f, i)]
  BY <1>3
<1>5. Frees(q) = CHOOSE f : f = [i \in 0 .. N |-> body(f, i)]
  BY Zenon DEF Frees, Round
<1>6. Frees(q) = [i \in 0 .. N |-> body(Frees(q), i)]
  <2> HIDE DEF body
  <2>1. QED
    BY <1>4, <1>5
<1>7. \A i \in 0 .. N : Frees(q)[i] = body(Frees(q), i)
  <2> HIDE DEF body
  <2>1. QED
    BY <1>6, Zenon
<1> HIDE DEF N
<1>8. 0 \in 0 .. N /\ \A i \in 1 .. N : i \in 0 .. N /\ i # 0
  BY <1>0
<1>9. QED
  BY <1>0, <1>7, <1>8 DEF N

\* A round takes the first message off.
LEMMA RoundIs ==
    ASSUME NEW k, NEW chain, NEW text, Books(k, chain, text), NEW q \in Queues,
           NEW k2, k2 = Round(k, q)
    PROVE  \E chain2, text2 :
              /\ Books(k2, chain2, text2) /\ Reduced(k, chain, text, q, k2, chain2, text2)
              /\ Len(chain2[q]) = IF Len(chain[q]) = 0 THEN 0 ELSE Len(chain[q]) - 1
<1> DEFINE c == chain[q]
<1>1. k \in Kit /\ Filled(chain) /\ q \in Lists /\ Queues \subseteq Lists /\ c \in Seq(Headers) /\ Once(c)
  BY DEF Books, Lists, Filled
<1>2. Run(k.hdr, k.que[q].first, c)
  BY DEF Books
<1>3. CASE c = <<>>
  <2>1. k2 = k
    BY <1>2, <1>3 DEF Run, Round
  <2>2. Reduced(k, chain, text, q, k, chain, text)
    <3>1. Told(k, chain, k, chain)
      BY <1>1, ToldSame
    <3>2. QED
      BY <3>1 DEF Reduced, SameText
  <2>3. Len(chain[q]) = IF Len(chain[q]) = 0 THEN 0 ELSE Len(chain[q]) - 1
    BY <1>3
  <2>4. QED
    BY <2>1, <2>2, <2>3
<1>4. CASE c # <<>>
  <2>1. 1 \in 1 .. Len(c) /\ c[1] \in Headers /\ k.que[q].first = c[1] /\ c[1] # NULL
    BY <1>1, <1>2, <1>4, NullIsNothing DEF Run
  <2>2. k2 = msgfree(k, q, NULL, c[1])
    BY <2>1 DEF Round
  <2>3. PICK chain2, text2 : Books(k2, chain2, text2) /\ Freed(k, chain, text, q, 1, k2, chain2, text2)
    <3>1. \A i \in 1 .. Len(c) : \A pmp : (pmp = IF i = 1 THEN NULL ELSE c[i - 1]) /\ k2 = msgfree(k, q, pmp, c[i])
             => \E chain2, text2 : Books(k2, chain2, text2) /\ Freed(k, chain, text, q, i, k2, chain2, text2)
      BY msgfreeIs
    <3>2. QED
      BY <2>1, <2>2, <3>1
  <2>4. chain2[q] = Closed(c, 1) /\ Len(chain2[q]) = Len(c) - 1
    <3>1. chain2[q] = Closed(c, 1)
      BY <2>3 DEF Freed
    <3>2. Len(Closed(c, 1)) = Len(c) - 1
      BY <1>1, <2>1, ClosedIs
    <3>3. QED
      BY <3>1, <3>2
  <2>5. \A g : Has(chain2[q], g) => Has(c, g)
    <3>1. \A g : Has(Closed(c, 1), g) <=> Has(c, g) /\ g # c[1]
      BY <1>1, <2>1, ClosedHas, ZenonT(60)
    <3>2. QED
      BY <2>4, <3>1
  <2>6. Reduced(k, chain, text, q, k2, chain2, text2)
    <3>1. \A r \in Queues, g \in Headers : Has(chain2[r], g) => Has(chain[r], g) /\ SameText(k, k2, g)
      BY <2>3, <2>5 DEF Freed
    <3>2. QED
      BY <2>3, <3>1 DEF Freed, Reduced, Shrunk
  <2>7. Len(c) # 0
    BY <1>1, <1>4
  <2>8. QED
    BY <2>3, <2>4, <2>6, <2>7
<1>5. QED
  BY <1>3, <1>4

\* Two messages freed, one after the other, are messages freed.
LEMMA ReducedTwice ==
    ASSUME NEW k \in Kit, NEW k1 \in Kit, NEW k2 \in Kit, NEW chain, NEW chain1, NEW chain2,
           NEW text, NEW text1, NEW text2, NEW q \in Queues,
           Reduced(k, chain, text, q, k1, chain1, text1), Reduced(k1, chain1, text1, q, k2, chain2, text2)
    PROVE  Reduced(k, chain, text, q, k2, chain2, text2)
<1>1. Told(k, chain, k2, chain2)
  <2>1. Told(k, chain, k1, chain1) /\ Told(k1, chain1, k2, chain2)
    BY DEF Reduced
  <2>2. QED
    BY <2>1, ToldTwice
<1>2. \A r \in Queues, g \in Headers : Has(chain2[r], g) => Has(chain[r], g) /\ SameText(k, k2, g)
  BY DEF Reduced, SameText
<1>3. /\ \A r \in Queues : r # q => k2.que[r] = k.que[r] /\ chain2[r] = chain[r]
      /\ k2.que[q].alloc = k.que[q].alloc /\ k2.que[q].seq = k.que[q].seq
      /\ k2.que[q].rwait = k.que[q].rwait
  BY DEF Reduced
<1>4. /\ \A g \in Headers : Out(chain2, g) <=> Out(chain, g)
      /\ \A g \in Headers : Out(chain, g) => text2[g] = text[g]
  BY DEF Reduced
<1>5. QED
  BY <1>1, <1>2, <1>3, <1>4 DEF Reduced

\* AllFreed().
LEMMA AllFreedIs ==
    ASSUME NEW q \in Queues, NEW chain, NEW text, Books(Tables, chain, text)
    PROVE  \E chain2, text2 :
              /\ Books(AllFreed(q), chain2, text2)
              /\ Reduced(Tables, chain, text, q, AllFreed(q), chain2, text2)
              /\ chain2[q] = <<>>
<1> DEFINE N == Cardinality(Headers)
           Good(n) == \E chain2, text2 :
                         /\ Books(Frees(q)[n], chain2, text2)
                         /\ Reduced(Tables, chain, text, q, Frees(q)[n], chain2, text2)
                         /\ Len(chain2[q]) + n <= N \/ Len(chain2[q]) = 0
           S == {n \in 0 .. N : Good(n)}
<1>1. /\ N \in Nat /\ Frees(q)[0] = Tables
      /\ \A i \in 1 .. N : Frees(q)[i] = Round(Frees(q)[i - 1], q)
  BY FreesIs
<1>2. Tables \in Kit /\ q \in Lists /\ chain[q] \in Seq(Headers) /\ Once(chain[q])
  BY DEF Books, Filled, Lists
<1>3. 0 \in S
  <2>1. Len(chain[q]) + 0 <= N
    BY <1>1, <1>2, ChainBounded
  <2>2. Reduced(Tables, chain, text, q, Tables, chain, text)
    <3>1. Told(Tables, chain, Tables, chain)
      BY <1>2, ToldSame
    <3>2. QED
      BY <3>1 DEF Reduced, SameText
  <2>3. Good(0)
    BY <1>1, <2>1, <2>2
  <2> HIDE DEF Good
  <2>4. QED
    BY <1>1, <2>3
<1>4. ASSUME NEW n \in 1 .. N, n - 1 \in S PROVE n \in S
  <2>1. n - 1 \in Nat /\ n \in 0 .. N /\ Good(n - 1)
    BY <1>1, <1>4
  <2>2. PICK chain1, text1 :
           /\ Books(Frees(q)[n - 1], chain1, text1)
           /\ Reduced(Tables, chain, text, q, Frees(q)[n - 1], chain1, text1)
           /\ Len(chain1[q]) + (n - 1) <= N \/ Len(chain1[q]) = 0
    BY <2>1
  <2>3. PICK chain2, text2 :
           /\ Books(Frees(q)[n], chain2, text2)
           /\ Reduced(Frees(q)[n - 1], chain1, text1, q, Frees(q)[n], chain2, text2)
           /\ Len(chain2[q]) = IF Len(chain1[q]) = 0 THEN 0 ELSE Len(chain1[q]) - 1
    <3>1. Frees(q)[n] = Round(Frees(q)[n - 1], q)
      BY <1>1
    <3> HIDE DEF Good, S
    <3>2. QED
      BY <2>2, <3>1, RoundIs
  <2>4. Reduced(Tables, chain, text, q, Frees(q)[n], chain2, text2)
    <3>1. Frees(q)[n - 1] \in Kit /\ Frees(q)[n] \in Kit
      BY <2>2, <2>3 DEF Books
    <3> HIDE DEF Good, S
    <3>2. QED
      BY <1>2, <2>2, <2>3, <3>1, ReducedTwice
  <2>5. Len(chain2[q]) + n <= N \/ Len(chain2[q]) = 0
    <3>1. Len(chain1[q]) \in Nat
      BY <1>2, <2>2 DEF Books, Filled
    <3>2. QED
      BY <1>1, <2>1, <2>2, <2>3, <3>1
  <2>6. Good(n)
    BY <2>3, <2>4, <2>5
  <2> HIDE DEF Good
  <2>7. QED
    BY <2>1, <2>6
<1>5. N \in S
  <2>1. \A n \in 1 .. N : n - 1 \in S => n \in S
    BY <1>4
  <2> HIDE DEF S, N
  <2>2. \A n \in 0 .. N : n \in S
    BY <1>1, <1>3, <2>1, Induction
  <2>3. QED
    BY <2>2, <1>1
<1>6. PICK chain2, text2 :
         /\ Books(Frees(q)[N], chain2, text2)
         /\ Reduced(Tables, chain, text, q, Frees(q)[N], chain2, text2)
         /\ Len(chain2[q]) + N <= N \/ Len(chain2[q]) = 0
  BY <1>5
<1>7. AllFreed(q) = Frees(q)[N]
  BY DEF AllFreed, Frees
<1>8. chain2[q] = <<>>
  <2>1. chain2[q] \in Seq(Headers)
    BY <1>2, <1>6 DEF Books, Filled
  <2>2. QED
    BY <1>1, <1>6, <2>1
<1> HIDE DEF N, Good, S
<1>9. QED
  BY <1>6, <1>7, <1>8

\* The tables go from k to k2 in a call about queue q.
Moves(k, chain, text, q, k2, chain2, text2) ==
    /\ Books(k2, chain2, text2) /\ Told(k, chain, k2, chain2)
    /\ \A r \in Queues : r # q => k2.que[r] = k.que[r] /\ chain2[r] = chain[r]
    /\ \A r \in Queues, g \in Headers : r # q /\ Has(chain[r], g) => SameText(k, k2, g)
    /\ k2.que[q].cbytes = Total(k2.hdr, chain2[q])

\* What senders have is what they had.
Steady(chain, text, chain2, text2) ==
    \A g \in Headers : /\ Out(chain2, g) <=> Out(chain, g)
                       /\ Out(chain, g) => text2[g] = text[g]

\* Nothing has moved.
LEMMA StaysIs ==
    ASSUME NEW k, NEW chain, NEW text, Books(k, chain, text), Bytes(k, chain), NEW q \in Queues
    PROVE  Moves(k, chain, text, q, k, chain, text) /\ Steady(chain, text, chain, text)
<1>1. Told(k, chain, k, chain)
  BY ToldSame DEF Books
<1>2. QED
  BY <1>1 DEF Moves, Steady, SameText, Bytes

\* Sleepers leave word, or are told.
LEMMA FlagIs ==
    ASSUME NEW k, NEW chain, NEW text, Books(k, chain, text), Bytes(k, chain), NEW q \in Queues,
           NEW m \in Queue, m.first = k.que[q].first, m.last = k.que[q].last, m.qnum = k.que[q].qnum,
           m.alloc = k.que[q].alloc, m.seq = k.que[q].seq, m.cbytes = k.que[q].cbytes,
           m.qbytes = k.que[q].qbytes, k.que[q].rwait => m.rwait,
           NEW ev \in SUBSET Channels, k.ev \subseteq ev, k.que[q].wwait => m.wwait \/ <<"que", q>> \in ev,
           NEW k2, k2 = [k EXCEPT !.que[q] = m, !.ev = ev]
    PROVE  Moves(k, chain, text, q, k2, chain, text)
<1>1. k \in Kit
  BY DEF Books
<1>2. /\ k.que \in [Queues -> Queue] /\ k.hdr \in [Headers -> Header] /\ k.fp \in Ptr /\ k.map \in Map
      /\ \A r \in Queues : k.que[r].cbytes >= k.que[r].cbytes
  BY <1>1, KitIs, QueueIs
<1>3. /\ k2.que = [k.que EXCEPT ![q] = m] /\ k2.hdr = k.hdr /\ k2.fp = k.fp /\ k2.map = k.map /\ k2.ev = ev
      /\ k2 = [que |-> k2.que, hdr |-> k2.hdr, fp |-> k2.fp, map |-> k2.map, ev |-> k2.ev]
  BY <1>1 DEF Kit
<1>4. /\ k2.que \in [Queues -> Queue] /\ k2.que[q] = m
      /\ \A r \in Queues : r # q => k2.que[r] = k.que[r]
  BY <1>2, <1>3
<1>5. k2 \in Kit
  BY <1>2, <1>3, <1>4, Zenon DEF Kit
<1>6. Books(k2, chain, text)
  <2>1. Alike(k, k2)
    BY <1>4 DEF Alike
  <2>2. Pool(k2.map, text)
    BY <1>3 DEF Books
  <2>3. QED
    BY <1>3, <1>5, <2>1, <2>2, BooksKept
<1>7. Told(k, chain, k2, chain)
  <2>1. ASSUME NEW r \in Queues PROVE ReadersTold(k, chain, k2, chain, r)
    <3>1. k2.que[r].alloc = k.que[r].alloc /\ k2.que[r].seq = k.que[r].seq /\ (k.que[r].rwait => k2.que[r].rwait)
      BY <1>4
    <3>2. QED
      BY <1>3, <3>1 DEF ReadersTold
  <2>2. ASSUME NEW r \in Queues PROVE WritersTold(k, k2, r)
    <3>1. CASE r = q
      BY <1>2, <1>3, <1>4, <3>1 DEF WritersTold
    <3>2. CASE r # q
      BY <1>2, <1>4, <3>2 DEF WritersTold
    <3>3. QED
      BY <3>1, <3>2
  <2>3. HeadersTold(k, k2) /\ TextTold(k, k2)
    BY <1>3 DEF HeadersTold, TextTold
  <2>4. QED
    BY <1>3, <2>1, <2>2, <2>3 DEF Told
<1>8. k2.que[q].cbytes = Total(k2.hdr, chain[q])
  BY <1>3, <1>4 DEF Bytes
<1>9. QED
  BY <1>3, <1>4, <1>6, <1>7, <1>8 DEF Moves, SameText

\* A sender waits for text: the header is back, and the map has word.
LEMMA WantIs ==
    ASSUME NEW k, NEW chain, NEW text, Books(k, chain, text), Bytes(k, chain), NEW q \in Queues,
           NEW b, NEW chain2, Back(k, chain, text, b, chain2), NEW w \in BOOLEAN, k.map.want => w,
           NEW k2, k2 = [b EXCEPT !.map.want = w]
    PROVE  Moves(k, chain, text, q, k2, chain2, text) /\ Steady(chain, text, chain2, text)
<1>1. /\ Books(b, chain2, text) /\ Told(k, chain, b, chain2) /\ b.que = k.que /\ b.map = k.map
      /\ \A r \in Queues : chain2[r] = chain[r]
      /\ \A r \in Queues, g \in Headers : Has(chain[r], g) => SameText(k, b, g)
      /\ \A g \in Headers : Out(chain2, g) <=> Out(chain, g)
  BY DEF Back
<1>2. b \in Kit /\ k \in Kit /\ Pool(b.map, text) /\ q \in Lists /\ Filled(chain)
  BY <1>1 DEF Books, Lists
<1>3. /\ b.que \in [Queues -> Queue] /\ b.hdr \in [Headers -> Header] /\ b.fp \in Ptr /\ b.map \in Map
      /\ b.ev \in SUBSET Channels /\ k.hdr \in [Headers -> Header]
  BY <1>2, KitIs
<1>4. /\ k2.que = b.que /\ k2.hdr = b.hdr /\ k2.fp = b.fp /\ k2.map = [b.map EXCEPT !.want = w] /\ k2.ev = b.ev
      /\ k2 = [que |-> k2.que, hdr |-> k2.hdr, fp |-> k2.fp, map |-> k2.map, ev |-> k2.ev]
  BY <1>2 DEF Kit
<1>5. Pool(k2.map, text) /\ k2.map.want = w /\ \A s : Fits(k2.map, s) = Fits(k.map, s)
  <2>1. Pool(k2.map, text) /\ k2.map.want = w /\ \A s : Fits(k2.map, s) = Fits(b.map, s)
    BY <1>2, <1>4, PoolWant
  <2>2. QED
    BY <1>1, <2>1
<1>6. k2 \in Kit
  <2>1. k2.map \in Map
    BY <1>5 DEF Pool
  <2>2. QED
    BY <1>3, <1>4, <2>1, Zenon DEF Kit
<1>7. Books(k2, chain2, text)
  <2>1. Alike(b, k2)
    BY <1>4 DEF Alike
  <2>2. QED
    BY <1>1, <1>4, <1>5, <1>6, <2>1, BooksKept
<1>8. Told(k, chain, k2, chain2)
  <2>1. \A r \in Queues : ReadersTold(k, chain, k2, chain2, r) /\ WritersTold(k, k2, r)
    <3>1. \A r \in Queues : ReadersTold(k, chain, b, chain2, r) /\ WritersTold(k, b, r)
      BY <1>1 DEF Told
    <3>2. QED
      BY <1>4, <3>1, ZenonT(60) DEF ReadersTold, WritersTold
  <2>2. HeadersTold(k, k2) /\ k.ev \subseteq k2.ev
    BY <1>1, <1>4 DEF HeadersTold, Told
  <2>3. TextTold(k, k2)
    BY <1>5 DEF TextTold
  <2>4. QED
    BY <2>1, <2>2, <2>3 DEF Told
<1>9. k2.que[q].cbytes = Total(k2.hdr, chain2[q])
  <2>1. chain[q] \in Seq(Headers) /\ k.que[q].cbytes = Total(k.hdr, chain[q])
    BY <1>2 DEF Bytes, Filled
  <2>2. \A j \in 1 .. Len(chain[q]) : chain[q][j] \in Headers /\ Has(chain[q], chain[q][j])
    BY <2>1 DEF Has
  <2>3. \A j \in 1 .. Len(chain[q]) : b.hdr[chain[q][j]].ts = k.hdr[chain[q][j]].ts
    BY <1>1, <2>2 DEF SameText
  <2>4. Total(b.hdr, chain[q]) = Total(k.hdr, chain[q])
    BY <1>3, <2>1, <2>3, TotalSame
  <2>5. QED
    BY <1>1, <1>4, <2>1, <2>4
<1>10. \A r \in Queues, g \in Headers : Has(chain[r], g) => SameText(k, k2, g)
  BY <1>1, <1>4 DEF SameText
<1>11. QED
  BY <1>1, <1>4, <1>7, <1>8, <1>9, <1>10 DEF Moves, Steady

\* Getting the resources moves nothing on the queues.
LEMMA GotMoves ==
    ASSUME NEW k, NEW chain, NEW text, Books(k, chain, text), Bytes(k, chain), NEW q \in Queues,
           NEW size, NEW k2, NEW chain2, NEW text2, Got(k, chain, text, size, k2, chain2, text2)
    PROVE  Moves(k, chain, text, q, k2, chain2, text2)
<1>1. /\ Books(k2, chain2, text2) /\ Told(k, chain, k2, chain2)
      /\ k2.que = k.que /\ k2.hdr = k.hdr /\ \A r \in Queues : chain2[r] = chain[r]
  BY DEF Got
<1>2. k2.que[q].cbytes = Total(k2.hdr, chain2[q])
  BY <1>1 DEF Bytes
<1>3. QED
  BY <1>1, <1>2 DEF Moves, SameText

\* Sending moves one message to one queue.
LEMMA SentMoves ==
    ASSUME NEW k, NEW chain, NEW text, Books(k, chain, text), Bytes(k, chain), NEW q \in Queues,
           NEW h \in Headers, NEW cnt \in Nat, NEW k2, NEW chain2, Sent(k, chain, text, q, h, cnt, k2, chain2)
    PROVE  Moves(k, chain, text, q, k2, chain2, text)
<1>1. /\ Books(k2, chain2, text) /\ Told(k, chain, k2, chain2)
      /\ \A r \in Queues : r # q => k2.que[r] = k.que[r] /\ chain2[r] = chain[r]
      /\ k2.que[q].cbytes = k.que[q].cbytes + cnt
      /\ chain2[q] = Append(chain[q], h)
      /\ \A r \in Queues, g \in Headers : Has(chain[r], g) => SameText(k, k2, g)
      /\ k2.hdr[h].ts = cnt
  BY DEF Sent
<1>2. k2 \in Kit /\ k \in Kit /\ q \in Lists /\ Filled(chain)
  BY <1>1 DEF Books, Lists
<1>3. k.hdr \in [Headers -> Header] /\ k2.hdr \in [Headers -> Header] /\ chain[q] \in Seq(Headers)
  BY <1>2, KitIs DEF Filled
<1>4. \A j \in 1 .. Len(chain[q]) : chain[q][j] \in Headers /\ Has(chain[q], chain[q][j])
  BY <1>3 DEF Has
<1>5. \A j \in 1 .. Len(chain[q]) : k2.hdr[chain[q][j]].ts = k.hdr[chain[q][j]].ts
  BY <1>1, <1>4 DEF SameText
<1>6. Total(k2.hdr, Append(chain[q], h)) = Total(k.hdr, chain[q]) + k2.hdr[h].ts
  BY <1>3, <1>5, TotalAppend
<1>7. k2.que[q].cbytes = Total(k2.hdr, chain2[q])
  <2>1. k.que[q].cbytes = Total(k.hdr, chain[q])
    BY DEF Bytes
  <2>2. QED
    BY <1>1, <1>6, <2>1
<1>8. QED
  BY <1>1, <1>7 DEF Moves

\* A sender gives up: text and header go back.
LEMMA FaultIs ==
    ASSUME NEW k, NEW chain, NEW text, Books(k, chain, text), Bytes(k, chain), NEW q \in Queues,
           NEW h \in Headers, Out(chain, h), text[h].size > 0,
           NEW k1, k1 = FreeText(k, text[h].size, text[h].addr),
           NEW k2, k2 = FreeHeader(k1, h)
    PROVE  \E chain2, text2 :
              /\ Moves(k, chain, text, q, k2, chain2, text2)
              /\ \A g \in Headers : Out(chain2, g) <=> Out(chain, g) /\ g # h
              /\ \A g \in Headers : g # h => text2[g] = text[g]
<1> DEFINE text2 == [text EXCEPT ![h] = None]
           chain2 == [chain EXCEPT ![NULL] = <<h>> \o chain[NULL]]
<1>1. /\ k \in Kit /\ text \in [Headers -> Span] /\ q \in Lists /\ Filled(chain) /\ NULL \in Lists
      /\ Queues \subseteq Lists /\ NULL \notin Queues
  BY NullIsNothing DEF Books, Pool, Lists
<1>2. text2[h] = None /\ None.size = 0 /\ \A g \in Headers : g # h => text2[g] = text[g]
  BY <1>1 DEF None
<1>3. /\ Books(k1, chain, text2) /\ Told(k, chain, k1, chain)
      /\ k1.que = k.que /\ k1.hdr = k.hdr /\ k1.fp = k.fp
  BY FreeTextIs
<1> HIDE DEF text2
<1>4. PutBack(k1, chain, text2, h, k2, chain2)
  BY <1>2, <1>3, FreeHeaderIs
<1>5. /\ Books(k2, chain2, text2) /\ Told(k1, chain, k2, chain2)
      /\ k2.que = k1.que /\ k2.map = k1.map
      /\ \A g \in Headers : g # h => k2.hdr[g] = k1.hdr[g]
  BY <1>4 DEF PutBack
<1>6. /\ \A m \in Lists : m # NULL => chain2[m] = chain[m]
      /\ \A r \in Queues : chain2[r] = chain[r]
      /\ chain2[NULL] = <<h>> \o chain[NULL]
      /\ chain[NULL] \in Seq(Headers) /\ Once(chain[NULL]) /\ ~Has(chain[NULL], h)
  BY <1>1 DEF Filled, Out
<1>7. \A g : Has(chain2[NULL], g) <=> Has(chain[NULL], g) \/ g = h
  <2>1. \A g : Has(<<h>> \o chain[NULL], g) <=> Has(chain[NULL], g) \/ g = h
    <3>1. ASSUME NEW e \in Seq(Headers), e = chain[NULL]
          PROVE  \A g : Has(<<h>> \o e, g) <=> Has(e, g) \/ g = h
      <4>1. Once(e) /\ ~Has(e, h) /\ h \in Headers
        BY <1>6, <3>1
      <4>2. QED
        BY <4>1, FrontHas
    <3>2. QED
      BY <1>6, <3>1
  <2>2. QED
    BY <1>6, <2>1
<1> HIDE DEF chain2
<1>8. \A g \in Headers : Out(chain2, g) <=> Out(chain, g) /\ g # h
  BY <1>1, <1>6, <1>7 DEF Out
<1>9. Told(k, chain, k2, chain2)
  <2>1. k1 \in Kit /\ k2 \in Kit
    BY <1>3, <1>5 DEF Books
  <2>2. QED
    BY <1>1, <1>3, <1>5, <2>1, ToldTwice
<1>10. \A r \in Queues, g \in Headers : Has(chain[r], g) => SameText(k, k2, g)
  <2>1. \A r \in Queues : ~Has(chain[r], h)
    BY <1>1 DEF Out
  <2>2. QED
    BY <1>3, <1>5, <2>1 DEF SameText
<1>11. k2.que[q].cbytes = Total(k2.hdr, chain2[q])
  <2>1. k2.hdr \in [Headers -> Header] /\ k.hdr \in [Headers -> Header] /\ chain[q] \in Seq(Headers)
    BY <1>1, <1>5, KitIs DEF Books, Filled
  <2>2. \A j \in 1 .. Len(chain[q]) : chain[q][j] \in Headers /\ Has(chain[q], chain[q][j])
    BY <2>1 DEF Has
  <2>3. \A j \in 1 .. Len(chain[q]) : k2.hdr[chain[q][j]].ts = k.hdr[chain[q][j]].ts
    BY <1>10, <2>2 DEF SameText
  <2>4. Total(k2.hdr, chain[q]) = Total(k.hdr, chain[q])
    BY <2>1, <2>3, TotalSame
  <2>5. QED
    BY <1>3, <1>5, <1>6, <2>4, SMTT(40) DEF Bytes
<1>12. Moves(k, chain, text, q, k2, chain2, text2)
  BY <1>3, <1>5, <1>6, <1>9, <1>10, <1>11 DEF Moves
<1>13. QED
  BY <1>2, <1>8, <1>12

\* The bytes of message i are taken off first.
Lessened(k, chain, text, q, i, k1) ==
    /\ Books(k1, chain, text)
    /\ k1.hdr = k.hdr /\ k1.fp = k.fp /\ k1.map = k.map /\ k1.ev = k.ev
    /\ \A r \in Queues : r # q => k1.que[r] = k.que[r]
    /\ k1.que[q].alloc = k.que[q].alloc /\ k1.que[q].seq = k.que[q].seq
    /\ k1.que[q].cbytes = k.que[q].cbytes - k.hdr[chain[q][i]].ts
    /\ k1.que[q].rwait = k.que[q].rwait /\ k1.que[q].wwait = k.que[q].wwait

\* msg_cbytes taken down before the message goes.
LEMMA LessIs ==
    ASSUME NEW k, NEW chain, NEW text, Books(k, chain, text), NEW q \in Queues,
           NEW i \in 1 .. Len(chain[q]),
           NEW less, less = [k.que[q] EXCEPT !.cbytes = @ - k.hdr[chain[q][i]].ts],
           NEW k1, k1 = [k EXCEPT !.que[q] = less]
    PROVE  Lessened(k, chain, text, q, i, k1)
<1>1. /\ k \in Kit /\ q \in Lists /\ Filled(chain) /\ Queues \subseteq Lists
  BY DEF Books, Lists
<1>2. chain[q] \in Seq(Headers) /\ chain[q][i] \in Headers /\ Once(chain[q])
  BY <1>1 DEF Filled
<1>3. /\ k.que \in [Queues -> Queue] /\ k.hdr \in [Headers -> Header] /\ k.fp \in Ptr /\ k.map \in Map
      /\ k.ev \in SUBSET Channels /\ k.que[q] \in Queue /\ k.hdr[chain[q][i]] \in Header
  BY <1>1, <1>2, KitIs
<1>4. /\ less \in Queue /\ less.first = k.que[q].first /\ less.last = k.que[q].last
      /\ less.qnum = k.que[q].qnum /\ less.alloc = k.que[q].alloc /\ less.seq = k.que[q].seq
      /\ less.cbytes = k.que[q].cbytes - k.hdr[chain[q][i]].ts
      /\ less.rwait = k.que[q].rwait /\ less.wwait = k.que[q].wwait
  <2>1. k.que[q].cbytes - k.hdr[chain[q][i]].ts \in Int
    BY <1>3, QueueIs, HeaderIs
  <2>2. QED
    BY <1>3, <2>1 DEF Queue
<1>5. /\ k1.que = [k.que EXCEPT ![q] = less] /\ k1.hdr = k.hdr /\ k1.fp = k.fp /\ k1.map = k.map
      /\ k1.ev = k.ev
      /\ k1 = [que |-> k1.que, hdr |-> k1.hdr, fp |-> k1.fp, map |-> k1.map, ev |-> k1.ev]
  BY <1>1 DEF Kit
<1>6. /\ k1.que \in [Queues -> Queue] /\ k1.que[q] = less
      /\ \A r \in Queues : r # q => k1.que[r] = k.que[r]
  BY <1>3, <1>4, <1>5
<1>7. k1 \in Kit
  BY <1>3, <1>5, <1>6, Zenon DEF Kit
<1>8. Books(k1, chain, text)
  <2>1. Alike(k, k1)
    BY <1>4, <1>6 DEF Alike
  <2>2. Pool(k1.map, text)
    BY <1>5 DEF Books
  <2>3. QED
    BY <1>5, <1>7, <2>1, <2>2, BooksKept
<1>9. QED
  BY <1>4, <1>5, <1>6, <1>8 DEF Lessened

\* A message is received.
LEMMA ReceivedIs ==
    ASSUME NEW k, NEW chain, NEW text, Books(k, chain, text), Bytes(k, chain), NEW q \in Queues,
           NEW i \in 1 .. Len(chain[q]), NEW pmp, pmp = IF i = 1 THEN NULL ELSE chain[q][i - 1],
           NEW k1, Lessened(k, chain, text, q, i, k1),
           NEW k2, k2 = msgfree(k1, q, pmp, chain[q][i])
    PROVE  \E chain2, text2 :
              Moves(k, chain, text, q, k2, chain2, text2) /\ Steady(chain, text, chain2, text2)
<1>1. /\ k \in Kit /\ q \in Lists /\ Filled(chain) /\ Queues \subseteq Lists
  BY DEF Books, Lists
<1>2. chain[q] \in Seq(Headers) /\ chain[q][i] \in Headers /\ Once(chain[q])
  BY <1>1 DEF Filled
<1>3. k.hdr \in [Headers -> Header]
  BY <1>1, KitIs
<1>4. /\ k1.que[q].alloc = k.que[q].alloc /\ k1.que[q].seq = k.que[q].seq
      /\ k1.que[q].cbytes = k.que[q].cbytes - k.hdr[chain[q][i]].ts
      /\ k1.que[q].rwait = k.que[q].rwait /\ k1.que[q].wwait = k.que[q].wwait
  BY DEF Lessened
<1>5. k1.hdr = k.hdr /\ k1.fp = k.fp /\ k1.map = k.map /\ k1.ev = k.ev
  BY DEF Lessened
<1>6. \A r \in Queues : r # q => k1.que[r] = k.que[r]
  BY DEF Lessened
<1>8. Books(k1, chain, text)
  BY DEF Lessened
<1>9. PICK chain2, text2 : Books(k2, chain2, text2) /\ Freed(k1, chain, text, q, i, k2, chain2, text2)
  BY <1>8, msgfreeIs
<1>10. /\ Told(k1, chain, k2, chain2) /\ Shrunk(k1, k2, q)
       /\ k1.que[q].wwait => <<"que", q>> \in k2.ev
       /\ chain2[q] = Closed(chain[q], i)
       /\ \A r \in Queues : r # q => chain2[r] = chain[r]
       /\ \A r \in Queues, g \in Headers : Has(chain2[r], g) => SameText(k1, k2, g)
       /\ \A g \in Headers : Out(chain2, g) <=> Out(chain, g)
       /\ \A g \in Headers : Out(chain, g) => text2[g] = text[g]
  BY <1>9, SMTT(40) DEF Freed
<1>11. /\ \A r \in Queues : r # q => k2.que[r] = k.que[r]
       /\ k2.que[q].cbytes = k.que[q].cbytes - k.hdr[chain[q][i]].ts
  BY <1>4, <1>6, <1>10, ZenonT(60) DEF Shrunk
<1>12. \A r \in Queues, g \in Headers : Has(chain2[r], g) => SameText(k, k2, g)
  BY <1>5, <1>10 DEF SameText
<1>13. Told(k, chain, k2, chain2)
  <2>1. ASSUME NEW r \in Queues PROVE ReadersTold(k, chain, k2, chain2, r)
    <3>1. ReadersTold(k1, chain, k2, chain2, r)
      BY <1>10 DEF Told
    <3>2. k1.que[r].rwait = k.que[r].rwait /\ k1.que[r].alloc = k.que[r].alloc /\ k1.que[r].seq = k.que[r].seq
      BY <1>4, <1>6
    <3>3. QED
      BY <1>5, <3>1, <3>2, Zenon DEF ReadersTold
  <2>2. ASSUME NEW r \in Queues PROVE WritersTold(k, k2, r)
    <3>1. CASE r = q
      BY <1>4, <1>6, <1>10, <3>1 DEF WritersTold
    <3>2. CASE r # q
      <4>1. k2.que[r] = k.que[r] /\ k.que[r].cbytes >= k.que[r].cbytes
        BY <1>1, <1>11, <3>2, KitIs, QueueIs
      <4>2. QED
        BY <4>1 DEF WritersTold
    <3>3. QED
      BY <3>1, <3>2
  <2>3. HeadersTold(k, k2) /\ TextTold(k, k2) /\ k.ev \subseteq k2.ev
    BY <1>5, <1>10 DEF HeadersTold, TextTold, Told
  <2>4. QED
    BY <2>1, <2>2, <2>3 DEF Told
<1>14. k2.que[q].cbytes = Total(k2.hdr, chain2[q])
  <2>1. k2.hdr \in [Headers -> Header]
    BY <1>9, KitIs DEF Books
  <2>2. \A j \in 1 .. Len(chain[q]) : j # i => k2.hdr[chain[q][j]].ts = k.hdr[chain[q][j]].ts
    <3>1. ASSUME NEW j \in 1 .. Len(chain[q]), j # i PROVE k2.hdr[chain[q][j]].ts = k.hdr[chain[q][j]].ts
      <4>1. chain[q][j] \in Headers /\ Has(chain[q], chain[q][j]) /\ chain[q][j] # chain[q][i]
        BY <1>2, <3>1 DEF Once, Has
      <4>2. Has(Closed(chain[q], i), chain[q][j])
        <5>1. \A g : Has(Closed(chain[q], i), g) <=> Has(chain[q], g) /\ g # chain[q][i]
          BY <1>2, ClosedHas, Zenon
        <5>2. QED
          BY <4>1, <5>1
      <4>3. SameText(k, k2, chain[q][j])
        BY <1>10, <1>12, <4>1, <4>2
      <4>4. QED
        BY <4>3 DEF SameText
    <3>2. QED
      BY <3>1
  <2>3. Total(k2.hdr, Closed(chain[q], i)) = Total(k.hdr, chain[q]) - k.hdr[chain[q][i]].ts
    BY <1>2, <1>3, <2>1, <2>2, TotalClosed
  <2>4. QED
    BY <1>10, <1>11, <2>3, SMTT(40) DEF Bytes
<1>15. Moves(k, chain, text, q, k2, chain2, text2)
  <2>1. \A r \in Queues, g \in Headers : r # q /\ Has(chain[r], g) => SameText(k, k2, g)
    BY <1>10, <1>12
  <2>2. QED
    BY <1>9, <1>10, <1>11, <1>13, <1>14, <2>1 DEF Moves
<1>16. Steady(chain, text, chain2, text2)
  BY <1>10 DEF Steady
<1>17. QED
  BY <1>15, <1>16

\* A removed queue.
LEMMA FreshIs ==
    ASSUME NEW s \in 0 .. MaxSeq, NEW new, new = [NoQueue EXCEPT !.seq = s]
    PROVE  /\ new \in Queue /\ new.first = NULL /\ new.last = NULL /\ new.qnum = 0 /\ new.cbytes = 0
           /\ ~new.alloc
<1>1. new = [alloc |-> FALSE, seq |-> s, first |-> NULL, last |-> NULL, qnum |-> 0,
             cbytes |-> 0, qbytes |-> 0, rwait |-> FALSE, wwait |-> FALSE]
  BY DEF NoQueue
<1>2. NULL \in Ptr /\ 0 \in Int /\ 0 \in Nat /\ FALSE \in BOOLEAN
  BY DEF Ptr
<1>3. new \in Queue
  <2>1. [alloc |-> FALSE, seq |-> s, first |-> NULL, last |-> NULL, qnum |-> 0,
         cbytes |-> 0, qbytes |-> 0, rwait |-> FALSE, wwait |-> FALSE] \in Queue
    BY <1>2, SMT DEF Queue
  <2>2. QED
    BY <1>1, <2>1
<1>4. new.first = NULL /\ new.last = NULL /\ new.qnum = 0 /\ new.cbytes = 0 /\ ~new.alloc
  BY <1>1
<1>5. QED
  BY <1>3, <1>4

\* IPC_RMID.
LEMMA RemovedIs ==
    ASSUME NEW q \in Queues, NEW chain, NEW text, Books(Tables, chain, text), que[q].seq < MaxSeq,
           NEW k2, k2 = Removed(AllFreed(q), q)
    PROVE  \E chain2, text2 :
              Moves(Tables, chain, text, q, k2, chain2, text2) /\ Steady(chain, text, chain2, text2)
<1> DEFINE k == AllFreed(q)
           new == [NoQueue EXCEPT !.seq = que[q].seq + 1]
<1>1. PICK chain2, text2 :
         /\ Books(k, chain2, text2)
         /\ Reduced(Tables, chain, text, q, k, chain2, text2)
         /\ chain2[q] = <<>>
  BY AllFreedIs
<1> HIDE DEF k
<1>2. k \in Kit /\ Tables \in Kit /\ Tables.que = que
  BY <1>1 DEF Books, Tables
<1>3. /\ k.que \in [Queues -> Queue] /\ k.hdr \in [Headers -> Header] /\ k.fp \in Ptr /\ k.map \in Map
      /\ k.ev \in SUBSET Channels /\ que[q] \in Queue
  BY <1>2, KitIs
<1>4. /\ new \in Queue /\ new.first = NULL /\ new.last = NULL /\ new.qnum = 0 /\ new.cbytes = 0
      /\ ~new.alloc
  <2>1. que[q].seq + 1 \in 0 .. MaxSeq /\ 0 \in Nat /\ NULL \in Ptr
    <3>1. que[q].seq \in 0 .. MaxSeq /\ MaxSeq \in Nat
      BY <1>3, QueueIs, SizesNatural
    <3>2. QED
      BY <3>1 DEF Ptr
  <2>2. QED
    BY <2>1, FreshIs
<1>5. /\ k2.que = [k.que EXCEPT ![q] = new] /\ k2.hdr = k.hdr /\ k2.fp = k.fp /\ k2.map = k.map
      /\ k.ev \subseteq k2.ev
      /\ k.que[q].rwait => <<"qnum", q>> \in k2.ev
      /\ k.que[q].wwait => <<"que", q>> \in k2.ev
      /\ k2 = [que |-> k2.que, hdr |-> k2.hdr, fp |-> k2.fp, map |-> k2.map, ev |-> k2.ev]
      /\ k2.ev \subseteq k.ev \cup {<<"qnum", q>>, <<"que", q>>}
  <2>1. k2 = Removed(k, q)
    BY DEF k
  <2>2. /\ k2.que = [k.que EXCEPT ![q] = new] /\ k2.hdr = k.hdr /\ k2.fp = k.fp /\ k2.map = k.map
        /\ k2.ev = k.ev \cup (IF k.que[q].rwait THEN {<<"qnum", q>>} ELSE {})
                        \cup (IF k.que[q].wwait THEN {<<"que", q>>} ELSE {})
        /\ k2 = [que |-> k2.que, hdr |-> k2.hdr, fp |-> k2.fp, map |-> k2.map, ev |-> k2.ev]
    <3> HIDE DEF new
    <3>1. k2 = [k EXCEPT !.que[q] = new,
                !.ev = @ \cup (IF k.que[q].rwait THEN {<<"qnum", q>>} ELSE {})
                         \cup (IF k.que[q].wwait THEN {<<"que", q>>} ELSE {})]
      BY <2>1 DEF Removed, new
    <3>2. QED
      BY <1>2, <3>1 DEF Kit
  <2>3. QED
    BY <2>2
<1> HIDE DEF new
<1>6. /\ k2.que \in [Queues -> Queue] /\ k2.que[q] = new
      /\ \A r \in Queues : r # q => k2.que[r] = k.que[r]
  BY <1>3, <1>4, <1>5
<1>7. k2 \in Kit
  <2>1. <<"qnum", q>> \in Channels /\ <<"que", q>> \in Channels
    BY DEF Channels, Lists
  <2>2. k2.ev \in SUBSET Channels
    BY <1>3, <1>5, <2>1
  <2>3. QED
    BY <1>3, <1>5, <1>6, <2>2, Zenon DEF Kit
<1>8. /\ Told(Tables, chain, k, chain2)
      /\ \A r \in Queues : r # q => k.que[r] = que[r] /\ chain2[r] = chain[r]
      /\ k.que[q].rwait = que[q].rwait
      /\ \A r \in Queues, g \in Headers : Has(chain2[r], g) => Has(chain[r], g) /\ SameText(Tables, k, g)
      /\ \A g \in Headers : Out(chain2, g) <=> Out(chain, g)
      /\ \A g \in Headers : Out(chain, g) => text2[g] = text[g]
  BY <1>1, <1>2 DEF Reduced
<1>9. Books(k2, chain2, text2)
  <2>1. ASSUME NEW r \in Queues
        PROVE  /\ Run(k2.hdr, k2.que[r].first, chain2[r])
               /\ k2.que[r].qnum = Len(chain2[r])
               /\ k2.que[r].last = IF chain2[r] = <<>> THEN NULL ELSE chain2[r][Len(chain2[r])]
               /\ ~k2.que[r].alloc => chain2[r] = <<>>
    <3>1. CASE r = q
      <4>1. Run(k.hdr, k.que[q].first, chain2[q])
        BY <1>1 DEF Books
      <4>2. Run(k2.hdr, NULL, chain2[q])
        BY <1>1, <4>1, <1>5 DEF Run
      <4>3. QED
        BY <1>1, <1>4, <1>6, <3>1, <4>2
    <3>2. CASE r # q
      <4>1. /\ Run(k.hdr, k.que[r].first, chain2[r])
            /\ k.que[r].qnum = Len(chain2[r])
            /\ k.que[r].last = IF chain2[r] = <<>> THEN NULL ELSE chain2[r][Len(chain2[r])]
            /\ ~k.que[r].alloc => chain2[r] = <<>>
        BY <1>1 DEF Books
      <4>2. k2.que[r] = k.que[r] /\ k2.hdr = k.hdr
        BY <1>5, <1>6, <3>2
      <4>3. QED
        BY <4>1, <4>2
    <3>3. QED
      BY <3>1, <3>2
  <2>2. Run(k2.hdr, k2.fp, chain2[NULL]) /\ Filled(chain2) /\ Pool(k2.map, text2)
    BY <1>1, <1>5 DEF Books
  <2>3. /\ \A r \in Queues, h \in Headers :
             Has(chain2[r], h) => text2[h] = [addr |-> k2.hdr[h].addr, size |-> btoq(k2.hdr[h].ts)]
        /\ \A h \in Headers : Has(chain2[NULL], h) => text2[h].size = 0
    BY <1>1, <1>5 DEF Books
  <2>4. QED
    BY <1>7, <2>1, <2>2, <2>3 DEF Books
<1>10. Told(Tables, chain, k2, chain2)
  <2>1. ASSUME NEW r \in Queues PROVE ReadersTold(Tables, chain, k2, chain2, r)
    <3>1. CASE r = q
      BY <1>2, <1>5, <1>8, <3>1 DEF ReadersTold
    <3>2. CASE r # q
      <4>1. ReadersTold(Tables, chain, k, chain2, r)
        BY <1>8 DEF Told
      <4>2. k2.que[r] = k.que[r] /\ k2.hdr = k.hdr
        BY <1>5, <1>6, <3>2
      <4>3. QED
        BY <1>5, <4>1, <4>2 DEF ReadersTold
    <3>3. QED
      BY <3>1, <3>2
  <2>2. ASSUME NEW r \in Queues PROVE WritersTold(Tables, k2, r)
    <3>1. WritersTold(Tables, k, r)
      BY <1>8 DEF Told
    <3>2. CASE r = q
      BY <1>5, <3>1, <3>2 DEF WritersTold
    <3>3. CASE r # q
      <4>1. k2.que[r] = k.que[r]
        BY <1>6, <3>3
      <4>2. QED
        BY <1>5, <3>1, <4>1 DEF WritersTold
    <3>4. QED
      BY <3>2, <3>3
  <2>3. HeadersTold(Tables, k2) /\ TextTold(Tables, k2) /\ Tables.ev \subseteq k2.ev
    BY <1>5, <1>8 DEF Told, HeadersTold, TextTold
  <2>4. QED
    BY <2>1, <2>2, <2>3 DEF Told
<1>11. k2.que[q].cbytes = Total(k2.hdr, chain2[q])
  <2>1. <<>> \in Seq(Headers) /\ k2.hdr \in [Headers -> Header]
    BY <1>3, <1>5
  <2>2. Total(k2.hdr, <<>>) = 0
    BY <2>1, TotalNat
  <2>3. QED
    BY <1>1, <1>4, <1>6, <2>2
<1>12. Moves(Tables, chain, text, q, k2, chain2, text2)
  <2>1. \A r \in Queues : r # q => k2.que[r] = Tables.que[r] /\ chain2[r] = chain[r]
    BY <1>2, <1>6, <1>8
  <2>2. \A r \in Queues, g \in Headers : r # q /\ Has(chain[r], g) => SameText(Tables, k2, g)
    BY <1>5, <1>8 DEF SameText
  <2>3. QED
    BY <1>9, <1>10, <1>11, <2>1, <2>2 DEF Moves
<1>13. Steady(chain, text, chain2, text2)
  BY <1>8 DEF Steady
<1>14. QED
  BY <1>12, <1>13
=============================================================================

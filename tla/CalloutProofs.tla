--------------------------- MODULE CalloutProofs ---------------------------
(***************************************************************************)
(* Proofs about the callout table of os/clock.c.  heap_up() and heap_down()*)
(* move the entries of one path of the heap by one place each.  The lemmas *)
(* UpPath and DownPath say so, by induction over the recursion; all else   *)
(* follows from the shape of the path without induction: the heap is       *)
(* ordered again, and nothing but the new entry came or went.              *)
(***************************************************************************)
EXTENDS Callout, WellFoundedInduction, TLAPS

(***************************************************************************)
(* Induction, with sets of numbers.                                        *)
(***************************************************************************)

\* A set of natural numbers has a least element.
LEMMA Least ==
    ASSUME NEW T, T \subseteq Nat, T # {}
    PROVE  \E n \in T : \A m \in T : n <= m
<1>1. PICK x \in T : \A y \in T : ~(<<y, x>> \in OpToRel(<, Nat))
  BY NatLessThanWellFounded, WFMin
<1>2. \A y \in T : ~(y < x)
  BY <1>1 DEF OpToRel
<1>3. QED
  BY <1>2

\* Complete induction: a set that has every number below which it has all
\* numbers has them all.
LEMMA Complete ==
    ASSUME NEW S, NEW N \in Nat,
           \A n \in 0 .. N : (\A m \in 0 .. n - 1 : m \in S) => n \in S
    PROVE  \A n \in 0 .. N : n \in S
<1> DEFINE T == {n \in 0 .. N : n \notin S}
<1>1. SUFFICES ASSUME T # {} PROVE FALSE
  OBVIOUS
<1>2. PICK n \in T : \A m \in T : n <= m
  <2>1. T \subseteq Nat
    OBVIOUS
  <2>2. QED
    BY <2>1, <1>1, Least
<1>3. n \in 0 .. N /\ n \notin S
  BY <1>2
<1>4. \A m \in 0 .. n - 1 : m \in S
  <2>1. SUFFICES ASSUME NEW m \in 0 .. n - 1, m \notin S PROVE FALSE
    OBVIOUS
  <2>2. m \in T /\ m < n
    BY <2>1, <1>3
  <2>3. QED
    BY <2>2, <1>2, <1>3
<1>5. QED
  BY <1>3, <1>4

\* Parent(i) is a number below i, and i is one of its two children.
LEMMA Parents ==
    ASSUME NEW i \in Nat \ {0}
    PROVE  /\ Parent(i) \in Nat /\ Parent(i) < i
           /\ i = 2 * Parent(i) + 1 \/ i = 2 * Parent(i) + 2
  BY DEF Parent

\* The children of i have it for their parent.
LEMMA Children ==
    ASSUME NEW i \in Nat
    PROVE  Parent(2 * i + 1) = i /\ Parent(2 * i + 2) = i
  BY DEF Parent

(***************************************************************************)
(* The recursive functions of the heap routines are what they say.         *)
(***************************************************************************)

UpBody(tab, t, up) ==
    [i \in DOMAIN tab |->
        IF i = 0 \/ tab[Parent(i)].c_time <= t
        THEN [at |-> i, tab |-> tab]
        ELSE LET r == up[Parent(i)]
             IN  [r EXCEPT !.tab[i] = tab[Parent(i)]]]

Up(tab, t) == CHOOSE up : up = UpBody(tab, t, up)

DownBody(tab, t, down) ==
    [i \in DOMAIN tab |->
        IF 2 * i + 1 \notin DOMAIN tab \/ tab[SmallerChild(tab, i)].c_time >= t
        THEN [at |-> i, tab |-> tab]
        ELSE LET k == SmallerChild(tab, i)
                 r == down[k]
             IN  [r EXCEPT !.tab[i] = tab[k]]]

Down(tab, t) == CHOOSE down : down = DownBody(tab, t, down)

\* heap_up() has the recursion of Up.
LEMMA UpIs ==
    ASSUME NEW tab, NEW t, NEW j
    PROVE  heap_up(tab, t, j) = Up(tab, t)[j]
  BY DEF heap_up, Up, UpBody

\* heap_down() has the recursion of Down.
LEMMA DownIs ==
    ASSUME NEW tab, NEW t, NEW j
    PROVE  heap_down(tab, t, j) = Down(tab, t)[j]
  BY DEF heap_down, Down, DownBody

\* The recursion towards the root ends.
LEMMA UpEquation ==
    ASSUME NEW n \in Int, NEW tab, DOMAIN tab = 0 .. n, NEW t
    PROVE  Up(tab, t) = UpBody(tab, t, Up(tab, t))
<1> DEFINE b(f, i) == IF i = 0 \/ tab[Parent(i)].c_time <= t
                      THEN [at |-> i, tab |-> tab]
                      ELSE [f[Parent(i)] EXCEPT !.tab[i] = tab[Parent(i)]]
           S == {k \in Int : \E f : f = [i \in 0 .. k |-> b(f, i)]}
<1>1. \A f, g, i : (i # 0 => f[Parent(i)] = g[Parent(i)]) => b(f, i) = b(g, i)
  OBVIOUS
<1>2. ASSUME NEW k \in Nat, NEW f, f = [i \in 0 .. k - 1 |-> b(f, i)]
      PROVE  \E g : g = [i \in 0 .. k |-> b(g, i)]
  <2> HIDE DEF b
  <2> DEFINE g == [i \in 0 .. k |-> IF i = k THEN b(f, k) ELSE f[i]]
  <2>1. ASSUME NEW i \in 0 .. k
        PROVE  g[i] = b(g, i)
    <3>1. i # 0 => Parent(i) \in 0 .. k - 1 /\ Parent(i) \in 0 .. k /\ Parent(i) # k
      BY Parents
    <3>2. i # 0 => g[Parent(i)] = f[Parent(i)]
      BY <3>1
    <3>3. b(g, i) = b(f, i)
      <4> HIDE DEF g
      <4>1. QED
        BY <3>2, <1>1
    <3>4. g[i] = b(f, i)
      <4>1. CASE i = k
        BY <4>1
      <4>2. CASE i # k
        <5>1. i \in 0 .. k - 1
          BY <4>2
        <5>2. f[i] = b(f, i)
          BY <5>1, <1>2
        <5>3. QED
          BY <5>2, <4>2
      <4>3. QED
        BY <4>1, <4>2
    <3>5. QED
      BY <3>3, <3>4
  <2>2. g = [i \in 0 .. k |-> b(g, i)]
    <3> HIDE DEF b
    <3>1. g = [i \in 0 .. k |-> g[i]]
      OBVIOUS
    <3> HIDE DEF g
    <3>2. QED
      BY <2>1, <3>1
  <2>3. QED
    BY <2>2
<1>3. \A k \in 0 .. n : (\A m \in 0 .. k - 1 : m \in S) => k \in S
  <2> HIDE DEF b
  <2>1. SUFFICES ASSUME NEW k \in 0 .. n, \A m \in 0 .. k - 1 : m \in S
                 PROVE  k \in S
    OBVIOUS
  <2>2. \E f : f = [i \in 0 .. k - 1 |-> b(f, i)]
    <3>1. CASE k = 0
      <4> DEFINE f == [i \in 0 .. k - 1 |-> 0]
      <4>1. f = [i \in 0 .. k - 1 |-> b(f, i)]
        BY <3>1
      <4>2. QED
        BY <4>1
    <3>2. CASE k # 0
      <4>1. k - 1 \in S
        BY <3>2, <2>1
      <4>2. QED
        BY <4>1
    <3>3. QED
      BY <3>1, <3>2
  <2>3. PICK f : f = [i \in 0 .. k - 1 |-> b(f, i)]
    BY <2>2
  <2>4. QED
    BY <2>3, <1>2
<1>4. \E f : f = [i \in 0 .. n |-> b(f, i)]
  <2> HIDE DEF b
  <2>1. CASE n < 0
    <3> DEFINE f == [i \in 0 .. n |-> 0]
    <3>1. f = [i \in 0 .. n |-> b(f, i)]
      BY <2>1
    <3>2. QED
      BY <3>1
  <2>2. CASE n >= 0
    <3> HIDE DEF S
    <3>0. n \in Nat
      BY <2>2
    <3>1. \A k \in 0 .. n : k \in S
      BY <3>0, <1>3, Complete
    <3>2. n \in S
      BY <3>1, <2>2
    <3>3. QED
      BY <3>2 DEF S
  <2>3. QED
    BY <2>1, <2>2
<1>5. \E f : f = UpBody(tab, t, f)
  BY <1>4 DEF UpBody
<1>6. QED
  BY <1>5 DEF Up

\* SmallerChild is a child, and no other child is smaller.
LEMMA Smaller ==
    ASSUME NEW n \in Int, NEW tab \in [0 .. n -> Entry], NEW i \in 0 .. n, 2 * i + 1 <= n
    PROVE  LET k == SmallerChild(tab, i)
           IN  /\ k \in 0 .. n /\ k > i /\ Parent(k) = i
               /\ \A c \in 1 .. n : Parent(c) = i => tab[k].c_time <= tab[c].c_time
<1>1. DOMAIN tab = 0 .. n /\ \A m \in 0 .. n : tab[m].c_time \in Int
  BY DEF Entry
<1>2. SmallerChild(tab, i) = IF 2 * i + 2 <= n /\ tab[2 * i + 2].c_time < tab[2 * i + 1].c_time
                             THEN 2 * i + 2 ELSE 2 * i + 1
  BY <1>1 DEF SmallerChild
<1>3. Parent(2 * i + 1) = i /\ Parent(2 * i + 2) = i
  <2>1. i \in Nat
    OBVIOUS
  <2>2. QED
    BY <2>1, Children, Zenon
<1>4. ASSUME NEW c \in 1 .. n, Parent(c) = i
      PROVE  c = 2 * i + 1 \/ c = 2 * i + 2
  <2>1. c \in Nat \ {0}
    OBVIOUS
  <2>2. c = 2 * Parent(c) + 1 \/ c = 2 * Parent(c) + 2
    BY <2>1, Parents, Zenon
  <2>3. QED
    BY <2>2, <1>4, Zenon
<1>5. ASSUME NEW c \in 1 .. n, Parent(c) = i
      PROVE  tab[SmallerChild(tab, i)].c_time <= tab[c].c_time
  <2>1. 2 * i + 1 \in 0 .. n
    OBVIOUS
  <2>2. CASE 2 * i + 2 <= n
    <3>1. 2 * i + 2 \in 0 .. n
      BY <2>2
    <3> DEFINE l == tab[2 * i + 1].c_time
               r == tab[2 * i + 2].c_time
    <3>2. l \in Int /\ r \in Int
      BY <1>1, <2>1, <3>1
    <3>3. tab[SmallerChild(tab, i)].c_time = IF r < l THEN r ELSE l
      BY <1>2, <2>2
    <3>4. tab[c].c_time = l \/ tab[c].c_time = r
      BY <1>5, <1>4
    <3> HIDE DEF l, r
    <3>5. QED
      BY <3>2, <3>3, <3>4
  <2>3. CASE ~(2 * i + 2 <= n)
    <3>1. c = 2 * i + 1
      BY <2>3, <1>5, <1>4
    <3>2. SmallerChild(tab, i) = 2 * i + 1
      BY <1>2, <2>3
    <3>3. tab[2 * i + 1].c_time \in Int
      BY <1>1, <2>1
    <3>4. QED
      BY <3>1, <3>2, <3>3
  <2>4. QED
    BY <2>2, <2>3
<1>6. SmallerChild(tab, i) \in {2 * i + 1, 2 * i + 2} /\ SmallerChild(tab, i) \in 0 .. n
  BY <1>2
<1>7. QED
  BY <1>3, <1>5, <1>6

\* The recursion towards the leaves ends.
LEMMA DownEquation ==
    ASSUME NEW n \in Nat, NEW tab \in [0 .. n -> Entry], NEW t
    PROVE  Down(tab, t) = DownBody(tab, t, Down(tab, t))
<1> DEFINE K(i) == SmallerChild(tab, i)
           b(f, i) == IF 2 * i + 1 \notin 0 .. n \/ tab[K(i)].c_time >= t
                      THEN [at |-> i, tab |-> tab]
                      ELSE [f[K(i)] EXCEPT !.tab[i] = tab[K(i)]]
           S == {k \in Int : \E f : f = [i \in n - k .. n |-> b(f, i)]}
<1>1. \A f, g : \A i \in 0 .. n :
         (2 * i + 1 \in 0 .. n => f[K(i)] = g[K(i)]) => b(f, i) = b(g, i)
  OBVIOUS
<1>2. ASSUME NEW i \in 0 .. n, 2 * i + 1 \in 0 .. n
      PROVE  K(i) \in i + 1 .. n
  BY <1>2, Smaller
<1>3. ASSUME NEW k \in 0 .. n, NEW f, f = [i \in n - k + 1 .. n |-> b(f, i)]
      PROVE  \E g : g = [i \in n - k .. n |-> b(g, i)]
  <2> HIDE DEF b, K
  <2> DEFINE g == [i \in n - k .. n |-> IF i = n - k THEN b(f, n - k) ELSE f[i]]
  <2>1. ASSUME NEW i \in n - k .. n
        PROVE  g[i] = b(g, i)
    <3>0. i \in 0 .. n
      OBVIOUS
    <3>1. 2 * i + 1 \in 0 .. n => K(i) \in n - k .. n /\ K(i) # n - k
      BY <3>0, <1>2
    <3>2. 2 * i + 1 \in 0 .. n => g[K(i)] = f[K(i)]
      BY <3>1
    <3>3. b(g, i) = b(f, i)
      <4> HIDE DEF g
      <4>1. QED
        BY <3>0, <3>2, <1>1
    <3>4. g[i] = b(f, i)
      <4>1. CASE i = n - k
        BY <4>1
      <4>2. CASE i # n - k
        <5>1. i \in n - k + 1 .. n
          BY <4>2
        <5>2. f[i] = b(f, i)
          BY <5>1, <1>3
        <5>3. QED
          BY <5>2, <4>2
      <4>3. QED
        BY <4>1, <4>2
    <3>5. QED
      BY <3>3, <3>4
  <2>2. g = [i \in n - k .. n |-> b(g, i)]
    <3>1. g = [i \in n - k .. n |-> g[i]]
      OBVIOUS
    <3> HIDE DEF g
    <3>2. QED
      BY <2>1, <3>1
  <2>3. QED
    BY <2>2
<1>4. \A k \in 0 .. n : (\A m \in 0 .. k - 1 : m \in S) => k \in S
  <2> HIDE DEF b
  <2>1. SUFFICES ASSUME NEW k \in 0 .. n, \A m \in 0 .. k - 1 : m \in S
                 PROVE  k \in S
    OBVIOUS
  <2>2. \E f : f = [i \in n - k + 1 .. n |-> b(f, i)]
    <3>1. CASE k = 0
      <4> DEFINE f == [i \in n - k + 1 .. n |-> 0]
      <4>1. f = [i \in n - k + 1 .. n |-> b(f, i)]
        BY <3>1
      <4>2. QED
        BY <4>1
    <3>2. CASE k # 0
      <4>1. k - 1 \in S
        BY <3>2, <2>1
      <4>2. n - (k - 1) = n - k + 1
        OBVIOUS
      <4>3. QED
        BY <4>1, <4>2
    <3>3. QED
      BY <3>1, <3>2
  <2>3. PICK f : f = [i \in n - k + 1 .. n |-> b(f, i)]
    BY <2>2
  <2>4. QED
    BY <2>3, <1>3
<1>5. \E f : f = [i \in 0 .. n |-> b(f, i)]
  <2> HIDE DEF b, S
  <2>1. \A k \in 0 .. n : k \in S
    BY <1>4, Complete
  <2>2. n \in S /\ n - n = 0
    BY <2>1
  <2>3. QED
    BY <2>2 DEF S
<1>6. \E f : f = DownBody(tab, t, f)
  <2>1. DOMAIN tab = 0 .. n
    OBVIOUS
  <2>2. PICK f : f = [i \in 0 .. n |-> b(f, i)]
    BY <1>5
  <2>3. f = DownBody(tab, t, f)
    BY <2>1, <2>2, Zenon DEF DownBody
  <2>4. QED
    BY <2>3
<1>7. QED
  BY <1>6 DEF Down

(***************************************************************************)
(* The paths.  On the way up the entries of the places M move one place    *)
(* down from their parents, on the way down from their smaller children;   *)
(* at is the place that is left.                                           *)
(***************************************************************************)

PathUp(tab, t, j, at, M) ==
    /\ at \in 0 .. j /\ M \subseteq at + 1 .. j /\ j \in M \cup {at}
    /\ \A m \in M : /\ Parent(m) \in M \cup {at}
                    /\ Parent(m) # j
                    /\ ~(tab[Parent(m)].c_time <= t)
    /\ \A m, l \in M : Parent(m) = Parent(l) => m = l
    /\ \A x \in M \cup {at} : x = j \/ \E m \in M : Parent(m) = x
    /\ at = 0 \/ tab[Parent(at)].c_time <= t

PathDown(tab, t, n, j, at, M) ==
    /\ at \in j .. n /\ M \subseteq j .. at - 1 /\ j \in M \cup {at}
    /\ \A m \in M : /\ 2 * m + 1 <= n
                    /\ SmallerChild(tab, m) \in M \cup {at}
                    /\ ~(tab[SmallerChild(tab, m)].c_time >= t)
    /\ \A x \in M \cup {at} :
          x = j \/ (x > 0 /\ Parent(x) \in M /\ x = SmallerChild(tab, Parent(x)))
    /\ ~(2 * at + 1 <= n) \/ tab[SmallerChild(tab, at)].c_time >= t

\* What the routines return for a path.
UpResult(tab, n, at, M) ==
    [at |-> at, tab |-> [x \in 0 .. n |-> IF x \in M THEN tab[Parent(x)] ELSE tab[x]]]
DownResult(tab, n, at, M) ==
    [at |-> at, tab |-> [x \in 0 .. n |-> IF x \in M THEN tab[SmallerChild(tab, x)]
                                         ELSE tab[x]]]

\* heap_up() moves the entries of a path towards the root.
LEMMA UpPath ==
    ASSUME NEW n \in Nat, NEW tab \in [0 .. n -> Entry], NEW t \in Int, NEW j \in 0 .. n
    PROVE  \E at, M : PathUp(tab, t, j, at, M) /\ heap_up(tab, t, j) = UpResult(tab, n, at, M)
<1> DEFINE up == Up(tab, t)
           R(at, M) == [at |-> at, tab |-> [x \in 0 .. n |-> IF x \in M THEN tab[Parent(x)]
                                                           ELSE tab[x]]]
           S == {i \in 0 .. n : \E at, M : PathUp(tab, t, i, at, M) /\ up[i] = R(at, M)}
<1>1. DOMAIN tab = 0 .. n
  OBVIOUS
<1>2. ASSUME NEW i \in 0 .. n
      PROVE  up[i] = IF i = 0 \/ tab[Parent(i)].c_time <= t
                     THEN [at |-> i, tab |-> tab]
                     ELSE [up[Parent(i)] EXCEPT !.tab[i] = tab[Parent(i)]]
  <2>1. up = UpBody(tab, t, up)
    BY <1>1, UpEquation
  <2> HIDE DEF up
  <2>2. UpBody(tab, t, up)[i] = IF i = 0 \/ tab[Parent(i)].c_time <= t
                     THEN [at |-> i, tab |-> tab]
                     ELSE [up[Parent(i)] EXCEPT !.tab[i] = tab[Parent(i)]]
    BY <1>1, Zenon DEF UpBody
  <2>3. QED
    BY <2>1, <2>2, Zenon
<1> HIDE DEF up
<1>3. \A i \in 0 .. n : (\A m \in 0 .. i - 1 : m \in S) => i \in S
  <2>1. SUFFICES ASSUME NEW i \in 0 .. n, \A m \in 0 .. i - 1 : m \in S
                 PROVE  i \in S
    OBVIOUS
  <2>2. CASE i = 0 \/ tab[Parent(i)].c_time <= t
    <3>1. PathUp(tab, t, i, i, {})
      BY <2>2 DEF PathUp
    <3>2. R(i, {}) = [at |-> i, tab |-> tab]
      <4>1. tab = [x \in 0 .. n |-> IF x \in {} THEN tab[Parent(x)] ELSE tab[x]]
        OBVIOUS
      <4>2. QED
        BY <4>1, Zenon
    <3>3. up[i] = R(i, {})
      BY <3>2, <2>2, <1>2, Zenon
    <3> HIDE DEF R
    <3>4. \E at, M : PathUp(tab, t, i, at, M) /\ up[i] = R(at, M)
      BY <3>1, <3>3
    <3>5. QED
      BY <3>4
  <2>3. CASE ~(i = 0 \/ tab[Parent(i)].c_time <= t)
    <3> DEFINE p == Parent(i)
    <3>1. p \in 0 .. i - 1 /\ i # 0
      BY <2>3, Parents
    <3>2. PICK at, M : PathUp(tab, t, p, at, M) /\ up[p] = R(at, M)
      BY <3>1, <2>1
    <3>3. PathUp(tab, t, i, at, M \cup {i})
      <4> HIDE DEF p
      <4>1. Parent(i) = p
        BY DEF p
      <4>2. /\ at \in 0 .. i /\ M \cup {i} \subseteq at + 1 .. i /\ i \in (M \cup {i}) \cup {at}
            /\ i \notin M
        BY <3>1, <3>2 DEF PathUp
      <4>3. ASSUME NEW m \in M \cup {i}
            PROVE  /\ Parent(m) \in (M \cup {i}) \cup {at}
                   /\ Parent(m) # i
                   /\ ~(tab[Parent(m)].c_time <= t)
        BY <4>1, <4>2, <3>1, <3>2, <2>3 DEF PathUp
      <4>4. ASSUME NEW m \in M \cup {i}, NEW l \in M \cup {i}, Parent(m) = Parent(l)
            PROVE  m = l
        BY <4>4, <4>1, <3>2 DEF PathUp
      <4>5. ASSUME NEW x \in (M \cup {i}) \cup {at}
            PROVE  x = i \/ \E m \in M \cup {i} : Parent(m) = x
        BY <4>1, <3>2 DEF PathUp
      <4>6. at = 0 \/ tab[Parent(at)].c_time <= t
        BY <3>2 DEF PathUp
      <4>7. QED
        BY <4>2, <4>3, <4>4, <4>5, <4>6 DEF PathUp
    <3>4. up[i] = R(at, M \cup {i})
      <4>1. i \notin M /\ i \in 0 .. n
        BY <3>1, <3>2 DEF PathUp
      <4> DEFINE T(N) == [x \in 0 .. n |-> IF x \in N THEN tab[Parent(x)] ELSE tab[x]]
      <4>2. [T(M) EXCEPT ![i] = tab[Parent(i)]] = T(M \cup {i})
        BY <4>1
      <4>3. up[i] = [up[p] EXCEPT !.tab[i] = tab[p]]
        BY <2>3, <1>2, Zenon
      <4>4. up[p] = [at |-> at, tab |-> T(M)]
        BY <3>2
      <4> HIDE DEF T, p
      <4>5. up[i] = [at |-> at, tab |-> [T(M) EXCEPT ![i] = tab[p]]]
        BY <4>3, <4>4
      <4>6. up[i] = [at |-> at, tab |-> T(M \cup {i})]
        BY <4>5, <4>2 DEF p
      <4>7. QED
        BY <4>6 DEF T
    <3> HIDE DEF R
    <3>5. \E a, N : PathUp(tab, t, i, a, N) /\ up[i] = R(a, N)
      BY <3>3, <3>4
    <3>6. QED
      BY <3>5
  <2>4. QED
    BY <2>2, <2>3
<1>4. j \in S
  <2> HIDE DEF S
  <2>1. \A i \in 0 .. n : i \in S
    BY <1>3, Complete
  <2>2. QED
    BY <2>1
<1>5. QED
  BY <1>4, UpIs DEF up, UpResult

\* heap_down() moves the entries of a path towards a leaf.
LEMMA DownPath ==
    ASSUME NEW n \in Nat, NEW tab \in [0 .. n -> Entry], NEW t \in Int, NEW j \in 0 .. n
    PROVE  \E at, M : /\ PathDown(tab, t, n, j, at, M)
                     /\ heap_down(tab, t, j) = DownResult(tab, n, at, M)
<1> DEFINE down == Down(tab, t)
           K(i) == SmallerChild(tab, i)
           T(N) == [x \in 0 .. n |-> IF x \in N THEN tab[K(x)] ELSE tab[x]]
           R(at, M) == [at |-> at, tab |-> T(M)]
           Q(i) == \E at, M : PathDown(tab, t, n, i, at, M) /\ down[i] = R(at, M)
           S == {d \in 0 .. n : Q(n - d)}
<1>1. DOMAIN tab = 0 .. n
  OBVIOUS
<1>2. ASSUME NEW i \in 0 .. n
      PROVE  down[i] = IF 2 * i + 1 \notin 0 .. n \/ tab[K(i)].c_time >= t
                       THEN [at |-> i, tab |-> tab]
                       ELSE [down[K(i)] EXCEPT !.tab[i] = tab[K(i)]]
  <2>1. down = DownBody(tab, t, down)
    BY DownEquation
  <2> HIDE DEF down
  <2>2. DownBody(tab, t, down)[i] =
                       IF 2 * i + 1 \notin 0 .. n \/ tab[K(i)].c_time >= t
                       THEN [at |-> i, tab |-> tab]
                       ELSE [down[K(i)] EXCEPT !.tab[i] = tab[K(i)]]
    BY <1>1, Zenon DEF DownBody
  <2>3. QED
    BY <2>1, <2>2, Zenon
<1> HIDE DEF down
<1>3. ASSUME NEW i \in 0 .. n, \A k \in i + 1 .. n : Q(k)
      PROVE  Q(i)
  <2>1. CASE ~(2 * i + 1 <= n) \/ tab[K(i)].c_time >= t
    <3>1. PathDown(tab, t, n, i, i, {})
      BY <2>1 DEF PathDown
    <3>2. R(i, {}) = [at |-> i, tab |-> tab]
      <4>1. tab = T({})
        OBVIOUS
      <4>2. QED
        BY <4>1, Zenon
    <3>3. 2 * i + 1 \notin 0 .. n \/ tab[K(i)].c_time >= t
      BY <2>1
    <3>4. down[i] = R(i, {})
      BY <3>2, <3>3, <1>2, Zenon
    <3> HIDE DEF R
    <3>5. QED
      BY <3>1, <3>4
  <2>2. CASE ~(~(2 * i + 1 <= n) \/ tab[K(i)].c_time >= t)
    <3> DEFINE p == K(i)
    <3>1. p \in i + 1 .. n /\ 2 * i + 1 <= n /\ Parent(p) = i /\ 2 * i + 1 \in 0 .. n
      BY <2>2, Smaller
    <3>2. PICK at, M : PathDown(tab, t, n, p, at, M) /\ down[p] = R(at, M)
      BY <3>1, <1>3
    <3>3. PathDown(tab, t, n, i, at, M \cup {i})
      <4> HIDE DEF p
      <4>1. SmallerChild(tab, i) = p
        BY DEF p
      <4>2. /\ at \in i .. n /\ M \cup {i} \subseteq i .. at - 1 /\ i \in (M \cup {i}) \cup {at}
            /\ i \notin M
        BY <3>1, <3>2 DEF PathDown
      <4>3. ASSUME NEW m \in M \cup {i}
            PROVE  /\ 2 * m + 1 <= n
                   /\ SmallerChild(tab, m) \in (M \cup {i}) \cup {at}
                   /\ ~(tab[SmallerChild(tab, m)].c_time >= t)
        BY <4>1, <3>1, <3>2, <2>2 DEF PathDown
      <4>4. ASSUME NEW x \in (M \cup {i}) \cup {at}
            PROVE  \/ x = i
                   \/ (x > 0 /\ Parent(x) \in M \cup {i} /\ x = SmallerChild(tab, Parent(x)))
        BY <4>1, <3>1, <3>2 DEF PathDown
      <4>5. ~(2 * at + 1 <= n) \/ tab[SmallerChild(tab, at)].c_time >= t
        BY <3>2 DEF PathDown
      <4>6. QED
        BY <4>2, <4>3, <4>4, <4>5 DEF PathDown
    <3>4. down[i] = R(at, M \cup {i})
      <4>1. i \notin M /\ i \in 0 .. n
        BY <3>1, <3>2 DEF PathDown
      <4>2. [T(M) EXCEPT ![i] = tab[p]] = T(M \cup {i})
        BY <4>1
      <4>3. down[i] = [down[p] EXCEPT !.tab[i] = tab[p]]
        BY <2>2, <3>1, <1>2, Zenon
      <4>4. down[p] = [at |-> at, tab |-> T(M)]
        BY <3>2
      <4> HIDE DEF T, p
      <4>5. down[i] = [at |-> at, tab |-> [T(M) EXCEPT ![i] = tab[p]]]
        BY <4>3, <4>4
      <4>6. QED
        BY <4>5, <4>2
    <3> HIDE DEF R
    <3>5. QED
      BY <3>3, <3>4
  <2>3. QED
    BY <2>1, <2>2
<1>4. \A d \in 0 .. n : (\A m \in 0 .. d - 1 : m \in S) => d \in S
  <2> HIDE DEF Q
  <2>1. SUFFICES ASSUME NEW d \in 0 .. n, \A m \in 0 .. d - 1 : m \in S
                 PROVE  d \in S
    OBVIOUS
  <2>2. ASSUME NEW k \in n - d + 1 .. n
        PROVE  Q(k)
    <3>1. n - k \in 0 .. d - 1 /\ n - (n - k) = k
      OBVIOUS
    <3>2. n - k \in S
      BY <3>1, <2>1
    <3>3. QED
      BY <3>1, <3>2
  <2>3. QED
    BY <2>2, <1>3
<1>5. j \in 0 .. n => Q(j)
  <2> HIDE DEF S, Q
  <2>1. \A i \in 0 .. n : i \in S
    BY <1>4, Complete
  <2>2. n - j \in 0 .. n /\ n - (n - j) = j
    OBVIOUS
  <2>3. n - j \in S
    BY <2>1, <2>2
  <2>4. QED
    BY <2>2, <2>3 DEF S
<1>6. heap_down(tab, t, j) = down[j]
  BY DownIs DEF down
<1>7. QED
  BY <1>5, <1>6 DEF DownResult

(***************************************************************************)
(* What an insertion does to the table, from the shape of the path.        *)
(***************************************************************************)

Ordered(tab, n) == \A i \in 1 .. n : tab[Parent(i)].c_time <= tab[i].c_time

\* The table but for the place j is a heap; its entry may be anything.
Hole(tab, n, j) ==
    /\ \A i \in 1 .. n : i # j /\ Parent(i) # j => tab[Parent(i)].c_time <= tab[i].c_time
    /\ \A i \in 1 .. n : j > 0 /\ Parent(i) = j => tab[Parent(j)].c_time <= tab[i].c_time

Distinct(tab, n) == \A i, k \in 0 .. n : tab[i].c_id = tab[k].c_id => i = k

\* new holds what tab holds elsewhere than at j, and e, each at one place.
Moved(tab, n, j, e, new) ==
    /\ new \in [0 .. n -> Entry]
    /\ \A x \in 0 .. n : new[x] = e \/ \E y \in 0 .. n : y # j /\ new[x] = tab[y]
    /\ \A y \in 0 .. n : y # j => \E x \in 0 .. n : new[x] = tab[y]
    /\ \E x \in 0 .. n : new[x] = e
    /\ /\ \A y, z \in (0 .. n) \ {j} : tab[y].c_id = tab[z].c_id => y = z
       /\ \A y \in (0 .. n) \ {j} : tab[y].c_id # e.c_id
       => Distinct(new, n)

\* The entry is put in its place on the way up.
LEMMA PlacedUp ==
    ASSUME NEW n \in Nat, NEW tab \in [0 .. n -> Entry], NEW e \in Entry, NEW j \in 0 .. n,
           Hole(tab, n, j),
           \A i \in 1 .. n : Parent(i) = j => e.c_time <= tab[i].c_time
    PROVE  LET new == Place(heap_up(tab, e.c_time, j), e)
           IN  Moved(tab, n, j, e, new) /\ Ordered(new, n)
<1> DEFINE t == e.c_time
           new == Place(heap_up(tab, t, j), e)
<1>1. t \in Int /\ \A i \in 0 .. n : tab[i].c_time \in Int
  BY DEF Entry
<1>2. PICK at, M : PathUp(tab, t, j, at, M) /\ heap_up(tab, t, j) = UpResult(tab, n, at, M)
  <2>1. t \in Int
    BY <1>1
  <2> HIDE DEF t
  <2>2. QED
    BY <2>1, UpPath
<1>3. new = [x \in 0 .. n |-> IF x = at THEN e
                              ELSE IF x \in M THEN tab[Parent(x)] ELSE tab[x]]
  <2>1. at \in 0 .. n
    BY <1>2 DEF PathUp
  <2>2. new = [[x \in 0 .. n |-> IF x \in M THEN tab[Parent(x)] ELSE tab[x]] EXCEPT ![at] = e]
    BY <1>2 DEF Place, UpResult, DownResult
  <2>3. QED
    BY <2>1, <2>2
<1> HIDE DEF new
<1>4. \A c \in 1 .. n : Parent(c) \in 0 .. n /\ Parent(c) < c
  BY Parents
<1>5. /\ at \in 0 .. n /\ M \subseteq 1 .. n /\ j \in M \cup {at} /\ at \notin M
      /\ \A m \in M : m > at
  BY <1>2 DEF PathUp
<1>6. /\ \A m \in M : Parent(m) \in M \cup {at} /\ Parent(m) # j /\ tab[Parent(m)].c_time > t
      /\ \A m, l \in M : Parent(m) = Parent(l) => m = l
      /\ \A x \in M \cup {at} : x = j \/ \E m \in M : Parent(m) = x
      /\ at = 0 \/ tab[Parent(at)].c_time <= t
  <2>1. ASSUME NEW m \in M
        PROVE  tab[Parent(m)].c_time > t
    <3>1. Parent(m) \in 0 .. n
      BY <1>4, <1>5
    <3>2. tab[Parent(m)].c_time \in Int
      BY <3>1, <1>1
    <3>3. QED
      BY <3>2, <1>1, <1>2 DEF PathUp
  <2>2. QED
    BY <2>1, <1>2 DEF PathUp
<1>7. \A x \in 0 .. n : new[x] = IF x = at THEN e ELSE IF x \in M THEN tab[Parent(x)] ELSE tab[x]
  BY <1>3
<1>8. Ordered(new, n)
  <2>1. SUFFICES ASSUME NEW c \in 1 .. n
                 PROVE  new[Parent(c)].c_time <= new[c].c_time
    BY DEF Ordered
  <2> DEFINE p == Parent(c)
  <2>2. p \in 0 .. n /\ p < c /\ c \in 0 .. n
    BY <1>4
  <2>3. CASE c = at
    <3>1. p \notin M /\ p # at
      BY <2>2, <2>3, <1>5
    <3>2. new[p] = tab[p] /\ new[c] = e
      BY <3>1, <2>2, <2>3, <1>7
    <3>3. QED
      BY <3>2, <2>3, <1>6
  <2>4. CASE c \in M
    <3>1. new[c] = tab[p] /\ p \in M \cup {at} /\ p # j /\ tab[p].c_time > t
      BY <2>2, <2>4, <1>5, <1>6, <1>7
    <3>2. CASE p = at
      <4>1. new[p] = e
        BY <3>2, <2>2, <1>7
      <4>2. QED
        BY <4>1, <3>1, <2>2, <1>1
    <3>3. CASE p \in M
      <4>1. new[p] = tab[Parent(p)] /\ Parent(p) # j /\ p \in 1 .. n
        BY <3>3, <2>2, <1>5, <1>6, <1>7
      <4>2. tab[Parent(p)].c_time <= tab[p].c_time
        BY <4>1, <3>1 DEF Hole
      <4>3. QED
        BY <4>1, <4>2, <3>1
    <3>4. QED
      BY <3>1, <3>2, <3>3
  <2>5. CASE c # at /\ c \notin M
    <3>1. new[c] = tab[c] /\ c # j
      BY <2>2, <2>5, <1>5, <1>7
    <3>2. CASE p # at /\ p \notin M
      <4>1. new[p] = tab[p] /\ p # j
        BY <3>2, <2>2, <1>5, <1>7
      <4>2. QED
        BY <4>1, <3>1 DEF Hole
    <3>3. CASE p = at
      <4>1. new[p] = e
        BY <3>3, <2>2, <1>7
      <4>2. CASE at = j
        BY <4>1, <4>2, <3>1, <3>3
      <4>3. CASE at # j
        <5>1. tab[at].c_time > t
          BY <4>3, <1>6
        <5>2. tab[p].c_time <= tab[c].c_time
          BY <4>3, <3>1, <3>3 DEF Hole
        <5>3. QED
          BY <5>1, <5>2, <4>1, <3>1, <3>3, <2>2, <1>1
      <4>4. QED
        BY <4>2, <4>3
    <3>4. CASE p \in M
      <4>1. new[p] = tab[Parent(p)] /\ p \in 1 .. n /\ Parent(p) # j /\ Parent(p) \in 0 .. n
        BY <3>4, <2>2, <1>4, <1>5, <1>6, <1>7
      <4>2. CASE p = j
        <5>1. tab[Parent(j)].c_time <= tab[c].c_time
          BY <4>1, <4>2 DEF Hole
        <5>2. QED
          BY <5>1, <4>1, <4>2, <3>1
      <4>3. CASE p # j
        <5>1. tab[Parent(p)].c_time <= tab[p].c_time
          BY <4>1, <4>3 DEF Hole
        <5>2. tab[p].c_time <= tab[c].c_time
          BY <3>1, <4>3 DEF Hole
        <5>3. QED
          BY <5>1, <5>2, <4>1, <3>1, <2>2, <1>1
      <4>4. QED
        BY <4>2, <4>3
    <3>5. QED
      BY <3>2, <3>3, <3>4
  <2>6. QED
    BY <2>3, <2>4, <2>5
<1>9. Moved(tab, n, j, e, new)
  <2> DEFINE s(x) == IF x \in M THEN Parent(x) ELSE x
  <2>1. ASSUME NEW x \in 0 .. n, x # at
        PROVE  s(x) \in 0 .. n /\ s(x) # j /\ new[x] = tab[s(x)]
    BY <2>1, <1>4, <1>5, <1>6, <1>7
  <2>2. ASSUME NEW y \in 0 .. n, y # j
        PROVE  \E x \in 0 .. n : x # at /\ s(x) = y
    <3>1. CASE y \in M \cup {at}
      <4>1. PICK m \in M : Parent(m) = y
        BY <3>1, <2>2, <1>6
      <4>2. QED
        BY <4>1, <1>5
    <3>2. CASE y \notin M \cup {at}
      BY <3>2
    <3>3. QED
      BY <3>1, <3>2
  <2>3. ASSUME NEW x \in 0 .. n, NEW z \in 0 .. n, x # at, z # at, s(x) = s(z)
        PROVE  x = z
    BY <2>3, <1>5, <1>6
  <2> HIDE DEF s
  <2>4. new[at] = e /\ at \in 0 .. n
    BY <1>5, <1>7
  <2>5. new \in [0 .. n -> Entry]
    <3>1. \A x \in 0 .. n : new[x] \in Entry
      BY <2>1, <2>4
    <3>2. new = [x \in 0 .. n |-> new[x]]
      BY <1>3
    <3>3. QED
      BY <3>1, <3>2
  <2>6. ASSUME \A y, z \in (0 .. n) \ {j} : tab[y].c_id = tab[z].c_id => y = z,
               \A y \in (0 .. n) \ {j} : tab[y].c_id # e.c_id
        PROVE  Distinct(new, n)
    <3>1. SUFFICES ASSUME NEW x \in 0 .. n, NEW z \in 0 .. n, new[x].c_id = new[z].c_id
                   PROVE  x = z
      BY DEF Distinct
    <3>2. CASE x = at /\ z # at
      BY <3>1, <3>2, <2>1, <2>4, <2>6
    <3>3. CASE x # at /\ z = at
      BY <3>1, <3>3, <2>1, <2>4, <2>6
    <3>4. CASE x # at /\ z # at
      <4>1. s(x) = s(z)
        BY <3>1, <3>4, <2>1, <2>6
      <4>2. QED
        BY <4>1, <3>4, <2>3
    <3>5. QED
      BY <3>2, <3>3, <3>4
  <2>7. QED
    BY <2>1, <2>2, <2>4, <2>5, <2>6 DEF Moved
<1>10. QED
  BY <1>8, <1>9 DEF new

\* The entry is put in its place on the way down.
LEMMA PlacedDown ==
    ASSUME NEW n \in Nat, NEW tab \in [0 .. n -> Entry], NEW e \in Entry, NEW j \in 0 .. n,
           Hole(tab, n, j),
           j > 0 => tab[Parent(j)].c_time <= e.c_time
    PROVE  LET new == Place(heap_down(tab, e.c_time, j), e)
           IN  Moved(tab, n, j, e, new) /\ Ordered(new, n)
<1> DEFINE t == e.c_time
           K(x) == SmallerChild(tab, x)
           new == Place(heap_down(tab, t, j), e)
<1>1. t \in Int /\ \A i \in 0 .. n : tab[i].c_time \in Int
  BY DEF Entry
<1>2. PICK at, M : PathDown(tab, t, n, j, at, M) /\ heap_down(tab, t, j) = DownResult(tab, n, at, M)
  <2>1. t \in Int
    BY <1>1
  <2> HIDE DEF t
  <2>2. QED
    BY <2>1, DownPath
<1>3. new = [x \in 0 .. n |-> IF x = at THEN e ELSE IF x \in M THEN tab[K(x)] ELSE tab[x]]
  <2>1. at \in 0 .. n
    BY <1>2 DEF PathDown
  <2>2. new = [[x \in 0 .. n |-> IF x \in M THEN tab[K(x)] ELSE tab[x]] EXCEPT ![at] = e]
    BY <1>2 DEF Place, UpResult, DownResult
  <2>3. QED
    BY <2>1, <2>2
<1> HIDE DEF new
<1>4. \A c \in 1 .. n : Parent(c) \in 0 .. n /\ Parent(c) < c
  BY Parents
<1>5. /\ at \in 0 .. n /\ M \subseteq 0 .. n /\ j \in M \cup {at} /\ at \notin M
      /\ \A m \in M : m < at /\ m >= j
  BY <1>2 DEF PathDown
<1>6. ASSUME NEW x \in 0 .. n, 2 * x + 1 <= n
      PROVE  /\ K(x) \in 1 .. n /\ K(x) > x /\ Parent(K(x)) = x
             /\ \A c \in 1 .. n : Parent(c) = x => tab[K(x)].c_time <= tab[c].c_time
  BY <1>6, Smaller
<1>7. /\ \A m \in M : /\ 2 * m + 1 <= n /\ K(m) \in M \cup {at}
                      /\ tab[K(m)].c_time < t
      /\ \A x \in M \cup {at} : x = j \/ (x \in 1 .. n /\ Parent(x) \in M /\ x = K(Parent(x)))
      /\ ~(2 * at + 1 <= n) \/ tab[K(at)].c_time >= t
  <2>1. ASSUME NEW m \in M
        PROVE  tab[K(m)].c_time < t
    <3>1. K(m) \in 0 .. n
      BY <1>2, <1>5, <1>6 DEF PathDown
    <3>2. tab[K(m)].c_time \in Int
      BY <3>1, <1>1
    <3>3. QED
      BY <3>2, <1>1, <1>2 DEF PathDown
  <2>2. QED
    BY <2>1, <1>2, <1>5 DEF PathDown
<1>8. \A x \in 0 .. n : new[x] = IF x = at THEN e ELSE IF x \in M THEN tab[K(x)] ELSE tab[x]
  BY <1>3
<1>9. \A c \in 1 .. n : 2 * Parent(c) + 1 <= n
  <2>1. SUFFICES ASSUME NEW c \in 1 .. n PROVE 2 * Parent(c) + 1 <= n
    OBVIOUS
  <2>2. c \in Nat \ {0}
    OBVIOUS
  <2>3. Parent(c) \in Nat /\ (c = 2 * Parent(c) + 1 \/ c = 2 * Parent(c) + 2)
    BY <2>2, Parents, Zenon
  <2>4. QED
    BY <2>3
<1>10. Ordered(new, n)
  <2> HIDE DEF K
  <2>1. SUFFICES ASSUME NEW c \in 1 .. n
                 PROVE  new[Parent(c)].c_time <= new[c].c_time
    BY DEF Ordered
  <2> DEFINE p == Parent(c)
  <2>2. p \in 0 .. n /\ p < c /\ c \in 0 .. n /\ 2 * p + 1 <= n
    BY <1>4, <1>9
  <2>3. CASE c = at
    <3>1. CASE at = j
      <4>1. p \notin M /\ p # at
        BY <3>1, <2>2, <2>3, <1>5
      <4>2. new[p] = tab[p] /\ new[c] = e
        BY <4>1, <2>2, <2>3, <1>8
      <4>3. QED
        BY <4>2, <3>1, <2>2, <2>3
    <3>2. CASE at # j
      <4>1. p \in M /\ at = K(p)
        BY <3>2, <2>3, <1>7
      <4>2. new[p] = tab[at] /\ new[c] = e /\ tab[at].c_time < t
        BY <4>1, <2>2, <2>3, <1>5, <1>7, <1>8
      <4>3. QED
        BY <4>2, <1>1, <1>5
    <3>3. QED
      BY <3>1, <3>2
  <2>4. CASE c \in M
    <3>1. new[c] = tab[K(c)] /\ K(c) \in 1 .. n /\ K(c) > c /\ Parent(K(c)) = c
      BY <2>2, <2>4, <1>5, <1>6, <1>7, <1>8
    <3>2. CASE c = j
      <4>1. p \notin M /\ p # at
        BY <3>2, <2>2, <1>5
      <4>2. new[p] = tab[p]
        BY <4>1, <2>2, <1>8
      <4>3. QED
        BY <4>2, <3>1, <3>2, <2>2 DEF Hole
    <3>3. CASE c # j
      <4>1. p \in M /\ c = K(p)
        BY <3>3, <2>4, <1>7
      <4>2. new[p] = tab[c]
        BY <4>1, <2>2, <1>5, <1>8
      <4>3. K(c) # j
        BY <3>1, <2>4, <1>5
      <4>4. tab[c].c_time <= tab[K(c)].c_time
        BY <4>3, <3>1, <3>3 DEF Hole
      <4>5. QED
        BY <4>2, <4>4, <3>1
    <3>4. QED
      BY <3>2, <3>3
  <2>5. CASE c # at /\ c \notin M
    <3>1. new[c] = tab[c] /\ c # j
      BY <2>2, <2>5, <1>5, <1>8
    <3>2. tab[K(p)].c_time <= tab[c].c_time /\ K(p) \in 0 .. n
      BY <2>2, <1>6
    <3>3. CASE p = at
      <4>1. new[p] = e /\ tab[K(p)].c_time >= t
        BY <3>3, <2>2, <1>7, <1>8
      <4>2. QED
        BY <4>1, <3>1, <3>2, <2>2, <1>1
    <3>4. CASE p \in M
      <4>1. new[p] = tab[K(p)]
        BY <3>4, <2>2, <1>5, <1>8
      <4>2. QED
        BY <4>1, <3>1, <3>2
    <3>5. CASE p # at /\ p \notin M
      <4>1. new[p] = tab[p] /\ p # j
        BY <3>5, <2>2, <1>5, <1>8
      <4>2. QED
        BY <4>1, <3>1 DEF Hole
    <3>6. QED
      BY <3>3, <3>4, <3>5
  <2>6. QED
    BY <2>3, <2>4, <2>5
<1>11. Moved(tab, n, j, e, new)
  <2> DEFINE s(x) == IF x \in M THEN K(x) ELSE x
  <2> HIDE DEF K
  <2>1. ASSUME NEW x \in 0 .. n, x # at
        PROVE  s(x) \in 0 .. n /\ s(x) # j /\ new[x] = tab[s(x)]
    BY <2>1, <1>5, <1>6, <1>7, <1>8
  <2>2. ASSUME NEW y \in 0 .. n, y # j
        PROVE  \E x \in 0 .. n : x # at /\ s(x) = y
    <3>1. CASE y \in M \cup {at}
      <4>1. Parent(y) \in M /\ y = K(Parent(y))
        BY <3>1, <2>2, <1>7
      <4>2. QED
        BY <4>1, <1>5
    <3>2. CASE y \notin M \cup {at}
      BY <3>2
    <3>3. QED
      BY <3>1, <3>2
  <2>3. ASSUME NEW x \in 0 .. n, NEW z \in 0 .. n, x # at, z # at, s(x) = s(z)
        PROVE  x = z
    <3>1. \A m, l \in M : K(m) = K(l) => m = l
      BY <1>5, <1>6, <1>7
    <3>2. QED
      BY <3>1, <2>3, <1>5, <1>7
  <2> HIDE DEF s
  <2>4. new[at] = e /\ at \in 0 .. n
    BY <1>5, <1>8
  <2>5. new \in [0 .. n -> Entry]
    <3>1. \A x \in 0 .. n : new[x] \in Entry
      BY <2>1, <2>4
    <3>2. new = [x \in 0 .. n |-> new[x]]
      BY <1>3
    <3>3. QED
      BY <3>1, <3>2
  <2>6. ASSUME \A y, z \in (0 .. n) \ {j} : tab[y].c_id = tab[z].c_id => y = z,
               \A y \in (0 .. n) \ {j} : tab[y].c_id # e.c_id
        PROVE  Distinct(new, n)
    <3>1. SUFFICES ASSUME NEW x \in 0 .. n, NEW z \in 0 .. n, new[x].c_id = new[z].c_id
                   PROVE  x = z
      BY DEF Distinct
    <3>2. CASE x = at /\ z # at
      BY <3>1, <3>2, <2>1, <2>4, <2>6
    <3>3. CASE x # at /\ z = at
      BY <3>1, <3>3, <2>1, <2>4, <2>6
    <3>4. CASE x # at /\ z # at
      <4>1. s(x) = s(z)
        BY <3>1, <3>4, <2>1, <2>6
      <4>2. QED
        BY <4>1, <3>4, <2>3
    <3>5. QED
      BY <3>2, <3>3, <3>4
  <2>7. QED
    BY <2>1, <2>2, <2>4, <2>5, <2>6 DEF Moved
<1>12. QED
  BY <1>10, <1>11 DEF new

(***************************************************************************)
(* The invariant.                                                          *)
(***************************************************************************)

\* No id is in the table twice, and all were handed out.
IdsSound == Distinct(callout, calllimit) /\ \A i \in 0 .. calllimit : callout[i].c_id <= timeid

CalloutInv == TypeOK /\ HeapOrder /\ IdsSound

\* Arithmetic on an int yields an integer.
LEMMA WrapInt ==
    ASSUME NEW x \in Int
    PROVE  Wrap(x) \in Int
<1> DEFINE h == 2^(IntBits - 1)
           w == 2^IntBits
<1>1. w \in Int /\ w > 0 /\ h \in Int
  BY CalloutAssumption
<1> HIDE DEF h, w
<1>2. ((x + h) % w) - h \in Int
  BY <1>1
<1>3. QED
  BY <1>2 DEF Wrap, h, w

\* What the table is once the entry f is out of it.
Deleted(f, new) ==
    /\ new \in [0 .. calllimit - 1 -> Entry]
    /\ Ordered(new, calllimit - 1)
    /\ Distinct(new, calllimit - 1)
    /\ \A x \in 0 .. calllimit - 1 : \E y \in 0 .. calllimit : y # f /\ new[x] = callout[y]
    /\ \A y \in 0 .. calllimit : y # f => \E x \in 0 .. calllimit - 1 : new[x] = callout[y]

\* The last entry takes the place of the one that is deleted, and moves up
\* or down from there: all other entries stay, and the heap is ordered.
LEMMA Deletion ==
    ASSUME CalloutInv, NEW f \in 0 .. calllimit
    PROVE  Deleted(f, UntimeoutTable(f))
<1> DEFINE n == calllimit - 1
           last == callout[calllimit]
           tab == AllButLast
<1>1. /\ calllimit \in Nat /\ callout \in [0 .. calllimit -> Entry] /\ last \in Entry
      /\ \A i \in 0 .. calllimit : callout[i].c_time \in Int
  BY DEF CalloutInv, TypeOK, Entry
<1>2. tab \in [0 .. n -> Entry] /\ \A i \in 0 .. n : tab[i] = callout[i]
  BY <1>1 DEF AllButLast
<1>3. \A i \in 1 .. calllimit : /\ Parent(i) \in 0 .. calllimit /\ Parent(i) < i
                               /\ callout[Parent(i)].c_time <= callout[i].c_time
  BY <1>1, Parents DEF CalloutInv, HeapOrder
<1>4. Distinct(callout, calllimit)
  BY DEF CalloutInv, IdsSound
<1>5. CASE f = calllimit
  <2>1. UntimeoutTable(f) = tab
    BY <1>5 DEF UntimeoutTable
  <2>2. Ordered(tab, n)
    BY <1>1, <1>2, <1>3 DEF Ordered
  <2>3. Distinct(tab, n)
    BY <1>1, <1>2, <1>4 DEF Distinct
  <2> HIDE DEF tab
  <2>4. QED
    BY <2>1, <2>2, <2>3, <1>1, <1>2, <1>5 DEF Deleted
<1>6. CASE f # calllimit
  <2>1. n \in Nat /\ f \in 0 .. n
    BY <1>1, <1>6
  <2> DEFINE up == Place(heap_up(tab, last.c_time, f), last)
             down == Place(heap_down(tab, last.c_time, f), last)
  <2>2. ASSUME NEW i \in 1 .. n
        PROVE  /\ i \in 1 .. calllimit /\ Parent(i) \in 0 .. n
               /\ tab[Parent(i)].c_time <= tab[i].c_time
               /\ tab[Parent(i)].c_time \in Int /\ tab[i].c_time \in Int
    BY <1>1, <1>2, <1>3
  <2>3. Hole(tab, n, f)
    <3> HIDE DEF tab, n
    <3>1. ASSUME NEW i \in 1 .. n, f > 0, Parent(i) = f
          PROVE  tab[Parent(f)].c_time <= tab[i].c_time
      <4>1. f \in 1 .. n
        BY <3>1, <2>1
      <4>2. QED
        BY <4>1, <3>1, <2>2
    <3>2. QED
      BY <3>1, <2>2 DEF Hole
  <2>4. ASSUME NEW new, Moved(tab, n, f, last, new), Ordered(new, n)
        PROVE  Deleted(f, new)
    <3>1. new \in [0 .. calllimit - 1 -> Entry] /\ Ordered(new, calllimit - 1)
      BY <2>4 DEF Moved
    <3>2. ASSUME NEW x \in 0 .. calllimit - 1
          PROVE  \E y \in 0 .. calllimit : y # f /\ new[x] = callout[y]
      <4> HIDE DEF tab
      <4>1. new[x] = last \/ \E y \in 0 .. n : y # f /\ new[x] = tab[y]
        BY <2>4 DEF Moved
      <4>2. calllimit \in 0 .. calllimit /\ calllimit # f /\ 0 .. n \subseteq 0 .. calllimit
        BY <1>1, <1>6
      <4>3. QED
        BY <4>1, <4>2, <1>2
    <3>3. ASSUME NEW y \in 0 .. calllimit, y # f
          PROVE  \E x \in 0 .. calllimit - 1 : new[x] = callout[y]
      <4> HIDE DEF tab
      <4>1. CASE y = calllimit
        BY <4>1, <2>4 DEF Moved
      <4>2. CASE y # calllimit
        <5>1. y \in 0 .. n
          BY <4>2, <1>1
        <5>2. QED
          BY <5>1, <3>3, <2>4, <1>2 DEF Moved
      <4>3. QED
        BY <4>1, <4>2
    <3>4. Distinct(new, calllimit - 1)
      <4> HIDE DEF tab
      <4>1. \A y, z \in (0 .. n) \ {f} : tab[y].c_id = tab[z].c_id => y = z
        BY <1>1, <1>2, <1>4 DEF Distinct
      <4>2. \A y \in (0 .. n) \ {f} : tab[y].c_id # last.c_id
        BY <1>1, <1>2, <1>4 DEF Distinct
      <4> HIDE DEF last
      <4>3. QED
        BY <4>1, <4>2, <2>4 DEF Moved
    <3>5. QED
      BY <3>1, <3>2, <3>3, <3>4 DEF Deleted
  <2>5. CASE f > 0 /\ callout[Parent(f)].c_time > last.c_time
    <3>1. UntimeoutTable(f) = up
      BY <2>5, <1>6 DEF UntimeoutTable
    <3>2. ASSUME NEW i \in 1 .. n, Parent(i) = f
          PROVE  last.c_time <= tab[i].c_time
      <4>1. f \in 1 .. n /\ Parent(f) \in 0 .. n
        BY <2>1, <2>2, <2>5
      <4>2. tab[Parent(f)].c_time > last.c_time
        BY <4>1, <2>5, <1>2
      <4>3. last.c_time \in Int
        BY <1>1
      <4> HIDE DEF tab, last
      <4>4. QED
        BY <4>1, <4>2, <4>3, <3>2, <2>2
    <3>3. Moved(tab, n, f, last, up) /\ Ordered(up, n)
      <4> HIDE DEF tab, last, n
      <4>1. QED
        BY <3>2, <2>1, <2>3, <1>1, <1>2, PlacedUp
    <3>4. QED
      BY <3>1, <3>3, <2>4
  <2>6. CASE ~(f > 0 /\ callout[Parent(f)].c_time > last.c_time)
    <3>1. UntimeoutTable(f) = down
      BY <2>6, <1>6 DEF UntimeoutTable
    <3>2. f > 0 => tab[Parent(f)].c_time <= last.c_time
      <4>1. SUFFICES ASSUME f > 0 PROVE tab[Parent(f)].c_time <= last.c_time
        OBVIOUS
      <4>2. Parent(f) \in 0 .. n /\ Parent(f) \in 0 .. calllimit
        BY <4>1, <2>1, <2>2, <1>1
      <4>3. callout[Parent(f)].c_time \in Int /\ last.c_time \in Int
        BY <4>2, <1>1
      <4>4. QED
        BY <4>1, <4>2, <4>3, <2>6, <1>2
    <3>3. Moved(tab, n, f, last, down) /\ Ordered(down, n)
      <4> HIDE DEF tab, last, n
      <4>1. QED
        BY <3>2, <2>1, <2>3, <1>1, <1>2, PlacedDown
    <3>4. QED
      BY <3>1, <3>3, <2>4
  <2>7. QED
    BY <2>5, <2>6
<1>7. QED
  BY <1>5, <1>6

\* What Timeout does: the new entry is in the table, with the others.
LEMMA Insertion ==
    ASSUME CalloutInv, NEW tim \in Delays, Timeout(tim)
    PROVE  LET e == [c_time |-> Wrap(lbolt + tim), c_id |-> timeid + 1, due |-> now + tim]
           IN  /\ e \in Entry
               /\ callout' \in [0 .. calllimit' -> Entry]
               /\ Ordered(callout', calllimit')
               /\ Distinct(callout', calllimit')
               /\ \A x \in 0 .. calllimit' :
                     callout'[x] = e \/ \E y \in 0 .. calllimit : callout'[x] = callout[y]
               /\ \A y \in 0 .. calllimit : \E x \in 0 .. calllimit' : callout'[x] = callout[y]
               /\ \E x \in 0 .. calllimit' : callout'[x] = e
<1> DEFINE t == Wrap(lbolt + tim)
           j == calllimit + 1
           e == [c_time |-> t, c_id |-> timeid + 1, due |-> now + tim]
           grown == [i \in 0 .. j |-> IF i < j THEN callout[i] ELSE e]
           new == Place(heap_up(grown, t, j), e)
<1>1. /\ calllimit \in -1 .. v_call - 1 /\ callout \in [0 .. calllimit -> Entry]
      /\ timeid \in 0 .. MaxTimeid /\ timeid < MaxTimeid /\ MaxTimeid \in Nat
      /\ lbolt \in Int /\ now \in Nat /\ tim \in Nat /\ v_call \in Nat
  BY CalloutAssumption DEF CalloutInv, TypeOK, Timeout
<1>2. t \in Int
  BY <1>1, WrapInt
<1>3. e \in Entry
  BY <1>1, <1>2 DEF Entry
<1>4. calllimit' = j /\ callout' = new
  BY DEF Timeout
<1>5. e.c_time = t /\ e.c_id = timeid + 1
  OBVIOUS
<1> HIDE DEF e
<1>6. j \in Nat /\ j \in 0 .. j /\ grown \in [0 .. j -> Entry]
  BY <1>1, <1>3
<1>7. /\ \A i \in 0 .. j : i # j => i \in 0 .. calllimit /\ grown[i] = callout[i]
      /\ \A i \in 0 .. calllimit : i \in 0 .. j /\ i # j
  BY <1>1
<1> HIDE DEF grown
<1>8. \A i \in 1 .. j : Parent(i) \in 0 .. j /\ Parent(i) < j /\ Parent(i) # j
  BY <1>6, Parents
<1>9. Hole(grown, j, j)
  <2>1. ASSUME NEW i \in 1 .. j, i # j
        PROVE  grown[Parent(i)].c_time <= grown[i].c_time
    <3>1. i \in 1 .. calllimit /\ i \in 0 .. j
      BY <2>1, <1>1
    <3>2. callout[Parent(i)].c_time <= callout[i].c_time
      BY <3>1 DEF CalloutInv, HeapOrder
    <3>3. QED
      BY <3>1, <3>2, <2>1, <1>7, <1>8
  <2> HIDE DEF j
  <2>2. QED
    BY <2>1, <1>8 DEF Hole
<1>10. Moved(grown, j, j, e, new) /\ Ordered(new, j)
  <2> HIDE DEF j, t
  <2>1. QED
    BY <1>3, <1>5, <1>6, <1>8, <1>9, PlacedUp
<1> HIDE DEF new
<1>11. Distinct(new, j)
  <2>1. \A y, z \in (0 .. j) \ {j} : grown[y].c_id = grown[z].c_id => y = z
    BY <1>7 DEF CalloutInv, IdsSound, Distinct
  <2>2. \A y \in (0 .. j) \ {j} : grown[y].c_id # e.c_id
    <3>1. SUFFICES ASSUME NEW y \in (0 .. j) \ {j} PROVE grown[y].c_id # e.c_id
      OBVIOUS
    <3>2. y \in 0 .. calllimit /\ grown[y] = callout[y]
      BY <3>1, <1>7
    <3>3. callout[y].c_id <= timeid /\ callout[y].c_id \in Int
      BY <3>2, <1>1 DEF CalloutInv, IdsSound, Entry
    <3>4. QED
      BY <3>2, <3>3, <1>1, <1>5
  <2> HIDE DEF j
  <2>3. QED
    BY <2>1, <2>2, <1>10 DEF Moved
<1>12. /\ new \in [0 .. j -> Entry]
       /\ \A x \in 0 .. j : new[x] = e \/ \E y \in 0 .. calllimit : new[x] = callout[y]
       /\ \A y \in 0 .. calllimit : \E x \in 0 .. j : new[x] = callout[y]
       /\ \E x \in 0 .. j : new[x] = e
  <2> HIDE DEF j
  <2>1. QED
    BY <1>7, <1>10, SMTT(30) DEF Moved
<1>13. QED
  <2> HIDE DEF j
  <2>1. e \in Entry
    BY <1>3
  <2>2. QED
    BY <2>1, <1>4, <1>10, <1>11, <1>12 DEF e

\* The invariant holds at the start.
LEMMA InitInv ==
    Init => CalloutInv
<1> SUFFICES ASSUME Init PROVE CalloutInv
  OBVIOUS
<1>1. TypeOK
  <2>1. callout \in [0 .. calllimit -> Entry]
    <3>1. \A i \in 0 .. calllimit : callout[i] \in Entry
      BY DEF Init
    <3>2. callout = [i \in 0 .. calllimit |-> 0]
      BY DEF Init
    <3>3. QED
      BY <3>1, <3>2
  <2>2. calllimit \in -1 .. (v_call - 1) /\ timeid \in 0 .. MaxTimeid /\ lbolt \in Int
        /\ now \in 0 .. MaxNow
    BY CalloutAssumption DEF Init
  <2>3. QED
    BY <2>1, <2>2 DEF Init, TypeOK
<1>2. HeapOrder
  BY DEF Init, HeapOrder
<1>3. IdsSound
  BY DEF Init, IdsSound, Distinct
<1>4. QED
  BY <1>1, <1>2, <1>3 DEF CalloutInv

\* Deleting an entry keeps the invariant, however the histories grow.
LEMMA DeletionInv ==
    ASSUME CalloutInv, NEW f \in 0 .. calllimit, callout' = UntimeoutTable(f),
           calllimit' = calllimit - 1,
           UNCHANGED <<timeid, lbolt, dotimein, intimein, panic, now>>,
           called' \subseteq 1 .. MaxTimeid, cancelled' \subseteq 1 .. MaxTimeid
    PROVE  CalloutInv'
<1>1. Deleted(f, callout')
  BY Deletion
<1>2. TypeOK /\ calllimit \in Nat
  BY DEF CalloutInv, TypeOK
<1>3. TypeOK'
  <2>1. callout' \in [0 .. calllimit' -> Entry]
    BY <1>1 DEF Deleted
  <2>2. calllimit' \in -1 .. (v_call - 1)
    BY <1>2, CalloutAssumption DEF TypeOK
  <2>3. QED
    BY <1>2, <2>1, <2>2 DEF TypeOK
<1>4. HeapOrder'
  BY <1>1 DEF Deleted, Ordered, HeapOrder
<1>5. IdsSound'
  <2>1. Distinct(callout', calllimit')
    BY <1>1 DEF Deleted
  <2>2. ASSUME NEW x \in 0 .. calllimit'
        PROVE  callout'[x].c_id <= timeid'
    <3>1. PICK y \in 0 .. calllimit : callout'[x] = callout[y]
      BY <1>1 DEF Deleted
    <3>2. QED
      BY <3>1 DEF CalloutInv, IdsSound
  <2>3. Distinct(callout, calllimit)'
    BY <2>1 DEF Distinct
  <2>4. QED
    BY <2>2, <2>3 DEF IdsSound
<1>6. QED
  BY <1>3, <1>4, <1>5 DEF CalloutInv

\* timein() deletes the entry 0 as untimeout() would.
LEMMA TimeinDeletes ==
    ASSUME CalloutInv, TimeinCall
    PROVE  0 \in 0 .. calllimit /\ callout' = UntimeoutTable(0) /\ calllimit' = calllimit - 1
  BY DEF CalloutInv, TypeOK, TimeinCall, HeadDue, UntimeoutTable

\* Every step keeps the invariant.
LEMMA NextInv ==
    CalloutInv /\ [Next]_vars => CalloutInv'
<1> SUFFICES ASSUME CalloutInv, [Next]_vars PROVE CalloutInv'
  OBVIOUS
<1>1. ASSUME NEW tim \in Delays, Timeout(tim)
      PROVE  CalloutInv'
  <2>1. TypeOK'
    <3>1. callout' \in [0 .. calllimit' -> Entry]
      BY <1>1, Insertion
    <3>2. TypeOK
      BY DEF CalloutInv
    <3>3. calllimit' \in -1 .. (v_call - 1)
      BY <3>2, <1>1, CalloutAssumption DEF TypeOK, Timeout
    <3>4. timeid' \in 0 .. MaxTimeid
      BY <3>2, <1>1, CalloutAssumption DEF TypeOK, Timeout
    <3>5. UNCHANGED <<lbolt, dotimein, intimein, panic, now, called, cancelled>>
      BY <1>1 DEF Timeout
    <3>6. QED
      BY <3>1, <3>2, <3>3, <3>4, <3>5 DEF TypeOK
  <2>2. HeapOrder'
    BY <1>1, Insertion DEF Ordered, HeapOrder
  <2>3. Distinct(callout, calllimit)'
    BY <1>1, Insertion DEF Distinct
  <2>4. ASSUME NEW x \in 0 .. calllimit'
        PROVE  callout'[x].c_id <= timeid'
    <3> DEFINE e == [c_time |-> Wrap(lbolt + tim), c_id |-> timeid + 1, due |-> now + tim]
    <3>1. timeid' = timeid + 1 /\ timeid \in Int
      BY <1>1 DEF Timeout, CalloutInv, TypeOK
    <3>2. callout'[x] = e \/ \E y \in 0 .. calllimit : callout'[x] = callout[y]
      BY <1>1, Insertion
    <3>3. CASE callout'[x] = e
      BY <3>1, <3>3
    <3>4. CASE \E y \in 0 .. calllimit : callout'[x] = callout[y]
      <4>1. PICK y \in 0 .. calllimit : callout'[x] = callout[y]
        BY <3>4
      <4>2. callout[y].c_id <= timeid /\ callout[y].c_id \in Int
        BY DEF CalloutInv, IdsSound, TypeOK, Entry
      <4>3. QED
        BY <4>1, <4>2, <3>1
    <3>5. QED
      BY <3>2, <3>3, <3>4
  <2>5. QED
    BY <2>1, <2>2, <2>3, <2>4 DEF CalloutInv, IdsSound
<1>2. ASSUME NEW id \in 1 .. MaxTimeid, Untimeout(id)
      PROVE  CalloutInv'
  <2>1. PICK f \in 0 .. calllimit : callout' = UntimeoutTable(f) /\ calllimit' = calllimit - 1
    BY <1>2 DEF Untimeout
  <2>2. /\ UNCHANGED <<timeid, lbolt, dotimein, intimein, panic, now>>
        /\ called' \subseteq 1 .. MaxTimeid /\ cancelled' \subseteq 1 .. MaxTimeid
    BY <1>2 DEF Untimeout, CalloutInv, TypeOK
  <2>3. QED
    BY <2>1, <2>2, DeletionInv
<1>3. CASE TimeinCall
  <2>1. 0 \in 0 .. calllimit /\ callout' = UntimeoutTable(0) /\ calllimit' = calllimit - 1
    BY <1>3, TimeinDeletes
  <2>2. callout[0].c_id \in 1 .. MaxTimeid
    BY <2>1 DEF CalloutInv, TypeOK, Entry
  <2>3. /\ UNCHANGED <<timeid, lbolt, dotimein, intimein, panic, now>>
        /\ called' \subseteq 1 .. MaxTimeid /\ cancelled' \subseteq 1 .. MaxTimeid
    BY <2>2, <1>3 DEF TimeinCall, CalloutInv, TypeOK
  <2>4. QED
    BY <2>1, <2>3, DeletionInv
<1>4. ASSUME UNCHANGED <<callout, calllimit, timeid>>, TypeOK'
      PROVE  CalloutInv'
  BY <1>4 DEF CalloutInv, HeapOrder, IdsSound, Distinct
<1>5. CASE Clock
  <2>1. lbolt \in Int /\ now \in 0 .. MaxNow /\ now < MaxNow /\ MaxNow \in Nat
    BY <1>5, CalloutAssumption DEF Clock, CalloutInv, TypeOK
  <2>2. lbolt' \in Int /\ now' \in 0 .. MaxNow
    BY <2>1, <1>5, WrapInt DEF Clock
  <2>3. dotimein' \in BOOLEAN
    BY <1>5 DEF Clock, CalloutInv, TypeOK
  <2>4. UNCHANGED <<callout, calllimit, timeid, intimein, panic, called, cancelled>>
    BY <1>5 DEF Clock
  <2>5. TypeOK'
    BY <2>2, <2>3, <2>4 DEF CalloutInv, TypeOK
  <2>6. QED
    BY <2>4, <2>5, <1>4
<1>6. CASE TimeoutOverflow \/ TimeinEnter \/ TimeinLeave \/ UNCHANGED vars
  <2>1. /\ UNCHANGED <<callout, calllimit, timeid, lbolt, now, called, cancelled>>
        /\ dotimein' \in BOOLEAN /\ intimein' \in BOOLEAN /\ panic' \in BOOLEAN
    BY <1>6 DEF TimeoutOverflow, TimeinEnter, TimeinLeave, vars, CalloutInv, TypeOK
  <2>2. TypeOK'
    BY <2>1 DEF CalloutInv, TypeOK
  <2>3. QED
    BY <2>1, <2>2, <1>4
<1>7. QED
  BY <1>1, <1>2, <1>3, <1>5, <1>6 DEF Next

(***************************************************************************)
(* Theorems.                                                               *)
(***************************************************************************)

\* The invariant of the callout table: types, the heap, and one entry per id.
THEOREM Invariant ==
    Spec => []CalloutInv
<1>1. QED
  BY InitInv, NextInv, PTL DEF Spec

\* Every variable has its type, for every size of the table.
THEOREM Typed ==
    Spec => []TypeOK
<1>1. CalloutInv => TypeOK
  BY DEF CalloutInv
<1>2. QED
  BY <1>1, Invariant, PTL

\* The callout table is a heap after every timeout(), untimeout() and
\* timein(), for every size of the table and every order of the calls, even
\* if lbolt wraps: c_time is compared as the int that it is.
THEOREM Heap ==
    Spec => []HeapOrder
<1>1. CalloutInv => HeapOrder
  BY DEF CalloutInv
<1>2. QED
  BY <1>1, Invariant, PTL

(***************************************************************************)
(* The table implements Timers, as long as no time that is computed wraps. *)
(***************************************************************************)

\* lbolt and all times that timeout() computes fit an int.
NoWrap ==
    \A n \in 0 .. MaxNow, d \in Delays \cup {0} : Wrap(Lbolt0 + n + d) = Lbolt0 + n + d

\* lbolt counts the ticks, and c_time says when the entry is due.
TimesExact ==
    /\ lbolt = Lbolt0 + now
    /\ \A i \in 0 .. calllimit : callout[i].c_time = Lbolt0 + callout[i].due

\* The first entry of a heap is an earliest one.
LEMMA FirstEarliest ==
    ASSUME TypeOK, HeapOrder
    PROVE  \A i \in 0 .. calllimit : callout[0].c_time <= callout[i].c_time
<1> DEFINE S == {i \in 0 .. calllimit : callout[0].c_time <= callout[i].c_time}
<1>1. calllimit \in Int /\ \A i \in 0 .. calllimit : callout[i].c_time \in Int
  BY DEF TypeOK, Entry
<1>2. ASSUME NEW i \in 0 .. calllimit, \A m \in 0 .. i - 1 : m \in S
      PROVE  i \in S
  <2>1. CASE i = 0
    BY <2>1, <1>1
  <2>2. CASE i # 0
    <3>1. i \in Nat \ {0} /\ i \in 1 .. calllimit
      BY <2>2, <1>1
    <3>2. Parent(i) \in Nat /\ Parent(i) < i
      BY <3>1, Parents, Zenon
    <3>3. Parent(i) \in 0 .. i - 1 /\ Parent(i) \in 0 .. calllimit /\ 0 \in 0 .. calllimit
      BY <3>1, <3>2, <1>1
    <3>4. callout[0].c_time <= callout[Parent(i)].c_time
      BY <3>3, <1>2
    <3>5. callout[Parent(i)].c_time <= callout[i].c_time
      BY <3>1 DEF HeapOrder
    <3>6. callout[0].c_time <= callout[i].c_time
      BY <3>3, <3>4, <3>5, <1>1
    <3>7. QED
      BY <3>6
  <2>3. QED
    BY <2>1, <2>2
<1>3. CASE calllimit < 0
  BY <1>3, <1>1
<1>4. CASE calllimit >= 0
  <2>1. calllimit \in Nat
    BY <1>4, <1>1
  <2> HIDE DEF S
  <2>2. \A i \in 0 .. calllimit : i \in S
    BY <2>1, <1>2, Complete
  <2>3. QED
    BY <2>2 DEF S
<1>5. QED
  BY <1>1, <1>3, <1>4

\* Times stay exact.
LEMMA NextExact ==
    ASSUME NoWrap
    PROVE  CalloutInv /\ TimesExact /\ [Next]_vars => TimesExact'
<1> SUFFICES ASSUME CalloutInv, TimesExact, [Next]_vars PROVE TimesExact'
  OBVIOUS
<1>0. /\ now \in 0 .. MaxNow /\ lbolt = Lbolt0 + now /\ MaxNow \in Nat /\ Lbolt0 \in Int
      /\ Delays \subseteq Nat
  BY CalloutAssumption DEF CalloutInv, TypeOK, TimesExact
<1>1. ASSUME NEW tim \in Delays, Timeout(tim)
      PROVE  TimesExact'
  <2> DEFINE e == [c_time |-> Wrap(lbolt + tim), c_id |-> timeid + 1, due |-> now + tim]
  <2>0. tim \in Delays \cup {0} /\ tim \in Nat
    BY <1>0
  <2>1. Wrap(lbolt + tim) = Lbolt0 + (now + tim)
    <3>1. lbolt + tim = Lbolt0 + now + tim /\ Lbolt0 + (now + tim) = Lbolt0 + now + tim
      BY <1>0, <2>0
    <3>2. Wrap(Lbolt0 + now + tim) = Lbolt0 + now + tim
      BY <1>0, <2>0, Zenon DEF NoWrap
    <3>3. QED
      BY <3>1, <3>2
  <2>2. e.c_time = Lbolt0 + e.due
    BY <2>1
  <2>3. lbolt' = lbolt /\ now' = now
    BY <1>1 DEF Timeout
  <2>4. ASSUME NEW x \in 0 .. calllimit'
        PROVE  callout'[x].c_time = Lbolt0 + callout'[x].due
    <3>1. callout'[x] = e \/ \E y \in 0 .. calllimit : callout'[x] = callout[y]
      BY <1>1, Insertion
    <3> HIDE DEF e
    <3>2. QED
      BY <3>1, <2>2 DEF TimesExact
  <2>5. QED
    BY <2>3, <2>4 DEF TimesExact
<1>2. ASSUME NEW f \in 0 .. calllimit, callout' = UntimeoutTable(f), calllimit' = calllimit - 1,
             UNCHANGED <<lbolt, now>>
      PROVE  TimesExact'
  <2>1. Deleted(f, callout')
    BY <1>2, Deletion
  <2>2. QED
    BY <2>1, <1>2, ZenonT(60) DEF TimesExact, Deleted
<1>3. ASSUME NEW id \in 1 .. MaxTimeid, Untimeout(id)
      PROVE  TimesExact'
  <2>1. PICK f \in 0 .. calllimit : callout' = UntimeoutTable(f) /\ calllimit' = calllimit - 1
    BY <1>3 DEF Untimeout
  <2>2. UNCHANGED <<lbolt, now>>
    BY <1>3 DEF Untimeout
  <2>3. QED
    BY <2>1, <2>2, <1>2
<1>4. CASE TimeinCall
  <2>1. UNCHANGED <<lbolt, now>>
    BY <1>4 DEF TimeinCall
  <2>2. QED
    BY <2>1, <1>2, <1>4, TimeinDeletes
<1>5. CASE Clock
  <2>1. now + 1 \in 0 .. MaxNow /\ lbolt' = Wrap(lbolt + 1) /\ now' = now + 1
    BY <1>0, <1>5 DEF Clock
  <2>2. Wrap(Lbolt0 + (now + 1) + 0) = Lbolt0 + (now + 1) + 0
    BY <2>1 DEF NoWrap
  <2>3. lbolt + 1 = Lbolt0 + (now + 1) + 0 /\ Lbolt0 + (now + 1) + 0 = Lbolt0 + (now + 1)
    BY <1>0
  <2>4. lbolt' = Lbolt0 + now'
    BY <2>1, <2>2, <2>3
  <2>5. UNCHANGED <<callout, calllimit>>
    BY <1>5 DEF Clock
  <2>6. QED
    BY <2>4, <2>5 DEF TimesExact
<1>6. CASE TimeoutOverflow \/ TimeinEnter \/ TimeinLeave \/ UNCHANGED vars
  BY <1>6 DEF TimeoutOverflow, TimeinEnter, TimeinLeave, vars, TimesExact
<1>7. QED
  BY <1>1, <1>3, <1>4, <1>5, <1>6 DEF Next

Timer(e) == [id |-> e.c_id, due |-> e.due]

\* The timers of a table from which an entry was deleted.
LEMMA PendingLess ==
    ASSUME CalloutInv, NEW f \in 0 .. calllimit, callout' = UntimeoutTable(f),
           calllimit' = calllimit - 1
    PROVE  Timer(callout[f]) \in Pending /\ Pending' = Pending \ {Timer(callout[f])}
<1>1. Deleted(f, callout')
  BY Deletion
<1>2. Pending = {Timer(callout[i]) : i \in 0 .. calllimit}
  BY DEF Pending, Timer
<1>3. Pending' = {Timer(callout'[i]) : i \in 0 .. calllimit - 1}
  BY DEF Pending, Timer
<1>4. \A y \in 0 .. calllimit : Timer(callout[y]) = Timer(callout[f]) => y = f
  <2>1. SUFFICES ASSUME NEW y \in 0 .. calllimit, Timer(callout[y]) = Timer(callout[f])
                 PROVE  y = f
    OBVIOUS
  <2>2. callout[y].c_id = callout[f].c_id
    BY <2>1 DEF Timer
  <2>3. QED
    BY <2>2 DEF CalloutInv, IdsSound, Distinct
<1>5. Pending' \subseteq Pending \ {Timer(callout[f])}
  <2>1. SUFFICES ASSUME NEW x \in 0 .. calllimit - 1
                 PROVE  Timer(callout'[x]) \in Pending \ {Timer(callout[f])}
    BY <1>3
  <2>2. PICK y \in 0 .. calllimit : y # f /\ callout'[x] = callout[y]
    BY <1>1 DEF Deleted
  <2>3. QED
    BY <2>2, <1>2, <1>4
<1>6. Pending \ {Timer(callout[f])} \subseteq Pending'
  <2>1. SUFFICES ASSUME NEW y \in 0 .. calllimit, Timer(callout[y]) # Timer(callout[f])
                 PROVE  Timer(callout[y]) \in Pending'
    BY <1>2
  <2>2. PICK x \in 0 .. calllimit - 1 : callout'[x] = callout[y]
    BY <2>1, <1>1 DEF Deleted
  <2>3. QED
    BY <2>2, <1>3
<1>7. QED
  BY <1>2, <1>5, <1>6

\* The timers of a table into which an entry was put.
LEMMA PendingMore ==
    ASSUME CalloutInv, NEW tim \in Delays, Timeout(tim)
    PROVE  Pending' = Pending \cup {[id |-> timeid + 1, due |-> now + tim]}
<1> DEFINE e == [c_time |-> Wrap(lbolt + tim), c_id |-> timeid + 1, due |-> now + tim]
<1>1. /\ \A x \in 0 .. calllimit' :
            callout'[x] = e \/ \E y \in 0 .. calllimit : callout'[x] = callout[y]
      /\ \A y \in 0 .. calllimit : \E x \in 0 .. calllimit' : callout'[x] = callout[y]
      /\ \E x \in 0 .. calllimit' : callout'[x] = e
  BY Insertion
<1>2. Pending = {Timer(callout[i]) : i \in 0 .. calllimit}
  BY DEF Pending, Timer
<1>3. Pending' = {Timer(callout'[i]) : i \in 0 .. calllimit'}
  BY DEF Pending, Timer
<1>4. Timer(e) = [id |-> timeid + 1, due |-> now + tim]
  BY DEF Timer
<1> HIDE DEF e
<1>5. Pending' = Pending \cup {Timer(e)}
  BY <1>1, <1>2, <1>3
<1>6. QED
  BY <1>4, <1>5

\* An initial table is an initial set of timers.
LEMMA InitRefines ==
    Init => Abstract!Init /\ TimesExact
<1> SUFFICES ASSUME Init PROVE Abstract!Init /\ TimesExact
  OBVIOUS
<1>1. Pending = {}
  BY DEF Init, Pending
<1>2. Abstract!Init
  BY <1>1 DEF Init, Abstract!Init
<1>3. TimesExact
  BY CalloutAssumption DEF Init, TimesExact
<1>4. QED
  BY <1>2, <1>3

\* Every step arms, cancels or makes one call, counts a tick, or changes
\* nothing that the users of the table see.
LEMMA NextRefines ==
    CalloutInv /\ TimesExact /\ [Next]_vars => [Abstract!Next]_(Abstract!vars)
<1> SUFFICES ASSUME CalloutInv, TimesExact, [Next]_vars PROVE [Abstract!Next]_(Abstract!vars)
  OBVIOUS
<1>1. ASSUME NEW tim \in Delays, Timeout(tim)
      PROVE  Abstract!Arm
  <2>1. Pending' = Pending \cup {[id |-> timeid + 1, due |-> now + tim]}
    BY <1>1, PendingMore
  <2>2. now \in 0 .. MaxNow /\ now + tim >= now
    BY CalloutAssumption DEF CalloutInv, TypeOK
  <2>3. now + tim \in {n + d : n \in 0 .. MaxNow, d \in Delays}
    BY <2>2
  <2>4. timeid' = timeid + 1 /\ UNCHANGED <<called, cancelled, now>>
    BY <1>1 DEF Timeout
  <2>5. QED
    BY <2>1, <2>2, <2>3, <2>4 DEF Abstract!Arm
<1>2. ASSUME NEW id \in 1 .. MaxTimeid, Untimeout(id)
      PROVE  Abstract!Cancel
  <2>1. PICK f \in 0 .. calllimit : /\ callout[f].c_id = id /\ callout' = UntimeoutTable(f)
                                   /\ calllimit' = calllimit - 1
    BY <1>2 DEF Untimeout
  <2>2. Timer(callout[f]) \in Pending /\ Pending' = Pending \ {Timer(callout[f])}
    BY <2>1, PendingLess
  <2>3. Timer(callout[f]).id = id
    BY <2>1 DEF Timer
  <2>4. cancelled' = cancelled \cup {id} /\ UNCHANGED <<called, now, timeid>>
    BY <1>2 DEF Untimeout
  <2>5. QED
    BY <2>2, <2>3, <2>4 DEF Abstract!Cancel
<1>3. CASE TimeinCall
  <2>1. 0 \in 0 .. calllimit /\ callout' = UntimeoutTable(0) /\ calllimit' = calllimit - 1
    BY <1>3, TimeinDeletes
  <2>2. Timer(callout[0]) \in Pending /\ Pending' = Pending \ {Timer(callout[0])}
    BY <2>1, PendingLess
  <2>3. \A i \in 0 .. calllimit : /\ callout[i].due \in Nat
                                  /\ callout[i].c_time = Lbolt0 + callout[i].due
    BY DEF CalloutInv, TypeOK, TimesExact, Entry
  <2>4. lbolt = Lbolt0 + now /\ Lbolt0 \in Int /\ now \in Int
    BY CalloutAssumption DEF CalloutInv, TypeOK, TimesExact
  <2>5. callout[0].due <= now
    <3>1. callout[0].c_time <= lbolt
      BY <1>3 DEF TimeinCall, HeadDue
    <3>2. QED
      BY <3>1, <2>1, <2>3, <2>4
  <2>6. ASSUME NEW other \in Pending
        PROVE  callout[0].due <= other.due
    <3>1. PICK i \in 0 .. calllimit : other = [id |-> callout[i].c_id, due |-> callout[i].due]
      BY DEF Pending
    <3>2. callout[0].c_time <= callout[i].c_time
      BY FirstEarliest DEF CalloutInv
    <3>3. callout[0].due <= callout[i].due
      BY <3>2, <2>1, <2>3, <2>4
    <3>4. QED
      BY <3>1, <3>3
  <2>7. Timer(callout[0]).id = callout[0].c_id /\ Timer(callout[0]).due = callout[0].due
    BY DEF Timer
  <2>8. called' = called \cup {callout[0].c_id} /\ UNCHANGED <<cancelled, now, timeid>>
    BY <1>3 DEF TimeinCall
  <2>9. QED
    BY <2>2, <2>5, <2>6, <2>7, <2>8 DEF Abstract!Call, Abstract!Next
<1>4. CASE Clock
  <2>1. now' = now + 1 /\ UNCHANGED <<called, cancelled, timeid>>
    BY <1>4 DEF Clock
  <2>2. Pending' = Pending
    BY <1>4 DEF Clock, Pending
  <2>3. QED
    BY <2>1, <2>2 DEF Abstract!Tick, Abstract!Next
<1>5. CASE TimeoutOverflow \/ TimeinEnter \/ TimeinLeave \/ UNCHANGED vars
  <2>1. UNCHANGED <<callout, calllimit, timeid, now, called, cancelled>>
    BY <1>5 DEF TimeoutOverflow, TimeinEnter, TimeinLeave, vars
  <2>2. Pending' = Pending
    BY <2>1 DEF Pending
  <2>3. UNCHANGED Abstract!vars
    BY <2>1, <2>2 DEF Abstract!vars
  <2>4. QED
    BY <2>3
<1>6. QED
  BY <1>1, <1>2, <1>3, <1>4, <1>5 DEF Next, Abstract!Next

\* The callout table implements Timers as long as no time wraps: for every
\* size of the table, calls are made once, when they are due, the earliest
\* first, unless they were cancelled, and moving entries about in the heap
\* loses or duplicates none.
THEOREM Implements ==
    ASSUME NoWrap
    PROVE  Spec => ImplementsTimers
<1>1. Init => CalloutInv /\ TimesExact /\ Abstract!Init
  BY InitInv, InitRefines
<1>2. CalloutInv /\ TimesExact /\ [Next]_vars => CalloutInv' /\ TimesExact'
  BY NextInv, NextExact
<1>3. CalloutInv /\ TimesExact /\ [Next]_vars => [Abstract!Next]_(Abstract!vars)
  BY NextRefines
<1>4. QED
  BY <1>1, <1>2, <1>3, PTL DEF Spec, ImplementsTimers, Abstract!Spec
=============================================================================

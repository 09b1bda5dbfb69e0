-------------------------------- MODULE Rmap --------------------------------
(***************************************************************************)
(* The kernel's resource maps (os/malloc.c): a table of free extents in    *)
(* increasing order, first-fit allocation, and freeing that combines an    *)
(* extent with its neighbours.  A map is a record: ext, the extents up to  *)
(* the one of size 0; slots, mapsize(), the table entries left; want,      *)
(* whether mapwant() is set.                                               *)
(***************************************************************************)
EXTENDS Integers, Sequences, FiniteSets

Extent == [addr : Nat, size : Nat \ {0}]

\* mapinit().
mapinit(entries) == [ext |-> <<>>, slots |-> entries - 2, want |-> FALSE]

Fits(map, size) == {i \in DOMAIN map.ext : map.ext[i].size >= size}
First(S) == CHOOSE i \in S : \A j \in S : i <= j

\* The table without entry i.
Closed(ext, i) == SubSeq(ext, 1, i - 1) \o SubSeq(ext, i + 1, Len(ext))

\* The table with e behind entry n.
Opened(ext, n, e) == SubSeq(ext, 1, n) \o <<e>> \o SubSeq(ext, n + 1, Len(ext))

\* What is left of an extent e behind its first size units.
Behind(e, size) == [addr |-> e.addr + size, size |-> e.size - size]

\* rmalloc(): the base of the first extent that is large enough, or 0.
rmalloc_addr(map, size) ==
    IF size = 0 \/ Fits(map, size) = {} THEN 0
    ELSE map.ext[First(Fits(map, size))].addr

\* Mutant: an extent that is used up stays in the table.
rmalloc_keeps(map, size) ==
    LET i == First(Fits(map, size))
    IN  IF size = 0 \/ Fits(map, size) = {} THEN map
        ELSE [map EXCEPT !.ext[i] = Behind(map.ext[i], size)]

\* ... and the map afterwards.
rmalloc(map, size) ==
    LET i == First(Fits(map, size))
    IN  IF size = 0 \/ Fits(map, size) = {} THEN map
        ELSE IF map.ext[i].size = size
             THEN [map EXCEPT !.ext = Closed(@, i), !.slots = @ + 1]
             ELSE [map EXCEPT !.ext[i] = Behind(map.ext[i], size)]

\* The entries below address a.
Below(map, a) == {j \in DOMAIN map.ext : map.ext[j].addr <= a}

\* Mutant: neighbours on both sides are not made one extent.
rmfree_left(map, size, a) ==
    LET n == Cardinality(Below(map, a))
        joinL == n > 0 /\ map.ext[n].addr + map.ext[n].size = a
        joinR == n < Len(map.ext) /\ a + size = map.ext[n + 1].addr
    IN  CASE size = 0 -> map
          [] joinL -> [map EXCEPT !.ext[n].size = @ + size, !.want = FALSE]
          [] ~joinL /\ joinR ->
               [map EXCEPT !.ext[n + 1] = [addr |-> a, size |-> @.size + size], !.want = FALSE]
          [] ~joinL /\ ~joinR /\ map.slots = 0 -> map
          [] OTHER ->
               [map EXCEPT !.ext = Opened(@, n, [addr |-> a, size |-> size]),
                           !.slots = @ - 1, !.want = FALSE]

\* rmfree(): the map after size units from a have been returned.  If the table
\* is full they are lost, and nobody is woken.
rmfree(map, size, a) ==
    LET n == Cardinality(Below(map, a))
        joinL == n > 0 /\ map.ext[n].addr + map.ext[n].size = a
        joinR == n < Len(map.ext) /\ a + size = map.ext[n + 1].addr
        joined == [map.ext EXCEPT ![n].size = @ + size + map.ext[n + 1].size]
    IN  CASE size = 0 -> map
          [] joinL /\ joinR ->
               [map EXCEPT !.ext = Closed(joined, n + 1), !.slots = @ + 1, !.want = FALSE]
          [] joinL /\ ~joinR -> [map EXCEPT !.ext[n].size = @ + size, !.want = FALSE]
          [] ~joinL /\ joinR ->
               [map EXCEPT !.ext[n + 1] = [addr |-> a, size |-> @.size + size], !.want = FALSE]
          [] ~joinL /\ ~joinR /\ map.slots = 0 -> map
          [] OTHER ->
               [map EXCEPT !.ext = Opened(@, n, [addr |-> a, size |-> size]),
                           !.slots = @ - 1, !.want = FALSE]

\* Whether rmfree() calls wakeprocs() on the map.
rmfree_wakes(map, size, a) == map.want /\ ~rmfree(map, size, a).want

\* The units a map has free.
FreeUnits(map) ==
    UNION {map.ext[i].addr .. map.ext[i].addr + map.ext[i].size - 1 : i \in DOMAIN map.ext}

\* The table as the routines assume it: increasing, apart, none of size 0.
MapSound(map) ==
    /\ \A i \in DOMAIN map.ext : map.ext[i].size > 0
    /\ \A i \in 1 .. Len(map.ext) - 1 :
          map.ext[i].addr + map.ext[i].size < map.ext[i + 1].addr
=============================================================================

-------------------------------- MODULE GTag --------------------------------
(***************************************************************************)
(* goldlib/gall/gutltag.cpp: the growable array of message numbers behind  *)
(* Area::Msgn, Area::Mark and Area::PMrk.  An array is a record:           *)
(*                                                                         *)
(*   tag    the allocated cells, in memory order (allocated = Len(tag)):   *)
(*          cells past `tags' keep whatever was in them, and a cell never  *)
(*          written holds Undef, as malloc leaves it;                      *)
(*   tags   the number of live cells;                                      *)
(*   count  the "fake tags count" callers read with Count(): it survives   *)
(*          Reset(), and differs from tags only after one.                 *)
(*                                                                         *)
(* Positions handed to callers (reln) start at 1; 0 is RELN_INVALID.       *)
(***************************************************************************)
EXTENDS Integers, Sequences, FiniteSets, Listing

CONSTANTS Granularity,    \* GTag::granularity, 10 in the code
          Undef           \* the content of a cell nothing has written

RELN_INVALID == 0
TAGN_INVALID == 0

EmptyTag == [tag |-> <<>>, tags |-> 0, count |-> 0]

\* The live part of the array, and the set of numbers in it.
Live(t)    == SubSeq(t.tag, 1, t.tags)
Numbers(t) == {t.tag[i] : i \in 1..t.tags}
Ordered(t) == \A i, j \in 1..t.tags : i < j => t.tag[i] < t.tag[j]

\* Frees the cells and keeps count (PM_LISTONLY scans rely on that).
Reset(t)    == [EmptyTag EXCEPT !.count = t.count]
ResetAll(t) == EmptyTag

Realloc(cells, size) ==
    [i \in 1..size |-> IF i <= Len(cells) THEN cells[i] ELSE Undef]

\* Grows with some slack, shrinks only when more than that slack is unused.
Resize(t, n) ==
    LET allocated == Len(t.tag)
        size == IF n >= allocated \/ allocated - n > Granularity
                THEN n + Granularity
                ELSE allocated
    IN  [tag |-> Realloc(t.tag, size), tags |-> n, count |-> n]

\* memmove(cells + dst, cells + src, n), positions from 1.
Move(cells, dst, src, n) ==
    [i \in DOMAIN cells |->
        IF i \in dst..(dst + n - 1) THEN cells[src + i - dst] ELSE cells[i]]

Append1(t, n) ==
    LET r == Resize(t, t.tags + 1)
    IN  [r EXCEPT !.tag[r.tags] = n]

\* The do-while of ToReln, cells counted from 0: right is one past the last
\* cell at first and the last cell itself afterwards.  Yields the cell where
\* the bisection stops.
Bisect(t, n) ==
    LET step[s \in [left : Nat, right : Int]] ==
            LET mid == (s.left + s.right) \div 2
                l == IF n > t.tag[mid + 1] THEN mid + 1 ELSE s.left
                r == IF n < t.tag[mid + 1] THEN mid - 1 ELSE s.right
            IN  IF n = t.tag[mid + 1] THEN mid
                ELSE IF l < r THEN step[[left |-> l, right |-> r]]
                ELSE l
    IN  step[[left |-> 0, right |-> t.tags]]

\* GTag::ToReln(n, closest): the position of n; if it is not there, 0, or
\* with closest the position the bisection ended at.
ToReln(t, n, closest) ==
    IF t.tag = <<>> \/ t.tags = 0 \/ n = TAGN_INVALID THEN RELN_INVALID
    ELSE IF n > t.tag[t.tags]
    THEN IF closest THEN t.tags ELSE RELN_INVALID
    ELSE LET at == Bisect(t, n)
         IN  IF closest \/ t.tag[at + 1] = n THEN at + 1 ELSE RELN_INVALID

Find(t, n) == ToReln(t, n, FALSE)

CvtReln(t, reln) == IF reln \in 1..t.tags THEN t.tag[reln] ELSE TAGN_INVALID

\* Mutant: the number always goes after the position found.
Add_NoStepBack(t, n) ==
    LET near == ToReln(t, n, TRUE)
        r    == Resize(t, t.tags + 1)
        room == Move(r.tag, near + 2, near + 1, r.tags - near - 1)
    IN  IF near # 0 /\ t.tag[near] = n THEN t
        ELSE [r EXCEPT !.tag = [room EXCEPT ![near + 1] = n]]

\* GTag::Add: insert in place unless already there.
Add(t, n) ==
    LET near == ToReln(t, n, TRUE)
        r    == Resize(t, t.tags + 1)
        at   == IF near # 0 /\ r.tag[near] > n THEN near - 1 ELSE near
        room == Move(r.tag, at + 2, at + 1, r.tags - at - 1)
    IN  IF near # 0 /\ t.tag[near] = n THEN t
        ELSE [r EXCEPT !.tag = [room EXCEPT ![at + 1] = n]]

\* Mutant: only the fake count goes down.
DelReln_KeepTags(t, reln) ==
    IF reln = RELN_INVALID THEN t
    ELSE [tag   |-> Move(t.tag, reln, reln + 1, t.tags - reln),
          tags  |-> t.tags,
          count |-> t.count - 1]

\* GTag::DelReln: closes the gap.  The array is not resized, so the last
\* number stays behind in the cell after the live part.
DelReln(t, reln) ==
    IF reln = RELN_INVALID THEN t
    ELSE [tag   |-> Move(t.tag, reln, reln + 1, t.tags - reln),
          tags  |-> t.tags - 1,
          count |-> t.count - 1]

Del(t, n) == DelReln(t, Find(t, n))

DelResize(t, n) == LET d == Del(t, n) IN Resize(d, d.tags)

\* qsort over the live cells.
Sort(t) ==
    LET before(j, i) == t.tag[j] < t.tag[i] \/ (t.tag[j] = t.tag[i] /\ j < i)
        rank(i) == Cardinality({j \in 1..t.tags : before(j, i)}) + 1
    IN  [t EXCEPT !.tag = [k \in DOMAIN t.tag |->
            IF k <= t.tags THEN t.tag[CHOOSE i \in 1..t.tags : rank(i) = k]
                           ELSE t.tag[k]]]

\* Drops repeated neighbours of a sorted array.  Every removal shifts the
\* tail down by one and leaves the last cell as it was, so the cells given
\* up all hold the last number; then the array is resized.
ElimDups(t) ==
    LET kept   == InOrder({i \in 1..t.tags : i = 1 \/ t.tag[i] # t.tag[i - 1]})
        packed == [k \in DOMAIN t.tag |->
                     CASE k <= Len(kept) -> t.tag[kept[k]]
                       [] k \in (Len(kept) + 1)..t.tags -> t.tag[t.tags]
                       [] OTHER -> t.tag[k]]
    IN  IF Len(kept) = t.tags THEN t
        ELSE Resize([t EXCEPT !.tag = packed], Len(kept))
=============================================================================

-------------------------- MODULE SquishBaseProofs --------------------------
(***************************************************************************)
(* Proofs about SquishBase.  For any programs, limits and sizes: the lock, *)
(* whose frames change, and the limit of an area.  For one program that    *)
(* has the base to itself: whatever is posted, rewritten and deleted, the  *)
(* two chains, the index and the frames that fill the file stay sound, and *)
(* they implement a list of messages.                                      *)
(***************************************************************************)
EXTENDS SquishBase, Counting

\* As much of the types as the lock needs.
Places == DOMAIN pc = Proc /\ DOMAIN islocked = Proc /\ NoProc \notin Proc

\* The lock, by the places of the programs.
IInv == Places /\ LockHeld

Writing(p) == pc[p] \in {"writebase", "writeindex"}

\* A step of p that leaves the lock as it is.
LEMMA Keeps ==
    ASSUME IInv, NEW p \in Proc, NEW next, pc' = [pc EXCEPT ![p] = next],
           UNCHANGED <<holder, islocked>>,
           next \in {"refresh", "index", "held", "busy", "place", "unlock"} <=> InLock(p),
           islocked[p] => InLock(p)' \/ Writing(p)'
    PROVE  IInv'
  <1>1. Places'
    BY DEF IInv, Places
  <1>2. ASSUME NEW q \in Proc
        PROVE  /\ holder' = q <=> InLock(q)'
               /\ islocked'[q] => InLock(q)' \/ Writing(q)'
    <2>1. holder = q <=> InLock(q)
      BY DEF IInv, LockHeld
    <2>2. islocked[q] => InLock(q) \/ Writing(q)
      BY DEF IInv, LockHeld, Writing
    <2>3. CASE q = p
      BY <2>1, <2>3 DEF IInv, Places, InLock
    <2>4. CASE q # p
      BY <2>1, <2>2, <2>4 DEF IInv, Places, InLock, Writing
    <2> QED BY <2>3, <2>4
  <1> QED BY <1>1, <1>2 DEF IInv, LockHeld, Writing

\* A step after which p is not inside the lock and the area does not count as
\* locked, and the lock is free if p had it.
LEMMA LetsGo ==
    ASSUME IInv, NEW p \in Proc, NEW next,
           pc' = [pc EXCEPT ![p] = next],
           next \notin {"refresh", "index", "held", "busy", "place", "unlock"},
           holder' = IF holder = p THEN NoProc ELSE holder,
           \/ islocked' = [islocked EXCEPT ![p] = FALSE]
           \/ UNCHANGED islocked /\ next = "writebase"
    PROVE  IInv'
  <1>1. Places'
    BY DEF IInv, Places
  <1>2. ASSUME NEW q \in Proc
        PROVE  /\ holder' = q <=> InLock(q)'
               /\ islocked'[q] => InLock(q)' \/ Writing(q)'
    <2>1. holder = q <=> InLock(q)
      BY DEF IInv, LockHeld
    <2>2. islocked[q] => InLock(q) \/ Writing(q)
      BY DEF IInv, LockHeld, Writing
    <2>3. CASE q = p
      BY <2>3 DEF IInv, Places, InLock, Writing
    <2>4. CASE q # p
      BY <2>1, <2>2, <2>4 DEF IInv, Places, InLock, Writing
    <2> QED BY <2>3, <2>4
  <1> QED BY <1>1, <1>2 DEF IInv, LockHeld, Writing

LEMMA InvInit == ASSUME BaseAssumption PROVE Init => IInv
  BY DEF BaseAssumption, Init, IInv, Places, LockHeld, InLock

LEMMA StepInv == ASSUME IInv, NEW p \in Proc, Step(p) PROVE IInv'
  <1>1. (holder = p <=> InLock(p)) /\ (islocked[p] => InLock(p) \/ Writing(p))
    BY DEF IInv, LockHeld, Writing
  \* Outside the lock: opening, closing, calling.
  <1>2. CASE Open(p) \/ OpenScan(p) \/ Close(p) \/ Call(p)
    <2>1. PICK next \in {"opening", "idle", "closed", "lock"} :
              pc' = [pc EXCEPT ![p] = next] /\ UNCHANGED <<holder, islocked>>
      BY <1>2 DEF Open, ReadBase, OpenScan, Close, Call
    <2>2. ~InLock(p) /\ ~islocked[p]
      BY <1>1, <1>2 DEF Open, OpenScan, Close, Call, InLock, Writing
    <2> QED BY <2>1, <2>2, Keeps
  \* The lock is taken.
  <1>3. CASE Acquire(p)
    <2>1. /\ holder = NoProc /\ holder' = p /\ pc' = [pc EXCEPT ![p] = "refresh"]
          /\ UNCHANGED islocked
      BY <1>3 DEF Acquire
    <2>2. Places'
      BY <2>1 DEF IInv, Places
    <2>3. \A q \in Proc : /\ ~InLock(q) /\ (InLock(q)' <=> q = p)
                          /\ islocked'[q] => InLock(q)' \/ pc'[q] \in {"writebase", "writeindex"}
      BY <2>1 DEF IInv, Places, LockHeld, InLock
    <2> QED BY <2>1, <2>2, <2>3 DEF IInv, LockHeld
  \* The area counts as locked, or the call goes on.
  <1>4. CASE RefreshIndex(p)
    <2>1. /\ pc[p] = "index" /\ UNCHANGED holder
          /\ islocked' = [islocked EXCEPT ![p] = (op[p].mode = "lock")]
          /\ pc' = [pc EXCEPT ![p] = IF op[p].mode = "lock" THEN "held" ELSE "busy"]
      BY <1>4 DEF RefreshIndex
    <2>2. Places'
      BY <2>1 DEF IInv, Places
    <2>3. \A q \in Proc : /\ InLock(q)' <=> InLock(q)
                          /\ islocked'[q] => InLock(q)' \/ pc'[q] \in {"writebase", "writeindex"}
      BY <2>1 DEF IInv, Places, LockHeld, InLock
    <2> QED BY <2>1, <2>2, <2>3 DEF IInv, LockHeld
  \* Inside the lock.
  <1>5. CASE Refresh(p) \/ CallHeld(p) \/ AreaUnlock(p)
    <2>1. PICK next \in {"index", "busy", "unlock"} :
              pc' = [pc EXCEPT ![p] = next] /\ UNCHANGED <<holder, islocked>>
      BY <1>5 DEF Refresh, ReadBase, CallHeld, AreaUnlock
    <2>2. InLock(p) /\ InLock(p)'
      BY <1>5, <2>1 DEF Refresh, CallHeld, AreaUnlock, InLock, IInv, Places
    <2> QED BY <2>1, <2>2, Keeps
  <1>6. CASE \/ Purge(p) \/ SaveHdr(p) \/ Rewrite(p) \/ Take(p) \/ Place(p)
             \/ SaveGone(p) \/ Delete(p) \/ UpdateTimesread(p)
    <2>1. PICK next \in {"busy", "place", "held", "unlock"} :
              pc' = [pc EXCEPT ![p] = next] /\ UNCHANGED <<holder, islocked>>
      BY <1>6, Zenon DEF Purge, SaveHdr, Rewrite, Take, Taken, Place, SaveGone, Delete,
                         UpdateTimesread, Leave, After
    <2>2. InLock(p) /\ InLock(p)'
      BY <1>6, <2>1 DEF Purge, SaveHdr, Rewrite, Take, Place, SaveGone, Delete,
                        UpdateTimesread, InLock, IInv, Places
    <2> QED BY <2>1, <2>2, Keeps
  \* The lock is let go, at the end of a call or of the program.
  <1>7. CASE Unlock(p)
    <2>1. /\ pc[p] = "unlock" /\ holder' = NoProc /\ UNCHANGED islocked
          /\ pc' = [pc EXCEPT ![p] = "writebase"]
      BY <1>7 DEF Unlock
    <2>2. holder = p
      BY <1>1, <2>1 DEF InLock
    <2> QED BY <2>1, <2>2, LetsGo
  <1>8. CASE DeleteWild(p)
    <2>1. /\ pc[p] = "busy" /\ holder' = NoProc /\ pc' = [pc EXCEPT ![p] = "closed"]
          /\ islocked' = [islocked EXCEPT ![p] = FALSE]
      BY <1>8 DEF DeleteWild
    <2>2. holder = p
      BY <1>1, <2>1 DEF InLock
    <2> QED BY <2>1, <2>2, LetsGo
  <1>9. CASE Crash(p)
    BY <1>9, LetsGo DEF Crash
  \* What it protected is written after that.
  <1>10. CASE WriteBase(p)
    <2>1. pc[p] = "writebase" /\ pc' = [pc EXCEPT ![p] = "writeindex"]
          /\ UNCHANGED <<holder, islocked>>
      BY <1>10 DEF WriteBase
    <2>2. ~InLock(p) /\ Writing(p)'
      BY <2>1 DEF InLock, Writing, IInv, Places
    <2> QED BY <2>1, <2>2, Keeps
  <1>11. CASE WriteIndex(p)
    <2>1. /\ pc[p] = "writeindex" /\ pc' = [pc EXCEPT ![p] = "idle"] /\ UNCHANGED holder
          /\ islocked' = [islocked EXCEPT ![p] = FALSE]
      BY <1>11 DEF WriteIndex
    <2>2. holder # p
      BY <1>1, <2>1 DEF InLock
    <2> QED BY <2>1, <2>2, LetsGo
  <1> QED BY <1>2, <1>3, <1>4, <1>5, <1>6, <1>7, <1>8, <1>9, <1>10, <1>11 DEF Step

LEMMA InvStep == IInv /\ [Next]_vars => IInv'
  <1> SUFFICES ASSUME IInv, [Next]_vars PROVE IInv'
    OBVIOUS
  <1>1. CASE Next
    BY <1>1, StepInv DEF Next
  <1>2. CASE UNCHANGED vars
    BY <1>2 DEF vars, IInv, Places, LockHeld, InLock
  <1> QED BY <1>1, <1>2

LEMMA Invariance == ASSUME BaseAssumption PROVE Spec => []IInv
  BY InvInit, InvStep, PTL DEF Spec

\* Byte 0 of the .sqd is locked by a program exactly while it is between
\* ::lock and ::unlock, whatever calls it makes, and on every way out: early
\* returns, Area::Lock around calls, the end of the program and kills
\* (lock, unlock, gmosqsh4.cpp).
THEOREM SquishLocked == ASSUME BaseAssumption PROVE Spec => []LockHeld
  <1>1. IInv => LockHeld
    BY DEF IInv
  <1> QED BY <1>1, Invariance, PTL

\* The frames change only while one program holds that lock, in a call of its
\* own; the base record and the index, which ::unlock writes when it has let go
\* of it, are not so protected (gmosqsh1.cpp to gmosqsh4.cpp).
FramesGuarded ==
    [][frm' # frm => \E p \in Proc : /\ holder = p /\ pc[p] \in {"busy", "place"}
                                     /\ \A q \in Proc \ {p} : ~InLock(q) /\ pc'[q] = pc[q]]_vars
THEOREM FramesLocked == ASSUME BaseAssumption PROVE Spec => FramesGuarded
  <1> DEFINE Guarded ==
        frm' # frm => \E p \in Proc : /\ holder = p /\ pc[p] \in {"busy", "place"}
                                      /\ \A q \in Proc \ {p} : ~InLock(q) /\ pc'[q] = pc[q]
  <1>1. ASSUME IInv, [Next]_vars PROVE Guarded
    <2> SUFFICES ASSUME frm' # frm
                 PROVE  \E p \in Proc : /\ holder = p /\ pc[p] \in {"busy", "place"}
                                        /\ \A q \in Proc \ {p} : ~InLock(q) /\ pc'[q] = pc[q]
      OBVIOUS
    <2>1. PICK p \in Proc : Step(p)
      BY <1>1 DEF Next, vars, files
    <2>2. pc[p] \in {"busy", "place"} /\ \E next : pc' = [pc EXCEPT ![p] = next]
      <3>1. CASE \/ Purge(p) \/ SaveHdr(p) \/ Rewrite(p) \/ Take(p) \/ Place(p)
                 \/ SaveGone(p) \/ Delete(p) \/ UpdateTimesread(p)
        BY <3>1, Zenon DEF Purge, SaveHdr, Rewrite, Take, Taken, Place, SaveGone, Delete,
                           UpdateTimesread, Leave
      <3>2. CASE DeleteWild(p)
        BY <3>2 DEF DeleteWild
      <3>3. CASE \/ Open(p) \/ OpenScan(p) \/ Close(p) \/ Call(p) \/ CallHeld(p)
                 \/ Acquire(p) \/ Refresh(p) \/ RefreshIndex(p) \/ AreaUnlock(p)
                 \/ Unlock(p) \/ WriteBase(p) \/ WriteIndex(p) \/ Crash(p)
        <4>1. UNCHANGED frm
          BY <3>3, Zenon DEF Open, ReadBase, OpenScan, Close, Call, CallHeld, Acquire, Refresh,
                             RefreshIndex, AreaUnlock, Unlock, WriteBase, WriteIndex, Crash, files
        <4> QED BY <4>1
      <3> QED BY <2>1, <3>1, <3>2, <3>3 DEF Step
    <2>3. holder = p
      BY <1>1, <2>2 DEF IInv, LockHeld, InLock
    <2>4. \A q \in Proc \ {p} : ~InLock(q) /\ pc'[q] = pc[q]
      BY <1>1, <2>2, <2>3 DEF IInv, Places, LockHeld
    <2> QED BY <2>2, <2>3, <2>4
  <1>2. IInv /\ [Next]_vars => [Guarded]_vars
    BY <1>1
  <1> QED BY <1>2, Invariance, PTL DEF Spec, FramesGuarded

-----------------------------------------------------------------------------
\* The frames of the file, and the spans of free frames (find_frame).

Table(f) == /\ IsFiniteSet(DOMAIN f) /\ DOMAIN f \subseteq Nat \ {SQFRAME_NULL}
            /\ \A o \in DOMAIN f : f[o] \in Frames
            /\ f = [o \in DOMAIN f |-> f[o]]

\* The spans of a table, and one step of the merging loop of Span.
Spans == [at : Nat, length : Nat, next : Nat, last : Nat]
Merges(s, totsize, merging) == merging /\ s.length < totsize /\ s.next = s.at + s.length + FrmSize
Merged(f, s) == [at     |-> s.at,
                 length |-> s.length + read_frm(f, s.next).length + FrmSize,
                 next   |-> read_frm(f, s.next).next,
                 last   |-> s.next]
Single(f, at) == [at |-> at, length |-> read_frm(f, at).length,
                  next |-> read_frm(f, at).next, last |-> at]
Grows(g, f, totsize, merging) ==
    g = [s \in Spans |-> IF Merges(s, totsize, merging) THEN g[Merged(f, s)] ELSE s]

LEMMA ReadTyped ==
    ASSUME NEW f, Table(f), NEW at
    PROVE  /\ read_frm(f, at).length \in Nat /\ read_frm(f, at).next \in Nat
           /\ read_frm(f, at).prev \in Nat
  BY DEF Table, read_frm, init_frm, Frames, SQFRAME_NULL

LEMMA GrowExists ==
    ASSUME NEW f, Table(f), NEW totsize \in Nat, NEW merging
    PROVE  \E g : Grows(g, f, totsize, merging)
  <1> DEFINE next == [s \in Spans |-> Merged(f, s)]
             val  == [s \in Spans |-> s]
             done == {s \in Spans : ~Merges(s, totsize, merging)}
  <1>1. \A s \in Spans : Merged(f, s) \in Spans
    BY ReadTyped, SizeAssumption DEF Spans, Merged
  <1>2. next \in [Spans -> Spans] /\ val \in [Spans -> Spans]
    BY <1>1
  <1>3. PICK g : Loops(g, Spans, done, next, val)
    <2> HIDE DEF next, val, done
    <2> QED BY <1>2, LoopExists
  <1>4. g = [s \in Spans |-> IF s \in done THEN val[s] ELSE g[next[s]]]
    BY <1>3, Zenon DEF Loops
  <1>5. \A s \in Spans : (IF s \in done THEN val[s] ELSE g[next[s]])
                          = IF Merges(s, totsize, merging) THEN g[Merged(f, s)] ELSE s
    OBVIOUS
  <1>6. Grows(g, f, totsize, merging)
    <2> HIDE DEF next, val, done
    <2> QED BY <1>4, <1>5, Zenon DEF Grows
  <1> QED BY <1>6

LEMMA SpanIs ==
    ASSUME NEW f, Table(f), NEW totsize \in Nat, NEW merging, NEW at
    PROVE  \E g : Grows(g, f, totsize, merging) /\ Span(f, at, totsize, merging) = g[Single(f, at)]
  <1> DEFINE g == CHOOSE g : g = [s \in Spans |-> IF Merges(s, totsize, merging) THEN g[Merged(f, s)] ELSE s]
  <1>1. Span(f, at, totsize, merging) = g[Single(f, at)]
    BY Zenon DEF Span, Single, Spans, Merges, Merged
  <1>2. \E h : h = [s \in Spans |-> IF Merges(s, totsize, merging) THEN h[Merged(f, s)] ELSE s]
    BY GrowExists DEF Grows
  <1>3. g = [s \in Spans |-> IF Merges(s, totsize, merging) THEN g[Merged(f, s)] ELSE s]
    BY <1>2, Zenon
  <1>4. Grows(g, f, totsize, merging)
    BY <1>3, Zenon DEF Grows
  <1> QED BY <1>1, <1>4

-----------------------------------------------------------------------------
\* Chains of frames, as sequences of offsets, and what a span covers.

Pos(S, i) == IF i \in 1..Len(S) THEN S[i] ELSE SQFRAME_NULL

Chain(f, S, first, last) ==
    /\ S \in Seq(Nat) /\ \A i \in 1..Len(S) : S[i] \in DOMAIN f
    /\ \A i, j \in 1..Len(S) : S[i] = S[j] => i = j
    /\ first = Pos(S, 1) /\ last = Pos(S, Len(S))
    /\ \A i \in 1..Len(S) : f[S[i]].prev = Pos(S, i - 1) /\ f[S[i]].next = Pos(S, i + 1)

Within(f, o, x) == o <= x /\ x < o + FrmSize + f[o].length

\* The span s is that of the i-th to the j-th frame of a chain.
SpanOf(f, F, i, j, s, totsize) ==
    /\ i \in 1..Len(F) /\ j \in i..Len(F)
    /\ s \in Spans /\ s.at = F[i] /\ s.last = F[j] /\ s.next = Pos(F, j + 1)
    /\ f[F[i]].length <= s.length
    /\ s.last < s.at + FrmSize + totsize
    /\ \A x \in Nat : (s.at <= x /\ x < s.at + FrmSize + s.length)
                        <=> \E q \in i..j : Within(f, F[q], x)

LEMMA ChainAt ==
    ASSUME NEW f, Table(f), NEW F, NEW first, NEW last, Chain(f, F, first, last), NEW i \in 1..Len(F)
    PROVE  /\ F[i] \in DOMAIN f /\ F[i] \in Nat \ {SQFRAME_NULL} /\ Pos(F, i) = F[i]
           /\ f[F[i]] \in Frames /\ read_frm(f, F[i]) = f[F[i]] /\ Len(F) \in Nat
           /\ f[F[i]].next = Pos(F, i + 1) /\ f[F[i]].prev = Pos(F, i - 1)
           /\ f[F[i]].length \in Nat /\ f[F[i]].next \in Nat /\ f[F[i]].prev \in Nat
  <1>1. F[i] \in DOMAIN f /\ Len(F) \in Nat
    BY DEF Chain
  <1>2. f[F[i]] \in Frames /\ F[i] \in Nat \ {SQFRAME_NULL}
    BY <1>1 DEF Table
  <1>3. f[F[i]].length \in Nat /\ f[F[i]].next \in Nat /\ f[F[i]].prev \in Nat
    BY <1>2 DEF Frames
  <1> QED BY <1>1, <1>2, <1>3 DEF Chain, Pos, read_frm

LEMMA SingleGood ==
    ASSUME NEW f, Table(f), NEW F, NEW first, NEW last, Chain(f, F, first, last), NEW i \in 1..Len(F),
           NEW totsize \in Nat
    PROVE  SpanOf(f, F, i, i, Single(f, F[i]), totsize)
  <1> DEFINE s == Single(f, F[i])
  <1>1. /\ F[i] \in Nat /\ read_frm(f, F[i]) = f[F[i]] /\ Len(F) \in Nat
        /\ f[F[i]].next = Pos(F, i + 1) /\ f[F[i]].length \in Nat /\ f[F[i]].next \in Nat
    BY ChainAt
  <1>2. /\ s.at = F[i] /\ s.last = F[i] /\ s.next = Pos(F, i + 1) /\ s.length = f[F[i]].length
        /\ s \in Spans
    BY <1>1 DEF Single, Spans
  <1> HIDE DEF s
  <1>3. i \in i..Len(F) /\ s.last < s.at + FrmSize + totsize
    BY <1>1, <1>2, SizeAssumption
  <1>4. \A x \in Nat : (s.at <= x /\ x < s.at + FrmSize + s.length)
                        <=> \E q \in i..i : Within(f, F[q], x)
    <2>1. \A q \in i..i : q = i
      OBVIOUS
    <2>2. i \in i..i
      OBVIOUS
    <2> QED BY <1>2, <2>1, <2>2 DEF Within
  <1>5. f[F[i]].length <= s.length
    BY <1>1, <1>2
  <1> QED BY <1>2, <1>3, <1>4, <1>5 DEF SpanOf, s

\* One frame more is merged.
LEMMA MergedGood ==
    ASSUME NEW f, Table(f), NEW F, NEW first, NEW last, Chain(f, F, first, last),
           NEW totsize \in Nat, NEW merging, NEW i, NEW j, NEW s, SpanOf(f, F, i, j, s, totsize),
           Merges(s, totsize, merging)
    PROVE  j + 1 \in 1..Len(F) /\ SpanOf(f, F, i, j + 1, Merged(f, s), totsize)
  <1> DEFINE t == Merged(f, s)
             k == j + 1
  <1>1. /\ i \in 1..Len(F) /\ j \in i..Len(F) /\ s.at = F[i] /\ s.next = Pos(F, k)
        /\ s.at \in Nat /\ s.length \in Nat /\ Len(F) \in Nat
        /\ s.length < totsize /\ s.next = s.at + s.length + FrmSize
        /\ f[F[i]].length <= s.length
    BY DEF SpanOf, Spans, Merges, Chain
  <1>2. k \in 1..Len(F) /\ s.next = F[k]
    <2>1. s.next # SQFRAME_NULL
      <3>1. FrmSize \in Nat /\ FrmSize > 0
        BY SizeAssumption
      <3> QED BY <1>1, <3>1 DEF SQFRAME_NULL
    <2> QED BY <1>1, <2>1 DEF Pos
  <1> HIDE DEF k
  <1>3. /\ F[k] \in Nat /\ read_frm(f, F[k]) = f[F[k]] /\ f[F[k]].next = Pos(F, k + 1)
        /\ f[F[k]].length \in Nat /\ f[F[k]].next \in Nat /\ f[F[i]].length \in Nat
    BY <1>1, <1>2, ChainAt
  <1>0. FrmSize \in Nat /\ FrmSize > 0
    BY SizeAssumption
  <1>n. PICK a \in Nat, len \in Nat, more \in Nat :
            /\ a = s.at /\ len = s.length /\ more = f[F[k]].length
            /\ len < totsize /\ F[k] = a + len + FrmSize
    BY <1>1, <1>2, <1>3
  <1>4. /\ t.at = a /\ t.last = F[k] /\ t.next = Pos(F, k + 1)
        /\ t.length = len + more + FrmSize
        /\ t \in Spans
    <2>1. /\ t.at = s.at /\ t.last = s.next /\ t.next = read_frm(f, s.next).next
          /\ t.length = s.length + read_frm(f, s.next).length + FrmSize
          /\ t = [at |-> t.at, length |-> t.length, next |-> t.next, last |-> t.last]
      BY DEF Merged
    <2>2. t.at = a /\ t.last = F[k] /\ t.next = Pos(F, k + 1) /\ t.length = len + more + FrmSize
      BY <1>2, <1>3, <1>n, <2>1
    <2>3. len + more + FrmSize \in Nat
      BY <1>0
    <2>4. Pos(F, k + 1) \in Nat
      BY <1>3
    <2> QED BY <1>3, <2>1, <2>2, <2>3, <2>4 DEF Spans
  <1> HIDE DEF t
  <1>5. f[F[i]].length <= t.length /\ t.last < t.at + FrmSize + totsize
    <2>1. f[F[i]].length \in Nat /\ f[F[i]].length <= len
      BY <1>1, <1>3, <1>n
    <2>2. \A n \in Nat : n <= len => n <= len + more + FrmSize
      BY <1>0
    <2>3. a + len + FrmSize < a + FrmSize + totsize
      BY <1>0, <1>n
    <2> QED BY <1>4, <1>n, <2>1, <2>2, <2>3
  <1>6. ASSUME NEW x \in Nat
        PROVE  (t.at <= x /\ x < t.at + FrmSize + t.length) <=> \E q \in i..k : Within(f, F[q], x)
    <2>1. Within(f, F[k], x) <=> a + FrmSize + len <= x /\ x < a + FrmSize + (len + more + FrmSize)
      <3>1. Within(f, F[k], x) <=> F[k] <= x /\ x < F[k] + FrmSize + more
        BY <1>n DEF Within
      <3> QED BY <1>0, <1>n, <3>1
    <2>2. (a <= x /\ x < a + FrmSize + len) <=> \E q \in i..j : Within(f, F[q], x)
      BY <1>n DEF SpanOf
    <2>3. (\E q \in i..k : Within(f, F[q], x)) <=> Within(f, F[k], x) \/ \E q \in i..j : Within(f, F[q], x)
      <3>1. i \in Nat /\ j \in Nat /\ i <= j /\ k = j + 1
        BY <1>1 DEF k
      <3>2. \A q : q \in i..k <=> q \in i..j \/ q = k
        BY <3>1
      <3> QED BY <3>2
    <2>4. (a <= x /\ x < a + FrmSize + (len + more + FrmSize)) <=>
              \/ a + FrmSize + len <= x /\ x < a + FrmSize + (len + more + FrmSize)
              \/ a <= x /\ x < a + FrmSize + len
      BY <1>0
    <2> QED BY <1>4, <2>1, <2>2, <2>3, <2>4
  <1>8. t.at = F[i]
    BY <1>1, <1>4, <1>n
  <1>7. k \in i..Len(F)
    BY <1>1, <1>2 DEF k
  <1> QED BY <1>1, <1>2, <1>4, <1>5, <1>6, <1>7, <1>8 DEF SpanOf, t, k

-----------------------------------------------------------------------------
\* The span that is found.

LEMMA GrowStep ==
    ASSUME NEW f, NEW totsize, NEW merging, NEW g, Grows(g, f, totsize, merging), NEW s \in Spans
    PROVE  g[s] = IF Merges(s, totsize, merging) THEN g[Merged(f, s)] ELSE s
  BY Zenon DEF Grows

LEMMA GrowTyped ==
    ASSUME NEW f, Table(f), NEW totsize \in Nat, NEW merging, NEW g, Grows(g, f, totsize, merging),
           NEW s \in Spans
    PROVE  g[s] \in Spans
  <1> DEFINE S == {n \in Nat : \A t \in Spans : totsize <= t.length + n => g[t] \in Spans}
  <1>0. FrmSize \in Nat /\ FrmSize > 0
    BY SizeAssumption
  <1>1. 0 \in S
    <2>1. ASSUME NEW t \in Spans, totsize <= t.length + 0 PROVE g[t] \in Spans
      <3>1. ~Merges(t, totsize, merging)
        BY <2>1 DEF Merges, Spans
      <3> QED BY <3>1, GrowStep
    <2> QED BY <2>1
  <1>2. ASSUME NEW n \in Nat, n \in S PROVE n + 1 \in S
    <2>1. ASSUME NEW t \in Spans, totsize <= t.length + (n + 1) PROVE g[t] \in Spans
      <3>1. CASE Merges(t, totsize, merging)
        <4>1. PICK len \in Nat, more \in Nat : len = t.length /\ more = read_frm(f, t.next).length
          BY ReadTyped DEF Spans
        <4>2. Merged(f, t) \in Spans /\ Merged(f, t).length = len + more + FrmSize
          BY <1>0, <4>1, ReadTyped DEF Merged, Spans
        <4>3. totsize <= Merged(f, t).length + n
          BY <1>0, <2>1, <4>1, <4>2
        <4> QED BY <1>2, <3>1, <4>2, <4>3, GrowStep
      <3> QED BY <3>1, GrowStep
    <2> QED BY <2>1
  <1>3. Nat \subseteq S
    <2> HIDE DEF S
    <2> QED BY <1>1, <1>2, Induction
  <1>4. totsize \in S /\ totsize <= s.length + totsize
    BY <1>3 DEF Spans
  <1> QED BY <1>4

\* Merging along a chain of the table ends with a span of the chain.
LEMMA GrowGood ==
    ASSUME NEW f, Table(f), NEW F, NEW first, NEW last, Chain(f, F, first, last),
           NEW totsize \in Nat, NEW merging, NEW g, Grows(g, f, totsize, merging),
           NEW i, NEW j, NEW s, SpanOf(f, F, i, j, s, totsize)
    PROVE  \E k : SpanOf(f, F, i, k, g[s], totsize)
  <1> DEFINE S == {n \in Nat : \A l, t : SpanOf(f, F, i, l, t, totsize) /\ Len(F) <= l + n
                                  => \E k : SpanOf(f, F, i, k, g[t], totsize)}
  <1>0. Len(F) \in Nat
    BY DEF Chain
  <1>1. 0 \in S
    <2>1. ASSUME NEW l, NEW t, SpanOf(f, F, i, l, t, totsize), Len(F) <= l + 0
          PROVE  \E k : SpanOf(f, F, i, k, g[t], totsize)
      <3>1. ~Merges(t, totsize, merging)
        <4> SUFFICES ASSUME Merges(t, totsize, merging) PROVE FALSE
          OBVIOUS
        <4>1. l + 1 \in 1..Len(F)
          BY <2>1, MergedGood
        <4> QED BY <1>0, <2>1, <4>1 DEF SpanOf
      <3> QED BY <2>1, <3>1, GrowStep DEF SpanOf
    <2> QED BY <2>1
  <1>2. ASSUME NEW n \in Nat, n \in S PROVE n + 1 \in S
    <2>1. ASSUME NEW l, NEW t, SpanOf(f, F, i, l, t, totsize), Len(F) <= l + (n + 1)
          PROVE  \E k : SpanOf(f, F, i, k, g[t], totsize)
      <3>0. t \in Spans /\ l \in Nat
        BY <2>1 DEF SpanOf
      <3>1. CASE Merges(t, totsize, merging)
        <4>1. SpanOf(f, F, i, l + 1, Merged(f, t), totsize)
          BY <2>1, <3>1, MergedGood
        <4>2. Len(F) <= (l + 1) + n
          BY <1>0, <2>1, <3>0
        <4>3. \E k : SpanOf(f, F, i, k, g[Merged(f, t)], totsize)
          BY <1>2, <4>1, <4>2
        <4> QED BY <3>0, <3>1, <4>3, GrowStep
      <3>2. CASE ~Merges(t, totsize, merging)
        BY <2>1, <3>0, <3>2, GrowStep
      <3> QED BY <3>1, <3>2
    <2> QED BY <2>1
  <1>3. Nat \subseteq S
    <2> HIDE DEF S
    <2> QED BY <1>1, <1>2, Induction
  <1>4. Len(F) \in S
    <2> HIDE DEF S
    <2> QED BY <1>0, <1>3
  <1>5. Len(F) <= j + Len(F)
    BY <1>0 DEF SpanOf
  <1> QED BY <1>4, <1>5

LEMMA SpanFacts ==
    ASSUME NEW f, Table(f), NEW totsize \in Nat, NEW merging
    PROVE  \A at \in Nat : Span(f, at, totsize, merging) \in Spans
  <1> SUFFICES ASSUME NEW at \in Nat PROVE Span(f, at, totsize, merging) \in Spans
    OBVIOUS
  <1>1. PICK g : Grows(g, f, totsize, merging) /\ Span(f, at, totsize, merging) = g[Single(f, at)]
    BY SpanIs
  <1>2. Single(f, at) \in Spans
    BY ReadTyped DEF Single, Spans
  <1> QED BY <1>1, <1>2, GrowTyped

LEMMA SpanGood ==
    ASSUME NEW f, Table(f), NEW F, NEW first, NEW last, Chain(f, F, first, last),
           NEW totsize \in Nat, NEW merging, NEW i \in 1..Len(F)
    PROVE  \E k : SpanOf(f, F, i, k, Span(f, F[i], totsize, merging), totsize)
  <1>1. PICK g : /\ Grows(g, f, totsize, merging)
                 /\ Span(f, F[i], totsize, merging) = g[Single(f, F[i])]
    BY SpanIs
  <1>2. SpanOf(f, F, i, i, Single(f, F[i]), totsize)
    BY SingleGood
  <1> QED BY <1>1, <1>2, GrowGood

-----------------------------------------------------------------------------
NoSpan == [at |-> SQFRAME_NULL, length |-> 0, next |-> SQFRAME_NULL, last |-> SQFRAME_NULL]

Tries(g, f, totsize, merging) ==
    g = [at \in Nat |-> IF at = SQFRAME_NULL THEN NoSpan
                        ELSE IF Span(f, at, totsize, merging).length >= totsize
                             THEN Span(f, at, totsize, merging)
                             ELSE g[Span(f, at, totsize, merging).next]]

LEMMA TryExists ==
    ASSUME NEW f, Table(f), NEW totsize \in Nat, NEW merging
    PROVE  \E g : Tries(g, f, totsize, merging)
  <1> DEFINE span(at) == Span(f, at, totsize, merging)
             next == [at \in Nat |-> span(at).next]
             val  == [at \in Nat |-> IF at = SQFRAME_NULL THEN NoSpan ELSE span(at)]
             done == {at \in Nat : at = SQFRAME_NULL \/ span(at).length >= totsize}
  <1>1. \A at \in Nat : span(at) \in Spans
    BY SpanFacts
  <1>2. NoSpan \in Spans
    BY DEF NoSpan, Spans, SQFRAME_NULL
  <1> HIDE DEF span
  <1>3. next \in [Nat -> Nat] /\ val \in [Nat -> Spans]
    <2>1. \A at \in Nat : span(at).next \in Nat
      BY <1>1 DEF Spans
    <2> QED BY <1>1, <1>2, <2>1
  <1>4. PICK g : Loops(g, Nat, done, next, val)
    <2> HIDE DEF next, val, done
    <2> QED BY <1>3, LoopExists
  <1>5. g = [at \in Nat |-> IF at \in done THEN val[at] ELSE g[next[at]]]
    BY <1>4, Zenon DEF Loops
  <1>6. \A at \in Nat : (IF at \in done THEN val[at] ELSE g[next[at]])
                           = IF at = SQFRAME_NULL THEN NoSpan
                             ELSE IF span(at).length >= totsize THEN span(at) ELSE g[span(at).next]
    OBVIOUS
  <1>7. g = [at \in Nat |-> IF at = SQFRAME_NULL THEN NoSpan
                             ELSE IF span(at).length >= totsize THEN span(at) ELSE g[span(at).next]]
    <2> HIDE DEF next, val, done
    <2> QED BY <1>5, <1>6, Zenon
  <1>8. Tries(g, f, totsize, merging)
    BY <1>7, Zenon DEF Tries, span
  <1> QED BY <1>8

LEMMA FindSpanIs ==
    ASSUME NEW f, Table(f), NEW totsize \in Nat, NEW merging, NEW at
    PROVE  \E g : Tries(g, f, totsize, merging) /\ FindSpan(f, at, totsize, merging) = g[at]
  <1> DEFINE g == CHOOSE g : g = [a \in Nat |-> IF a = SQFRAME_NULL THEN NoSpan
                        ELSE IF Span(f, a, totsize, merging).length >= totsize
                             THEN Span(f, a, totsize, merging)
                             ELSE g[Span(f, a, totsize, merging).next]]
  <1>1. FindSpan(f, at, totsize, merging) = g[at]
    BY Zenon DEF FindSpan, NoSpan
  <1>2. \E h : h = [a \in Nat |-> IF a = SQFRAME_NULL THEN NoSpan
                        ELSE IF Span(f, a, totsize, merging).length >= totsize
                             THEN Span(f, a, totsize, merging)
                             ELSE h[Span(f, a, totsize, merging).next]]
    <2>1. PICK h : Tries(h, f, totsize, merging)
      BY TryExists
    <2>2. h = [a \in Nat |-> IF a = SQFRAME_NULL THEN NoSpan
                        ELSE IF Span(f, a, totsize, merging).length >= totsize
                             THEN Span(f, a, totsize, merging)
                             ELSE h[Span(f, a, totsize, merging).next]]
      BY <2>1, Zenon DEF Tries
    <2> QED BY <2>2, Zenon
  <1>3. g = [a \in Nat |-> IF a = SQFRAME_NULL THEN NoSpan
                        ELSE IF Span(f, a, totsize, merging).length >= totsize
                             THEN Span(f, a, totsize, merging)
                             ELSE g[Span(f, a, totsize, merging).next]]
    BY <1>2, Zenon
  <1>4. Tries(g, f, totsize, merging)
    BY <1>3, Zenon DEF Tries
  <1> QED BY <1>1, <1>4

LEMMA TryStep ==
    ASSUME NEW f, NEW totsize, NEW merging, NEW g, Tries(g, f, totsize, merging), NEW at \in Nat
    PROVE  g[at] = IF at = SQFRAME_NULL THEN NoSpan
                   ELSE IF Span(f, at, totsize, merging).length >= totsize
                        THEN Span(f, at, totsize, merging)
                        ELSE g[Span(f, at, totsize, merging).next]
  BY Zenon DEF Tries

\* What is found along a chain: a span of it, with room; or there is no frame
\* with room in it.
Found(f, F, totsize, s) ==
    \/ s = NoSpan /\ \A q \in 1..Len(F) : f[F[q]].length < totsize
    \/ \E i, j : SpanOf(f, F, i, j, s, totsize) /\ totsize <= s.length

LEMMA FindSpanGood ==
    ASSUME NEW f, Table(f), NEW F, NEW first, NEW last, Chain(f, F, first, last),
           NEW totsize \in Nat, NEW merging
    PROVE  Found(f, F, totsize, FindSpan(f, first, totsize, merging))
  <1> DEFINE span(at) == Span(f, at, totsize, merging)
             Short(i) == \A q \in i..Len(F) : f[F[q]].length < totsize
             Good(i, s) == \/ s = NoSpan /\ Short(i)
                           \/ \E k, j : SpanOf(f, F, k, j, s, totsize) /\ totsize <= s.length
  <1>1. PICK g : Tries(g, f, totsize, merging) /\ FindSpan(f, first, totsize, merging) = g[first]
    BY FindSpanIs
  <1>2. Len(F) \in Nat /\ first = Pos(F, 1)
    BY DEF Chain
  <1>3. \A i \in 1..Len(F) : F[i] \in Nat \ {SQFRAME_NULL} /\ Pos(F, i) = F[i]
    BY ChainAt
  <1> DEFINE S == {n \in Nat : \A i \in 1..(Len(F) + 1) : Len(F) + 1 <= i + n => Good(i, g[Pos(F, i)])}
  <1>s. \A k, j, s : SpanOf(f, F, k, j, s, totsize) => /\ k \in 1..Len(F) /\ j \in k..Len(F)
                                                       /\ s.next = Pos(F, j + 1) /\ s.length \in Nat
    BY DEF SpanOf, Spans
  <1>4. 0 \in S
    <2>1. ASSUME NEW i \in 1..(Len(F) + 1), Len(F) + 1 <= i + 0 PROVE Good(i, g[Pos(F, i)])
      <3>1. i = Len(F) + 1
        BY <1>2, <2>1
      <3>2. Pos(F, i) = SQFRAME_NULL /\ SQFRAME_NULL \in Nat
        BY <1>2, <3>1 DEF Pos, SQFRAME_NULL
      <3>3. g[Pos(F, i)] = NoSpan
        BY <1>1, <3>2, TryStep
      <3>4. Short(i)
        BY <1>2, <3>1
      <3> QED BY <3>3, <3>4
    <2> QED BY <2>1
  <1>5. ASSUME NEW n \in Nat, n \in S PROVE n + 1 \in S
    <2>1. ASSUME NEW i \in 1..(Len(F) + 1), Len(F) + 1 <= i + (n + 1) PROVE Good(i, g[Pos(F, i)])
      <3>1. CASE i = Len(F) + 1
        <4>1. Len(F) + 1 <= i + n
          BY <1>2, <3>1
        <4> QED BY <1>5, <4>1
      <3>2. CASE i # Len(F) + 1
        <4>1. i \in 1..Len(F)
          BY <1>2, <3>2
        <4>2. PICK k : SpanOf(f, F, i, k, span(F[i]), totsize)
          BY <4>1, SpanGood
        <4>3. g[F[i]] = IF span(F[i]).length >= totsize THEN span(F[i]) ELSE g[span(F[i]).next]
          BY <1>1, <1>3, <4>1, TryStep
        <4>4. k \in i..Len(F) /\ span(F[i]).next = Pos(F, k + 1) /\ span(F[i]).length \in Nat
          BY <1>s, <4>2
        <4> HIDE DEF span
        <4>5. CASE span(F[i]).length >= totsize
          <5>1. g[Pos(F, i)] = span(F[i]) /\ totsize <= span(F[i]).length
            BY <1>3, <4>1, <4>3, <4>4, <4>5
          <5> QED BY <4>2, <5>1
        <4>6. CASE ~(span(F[i]).length >= totsize)
          <5>1. k + 1 \in 1..(Len(F) + 1) /\ Len(F) + 1 <= (k + 1) + n
            BY <1>2, <2>1, <4>1, <4>4
          <5>2. Good(k + 1, g[Pos(F, k + 1)])
            BY <1>5, <5>1
          <5>3. g[Pos(F, i)] = g[Pos(F, k + 1)]
            BY <1>3, <4>1, <4>3, <4>4, <4>6
          <5>4. \A q \in i..k : f[F[q]].length < totsize
            <6> SUFFICES ASSUME NEW q \in i..k, ~(f[F[q]].length < totsize) PROVE FALSE
              OBVIOUS
            <6>1. q \in 1..Len(F)
              BY <4>1, <4>4
            <6>2. PICK a \in Nat, o \in Nat, len \in Nat, l \in Nat :
                      /\ a = span(F[i]).at /\ o = F[q] /\ len = span(F[i]).length
                      /\ l = f[F[q]].length
              BY <4>2, <6>1, ChainAt DEF SpanOf, Spans
            <6>3. FrmSize \in Nat /\ FrmSize > 0
              BY SizeAssumption
            <6>4. \A x \in Nat : o <= x /\ x < o + FrmSize + l => a <= x /\ x < a + FrmSize + len
              BY <4>2, <6>2 DEF SpanOf, Within
            <6>5. o + FrmSize + l - 1 \in Nat /\ o <= o + FrmSize + l - 1
              BY <6>3
            <6>6. a <= o /\ o + FrmSize + l - 1 < a + FrmSize + len
              <7>1. o < o + FrmSize + l /\ o + FrmSize + l - 1 < o + FrmSize + l
                BY <6>3
              <7> QED BY <6>4, <6>5, <7>1
            <6>7. l <= len
              BY <6>3, <6>6
            <6> QED BY <4>6, <6>2, <6>7
          <5>5. Short(k + 1) => Short(i)
            <6>1. \A q \in i..Len(F) : q \in i..k \/ q \in (k + 1)..Len(F)
              BY <1>2, <4>1, <4>4
            <6> QED BY <5>4, <6>1
          <5> HIDE DEF Short
          <5> QED BY <5>2, <5>3, <5>5
        <4> QED BY <4>5, <4>6
      <3> QED BY <3>1, <3>2
    <2> QED BY <2>1
  <1>6. Nat \subseteq S
    <2> HIDE DEF S
    <2> QED BY <1>4, <1>5, Induction
  <1>7. Good(1, g[Pos(F, 1)])
    <2>1. Len(F) \in S
      <3> HIDE DEF S
      <3> QED BY <1>2, <1>6
    <2>2. 1 \in 1..(Len(F) + 1) /\ Len(F) + 1 <= 1 + Len(F)
      BY <1>2
    <2> QED BY <2>1, <2>2
  <1> QED BY <1>1, <1>2, <1>7 DEF Found

-----------------------------------------------------------------------------
\* Sequences and chains with one element put in, taken out or replaced, and how
\* frames fill the file.

-----------------------------------------------------------------------------
\* T is S with l (one or none) new offset m from place i on, in the stead of l + d.
Spliced(S, T, i, l, d, m) ==
    /\ l \in {0, 1} /\ d \in Int /\ 0 <= l + d
    /\ i \in Nat /\ 1 <= i /\ i + l + d <= Len(S) + 1
    /\ T \in Seq(Nat) /\ Len(T) = Len(S) - d
    /\ \A q \in 1..Len(T) : T[q] = IF q < i THEN S[q] ELSE IF q < i + l THEN m ELSE S[q + d]

\* What is new next to the place: the chain S of f becomes the chain T of g.
Relinked(f, g, S, i, l, d, m) ==
    /\ \A q \in 1..Len(S) : q < i \/ q >= i + l + d =>
          /\ S[q] \in DOMAIN g /\ (l = 1 => S[q] # m)
          /\ g[S[q]].next = IF q = i - 1 THEN (IF l = 1 THEN m ELSE Pos(S, i + d)) ELSE f[S[q]].next
          /\ g[S[q]].prev = IF q = i + l + d THEN (IF l = 1 THEN m ELSE Pos(S, i - 1)) ELSE f[S[q]].prev
    /\ l = 1 => /\ m \in DOMAIN g
                /\ g[m].prev = Pos(S, i - 1) /\ g[m].next = Pos(S, i + 1 + d)

LEMMA SplicePos ==
    ASSUME NEW S, NEW T, NEW i, NEW l, NEW d, NEW m, S \in Seq(Nat), Spliced(S, T, i, l, d, m),
           NEW q \in Int
    PROVE  Pos(T, q) = IF q < i THEN Pos(S, q) ELSE IF q < i + l THEN m ELSE Pos(S, q + d)
  <1>1. /\ l \in {0, 1} /\ d \in Int /\ 0 <= l + d /\ Len(S) \in Nat /\ Len(T) \in Nat
        /\ i \in Nat /\ 1 <= i /\ i + l + d <= Len(S) + 1 /\ Len(T) = Len(S) - d
    BY DEF Spliced
  <1>2. \A r \in 1..Len(T) : T[r] = IF r < i THEN S[r] ELSE IF r < i + l THEN m ELSE S[r + d]
    BY DEF Spliced
  <1>3. PICK n \in Nat, k \in Nat : n = Len(S) /\ k = Len(T) /\ k = n - d
    BY <1>1
  <1>4. q \in 1..k <=> \/ q < i /\ q \in 1..n
                       \/ ~(q < i) /\ q < i + l
                       \/ ~(q < i) /\ ~(q < i + l) /\ q + d \in 1..n
    <2>1. CASE l = 0
      BY <1>1, <1>3, <2>1
    <2>2. CASE l = 1
      BY <1>1, <1>3, <2>2
    <2> QED BY <1>1, <2>1, <2>2
  <1>5. CASE q < i
    BY <1>1, <1>2, <1>3, <1>4, <1>5 DEF Pos
  <1>6. CASE ~(q < i) /\ q < i + l
    BY <1>1, <1>2, <1>3, <1>4, <1>6 DEF Pos
  <1>7. CASE ~(q < i) /\ ~(q < i + l)
    BY <1>1, <1>2, <1>3, <1>4, <1>7 DEF Pos
  <1> QED BY <1>1, <1>5, <1>6, <1>7

LEMMA SpliceChain ==
    ASSUME NEW f, NEW g, NEW S, NEW T, NEW i, NEW l, NEW d, NEW m, NEW first, NEW last,
           Chain(f, S, first, last), Spliced(S, T, i, l, d, m), Relinked(f, g, S, i, l, d, m)
    PROVE  Chain(g, T, IF i = 1 THEN (IF l = 1 THEN m ELSE Pos(S, 1 + d)) ELSE first,
                       IF i + l + d = Len(S) + 1 THEN (IF l = 1 THEN m ELSE Pos(S, i - 1)) ELSE last)
  <1>1. /\ l \in {0, 1} /\ d \in Int /\ 0 <= l + d /\ Len(S) \in Nat /\ Len(T) \in Nat
        /\ i \in Nat /\ 1 <= i /\ i + l + d <= Len(S) + 1 /\ Len(T) = Len(S) - d
        /\ T \in Seq(Nat) /\ S \in Seq(Nat)
    BY DEF Spliced, Chain
  <1>2. \A r \in 1..Len(T) : T[r] = IF r < i THEN S[r] ELSE IF r < i + l THEN m ELSE S[r + d]
    BY DEF Spliced
  <1>3. PICK n \in Nat, k \in Nat : n = Len(S) /\ k = Len(T) /\ k = n - d
    BY <1>1
  <1>4. \A q \in Int : Pos(T, q) = IF q < i THEN Pos(S, q) ELSE IF q < i + l THEN m ELSE Pos(S, q + d)
    BY <1>1, SplicePos
  \* Where an element of T comes from.
  <1>5. ASSUME NEW r \in 1..k
        PROVE  \/ r \in 1..n /\ r < i /\ T[r] = S[r]
               \/ l = 1 /\ r = i /\ T[r] = m
               \/ r + d \in 1..n /\ r + d >= i + l + d /\ T[r] = S[r + d]
    <2>1. CASE r < i
      BY <1>1, <1>2, <1>3, <2>1
    <2>2. CASE ~(r < i) /\ r < i + l
      BY <1>1, <1>2, <1>3, <2>2
    <2>3. CASE ~(r < i) /\ ~(r < i + l)
      <3>1. T[r] = S[r + d]
        BY <1>2, <1>3, <2>3
      <3>2. r + d \in 1..n /\ r + d >= i + l + d
        BY <1>1, <1>3, <2>3
      <3> QED BY <3>1, <3>2
    <2> QED BY <1>1, <2>1, <2>2, <2>3
  <1>6. \A q \in 1..n : q < i \/ q >= i + l + d =>
          /\ S[q] \in DOMAIN g /\ (l = 1 => S[q] # m)
          /\ g[S[q]].next = IF q = i - 1 THEN (IF l = 1 THEN m ELSE Pos(S, i + d)) ELSE f[S[q]].next
          /\ g[S[q]].prev = IF q = i + l + d THEN (IF l = 1 THEN m ELSE Pos(S, i - 1)) ELSE f[S[q]].prev
    BY <1>3 DEF Relinked
  <1>7. l = 1 => /\ m \in DOMAIN g
                 /\ g[m].prev = Pos(S, i - 1) /\ g[m].next = Pos(S, i + 1 + d)
    BY DEF Relinked
  <1>8. /\ \A q \in 1..n : f[S[q]].prev = Pos(S, q - 1) /\ f[S[q]].next = Pos(S, q + 1)
        /\ \A q, r \in 1..n : S[q] = S[r] => q = r
        /\ first = Pos(S, 1) /\ last = Pos(S, n)
    BY <1>3 DEF Chain
  <1>9. \A r \in 1..k : T[r] \in DOMAIN g
    BY <1>1, <1>5, <1>6, <1>7
  <1>10. ASSUME NEW q \in 1..k, NEW r \in 1..k, T[q] = T[r] PROVE q = r
    <2>0. ASSUME NEW u \in 1..k, ~(l = 1 /\ u = i /\ T[u] = m)
          PROVE  \E s \in 1..n : /\ s < i \/ s >= i + l + d
                                 /\ T[u] = S[s] /\ u = IF s < i THEN s ELSE s - d
      <3>1. CASE u \in 1..n /\ u < i /\ T[u] = S[u]
        BY <3>1
      <3>2. CASE u + d \in 1..n /\ u + d >= i + l + d /\ T[u] = S[u + d]
        <4>1. ~(u + d < i) /\ u = (u + d) - d
          BY <1>1, <3>2
        <4> QED BY <3>2, <4>1
      <3> QED BY <1>5, <2>0, <3>1, <3>2
    <2>1. CASE (l = 1 /\ q = i /\ T[q] = m) /\ (l = 1 /\ r = i /\ T[r] = m)
      BY <2>1
    <2>2. CASE (l = 1 /\ q = i /\ T[q] = m) /\ ~(l = 1 /\ r = i /\ T[r] = m)
      BY <1>6, <1>10, <2>0, <2>2
    <2>3. CASE ~(l = 1 /\ q = i /\ T[q] = m) /\ (l = 1 /\ r = i /\ T[r] = m)
      BY <1>6, <1>10, <2>0, <2>3
    <2>4. CASE ~(l = 1 /\ q = i /\ T[q] = m) /\ ~(l = 1 /\ r = i /\ T[r] = m)
      <3>1. PICK s \in 1..n : T[q] = S[s] /\ q = IF s < i THEN s ELSE s - d
        BY <2>0, <2>4
      <3>2. PICK u \in 1..n : T[r] = S[u] /\ r = IF u < i THEN u ELSE u - d
        BY <2>0, <2>4
      <3>3. s = u
        BY <1>8, <1>10, <3>1, <3>2
      <3> QED BY <3>1, <3>2, <3>3
    <2> QED BY <2>1, <2>2, <2>3, <2>4
  <1>11. ASSUME NEW r \in 1..k PROVE g[T[r]].prev = Pos(T, r - 1) /\ g[T[r]].next = Pos(T, r + 1)
    <2>0. r \in Int /\ r - 1 \in Int /\ r + 1 \in Int /\ r \in Nat /\ 1 <= r /\ r <= k
      BY <1>1
    <2>p. /\ Pos(T, r - 1) = IF r - 1 < i THEN Pos(S, r - 1) ELSE IF r - 1 < i + l THEN m ELSE Pos(S, r - 1 + d)
          /\ Pos(T, r + 1) = IF r + 1 < i THEN Pos(S, r + 1) ELSE IF r + 1 < i + l THEN m ELSE Pos(S, r + 1 + d)
      BY <1>4, <2>0
    <2>1. CASE r \in 1..n /\ r < i /\ T[r] = S[r]
      <3>1. g[T[r]].prev = Pos(S, r - 1) /\ Pos(T, r - 1) = Pos(S, r - 1)
        <4>1. r # i + l + d /\ r - 1 < i
          <5>1. CASE l = 0
            BY <1>1, <2>0, <2>1, <5>1
          <5>2. CASE l = 1
            BY <1>1, <2>0, <2>1, <5>2
          <5> QED BY <1>1, <5>1, <5>2
        <4> QED BY <1>6, <1>8, <2>1, <2>p, <4>1
      <3>2. CASE r = i - 1
        <4>1. r + 1 = i /\ ~(r + 1 < i) /\ (r + 1 < i + l <=> l = 1) /\ r + 1 + d = i + d
          BY <1>1, <2>0, <3>2
        <4>2. Pos(T, r + 1) = IF l = 1 THEN m ELSE Pos(S, i + d)
          BY <2>p, <4>1
        <4> QED BY <1>6, <2>1, <3>1, <3>2, <4>2
      <3>3. CASE r # i - 1
        <4>1. r + 1 < i
          BY <1>1, <2>0, <2>1, <3>3
        <4> QED BY <1>6, <1>8, <2>1, <2>p, <3>1, <3>3, <4>1
      <3> QED BY <3>2, <3>3
    <2>2. CASE l = 1 /\ r = i /\ T[r] = m
      <3>1. r - 1 < i /\ ~(r + 1 < i) /\ ~(r + 1 < i + l) /\ r + 1 + d = i + 1 + d
        BY <1>1, <2>0, <2>2
      <3> QED BY <1>7, <2>2, <2>p, <3>1
    <2>3. CASE r + d \in 1..n /\ r + d >= i + l + d /\ T[r] = S[r + d]
      <3>0. r >= i + l /\ r + d # i - 1
        BY <1>1, <2>0, <2>3
      <3>1. g[T[r]].next = Pos(S, r + d + 1) /\ Pos(T, r + 1) = Pos(S, r + d + 1)
        <4>1. ~(r + 1 < i) /\ ~(r + 1 < i + l) /\ r + 1 + d = r + d + 1
          BY <1>1, <2>0, <3>0
        <4> QED BY <1>6, <1>8, <2>3, <2>p, <3>0, <4>1
      <3>2. CASE r = i + l
        <4>1. r + d = i + l + d
          BY <3>2
        <4>2. g[T[r]].prev = IF l = 1 THEN m ELSE Pos(S, i - 1)
          BY <1>6, <2>3, <4>1
        <4>3. CASE l = 1
          <5>1. ~(r - 1 < i) /\ r - 1 < i + l
            BY <1>1, <2>0, <3>2, <4>3
          <5> QED BY <2>p, <3>1, <4>2, <4>3, <5>1
        <4>4. CASE l # 1
          <5>1. r - 1 < i /\ r - 1 = i - 1
            BY <1>1, <2>0, <3>2, <4>4
          <5> QED BY <2>p, <3>1, <4>2, <4>4, <5>1
        <4> QED BY <4>3, <4>4
      <3>3. CASE r # i + l
        <4>1. r + d # i + l + d /\ ~(r - 1 < i) /\ ~(r - 1 < i + l) /\ r - 1 + d = r + d - 1
          BY <1>1, <2>0, <3>0, <3>3
        <4>2. g[T[r]].prev = f[S[r + d]].prev
          BY <1>6, <2>3, <4>1
        <4>3. f[S[r + d]].prev = Pos(S, r + d - 1)
          <5>1. \A q \in 1..n : f[S[q]].prev = Pos(S, q - 1)
            BY <1>8
          <5>2. PICK c \in 1..n : c = r + d
            BY <2>3
          <5>3. f[S[c]].prev = Pos(S, c - 1)
            BY <5>1
          <5>4. r \in Int /\ d \in Int
            BY <1>1, <2>0
          <5> QED BY <5>2, <5>3, <5>4
        <4>4. Pos(T, r - 1) = Pos(S, r + d - 1)
          BY <2>p, <4>1
        <4> QED BY <3>1, <4>2, <4>3, <4>4
      <3> QED BY <3>2, <3>3
    <2> QED BY <1>5, <2>1, <2>2, <2>3
  <1>12. Pos(T, 1) = IF i = 1 THEN (IF l = 1 THEN m ELSE Pos(S, 1 + d)) ELSE first
    <2>1. Pos(T, 1) = IF 1 < i THEN Pos(S, 1) ELSE IF 1 < i + l THEN m ELSE Pos(S, 1 + d)
      BY <1>4
    <2>2. (1 < i <=> i # 1) /\ (i = 1 => (1 < i + l <=> l = 1))
      BY <1>1
    <2> QED BY <1>8, <2>1, <2>2
  <1>13. Pos(T, k) = IF i + l + d = n + 1 THEN (IF l = 1 THEN m ELSE Pos(S, i - 1)) ELSE last
    <2>1. Pos(T, k) = IF k < i THEN Pos(S, k) ELSE IF k < i + l THEN m ELSE Pos(S, k + d)
      BY <1>4
    <2>2. k + d = n
      BY <1>1, <1>3
    <2>3. CASE i + l + d = n + 1
      <3>1. (l = 1 => ~(k < i) /\ k < i + l) /\ (l # 1 => k < i /\ k = i - 1)
        <4>1. k = i + l - 1
          BY <1>1, <1>3, <2>3
        <4> QED BY <1>1, <4>1
      <3> QED BY <2>1, <2>3, <3>1
    <2>4. CASE i + l + d # n + 1
      <3>1. ~(k < i) /\ ~(k < i + l)
        <4>1. i + l + d <= n + 1 /\ k = n - d
          BY <1>1, <1>3
        <4>2. CASE l = 0
          <5>1. i + d # n + 1 /\ i + d <= n + 1 /\ i \in Int /\ d \in Int
            BY <1>1, <2>4, <4>1, <4>2
          <5>2. ~(n - d < i)
            BY <5>1
          <5> QED BY <1>1, <4>1, <4>2, <5>2
        <4>3. CASE l = 1
          BY <1>1, <1>3, <2>4, <4>1, <4>3
        <4> QED BY <1>1, <4>2, <4>3
      <3> QED BY <1>8, <2>1, <2>2, <2>4, <3>1
    <2> QED BY <2>3, <2>4
  <1> QED BY <1>1, <1>3, <1>9, <1>10, <1>11, <1>12, <1>13 DEF Chain

-----------------------------------------------------------------------------
Tiles(f, X, end) ==
    /\ end \in Nat /\ BaseSize <= end
    /\ \A o \in X : BaseSize <= o /\ o + FrmSize + f[o].length <= end
    /\ \A x \in BaseSize..(end - 1) : \E o \in X : Within(f, o, x)
    /\ \A o, u \in X : \A x \in Nat : Within(f, o, x) /\ Within(f, u, x) => o = u

\* The frames A are exchanged for B, which take up the same part of the file.
Exchanged(f, g, X, A, B) ==
    /\ A \subseteq X /\ X \subseteq Nat /\ B \subseteq Nat
    /\ \A o \in X \ A : g[o].length = f[o].length
    /\ \A b \in B : g[b].length \in Nat
    /\ \A x \in Nat : (\E a \in A : Within(f, a, x)) <=> (\E b \in B : Within(g, b, x))
    /\ \A b, c \in B : \A x \in Nat : Within(g, b, x) /\ Within(g, c, x) => b = c

LEMMA TilesExchanged ==
    ASSUME NEW f, NEW g, NEW X, NEW A, NEW B, NEW end,
           \A o \in X : f[o].length \in Nat,
           Tiles(f, X, end), Exchanged(f, g, X, A, B)
    PROVE  Tiles(g, (X \ A) \cup B, end)
  <1>0. FrmSize \in Nat /\ FrmSize > 0 /\ BaseSize \in Nat /\ BaseSize > 0
    BY SizeAssumption
  <1>1. \A o \in X \ A : \A x \in Nat : Within(g, o, x) <=> Within(f, o, x)
    BY DEF Exchanged, Within
  <1>e. end \in Nat /\ BaseSize <= end
    BY DEF Tiles
  <1>2. \A b \in B : BaseSize <= b /\ b + FrmSize + g[b].length <= end
    <2> SUFFICES ASSUME NEW b \in B PROVE BaseSize <= b /\ b + FrmSize + g[b].length <= end
      OBVIOUS
    <2>1. PICK n \in Nat, l \in Nat : n = b /\ l = g[b].length
      BY DEF Exchanged
    <2>2. n + FrmSize + l - 1 \in Nat /\ n <= n + FrmSize + l - 1 /\ n < n + FrmSize + l
      BY <1>0
    <2>3. Within(g, b, n) /\ Within(g, b, n + FrmSize + l - 1)
      BY <1>0, <2>1, <2>2 DEF Within
    <2>4. PICK a \in A, c \in A : Within(f, a, n) /\ Within(f, c, n + FrmSize + l - 1)
      BY <2>2, <2>3 DEF Exchanged
    <2>5. a \in X /\ c \in X /\ a \in Nat /\ c \in Nat
      BY DEF Exchanged
    <2>6. BaseSize <= a /\ a <= n
      BY <2>4, <2>5 DEF Tiles, Within
    <2>7. c + FrmSize + f[c].length <= end /\ n + FrmSize + l - 1 < c + FrmSize + f[c].length
      BY <2>4, <2>5 DEF Tiles, Within
    <2>8. f[c].length \in Nat
      BY <2>5
    <2> QED BY <1>0, <1>e, <2>1, <2>5, <2>6, <2>7, <2>8
  <1>3. \A o \in X \ A : BaseSize <= o /\ o + FrmSize + g[o].length <= end
    BY DEF Tiles, Exchanged
  <1>4. ASSUME NEW x \in BaseSize..(end - 1) PROVE \E o \in (X \ A) \cup B : Within(g, o, x)
    <2>1. PICK o \in X : Within(f, o, x)
      BY DEF Tiles
    <2>2. x \in Nat
      BY <1>0
    <2>3. CASE o \in A
      BY <2>1, <2>2, <2>3 DEF Exchanged
    <2> QED BY <1>1, <2>1, <2>2, <2>3
  <1>5. ASSUME NEW o \in (X \ A) \cup B, NEW u \in (X \ A) \cup B, NEW x \in Nat,
               Within(g, o, x), Within(g, u, x)
        PROVE  o = u
    <2>1. ASSUME NEW b \in B, NEW c \in X \ A, Within(g, b, x), Within(g, c, x) PROVE FALSE
      <3>1. PICK a \in A : Within(f, a, x)
        BY <2>1 DEF Exchanged
      <3>2. Within(f, c, x) /\ a \in X
        BY <1>1, <2>1 DEF Exchanged
      <3> QED BY <3>1, <3>2 DEF Tiles
    <2>2. CASE o \in X \ A /\ u \in X \ A
      BY <1>1, <1>5, <2>2 DEF Tiles
    <2>3. CASE o \in B /\ u \in B
      BY <1>5, <2>3 DEF Exchanged
    <2> QED BY <1>5, <2>1, <2>2, <2>3
  <1> QED BY <1>2, <1>3, <1>4, <1>5, <1>e DEF Tiles

\* The lengths stay as they are.
LEMMA TilesSame ==
    ASSUME NEW f, NEW g, NEW X, NEW end, Tiles(f, X, end), \A o \in X : g[o].length = f[o].length
    PROVE  Tiles(g, X, end)
  <1>1. \A o \in X : \A x : Within(g, o, x) <=> Within(f, o, x)
    BY DEF Within
  <1>2. \A o \in X : BaseSize <= o /\ o + FrmSize + g[o].length <= end
    BY DEF Tiles
  <1> QED BY <1>1, <1>2 DEF Tiles

\* A frame is added at the end.
LEMMA TilesGrown ==
    ASSUME NEW f, NEW g, NEW X, X \subseteq Nat, NEW end, NEW size \in Nat,
           Tiles(f, X, end), \A o \in X : f[o].length \in Nat /\ g[o].length = f[o].length,
           g[end].length = size
    PROVE  Tiles(g, X \cup {end}, end + FrmSize + size)
  <1>0. FrmSize \in Nat /\ FrmSize > 0 /\ BaseSize \in Nat /\ BaseSize > 0
    BY SizeAssumption
  <1>e. end \in Nat /\ BaseSize <= end
    BY DEF Tiles
  <1>1. \A o \in X : \A x \in Nat : /\ Within(g, o, x) <=> Within(f, o, x)
                                    /\ Within(g, o, x) => x < end
    <2> SUFFICES ASSUME NEW o \in X, NEW x \in Nat
                 PROVE  /\ Within(g, o, x) <=> Within(f, o, x)
                        /\ Within(g, o, x) => x < end
      OBVIOUS
    <2>1. PICK n \in Nat, l \in Nat : n = o /\ l = f[o].length /\ l = g[o].length
      OBVIOUS
    <2>2. n + FrmSize + l <= end
      BY <2>1 DEF Tiles
    <2> QED BY <1>0, <1>e, <2>1, <2>2 DEF Within
  <1>2. \A x \in Nat : Within(g, end, x) <=> end <= x /\ x < end + FrmSize + size
    BY DEF Within
  <1>3. \A o \in X \cup {end} : BaseSize <= o /\ o + FrmSize + g[o].length <= end + FrmSize + size
    <2>1. ASSUME NEW o \in X PROVE BaseSize <= o /\ o + FrmSize + g[o].length <= end + FrmSize + size
      <3>1. PICK n \in Nat, l \in Nat : n = o /\ l = f[o].length /\ l = g[o].length
        OBVIOUS
      <3>2. BaseSize <= o /\ n + FrmSize + l <= end
        BY <3>1 DEF Tiles
      <3> QED BY <1>0, <1>e, <3>1, <3>2
    <2>2. BaseSize <= end /\ end + FrmSize + g[end].length <= end + FrmSize + size
      BY <1>0, <1>e
    <2>3. ASSUME NEW o \in X \cup {end}
          PROVE  BaseSize <= o /\ o + FrmSize + g[o].length <= end + FrmSize + size
      <3>1. CASE o \in X
        BY <2>1, <3>1
      <3>2. CASE o = end
        BY <2>2, <3>2
      <3> QED BY <3>1, <3>2
    <2> QED BY <2>3
  <1>4. ASSUME NEW x \in BaseSize..(end + FrmSize + size - 1)
        PROVE  \E o \in X \cup {end} : Within(g, o, x)
    <2>0. x \in Nat
      BY <1>0, <1>e
    <2>1. CASE x < end
      <3>1. x \in BaseSize..(end - 1)
        BY <1>0, <1>e, <2>1
      <3>2. PICK o \in X : Within(f, o, x)
        BY <3>1 DEF Tiles
      <3> QED BY <1>1, <2>0, <3>2
    <2>2. CASE ~(x < end)
      BY <1>0, <1>e, <1>2, <2>0, <2>2
    <2> QED BY <2>1, <2>2
  <1>5. ASSUME NEW o \in X \cup {end}, NEW u \in X \cup {end}, NEW x \in Nat,
               Within(g, o, x), Within(g, u, x)
        PROVE  o = u
    <2>1. CASE o \in X /\ u \in X
      BY <1>1, <1>5, <2>1 DEF Tiles
    <2>2. CASE (o = end) # (u = end)
      BY <1>1, <1>2, <1>5, <2>2
    <2> QED BY <2>1, <2>2
  <1>6. end + FrmSize + size \in Nat /\ BaseSize <= end + FrmSize + size
    BY <1>0, <1>e
  <1>7. \A x \in BaseSize..(end + FrmSize + size - 1) : \E o \in X \cup {end} : Within(g, o, x)
    BY <1>4
  <1>8. \A o, u \in X \cup {end} : \A x \in Nat : Within(g, o, x) /\ Within(g, u, x) => o = u
    BY <1>5
  <1>9. PICK fin \in Nat : fin = end + FrmSize + size
    BY <1>6
  <1>10. Tiles(g, X \cup {end}, fin)
    <2>1. \A x \in BaseSize..(fin - 1) : \E o \in X \cup {end} : Within(g, o, x)
      <3>1. ASSUME NEW x \in BaseSize..(fin - 1) PROVE x \in BaseSize..(end + FrmSize + size - 1)
        BY <1>0, <1>e, <1>9
      <3> QED BY <1>7, <3>1
    <2>2. \A o \in X \cup {end} : BaseSize <= o /\ o + FrmSize + g[o].length <= fin
      BY <1>3, <1>9
    <2>3. fin \in Nat /\ BaseSize <= fin
      BY <1>6, <1>9
    <2> QED BY <1>8, <2>1, <2>2, <2>3, Zenon DEF Tiles
  <1> QED BY <1>9, <1>10

-----------------------------------------------------------------------------
\* Writing a frame, or a link in one.

\* A frame keeps all but its links.
Same(f, g, o) ==
    /\ g[o] \in Frames
    /\ g[o].type = f[o].type /\ g[o].length = f[o].length /\ g[o].totsize = f[o].totsize
    /\ g[o].hdr = f[o].hdr /\ g[o].txt = f[o].txt

\* Where the links of the frames of f lead in g, otherwise the same table.
Links(f, g, next(_), prev(_)) ==
    /\ Table(g) /\ DOMAIN g = DOMAIN f
    /\ \A o \in DOMAIN f : Same(f, g, o) /\ g[o].next = next(o) /\ g[o].prev = prev(o)

LEMMA FrameFields ==
    ASSUME NEW fr \in Frames
    PROVE  /\ fr.type \in {"normal", "free"} /\ fr.next \in Nat /\ fr.prev \in Nat
           /\ fr.length \in Nat /\ fr.totsize \in Nat /\ fr.hdr \in Messages /\ fr.txt \in Messages
           /\ fr = [type |-> fr.type, next |-> fr.next, prev |-> fr.prev, length |-> fr.length,
                    totsize |-> fr.totsize, hdr |-> fr.hdr, txt |-> fr.txt]
  BY DEF Frames

LEMMA NextSet ==
    ASSUME NEW f, Table(f), NEW at, at = SQFRAME_NULL \/ at \in DOMAIN f, NEW next \in Nat
    PROVE  LET g == upd_frm_next(f, at, next)
           IN  Links(f, g, LAMBDA o : IF o = at THEN next ELSE f[o].next, LAMBDA o : f[o].prev)
  <1> DEFINE g == upd_frm_next(f, at, next)
  <1>1. CASE at = SQFRAME_NULL
    <2>1. g = f /\ at \notin DOMAIN f
      BY <1>1 DEF upd_frm_next, Table
    <2>2. \A o \in DOMAIN f : f[o] \in Frames /\ o # at
      BY <2>1 DEF Table
    <2> QED BY <2>1, <2>2 DEF Links, Same
  <1>2. CASE at # SQFRAME_NULL
    <2>1. at \in DOMAIN f /\ g = [f EXCEPT ![at].next = next]
      BY <1>2 DEF upd_frm_next
    <2>f. g = [o \in DOMAIN g |-> g[o]]
      BY <2>1 DEF Table
    <2>2. DOMAIN g = DOMAIN f /\ \A o \in DOMAIN f : g[o] = IF o = at THEN [f[at] EXCEPT !.next = next] ELSE f[o]
      BY <2>1
    <2> HIDE DEF g
    <2>3. ASSUME NEW o \in DOMAIN f
          PROVE  Same(f, g, o) /\ g[o].next = (IF o = at THEN next ELSE f[o].next) /\ g[o].prev = f[o].prev
      <3>1. f[o] \in Frames
        BY DEF Table
      <3>2. CASE o # at
        BY <2>2, <3>1, <3>2 DEF Same
      <3>3. CASE o = at
        <4>1. g[o] = [f[o] EXCEPT !.next = next]
          BY <2>2, <3>3
        <4>2. g[o] = [type |-> f[o].type, next |-> next, prev |-> f[o].prev, length |-> f[o].length,
                      totsize |-> f[o].totsize, hdr |-> f[o].hdr, txt |-> f[o].txt]
          BY <3>1, <4>1, FrameFields
        <4>3. g[o] \in Frames
          BY <3>1, <4>2, FrameFields DEF Frames
        <4> QED BY <3>3, <4>2, <4>3 DEF Same
      <3> QED BY <3>2, <3>3
    <2>4. Table(g)
      BY <2>2, <2>3, <2>f DEF Table, Same
    <2> QED BY <2>2, <2>3, <2>4 DEF Links, g
  <1> QED BY <1>1, <1>2

LEMMA PrevSet ==
    ASSUME NEW f, Table(f), NEW at, at = SQFRAME_NULL \/ at \in DOMAIN f, NEW prev \in Nat
    PROVE  LET g == upd_frm_prev(f, at, prev)
           IN  Links(f, g, LAMBDA o : f[o].next, LAMBDA o : IF o = at THEN prev ELSE f[o].prev)
  <1> DEFINE g == upd_frm_prev(f, at, prev)
  <1>1. CASE at = SQFRAME_NULL
    <2>1. g = f /\ at \notin DOMAIN f
      BY <1>1 DEF upd_frm_prev, Table
    <2>2. \A o \in DOMAIN f : f[o] \in Frames /\ o # at
      BY <2>1 DEF Table
    <2> QED BY <2>1, <2>2 DEF Links, Same
  <1>2. CASE at # SQFRAME_NULL
    <2>1. at \in DOMAIN f /\ g = [f EXCEPT ![at].prev = prev]
      BY <1>2 DEF upd_frm_prev
    <2>f. g = [o \in DOMAIN g |-> g[o]]
      BY <2>1 DEF Table
    <2>2. DOMAIN g = DOMAIN f /\ \A o \in DOMAIN f : g[o] = IF o = at THEN [f[at] EXCEPT !.prev = prev] ELSE f[o]
      BY <2>1
    <2> HIDE DEF g
    <2>3. ASSUME NEW o \in DOMAIN f
          PROVE  Same(f, g, o) /\ g[o].next = f[o].next /\ g[o].prev = IF o = at THEN prev ELSE f[o].prev
      <3>1. f[o] \in Frames
        BY DEF Table
      <3>2. CASE o # at
        BY <2>2, <3>1, <3>2 DEF Same
      <3>3. CASE o = at
        <4>1. g[o] = [f[o] EXCEPT !.prev = prev]
          BY <2>2, <3>3
        <4>2. g[o] = [type |-> f[o].type, next |-> f[o].next, prev |-> prev, length |-> f[o].length,
                      totsize |-> f[o].totsize, hdr |-> f[o].hdr, txt |-> f[o].txt]
          BY <3>1, <4>1, FrameFields
        <4>3. g[o] \in Frames
          BY <3>1, <4>2, FrameFields DEF Frames
        <4> QED BY <3>3, <4>2, <4>3 DEF Same
      <3> QED BY <3>2, <3>3
    <2>4. Table(g)
      BY <2>2, <2>3, <2>f DEF Table, Same
    <2> QED BY <2>2, <2>3, <2>4 DEF Links, g
  <1> QED BY <1>1, <1>2


LEMMA Bridged ==
    ASSUME NEW f, Table(f), NEW p, NEW n, NEW a \in Nat, NEW c \in Nat,
           p = SQFRAME_NULL \/ p \in DOMAIN f, n = SQFRAME_NULL \/ n \in DOMAIN f
    PROVE  LET g == upd_frm_prev(upd_frm_next(f, p, a), n, c)
           IN  Links(f, g, LAMBDA o : IF o = p THEN a ELSE f[o].next,
                           LAMBDA o : IF o = n THEN c ELSE f[o].prev)
  <1> DEFINE h == upd_frm_next(f, p, a)
             g == upd_frm_prev(h, n, c)
  <1>1. /\ Table(h) /\ DOMAIN h = DOMAIN f
        /\ \A o \in DOMAIN f : /\ Same(f, h, o) /\ h[o].next = (IF o = p THEN a ELSE f[o].next)
                               /\ h[o].prev = f[o].prev
    BY NextSet DEF Links
  <1> HIDE DEF h
  <1>2. /\ Table(g) /\ DOMAIN g = DOMAIN h
        /\ \A o \in DOMAIN h : /\ Same(h, g, o) /\ g[o].next = h[o].next
                               /\ g[o].prev = IF o = n THEN c ELSE h[o].prev
    BY <1>1, PrevSet DEF Links
  <1> HIDE DEF g
  <1>3. Links(f, g, LAMBDA o : IF o = p THEN a ELSE f[o].next,
                    LAMBDA o : IF o = n THEN c ELSE f[o].prev)
    BY <1>1, <1>2 DEF Links, Same
  <1> QED BY <1>3 DEF g, h

LEMMA FrameWritten ==
    ASSUME NEW f, Table(f), NEW at \in Nat \ {SQFRAME_NULL}, NEW fr \in Frames
    PROVE  LET g == write_frm(f, at, fr)
           IN  /\ Table(g) /\ DOMAIN g = DOMAIN f \cup {at} /\ g[at] = fr
               /\ \A o \in DOMAIN f : o # at => g[o] = f[o]
  <1> DEFINE g == write_frm(f, at, fr)
  <1>f. g = [o \in DOMAIN g |-> g[o]]
    BY DEF write_frm
  <1>1. DOMAIN g = DOMAIN f \cup {at} /\ \A o \in DOMAIN g : g[o] = IF o = at THEN fr ELSE f[o]
    BY DEF write_frm
  <1> HIDE DEF g
  <1>2. IsFiniteSet(DOMAIN f \cup {at})
    BY FS_AddElement DEF Table
  <1>3. Table(g)
    BY <1>1, <1>2, <1>f DEF Table
  <1>4. g[at] = fr /\ \A o \in DOMAIN f : o # at => g[o] = f[o]
    BY <1>1
  <1> QED BY <1>1, <1>3, <1>4 DEF g

LEMMA MessageWritten ==
    ASSUME NEW f, Table(f), NEW at \in Nat \ {SQFRAME_NULL}, NEW fr \in Frames
    PROVE  LET g == WriteMessage(f, at, fr)
           IN  /\ Table(g) /\ at \in DOMAIN g /\ g[at] = fr
               /\ \A o \in DOMAIN f : o # at /\ ~(at <= o /\ o < at + FrmSize + fr.totsize) =>
                      o \in DOMAIN g /\ g[o] = f[o]
  <1> DEFINE g == WriteMessage(f, at, fr)
             under == (at + 1)..(at + FrmSize + fr.totsize - 1)
  <1>0. FrmSize \in Nat /\ fr.totsize \in Nat
    BY SizeAssumption DEF Frames
  <1>f. g = [o \in DOMAIN g |-> g[o]]
    BY DEF WriteMessage
  <1>1. /\ DOMAIN g = (DOMAIN f \cup {at}) \ under
        /\ \A o \in DOMAIN g : g[o] = IF o = at THEN fr ELSE f[o]
    BY DEF WriteMessage
  <1> HIDE DEF g
  <1>2. IsFiniteSet((DOMAIN f \cup {at}) \ under)
    <2>1. IsFiniteSet(DOMAIN f \cup {at})
      BY FS_AddElement DEF Table
    <2> QED BY <2>1, FS_Subset
  <1>3. Table(g)
    BY <1>1, <1>2, <1>f DEF Table
  <1>4. at \notin under
    BY <1>0
  <1>5. ASSUME NEW o \in DOMAIN f, o # at, ~(at <= o /\ o < at + FrmSize + fr.totsize)
        PROVE  o \in DOMAIN g /\ g[o] = f[o]
    <2>1. o \in Nat
      BY DEF Table
    <2>2. o \notin under
      BY <1>0, <1>5, <2>1
    <2> QED BY <1>1, <1>5, <2>2
  <1>6. at \in DOMAIN g /\ g[at] = fr
    BY <1>1, <1>4
  <1> QED BY <1>3, <1>5, <1>6 DEF g

-----------------------------------------------------------------------------
\* A sound base: the index, its chain, the free chain, and the file they fill.

Offs(x) == [i \in 1..Len(x) |-> x[i].offset]

Numbered(b, x) ==
    /\ b.totalmsgs = Len(x) /\ b.highestmsg = Len(x)
    /\ \A i \in 1..Len(x) : 0 < x[i].msgno /\ x[i].msgno < b.nextmsgno
    /\ \A i, j \in 1..Len(x) : i < j => x[i].msgno < x[j].msgno

Holds(fr, n) == /\ fr.type = "normal" /\ fr.totsize <= fr.length
                /\ fr.hdr = fr.txt /\ fr.txt.msgno = n

Limits(b) == b.maxmsgs # 0 => b.protmsgs < b.maxmsgs

\* The two chains of a table f, with base record b: the messages' frames as in
\* the index x, and the free ones F.
Sound0(f, b, x, F) ==
    /\ Table(f) /\ b \in Bases /\ x \in Seq(Entries)
    /\ Numbered(b, x) /\ Limits(b)
    /\ Chain(f, Offs(x), b.firstframe, b.lastframe)
    /\ Chain(f, F, b.firstfreeframe, b.lastfreeframe)
    /\ \A i \in 1..Len(x), j \in 1..Len(F) : x[i].offset # F[j]
    /\ \A j \in 1..Len(F) : f[F[j]].type = "free"
    /\ \A i \in 1..Len(x) : Holds(f[x[i].offset], x[i].msgno)

Spots(x, F) == {x[i].offset : i \in 1..Len(x)} \cup {F[i] : i \in 1..Len(F)}

Sound(f, b, x, F) == Sound0(f, b, x, F) /\ Tiles(f, Spots(x, F), b.endframe)

\* A view of the base.
V(f, b, x, m) == [frm |-> f, base |-> b, idx |-> x, msgn |-> m]

LEMMA BaseFields ==
    ASSUME NEW b \in Bases
    PROVE  /\ b.totalmsgs \in Nat /\ b.highestmsg \in Nat /\ b.protmsgs \in Nat /\ b.nextmsgno \in Nat
           /\ b.firstframe \in Nat /\ b.lastframe \in Nat /\ b.firstfreeframe \in Nat
           /\ b.lastfreeframe \in Nat /\ b.endframe \in Nat /\ b.maxmsgs \in Nat
           /\ b = [totalmsgs |-> b.totalmsgs, highestmsg |-> b.highestmsg, protmsgs |-> b.protmsgs,
                   nextmsgno |-> b.nextmsgno, firstframe |-> b.firstframe, lastframe |-> b.lastframe,
                   firstfreeframe |-> b.firstfreeframe, lastfreeframe |-> b.lastfreeframe,
                   endframe |-> b.endframe, maxmsgs |-> b.maxmsgs]
  BY DEF Bases

\* b and c differ in the ends of the chains at most.
SameBase(b, c) ==
    /\ c \in Bases /\ c.totalmsgs = b.totalmsgs /\ c.highestmsg = b.highestmsg
    /\ c.protmsgs = b.protmsgs /\ c.nextmsgno = b.nextmsgno /\ c.endframe = b.endframe
    /\ c.maxmsgs = b.maxmsgs

\* An entry of the index, and what its frame is.
LEMMA EntryAt ==
    ASSUME NEW f, NEW b, NEW x, NEW F, Sound0(f, b, x, F), NEW k \in 1..Len(x)
    PROVE  /\ x[k] \in Entries /\ x[k].offset \in Nat \ {SQFRAME_NULL} /\ x[k].msgno \in Nat
           /\ x[k].offset \in DOMAIN f /\ f[x[k].offset] \in Frames
           /\ read_frm(f, x[k].offset) = f[x[k].offset]
           /\ Offs(x)[k] = x[k].offset /\ Pos(Offs(x), k) = x[k].offset
           /\ f[x[k].offset].next = Pos(Offs(x), k + 1)
           /\ f[x[k].offset].prev = Pos(Offs(x), k - 1)
  <1>1. x \in Seq(Entries) /\ Table(f) /\ Chain(f, Offs(x), b.firstframe, b.lastframe)
    BY DEF Sound0
  <1>2. x[k] \in Entries /\ Len(Offs(x)) = Len(x) /\ Offs(x)[k] = x[k].offset
    <2>1. Len(x) \in Nat /\ x[k] \in Entries
      BY <1>1
    <2> QED BY <2>1 DEF Offs
  <1>3. /\ Offs(x)[k] \in DOMAIN f /\ Offs(x)[k] \in Nat \ {SQFRAME_NULL} /\ Pos(Offs(x), k) = Offs(x)[k]
        /\ f[Offs(x)[k]] \in Frames /\ read_frm(f, Offs(x)[k]) = f[Offs(x)[k]]
        /\ f[Offs(x)[k]].next = Pos(Offs(x), k + 1) /\ f[Offs(x)[k]].prev = Pos(Offs(x), k - 1)
    BY <1>1, <1>2, ChainAt
  <1> QED BY <1>2, <1>3 DEF Entries

LEMMA OffsLen == ASSUME NEW x \in Seq(Entries) PROVE Len(Offs(x)) = Len(x) /\ Len(x) \in Nat /\ Offs(x) \in Seq(Nat)
  <1>1. Len(x) \in Nat /\ \A i \in 1..Len(x) : x[i] \in Entries
    OBVIOUS
  <1>2. \A i \in 1..Len(x) : x[i].offset \in Nat
    BY <1>1 DEF Entries
  <1> QED BY <1>1, <1>2 DEF Offs

\* A place of a chain is a frame of it, or none.
LEMMA PosIn ==
    ASSUME NEW f, Table(f), NEW S, NEW first, NEW last, Chain(f, S, first, last), NEW i \in Int
    PROVE  Pos(S, i) \in Nat /\ (Pos(S, i) = SQFRAME_NULL \/ Pos(S, i) \in DOMAIN f)
           /\ (Pos(S, i) = SQFRAME_NULL <=> i \notin 1..Len(S))
  <1>1. CASE i \in 1..Len(S)
    BY <1>1, ChainAt
  <1>2. CASE i \notin 1..Len(S)
    BY <1>2 DEF Pos, SQFRAME_NULL
  <1> QED BY <1>1, <1>2

LEMMA PosOnce ==
    ASSUME NEW f, Table(f), NEW S, NEW first, NEW last, Chain(f, S, first, last),
           NEW i \in 1..Len(S), NEW j \in Int
    PROVE  S[i] = Pos(S, j) <=> i = j
  <1>1. S[i] # SQFRAME_NULL /\ \A q \in 1..Len(S) : S[i] = S[q] => i = q
    <2>1. S[i] \in Nat \ {SQFRAME_NULL}
      BY ChainAt
    <2> QED BY <2>1 DEF Chain
  <1> QED BY <1>1 DEF Pos

-----------------------------------------------------------------------------
\* A frame goes to the free chain (add_to_free_chain).

\* What add_to_free_chain makes of a table and a base record.
FreedFrm(f, b, at, fr) ==
    LET last  == b.lastfreeframe
        empty == b.firstfreeframe = SQFRAME_NULL \/ last = SQFRAME_NULL
        g     == IF empty THEN f ELSE upd_frm_next(f, last, at)
    IN  write_frm(g, at, [fr EXCEPT !.type = "free", !.next = SQFRAME_NULL,
                                    !.prev = IF empty THEN SQFRAME_NULL ELSE last])
FreedBase(b, at) ==
    LET empty == b.firstfreeframe = SQFRAME_NULL \/ b.lastfreeframe = SQFRAME_NULL
    IN  [b EXCEPT !.firstfreeframe = IF empty THEN at ELSE @, !.lastfreeframe = at]

LEMMA FreedIs ==
    ASSUME NEW f, NEW b \in Bases, NEW x, NEW m, NEW at, NEW fr
    PROVE  add_to_free_chain(V(f, b, x, m), at, fr) = V(FreedFrm(f, b, at, fr), FreedBase(b, at), x, m)
  <1> DEFINE empty == b.firstfreeframe = SQFRAME_NULL \/ b.lastfreeframe = SQFRAME_NULL
             first == IF empty THEN at ELSE b.firstfreeframe
             g == FreedFrm(f, b, at, fr)
  <1>1. add_to_free_chain(V(f, b, x, m), at, fr)
        = [V(f, b, x, m) EXCEPT !.base.firstfreeframe = first, !.base.lastfreeframe = at, !.frm = g]
    BY DEF add_to_free_chain, V, FreedFrm
  <1> HIDE DEF g, first
  <1>2. [V(f, b, x, m) EXCEPT !.base.firstfreeframe = first, !.base.lastfreeframe = at, !.frm = g]
        = [[[V(f, b, x, m) EXCEPT !.base.firstfreeframe = first] EXCEPT !.base.lastfreeframe = at]
              EXCEPT !.frm = g]
    OBVIOUS
  <1>3. [V(f, b, x, m) EXCEPT !.base.firstfreeframe = first]
        = V(f, [b EXCEPT !.firstfreeframe = first], x, m)
    BY DEF V
  <1>4. [V(f, [b EXCEPT !.firstfreeframe = first], x, m) EXCEPT !.base.lastfreeframe = at]
        = V(f, [[b EXCEPT !.firstfreeframe = first] EXCEPT !.lastfreeframe = at], x, m)
    BY DEF V
  <1>5. [V(f, [[b EXCEPT !.firstfreeframe = first] EXCEPT !.lastfreeframe = at], x, m) EXCEPT !.frm = g]
        = V(g, [[b EXCEPT !.firstfreeframe = first] EXCEPT !.lastfreeframe = at], x, m)
    BY DEF V
  <1>6. FreedBase(b, at) = [[b EXCEPT !.firstfreeframe = first] EXCEPT !.lastfreeframe = at]
    BY DEF FreedBase, first
  <1> QED BY <1>1, <1>2, <1>3, <1>4, <1>5, <1>6 DEF g

\* The frames that leave the table of f for g as links only.
LEMMA Freed ==
    ASSUME NEW f, Table(f), NEW b \in Bases, NEW F,
           Chain(f, F, b.firstfreeframe, b.lastfreeframe),
           NEW at \in DOMAIN f, \A j \in 1..Len(F) : F[j] # at, NEW fr \in Frames
    PROVE  LET g == FreedFrm(f, b, at, fr)
               c == FreedBase(b, at)
           IN  /\ SameBase(b, c) /\ c.firstframe = b.firstframe /\ c.lastframe = b.lastframe
               /\ Table(g) /\ DOMAIN g = DOMAIN f
               /\ Chain(g, Append(F, at), c.firstfreeframe, c.lastfreeframe)
               /\ g[at].type = "free" /\ g[at].length = fr.length /\ g[at].txt = fr.txt
               /\ \A o \in DOMAIN f : o # at =>
                     /\ Same(f, g, o) /\ g[o].prev = f[o].prev
                     /\ (\A j \in 1..Len(F) : F[j] # o) => g[o].next = f[o].next
  <1> DEFINE g == FreedFrm(f, b, at, fr)
             c == FreedBase(b, at)
             n == Len(F)
             empty == b.firstfreeframe = SQFRAME_NULL \/ b.lastfreeframe = SQFRAME_NULL
             last == Pos(F, n)
             h == upd_frm_next(f, last, at)
             new == [fr EXCEPT !.type = "free", !.next = SQFRAME_NULL, !.prev = last]
  <1>0. /\ at \in Nat \ {SQFRAME_NULL} /\ n \in Nat /\ F \in Seq(Nat)
        /\ b.firstfreeframe = Pos(F, 1) /\ b.lastfreeframe = last
    BY DEF Table, Chain
  <1>1. empty <=> n = 0
    BY <1>0, PosIn
  <1>2. last = SQFRAME_NULL \/ last \in DOMAIN f
    BY <1>0, PosIn
  <1>2z. (last = SQFRAME_NULL <=> n = 0) /\ last \in Nat
    BY <1>0, PosIn
  <1>n. new = [type |-> "free", next |-> SQFRAME_NULL, prev |-> last, length |-> fr.length,
               totsize |-> fr.totsize, hdr |-> fr.hdr, txt |-> fr.txt] /\ new \in Frames
    <2>1. new = [type |-> "free", next |-> SQFRAME_NULL, prev |-> last, length |-> fr.length,
               totsize |-> fr.totsize, hdr |-> fr.hdr, txt |-> fr.txt]
      <3>1. new = [[[fr EXCEPT !.type = "free"] EXCEPT !.next = SQFRAME_NULL] EXCEPT !.prev = last]
        OBVIOUS
      <3>2. PICK r : r = new
        OBVIOUS
      <3>3. DOMAIN fr = {"type", "next", "prev", "length", "totsize", "hdr", "txt"}
        BY DEF Frames
      <3>4. /\ DOMAIN r = DOMAIN fr /\ r = [k \in DOMAIN fr |-> r[k]]
            /\ r.type = "free" /\ r.next = SQFRAME_NULL /\ r.prev = last
            /\ r.length = fr.length /\ r.totsize = fr.totsize /\ r.hdr = fr.hdr /\ r.txt = fr.txt
        BY <3>1, <3>2, <3>3
      <3> QED BY <3>2, <3>3, <3>4
    <2> QED BY <1>2z, <2>1, FrameFields DEF Frames, SQFRAME_NULL
  <1>3. g = write_frm(h, at, new)
    <2>1. CASE n = 0
      <3>1. empty /\ last = SQFRAME_NULL
        BY <1>1, <1>2z, <2>1
      <3>2. h = f
        BY <3>1 DEF upd_frm_next
      <3> QED BY <3>1, <3>2 DEF FreedFrm
    <2>2. CASE n # 0
      <3>1. ~empty /\ b.lastfreeframe = last
        BY <1>0, <1>1, <2>2
      <3> QED BY <3>1 DEF FreedFrm
    <2> QED BY <2>1, <2>2
  <1>4. /\ Table(h) /\ DOMAIN h = DOMAIN f
        /\ \A o \in DOMAIN f : /\ Same(f, h, o) /\ h[o].next = (IF o = last THEN at ELSE f[o].next)
                               /\ h[o].prev = f[o].prev
    BY <1>0, <1>2, NextSet DEF Links
  <1>5. /\ Table(g) /\ DOMAIN g = DOMAIN h \cup {at} /\ g[at] = new
        /\ \A o \in DOMAIN h : o # at => g[o] = h[o]
    <2> HIDE DEF h, g, new
    <2>1. Table(h) /\ at \in Nat \ {SQFRAME_NULL} /\ new \in Frames
      BY <1>0, <1>4, <1>n
    <2>2. LET k == write_frm(h, at, new)
          IN  /\ Table(k) /\ DOMAIN k = DOMAIN h \cup {at} /\ k[at] = new
              /\ \A o \in DOMAIN h : o # at => k[o] = h[o]
      BY <2>1, FrameWritten
    <2> QED BY <1>3, <2>2
  <1>6. /\ c.firstfreeframe = (IF n = 0 THEN at ELSE b.firstfreeframe) /\ c.lastfreeframe = at
        /\ SameBase(b, c) /\ c.firstframe = b.firstframe /\ c.lastframe = b.lastframe
    <2>1. c = [totalmsgs |-> b.totalmsgs, highestmsg |-> b.highestmsg, protmsgs |-> b.protmsgs,
                   nextmsgno |-> b.nextmsgno, firstframe |-> b.firstframe, lastframe |-> b.lastframe,
                   firstfreeframe |-> IF n = 0 THEN at ELSE b.firstfreeframe, lastfreeframe |-> at,
                   endframe |-> b.endframe, maxmsgs |-> b.maxmsgs]
      <3>1. PICK first : first = IF n = 0 THEN at ELSE b.firstfreeframe
        OBVIOUS
      <3>2. c = [[b EXCEPT !.firstfreeframe = first] EXCEPT !.lastfreeframe = at]
        BY <1>1, <3>1 DEF FreedBase
      <3>3. [b EXCEPT !.firstfreeframe = first]
            = [totalmsgs |-> b.totalmsgs, highestmsg |-> b.highestmsg, protmsgs |-> b.protmsgs,
                   nextmsgno |-> b.nextmsgno, firstframe |-> b.firstframe, lastframe |-> b.lastframe,
                   firstfreeframe |-> first, lastfreeframe |-> b.lastfreeframe,
                   endframe |-> b.endframe, maxmsgs |-> b.maxmsgs]
        BY BaseFields
      <3> QED BY <3>1, <3>2, <3>3
    <2>2. c \in Bases
      BY <1>0, <2>1, BaseFields DEF Bases
    <2> QED BY <2>1, <2>2 DEF SameBase
  <1> DEFINE T == Append(F, at)
  <1>7. Len(T) = n + 1 /\ T \in Seq(Nat) /\ \A q \in 1..Len(T) : T[q] = IF q < n + 1 THEN F[q] ELSE at
    BY <1>0
  <1>8. Spliced(F, T, n + 1, 1, -1, at)
    <2>1. \A q \in 1..Len(T) : T[q] = IF q < n + 1 THEN F[q] ELSE IF q < n + 1 + 1 THEN at ELSE F[q + (-1)]
      BY <1>0, <1>7
    <2> HIDE DEF T
    <2> QED BY <1>0, <1>7, <2>1 DEF Spliced
  <1> HIDE DEF T, g, h, new, c, empty, last
  <1>9. Relinked(f, g, F, n + 1, 1, -1, at)
    <2>1. ASSUME NEW q \in 1..n
          PROVE  /\ F[q] \in DOMAIN g /\ F[q] # at
                 /\ g[F[q]].next = (IF q = n THEN at ELSE f[F[q]].next)
                 /\ g[F[q]].prev = f[F[q]].prev
      <3>1. F[q] \in DOMAIN f /\ F[q] # at
        BY ChainAt
      <3>2. F[q] = last <=> q = n
        BY <1>0, PosOnce DEF last
      <3>3. g[F[q]] = h[F[q]]
        BY <1>4, <1>5, <3>1
      <3> QED BY <1>4, <1>5, <3>1, <3>2, <3>3
    <2>2. at \in DOMAIN g /\ g[at].prev = Pos(F, n) /\ g[at].next = Pos(F, n + 1)
      <3>1. Pos(F, n + 1) = SQFRAME_NULL
        BY <1>0 DEF Pos
      <3> QED BY <1>5, <1>n, <3>1 DEF last
    <2>3. \A q \in 1..n : q = (n + 1) - 1 <=> q = n
      BY <1>0
    <2>4. \A q \in 1..n : ~(q = (n + 1) + 1 + (-1))
      BY <1>0
    <2>5. (n + 1) - 1 = n /\ (n + 1) + 1 + (-1) = n + 1
      BY <1>0
    <2>6. \A q \in 1..Len(F) : q < n + 1 \/ q >= (n + 1) + 1 + (-1) =>
          /\ F[q] \in DOMAIN g /\ (1 = 1 => F[q] # at)
          /\ g[F[q]].next = IF q = (n + 1) - 1 THEN (IF 1 = 1 THEN at ELSE Pos(F, n + 1 + (-1))) ELSE f[F[q]].next
          /\ g[F[q]].prev = IF q = (n + 1) + 1 + (-1) THEN (IF 1 = 1 THEN at ELSE Pos(F, (n + 1) - 1)) ELSE f[F[q]].prev
      BY <2>1, <2>3, <2>4
    <2>7. 1 = 1 => /\ at \in DOMAIN g
                   /\ g[at].prev = Pos(F, (n + 1) - 1) /\ g[at].next = Pos(F, (n + 1) + 1 + (-1))
      BY <2>2, <2>5
    <2> QED BY <2>6, <2>7, Zenon DEF Relinked
  <1>10. Chain(g, T, c.firstfreeframe, c.lastfreeframe)
    <2>1. Chain(g, T, IF n + 1 = 1 THEN at ELSE b.firstfreeframe,
                      IF (n + 1) + 1 + (-1) = n + 1 THEN at ELSE b.lastfreeframe)
      BY <1>8, <1>9, SpliceChain
    <2>2. (n + 1 = 1 <=> n = 0) /\ (n + 1) + 1 + (-1) = n + 1
      BY <1>0
    <2> QED BY <1>6, <2>1, <2>2
  <1>11. g[at].type = "free" /\ g[at].length = fr.length /\ g[at].txt = fr.txt
    BY <1>5, <1>n
  <1>12. ASSUME NEW o \in DOMAIN f, o # at
         PROVE  /\ Same(f, g, o) /\ g[o].prev = f[o].prev
                /\ (\A j \in 1..Len(F) : F[j] # o) => g[o].next = f[o].next
    <2>1. g[o] = h[o]
      BY <1>4, <1>5, <1>12
    <2>2. (\A j \in 1..Len(F) : F[j] # o) => o # last
      <3>1. o # SQFRAME_NULL
        BY DEF Table
      <3> QED BY <3>1 DEF last, Pos
    <2> QED BY <1>4, <2>1, <2>2 DEF Same
  <1>13. DOMAIN g = DOMAIN f
    BY <1>4, <1>5
  <1> QED BY <1>5, <1>6, <1>10, <1>11, <1>12, <1>13 DEF g, c, T

-----------------------------------------------------------------------------
\* A message's frame leaves its chain (delete_msg).

\* A chain whose frames keep their links.
LEMMA ChainSame ==
    ASSUME NEW f, NEW g, NEW S, NEW first, NEW last, Chain(f, S, first, last),
           \A i \in 1..Len(S) : /\ S[i] \in DOMAIN f => S[i] \in DOMAIN g
                                /\ g[S[i]].prev = f[S[i]].prev /\ g[S[i]].next = f[S[i]].next
    PROVE  Chain(g, S, first, last)
  BY DEF Chain

\* The frame at offset `at' leaves the chain of the messages.
UnlinkedBase(b, at, prev, next) ==
    [b EXCEPT !.firstframe = IF @ = at THEN next ELSE @,
              !.lastframe  = IF @ = at THEN prev ELSE @]

LEMMA UnlinkedBaseIs ==
    ASSUME NEW b \in Bases, NEW at, NEW prev \in Nat, NEW next \in Nat
    PROVE  LET c == UnlinkedBase(b, at, prev, next)
           IN  /\ SameBase(b, c)
               /\ c.firstframe = (IF b.firstframe = at THEN next ELSE b.firstframe)
               /\ c.lastframe = (IF b.lastframe = at THEN prev ELSE b.lastframe)
               /\ c.firstfreeframe = b.firstfreeframe /\ c.lastfreeframe = b.lastfreeframe
  <1>1. PICK fst \in Nat, lst \in Nat : /\ fst = IF b.firstframe = at THEN next ELSE b.firstframe
                                        /\ lst = IF b.lastframe = at THEN prev ELSE b.lastframe
    BY BaseFields
  <1>2. PICK c : c = UnlinkedBase(b, at, prev, next)
    OBVIOUS
  <1>3. c = [[b EXCEPT !.firstframe = fst] EXCEPT !.lastframe = lst]
    BY <1>1, <1>2 DEF UnlinkedBase
  <1>4. [b EXCEPT !.firstframe = fst]
        = [totalmsgs |-> b.totalmsgs, highestmsg |-> b.highestmsg, protmsgs |-> b.protmsgs,
                   nextmsgno |-> b.nextmsgno, firstframe |-> fst, lastframe |-> b.lastframe,
                   firstfreeframe |-> b.firstfreeframe, lastfreeframe |-> b.lastfreeframe,
                   endframe |-> b.endframe, maxmsgs |-> b.maxmsgs]
    BY BaseFields
  <1>5. c = [totalmsgs |-> b.totalmsgs, highestmsg |-> b.highestmsg, protmsgs |-> b.protmsgs,
                   nextmsgno |-> b.nextmsgno, firstframe |-> fst, lastframe |-> lst,
                   firstfreeframe |-> b.firstfreeframe, lastfreeframe |-> b.lastfreeframe,
                   endframe |-> b.endframe, maxmsgs |-> b.maxmsgs]
    BY <1>3, <1>4
  <1>6. c \in Bases
    BY <1>5, BaseFields DEF Bases
  <1> QED BY <1>1, <1>2, <1>5, <1>6 DEF SameBase

LEMMA UnchainIs ==
    ASSUME NEW f, NEW b \in Bases, NEW x, NEW m, NEW at
    PROVE  LET del == read_frm(f, at)
               h == upd_frm_prev(upd_frm_next(f, del.prev, del.next), del.next, del.prev)
               c == UnlinkedBase(b, at, del.prev, del.next)
           IN  Unchain(V(f, b, x, m), at) = add_to_free_chain(V(h, c, x, m), at, del)
  <1> DEFINE del == read_frm(f, at)
             h == upd_frm_prev(upd_frm_next(f, del.prev, del.next), del.next, del.prev)
             fst == IF b.firstframe = at THEN del.next ELSE b.firstframe
             lst == IF b.lastframe = at THEN del.prev ELSE b.lastframe
             w == [V(f, b, x, m) EXCEPT !.frm = h, !.base.firstframe = fst, !.base.lastframe = lst]
  <1>1. Unchain(V(f, b, x, m), at) = add_to_free_chain(w, at, del)
    BY DEF Unchain, V
  <1>2. UnlinkedBase(b, at, del.prev, del.next)
        = [[b EXCEPT !.firstframe = fst] EXCEPT !.lastframe = lst]
    BY DEF UnlinkedBase
  <1> HIDE DEF h, fst, lst
  <1>3. w = [[[V(f, b, x, m) EXCEPT !.frm = h] EXCEPT !.base.firstframe = fst]
                EXCEPT !.base.lastframe = lst]
    OBVIOUS
  <1>4. [V(f, b, x, m) EXCEPT !.frm = h] = V(h, b, x, m)
    BY DEF V
  <1>5. [V(h, b, x, m) EXCEPT !.base.firstframe = fst] = V(h, [b EXCEPT !.firstframe = fst], x, m)
    BY DEF V
  <1>6. [V(h, [b EXCEPT !.firstframe = fst], x, m) EXCEPT !.base.lastframe = lst]
        = V(h, [[b EXCEPT !.firstframe = fst] EXCEPT !.lastframe = lst], x, m)
    BY DEF V
  <1>7. w = V(h, UnlinkedBase(b, at, del.prev, del.next), x, m)
    BY <1>2, <1>3, <1>4, <1>5, <1>6
  <1> HIDE DEF w
  <1> QED BY <1>1, <1>7 DEF h

\* The view after the k-th frame has left the chain of the messages, which is
\* T then, for that of the free ones.
IsUnchained(f, b, x, m, F, k, T, g, c) ==
    /\ Unchain(V(f, b, x, m), x[k].offset) = V(g, c, x, m)
    /\ SameBase(b, c) /\ Table(g) /\ DOMAIN g = DOMAIN f
    /\ Chain(g, T, c.firstframe, c.lastframe)
    /\ Chain(g, Append(F, x[k].offset), c.firstfreeframe, c.lastfreeframe)
    /\ g[x[k].offset].type = "free" /\ g[x[k].offset].length = f[x[k].offset].length
    /\ \A o \in DOMAIN f : o # x[k].offset => Same(f, g, o)

LEMMA Unchained ==
    ASSUME NEW f, NEW b, NEW x, NEW F, Sound0(f, b, x, F), NEW m, NEW k \in 1..Len(x),
           NEW T, Spliced(Offs(x), T, k, 0, 1, 0)
    PROVE  \E g, c : IsUnchained(f, b, x, m, F, k, T, g, c)
  <1> DEFINE O == Offs(x)
             at == x[k].offset
             del == read_frm(f, at)
             p == Pos(O, k - 1)
             n == Pos(O, k + 1)
             h == upd_frm_prev(upd_frm_next(f, p, n), n, p)
             c1 == UnlinkedBase(b, at, p, n)
             g == FreedFrm(h, c1, at, f[at])
             c == FreedBase(c1, at)
  <1>1. /\ at \in Nat \ {SQFRAME_NULL} /\ at \in DOMAIN f /\ f[at] \in Frames /\ read_frm(f, at) = f[at]
        /\ O[k] = at /\ f[at].next = n /\ f[at].prev = p
    BY EntryAt
  <1>2. /\ Table(f) /\ b \in Bases /\ Chain(f, O, b.firstframe, b.lastframe)
        /\ Chain(f, F, b.firstfreeframe, b.lastfreeframe)
    BY DEF Sound0
  <1>3. Len(O) = Len(x) /\ Len(x) \in Nat /\ O \in Seq(Nat) /\ k \in Int /\ k - 1 \in Int /\ k + 1 \in Int
    BY OffsLen DEF Sound0
  <1>4. /\ p \in Nat /\ (p = SQFRAME_NULL \/ p \in DOMAIN f)
        /\ n \in Nat /\ (n = SQFRAME_NULL \/ n \in DOMAIN f)
    BY <1>2, <1>3, PosIn
  <1>5. Unchain(V(f, b, x, m), at) = V(g, c, x, m)
    <2>1. Unchain(V(f, b, x, m), at) = add_to_free_chain(V(h, c1, x, m), at, f[at])
      <3> HIDE DEF p, n
      <3> QED BY <1>1, <1>2, UnchainIs
    <2>2. c1 \in Bases
      BY <1>2, <1>4, UnlinkedBaseIs DEF SameBase
    <2> HIDE DEF h, c1
    <2> QED BY <2>1, <2>2, FreedIs
  <1>6. /\ SameBase(b, c1)
        /\ c1.firstframe = (IF b.firstframe = at THEN n ELSE b.firstframe)
        /\ c1.lastframe = (IF b.lastframe = at THEN p ELSE b.lastframe)
        /\ c1.firstfreeframe = b.firstfreeframe /\ c1.lastfreeframe = b.lastfreeframe
    BY <1>2, <1>4, UnlinkedBaseIs
  <1>7. /\ Table(h) /\ DOMAIN h = DOMAIN f
        /\ \A o \in DOMAIN f : /\ Same(f, h, o) /\ h[o].next = (IF o = p THEN n ELSE f[o].next)
                               /\ h[o].prev = IF o = n THEN p ELSE f[o].prev
    BY <1>2, <1>4, Bridged DEF Links
  <1> HIDE DEF h, c1
  <1>8. \A i \in 1..Len(x), j \in 1..Len(F) : O[i] # F[j]
    <2>1. \A i \in 1..Len(x) : O[i] = x[i].offset
      BY DEF Offs
    <2> QED BY <2>1 DEF Sound0
  <1>9. Chain(h, F, c1.firstfreeframe, c1.lastfreeframe)
    <2>1. ASSUME NEW j \in 1..Len(F)
          PROVE  /\ F[j] \in DOMAIN f => F[j] \in DOMAIN h
                 /\ h[F[j]].prev = f[F[j]].prev /\ h[F[j]].next = f[F[j]].next
      <3>1. F[j] \in DOMAIN f /\ F[j] # SQFRAME_NULL
        BY <1>2, ChainAt
      <3>2. F[j] # p /\ F[j] # n
        BY <1>3, <1>8, <3>1 DEF Pos
      <3> QED BY <1>7, <3>1, <3>2
    <2> QED BY <1>2, <1>6, <2>1, ChainSame
  <1>10. \A j \in 1..Len(F) : F[j] # at
    BY <1>1, <1>3, <1>8
  <1>11. /\ SameBase(c1, c) /\ c.firstframe = c1.firstframe /\ c.lastframe = c1.lastframe
         /\ Table(g) /\ DOMAIN g = DOMAIN h
         /\ Chain(g, Append(F, at), c.firstfreeframe, c.lastfreeframe)
         /\ g[at].type = "free" /\ g[at].length = f[at].length /\ g[at].txt = f[at].txt
         /\ \A o \in DOMAIN h : o # at =>
                     /\ Same(h, g, o) /\ g[o].prev = h[o].prev
                     /\ (\A j \in 1..Len(F) : F[j] # o) => g[o].next = h[o].next
    <2>1. c1 \in Bases /\ at \in DOMAIN h /\ f[at] \in Frames
      BY <1>1, <1>6, <1>7 DEF SameBase
    <2> HIDE DEF at
    <2> QED BY <1>7, <1>9, <1>10, <2>1, Freed
  <1> HIDE DEF g, c
  <1>12. SameBase(b, c)
    BY <1>6, <1>11 DEF SameBase
  <1>13. \A o \in DOMAIN f : o # at => Same(f, g, o)
    BY <1>7, <1>11 DEF Same
  <1>14. g[at].type = "free" /\ g[at].length = f[at].length
    BY <1>11
  <1>15. Relinked(f, g, O, k, 0, 1, 0)
    <2>1. ASSUME NEW q \in 1..Len(O), q # k
          PROVE  /\ O[q] \in DOMAIN g
                 /\ g[O[q]].next = (IF q = k - 1 THEN n ELSE f[O[q]].next)
                 /\ g[O[q]].prev = IF q = k + 1 THEN p ELSE f[O[q]].prev
      <3>1. O[q] \in DOMAIN f /\ O[q] # at
        <4> HIDE DEF O, at
        <4> QED BY <1>1, <1>2, <1>3, <2>1 DEF Chain
      <3>2. (O[q] = p <=> q = k - 1) /\ (O[q] = n <=> q = k + 1)
        BY <1>2, <1>3, PosOnce
      <3>3. \A j \in 1..Len(F) : F[j] # O[q]
        BY <1>3, <1>8
      <3> HIDE DEF O, n, p, at
      <3> QED BY <1>7, <1>11, <3>1, <3>2, <3>3
    <2>2. \A q \in 1..Len(O) : q < k \/ q >= k + 0 + 1 => q # k
      BY <1>3
    <2>3. k + 0 + 1 = k + 1 /\ ~(0 = 1)
      BY <1>3
    <2> HIDE DEF O
    <2> QED BY <2>1, <2>2, <2>3 DEF Relinked
  <1>16. Chain(g, T, c.firstframe, c.lastframe)
    <2>1. Chain(g, T, IF k = 1 THEN (IF 0 = 1 THEN 0 ELSE Pos(O, 1 + 1)) ELSE b.firstframe,
                       IF k + 0 + 1 = Len(O) + 1 THEN (IF 0 = 1 THEN 0 ELSE Pos(O, k - 1)) ELSE b.lastframe)
      <3>1. Spliced(O, T, k, 0, 1, 0)
        OBVIOUS
      <3> HIDE DEF O
      <3> QED BY <1>2, <1>15, <3>1, SpliceChain
    <2>2. b.firstframe = Pos(O, 1) /\ b.lastframe = Pos(O, Len(O))
      BY <1>2 DEF Chain
    <2>3. (at = Pos(O, 1) <=> k = 1) /\ (at = Pos(O, Len(O)) <=> k = Len(O))
      BY <1>1, <1>2, <1>3, PosOnce
    <2>4. k = 1 => 1 + 1 = k + 1
      OBVIOUS
    <2>5. k + 0 + 1 = Len(O) + 1 <=> k = Len(O)
      BY <1>3
    <2> HIDE DEF O, at
    <2> QED BY <1>6, <1>11, <2>1, <2>2, <2>3, <2>4, <2>5
  <1>17. IsUnchained(f, b, x, m, F, k, T, g, c)
    BY <1>5, <1>7, <1>11, <1>12, <1>13, <1>14, <1>16 DEF IsUnchained
  <1> QED BY <1>17

-----------------------------------------------------------------------------
\* A message is deleted.

\* What a call keeps of the base record: its limits, where the file ends, and
\* the next number.
SameLimits(b, c) == c.maxmsgs = b.maxmsgs /\ c.protmsgs = b.protmsgs

LEMMA NumbersRemoved ==
    ASSUME NEW x \in Seq(Entries), NEW k \in 1..Len(x)
    PROVE  /\ k \in DOMAIN Numbers(x)
           /\ RemoveAt(Numbers(x), k) = Numbers(RemoveAt(x, k))
  <1> DEFINE n == Len(x)
             y == RemoveAt(x, k)
  <1>1. n \in Nat /\ DOMAIN x = 1..n /\ \A i \in 1..n : x[i] \in Entries
    OBVIOUS
  <1>2. y \in Seq(Entries) /\ Shorter(y, x, n, k)
    BY <1>1, RemoveAtIs
  <1>3. Numbers(x) \in Seq(Nat) /\ Len(Numbers(x)) = n /\ DOMAIN Numbers(x) = 1..n
    <2>1. \A i \in 1..n : x[i].msgno \in Nat
      BY <1>1 DEF Entries
    <2> QED BY <1>1, <2>1 DEF Numbers
  <1> DEFINE z == RemoveAt(Numbers(x), k)
  <1>4. z \in Seq(Nat) /\ Shorter(z, Numbers(x), n, k)
    BY <1>1, <1>3, RemoveAtIs
  <1> HIDE DEF z, y, n
  <1>5. /\ DOMAIN z = 1..(n - 1) /\ DOMAIN Numbers(y) = 1..(n - 1)
        /\ z = [i \in 1..(n - 1) |-> z[i]] /\ Numbers(y) = [i \in 1..(n - 1) |-> y[i].msgno]
    BY <1>2, <1>4 DEF Shorter, Numbers
  <1>6. ASSUME NEW i \in 1..(n - 1) PROVE z[i] = y[i].msgno
    <2>1. (i < k => i \in 1..n) /\ (~(i < k) => i + 1 \in 1..n) /\ n = Len(x)
      BY <1>1 DEF n
    <2>2. \A j \in 1..n : Numbers(x)[j] = x[j].msgno
      BY <1>1 DEF Numbers
    <2> QED BY <1>2, <1>4, <2>1, <2>2 DEF Shorter
  <1> QED BY <1>3, <1>5, <1>6 DEF z, y, n

Counted(v, y, z) == [v EXCEPT !.msgn = z, !.idx = y,
                               !.base.highestmsg = @ - 1, !.base.totalmsgs = @ - 1]

LEMMA CountedIs ==
    ASSUME NEW g, NEW c \in Bases, NEW x, NEW m, NEW y, NEW z, c.highestmsg > 0, c.totalmsgs > 0
    PROVE  \E d \in Bases :
              /\ Counted(V(g, c, x, m), y, z) = V(g, d, y, z)
              /\ d.highestmsg = c.highestmsg - 1 /\ d.totalmsgs = c.totalmsgs - 1
              /\ d.firstframe = c.firstframe /\ d.lastframe = c.lastframe
              /\ d.firstfreeframe = c.firstfreeframe /\ d.lastfreeframe = c.lastfreeframe
              /\ d.endframe = c.endframe /\ d.nextmsgno = c.nextmsgno /\ SameLimits(c, d)
  <1>1. PICK hi \in Nat, tot \in Nat : hi = c.highestmsg - 1 /\ tot = c.totalmsgs - 1
    BY BaseFields
  <1> DEFINE d == [[c EXCEPT !.highestmsg = hi] EXCEPT !.totalmsgs = tot]
             w == Counted(V(g, c, x, m), y, z)
  <1>2. w = [[[[V(g, c, x, m) EXCEPT !.msgn = z] EXCEPT !.idx = y]
                EXCEPT !.base.highestmsg = hi] EXCEPT !.base.totalmsgs = tot]
    BY <1>1 DEF V, Counted
  <1> HIDE DEF w
  <1>3. [V(g, c, x, m) EXCEPT !.msgn = z] = V(g, c, x, z)
    BY DEF V
  <1>4. [V(g, c, x, z) EXCEPT !.idx = y] = V(g, c, y, z)
    BY DEF V
  <1>5. [V(g, c, y, z) EXCEPT !.base.highestmsg = hi] = V(g, [c EXCEPT !.highestmsg = hi], y, z)
    BY DEF V
  <1>6. [V(g, [c EXCEPT !.highestmsg = hi], y, z) EXCEPT !.base.totalmsgs = tot] = V(g, d, y, z)
    BY DEF V
  <1>7. w = V(g, d, y, z)
    BY <1>2, <1>3, <1>4, <1>5, <1>6
  <1>8. [c EXCEPT !.highestmsg = hi]
        = [totalmsgs |-> c.totalmsgs, highestmsg |-> hi, protmsgs |-> c.protmsgs,
                   nextmsgno |-> c.nextmsgno, firstframe |-> c.firstframe, lastframe |-> c.lastframe,
                   firstfreeframe |-> c.firstfreeframe, lastfreeframe |-> c.lastfreeframe,
                   endframe |-> c.endframe, maxmsgs |-> c.maxmsgs]
    BY BaseFields
  <1>9. d = [totalmsgs |-> tot, highestmsg |-> hi, protmsgs |-> c.protmsgs,
                   nextmsgno |-> c.nextmsgno, firstframe |-> c.firstframe, lastframe |-> c.lastframe,
                   firstfreeframe |-> c.firstfreeframe, lastfreeframe |-> c.lastfreeframe,
                   endframe |-> c.endframe, maxmsgs |-> c.maxmsgs]
    <2>1. PICK e : e = [c EXCEPT !.highestmsg = hi]
      OBVIOUS
    <2>2. d = [e EXCEPT !.totalmsgs = tot]
      BY <2>1
    <2> HIDE DEF d
    <2> QED BY <1>8, <2>1, <2>2
  <1>10. d \in Bases
    BY <1>9, BaseFields DEF Bases
  <1>11. /\ d.highestmsg = hi /\ d.totalmsgs = tot
         /\ d.firstframe = c.firstframe /\ d.lastframe = c.lastframe
         /\ d.firstfreeframe = c.firstfreeframe /\ d.lastfreeframe = c.lastfreeframe
         /\ d.endframe = c.endframe /\ d.nextmsgno = c.nextmsgno /\ SameLimits(c, d)
    BY <1>9 DEF SameLimits
  <1> HIDE DEF d
  <1> QED BY <1>1, <1>7, <1>10, <1>11 DEF w

\* What delete_msg makes of a sound base.
Deleted(f, b, x, F, k, g, c) ==
    /\ delete_msg(V(f, b, x, Numbers(x)), k)
       = V(g, c, RemoveAt(x, k), Numbers(RemoveAt(x, k)))
    /\ Sound(g, c, RemoveAt(x, k), Append(F, x[k].offset))
    /\ SameLimits(b, c) /\ c.endframe = b.endframe /\ c.nextmsgno = b.nextmsgno
    /\ DOMAIN g = DOMAIN f /\ \A o \in DOMAIN f : g[o].length = f[o].length
    /\ \A i \in 1..Len(x) : i # k => g[x[i].offset].txt = f[x[i].offset].txt
    /\ Spots(RemoveAt(x, k), Append(F, x[k].offset)) = Spots(x, F)

LEMMA DeleteSound ==
    ASSUME NEW f, NEW b, NEW x, NEW F, Sound(f, b, x, F), NEW k \in 1..Len(x)
    PROVE  \E g, c : Deleted(f, b, x, F, k, g, c)
  <1> DEFINE n == Len(x)
             y == RemoveAt(x, k)
             at == x[k].offset
             G == Append(F, at)
  <1>0. /\ Table(f) /\ b \in Bases /\ x \in Seq(Entries) /\ Numbered(b, x) /\ Limits(b)
        /\ Chain(f, Offs(x), b.firstframe, b.lastframe)
        /\ Chain(f, F, b.firstfreeframe, b.lastfreeframe)
        /\ \A i \in 1..Len(x), j \in 1..Len(F) : x[i].offset # F[j]
        /\ \A j \in 1..Len(F) : f[F[j]].type = "free"
        /\ \A i \in 1..Len(x) : Holds(f[x[i].offset], x[i].msgno)
        /\ Tiles(f, Spots(x, F), b.endframe) /\ Sound0(f, b, x, F)
    BY DEF Sound, Sound0
  <1>1. n \in Nat /\ \A i \in 1..n : x[i] \in Entries
    BY <1>0
  <1>2. y \in Seq(Entries) /\ Shorter(y, x, n, k)
    BY <1>0, <1>1, RemoveAtIs
  <1>3. k \in DOMAIN Numbers(x) /\ RemoveAt(Numbers(x), k) = Numbers(y)
    BY <1>0, NumbersRemoved
  <1>4. Spliced(Offs(x), Offs(y), k, 0, 1, 0)
    <2>1. Len(Offs(x)) = n /\ Len(Offs(y)) = n - 1 /\ Offs(y) \in Seq(Nat) /\ Offs(x) \in Seq(Nat)
      BY <1>0, <1>1, <1>2, OffsLen DEF Shorter
    <2>2. ASSUME NEW q \in 1..(n - 1)
          PROVE  Offs(y)[q] = IF q < k THEN Offs(x)[q] ELSE IF q < k + 0 THEN 0 ELSE Offs(x)[q + 1]
      <3>1. Offs(y)[q] = y[q].offset /\ y[q] = IF q < k THEN x[q] ELSE x[q + 1]
        BY <1>2, <2>1 DEF Shorter, Offs
      <3>2. (q < k => q \in 1..n) /\ q + 1 \in 1..n /\ (q < k + 0 <=> q < k)
        BY <1>1
      <3>3. \A i \in 1..n : Offs(x)[i] = x[i].offset
        BY DEF Offs
      <3> QED BY <3>1, <3>2, <3>3
    <2>3. k + 0 + 1 <= n + 1 /\ k \in Nat /\ 1 <= k
      BY <1>1
    <2> HIDE DEF y, n
    <2> QED BY <2>1, <2>2, <2>3 DEF Spliced
  <1>p. PICK g, c0 : IsUnchained(f, b, x, Numbers(x), F, k, Offs(y), g, c0)
    <2>1. Sound0(f, b, x, F)
      BY <1>0
    <2> HIDE DEF y
    <2> QED BY <1>4, <2>1, Unchained
  <1>5. /\ Unchain(V(f, b, x, Numbers(x)), at) = V(g, c0, x, Numbers(x))
        /\ SameBase(b, c0) /\ Table(g) /\ DOMAIN g = DOMAIN f
        /\ Chain(g, Offs(y), c0.firstframe, c0.lastframe)
        /\ Chain(g, G, c0.firstfreeframe, c0.lastfreeframe)
        /\ g[at].type = "free" /\ g[at].length = f[at].length
        /\ \A o \in DOMAIN f : o # at => Same(f, g, o)
    <2> HIDE DEF y
    <2> QED BY <1>p DEF IsUnchained
  <1>6. c0 \in Bases /\ c0.highestmsg > 0 /\ c0.totalmsgs > 0
    <2>1. b.highestmsg = n /\ b.totalmsgs = n
      BY <1>0 DEF Numbered
    <2> QED BY <1>1, <1>5, <2>1 DEF SameBase
  <1>7. PICK c \in Bases :
              /\ Counted(V(g, c0, x, Numbers(x)), y, Numbers(y)) = V(g, c, y, Numbers(y))
              /\ c.highestmsg = c0.highestmsg - 1 /\ c.totalmsgs = c0.totalmsgs - 1
              /\ c.firstframe = c0.firstframe /\ c.lastframe = c0.lastframe
              /\ c.firstfreeframe = c0.firstfreeframe /\ c.lastfreeframe = c0.lastfreeframe
              /\ c.endframe = c0.endframe /\ c.nextmsgno = c0.nextmsgno /\ SameLimits(c0, c)
    <2> HIDE DEF y
    <2> QED BY <1>6, CountedIs
  <1>8. delete_msg(V(f, b, x, Numbers(x)), k) = V(g, c, y, Numbers(y))
    <2>1. delete_msg(V(f, b, x, Numbers(x)), k)
          = [V(g, c0, x, Numbers(x)) EXCEPT
               !.msgn = IF k \in DOMAIN @ THEN RemoveAt(@, k) ELSE @, !.idx = RemoveAt(@, k),
               !.base.highestmsg = @ - 1, !.base.totalmsgs = @ - 1]
      <3>1. V(f, b, x, Numbers(x)).idx[k].offset = at
        BY DEF V
      <3> HIDE DEF at
      <3> QED BY <1>5, <3>1 DEF delete_msg
    <2>2. V(g, c0, x, Numbers(x)).msgn = Numbers(x) /\ V(g, c0, x, Numbers(x)).idx = x
      BY DEF V
    <2>3. [V(g, c0, x, Numbers(x)) EXCEPT
               !.msgn = IF k \in DOMAIN @ THEN RemoveAt(@, k) ELSE @, !.idx = RemoveAt(@, k),
               !.base.highestmsg = @ - 1, !.base.totalmsgs = @ - 1]
          = Counted(V(g, c0, x, Numbers(x)), y, Numbers(y))
      BY <1>3, <2>2 DEF Counted
    <2> QED BY <1>7, <2>1, <2>3
  <1>9. SameLimits(b, c) /\ c.endframe = b.endframe /\ c.nextmsgno = b.nextmsgno
    BY <1>5, <1>7 DEF SameBase, SameLimits
  <1> HIDE DEF y, G
  <1>10. \A i \in 1..(n - 1) : \E j \in 1..n : /\ j # k /\ y[i] = x[j] /\ j = IF i < k THEN i ELSE i + 1
    <2>1. \A i \in 1..(n - 1) : y[i] = x[IF i < k THEN i ELSE i + 1]
      BY <1>2 DEF Shorter
    <2>2. \A i \in 1..(n - 1) : (IF i < k THEN i ELSE i + 1) \in 1..n /\ (IF i < k THEN i ELSE i + 1) # k
      BY <1>1
    <2> QED BY <2>1, <2>2
  <1>y. Len(y) = n - 1
    BY <1>2 DEF Shorter
  <1>G. Len(G) = Len(F) + 1 /\ Len(F) \in Nat /\ G[Len(F) + 1] = at /\ \A j \in 1..Len(F) : G[j] = F[j]
    BY <1>0 DEF Chain, G
  <1>11. \A i \in 1..n : i # k => /\ x[i].offset \in DOMAIN f /\ x[i].offset # at
                                 /\ Same(f, g, x[i].offset)
    <2>1. \A i \in 1..n : x[i].offset \in DOMAIN f /\ Offs(x)[i] = x[i].offset
      BY <1>0, EntryAt
    <2>2. \A i \in 1..n : i # k => x[i].offset # at
      <3>1. Len(Offs(x)) = n
        BY <1>0, OffsLen
      <3> QED BY <1>0, <2>1, <3>1 DEF Chain
    <2> QED BY <1>5, <2>1, <2>2
  <1>12. Numbered(c, y) /\ Limits(c)
    <2>1. /\ b.totalmsgs = n /\ b.highestmsg = n
          /\ \A i \in 1..n : 0 < x[i].msgno /\ x[i].msgno < b.nextmsgno
          /\ \A i, j \in 1..n : i < j => x[i].msgno < x[j].msgno
      BY <1>0 DEF Numbered
    <2>2. c.totalmsgs = n - 1 /\ c.highestmsg = n - 1
      BY <1>5, <1>7, <2>1 DEF SameBase
    <2>3. \A i \in 1..(n - 1) : 0 < y[i].msgno /\ y[i].msgno < c.nextmsgno
      BY <1>9, <1>10, <2>1
    <2>4. ASSUME NEW i \in 1..(n - 1), NEW j \in 1..(n - 1), i < j PROVE y[i].msgno < y[j].msgno
      <3>1. PICK q \in 1..n : y[i] = x[q] /\ q = IF i < k THEN i ELSE i + 1
        BY <1>10
      <3>2. PICK r \in 1..n : y[j] = x[r] /\ r = IF j < k THEN j ELSE j + 1
        BY <1>10
      <3>3. q < r
        BY <2>4, <3>1, <3>2
      <3> QED BY <2>1, <3>1, <3>2, <3>3
    <2>5. Limits(c)
      BY <1>0, <1>9 DEF Limits, SameLimits
    <2> HIDE DEF n
    <2> QED BY <1>y, <2>2, <2>3, <2>4, <2>5 DEF Numbered
  <1>13. \A i \in 1..Len(y), j \in 1..Len(G) : y[i].offset # G[j]
    <2>1. ASSUME NEW i \in 1..(n - 1), NEW j \in 1..(Len(F) + 1) PROVE y[i].offset # G[j]
      <3>1. PICK q \in 1..n : q # k /\ y[i] = x[q]
        BY <1>10
      <3>2. CASE j \in 1..Len(F)
        BY <1>0, <1>G, <3>1, <3>2
      <3>3. CASE j \notin 1..Len(F)
        <4>1. j = Len(F) + 1
          BY <1>G, <3>3
        <4> QED BY <1>G, <1>11, <3>1, <4>1
      <3> QED BY <3>2, <3>3
    <2> QED BY <1>y, <1>G, <2>1
  <1>14. \A j \in 1..Len(G) : g[G[j]].type = "free"
    <2>1. ASSUME NEW j \in 1..Len(F) PROVE g[F[j]].type = "free"
      <3>1. F[j] \in DOMAIN f /\ F[j] # at
        BY <1>0, ChainAt
      <3> QED BY <1>0, <1>5, <3>1 DEF Same
    <2>2. \A j \in 1..(Len(F) + 1) : j \in 1..Len(F) \/ j = Len(F) + 1
      BY <1>G
    <2> QED BY <1>5, <1>G, <2>1, <2>2
  <1>15. \A i \in 1..Len(y) : Holds(g[y[i].offset], y[i].msgno)
    <2>1. ASSUME NEW i \in 1..(n - 1) PROVE Holds(g[y[i].offset], y[i].msgno)
      <3>1. PICK q \in 1..n : q # k /\ y[i] = x[q]
        BY <1>10
      <3>2. Holds(f[x[q].offset], x[q].msgno)
        BY <1>0
      <3> QED BY <1>11, <3>1, <3>2 DEF Holds, Same
    <2> QED BY <1>y, <2>1
  <1>16. Sound0(g, c, y, G)
    BY <1>2, <1>5, <1>7, <1>12, <1>13, <1>14, <1>15 DEF Sound0
  <1>17. Spots(y, G) = Spots(x, F)
    <2>1. ASSUME NEW o \in Spots(y, G) PROVE o \in Spots(x, F)
      <3>1. CASE \E i \in 1..Len(y) : o = y[i].offset
        <4>1. PICK i \in 1..Len(y) : o = y[i].offset
          BY <3>1
        <4>2. PICK j \in 1..n : y[i] = x[j]
          BY <1>y, <1>10
        <4> QED BY <4>1, <4>2 DEF Spots
      <3>2. CASE \E j \in 1..Len(G) : o = G[j]
        <4>1. PICK j \in 1..Len(G) : o = G[j]
          BY <3>2
        <4>2. j \in 1..Len(F) \/ j = Len(F) + 1
          BY <1>G
        <4> QED BY <1>G, <4>1, <4>2 DEF Spots
      <3> QED BY <3>1, <3>2 DEF Spots
    <2>2. ASSUME NEW o \in Spots(x, F) PROVE o \in Spots(y, G)
      <3>1. ASSUME NEW i \in 1..n, o = x[i].offset PROVE o \in Spots(y, G)
        <4>1. CASE i = k
          <5>1. Len(F) + 1 \in 1..Len(G)
            BY <1>G
          <5> QED BY <1>G, <3>1, <4>1, <5>1 DEF Spots
        <4>2. CASE i < k
          <5>1. i \in 1..(n - 1) /\ y[i] = x[i]
            BY <1>1, <1>2, <4>2 DEF Shorter
          <5> QED BY <1>y, <3>1, <5>1 DEF Spots
        <4>3. CASE i > k
          <5>1. i - 1 \in 1..(n - 1) /\ ~(i - 1 < k) /\ i - 1 + 1 = i
            BY <1>1, <4>3
          <5>2. y[i - 1] = x[i]
            BY <1>2, <5>1 DEF Shorter
          <5> QED BY <1>y, <3>1, <5>1, <5>2 DEF Spots
        <4> QED BY <1>1, <4>1, <4>2, <4>3
      <3>2. ASSUME NEW j \in 1..Len(F), o = F[j] PROVE o \in Spots(y, G)
        <4>1. j \in 1..Len(G) /\ G[j] = F[j]
          BY <1>G
        <4> QED BY <3>2, <4>1 DEF Spots
      <3> QED BY <3>1, <3>2 DEF Spots
    <2> QED BY <2>1, <2>2
  <1>18. \A o \in DOMAIN f : g[o].length = f[o].length
    BY <1>5 DEF Same
  <1>19. Tiles(g, Spots(y, G), c.endframe)
    <2>1. ASSUME NEW o \in Spots(x, F) PROVE o \in DOMAIN f
      <3>1. \A i \in 1..n : x[i].offset \in DOMAIN f
        BY <1>0, EntryAt
      <3>2. \A j \in 1..Len(F) : F[j] \in DOMAIN f
        BY <1>0 DEF Chain
      <3> QED BY <3>1, <3>2 DEF Spots
    <2>2. Tiles(g, Spots(x, F), b.endframe)
      BY <1>0, <1>18, <2>1, TilesSame
    <2> QED BY <1>9, <1>17, <2>2
  <1>20. \A i \in 1..Len(x) : i # k => g[x[i].offset].txt = f[x[i].offset].txt
    BY <1>11 DEF Same
  <1>21. Deleted(f, b, x, F, k, g, c)
    BY <1>5, <1>8, <1>9, <1>16, <1>17, <1>18, <1>19, <1>20 DEF Deleted, Sound, y, G
  <1> QED BY <1>21

-----------------------------------------------------------------------------
\* A message is saved in its own frame, or its header alone.

\* No frame begins in another.
LEMMA Apart ==
    ASSUME NEW f, NEW X, X \subseteq Nat, NEW end, Tiles(f, X, end), \A o \in X : f[o].length \in Nat,
           NEW o \in X, NEW u \in X, o # u, NEW n \in Nat, n <= f[o].length
    PROVE  ~(o <= u /\ u < o + FrmSize + n)
  <1> SUFFICES ASSUME o <= u, u < o + FrmSize + n PROVE FALSE
    OBVIOUS
  <1>0. FrmSize \in Nat /\ FrmSize > 0 /\ o \in Nat /\ u \in Nat
    BY SizeAssumption
  <1>1. PICK l \in Nat, k \in Nat : l = f[o].length /\ k = f[u].length
    OBVIOUS
  <1>2. u < o + FrmSize + l /\ u < u + FrmSize + k
    BY <1>0, <1>1
  <1>3. Within(f, o, u) /\ Within(f, u, u)
    BY <1>0, <1>1, <1>2 DEF Within
  <1> QED BY <1>0, <1>3 DEF Tiles

\* The frames of a base.
LEMMA SpotsIn ==
    ASSUME NEW f, NEW b, NEW x, NEW F, Sound0(f, b, x, F), NEW o \in Spots(x, F)
    PROVE  o \in DOMAIN f /\ o \in Nat \ {SQFRAME_NULL} /\ f[o] \in Frames /\ f[o].length \in Nat
  <1>1. \A i \in 1..Len(x) : x[i].offset \in DOMAIN f
    BY EntryAt
  <1>2. \A j \in 1..Len(F) : F[j] \in DOMAIN f
    BY DEF Chain, Sound0
  <1>3. o \in DOMAIN f
    BY <1>1, <1>2 DEF Spots
  <1>4. f[o] \in Frames /\ o \in Nat \ {SQFRAME_NULL}
    BY <1>3 DEF Table, Sound0
  <1> QED BY <1>3, <1>4, FrameFields

LEMMA SaveHeaderIs ==
    ASSUME NEW f, NEW b, NEW x, NEW F, Sound0(f, b, x, F), NEW m, NEW k \in 1..Len(x)
    PROVE  SaveHeader(V(f, b, x, m), x[k].offset, f[x[k].offset].txt) = V(f, b, x, m)
  <1> DEFINE at == x[k].offset
             txt == f[at].txt
             g == [f EXCEPT ![at].hdr = txt]
  <1>1. at \in DOMAIN f /\ f[at] \in Frames /\ f = [o \in DOMAIN f |-> f[o]]
    <2>1. at \in DOMAIN f /\ f[at] \in Frames
      BY EntryAt
    <2>2. f = [o \in DOMAIN f |-> f[o]]
      BY <2>1 DEF Sound0, Table
    <2> QED BY <2>1, <2>2
  <1>2. f[at].hdr = txt
    BY DEF Sound0, Holds
  <1> HIDE DEF at, txt
  <1>3. [f[at] EXCEPT !.hdr = txt] = f[at]
    BY <1>1, <1>2, FrameFields
  <1>4. g = f
    BY <1>1, <1>3
  <1>5. SaveHeader(V(f, b, x, m), at, txt) = V(g, b, x, m)
    BY DEF SaveHeader, V
  <1> QED BY <1>4, <1>5 DEF at, txt

LEMMA EntrySame ==
    ASSUME NEW f, NEW b, NEW x, NEW F, Sound0(f, b, x, F), NEW k \in 1..Len(x)
    PROVE  SetEntry(x, k, x[k].offset, f[x[k].offset].txt.msgno) = x
  <1>1. f[x[k].offset].txt.msgno = x[k].msgno
    BY DEF Sound0, Holds
  <1>2. x \in Seq(Entries) /\ x[k] \in Entries
    BY EntryAt DEF Sound0
  <1>3. x[k] = [offset |-> x[k].offset, msgno |-> x[k].msgno]
    BY <1>2 DEF Entries
  <1>4. [x EXCEPT ![k] = x[k]] = x
    BY <1>2
  <1> QED BY <1>1, <1>2, <1>3, <1>4 DEF SetEntry

Rewritten(f, b, x, m, F, k, size, g) ==
    /\ SaveInPlace(V(f, b, x, m), k, x[k].offset, f[x[k].offset].txt, size) = V(g, b, x, m)
    /\ Sound(g, b, x, F)
    /\ \A o \in Spots(x, F) : g[o].length = f[o].length /\ g[o].txt = f[o].txt

LEMMA RewriteSound ==
    ASSUME NEW f, NEW b, NEW x, NEW F, Sound(f, b, x, F), NEW m, NEW k \in 1..Len(x),
           NEW size \in Nat, size <= f[x[k].offset].length
    PROVE  \E g : Rewritten(f, b, x, m, F, k, size, g)
  <1> DEFINE at == x[k].offset
             txt == f[at].txt
             fr == [f[at] EXCEPT !.totsize = size, !.type = "normal", !.hdr = txt, !.txt = txt]
             g == WriteMessage(f, at, fr)
             X == Spots(x, F)
  <1>0. Sound0(f, b, x, F) /\ Tiles(f, X, b.endframe) /\ Table(f)
    BY DEF Sound, Sound0
  <1>1. /\ at \in Nat \ {SQFRAME_NULL} /\ at \in DOMAIN f /\ f[at] \in Frames /\ read_frm(f, at) = f[at]
    BY <1>0, EntryAt
  <1>2. /\ fr = [type |-> "normal", next |-> f[at].next, prev |-> f[at].prev, length |-> f[at].length,
               totsize |-> size, hdr |-> txt, txt |-> txt]
        /\ fr \in Frames
    <2>1. PICK r : r = fr
      OBVIOUS
    <2>2. DOMAIN f[at] = {"type", "next", "prev", "length", "totsize", "hdr", "txt"}
      BY <1>1 DEF Frames
    <2> HIDE DEF at, txt
    <2>3. /\ DOMAIN r = DOMAIN f[at] /\ r = [i \in DOMAIN f[at] |-> r[i]]
          /\ r.type = "normal" /\ r.totsize = size /\ r.hdr = txt /\ r.txt = txt
          /\ r.next = f[at].next /\ r.prev = f[at].prev /\ r.length = f[at].length
      BY <2>1, <2>2
    <2>4. fr = [type |-> "normal", next |-> f[at].next, prev |-> f[at].prev, length |-> f[at].length,
               totsize |-> size, hdr |-> txt, txt |-> txt]
      BY <2>1, <2>2, <2>3
    <2>5. txt \in Messages
      BY <1>1, FrameFields DEF txt
    <2>6. [type |-> "normal", next |-> f[at].next, prev |-> f[at].prev, length |-> f[at].length,
               totsize |-> size, hdr |-> txt, txt |-> txt] \in Frames
      BY <1>1, <2>5, FrameFields DEF Frames
    <2> QED BY <2>4, <2>6
  <1> HIDE DEF fr
  <1>3. /\ Table(g) /\ at \in DOMAIN g /\ g[at] = fr
        /\ \A o \in DOMAIN f : o # at /\ ~(at <= o /\ o < at + FrmSize + fr.totsize) =>
                      o \in DOMAIN g /\ g[o] = f[o]
    <2> HIDE DEF at
    <2> QED BY <1>0, <1>1, <1>2, MessageWritten
  <1> HIDE DEF g
  <1>4. at \in X /\ \A o \in X : o \in DOMAIN f /\ o \in Nat /\ f[o] \in Frames /\ f[o].length \in Nat
    BY <1>0, SpotsIn DEF Spots
  <1> HIDE DEF X
  <1>5. \A o \in X : o # at => o \in DOMAIN g /\ g[o] = f[o]
    <2>1. fr.totsize \in Nat /\ fr.totsize <= f[at].length /\ X \subseteq Nat
      BY <1>2, <1>4
    <2>2. \A o \in X : o # at => ~(at <= o /\ o < at + FrmSize + fr.totsize)
      <3> HIDE DEF at
      <3> QED BY <1>0, <1>4, <2>1, Apart
    <2> QED BY <1>3, <1>4, <2>2
  <1>6. \A o \in X : /\ o \in DOMAIN g /\ g[o].length = f[o].length /\ g[o].txt = f[o].txt
                     /\ g[o].next = f[o].next /\ g[o].prev = f[o].prev
                     /\ (o # at => g[o].type = f[o].type)
    BY <1>2, <1>3, <1>5
  <1>7. /\ \A i \in 1..Len(x) : x[i].offset \in X
        /\ \A j \in 1..Len(F) : F[j] \in X
    BY DEF X, Spots
  <1>8. Tiles(g, X, b.endframe)
    BY <1>0, <1>6, TilesSame
  <1>9. Chain(g, Offs(x), b.firstframe, b.lastframe) /\ Chain(g, F, b.firstfreeframe, b.lastfreeframe)
    <2>1. \A i \in 1..Len(Offs(x)) : Offs(x)[i] \in X
      BY <1>0, <1>7, OffsLen DEF Offs, Sound0
    <2> QED BY <1>0, <1>6, <1>7, <2>1, ChainSame DEF Sound0
  <1>10. \A i \in 1..Len(x) : Holds(g[x[i].offset], x[i].msgno)
    <2>1. ASSUME NEW i \in 1..Len(x) PROVE Holds(g[x[i].offset], x[i].msgno)
      <3>1. Holds(f[x[i].offset], x[i].msgno)
        BY <1>0 DEF Sound0
      <3>2. CASE x[i].offset # at
        BY <1>5, <1>7, <3>1, <3>2
      <3>3. CASE x[i].offset = at
        BY <1>2, <1>3, <3>1, <3>3 DEF Holds
      <3> QED BY <3>2, <3>3
    <2> QED BY <2>1
  <1>11. \A j \in 1..Len(F) : g[F[j]].type = "free"
    <2>1. \A j \in 1..Len(F) : F[j] # at /\ f[F[j]].type = "free"
      BY <1>0 DEF Sound0
    <2> QED BY <1>5, <1>7, <2>1
  <1>12. Sound(g, b, x, F)
    BY <1>0, <1>3, <1>8, <1>9, <1>10, <1>11 DEF Sound, Sound0, X
  <1>13. SaveInPlace(V(f, b, x, m), k, at, txt, size) = V(g, b, x, m)
    <2>1. SetEntry(x, k, at, txt.msgno) = x
      BY <1>0, EntrySame
    <2> DEFINE w == [V(f, b, x, m) EXCEPT !.frm = g, !.idx = x]
    <2>2. SaveInPlace(V(f, b, x, m), k, at, txt, size) = w
      <3> HIDE DEF at, txt
      <3>1. V(f, b, x, m).frm = f /\ V(f, b, x, m).idx = x
        BY DEF V
      <3> QED BY <1>1, <2>1, <3>1 DEF SaveInPlace, g, fr
    <2>3. w = [[V(f, b, x, m) EXCEPT !.frm = g] EXCEPT !.idx = x]
      OBVIOUS
    <2>4. [V(f, b, x, m) EXCEPT !.frm = g] = V(g, b, x, m)
      BY DEF V
    <2>5. [V(g, b, x, m) EXCEPT !.idx = x] = V(g, b, x, m)
      BY DEF V
    <2> QED BY <2>2, <2>3, <2>4, <2>5
  <1>14. Rewritten(f, b, x, m, F, k, size, g)
    BY <1>6, <1>12, <1>13 DEF Rewritten, X
  <1> QED BY <1>14

-----------------------------------------------------------------------------
\* Frames are taken from the free chain: a stretch of it is replaced.

\* The spliced sequence.
SpliceOf(S, i, l, d, m) ==
    [q \in 1..(Len(S) - d) |-> IF q < i THEN S[q] ELSE IF q < i + l THEN m ELSE S[q + d]]

LEMMA SpliceExists ==
    ASSUME NEW S \in Seq(Nat), NEW i \in Nat, NEW l \in {0, 1}, NEW d \in Int, NEW m \in Nat,
           0 <= l + d, 1 <= i, i + l + d <= Len(S) + 1
    PROVE  Spliced(S, SpliceOf(S, i, l, d, m), i, l, d, m)
  <1> DEFINE T == SpliceOf(S, i, l, d, m)
  <1>1. PICK n \in Nat : n = Len(S) /\ \A q \in 1..n : S[q] \in Nat
    OBVIOUS
  <1>2. PICK k \in Nat : k = n - d
    <2>1. l \in Nat /\ i + l + d <= n + 1
      BY <1>1
    <2>2. n - d \in Nat
      BY <2>1
    <2> QED BY <2>2
  <1>3. T = [q \in 1..k |-> IF q < i THEN S[q] ELSE IF q < i + l THEN m ELSE S[q + d]]
    BY <1>1, <1>2 DEF SpliceOf
  <1>4. ASSUME NEW q \in 1..k
        PROVE  (IF q < i THEN S[q] ELSE IF q < i + l THEN m ELSE S[q + d]) \in Nat
    <2>1. CASE q < i
      BY <1>1, <2>1
    <2>2. CASE q >= i /\ q < i + l
      BY <2>2
    <2>3. CASE q >= i + l
      <3>1. q + d \in 1..n
        BY <1>1, <1>2, <2>3
      <3> QED BY <1>1, <2>3, <3>1
    <2> QED BY <2>1, <2>2, <2>3
  <1>5. T \in Seq(Nat) /\ Len(T) = k
    BY <1>3, <1>4
  <1>6. \A q \in 1..Len(T) : T[q] = IF q < i THEN S[q] ELSE IF q < i + l THEN m ELSE S[q + d]
    BY <1>3, <1>5
  <1> HIDE DEF T
  <1> QED BY <1>1, <1>2, <1>5, <1>6 DEF Spliced, T

Cells(S) == {S[q] : q \in 1..Len(S)}

\* What the spliced sequence holds.
LEMMA SpliceCells ==
    ASSUME NEW S \in Seq(Nat), \A q, r \in 1..Len(S) : S[q] = S[r] => q = r,
           NEW T, NEW i, NEW l, NEW d, NEW m, Spliced(S, T, i, l, d, m)
    PROVE  Cells(T) = (Cells(S) \ {S[q] : q \in i..(i + l + d - 1)})
                        \cup (IF l = 1 THEN {m} ELSE {})
  <1>1. PICK n \in Nat, k \in Nat : n = Len(S) /\ k = Len(T) /\ k = n - d
    BY DEF Spliced
  <1>2. /\ i \in Nat /\ l \in {0, 1} /\ d \in Int /\ 0 <= l + d /\ 1 <= i /\ i + l + d <= n + 1
        /\ \A q \in 1..k : T[q] = IF q < i THEN S[q] ELSE IF q < i + l THEN m ELSE S[q + d]
    BY <1>1 DEF Spliced
  <1> DEFINE A == {S[q] : q \in i..(i + l + d - 1)}
  <1>3. ASSUME NEW q \in 1..n PROVE S[q] \in A <=> i <= q /\ q < i + l + d
    BY <1>1, <1>2
  <1>4. ASSUME NEW o \in Cells(T) PROVE (o \in Cells(S) /\ o \notin A) \/ (l = 1 /\ o = m)
    <2>1. PICK q \in 1..k : o = T[q]
      BY <1>1 DEF Cells
    <2>2. CASE q < i
      <3>1. q \in 1..n /\ ~(i <= q)
        BY <1>1, <1>2, <2>2
      <3>2. o = S[q]
        BY <1>2, <2>1, <2>2
      <3>3. o \notin A
        BY <1>3, <3>1, <3>2
      <3> QED BY <1>1, <3>1, <3>2, <3>3 DEF Cells
    <2>3. CASE q >= i /\ q < i + l
      BY <1>2, <2>1, <2>3
    <2>4. CASE q >= i + l
      <3>1. q + d \in 1..n /\ q + d >= i + l + d
        BY <1>1, <1>2, <2>4
      <3>2. o = S[q + d]
        BY <1>1, <1>2, <2>1, <2>4
      <3>3. o \notin A
        BY <1>2, <1>3, <3>1, <3>2
      <3> QED BY <1>1, <3>1, <3>2, <3>3 DEF Cells
    <2> QED BY <1>2, <2>2, <2>3, <2>4
  <1>5. ASSUME NEW o, o \in Cells(S), o \notin A PROVE o \in Cells(T)
    <2>1. PICK q \in 1..n : o = S[q]
      BY <1>1, <1>5 DEF Cells
    <2>2. q < i \/ q >= i + l + d
      BY <1>2, <1>3, <1>5, <2>1
    <2>3. CASE q < i
      <3>1. q \in 1..k /\ T[q] = S[q]
        BY <1>1, <1>2, <2>3
      <3> QED BY <1>1, <2>1, <3>1 DEF Cells
    <2>4. CASE q >= i + l + d
      <3>1. q - d \in 1..k /\ q - d >= i + l /\ (q - d) + d = q
        BY <1>1, <1>2, <2>4
      <3>2. ~(q - d < i) /\ ~(q - d < i + l)
        BY <1>1, <1>2, <2>4
      <3>3. T[q - d] = S[q]
        BY <1>2, <3>1, <3>2
      <3> QED BY <1>1, <2>1, <3>1, <3>3 DEF Cells
    <2> QED BY <2>2, <2>3, <2>4
  <1>6. ASSUME l = 1 PROVE m \in Cells(T)
    <2>1. i \in 1..k /\ ~(i < i) /\ i < i + l
      BY <1>1, <1>2, <1>6
    <2>2. T[i] = m
      BY <1>2, <2>1
    <2> QED BY <1>1, <2>1, <2>2 DEF Cells
  <1> QED BY <1>4, <1>5, <1>6

\* The table g: the span s, of the i-th to the j-th free frame of f, is no longer
\* in the chain; of its l + 1 new frames the first has the given size, and the
\* one at e, if l is 1, stays a free one.
Replaced(f, g, F, i, j, s, size, l, e) ==
    /\ Table(g)
    /\ l = 1 => /\ e = s.at + FrmSize + size /\ e \in DOMAIN g
                /\ g[e].type = "free" /\ e + FrmSize + g[e].length = s.at + FrmSize + s.length
                /\ g[e].prev = Pos(F, i - 1) /\ g[e].next = Pos(F, j + 1)
    /\ l = 0 => size = s.length
    /\ \A o \in DOMAIN f : (l = 1 => o # e) =>
          /\ o \in DOMAIN g /\ Same(f, g, o)
          /\ g[o].next = (IF o = Pos(F, i - 1) THEN (IF l = 1 THEN e ELSE Pos(F, j + 1)) ELSE f[o].next)
          /\ g[o].prev = (IF o = Pos(F, j + 1) THEN (IF l = 1 THEN e ELSE Pos(F, i - 1)) ELSE f[o].prev)

\* The part of a frame table that a frame of the given length at `at' takes up.
WithFrame(g, at, size) == write_frm(g, at, [init_frm EXCEPT !.length = size])

LEMMA WithFrameIs ==
    ASSUME NEW g, Table(g), NEW at \in Nat \ {SQFRAME_NULL}, NEW size \in Nat
    PROVE  /\ WithFrame(g, at, size)[at].length = size
           /\ \A o \in DOMAIN g : o # at => WithFrame(g, at, size)[o] = g[o]
  BY DEF WithFrame, write_frm, init_frm

\* The cells of a span are all of its frames.
LEMMA SpanCovers ==
    ASSUME NEW f, NEW F, NEW i, NEW j, NEW s, NEW totsize, SpanOf(f, F, i, j, s, totsize)
    PROVE  \A x \in Nat : (s.at <= x /\ x < s.at + FrmSize + s.length)
                             <=> \E q \in i..j : Within(f, F[q], x)
  BY DEF SpanOf

\* The frames of the table g do not overlap, and leave no gap.
StillTiled(b, x, F, i, j, g, size, l, e) ==
    LET A == {F[q] : q \in i..j}
        B == {F[i]} \cup (IF l = 1 THEN {e} ELSE {})
        h == WithFrame(g, F[i], size)
    IN  /\ \A o \in Spots(x, F) \ A : o # F[i] /\ (l = 1 => o # e)
        /\ l = 1 => e # F[i]
        /\ Tiles(h, (Spots(x, F) \ A) \cup B, b.endframe)

LEMMA SpanReplacedTiles ==
    ASSUME NEW f, NEW b, NEW x, NEW F, Sound(f, b, x, F), NEW i, NEW j, NEW s, NEW totsize,
           SpanOf(f, F, i, j, s, totsize), NEW g, NEW size \in Nat, NEW l \in {0, 1}, NEW e \in Nat,
           Replaced(f, g, F, i, j, s, size, l, e)
    PROVE  StillTiled(b, x, F, i, j, g, size, l, e)
  <1> DEFINE X == Spots(x, F)
             A == {F[q] : q \in i..j}
             B == {F[i]} \cup (IF l = 1 THEN {e} ELSE {})
             h == WithFrame(g, F[i], size)
  <1>0. FrmSize \in Nat /\ FrmSize > 0
    BY SizeAssumption
  <1>1. Sound0(f, b, x, F) /\ Tiles(f, X, b.endframe) /\ Table(f)
    BY DEF Sound, Sound0
  <1>2. \A o \in X : o \in DOMAIN f /\ o \in Nat \ {SQFRAME_NULL} /\ f[o] \in Frames /\ f[o].length \in Nat
    BY <1>1, SpotsIn
  <1>3. /\ i \in 1..Len(F) /\ j \in i..Len(F) /\ F \in Seq(Nat) /\ Len(F) \in Nat
        /\ s.at = F[i] /\ s.length \in Nat
    BY <1>1 DEF SpanOf, Spans, Sound0, Chain
  <1>4. /\ \A q \in i..j : q \in 1..Len(F) /\ F[q] \in X
        /\ i \in i..j
    BY <1>3 DEF Spots
  <1> HIDE DEF X
  <1>5. PICK a \in Nat \ {SQFRAME_NULL}, len \in Nat : a = F[i] /\ a = s.at /\ len = s.length
    BY <1>2, <1>3, <1>4
  <1>6. \A y \in Nat : (a <= y /\ y < a + FrmSize + len) <=> \E q \in i..j : Within(f, F[q], y)
    BY <1>5, SpanCovers
  <1>7. A \subseteq X /\ a \in A
    BY <1>4, <1>5
  <1> HIDE DEF A
  <1>8. \A y \in Nat : (a <= y /\ y < a + FrmSize + len) <=> \E o \in A : Within(f, o, y)
    BY <1>6 DEF A
  <1>9. ASSUME NEW o \in X, o \notin A PROVE ~(a <= o /\ o < a + FrmSize + len)
    <2>1. Within(f, o, o)
      BY <1>0, <1>2 DEF Within
    <2>2. ASSUME a <= o, o < a + FrmSize + len PROVE FALSE
      <3>1. PICK u \in A : Within(f, u, o)
        BY <1>2, <1>8, <2>2
      <3>2. o = u
        BY <1>1, <1>2, <1>7, <2>1, <3>1 DEF Tiles
      <3> QED BY <1>9, <3>2
    <2> QED BY <2>2
  <1>10. l = 1 => /\ e = a + FrmSize + size /\ e + FrmSize + g[e].length = a + FrmSize + len
                  /\ g[e].length \in Nat /\ e \in DOMAIN g
    <2>1. ASSUME l = 1 PROVE g[e].length \in Nat
      BY <2>1 DEF Replaced, Table, Frames
    <2> QED BY <1>5, <2>1 DEF Replaced
  <1>11. l = 0 => size = len
    BY <1>5 DEF Replaced
  <1>12. /\ l = 1 => e # a /\ a <= e /\ e < a + FrmSize + len
         /\ size <= len
    BY <1>0, <1>5, <1>10, <1>11
  <1>13. \A o \in X : o \notin A => o # a /\ (l = 1 => o # e)
    BY <1>7, <1>9, <1>12
  <1>14. /\ h[a].length = size
         /\ \A o \in DOMAIN g : o # a => h[o] = g[o]
    BY <1>5, WithFrameIs DEF Replaced
  <1> HIDE DEF h
  <1>15. \A o \in X \ A : h[o].length = f[o].length
    <2>1. ASSUME NEW o \in X \ A PROVE h[o].length = f[o].length
      <3>1. o \in DOMAIN g /\ Same(f, g, o)
        BY <1>2, <1>13 DEF Replaced
      <3> QED BY <1>13, <1>14, <3>1 DEF Same
    <2> QED BY <2>1
  <1>16. l = 1 => h[e].length = g[e].length
    BY <1>10, <1>12, <1>14
  <1>17. B = {a} \cup (IF l = 1 THEN {e} ELSE {})
    BY <1>5
  <1> HIDE DEF B
  <1>18. Exchanged(f, h, X, A, B)
    <2>1. B \subseteq Nat /\ \A c \in B : h[c].length \in Nat
      BY <1>10, <1>14, <1>16, <1>17
    <2>2. ASSUME NEW y \in Nat
          PROVE  /\ (\E o \in A : Within(f, o, y)) <=> (\E c \in B : Within(h, c, y))
                 /\ \A c, d \in B : Within(h, c, y) /\ Within(h, d, y) => c = d
      <3>1. Within(h, a, y) <=> a <= y /\ y < a + FrmSize + size
        BY <1>14 DEF Within
      <3>2. CASE l = 1
        <4>1. Within(h, e, y) <=> e <= y /\ y < a + FrmSize + len
          BY <1>10, <1>16, <3>2 DEF Within
        <4>2. B = {a, e}
          BY <1>17, <3>2
        <4>3. /\ (a <= y /\ y < a + FrmSize + len) <=> Within(h, a, y) \/ Within(h, e, y)
              /\ ~(Within(h, a, y) /\ Within(h, e, y))
          BY <1>0, <1>10, <1>12, <3>1, <3>2, <4>1
        <4> QED BY <1>8, <4>2, <4>3
      <3>3. CASE l = 0
        <4>1. B = {a}
          BY <1>17, <3>3
        <4> QED BY <1>8, <1>11, <3>1, <3>3, <4>1
      <3> QED BY <3>2, <3>3
    <2>3. X \subseteq Nat
      BY <1>2
    <2> QED BY <1>7, <1>15, <2>1, <2>2, <2>3 DEF Exchanged
  <1>19. Tiles(h, (X \ A) \cup B, b.endframe)
    <2>1. \A o \in X : f[o].length \in Nat
      BY <1>2
    <2> QED BY <1>1, <1>18, <2>1, TilesExchanged
  <1>20. \A o \in X \ A : o # F[i] /\ (l = 1 => o # e)
    BY <1>5, <1>13
  <1>21. l = 1 => e # F[i]
    BY <1>5, <1>12
  <1> QED BY <1>19, <1>20, <1>21 DEF X, A, B, h, StillTiled

\* The base record b becomes c when the span leaves the free chain.
Refreed(b, c, F, i, j, l, e) ==
    /\ SameBase(b, c) /\ c.firstframe = b.firstframe /\ c.lastframe = b.lastframe
    /\ c.firstfreeframe = (IF i = 1 THEN (IF l = 1 THEN e ELSE Pos(F, j + 1)) ELSE b.firstfreeframe)
    /\ c.lastfreeframe = (IF j = Len(F) THEN (IF l = 1 THEN e ELSE Pos(F, i - 1)) ELSE b.lastfreeframe)

\* Nothing about the messages is changed but the table and the ends of the
\* free chain.
Untouched(f, g, x) ==
    \A k \in 1..Len(x) : g[x[k].offset] = f[x[k].offset]

\* Frames of one length.
Alike(f, X, size) == \A o \in X : f[o].length = size

\* Without the span the base is sound, but for the gap where it was.
SpanGone(f, b, x, g, c, at, size, G) ==
    /\ Sound0(g, c, x, G) /\ at \in Nat \ {SQFRAME_NULL} /\ at \notin Spots(x, G)
    /\ Tiles(WithFrame(g, at, size), Spots(x, G) \cup {at}, b.endframe)
    /\ Untouched(f, g, x)

SpanLeft(f, b, x, F, i, j, g, c, size, l, e) ==
    \E G : /\ SpanGone(f, b, x, g, c, F[i], size, G)
           /\ l = 0 => G = SpliceOf(F, i, 0, (j - i) + 1, e)

LEMMA SpanReplaced ==
    ASSUME NEW f, NEW b, NEW x, NEW F, Sound(f, b, x, F), NEW i, NEW j, NEW s, NEW totsize,
           SpanOf(f, F, i, j, s, totsize), NEW g, NEW size \in Nat, NEW l \in {0, 1}, NEW e \in Nat,
           Replaced(f, g, F, i, j, s, size, l, e), NEW c, Refreed(b, c, F, i, j, l, e)
    PROVE  SpanLeft(f, b, x, F, i, j, g, c, size, l, e)
  <1> DEFINE d == (j - i) + (1 - l)
             G == SpliceOf(F, i, l, d, e)
             A == {F[q] : q \in i..j}
             B == {F[i]} \cup (IF l = 1 THEN {e} ELSE {})
             h == WithFrame(g, F[i], size)
             X == Spots(x, F)
  <1>1. Sound0(f, b, x, F) /\ Tiles(f, X, b.endframe) /\ Table(f)
    BY DEF Sound, Sound0
  <1>2. /\ Chain(f, Offs(x), b.firstframe, b.lastframe)
        /\ Chain(f, F, b.firstfreeframe, b.lastfreeframe)
        /\ x \in Seq(Entries)
    BY <1>1 DEF Sound0
  <1>3. /\ i \in 1..Len(F) /\ j \in i..Len(F) /\ F \in Seq(Nat) /\ Len(F) \in Nat
        /\ \A q, r \in 1..Len(F) : F[q] = F[r] => q = r
        /\ b.firstfreeframe = Pos(F, 1) /\ b.lastfreeframe = Pos(F, Len(F))
    <2>1. i \in 1..Len(F) /\ j \in i..Len(F)
      BY DEF SpanOf
    <2>2. /\ F \in Seq(Nat) /\ \A q, r \in 1..Len(F) : F[q] = F[r] => q = r
          /\ b.firstfreeframe = Pos(F, 1) /\ b.lastfreeframe = Pos(F, Len(F))
      BY <1>2 DEF Chain
    <2>3. Len(F) \in Nat
      BY <2>2
    <2> QED BY <2>1, <2>2, <2>3
  <1>4. /\ d \in Int /\ l + d = (j - i) + 1 /\ 0 <= l + d /\ i + l + d = j + 1 /\ i + l + d <= Len(F) + 1
        /\ i \in Nat /\ 1 <= i /\ j \in Nat /\ i \in Int
    BY <1>3
  <1>5. Spliced(F, G, i, l, d, e)
    <2> HIDE DEF d
    <2> QED BY <1>3, <1>4, SpliceExists
  <1>6. /\ \A o \in X \ A : o # F[i] /\ (l = 1 => o # e)
        /\ l = 1 => e # F[i]
        /\ Tiles(h, (X \ A) \cup B, b.endframe)
    <2>1. StillTiled(b, x, F, i, j, g, size, l, e)
      <3> HIDE DEF h, X, A, B, d, G
      <3> QED BY SpanReplacedTiles
    <2> QED BY <2>1 DEF StillTiled
  <1>7. Cells(G) = (Cells(F) \ A) \cup (IF l = 1 THEN {e} ELSE {})
    <2>1. Cells(G) = (Cells(F) \ {F[q] : q \in i..(i + l + d - 1)}) \cup (IF l = 1 THEN {e} ELSE {})
      <3>1. F \in Seq(Nat) /\ \A q, r \in 1..Len(F) : F[q] = F[r] => q = r
        BY <1>3
      <3> HIDE DEF d, G
      <3> QED BY <1>5, <3>1, SpliceCells
    <2>2. i + l + d - 1 = j
      BY <1>4
    <2> QED BY <2>1, <2>2
  <1>8. /\ \A o \in X : o \in DOMAIN f /\ o \in Nat \ {SQFRAME_NULL} /\ f[o] \in Frames
        /\ \A k \in 1..Len(x) : x[k].offset \in X /\ x[k].offset \notin Cells(F)
        /\ Cells(F) \subseteq X /\ A \subseteq Cells(F) /\ F[i] \in A
        /\ X = {x[k].offset : k \in 1..Len(x)} \cup Cells(F)
        /\ Spots(x, G) = {x[k].offset : k \in 1..Len(x)} \cup Cells(G)
    <2>1. \A o \in X : o \in DOMAIN f /\ o \in Nat \ {SQFRAME_NULL} /\ f[o] \in Frames
      BY <1>1, SpotsIn
    <2>2. \A k \in 1..Len(x) : x[k].offset \in X /\ x[k].offset \notin Cells(F)
      BY <1>1 DEF Sound0, Spots, Cells
    <2>3. Cells(F) \subseteq X /\ A \subseteq Cells(F) /\ F[i] \in A
      BY <1>3, <1>4 DEF Spots, Cells
    <2> HIDE DEF G
    <2> QED BY <2>1, <2>2, <2>3 DEF Spots, Cells
  <1> HIDE DEF X, h
  <1>9. Spots(x, G) = (X \ A) \cup (IF l = 1 THEN {e} ELSE {})
    BY <1>7, <1>8
  <1>10. F[i] \in Nat \ {SQFRAME_NULL} /\ F[i] \notin Spots(x, G)
    BY <1>6, <1>8, <1>9
  <1>11. Spots(x, G) \cup {F[i]} = (X \ A) \cup B
    BY <1>9
  <1> HIDE DEF A, B, G
  <1>12. ASSUME NEW o \in X, o \notin A
         PROVE  /\ o \in DOMAIN g /\ Same(f, g, o)
                /\ g[o].next = (IF o = Pos(F, i - 1) THEN (IF l = 1 THEN e ELSE Pos(F, j + 1)) ELSE f[o].next)
                /\ g[o].prev = (IF o = Pos(F, j + 1) THEN (IF l = 1 THEN e ELSE Pos(F, i - 1)) ELSE f[o].prev)
    BY <1>6, <1>8, <1>12 DEF Replaced
  <1>13. Table(g) /\ SameBase(b, c)
    BY DEF Replaced, Refreed
  <1>14. ASSUME NEW o \in X, o \notin Cells(F)
         PROVE  o \in DOMAIN g /\ g[o] = f[o]
    <2>1. o \notin A /\ o # Pos(F, i - 1) /\ o # Pos(F, j + 1)
      BY <1>4, <1>8, <1>14 DEF Pos, Cells
    <2>2. o \in DOMAIN g /\ Same(f, g, o) /\ g[o].next = f[o].next /\ g[o].prev = f[o].prev
      BY <1>12, <2>1
    <2>3. f[o] \in Frames /\ g[o] \in Frames
      BY <1>8, <2>2 DEF Same
    <2> QED BY <2>2, <2>3, FrameFields DEF Same
  <1>15. Chain(g, G, c.firstfreeframe, c.lastfreeframe)
    <2>1. Relinked(f, g, F, i, l, d, e)
      <3>1. ASSUME NEW q \in 1..Len(F), q < i \/ q >= i + l + d
            PROVE  /\ F[q] \in DOMAIN g /\ (l = 1 => F[q] # e)
                   /\ g[F[q]].next = (IF q = i - 1 THEN (IF l = 1 THEN e ELSE Pos(F, i + d)) ELSE f[F[q]].next)
                   /\ g[F[q]].prev = (IF q = i + l + d THEN (IF l = 1 THEN e ELSE Pos(F, i - 1)) ELSE f[F[q]].prev)
        <4>1. F[q] \in X /\ F[q] \notin A
          <5>1. \A r \in i..j : r \in 1..Len(F) /\ r # q
            BY <1>3, <1>4, <3>1
          <5>2. F[q] \notin A
            BY <1>3, <5>1 DEF A
          <5> QED BY <1>8, <5>2 DEF Cells
        <4>2. (F[q] = Pos(F, i - 1) <=> q = i - 1) /\ (F[q] = Pos(F, j + 1) <=> q = j + 1)
          <5>1. i - 1 \in Int /\ j + 1 \in Int
            BY <1>4
          <5> QED BY <1>1, <1>2, <5>1, PosOnce
        <4>3. l # 1 => i + d = j + 1
          BY <1>4
        <4> HIDE DEF d
        <4> QED BY <1>4, <1>6, <1>12, <4>1, <4>2, <4>3
      <3>2. l = 1 => /\ e \in DOMAIN g
                     /\ g[e].prev = Pos(F, i - 1) /\ g[e].next = Pos(F, i + 1 + d)
        <4>1. l = 1 => i + 1 + d = j + 1
          BY <1>4
        <4> HIDE DEF d
        <4> QED BY <4>1 DEF Replaced
      <3> HIDE DEF d
      <3> QED BY <3>1, <3>2 DEF Relinked
    <2>2. Chain(g, G, IF i = 1 THEN (IF l = 1 THEN e ELSE Pos(F, 1 + d)) ELSE b.firstfreeframe,
                       IF i + l + d = Len(F) + 1 THEN (IF l = 1 THEN e ELSE Pos(F, i - 1)) ELSE b.lastfreeframe)
      <3> HIDE DEF d
      <3> QED BY <1>2, <1>5, <2>1, SpliceChain
    <2>3. (l # 1 /\ i = 1 => 1 + d = j + 1) /\ (i + l + d = Len(F) + 1 <=> j = Len(F))
      <3>1. (l # 1 => l = 0) /\ l \in Int /\ Len(F) \in Int
        BY <1>3
      <3> HIDE DEF d
      <3>2. i + l + d = Len(F) + 1 <=> j = Len(F)
        BY <1>4, <3>1
      <3>3. ASSUME l # 1, i = 1 PROVE 1 + d = j + 1
        BY <1>4, <3>1, <3>3
      <3> QED BY <3>2, <3>3
    <2> HIDE DEF d
    <2> QED BY <2>2, <2>3 DEF Refreed
  <1>16. Chain(g, Offs(x), c.firstframe, c.lastframe)
    <2>1. \A k \in 1..Len(Offs(x)) : Offs(x)[k] \in X /\ Offs(x)[k] \notin Cells(F)
      BY <1>2, <1>8, OffsLen DEF Offs
    <2>2. Chain(g, Offs(x), b.firstframe, b.lastframe)
      BY <1>2, <1>14, <2>1, ChainSame
    <2> QED BY <2>2 DEF Refreed
  <1>17. Untouched(f, g, x)
    BY <1>8, <1>14 DEF Untouched
  <1>18. \A k \in 1..Len(x) : Holds(g[x[k].offset], x[k].msgno)
    BY <1>1, <1>17 DEF Sound0, Untouched
  <1>19. ASSUME NEW q \in 1..Len(G) PROVE g[G[q]].type = "free" /\ \A k \in 1..Len(x) : x[k].offset # G[q]
    <2>1. G[q] \in Cells(G)
      BY DEF Cells
    <2>2. CASE l = 1 /\ G[q] = e
      <3>1. \A k \in 1..Len(x) : x[k].offset \in X \ A
        BY <1>8
      <3> QED BY <1>6, <2>2, <3>1 DEF Replaced
    <2>3. CASE G[q] \in Cells(F) \ A
      <3>1. f[G[q]].type = "free"
        BY <1>1, <2>3 DEF Cells, Sound0
      <3>2. Same(f, g, G[q])
        BY <1>8, <1>12, <2>3
      <3> QED BY <1>8, <2>3, <3>1, <3>2 DEF Same
    <2> QED BY <1>7, <2>1, <2>2, <2>3
  <1>20. Numbered(c, x) /\ Limits(c) /\ c \in Bases
    BY <1>1, <1>13 DEF Sound0, Numbered, Limits, SameBase
  <1>21. Sound0(g, c, x, G)
    BY <1>2, <1>13, <1>15, <1>16, <1>18, <1>19, <1>20 DEF Sound0
  <1>22. Tiles(h, Spots(x, G) \cup {F[i]}, b.endframe)
    BY <1>6, <1>11
  <1>23. SpanGone(f, b, x, g, c, F[i], size, G)
    <2> HIDE DEF G
    <2> QED BY <1>10, <1>17, <1>21, <1>22 DEF h, SpanGone
  <1>24. ASSUME l = 0 PROVE G = SpliceOf(F, i, 0, (j - i) + 1, e)
    <2>1. d = (j - i) + 1
      <3>1. F \in Seq(Nat)
        BY <1>1 DEF Sound0, Chain
      <3>2. i \in 1..Len(F) /\ j \in i..Len(F) /\ Len(F) \in Nat
        BY <3>1 DEF SpanOf
      <3>3. i \in Int /\ j \in Int
        BY <3>2
      <3> QED BY <1>24, <3>3
    <2> HIDE DEF d
    <2> QED BY <1>24, <2>1 DEF G
  <1> HIDE DEF G
  <1> QED BY <1>23, <1>24 DEF SpanLeft

-----------------------------------------------------------------------------
\* The span as a whole is taken ...

\* A frame that begins in a span is one of the span's.
LEMMA SpanApart ==
    ASSUME NEW f, NEW b, NEW x, NEW F, Sound(f, b, x, F), NEW i, NEW j, NEW s, NEW totsize,
           SpanOf(f, F, i, j, s, totsize), NEW q \in 1..Len(F),
           s.at <= F[q], F[q] < s.at + FrmSize + s.length
    PROVE  q \in i..j
  <1> DEFINE X == Spots(x, F)
  <1>0. FrmSize \in Nat /\ FrmSize > 0
    BY SizeAssumption
  <1>1. Sound0(f, b, x, F) /\ Tiles(f, X, b.endframe)
    BY DEF Sound
  <1>2. /\ \A r \in 1..Len(F) : F[r] \in X
        /\ \A r, u \in 1..Len(F) : F[r] = F[u] => r = u
        /\ i \in 1..Len(F) /\ j \in i..Len(F) /\ Len(F) \in Nat
    <2>1. i \in 1..Len(F) /\ j \in i..Len(F)
      BY DEF SpanOf
    <2>2. \A r, u \in 1..Len(F) : F[r] = F[u] => r = u
      BY <1>1 DEF Sound0, Chain
    <2>3. Len(F) \in Nat
      BY <1>1 DEF Sound0, Chain
    <2> QED BY <2>1, <2>2, <2>3 DEF Spots
  <1>3. F[q] \in Nat /\ f[F[q]].length \in Nat
    BY <1>1, <1>2, SpotsIn
  <1>4. PICK r \in i..j : Within(f, F[r], F[q])
    BY <1>3, SpanCovers
  <1>5. Within(f, F[q], F[q])
    BY <1>0, <1>3 DEF Within
  <1>6. r \in 1..Len(F)
    BY <1>2
  <1>7. F[r] = F[q]
    BY <1>1, <1>2, <1>3, <1>4, <1>5, <1>6 DEF Tiles
  <1> QED BY <1>2, <1>6, <1>7

TakenBase(b, at, last, prev, next) ==
    [b EXCEPT !.firstfreeframe = IF @ = at THEN next ELSE @,
              !.lastfreeframe  = IF @ \in {at, last} THEN prev ELSE @]

LEMMA TakenBaseIs ==
    ASSUME NEW b \in Bases, NEW at, NEW last, NEW prev \in Nat, NEW next \in Nat
    PROVE  LET c == TakenBase(b, at, last, prev, next)
           IN  /\ SameBase(b, c) /\ c.firstframe = b.firstframe /\ c.lastframe = b.lastframe
               /\ c.firstfreeframe = (IF b.firstfreeframe = at THEN next ELSE b.firstfreeframe)
               /\ c.lastfreeframe = (IF b.lastfreeframe \in {at, last} THEN prev ELSE b.lastfreeframe)
  <1>1. PICK fst \in Nat, lst \in Nat :
            /\ fst = IF b.firstfreeframe = at THEN next ELSE b.firstfreeframe
            /\ lst = IF b.lastfreeframe \in {at, last} THEN prev ELSE b.lastfreeframe
    BY BaseFields
  <1>2. PICK c : c = TakenBase(b, at, last, prev, next)
    OBVIOUS
  <1>3. c = [[b EXCEPT !.firstfreeframe = fst] EXCEPT !.lastfreeframe = lst]
    BY <1>1, <1>2 DEF TakenBase
  <1>4. [b EXCEPT !.firstfreeframe = fst]
        = [totalmsgs |-> b.totalmsgs, highestmsg |-> b.highestmsg, protmsgs |-> b.protmsgs,
                   nextmsgno |-> b.nextmsgno, firstframe |-> b.firstframe, lastframe |-> b.lastframe,
                   firstfreeframe |-> fst, lastfreeframe |-> b.lastfreeframe,
                   endframe |-> b.endframe, maxmsgs |-> b.maxmsgs]
    BY BaseFields
  <1>5. c = [totalmsgs |-> b.totalmsgs, highestmsg |-> b.highestmsg, protmsgs |-> b.protmsgs,
                   nextmsgno |-> b.nextmsgno, firstframe |-> b.firstframe, lastframe |-> b.lastframe,
                   firstfreeframe |-> fst, lastfreeframe |-> lst,
                   endframe |-> b.endframe, maxmsgs |-> b.maxmsgs]
    BY <1>3, <1>4
  <1>6. c \in Bases
    BY <1>5, BaseFields DEF Bases
  <1> QED BY <1>1, <1>2, <1>5, <1>6 DEF SameBase

LEMMA TakeSpanIs ==
    ASSUME NEW f, NEW b \in Bases, NEW x, NEW m, NEW s, NEW last, NEW fr
    PROVE  LET g == upd_frm_prev(upd_frm_next(f, fr.prev, fr.next), fr.next, fr.prev)
               c == TakenBase(b, s.at, last, fr.prev, fr.next)
           IN  TakeSpan(V(f, b, x, m), s, last, fr) = [v |-> V(g, c, x, m), at |-> s.at, fr |-> fr]
  <1> DEFINE g == upd_frm_prev(upd_frm_next(f, fr.prev, fr.next), fr.next, fr.prev)
             fst == IF b.firstfreeframe = s.at THEN fr.next ELSE b.firstfreeframe
             lst == IF b.lastfreeframe \in {s.at, last} THEN fr.prev ELSE b.lastfreeframe
             w == [V(f, b, x, m) EXCEPT !.base.firstfreeframe = fst, !.base.lastfreeframe = lst, !.frm = g]
  <1>1. TakeSpan(V(f, b, x, m), s, last, fr) = [v |-> w, at |-> s.at, fr |-> fr]
    BY DEF TakeSpan, V
  <1>2. TakenBase(b, s.at, last, fr.prev, fr.next)
        = [[b EXCEPT !.firstfreeframe = fst] EXCEPT !.lastfreeframe = lst]
    BY DEF TakenBase
  <1> HIDE DEF g, fst, lst
  <1>3. w = [[[V(f, b, x, m) EXCEPT !.base.firstfreeframe = fst] EXCEPT !.base.lastfreeframe = lst]
                EXCEPT !.frm = g]
    OBVIOUS
  <1>4. [V(f, b, x, m) EXCEPT !.base.firstfreeframe = fst] = V(f, [b EXCEPT !.firstfreeframe = fst], x, m)
    BY DEF V
  <1>5. [V(f, [b EXCEPT !.firstfreeframe = fst], x, m) EXCEPT !.base.lastfreeframe = lst]
        = V(f, [[b EXCEPT !.firstfreeframe = fst] EXCEPT !.lastfreeframe = lst], x, m)
    BY DEF V
  <1>6. [V(f, TakenBase(b, s.at, last, fr.prev, fr.next), x, m) EXCEPT !.frm = g]
        = V(g, TakenBase(b, s.at, last, fr.prev, fr.next), x, m)
    BY DEF V
  <1>7. w = V(g, TakenBase(b, s.at, last, fr.prev, fr.next), x, m)
    BY <1>2, <1>3, <1>4, <1>5, <1>6
  <1> HIDE DEF w
  <1> QED BY <1>1, <1>7 DEF g

\* What SplitAndTake makes of the span s, of which l frames are given back.
SpanTaken(f, b, x, m, F, i, j, s, w, g, c, fr, l, e) ==
    /\ SplitAndTake(w, s.last) = [v |-> V(g, c, x, m), at |-> F[i], fr |-> fr]
    /\ fr \in Frames
    /\ Replaced(f, g, F, i, j, s, fr.length, l, e) /\ Refreed(b, c, F, i, j, l, e)

\* A frame with another next, and of another length.
Resize(fr, next, length) == [fr EXCEPT !.next = next, !.length = length]

LEMMA Resized ==
    ASSUME NEW fr \in Frames, NEW next \in Nat, NEW length \in Nat
    PROVE  LET r == Resize(fr, next, length)
           IN  r \in Frames /\ r.next = next /\ r.length = length /\ r.prev = fr.prev
  BY DEF Frames, Resize

\* The whole span is taken.
LEMMA TakeWhole ==
    ASSUME NEW f, NEW b, NEW x, NEW F, Sound(f, b, x, F), NEW m, NEW i, NEW j, NEW s, NEW totsize,
           SpanOf(f, F, i, j, s, totsize)
    PROVE  \E g, c, fr : /\ SpanTaken(f, b, x, m, F, i, j, s, [v |-> V(f, b, x, m), s |-> s], g, c, fr, 0, 0)
                         /\ fr.length = s.length
  <1>1. /\ Sound0(f, b, x, F) /\ Table(f) /\ b \in Bases /\ Chain(f, F, b.firstfreeframe, b.lastfreeframe)
        /\ b.firstfreeframe = Pos(F, 1) /\ b.lastfreeframe = Pos(F, Len(F))
    BY DEF Sound, Sound0, Chain
  <1>2. /\ i \in 1..Len(F) /\ j \in i..Len(F) /\ s.at = F[i] /\ s.last = F[j] /\ s.next = Pos(F, j + 1)
        /\ s.length \in Nat /\ s.next \in Nat
    BY DEF SpanOf, Spans
  <1>3. /\ Len(F) \in Nat /\ f[F[i]] \in Frames /\ read_frm(f, F[i]) = f[F[i]] /\ f[F[i]].prev = Pos(F, i - 1)
        /\ F[i] \in Nat
    BY <1>1, <1>2, ChainAt
  <1>4. i \in Nat /\ j \in Nat /\ i - 1 \in Int /\ j + 1 \in Int
    BY <1>2, <1>3
  <1> DEFINE fr == Resize(f[F[i]], s.next, s.length)
             p == Pos(F, i - 1)
             n == Pos(F, j + 1)
             g == upd_frm_prev(upd_frm_next(f, p, n), n, p)
             c == TakenBase(b, F[i], F[j], p, n)
  <1>5. fr \in Frames /\ fr.next = n /\ fr.prev = p /\ fr.length = s.length
    <2>1. s.next \in Nat /\ s.length \in Nat /\ f[F[i]] \in Frames
      BY <1>2, <1>3
    <2>2. /\ fr \in Frames /\ fr.next = s.next /\ fr.length = s.length /\ fr.prev = f[F[i]].prev
      BY <2>1, Resized
    <2> QED BY <1>2, <1>3, <2>2
  <1>6. SplitAndTake([v |-> V(f, b, x, m), s |-> s], s.last) = TakeSpan(V(f, b, x, m), s, F[j], fr)
    <2>1. V(f, b, x, m).frm = f
      BY DEF V
    <2> QED BY <1>2, <1>3, <2>1 DEF SplitAndTake, Resize
  <1> HIDE DEF fr
  <1>7. TakeSpan(V(f, b, x, m), s, F[j], fr) = [v |-> V(g, c, x, m), at |-> F[i], fr |-> fr]
    <2>1. LET g1 == upd_frm_prev(upd_frm_next(f, fr.prev, fr.next), fr.next, fr.prev)
              c1 == TakenBase(b, s.at, F[j], fr.prev, fr.next)
          IN  TakeSpan(V(f, b, x, m), s, F[j], fr) = [v |-> V(g1, c1, x, m), at |-> s.at, fr |-> fr]
      BY <1>1, TakeSpanIs
    <2> QED BY <1>2, <1>5, <2>1
  <1>8. /\ p \in Nat /\ (p = SQFRAME_NULL \/ p \in DOMAIN f)
        /\ n \in Nat /\ (n = SQFRAME_NULL \/ n \in DOMAIN f)
    BY <1>1, <1>4, PosIn
  <1>9. /\ Table(g) /\ DOMAIN g = DOMAIN f
        /\ \A o \in DOMAIN f : /\ Same(f, g, o) /\ g[o].next = (IF o = p THEN n ELSE f[o].next)
                               /\ g[o].prev = IF o = n THEN p ELSE f[o].prev
    BY <1>1, <1>8, Bridged DEF Links
  <1>10. Replaced(f, g, F, i, j, s, fr.length, 0, 0)
    <2> HIDE DEF g
    <2> QED BY <1>5, <1>9 DEF Replaced
  <1>11. /\ SameBase(b, c) /\ c.firstframe = b.firstframe /\ c.lastframe = b.lastframe
         /\ c.firstfreeframe = (IF b.firstfreeframe = F[i] THEN n ELSE b.firstfreeframe)
         /\ c.lastfreeframe = (IF b.lastfreeframe \in {F[i], F[j]} THEN p ELSE b.lastfreeframe)
    BY <1>1, <1>8, TakenBaseIs
  <1>12. (b.firstfreeframe = F[i] <=> i = 1) /\ (b.lastfreeframe \in {F[i], F[j]} <=> j = Len(F))
    <2>1. (F[i] = Pos(F, 1) <=> i = 1) /\ (F[i] = Pos(F, Len(F)) <=> i = Len(F))
      BY <1>1, <1>2, <1>3, PosOnce
    <2>2. j \in 1..Len(F)
      BY <1>2, <1>3
    <2>3. F[j] = Pos(F, Len(F)) <=> j = Len(F)
      BY <1>1, <1>3, <2>2, PosOnce
    <2>4. i = Len(F) => j = Len(F)
      BY <1>2, <1>3
    <2> QED BY <1>1, <2>1, <2>3, <2>4
  <1>13. Refreed(b, c, F, i, j, 0, 0)
    <2> HIDE DEF c
    <2> QED BY <1>11, <1>12 DEF Refreed
  <1> HIDE DEF g, c
  <1>14. SpanTaken(f, b, x, m, F, i, j, s, [v |-> V(f, b, x, m), s |-> s], g, c, fr, 0, 0)
    BY <1>5, <1>6, <1>7, <1>10, <1>13 DEF SpanTaken
  <1> QED BY <1>5, <1>14

-----------------------------------------------------------------------------
\* ... or what is left of it becomes a frame of its own (excess_frame).

\* A span of which the rest beyond size becomes a frame of its own, at e.
RestFrame(s, size) == [init_frm EXCEPT !.type = "free", !.next = s.next, !.prev = s.at,
                                       !.length = (s.length - size) - FrmSize]
RestTable(f, s, size, e) == upd_frm_prev(write_frm(f, e, RestFrame(s, size)), s.next, e)
RestBase(b, s, e) == [b EXCEPT !.lastfreeframe = IF @ = s.last THEN e ELSE @]
Shortened(s, size, e) == [s EXCEPT !.next = e, !.length = size]

LEMMA ResizedSame ==
    ASSUME NEW r \in Frames, NEW q \in Frames, r.type = q.type, r.prev = q.prev, r.totsize = q.totsize,
           r.hdr = q.hdr, r.txt = q.txt, NEW next \in Nat, NEW length \in Nat
    PROVE  Resize(r, next, length) = Resize(q, next, length)
  <1>1. \A fr \in Frames : Resize(fr, next, length)
            = [type |-> fr.type, next |-> next, prev |-> fr.prev, length |-> length,
               totsize |-> fr.totsize, hdr |-> fr.hdr, txt |-> fr.txt]
    <2>1. ASSUME NEW fr \in Frames
          PROVE  Resize(fr, next, length)
                 = [type |-> fr.type, next |-> next, prev |-> fr.prev, length |-> length,
                    totsize |-> fr.totsize, hdr |-> fr.hdr, txt |-> fr.txt]
      <3>1. Resize(fr, next, length) = [[fr EXCEPT !.next = next] EXCEPT !.length = length]
        BY DEF Resize
      <3>2. PICK gr : gr = [fr EXCEPT !.next = next]
        OBVIOUS
      <3>3. gr = [type |-> fr.type, next |-> next, prev |-> fr.prev, length |-> fr.length,
                  totsize |-> fr.totsize, hdr |-> fr.hdr, txt |-> fr.txt]
        BY <3>2, FrameFields
      <3> QED BY <3>1, <3>2, <3>3
    <2> QED BY <2>1
  <1> QED BY <1>1

LEMMA ExcessIs ==
    ASSUME NEW f, NEW b, NEW x, NEW m, NEW s, NEW size, NEW e, e = s.at + size + FrmSize,
           ~(s.length - size < FrmSize)
    PROVE  excess_frm(V(f, b, x, m), s, size)
           = [v |-> V(RestTable(f, s, size, e), RestBase(b, s, e), x, m), s |-> Shortened(s, size, e)]
  <1> DEFINE lst == IF b.lastfreeframe = s.last THEN e ELSE b.lastfreeframe
             h == RestTable(f, s, size, e)
             w == [V(f, b, x, m) EXCEPT !.base.lastfreeframe = lst, !.frm = h]
  <1>1. excess_frm(V(f, b, x, m), s, size) = [v |-> w, s |-> Shortened(s, size, e)]
    BY DEF excess_frm, V, RestTable, RestFrame, Shortened
  <1>2. RestBase(b, s, e) = [b EXCEPT !.lastfreeframe = lst]
    BY DEF RestBase
  <1> HIDE DEF lst, h
  <1>3. w = [[V(f, b, x, m) EXCEPT !.base.lastfreeframe = lst] EXCEPT !.frm = h]
    OBVIOUS
  <1>4. [V(f, b, x, m) EXCEPT !.base.lastfreeframe = lst] = V(f, [b EXCEPT !.lastfreeframe = lst], x, m)
    BY DEF V
  <1>5. [V(f, RestBase(b, s, e), x, m) EXCEPT !.frm = h] = V(h, RestBase(b, s, e), x, m)
    BY DEF V
  <1>6. w = V(h, RestBase(b, s, e), x, m)
    BY <1>2, <1>3, <1>4, <1>5
  <1> HIDE DEF w
  <1> QED BY <1>1, <1>6 DEF h

LEMMA RestFrameIs ==
    ASSUME NEW s \in Spans, NEW size \in Nat, ~(s.length - size < FrmSize)
    PROVE  LET r == RestFrame(s, size)
           IN  /\ r \in Frames /\ r.type = "free" /\ r.next = s.next /\ r.prev = s.at
               /\ r.length = (s.length - size) - FrmSize
  <1>0. FrmSize \in Nat
    BY SizeAssumption
  <1>1. s.length \in Nat /\ s.next \in Nat /\ s.at \in Nat
    BY DEF Spans
  <1>2. PICK len \in Nat : len = (s.length - size) - FrmSize
    BY <1>0, <1>1
  <1>3. NoMsg \in Messages
    BY DEF NoMsg, Messages
  <1>4. RestFrame(s, size) = [type |-> "free", next |-> s.next, prev |-> s.at, length |-> len,
                              totsize |-> 0, hdr |-> NoMsg, txt |-> NoMsg]
    <2>1. RestFrame(s, size) = [init_frm EXCEPT !.type = "free", !.next = s.next, !.prev = s.at,
                                                !.length = len]
      BY <1>2 DEF RestFrame
    <2>2. PICK next \in Nat, prev \in Nat : next = s.next /\ prev = s.at
      BY <1>1
    <2>3. [init_frm EXCEPT !.type = "free", !.next = next, !.prev = prev, !.length = len]
          = [type |-> "free", next |-> next, prev |-> prev, length |-> len,
             totsize |-> 0, hdr |-> NoMsg, txt |-> NoMsg]
      <3> DEFINE R(t, n, p, l) == [type |-> t, next |-> n, prev |-> p, length |-> l,
                                   totsize |-> 0, hdr |-> NoMsg, txt |-> NoMsg]
      <3>1. init_frm = R("normal", SQFRAME_NULL, SQFRAME_NULL, 0)
        BY DEF init_frm
      <3>2. \A t, n, p, l : /\ [R(t, n, p, l) EXCEPT !.type = "free"] = R("free", n, p, l)
                            /\ [R(t, n, p, l) EXCEPT !.next = next] = R(t, next, p, l)
                            /\ [R(t, n, p, l) EXCEPT !.prev = prev] = R(t, n, prev, l)
                            /\ [R(t, n, p, l) EXCEPT !.length = len] = R(t, n, p, len)
        OBVIOUS
      <3>3. [init_frm EXCEPT !.type = "free", !.next = next, !.prev = prev, !.length = len]
            = [[[[init_frm EXCEPT !.type = "free"] EXCEPT !.next = next] EXCEPT !.prev = prev]
                    EXCEPT !.length = len]
        OBVIOUS
      <3> HIDE DEF R
      <3>4. [[[[init_frm EXCEPT !.type = "free"] EXCEPT !.next = next] EXCEPT !.prev = prev]
                    EXCEPT !.length = len] = R("free", next, prev, len)
        <4>1. [init_frm EXCEPT !.type = "free"] = R("free", SQFRAME_NULL, SQFRAME_NULL, 0)
          BY <3>1, <3>2
        <4>2. [R("free", SQFRAME_NULL, SQFRAME_NULL, 0) EXCEPT !.next = next]
              = R("free", next, SQFRAME_NULL, 0)
          BY <3>2
        <4>3. [R("free", next, SQFRAME_NULL, 0) EXCEPT !.prev = prev] = R("free", next, prev, 0)
          BY <3>2
        <4>4. [R("free", next, prev, 0) EXCEPT !.length = len] = R("free", next, prev, len)
          BY <3>2
        <4> QED BY <4>1, <4>2, <4>3, <4>4, Zenon
      <3> QED BY <3>3, <3>4 DEF R
    <2> QED BY <2>1, <2>2, <2>3
  <1>5. RestFrame(s, size) \in Frames
    BY <1>1, <1>3, <1>4 DEF Frames
  <1> QED BY <1>2, <1>4, <1>5

LEMMA RestBaseIs ==
    ASSUME NEW b \in Bases, NEW s, NEW e \in Nat
    PROVE  LET c == RestBase(b, s, e)
           IN  /\ SameBase(b, c) /\ c.firstframe = b.firstframe /\ c.lastframe = b.lastframe
               /\ c.firstfreeframe = b.firstfreeframe
               /\ c.lastfreeframe = (IF b.lastfreeframe = s.last THEN e ELSE b.lastfreeframe)
  <1>1. PICK lst \in Nat : lst = IF b.lastfreeframe = s.last THEN e ELSE b.lastfreeframe
    BY BaseFields
  <1>2. PICK c : c = RestBase(b, s, e)
    OBVIOUS
  <1>3. c = [b EXCEPT !.lastfreeframe = lst]
    BY <1>1, <1>2 DEF RestBase
  <1>4. c = [totalmsgs |-> b.totalmsgs, highestmsg |-> b.highestmsg, protmsgs |-> b.protmsgs,
                   nextmsgno |-> b.nextmsgno, firstframe |-> b.firstframe, lastframe |-> b.lastframe,
                   firstfreeframe |-> b.firstfreeframe, lastfreeframe |-> lst,
                   endframe |-> b.endframe, maxmsgs |-> b.maxmsgs]
    BY <1>3, BaseFields
  <1>5. c \in Bases
    BY <1>4, BaseFields DEF Bases
  <1> QED BY <1>1, <1>2, <1>4, <1>5 DEF SameBase

LEMMA ShortenedIs ==
    ASSUME NEW s \in Spans, NEW size, NEW e
    PROVE  LET t == Shortened(s, size, e)
           IN  t.at = s.at /\ t.last = s.last /\ t.next = e /\ t.length = size
  BY DEF Shortened, Spans

\* What is left of the span becomes a free frame.
LEMMA TakeSplit ==
    ASSUME NEW f, NEW b, NEW x, NEW F, Sound(f, b, x, F), NEW m, NEW i, NEW j, NEW s, NEW totsize \in Nat,
           SpanOf(f, F, i, j, s, totsize), ~(s.length - totsize < FrmSize)
    PROVE  \E g, c, fr : \E e \in Nat :
              /\ SpanTaken(f, b, x, m, F, i, j, s, excess_frm(V(f, b, x, m), s, totsize), g, c, fr, 1, e)
              /\ fr.length = totsize
  <1>0. FrmSize \in Nat /\ FrmSize > 0
    BY SizeAssumption
  <1>1. /\ Sound0(f, b, x, F) /\ Table(f) /\ b \in Bases /\ Chain(f, F, b.firstfreeframe, b.lastfreeframe)
        /\ b.firstfreeframe = Pos(F, 1) /\ b.lastfreeframe = Pos(F, Len(F))
    BY DEF Sound, Sound0, Chain
  <1>2. /\ i \in 1..Len(F) /\ j \in i..Len(F) /\ s.at = F[i] /\ s.last = F[j] /\ s.next = Pos(F, j + 1)
        /\ s.length \in Nat /\ s.next \in Nat /\ s \in Spans
        /\ s.last < s.at + FrmSize + totsize
    BY DEF SpanOf, Spans
  <1>3. /\ Len(F) \in Nat /\ f[F[i]] \in Frames /\ read_frm(f, F[i]) = f[F[i]] /\ f[F[i]].prev = Pos(F, i - 1)
        /\ F[i] \in Nat \ {SQFRAME_NULL} /\ F[i] \in DOMAIN f
    BY <1>1, <1>2, ChainAt
  <1>4. i \in Nat /\ j \in Nat /\ i - 1 \in Int /\ j + 1 \in Int /\ j \in 1..Len(F)
    BY <1>2, <1>3
  <1>5. PICK e \in Nat \ {SQFRAME_NULL} : e = s.at + FrmSize + totsize
    <2>1. s.at + FrmSize + totsize \in Nat /\ s.at + FrmSize + totsize > 0
      BY <1>0, <1>2, <1>3
    <2> QED BY <2>1 DEF SQFRAME_NULL
  <1>6. /\ e = s.at + totsize + FrmSize /\ s.last < e /\ F[i] # e /\ F[j] # e
        /\ s.at <= e /\ e < s.at + FrmSize + s.length
    <2>1. F[j] \in Nat
      BY <1>1, <1>4 DEF Chain
    <2>2. totsize + FrmSize <= s.length
      BY <1>0, <1>2
    <2>3. s.at \in Nat /\ e = s.at + totsize + FrmSize
      BY <1>0, <1>2, <1>3, <1>5
    <2>4. s.last < e /\ F[i] # e /\ F[j] # e
      BY <1>0, <1>2, <1>5, <2>1, <2>3
    <2>5. s.at <= e /\ e < s.at + FrmSize + s.length
      BY <1>0, <1>2, <2>2, <2>3
    <2> QED BY <2>3, <2>4, <2>5
  <1>e. e \in Nat /\ e # SQFRAME_NULL
    BY <1>5
  <1> DEFINE r == RestFrame(s, totsize)
             k == write_frm(f, e, r)
             h == RestTable(f, s, totsize, e)
             a == RestBase(b, s, e)
             t == Shortened(s, totsize, e)
             p == Pos(F, i - 1)
             n == Pos(F, j + 1)
             fr == Resize(f[F[i]], e, totsize)
             g == upd_frm_prev(upd_frm_next(h, p, e), e, p)
             c == TakenBase(a, F[i], F[j], p, e)
  <1>7. /\ p \in Nat /\ (p = SQFRAME_NULL \/ p \in DOMAIN f)
        /\ n \in Nat /\ (n = SQFRAME_NULL \/ n \in DOMAIN f)
    BY <1>1, <1>4, PosIn
  <1>8. p # e /\ n # e
    <2>1. ASSUME NEW q \in 1..Len(F), F[q] = e PROVE q \in i..j
      <3> HIDE DEF p, n, g, h, k, c, fr, r, t, a
      <3> QED BY <1>6, <2>1, SpanApart
    <2>2. ASSUME p = e PROVE FALSE
      <3>1. i - 1 \in 1..Len(F) /\ F[i - 1] = e
        BY <1>5, <2>2 DEF Pos
      <3> QED BY <1>4, <2>1, <3>1
    <2>3. ASSUME n = e PROVE FALSE
      <3>1. j + 1 \in 1..Len(F) /\ F[j + 1] = e
        BY <1>5, <2>3 DEF Pos
      <3> QED BY <1>4, <2>1, <3>1
    <2> QED BY <2>2, <2>3
  <1>9. /\ r \in Frames /\ r.type = "free" /\ r.next = n /\ r.prev = F[i]
        /\ r.length = (s.length - totsize) - FrmSize
    BY <1>2, RestFrameIs
  <1>10. /\ t.at = F[i] /\ t.last = F[j] /\ t.next = e /\ t.length = totsize
    <2>1. t.at = s.at /\ t.last = s.last /\ t.next = e /\ t.length = totsize
      BY <1>2, ShortenedIs
    <2> QED BY <1>2, <2>1
  <1>11. excess_frm(V(f, b, x, m), s, totsize) = [v |-> V(h, a, x, m), s |-> t]
    BY <1>6, ExcessIs
  <1>12. /\ SameBase(b, a) /\ a.firstframe = b.firstframe /\ a.lastframe = b.lastframe
         /\ a.firstfreeframe = b.firstfreeframe /\ a \in Bases
         /\ a.lastfreeframe = (IF b.lastfreeframe = F[j] THEN e ELSE b.lastfreeframe)
    <2>1. /\ SameBase(b, a) /\ a.firstframe = b.firstframe /\ a.lastframe = b.lastframe
          /\ a.firstfreeframe = b.firstfreeframe
          /\ a.lastfreeframe = (IF b.lastfreeframe = s.last THEN e ELSE b.lastfreeframe)
      BY <1>1, RestBaseIs
    <2> QED BY <1>2, <2>1 DEF SameBase
  <1>13. fr \in Frames /\ fr.next = e /\ fr.length = totsize /\ fr.prev = p
    <2>1. fr \in Frames /\ fr.next = e /\ fr.length = totsize /\ fr.prev = f[F[i]].prev
      <3>1. f[F[i]] \in Frames
        BY <1>3
      <3> QED BY <3>1, <1>e, Resized
    <2> QED BY <1>3, <2>1
  \* The table.
  <1>14. /\ Table(k) /\ DOMAIN k = DOMAIN f \cup {e} /\ k[e] = r
         /\ \A o \in DOMAIN f : o # e => k[o] = f[o]
    <2> HIDE DEF r
    <2>1. Table(f) /\ r \in Frames
      BY <1>1, <1>9
    <2> QED BY <2>1, <1>5, FrameWritten
  <1>15. h = upd_frm_prev(k, n, e)
    BY <1>2 DEF RestTable
  <1> HIDE DEF r, k, h, a, t, fr
  <1>16. /\ Table(h) /\ DOMAIN h = DOMAIN k
         /\ \A o \in DOMAIN k : /\ Same(k, h, o) /\ h[o].next = k[o].next
                                /\ h[o].prev = IF o = n THEN e ELSE k[o].prev
    <2>1. n = SQFRAME_NULL \/ n \in DOMAIN k
      BY <1>7, <1>14
    <2> HIDE DEF n
    <2>2. Table(k)
      BY <1>14
    <2> QED BY <1>e, <1>15, <2>1, <2>2, PrevSet DEF Links
  <1>17. /\ Table(g) /\ DOMAIN g = DOMAIN h
         /\ \A o \in DOMAIN h : /\ Same(h, g, o) /\ g[o].next = (IF o = p THEN e ELSE h[o].next)
                                /\ g[o].prev = IF o = e THEN p ELSE h[o].prev
    <2>1. p = SQFRAME_NULL \/ p \in DOMAIN h
      BY <1>7, <1>14, <1>16
    <2>2. e \in DOMAIN h
      BY <1>14, <1>16
    <2> QED BY <1>7, <1>16, <2>1, <2>2, Bridged DEF Links
  <1>18. ASSUME NEW o \in DOMAIN f, o # e
         PROVE  /\ o \in DOMAIN g /\ Same(f, g, o)
                /\ g[o].next = (IF o = p THEN e ELSE f[o].next)
                /\ g[o].prev = IF o = n THEN e ELSE f[o].prev
    <2>1. o \in DOMAIN k /\ k[o] = f[o] /\ o \in DOMAIN h /\ o \in DOMAIN g
      BY <1>14, <1>16, <1>17, <1>18
    <2>2. Same(k, h, o) /\ h[o].next = k[o].next /\ h[o].prev = IF o = n THEN e ELSE k[o].prev
      BY <1>16, <2>1
    <2>3. Same(h, g, o) /\ g[o].next = (IF o = p THEN e ELSE h[o].next) /\ g[o].prev = h[o].prev
      BY <1>17, <1>18, <2>1
    <2> HIDE DEF p, n, g
    <2>4. Same(f, g, o)
      BY <2>1, <2>2, <2>3 DEF Same
    <2> QED BY <2>1, <2>2, <2>3, <2>4
  <1>19. /\ e \in DOMAIN g /\ g[e].type = "free" /\ g[e].prev = p /\ g[e].next = n
         /\ g[e].length = (s.length - totsize) - FrmSize
    <2>1. e \in DOMAIN k /\ e \in DOMAIN h /\ e \in DOMAIN g
      BY <1>14, <1>16, <1>17
    <2>2. Same(k, h, e) /\ h[e].next = k[e].next
      BY <1>16, <2>1
    <2>3. Same(h, g, e) /\ g[e].next = h[e].next /\ g[e].prev = p
      BY <1>8, <1>17, <2>1
    <2> HIDE DEF p, n, g
    <2> QED BY <1>9, <1>14, <2>1, <2>2, <2>3 DEF Same
  <1>20. Replaced(f, g, F, i, j, s, fr.length, 1, e)
    <2>1. /\ e = s.at + FrmSize + totsize
          /\ e + FrmSize + g[e].length = s.at + FrmSize + s.length
      <3> HIDE DEF g
      <3>1. s.at \in Nat
        BY <1>2 DEF Spans
      <3>2. PICK at \in Nat, len \in Nat : at = s.at /\ len = s.length
        BY <1>2, <3>1
      <3>3. e = at + FrmSize + totsize /\ g[e].length = (len - totsize) - FrmSize
        BY <1>5, <1>19, <3>2
      <3>4. e + FrmSize + g[e].length = at + FrmSize + len
        BY <1>0, <3>3
      <3> QED BY <3>2, <3>3, <3>4
    <2>2. Table(g)
      BY <1>17
    <2> HIDE DEF g
    <2> QED BY <1>13, <1>18, <1>19, <2>1, <2>2 DEF Replaced
  \* The base record.
  <1>21. /\ SameBase(a, c) /\ c.firstframe = a.firstframe /\ c.lastframe = a.lastframe
         /\ c.firstfreeframe = (IF a.firstfreeframe = F[i] THEN e ELSE a.firstfreeframe)
         /\ c.lastfreeframe = (IF a.lastfreeframe \in {F[i], F[j]} THEN p ELSE a.lastfreeframe)
    BY <1>7, <1>12, TakenBaseIs
  <1>22. (b.firstfreeframe = F[i] <=> i = 1) /\ (b.lastfreeframe = F[j] <=> j = Len(F))
         /\ (b.lastfreeframe = F[i] => j = Len(F))
    <2>1. (F[i] = Pos(F, 1) <=> i = 1) /\ (F[i] = Pos(F, Len(F)) <=> i = Len(F))
      BY <1>1, <1>2, <1>3, PosOnce
    <2>2. F[j] = Pos(F, Len(F)) <=> j = Len(F)
      BY <1>1, <1>3, <1>4, PosOnce
    <2>3. i = Len(F) => j = Len(F)
      BY <1>2, <1>3
    <2> QED BY <1>1, <2>1, <2>2, <2>3
  <1>23. Refreed(b, c, F, i, j, 1, e)
    <2>1. SameBase(b, c)
      BY <1>12, <1>21 DEF SameBase
    <2> HIDE DEF c
    <2>2. c.firstfreeframe = (IF i = 1 THEN e ELSE b.firstfreeframe)
      BY <1>12, <1>21, <1>22
    <2>3. c.lastfreeframe = (IF j = Len(F) THEN e ELSE b.lastfreeframe)
      BY <1>6, <1>12, <1>21, <1>22
    <2> QED BY <1>12, <1>21, <2>1, <2>2, <2>3 DEF Refreed
  \* The steps of the code.
  <1>24. SplitAndTake([v |-> V(h, a, x, m), s |-> t], s.last) = TakeSpan(V(h, a, x, m), t, F[j], fr)
    <2>1. V(h, a, x, m).frm = h
      BY DEF V
    <2>2. read_frm(h, F[i]) = h[F[i]]
      BY <1>3, <1>14, <1>16 DEF read_frm
    <2>3. Resize(h[F[i]], e, totsize) = Resize(f[F[i]], e, totsize)
      <3>1. /\ h[F[i]] \in Frames /\ f[F[i]] \in Frames
            /\ h[F[i]].type = f[F[i]].type /\ h[F[i]].prev = f[F[i]].prev
            /\ h[F[i]].totsize = f[F[i]].totsize
            /\ h[F[i]].hdr = f[F[i]].hdr /\ h[F[i]].txt = f[F[i]].txt
        <4>1. F[i] \in DOMAIN k /\ k[F[i]] = f[F[i]]
          BY <1>3, <1>6, <1>14
        <4>2. F[i] # n
          <5>1. F[i] = Pos(F, j + 1) <=> i = j + 1
            BY <1>1, <1>2, <1>4, PosOnce
          <5> QED BY <1>2, <1>4, <5>1
        <4>3. Same(k, h, F[i]) /\ h[F[i]].prev = k[F[i]].prev
          BY <1>16, <4>1, <4>2
        <4> QED BY <1>3, <4>1, <4>3 DEF Same
      <3> QED BY <3>1, ResizedSame
    <2> QED BY <1>2, <1>10, <2>1, <2>2, <2>3 DEF SplitAndTake, Resize, fr
  <1>25. TakeSpan(V(h, a, x, m), t, F[j], fr) = [v |-> V(g, c, x, m), at |-> F[i], fr |-> fr]
    <2>1. LET g1 == upd_frm_prev(upd_frm_next(h, fr.prev, fr.next), fr.next, fr.prev)
              c1 == TakenBase(a, t.at, F[j], fr.prev, fr.next)
          IN  TakeSpan(V(h, a, x, m), t, F[j], fr) = [v |-> V(g1, c1, x, m), at |-> t.at, fr |-> fr]
      BY <1>12, TakeSpanIs
    <2> QED BY <1>10, <1>13, <2>1
  <1> HIDE DEF g, c
  <1>26. SpanTaken(f, b, x, m, F, i, j, s, excess_frm(V(f, b, x, m), s, totsize), g, c, fr, 1, e)
    <2>1. SplitAndTake(excess_frm(V(f, b, x, m), s, totsize), s.last)
          = [v |-> V(g, c, x, m), at |-> F[i], fr |-> fr]
      BY <1>11, <1>24, <1>25
    <2> QED BY <1>13, <1>20, <1>23, <2>1 DEF SpanTaken
  <1> QED BY <1>e, <1>13, <1>26

-----------------------------------------------------------------------------
\* Room for a message, in a span or at the end of the file.

\* The length a message's frame will have.
NewLen(b, at, fr, size) == IF at = b.endframe THEN size ELSE fr.length
NewEnd(b, at, size) == IF at = b.endframe THEN at + FrmSize + size ELSE b.endframe

\* With frames of one length, a free one is taken if there is any.
Reused(f, b, x, F, size, g, at, fr, G) ==
    Alike(f, Spots(x, F), size) =>
        /\ Alike(g, Spots(x, G), size) /\ NewLen(b, at, fr, size) = size
        /\ Len(F) = 0 => at = b.endframe /\ Len(G) = 0
        /\ Len(F) # 0 => at # b.endframe /\ Len(G) = Len(F) - 1

\* What TakeFrame makes of a sound base: room that is in neither chain.
HasRoom(g, c, x, G, at, fr, size) ==
    /\ Sound0(g, c, x, G)
    /\ at \in Nat \ {SQFRAME_NULL} /\ at \notin Spots(x, G) /\ fr \in Frames
    /\ size <= NewLen(c, at, fr, size)
    /\ Tiles(WithFrame(g, at, NewLen(c, at, fr, size)), Spots(x, G) \cup {at}, NewEnd(c, at, size))
IsTaken(f, b, x, m, F, size, recyc, g, c, at, fr, G) ==
    /\ TakeFrame(V(f, b, x, m), size, recyc) = [v |-> V(g, c, x, m), at |-> at, fr |-> fr]
    /\ SameBase(b, c) /\ Untouched(f, g, x) /\ HasRoom(g, c, x, G, at, fr, size)
    /\ Reused(f, b, x, F, size, g, at, fr, G)

LEMMA AlikeSpan ==
    ASSUME NEW f, NEW b, NEW x, NEW F, Sound(f, b, x, F), NEW i, NEW j, NEW s, NEW size \in Nat,
           SpanOf(f, F, i, j, s, size), size <= s.length, Alike(f, Spots(x, F), size)
    PROVE  i = j /\ s.length = size
  <1> DEFINE X == Spots(x, F)
  <1>0. FrmSize \in Nat /\ FrmSize > 0
    BY SizeAssumption
  <1>1. Sound0(f, b, x, F) /\ Tiles(f, X, b.endframe)
    BY DEF Sound
  <1>2. /\ i \in 1..Len(F) /\ j \in i..Len(F) /\ s.at = F[i] /\ s.last = F[j] /\ s.length \in Nat
        /\ s.last < s.at + FrmSize + size
    BY DEF SpanOf, Spans
  <1>3. Len(F) \in Nat /\ \A q, r \in 1..Len(F) : F[q] = F[r] => q = r
    <2>1. F \in Seq(Nat)
      BY <1>1 DEF Sound0, Chain
    <2>2. Len(F) \in Nat
      BY <2>1
    <2> QED BY <1>1, <2>2 DEF Sound0, Chain
  <1>4. j \in 1..Len(F) /\ i \in Nat /\ j \in Nat
    BY <1>2, <1>3
  <1>5. F[i] \in X /\ F[j] \in X
    BY <1>2, <1>4 DEF Spots
  <1>6. F[i] \in Nat /\ F[j] \in Nat /\ f[F[i]].length = size /\ f[F[j]].length = size
    BY <1>1, <1>5, SpotsIn DEF Alike
  <1>7. \A y \in Nat : (s.at <= y /\ y < s.at + FrmSize + s.length) <=> \E q \in i..j : Within(f, F[q], y)
    BY SpanCovers
  <1> HIDE DEF X
  <1>8. F[i] = F[j]
    <2>1. Within(f, F[j], F[j]) /\ j \in i..j
      BY <1>0, <1>2, <1>4, <1>6 DEF Within
    <2>2. s.at <= F[j]
      BY <1>6, <1>7, <2>1
    <2>3. Within(f, F[i], F[j])
      BY <1>2, <1>6, <2>2 DEF Within
    <2> QED BY <1>1, <1>5, <1>6, <2>1, <2>3 DEF Tiles
  <1>9. i = j
    BY <1>2, <1>3, <1>4, <1>8
  <1>10. s.length <= size
    <2>1. PICK y \in Nat : y = s.at + FrmSize + s.length - 1
      BY <1>0, <1>2, <1>6
    <2>2. s.at <= y /\ y < s.at + FrmSize + s.length
      BY <1>0, <1>2, <1>6, <2>1
    <2>3. PICK q \in i..j : Within(f, F[q], y)
      BY <1>7, <2>2
    <2>4. q = i
      BY <1>4, <1>9
    <2>5. y < F[i] + FrmSize + size
      BY <1>6, <2>3, <2>4 DEF Within
    <2> QED BY <1>0, <1>2, <1>6, <2>1, <2>5
  <1> QED BY <1>2, <1>9, <1>10

\* A span that is taken makes room.
LEMMA SpanRoom ==
    ASSUME NEW f, NEW b, NEW x, NEW F, Sound(f, b, x, F), NEW m, NEW i, NEW j, NEW s, NEW size \in Nat,
           SpanOf(f, F, i, j, s, size), size <= s.length,
           NEW recyc, NEW w, NEW g, NEW c, NEW fr, NEW l \in {0, 1}, NEW e \in Nat,
           SpanTaken(f, b, x, m, F, i, j, s, w, g, c, fr, l, e), size <= fr.length,
           TakeFrame(V(f, b, x, m), size, recyc) = SplitAndTake(w, s.last)
    PROVE  \E G : IsTaken(f, b, x, m, F, size, recyc, g, c, F[i], fr, G)
  <1>0. FrmSize \in Nat /\ FrmSize > 0 /\ l \in Int /\ (l # 1 => l = 0)
    BY SizeAssumption
  <1>1. Sound0(f, b, x, F) /\ Tiles(f, Spots(x, F), b.endframe)
    BY DEF Sound
  <1>2. /\ SplitAndTake(w, s.last) = [v |-> V(g, c, x, m), at |-> F[i], fr |-> fr]
        /\ fr \in Frames /\ Replaced(f, g, F, i, j, s, fr.length, l, e) /\ Refreed(b, c, F, i, j, l, e)
    BY DEF SpanTaken
  <1>3. fr.length \in Nat
    BY <1>2, FrameFields
  <1>a. PICK G : /\ SpanGone(f, b, x, g, c, F[i], fr.length, G)
                 /\ l = 0 => G = SpliceOf(F, i, 0, (j - i) + 1, e)
    <2>1. Replaced(f, g, F, i, j, s, fr.length, l, e)
      BY <1>2
    <2>2. Refreed(b, c, F, i, j, l, e)
      BY <1>2
    <2>3. PICK len \in Nat : len = fr.length
      BY <1>3
    <2>4. Replaced(f, g, F, i, j, s, len, l, e)
      BY <2>1, <2>3
    <2>5. SpanLeft(f, b, x, F, i, j, g, c, len, l, e)
      BY <2>2, <2>4, SpanReplaced
    <2> QED BY <2>3, <2>5 DEF SpanLeft
  <1>4. /\ Sound0(g, c, x, G) /\ F[i] \in Nat \ {SQFRAME_NULL} /\ F[i] \notin Spots(x, G)
        /\ Tiles(WithFrame(g, F[i], fr.length), Spots(x, G) \cup {F[i]}, b.endframe)
        /\ Untouched(f, g, x)
    BY <1>a DEF SpanGone
  <1>5. SameBase(b, c) /\ c.endframe = b.endframe
    BY <1>2 DEF Refreed, SameBase
  <1>6. i \in 1..Len(F) /\ j \in i..Len(F) /\ s \in Spans /\ s.at = F[i]
    BY DEF SpanOf
  <1>7. F \in Seq(Nat) /\ \A q \in 1..Len(F) : F[q] \in DOMAIN f
    BY <1>1 DEF Sound0, Chain
  <1>7a. Len(F) \in Nat /\ i \in Nat /\ j \in Nat /\ i <= j
    BY <1>6, <1>7
  <1>8. F[i] # c.endframe
    <2>1. F[i] \in Spots(x, F)
      BY <1>6 DEF Spots
    <2>2. F[i] \in Nat /\ f[F[i]].length \in Nat
      BY <1>1, <2>1, SpotsIn
    <2>3. b.endframe \in Nat /\ F[i] + FrmSize + f[F[i]].length <= b.endframe
      BY <1>1, <2>1 DEF Tiles
    <2> QED BY <1>0, <1>5, <2>2, <2>3
  <1>9. HasRoom(g, c, x, G, F[i], fr, size)
    <2>1. NewLen(c, F[i], fr, size) = fr.length /\ NewEnd(c, F[i], size) = b.endframe
      BY <1>5, <1>8 DEF NewLen, NewEnd
    <2> QED BY <1>2, <1>4, <2>1 DEF HasRoom
  <1>10. ASSUME Alike(f, Spots(x, F), size)
         PROVE  /\ Alike(g, Spots(x, G), size) /\ NewLen(c, F[i], fr, size) = size
                /\ Len(G) = Len(F) - 1
    <2>1. i = j /\ s.length = size
      BY <1>10, AlikeSpan
    <2>2. l = 0 /\ fr.length = size
      <3>1. ASSUME l = 1 PROVE FALSE
        <4>1. /\ e = s.at + FrmSize + fr.length /\ e \in DOMAIN g
              /\ e + FrmSize + g[e].length = s.at + FrmSize + s.length
          BY <1>2, <3>1 DEF Replaced
        <4>2. Table(g)
          BY <1>2 DEF Replaced
        <4>3. g[e] \in Frames
          BY <4>1, <4>2 DEF Table
        <4>4. g[e].length \in Nat
          BY <4>3, FrameFields
        <4>5. s.at \in Nat
          BY <1>4, <1>6
        <4> QED BY <1>0, <1>3, <2>1, <4>1, <4>4, <4>5
      <3>2. l = 0
        BY <1>0, <3>1
      <3> QED BY <1>2, <2>1, <3>2 DEF Replaced
    <2>3. NewLen(c, F[i], fr, size) = size
      BY <1>8, <2>2 DEF NewLen
    <2>4. (j - i) + 1 = 1
      BY <1>7a, <2>1
    <2>5. G = [q \in 1..(Len(F) - 1) |-> IF q < i THEN F[q] ELSE IF q < i + 0 THEN e ELSE F[q + 1]]
      BY <1>a, <2>2, <2>4 DEF SpliceOf
    <2>6. Len(G) = Len(F) - 1
      <3>1. Len(F) - 1 \in Nat
        BY <1>6, <1>7a
      <3> QED BY <2>5, <3>1
    <2>7. ASSUME NEW q \in 1..Len(G) PROVE g[G[q]].length = size
      <3>1. q \in Nat /\ 1 <= q /\ q <= Len(F) - 1
        BY <1>7a, <2>6
      <3>2. G[q] = IF q < i THEN F[q] ELSE F[q + 1]
        <4>1. G[q] = IF q < i THEN F[q] ELSE IF q < i + 0 THEN e ELSE F[q + 1]
          <5> QED BY <1>7a, <2>5, <3>1
        <4>2. q < i + 0 => q < i
          BY <1>7a
        <4> QED BY <4>1, <4>2, Zenon
      <3>3. PICK r \in 1..Len(F) : G[q] = F[r]
        <4>1. q \in 1..Len(F) /\ q + 1 \in 1..Len(F)
          BY <1>7a, <3>1
        <4> QED BY <3>2, <4>1, Zenon
      <3>4. G[q] \in DOMAIN f /\ G[q] \in Spots(x, F)
        BY <1>7, <3>3 DEF Spots
      <3>5. Same(f, g, G[q])
        BY <1>2, <2>2, <3>4 DEF Replaced
      <3> QED BY <1>10, <3>4, <3>5 DEF Same, Alike
    <2>8. ASSUME NEW k \in 1..Len(x) PROVE g[x[k].offset].length = size
      <3>1. x[k].offset \in Spots(x, F)
        BY DEF Spots
      <3>2. g[x[k].offset] = f[x[k].offset]
        BY <1>4 DEF Untouched
      <3> QED BY <1>10, <3>1, <3>2 DEF Alike
    <2> QED BY <2>3, <2>6, <2>7, <2>8 DEF Alike, Spots
  <1>11. Reused(f, b, x, F, size, g, F[i], fr, G)
    <2>1. NewLen(b, F[i], fr, size) = NewLen(c, F[i], fr, size)
      BY <1>5 DEF NewLen
    <2>2. Len(F) # 0 /\ F[i] # b.endframe
      BY <1>5, <1>6, <1>7a, <1>8
    <2> QED BY <1>10, <2>1, <2>2 DEF Reused
  <1> QED BY <1>2, <1>4, <1>5, <1>9, <1>11 DEF IsTaken

\* No free frame has room.
LEMMA EndRoom ==
    ASSUME NEW f, NEW b, NEW x, NEW F, Sound(f, b, x, F), NEW m, NEW size \in Nat, NEW recyc,
           \A q \in 1..Len(F) : f[F[q]].length < size,
           TakeFrame(V(f, b, x, m), size, recyc) = [v |-> V(f, b, x, m), at |-> b.endframe, fr |-> init_frm]
    PROVE  IsTaken(f, b, x, m, F, size, recyc, f, b, b.endframe, init_frm, F)
  <1> DEFINE X == Spots(x, F)
             at == b.endframe
             h == WithFrame(f, at, size)
  <1>0. FrmSize \in Nat /\ FrmSize > 0 /\ BaseSize \in Nat /\ BaseSize > 0
    BY SizeAssumption
  <1>1. Sound0(f, b, x, F) /\ Tiles(f, X, at) /\ Table(f) /\ b \in Bases
    BY DEF Sound, Sound0
  <1>2. \A o \in X : o \in DOMAIN f /\ o \in Nat /\ f[o].length \in Nat
    BY <1>1, SpotsIn
  <1>3. at \in Nat \ {SQFRAME_NULL}
    BY <1>0, <1>1 DEF Tiles, SQFRAME_NULL
  <1>4. at \notin X
    <2>1. \A o \in X : o + FrmSize + f[o].length <= at
      BY <1>1 DEF Tiles
    <2>2. ASSUME at \in X PROVE FALSE
      BY <1>0, <1>2, <1>3, <2>1, <2>2
    <2> QED BY <2>2
  <1> HIDE DEF X
  <1>5. h[at].length = size /\ \A o \in X : h[o].length = f[o].length
    <2>1. /\ h[at].length = size
          /\ \A o \in DOMAIN f : o # at => h[o] = f[o]
      BY <1>1, <1>3, WithFrameIs
    <2> HIDE DEF h
    <2> QED BY <1>2, <1>4, <2>1
  <1> HIDE DEF h
  <1>6. Tiles(h, X \cup {at}, at + FrmSize + size)
    <2> HIDE DEF at
    <2>1. X \subseteq Nat /\ at \in Nat
      BY <1>2, <1>3
    <2> QED BY <1>1, <1>2, <1>5, <2>1, TilesGrown
  <1>7. init_frm \in Frames
    BY DEF init_frm, Frames, NoMsg, Messages, SQFRAME_NULL
  <1>8. HasRoom(f, b, x, F, at, init_frm, size)
    <2>1. NewLen(b, at, init_frm, size) = size /\ NewEnd(b, at, size) = at + FrmSize + size
      BY DEF NewLen, NewEnd
    <2> QED BY <1>1, <1>3, <1>4, <1>6, <1>7, <2>1 DEF HasRoom, X, h
  <1>9. Reused(f, b, x, F, size, f, at, init_frm, F)
    <2>1. NewLen(b, at, init_frm, size) = size
      BY DEF NewLen
    <2>2. F \in Seq(Nat)
      BY <1>1 DEF Sound0, Chain
    <2>2a. Len(F) \in Nat
      BY <2>2
    <2>3. ASSUME Alike(f, X, size) PROVE Len(F) = 0
      <3>1. ASSUME Len(F) # 0 PROVE FALSE
        <4>1. 1 \in 1..Len(F)
          BY <2>2a, <3>1
        <4>2. F[1] \in X
          BY <4>1 DEF X, Spots
        <4>3. f[F[1]].length = size /\ f[F[1]].length < size
          BY <2>3, <4>1, <4>2 DEF Alike
        <4> QED BY <4>3
      <3> QED BY <3>1
    <2> QED BY <2>1, <2>3 DEF Reused, X
  <1>10. SameBase(b, b) /\ Untouched(f, f, x)
    BY <1>1 DEF SameBase, Untouched
  <1> QED BY <1>8, <1>9, <1>10 DEF IsTaken

\* A frame is always found for a message, in neither chain, and with room.
LEMMA TakeSound ==
    ASSUME NEW f, NEW b, NEW x, NEW F, Sound(f, b, x, F), NEW m, NEW size \in Nat, NEW recyc
    PROVE  \E g, c, at, fr, G : IsTaken(f, b, x, m, F, size, recyc, g, c, at, fr, G)
  <1> DEFINE v == V(f, b, x, m)
             merging == recyc \in {SQUISHRECYCLE_YES, SQUISHRECYCLE_MSGAPI1}
             s == FindSpan(f, b.firstfreeframe, size, merging)
  <1>1. Table(f) /\ Chain(f, F, b.firstfreeframe, b.lastfreeframe)
    BY DEF Sound, Sound0
  <1>2. TakeFrame(v, size, recyc) = TakeFound(v, s, size, recyc)
    BY DEF TakeFrame, V
  <1>3. Found(f, F, size, s)
    BY <1>1, FindSpanGood
  <1> HIDE DEF s, merging
  <1>4. CASE s = NoSpan /\ \A q \in 1..Len(F) : f[F[q]].length < size
    <2>1. s.at = SQFRAME_NULL
      BY <1>4 DEF NoSpan
    <2>2. v.base = b
      BY DEF V
    <2>3. TakeFrame(v, size, recyc) = [v |-> v, at |-> b.endframe, fr |-> init_frm]
      BY <1>2, <2>1, <2>2 DEF TakeFound
    <2>4. IsTaken(f, b, x, m, F, size, recyc, f, b, b.endframe, init_frm, F)
      BY <1>4, <2>3, EndRoom
    <2> QED BY <2>4
  <1>5. CASE \E i, j : SpanOf(f, F, i, j, s, size) /\ size <= s.length
    <2>1. PICK i, j : SpanOf(f, F, i, j, s, size) /\ size <= s.length
      BY <1>5
    <2>2. s.at # SQFRAME_NULL /\ s \in Spans
      <3>1. s.at = F[i] /\ i \in 1..Len(F) /\ s \in Spans
        BY <2>1 DEF SpanOf
      <3> QED BY <1>1, <3>1, ChainAt
    <2> DEFINE w == IF recyc = SQUISHRECYCLE_YES THEN excess_frm(v, s, size) ELSE [v |-> v, s |-> s]
    <2>3. TakeFrame(v, size, recyc) = SplitAndTake(w, s.last)
      BY <1>2, <2>2 DEF TakeFound
    <2>4. CASE recyc = SQUISHRECYCLE_YES /\ ~(s.length - size < FrmSize)
      <3>1. w = excess_frm(v, s, size)
        BY <2>4
      <3> HIDE DEF w
      <3>2. PICK g, c, fr : \E e \in Nat :
                /\ SpanTaken(f, b, x, m, F, i, j, s, excess_frm(V(f, b, x, m), s, size), g, c, fr, 1, e)
                /\ fr.length = size
        BY <2>1, <2>4, TakeSplit
      <3>3. PICK e \in Nat :
                /\ SpanTaken(f, b, x, m, F, i, j, s, excess_frm(V(f, b, x, m), s, size), g, c, fr, 1, e)
                /\ fr.length = size
        BY <3>2
      <3>4. SpanTaken(f, b, x, m, F, i, j, s, w, g, c, fr, 1, e)
        BY <3>1, <3>3
      <3>5. size <= fr.length /\ 1 \in {0, 1}
        BY <3>3
      <3>6. PICK G : IsTaken(f, b, x, m, F, size, recyc, g, c, F[i], fr, G)
        BY <2>1, <2>3, <3>4, <3>5, SpanRoom
      <3> QED BY <3>6
    <2>5. CASE ~(recyc = SQUISHRECYCLE_YES /\ ~(s.length - size < FrmSize))
      <3>1. w = [v |-> v, s |-> s]
        <4>1. s.length - size < FrmSize => excess_frm(v, s, size) = [v |-> v, s |-> s]
          BY DEF excess_frm
        <4> QED BY <2>5, <4>1
      <3> HIDE DEF w
      <3>2. PICK g, c, fr :
                /\ SpanTaken(f, b, x, m, F, i, j, s, [v |-> V(f, b, x, m), s |-> s], g, c, fr, 0, 0)
                /\ fr.length = s.length
        BY <2>1, TakeWhole
      <3>4. SpanTaken(f, b, x, m, F, i, j, s, w, g, c, fr, 0, 0)
        BY <3>1, <3>2
      <3>5. size <= fr.length /\ 0 \in {0, 1} /\ 0 \in Nat
        BY <2>1, <3>2
      <3>6. PICK G : IsTaken(f, b, x, m, F, size, recyc, g, c, F[i], fr, G)
        BY <2>1, <2>3, <3>4, <3>5, SpanRoom
      <3> QED BY <3>6
    <2> QED BY <2>4, <2>5
  <1> QED BY <1>3, <1>4, <1>5 DEF Found

-----------------------------------------------------------------------------
\* A message is put into the room taken for it.

\* The frame of a message that is written.
PutFrame(b, at, fr, size, msg, prev, next) ==
    [FrameFor(b, at, fr, size, msg) EXCEPT !.prev = prev, !.next = next]

LEMMA PutFrameIs ==
    ASSUME NEW b \in Bases, NEW at, NEW fr \in Frames, NEW size \in Nat, NEW msg \in Messages,
           NEW prev \in Nat, NEW next \in Nat
    PROVE  LET r == PutFrame(b, at, fr, size, msg, prev, next)
           IN  /\ r \in Frames /\ r.type = "normal" /\ r.next = next /\ r.prev = prev
               /\ r.length = NewLen(b, at, fr, size) /\ r.totsize = size
               /\ r.hdr = msg /\ r.txt = msg
  <1> DEFINE len == NewLen(b, at, fr, size)
  <1>1. PICK r : r = PutFrame(b, at, fr, size, msg, prev, next)
    OBVIOUS
  <1>2. DOMAIN fr = {"type", "next", "prev", "length", "totsize", "hdr", "txt"}
    BY DEF Frames
  <1>3. PICK q : q = FrameFor(b, at, fr, size, msg)
    OBVIOUS
  <1>4. q = [fr EXCEPT !.length = len, !.totsize = size, !.type = "normal", !.hdr = msg, !.txt = msg]
    <2>1. (IF at = b.endframe THEN size ELSE fr.length) = len
      BY DEF NewLen
    <2> HIDE DEF len
    <2> QED BY <1>3, <2>1 DEF FrameFor
  <1> HIDE DEF len
  <1>5. /\ DOMAIN q = DOMAIN fr /\ q = [k \in DOMAIN fr |-> q[k]]
        /\ q.type = "normal" /\ q.length = len /\ q.totsize = size /\ q.hdr = msg /\ q.txt = msg
    BY <1>2, <1>4
  <1>6. r = [[q EXCEPT !.prev = prev] EXCEPT !.next = next]
    BY <1>1, <1>3 DEF PutFrame
  <1>7. /\ DOMAIN r = DOMAIN fr /\ r = [k \in DOMAIN fr |-> r[k]]
        /\ r.type = "normal" /\ r.length = len /\ r.totsize = size /\ r.hdr = msg /\ r.txt = msg
        /\ r.prev = prev /\ r.next = next
    BY <1>2, <1>5, <1>6
  <1>8. len \in Nat
    BY FrameFields DEF len, NewLen
  <1>9. r \in Frames
    <2>1. r = [type |-> "normal", next |-> next, prev |-> prev, length |-> len,
               totsize |-> size, hdr |-> msg, txt |-> msg]
      BY <1>2, <1>7
    <2> QED BY <1>8, <2>1 DEF Frames
  <1> QED BY <1>1, <1>7, <1>9 DEF len

\* A message is written into the room for it, and hits no other frame.
Put(f, h, X, at, fr, end, g) ==
    /\ g = WriteMessage(h, at, fr)
    /\ Table(g) /\ at \in DOMAIN g /\ g[at] = fr
    /\ \A o \in X : o \in DOMAIN g /\ g[o] = h[o]
    /\ Tiles(g, X \cup {at}, end)

LEMMA MessagePut ==
    ASSUME NEW f, Table(f), NEW X, X \subseteq DOMAIN f, NEW at \in Nat \ {SQFRAME_NULL}, at \notin X,
           NEW fr \in Frames, fr.totsize <= fr.length, NEW end,
           Tiles(WithFrame(f, at, fr.length), X \cup {at}, end),
           NEW h, Table(h), \A o \in X : o \in DOMAIN h /\ h[o].length = f[o].length
    PROVE  Put(f, h, X, at, fr, end, WriteMessage(h, at, fr))
  <1> DEFINE e == WithFrame(f, at, fr.length)
             g == WriteMessage(h, at, fr)
  <1>1. fr.length \in Nat /\ fr.totsize \in Nat
    BY FrameFields
  <1>2. e[at].length = fr.length /\ \A o \in DOMAIN f : o # at => e[o] = f[o]
    BY <1>1, WithFrameIs
  <1> HIDE DEF e
  <1>3. \A o \in X : o \in Nat /\ f[o].length \in Nat /\ e[o].length = f[o].length
    <2>1. ASSUME NEW o \in X PROVE o \in Nat /\ f[o].length \in Nat /\ e[o].length = f[o].length
      <3>1. o \in DOMAIN f /\ o # at
        OBVIOUS
      <3>2. o \in Nat /\ f[o] \in Frames
        BY <3>1 DEF Table
      <3>3. f[o].length \in Nat
        BY <3>2, FrameFields
      <3> QED BY <1>2, <3>1, <3>2, <3>3
    <2> QED BY <2>1
  <1>4. ASSUME NEW o \in X PROVE ~(at <= o /\ o < at + FrmSize + fr.totsize)
    <2>1. X \cup {at} \subseteq Nat
      BY <1>3
    <2>2. \A u \in X \cup {at} : e[u].length \in Nat
      BY <1>1, <1>2, <1>3
    <2>3. fr.totsize <= e[at].length /\ at # o
      BY <1>2
    <2>4. Tiles(e, X \cup {at}, end)
      BY DEF e
    <2>5. PICK Y : Y = X \cup {at}
      OBVIOUS
    <2>6. at \in Y /\ o \in Y /\ Y \subseteq Nat /\ Tiles(e, Y, end) /\ \A u \in Y : e[u].length \in Nat
      BY <2>1, <2>2, <2>4, <2>5
    <2> QED BY <1>1, <2>3, <2>6, Apart
  <1>5. /\ Table(g) /\ at \in DOMAIN g /\ g[at] = fr
        /\ \A o \in DOMAIN h : o # at /\ ~(at <= o /\ o < at + FrmSize + fr.totsize) =>
                      o \in DOMAIN g /\ g[o] = h[o]
    BY MessageWritten
  <1> HIDE DEF g
  <1>6. \A o \in X : o \in DOMAIN g /\ g[o] = h[o]
    BY <1>4, <1>5
  <1>7. Tiles(g, X \cup {at}, end)
    <2>1. \A o \in X \cup {at} : g[o].length = e[o].length
      BY <1>2, <1>3, <1>5, <1>6
    <2>2. Tiles(e, X \cup {at}, end)
      BY DEF e
    <2> QED BY <2>1, <2>2, TilesSame
  <1> QED BY <1>5, <1>6, <1>7 DEF Put, g

-----------------------------------------------------------------------------
\* A new message (save_message).

\* The base record with the new message counted.
AddedBase(b, at, size) ==
    [Lengthen(b, at, size) EXCEPT !.firstframe = IF @ = SQFRAME_NULL THEN at ELSE @,
                                  !.lastframe  = at,
                                  !.highestmsg = @ + 1,
                                  !.totalmsgs  = @ + 1,
                                  !.nextmsgno  = @ + 1]

LEMMA LengthenIs ==
    ASSUME NEW b \in Bases, NEW at \in Nat, NEW size \in Nat
    PROVE  Lengthen(b, at, size)
           = [totalmsgs |-> b.totalmsgs, highestmsg |-> b.highestmsg, protmsgs |-> b.protmsgs,
              nextmsgno |-> b.nextmsgno, firstframe |-> b.firstframe, lastframe |-> b.lastframe,
              firstfreeframe |-> b.firstfreeframe, lastfreeframe |-> b.lastfreeframe,
              endframe |-> NewEnd(b, at, size), maxmsgs |-> b.maxmsgs]
  <1>1. PICK e : e = NewEnd(b, at, size)
    OBVIOUS
  <1>2. (IF at = b.endframe THEN b.endframe + FrmSize + size ELSE b.endframe) = e
    BY <1>1 DEF NewEnd
  <1>3. Lengthen(b, at, size) = [b EXCEPT !.endframe = e]
    BY <1>2 DEF Lengthen
  <1>4. [b EXCEPT !.endframe = e]
        = [totalmsgs |-> b.totalmsgs, highestmsg |-> b.highestmsg, protmsgs |-> b.protmsgs,
              nextmsgno |-> b.nextmsgno, firstframe |-> b.firstframe, lastframe |-> b.lastframe,
              firstfreeframe |-> b.firstfreeframe, lastfreeframe |-> b.lastfreeframe,
              endframe |-> e, maxmsgs |-> b.maxmsgs]
    BY BaseFields
  <1> QED BY <1>1, <1>3, <1>4

LEMMA NewEndIn ==
    ASSUME NEW b \in Bases, NEW at \in Nat, NEW size \in Nat PROVE NewEnd(b, at, size) \in Nat
  <1>1. FrmSize \in Nat /\ b.endframe \in Nat
    BY SizeAssumption, BaseFields
  <1>2. at + FrmSize + size \in Nat
    BY <1>1
  <1> QED BY <1>1, <1>2 DEF NewEnd

LEMMA AddedBaseIs ==
    ASSUME NEW b \in Bases, NEW at \in Nat, NEW size \in Nat
    PROVE  LET c == AddedBase(b, at, size)
           IN  /\ c \in Bases /\ SameLimits(b, c)
               /\ c.firstframe = (IF b.firstframe = SQFRAME_NULL THEN at ELSE b.firstframe)
               /\ c.lastframe = at /\ c.highestmsg = b.highestmsg + 1 /\ c.totalmsgs = b.totalmsgs + 1
               /\ c.nextmsgno = b.nextmsgno + 1 /\ c.endframe = NewEnd(b, at, size)
               /\ c.firstfreeframe = b.firstfreeframe /\ c.lastfreeframe = b.lastfreeframe
  <1>1. PICK end : end = NewEnd(b, at, size)
    OBVIOUS
  <1>2. PICK d : d = Lengthen(b, at, size)
    OBVIOUS
  <1>3. d = [totalmsgs |-> b.totalmsgs, highestmsg |-> b.highestmsg, protmsgs |-> b.protmsgs,
              nextmsgno |-> b.nextmsgno, firstframe |-> b.firstframe, lastframe |-> b.lastframe,
              firstfreeframe |-> b.firstfreeframe, lastfreeframe |-> b.lastfreeframe,
              endframe |-> end, maxmsgs |-> b.maxmsgs]
    BY <1>1, <1>2, LengthenIs
  <1>4. PICK ff : ff = IF b.firstframe = SQFRAME_NULL THEN at ELSE b.firstframe
    OBVIOUS
  <1>5. PICK hi \in Nat, tot \in Nat, nx \in Nat :
            hi = b.highestmsg + 1 /\ tot = b.totalmsgs + 1 /\ nx = b.nextmsgno + 1
    BY BaseFields
  <1>6. AddedBase(b, at, size)
        = [d EXCEPT !.firstframe = ff, !.lastframe = at, !.highestmsg = hi, !.totalmsgs = tot,
                    !.nextmsgno = nx]
    BY <1>2, <1>3, <1>4, <1>5 DEF AddedBase
  <1>7. [d EXCEPT !.firstframe = ff, !.lastframe = at, !.highestmsg = hi, !.totalmsgs = tot,
                    !.nextmsgno = nx]
        = [totalmsgs |-> tot, highestmsg |-> hi, protmsgs |-> b.protmsgs,
              nextmsgno |-> nx, firstframe |-> ff, lastframe |-> at,
              firstfreeframe |-> b.firstfreeframe, lastfreeframe |-> b.lastfreeframe,
              endframe |-> end, maxmsgs |-> b.maxmsgs]
    <2>1. PICK r : r = [d EXCEPT !.firstframe = ff, !.lastframe = at, !.highestmsg = hi, !.totalmsgs = tot,
                    !.nextmsgno = nx]
      OBVIOUS
    <2>2. DOMAIN d = {"totalmsgs", "highestmsg", "protmsgs", "nextmsgno", "firstframe", "lastframe",
                      "firstfreeframe", "lastfreeframe", "endframe", "maxmsgs"}
      BY <1>3
    <2>3. /\ DOMAIN r = DOMAIN d /\ r = [k \in DOMAIN d |-> r[k]]
          /\ r.firstframe = ff /\ r.lastframe = at /\ r.highestmsg = hi /\ r.totalmsgs = tot
          /\ r.nextmsgno = nx /\ r.protmsgs = d.protmsgs /\ r.firstfreeframe = d.firstfreeframe
          /\ r.lastfreeframe = d.lastfreeframe /\ r.endframe = d.endframe /\ r.maxmsgs = d.maxmsgs
      BY <2>1, <2>2
    <2> QED BY <1>3, <2>1, <2>2, <2>3
  <1>8. ff \in Nat /\ end \in Nat
    BY <1>1, <1>4, BaseFields, NewEndIn
  <1>9. PICK c : c = AddedBase(b, at, size)
    OBVIOUS
  <1>10. c = [totalmsgs |-> tot, highestmsg |-> hi, protmsgs |-> b.protmsgs,
              nextmsgno |-> nx, firstframe |-> ff, lastframe |-> at,
              firstfreeframe |-> b.firstfreeframe, lastfreeframe |-> b.lastfreeframe,
              endframe |-> end, maxmsgs |-> b.maxmsgs]
    BY <1>6, <1>7, <1>9
  <1>11. c \in Bases
    BY <1>8, <1>10, BaseFields DEF Bases
  <1> QED BY <1>1, <1>4, <1>5, <1>9, <1>10, <1>11 DEF SameLimits

Entry(at, msgno) == [offset |-> at, msgno |-> msgno]

LEMMA AppendEntry ==
    ASSUME NEW x \in Seq(Entries), NEW at \in Nat, NEW msgno \in Nat
    PROVE  LET y == Append(x, Entry(at, msgno))
               n == Len(x)
           IN  /\ y \in Seq(Entries) /\ Len(y) = n + 1
               /\ y[n + 1] = Entry(at, msgno) /\ \A i \in 1..n : y[i] = x[i]
               /\ Spliced(Offs(x), Offs(y), n + 1, 1, -1, at)
               /\ Numbers(y) = Append(Numbers(x), msgno)
  <1> DEFINE y == Append(x, Entry(at, msgno))
             n == Len(x)
  <1>0. Entry(at, msgno) \in Entries /\ Entry(at, msgno).offset = at /\ Entry(at, msgno).msgno = msgno
    BY DEF Entry, Entries
  <1>1. /\ y \in Seq(Entries) /\ Len(y) = n + 1 /\ n \in Nat
        /\ y[n + 1] = Entry(at, msgno) /\ \A i \in 1..n : y[i] = x[i]
    BY <1>0
  <1> HIDE DEF y, n
  <1>2. /\ Len(Offs(x)) = n /\ Len(Offs(y)) = n + 1 /\ Offs(x) \in Seq(Nat) /\ Offs(y) \in Seq(Nat)
        /\ \A q \in 1..n : Offs(x)[q] = x[q].offset
        /\ \A q \in 1..(n + 1) : Offs(y)[q] = y[q].offset
    <2>1. Len(Offs(x)) = n /\ Offs(x) \in Seq(Nat)
      BY OffsLen DEF n
    <2>2. Len(Offs(y)) = n + 1 /\ Offs(y) \in Seq(Nat)
      BY <1>1, OffsLen
    <2> QED BY <1>1, <2>1, <2>2 DEF Offs, n
  <1>3. Spliced(Offs(x), Offs(y), n + 1, 1, -1, at)
    <2>1. ASSUME NEW q \in 1..(n + 1)
          PROVE  Offs(y)[q] = IF q < n + 1 THEN Offs(x)[q] ELSE IF q < n + 1 + 1 THEN at ELSE Offs(x)[q + (-1)]
      <3>1. CASE q \in 1..n
        <4>1. Offs(y)[q] = Offs(x)[q]
          BY <1>1, <1>2, <3>1
        <4>2. q < n + 1
          BY <1>1, <3>1
        <4> QED BY <4>1, <4>2, Zenon
      <3>2. CASE q = n + 1
        <4>1. Offs(y)[q] = at
          BY <1>0, <1>1, <1>2, <3>2
        <4>2. ~(q < n + 1) /\ q < n + 1 + 1
          BY <1>1, <3>2
        <4> QED BY <4>1, <4>2, Zenon
      <3> QED BY <1>1, <3>1, <3>2
    <2> QED BY <1>1, <1>2, <2>1 DEF Spliced
  <1>4. Numbers(y) = Append(Numbers(x), msgno)
    <2>1. DOMAIN x = 1..n /\ DOMAIN y = 1..(n + 1)
      BY <1>1 DEF n
    <2>2. Numbers(x) = [i \in 1..n |-> x[i].msgno] /\ Numbers(y) = [i \in 1..(n + 1) |-> y[i].msgno]
      BY <2>1 DEF Numbers
    <2>3. \A i \in 1..n : x[i].msgno \in Nat
      <3>1. \A i \in 1..n : x[i] \in Entries
        BY DEF n
      <3> QED BY <3>1 DEF Entries
    <2>4. PICK z : z = Numbers(x)
      OBVIOUS
    <2>5. z \in Seq(Nat) /\ Len(z) = n
      BY <1>1, <2>2, <2>3, <2>4
    <2>6. Append(z, msgno) = [i \in 1..(n + 1) |-> IF i = n + 1 THEN msgno ELSE z[i]]
      <3>1. /\ Append(z, msgno) \in Seq(Nat) /\ Len(Append(z, msgno)) = n + 1
            /\ \A i \in 1..(n + 1) : Append(z, msgno)[i] = IF i = n + 1 THEN msgno ELSE z[i]
        BY <1>1, <2>5
      <3>2. PICK t \in Seq(Nat) : t = Append(z, msgno)
        BY <3>1
      <3>3. t = [i \in 1..(n + 1) |-> t[i]]
        <4>1. DOMAIN t = 1..Len(t) /\ t = [i \in DOMAIN t |-> t[i]]
          OBVIOUS
        <4>2. Len(t) = n + 1
          BY <3>1, <3>2
        <4> QED BY <4>1, <4>2, Zenon
      <3> QED BY <3>1, <3>2, <3>3, Zenon
    <2>7. \A i \in 1..(n + 1) : y[i].msgno = IF i = n + 1 THEN msgno ELSE z[i]
      <3>1. ASSUME NEW i \in 1..(n + 1), i # n + 1 PROVE y[i].msgno = z[i]
        <4>1. i \in 1..n
          BY <1>1, <3>1
        <4> QED BY <1>1, <2>2, <2>4, <4>1
      <3>2. y[n + 1].msgno = msgno
        BY <1>0, <1>1
      <3> QED BY <3>1, <3>2
    <2> QED BY <2>2, <2>4, <2>6, <2>7
  <1> QED BY <1>1, <1>3, <1>4 DEF y, n

\* What SaveNew makes of a base with room.
Added(f, b, x, F, at, fr, size, msg, g, c) ==
    LET y == Append(x, Entry(at, msg.msgno))
    IN  /\ SaveNew(V(f, b, x, Numbers(x)), at, fr, msg, size) = V(g, c, y, Numbers(y))
        /\ Sound(g, c, y, F)
        /\ SameLimits(b, c) /\ c.totalmsgs = b.totalmsgs + 1 /\ c.nextmsgno = b.nextmsgno + 1
        /\ c.endframe = NewEnd(b, at, size)
        /\ \A o \in Spots(x, F) : g[o].length = f[o].length /\ g[o].txt = f[o].txt
        /\ g[at].length = NewLen(b, at, fr, size) /\ g[at].txt = msg
        /\ Spots(y, F) = Spots(x, F) \cup {at}

LEMMA AddSound ==
    ASSUME NEW f, NEW b, NEW x, NEW F, NEW at, NEW fr, NEW size \in Nat,
           HasRoom(f, b, x, F, at, fr, size), NEW msg \in Messages,
           msg.msgno = b.nextmsgno, b.nextmsgno > 0
    PROVE  \E g, c : Added(f, b, x, F, at, fr, size, msg, g, c)
  <1> DEFINE n == Len(x)
             y == Append(x, Entry(at, msg.msgno))
             S == Offs(x)
             T == Offs(y)
             X == Spots(x, F)
             last == b.lastframe
             len == NewLen(b, at, fr, size)
             end == NewEnd(b, at, size)
             h == upd_frm_next(f, last, at)
             new == PutFrame(b, at, fr, size, msg, last, SQFRAME_NULL)
             g == WriteMessage(h, at, new)
             c == AddedBase(b, at, size)
  <1>0. /\ Sound0(f, b, x, F)
        /\ at \in Nat \ {SQFRAME_NULL} /\ at \notin X /\ fr \in Frames /\ size <= len
        /\ Tiles(WithFrame(f, at, len), X \cup {at}, end)
    BY DEF HasRoom
  <1>1. /\ Table(f) /\ b \in Bases /\ x \in Seq(Entries) /\ Numbered(b, x) /\ Limits(b)
        /\ Chain(f, S, b.firstframe, last)
        /\ Chain(f, F, b.firstfreeframe, b.lastfreeframe)
        /\ \A i \in 1..Len(x), j \in 1..Len(F) : x[i].offset # F[j]
        /\ \A j \in 1..Len(F) : f[F[j]].type = "free"
        /\ \A i \in 1..Len(x) : Holds(f[x[i].offset], x[i].msgno)
    BY <1>0 DEF Sound0
  <1>2. msg.msgno \in Nat
    BY DEF Messages
  <1>3. /\ y \in Seq(Entries) /\ Len(y) = n + 1
        /\ y[n + 1] = Entry(at, msg.msgno) /\ \A i \in 1..n : y[i] = x[i]
        /\ Spliced(S, T, n + 1, 1, -1, at)
        /\ Numbers(y) = Append(Numbers(x), msg.msgno)
    BY <1>0, <1>1, <1>2, AppendEntry
  <1>e. Entry(at, msg.msgno).offset = at /\ Entry(at, msg.msgno).msgno = msg.msgno
    BY DEF Entry
  <1> HIDE DEF y
  <1>n. n \in Nat /\ Len(S) = n /\ S \in Seq(Nat)
    BY <1>1, OffsLen
  <1>4. last = Pos(S, n) /\ b.firstframe = Pos(S, 1)
    BY <1>1, <1>n DEF Chain
  <1>5. last \in Nat /\ (last = SQFRAME_NULL \/ last \in DOMAIN f) /\ (last = SQFRAME_NULL <=> n = 0)
    <2>1. n \in Int /\ (n \notin 1..n <=> n = 0)
      BY <1>n
    <2> HIDE DEF last, S, n
    <2> QED BY <1>1, <1>4, <1>n, <2>1, PosIn
  <1>5a. b.firstframe = SQFRAME_NULL <=> n = 0
    <2>1. 1 \in Int /\ (1 \notin 1..n <=> n = 0)
      BY <1>n
    <2>2. Pos(S, 1) = SQFRAME_NULL <=> 1 \notin 1..Len(S)
      <3> HIDE DEF S
      <3> QED BY <1>1, <2>1, PosIn
    <2> QED BY <1>4, <1>n, <2>1, <2>2
  <1>6. /\ new \in Frames /\ new.type = "normal" /\ new.next = SQFRAME_NULL /\ new.prev = last
        /\ new.length = len /\ new.totsize = size /\ new.hdr = msg /\ new.txt = msg
    <2>1. last \in Nat /\ SQFRAME_NULL \in Nat
      BY <1>5 DEF SQFRAME_NULL
    <2> HIDE DEF last, len
    <2> QED BY <1>0, <1>1, <2>1, PutFrameIs DEF len
  <1> HIDE DEF new, len, last
  <1>7. /\ Table(h) /\ DOMAIN h = DOMAIN f
        /\ \A o \in DOMAIN f : /\ Same(f, h, o) /\ h[o].next = (IF o = last THEN at ELSE f[o].next)
                               /\ h[o].prev = f[o].prev
    <2>1. at \in Nat /\ Table(f) /\ (last = SQFRAME_NULL \/ last \in DOMAIN f)
      BY <1>0, <1>1, <1>5
    <2> QED BY <2>1, NextSet DEF Links
  <1> HIDE DEF h
  <1>8. \A o \in X : o \in DOMAIN f /\ o \in Nat /\ f[o] \in Frames /\ f[o].length \in Nat
    BY <1>0, SpotsIn
  <1>9. \A i \in 1..n : x[i].offset \in X /\ S[i] = x[i].offset
    BY DEF Spots, Offs
  <1>9a. \A j \in 1..Len(F) : F[j] \in X
    BY DEF Spots
  <1> HIDE DEF X, S, T
  <1>10. Put(f, h, X, at, new, end, g)
    <2>1. X \subseteq DOMAIN f
      BY <1>8
    <2>2. \A o \in X : o \in DOMAIN h /\ h[o].length = f[o].length
      BY <1>7, <1>8 DEF Same
    <2> HIDE DEF end
    <2> QED BY <1>0, <1>1, <1>6, <1>7, <2>1, <2>2, MessagePut
  <1>11. /\ Table(g) /\ at \in DOMAIN g /\ g[at] = new
         /\ \A o \in X : o \in DOMAIN g /\ g[o] = h[o]
         /\ Tiles(g, X \cup {at}, end)
    BY <1>10 DEF Put
  <1> HIDE DEF g
  <1>12. Relinked(f, g, S, n + 1, 1, -1, at)
    <2>1. ASSUME NEW q \in 1..n
          PROVE  /\ S[q] \in DOMAIN g /\ S[q] # at
                 /\ g[S[q]].next = (IF q = n THEN at ELSE f[S[q]].next)
                 /\ g[S[q]].prev = f[S[q]].prev
      <3>1. S[q] \in DOMAIN f /\ S[q] # at /\ S[q] \in DOMAIN g /\ g[S[q]] = h[S[q]]
        BY <1>0, <1>8, <1>9, <1>11
      <3>2. S[q] = last <=> q = n
        <4>1. q \in 1..Len(S) /\ n \in Int
          BY <1>n
        <4> QED BY <1>1, <1>4, <4>1, PosOnce
      <3> QED BY <1>7, <3>1, <3>2
    <2>2. at \in DOMAIN g /\ g[at].prev = Pos(S, n) /\ g[at].next = Pos(S, n + 1)
      <3>1. Pos(S, n + 1) = SQFRAME_NULL
        BY <1>n DEF Pos
      <3> QED BY <1>4, <1>6, <1>11, <3>1
    <2>3. \A q \in 1..n : q = (n + 1) - 1 <=> q = n
      BY <1>n
    <2>4. \A q \in 1..n : ~(q = (n + 1) + 1 + (-1))
      BY <1>n
    <2>5. (n + 1) - 1 = n /\ (n + 1) + 1 + (-1) = n + 1
      BY <1>n
    <2>6. \A q \in 1..Len(S) : q < n + 1 \/ q >= (n + 1) + 1 + (-1) =>
          /\ S[q] \in DOMAIN g /\ (1 = 1 => S[q] # at)
          /\ g[S[q]].next = IF q = (n + 1) - 1 THEN (IF 1 = 1 THEN at ELSE Pos(S, n + 1 + (-1))) ELSE f[S[q]].next
          /\ g[S[q]].prev = IF q = (n + 1) + 1 + (-1) THEN (IF 1 = 1 THEN at ELSE Pos(S, (n + 1) - 1)) ELSE f[S[q]].prev
      BY <1>n, <2>1, <2>3, <2>4
    <2>7. 1 = 1 => /\ at \in DOMAIN g
                   /\ g[at].prev = Pos(S, (n + 1) - 1) /\ g[at].next = Pos(S, (n + 1) + 1 + (-1))
      BY <2>2, <2>5
    <2> HIDE DEF n
    <2> QED BY <2>6, <2>7, Zenon DEF Relinked
  <1>13. /\ c \in Bases /\ SameLimits(b, c)
         /\ c.firstframe = (IF b.firstframe = SQFRAME_NULL THEN at ELSE b.firstframe)
         /\ c.lastframe = at /\ c.highestmsg = b.highestmsg + 1 /\ c.totalmsgs = b.totalmsgs + 1
         /\ c.nextmsgno = b.nextmsgno + 1 /\ c.endframe = end
         /\ c.firstfreeframe = b.firstfreeframe /\ c.lastfreeframe = b.lastfreeframe
    BY <1>0, <1>1, AddedBaseIs
  <1> HIDE DEF c, end
  <1>14. Chain(g, T, c.firstframe, c.lastframe)
    <2>1. Chain(g, T, IF n + 1 = 1 THEN at ELSE b.firstframe,
                      IF (n + 1) + 1 + (-1) = n + 1 THEN at ELSE last)
      <3> HIDE DEF n
      <3> QED BY <1>1, <1>3, <1>12, <1>n, SpliceChain
    <2>2. (n + 1 = 1 <=> n = 0) /\ (n + 1) + 1 + (-1) = n + 1
      BY <1>n
    <2> QED BY <1>5a, <1>13, <2>1, <2>2
  <1>15. Chain(g, F, c.firstfreeframe, c.lastfreeframe)
    <2>1. ASSUME NEW j \in 1..Len(F)
          PROVE  F[j] \in DOMAIN g /\ g[F[j]].prev = f[F[j]].prev /\ g[F[j]].next = f[F[j]].next
      <3>1. F[j] \in DOMAIN f /\ F[j] \in DOMAIN g /\ g[F[j]] = h[F[j]] /\ F[j] # SQFRAME_NULL
        <4>1. F[j] \in X
          BY <1>9a
        <4>2. F[j] \in DOMAIN f
          BY <1>8, <4>1
        <4> QED BY <1>1, <1>11, <4>1, <4>2 DEF Table
      <3>2. F[j] # last
        <4>1. CASE n \in 1..n
          BY <1>1, <1>4, <1>9, <1>n, <4>1 DEF Pos
        <4>2. CASE n \notin 1..n
          BY <1>4, <1>n, <3>1, <4>2 DEF Pos
        <4> QED BY <4>1, <4>2
      <3> QED BY <1>7, <3>1, <3>2
    <2> QED BY <1>1, <1>13, <2>1, ChainSame
  <1>16. \A o \in X : /\ g[o].length = f[o].length /\ g[o].txt = f[o].txt /\ Same(f, g, o)
    <2>1. ASSUME NEW o \in X PROVE Same(f, g, o)
      <3>1. Same(f, h, o) /\ g[o] = h[o]
        BY <1>7, <1>8, <1>11
      <3> QED BY <3>1 DEF Same
    <2> QED BY <2>1 DEF Same
  <1>17. \A i \in 1..Len(y) : i \in 1..n \/ i = n + 1
    BY <1>3, <1>n
  <1>18. \A i \in 1..Len(y) : Holds(g[y[i].offset], y[i].msgno)
    <2>1. ASSUME NEW i \in 1..n PROVE Holds(g[x[i].offset], x[i].msgno)
      <3>1. Holds(f[x[i].offset], x[i].msgno) /\ Same(f, g, x[i].offset)
        BY <1>1, <1>9, <1>16
      <3> QED BY <3>1 DEF Holds, Same
    <2>2. Holds(g[at], msg.msgno)
      BY <1>0, <1>6, <1>11 DEF Holds
    <2> QED BY <1>3, <1>e, <1>17, <2>1, <2>2
  <1>19. \A j \in 1..Len(F) : g[F[j]].type = "free"
    BY <1>1, <1>9a, <1>16 DEF Same
  <1>20. \A i \in 1..Len(y), j \in 1..Len(F) : y[i].offset # F[j]
    <2>1. \A j \in 1..Len(F) : F[j] # at
      BY <1>0, <1>9a
    <2> QED BY <1>1, <1>3, <1>e, <1>17, <2>1
  <1>21. Numbered(c, y) /\ Limits(c)
    <2>1. /\ b.totalmsgs = n /\ b.highestmsg = n
          /\ \A i \in 1..n : 0 < x[i].msgno /\ x[i].msgno < b.nextmsgno
          /\ \A i, j \in 1..n : i < j => x[i].msgno < x[j].msgno
      BY <1>1 DEF Numbered
    <2>2. \A i \in 1..n : x[i].msgno \in Nat
      <3>1. \A i \in 1..n : x[i] \in Entries
        BY <1>1
      <3> QED BY <3>1 DEF Entries
    <2>3. PICK m \in Nat : m = b.nextmsgno /\ m > 0 /\ c.nextmsgno = m + 1
      BY <1>2, <1>13
    <2>4. \A i \in 1..Len(y) : 0 < y[i].msgno /\ y[i].msgno < c.nextmsgno
      <3>1. ASSUME NEW i \in 1..n PROVE 0 < x[i].msgno /\ x[i].msgno < m + 1
        <4>1. PICK r \in Nat : r = x[i].msgno
          BY <2>2
        <4>2. 0 < r /\ r < m
          BY <2>1, <2>3, <4>1
        <4> QED BY <4>1, <4>2
      <3>2. 0 < m /\ m < m + 1
        BY <2>3
      <3> HIDE DEF n
      <3> QED BY <1>3, <1>e, <1>17, <2>3, <3>1, <3>2
    <2>5. ASSUME NEW i \in 1..Len(y), NEW j \in 1..Len(y), i < j PROVE y[i].msgno < y[j].msgno
      <3>0. i \in 1..n
        BY <1>3, <1>n, <2>5
      <3>1. CASE j \in 1..n
        BY <1>3, <2>1, <2>5, <3>0, <3>1
      <3>2. CASE j = n + 1
        BY <1>3, <1>e, <2>1, <3>0, <3>2
      <3> QED BY <1>17, <3>1, <3>2
    <2>6. c.totalmsgs = Len(y) /\ c.highestmsg = Len(y)
      BY <1>3, <1>13, <2>1
    <2>7. Limits(c)
      BY <1>1, <1>13 DEF Limits, SameLimits
    <2> QED BY <2>4, <2>5, <2>6, <2>7 DEF Numbered
  <1>22. Spots(y, F) = X \cup {at}
    <2>1. ASSUME NEW o \in Spots(y, F) PROVE o \in X \cup {at}
      BY <1>3, <1>e, <1>9, <1>9a, <1>17 DEF Spots
    <2>2. n + 1 \in 1..Len(y) /\ \A i \in 1..n : i \in 1..Len(y)
      BY <1>3, <1>n
    <2>3. ASSUME NEW o \in X PROVE o \in Spots(y, F)
      <3>1. (\E i \in 1..n : o = x[i].offset) \/ \E j \in 1..Len(F) : o = F[j]
        BY DEF X, Spots
      <3> QED BY <1>3, <2>2, <3>1 DEF Spots
    <2>4. at \in Spots(y, F)
      BY <1>3, <1>e, <2>2 DEF Spots
    <2> QED BY <2>1, <2>3, <2>4
  <1>23. Sound(g, c, y, F)
    <2>1. Sound0(g, c, y, F)
      BY <1>3, <1>11, <1>13, <1>14, <1>15, <1>18, <1>19, <1>20, <1>21 DEF Sound0, T
    <2> QED BY <1>11, <1>13, <1>22, <2>1 DEF Sound
  <1>24. SaveNew(V(f, b, x, Numbers(x)), at, fr, msg, size) = V(g, c, y, Numbers(y))
    <2> DEFINE v == V(f, b, x, Numbers(x))
               w == [v EXCEPT !.frm = g, !.base = c, !.idx = y, !.msgn = Numbers(y)]
    <2>1. v.frm = f /\ v.base = b /\ v.idx = x /\ v.msgn = Numbers(x)
      BY DEF V
    <2>2. SaveNew(v, at, fr, msg, size) = w
      <3> HIDE DEF v
      <3> QED BY <1>3, <2>1, Zenon DEF SaveNew, g, h, c, y, new, last, PutFrame, AddedBase, Entry
    <2>3. w = [[[[v EXCEPT !.frm = g] EXCEPT !.base = c] EXCEPT !.idx = y] EXCEPT !.msgn = Numbers(y)]
      <3> HIDE DEF v
      <3> QED OBVIOUS
    <2>4. [v EXCEPT !.frm = g] = V(g, b, x, Numbers(x))
      BY DEF V
    <2>5. [V(g, b, x, Numbers(x)) EXCEPT !.base = c] = V(g, c, x, Numbers(x))
      BY DEF V
    <2>6. [V(g, c, x, Numbers(x)) EXCEPT !.idx = y] = V(g, c, y, Numbers(x))
      BY DEF V
    <2>7. [V(g, c, y, Numbers(x)) EXCEPT !.msgn = Numbers(y)] = V(g, c, y, Numbers(y))
      BY DEF V
    <2> QED BY <2>2, <2>3, <2>4, <2>5, <2>6, <2>7
  <1>25. g[at].length = len /\ g[at].txt = msg
    BY <1>6, <1>11
  <1>26. Added(f, b, x, F, at, fr, size, msg, g, c)
    BY <1>13, <1>16, <1>22, <1>23, <1>24, <1>25 DEF Added, X, y, len, end
  <1> QED BY <1>26

-----------------------------------------------------------------------------
\* A message that moved to another frame.

\* The base record after the message at `old' has moved to `at'.
MovedBase(b, old, at, size) ==
    [Lengthen(b, at, size) EXCEPT !.firstframe = IF @ = old THEN at ELSE @,
                                  !.lastframe  = IF @ = old THEN at ELSE @]

LEMMA MovedBaseIs ==
    ASSUME NEW b \in Bases, NEW old, NEW at \in Nat, NEW size \in Nat
    PROVE  LET c == MovedBase(b, old, at, size)
           IN  /\ c \in Bases /\ SameLimits(b, c)
               /\ c.firstframe = (IF b.firstframe = old THEN at ELSE b.firstframe)
               /\ c.lastframe = (IF b.lastframe = old THEN at ELSE b.lastframe)
               /\ c.highestmsg = b.highestmsg /\ c.totalmsgs = b.totalmsgs
               /\ c.nextmsgno = b.nextmsgno /\ c.endframe = NewEnd(b, at, size)
               /\ c.firstfreeframe = b.firstfreeframe /\ c.lastfreeframe = b.lastfreeframe
  <1>1. PICK end : end = NewEnd(b, at, size)
    OBVIOUS
  <1>2. PICK d : d = Lengthen(b, at, size)
    OBVIOUS
  <1>3. d = [totalmsgs |-> b.totalmsgs, highestmsg |-> b.highestmsg, protmsgs |-> b.protmsgs,
              nextmsgno |-> b.nextmsgno, firstframe |-> b.firstframe, lastframe |-> b.lastframe,
              firstfreeframe |-> b.firstfreeframe, lastfreeframe |-> b.lastfreeframe,
              endframe |-> end, maxmsgs |-> b.maxmsgs]
    BY <1>1, <1>2, LengthenIs
  <1>4. PICK ff : ff = IF b.firstframe = old THEN at ELSE b.firstframe
    OBVIOUS
  <1>5. PICK lf : lf = IF b.lastframe = old THEN at ELSE b.lastframe
    OBVIOUS
  <1>6. MovedBase(b, old, at, size) = [[d EXCEPT !.firstframe = ff] EXCEPT !.lastframe = lf]
    BY <1>2, <1>3, <1>4, <1>5 DEF MovedBase
  <1>7. PICK c : c = MovedBase(b, old, at, size)
    OBVIOUS
  <1>8. c = [totalmsgs |-> b.totalmsgs, highestmsg |-> b.highestmsg, protmsgs |-> b.protmsgs,
              nextmsgno |-> b.nextmsgno, firstframe |-> ff, lastframe |-> lf,
              firstfreeframe |-> b.firstfreeframe, lastfreeframe |-> b.lastfreeframe,
              endframe |-> end, maxmsgs |-> b.maxmsgs]
    BY <1>3, <1>6, <1>7
  <1>9. ff \in Nat /\ lf \in Nat /\ end \in Nat
    BY <1>1, <1>4, <1>5, BaseFields, NewEndIn
  <1>10. c \in Bases
    BY <1>8, <1>9, BaseFields DEF Bases
  <1> QED BY <1>1, <1>4, <1>5, <1>7, <1>8, <1>10 DEF SameLimits

Renamed(x, k, at) == [x EXCEPT ![k] = Entry(at, x[k].msgno)]

LEMMA RenameEntry ==
    ASSUME NEW x \in Seq(Entries), NEW k \in 1..Len(x), NEW at \in Nat
    PROVE  LET y == Renamed(x, k, at)
               n == Len(x)
           IN  /\ y \in Seq(Entries) /\ Len(y) = n
               /\ y[k] = Entry(at, x[k].msgno) /\ \A i \in 1..n : i # k => y[i] = x[i]
               /\ \A i \in 1..n : y[i].msgno = x[i].msgno
               /\ Spliced(Offs(x), Offs(y), k, 1, 0, at)
               /\ Numbers(y) = Numbers(x)
  <1> DEFINE y == Renamed(x, k, at)
             n == Len(x)
  <1>a. x[k] \in Entries
    OBVIOUS
  <1>0. /\ Entry(at, x[k].msgno) \in Entries /\ Entry(at, x[k].msgno).offset = at
        /\ Entry(at, x[k].msgno).msgno = x[k].msgno
    BY <1>a DEF Entry, Entries
  <1>1. /\ y \in Seq(Entries) /\ Len(y) = n /\ n \in Nat /\ DOMAIN y = DOMAIN x
        /\ y[k] = Entry(at, x[k].msgno) /\ \A i \in 1..n : i # k => y[i] = x[i]
    BY <1>0 DEF Renamed
  <1> HIDE DEF y, n
  <1>2. /\ Len(Offs(x)) = n /\ Len(Offs(y)) = n /\ Offs(x) \in Seq(Nat) /\ Offs(y) \in Seq(Nat)
        /\ \A q \in 1..n : Offs(x)[q] = x[q].offset
        /\ \A q \in 1..n : Offs(y)[q] = y[q].offset
    <2>1. Len(Offs(x)) = n /\ Offs(x) \in Seq(Nat)
      BY OffsLen DEF n
    <2>2. Len(Offs(y)) = n /\ Offs(y) \in Seq(Nat)
      BY <1>1, OffsLen
    <2> QED BY <1>1, <2>1, <2>2 DEF Offs, n
  <1>k. k \in Nat /\ 1 <= k /\ k <= n
    BY <1>1 DEF n
  <1>3. Spliced(Offs(x), Offs(y), k, 1, 0, at)
    <2>1. ASSUME NEW q \in 1..n
          PROVE  Offs(y)[q] = IF q < k THEN Offs(x)[q] ELSE IF q < k + 1 THEN at ELSE Offs(x)[q + 0]
      <3>1. CASE q # k
        <4>1. Offs(y)[q] = Offs(x)[q]
          BY <1>1, <1>2, <3>1
        <4>2. ~(q < k) => ~(q < k + 1) /\ q + 0 = q
          BY <1>k, <3>1
        <4> QED BY <4>1, <4>2, Zenon
      <3>2. CASE q = k
        <4>1. Offs(y)[q] = at
          BY <1>0, <1>1, <1>2, <3>2
        <4>2. ~(q < k) /\ q < k + 1
          BY <1>k, <3>2
        <4> QED BY <4>1, <4>2, Zenon
      <3> QED BY <3>1, <3>2
    <2>2. k + 1 + 0 <= n + 1 /\ 0 <= 1 + 0 /\ n = n - 0
      BY <1>1, <1>k
    <2> QED BY <1>1, <1>2, <1>k, <2>1, <2>2 DEF Spliced
  <1>4. \A i \in 1..n : y[i].msgno = x[i].msgno
    BY <1>0, <1>1
  <1>5. Numbers(y) = Numbers(x)
    <2>1. DOMAIN x = 1..n
      BY DEF n
    <2> QED BY <1>1, <1>4, <2>1 DEF Numbers
  <1> QED BY <1>1, <1>3, <1>4, <1>5 DEF y, n

\* What SaveMoved makes of a base with room for the k-th message.
Moved(f, b, x, m, F, k, at, fr, size, g, c) ==
    LET y   == Renamed(x, k, at)
        old == x[k].offset
    IN  /\ SaveMoved(V(f, b, x, m), k, old, f[old], at, fr, f[old].txt, size) = V(g, c, y, m)
        /\ Sound(g, c, y, Append(F, old))
        /\ SameLimits(b, c) /\ c.totalmsgs = b.totalmsgs /\ c.nextmsgno = b.nextmsgno
        /\ c.endframe = NewEnd(b, at, size)
        /\ \A o \in Spots(x, F) : g[o].length = f[o].length
        /\ g[at].length = NewLen(b, at, fr, size) /\ Numbers(y) = Numbers(x) /\ Len(y) = Len(x)
        /\ \A i \in 1..Len(x) : g[y[i].offset].txt = f[x[i].offset].txt
        /\ Spots(y, Append(F, old)) = Spots(x, F) \cup {at}

LEMMA MoveSound ==
    ASSUME NEW f, NEW b, NEW x, NEW m, NEW F, NEW at, NEW fr, NEW size \in Nat,
           HasRoom(f, b, x, F, at, fr, size), NEW k \in 1..Len(x)
    PROVE  \E g, c : Moved(f, b, x, m, F, k, at, fr, size, g, c)
  <1> DEFINE n == Len(x)
             old == x[k].offset
             oldfr == f[old]
             msg == oldfr.txt
             y == Renamed(x, k, at)
             G == Append(F, old)
             S == Offs(x)
             T == Offs(y)
             X == Spots(x, F)
             prev == oldfr.prev
             next == oldfr.next
             len == NewLen(b, at, fr, size)
             end == NewEnd(b, at, size)
             f1 == FreedFrm(f, b, old, oldfr)
             b1 == FreedBase(b, old)
             h == upd_frm_prev(upd_frm_next(f1, prev, at), next, at)
             new == PutFrame(b, at, fr, size, msg, prev, next)
             g == WriteMessage(h, at, new)
             c == MovedBase(b1, old, at, size)
  <1>0. /\ Sound0(f, b, x, F)
        /\ at \in Nat \ {SQFRAME_NULL} /\ at \notin X /\ fr \in Frames /\ size <= len
        /\ Tiles(WithFrame(f, at, len), X \cup {at}, end)
    BY DEF HasRoom
  <1>1. /\ Table(f) /\ b \in Bases /\ x \in Seq(Entries) /\ Numbered(b, x) /\ Limits(b)
        /\ Chain(f, S, b.firstframe, b.lastframe)
        /\ Chain(f, F, b.firstfreeframe, b.lastfreeframe)
        /\ \A i \in 1..Len(x), j \in 1..Len(F) : x[i].offset # F[j]
        /\ \A j \in 1..Len(F) : f[F[j]].type = "free"
        /\ \A i \in 1..Len(x) : Holds(f[x[i].offset], x[i].msgno)
    BY <1>0 DEF Sound0
  <1>n. n \in Nat /\ Len(S) = n /\ S \in Seq(Nat)
    BY <1>1, OffsLen
  <1>k. k \in Nat /\ k \in Int /\ 1 <= k /\ k <= n /\ k - 1 \in Int /\ k + 1 \in Int
    BY <1>n
  <1>2. /\ old \in Nat /\ old \in DOMAIN f /\ oldfr \in Frames /\ read_frm(f, old) = oldfr
        /\ S[k] = old /\ prev = Pos(S, k - 1) /\ next = Pos(S, k + 1)
    BY <1>0, EntryAt
  <1>m. msg \in Messages /\ prev \in Nat /\ next \in Nat /\ oldfr.length \in Nat
    <2> HIDE DEF oldfr
    <2> QED BY <1>2, FrameFields
  <1>3. /\ y \in Seq(Entries) /\ Len(y) = n
        /\ y[k] = Entry(at, x[k].msgno) /\ \A i \in 1..n : i # k => y[i] = x[i]
        /\ \A i \in 1..n : y[i].msgno = x[i].msgno
        /\ Spliced(S, T, k, 1, 0, at)
        /\ Numbers(y) = Numbers(x)
    <2>1. at \in Nat
      BY <1>0
    <2> QED BY <1>1, <2>1, RenameEntry
  <1>e. y[k].offset = at
    BY <1>3 DEF Entry
  <1> HIDE DEF y
  <1>o. msg.msgno = x[k].msgno
    BY <1>1 DEF Holds
  <1>5. /\ (prev = SQFRAME_NULL \/ prev \in DOMAIN f) /\ (next = SQFRAME_NULL \/ next \in DOMAIN f)
    <2>1. k - 1 \in Int /\ k + 1 \in Int
      BY <1>k
    <2>2. Pos(S, k - 1) = SQFRAME_NULL \/ Pos(S, k - 1) \in DOMAIN f
      <3> HIDE DEF S
      <3> QED BY <1>1, <2>1, PosIn
    <2>3. Pos(S, k + 1) = SQFRAME_NULL \/ Pos(S, k + 1) \in DOMAIN f
      <3> HIDE DEF S
      <3> QED BY <1>1, <2>1, PosIn
    <2> QED BY <1>2, <2>2, <2>3
  <1>9. \A i \in 1..n : x[i].offset \in X /\ S[i] = x[i].offset
    BY DEF Spots, Offs
  <1>9a. \A j \in 1..Len(F) : F[j] \in X /\ F[j] # old
    BY <1>1 DEF Spots
  <1>8. \A o \in X : o \in DOMAIN f /\ o \in Nat \ {SQFRAME_NULL} /\ f[o] \in Frames /\ f[o].length \in Nat
    BY <1>0, SpotsIn
  <1> HIDE DEF X
  <1>10. /\ SameBase(b, b1) /\ b1.firstframe = b.firstframe /\ b1.lastframe = b.lastframe
         /\ Table(f1) /\ DOMAIN f1 = DOMAIN f
         /\ Chain(f1, G, b1.firstfreeframe, b1.lastfreeframe)
         /\ f1[old].type = "free" /\ f1[old].length = oldfr.length /\ f1[old].txt = oldfr.txt
         /\ \A o \in DOMAIN f : o # old =>
               /\ Same(f, f1, o) /\ f1[o].prev = f[o].prev
               /\ (\A j \in 1..Len(F) : F[j] # o) => f1[o].next = f[o].next
    <2>1. LET t == FreedFrm(f, b, old, oldfr)
              d == FreedBase(b, old)
          IN  /\ SameBase(b, d) /\ d.firstframe = b.firstframe /\ d.lastframe = b.lastframe
              /\ Table(t) /\ DOMAIN t = DOMAIN f
              /\ Chain(t, Append(F, old), d.firstfreeframe, d.lastfreeframe)
              /\ t[old].type = "free" /\ t[old].length = oldfr.length /\ t[old].txt = oldfr.txt
              /\ \A o \in DOMAIN f : o # old =>
                     /\ Same(f, t, o) /\ t[o].prev = f[o].prev
                     /\ (\A j \in 1..Len(F) : F[j] # o) => t[o].next = f[o].next
      <3> HIDE DEF old, oldfr
      <3> QED BY <1>1, <1>2, <1>9a, Freed
    <2> QED BY <2>1
  <1>11. add_to_free_chain(V(f, b, x, m), old, oldfr) = V(f1, b1, x, m)
    BY <1>1, FreedIs
  <1> HIDE DEF f1, b1
  <1>b. b1 \in Bases /\ b1.endframe = b.endframe
    BY <1>10 DEF SameBase
  <1>12. /\ new \in Frames /\ new.type = "normal" /\ new.next = next /\ new.prev = prev
         /\ new.length = len /\ new.totsize = size /\ new.hdr = msg /\ new.txt = msg
    <2> HIDE DEF msg, prev, next, len
    <2> QED BY <1>0, <1>1, <1>m, PutFrameIs DEF len
  <1> HIDE DEF new, len, end
  <1>13. /\ Table(h) /\ DOMAIN h = DOMAIN f
         /\ \A o \in DOMAIN f : /\ Same(f1, h, o)
                                /\ h[o].next = (IF o = prev THEN at ELSE f1[o].next)
                                /\ h[o].prev = (IF o = next THEN at ELSE f1[o].prev)
    <2>1. at \in Nat /\ Table(f1) /\ DOMAIN f1 = DOMAIN f
      BY <1>0, <1>10
    <2> HIDE DEF prev, next
    <2> QED BY <1>5, <2>1, Bridged DEF Links
  <1> HIDE DEF h
  <1>14. \A o \in X : h[o].length = f[o].length
    <2>1. ASSUME NEW o \in X PROVE h[o].length = f[o].length
      <3>1. o \in DOMAIN f /\ h[o].length = f1[o].length
        BY <1>8, <1>13 DEF Same
      <3> QED BY <1>10, <3>1 DEF Same
    <2> QED BY <2>1
  <1>15. Put(f, h, X, at, new, end, g)
    <2>1. X \subseteq DOMAIN f
      BY <1>8
    <2>2. \A o \in X : o \in DOMAIN h /\ h[o].length = f[o].length
      BY <1>8, <1>13, <1>14
    <2> QED BY <1>0, <1>1, <1>12, <1>13, <2>1, <2>2, MessagePut
  <1>16. /\ Table(g) /\ at \in DOMAIN g /\ g[at] = new
         /\ \A o \in X : o \in DOMAIN g /\ g[o] = h[o]
         /\ Tiles(g, X \cup {at}, end)
    BY <1>15 DEF Put
  <1> HIDE DEF g
  \* The other messages' frames keep all but the links to this one.
  <1>17. ASSUME NEW q \in 1..n, q # k
         PROVE  /\ S[q] \in DOMAIN g /\ S[q] # at /\ Same(f, g, S[q])
                /\ g[S[q]].next = (IF q = k - 1 THEN at ELSE f[S[q]].next)
                /\ g[S[q]].prev = (IF q = k + 1 THEN at ELSE f[S[q]].prev)
    <2>1. S[q] \in X /\ S[q] # at /\ S[q] \in DOMAIN f /\ S[q] \in DOMAIN g /\ g[S[q]] = h[S[q]]
      BY <1>0, <1>8, <1>9, <1>16
    <2>2. S[q] # old
      BY <1>1, <1>2, <1>n, <1>17 DEF Chain
    <2>3. \A j \in 1..Len(F) : F[j] # S[q]
      BY <1>1, <1>9
    <2>4. /\ Same(f, f1, S[q]) /\ f1[S[q]].prev = f[S[q]].prev /\ f1[S[q]].next = f[S[q]].next
      BY <1>10, <2>1, <2>2, <2>3
    <2>5. (S[q] = prev <=> q = k - 1) /\ (S[q] = next <=> q = k + 1)
      <3>1. q \in 1..Len(S) /\ k - 1 \in Int /\ k + 1 \in Int
        BY <1>k, <1>n
      <3>2. S[q] = Pos(S, k - 1) <=> q = k - 1
        <4> HIDE DEF S
        <4> QED BY <1>1, <3>1, PosOnce
      <3>3. S[q] = Pos(S, k + 1) <=> q = k + 1
        <4> HIDE DEF S
        <4> QED BY <1>1, <3>1, PosOnce
      <3> QED BY <1>2, <3>2, <3>3
    <2>6. Same(f1, h, S[q]) /\ h[S[q]].next = (IF S[q] = prev THEN at ELSE f1[S[q]].next)
          /\ h[S[q]].prev = (IF S[q] = next THEN at ELSE f1[S[q]].prev)
      BY <1>13, <2>1
    <2>7. Same(f, g, S[q])
      BY <2>1, <2>4, <2>6 DEF Same
    <2> HIDE DEF prev, next, S, n
    <2> QED BY <2>1, <2>4, <2>5, <2>6, <2>7
  <1>18. Relinked(f, g, S, k, 1, 0, at)
    <2>1. at \in DOMAIN g /\ g[at].prev = Pos(S, k - 1) /\ g[at].next = Pos(S, k + 1)
      BY <1>2, <1>12, <1>16
    <2>2. k + 1 + 0 = k + 1
      BY <1>k
    <2>3. \A q \in 1..Len(S) : q < k \/ q >= k + 1 + 0 =>
          /\ S[q] \in DOMAIN g /\ (1 = 1 => S[q] # at)
          /\ g[S[q]].next = IF q = k - 1 THEN (IF 1 = 1 THEN at ELSE Pos(S, k + 0)) ELSE f[S[q]].next
          /\ g[S[q]].prev = IF q = k + 1 + 0 THEN (IF 1 = 1 THEN at ELSE Pos(S, k - 1)) ELSE f[S[q]].prev
      <3>1. \A q \in 1..n : q < k \/ q >= k + 1 => q # k
        BY <1>k
      <3> QED BY <1>n, <1>17, <2>2, <3>1
    <2>4. 1 = 1 => /\ at \in DOMAIN g
                   /\ g[at].prev = Pos(S, k - 1) /\ g[at].next = Pos(S, k + 1 + 0)
      BY <2>1, <2>2
    <2> HIDE DEF n, S
    <2> QED BY <2>3, <2>4, Zenon DEF Relinked
  <1>19. /\ c \in Bases /\ SameLimits(b, c)
         /\ c.firstframe = (IF b.firstframe = old THEN at ELSE b.firstframe)
         /\ c.lastframe = (IF b.lastframe = old THEN at ELSE b.lastframe)
         /\ c.highestmsg = b.highestmsg /\ c.totalmsgs = b.totalmsgs
         /\ c.nextmsgno = b.nextmsgno /\ c.endframe = end
         /\ c.firstfreeframe = b1.firstfreeframe /\ c.lastfreeframe = b1.lastfreeframe
    <2>1. /\ c \in Bases /\ SameLimits(b1, c)
          /\ c.firstframe = (IF b1.firstframe = old THEN at ELSE b1.firstframe)
          /\ c.lastframe = (IF b1.lastframe = old THEN at ELSE b1.lastframe)
          /\ c.highestmsg = b1.highestmsg /\ c.totalmsgs = b1.totalmsgs
          /\ c.nextmsgno = b1.nextmsgno /\ c.endframe = NewEnd(b1, at, size)
          /\ c.firstfreeframe = b1.firstfreeframe /\ c.lastfreeframe = b1.lastfreeframe
      <3>1. at \in Nat
        BY <1>0
      <3> HIDE DEF old
      <3> QED BY <1>b, <3>1, MovedBaseIs
    <2>2. NewEnd(b1, at, size) = end
      BY <1>b DEF NewEnd, end
    <2> HIDE DEF c
    <2> QED BY <1>10, <2>1, <2>2 DEF SameBase, SameLimits
  <1> HIDE DEF c
  <1>20. Chain(g, T, c.firstframe, c.lastframe)
    <2>1. Chain(g, T, IF k = 1 THEN at ELSE b.firstframe,
                      IF k + 1 + 0 = Len(S) + 1 THEN at ELSE b.lastframe)
      <3> HIDE DEF n, S, T
      <3> QED BY <1>1, <1>3, <1>18, SpliceChain
    <2>2. b.firstframe = Pos(S, 1) /\ b.lastframe = Pos(S, n)
      BY <1>1, <1>n DEF Chain
    <2>3. (b.firstframe = old <=> k = 1) /\ (b.lastframe = old <=> k = n)
      <3>1. k \in 1..Len(S) /\ 1 \in Int /\ n \in Int
        BY <1>k, <1>n
      <3>2. S[k] = Pos(S, 1) <=> k = 1
        <4> HIDE DEF S
        <4> QED BY <1>1, <3>1, PosOnce
      <3>3. S[k] = Pos(S, n) <=> k = n
        <4> HIDE DEF S, n
        <4> QED BY <1>1, <3>1, PosOnce
      <3> QED BY <1>2, <2>2, <3>2, <3>3
    <2>4. k + 1 + 0 = Len(S) + 1 <=> k = n
      BY <1>k, <1>n
    <2> HIDE DEF S, T, n, old
    <2> QED BY <1>19, <2>1, <2>3, <2>4
  <1>G. /\ Len(G) = Len(F) + 1 /\ Len(F) \in Nat /\ G[Len(F) + 1] = old /\ \A j \in 1..Len(F) : G[j] = F[j]
        /\ \A j \in 1..Len(G) : j \in 1..Len(F) \/ j = Len(F) + 1
    <2>1. F \in Seq(Nat)
      BY <1>1 DEF Chain
    <2> HIDE DEF old
    <2> QED BY <1>2, <2>1
  <1> HIDE DEF G
  \* The free frames keep their links.
  <1>21. ASSUME NEW j \in 1..Len(G)
         PROVE  /\ G[j] \in DOMAIN g /\ G[j] \in X /\ g[G[j]].prev = f1[G[j]].prev
                /\ g[G[j]].next = f1[G[j]].next /\ g[G[j]].type = "free"
                /\ \A i \in 1..n : i # k => x[i].offset # G[j]
    <2>1. G[j] \in X
      <3>1. old \in X
        BY <1>9
      <3> QED BY <1>9a, <1>G, <3>1
    <2>2. G[j] \in DOMAIN f /\ G[j] # SQFRAME_NULL /\ G[j] \in DOMAIN g /\ g[G[j]] = h[G[j]]
      BY <1>8, <1>16, <2>1
    <2>3. \A i \in 1..n : i # k => x[i].offset # G[j]
      <3>1. ASSUME NEW i \in 1..n, i # k PROVE x[i].offset # old
        <4>1. S[i] = x[i].offset /\ S[i] # S[k]
          BY <1>1, <1>9, <1>n, <3>1 DEF Chain
        <4> QED BY <1>2, <4>1
      <3> QED BY <1>1, <1>G, <3>1
    <2>4. G[j] # prev /\ G[j] # next
      <3>1. ASSUME NEW i \in Int, i # k PROVE G[j] # Pos(S, i)
        <4>1. CASE i \in 1..n
          BY <1>9, <1>n, <2>3, <3>1, <4>1 DEF Pos
        <4>2. CASE i \notin 1..n
          BY <1>n, <2>2, <4>2 DEF Pos
        <4> QED BY <4>1, <4>2
      <3>2. k - 1 # k /\ k + 1 # k
        BY <1>k
      <3> QED BY <1>2, <1>k, <3>1, <3>2
    <2>5. Same(f1, h, G[j]) /\ h[G[j]].next = f1[G[j]].next /\ h[G[j]].prev = f1[G[j]].prev
      <3> HIDE DEF prev, next
      <3> QED BY <1>13, <2>2, <2>4
    <2>6. f1[G[j]].type = "free"
      <3>1. ASSUME NEW i \in 1..Len(F) PROVE f1[F[i]].type = "free"
        <4>1. F[i] \in DOMAIN f /\ F[i] # old /\ f[F[i]].type = "free"
          BY <1>1, <1>8, <1>9a
        <4> QED BY <1>10, <4>1 DEF Same
      <3> QED BY <1>10, <1>G, <3>1
    <2>7. g[G[j]].type = "free"
      BY <2>2, <2>5, <2>6 DEF Same
    <2> QED BY <2>1, <2>2, <2>3, <2>5, <2>7
  <1>22. Chain(g, G, c.firstfreeframe, c.lastfreeframe)
    <2>1. Chain(f1, G, c.firstfreeframe, c.lastfreeframe)
      BY <1>10, <1>19 DEF G
    <2> QED BY <1>21, <2>1, ChainSame
  <1>23. \A i \in 1..Len(y) : Holds(g[y[i].offset], y[i].msgno)
    <2>1. ASSUME NEW i \in 1..n, i # k PROVE Holds(g[y[i].offset], y[i].msgno)
      <3>1. Holds(f[x[i].offset], x[i].msgno) /\ Same(f, g, x[i].offset)
        BY <1>1, <1>9, <1>17, <2>1
      <3> QED BY <1>3, <2>1, <3>1 DEF Holds, Same
    <2>2. Holds(g[at], x[k].msgno)
      BY <1>0, <1>12, <1>16, <1>o DEF Holds
    <2> QED BY <1>3, <1>e, <2>1, <2>2
  <1>24. \A i \in 1..Len(y), j \in 1..Len(G) : y[i].offset # G[j]
    <2>1. \A j \in 1..Len(G) : G[j] # at
      BY <1>0, <1>21
    <2> QED BY <1>3, <1>e, <1>21, <2>1
  <1>25. Numbered(c, y) /\ Limits(c)
    <2>1. Numbered(c, y)
      BY <1>1, <1>3, <1>19 DEF Numbered
    <2>2. Limits(c)
      BY <1>1, <1>19 DEF Limits, SameLimits
    <2> QED BY <2>1, <2>2
  <1>26. Spots(y, G) = X \cup {at}
    <2>1. ASSUME NEW o \in Spots(y, G) PROVE o \in X \cup {at}
      <3>1. CASE \E i \in 1..Len(y) : o = y[i].offset
        BY <1>3, <1>e, <1>9, <3>1
      <3>2. CASE \E j \in 1..Len(G) : o = G[j]
        BY <1>21, <3>2
      <3> QED BY <3>1, <3>2 DEF Spots
    <2>2. ASSUME NEW o \in X PROVE o \in Spots(y, G)
      <3>1. (\E i \in 1..n : o = x[i].offset) \/ \E j \in 1..Len(F) : o = F[j]
        BY DEF X, Spots
      <3>2. \A j \in 1..Len(F) : j \in 1..Len(G)
        BY <1>G
      <3>3. Len(F) + 1 \in 1..Len(G)
        BY <1>G
      <3>4. ASSUME NEW i \in 1..n PROVE x[i].offset \in Spots(y, G)
        <4>1. CASE i = k
          BY <1>G, <3>3, <4>1 DEF Spots
        <4>2. CASE i # k
          <5>1. y[i].offset = x[i].offset /\ i \in 1..Len(y)
            BY <1>3, <4>2
          <5> QED BY <5>1 DEF Spots
        <4> QED BY <4>1, <4>2
      <3>5. ASSUME NEW j \in 1..Len(F) PROVE F[j] \in Spots(y, G)
        BY <1>G, <3>2 DEF Spots
      <3> QED BY <3>1, <3>4, <3>5
    <2>3. at \in Spots(y, G)
      <3>1. k \in 1..Len(y)
        BY <1>3
      <3> QED BY <1>e, <3>1 DEF Spots
    <2> QED BY <2>1, <2>2, <2>3
  <1>27. Sound(g, c, y, G)
    <2>1. Sound0(g, c, y, G)
      BY <1>3, <1>16, <1>19, <1>20, <1>21, <1>22, <1>23, <1>24, <1>25 DEF Sound0
    <2> QED BY <1>16, <1>19, <1>26, <2>1 DEF Sound
  <1>28. SaveMoved(V(f, b, x, m), k, old, oldfr, at, fr, msg, size) = V(g, c, y, m)
    <2> DEFINE v == V(f, b, x, m)
               u == V(f1, b1, x, m)
               w == [u EXCEPT !.frm = g, !.base = c, !.idx = y]
    <2>1. u.frm = f1 /\ u.base = b1 /\ u.idx = x /\ v.base = b
      BY DEF V
    <2>2. SetEntry(x, k, at, msg.msgno) = y
      <3>1. k \in DOMAIN x
        BY <1>1
      <3> QED BY <1>o, <3>1 DEF SetEntry, y, Renamed, Entry
    <2>3. add_to_free_chain(v, old, oldfr) = u
      BY <1>11
    <2>4. SaveMoved(v, k, old, oldfr, at, fr, msg, size) = w
      <3> HIDE DEF u, v, old, oldfr
      <3> QED BY <2>1, <2>2, <2>3, Zenon DEF SaveMoved, g, h, c, new, PutFrame, MovedBase
    <2>5. w = [[[u EXCEPT !.frm = g] EXCEPT !.base = c] EXCEPT !.idx = y]
      <3> HIDE DEF u
      <3> QED OBVIOUS
    <2>6. [u EXCEPT !.frm = g] = V(g, b1, x, m)
      BY DEF V
    <2>7. [V(g, b1, x, m) EXCEPT !.base = c] = V(g, c, x, m)
      BY DEF V
    <2>8. [V(g, c, x, m) EXCEPT !.idx = y] = V(g, c, y, m)
      BY DEF V
    <2> QED BY <2>4, <2>5, <2>6, <2>7, <2>8
  <1>29. \A o \in X : g[o].length = f[o].length
    BY <1>14, <1>16
  <1>30. \A i \in 1..n : g[y[i].offset].txt = f[x[i].offset].txt
    <2>1. ASSUME NEW i \in 1..n, i # k PROVE g[y[i].offset].txt = f[x[i].offset].txt
      BY <1>3, <1>9, <1>17, <2>1 DEF Same
    <2>2. g[y[k].offset].txt = f[x[k].offset].txt
      BY <1>e, <1>12, <1>16
    <2> QED BY <2>1, <2>2
  <1>31. g[at].length = len
    BY <1>12, <1>16
  <1>32. Moved(f, b, x, m, F, k, at, fr, size, g, c)
    BY <1>3, <1>19, <1>26, <1>27, <1>28, <1>29, <1>30, <1>31 DEF Moved, X, y, G, len, end
  <1> QED BY <1>32

-----------------------------------------------------------------------------
\* Bisecting the index (find_msgn).

\* The bisection of find_msgn.
Halves       == [left : Nat, right : Int]
Half(l, r)   == [left |-> l, right |-> r]
Mid(s)       == (s.left + s.right) \div 2
NextL(x, n, s) == IF n > x[Mid(s) + 1].msgno THEN Mid(s) + 1 ELSE s.left
NextR(x, n, s) == IF n < x[Mid(s) + 1].msgno THEN Mid(s) - 1 ELSE s.right
AtEnd(x, n, s) == IF n = x[NextL(x, n, s) + 1].msgno THEN NextL(x, n, s) + 1 ELSE 0
Bisects(g, x, n) ==
    g = [s \in Halves |->
            IF n = x[Mid(s) + 1].msgno THEN Mid(s) + 1
            ELSE IF NextL(x, n, s) < NextR(x, n, s) THEN g[Half(NextL(x, n, s), NextR(x, n, s))]
            ELSE AtEnd(x, n, s)]

LEMMA MidIs ==
    ASSUME NEW s \in Halves
    PROVE  /\ s.left \in Nat /\ s.right \in Int /\ Mid(s) \in Int
           /\ 2 * Mid(s) <= s.left + s.right /\ s.left + s.right < 2 * Mid(s) + 2
  <1>1. s.left \in Nat /\ s.right \in Int
    BY DEF Halves
  <1>2. PICK l \in Nat, r \in Int : l = s.left /\ r = s.right
    BY <1>1
  <1>3. (l + r) \div 2 \in Int /\ 2 * ((l + r) \div 2) <= l + r /\ l + r < 2 * ((l + r) \div 2) + 2
    OBVIOUS
  <1> QED BY <1>1, <1>2, <1>3 DEF Mid

LEMMA NextHalf ==
    ASSUME NEW x, NEW n, NEW s \in Halves
    PROVE  /\ NextL(x, n, s) \in Int /\ NextR(x, n, s) \in Int
           /\ NextL(x, n, s) < NextR(x, n, s) => Half(NextL(x, n, s), NextR(x, n, s)) \in Halves
  <1>1. PICK l \in Nat, r \in Int, m \in Int :
            l = s.left /\ r = s.right /\ m = Mid(s) /\ 2 * m <= l + r /\ l + r < 2 * m + 2
    BY MidIs
  <1>2. PICK a : a = NextL(x, n, s)
    OBVIOUS
  <1>3. PICK c : c = NextR(x, n, s)
    OBVIOUS
  <1>4. (a = m + 1 \/ a = l) /\ (c = m - 1 \/ c = r)
    BY <1>1, <1>2, <1>3 DEF NextL, NextR
  <1>5. a \in Int /\ c \in Int
    BY <1>4
  <1>6. a < c => a \in Nat
    BY <1>1, <1>4
  <1>7. a < c => Half(a, c) \in Halves
    BY <1>5, <1>6 DEF Half, Halves
  <1> QED BY <1>2, <1>3, <1>5, <1>7

LEMMA BisectExists ==
    ASSUME NEW x, NEW n PROVE \E g : Bisects(g, x, n)
  <1> DEFINE next == [s \in Halves |-> IF NextL(x, n, s) < NextR(x, n, s)
                                       THEN Half(NextL(x, n, s), NextR(x, n, s)) ELSE s]
             val  == [s \in Halves |-> IF n = x[Mid(s) + 1].msgno THEN Mid(s) + 1 ELSE AtEnd(x, n, s)]
             done == {s \in Halves : n = x[Mid(s) + 1].msgno \/ ~(NextL(x, n, s) < NextR(x, n, s))}
  <1>1. next \in [Halves -> Halves]
    BY NextHalf
  <1>2. val \in [Halves -> Int]
    <2>1. ASSUME NEW s \in Halves PROVE AtEnd(x, n, s) \in Int /\ Mid(s) + 1 \in Int
      BY MidIs, NextHalf DEF AtEnd
    <2> QED BY <2>1
  <1>3. PICK g : Loops(g, Halves, done, next, val)
    <2> HIDE DEF next, val, done
    <2> QED BY <1>1, <1>2, LoopExists
  <1>4. g = [s \in Halves |-> IF s \in done THEN val[s] ELSE g[next[s]]]
    BY <1>3, Zenon DEF Loops
  <1>5. \A s \in Halves : (IF s \in done THEN val[s] ELSE g[next[s]])
            = IF n = x[Mid(s) + 1].msgno THEN Mid(s) + 1
              ELSE IF NextL(x, n, s) < NextR(x, n, s) THEN g[Half(NextL(x, n, s), NextR(x, n, s))]
              ELSE AtEnd(x, n, s)
    OBVIOUS
  <1>6. Bisects(g, x, n)
    <2> HIDE DEF next, val, done
    <2> QED BY <1>4, <1>5, Zenon DEF Bisects
  <1> QED BY <1>6

LEMMA FindIs ==
    ASSUME NEW x, NEW n
    PROVE  \E g : /\ Bisects(g, x, n)
                  /\ find_msgn(x, n) = IF x = <<>> \/ n = 0 \/ n > x[Len(x)].msgno THEN 0
                                       ELSE g[Half(0, Len(x))]
  <1> DEFINE g == CHOOSE g : g = [s \in Halves |->
            IF n = x[Mid(s) + 1].msgno THEN Mid(s) + 1
            ELSE IF NextL(x, n, s) < NextR(x, n, s) THEN g[Half(NextL(x, n, s), NextR(x, n, s))]
            ELSE AtEnd(x, n, s)]
  <1>1. find_msgn(x, n) = IF x = <<>> \/ n = 0 \/ n > x[Len(x)].msgno THEN 0 ELSE g[Half(0, Len(x))]
    BY Zenon DEF find_msgn, Halves, Half, Mid, NextL, NextR, AtEnd
  <1>2. \E h : h = [s \in Halves |->
            IF n = x[Mid(s) + 1].msgno THEN Mid(s) + 1
            ELSE IF NextL(x, n, s) < NextR(x, n, s) THEN h[Half(NextL(x, n, s), NextR(x, n, s))]
            ELSE AtEnd(x, n, s)]
    BY BisectExists DEF Bisects
  <1>3. g = [s \in Halves |->
            IF n = x[Mid(s) + 1].msgno THEN Mid(s) + 1
            ELSE IF NextL(x, n, s) < NextR(x, n, s) THEN g[Half(NextL(x, n, s), NextR(x, n, s))]
            ELSE AtEnd(x, n, s)]
    BY <1>2, Zenon
  <1>4. Bisects(g, x, n)
    BY <1>3, Zenon DEF Bisects
  <1> QED BY <1>1, <1>4

LEMMA BisectStep ==
    ASSUME NEW x, NEW n, NEW g, Bisects(g, x, n), NEW s \in Halves
    PROVE  g[s] = IF n = x[Mid(s) + 1].msgno THEN Mid(s) + 1
                  ELSE IF NextL(x, n, s) < NextR(x, n, s)
                       THEN g[Half(NextL(x, n, s), NextR(x, n, s))]
                       ELSE AtEnd(x, n, s)
  BY Zenon DEF Bisects

\* An index with rising numbers.
Rising(x) == /\ x \in Seq(Entries) /\ \A i \in 1..Len(x) : 0 < x[i].msgno
             /\ \A i, j \in 1..Len(x) : i < j => x[i].msgno < x[j].msgno

LEMMA RisingNat ==
    ASSUME NEW x, Rising(x)
    PROVE  /\ Len(x) \in Nat /\ DOMAIN x = 1..Len(x) /\ \A i \in 1..Len(x) : x[i].msgno \in Nat
           /\ \A i, j \in 1..Len(x) : x[i].msgno = x[j].msgno => i = j
           /\ \A i, j \in 1..Len(x) : i <= j => x[i].msgno <= x[j].msgno
  <1>1. x \in Seq(Entries)
    BY DEF Rising
  <1>2. Len(x) \in Nat /\ DOMAIN x = 1..Len(x) /\ \A i \in 1..Len(x) : x[i] \in Entries
    BY <1>1
  <1>3. \A i \in 1..Len(x) : x[i].msgno \in Nat
    BY <1>2 DEF Entries
  <1>4. \A i, j \in 1..Len(x) : i < j => x[i].msgno < x[j].msgno
    BY DEF Rising
  <1>5. ASSUME NEW i \in 1..Len(x), NEW j \in 1..Len(x), x[i].msgno = x[j].msgno PROVE i = j
    <2>1. PICK a \in Nat : a = x[i].msgno /\ a = x[j].msgno
      BY <1>3, <1>5
    <2>2. ~(i < j)
      <3>1. i < j => a < a
        BY <1>4, <2>1
      <3> QED BY <3>1
    <2>3. ~(j < i)
      <3>1. j < i => a < a
        BY <1>4, <2>1
      <3> QED BY <3>1
    <2> QED BY <1>2, <2>2, <2>3
  <1>6. ASSUME NEW i \in 1..Len(x), NEW j \in 1..Len(x), i <= j PROVE x[i].msgno <= x[j].msgno
    <2>1. PICK a \in Nat, c \in Nat : a = x[i].msgno /\ c = x[j].msgno
      BY <1>3
    <2>2. i = j \/ i < j
      BY <1>2, <1>6
    <2>3. i < j => a < c
      BY <1>4, <2>1
    <2> QED BY <2>1, <2>2, <2>3
  <1> QED BY <1>2, <1>3, <1>5, <1>6

LEMMA ToRelnIs ==
    ASSUME NEW x, Rising(x), NEW n
    PROVE  /\ \A k \in 1..Len(x) : x[k].msgno = n => ToReln(Numbers(x), n) = k
           /\ (\A k \in 1..Len(x) : x[k].msgno # n) => ToReln(Numbers(x), n) = 0
  <1>1. DOMAIN x = 1..Len(x) /\ \A i, j \in 1..Len(x) : x[i].msgno = x[j].msgno => i = j
    BY RisingNat
  <1>2. Numbers(x) = [i \in 1..Len(x) |-> x[i].msgno]
    BY <1>1 DEF Numbers
  <1>3. ASSUME NEW k \in 1..Len(x), x[k].msgno = n PROVE ToReln(Numbers(x), n) = k
    <2> DEFINE z == Numbers(x)
    <2>1. DOMAIN z = 1..Len(x) /\ \A i \in 1..Len(x) : z[i] = x[i].msgno
      BY <1>2
    <2> HIDE DEF z
    <2>2. \E i \in DOMAIN z : z[i] = n
      BY <1>3, <2>1
    <2>3. \A i \in DOMAIN z : z[i] = n => i = k
      BY <1>1, <1>3, <2>1
    <2>4. (CHOOSE i \in DOMAIN z : z[i] = n) = k
      BY <2>2, <2>3
    <2> QED BY <2>2, <2>4 DEF ToReln, z
  <1>4. ASSUME \A k \in 1..Len(x) : x[k].msgno # n PROVE ToReln(Numbers(x), n) = 0
    <2>1. ~\E i \in DOMAIN Numbers(x) : Numbers(x)[i] = n
      BY <1>2, <1>4
    <2> QED BY <2>1 DEF ToReln
  <1> QED BY <1>3, <1>4

\* The cell that is sought, counted from 0, is between l and r, if any.
Between(x, n, l, r) ==
    /\ 0 <= l /\ l < Len(x) /\ l < r /\ r <= Len(x)
    /\ \A k \in 1..Len(x) : /\ k <= l => x[k].msgno < n
                            /\ k > r + 1 => n < x[k].msgno

LEMMA MidBetween ==
    ASSUME NEW l \in Nat, NEW r \in Int, NEW m \in Int, 2 * m <= l + r, l + r < 2 * m + 2, l < r
    PROVE  l <= m /\ m < r
  OBVIOUS

LEMMA BisectGood ==
    ASSUME NEW x, Rising(x), x # <<>>, NEW n \in Nat, n <= x[Len(x)].msgno, NEW g, Bisects(g, x, n),
           NEW d \in Nat, \A t \in Halves : Between(x, n, t.left, t.right) /\ t.right - t.left < d
                              => g[t] = ToReln(Numbers(x), n),
           NEW s \in Halves, Between(x, n, s.left, s.right), s.right - s.left <= d
    PROVE  g[s] = ToReln(Numbers(x), n)
  <1> DEFINE N == Len(x)
             M(k) == x[k].msgno
  <1>0. N \in Nat /\ N >= 1 /\ \A k \in 1..N : M(k) \in Nat
    <2>1. Len(x) \in Nat /\ x \in Seq(Entries)
      BY RisingNat DEF Rising
    <2> QED BY <2>1, RisingNat
  <1>1. PICK l \in Nat, r \in Int, m \in Int :
            l = s.left /\ r = s.right /\ m = Mid(s) /\ 2 * m <= l + r /\ l + r < 2 * m + 2
    BY MidIs
  <1>2. /\ l < N /\ l < r /\ r <= N
        /\ \A k \in 1..N : (k <= l => M(k) < n) /\ (k > r + 1 => n < M(k))
    BY <1>1 DEF Between
  <1>3. l <= m /\ m < r /\ m \in Nat /\ m + 1 \in 1..N
    <2>1. l < N /\ l < r /\ r <= N
      BY <1>2
    <2>2. l <= m /\ m < r
      <3>1. 2 * m <= l + r /\ l + r < 2 * m + 2
        BY <1>1
      <3> QED BY <2>1, <3>1, MidBetween
    <2>3. PICK e \in Nat : e = N /\ r <= e
      BY <1>0, <2>1
    <2>4. m \in Nat /\ m + 1 \in 1..e
      BY <2>2, <2>3
    <2> QED BY <2>2, <2>3, <2>4
  <1>4. PICK a \in Nat : a = M(m + 1)
    BY <1>0, <1>3
  <1>5. \A i, j \in 1..N : i <= j => M(i) <= M(j)
    BY RisingNat
  <1>5a. \A k \in 1..N : M(k) = n => ToReln(Numbers(x), n) = k
    BY ToRelnIs
  <1>5b. (\A k \in 1..N : M(k) # n) => ToReln(Numbers(x), n) = 0
    BY ToRelnIs
  <1>p. PICK L : L = NextL(x, n, s)
    OBVIOUS
  <1>q. PICK R : R = NextR(x, n, s)
    OBVIOUS
  <1>6. /\ L = IF n > a THEN m + 1 ELSE l
        /\ R = IF n < a THEN m - 1 ELSE r
    BY <1>1, <1>4, <1>p, <1>q DEF NextL, NextR
  <1>7. g[s] = IF n = a THEN m + 1 ELSE IF L < R THEN g[Half(L, R)] ELSE AtEnd(x, n, s)
    BY <1>1, <1>4, <1>p, <1>q, BisectStep
  <1>8. AtEnd(x, n, s) = IF n = M(L + 1) THEN L + 1 ELSE 0
    BY <1>p DEF AtEnd
  <1>9. \A k \in 1..N : M(k) \in Nat
    BY <1>0
  <1>x. n <= M(N)
    OBVIOUS
  <1> HIDE DEF N, M
  <1>10. CASE n = a
    BY <1>3, <1>4, <1>5a, <1>7, <1>10
  \* The cell is in the upper half.
  <1>11. CASE n > a
    <2>1. L = m + 1 /\ R = r
      BY <1>6, <1>11
    <2>2. m + 1 < N
      <3>1. ASSUME m + 1 = N PROVE FALSE
        <4>1. a = M(N)
          BY <1>4, <3>1
        <4>2. n <= a
          BY <1>x, <4>1
        <4> QED BY <1>11, <4>2
      <3> QED BY <1>0, <1>3, <3>1
    <2>3. \A k \in 1..N : (k <= m + 1 => M(k) < n)
      <3>1. ASSUME NEW k \in 1..N, k <= m + 1 PROVE M(k) < n
        <4>1. M(k) <= a /\ M(k) \in Nat
          BY <1>3, <1>4, <1>5, <1>9, <3>1
        <4> QED BY <1>11, <4>1
      <3> QED BY <3>1
    <2>4. CASE L < R
      <3>1. Half(L, R) \in Halves /\ Half(L, R).left = L /\ Half(L, R).right = R
        BY <1>3, <2>1 DEF Half, Halves
      <3>2. Between(x, n, L, R)
        BY <1>2, <1>3, <2>1, <2>2, <2>3, <2>4 DEF Between, N, M
      <3>3. R - L < d
        <4>1. r - l <= d
          BY <1>1
        <4>2. r - (m + 1) < r - l
          BY <1>3
        <4>3. r - (m + 1) < d
          BY <4>1, <4>2
        <4> QED BY <2>1, <4>3
      <3>4. g[Half(L, R)] = ToReln(Numbers(x), n)
        BY <3>1, <3>2, <3>3
      <3> QED BY <1>7, <1>11, <2>4, <3>4
    <2>5. CASE ~(L < R)
      <3>1. r = m + 1
        BY <1>3, <2>1, <2>5
      <3>2. L + 1 \in 1..N /\ L + 1 = m + 2
        BY <1>0, <1>3, <2>1, <2>2
      <3>3. \A k \in 1..N : k # m + 2 => M(k) # n
        <4>1. ASSUME NEW k \in 1..N, k # m + 2 PROVE M(k) # n
          <5>1. CASE k <= m + 1
            BY <1>9, <2>3, <5>1
          <5>2. CASE k > m + 2
            BY <1>2, <1>9, <3>1, <5>2
          <5> QED BY <1>0, <1>3, <4>1, <5>1, <5>2
        <4> QED BY <4>1
      <3>4. g[s] = IF n = M(m + 2) THEN m + 2 ELSE 0
        BY <1>7, <1>8, <1>11, <2>5, <3>2
      <3>5. CASE n = M(m + 2)
        BY <1>5a, <3>2, <3>4, <3>5
      <3>6. CASE n # M(m + 2)
        BY <1>5b, <3>3, <3>4, <3>6
      <3> QED BY <3>5, <3>6
    <2> QED BY <2>4, <2>5
  \* The cell is in the lower half.
  <1>12. CASE n < a
    <2>1. L = l /\ R = m - 1
      BY <1>6, <1>12
    <2>3. \A k \in 1..N : (k > m => n < M(k))
      <3>1. ASSUME NEW k \in 1..N, k > m PROVE n < M(k)
        <4>1. a <= M(k) /\ M(k) \in Nat
          BY <1>0, <1>3, <1>4, <1>5, <1>9, <3>1
        <4> QED BY <1>12, <4>1
      <3> QED BY <3>1
    <2>4. CASE L < R
      <3>1. Half(L, R) \in Halves /\ Half(L, R).left = L /\ Half(L, R).right = R
        BY <1>3, <2>1 DEF Half, Halves
      <3>2. Between(x, n, L, R)
        <4>1. \A k \in 1..N : k > R + 1 => k > m
          BY <1>3, <2>1
        <4>2. 0 <= L /\ L < N /\ R <= N
          BY <1>0, <1>2, <1>3, <2>1
        <4>3. \A k \in 1..N : k <= L => M(k) < n
          BY <1>2, <2>1
        <4> QED BY <2>3, <2>4, <4>1, <4>2, <4>3 DEF Between, N, M
      <3>3. R - L < d
        <4>1. r - l <= d
          BY <1>1
        <4>2. l <= m /\ m < r
          BY <1>3
        <4>3. (m - 1) - l < d
          BY <4>1, <4>2
        <4> QED BY <2>1, <4>3
      <3>4. g[Half(L, R)] = ToReln(Numbers(x), n)
        BY <3>1, <3>2, <3>3
      <3> QED BY <1>7, <1>12, <2>4, <3>4
    <2>5. CASE ~(L < R)
      <3>1. m = l \/ m = l + 1
        BY <1>3, <2>1, <2>5
      <3>2. L + 1 \in 1..N /\ L + 1 = l + 1
        BY <1>0, <1>2, <2>1
      <3>3. \A k \in 1..N : k # l + 1 => M(k) # n
        <4>1. ASSUME NEW k \in 1..N, k # l + 1 PROVE M(k) # n
          <5>1. CASE k <= l
            BY <1>2, <1>9, <5>1
          <5>2. CASE k > l + 1
            <6>1. k > m
              BY <3>1, <5>2
            <6> QED BY <1>9, <2>3, <6>1
          <5> QED BY <1>0, <4>1, <5>1, <5>2
        <4> QED BY <4>1
      <3>4. g[s] = IF n = M(l + 1) THEN l + 1 ELSE 0
        BY <1>7, <1>8, <1>12, <2>5, <3>2
      <3>5. CASE n = M(l + 1)
        BY <1>5a, <3>2, <3>4, <3>5
      <3>6. CASE n # M(l + 1)
        BY <1>5b, <3>3, <3>4, <3>6
      <3> QED BY <3>5, <3>6
    <2> QED BY <2>4, <2>5
  <1> QED BY <1>4, <1>10, <1>11, <1>12

\* Bisecting an index with rising numbers finds a number where it is.
LEMMA FindGood ==
    ASSUME NEW x, Rising(x), NEW n \in Nat
    PROVE  find_msgn(x, n) = ToReln(Numbers(x), n)
  <1>0. Len(x) \in Nat /\ x \in Seq(Entries) /\ \A i \in 1..Len(x) : x[i].msgno \in Nat /\ 0 < x[i].msgno
    BY RisingNat DEF Rising
  <1>1. PICK g : /\ Bisects(g, x, n)
                 /\ find_msgn(x, n) = IF x = <<>> \/ n = 0 \/ n > x[Len(x)].msgno THEN 0
                                      ELSE g[Half(0, Len(x))]
    BY FindIs
  <1>2. CASE x = <<>> \/ n = 0 \/ n > x[Len(x)].msgno
    <2>1. ASSUME NEW k \in 1..Len(x) PROVE x[k].msgno # n
      <3>1. Len(x) \in 1..Len(x) /\ k <= Len(x) /\ x # <<>>
        BY <1>0
      <3>2. x[k].msgno <= x[Len(x)].msgno
        BY <3>1, RisingNat
      <3>3. PICK a \in Nat, c \in Nat : a = x[k].msgno /\ c = x[Len(x)].msgno /\ 0 < a
        BY <1>0, <3>1
      <3> QED BY <1>2, <3>1, <3>2, <3>3
    <2>2. ToReln(Numbers(x), n) = 0
      BY <2>1, ToRelnIs
    <2> QED BY <1>1, <1>2, <2>2
  <1>3. CASE ~(x = <<>> \/ n = 0 \/ n > x[Len(x)].msgno)
    <2>0. x # <<>> /\ Len(x) >= 1 /\ n <= x[Len(x)].msgno
      <3>1. x # <<>> /\ Len(x) >= 1
        BY <1>0, <1>3
      <3>2. PICK c \in Nat : c = x[Len(x)].msgno
        BY <1>0, <3>1
      <3> QED BY <1>3, <3>1, <3>2
    <2> DEFINE S == {d \in Nat : \A s \in Halves : Between(x, n, s.left, s.right) /\ s.right - s.left < d
                                     => g[s] = ToReln(Numbers(x), n)}
    <2>1. 0 \in S
      <3>1. ASSUME NEW s \in Halves, Between(x, n, s.left, s.right) PROVE ~(s.right - s.left < 0)
        <4>1. s.left \in Nat /\ s.right \in Int /\ s.left < s.right
          BY <3>1 DEF Halves, Between
        <4> QED BY <4>1
      <3> QED BY <3>1
    <2>2. ASSUME NEW d \in Nat, d \in S PROVE d + 1 \in S
      <3>1. ASSUME NEW s \in Halves, Between(x, n, s.left, s.right), s.right - s.left < d + 1
            PROVE  g[s] = ToReln(Numbers(x), n)
        <4>1. s.right - s.left <= d
          <5>1. s.left \in Nat /\ s.right \in Int
            BY DEF Halves
          <5> QED BY <3>1, <5>1
        <4>2. \A t \in Halves : Between(x, n, t.left, t.right) /\ t.right - t.left < d
                                    => g[t] = ToReln(Numbers(x), n)
          BY <2>2
        <4> QED BY <1>1, <2>0, <3>1, <4>1, <4>2, BisectGood
      <3> QED BY <3>1
    <2>3. Nat \subseteq S
      <3> HIDE DEF S
      <3> QED BY <2>1, <2>2, Induction
    <2>4. Half(0, Len(x)) \in Halves /\ Half(0, Len(x)).left = 0 /\ Half(0, Len(x)).right = Len(x)
      BY <1>0 DEF Half, Halves
    <2>5. Between(x, n, 0, Len(x))
      BY <1>0, <2>0 DEF Between
    <2>6. Len(x) + 1 \in S /\ Len(x) - 0 < Len(x) + 1
      BY <1>0, <2>3
    <2> QED BY <1>1, <1>3, <2>4, <2>5, <2>6
  <1> QED BY <1>2, <1>3

-----------------------------------------------------------------------------
\* Scanning the index, and following the free chain.

\* Scanning an index with rising numbers finds all of them.
LEMMA ScanIs ==
    ASSUME NEW x, Rising(x)
    PROVE  Scan(x) = Numbers(x) /\ Numbers(x) \in Seq(Nat) /\ Len(Numbers(x)) = Len(x)
  <1> DEFINE rising(n) == \A i \in 1..n : x[i].msgno > IF i = 1 THEN 0 ELSE x[i - 1].msgno
             N == Len(x)
             upto == CHOOSE n \in 0..N : rising(n) /\ \A m \in (n + 1)..N : ~rising(m)
  <1>0. N \in Nat /\ DOMAIN x = 1..N /\ \A i \in 1..N : x[i].msgno \in Nat
    BY RisingNat
  <1>1. rising(N)
    <2>1. ASSUME NEW i \in 1..N PROVE x[i].msgno > IF i = 1 THEN 0 ELSE x[i - 1].msgno
      <3>1. CASE i = 1
        <4>1. PICK a \in Nat : a = x[i].msgno /\ 0 < a
          BY <1>0 DEF Rising
        <4> QED BY <3>1, <4>1
      <3>2. CASE i # 1
        <4>1. i - 1 \in 1..N /\ i - 1 < i
          BY <1>0, <3>2
        <4>2. PICK a \in Nat, c \in Nat : a = x[i].msgno /\ c = x[i - 1].msgno
          BY <1>0, <4>1
        <4>3. c < a
          BY <4>1, <4>2 DEF Rising
        <4> QED BY <3>2, <4>2, <4>3
      <3> QED BY <3>1, <3>2
    <2> QED BY <2>1
  <1> HIDE DEF rising
  <1>2. \A n \in 0..N : (\A m \in (n + 1)..N : ~rising(m)) => n = N
    <2>1. ASSUME NEW n \in 0..N, n # N PROVE N \in (n + 1)..N
      BY <1>0, <2>1
    <2> QED BY <1>1, <2>1
  <1>3. upto = N
    <2>1. N \in 0..N /\ \A m \in (N + 1)..N : ~rising(m)
      BY <1>0
    <2> QED BY <1>1, <1>2, <2>1
  <1>4. Scan(x) = IF upto = 1 /\ Len(x) > 1 /\ x[2].msgno = x[1].msgno THEN <<>>
                  ELSE SubSeq(Numbers(x), 1, upto)
    BY Zenon DEF Scan, rising, upto, N
  <1>5. ~(upto = 1 /\ Len(x) > 1)
    <2>1. ~(N = 1 /\ N > 1)
      BY <1>0
    <2> QED BY <1>3, <2>1, Zenon DEF N
  <1>6. Numbers(x) \in Seq(Nat) /\ Len(Numbers(x)) = N
    <2>1. Numbers(x) = [i \in 1..N |-> x[i].msgno]
      BY <1>0 DEF Numbers
    <2> QED BY <1>0, <2>1
  <1>7. SubSeq(Numbers(x), 1, N) = Numbers(x)
    <2> DEFINE z == Numbers(x)
    <2>1. z \in Seq(Nat) /\ Len(z) = N
      BY <1>6
    <2> HIDE DEF z, N
    <2>2. SubSeq(z, 1, Len(z)) = z
      BY <2>1
    <2> QED BY <2>1, <2>2 DEF z
  <1> QED BY <1>3, <1>4, <1>5, <1>6, <1>7 DEF N

\* The offsets along a chain of free frames, ...
Along(f, first, g) == g = [n \in Nat |-> IF n = 0 THEN first ELSE read_frm(f, g[n - 1]).next]

LEMMA AlongIs ==
    ASSUME NEW f, Table(f), NEW F, NEW first, NEW last, Chain(f, F, first, last)
    PROVE  /\ Along(f, first, [n \in Nat |-> Pos(F, n + 1)])
           /\ \A g : Along(f, first, g) => \A n \in Nat : g[n] = Pos(F, n + 1)
  <1>1. \A n \in Nat \ {0} : read_frm(f, Pos(F, (n - 1) + 1)).next = Pos(F, n + 1)
    <2>1. ASSUME NEW n \in Nat \ {0} PROVE read_frm(f, Pos(F, n)).next = Pos(F, n + 1)
      <3>1. Len(F) \in Nat
        BY DEF Chain
      <3>2. CASE n \in 1..Len(F)
        BY <3>2 DEF Chain, Pos, read_frm
      <3>3. CASE n \notin 1..Len(F)
        <4>1. Pos(F, n) = SQFRAME_NULL /\ Pos(F, n + 1) = SQFRAME_NULL
          BY <3>1, <3>3 DEF Pos
        <4>2. SQFRAME_NULL \notin DOMAIN f
          BY DEF Table
        <4> QED BY <4>1, <4>2 DEF read_frm, init_frm
      <3> QED BY <3>2, <3>3
    <2>2. \A n \in Nat \ {0} : (n - 1) + 1 = n
      OBVIOUS
    <2> QED BY <2>1, <2>2
  <1>2. first = Pos(F, 0 + 1)
    <2>1. first = Pos(F, 1) /\ 0 + 1 = 1
      BY DEF Chain
    <2> QED BY <2>1
  <1>3. Along(f, first, [n \in Nat |-> Pos(F, n + 1)])
    <2> DEFINE g == [n \in Nat |-> Pos(F, n + 1)]
    <2>1. ASSUME NEW n \in Nat PROVE g[n] = IF n = 0 THEN first ELSE read_frm(f, g[n - 1]).next
      <3>1. CASE n = 0
        BY <1>2, <3>1
      <3>2. CASE n # 0
        <4>1. n \in Nat \ {0} /\ n - 1 \in Nat
          BY <3>2
        <4>2. g[n - 1] = Pos(F, (n - 1) + 1)
          BY <4>1
        <4> QED BY <1>1, <3>2, <4>1, <4>2
      <3> QED BY <3>1, <3>2
    <2>2. g = [n \in Nat |-> g[n]]
      OBVIOUS
    <2> HIDE DEF g
    <2>3. g = [n \in Nat |-> IF n = 0 THEN first ELSE read_frm(f, g[n - 1]).next]
      BY <2>1, <2>2
    <2>4. Along(f, first, g)
      BY <2>3, Zenon DEF Along
    <2> QED BY <2>4 DEF g
  <1>4. ASSUME NEW g, Along(f, first, g) PROVE \A n \in Nat : g[n] = Pos(F, n + 1)
    <2>0. g = [n \in Nat |-> IF n = 0 THEN first ELSE read_frm(f, g[n - 1]).next]
      BY <1>4, Zenon DEF Along
    <2>1. \A n \in Nat : g[n] = IF n = 0 THEN first ELSE read_frm(f, g[n - 1]).next
      BY <2>0, Zenon
    <2> DEFINE S == {n \in Nat : g[n] = Pos(F, n + 1)}
    <2>2. 0 \in S
      BY <1>2, <2>1
    <2>3. ASSUME NEW n \in Nat, n \in S PROVE n + 1 \in S
      <3>1. n + 1 \in Nat \ {0} /\ (n + 1) - 1 = n
        OBVIOUS
      <3>2. g[n + 1] = read_frm(f, g[n]).next
        BY <2>1, <3>1
      <3>3. read_frm(f, Pos(F, n + 1)).next = Pos(F, (n + 1) + 1)
        BY <1>1, <3>1
      <3> QED BY <2>3, <3>2, <3>3
    <2>4. Nat \subseteq S
      <3> HIDE DEF S
      <3> QED BY <2>2, <2>3, Induction
    <2> QED BY <2>4
  <1> QED BY <1>3, <1>4

\* ... as many as there are.
LEMMA ChainShort ==
    ASSUME NEW f, Table(f), NEW F, NEW first, NEW last, Chain(f, F, first, last)
    PROVE  Len(F) \in Nat /\ Cardinality(DOMAIN f) \in Nat /\ Len(F) <= Cardinality(DOMAIN f)
  <1>1. F \in Seq(Nat) /\ IsFiniteSet(DOMAIN f)
    BY DEF Chain, Table
  <1>2. Len(F) \in Nat /\ DOMAIN F = 1..Len(F) /\ \A i \in 1..Len(F) : F[i] \in DOMAIN f
    BY <1>1 DEF Chain
  <1>3. F \in [1..Len(F) -> DOMAIN f]
    BY <1>1, <1>2
  <1>4. F \in Injection(1..Len(F), DOMAIN f)
    BY <1>2, <1>3 DEF Chain, Injection, IsInjective
  <1>5. Cardinality(DOMAIN f) \in Nat
    BY <1>1, FS_CardinalityType
  <1>6. Cardinality(1..Len(F)) <= Cardinality(DOMAIN f)
    BY <1>1, <1>4, FS_Injection
  <1>7. Cardinality(1..Len(F)) = Len(F)
    <2>1. PICK n \in Nat : n = Len(F)
      BY <1>2
    <2>2. Cardinality(1..n) = IF 1 > n THEN 0 ELSE (n - 1) + 1
      BY FS_Interval
    <2>3. Cardinality(1..n) = n
      BY <2>2
    <2> QED BY <2>1, <2>3
  <1> QED BY <1>2, <1>5, <1>6, <1>7

LEMMA FreeIs ==
    ASSUME NEW p, Table(frm), NEW F, NEW last,
           Chain(frm, F, data[p].base.firstfreeframe, last)
    PROVE  Free(p) = F
  <1> DEFINE first == data[p].base.firstfreeframe
             N == Cardinality(DOMAIN frm)
             along == CHOOSE g : g = [n \in Nat |-> IF n = 0 THEN first ELSE read_frm(frm, g[n - 1]).next]
             steps == {n \in 0..N : \A m \in 0..n : along[m] \in DOMAIN frm}
  <1>0. Chain(frm, F, first, last)
    OBVIOUS
  <1>1. Free(p) = [i \in 1..Cardinality(steps) |-> along[i - 1]]
    BY Zenon DEF Free, steps, along, N, first
  <1> HIDE DEF first
  <1>2. Along(frm, first, along)
    <2>1. Along(frm, first, [n \in Nat |-> Pos(F, n + 1)])
      BY <1>0, AlongIs
    <2>2. \E g : g = [n \in Nat |-> IF n = 0 THEN first ELSE read_frm(frm, g[n - 1]).next]
      BY <2>1, Zenon DEF Along
    <2>3. along = [n \in Nat |-> IF n = 0 THEN first ELSE read_frm(frm, along[n - 1]).next]
      BY <2>2, Zenon
    <2> HIDE DEF along
    <2> QED BY <2>3, Zenon DEF Along
  <1> HIDE DEF along
  <1>3. \A n \in Nat : along[n] = Pos(F, n + 1)
    <2>1. \A g : Along(frm, first, g) => \A n \in Nat : g[n] = Pos(F, n + 1)
      BY <1>0, AlongIs, Zenon
    <2> QED BY <1>2, <2>1, Zenon
  <1>4. Len(F) \in Nat /\ N \in Nat /\ Len(F) <= N
    BY <1>0, ChainShort
  <1>5. \A n \in Nat : along[n] \in DOMAIN frm <=> n + 1 \in 1..Len(F)
    <2>1. \A i \in 1..Len(F) : F[i] \in DOMAIN frm
      BY <1>0 DEF Chain
    <2>2. SQFRAME_NULL \notin DOMAIN frm
      BY DEF Table
    <2> QED BY <1>3, <2>1, <2>2 DEF Pos
  <1>6. steps = 0..(Len(F) - 1)
    <2> HIDE DEF N
    <2>1. ASSUME NEW n \in steps PROVE n \in 0..(Len(F) - 1)
      <3>1. n \in 0..N /\ along[n] \in DOMAIN frm
        BY <1>4
      <3>2. n \in Nat
        BY <1>4, <3>1
      <3> QED BY <1>4, <1>5, <3>1, <3>2
    <2>2. ASSUME NEW n \in 0..(Len(F) - 1) PROVE n \in steps
      <3>1. n \in 0..N
        BY <1>4
      <3>2. ASSUME NEW m \in 0..n PROVE along[m] \in DOMAIN frm
        <4>1. m \in Nat /\ m + 1 \in 1..Len(F)
          BY <1>4
        <4> QED BY <1>5, <4>1
      <3> QED BY <3>1, <3>2
    <2> QED BY <2>1, <2>2
  <1>7. Cardinality(steps) = Len(F)
    <2>1. PICK n \in Nat : n = Len(F)
      BY <1>4
    <2>2. Cardinality(0..(n - 1)) = IF 0 > n - 1 THEN 0 ELSE ((n - 1) - 0) + 1
      BY FS_Interval
    <2>3. Cardinality(0..(n - 1)) = n
      BY <2>2
    <2> HIDE DEF steps
    <2> QED BY <1>6, <2>1, <2>3
  <1> HIDE DEF steps
  <1>8. \A i \in 1..Len(F) : along[i - 1] = F[i]
    <2>1. ASSUME NEW i \in 1..Len(F) PROVE along[i - 1] = F[i]
      <3>1. i - 1 \in Nat /\ (i - 1) + 1 = i
        BY <1>4
      <3> QED BY <1>3, <3>1 DEF Pos
    <2> QED BY <2>1
  <1>9. F = [i \in 1..Len(F) |-> F[i]]
    <2>1. F \in Seq(Nat)
      BY <1>0 DEF Chain
    <2> QED BY <2>1
  <1> QED BY <1>1, <1>7, <1>8, <1>9

\* A chain in the words of the properties.
LEMMA ChainedIs ==
    ASSUME NEW F, NEW first, NEW last, Chain(frm, F, first, last)
    PROVE  Chained(F, first, last)
  <1> DEFINE at(i) == IF i \in DOMAIN F THEN F[i] ELSE SQFRAME_NULL
  <1>1. F \in Seq(Nat)
    BY DEF Chain
  <1>2. DOMAIN F = 1..Len(F)
    BY <1>1
  <1>3. \A i : at(i) = Pos(F, i)
    BY <1>2 DEF Pos
  <1>4. first = at(1) /\ last = at(Len(F))
    BY <1>3 DEF Chain
  <1>5. \A i \in DOMAIN F : frm[F[i]].prev = at(i - 1) /\ frm[F[i]].next = at(i + 1)
    BY <1>2, <1>3 DEF Chain
  <1> QED BY <1>4, <1>5 DEF Chained

-----------------------------------------------------------------------------
\* What a sound base means in terms of the properties.

LEMMA TiledIs ==
    ASSUME NEW x, NEW F, NEW b, Sound(frm, b, x, F)
    PROVE  LET frames    == Range(Offs(x)) \cup Range(F)
               extent(o) == o..(o + FrmSize + frm[o].length - 1)
               file      == BaseSize..(b.endframe - 1)
           IN  /\ Range(Offs(x)) \cap Range(F) = {}
               /\ \A o \in frames : extent(o) \subseteq file
               /\ \A i \in file : Cardinality({o \in frames : i \in extent(o)}) = 1
  <1> DEFINE X == Spots(x, F)
             extent(o) == o..(o + FrmSize + frm[o].length - 1)
             end == b.endframe
             file == BaseSize..(end - 1)
  <1>0. FrmSize \in Nat /\ FrmSize > 0 /\ BaseSize \in Nat
    BY SizeAssumption
  <1>1. Sound0(frm, b, x, F) /\ Tiles(frm, X, end)
    BY DEF Sound
  <1>2. Range(Offs(x)) = {x[i].offset : i \in 1..Len(x)}
    BY DEF Offs, Range
  <1>3. Range(F) = {F[i] : i \in 1..Len(F)}
    <2>1. F \in Seq(Nat)
      BY <1>1 DEF Sound0, Chain
    <2>2. DOMAIN F = 1..Len(F)
      BY <2>1
    <2> QED BY <2>2 DEF Range
  <1>4. Range(Offs(x)) \cup Range(F) = X
    BY <1>2, <1>3 DEF Spots
  <1>5. Range(Offs(x)) \cap Range(F) = {}
    BY <1>1, <1>2, <1>3 DEF Sound0
  <1>6. end \in Nat /\ \A o \in X : /\ o \in Nat /\ frm[o].length \in Nat
                                    /\ BaseSize <= o /\ o + FrmSize + frm[o].length <= end
    <2>1. \A o \in X : o \in Nat /\ frm[o].length \in Nat
      BY <1>1, SpotsIn
    <2> QED BY <1>1, <2>1 DEF Tiles
  <1>7. \A o \in X : \A i \in file : i \in extent(o) <=> Within(frm, o, i)
    <2>1. ASSUME NEW o \in X, NEW i \in file PROVE i \in extent(o) <=> Within(frm, o, i)
      <3>1. PICK l \in Nat, e \in Nat : l = frm[o].length /\ e = end /\ o \in Nat
        BY <1>6
      <3>2. i \in Int
        BY <1>0, <3>1
      <3>3. i \in o..(o + FrmSize + l - 1) <=> (o <= i /\ i < o + FrmSize + l)
        BY <1>0, <3>1, <3>2
      <3> QED BY <3>1, <3>3 DEF Within
    <2> QED BY <2>1
  <1>8. \A o \in X : extent(o) \subseteq file
    <2>1. ASSUME NEW o \in X PROVE extent(o) \subseteq file
      <3>1. PICK l \in Nat, e \in Nat : /\ l = frm[o].length /\ e = end /\ o \in Nat
                                        /\ BaseSize <= o /\ o + FrmSize + l <= e
        BY <1>6
      <3>2. o..(o + FrmSize + l - 1) \subseteq BaseSize..(e - 1)
        BY <1>0, <3>1
      <3> QED BY <3>1, <3>2
    <2> QED BY <2>1
  <1> HIDE DEF X, file, end, extent
  <1>9. ASSUME NEW i \in file PROVE Cardinality({o \in X : i \in extent(o)}) = 1
    <2>1. /\ \E o \in X : Within(frm, o, i)
          /\ \A o, u \in X : Within(frm, o, i) /\ Within(frm, u, i) => o = u
      <3>1. i \in BaseSize..(end - 1)
        BY DEF file
      <3>2. \A y \in BaseSize..(end - 1) : \E o \in X : Within(frm, o, y)
        BY <1>1 DEF Tiles
      <3>3. \A o, u \in X : \A y \in Nat : Within(frm, o, y) /\ Within(frm, u, y) => o = u
        BY <1>1 DEF Tiles
      <3>4. i \in Nat
        BY <1>0, <1>6, <3>1
      <3> QED BY <3>1, <3>2, <3>3, <3>4, Zenon
    <2>2. PICK u \in X : Within(frm, u, i)
      BY <2>1
    <2>3. {o \in X : i \in extent(o)} = {u}
      BY <1>7, <2>1, <2>2
    <2>4. Cardinality({u}) = 1
      BY FS_Singleton
    <2> QED BY <2>3, <2>4
  <1> QED BY <1>4, <1>5, <1>8, <1>9 DEF extent, file, end

\* What a sound base says of the properties, for one program.
LEMMA SoundSays ==
    ASSUME NEW p, NEW F, Sound(frm, data[p].base, data[p].idx, F)
    PROVE  /\ Chained(Offset(p), data[p].base.firstframe, data[p].base.lastframe)
           /\ Free(p) = F
           /\ Chained(Free(p), data[p].base.firstfreeframe, data[p].base.lastfreeframe)
           /\ \A i \in DOMAIN Free(p) : frm[Free(p)[i]].type = "free"
           /\ Offset(p) = Offs(data[p].idx)
           /\ \A i \in DOMAIN data[p].idx :
                LET fr == frm[data[p].idx[i].offset]
                IN  /\ fr.type = "normal" /\ fr.totsize <= fr.length
                    /\ fr.hdr = fr.txt /\ fr.hdr.msgno = data[p].idx[i].msgno
  <1> DEFINE b == data[p].base
             x == data[p].idx
  <1>1. Sound0(frm, b, x, F)
    BY DEF Sound
  <1>2. /\ Table(frm) /\ x \in Seq(Entries) /\ Chain(frm, Offs(x), b.firstframe, b.lastframe)
        /\ Chain(frm, F, b.firstfreeframe, b.lastfreeframe)
    BY <1>1 DEF Sound0
  <1>3. DOMAIN x = 1..Len(x)
    BY <1>2
  <1>4. Offset(p) = Offs(x)
    BY <1>3 DEF Offset, Offs
  <1>5. Free(p) = F
    BY <1>2, FreeIs
  <1>6. F \in Seq(Nat)
    BY <1>2 DEF Chain
  <1>7. DOMAIN F = 1..Len(F)
    BY <1>6
  <1>8. \A i \in DOMAIN F : frm[F[i]].type = "free"
    BY <1>1, <1>7 DEF Sound0
  <1>9. \A i \in 1..Len(x) : Holds(frm[x[i].offset], x[i].msgno)
    BY <1>1 DEF Sound0
  <1> HIDE DEF b, x
  <1>10. Chained(Offs(x), b.firstframe, b.lastframe) /\ Chained(F, b.firstfreeframe, b.lastfreeframe)
    BY <1>2, ChainedIs
  <1>11. \A i \in DOMAIN x : LET fr == frm[x[i].offset]
                             IN  /\ fr.type = "normal" /\ fr.totsize <= fr.length
                                 /\ fr.hdr = fr.txt /\ fr.hdr.msgno = x[i].msgno
    BY <1>3, <1>9 DEF Holds
  <1> QED BY <1>4, <1>5, <1>8, <1>10, <1>11 DEF b, x

LEMMA SoundRising ==
    ASSUME NEW f, NEW b, NEW x, NEW F, Sound0(f, b, x, F)
    PROVE  /\ Rising(x) /\ Len(x) \in Nat /\ b.totalmsgs = Len(x)
           /\ \A i \in 1..Len(x) : 0 < x[i].msgno /\ x[i].msgno < b.nextmsgno
  <1>1. x \in Seq(Entries) /\ Numbered(b, x)
    BY DEF Sound0
  <1>2. Len(x) \in Nat
    BY <1>1
  <1> QED BY <1>1, <1>2 DEF Rising, Numbered

-----------------------------------------------------------------------------
\* The invariant of one program alone: its base is sound, wherever it is.

Alone == MayCrash = {} /\ \E p : Proc = {p}

OpTypes == [mode : AllCalls \cup {"none"}, msg : Messages, size : Nat,
            old : Nat, oldfr : Frames, at : Nat, fr : Frames]
Copies  == [base : Bases, idx : Seq(Entries), msgn : Seq(Nat)]

\* What the call o of a program at k is about.
OpOK(f, b, x, k, o) ==
    k \in {"lock", "refresh", "index", "busy", "place"} =>
        /\ o.mode \in AllCalls
        /\ o.mode = "new" => o.msg.by \in Proc
        /\ o.mode \in {"hdr", "txt", "del", "timesread"} => \E i \in 1..Len(x) : o.msg = f[x[i].offset].txt
        /\ o.mode \in {"new", "txt"} => o.size \in Sizes
        /\ k \in {"busy", "place"} => o.mode # "lock"
        /\ k = "place" =>
             /\ o.mode \in {"new", "txt"}
             /\ o.mode = "new" => (b.maxmsgs # 0 => Len(x) < b.maxmsgs)
             /\ o.mode = "txt" => \E i \in 1..Len(x) : /\ o.old = x[i].offset /\ o.oldfr = f[o.old]
                                                       /\ o.msg = f[o.old].txt

\* With messages of one size, and a limit, there are no more frames than messages
\* at the start, or within the limit.
Uniform == Sizes = {MinSize} /\ MaxMsgs # 0 /\ ~Blank
Most    == IF Posted > MaxMsgs THEN Posted ELSE MaxMsgs
Grown(f, b, x, F, k, o) ==
    /\ b.maxmsgs = MaxMsgs /\ Alike(f, Spots(x, F), MinSize)
    /\ k # "place" => /\ b.endframe = At(Len(x) + Len(F) + 1)
                      /\ Len(x) + Len(F) <= Most
    /\ k = "place" => /\ o.mode = "new" /\ NewLen(b, o.at, o.fr, o.size) = MinSize
                      /\ NewEnd(b, o.at, o.size) = At(Len(x) + Len(F) + 2)
                      /\ Len(x) + Len(F) + 1 <= Most

Fresh(sb) == IF sb = NoBase THEN NewBase ELSE sb

\* The files f, sb and si of a program at k, with its copies d and its call o: b
\* and x are the base record and the index it has or would find, F the free chain.
Good(f, sb, si, k, d, o, b, x, F) ==
    /\ sb \in Bases /\ si \in Seq(Entries) /\ b.nextmsgno > 0
    /\ k = "closed" => d = NoData /\ b = Fresh(sb) /\ x = si
    /\ k = "opening" => d = [base |-> b, idx |-> <<>>, msgn |-> <<>>] /\ sb = b /\ si = x
    /\ k \notin {"closed", "opening"} => d = [base |-> b, idx |-> x, msgn |-> Numbers(x)]
    /\ k \in {"idle", "lock", "refresh", "index"} => sb = b /\ si = x
    /\ k = "writeindex" => sb = b
    /\ k # "place" => Sound(f, b, x, F)
    /\ k = "place" => HasRoom(f, b, x, F, o.at, o.fr, o.size)
    /\ OpOK(f, b, x, k, o)
    /\ Uniform => Grown(f, b, x, F, k, o)

Shapes ==
    /\ pc \in [Proc -> Pcs] /\ islocked \in [Proc -> BOOLEAN]
    /\ data \in [Proc -> Copies] /\ op \in [Proc -> OpTypes]
    /\ recycle \in Recycles /\ holder \in Proc \cup {NoProc}

SoundInv ==
    /\ Shapes
    /\ \A p \in Proc : \E b, x, F : Good(frm, sqb, sqi, pc[p], data[p], op[p], b, x, F)

-----------------------------------------------------------------------------
\* Each step of the program keeps the base sound, and is one of the list or none.

\* The messages of an index, and what may become of such a list.
Texts(f, x) == [i \in DOMAIN x |-> f[x[i].offset].txt]
ListStep(L, n, M, m) ==
    \/ M = L /\ m = n
    \/ \E a \in Proc \cup {"nobody"} : m = n + 1 /\ M = Append(L, [msgno |-> n + 1, by |-> a])
    \/ \E i \in DOMAIN L : M = RemoveAt(L, i) /\ m = n

\* What a step of p makes of its base.
Result(p, b, x) ==
    /\ Shapes'
    /\ \E c, y, G : /\ Good(frm', sqb', sqi', pc'[p], data'[p], op'[p], c, y, G)
                    /\ ListStep(Texts(frm, x), b.nextmsgno - 1, Texts(frm', y), c.nextmsgno - 1)

LEMMA Shaped ==
    ASSUME Shapes, NEW p \in Proc, NEW l \in Pcs, NEW d \in Copies, NEW o \in OpTypes, NEW z \in BOOLEAN,
           pc' = [pc EXCEPT ![p] = l], data' = [data EXCEPT ![p] = d], op' = [op EXCEPT ![p] = o],
           islocked' = [islocked EXCEPT ![p] = z],
           recycle' = recycle, holder' \in Proc \cup {NoProc}
    PROVE  Shapes' /\ pc'[p] = l /\ data'[p] = d /\ op'[p] = o
  BY DEF Shapes

LEMMA AsIs ==
    ASSUME Shapes, NEW p \in Proc
    PROVE  /\ pc[p] \in Pcs /\ data[p] \in Copies /\ op[p] \in OpTypes /\ islocked[p] \in BOOLEAN
           /\ data = [data EXCEPT ![p] = data[p]] /\ op = [op EXCEPT ![p] = op[p]]
           /\ islocked = [islocked EXCEPT ![p] = islocked[p]]
           /\ pc = [pc EXCEPT ![p] = pc[p]]
           /\ holder \in Proc \cup {NoProc} /\ p \in DOMAIN data /\ p \in DOMAIN op
  BY DEF Shapes

LEMMA Concludes ==
    ASSUME Shapes, NEW p \in Proc, NEW b, NEW x, NEW l \in Pcs, NEW d \in Copies, NEW o \in OpTypes,
           NEW z \in BOOLEAN,
           pc' = [pc EXCEPT ![p] = l], data' = [data EXCEPT ![p] = d], op' = [op EXCEPT ![p] = o],
           islocked' = [islocked EXCEPT ![p] = z],
           recycle' = recycle, holder' \in Proc \cup {NoProc},
           NEW c, NEW y, NEW G, Good(frm', sqb', sqi', l, d, o, c, y, G),
           ListStep(Texts(frm, x), b.nextmsgno - 1, Texts(frm', y), c.nextmsgno - 1)
    PROVE  Result(p, b, x)
  <1>1. Shapes' /\ pc'[p] = l /\ data'[p] = d /\ op'[p] = o
    BY Shaped
  <1> QED BY <1>1 DEF Result

\* A message of the index is found there, by bisecting it and in Msgn.
LEMMA Located ==
    ASSUME NEW f, NEW b, NEW x, NEW F, Sound0(f, b, x, F), NEW k \in 1..Len(x)
    PROVE  LET n == f[x[k].offset].txt.msgno
           IN  n = x[k].msgno /\ find_msgn(x, n) = k /\ ToReln(Numbers(x), n) = k /\ k # 0 /\ k \in DOMAIN x
  <1>1. Rising(x)
    BY SoundRising
  <1>2. Holds(f[x[k].offset], x[k].msgno)
    BY DEF Sound0
  <1>3. f[x[k].offset].txt.msgno = x[k].msgno
    BY <1>2 DEF Holds
  <1>4. x[k].msgno \in Nat /\ DOMAIN x = 1..Len(x) /\ Len(x) \in Nat
    BY <1>1, RisingNat
  <1>5. find_msgn(x, x[k].msgno) = ToReln(Numbers(x), x[k].msgno)
    BY <1>1, <1>4, FindGood
  <1>6. ToReln(Numbers(x), x[k].msgno) = k
    BY <1>1, ToRelnIs
  <1> QED BY <1>3, <1>4, <1>5, <1>6

\* The program goes from one place to another, and nothing else happens.
LEMMA GoodGoes ==
    ASSUME NEW f, NEW sb, NEW si, NEW k, NEW d, NEW o, NEW b, NEW x, NEW F,
           Good(f, sb, si, k, d, o, b, x, F), NEW l,
           \/ k = "lock" /\ l = "refresh"
           \/ k = "held" /\ l = "unlock"
           \/ k = "unlock" /\ l = "writebase"
    PROVE  Good(f, sb, si, l, d, o, b, x, F)
  <1>1. OpOK(f, b, x, l, o)
    BY DEF Good, OpOK
  <1>2. Uniform => Grown(f, b, x, F, l, o)
    BY DEF Good, Grown
  <1> QED BY <1>1, <1>2 DEF Good

LEMMA PcStep ==
    ASSUME Shapes, NEW p \in Proc, NEW b, NEW x, NEW F,
           Good(frm, sqb, sqi, pc[p], data[p], op[p], b, x, F),
           Acquire(p) \/ AreaUnlock(p) \/ Unlock(p)
    PROVE  Result(p, b, x)
  <1> USE AsIs
  <1>1. PICK l \in Pcs : /\ pc' = [pc EXCEPT ![p] = l]
                         /\ \/ pc[p] = "lock" /\ l = "refresh"
                            \/ pc[p] = "held" /\ l = "unlock"
                            \/ pc[p] = "unlock" /\ l = "writebase"
    BY DEF Acquire, AreaUnlock, Unlock, Pcs
  <1>2. /\ UNCHANGED <<files, data, op, islocked, recycle>>
        /\ holder' \in Proc \cup {NoProc}
    BY DEF Acquire, AreaUnlock, Unlock
  <1>3. Good(frm, sqb, sqi, l, data[p], op[p], b, x, F)
    BY <1>1, GoodGoes
  <1>4. Good(frm', sqb', sqi', l, data[p], op[p], b, x, F)
    BY <1>2, <1>3 DEF files
  <1>5. ListStep(Texts(frm, x), b.nextmsgno - 1, Texts(frm', x), b.nextmsgno - 1)
    BY <1>2 DEF ListStep, files
  <1>6. /\ data' = [data EXCEPT ![p] = data[p]] /\ op' = [op EXCEPT ![p] = op[p]]
        /\ islocked' = [islocked EXCEPT ![p] = islocked[p]] /\ recycle' = recycle
    BY <1>2
  <1> QED BY <1>1, <1>2, <1>4, <1>5, <1>6, Concludes

LEMMA IndexIs ==
    ASSUME NEW p, sqi \in Seq(Entries), data[p].base.totalmsgs = Len(sqi)
    PROVE  Index(p) = sqi
  <1>1. DOMAIN sqi = 1..Len(sqi) /\ sqi = [i \in 1..Len(sqi) |-> sqi[i]]
    OBVIOUS
  <1>2. Index(p) = [i \in 1..Len(sqi) |-> IF i \in DOMAIN sqi THEN sqi[i] ELSE Junk]
    BY Zenon DEF Index
  <1> QED BY <1>1, <1>2

\* What is sound of every place.
LEMMA GoodSays ==
    ASSUME NEW f, NEW sb, NEW si, NEW k, NEW d, NEW o, NEW b, NEW x, NEW F,
           Good(f, sb, si, k, d, o, b, x, F)
    PROVE  /\ Sound0(f, b, x, F) /\ b \in Bases /\ x \in Seq(Entries) /\ Len(x) \in Nat
           /\ b.totalmsgs = Len(x) /\ Numbers(x) \in Seq(Nat) /\ Scan(x) = Numbers(x)
           /\ b # NoBase /\ sb \in Bases /\ si \in Seq(Entries) /\ DOMAIN x = 1..Len(x)
  <1>1. Sound0(f, b, x, F) /\ sb \in Bases /\ si \in Seq(Entries)
    BY DEF Good, Sound, HasRoom
  <1>2. b \in Bases /\ x \in Seq(Entries)
    BY <1>1 DEF Sound0
  <1>3. Rising(x) /\ Len(x) \in Nat /\ b.totalmsgs = Len(x)
    BY <1>1, SoundRising
  <1>4. b # NoBase
    <2>1. CASE k = "place"
      <3>1. NewEnd(b, o.at, o.size) \in Nat /\ BaseSize <= NewEnd(b, o.at, o.size)
        BY <2>1 DEF Good, HasRoom, Tiles
      <3>2. o.at \in Nat \ {SQFRAME_NULL}
        BY <2>1 DEF Good, HasRoom
      <3>3. BaseSize \in Nat \ {0}
        BY SizeAssumption
      <3>4. b.endframe # 0
        BY <3>1, <3>2, <3>3 DEF NewEnd, SQFRAME_NULL
      <3>5. NoBase.endframe = 0
        BY DEF NoBase, NewBase
      <3> QED BY <3>4, <3>5
    <2>2. CASE k # "place"
      <3>1. b.endframe \in Nat /\ BaseSize <= b.endframe
        BY <2>2 DEF Good, Sound, Tiles
      <3>2. NoBase.endframe = 0
        BY DEF NoBase, NewBase
      <3> QED BY <3>1, <3>2, SizeAssumption
    <2> QED BY <2>1, <2>2
  <1> QED BY <1>1, <1>2, <1>3, <1>4, ScanIs, RisingNat

\* From here to there with other copies, when there is no call.
LEMMA GoodTurns ==
    ASSUME NEW f, NEW sb, NEW si, NEW k, NEW d, NEW o, NEW b, NEW x, NEW F,
           Good(f, sb, si, k, d, o, b, x, F), k # "place", NEW l, NEW e, NEW tb, NEW ti, NEW u,
           tb \in Bases, ti \in Seq(Entries),
           \/ l = "closed" /\ e = NoData /\ b = Fresh(tb) /\ x = ti
           \/ l = "opening" /\ e = [base |-> b, idx |-> <<>>, msgn |-> <<>>] /\ tb = b /\ ti = x
           \/ l \in {"idle", "held", "busy", "unlock", "writebase", "lock", "index", "writeindex"}
              /\ e = [base |-> b, idx |-> x, msgn |-> Numbers(x)]
              /\ (l \in {"idle", "lock", "index", "writeindex"} => tb = b)
              /\ (l \in {"idle", "lock", "index"} => ti = x),
           OpOK(f, b, x, l, u)
    PROVE  Good(f, tb, ti, l, e, u, b, x, F)
  <1>1. Uniform => Grown(f, b, x, F, l, u)
    BY DEF Good, Grown
  <1>2. Sound(f, b, x, F) /\ b.nextmsgno > 0 /\ l # "place" /\ l # "refresh"
    BY DEF Good
  <1> QED BY <1>1, <1>2 DEF Good

LEMMA OpenStep ==
    ASSUME Shapes, NEW p \in Proc, NEW b, NEW x, NEW F,
           Good(frm, sqb, sqi, pc[p], data[p], op[p], b, x, F), Open(p)
    PROVE  Result(p, b, x)
  <1> DEFINE e == [base |-> b, idx |-> <<>>, msgn |-> <<>>]
  <1> USE AsIs
  <1>1. b = Fresh(sqb) /\ data[p] = NoData /\ x = sqi
    BY DEF Open, Good
  <1>2. /\ pc' = [pc EXCEPT ![p] = "opening"] /\ sqb' = b /\ data' = [data EXCEPT ![p].base = b]
        /\ UNCHANGED <<frm, sqi, holder, recycle, islocked, op>>
    BY <1>1 DEF Open, ReadBase, Fresh
  <1>3. b \in Bases /\ x \in Seq(Entries)
    BY GoodSays
  <1>4. [data[p] EXCEPT !.base = b] = e
    BY <1>1 DEF NoData
  <1>5. data' = [data EXCEPT ![p] = e]
    BY <1>2, <1>4
  <1>6. e \in Copies /\ "opening" \in Pcs
    BY <1>3 DEF Copies, Pcs
  <1>7. OpOK(frm, b, x, "opening", op[p])
    BY DEF OpOK
  <1>8. pc[p] # "place"
    BY DEF Open
  <1>9. Good(frm, b, sqi, "opening", e, op[p], b, x, F)
    BY <1>1, <1>3, <1>7, <1>8, GoodTurns
  <1>10. Good(frm', sqb', sqi', "opening", e, op[p], b, x, F)
    BY <1>2, <1>9
  <1>11. ListStep(Texts(frm, x), b.nextmsgno - 1, Texts(frm', x), b.nextmsgno - 1)
    BY <1>2 DEF ListStep
  <1> HIDE DEF e
  <1>12. /\ op' = [op EXCEPT ![p] = op[p]] /\ islocked' = [islocked EXCEPT ![p] = islocked[p]]
         /\ recycle' = recycle /\ holder' \in Proc \cup {NoProc}
    BY <1>2
  <1> QED BY <1>2, <1>5, <1>6, <1>10, <1>11, <1>12, Concludes

LEMMA OpenScanStep ==
    ASSUME Shapes, NEW p \in Proc, NEW b, NEW x, NEW F,
           Good(frm, sqb, sqi, pc[p], data[p], op[p], b, x, F), OpenScan(p)
    PROVE  Result(p, b, x)
  <1> DEFINE e == [base |-> b, idx |-> x, msgn |-> Numbers(x)]
  <1> USE AsIs
  <1>1. b = sqb /\ data[p] = [base |-> b, idx |-> <<>>, msgn |-> <<>>] /\ x = sqi
    BY DEF OpenScan, Good
  <1>2. b \in Bases /\ x \in Seq(Entries) /\ Numbers(x) \in Seq(Nat) /\ Scan(x) = Numbers(x)
        /\ b.totalmsgs = Len(x)
    BY GoodSays
  <1>3. Index(p) = x
    BY <1>1, <1>2, IndexIs
  <1>4. /\ pc' = [pc EXCEPT ![p] = "idle"]
        /\ data' = [data EXCEPT ![p].idx = x, ![p].msgn = Numbers(x)]
        /\ UNCHANGED <<files, holder, recycle, islocked, op>>
    BY <1>2, <1>3 DEF OpenScan
  <1>5. data' = [data EXCEPT ![p] = e]
    <2>1. [[data[p] EXCEPT !.idx = x] EXCEPT !.msgn = Numbers(x)] = e
      <3>1. PICK r : r = data[p]
        OBVIOUS
      <3>2. r = [base |-> b, idx |-> <<>>, msgn |-> <<>>]
        BY <1>1, <3>1
      <3>3. [[r EXCEPT !.idx = x] EXCEPT !.msgn = Numbers(x)] = e
        <4>1. PICK t : t = [r EXCEPT !.idx = x]
          OBVIOUS
        <4>2. t = [base |-> b, idx |-> x, msgn |-> <<>>]
          BY <3>2, <4>1
        <4>3. [t EXCEPT !.msgn = Numbers(x)] = e
          BY <4>2
        <4> QED BY <4>1, <4>3
      <3> HIDE DEF e
      <3> QED BY <3>1, <3>3
    <2> HIDE DEF e
    <2>2. data' = [[data EXCEPT ![p].idx = x] EXCEPT ![p].msgn = Numbers(x)]
      BY <1>4
    <2>3. [[data EXCEPT ![p].idx = x] EXCEPT ![p].msgn = Numbers(x)]
          = [data EXCEPT ![p] = [[data[p] EXCEPT !.idx = x] EXCEPT !.msgn = Numbers(x)]]
      OBVIOUS
    <2> QED BY <2>1, <2>2, <2>3
  <1>6. e \in Copies /\ "idle" \in Pcs
    BY <1>2 DEF Copies, Pcs
  <1>7. OpOK(frm, b, x, "idle", op[p])
    BY DEF OpOK
  <1>8. pc[p] # "place"
    BY DEF OpenScan
  <1>9. Good(frm, sqb, sqi, "idle", e, op[p], b, x, F)
    BY <1>1, <1>2, <1>7, <1>8, GoodTurns
  <1>10. Good(frm', sqb', sqi', "idle", e, op[p], b, x, F)
    BY <1>4, <1>9 DEF files
  <1>11. ListStep(Texts(frm, x), b.nextmsgno - 1, Texts(frm', x), b.nextmsgno - 1)
    BY <1>4 DEF ListStep, files
  <1> HIDE DEF e
  <1>12. /\ op' = [op EXCEPT ![p] = op[p]] /\ islocked' = [islocked EXCEPT ![p] = islocked[p]]
         /\ recycle' = recycle /\ holder' \in Proc \cup {NoProc}
    BY <1>4
  <1> QED BY <1>4, <1>5, <1>6, <1>10, <1>11, <1>12, Concludes

LEMMA CloseStep ==
    ASSUME Shapes, NEW p \in Proc, NEW b, NEW x, NEW F,
           Good(frm, sqb, sqi, pc[p], data[p], op[p], b, x, F), Close(p)
    PROVE  Result(p, b, x)
  <1> USE AsIs
  <1>1. b = sqb /\ x = sqi /\ pc[p] # "place"
    BY DEF Close, Good
  <1>2. /\ pc' = [pc EXCEPT ![p] = "closed"] /\ data' = [data EXCEPT ![p] = NoData]
        /\ UNCHANGED <<files, holder, recycle, islocked, op>>
    BY DEF Close
  <1>3. b \in Bases /\ x \in Seq(Entries) /\ b # NoBase
    BY GoodSays
  <1>4. NoData \in Copies /\ "closed" \in Pcs
    <2>1. NoBase \in Bases
      BY SizeAssumption DEF NoBase, NewBase, Bases, SQFRAME_NULL
    <2>2. <<>> \in Seq(Entries) /\ <<>> \in Seq(Nat)
      OBVIOUS
    <2> QED BY <2>1, <2>2 DEF NoData, Copies, Pcs
  <1>5. b = Fresh(sqb)
    BY <1>1, <1>3 DEF Fresh
  <1>6. OpOK(frm, b, x, "closed", op[p])
    BY DEF OpOK
  <1>7. Good(frm, sqb, sqi, "closed", NoData, op[p], b, x, F)
    <2>1. sqb \in Bases /\ sqi \in Seq(Entries)
      BY <1>1, <1>3
    <2> QED BY <1>1, <1>5, <1>6, <2>1, GoodTurns
  <1>8. Good(frm', sqb', sqi', "closed", NoData, op[p], b, x, F)
    BY <1>2, <1>7 DEF files
  <1>9. ListStep(Texts(frm, x), b.nextmsgno - 1, Texts(frm', x), b.nextmsgno - 1)
    BY <1>2 DEF ListStep, files
  <1>12. /\ op' = [op EXCEPT ![p] = op[p]] /\ islocked' = [islocked EXCEPT ![p] = islocked[p]]
         /\ recycle' = recycle /\ holder' \in Proc \cup {NoProc}
    BY <1>2
  <1> QED BY <1>2, <1>4, <1>8, <1>9, <1>12, Concludes

LEMMA RefreshStep ==
    ASSUME Shapes, NEW p \in Proc, NEW b, NEW x, NEW F,
           Good(frm, sqb, sqi, pc[p], data[p], op[p], b, x, F), Refresh(p)
    PROVE  Result(p, b, x)
  <1> USE AsIs
  <1>1. pc[p] = "refresh" /\ data[p] = [base |-> b, idx |-> x, msgn |-> Numbers(x)] /\ sqb = b /\ sqi = x
    BY DEF Refresh, Good
  <1>2. b \in Bases /\ x \in Seq(Entries) /\ b # NoBase
    BY GoodSays
  <1>3. /\ pc' = [pc EXCEPT ![p] = "index"] /\ sqb' = b /\ data' = [data EXCEPT ![p].base = b]
        /\ UNCHANGED <<frm, sqi, holder, recycle, islocked, op>>
    BY <1>1, <1>2 DEF Refresh, ReadBase
  <1>4. [data[p] EXCEPT !.base = b] = data[p]
    BY <1>1
  <1>5. data' = [data EXCEPT ![p] = data[p]]
    BY <1>3, <1>4
  <1>6. OpOK(frm, b, x, "index", op[p])
    BY <1>1 DEF OpOK, Good
  <1>7. Good(frm, sqb, sqi, "index", data[p], op[p], b, x, F)
    <2>1. sqb \in Bases /\ sqi \in Seq(Entries)
      BY <1>1, <1>2
    <2> QED BY <1>1, <1>6, <2>1, GoodTurns
  <1>8. Good(frm', sqb', sqi', "index", data[p], op[p], b, x, F)
    BY <1>1, <1>3, <1>7
  <1>9. ListStep(Texts(frm, x), b.nextmsgno - 1, Texts(frm', x), b.nextmsgno - 1)
    BY <1>3 DEF ListStep
  <1>10. "index" \in Pcs
    BY DEF Pcs
  <1>11. /\ op' = [op EXCEPT ![p] = op[p]] /\ islocked' = [islocked EXCEPT ![p] = islocked[p]]
         /\ recycle' = recycle /\ holder' \in Proc \cup {NoProc}
    BY <1>3
  <1> QED BY <1>3, <1>5, <1>8, <1>9, <1>10, <1>11, Concludes

LEMMA RefreshIndexStep ==
    ASSUME Shapes, NEW p \in Proc, NEW b, NEW x, NEW F,
           Good(frm, sqb, sqi, pc[p], data[p], op[p], b, x, F), RefreshIndex(p)
    PROVE  Result(p, b, x)
  <1> USE AsIs
  <1>1. pc[p] = "index" /\ data[p] = [base |-> b, idx |-> x, msgn |-> Numbers(x)] /\ sqb = b /\ sqi = x
    BY DEF RefreshIndex, Good
  <1>2. b \in Bases /\ x \in Seq(Entries) /\ b.totalmsgs = Len(x)
    BY GoodSays
  <1>3. Index(p) = x
    <2>1. data[p].base.totalmsgs = Len(sqi) /\ sqi \in Seq(Entries)
      BY <1>1, <1>2
    <2> QED BY <1>1, <2>1, IndexIs
  <1>4. PICK l \in {"held", "busy"}, z \in BOOLEAN :
            /\ pc' = [pc EXCEPT ![p] = l] /\ islocked' = [islocked EXCEPT ![p] = z]
            /\ l = "busy" => op[p].mode # "lock"
    BY DEF RefreshIndex
  <1>5. data' = [data EXCEPT ![p].idx = x] /\ UNCHANGED <<files, holder, recycle, op>>
    BY <1>3 DEF RefreshIndex
  <1>6. [data[p] EXCEPT !.idx = x] = data[p]
    BY <1>1
  <1>7. data' = [data EXCEPT ![p] = data[p]]
    BY <1>5, <1>6
  <1>8. OpOK(frm, b, x, l, op[p])
    BY <1>1, <1>4 DEF OpOK, Good
  <1>9. Good(frm, sqb, sqi, l, data[p], op[p], b, x, F)
    <2>1. sqb \in Bases /\ sqi \in Seq(Entries)
      BY <1>1, <1>2
    <2> QED BY <1>1, <1>4, <1>8, <2>1, GoodTurns
  <1>10. Good(frm', sqb', sqi', l, data[p], op[p], b, x, F)
    BY <1>5, <1>9 DEF files
  <1>11. ListStep(Texts(frm, x), b.nextmsgno - 1, Texts(frm', x), b.nextmsgno - 1)
    BY <1>5 DEF ListStep, files
  <1>12. l \in Pcs
    BY DEF Pcs
  <1>13. op' = [op EXCEPT ![p] = op[p]] /\ recycle' = recycle /\ holder' \in Proc \cup {NoProc}
    BY <1>5
  <1> QED BY <1>4, <1>7, <1>10, <1>11, <1>12, <1>13, Concludes

LEMMA WriteBaseStep ==
    ASSUME Shapes, NEW p \in Proc, NEW b, NEW x, NEW F,
           Good(frm, sqb, sqi, pc[p], data[p], op[p], b, x, F), WriteBase(p)
    PROVE  Result(p, b, x)
  <1> USE AsIs
  <1>1. pc[p] = "writebase" /\ data[p] = [base |-> b, idx |-> x, msgn |-> Numbers(x)]
    BY DEF WriteBase, Good
  <1>2. b \in Bases /\ x \in Seq(Entries) /\ sqi \in Seq(Entries)
    BY GoodSays
  <1>3. /\ pc' = [pc EXCEPT ![p] = "writeindex"] /\ sqb' = b
        /\ UNCHANGED <<frm, sqi, holder, recycle, islocked, data, op>>
    BY <1>1 DEF WriteBase
  <1>6. OpOK(frm, b, x, "writeindex", op[p])
    BY DEF OpOK
  <1>7. Good(frm, b, sqi, "writeindex", data[p], op[p], b, x, F)
    BY <1>1, <1>2, <1>6, GoodTurns
  <1>8. Good(frm', sqb', sqi', "writeindex", data[p], op[p], b, x, F)
    BY <1>3, <1>7
  <1>9. ListStep(Texts(frm, x), b.nextmsgno - 1, Texts(frm', x), b.nextmsgno - 1)
    BY <1>3 DEF ListStep
  <1>10. "writeindex" \in Pcs
    BY DEF Pcs
  <1>11. /\ op' = [op EXCEPT ![p] = op[p]] /\ islocked' = [islocked EXCEPT ![p] = islocked[p]]
         /\ data' = [data EXCEPT ![p] = data[p]]
         /\ recycle' = recycle /\ holder' \in Proc \cup {NoProc}
    BY <1>3
  <1> QED BY <1>3, <1>8, <1>9, <1>10, <1>11, Concludes

LEMMA WriteIndexStep ==
    ASSUME Shapes, NEW p \in Proc, NEW b, NEW x, NEW F,
           Good(frm, sqb, sqi, pc[p], data[p], op[p], b, x, F), WriteIndex(p)
    PROVE  Result(p, b, x)
  <1> USE AsIs
  <1>1. pc[p] = "writeindex" /\ data[p] = [base |-> b, idx |-> x, msgn |-> Numbers(x)] /\ sqb = b
    BY DEF WriteIndex, Good
  <1>2. b \in Bases /\ x \in Seq(Entries) /\ Len(x) \in Nat /\ b.totalmsgs = Len(x)
    BY GoodSays
  <1>3. SubSeq(x, 1, b.totalmsgs) = x
    BY <1>2
  <1>4. /\ pc' = [pc EXCEPT ![p] = "idle"] /\ sqi' = x /\ islocked' = [islocked EXCEPT ![p] = FALSE]
        /\ UNCHANGED <<frm, sqb, holder, recycle, data, op>>
    BY <1>1, <1>3 DEF WriteIndex
  <1>6. OpOK(frm, b, x, "idle", op[p])
    BY DEF OpOK
  <1>7. Good(frm, b, x, "idle", data[p], op[p], b, x, F)
    BY <1>1, <1>2, <1>6, GoodTurns
  <1>8. Good(frm', sqb', sqi', "idle", data[p], op[p], b, x, F)
    BY <1>1, <1>4, <1>7
  <1>9. ListStep(Texts(frm, x), b.nextmsgno - 1, Texts(frm', x), b.nextmsgno - 1)
    BY <1>4 DEF ListStep
  <1>10. "idle" \in Pcs
    BY DEF Pcs
  <1>11. /\ op' = [op EXCEPT ![p] = op[p]] /\ data' = [data EXCEPT ![p] = data[p]]
         /\ recycle' = recycle /\ holder' \in Proc \cup {NoProc}
    BY <1>4
  <1> QED BY <1>4, <1>8, <1>9, <1>10, <1>11, Concludes

\* A call begins: about a new message, or one in the base.
LEMMA OpIs ==
    ASSUME Shapes, BaseAssumption, NEW p \in Proc, NEW b, NEW x, NEW F,
           Good(frm, sqb, sqi, pc[p], data[p], op[p], b, x, F), pc[p] \in {"idle", "held"},
           NEW mode \in AllCalls, Op(p, mode)
    PROVE  \E o \in OpTypes : /\ op' = [op EXCEPT ![p] = o] /\ o.mode = mode
                              /\ OpOK(frm, b, x, "lock", o)
                              /\ mode # "lock" => OpOK(frm, b, x, "busy", o)
  <1>1. PICK size \in IF mode \in {"new", "txt"} THEN Sizes ELSE {0},
             msg  \in CASE mode = "new"  -> {[NoMsg EXCEPT !.by = p]}
                        [] mode = "lock" -> {NoMsg}
                        [] OTHER         -> Loaded(p) :
               op' = [op EXCEPT ![p] = [NoOp EXCEPT !.mode = mode, !.msg = msg, !.size = size]]
    BY DEF Op
  <1>2. size \in Nat /\ (mode \in {"new", "txt"} => size \in Sizes)
    BY <1>1 DEF BaseAssumption
  <1>3. data[p] = [base |-> b, idx |-> x, msgn |-> Numbers(x)] /\ Sound0(frm, b, x, F)
        /\ DOMAIN x = 1..Len(x)
    <2>1. data[p] = [base |-> b, idx |-> x, msgn |-> Numbers(x)]
      BY DEF Good
    <2> QED BY <2>1, GoodSays
  <1>4. ASSUME msg \in Loaded(p) PROVE msg \in Messages /\ \E i \in 1..Len(x) : msg = frm[x[i].offset].txt
    <2>1. PICK i \in DOMAIN Numbers(x) :
              /\ i \in DOMAIN x /\ msg = [msgno |-> Numbers(x)[i], by |-> frm[x[i].offset].txt.by]
      BY <1>3, <1>4 DEF Loaded
    <2>2. i \in 1..Len(x) /\ Numbers(x)[i] = x[i].msgno
      BY <1>3, <2>1 DEF Numbers
    <2>3. frm[x[i].offset] \in Frames
      BY <1>3, <2>2, EntryAt
    <2>4. frm[x[i].offset].txt.msgno = x[i].msgno
      BY <1>3, <2>2, Located
    <2>5. frm[x[i].offset].txt \in Messages
      BY <2>3 DEF Frames
    <2>6. frm[x[i].offset].txt = [msgno |-> frm[x[i].offset].txt.msgno, by |-> frm[x[i].offset].txt.by]
      BY <2>5 DEF Messages
    <2>7. msg = frm[x[i].offset].txt
      BY <2>1, <2>2, <2>4, <2>6
    <2> QED BY <2>2, <2>5, <2>7
  <1>5. [NoMsg EXCEPT !.by = p] = [msgno |-> 0, by |-> p] /\ NoMsg = [msgno |-> 0, by |-> "nobody"]
    BY DEF NoMsg
  <1>6. /\ mode = "new" => msg = [msgno |-> 0, by |-> p]
        /\ mode = "lock" => msg = NoMsg
        /\ mode \notin {"new", "lock"} => msg \in Loaded(p)
    BY <1>1, <1>5
  <1>7. msg \in Messages
    BY <1>4, <1>5, <1>6 DEF Messages
  <1> DEFINE o == [NoOp EXCEPT !.mode = mode, !.msg = msg, !.size = size]
  <1>8. o = [mode |-> mode, msg |-> msg, size |-> size, old |-> SQFRAME_NULL, oldfr |-> init_frm,
             at |-> SQFRAME_NULL, fr |-> init_frm]
    <2>1. PICK u : u = [[[NoOp EXCEPT !.mode = mode] EXCEPT !.msg = msg] EXCEPT !.size = size]
      OBVIOUS
    <2>2. u = [mode |-> mode, msg |-> msg, size |-> size, old |-> SQFRAME_NULL, oldfr |-> init_frm,
             at |-> SQFRAME_NULL, fr |-> init_frm]
      BY <2>1 DEF NoOp
    <2>3. o = u
      BY <2>1
    <2> QED BY <2>2, <2>3
  <1>9. init_frm \in Frames
    BY DEF init_frm, Frames, Messages, NoMsg, SQFRAME_NULL
  <1>10. o \in OpTypes
    <2>1. SQFRAME_NULL \in Nat
      BY DEF SQFRAME_NULL
    <2> QED BY <1>2, <1>7, <1>8, <1>9, <2>1 DEF OpTypes
  <1>11. o.mode = mode /\ o.msg = msg /\ o.size = size
    BY <1>8
  <1> HIDE DEF o
  <1>12. OpOK(frm, b, x, "lock", o) /\ (mode # "lock" => OpOK(frm, b, x, "busy", o))
    <2>1. mode = "new" => o.msg.by \in Proc
      BY <1>6, <1>11
    <2>2. mode \in {"hdr", "txt", "del", "timesread"} => \E i \in 1..Len(x) : o.msg = frm[x[i].offset].txt
      BY <1>4, <1>6, <1>11
    <2> QED BY <1>2, <1>11, <2>1, <2>2 DEF OpOK
  <1> QED BY <1>1, <1>10, <1>11, <1>12 DEF o

LEMMA CallStep ==
    ASSUME Shapes, BaseAssumption, NEW p \in Proc, NEW b, NEW x, NEW F,
           Good(frm, sqb, sqi, pc[p], data[p], op[p], b, x, F), Call(p) \/ CallHeld(p)
    PROVE  Result(p, b, x)
  <1> USE AsIs
  <1>1. PICK l \in {"lock", "busy"}, mode \in AllCalls :
           /\ Op(p, mode) /\ pc' = [pc EXCEPT ![p] = l] /\ (l = "busy" => mode # "lock")
           /\ pc[p] \in {"idle", "held"} /\ (l = "lock" => pc[p] = "idle")
    BY DEF Call, CallHeld, BaseAssumption
  <1>2. UNCHANGED <<files, holder, recycle, islocked, data>>
    BY DEF Call, CallHeld
  <1>3. PICK o \in OpTypes : /\ op' = [op EXCEPT ![p] = o] /\ OpOK(frm, b, x, l, o)
    <2>1. \E o \in OpTypes : /\ op' = [op EXCEPT ![p] = o] /\ o.mode = mode
                             /\ OpOK(frm, b, x, "lock", o)
                             /\ mode # "lock" => OpOK(frm, b, x, "busy", o)
      BY <1>1, OpIs
    <2> QED BY <1>1, <2>1
  <1>4. /\ data[p] = [base |-> b, idx |-> x, msgn |-> Numbers(x)]
        /\ l = "lock" => sqb = b /\ sqi = x
    BY <1>1 DEF Good
  <1>5. Good(frm, sqb, sqi, l, data[p], o, b, x, F)
    <2>1. sqb \in Bases /\ sqi \in Seq(Entries)
      BY GoodSays
    <2> QED BY <1>1, <1>3, <1>4, <2>1, GoodTurns
  <1>6. Good(frm', sqb', sqi', l, data[p], o, b, x, F)
    BY <1>2, <1>5 DEF files
  <1>7. ListStep(Texts(frm, x), b.nextmsgno - 1, Texts(frm', x), b.nextmsgno - 1)
    BY <1>2 DEF ListStep, files
  <1>8. l \in Pcs
    BY DEF Pcs
  <1>9. /\ islocked' = [islocked EXCEPT ![p] = islocked[p]] /\ data' = [data EXCEPT ![p] = data[p]]
        /\ recycle' = recycle /\ holder' \in Proc \cup {NoProc}
    BY <1>2
  <1> QED BY <1>1, <1>3, <1>6, <1>7, <1>8, <1>9, Concludes

LEMMA NoOpTyped == NoOp \in OpTypes
  <1>1. init_frm \in Frames /\ NoMsg \in Messages /\ SQFRAME_NULL \in Nat
    BY DEF init_frm, Frames, Messages, NoMsg, SQFRAME_NULL
  <1> QED BY <1>1 DEF NoOp, OpTypes

LEMMA ViewIs ==
    ASSUME NEW p, NEW b, NEW x, data[p] = [base |-> b, idx |-> x, msgn |-> Numbers(x)]
    PROVE  /\ View(p) = V(frm, b, x, Numbers(x)) /\ data[p].base = b /\ data[p].idx = x
           /\ data[p].msgn = Numbers(x)
  <1>1. data[p].base = b /\ data[p].idx = x /\ data[p].msgn = Numbers(x)
    OBVIOUS
  <1> QED BY <1>1 DEF View, V

\* A call leaves a sound base.
LEMMA Leaves ==
    ASSUME Shapes, NEW p \in Proc, NEW b, NEW x, sqb \in Bases, sqi \in Seq(Entries),
           NEW g, NEW c, NEW y, NEW G, NEW l \in {"busy", "held", "unlock"},
           Leave(p, V(g, c, y, Numbers(y)), l),
           Sound(g, c, y, G), c.nextmsgno > 0,
           l = "busy" => OpOK(g, c, y, "busy", op[p]),
           Uniform => \A o : Grown(g, c, y, G, l, o),
           ListStep(Texts(frm, x), b.nextmsgno - 1, Texts(g, y), c.nextmsgno - 1)
    PROVE  Result(p, b, x)
  <1> DEFINE e == [base |-> c, idx |-> y, msgn |-> Numbers(y)]
             o == IF l = "busy" THEN op[p] ELSE NoOp
  <1> USE AsIs
  <1>1. /\ V(g, c, y, Numbers(y)).frm = g /\ V(g, c, y, Numbers(y)).base = c
        /\ V(g, c, y, Numbers(y)).idx = y /\ V(g, c, y, Numbers(y)).msgn = Numbers(y)
    BY DEF V
  <1>2. /\ frm' = g /\ data' = [data EXCEPT ![p] = e] /\ pc' = [pc EXCEPT ![p] = l]
        /\ op' = IF l = "busy" THEN op ELSE [op EXCEPT ![p] = NoOp]
        /\ UNCHANGED <<sqb, sqi, holder, recycle, islocked>>
    BY <1>1 DEF Leave
  <1>3. op' = [op EXCEPT ![p] = o] /\ o \in OpTypes
    BY <1>2, NoOpTyped
  <1>4. Sound0(g, c, y, G)
    BY DEF Sound
  <1>5. c \in Bases /\ y \in Seq(Entries)
    BY <1>4 DEF Sound0
  <1>6. Numbers(y) \in Seq(Nat)
    BY <1>4, SoundRising, ScanIs
  <1>7. e \in Copies /\ l \in Pcs
    BY <1>5, <1>6 DEF Copies, Pcs
  <1>8. OpOK(g, c, y, l, o)
    <2>1. CASE l = "busy"
      BY <2>1
    <2>2. CASE l # "busy"
      BY <2>2 DEF OpOK
    <2> QED BY <2>1, <2>2
  <1>9. Good(g, sqb, sqi, l, e, o, c, y, G)
    <2> HIDE DEF o
    <2>1. Uniform => Grown(g, c, y, G, l, o)
      OBVIOUS
    <2> QED BY <1>5, <1>8, <2>1 DEF Good
  <1> HIDE DEF o, e
  <1>10. Good(frm', sqb', sqi', l, e, o, c, y, G)
    BY <1>2, <1>9
  <1>11. ListStep(Texts(frm, x), b.nextmsgno - 1, Texts(frm', y), c.nextmsgno - 1)
    BY <1>2
  <1>12. /\ islocked' = [islocked EXCEPT ![p] = islocked[p]]
         /\ recycle' = recycle /\ holder' \in Proc \cup {NoProc}
    BY <1>2
  <1> QED BY <1>2, <1>3, <1>7, <1>10, <1>11, <1>12, Concludes

LEMMA TextsRemoved ==
    ASSUME NEW f, NEW g, NEW x \in Seq(Entries), NEW k \in 1..Len(x),
           \A i \in 1..Len(x) : i # k => g[x[i].offset].txt = f[x[i].offset].txt
    PROVE  /\ k \in DOMAIN Texts(f, x)
           /\ Texts(g, RemoveAt(x, k)) = RemoveAt(Texts(f, x), k)
  <1> DEFINE n == Len(x)
             y == RemoveAt(x, k)
             s == Texts(f, x)
             T == {s[i] : i \in 1..n}
             z == RemoveAt(s, k)
  <1>1. n \in Nat /\ DOMAIN x = 1..n /\ \A i \in 1..n : x[i] \in Entries
    OBVIOUS
  <1>2. y \in Seq(Entries) /\ Shorter(y, x, n, k)
    BY <1>1, RemoveAtIs
  <1>3. DOMAIN s = 1..n /\ \A i \in 1..n : s[i] = f[x[i].offset].txt
    BY <1>1 DEF Texts
  <1>4. s \in Seq(T) /\ Len(s) = n
    <2>1. s = [i \in 1..n |-> f[x[i].offset].txt]
      BY <1>1 DEF Texts
    <2>2. s \in [1..n -> T]
      BY <2>1
    <2> HIDE DEF s, T
    <2> QED BY <1>1, <2>2
  <1>5. z \in Seq(T) /\ Shorter(z, s, n, k)
    <2> HIDE DEF s, T, n
    <2>1. k \in 1..n
      BY DEF n
    <2> QED BY <1>1, <1>4, <2>1, RemoveAtIs
  <1>6. DOMAIN z = 1..(n - 1) /\ z = [i \in 1..(n - 1) |-> z[i]]
    <2> HIDE DEF z, s, T
    <2> QED BY <1>5 DEF Shorter
  <1>7. DOMAIN y = 1..(n - 1)
    BY <1>2 DEF Shorter
  <1>8. Texts(g, y) = [i \in 1..(n - 1) |-> g[y[i].offset].txt]
    BY <1>7 DEF Texts
  <1> HIDE DEF z, s, T, y
  <1>9. ASSUME NEW i \in 1..(n - 1) PROVE z[i] = g[y[i].offset].txt
    <2>1. CASE i < k
      <3>1. i \in 1..n /\ i # k
        BY <1>1, <2>1
      <3>2. z[i] = s[i] /\ y[i] = x[i]
        BY <1>2, <1>5, <2>1 DEF Shorter
      <3> QED BY <1>3, <3>1, <3>2
    <2>2. CASE ~(i < k)
      <3>1. i + 1 \in 1..n /\ i + 1 # k
        BY <1>1, <2>2
      <3>2. z[i] = s[i + 1] /\ y[i] = x[i + 1]
        BY <1>2, <1>5, <2>2 DEF Shorter
      <3> QED BY <1>3, <3>1, <3>2
    <2> QED BY <2>1, <2>2
  <1>10. Texts(g, y) = z
    BY <1>6, <1>8, <1>9
  <1> QED BY <1>3, <1>10 DEF s, y, z

\* A message is deleted, by a call or to make room.
LEMMA Deletes ==
    ASSUME Shapes, BaseAssumption, NEW p \in Proc, NEW b, NEW x, NEW F,
           Good(frm, sqb, sqi, "busy", data[p], op[p], b, x, F),
           NEW k \in 1..Len(x), NEW l \in {"busy", "held", "unlock"},
           Leave(p, delete_msg(View(p), k), l), l = "busy" => op[p].mode = "new"
    PROVE  Result(p, b, x)
  <1>1. /\ Sound(frm, b, x, F) /\ data[p] = [base |-> b, idx |-> x, msgn |-> Numbers(x)]
        /\ OpOK(frm, b, x, "busy", op[p]) /\ b.nextmsgno > 0
        /\ Uniform => Grown(frm, b, x, F, "busy", op[p])
    BY DEF Good
  <1>2. PICK g, c : Deleted(frm, b, x, F, k, g, c)
    BY <1>1, DeleteSound
  <1> DEFINE y == RemoveAt(x, k)
             G == Append(F, x[k].offset)
  <1>3. /\ delete_msg(View(p), k) = V(g, c, y, Numbers(y)) /\ Sound(g, c, y, G)
        /\ c.nextmsgno = b.nextmsgno /\ c.maxmsgs = b.maxmsgs /\ c.endframe = b.endframe
        /\ DOMAIN g = DOMAIN frm /\ \A o \in DOMAIN frm : g[o].length = frm[o].length
        /\ \A i \in 1..Len(x) : i # k => g[x[i].offset].txt = frm[x[i].offset].txt
        /\ Spots(y, G) = Spots(x, F)
    BY <1>1, <1>2, ViewIs DEF Deleted, SameLimits
  <1>4. sqb \in Bases /\ sqi \in Seq(Entries) /\ x \in Seq(Entries) /\ Sound0(frm, b, x, F) /\ Len(x) \in Nat
    BY GoodSays
  <1>5. k \in DOMAIN Texts(frm, x) /\ Texts(g, y) = RemoveAt(Texts(frm, x), k)
    BY <1>3, <1>4, TextsRemoved
  <1>6. ListStep(Texts(frm, x), b.nextmsgno - 1, Texts(g, y), c.nextmsgno - 1)
    BY <1>3, <1>5 DEF ListStep
  <1>7. Len(y) = Len(x) - 1
    <2>1. Shorter(y, x, Len(x), k)
      BY <1>4, RemoveAtIs
    <2> QED BY <2>1 DEF Shorter
  <1>8. F \in Seq(Nat) /\ Len(F) \in Nat
    <2>1. F \in Seq(Nat)
      BY <1>4 DEF Sound0, Chain
    <2> QED BY <2>1
  <1>9. Len(G) = Len(F) + 1
    BY <1>8
  <1>10. \A o \in Spots(x, F) : o \in DOMAIN frm
    BY <1>4, SpotsIn
  <1> HIDE DEF y, G
  <1>11. l = "busy" => OpOK(g, c, y, "busy", op[p])
    BY <1>1 DEF OpOK
  <1>12. ASSUME Uniform, NEW o PROVE Grown(g, c, y, G, l, o)
    <2>1. Grown(frm, b, x, F, "busy", op[p])
      BY <1>1, <1>12
    <2>2. Alike(g, Spots(y, G), MinSize)
      BY <1>3, <1>10, <2>1 DEF Grown, Alike
    <2>3. Len(y) + Len(G) = Len(x) + Len(F)
      BY <1>4, <1>7, <1>8, <1>9
    <2> QED BY <1>3, <2>1, <2>2, <2>3 DEF Grown
  <1>13. Leave(p, V(g, c, y, Numbers(y)), l)
    BY <1>3
  <1> QED BY <1>1, <1>3, <1>4, <1>6, <1>11, <1>12, <1>13, Leaves

About(p, x, k) ==
    /\ op[p].msg = frm[x[k].offset].txt /\ find_msgn(data[p].idx, op[p].msg.msgno) = k
    /\ ToReln(data[p].msgn, op[p].msg.msgno) = k /\ k # 0 /\ k \in DOMAIN x
    /\ data[p].idx = x /\ Offsets(p, k) = {x[k].offset}

\* The message a call is about is where its number says.
LEMMA Asked ==
    ASSUME NEW p, NEW b, NEW x, NEW F,
           Good(frm, sqb, sqi, "busy", data[p], op[p], b, x, F),
           op[p].mode \in {"hdr", "txt", "del", "timesread"}
    PROVE  \E k \in 1..Len(x) : About(p, x, k)
  <1>1. data[p] = [base |-> b, idx |-> x, msgn |-> Numbers(x)] /\ OpOK(frm, b, x, "busy", op[p])
    BY DEF Good
  <1>2. Sound0(frm, b, x, F)
    BY GoodSays
  <1>3. PICK k \in 1..Len(x) : op[p].msg = frm[x[k].offset].txt
    BY <1>1 DEF OpOK
  <1>4. data[p].idx = x /\ data[p].msgn = Numbers(x)
    BY <1>1
  <1>5. /\ find_msgn(x, frm[x[k].offset].txt.msgno) = k
        /\ ToReln(Numbers(x), frm[x[k].offset].txt.msgno) = k /\ k # 0 /\ k \in DOMAIN x
    BY <1>2, Located
  <1>6. Offsets(p, k) = {x[k].offset}
    BY <1>4, <1>5 DEF Offsets
  <1> QED BY <1>3, <1>4, <1>5, <1>6 DEF About

LEMMA PurgeStep ==
    ASSUME Shapes, BaseAssumption, NEW p \in Proc, NEW b, NEW x, NEW F,
           Good(frm, sqb, sqi, pc[p], data[p], op[p], b, x, F), Purge(p)
    PROVE  Result(p, b, x)
  <1>1. Good(frm, sqb, sqi, "busy", data[p], op[p], b, x, F) /\ op[p].mode = "new"
    BY DEF Purge
  <1>2. data[p].base = b
    BY <1>1 DEF Good
  <1>3. b.maxmsgs # 0 /\ b.maxmsgs <= b.totalmsgs /\ Leave(p, delete_msg(View(p), b.protmsgs + 1), "busy")
    BY <1>2 DEF Purge, Full
  <1>4. Sound0(frm, b, x, F) /\ b \in Bases /\ b.totalmsgs = Len(x) /\ Len(x) \in Nat
    BY GoodSays
  <1>5. Limits(b) /\ b.protmsgs \in Nat /\ b.maxmsgs \in Nat
    BY <1>4 DEF Sound0, Bases
  <1>6. b.protmsgs + 1 \in 1..Len(x)
    BY <1>3, <1>4, <1>5 DEF Limits
  <1> QED BY <1>1, <1>3, <1>6, Deletes

LEMMA DeleteStep ==
    ASSUME Shapes, BaseAssumption, NEW p \in Proc, NEW b, NEW x, NEW F,
           Good(frm, sqb, sqi, pc[p], data[p], op[p], b, x, F), Delete(p)
    PROVE  Result(p, b, x)
  <1>1. Good(frm, sqb, sqi, "busy", data[p], op[p], b, x, F) /\ op[p].mode = "del"
    BY DEF Delete
  <1>2. PICK k \in 1..Len(x) : About(p, x, k)
    BY <1>1, Asked
  <1>3. Leave(p, delete_msg(View(p), k), After(p)) /\ After(p) \in {"held", "unlock"}
    BY <1>2 DEF Delete, After, About
  <1> QED BY <1>1, <1>3, Deletes

\* The program never ends in the middle of a call, nor finds a message gone.
LEMMA NeverWild ==
    ASSUME NEW p, NEW b, NEW x, NEW F,
           Good(frm, sqb, sqi, pc[p], data[p], op[p], b, x, F)
    PROVE  ~DeleteWild(p) /\ ~SaveGone(p)
  <1>1. ASSUME DeleteWild(p) PROVE FALSE
    <2>1. Good(frm, sqb, sqi, "busy", data[p], op[p], b, x, F) /\ op[p].mode = "del"
      BY <1>1 DEF DeleteWild
    <2>2. PICK k \in 1..Len(x) : About(p, x, k)
      BY <2>1, Asked
    <2>3. ToReln(data[p].msgn, op[p].msg.msgno) \notin DOMAIN data[p].idx
      BY <1>1 DEF DeleteWild
    <2> QED BY <2>2, <2>3 DEF About
  <1>2. ASSUME SaveGone(p) PROVE FALSE
    <2>1. Good(frm, sqb, sqi, "busy", data[p], op[p], b, x, F) /\ op[p].mode \in {"hdr", "txt"}
      BY <1>2 DEF SaveGone
    <2>2. PICK k \in 1..Len(x) : About(p, x, k)
      BY <2>1, Asked
    <2>3. find_msgn(data[p].idx, op[p].msg.msgno) = 0
      BY <1>2 DEF SaveGone
    <2> QED BY <2>2, <2>3 DEF About
  <1> QED BY <1>1, <1>2

\* The frames of the base may change, but no more than the table says.
LEMMA Stays ==
    ASSUME Shapes, NEW p \in Proc, NEW b, NEW x, NEW F,
           Good(frm, sqb, sqi, "busy", data[p], op[p], b, x, F),
           NEW g, NEW l \in {"held", "unlock"}, Leave(p, V(g, b, x, Numbers(x)), l),
           Sound(g, b, x, F), \A o \in Spots(x, F) : g[o].length = frm[o].length /\ g[o].txt = frm[o].txt
    PROVE  Result(p, b, x)
  <1>1. sqb \in Bases /\ sqi \in Seq(Entries) /\ DOMAIN x = 1..Len(x)
    BY GoodSays
  <1>2. b.nextmsgno > 0 /\ (Uniform => Grown(frm, b, x, F, "busy", op[p]))
    BY DEF Good
  <1>3. \A i \in 1..Len(x) : x[i].offset \in Spots(x, F)
    BY DEF Spots
  <1>4. Texts(g, x) = Texts(frm, x)
    BY <1>1, <1>3 DEF Texts
  <1>5. ListStep(Texts(frm, x), b.nextmsgno - 1, Texts(g, x), b.nextmsgno - 1)
    BY <1>4 DEF ListStep
  <1>6. ASSUME Uniform, NEW o PROVE Grown(g, b, x, F, l, o)
    <2>1. Grown(frm, b, x, F, "busy", op[p])
      BY <1>2, <1>6
    <2>2. Alike(g, Spots(x, F), MinSize)
      BY <2>1 DEF Grown, Alike
    <2> QED BY <2>1, <2>2 DEF Grown
  <1> QED BY <1>1, <1>2, <1>5, <1>6, Leaves

LEMMA HdrStep ==
    ASSUME Shapes, BaseAssumption, NEW p \in Proc, NEW b, NEW x, NEW F,
           Good(frm, sqb, sqi, pc[p], data[p], op[p], b, x, F), SaveHdr(p) \/ UpdateTimesread(p)
    PROVE  Result(p, b, x)
  <1>1. Good(frm, sqb, sqi, "busy", data[p], op[p], b, x, F)
    BY DEF SaveHdr, UpdateTimesread
  <1>2. data[p] = [base |-> b, idx |-> x, msgn |-> Numbers(x)] /\ Sound(frm, b, x, F)
    BY <1>1 DEF Good
  <1>3. View(p) = V(frm, b, x, Numbers(x))
    BY <1>2, ViewIs
  <1>4. PICK l \in {"held", "unlock"} : Leave(p, V(frm, b, x, Numbers(x)), l)
    <2>1. CASE UpdateTimesread(p)
      BY <1>3, <2>1 DEF UpdateTimesread
    <2>2. CASE SaveHdr(p)
      <3>1. op[p].mode = "hdr"
        BY <2>2 DEF SaveHdr
      <3>2. PICK k \in 1..Len(x) : About(p, x, k)
        BY <1>1, <3>1, Asked
      <3>3. Leave(p, SaveHeader(View(p), x[k].offset, op[p].msg), After(p))
        BY <2>2, <3>2 DEF SaveHdr, Relno, About
      <3>4. Sound0(frm, b, x, F)
        BY <1>2 DEF Sound
      <3>5. SaveHeader(View(p), x[k].offset, op[p].msg) = V(frm, b, x, Numbers(x))
        BY <1>3, <3>2, <3>4, SaveHeaderIs DEF About
      <3>6. After(p) \in {"held", "unlock"}
        BY DEF After
      <3> QED BY <3>3, <3>5, <3>6
    <2> QED BY <2>1, <2>2
  <1> QED BY <1>1, <1>2, <1>4, Stays

LEMMA RewriteStep ==
    ASSUME Shapes, BaseAssumption, NEW p \in Proc, NEW b, NEW x, NEW F,
           Good(frm, sqb, sqi, pc[p], data[p], op[p], b, x, F), Rewrite(p)
    PROVE  Result(p, b, x)
  <1>1. Good(frm, sqb, sqi, "busy", data[p], op[p], b, x, F) /\ op[p].mode = "txt"
    BY DEF Rewrite
  <1>2. data[p] = [base |-> b, idx |-> x, msgn |-> Numbers(x)] /\ Sound(frm, b, x, F)
    BY <1>1 DEF Good
  <1>3. View(p) = V(frm, b, x, Numbers(x)) /\ Sound0(frm, b, x, F)
    BY <1>2, ViewIs DEF Sound
  <1>4. PICK k \in 1..Len(x) : About(p, x, k)
    BY <1>1, Asked
  <1>5. /\ read_frm(frm, x[k].offset).length >= op[p].size
        /\ Leave(p, SaveInPlace(View(p), k, x[k].offset, op[p].msg, op[p].size), After(p))
    BY <1>4 DEF Rewrite, Relno, About
  <1>6. op[p].size \in Nat
    BY AsIs DEF OpTypes
  <1>7. op[p].size <= frm[x[k].offset].length
    <2>1. read_frm(frm, x[k].offset) = frm[x[k].offset] /\ frm[x[k].offset] \in Frames
      BY <1>3, EntryAt
    <2>2. frm[x[k].offset].length \in Nat
      BY <2>1 DEF Frames
    <2> QED BY <1>5, <1>6, <2>1, <2>2
  <1>8. PICK g : Rewritten(frm, b, x, Numbers(x), F, k, op[p].size, g)
    BY <1>2, <1>6, <1>7, RewriteSound
  <1>9. /\ SaveInPlace(View(p), k, x[k].offset, op[p].msg, op[p].size) = V(g, b, x, Numbers(x))
        /\ Sound(g, b, x, F) /\ \A o \in Spots(x, F) : g[o].length = frm[o].length /\ g[o].txt = frm[o].txt
    BY <1>3, <1>4, <1>8 DEF Rewritten, About
  <1>10. After(p) \in {"held", "unlock"} /\ Leave(p, V(g, b, x, Numbers(x)), After(p))
    BY <1>5, <1>9 DEF After
  <1> QED BY <1>1, <1>9, <1>10, Stays

LEMMA MinSizeIs == ASSUME BaseAssumption PROVE MinSize \in Nat \ {0} /\ MinSize \in Sizes
  <1>1. Sizes \subseteq Nat /\ Sizes # {} /\ Sizes \subseteq Nat \ {0}
    BY DEF BaseAssumption
  <1>2. \E n \in Sizes : \A m \in Sizes : n <= m
    BY <1>1, LeastNumber
  <1>3. MinSize \in Sizes
    BY <1>2 DEF MinSize
  <1> QED BY <1>1, <1>3

LEMMA AtNext ==
    ASSUME BaseAssumption, NEW i \in Int
    PROVE  At(i) \in Int /\ At(i + 1) = At(i) + FrmSize + MinSize
  <1>1. FrmSize \in Nat /\ BaseSize \in Nat /\ MinSize \in Nat
    BY MinSizeIs, SizeAssumption
  <1>2. \A u \in Int : (i - 1) * u \in Int /\ ((i + 1) - 1) * u = (i - 1) * u + u
    OBVIOUS
  <1>3. FrmSize + MinSize \in Int
    BY <1>1
  <1> QED BY <1>1, <1>2, <1>3 DEF At

\* What is taken for the message of the call: room, and its old frame if it had one.
TakenFor(p, b, x, old) ==
    /\ Taken(p, old, TakeFrame(View(p), op[p].size, recycle)) /\ old \in Nat
    /\ op[p].mode = "new" => (b.maxmsgs # 0 => Len(x) < b.maxmsgs)
    /\ op[p].mode = "txt" => \E k \in 1..Len(x) : /\ old = x[k].offset /\ op[p].msg = frm[old].txt
                                                  /\ frm[old].length < op[p].size

LEMMA TakeIs ==
    ASSUME NEW p, NEW b, NEW x, NEW F,
           Good(frm, sqb, sqi, "busy", data[p], op[p], b, x, F), Take(p)
    PROVE  op[p].mode \in {"new", "txt"} /\ \E old : TakenFor(p, b, x, old)
  <1>1. data[p].base = b
    BY DEF Good
  <1>2. Sound0(frm, b, x, F) /\ b \in Bases /\ b.totalmsgs = Len(x) /\ Len(x) \in Nat
    BY GoodSays
  <1>3. b.maxmsgs \in Nat
    BY <1>2 DEF Bases
  <1>4. CASE Room(p) /\ Taken(p, SQFRAME_NULL, TakeFrame(View(p), op[p].size, recycle))
    <2>1. op[p].mode = "new" /\ (b.maxmsgs # 0 => Len(x) < b.maxmsgs)
      BY <1>1, <1>2, <1>3, <1>4 DEF Room, Full
    <2>2. TakenFor(p, b, x, SQFRAME_NULL)
      BY <1>4, <2>1 DEF TakenFor, SQFRAME_NULL
    <2> QED BY <2>1, <2>2
  <1>5. CASE /\ Exists(p) /\ op[p].mode = "txt"
             /\ \E at \in Offsets(p, Relno(p)) :
                  /\ read_frm(frm, at).length < op[p].size
                  /\ Taken(p, at, TakeFrame(View(p), op[p].size, recycle))
    <2>1. PICK k \in 1..Len(x) : About(p, x, k)
      BY <1>5, Asked
    <2>2. /\ read_frm(frm, x[k].offset).length < op[p].size
          /\ Taken(p, x[k].offset, TakeFrame(View(p), op[p].size, recycle))
      BY <1>5, <2>1 DEF Relno, About
    <2>3. read_frm(frm, x[k].offset) = frm[x[k].offset] /\ x[k].offset \in Nat
      BY <1>2, EntryAt
    <2>4. TakenFor(p, b, x, x[k].offset)
      BY <1>5, <2>1, <2>2, <2>3 DEF TakenFor, About
    <2> QED BY <1>5, <2>4
  <1> QED BY <1>4, <1>5 DEF Take

LEMMA TakeStep ==
    ASSUME Shapes, BaseAssumption, NEW p \in Proc, NEW b, NEW x, NEW F,
           Good(frm, sqb, sqi, pc[p], data[p], op[p], b, x, F), Take(p)
    PROVE  Result(p, b, x)
  <1> DEFINE size == op[p].size
  <1>1. Good(frm, sqb, sqi, "busy", data[p], op[p], b, x, F)
    BY DEF Take
  <1>2. PICK old : TakenFor(p, b, x, old)
    BY <1>1, TakeIs
  <1>2a. op[p].mode \in {"new", "txt"}
    BY <1>1, TakeIs
  <1>3. /\ data[p] = [base |-> b, idx |-> x, msgn |-> Numbers(x)] /\ Sound(frm, b, x, F)
        /\ OpOK(frm, b, x, "busy", op[p]) /\ b.nextmsgno > 0
        /\ Uniform => Grown(frm, b, x, F, "busy", op[p])
    BY <1>1 DEF Good
  <1>4. /\ View(p) = V(frm, b, x, Numbers(x)) /\ Sound0(frm, b, x, F) /\ DOMAIN x = 1..Len(x)
        /\ sqb \in Bases /\ sqi \in Seq(Entries) /\ Len(x) \in Nat
    BY <1>3, ViewIs, GoodSays
  <1>5. size \in Nat /\ op[p] \in OpTypes /\ data[p] \in Copies
    BY AsIs DEF OpTypes
  <1> HIDE DEF size
  <1>6. PICK g, c, at, fr, G : IsTaken(frm, b, x, Numbers(x), F, size, recycle, g, c, at, fr, G)
    BY <1>3, <1>5, TakeSound
  <1>7. /\ TakeFrame(View(p), size, recycle) = [v |-> V(g, c, x, Numbers(x)), at |-> at, fr |-> fr]
        /\ SameBase(b, c) /\ Untouched(frm, g, x) /\ HasRoom(g, c, x, G, at, fr, size)
        /\ Reused(frm, b, x, F, size, g, at, fr, G)
    BY <1>4, <1>6 DEF IsTaken
  <1> DEFINE t == [v |-> V(g, c, x, Numbers(x)), at |-> at, fr |-> fr]
             e == [base |-> c, idx |-> x, msgn |-> Numbers(x)]
             oldfr == read_frm(frm, old)
             o == [op[p] EXCEPT !.old = old, !.oldfr = oldfr, !.at = at, !.fr = fr]
  <1>8. Taken(p, old, t)
    BY <1>2, <1>7 DEF TakenFor, size
  <1>9. t.v.frm = g /\ t.v.base = c /\ t.at = at /\ t.fr = fr
    BY DEF V
  <1>10. /\ frm' = g /\ data' = [data EXCEPT ![p].base = c]
         /\ op' = [op EXCEPT ![p] = o] /\ pc' = [pc EXCEPT ![p] = "place"]
         /\ UNCHANGED <<sqb, sqi, holder, recycle, islocked>>
    <2> HIDE DEF t
    <2> QED BY <1>8, <1>9 DEF Taken
  <1>11. data' = [data EXCEPT ![p] = e]
    <2>1. [data[p] EXCEPT !.base = c] = e
      BY <1>3
    <2> HIDE DEF e
    <2> QED BY <1>10, <2>1
  <1>12. old \in Nat /\ oldfr \in Frames /\ at \in Nat /\ fr \in Frames
    <2>1. oldfr \in Frames
      <3>1. init_frm \in Frames
        BY DEF init_frm, Frames, Messages, NoMsg, SQFRAME_NULL
      <3>2. Table(frm)
        BY <1>4 DEF Sound0
      <3> QED BY <3>1, <3>2 DEF read_frm, Table
    <2> QED BY <1>2, <1>7, <2>1 DEF TakenFor, HasRoom
  <1>13. /\ o \in OpTypes /\ o.mode = op[p].mode /\ o.msg = op[p].msg /\ o.size = size
         /\ o.old = old /\ o.oldfr = oldfr /\ o.at = at /\ o.fr = fr
    <2> HIDE DEF oldfr
    <2>1. PICK r : r = op[p]
      OBVIOUS
    <2>2. /\ r \in OpTypes
          /\ r = [mode |-> r.mode, msg |-> r.msg, size |-> r.size, old |-> r.old, oldfr |-> r.oldfr,
                  at |-> r.at, fr |-> r.fr]
      BY <1>5, <2>1 DEF OpTypes
    <2>3. PICK u : u = [r EXCEPT !.old = old, !.oldfr = oldfr, !.at = at, !.fr = fr]
      OBVIOUS
    <2>4. u = [[[[r EXCEPT !.old = old] EXCEPT !.oldfr = oldfr] EXCEPT !.at = at] EXCEPT !.fr = fr]
      BY <2>3
    <2>5. [r EXCEPT !.old = old] = [mode |-> r.mode, msg |-> r.msg, size |-> r.size, old |-> old,
                                    oldfr |-> r.oldfr, at |-> r.at, fr |-> r.fr]
      BY <2>2
    <2>6. u = [mode |-> r.mode, msg |-> r.msg, size |-> r.size, old |-> old, oldfr |-> oldfr,
               at |-> at, fr |-> fr]
      BY <2>4, <2>5
    <2>7. u \in OpTypes
      BY <1>12, <2>2, <2>6 DEF OpTypes
    <2>8. o = u
      BY <2>1, <2>3
    <2> QED BY <2>1, <2>6, <2>7, <2>8 DEF size
  <1> HIDE DEF o, oldfr, e, t
  <1>14. c \in Bases /\ c.nextmsgno = b.nextmsgno /\ c.maxmsgs = b.maxmsgs /\ c.endframe = b.endframe
    BY <1>7 DEF SameBase
  <1>15. \A i \in 1..Len(x) : g[x[i].offset] = frm[x[i].offset]
    BY <1>7 DEF Untouched
  <1>16. OpOK(g, c, x, "place", o)
    <2>1. op[p].mode \in {"new", "txt"} /\ (op[p].mode = "new" => op[p].msg.by \in Proc) /\ size \in Sizes
      BY <1>2a, <1>3 DEF OpOK, size
    <2>2. op[p].mode = "new" => (c.maxmsgs # 0 => Len(x) < c.maxmsgs)
      BY <1>2, <1>14 DEF TakenFor
    <2>3. ASSUME op[p].mode = "txt"
          PROVE  \E i \in 1..Len(x) : /\ o.old = x[i].offset /\ o.oldfr = g[o.old] /\ o.msg = g[o.old].txt
      <3>1. PICK k \in 1..Len(x) : old = x[k].offset /\ op[p].msg = frm[old].txt
        BY <1>2, <2>3 DEF TakenFor
      <3>2. oldfr = frm[old]
        BY <1>4, <3>1, EntryAt DEF oldfr
      <3> QED BY <1>13, <1>15, <3>1, <3>2
    <2>4. o.mode = "txt" => \E i \in 1..Len(x) : o.msg = g[x[i].offset].txt
      BY <1>13, <2>3
    <2> QED BY <1>13, <2>1, <2>2, <2>3, <2>4 DEF OpOK, AllCalls
  <1>17. ASSUME Uniform PROVE Grown(g, c, x, G, "place", o)
    <2>1. Grown(frm, b, x, F, "busy", op[p])
      BY <1>3, <1>17
    <2>2. size = MinSize
      <3>1. size \in Sizes
        BY <1>2a, <1>3 DEF OpOK, size
      <3> QED BY <1>17, <3>1 DEF Uniform
    <2>3. op[p].mode = "new"
      <3>1. ASSUME op[p].mode = "txt" PROVE FALSE
        <4>1. PICK k \in 1..Len(x) : old = x[k].offset /\ frm[old].length < size
          BY <1>2, <3>1 DEF TakenFor, size
        <4>2. old \in Spots(x, F)
          BY <4>1 DEF Spots
        <4>3. frm[old].length = size
          BY <2>1, <2>2, <4>2 DEF Grown, Alike
        <4> QED BY <1>5, <4>1, <4>3
      <3> QED BY <1>2a, <3>1
    <2>4. Alike(frm, Spots(x, F), size)
      BY <2>1, <2>2 DEF Grown
    <2>5. /\ Alike(g, Spots(x, G), size) /\ NewLen(b, at, fr, size) = size
          /\ Len(F) = 0 => at = b.endframe /\ Len(G) = 0
          /\ Len(F) # 0 => at # b.endframe /\ Len(G) = Len(F) - 1
      BY <1>7, <2>4 DEF Reused
    <2>6. Len(F) \in Nat
      BY <1>4 DEF Sound0, Chain
    <2>7. NewLen(c, at, fr, size) = size /\ NewEnd(c, at, size) = NewEnd(b, at, size)
      BY <1>14, <2>5 DEF NewLen, NewEnd
    <2>8. /\ NewEnd(b, at, size) = At(Len(x) + Len(G) + 2)
          /\ Len(x) + Len(G) + 1 <= Most
      <3>0. b.endframe = At(Len(x) + Len(F) + 1) /\ Len(x) + Len(F) <= Most /\ b.maxmsgs = MaxMsgs
        BY <2>1 DEF Grown
      <3>1. CASE Len(F) = 0
        <4>1. Len(x) < MaxMsgs
          BY <1>2, <1>17, <2>3, <3>0 DEF TakenFor, Uniform
        <4>2. Len(x) + 1 <= Most
          <5>1. MaxMsgs \in Nat /\ Posted \in Nat
            BY DEF BaseAssumption
          <5> QED BY <1>4, <4>1, <5>1 DEF Most
        <4>3. At((Len(x) + 1) + 1) = At(Len(x) + 1) + FrmSize + MinSize
          BY <1>4, AtNext
        <4>4. (Len(x) + 1) + 1 = Len(x) + Len(G) + 2 /\ Len(x) + Len(F) + 1 = Len(x) + 1
              /\ Len(x) + Len(G) + 1 = Len(x) + 1
          BY <1>4, <2>5, <3>1
        <4>5. NewEnd(b, at, size) = at + FrmSize + size /\ at = At(Len(x) + 1)
          BY <2>5, <3>0, <3>1, <4>4 DEF NewEnd
        <4> QED BY <2>2, <4>2, <4>3, <4>4, <4>5
      <3>2. CASE Len(F) # 0
        <4>1. NewEnd(b, at, size) = b.endframe
          BY <2>5, <3>2 DEF NewEnd
        <4>2. Len(x) + Len(F) + 1 = Len(x) + Len(G) + 2 /\ Len(x) + Len(G) + 1 = Len(x) + Len(F)
          BY <1>4, <2>5, <2>6, <3>2
        <4> QED BY <3>0, <4>1, <4>2
      <3> QED BY <3>1, <3>2
    <2>9. c.maxmsgs = MaxMsgs
      BY <1>14, <2>1 DEF Grown
    <2> QED BY <1>13, <2>2, <2>3, <2>5, <2>7, <2>8, <2>9 DEF Grown
  <1>18. Good(g, sqb, sqi, "place", e, o, c, x, G)
    <2>1. HasRoom(g, c, x, G, o.at, o.fr, o.size)
      BY <1>7, <1>13
    <2>2. c.nextmsgno > 0
      BY <1>3, <1>14
    <2> QED BY <1>4, <1>16, <1>17, <2>1, <2>2 DEF Good, e
  <1>19. Good(frm', sqb', sqi', "place", e, o, c, x, G)
    BY <1>10, <1>18
  <1>20. ListStep(Texts(frm, x), b.nextmsgno - 1, Texts(frm', x), c.nextmsgno - 1)
    <2>1. Texts(g, x) = Texts(frm, x)
      BY <1>4, <1>15 DEF Texts
    <2> QED BY <1>10, <1>14, <2>1 DEF ListStep
  <1>21. e \in Copies /\ "place" \in Pcs
    <2>1. data[p].idx = x /\ data[p].msgn = Numbers(x)
      BY <1>3
    <2>2. x \in Seq(Entries) /\ Numbers(x) \in Seq(Nat)
      BY <1>5, <2>1 DEF Copies
    <2> QED BY <1>14, <2>2 DEF Copies, Pcs, e
  <1>22. /\ islocked' = [islocked EXCEPT ![p] = islocked[p]] /\ islocked[p] \in BOOLEAN
         /\ recycle' = recycle /\ holder' \in Proc \cup {NoProc}
    BY <1>10, AsIs
  <1> QED BY <1>10, <1>11, <1>13, <1>19, <1>20, <1>21, <1>22, Concludes

NewMsg(p, b) == [op[p].msg EXCEPT !.msgno = b.nextmsgno]

LEMMA PlaceIs ==
    ASSUME Shapes, NEW p \in Proc, NEW b, NEW x, NEW F,
           Good(frm, sqb, sqi, "place", data[p], op[p], b, x, F)
    PROVE  /\ HasRoom(frm, b, x, F, op[p].at, op[p].fr, op[p].size)
           /\ OpOK(frm, b, x, "place", op[p]) /\ b.nextmsgno > 0 /\ b.nextmsgno \in Nat
           /\ Uniform => Grown(frm, b, x, F, "place", op[p])
           /\ View(p) = V(frm, b, x, Numbers(x)) /\ Sound0(frm, b, x, F)
           /\ data[p].base = b /\ data[p].msgn = Numbers(x)
           /\ op[p].mode \in {"new", "txt"} /\ op[p].size \in Nat /\ op[p].msg \in Messages
           /\ x \in Seq(Entries) /\ Len(x) \in Nat /\ DOMAIN x = 1..Len(x) /\ Len(F) \in Nat
           /\ sqb \in Bases /\ sqi \in Seq(Entries)
  <1>1. /\ HasRoom(frm, b, x, F, op[p].at, op[p].fr, op[p].size)
        /\ OpOK(frm, b, x, "place", op[p]) /\ b.nextmsgno > 0
        /\ Uniform => Grown(frm, b, x, F, "place", op[p])
        /\ data[p] = [base |-> b, idx |-> x, msgn |-> Numbers(x)]
        /\ sqb \in Bases /\ sqi \in Seq(Entries)
    BY DEF Good
  <1>2. /\ View(p) = V(frm, b, x, Numbers(x))
        /\ data[p].base = b /\ data[p].msgn = Numbers(x)
    BY <1>1, ViewIs
  <1>3. Sound0(frm, b, x, F)
    BY <1>1 DEF HasRoom
  <1>4. b \in Bases /\ x \in Seq(Entries) /\ F \in Seq(Nat)
    BY <1>3 DEF Sound0, Chain
  <1>5. b.nextmsgno \in Nat
    BY <1>4, BaseFields
  <1>6. Len(x) \in Nat /\ DOMAIN x = 1..Len(x) /\ Len(F) \in Nat
    BY <1>4
  <1>7. op[p].mode \in {"new", "txt"}
    BY <1>1 DEF OpOK
  <1>8. op[p].size \in Nat /\ op[p].msg \in Messages
    <2>1. op[p] \in OpTypes
      BY AsIs
    <2> QED BY <2>1 DEF OpTypes
  <1> QED BY <1>1, <1>2, <1>3, <1>4, <1>5, <1>6, <1>7, <1>8

LEMMA NewMsgIs ==
    ASSUME NEW p, NEW b, op[p].msg \in Messages, b.nextmsgno \in Nat
    PROVE  /\ NewMsg(p, b) \in Messages /\ NewMsg(p, b).msgno = b.nextmsgno
           /\ NewMsg(p, b) = [msgno |-> b.nextmsgno, by |-> op[p].msg.by]
           /\ op[p].msg.by \in Proc \cup {"nobody"}
  <1>1. PICK m \in Messages : m = op[p].msg
    OBVIOUS
  <1>2. m.by \in Proc \cup {"nobody"} /\ m = [msgno |-> m.msgno, by |-> m.by]
    BY DEF Messages
  <1>3. NewMsg(p, b) = [msgno |-> b.nextmsgno, by |-> m.by]
    BY <1>1, <1>2 DEF NewMsg
  <1> QED BY <1>1, <1>2, <1>3 DEF Messages

\* A frame more, where the last one ended or in place of a free one.
LEMMA GrownAt ==
    ASSUME NEW f, NEW b, NEW x, NEW F, NEW o, Grown(f, b, x, F, "place", o),
           NEW g, NEW c, NEW y, NEW G, c.maxmsgs = b.maxmsgs, c.endframe = NewEnd(b, o.at, o.size),
           \A s \in Spots(x, F) : g[s].length = f[s].length,
           g[o.at].length = NewLen(b, o.at, o.fr, o.size),
           Spots(y, G) = Spots(x, F) \cup {o.at}, Len(y) + Len(G) = Len(x) + Len(F) + 1,
           Len(x) \in Nat, Len(F) \in Nat, Len(y) \in Nat, Len(G) \in Nat,
           NEW l, l # "place", NEW q
    PROVE  Grown(g, c, y, G, l, q)
  <1>1. Alike(g, Spots(y, G), MinSize)
    BY DEF Grown, Alike
  <1>2. c.endframe = At(Len(x) + Len(F) + 2) /\ Len(x) + Len(F) + 1 <= Most /\ c.maxmsgs = MaxMsgs
    BY DEF Grown
  <1>3. Len(x) + Len(F) + 2 = Len(y) + Len(G) + 1
    OBVIOUS
  <1> QED BY <1>1, <1>2, <1>3 DEF Grown

LEMMA PlaceNew ==
    ASSUME Shapes, BaseAssumption, NEW p \in Proc, NEW b, NEW x, NEW F,
           Good(frm, sqb, sqi, "place", data[p], op[p], b, x, F),
           NEW l \in {"held", "unlock"}, op[p].mode = "new",
           Leave(p, SaveNew(View(p), op[p].at, op[p].fr, NewMsg(p, b), op[p].size), l)
    PROVE  Result(p, b, x)
  <1> DEFINE at == op[p].at
             size == op[p].size
             msg == NewMsg(p, b)
             y == Append(x, Entry(at, msg.msgno))
  <1>1. /\ HasRoom(frm, b, x, F, at, op[p].fr, size) /\ b.nextmsgno > 0 /\ b.nextmsgno \in Nat
        /\ Uniform => Grown(frm, b, x, F, "place", op[p])
        /\ View(p) = V(frm, b, x, Numbers(x)) /\ size \in Nat /\ op[p].msg \in Messages
        /\ x \in Seq(Entries) /\ Len(x) \in Nat /\ DOMAIN x = 1..Len(x) /\ Len(F) \in Nat
        /\ sqb \in Bases /\ sqi \in Seq(Entries)
    BY PlaceIs
  <1>2. /\ msg \in Messages /\ msg.msgno = b.nextmsgno
        /\ msg = [msgno |-> b.nextmsgno, by |-> op[p].msg.by]
        /\ op[p].msg.by \in Proc \cup {"nobody"}
    BY <1>1, NewMsgIs
  <1> HIDE DEF msg
  <1>3. PICK g, c : Added(frm, b, x, F, at, op[p].fr, size, msg, g, c)
    BY <1>1, <1>2, AddSound
  <1>4. /\ SaveNew(V(frm, b, x, Numbers(x)), at, op[p].fr, msg, size) = V(g, c, y, Numbers(y))
        /\ Sound(g, c, y, F)
        /\ SameLimits(b, c) /\ c.nextmsgno = b.nextmsgno + 1
        /\ c.endframe = NewEnd(b, at, size)
        /\ \A o \in Spots(x, F) : g[o].length = frm[o].length /\ g[o].txt = frm[o].txt
        /\ g[at].length = NewLen(b, at, op[p].fr, size) /\ g[at].txt = msg
        /\ Spots(y, F) = Spots(x, F) \cup {at}
    BY <1>3 DEF Added
  <1>5. Leave(p, V(g, c, y, Numbers(y)), l)
    BY <1>1, <1>4 DEF msg
  <1>6. Entry(at, msg.msgno) \in Entries /\ Entry(at, msg.msgno).offset = at
    <2>1. at \in Nat /\ msg.msgno \in Nat
      BY <1>1, <1>2 DEF HasRoom
    <2> QED BY <2>1 DEF Entry, Entries
  <1>7. y \in Seq(Entries) /\ Len(y) = Len(x) + 1 /\ y[Len(x) + 1].offset = at
        /\ \A i \in 1..Len(x) : y[i] = x[i]
    <2>1. PICK e : e = Entry(at, msg.msgno)
      OBVIOUS
    <2>2. e \in Entries /\ e.offset = at /\ y = Append(x, e)
      BY <1>6, <2>1
    <2> HIDE DEF y
    <2>3. y \in Seq(Entries) /\ Len(y) = Len(x) + 1 /\ y[Len(x) + 1] = e
          /\ \A i \in 1..Len(x) : y[i] = x[i]
      BY <1>1, <2>2
    <2> QED BY <2>2, <2>3
  <1>8. Texts(g, y) = Append(Texts(frm, x), msg)
    <2> HIDE DEF y, at
    <2>1. PICK n \in Nat : n = Len(x)
      BY <1>1
    <2>2. DOMAIN x = 1..n /\ DOMAIN y = 1..(n + 1)
      BY <1>1, <1>7, <2>1
    <2> DEFINE s == Texts(frm, x)
               t == Texts(g, y)
               T == {s[i] : i \in 1..n} \cup {msg}
    <2>3. s = [i \in 1..n |-> frm[x[i].offset].txt] /\ t = [i \in 1..(n + 1) |-> g[y[i].offset].txt]
      BY <2>2 DEF Texts
    <2>4. \A i \in 1..n : t[i] = s[i]
      <3>1. ASSUME NEW i \in 1..n PROVE t[i] = s[i]
        <4>1. x[i].offset \in Spots(x, F)
          BY <2>1 DEF Spots
        <4>2. i \in 1..(n + 1) /\ y[i] = x[i]
          BY <1>7, <2>1
        <4>3. g[x[i].offset].txt = frm[x[i].offset].txt
          BY <1>4, <4>1
        <4> QED BY <2>3, <4>2, <4>3
      <3> QED BY <3>1
    <2>5. t[n + 1] = msg
      <3>1. n + 1 \in 1..(n + 1)
        OBVIOUS
      <3>2. y[n + 1].offset = at
        BY <1>7, <2>1
      <3>3. t[n + 1] = g[y[n + 1].offset].txt
        BY <2>3, <3>1
      <3> QED BY <1>4, <3>2, <3>3
    <2>6. s \in Seq(T) /\ Len(s) = n
      <3>1. s \in [1..n -> T]
        <4>1. \A i \in 1..n : s[i] \in T
          OBVIOUS
        <4>2. s = [i \in 1..n |-> s[i]]
          BY <2>3
        <4> HIDE DEF s, T
        <4> QED BY <4>1, <4>2
      <3> HIDE DEF s, T
      <3> QED BY <3>1
    <2>7. msg \in T
      OBVIOUS
    <2>8. DOMAIN t = 1..(n + 1) /\ t = [i \in 1..(n + 1) |-> t[i]]
      BY <2>3
    <2> HIDE DEF s, t, T
    <2>9. t = Append(s, msg)
      <3>1. Append(s, msg) \in Seq(T) /\ Len(Append(s, msg)) = n + 1
        BY <2>6, <2>7
      <3>2. \A i \in 1..n : Append(s, msg)[i] = s[i]
        BY <2>6, <2>7
      <3>3. Append(s, msg)[n + 1] = msg
        BY <2>6, <2>7
      <3>4. Append(s, msg) = [i \in 1..(n + 1) |-> Append(s, msg)[i]]
        <4>1. PICK u : u = Append(s, msg)
          OBVIOUS
        <4>2. u \in Seq(T) /\ Len(u) = n + 1
          BY <3>1, <4>1
        <4>3. u = [i \in 1..(n + 1) |-> u[i]]
          BY <4>2
        <4> QED BY <4>1, <4>3
      <3>5. \A i \in 1..(n + 1) : t[i] = Append(s, msg)[i]
        <4>1. ASSUME NEW i \in 1..(n + 1) PROVE t[i] = Append(s, msg)[i]
          <5>1. i \in 1..n \/ i = n + 1
            OBVIOUS
          <5> QED BY <2>4, <2>5, <3>2, <3>3, <5>1
        <4> QED BY <4>1
      <3> QED BY <2>8, <3>4, <3>5
    <2> QED BY <2>9 DEF s, t
  <1>9. ListStep(Texts(frm, x), b.nextmsgno - 1, Texts(g, y), c.nextmsgno - 1)
    <2>1. PICK n \in Nat : n = b.nextmsgno
      BY <1>1
    <2>2. c.nextmsgno - 1 = (b.nextmsgno - 1) + 1 /\ b.nextmsgno = (b.nextmsgno - 1) + 1
      BY <1>4, <2>1
    <2>3. msg = [msgno |-> (b.nextmsgno - 1) + 1, by |-> op[p].msg.by]
      BY <1>2, <2>2
    <2> QED BY <1>2, <1>8, <2>2, <2>3 DEF ListStep
  <1>10. ASSUME Uniform, NEW o PROVE Grown(g, c, y, F, l, o)
    <2>1. Grown(frm, b, x, F, "place", op[p]) /\ c.maxmsgs = b.maxmsgs /\ l # "place"
      BY <1>1, <1>4, <1>10 DEF SameLimits
    <2>2. Len(y) \in Nat /\ Len(y) + Len(F) = Len(x) + Len(F) + 1
      BY <1>1, <1>7
    <2>3. /\ \A s \in Spots(x, F) : g[s].length = frm[s].length
          /\ c.endframe = NewEnd(b, op[p].at, op[p].size)
          /\ g[op[p].at].length = NewLen(b, op[p].at, op[p].fr, op[p].size)
          /\ Spots(y, F) = Spots(x, F) \cup {op[p].at}
          /\ Len(x) \in Nat /\ Len(F) \in Nat
      BY <1>1, <1>4
    <2> HIDE DEF y
    <2> QED BY <2>1, <2>2, <2>3, GrownAt
  <1>11. c.nextmsgno > 0
    BY <1>1, <1>4
  <1>12. l \in {"busy", "held", "unlock"} /\ l # "busy"
    OBVIOUS
  <1> HIDE DEF y
  <1> QED BY <1>1, <1>4, <1>5, <1>9, <1>10, <1>11, <1>12, Leaves

LEMMA PlaceMoved ==
    ASSUME Shapes, BaseAssumption, NEW p \in Proc, NEW b, NEW x, NEW F,
           Good(frm, sqb, sqi, "place", data[p], op[p], b, x, F),
           NEW l \in {"held", "unlock"}, op[p].mode = "txt",
           Leave(p, SaveMoved(View(p), Relno(p), op[p].old, op[p].oldfr, op[p].at, op[p].fr,
                              op[p].msg, op[p].size), l)
    PROVE  Result(p, b, x)
  <1> DEFINE at == op[p].at
             size == op[p].size
  <1>1. /\ HasRoom(frm, b, x, F, at, op[p].fr, size) /\ b.nextmsgno > 0 /\ b.nextmsgno \in Nat
        /\ Uniform => Grown(frm, b, x, F, "place", op[p])
        /\ View(p) = V(frm, b, x, Numbers(x)) /\ size \in Nat
        /\ x \in Seq(Entries) /\ Len(x) \in Nat /\ DOMAIN x = 1..Len(x) /\ Len(F) \in Nat
        /\ sqb \in Bases /\ sqi \in Seq(Entries) /\ Sound0(frm, b, x, F)
        /\ OpOK(frm, b, x, "place", op[p]) /\ data[p].msgn = Numbers(x)
    BY PlaceIs
  <1>2. PICK k \in 1..Len(x) : /\ op[p].old = x[k].offset /\ op[p].oldfr = frm[x[k].offset]
                               /\ op[p].msg = frm[x[k].offset].txt
    BY <1>1 DEF OpOK
  <1>3. Relno(p) = k
    BY <1>1, <1>2, Located DEF Relno
  <1>4. PICK g, c : Moved(frm, b, x, Numbers(x), F, k, at, op[p].fr, size, g, c)
    BY <1>1, MoveSound
  <1> DEFINE y == Renamed(x, k, at)
             G == Append(F, x[k].offset)
  <1>5. /\ SaveMoved(V(frm, b, x, Numbers(x)), k, x[k].offset, frm[x[k].offset], at, op[p].fr,
                     frm[x[k].offset].txt, size) = V(g, c, y, Numbers(x))
        /\ Sound(g, c, y, G)
        /\ SameLimits(b, c) /\ c.nextmsgno = b.nextmsgno
        /\ Numbers(y) = Numbers(x) /\ Len(y) = Len(x)
        /\ \A i \in 1..Len(x) : g[y[i].offset].txt = frm[x[i].offset].txt
    BY <1>4 DEF Moved
  <1>6. Leave(p, V(g, c, y, Numbers(y)), l)
    BY <1>1, <1>2, <1>3, <1>5
  <1>7. DOMAIN y = 1..Len(x)
    BY <1>1 DEF Renamed
  <1>8. Texts(g, y) = Texts(frm, x)
    <2> HIDE DEF y
    <2> QED BY <1>1, <1>5, <1>7 DEF Texts
  <1>9. ListStep(Texts(frm, x), b.nextmsgno - 1, Texts(g, y), c.nextmsgno - 1)
    BY <1>5, <1>8 DEF ListStep
  <1>10. ~Uniform
    BY <1>1 DEF Grown
  <1>11. l \in {"busy", "held", "unlock"} /\ l # "busy" /\ c.nextmsgno > 0
    BY <1>1, <1>5
  <1> HIDE DEF y, G
  <1> QED BY <1>1, <1>5, <1>6, <1>9, <1>10, <1>11, Leaves

LEMMA PlaceStep ==
    ASSUME Shapes, BaseAssumption, NEW p \in Proc, NEW b, NEW x, NEW F,
           Good(frm, sqb, sqi, pc[p], data[p], op[p], b, x, F), Place(p)
    PROVE  Result(p, b, x)
  <1>1. Good(frm, sqb, sqi, "place", data[p], op[p], b, x, F)
    BY DEF Place
  <1>2. op[p].mode \in {"new", "txt"} /\ data[p].base = b /\ After(p) \in {"held", "unlock"}
    BY <1>1, PlaceIs DEF After
  <1>3. CASE op[p].mode = "new"
    <2>1. Leave(p, SaveNew(View(p), op[p].at, op[p].fr, NewMsg(p, b), op[p].size), After(p))
      BY <1>2, <1>3 DEF Place, NewMsg
    <2> QED BY <1>1, <1>2, <1>3, <2>1, PlaceNew
  <1>4. CASE op[p].mode = "txt"
    <2>1. Leave(p, SaveMoved(View(p), Relno(p), op[p].old, op[p].oldfr, op[p].at, op[p].fr,
                             op[p].msg, op[p].size), After(p))
      BY <1>4 DEF Place
    <2> QED BY <1>1, <1>2, <1>4, <2>1, PlaceMoved
  <1> QED BY <1>2, <1>3, <1>4

\* Every step of the program keeps its base sound.
LEMMA OneStep ==
    ASSUME Shapes, BaseAssumption, MayCrash = {}, NEW p \in Proc, NEW b, NEW x, NEW F,
           Good(frm, sqb, sqi, pc[p], data[p], op[p], b, x, F), Step(p)
    PROVE  Result(p, b, x)
  <1>1. CASE Open(p)
    BY <1>1, OpenStep
  <1>2. CASE OpenScan(p)
    BY <1>2, OpenScanStep
  <1>3. CASE Close(p)
    BY <1>3, CloseStep
  <1>4. CASE Call(p) \/ CallHeld(p)
    BY <1>4, CallStep
  <1>5. CASE Acquire(p) \/ AreaUnlock(p) \/ Unlock(p)
    BY <1>5, PcStep
  <1>6. CASE Refresh(p)
    BY <1>6, RefreshStep
  <1>7. CASE RefreshIndex(p)
    BY <1>7, RefreshIndexStep
  <1>8. CASE Purge(p)
    BY <1>8, PurgeStep
  <1>9. CASE SaveHdr(p) \/ UpdateTimesread(p)
    BY <1>9, HdrStep
  <1>10. CASE Rewrite(p)
    BY <1>10, RewriteStep
  <1>11. CASE Take(p)
    BY <1>11, TakeStep
  <1>12. CASE Place(p)
    BY <1>12, PlaceStep
  <1>13. CASE Delete(p)
    BY <1>13, DeleteStep
  <1>14. CASE WriteBase(p)
    BY <1>14, WriteBaseStep
  <1>15. CASE WriteIndex(p)
    BY <1>15, WriteIndexStep
  <1>16. ~DeleteWild(p) /\ ~SaveGone(p)
    BY NeverWild
  <1>17. ~Crash(p)
    BY DEF Crash
  <1> QED BY <1>1, <1>2, <1>3, <1>4, <1>5, <1>6, <1>7, <1>8, <1>9, <1>10, <1>11, <1>12, <1>13, <1>14,
             <1>15, <1>16, <1>17 DEF Step

\* The program that has the base to itself.
User == CHOOSE p \in Proc : TRUE

LEMMA UserIs == ASSUME Alone PROVE MayCrash = {} /\ User \in Proc /\ Proc = {User}
  <1>1. PICK p : Proc = {p}
    BY DEF Alone
  <1>2. User \in Proc
    BY <1>1 DEF User
  <1> QED BY <1>1, <1>2 DEF Alone

LEMMA SoundNext == ASSUME Alone, BaseAssumption, SoundInv, [Next]_vars PROVE SoundInv'
  <1>1. MayCrash = {} /\ User \in Proc /\ Proc = {User}
    BY UserIs
  <1>2. PICK b, x, F : Good(frm, sqb, sqi, pc[User], data[User], op[User], b, x, F)
    BY <1>1 DEF SoundInv
  <1>3. CASE Next
    <2>1. Step(User)
      BY <1>1, <1>3 DEF Next
    <2>2. Result(User, b, x)
      BY <1>1, <1>2, <2>1, OneStep DEF SoundInv
    <2>3. Shapes' /\ \E c, y, G : Good(frm', sqb', sqi', pc'[User], data'[User], op'[User], c, y, G)
      BY <2>2 DEF Result
    <2> QED BY <1>1, <2>3 DEF SoundInv
  <1>4. CASE UNCHANGED vars
    <2>1. UNCHANGED <<frm, sqb, sqi, holder, recycle, pc, islocked, data, op>>
      BY <1>4 DEF vars, files
    <2>2. Shapes'
      BY <2>1 DEF Shapes, SoundInv
    <2>3. Good(frm', sqb', sqi', pc'[User], data'[User], op'[User], b, x, F)
      BY <1>2, <2>1
    <2> QED BY <1>1, <2>2, <2>3 DEF SoundInv
  <1> QED BY <1>3, <1>4

-----------------------------------------------------------------------------
\* The base at the start is sound.

\* The frames of a new base, one behind the other.
LEMMA AtRises ==
    ASSUME BaseAssumption, NEW i \in Nat, NEW j \in Nat, i < j
    PROVE  At(i) + FrmSize + MinSize <= At(j)
  <1>1. PICK w \in Nat : w = FrmSize + MinSize
    BY MinSizeIs, SizeAssumption
  <1>2. PICK d \in Nat : j = i + d + 1
    <2>1. (j - i) - 1 \in Nat /\ j = i + ((j - i) - 1) + 1
      OBVIOUS
    <2> QED BY <2>1
  <1>3. \A a, c, u \in Int : (a + c) * u = a * u + c * u /\ a * u \in Int
    OBVIOUS
  <1>4. d * w \in Nat
    OBVIOUS
  <1>5. (j - 1) * w = (i - 1) * w + d * w + w
    <2>1. ((i - 1) + (d + 1)) * w = (i - 1) * w + (d + 1) * w
      BY <1>3
    <2>2. (d + 1) * w = d * w + 1 * w /\ 1 * w = w
      BY <1>3
    <2>3. j - 1 = (i - 1) + (d + 1)
      BY <1>2
    <2> QED BY <2>1, <2>2, <2>3
  <1>6. PICK v \in Int : v = (i - 1) * w
    BY <1>3
  <1>7. At(j) = BaseSize + (v + d * w + w) /\ At(i) = BaseSize + v
    BY <1>1, <1>5, <1>6 DEF At
  <1>8. PICK e \in Nat : e = d * w
    BY <1>4
  <1>9. FrmSize \in Nat /\ MinSize \in Nat /\ BaseSize \in Nat
    BY MinSizeIs, SizeAssumption
  <1> QED BY <1>1, <1>7, <1>8, <1>9

LEMMA AtIn ==
    ASSUME BaseAssumption, NEW i \in Nat \ {0}
    PROVE  At(i) \in Nat /\ At(i) > 0 /\ At(i) >= BaseSize /\ At(1) = BaseSize
  <1>1. FrmSize \in Nat \ {0} /\ BaseSize \in Nat \ {0} /\ MinSize \in Nat
    BY MinSizeIs, SizeAssumption
  <1>2. At(1) = BaseSize
    <2>1. PICK w \in Nat : w = FrmSize + MinSize
      BY <1>1
    <2>2. (1 - 1) * w = 0
      OBVIOUS
    <2> QED BY <1>1, <2>1, <2>2 DEF At
  <1>3. At(i) \in Int
    BY AtNext
  <1>4. At(i) >= At(1)
    <2>1. CASE i = 1
      BY <1>1, <1>2, <2>1
    <2>2. CASE i # 1
      <3>1. At(1) + FrmSize + MinSize <= At(i)
        BY <2>2, AtRises
      <3> QED BY <1>1, <1>2, <1>3, <3>1
    <2> QED BY <2>1, <2>2
  <1> QED BY <1>1, <1>2, <1>3, <1>4

LEMMA AtCovers ==
    ASSUME BaseAssumption, NEW n \in Nat, NEW y \in BaseSize..(At(n + 1) - 1)
    PROVE  \E i \in 1..n : At(i) <= y /\ y < At(i) + FrmSize + MinSize
  <1>1. FrmSize \in Nat \ {0} /\ BaseSize \in Nat \ {0} /\ MinSize \in Nat
    BY MinSizeIs, SizeAssumption
  <1>2. At(n + 1) \in Int /\ At(1) = BaseSize
    BY AtIn, AtNext
  <1>3. y \in Nat /\ BaseSize <= y /\ y < At(n + 1)
    BY <1>1, <1>2
  <1> DEFINE T == {i \in Nat : y < At(i + 1)}
  <1>4. PICK i \in T : \A j \in T : i <= j
    <2>1. n \in T
      BY <1>3
    <2> HIDE DEF T
    <2>2. T \subseteq Nat /\ T # {}
      BY <2>1 DEF T
    <2> QED BY <2>2, LeastNumber
  <1>5. i \in Nat /\ y < At(i + 1) /\ i <= n
    BY <1>3, <1>4
  <1>6. i # 0
    <2>1. ASSUME i = 0 PROVE FALSE
      <3>1. At(i + 1) = BaseSize
        BY <1>2, <2>1
      <3> QED BY <1>1, <1>3, <1>5, <3>1
    <2> QED BY <2>1
  <1>7. At(i) <= y
    <2>1. i - 1 \in Nat /\ (i - 1) + 1 = i /\ ~(i <= i - 1)
      BY <1>5, <1>6
    <2>2. i - 1 \notin T
      BY <1>4, <2>1
    <2>3. ~(y < At(i))
      BY <2>1, <2>2
    <2>4. At(i) \in Int
      BY <1>5, AtNext
    <2> QED BY <1>3, <2>3, <2>4
  <1>8. At(i + 1) = At(i) + FrmSize + MinSize
    BY <1>5, AtNext
  <1> QED BY <1>5, <1>6, <1>7, <1>8

\* The files at the start, when they are not empty.
OldFrames == [o \in {At(i) : i \in 1..Posted} |-> OldFrame(CHOOSE i \in 1..Posted : At(i) = o)]
OldIdx    == [i \in 1..Posted |-> [offset |-> At(i), msgno |-> i + 1]]

LEMMA OldFrameIs ==
    ASSUME BaseAssumption, NEW i \in 1..Posted
    PROVE  /\ OldFrame(i) \in Frames /\ OldFrame(i).length = MinSize
           /\ Holds(OldFrame(i), i + 1)
           /\ OldFrame(i).prev = (IF i = 1 THEN SQFRAME_NULL ELSE At(i - 1))
           /\ OldFrame(i).next = (IF i = Posted THEN SQFRAME_NULL ELSE At(i + 1))
           /\ OldFrame(i).txt = [msgno |-> i + 1, by |-> "nobody"]
  <1>1. PICK m \in Nat : m = MinSize
    BY MinSizeIs
  <1>2. Posted \in Nat /\ i \in Nat \ {0} /\ i + 1 \in Nat
    <2>1. Posted \in Nat
      BY DEF BaseAssumption
    <2> QED BY <2>1
  <1>3. PICK q \in Nat : q = IF i = 1 THEN SQFRAME_NULL ELSE At(i - 1)
    <2>1. i # 1 => i - 1 \in Nat \ {0}
      BY <1>2
    <2> QED BY <2>1, AtIn DEF SQFRAME_NULL
  <1>4. PICK r \in Nat : r = IF i = Posted THEN SQFRAME_NULL ELSE At(i + 1)
    <2>1. i + 1 \in Nat \ {0}
      BY <1>2
    <2> QED BY <2>1, AtIn DEF SQFRAME_NULL
  <1>5. PICK t : t = Old(i)
    OBVIOUS
  <1>6. t \in Messages /\ t.msgno = i + 1 /\ t = [msgno |-> i + 1, by |-> "nobody"]
    BY <1>2, <1>5 DEF Old, Messages
  <1>7. OldFrame(i) = [type |-> "normal", next |-> r, prev |-> q, length |-> m, totsize |-> m, hdr |-> t, txt |-> t]
    <2>1. OldFrame(i) = [init_frm EXCEPT !.length = m, !.totsize = m, !.hdr = t, !.txt = t, !.prev = q, !.next = r]
      BY <1>1, <1>3, <1>4, <1>5 DEF OldFrame
    <2> QED BY <2>1 DEF init_frm
  <1> QED BY <1>1, <1>3, <1>4, <1>6, <1>7 DEF Frames, Holds

LEMMA OldFramesAre ==
    ASSUME BaseAssumption
    PROVE  /\ DOMAIN OldFrames = {At(i) : i \in 1..Posted} /\ Table(OldFrames)
           /\ \A i \in 1..Posted : OldFrames[At(i)] = OldFrame(i)
           /\ \A i, j \in 1..Posted : At(i) = At(j) => i = j
  <1>0. Posted \in Nat
    BY DEF BaseAssumption
  <1>1. \A i \in 1..Posted : i \in Nat \ {0} /\ At(i) \in Nat /\ At(i) > 0
    <2>1. ASSUME NEW i \in 1..Posted PROVE i \in Nat \ {0} /\ At(i) \in Nat /\ At(i) > 0
      <3>1. i \in Nat \ {0}
        BY <1>0
      <3> QED BY <3>1, AtIn
    <2> QED BY <2>1
  <1>2. \A i, j \in 1..Posted : i < j => At(i) < At(j)
    <2>1. ASSUME NEW i \in 1..Posted, NEW j \in 1..Posted, i < j PROVE At(i) < At(j)
      <3>1. i \in Nat /\ j \in Nat /\ At(i) \in Nat /\ At(j) \in Nat
        BY <1>1
      <3>2. At(i) + FrmSize + MinSize <= At(j)
        BY <2>1, <3>1, AtRises
      <3>3. FrmSize \in Nat \ {0} /\ MinSize \in Nat
        BY MinSizeIs, SizeAssumption
      <3> QED BY <3>1, <3>2, <3>3
    <2> QED BY <2>1
  <1>3. \A i, j \in 1..Posted : At(i) = At(j) => i = j
    <2>1. ASSUME NEW i \in 1..Posted, NEW j \in 1..Posted, At(i) = At(j) PROVE i = j
      <3>1. ~(i < j) /\ ~(j < i)
        <4>1. PICK a \in Nat : a = At(i) /\ a = At(j)
          BY <1>1, <2>1
        <4>2. ~(a < a)
          BY <4>1
        <4>3. ~(At(i) < At(j)) /\ ~(At(j) < At(i))
          BY <4>1, <4>2
        <4> QED BY <1>2, <4>3, Zenon
      <3> QED BY <1>1, <3>1
    <2> QED BY <2>1
  <1> DEFINE D == {At(i) : i \in 1..Posted}
             f == OldFrames
  <1>4. DOMAIN f = D /\ f = [o \in D |-> f[o]]
    BY DEF OldFrames
  <1>5. ASSUME NEW i \in 1..Posted PROVE f[At(i)] = OldFrame(i)
    <2>1. (CHOOSE j \in 1..Posted : At(j) = At(i)) = i
      <3>1. \A j \in 1..Posted : At(j) = At(i) <=> j = i
        BY <1>3
      <3> QED BY <3>1
    <2>2. At(i) \in D
      OBVIOUS
    <2> QED BY <2>1, <2>2 DEF OldFrames
  <1>6. D \subseteq Nat \ {SQFRAME_NULL}
    BY <1>1 DEF SQFRAME_NULL
  <1>7. IsFiniteSet(D)
    <2>1. PICK l \in Nat : \A i \in 1..Posted : At(i) <= l
      <3>1. At(Posted + 1) \in Nat
        BY <1>0, AtIn
      <3>2. ASSUME NEW i \in 1..Posted PROVE At(i) <= At(Posted + 1)
        <4>1. i \in Nat /\ i < Posted + 1 /\ At(i) \in Nat
          BY <1>0, <1>1
        <4>2. At(i) + FrmSize + MinSize <= At(Posted + 1)
          BY <1>0, <4>1, AtRises
        <4>3. FrmSize \in Nat /\ MinSize \in Nat
          BY MinSizeIs, SizeAssumption
        <4> QED BY <3>1, <4>1, <4>2, <4>3
      <3> QED BY <3>1, <3>2
    <2>2. D \subseteq 0..l
      BY <1>1, <2>1
    <2>3. IsFiniteSet(0..l)
      BY FS_Interval
    <2> HIDE DEF D
    <2> QED BY <2>2, <2>3, FS_Subset
  <1>8. \A o \in D : f[o] \in Frames
    <2>1. ASSUME NEW o \in D PROVE f[o] \in Frames
      <3>1. PICK i \in 1..Posted : o = At(i)
        OBVIOUS
      <3>2. f[o] = OldFrame(i)
        BY <1>5, <3>1
      <3> HIDE DEF f, D
      <3> QED BY <3>2, OldFrameIs
    <2> QED BY <2>1
  <1> QED BY <1>3, <1>4, <1>5, <1>6, <1>7, <1>8 DEF Table

LEMMA OldIdxIs ==
    ASSUME BaseAssumption
    PROVE  /\ OldIdx \in Seq(Entries) /\ Len(OldIdx) = Posted /\ Posted \in Nat
           /\ \A i \in 1..Posted : OldIdx[i].offset = At(i) /\ OldIdx[i].msgno = i + 1
           /\ Offs(OldIdx) \in Seq(Nat) /\ Len(Offs(OldIdx)) = Posted
           /\ \A i \in 1..Posted : Offs(OldIdx)[i] = At(i)
           /\ Spots(OldIdx, <<>>) = {At(i) : i \in 1..Posted}
  <1>0. Posted \in Nat
    BY DEF BaseAssumption
  <1>1. OldIdx \in [1..Posted -> Entries]
    <2>1. ASSUME NEW i \in 1..Posted PROVE [offset |-> At(i), msgno |-> i + 1] \in Entries
      <3>1. i \in Nat \ {0}
        BY <1>0
      <3>2. At(i) \in Nat /\ i + 1 \in Nat
        BY <3>1, AtIn
      <3> QED BY <3>2 DEF Entries
    <2> QED BY <2>1 DEF OldIdx
  <1>2. OldIdx \in Seq(Entries) /\ Len(OldIdx) = Posted
    <2>1. PICK s : s = OldIdx /\ s \in [1..Posted -> Entries]
      BY <1>1
    <2>2. s \in Seq(Entries) /\ Len(s) = Posted
      BY <1>0, <2>1
    <2> QED BY <2>1, <2>2
  <1>3. \A i \in 1..Posted : OldIdx[i].offset = At(i) /\ OldIdx[i].msgno = i + 1
    BY DEF OldIdx
  <1>4. Offs(OldIdx) \in Seq(Nat) /\ Len(Offs(OldIdx)) = Posted
    BY <1>2, OffsLen
  <1>5. \A i \in 1..Posted : Offs(OldIdx)[i] = At(i)
    BY <1>2, <1>3 DEF Offs
  <1>6. Spots(OldIdx, <<>>) = {At(i) : i \in 1..Posted}
    <2>1. {OldIdx[i].offset : i \in 1..Len(OldIdx)} = {At(i) : i \in 1..Posted}
      BY <1>2, <1>3
    <2>2. 1..Len(<<>>) = {}
      OBVIOUS
    <2> HIDE DEF OldIdx
    <2> QED BY <2>1, <2>2 DEF Spots
  <1> QED BY <1>0, <1>2, <1>3, <1>4, <1>5, <1>6

LEMMA OldChain ==
    ASSUME BaseAssumption
    PROVE  Chain(OldFrames, Offs(OldIdx), OldBase.firstframe, OldBase.lastframe)
  <1> DEFINE S == Offs(OldIdx)
             f == OldFrames
  <1>1. S \in Seq(Nat) /\ Len(S) = Posted /\ Posted \in Nat /\ \A i \in 1..Posted : S[i] = At(i)
    BY OldIdxIs
  <1>2. /\ DOMAIN f = {At(i) : i \in 1..Posted} /\ \A i \in 1..Posted : f[At(i)] = OldFrame(i)
        /\ \A i, j \in 1..Posted : At(i) = At(j) => i = j
    BY OldFramesAre
  <1>3. /\ OldBase.firstframe = (IF Posted = 0 THEN SQFRAME_NULL ELSE At(1))
        /\ OldBase.lastframe = (IF Posted = 0 THEN SQFRAME_NULL ELSE At(Posted))
    BY DEF OldBase, NewBase
  <1> HIDE DEF S, f
  <1>4. OldBase.firstframe = Pos(S, 1) /\ OldBase.lastframe = Pos(S, Len(S))
    <2>1. CASE Posted = 0
      BY <1>1, <1>3, <2>1 DEF Pos
    <2>2. CASE Posted # 0
      <3>1. 1 \in 1..Posted /\ Posted \in 1..Posted
        BY <1>1, <2>2
      <3> QED BY <1>1, <1>3, <2>2, <3>1 DEF Pos
    <2> QED BY <2>1, <2>2
  <1>5. ASSUME NEW i \in 1..Len(S)
        PROVE  f[S[i]].prev = Pos(S, i - 1) /\ f[S[i]].next = Pos(S, i + 1)
    <2>1. i \in 1..Posted /\ f[S[i]] = OldFrame(i)
      BY <1>1, <1>2
    <2>2. /\ OldFrame(i).prev = (IF i = 1 THEN SQFRAME_NULL ELSE At(i - 1))
          /\ OldFrame(i).next = (IF i = Posted THEN SQFRAME_NULL ELSE At(i + 1))
      BY <2>1, OldFrameIs
    <2>3. Pos(S, i - 1) = IF i = 1 THEN SQFRAME_NULL ELSE At(i - 1)
      <3>1. CASE i = 1
        <4>1. i - 1 \notin 1..Len(S)
          BY <3>1
        <4> QED BY <3>1, <4>1 DEF Pos
      <3>2. CASE i # 1
        <4>1. i - 1 \in 1..Posted
          BY <1>1, <2>1, <3>2
        <4> QED BY <1>1, <3>2, <4>1 DEF Pos
      <3> QED BY <3>1, <3>2
    <2>4. Pos(S, i + 1) = IF i = Posted THEN SQFRAME_NULL ELSE At(i + 1)
      <3>1. CASE i = Posted
        <4>1. i + 1 \notin 1..Len(S)
          BY <1>1, <3>1
        <4> QED BY <3>1, <4>1 DEF Pos
      <3>2. CASE i # Posted
        <4>1. i + 1 \in 1..Posted
          BY <1>1, <2>1, <3>2
        <4> QED BY <1>1, <3>2, <4>1 DEF Pos
      <3> QED BY <3>1, <3>2
    <2> QED BY <2>1, <2>2, <2>3, <2>4
  <1>6. /\ \A i \in 1..Len(S) : S[i] \in DOMAIN f
        /\ \A i, j \in 1..Len(S) : S[i] = S[j] => i = j
    BY <1>1, <1>2
  <1> QED BY <1>1, <1>4, <1>5, <1>6 DEF Chain, S, f

LEMMA OldTiles ==
    ASSUME BaseAssumption
    PROVE  Tiles(OldFrames, {At(i) : i \in 1..Posted}, At(Posted + 1))
  <1> DEFINE f == OldFrames
             X == {At(i) : i \in 1..Posted}
             end == At(Posted + 1)
  <1>0. FrmSize \in Nat \ {0} /\ MinSize \in Nat /\ BaseSize \in Nat /\ Posted \in Nat
    BY MinSizeIs, SizeAssumption DEF BaseAssumption
  <1>1. ASSUME NEW i \in 1..Posted
        PROVE  /\ At(i) \in Nat /\ BaseSize <= At(i) /\ f[At(i)].length = MinSize
               /\ At(i) + FrmSize + MinSize <= end
    <2>1. i \in Nat \ {0} /\ i < Posted + 1 /\ Posted + 1 \in Nat
      BY <1>0
    <2>2. At(i) \in Nat /\ At(i) >= BaseSize
      BY <2>1, AtIn
    <2>3. At(i) + FrmSize + MinSize <= end
      BY <2>1, AtRises
    <2>4. f[At(i)].length = MinSize
      <3>1. f[At(i)] = OldFrame(i)
        BY OldFramesAre
      <3>2. OldFrame(i).length = MinSize
        BY OldFrameIs
      <3> QED BY <3>1, <3>2
    <2> QED BY <1>0, <2>2, <2>3, <2>4
  <1>2. end \in Nat /\ BaseSize <= end
    <2>1. Posted + 1 \in Nat \ {0}
      BY <1>0
    <2>2. end \in Nat /\ end >= BaseSize
      BY <2>1, AtIn
    <2> QED BY <1>0, <2>2
  <1> HIDE DEF f
  <1>3. ASSUME NEW o \in X PROVE BaseSize <= o /\ o + FrmSize + f[o].length <= end
    <2>1. PICK i \in 1..Posted : o = At(i)
      OBVIOUS
    <2> HIDE DEF X, end
    <2> QED BY <1>1, <2>1
  <1>4. ASSUME NEW y \in BaseSize..(end - 1) PROVE \E o \in X : Within(f, o, y)
    <2>1. PICK i \in 1..Posted : At(i) <= y /\ y < At(i) + FrmSize + MinSize
      BY <1>0, AtCovers
    <2>2. Within(f, At(i), y) /\ At(i) \in X
      BY <1>1, <2>1 DEF Within
    <2> QED BY <2>2
  <1>5. ASSUME NEW o \in X, NEW u \in X, NEW y \in Nat, Within(f, o, y), Within(f, u, y) PROVE o = u
    <2>1. PICK i \in 1..Posted, j \in 1..Posted : o = At(i) /\ u = At(j)
      OBVIOUS
    <2>2. ASSUME NEW k \in 1..Posted, NEW l \in 1..Posted, Within(f, At(k), y), Within(f, At(l), y), k < l
          PROVE  FALSE
      <3>1. y < At(k) + FrmSize + MinSize /\ At(l) <= y
        BY <1>1, <2>2 DEF Within
      <3>2. At(k) + FrmSize + MinSize <= At(l)
        <4>1. k \in Nat /\ l \in Nat
          BY <1>0
        <4> QED BY <2>2, <4>1, AtRises
      <3>3. At(k) \in Nat /\ At(l) \in Nat
        BY <1>1
      <3> QED BY <1>0, <3>1, <3>2, <3>3
    <2>3. Within(f, At(i), y) /\ Within(f, At(j), y)
      BY <1>5, <2>1
    <2>4. i = j
      <3>1. ~(i < j) /\ ~(j < i)
        BY <2>2, <2>3
      <3>2. i \in Nat /\ j \in Nat
        BY <1>0
      <3> QED BY <3>1, <3>2
    <2> QED BY <2>1, <2>4
  <1> HIDE DEF X, end
  <1>6. Tiles(f, X, end)
    BY <1>2, <1>3, <1>4, <1>5 DEF Tiles
  <1> QED BY <1>6 DEF f, X, end

LEMMA NoChain == ASSUME NEW f PROVE Chain(f, <<>>, SQFRAME_NULL, SQFRAME_NULL)
  <1>1. <<>> \in Seq(Nat) /\ 1..Len(<<>>) = {} /\ 1 \notin 1..Len(<<>>) /\ Len(<<>>) \notin 1..Len(<<>>)
    OBVIOUS
  <1> QED BY <1>1 DEF Chain, Pos

LEMMA OldBaseIs ==
    ASSUME BaseAssumption
    PROVE  /\ OldBase \in Bases /\ OldBase.totalmsgs = Posted /\ OldBase.highestmsg = Posted
           /\ OldBase.nextmsgno = Posted + 2 /\ OldBase.firstfreeframe = SQFRAME_NULL
           /\ OldBase.lastfreeframe = SQFRAME_NULL /\ OldBase.endframe = At(Posted + 1)
           /\ OldBase.maxmsgs = MaxMsgs /\ OldBase.protmsgs = ProtMsgs
           /\ OldBase # NoBase
  <1>1. Posted \in Nat /\ MaxMsgs \in Nat /\ ProtMsgs \in Nat
    BY DEF BaseAssumption
  <1>2. PICK a \in Nat : a = IF Posted = 0 THEN SQFRAME_NULL ELSE At(1)
    BY AtIn DEF SQFRAME_NULL
  <1>3. PICK z \in Nat : z = IF Posted = 0 THEN SQFRAME_NULL ELSE At(Posted)
    BY <1>1, AtIn DEF SQFRAME_NULL
  <1>4. PICK e \in Nat : e = At(Posted + 1) /\ e > 0
    BY <1>1, AtIn
  <1>5. OldBase = [totalmsgs |-> Posted, highestmsg |-> Posted, protmsgs |-> ProtMsgs,
                   nextmsgno |-> Posted + 2, firstframe |-> a, lastframe |-> z,
                   firstfreeframe |-> SQFRAME_NULL, lastfreeframe |-> SQFRAME_NULL,
                   endframe |-> e, maxmsgs |-> MaxMsgs]
    <2>1. OldBase = [NewBase EXCEPT !.totalmsgs = Posted, !.highestmsg = Posted, !.protmsgs = ProtMsgs,
                                    !.maxmsgs = MaxMsgs, !.nextmsgno = Posted + 2, !.endframe = e,
                                    !.firstframe = a, !.lastframe = z]
      BY <1>2, <1>3, <1>4 DEF OldBase
    <2>2. PICK m : m = Posted + 2
      OBVIOUS
    <2>3. OldBase = [NewBase EXCEPT !.totalmsgs = Posted, !.highestmsg = Posted, !.protmsgs = ProtMsgs,
                                    !.maxmsgs = MaxMsgs, !.nextmsgno = m, !.endframe = e,
                                    !.firstframe = a, !.lastframe = z]
      BY <2>1, <2>2
    <2>4. OldBase = [totalmsgs |-> Posted, highestmsg |-> Posted, protmsgs |-> ProtMsgs,
                     nextmsgno |-> m, firstframe |-> a, lastframe |-> z,
                     firstfreeframe |-> SQFRAME_NULL, lastfreeframe |-> SQFRAME_NULL,
                     endframe |-> e, maxmsgs |-> MaxMsgs]
      BY <2>3 DEF NewBase
    <2> QED BY <2>2, <2>4
  <1>6. NoBase.endframe = 0
    BY DEF NoBase, NewBase
  <1>7. Posted + 2 \in Nat /\ SQFRAME_NULL \in Nat
    BY <1>1 DEF SQFRAME_NULL
  <1>8. OldBase # NoBase
    BY <1>4, <1>5, <1>6
  <1> QED BY <1>1, <1>4, <1>5, <1>7, <1>8 DEF Bases

LEMMA OldSound == ASSUME BaseAssumption PROVE Sound(OldFrames, OldBase, OldIdx, <<>>)
  <1>1. /\ OldIdx \in Seq(Entries) /\ Len(OldIdx) = Posted /\ Posted \in Nat
        /\ \A i \in 1..Posted : OldIdx[i].offset = At(i) /\ OldIdx[i].msgno = i + 1
        /\ Spots(OldIdx, <<>>) = {At(i) : i \in 1..Posted}
    BY OldIdxIs
  <1>2. Table(OldFrames) /\ \A i \in 1..Posted : OldFrames[At(i)] = OldFrame(i)
    BY OldFramesAre
  <1>3. Numbered(OldBase, OldIdx)
    <2>1. \A i \in 1..Posted : i \in Nat /\ 0 < i + 1 /\ i + 1 < Posted + 2
      BY <1>1
    <2>2. \A i, j \in 1..Posted : i < j => i + 1 < j + 1
      BY <1>1
    <2> QED BY <1>1, <2>1, <2>2, OldBaseIs DEF Numbered
  <1>4. Limits(OldBase)
    BY OldBaseIs DEF Limits, BaseAssumption
  <1>5. \A i \in 1..Posted : Holds(OldFrames[OldIdx[i].offset], OldIdx[i].msgno)
    <2>1. ASSUME NEW i \in 1..Posted PROVE Holds(OldFrames[OldIdx[i].offset], OldIdx[i].msgno)
      <3>1. OldFrames[OldIdx[i].offset] = OldFrame(i) /\ OldIdx[i].msgno = i + 1
        BY <1>1, <1>2
      <3>2. Holds(OldFrame(i), i + 1)
        BY OldFrameIs
      <3> QED BY <3>1, <3>2
    <2> QED BY <2>1
  <1>6. Chain(OldFrames, <<>>, OldBase.firstfreeframe, OldBase.lastfreeframe)
    BY NoChain, OldBaseIs
  <1>7. 1..Len(<<>>) = {}
    OBVIOUS
  <1>8. Sound0(OldFrames, OldBase, OldIdx, <<>>)
    BY <1>1, <1>2, <1>3, <1>4, <1>5, <1>6, <1>7, OldBaseIs, OldChain DEF Sound0
  <1> QED BY <1>1, <1>8, OldBaseIs, OldTiles DEF Sound

NoFrames == [o \in {} |-> init_frm]

LEMMA BlankSound == NewBase \in Bases /\ NoBase \in Bases /\ Sound(NoFrames, NewBase, <<>>, <<>>)
  <1>0. BaseSize \in Nat
    BY SizeAssumption
  <1>1. /\ NewBase \in Bases /\ NewBase.totalmsgs = 0 /\ NewBase.highestmsg = 0 /\ NewBase.maxmsgs = 0
        /\ NewBase.firstframe = SQFRAME_NULL /\ NewBase.lastframe = SQFRAME_NULL
        /\ NewBase.firstfreeframe = SQFRAME_NULL /\ NewBase.lastfreeframe = SQFRAME_NULL
        /\ NewBase.endframe = BaseSize
    BY <1>0 DEF NewBase, Bases, SQFRAME_NULL
  <1>2. NoBase \in Bases
    <2>1. NoBase = [totalmsgs |-> 0, highestmsg |-> 0, protmsgs |-> 0, nextmsgno |-> 2,
                    firstframe |-> SQFRAME_NULL, lastframe |-> SQFRAME_NULL,
                    firstfreeframe |-> SQFRAME_NULL, lastfreeframe |-> SQFRAME_NULL,
                    endframe |-> 0, maxmsgs |-> 0]
      BY DEF NoBase, NewBase
    <2> QED BY <2>1 DEF Bases, SQFRAME_NULL
  <1>3. 1..Len(<<>>) = {} /\ <<>> \in Seq(Entries) /\ Len(<<>>) = 0
    OBVIOUS
  <1>4. Table(NoFrames)
    <2>1. DOMAIN NoFrames = {} /\ NoFrames = [o \in {} |-> NoFrames[o]]
      BY DEF NoFrames
    <2> QED BY <2>1, FS_EmptySet DEF Table
  <1>5. Numbered(NewBase, <<>>) /\ Limits(NewBase)
    BY <1>1, <1>3 DEF Numbered, Limits
  <1>6. Offs(<<>>) = <<>>
    <2>1. Offs(<<>>) \in Seq(Nat) /\ Len(Offs(<<>>)) = 0
      BY <1>3, OffsLen
    <2> QED BY <2>1
  <1>7. Sound0(NoFrames, NewBase, <<>>, <<>>)
    BY <1>1, <1>3, <1>4, <1>5, <1>6, NoChain DEF Sound0
  <1>8. Spots(<<>>, <<>>) = {}
    BY <1>3 DEF Spots
  <1>9. Tiles(NoFrames, {}, BaseSize)
    <2>1. BaseSize..(BaseSize - 1) = {}
      BY <1>0
    <2> QED BY <1>0, <2>1 DEF Tiles
  <1> QED BY <1>1, <1>2, <1>7, <1>8, <1>9 DEF Sound

LEMMA InitShapes == ASSUME BaseAssumption, Init PROVE Shapes
  <1>1. NoData \in Copies
    BY BlankSound DEF NoData, Copies
  <1> QED BY <1>1, NoOpTyped DEF Init, Shapes, Pcs

LEMMA InitSound == ASSUME BaseAssumption, Init PROVE SoundInv
  <1>1. Shapes
    BY InitShapes
  <1>2. ASSUME NEW p \in Proc PROVE \E b, x, F : Good(frm, sqb, sqi, pc[p], data[p], op[p], b, x, F)
    <2>1. pc[p] = "closed" /\ data[p] = NoData /\ op[p] = NoOp
      BY DEF Init
    <2>2. CASE Blank
      <3>1. frm = NoFrames /\ sqb = NoBase /\ sqi = <<>>
        BY <2>2 DEF Init, NoFrames
      <3>2. Fresh(NoBase) = NewBase /\ NewBase.nextmsgno > 0
        BY DEF Fresh, NewBase
      <3>3. NoBase \in Bases /\ Sound(NoFrames, NewBase, <<>>, <<>>) /\ <<>> \in Seq(Entries)
        BY BlankSound
      <3>4. ~Uniform /\ OpOK(NoFrames, NewBase, <<>>, "closed", NoOp)
        BY <2>2 DEF Uniform, OpOK
      <3>5. Good(NoFrames, NoBase, <<>>, "closed", NoData, NoOp, NewBase, <<>>, <<>>)
        BY <3>2, <3>3, <3>4 DEF Good
      <3> QED BY <2>1, <3>1, <3>5
    <2>3. CASE ~Blank
      <3>1. frm = OldFrames /\ sqb = OldBase /\ sqi = OldIdx
        BY <2>3 DEF Init, OldFrames, OldIdx
      <3>2. OldBase \in Bases /\ OldBase # NoBase /\ OldBase.nextmsgno = Posted + 2
            /\ OldBase.maxmsgs = MaxMsgs /\ OldBase.endframe = At(Posted + 1)
        BY OldBaseIs
      <3>3. Sound(OldFrames, OldBase, OldIdx, <<>>)
        BY OldSound
      <3>4. OldIdx \in Seq(Entries) /\ Len(OldIdx) = Posted /\ Posted \in Nat
            /\ Spots(OldIdx, <<>>) = {At(i) : i \in 1..Posted}
        BY OldIdxIs
      <3>5. Fresh(OldBase) = OldBase /\ OldBase.nextmsgno > 0
        BY <3>2, <3>4 DEF Fresh
      <3>6. OpOK(OldFrames, OldBase, OldIdx, "closed", NoOp)
        BY DEF OpOK
      <3>7. Grown(OldFrames, OldBase, OldIdx, <<>>, "closed", NoOp)
        <4>1. Alike(OldFrames, {At(i) : i \in 1..Posted}, MinSize)
          <5>1. ASSUME NEW i \in 1..Posted PROVE OldFrames[At(i)].length = MinSize
            <6>1. OldFrames[At(i)] = OldFrame(i)
              BY OldFramesAre
            <6>2. OldFrame(i).length = MinSize
              BY OldFrameIs
            <6> QED BY <6>1, <6>2
          <5> QED BY <5>1 DEF Alike
        <4>2. Len(<<>>) = 0 /\ Posted + 0 = Posted /\ (Posted + 0) + 1 = Posted + 1
          BY <3>4
        <4>3. Posted <= Most
          BY <3>4 DEF Most, BaseAssumption
        <4>4. OldBase.endframe = At(Len(OldIdx) + Len(<<>>) + 1)
          BY <3>2, <3>4, <4>2
        <4> HIDE DEF OldFrames, OldBase, OldIdx
        <4> QED BY <3>2, <3>4, <4>1, <4>2, <4>3, <4>4 DEF Grown
      <3>8. Good(OldFrames, OldBase, OldIdx, "closed", NoData, NoOp, OldBase, OldIdx, <<>>)
        BY <3>2, <3>3, <3>4, <3>5, <3>6, <3>7 DEF Good
      <3> QED BY <2>1, <3>1, <3>8
    <2> QED BY <2>2, <2>3
  <1> QED BY <1>1, <1>2 DEF SoundInv

LEMMA SoundAlways == ASSUME Alone, BaseAssumption PROVE Spec => []SoundInv
  <1>1. Init => SoundInv
    BY InitSound
  <1>2. SoundInv /\ [Next]_vars => SoundInv'
    BY SoundNext
  <1> QED BY <1>1, <1>2, PTL DEF Spec

-----------------------------------------------------------------------------
\* What the invariant says of the program while it uses the base.
LEMMA UsedSound ==
    ASSUME SoundInv, NEW p \in Proc, InUse(p)
    PROVE  \E F : /\ Sound(frm, data[p].base, data[p].idx, F)
                  /\ data[p].msgn = Numbers(data[p].idx)
                  /\ Uniform => Grown(frm, data[p].base, data[p].idx, F, pc[p], op[p])
                  /\ pc[p] # "place"
  <1>1. PICK b, x, F : Good(frm, sqb, sqi, pc[p], data[p], op[p], b, x, F)
    BY DEF SoundInv
  <1>2. pc[p] \notin {"closed", "opening", "place"}
    BY DEF InUse
  <1>3. data[p] = [base |-> b, idx |-> x, msgn |-> Numbers(x)]
    BY <1>1, <1>2 DEF Good
  <1>4. data[p].base = b /\ data[p].idx = x /\ data[p].msgn = Numbers(x)
    BY <1>3
  <1>5. Sound(frm, b, x, F) /\ (Uniform => Grown(frm, b, x, F, pc[p], op[p]))
    BY <1>1, <1>2 DEF Good
  <1> QED BY <1>2, <1>4, <1>5

LEMMA SoundChains == ASSUME SoundInv PROVE MessageChain /\ FreeChain /\ Readable
  <1>1. ASSUME NEW p \in Proc, InUse(p)
        PROVE  /\ Chained(Offset(p), data[p].base.firstframe, data[p].base.lastframe)
               /\ Chained(Free(p), data[p].base.firstfreeframe, data[p].base.lastfreeframe)
               /\ \A i \in DOMAIN Free(p) : frm[Free(p)[i]].type = "free"
               /\ \A i \in DOMAIN data[p].idx :
                    LET fr == frm[data[p].idx[i].offset]
                    IN  /\ fr.type = "normal" /\ fr.totsize <= fr.length
                        /\ fr.hdr = fr.txt /\ fr.hdr.msgno = data[p].idx[i].msgno
    <2>1. PICK F : Sound(frm, data[p].base, data[p].idx, F)
      BY <1>1, UsedSound
    <2> QED BY <2>1, SoundSays
  <1>2. MessageChain
    BY <1>1 DEF MessageChain
  <1>3. FreeChain
    BY <1>1 DEF FreeChain
  <1>4. Readable
    BY <1>1 DEF Readable
  <1> QED BY <1>2, <1>3, <1>4

LEMMA SoundTiled == ASSUME SoundInv PROVE Tiled
  <1>1. ASSUME NEW p \in Proc, InUse(p)
        PROVE  LET frames    == Range(Offset(p)) \cup Range(Free(p))
                   extent(o) == o..(o + FrmSize + frm[o].length - 1)
                   file      == BaseSize..(data[p].base.endframe - 1)
               IN  /\ Range(Offset(p)) \cap Range(Free(p)) = {}
                   /\ \A o \in frames : extent(o) \subseteq file
                   /\ \A x \in file : Cardinality({o \in frames : x \in extent(o)}) = 1
    <2>1. PICK F : Sound(frm, data[p].base, data[p].idx, F)
      BY <1>1, UsedSound
    <2>2. Free(p) = F /\ Offset(p) = Offs(data[p].idx)
      BY <2>1, SoundSays
    <2>3. LET frames    == Range(Offs(data[p].idx)) \cup Range(F)
              extent(o) == o..(o + FrmSize + frm[o].length - 1)
              file      == BaseSize..(data[p].base.endframe - 1)
          IN  /\ Range(Offs(data[p].idx)) \cap Range(F) = {}
              /\ \A o \in frames : extent(o) \subseteq file
              /\ \A x \in file : Cardinality({o \in frames : x \in extent(o)}) = 1
      BY <2>1, TiledIs, Zenon
    <2> QED BY <2>2, <2>3, Zenon
  <1> QED BY <1>1 DEF Tiled

LEMMA SoundFound == ASSUME SoundInv PROVE IndexFound
  <1>1. ASSUME NEW p \in Proc, InUse(p)
        PROVE  /\ data[p].msgn = Numbers(data[p].idx)
               /\ \A n \in 0..data[p].base.nextmsgno :
                     find_msgn(data[p].idx, n) = ToReln(Numbers(data[p].idx), n)
    <2>1. PICK F : Sound(frm, data[p].base, data[p].idx, F) /\ data[p].msgn = Numbers(data[p].idx)
      BY <1>1, UsedSound
    <2>2. Rising(data[p].idx)
      BY <2>1, SoundRising DEF Sound
    <2>3. ASSUME NEW n \in 0..data[p].base.nextmsgno
          PROVE  find_msgn(data[p].idx, n) = ToReln(Numbers(data[p].idx), n)
      <3>1. n \in Nat
        OBVIOUS
      <3> QED BY <2>2, <3>1, FindGood
    <2> QED BY <2>1, <2>3
  <1> QED BY <1>1 DEF IndexFound

LEMMA AtUpTo ==
    ASSUME BaseAssumption, NEW i \in Nat, NEW j \in Nat, i <= j
    PROVE  At(i) <= At(j)
  <1>1. At(i) \in Int /\ At(j) \in Int /\ FrmSize \in Nat /\ MinSize \in Nat
    BY AtNext, MinSizeIs, SizeAssumption
  <1>2. CASE i = j
    BY <1>1, <1>2
  <1>3. CASE i # j
    <2>1. At(i) + FrmSize + MinSize <= At(j)
      BY <1>3, AtRises
    <2> QED BY <1>1, <2>1
  <1> QED BY <1>2, <1>3

LEMMA SoundStops == ASSUME BaseAssumption, Blank => MaxMsgs = 0, SoundInv PROVE StopsGrowing
  <1>1. ASSUME NEW p \in Proc, InUse(p), MaxMsgs # 0, Sizes = {MinSize}
        PROVE  data[p].base.endframe <= At(Most + 1)
    <2>1. Uniform
      BY <1>1 DEF Uniform, BaseAssumption
    <2>2. PICK F : /\ Sound(frm, data[p].base, data[p].idx, F)
                   /\ Grown(frm, data[p].base, data[p].idx, F, pc[p], op[p]) /\ pc[p] # "place"
      BY <1>1, <2>1, UsedSound
    <2>3. Len(data[p].idx) \in Nat /\ Len(F) \in Nat
      <3>1. data[p].idx \in Seq(Entries) /\ F \in Seq(Nat)
        BY <2>2 DEF Sound, Sound0, Chain
      <3> QED BY <3>1
    <2>4. PICK n \in Nat : n = Len(data[p].idx) + Len(F)
      BY <2>3
    <2>5. data[p].base.endframe = At(n + 1) /\ n <= Most
      BY <2>2, <2>4 DEF Grown
    <2>6. Most \in Nat
      BY DEF Most, BaseAssumption
    <2>7. n + 1 \in Nat /\ Most + 1 \in Nat /\ n + 1 <= Most + 1
      BY <2>5, <2>6
    <2> QED BY <2>5, <2>7, AtUpTo
  <1> QED BY <1>1 DEF StopsGrowing, Most

-----------------------------------------------------------------------------
\* What follows of the invariant.

LEMMA SoundTypes == ASSUME Alone, SoundInv PROVE TypeOK
  <1>1. MayCrash = {} /\ User \in Proc /\ Proc = {User}
    BY UserIs
  <1>2. PICK b, x, F : Good(frm, sqb, sqi, pc[User], data[User], op[User], b, x, F)
    BY <1>1 DEF SoundInv
  <1>3. /\ Sound0(frm, b, x, F) /\ b \in Bases /\ x \in Seq(Entries) /\ Len(x) \in Nat
        /\ b.totalmsgs = Len(x) /\ sqb \in Bases /\ sqi \in Seq(Entries)
    BY <1>2, GoodSays
  <1>4. DOMAIN frm \subseteq Nat /\ \A o \in DOMAIN frm : frm[o] \in Frames
    BY <1>3 DEF Sound0, Table
  <1>5. data[User].base \in Bases /\ data[User].idx \in Seq(Entries)
    <2>1. data[User] \in Copies
      BY <1>1 DEF SoundInv, Shapes
    <2> QED BY <2>1 DEF Copies
  <1>6. pc[User] \notin {"opening", "index"} => Len(data[User].idx) = data[User].base.totalmsgs
    <2>1. CASE pc[User] = "closed"
      <3>1. data[User] = NoData
        BY <1>2, <2>1 DEF Good
      <3>2. data[User].idx = <<>> /\ data[User].base.totalmsgs = 0
        BY <3>1 DEF NoData, NoBase, NewBase
      <3>3. Len(<<>>) = 0
        OBVIOUS
      <3> QED BY <3>2, <3>3
    <2>2. CASE pc[User] \notin {"closed", "opening"}
      <3>1. data[User] = [base |-> b, idx |-> x, msgn |-> Numbers(x)]
        BY <1>2, <2>2 DEF Good
      <3>2. data[User].base = b /\ data[User].idx = x
        BY <3>1
      <3> QED BY <1>3, <3>2
    <2> QED BY <2>1, <2>2
  <1>7. /\ holder \in Proc \cup {NoProc} /\ recycle \in Recycles
        /\ pc \in [Proc -> Pcs] /\ islocked \in [Proc -> BOOLEAN]
        /\ op \in [Proc -> [mode : AllCalls \cup {"none"}, msg : Messages, size : Nat,
                            old : Nat, oldfr : Frames, at : Nat, fr : Frames]]
    BY DEF SoundInv, Shapes, OpTypes
  <1> QED BY <1>1, <1>3, <1>4, <1>5, <1>6, <1>7 DEF TypeOK

-----------------------------------------------------------------------------
\* The list the program has is that of its index, with the texts of the frames.
TheList == [i \in DOMAIN Idx |-> frm[Idx[i].offset].txt]
ListIs ==
    \A b, x, F : Good(frm, sqb, sqi, pc[User], data[User], op[User], b, x, F) =>
        TheList = Texts(frm, x) /\ Highest = b.nextmsgno - 1

LEMMA IdxIs == ASSUME Alone PROVE ListIs
  <1>1. User \in Proc /\ Proc = {User}
    BY UserIs
  <1>2. ASSUME NEW b, NEW x, NEW F, Good(frm, sqb, sqi, pc[User], data[User], op[User], b, x, F)
        PROVE  TheList = Texts(frm, x) /\ Highest = b.nextmsgno - 1
    <2>1. CASE pc[User] \notin {"closed", "opening"}
      <3>1. (CHOOSE p \in Proc : pc[p] \notin {"closed", "opening"}) = User
        BY <1>1, <2>1
      <3>2. data[User] = [base |-> b, idx |-> x, msgn |-> Numbers(x)]
        BY <1>2, <2>1 DEF Good
      <3>3. data[User].base = b /\ data[User].idx = x
        BY <3>2
      <3>4. \E p \in Proc : pc[p] \notin {"closed", "opening"}
        BY <1>1, <2>1
      <3>5. Idx = x
        BY <3>1, <3>3, <3>4 DEF Idx
      <3>6. Highest = b.nextmsgno - 1
        BY <3>1, <3>3, <3>4 DEF Highest
      <3> QED BY <3>5, <3>6 DEF TheList, Texts
    <2>2. CASE pc[User] \in {"closed", "opening"}
      <3>1. ~ \E p \in Proc : pc[p] \notin {"closed", "opening"}
        BY <1>1, <2>2
      <3>2. sqi = x /\ sqb.nextmsgno = b.nextmsgno
        <4>1. CASE pc[User] = "closed"
          <5>1. x = sqi /\ b = Fresh(sqb)
            BY <1>2, <4>1 DEF Good
          <5>2. NoBase.nextmsgno = NewBase.nextmsgno
            BY DEF NoBase, NewBase
          <5> QED BY <5>1, <5>2 DEF Fresh
        <4>2. CASE pc[User] = "opening"
          BY <1>2, <4>2 DEF Good
        <4> QED BY <2>2, <4>1, <4>2
      <3> QED BY <3>1, <3>2 DEF TheList, Texts, Idx, Highest
    <2> QED BY <2>1, <2>2
  <1> QED BY <1>2 DEF ListIs

\* A step of the program is a step of the list, or none.
LEMMA ListSteps ==
    ASSUME Alone, BaseAssumption, SoundInv, [Next]_vars
    PROVE  ListStep(TheList, Highest, TheList', Highest')
  <1>1. MayCrash = {} /\ User \in Proc /\ Proc = {User}
    BY UserIs
  <1>2. PICK b, x, F : Good(frm, sqb, sqi, pc[User], data[User], op[User], b, x, F)
    BY <1>1 DEF SoundInv
  <1>3. TheList = Texts(frm, x) /\ Highest = b.nextmsgno - 1
    BY <1>2, IdxIs DEF ListIs
  <1>4. CASE Next
    <2>1. Step(User)
      BY <1>1, <1>4 DEF Next
    <2>2. Result(User, b, x)
      BY <1>1, <1>2, <2>1, OneStep DEF SoundInv
    <2>3. PICK c, y, G : /\ Good(frm', sqb', sqi', pc'[User], data'[User], op'[User], c, y, G)
                         /\ ListStep(Texts(frm, x), b.nextmsgno - 1, Texts(frm', y), c.nextmsgno - 1)
      BY <2>2 DEF Result
    <2>4. ListIs'
      BY IdxIs, PTL
    <2>5. TheList' = Texts(frm', y) /\ Highest' = c.nextmsgno - 1
      <3>1. \A d, z, H : Good(frm', sqb', sqi', pc'[User], data'[User], op'[User], d, z, H) =>
                TheList' = Texts(frm', z) /\ Highest' = d.nextmsgno - 1
        BY <2>4 DEF ListIs
      <3> QED BY <2>3, <3>1, Zenon
    <2> QED BY <1>3, <2>3, <2>5
  <1>5. CASE UNCHANGED vars
    <2>1. TheList' = TheList /\ Highest' = Highest
      BY <1>5 DEF vars, files, TheList, Highest, Idx
    <2> QED BY <2>1 DEF ListStep
  <1> QED BY <1>4, <1>5

LEMMA ListInit == ASSUME Alone, BaseAssumption, Init PROVE List!Init
  <1>1. User \in Proc
    BY UserIs
  <1>2. PICK b, x, F : Good(frm, sqb, sqi, pc[User], data[User], op[User], b, x, F)
    BY <1>1, InitSound DEF SoundInv
  <1>3. TheList = Texts(frm, x) /\ Highest = b.nextmsgno - 1
    BY <1>2, IdxIs DEF ListIs
  <1>4. /\ Sound0(frm, b, x, F) /\ b \in Bases /\ x \in Seq(Entries) /\ Len(x) \in Nat
        /\ DOMAIN x = 1..Len(x)
    BY <1>2, GoodSays
  <1>5. PICK n \in Nat : n = Len(x)
    BY <1>4
  <1>6. PICK m \in Nat : m = b.nextmsgno /\ m > 0
    BY <1>2, <1>4, BaseFields DEF Good
  <1>7. ASSUME NEW i \in 1..n
        PROVE  frm[x[i].offset].txt \in List!Message /\ frm[x[i].offset].txt.msgno = x[i].msgno
               /\ x[i].msgno \in Nat /\ x[i].msgno < m
    <2>1. frm[x[i].offset] \in Frames /\ x[i].msgno \in Nat
      BY <1>4, <1>5, EntryAt
    <2>2. frm[x[i].offset].txt \in Messages
      BY <2>1 DEF Frames
    <2>3. frm[x[i].offset].txt.msgno = x[i].msgno
      BY <1>4, <1>5 DEF Sound0, Holds
    <2>4. x[i].msgno < m
      BY <1>4, <1>5, <1>6 DEF Sound0, Numbered
    <2> QED BY <2>1, <2>2, <2>3, <2>4 DEF Messages, List!Message
  <1>8. TheList = [i \in 1..n |-> frm[x[i].offset].txt]
    BY <1>3, <1>4, <1>5 DEF Texts
  <1>9. TheList \in Seq(List!Message) /\ DOMAIN TheList = 1..n
    <2>1. PICK s : s = TheList
      OBVIOUS
    <2>2. s \in [1..n -> List!Message]
      BY <1>7, <1>8, <2>1
    <2>3. s \in Seq(List!Message) /\ DOMAIN s = 1..n
      BY <2>2
    <2> QED BY <2>1, <2>3
  <1>10. Highest \in Nat /\ Highest = m - 1
    BY <1>3, <1>6
  <1>11. \A i \in 1..n : TheList[i].msgno = x[i].msgno
    BY <1>7, <1>8
  <1>12. ASSUME NEW i \in 1..n PROVE TheList[i].msgno <= Highest
    <2>1. PICK a \in Nat : a = x[i].msgno /\ a < m
      BY <1>7
    <2> QED BY <1>10, <1>11, <2>1
  <1>13. ASSUME NEW i \in 1..n, NEW j \in 1..n, i < j PROVE TheList[i].msgno < TheList[j].msgno
    <2>1. x[i].msgno < x[j].msgno
      BY <1>4, <1>5, <1>13 DEF Sound0, Numbered
    <2> QED BY <1>11, <2>1
  <1> QED BY <1>9, <1>10, <1>12, <1>13 DEF List!Init, TheList

-----------------------------------------------------------------------------
\* The theorems about one program alone.

\* One program that has the base to itself: every variable keeps its type.
THEOREM SquishTypes == ASSUME Alone, BaseAssumption PROVE Spec => []TypeOK
  <1>1. SoundInv => TypeOK
    BY SoundTypes
  <1> QED BY <1>1, SoundAlways, PTL

\* The frames of its messages are chained both ways in the order of the index,
\* and the free ones from firstfreeframe to lastfreeframe (delete_msg,
\* save_message, gmosqsh2.cpp and gmosqsh4.cpp).
THEOREM SquishChained == ASSUME Alone, BaseAssumption PROVE Spec => [](MessageChain /\ FreeChain)
  <1>1. SoundInv => MessageChain /\ FreeChain
    BY SoundChains
  <1> QED BY <1>1, SoundAlways, PTL

\* Frames are taken, split, merged and moved, but never overlap, and no byte of
\* the file is lost (excess_frame, get_frame and the rest of gmosqsh4.cpp).
THEOREM SquishFills == ASSUME Alone, BaseAssumption PROVE Spec => []Tiled
  <1>1. SoundInv => Tiled
    BY SoundTiled
  <1> QED BY <1>1, SoundAlways, PTL

\* Bisecting the index finds the numbers in it and no others (find_msgn), and the
\* frame it leads to holds the message, header and text.
THEOREM SquishFinds == ASSUME Alone, BaseAssumption PROVE Spec => [](IndexFound /\ Readable)
  <1>1. SoundInv => IndexFound /\ Readable
    BY SoundFound, SoundChains
  <1> QED BY <1>1, SoundAlways, PTL

\* With messages of one size and a limit, the file never gets larger than the
\* messages within the limit, or those at the start, need.
THEOREM SquishBounded ==
    ASSUME Alone, BaseAssumption, Blank => MaxMsgs = 0 PROVE Spec => []StopsGrowing
  <1>1. SoundInv => StopsGrowing
    BY SoundStops
  <1> QED BY <1>1, SoundAlways, PTL

LEMMA SquishListStep ==
    ASSUME Alone, BaseAssumption, SoundInv, [Next]_vars PROVE [List!Next]_(List!vars)
  <1>1. ListStep(TheList, Highest, TheList', Highest')
    BY ListSteps
  <1>2. CASE TheList' = TheList /\ Highest' = Highest
    BY <1>2 DEF TheList, List!vars
  <1>3. CASE \E a \in Proc \cup {"nobody"} :
               Highest' = Highest + 1 /\ TheList' = Append(TheList, [msgno |-> Highest + 1, by |-> a])
    BY <1>3 DEF TheList, List!Next, List!Post
  <1>4. CASE \E i \in DOMAIN TheList : TheList' = RemoveAt(TheList, i) /\ Highest' = Highest
    BY <1>4 DEF TheList, List!Next, List!Drop, List!RemoveAt, RemoveAt
  <1> QED BY <1>1, <1>2, <1>3, <1>4 DEF ListStep

\* Whatever the frames look like, they are a list of messages: one that is saved
\* keeps its place, its number and its text, and a new one comes last.
THEOREM SquishIsList == ASSUME Alone, BaseAssumption PROVE Spec => ListImplemented
  <1>1. Init => List!Init
    BY ListInit
  <1>2. SoundInv /\ [Next]_vars => [List!Next]_(List!vars)
    BY SquishListStep
  <1> QED BY <1>1, <1>2, SoundAlways, PTL DEF Spec, ListImplemented, List!Spec

-----------------------------------------------------------------------------
\* The limit of an area, for any programs.

BaseKeys == {"totalmsgs", "highestmsg", "protmsgs", "nextmsgno", "firstframe", "lastframe",
             "firstfreeframe", "lastfreeframe", "endframe", "maxmsgs"}

\* The base record c has the counts of b, whatever else changed.
SameCounts(b, c) ==
    /\ DOMAIN c = BaseKeys /\ c.totalmsgs = b.totalmsgs
    /\ c.maxmsgs = b.maxmsgs /\ c.protmsgs = b.protmsgs

\* One field set that is not a count.
LEMMA FieldSet ==
    ASSUME NEW b, DOMAIN b = BaseKeys, NEW e
    PROVE  /\ SameCounts(b, [b EXCEPT !.firstframe = e]) /\ SameCounts(b, [b EXCEPT !.lastframe = e])
           /\ SameCounts(b, [b EXCEPT !.firstfreeframe = e]) /\ SameCounts(b, [b EXCEPT !.lastfreeframe = e])
           /\ SameCounts(b, [b EXCEPT !.endframe = e]) /\ SameCounts(b, [b EXCEPT !.highestmsg = e])
           /\ SameCounts(b, [b EXCEPT !.nextmsgno = e]) /\ SameCounts(b, b)
  BY DEF SameCounts, BaseKeys

LEMMA CountsChain ==
    ASSUME NEW b, NEW c, NEW d, SameCounts(b, c), SameCounts(c, d)
    PROVE  SameCounts(b, d) /\ DOMAIN c = BaseKeys
  BY DEF SameCounts

LEMMA FreeAny ==
    ASSUME NEW f, NEW b, NEW x, NEW m, NEW at, NEW fr, DOMAIN b = BaseKeys
    PROVE  \E g, c : add_to_free_chain(V(f, b, x, m), at, fr) = V(g, c, x, m) /\ SameCounts(b, c)
  <1> DEFINE empty == b.firstfreeframe = SQFRAME_NULL \/ b.lastfreeframe = SQFRAME_NULL
             e1 == IF empty THEN at ELSE b.firstfreeframe
             h == IF empty THEN f ELSE upd_frm_next(f, b.lastfreeframe, at)
             g == write_frm(h, at, [fr EXCEPT !.type = "free", !.next = SQFRAME_NULL,
                                              !.prev = IF empty THEN SQFRAME_NULL ELSE b.lastfreeframe])
             c1 == [b EXCEPT !.firstfreeframe = e1]
             c == [c1 EXCEPT !.lastfreeframe = at]
             w == add_to_free_chain(V(f, b, x, m), at, fr)
  <1>1. V(f, b, x, m).base = b /\ V(f, b, x, m).frm = f
    BY DEF V
  <1>2. w = [[[V(f, b, x, m) EXCEPT !.base.firstfreeframe = e1] EXCEPT !.base.lastfreeframe = at]
               EXCEPT !.frm = g]
    <2> HIDE DEF g
    <2>1. w = [V(f, b, x, m) EXCEPT !.base.firstfreeframe = e1, !.base.lastfreeframe = at, !.frm = g]
      BY <1>1 DEF add_to_free_chain, g
    <2> HIDE DEF w
    <2> QED BY <2>1
  <1> HIDE DEF w, e1, g
  <1>3. [V(f, b, x, m) EXCEPT !.base.firstfreeframe = e1] = V(f, c1, x, m)
    BY DEF V
  <1>4. [V(f, c1, x, m) EXCEPT !.base.lastfreeframe = at] = V(f, c, x, m)
    <2> HIDE DEF c1
    <2> QED BY DEF V
  <1>5. [V(f, c, x, m) EXCEPT !.frm = g] = V(g, c, x, m)
    BY DEF V
  <1>6. w = V(g, c, x, m)
    BY <1>2, <1>3, <1>4, <1>5
  <1>7. SameCounts(b, c)
    <2>1. SameCounts(b, c1)
      BY FieldSet
    <2>2. DOMAIN c1 = BaseKeys
      BY <2>1 DEF SameCounts
    <2> HIDE DEF c1
    <2>3. SameCounts(c1, c)
      BY <2>2, FieldSet
    <2> QED BY <2>1, <2>3, CountsChain
  <1> QED BY <1>6, <1>7 DEF w

LEMMA UnchainAny ==
    ASSUME NEW f, NEW b, NEW x, NEW m, NEW at, DOMAIN b = BaseKeys
    PROVE  \E g, c : Unchain(V(f, b, x, m), at) = V(g, c, x, m) /\ SameCounts(b, c)
  <1> DEFINE del == read_frm(f, at)
             g == upd_frm_prev(upd_frm_next(f, del.prev, del.next), del.next, del.prev)
             e1 == IF b.firstframe = at THEN del.next ELSE b.firstframe
             e2 == IF b.lastframe = at THEN del.prev ELSE b.lastframe
             c1 == [b EXCEPT !.firstframe = e1]
             c == [c1 EXCEPT !.lastframe = e2]
             w == [V(f, b, x, m) EXCEPT
                     !.frm = upd_frm_prev(upd_frm_next(@, del.prev, del.next), del.next, del.prev),
                     !.base.firstframe = IF @ = at THEN del.next ELSE @,
                     !.base.lastframe  = IF @ = at THEN del.prev ELSE @]
  <1>0. V(f, b, x, m).frm = f /\ V(f, b, x, m).base = b
    BY DEF V
  <1>1. Unchain(V(f, b, x, m), at) = add_to_free_chain(w, at, del)
    BY <1>0 DEF Unchain
  <1>2. w = [[[V(f, b, x, m) EXCEPT !.frm = g] EXCEPT !.base.firstframe = e1] EXCEPT !.base.lastframe = e2]
    <2>1. w = [V(f, b, x, m) EXCEPT !.frm = g, !.base.firstframe = e1, !.base.lastframe = e2]
      <3> HIDE DEF del
      <3> QED BY DEF V, BaseKeys
    <2> HIDE DEF w, g, e1, e2
    <2> QED BY <2>1
  <1> HIDE DEF w, e1, e2, g, del
  <1>3. [V(f, b, x, m) EXCEPT !.frm = g] = V(g, b, x, m)
    BY DEF V
  <1>4. [V(g, b, x, m) EXCEPT !.base.firstframe = e1] = V(g, c1, x, m)
    BY DEF V
  <1>5. [V(g, c1, x, m) EXCEPT !.base.lastframe = e2] = V(g, c, x, m)
    <2> HIDE DEF c1
    <2> QED BY DEF V
  <1>6. w = V(g, c, x, m)
    BY <1>2, <1>3, <1>4, <1>5
  <1>7. SameCounts(b, c)
    <2>1. SameCounts(b, c1)
      BY FieldSet
    <2>2. DOMAIN c1 = BaseKeys
      BY <2>1 DEF SameCounts
    <2> HIDE DEF c1
    <2>3. SameCounts(c1, c)
      BY <2>2, FieldSet
    <2> QED BY <2>1, <2>3, CountsChain
  <1> HIDE DEF c
  <1>8. DOMAIN c = BaseKeys
    BY <1>7 DEF SameCounts
  <1>9. PICK h, d : add_to_free_chain(V(g, c, x, m), at, del) = V(h, d, x, m) /\ SameCounts(c, d)
    BY <1>8, FreeAny
  <1>10. SameCounts(b, d)
    BY <1>7, <1>9, CountsChain
  <1> QED BY <1>1, <1>6, <1>9, <1>10

LEMMA DeleteAny ==
    ASSUME NEW f, NEW b, NEW x, NEW m, NEW k, DOMAIN b = BaseKeys
    PROVE  \E g, c, z : /\ delete_msg(V(f, b, x, m), k) = V(g, c, RemoveAt(x, k), z)
                        /\ DOMAIN c = BaseKeys /\ c.totalmsgs = b.totalmsgs - 1
                        /\ c.maxmsgs = b.maxmsgs /\ c.protmsgs = b.protmsgs
  <1>1. PICK g, c : Unchain(V(f, b, x, m), x[k].offset) = V(g, c, x, m) /\ SameCounts(b, c)
    BY UnchainAny
  <1>2. DOMAIN c = BaseKeys /\ c.totalmsgs = b.totalmsgs /\ c.maxmsgs = b.maxmsgs /\ c.protmsgs = b.protmsgs
    BY <1>1 DEF SameCounts
  <1> DEFINE y == RemoveAt(x, k)
             z == IF k \in DOMAIN m THEN RemoveAt(m, k) ELSE m
             hi == c.highestmsg - 1
             tot == c.totalmsgs - 1
             d1 == [c EXCEPT !.highestmsg = hi]
             d == [d1 EXCEPT !.totalmsgs = tot]
             w == delete_msg(V(f, b, x, m), k)
  <1>3. V(f, b, x, m).idx = x /\ V(g, c, x, m).msgn = m /\ V(g, c, x, m).idx = x
        /\ V(g, c, x, m).base = c
    BY DEF V
  <1>4. w = [[[[V(g, c, x, m) EXCEPT !.msgn = z] EXCEPT !.idx = y]
                EXCEPT !.base.highestmsg = hi] EXCEPT !.base.totalmsgs = tot]
    <2>1. w = [V(g, c, x, m) EXCEPT !.msgn = IF k \in DOMAIN @ THEN RemoveAt(@, k) ELSE @,
                                    !.idx = RemoveAt(@, k),
                                    !.base.highestmsg = @ - 1, !.base.totalmsgs = @ - 1]
      BY <1>1, <1>3 DEF delete_msg
    <2> HIDE DEF w
    <2>2. w = [V(g, c, x, m) EXCEPT !.msgn = z, !.idx = y, !.base.highestmsg = hi, !.base.totalmsgs = tot]
      BY <2>1, <1>2 DEF V, BaseKeys
    <2> HIDE DEF z, y, hi, tot
    <2> QED BY <2>2
  <1> HIDE DEF w, z, y, hi, tot
  <1>5. [V(g, c, x, m) EXCEPT !.msgn = z] = V(g, c, x, z)
    BY DEF V
  <1>6. [V(g, c, x, z) EXCEPT !.idx = y] = V(g, c, y, z)
    BY DEF V
  <1>7. [V(g, c, y, z) EXCEPT !.base.highestmsg = hi] = V(g, d1, y, z)
    BY DEF V
  <1>8. [V(g, d1, y, z) EXCEPT !.base.totalmsgs = tot] = V(g, d, y, z)
    <2> HIDE DEF d1
    <2> QED BY DEF V
  <1>9. w = V(g, d, y, z)
    BY <1>4, <1>5, <1>6, <1>7, <1>8
  <1>10. DOMAIN d = BaseKeys /\ d.totalmsgs = tot /\ d.maxmsgs = c.maxmsgs /\ d.protmsgs = c.protmsgs
    <2>1. SameCounts(c, d1)
      BY <1>2, FieldSet
    <2> HIDE DEF d1
    <2> QED BY <2>1 DEF SameCounts, BaseKeys
  <1> HIDE DEF d
  <1> QED BY <1>2, <1>9, <1>10 DEF w, y, tot

LEMMA SpanAny ==
    ASSUME NEW f, NEW b, NEW x, NEW m, NEW s, NEW last, NEW fr, DOMAIN b = BaseKeys
    PROVE  \E g, c : /\ TakeSpan(V(f, b, x, m), s, last, fr) = [v |-> V(g, c, x, m), at |-> s.at, fr |-> fr]
                     /\ SameCounts(b, c)
  <1> DEFINE g == upd_frm_prev(upd_frm_next(f, fr.prev, fr.next), fr.next, fr.prev)
             e1 == IF b.firstfreeframe = s.at THEN fr.next ELSE b.firstfreeframe
             e2 == IF b.lastfreeframe \in {s.at, last} THEN fr.prev ELSE b.lastfreeframe
             c1 == [b EXCEPT !.firstfreeframe = e1]
             c == [c1 EXCEPT !.lastfreeframe = e2]
             w == [V(f, b, x, m) EXCEPT
                     !.base.firstfreeframe = IF @ = s.at THEN fr.next ELSE @,
                     !.base.lastfreeframe  = IF @ \in {s.at, last} THEN fr.prev ELSE @,
                     !.frm = upd_frm_prev(upd_frm_next(@, fr.prev, fr.next), fr.next, fr.prev)]
  <1>1. TakeSpan(V(f, b, x, m), s, last, fr) = [v |-> w, at |-> s.at, fr |-> fr]
    BY DEF TakeSpan
  <1>2. w = [[[V(f, b, x, m) EXCEPT !.base.firstfreeframe = e1] EXCEPT !.base.lastfreeframe = e2]
               EXCEPT !.frm = g]
    <2>1. w = [V(f, b, x, m) EXCEPT !.base.firstfreeframe = e1, !.base.lastfreeframe = e2, !.frm = g]
      BY DEF V, BaseKeys
    <2> HIDE DEF w, g, e1, e2
    <2> QED BY <2>1
  <1> HIDE DEF w, e1, e2, g
  <1>3. [V(f, b, x, m) EXCEPT !.base.firstfreeframe = e1] = V(f, c1, x, m)
    BY DEF V
  <1>4. [V(f, c1, x, m) EXCEPT !.base.lastfreeframe = e2] = V(f, c, x, m)
    <2> HIDE DEF c1
    <2> QED BY DEF V
  <1>5. [V(f, c, x, m) EXCEPT !.frm = g] = V(g, c, x, m)
    BY DEF V
  <1>6. w = V(g, c, x, m)
    BY <1>2, <1>3, <1>4, <1>5
  <1>7. SameCounts(b, c)
    <2>1. SameCounts(b, c1)
      BY FieldSet
    <2>2. DOMAIN c1 = BaseKeys
      BY <2>1 DEF SameCounts
    <2> HIDE DEF c1
    <2>3. SameCounts(c1, c)
      BY <2>2, FieldSet
    <2> QED BY <2>1, <2>3, CountsChain
  <1> HIDE DEF c
  <1> QED BY <1>1, <1>6, <1>7

LEMMA ExcessAny ==
    ASSUME NEW f, NEW b, NEW x, NEW m, NEW s, NEW size, DOMAIN b = BaseKeys
    PROVE  \E g, c, t : excess_frm(V(f, b, x, m), s, size) = [v |-> V(g, c, x, m), s |-> t] /\ SameCounts(b, c)
  <1> DEFINE at == s.at + size + FrmSize
             fr == [init_frm EXCEPT !.type = "free", !.next = s.next, !.prev = s.at,
                                    !.length = s.length - size - FrmSize]
             g == upd_frm_prev(write_frm(f, at, fr), s.next, at)
             e == IF b.lastfreeframe = s.last THEN at ELSE b.lastfreeframe
             c == [b EXCEPT !.lastfreeframe = e]
             t == [s EXCEPT !.next = at, !.length = size]
             w == [V(f, b, x, m) EXCEPT !.base.lastfreeframe = IF @ = s.last THEN at ELSE @,
                                        !.frm = upd_frm_prev(write_frm(@, at, fr), s.next, at)]
             r == excess_frm(V(f, b, x, m), s, size)
  <1>1. r = [v |-> V(f, b, x, m), s |-> s] \/ r = [v |-> w, s |-> t]
    BY DEF excess_frm
  <1>2. w = [[V(f, b, x, m) EXCEPT !.base.lastfreeframe = e] EXCEPT !.frm = g]
    <2> HIDE DEF at, fr
    <2>1. w = [V(f, b, x, m) EXCEPT !.base.lastfreeframe = e, !.frm = g]
      BY DEF V, BaseKeys
    <2> HIDE DEF w, g, e
    <2> QED BY <2>1
  <1> HIDE DEF w, e, g, t, r
  <1>3. [V(f, b, x, m) EXCEPT !.base.lastfreeframe = e] = V(f, c, x, m)
    BY DEF V
  <1>4. [V(f, c, x, m) EXCEPT !.frm = g] = V(g, c, x, m)
    <2> HIDE DEF c
    <2> QED BY DEF V
  <1>5. w = V(g, c, x, m)
    BY <1>2, <1>3, <1>4
  <1>6. SameCounts(b, c) /\ SameCounts(b, b)
    BY FieldSet
  <1> HIDE DEF c
  <1> QED BY <1>1, <1>5, <1>6 DEF r

LEMMA TakeAny ==
    ASSUME NEW f, NEW b, NEW x, NEW m, NEW size, NEW recyc, DOMAIN b = BaseKeys
    PROVE  \E g, c, at, fr : /\ TakeFrame(V(f, b, x, m), size, recyc) = [v |-> V(g, c, x, m), at |-> at, fr |-> fr]
                             /\ SameCounts(b, c)
  <1> DEFINE v == V(f, b, x, m)
  <1>1. PICK s : TakeFrame(v, size, recyc) = TakeFound(v, s, size, recyc)
    BY DEF TakeFrame
  <1>2. CASE s.at = SQFRAME_NULL
    <2>1. TakeFrame(v, size, recyc) = [v |-> v, at |-> v.base.endframe, fr |-> init_frm]
      BY <1>1, <1>2 DEF TakeFound
    <2>2. SameCounts(b, b)
      BY FieldSet
    <2> QED BY <2>1, <2>2
  <1>3. CASE s.at # SQFRAME_NULL
    <2>1. PICK g, c, t : /\ TakeFrame(v, size, recyc) = SplitAndTake([v |-> V(g, c, x, m), s |-> t], s.last)
                         /\ SameCounts(b, c)
      <3>1. PICK g, c, t : excess_frm(v, s, size) = [v |-> V(g, c, x, m), s |-> t] /\ SameCounts(b, c)
        BY ExcessAny
      <3>2. SameCounts(b, b)
        BY FieldSet
      <3>3. CASE recyc = SQUISHRECYCLE_YES
        <4>1. TakeFrame(v, size, recyc) = SplitAndTake(excess_frm(v, s, size), s.last)
          BY <1>1, <1>3, <3>3 DEF TakeFound
        <4> QED BY <3>1, <4>1
      <3>4. CASE recyc # SQUISHRECYCLE_YES
        <4>1. TakeFrame(v, size, recyc) = SplitAndTake([v |-> v, s |-> s], s.last)
          BY <1>1, <1>3, <3>4 DEF TakeFound
        <4> QED BY <3>2, <4>1
      <3> QED BY <3>3, <3>4
    <2>2. DOMAIN c = BaseKeys
      BY <2>1 DEF SameCounts
    <2>3. PICK fr : SplitAndTake([v |-> V(g, c, x, m), s |-> t], s.last) = TakeSpan(V(g, c, x, m), t, s.last, fr)
      BY DEF SplitAndTake
    <2>4. PICK h, d : /\ TakeSpan(V(g, c, x, m), t, s.last, fr) = [v |-> V(h, d, x, m), at |-> t.at, fr |-> fr]
                      /\ SameCounts(c, d)
      BY <2>2, SpanAny
    <2>5. SameCounts(b, d)
      BY <2>1, <2>4, CountsChain
    <2> QED BY <2>1, <2>3, <2>4, <2>5
  <1> QED BY <1>2, <1>3

LEMMA LengthenAny ==
    ASSUME NEW b, DOMAIN b = BaseKeys, NEW at, NEW size PROVE SameCounts(b, Lengthen(b, at, size))
  <1> DEFINE e == IF at = b.endframe THEN b.endframe + FrmSize + size ELSE b.endframe
             c == Lengthen(b, at, size)
  <1>1. c = [b EXCEPT !.endframe = e]
    BY DEF Lengthen, BaseKeys
  <1> HIDE DEF c, e
  <1>2. SameCounts(b, c)
    BY <1>1, FieldSet
  <1> QED BY <1>2 DEF c

LEMMA NewAny ==
    ASSUME NEW f, NEW b, NEW x, NEW m, NEW at, NEW fr, NEW msg, NEW size, DOMAIN b = BaseKeys
    PROVE  \E g, c, z : /\ SaveNew(V(f, b, x, m), at, fr, msg, size)
                           = V(g, c, Append(x, [offset |-> at, msgno |-> msg.msgno]), z)
                        /\ DOMAIN c = BaseKeys /\ c.totalmsgs = b.totalmsgs + 1
                        /\ c.maxmsgs = b.maxmsgs /\ c.protmsgs = b.protmsgs
  <1> DEFINE v == V(f, b, x, m)
             l == Lengthen(b, at, size)
             g == WriteMessage(upd_frm_next(f, b.lastframe, at), at,
                     [FrameFor(b, at, fr, size, msg) EXCEPT !.prev = b.lastframe, !.next = SQFRAME_NULL])
             c == [l EXCEPT !.firstframe = IF @ = SQFRAME_NULL THEN at ELSE @,
                            !.lastframe  = at,
                            !.highestmsg = @ + 1,
                            !.totalmsgs  = @ + 1,
                            !.nextmsgno  = @ + 1]
             y == Append(x, [offset |-> at, msgno |-> msg.msgno])
             z == Append(m, msg.msgno)
             w == SaveNew(v, at, fr, msg, size)
  <1>1. v.frm = f /\ v.base = b /\ v.idx = x /\ v.msgn = m
    BY DEF V
  <1>2. w = [frm |-> g, base |-> c, idx |-> y, msgn |-> z]
    <2> DEFINE g1 == WriteMessage(upd_frm_next(v.frm, b.lastframe, at), at,
                     [FrameFor(b, at, fr, size, msg) EXCEPT !.prev = b.lastframe, !.next = SQFRAME_NULL])
    <2> HIDE DEF c, z, y, l
    <2>1. w = [v EXCEPT !.frm = g, !.base = c, !.idx = y, !.msgn = z]
      <3>1. w = [v EXCEPT !.frm = WriteMessage(upd_frm_next(@, b.lastframe, at), at,
                     [FrameFor(b, at, fr, size, msg) EXCEPT !.prev = b.lastframe, !.next = SQFRAME_NULL]),
                          !.base = c,
                          !.idx = Append(@, [offset |-> at, msgno |-> msg.msgno]),
                          !.msgn = Append(@, msg.msgno)]
        BY <1>1, Zenon DEF SaveNew, c, l
      <3> HIDE DEF w
      <3> QED BY <3>1 DEF V, y, z
    <2> HIDE DEF w, g
    <2> QED BY <2>1 DEF V
  <1>3. DOMAIN c = BaseKeys /\ c.totalmsgs = l.totalmsgs + 1 /\ c.maxmsgs = l.maxmsgs /\ c.protmsgs = l.protmsgs
    <2>1. SameCounts(b, l)
      BY LengthenAny
    <2>2. DOMAIN l = BaseKeys
      BY <2>1 DEF SameCounts
    <2> HIDE DEF l
    <2>3. PICK e1, e2, e3, e4 : c = [l EXCEPT !.firstframe = e1, !.lastframe = at, !.highestmsg = e2,
                                              !.totalmsgs = e3, !.nextmsgno = e4] /\ e3 = l.totalmsgs + 1
      BY <2>2 DEF BaseKeys
    <2>4. c = [[[[[l EXCEPT !.firstframe = e1] EXCEPT !.lastframe = at] EXCEPT !.highestmsg = e2]
                 EXCEPT !.totalmsgs = e3] EXCEPT !.nextmsgno = e4]
      <3> HIDE DEF c
      <3> QED BY <2>3
    <2> HIDE DEF c
    <2> QED BY <2>2, <2>3, <2>4 DEF BaseKeys
  <1>4. SameCounts(b, l)
    BY LengthenAny
  <1> HIDE DEF c, l, w, g
  <1>5. w = V(g, c, y, z)
    BY <1>2 DEF V
  <1> QED BY <1>3, <1>4, <1>5 DEF SameCounts, w

LEMMA MovedAny ==
    ASSUME NEW f, NEW b, NEW x, NEW m, NEW k, NEW old, NEW oldfr, NEW at, NEW fr, NEW msg, NEW size,
           DOMAIN b = BaseKeys
    PROVE  \E g, c : /\ SaveMoved(V(f, b, x, m), k, old, oldfr, at, fr, msg, size)
                        = V(g, c, SetEntry(x, k, at, msg.msgno), m)
                     /\ SameCounts(b, c)
  <1> DEFINE v == V(f, b, x, m)
             freed == add_to_free_chain(v, old, oldfr)
  <1>1. PICK h, d : freed = V(h, d, x, m) /\ SameCounts(b, d)
    BY FreeAny
  <1> DEFINE l == Lengthen(d, at, size)
             t == [FrameFor(v.base, at, fr, size, msg) EXCEPT !.prev = oldfr.prev, !.next = oldfr.next]
             g == WriteMessage(upd_frm_prev(upd_frm_next(h, oldfr.prev, at), oldfr.next, at), at, t)
             e1 == IF l.firstframe = old THEN at ELSE l.firstframe
             e2 == IF l.lastframe = old THEN at ELSE l.lastframe
             c1 == [l EXCEPT !.firstframe = e1]
             c == [c1 EXCEPT !.lastframe = e2]
             y == SetEntry(x, k, at, msg.msgno)
             w == SaveMoved(v, k, old, oldfr, at, fr, msg, size)
  <1>2. SameCounts(d, l) /\ DOMAIN d = BaseKeys
    BY <1>1, LengthenAny DEF SameCounts
  <1>3. DOMAIN l = BaseKeys /\ SameCounts(b, l)
    BY <1>1, <1>2, CountsChain DEF SameCounts
  <1>4. w = V(g, c, y, m)
    <2>1. V(h, d, x, m).base = d
      BY DEF V
    <2> HIDE DEF t
    <2>2. w = [V(h, d, x, m) EXCEPT
                 !.frm = WriteMessage(upd_frm_prev(upd_frm_next(@, oldfr.prev, at), oldfr.next, at), at, t),
                 !.base = [l EXCEPT !.firstframe = IF @ = old THEN at ELSE @,
                                    !.lastframe  = IF @ = old THEN at ELSE @],
                 !.idx = SetEntry(@, k, at, msg.msgno)]
      BY <1>1, <2>1, Zenon DEF SaveMoved, t, l
    <2> HIDE DEF w, l
    <2>3. [l EXCEPT !.firstframe = IF @ = old THEN at ELSE @, !.lastframe = IF @ = old THEN at ELSE @] = c
      <3>1. [l EXCEPT !.firstframe = IF @ = old THEN at ELSE @, !.lastframe = IF @ = old THEN at ELSE @]
            = [l EXCEPT !.firstframe = e1, !.lastframe = e2]
        BY <1>3 DEF BaseKeys
      <3> HIDE DEF e1, e2
      <3> QED BY <3>1
    <2> HIDE DEF c
    <2>4. w = [V(h, d, x, m) EXCEPT !.frm = g, !.base = c, !.idx = y]
      BY <2>2, <2>3 DEF V
    <2> HIDE DEF g, y
    <2> QED BY <2>4 DEF V
  <1>5. SameCounts(b, c)
    <2> HIDE DEF l, e1, e2
    <2>1. SameCounts(l, c1)
      BY <1>3, FieldSet
    <2>2. DOMAIN c1 = BaseKeys
      BY <2>1 DEF SameCounts
    <2> HIDE DEF c1
    <2>3. SameCounts(c1, c)
      BY <2>2, FieldSet
    <2> QED BY <1>3, <2>1, <2>3, CountsChain
  <1> HIDE DEF c, g, y, w
  <1> QED BY <1>4, <1>5 DEF w, y

LEMMA HdrAny ==
    ASSUME NEW f, NEW b, NEW x, NEW m, NEW at, NEW msg
    PROVE  \E g : SaveHeader(V(f, b, x, m), at, msg) = V(g, b, x, m)
  BY DEF SaveHeader, V

LEMMA InPlaceAny ==
    ASSUME NEW f, NEW b, NEW x, NEW m, NEW k, NEW at, NEW msg, NEW size
    PROVE  \E g : SaveInPlace(V(f, b, x, m), k, at, msg, size) = V(g, b, SetEntry(x, k, at, msg.msgno), m)
  <1> DEFINE y == SetEntry(x, k, at, msg.msgno)
  <1>1. PICK g : SaveInPlace(V(f, b, x, m), k, at, msg, size) = [V(f, b, x, m) EXCEPT !.frm = g, !.idx = y]
    BY DEF SaveInPlace, V
  <1> HIDE DEF y
  <1>2. SaveInPlace(V(f, b, x, m), k, at, msg, size) = V(g, b, y, m)
    BY <1>1 DEF V
  <1> QED BY <1>2 DEF y

\* The counts of a base record.
Counts(b) ==
    /\ DOMAIN b = BaseKeys /\ b.totalmsgs \in Nat
    /\ b.maxmsgs = MaxMsgs /\ b.protmsgs = ProtMsgs
IsIdx(x, n) == \E T : x \in Seq(T) /\ Len(x) = n

\* What a program at l with the copies d knows of them in the call o.
LimOf(l, d, o) ==
    /\ DOMAIN d = {"base", "idx", "msgn"} /\ "mode" \in DOMAIN o
    /\ l # "closed" => Counts(d.base)
    /\ l \notin {"closed", "opening", "index"} => IsIdx(d.idx, d.base.totalmsgs)
    /\ l = "place" /\ o.mode = "new" /\ MaxMsgs # 0 => d.base.totalmsgs < MaxMsgs

LimInv ==
    /\ Counts(sqb)
    /\ DOMAIN pc = Proc /\ DOMAIN data = Proc /\ DOMAIN op = Proc
    /\ \A p \in Proc : LimOf(pc[p], data[p], op[p])

LEMMA MadeIdx ==
    ASSUME NEW n \in Nat, NEW x, x = [i \in 1..n |-> x[i]] PROVE IsIdx(x, n)
  <1> DEFINE T == {x[i] : i \in 1..n}
  <1>1. \A i \in 1..n : x[i] \in T
    OBVIOUS
  <1>2. x \in [1..n -> T]
    BY <1>1
  <1> HIDE DEF T
  <1>3. x \in Seq(T) /\ Len(x) = n
    BY <1>2
  <1> QED BY <1>3 DEF IsIdx

LEMMA LongerIdx ==
    ASSUME NEW n \in Nat, NEW x, IsIdx(x, n), NEW e
    PROVE  IsIdx(Append(x, e), n + 1)
  <1>1. PICK T : x \in Seq(T) /\ Len(x) = n
    BY DEF IsIdx
  <1>2. x \in Seq(T \cup {e})
    BY <1>1
  <1>3. Append(x, e) \in Seq(T \cup {e}) /\ Len(Append(x, e)) = n + 1
    BY <1>1, <1>2
  <1> QED BY <1>3 DEF IsIdx

LEMMA ShorterIdx ==
    ASSUME NEW n \in Nat, NEW x, IsIdx(x, n), NEW k \in 1..n
    PROVE  /\ IsIdx(RemoveAt(x, k), n - 1) /\ DOMAIN x = 1..n
           /\ Shorter(RemoveAt(x, k), x, n, k)
  <1>1. PICK T : x \in Seq(T) /\ Len(x) = n
    BY DEF IsIdx
  <1>2. RemoveAt(x, k) \in Seq(T) /\ Shorter(RemoveAt(x, k), x, n, k)
    BY <1>1, RemoveAtIs
  <1>3. DOMAIN x = 1..n
    BY <1>1
  <1> QED BY <1>2, <1>3 DEF IsIdx, Shorter

LEMMA SetIdx ==
    ASSUME NEW n \in Nat, NEW x, IsIdx(x, n), NEW k, NEW at, NEW msgno
    PROVE  IsIdx(SetEntry(x, k, at, msgno), n)
  <1>1. PICK T : x \in Seq(T) /\ Len(x) = n
    BY DEF IsIdx
  <1> DEFINE e == [offset |-> at, msgno |-> msgno]
             y == [x EXCEPT ![k] = e]
  <1>2. x \in [1..n -> T]
    BY <1>1
  <1>3. y \in [1..n -> T \cup {e}]
    <2> HIDE DEF e
    <2> QED BY <1>2
  <1> HIDE DEF y, e
  <1>4. y \in Seq(T \cup {e}) /\ Len(y) = n
    BY <1>3
  <1>5. SetEntry(x, k, at, msgno) = y \/ SetEntry(x, k, at, msgno) = x
    BY DEF SetEntry, y, e
  <1> QED BY <1>1, <1>4, <1>5 DEF IsIdx

\* What is to be shown of a step of p.
LimDone(p) ==
    /\ Counts(sqb') /\ DOMAIN pc' = Proc /\ DOMAIN data' = Proc /\ DOMAIN op' = Proc
    /\ LimOf(pc'[p], data'[p], op'[p])
    /\ \A q \in Proc : q # p => pc'[q] = pc[q] /\ data'[q] = data[q] /\ op'[q] = op[q]

LEMMA LimStep == ASSUME LimInv, NEW p \in Proc, LimDone(p) PROVE LimInv'
  <1>1. \A q \in Proc : LimOf(pc'[q], data'[q], op'[q])
    <2> SUFFICES ASSUME NEW q \in Proc PROVE LimOf(pc'[q], data'[q], op'[q])
      OBVIOUS
    <2>1. CASE q = p
      BY <2>1 DEF LimDone
    <2>2. CASE q # p
      <3>1. pc'[q] = pc[q] /\ data'[q] = data[q] /\ op'[q] = op[q]
        BY <2>2 DEF LimDone
      <3>2. LimOf(pc[q], data[q], op[q])
        BY DEF LimInv
      <3> QED BY <3>1, <3>2
    <2> QED BY <2>1, <2>2
  <1>2. Counts(sqb') /\ DOMAIN pc' = Proc /\ DOMAIN data' = Proc /\ DOMAIN op' = Proc
    BY DEF LimDone
  <1>3. Counts(sqb)'
    BY <1>2 DEF Counts
  <1> QED BY <1>1, <1>2, <1>3 DEF LimInv, LimOf, Counts, IsIdx

LEMMA LimSays ==
    ASSUME LimInv, NEW p \in Proc
    PROVE  /\ DOMAIN pc = Proc /\ DOMAIN data = Proc /\ DOMAIN op = Proc /\ Counts(sqb)
           /\ LimOf(pc[p], data[p], op[p])
  BY DEF LimInv

\* A step that leaves the copies, but for the place it leads to.
LEMMA LimPc ==
    ASSUME LimInv, NEW p \in Proc, Counts(sqb'), NEW l, UNCHANGED data,
           pc' = [pc EXCEPT ![p] = l],
           DOMAIN op' = Proc, \A q \in Proc : q # p => op'[q] = op[q],
           "mode" \in DOMAIN op'[p], pc[p] \notin {"closed", "opening", "index"}, l # "place"
    PROVE  LimDone(p)
  <1>1. LimOf(pc[p], data[p], op[p])
    BY LimSays
  <1>2. pc'[p] = l /\ DOMAIN pc' = Proc /\ DOMAIN data' = Proc /\ data'[p] = data[p]
    BY LimSays
  <1>3. LimOf(pc'[p], data'[p], op'[p])
    <2>1. /\ DOMAIN data'[p] = {"base", "idx", "msgn"} /\ Counts(data'[p].base)
          /\ IsIdx(data'[p].idx, data'[p].base.totalmsgs)
      BY <1>1, <1>2 DEF LimOf
    <2> QED BY <1>2, <2>1 DEF LimOf
  <1>4. \A q \in Proc : q # p => pc'[q] = pc[q] /\ data'[q] = data[q] /\ op'[q] = op[q]
    BY LimSays
  <1> QED BY <1>2, <1>3, <1>4 DEF LimDone

\* Reading the base record.
LEMMA LimRead ==
    ASSUME LimInv, NEW p \in Proc, NEW l, l \in {"opening", "index"}, ReadBase(p, l)
    PROVE  LimDone(p)
  <1> DEFINE b == IF sqb = NoBase THEN NewBase ELSE sqb
  <1>1. Counts(b)
    <2>1. Counts(NoBase) => Counts(NewBase)
      BY DEF Counts, NoBase, NewBase, BaseKeys
    <2> QED BY <2>1, LimSays
  <1> HIDE DEF b
  <1>2. /\ sqb' = b /\ data' = [data EXCEPT ![p].base = b] /\ pc' = [pc EXCEPT ![p] = l]
        /\ UNCHANGED op
    BY DEF ReadBase, b
  <1>3. LimOf(pc[p], data[p], op[p]) /\ DOMAIN data = Proc /\ DOMAIN pc = Proc /\ DOMAIN op = Proc
    BY LimSays
  <1>4. data'[p] = [data[p] EXCEPT !.base = b] /\ pc'[p] = l /\ op'[p] = op[p]
    BY <1>2, <1>3
  <1>5. DOMAIN data'[p] = {"base", "idx", "msgn"} /\ data'[p].base = b /\ "mode" \in DOMAIN op'[p]
    BY <1>3, <1>4 DEF LimOf
  <1>6. LimOf(pc'[p], data'[p], op'[p])
    BY <1>1, <1>4, <1>5 DEF LimOf
  <1>7. \A q \in Proc : q # p => pc'[q] = pc[q] /\ data'[q] = data[q] /\ op'[q] = op[q]
    BY <1>2, <1>3
  <1>8. DOMAIN pc' = Proc /\ DOMAIN data' = Proc /\ DOMAIN op' = Proc
    BY <1>2, <1>3
  <1> QED BY <1>1, <1>2, <1>6, <1>7, <1>8 DEF LimDone

LEMMA IndexLong ==
    ASSUME NEW p \in Proc, Counts(data[p].base) PROVE IsIdx(Index(p), data[p].base.totalmsgs)
  <1> DEFINE n == data[p].base.totalmsgs
             x == Index(p)
  <1>1. x = [i \in 1..n |-> x[i]]
    BY DEF Index
  <1>2. n \in Nat
    BY DEF Counts
  <1> HIDE DEF n, x
  <1>3. IsIdx(x, n)
    BY <1>1, <1>2, MadeIdx
  <1> QED BY <1>3 DEF n, x

\* Reading the index.
LEMMA LimIndex ==
    ASSUME LimInv, NEW p \in Proc, pc[p] \in {"opening", "index"}, NEW l, l # "place",
           NEW z, \/ data' = [data EXCEPT ![p].idx = Index(p), ![p].msgn = z]
                  \/ data' = [data EXCEPT ![p].idx = Index(p)],
           pc' = [pc EXCEPT ![p] = l], UNCHANGED <<sqb, op>>
    PROVE  LimDone(p)
  <1>1. /\ LimOf(pc[p], data[p], op[p]) /\ DOMAIN data = Proc /\ DOMAIN pc = Proc
        /\ DOMAIN op = Proc /\ Counts(sqb)
    BY LimSays
  <1>2. Counts(data[p].base) /\ DOMAIN data[p] = {"base", "idx", "msgn"} /\ "mode" \in DOMAIN op[p]
    BY <1>1 DEF LimOf
  <1>3. IsIdx(Index(p), data[p].base.totalmsgs)
    BY <1>2, IndexLong
  <1> DEFINE x == Index(p)
  <1> HIDE DEF x
  <1>4. /\ pc'[p] = l /\ op'[p] = op[p] /\ DOMAIN pc' = Proc /\ DOMAIN data' = Proc
        /\ \A q \in Proc : q # p => pc'[q] = pc[q] /\ data'[q] = data[q]
    BY <1>1
  <1>5. DOMAIN data'[p] = {"base", "idx", "msgn"} /\ data'[p].base = data[p].base /\ data'[p].idx = x
    BY <1>1, <1>2 DEF x
  <1>6. LimOf(pc'[p], data'[p], op'[p])
    BY <1>2, <1>3, <1>4, <1>5 DEF LimOf, x
  <1> QED BY <1>1, <1>4, <1>6 DEF LimDone

\* The end of a program.
LEMMA LimEnd ==
    ASSUME LimInv, NEW p \in Proc, data' = [data EXCEPT ![p] = NoData],
           pc' = [pc EXCEPT ![p] = "closed"], UNCHANGED sqb,
           op' = op \/ op' = [op EXCEPT ![p] = NoOp]
    PROVE  LimDone(p)
  <1>1. /\ LimOf(pc[p], data[p], op[p]) /\ DOMAIN data = Proc /\ DOMAIN pc = Proc
        /\ DOMAIN op = Proc /\ Counts(sqb)
    BY LimSays
  <1>2. DOMAIN data'[p] = {"base", "idx", "msgn"} /\ pc'[p] = "closed"
    BY <1>1 DEF NoData
  <1>3. "mode" \in DOMAIN op'[p] /\ DOMAIN op' = Proc
    <2>1. "mode" \in DOMAIN op[p]
      BY <1>1 DEF LimOf
    <2>2. "mode" \in DOMAIN NoOp
      BY DEF NoOp
    <2> QED BY <1>1, <2>1, <2>2
  <1>4. LimOf(pc'[p], data'[p], op'[p])
    BY <1>2, <1>3 DEF LimOf
  <1>5. \A q \in Proc : q # p => pc'[q] = pc[q] /\ data'[q] = data[q] /\ op'[q] = op[q]
    BY <1>1
  <1> QED BY <1>1, <1>2, <1>3, <1>4, <1>5 DEF LimDone

\* The end of a call, or of a purge.
LEMMA LimLeave ==
    ASSUME LimInv, NEW p \in Proc, NEW v, Counts(v.base), IsIdx(v.idx, v.base.totalmsgs),
           NEW l, l # "place", Leave(p, v, l)
    PROVE  LimDone(p) /\ data'[p].base = v.base /\ data'[p].idx = v.idx
  <1>1. /\ LimOf(pc[p], data[p], op[p]) /\ DOMAIN data = Proc /\ DOMAIN pc = Proc
        /\ DOMAIN op = Proc /\ Counts(sqb)
    BY LimSays
  <1>2. /\ data' = [data EXCEPT ![p] = [base |-> v.base, idx |-> v.idx, msgn |-> v.msgn]]
        /\ pc' = [pc EXCEPT ![p] = l] /\ UNCHANGED sqb
        /\ op' = op \/ op' = [op EXCEPT ![p] = NoOp]
    BY DEF Leave
  <1>3. data'[p] = [base |-> v.base, idx |-> v.idx, msgn |-> v.msgn] /\ pc'[p] = l
    BY <1>1, <1>2
  <1>4. DOMAIN data'[p] = {"base", "idx", "msgn"} /\ data'[p].base = v.base /\ data'[p].idx = v.idx
    BY <1>3
  <1>5. "mode" \in DOMAIN op'[p] /\ DOMAIN op' = Proc
    <2>1. "mode" \in DOMAIN op[p]
      BY <1>1 DEF LimOf
    <2>2. "mode" \in DOMAIN NoOp
      BY DEF NoOp
    <2> QED BY <1>1, <1>2, <2>1, <2>2
  <1>6. LimOf(pc'[p], data'[p], op'[p])
    BY <1>3, <1>4, <1>5 DEF LimOf
  <1>7. \A q \in Proc : q # p => pc'[q] = pc[q] /\ data'[q] = data[q] /\ op'[q] = op[q]
    BY <1>1, <1>2
  <1> QED BY <1>1, <1>2, <1>4, <1>5, <1>6, <1>7 DEF LimDone

LEMMA LimView ==
    ASSUME LimInv, NEW p \in Proc, pc[p] \in {"held", "busy", "place"}
    PROVE  /\ View(p) = V(frm, data[p].base, data[p].idx, data[p].msgn)
           /\ Counts(data[p].base) /\ IsIdx(data[p].idx, data[p].base.totalmsgs)
           /\ DOMAIN data[p].base = BaseKeys /\ data[p].base.totalmsgs \in Nat
           /\ After(p) \in {"held", "unlock"}
  <1>1. LimOf(pc[p], data[p], op[p])
    BY LimSays
  <1>2. Counts(data[p].base) /\ IsIdx(data[p].idx, data[p].base.totalmsgs)
    BY <1>1 DEF LimOf
  <1> QED BY <1>2 DEF Counts, View, V, After

\* A post within the limit, and the protected messages, as KeepsLimit and
\* KeepsProtected have it of one program.
LimitKept(p) == pc[p] = "place" /\ op[p].mode = "new" /\ MaxMsgs # 0 =>
                    data'[p].base.totalmsgs <= MaxMsgs
ProtKept(p)  == pc[p] = "busy" /\ op[p].mode = "new" =>
                    \A i \in 1..data[p].base.protmsgs : i \in DOMAIN data[p].idx =>
                        i \in DOMAIN data'[p].idx /\ data'[p].idx[i] = data[p].idx[i]

LEMMA LimOutside ==
    ASSUME LimInv, NEW p \in Proc,
           \/ Open(p) \/ OpenScan(p) \/ Close(p) \/ Refresh(p) \/ RefreshIndex(p)
    PROVE  LimDone(p) /\ pc[p] \notin {"busy", "place"}
  <1>1. CASE Open(p)
    BY <1>1, LimRead DEF Open
  <1>2. CASE OpenScan(p)
    BY <1>2, LimIndex DEF OpenScan, files
  <1>3. CASE Close(p)
    BY <1>3, LimEnd DEF Close, files
  <1>4. CASE Refresh(p)
    BY <1>4, LimRead DEF Refresh
  <1>5. CASE RefreshIndex(p)
    <2>1. PICK l : l = IF op[p].mode = "lock" THEN "held" ELSE "busy"
      OBVIOUS
    <2>2. /\ data' = [data EXCEPT ![p].idx = Index(p)] /\ pc' = [pc EXCEPT ![p] = l]
          /\ UNCHANGED <<sqb, op>> /\ pc[p] = "index" /\ l # "place"
      BY <1>5, <2>1 DEF RefreshIndex, files
    <2> QED BY <2>2, LimIndex
  <1> QED BY <1>1, <1>2, <1>3, <1>4, <1>5

LEMMA OpSays ==
    ASSUME LimInv, NEW p \in Proc, NEW mode, Op(p, mode)
    PROVE  DOMAIN op' = Proc /\ (\A q \in Proc : q # p => op'[q] = op[q]) /\ "mode" \in DOMAIN op'[p]
  <1>1. DOMAIN op = Proc
    BY LimSays
  <1>2. PICK m, s : op' = [op EXCEPT ![p] = [NoOp EXCEPT !.mode = mode, !.msg = m, !.size = s]]
    BY DEF Op
  <1> DEFINE o == [NoOp EXCEPT !.mode = mode, !.msg = m, !.size = s]
  <1>3. "mode" \in DOMAIN o
    BY DEF NoOp
  <1> HIDE DEF o
  <1>4. op' = [op EXCEPT ![p] = o]
    BY <1>2 DEF o
  <1> QED BY <1>1, <1>3, <1>4

LEMMA LimCall ==
    ASSUME LimInv, NEW p \in Proc, Call(p) \/ CallHeld(p)
    PROVE  LimDone(p) /\ pc[p] \notin {"busy", "place"}
  <1>1. PICK mode : Op(p, mode)
    BY DEF Call, CallHeld
  <1>2. DOMAIN op' = Proc /\ (\A q \in Proc : q # p => op'[q] = op[q]) /\ "mode" \in DOMAIN op'[p]
    BY <1>1, OpSays
  <1>3. Counts(sqb)
    BY LimSays
  <1>4. CASE Call(p)
    BY <1>2, <1>3, <1>4, LimPc DEF Call, files
  <1>5. CASE CallHeld(p)
    BY <1>2, <1>3, <1>5, LimPc DEF CallHeld, files
  <1> QED BY <1>4, <1>5

LEMMA LimWrites ==
    ASSUME LimInv, NEW p \in Proc,
           Acquire(p) \/ AreaUnlock(p) \/ Unlock(p) \/ WriteBase(p) \/ WriteIndex(p)
    PROVE  LimDone(p) /\ pc[p] \notin {"busy", "place"}
  <1>1. Counts(sqb) /\ DOMAIN op = Proc /\ LimOf(pc[p], data[p], op[p])
    BY LimSays
  <1>2. "mode" \in DOMAIN op[p] /\ (pc[p] # "closed" => Counts(data[p].base))
    BY <1>1 DEF LimOf
  <1>3. CASE Acquire(p)
    BY <1>1, <1>2, <1>3, LimPc DEF Acquire, files
  <1>4. CASE AreaUnlock(p)
    BY <1>1, <1>2, <1>4, LimPc DEF AreaUnlock, files
  <1>5. CASE Unlock(p)
    BY <1>1, <1>2, <1>5, LimPc DEF Unlock, files
  <1>6. CASE WriteBase(p)
    BY <1>1, <1>2, <1>6, LimPc DEF WriteBase
  <1>7. CASE WriteIndex(p)
    BY <1>1, <1>2, <1>7, LimPc DEF WriteIndex
  <1> QED BY <1>3, <1>4, <1>5, <1>6, <1>7

LEMMA LimEnds ==
    ASSUME LimInv, BaseAssumption, NEW p \in Proc, DeleteWild(p) \/ Crash(p)
    PROVE  LimDone(p) /\ LimitKept(p)
  <1>1. data' = [data EXCEPT ![p] = NoData] /\ pc' = [pc EXCEPT ![p] = "closed"] /\ UNCHANGED sqb
        /\ op' = [op EXCEPT ![p] = NoOp]
    BY DEF DeleteWild, Crash, files
  <1>2. LimDone(p)
    BY <1>1, LimEnd
  <1>3. DOMAIN data = Proc
    BY LimSays
  <1>4. data'[p].base.totalmsgs = 0
    BY <1>1, <1>3 DEF NoData, NoBase, NewBase
  <1>5. LimitKept(p)
    BY <1>4 DEF LimitKept, BaseAssumption
  <1> QED BY <1>2, <1>5

\* The calls that leave the number of messages alone.
LEMMA LimSaves ==
    ASSUME LimInv, NEW p \in Proc, SaveHdr(p) \/ Rewrite(p) \/ SaveGone(p) \/ UpdateTimesread(p)
    PROVE  LimDone(p) /\ pc[p] = "busy" /\ op[p].mode # "new"
  <1> DEFINE b == data[p].base
             x == data[p].idx
             m == data[p].msgn
             n == data[p].base.totalmsgs
  <1>1. pc[p] = "busy" /\ op[p].mode # "new"
    BY DEF SaveHdr, Rewrite, SaveGone, UpdateTimesread, Exists
  <1>2. View(p) = V(frm, b, x, m) /\ Counts(b) /\ IsIdx(x, n) /\ n \in Nat
        /\ DOMAIN b = BaseKeys /\ After(p) \in {"held", "unlock"}
    BY <1>1, LimView
  <1>3. PICK v, l : Leave(p, v, l) /\ l # "place" /\ v.base = b /\ IsIdx(v.idx, n)
    <2> HIDE DEF b, x, m, n
    <2>1. CASE SaveHdr(p)
      <3>1. PICK at : Leave(p, SaveHeader(View(p), at, op[p].msg), After(p))
        BY <2>1 DEF SaveHdr
      <3>2. PICK g : SaveHeader(V(frm, b, x, m), at, op[p].msg) = V(g, b, x, m)
        BY HdrAny
      <3>3. V(g, b, x, m).base = b /\ V(g, b, x, m).idx = x
        BY DEF V
      <3> QED BY <1>2, <3>1, <3>2, <3>3
    <2>2. CASE Rewrite(p)
      <3>1. PICK at : Leave(p, SaveInPlace(View(p), Relno(p), at, op[p].msg, op[p].size), After(p))
        BY <2>2 DEF Rewrite
      <3> DEFINE y == SetEntry(x, Relno(p), at, op[p].msg.msgno)
      <3>2. PICK g : SaveInPlace(V(frm, b, x, m), Relno(p), at, op[p].msg, op[p].size) = V(g, b, y, m)
        BY InPlaceAny
      <3>3. IsIdx(y, n)
        BY <1>2, SetIdx
      <3> HIDE DEF y
      <3>4. V(g, b, y, m).base = b /\ V(g, b, y, m).idx = y
        BY DEF V
      <3> QED BY <1>2, <3>1, <3>2, <3>3, <3>4
    <2>3. CASE SaveGone(p)
      <3>1. PICK z : Leave(p, [V(frm, b, x, m) EXCEPT !.msgn = z], After(p))
        BY <1>2, <2>3 DEF SaveGone
      <3>2. [V(frm, b, x, m) EXCEPT !.msgn = z] = V(frm, b, x, z)
        BY DEF V
      <3>3. V(frm, b, x, z).base = b /\ V(frm, b, x, z).idx = x
        BY DEF V
      <3> QED BY <1>2, <3>1, <3>2, <3>3
    <2>4. CASE UpdateTimesread(p)
      <3>1. Leave(p, V(frm, b, x, m), "unlock")
        BY <1>2, <2>4 DEF UpdateTimesread
      <3>2. V(frm, b, x, m).base = b /\ V(frm, b, x, m).idx = x
        BY DEF V
      <3> QED BY <1>2, <3>1, <3>2
    <2> QED BY <2>1, <2>2, <2>3, <2>4
  <1>4. IsIdx(v.idx, v.base.totalmsgs) /\ Counts(v.base)
    BY <1>2, <1>3
  <1>5. LimDone(p)
    BY <1>3, <1>4, LimLeave
  <1> QED BY <1>1, <1>5

\* A deletion of the k-th message.
LEMMA LimDelete ==
    ASSUME LimInv, NEW p \in Proc, pc[p] = "busy", NEW k \in 1..data[p].base.totalmsgs,
           NEW l, l # "place", Leave(p, delete_msg(View(p), k), l)
    PROVE  /\ LimDone(p) /\ DOMAIN data[p].idx = 1..data[p].base.totalmsgs
           /\ Shorter(data'[p].idx, data[p].idx, data[p].base.totalmsgs, k)
  <1> DEFINE b == data[p].base
             x == data[p].idx
             m == data[p].msgn
             n == data[p].base.totalmsgs
             y == RemoveAt(x, k)
  <1>1. View(p) = V(frm, b, x, m) /\ Counts(b) /\ IsIdx(x, n) /\ n \in Nat /\ DOMAIN b = BaseKeys
    BY LimView
  <1>2. IsIdx(y, n - 1) /\ DOMAIN x = 1..n /\ Shorter(y, x, n, k)
    BY <1>1, ShorterIdx
  <1>3. n - 1 \in Nat
    BY <1>1
  <1>4. b.totalmsgs = n
    OBVIOUS
  <1>5. PICK g, c, z : /\ delete_msg(V(frm, b, x, m), k) = V(g, c, RemoveAt(x, k), z)
                       /\ DOMAIN c = BaseKeys /\ c.totalmsgs = b.totalmsgs - 1
                       /\ c.maxmsgs = b.maxmsgs /\ c.protmsgs = b.protmsgs
    BY <1>1, DeleteAny
  <1> HIDE DEF b, x, m, n, y
  <1>6. Counts(c) /\ c.totalmsgs = n - 1
    BY <1>1, <1>3, <1>4, <1>5 DEF Counts
  <1>7. V(g, c, y, z).base = c /\ V(g, c, y, z).idx = y
    BY DEF V
  <1>8. Leave(p, V(g, c, y, z), l)
    BY <1>1, <1>5 DEF y
  <1>9. LimDone(p) /\ data'[p].idx = y
    BY <1>2, <1>6, <1>7, <1>8, LimLeave
  <1> QED BY <1>2, <1>9 DEF n, x

LEMMA LimPurge ==
    ASSUME LimInv, BaseAssumption, NEW p \in Proc, Purge(p)
    PROVE  LimDone(p) /\ pc[p] = "busy" /\ ProtKept(p)
  <1>1. pc[p] = "busy" /\ Leave(p, delete_msg(View(p), data[p].base.protmsgs + 1), "busy") /\ Full(p)
    BY DEF Purge
  <1>2. /\ Counts(data[p].base) /\ data[p].base.totalmsgs \in Nat
        /\ data[p].base.protmsgs = ProtMsgs /\ data[p].base.maxmsgs = MaxMsgs
    BY <1>1, LimView DEF Counts
  <1>3. /\ MaxMsgs # 0 /\ MaxMsgs <= data[p].base.totalmsgs /\ ProtMsgs < MaxMsgs
        /\ ProtMsgs \in Nat /\ MaxMsgs \in Nat
    BY <1>1, <1>2 DEF Full, BaseAssumption
  <1>4. PICK n \in Nat : n = data[p].base.totalmsgs
    BY <1>2
  <1>5. ProtMsgs + 1 \in 1..n
    BY <1>3, <1>4
  <1>6. Leave(p, delete_msg(View(p), ProtMsgs + 1), "busy")
    BY <1>1, <1>2
  <1>7. ProtMsgs + 1 \in 1..data[p].base.totalmsgs
    BY <1>4, <1>5
  <1>8. /\ LimDone(p) /\ DOMAIN data[p].idx = 1..data[p].base.totalmsgs
        /\ Shorter(data'[p].idx, data[p].idx, data[p].base.totalmsgs, ProtMsgs + 1)
    BY <1>1, <1>6, <1>7, LimDelete
  <1>9. ASSUME NEW i \in 1..ProtMsgs
        PROVE  i \in DOMAIN data'[p].idx /\ data'[p].idx[i] = data[p].idx[i]
    <2>1. i \in 1..(n - 1) /\ i < ProtMsgs + 1
      BY <1>3, <1>4
    <2> QED BY <1>4, <1>8, <2>1 DEF Shorter
  <1> QED BY <1>1, <1>2, <1>8, <1>9 DEF ProtKept

LEMMA LimDel ==
    ASSUME LimInv, NEW p \in Proc, Delete(p)
    PROVE  LimDone(p) /\ pc[p] = "busy" /\ op[p].mode # "new"
  <1>1. PICK k : /\ pc[p] = "busy" /\ op[p].mode = "del" /\ k \in DOMAIN data[p].idx
                 /\ Leave(p, delete_msg(View(p), k), After(p))
    BY DEF Delete
  <1>2. /\ IsIdx(data[p].idx, data[p].base.totalmsgs) /\ data[p].base.totalmsgs \in Nat
        /\ After(p) # "place"
    BY <1>1, LimView
  <1>3. PICK T : data[p].idx \in Seq(T) /\ Len(data[p].idx) = data[p].base.totalmsgs
    BY <1>2 DEF IsIdx
  <1>4. k \in 1..data[p].base.totalmsgs
    BY <1>1, <1>3
  <1>5. LimDone(p)
    BY <1>1, <1>2, <1>4, LimDelete
  <1> QED BY <1>1, <1>5

-----------------------------------------------------------------------------
\* A new message is given a frame only while there is room for it.
LEMMA LimTaken ==
    ASSUME LimInv, NEW p \in Proc, pc[p] = "busy", NEW old,
           Taken(p, old, TakeFrame(View(p), op[p].size, recycle)),
           op[p].mode = "new" /\ MaxMsgs # 0 => data[p].base.totalmsgs < MaxMsgs
    PROVE  LimDone(p) /\ data'[p].idx = data[p].idx
  <1>1. /\ LimOf(pc[p], data[p], op[p]) /\ DOMAIN data = Proc /\ DOMAIN pc = Proc
        /\ DOMAIN op = Proc /\ Counts(sqb)
    BY LimSays
  <1> DEFINE b == data[p].base
             x == data[p].idx
             m == data[p].msgn
             t == TakeFrame(View(p), op[p].size, recycle)
  <1>2. View(p) = V(frm, b, x, m) /\ Counts(b) /\ IsIdx(x, b.totalmsgs) /\ DOMAIN b = BaseKeys
    BY LimView
  <1>3. PICK g, c, at, fr : /\ TakeFrame(V(frm, b, x, m), op[p].size, recycle)
                                = [v |-> V(g, c, x, m), at |-> at, fr |-> fr]
                            /\ SameCounts(b, c)
    <2>1. DOMAIN b = BaseKeys
      BY <1>2
    <2> HIDE DEF b, x, m, t
    <2>2. PICK size : size = op[p].size
      OBVIOUS
    <2>3. \E g, c, at, fr : /\ TakeFrame(V(frm, b, x, m), size, recycle)
                                = [v |-> V(g, c, x, m), at |-> at, fr |-> fr]
                            /\ SameCounts(b, c)
      BY <2>1, TakeAny
    <2> QED BY <2>2, <2>3
  <1>4. t.v.base = c
    <2>1. t = [v |-> V(g, c, x, m), at |-> at, fr |-> fr]
      BY <1>2, <1>3
    <2>2. t.v = V(g, c, x, m)
      BY <2>1
    <2> QED BY <2>2 DEF V
  <1>5. /\ data' = [data EXCEPT ![p].base = c] /\ pc' = [pc EXCEPT ![p] = "place"] /\ UNCHANGED sqb
        /\ \E e1, e2, e3, e4 : op' = [op EXCEPT ![p] = [@ EXCEPT !.old = e1, !.oldfr = e2,
                                                          !.at = e3, !.fr = e4]]
    BY <1>4 DEF Taken
  <1>6. Counts(c) /\ c.totalmsgs = b.totalmsgs
    BY <1>2, <1>3 DEF Counts, SameCounts
  <1> HIDE DEF t
  <1>7. "mode" \in DOMAIN op[p] /\ DOMAIN data[p] = {"base", "idx", "msgn"}
    BY <1>1 DEF LimOf
  <1>8. PICK e1, e2, e3, e4 : op' = [op EXCEPT ![p] = [op[p] EXCEPT !.old = e1, !.oldfr = e2,
                                                         !.at = e3, !.fr = e4]]
    BY <1>1, <1>5
  <1>9. /\ DOMAIN op' = Proc /\ \A q \in Proc : q # p => op'[q] = op[q]
        /\ op'[p].mode = op[p].mode /\ "mode" \in DOMAIN op'[p]
    <2> DEFINE o == [op[p] EXCEPT !.old = e1, !.oldfr = e2, !.at = e3, !.fr = e4]
    <2>1. o.mode = op[p].mode /\ "mode" \in DOMAIN o
      BY <1>7
    <2> HIDE DEF o
    <2>2. op' = [op EXCEPT ![p] = o]
      BY <1>8 DEF o
    <2> QED BY <1>1, <2>1, <2>2
  <1>10. /\ DOMAIN data'[p] = {"base", "idx", "msgn"} /\ data'[p].base = c /\ data'[p].idx = data[p].idx
         /\ pc'[p] = "place" /\ DOMAIN data' = Proc /\ DOMAIN pc' = Proc
         /\ \A q \in Proc : q # p => data'[q] = data[q] /\ pc'[q] = pc[q]
    BY <1>1, <1>5, <1>7
  <1>11. LimOf(pc'[p], data'[p], op'[p])
    BY <1>2, <1>6, <1>9, <1>10 DEF LimOf
  <1> QED BY <1>1, <1>5, <1>9, <1>10, <1>11 DEF LimDone

LEMMA LimTake ==
    ASSUME LimInv, BaseAssumption, NEW p \in Proc, Take(p)
    PROVE  LimDone(p) /\ pc[p] = "busy" /\ ProtKept(p)
  <1>1. pc[p] = "busy"
    BY DEF Take
  <1>2. PICK old : /\ Taken(p, old, TakeFrame(View(p), op[p].size, recycle))
                   /\ op[p].mode = "new" => ~Full(p)
    BY DEF Take, Room, Exists
  <1>3. Counts(data[p].base) /\ data[p].base.totalmsgs \in Nat
    BY <1>1, LimView
  <1>4. MaxMsgs \in Nat
    BY DEF BaseAssumption
  <1>5. op[p].mode = "new" /\ MaxMsgs # 0 => data[p].base.totalmsgs < MaxMsgs
    BY <1>2, <1>3, <1>4 DEF Full, Counts
  <1>6. LimDone(p) /\ data'[p].idx = data[p].idx
    BY <1>1, <1>2, <1>5, LimTaken
  <1> QED BY <1>1, <1>6 DEF ProtKept

LEMMA LimPlace ==
    ASSUME LimInv, BaseAssumption, NEW p \in Proc, Place(p)
    PROVE  LimDone(p) /\ pc[p] = "place" /\ LimitKept(p)
  <1> DEFINE b == data[p].base
             x == data[p].idx
             m == data[p].msgn
             n == data[p].base.totalmsgs
             o == op[p]
  <1>1. pc[p] = "place"
    BY DEF Place
  <1>2. View(p) = V(frm, b, x, m) /\ Counts(b) /\ IsIdx(x, n) /\ n \in Nat
        /\ DOMAIN b = BaseKeys /\ After(p) \in {"held", "unlock"}
    BY <1>1, LimView
  <1>3. o.mode = "new" /\ MaxMsgs # 0 => n < MaxMsgs
    <2>1. LimOf(pc[p], data[p], op[p])
      BY LimSays
    <2> QED BY <1>1, <2>1 DEF LimOf
  <1>4. MaxMsgs \in Nat
    BY DEF BaseAssumption
  <1>5. CASE o.mode = "new"
    <2> DEFINE msg == [o.msg EXCEPT !.msgno = data[p].base.nextmsgno]
               e == [offset |-> o.at, msgno |-> msg.msgno]
    <2>1. Leave(p, SaveNew(V(frm, b, x, m), o.at, o.fr, msg, o.size), After(p))
      BY <1>2, <1>5 DEF Place
    <2> HIDE DEF msg, b, x, m, o
    <2>2. PICK g, c, z : /\ SaveNew(V(frm, b, x, m), o.at, o.fr, msg, o.size)
                            = V(g, c, Append(x, [offset |-> o.at, msgno |-> msg.msgno]), z)
                         /\ DOMAIN c = BaseKeys /\ c.totalmsgs = b.totalmsgs + 1
                         /\ c.maxmsgs = b.maxmsgs /\ c.protmsgs = b.protmsgs
      BY <1>2, NewAny
    <2> HIDE DEF e
    <2> DEFINE y == Append(x, e)
    <2>3. b.totalmsgs = n
      BY DEF b
    <2>4. c.totalmsgs = n + 1 /\ Counts(c)
      BY <1>2, <2>2, <2>3 DEF Counts
    <2>5. IsIdx(y, n + 1)
      <3> HIDE DEF n
      <3> QED BY <1>2, LongerIdx
    <2> HIDE DEF y
    <2>6. V(g, c, y, z).base = c /\ V(g, c, y, z).idx = y
      BY DEF V
    <2>7. Leave(p, V(g, c, y, z), After(p))
      BY <2>1, <2>2 DEF y, e
    <2>8. LimDone(p) /\ data'[p].base = c
      BY <1>2, <2>4, <2>5, <2>6, <2>7, LimLeave
    <2>9. MaxMsgs # 0 => n + 1 <= MaxMsgs
      BY <1>2, <1>3, <1>4, <1>5
    <2>10. LimitKept(p)
      BY <2>4, <2>8, <2>9 DEF LimitKept
    <2> QED BY <1>1, <2>8, <2>10
  <1>6. CASE o.mode # "new"
    <2>1. Leave(p, SaveMoved(V(frm, b, x, m), Relno(p), o.old, o.oldfr, o.at, o.fr, o.msg, o.size), After(p))
      BY <1>2, <1>6 DEF Place
    <2> DEFINE y == SetEntry(x, Relno(p), o.at, o.msg.msgno)
    <2> HIDE DEF b, x, m, o
    <2>2. PICK g, c : /\ SaveMoved(V(frm, b, x, m), Relno(p), o.old, o.oldfr, o.at, o.fr, o.msg, o.size)
                         = V(g, c, SetEntry(x, Relno(p), o.at, o.msg.msgno), m)
                      /\ SameCounts(b, c)
      BY <1>2, MovedAny
    <2>3. b.totalmsgs = n
      BY DEF b
    <2>4. c.totalmsgs = n /\ Counts(c)
      BY <1>2, <2>2, <2>3 DEF Counts, SameCounts
    <2>5. IsIdx(y, n)
      <3> HIDE DEF n
      <3> QED BY <1>2, SetIdx
    <2> HIDE DEF y
    <2>6. V(g, c, y, m).base = c /\ V(g, c, y, m).idx = y
      BY DEF V
    <2>7. Leave(p, V(g, c, y, m), After(p))
      BY <2>1, <2>2 DEF y
    <2>8. LimDone(p)
      BY <1>2, <2>4, <2>5, <2>6, <2>7, LimLeave
    <2>9. LimitKept(p)
      BY <1>6 DEF LimitKept, o
    <2> QED BY <1>1, <2>8, <2>9
  <1> QED BY <1>5, <1>6

LEMMA LimOne ==
    ASSUME LimInv, BaseAssumption, NEW p \in Proc, Step(p)
    PROVE  LimDone(p) /\ LimitKept(p) /\ (MayCrash = {} => ProtKept(p))
  <1>1. CASE Open(p) \/ OpenScan(p) \/ Close(p) \/ Refresh(p) \/ RefreshIndex(p)
    BY <1>1, LimOutside DEF LimitKept, ProtKept
  <1>2. CASE Call(p) \/ CallHeld(p)
    BY <1>2, LimCall DEF LimitKept, ProtKept
  <1>3. CASE Acquire(p) \/ AreaUnlock(p) \/ Unlock(p) \/ WriteBase(p) \/ WriteIndex(p)
    BY <1>3, LimWrites DEF LimitKept, ProtKept
  <1>4. CASE SaveHdr(p) \/ Rewrite(p) \/ SaveGone(p) \/ UpdateTimesread(p)
    BY <1>4, LimSaves DEF LimitKept, ProtKept
  <1>5. CASE Purge(p)
    BY <1>5, LimPurge DEF LimitKept
  <1>6. CASE Take(p)
    BY <1>6, LimTake DEF LimitKept
  <1>7. CASE Place(p)
    BY <1>7, LimPlace DEF ProtKept
  <1>8. CASE Delete(p)
    BY <1>8, LimDel DEF LimitKept, ProtKept
  <1>9. CASE DeleteWild(p)
    <2>1. op[p].mode = "del"
      BY <1>9 DEF DeleteWild
    <2> QED BY <1>9, <2>1, LimEnds DEF ProtKept
  <1>10. CASE Crash(p)
    <2>1. MayCrash # {}
      BY <1>10 DEF Crash
    <2> QED BY <1>10, <2>1, LimEnds
  <1> QED BY <1>1, <1>2, <1>3, <1>4, <1>5, <1>6, <1>7, <1>8, <1>9, <1>10 DEF Step

\* The counts of the base record stay those of its limit, whatever the programs do.
LEMMA LimNext ==
    ASSUME LimInv, BaseAssumption, [Next]_vars
    PROVE  LimInv' /\ KeepsLimit /\ (MayCrash = {} => KeepsProtected)
  <1>1. CASE UNCHANGED vars
    <2>1. /\ sqb' = sqb /\ pc' = pc /\ data' = data /\ op' = op
      BY <1>1 DEF vars, files
    <2>2. LimInv'
      BY <2>1 DEF LimInv, LimOf, Counts, IsIdx
    <2>3. ASSUME NEW p \in Proc, pc[p] = "place", op[p].mode = "new", MaxMsgs # 0
          PROVE  data[p].base.totalmsgs <= MaxMsgs
      <3>1. LimOf(pc[p], data[p], op[p])
        BY LimSays
      <3>2. data[p].base.totalmsgs < MaxMsgs /\ data[p].base.totalmsgs \in Nat
        BY <2>3, <3>1 DEF LimOf, Counts
      <3>3. MaxMsgs \in Nat
        BY DEF BaseAssumption
      <3> QED BY <3>2, <3>3
    <2> QED BY <2>1, <2>2, <2>3 DEF KeepsLimit, KeepsProtected
  <1>2. CASE Next
    <2>1. PICK p \in Proc : Step(p)
      BY <1>2 DEF Next
    <2>2. LimDone(p) /\ LimitKept(p) /\ (MayCrash = {} => ProtKept(p))
      BY <2>1, LimOne
    <2>3. LimInv'
      BY <2>2, LimStep
    <2>4. ASSUME NEW q \in Proc PROVE LimitKept(q) /\ (MayCrash = {} => ProtKept(q))
      <3>1. CASE q = p
        BY <2>2, <3>1
      <3>2. CASE q # p
        <4>1. data'[q] = data[q]
          BY <2>2, <3>2 DEF LimDone
        <4>2. LimOf(pc[q], data[q], op[q]) /\ MaxMsgs \in Nat
          BY LimSays DEF BaseAssumption
        <4>3. LimitKept(q)
          BY <4>1, <4>2 DEF LimitKept, LimOf, Counts
        <4> QED BY <4>1, <4>3 DEF ProtKept
      <3> QED BY <3>1, <3>2
    <2>5. KeepsLimit
      BY <2>4 DEF KeepsLimit, LimitKept
    <2>6. MayCrash = {} => KeepsProtected
      BY <2>4 DEF KeepsProtected, ProtKept
    <2> QED BY <2>3, <2>5, <2>6
  <1> QED BY <1>1, <1>2

LEMMA LimInit == ASSUME BaseAssumption, ~Blank, Init PROVE LimInv
  <1>1. Counts(sqb)
    <2>1. sqb = OldBase
      BY DEF Init
    <2>2. DOMAIN OldBase = BaseKeys /\ OldBase.totalmsgs = Posted
      BY DEF OldBase, NewBase, BaseKeys
    <2>3. OldBase.maxmsgs = MaxMsgs /\ OldBase.protmsgs = ProtMsgs
      BY DEF OldBase, NewBase
    <2>4. Posted \in Nat
      BY DEF BaseAssumption
    <2> QED BY <2>1, <2>2, <2>3, <2>4 DEF Counts
  <1>2. /\ pc = [p \in Proc |-> "closed"] /\ data = [p \in Proc |-> NoData]
        /\ op = [p \in Proc |-> NoOp]
    BY DEF Init
  <1>3. ASSUME NEW p \in Proc PROVE LimOf(pc[p], data[p], op[p])
    <2>1. pc[p] = "closed" /\ data[p] = NoData /\ op[p] = NoOp
      BY <1>2
    <2> QED BY <2>1 DEF LimOf, NoData, NoOp
  <1> QED BY <1>1, <1>2, <1>3 DEF LimInv

\* A post leaves an area with a limit within it, whatever several programs do, or
\* one that is killed (save_message of gmosqsh4.cpp).
THEOREM SquishWithin == ASSUME BaseAssumption, ~Blank PROVE Spec => [][KeepsLimit]_vars
  <1>1. Init => LimInv
    BY LimInit
  <1>2. LimInv /\ [Next]_vars => LimInv' /\ KeepsLimit
    BY LimNext
  <1> QED BY <1>1, <1>2, PTL DEF Spec

\* What is deleted for it is never one of the first, protected messages.
THEOREM SquishProtects ==
    ASSUME BaseAssumption, ~Blank, MayCrash = {} PROVE Spec => [][KeepsProtected]_vars
  <1>1. Init => LimInv
    BY LimInit
  <1>2. LimInv /\ [Next]_vars => LimInv' /\ KeepsProtected
    BY LimNext
  <1> QED BY <1>1, <1>2, PTL DEF Spec
=============================================================================

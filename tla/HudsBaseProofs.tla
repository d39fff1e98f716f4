--------------------------- MODULE HudsBaseProofs ---------------------------
(***************************************************************************)
(* Proofs about HudsBase, for any set of programs, any boards and any      *)
(* bounds: the lock, and the headers with their index.                     *)
(***************************************************************************)
EXTENDS HudsBase, Counting

\* What a write leaves behind: a file of the same type, as long as before or
\* longer by the new record, and changed only at its place.
LEMMA PutFacts ==
    ASSUME NEW S, NEW file \in Seq(S), NEW at \in 1..(Len(file) + 1), NEW what \in S
    PROVE  /\ Put(file, at, what) \in Seq(S)
           /\ Len(Put(file, at, what)) = IF at = Len(file) + 1 THEN at ELSE Len(file)
           /\ \A i \in 1..Len(Put(file, at, what)) :
                Put(file, at, what)[i] = IF i = at THEN what ELSE file[i]
           /\ DOMAIN Put(file, at, what) = 1..Len(Put(file, at, what))
  <1> DEFINE n == IF at > Len(file) THEN at ELSE Len(file)
  <1>1. n \in Nat /\ n = IF at = Len(file) + 1 THEN at ELSE Len(file)
    OBVIOUS
  <1>2. \A i \in 1..n : i # at => i \in 1..Len(file) /\ file[i] \in S
    OBVIOUS
  <1>3. Put(file, at, what) = [i \in 1..n |-> IF i = at THEN what ELSE file[i]]
    BY DEF Put
  <1> HIDE DEF n
  <1>4. Put(file, at, what) \in Seq(S)
    BY <1>1, <1>2, <1>3
  <1>5. Len(Put(file, at, what)) = n /\ DOMAIN Put(file, at, what) = 1..n
    BY <1>1, <1>3, <1>4
  <1> QED BY <1>1, <1>3, <1>4, <1>5

\* The same for the file of headers.
LEMMA PutHeader ==
    ASSUME NEW file \in Seq(Headers), NEW at \in 1..(Len(file) + 1), NEW what \in Headers
    PROVE  /\ Put(file, at, what) \in Seq(Headers)
           /\ Len(Put(file, at, what)) = IF at = Len(file) + 1 THEN at ELSE Len(file)
           /\ \A i \in 1..Len(Put(file, at, what)) :
                Put(file, at, what)[i] = IF i = at THEN what ELSE file[i]
           /\ DOMAIN Put(file, at, what) = 1..Len(Put(file, at, what))
  BY PutFacts

\* Only the record written changes.
LEMMA PutHeaderElse ==
    ASSUME NEW file \in Seq(Headers), NEW at \in 1..(Len(file) + 1), NEW what \in Headers
    PROVE  /\ \A i \in DOMAIN file : i # at => Put(file, at, what)[i] = file[i]
           /\ Put(file, at, what)[at] = what
           /\ DOMAIN file \subseteq DOMAIN Put(file, at, what)
           /\ at \in DOMAIN Put(file, at, what)
  <1>1. /\ DOMAIN Put(file, at, what) = 1..Len(Put(file, at, what))
        /\ Len(Put(file, at, what)) = IF at = Len(file) + 1 THEN at ELSE Len(file)
    BY PutHeader
  <1>r. \A i \in 1..Len(Put(file, at, what)) :
             Put(file, at, what)[i] = IF i = at THEN what ELSE file[i]
    BY PutHeader
  <1>2. DOMAIN file = 1..Len(file) /\ Len(file) \in Nat /\ at \in 1..(Len(file) + 1)
    OBVIOUS
  <1>3. DOMAIN file \subseteq DOMAIN Put(file, at, what) /\ at \in DOMAIN Put(file, at, what)
    BY <1>1, <1>2
  <1> QED BY <1>1, <1>r, <1>3

\* What get_hdr_idx finds.
LEMMA Finds ==
    ASSUME NEW d, NEW n, HdrIdx(d, n) # 0
    PROVE  HdrIdx(d, n) \in DOMAIN d.idx /\ d.idx[HdrIdx(d, n)].msgno = n
  BY DEF HdrIdx, First

LEMMA HeaderType ==
    \A n, id \in Nat, b \in Boards \cup {0}, uns \in BOOLEAN :
        Header(n, b, id, uns) \in Headers
  BY DEF Header, Headers

LEMMA Defaults ==
    /\ NoHeader \in Headers
    /\ NoOp \in Ops
    /\ Datum(NoData) /\ NoData.idx = << >>
  <1>1. NoHeader \in Headers
    BY HeaderType DEF NoHeader
  <1>2. NoOp \in Ops
    BY <1>1 DEF NoOp, Ops
  <1>3. Datum(NoData) /\ NoData.idx = << >>
    <2>1. << >> \in Seq(Places) /\ 0 \in Nat
      OBVIOUS
    <2> QED BY <2>1 DEF NoData, NoInfo, Datum
  <1> QED BY <1>1, <1>2, <1>3

-----------------------------------------------------------------------------
LEMMA InvInit == ASSUME BaseAssumption PROVE Init => IInv
  <1> SUFFICES ASSUME Init PROVE IInv
    OBVIOUS
  <1> DEFINE n == Len(FirstMsgs)
  <1>1. n \in Nat /\ DOMAIN FirstMsgs = 1..n /\ \A i \in 1..n : FirstMsgs[i] \in Boards
    BY DEF BaseAssumption
  <1>2. hdr = [i \in 1..n |-> Header(i, FirstMsgs[i], i, FALSE)]
    BY <1>1 DEF Init
  <1>3. idx = [i \in 1..n |-> Entry(i, FirstMsgs[i])]
    BY <1>1 DEF Init
  <1>4. info.high = n
    BY DEF Init
  <1> HIDE DEF n
  <1>5. hdr \in Seq(Headers) /\ Len(hdr) = n
    <2> DEFINE H(i) == Header(i, FirstMsgs[i], i, FALSE)
    <2>1. \A i \in 1..n : H(i) \in Headers
      BY <1>1 DEF Header, Headers
    <2>2. hdr = [i \in 1..n |-> H(i)]
      BY <1>2
    <2> HIDE DEF H
    <2> QED BY <1>1, <2>1, <2>2
  <1>6. \A i \in 1..n : Entry(i, FirstMsgs[i]) \in Places
    BY <1>1 DEF Entry, Places
  <1>7. idx \in Seq(Places) /\ Len(idx) = n
    BY <1>1, <1>3, <1>6
  <1>8. Matched(hdr, idx, info.high)
    <2>1. \A i \in 1..n : hdr[i].msgno = i /\ hdr[i].board = FirstMsgs[i]
      BY <1>2 DEF Header
    <2>2. \A i \in 1..n : idx[i].msgno = i /\ idx[i].board = FirstMsgs[i]
      BY <1>3 DEF Entry
    <2>3. DOMAIN idx = 1..n
      BY <1>3
    <2>4. Paired(hdr, idx, {})
      BY <2>1, <2>2, <2>3 DEF Paired
    <2>5. Ascending(idx, n)
      BY <2>2, <2>3, <1>1 DEF Ascending
    <2> QED BY <2>4, <2>5, <1>4, <1>5, <1>7 DEF Matched
  <1>9. Typed
    <2>1. \A p \in Proc : Datum(data[p])
      <3>1. data = [p \in Proc |-> NoData]
        BY DEF Init
      <3> QED BY <3>1, Defaults
    <2>2. islocked \in [Proc -> BOOLEAN] /\ msg \in [Proc -> Headers] /\ op \in [Proc -> Ops]
      BY Defaults DEF Init
    <2>3. DOMAIN pc = Proc /\ DOMAIN data = Proc
      BY DEF Init
    <2> QED BY <1>1, <1>4, <1>5, <1>7, <2>1, <2>2, <2>3 DEF Typed
  <1>10. MutualExclusion /\ IndexSound
    BY <1>8 DEF BaseAssumption, Init, MutualExclusion, IndexSound, Saving
  <1>11. \A p \in Proc : LocalInv(p)
    BY <1>1, <1>5, Defaults DEF Init, LocalInv
  <1> QED BY <1>9, <1>10, <1>11 DEF IInv

-----------------------------------------------------------------------------
\* While a program writes no other does, and none has locked the area.
LEMMA Alone ==
    ASSUME MutualExclusion, NEW p \in Proc, Saving(p)
    PROVE  /\ holder = p
           /\ \A q \in Proc \ {p} : ~Saving(q) /\ ~islocked[q]
  BY DEF MutualExclusion

\* Nor before a program gets the lock.
LEMMA Free ==
    ASSUME BaseAssumption, MutualExclusion, NEW p \in Proc, MayLock(p), ~Saving(p)
    PROVE  /\ \A q \in Proc : ~Saving(q)
           /\ \A q \in Proc \ {p} : ~islocked[q] /\ holder # q
  BY DEF MutualExclusion, MayLock, BaseAssumption

\* Changes to a program's copies keep their type.
LEMMA DatumKept ==
    ASSUME NEW d, Datum(d), NEW x \in Seq(Places), NEW i, i.high \in Nat,
           NEW b \in Boards \cup {0}, NEW v, NEW w
    PROVE  /\ Datum([d EXCEPT !.idx = x]) /\ [d EXCEPT !.idx = x].idx = x
           /\ [d EXCEPT !.idx = x].info = d.info
           /\ Datum([d EXCEPT !.info = i]) /\ [d EXCEPT !.info = i].idx = d.idx
           /\ [d EXCEPT !.info = i].info = i
           /\ Datum([d EXCEPT !.board = b]) /\ [d EXCEPT !.board = b].idx = d.idx
           /\ Datum([d EXCEPT !.lastrec = v]) /\ [d EXCEPT !.lastrec = v].idx = d.idx
           /\ [d EXCEPT !.lastrec = v].info = d.info
           /\ Datum([d EXCEPT !.Msgn = v]) /\ [d EXCEPT !.Msgn = v].idx = d.idx
           /\ Datum([d EXCEPT !.lastread = v]) /\ [d EXCEPT !.lastread = v].idx = d.idx
  BY DEF Datum

\* After a refresh the copies are as the files.
LEMMA Refreshed ==
    ASSUME Typed, NEW p \in Proc
    PROVE  /\ Datum(Refresh(p)) /\ Refresh(p).idx = idx /\ Refresh(p).info = info
           /\ Refresh(p).board = data[p].board
  BY DEF Typed, Refresh, Datum

\* A step of a program that leaves headers, index and msginfo alone, and is no
\* part of a write, keeps the invariant if types and the lock are kept.
LEMMA Quiet ==
    ASSUME IInv, NEW p \in Proc, UNCHANGED <<hdr, idx, info>>, Typed',
           ~Saving(p), ~Saving(p)',
           \A q \in Proc \ {p} : /\ pc'[q] = pc[q] /\ data'[q] = data[q]
                                 /\ op'[q] = op[q] /\ islocked'[q] = islocked[q],
           \A q \in Proc \ {p} : holder = q <=> holder' = q,
           islocked'[p] <=> holder' = p,
           Len(data'[p].idx) <= Len(hdr)
    PROVE  IInv'
  <1>1. MutualExclusion'
    BY DEF IInv, MutualExclusion, Saving
  <1>2. IndexSound'
    <2>1. (\A q \in Proc : ~Saving(q))' => \A q \in Proc : ~Saving(q)
      BY DEF Saving
    <2> QED BY <2>1 DEF IInv, IndexSound
  <1>3. LocalInv(p)'
    BY DEF LocalInv, Saving
  <1>4. ASSUME NEW q \in Proc \ {p} PROVE LocalInv(q)'
    <2>1. LocalInv(q)
      BY DEF IInv
    <2> QED BY <2>1 DEF LocalInv, Fresh, Slot
  <1> QED BY <1>1, <1>2, <1>3, <1>4 DEF IInv

\* The same, with the types spelt out.
LEMMA QuietStep ==
    ASSUME IInv, NEW p \in Proc, UNCHANGED <<hdr, idx, info, op>>,
           ~Saving(p), ~Saving(p)',
           DOMAIN pc' = Proc, DOMAIN data' = Proc,
           islocked' \in [Proc -> BOOLEAN], msg' \in [Proc -> Headers],
           \A q \in Proc \ {p} : /\ pc'[q] = pc[q] /\ data'[q] = data[q]
                                 /\ islocked'[q] = islocked[q]
                                 /\ holder = q <=> holder' = q,
           islocked'[p] <=> holder' = p,
           Datum(data'[p]), Len(data'[p].idx) <= Len(hdr)
    PROVE  IInv'
  <1>1. Typed'
    BY DEF IInv, Typed
  <1> QED BY <1>1, Quiet

LEMMA OpenInv ==
    ASSUME IInv, NEW p \in Proc, Open(p) \/ OpenScan(p)
    PROVE  IInv'
  <1>1. /\ pc[p] \in {"closed", "opening"} /\ pc'[p] \in {"opening", "idle"}
        /\ DOMAIN pc' = Proc /\ \A q \in Proc \ {p} : pc'[q] = pc[q]
    BY DEF Open, OpenScan, IInv, Typed
  <1>2. ~Saving(p) /\ ~Saving(p)'
    BY <1>1 DEF Saving
  <1>3. DOMAIN data' = Proc /\ \A q \in Proc \ {p} : data'[q] = data[q]
    BY DEF Open, OpenScan, IInv, Typed
  <1>4. Datum(data[p]) /\ idx \in Seq(Places) /\ Len(idx) <= Len(hdr)
        /\ Len(data[p].idx) <= Len(hdr) /\ info.high \in Nat
    BY DEF IInv, Typed, LocalInv
  <1>5. Datum(data'[p]) /\ Len(data'[p].idx) <= Len(hdr)
    <2>1. CASE Open(p)
      <3>1. PICK b \in Boards : data' = [data EXCEPT ![p].board = b, ![p].idx = idx]
        BY <2>1 DEF Open
      <3> DEFINE d == [data[p] EXCEPT !.board = b, !.idx = idx]
      <3>2. data'[p] = d
        BY <3>1 DEF IInv, Typed
      <3>3. Datum(d) /\ d.idx = idx
        BY <1>4 DEF Datum
      <3> QED BY <1>4, <3>2, <3>3
    <2>2. CASE OpenScan(p)
      <3> DEFINE m == RawScan(data[p].idx, info, data[p].board)
                 l == Position(m, lastrecs[p][data[p].board])
                 d == [data[p] EXCEPT !.info = info, !.lastrec = lastrecs[p],
                                      !.Msgn = m, !.lastread = l]
      <3>1. data' = [data EXCEPT ![p] = d]
        BY <2>2 DEF OpenScan
      <3>2. data'[p] = d
        BY <3>1 DEF IInv, Typed
      <3> HIDE DEF m, l
      <3>3. Datum(d) /\ d.idx = data[p].idx
        BY <1>4 DEF Datum
      <3> QED BY <1>4, <3>2, <3>3
    <2> QED BY <2>1, <2>2
  <1>6. UNCHANGED <<hdr, idx, info, op, holder, islocked, msg>>
    BY DEF Open, OpenScan, files
  <1>7. islocked \in [Proc -> BOOLEAN] /\ msg \in [Proc -> Headers]
        /\ (islocked[p] <=> holder = p)
    BY <1>2 DEF IInv, Typed, MutualExclusion
  <1> QED BY <1>1, <1>2, <1>3, <1>5, <1>6, <1>7, QuietStep

\* Close, and the end of the program when a number is not in the index.
LEMMA ClosedInv ==
    ASSUME BaseAssumption, IInv, NEW p \in Proc, Close(p) \/ (pc[p] = "idle" /\ IndexErrorExit(p))
    PROVE  IInv'
  <1>1. /\ pc[p] = "idle" /\ pc'[p] = "closed"
        /\ DOMAIN pc' = Proc /\ \A q \in Proc \ {p} : pc'[q] = pc[q]
    BY DEF Close, IndexErrorExit, IInv, Typed
  <1>2. ~Saving(p) /\ ~Saving(p)'
    BY <1>1 DEF Saving
  <1>3. /\ data' = [data EXCEPT ![p] = NoData] /\ msg' = [msg EXCEPT ![p] = NoHeader]
        /\ islocked' = [islocked EXCEPT ![p] = FALSE]
        /\ UNCHANGED <<hdr, idx, info, op>>
    BY DEF Close, IndexErrorExit, files
  <1>4. /\ \A q \in Proc \ {p} : holder = q <=> holder' = q
        /\ holder' # p
    <2>1. holder = p <=> islocked[p]
      BY <1>2 DEF IInv, MutualExclusion
    <2>2. holder' = IF islocked[p] THEN NoProc ELSE holder
      BY <2>1 DEF Close, IndexErrorExit
    <2> QED BY <2>1, <2>2 DEF BaseAssumption
  <1>5. Typed /\ Len(hdr) \in Nat
    BY DEF IInv, Typed
  <1>6. /\ DOMAIN data' = Proc /\ data'[p] = NoData
        /\ \A q \in Proc \ {p} : data'[q] = data[q] /\ islocked'[q] = islocked[q]
        /\ islocked' \in [Proc -> BOOLEAN] /\ ~islocked'[p]
        /\ msg' \in [Proc -> Headers]
    BY <1>3, <1>5, Defaults DEF Typed
  <1>7. Datum(data'[p]) /\ Len(data'[p].idx) <= Len(hdr)
    BY <1>5, <1>6, Defaults
  <1> QED BY <1>1, <1>2, <1>3, <1>4, <1>6, <1>7, QuietStep

\* What changes only what a program knows that has the base open.
LEMMA SuspendInv == ASSUME IInv, NEW p \in Proc, Suspend(p) PROVE IInv'
  <1>1. pc[p] = "idle" /\ UNCHANGED <<hdr, idx, info, op, holder, islocked, pc, msg>>
    BY DEF Suspend
  <1>2. ~Saving(p) /\ ~Saving(p)'
    BY <1>1 DEF Saving
  <1>3. Typed /\ MutualExclusion /\ Len(data[p].idx) <= Len(hdr)
    BY DEF IInv, LocalInv
  <1>4. data' = [data EXCEPT ![p] = [data[p] EXCEPT !.lastrec = lastrecs'[p]]]
    BY DEF Suspend
  <1>5. Datum(data'[p]) /\ Len(data'[p].idx) <= Len(hdr)
    <2> DEFINE v == lastrecs'[p]
    <2>1. Datum([data[p] EXCEPT !.lastrec = v])
          /\ [data[p] EXCEPT !.lastrec = v].idx = data[p].idx
      BY <1>3 DEF Typed, Datum
    <2> QED BY <2>1, <1>3, <1>4 DEF Typed
  <1>6. DOMAIN data' = Proc /\ \A q \in Proc \ {p} : data'[q] = data[q]
    BY <1>3, <1>4 DEF Typed
  <1>7. /\ DOMAIN pc' = Proc /\ islocked' \in [Proc -> BOOLEAN] /\ msg' \in [Proc -> Headers]
        /\ (islocked'[p] <=> holder' = p)
    BY <1>1, <1>2, <1>3 DEF Typed, MutualExclusion
  <1> QED BY <1>1, <1>2, <1>5, <1>6, <1>7, QuietStep

LEMMA LoadInv == ASSUME BaseAssumption, IInv, NEW p \in Proc, Load(p) PROVE IInv'
  <1>1. pc[p] = "idle" /\ Typed /\ MutualExclusion /\ Len(data[p].idx) <= Len(hdr)
    BY DEF Load, IInv, LocalInv
  <1>2. PICK r \in DOMAIN data[p].Msgn :
          LET d == [data[p] EXCEPT !.lastread = r]
              i == HdrIdx(d, d.Msgn[r])
          IN  IF i = 0 THEN IndexErrorExit(p)
              ELSE /\ data' = [data EXCEPT ![p] = d]
                   /\ msg' = [msg EXCEPT ![p] = hdr[i]]
                   /\ UNCHANGED <<files, holder, islocked, pc, op, PMrk>>
    BY DEF Load
  <1> DEFINE d == [data[p] EXCEPT !.lastread = r]
             i == HdrIdx(d, d.Msgn[r])
  <1>3. CASE i = 0
    BY <1>1, <1>2, <1>3, ClosedInv
  <1>4. CASE i # 0
    <2>1. /\ data' = [data EXCEPT ![p] = d] /\ msg' = [msg EXCEPT ![p] = hdr[i]]
          /\ UNCHANGED <<hdr, idx, info, holder, islocked, pc, op>>
      BY <1>2, <1>4 DEF files
    <2>2. Datum(d) /\ d.idx = data[p].idx
      BY <1>1 DEF Typed, Datum
    <2>3. hdr[i] \in Headers
      <3>1. i \in DOMAIN d.idx
        BY <1>4, Finds
      <3>2. d.idx \in Seq(Places) /\ hdr \in Seq(Headers)
        BY <1>1, <2>2 DEF Typed, Datum
      <3> HIDE DEF i, d
      <3> QED BY <1>1, <2>2, <3>1, <3>2
    <2> HIDE DEF d, i
    <2>4. /\ DOMAIN data' = Proc /\ data'[p] = d
          /\ \A q \in Proc \ {p} : data'[q] = data[q]
          /\ msg' \in [Proc -> Headers]
      BY <1>1, <2>1, <2>3 DEF Typed
    <2>5. ~Saving(p) /\ ~Saving(p)'
      BY <1>1, <2>1 DEF Saving
    <2>6. /\ DOMAIN pc' = Proc /\ islocked' \in [Proc -> BOOLEAN]
          /\ (islocked'[p] <=> holder' = p)
      BY <1>1, <2>1, <2>5 DEF Typed, MutualExclusion
    <2> QED BY <1>1, <2>1, <2>2, <2>4, <2>5, <2>6, QuietStep
  <1> QED BY <1>3, <1>4

\* What takes or drops the lock, without a write.
LEMMA LockInv ==
    ASSUME BaseAssumption, IInv, NEW p \in Proc, Lock(p) \/ Unlock(p) \/ TimesRead(p)
    PROVE  IInv'
  <1>1. pc[p] = "idle" /\ Typed /\ MutualExclusion /\ Len(data[p].idx) <= Len(hdr)
    BY DEF Lock, Unlock, TimesRead, IInv, LocalInv
  <1>2. ~Saving(p)
    BY <1>1 DEF Saving
  <1>3. CASE TimesRead(p) /\ HdrIdx(Refresh(p), msg[p].msgno) = 0
    BY <1>1, <1>3, ClosedInv DEF TimesRead
  <1>4. CASE ~(TimesRead(p) /\ HdrIdx(Refresh(p), msg[p].msgno) = 0)
    <2>1. UNCHANGED <<hdr, idx, info, op, pc, msg>>
      BY <1>4 DEF Lock, Unlock, TimesRead, files
    <2>2. data' = data \/ data' = [data EXCEPT ![p] = Refresh(p)]
      BY <1>4 DEF Lock, Unlock, TimesRead
    <2>3. \/ holder' = p /\ islocked' = [islocked EXCEPT ![p] = TRUE]
          \/ holder' = NoProc /\ islocked' = [islocked EXCEPT ![p] = FALSE]
      BY <1>4 DEF Lock, Unlock, TimesRead
    <2>4. \A q \in Proc \ {p} : holder # q /\ holder' # q
      <3>1. MayLock(p) \/ holder = p
        BY <1>1 DEF Lock, Unlock, TimesRead, MutualExclusion
      <3> QED BY <1>1, <1>2, <2>3, <3>1 DEF MayLock, BaseAssumption
    <2>5. /\ DOMAIN data' = Proc /\ \A q \in Proc \ {p} : data'[q] = data[q]
          /\ Datum(data'[p]) /\ Len(data'[p].idx) <= Len(hdr)
      BY <1>1, <2>2, Refreshed DEF Typed
    <2>6. /\ islocked' \in [Proc -> BOOLEAN] /\ (islocked'[p] <=> holder' = p)
          /\ \A q \in Proc \ {p} : islocked'[q] = islocked[q]
      BY <1>1, <2>3 DEF Typed, BaseAssumption
    <2>7. ~Saving(p)' /\ DOMAIN pc' = Proc /\ msg' \in [Proc -> Headers]
      BY <1>1, <1>2, <2>1 DEF Saving, Typed
    <2> QED BY <1>2, <2>1, <2>4, <2>5, <2>6, <2>7, QuietStep
  <1> QED BY <1>3, <1>4

-----------------------------------------------------------------------------
\* A step of a program that alone may write keeps the invariant, if it keeps
\* what the program knows and, at its end, leaves headers and index matched.
LEMMA WriteStep ==
    ASSUME IInv, NEW p \in Proc, Typed', LocalInv(p)', Len(hdr) <= Len(hdr'),
           \A q \in Proc \ {p} : /\ ~Saving(q) /\ ~islocked[q]
                                 /\ pc'[q] = pc[q] /\ data'[q] = data[q]
                                 /\ islocked'[q] = islocked[q] /\ holder' # q,
           Saving(p)' \/ islocked'[p] <=> holder' = p,
           Saving(p)' \/ Matched(hdr, idx, info.high)'
    PROVE  IInv'
  <1>1. MutualExclusion'
    BY DEF MutualExclusion, Saving
  <1>2. IndexSound'
    BY DEF IndexSound
  <1>3. ASSUME NEW q \in Proc \ {p} PROVE LocalInv(q)'
    <2>1. Len(data[q].idx) <= Len(hdr)
      BY DEF IInv, LocalInv
    <2>2. Len(data[q].idx) \in Nat /\ Len(hdr) \in Nat /\ Len(hdr') \in Nat
      BY DEF IInv, Typed, Datum
    <2>3. ~Saving(q)'
      BY DEF Saving
    <2> QED BY <2>1, <2>2, <2>3 DEF LocalInv, Saving
  <1> QED BY <1>1, <1>2, <1>3 DEF IInv

\* save_message begins: it has the lock, and fresh copies.
LEMMA SaveInv ==
    ASSUME BaseAssumption, IInv, NEW p \in Proc, NEW mode \in {"new", "hdr", "del"},
           Save(p, mode)
    PROVE  IInv'
  <1>1. /\ pc[p] = "idle" /\ Typed /\ MutualExclusion
        /\ MayLock(p) /\ (mode # "new" => msg[p].msgno # 0)
    BY DEF Save, IInv
  <1>2. ~Saving(p)
    BY <1>1 DEF Saving
  <1>3. \A q \in Proc : ~Saving(q) /\ (q # p => ~islocked[q])
    BY <1>1, <1>2, Free
  <1>4. Matched(hdr, idx, info.high)
    BY <1>3 DEF IInv, IndexSound
  <1> DEFINE d == Refresh(p)
  <1>5. PICK uns \in BOOLEAN :
            LET place == Place(p, d, mode, uns)
            IN  IF place.at = 0 THEN IndexErrorExit(p)
                ELSE /\ holder' = p
                     /\ data' = [data EXCEPT ![p] = d]
                     /\ op' = [op EXCEPT ![p] = place]
                     /\ pc' = [pc EXCEPT ![p] = "header"]
                     /\ UNCHANGED <<files, islocked, msg, seen, PMrk>>
    <2>1. msg[p].uns \in BOOLEAN
      BY <1>1 DEF Typed, Headers
    <2> QED BY <2>1 DEF Save
  <1> DEFINE place == Place(p, d, mode, uns)
  <1>6. CASE place.at = 0
    BY <1>1, <1>5, <1>6, ClosedInv
  <1>7. CASE place.at # 0
    <2>1. /\ holder' = p /\ data' = [data EXCEPT ![p] = d]
          /\ op' = [op EXCEPT ![p] = place]
          /\ pc' = [pc EXCEPT ![p] = "header"]
          /\ UNCHANGED <<hdr, idx, info, islocked, msg>>
      BY <1>5, <1>7 DEF files
    <2>2. Datum(d) /\ d.idx = idx /\ d.info = info /\ d.board \in Boards \cup {0}
      BY <1>1, Refreshed DEF Datum
    <2> HIDE DEF d
    <2>3. /\ place.mode = mode
          /\ \/ mode = "new" /\ place.at = Len(idx) + 1 /\ place.hdr.msgno = info.high + 1
             \/ mode # "new" /\ place.at \in DOMAIN idx
                /\ idx[place.at].msgno = place.hdr.msgno /\ place.hdr.msgno # 0
      <3>1. CASE mode = "new"
        BY <1>4, <2>2, <3>1 DEF Place, Header, Matched
      <3>2. CASE mode # "new"
        <4>1. /\ place.mode = mode /\ place.at = HdrIdx(d, msg[p].msgno)
              /\ place.hdr.msgno = msg[p].msgno
          BY <3>2 DEF Place, Header
        <4>2. place.at \in DOMAIN d.idx /\ d.idx[place.at].msgno = msg[p].msgno
          BY <1>7, <4>1, Finds
        <4> QED BY <1>1, <2>2, <3>2, <4>1, <4>2
      <3> QED BY <3>1, <3>2
    <2>4. place \in Ops
      <3>1. idx \in Seq(Places) /\ info.high \in Nat /\ hdr \in Seq(Headers)
        BY <1>1 DEF Typed
      <3>2. place.at \in Nat
        BY <2>3, <3>1
      <3>3. /\ info.high + 1 \in Nat /\ Len(hdr) + 1 \in Nat
            /\ msg[p].msgno \in Nat /\ msg[p].id \in Nat
        BY <1>1, <3>1 DEF Typed, Headers
      <3>4. Header(info.high + 1, d.board, Len(hdr) + 1, uns) \in Headers
            /\ Header(msg[p].msgno, d.board, msg[p].id, uns) \in Headers
        BY <2>2, <3>3, HeaderType
      <3>5. /\ place.hdr \in Headers /\ place = [mode |-> mode, at |-> place.at, hdr |-> place.hdr]
        BY <2>2, <3>4 DEF Place
      <3> HIDE DEF place
      <3> QED BY <3>2, <3>5 DEF Ops
    <2> HIDE DEF place
    <2>5. /\ data'[p] = d /\ op'[p] = place /\ pc'[p] = "header"
          /\ DOMAIN data' = Proc /\ DOMAIN pc' = Proc
          /\ op' \in [Proc -> Ops]
          /\ \A q \in Proc \ {p} : data'[q] = data[q] /\ pc'[q] = pc[q]
      BY <1>1, <2>1, <2>4 DEF Typed
    <2>6. Typed'
      BY <1>1, <2>1, <2>2, <2>5 DEF Typed
    <2>7. LocalInv(p)'
      <3>1. Len(idx) <= Len(hdr)
        BY <1>1 DEF Typed
      <3> QED BY <1>4, <2>1, <2>2, <2>3, <2>5, <3>1 DEF LocalInv, Fresh, Slot, DELETEDMSGNO
    <2>8. Saving(p)' /\ holder' = p /\ Len(hdr) <= Len(hdr')
      <3>1. Len(hdr) \in Nat
        BY <1>1 DEF Typed
      <3> QED BY <2>1, <2>5, <3>1 DEF Saving
    <2> QED BY <1>3, <2>1, <2>5, <2>6, <2>7, <2>8, WriteStep
  <1> QED BY <1>6, <1>7

\* The header is written at its place, which the index does not know yet.
LEMMA WriteHdrInv == ASSUME IInv, NEW p \in Proc, WriteHdr(p) PROVE IInv'
  <1> DEFINE at == op[p].at
             h == op[p].hdr
  <1>1. /\ pc[p] = "header" /\ pc' = [pc EXCEPT ![p] = "index"]
        /\ hdr' = Put(hdr, at, h)
        /\ UNCHANGED <<idx, info, holder, islocked, data, msg, op>>
    BY DEF WriteHdr
  <1>2. Saving(p) /\ Typed /\ MutualExclusion /\ LocalInv(p)
    BY <1>1 DEF Saving, IInv
  <1>3. Fresh(p) /\ Slot(p) /\ Matched(hdr, idx, info.high)
    BY <1>1, <1>2 DEF LocalInv
  <1>4. hdr \in Seq(Headers) /\ idx \in Seq(Places) /\ h \in Headers /\ Len(hdr) = Len(idx)
    BY <1>2, <1>3 DEF Typed, Ops, Matched
  <1>5. at \in 1..(Len(hdr) + 1) /\ (at = Len(hdr) + 1 <=> op[p].mode = "new")
    BY <1>3, <1>4 DEF Slot
  <1>6. /\ hdr' \in Seq(Headers) /\ DOMAIN hdr' = 1..Len(hdr')
        /\ Len(hdr') = IF at = Len(hdr) + 1 THEN at ELSE Len(hdr)
        /\ \A i \in 1..Len(hdr') : hdr'[i] = IF i = at THEN h ELSE hdr[i]
    <2>1. hdr' = Put(hdr, at, h)
      BY <1>1
    <2> HIDE DEF at, h
    <2> QED BY <1>4, <1>5, <2>1, PutFacts
  <1>7. DOMAIN pc' = Proc /\ pc'[p] = "index" /\ \A q \in Proc \ {p} : pc'[q] = pc[q]
    BY <1>1, <1>2 DEF Typed
  <1> HIDE DEF at, h
  <1>8. Len(hdr) <= Len(hdr') /\ Len(idx) <= Len(hdr')
    BY <1>4, <1>5, <1>6
  <1>9. Typed'
    BY <1>1, <1>2, <1>6, <1>7, <1>8 DEF Typed
  <1>10. LocalInv(p)'
    <2>1. hdr'[at] = h
      BY <1>4, <1>5, <1>6
    <2>2. Paired(hdr', idx, {at})
      BY <1>3, <1>4, <1>6, <1>8 DEF Matched, Paired
    <2>3. Len(hdr') = IF op[p].mode = "new" THEN Len(idx) + 1 ELSE Len(idx)
      BY <1>4, <1>5, <1>6
    <2>4. data[p].idx = idx
      BY <1>3 DEF Fresh
    <2> QED BY <1>1, <1>3, <1>7, <1>8, <2>1, <2>2, <2>3, <2>4
         DEF LocalInv, Fresh, Slot, Matched, at, h
  <1>11. holder = p /\ \A q \in Proc \ {p} : ~Saving(q) /\ ~islocked[q]
    BY <1>2, Alone
  <1>12. Saving(p)'
    BY <1>7 DEF Saving
  <1> QED BY <1>1, <1>7, <1>8, <1>9, <1>10, <1>11, <1>12, WriteStep

\* Then the index, and the copy of it.
LEMMA WriteIdxInv == ASSUME IInv, NEW p \in Proc, WriteIdx(p) PROVE IInv'
  <1> DEFINE at == op[p].at
             h == op[p].hdr
             e == Entry(IF op[p].mode = "del" THEN DELETEDMSGNO ELSE h.msgno, h.board)
             high == IF op[p].mode = "new" THEN h.msgno ELSE info.high
             new == Put(idx, at, e)
  <1>1. /\ pc[p] = "index" /\ pc' = [pc EXCEPT ![p] = "info"]
        /\ idx' = new
        /\ UNCHANGED <<hdr, info, holder, islocked, msg, op>>
    BY DEF WriteIdx
  <1>2. Saving(p) /\ Typed /\ MutualExclusion /\ LocalInv(p)
    BY <1>1 DEF Saving, IInv
  <1>3. /\ Fresh(p) /\ Slot(p)
        /\ Len(hdr) = IF op[p].mode = "new" THEN Len(idx) + 1 ELSE Len(idx)
        /\ hdr[at] = h
        /\ Paired(hdr, idx, {at}) /\ Ascending(idx, info.high)
    BY <1>1, <1>2 DEF LocalInv
  <1>4. /\ data' = [data EXCEPT ![p].idx = Put(@, at, e)]
        /\ data[p].idx = idx
    BY <1>3 DEF WriteIdx, Fresh
  <1>5. /\ hdr \in Seq(Headers) /\ idx \in Seq(Places) /\ info.high \in Nat
        /\ h.msgno \in Nat /\ h.board \in Boards \cup {0}
    BY <1>2 DEF Typed, Ops, Headers
  <1>6. e \in Places /\ e.board = h.board
        /\ e.msgno = IF op[p].mode = "del" THEN DELETEDMSGNO ELSE h.msgno
    BY <1>5 DEF Entry, Places, DELETEDMSGNO
  <1>7. at \in 1..(Len(idx) + 1) /\ (at = Len(idx) + 1 <=> op[p].mode = "new")
    BY <1>3, <1>5 DEF Slot
  <1> HIDE DEF e
  <1>8. /\ new \in Seq(Places) /\ DOMAIN new = 1..Len(new)
        /\ Len(new) = IF at = Len(idx) + 1 THEN at ELSE Len(idx)
        /\ \A i \in 1..Len(new) : new[i] = IF i = at THEN e ELSE idx[i]
    <2> HIDE DEF at, h
    <2>1. idx \in Seq(Places) /\ at \in 1..(Len(idx) + 1) /\ e \in Places
      BY <1>5, <1>6, <1>7
    <2> QED BY <2>1, PutFacts
  <1> HIDE DEF new, high, at, h
  <1>9. Len(new) = Len(hdr)
    BY <1>3, <1>5, <1>7, <1>8
  <1>10. Matched(hdr, new, high)
    <2>1. Paired(hdr, new, {})
      <3> SUFFICES ASSUME NEW i \in 1..Len(new)
                   PROVE  new[i].board = hdr[i].board /\ new[i].msgno \in {hdr[i].msgno, DELETEDMSGNO}
        BY <1>8 DEF Paired
      <3>1. CASE i = at
        BY <3>1, <1>3, <1>6, <1>8
      <3>2. CASE i # at
        <4>1. i \in DOMAIN idx \ {at} /\ new[i] = idx[i]
          BY <3>2, <1>5, <1>7, <1>8
        <4> QED BY <4>1, <1>3 DEF Paired
      <3> QED BY <3>1, <3>2
    <2>2. info.high <= high /\ h.msgno <= high
      BY <1>3, <1>5 DEF Slot, high, Ascending, at, h
    <2>3. \A i \in DOMAIN idx : idx[i].msgno \in Nat /\ idx[i].msgno <= info.high
      <3>1. \A i \in DOMAIN idx : idx[i] \in Places
        BY <1>5
      <3> QED BY <1>3, <3>1 DEF Ascending, Places
    <2>4. high \in Nat
      BY <1>5 DEF high
    <2>5. ASSUME NEW i \in DOMAIN new
          PROVE  new[i].msgno <= high
      BY <1>5, <1>6, <1>7, <1>8, <2>2, <2>3, <2>4, <2>5 DEF DELETEDMSGNO
    <2>6. ASSUME NEW i \in DOMAIN new, NEW j \in 1..(i - 1), new[i].msgno # DELETEDMSGNO
          PROVE  new[j].msgno < new[i].msgno
      <3>1. i \in 1..Len(new) /\ j \in 1..Len(new) /\ j < i /\ j \in DOMAIN idx
        BY <1>5, <1>7, <1>8, <2>6
      <3>2. CASE i = at /\ op[p].mode = "new"
        <4>1. new[i].msgno = info.high + 1
          BY <1>3, <1>6, <1>8, <3>1, <3>2 DEF Slot, at, h
        <4> QED BY <1>5, <1>8, <2>3, <3>1, <3>2, <4>1, SMTT(60)
      <3>3. CASE i = at /\ op[p].mode # "new"
        <4>1. new[i].msgno = idx[i].msgno /\ i \in DOMAIN idx
          BY <1>3, <1>6, <1>8, <2>6, <3>1, <3>3 DEF Slot, at, h
        <4>2. new[j] = idx[j]
          BY <1>8, <3>1, <3>3
        <4> QED BY <1>3, <2>6, <4>1, <4>2 DEF Ascending
      <3>4. CASE i # at
        <4>1. i \in DOMAIN idx /\ new[i] = idx[i]
          BY <1>5, <1>7, <1>8, <3>1, <3>4
        <4>2. idx[j].msgno < idx[i].msgno
          BY <1>3, <2>6, <4>1 DEF Ascending
        <4>3. CASE j # at
          BY <1>8, <3>1, <4>1, <4>2, <4>3
        <4>4. CASE j = at
          <5>1. new[j].msgno = idx[j].msgno \/ new[j].msgno = 0
            BY <1>3, <1>5, <1>6, <1>7, <1>8, <3>1, <4>4 DEF Slot, at, h, DELETEDMSGNO
          <5>2. idx[i].msgno \in Nat /\ idx[i].msgno # 0
            BY <2>3, <2>6, <4>1 DEF DELETEDMSGNO
          <5> QED BY <4>1, <4>2, <5>1, <5>2
        <4> QED BY <4>3, <4>4
      <3> QED BY <3>2, <3>3, <3>4
    <2>7. Ascending(new, high)
      BY <2>5, <2>6 DEF Ascending
    <2> QED BY <1>9, <2>1, <2>7 DEF Matched
  <1>11. /\ DOMAIN pc' = Proc /\ pc'[p] = "info" /\ \A q \in Proc \ {p} : pc'[q] = pc[q]
         /\ DOMAIN data' = Proc /\ \A q \in Proc \ {p} : data'[q] = data[q]
    BY <1>1, <1>2, <1>4 DEF Typed
  <1>12. Datum(data'[p]) /\ data'[p].idx = new /\ data'[p].info = data[p].info
    <2>1. data'[p] = [data[p] EXCEPT !.idx = new]
      BY <1>2, <1>4 DEF Typed, new
    <2> QED BY <1>2, <1>8, <2>1 DEF Typed, Datum
  <1>13. Len(new) \in Nat /\ Len(hdr) \in Nat
    BY <1>5, <1>8
  <1>14. Typed'
    BY <1>1, <1>2, <1>8, <1>9, <1>11, <1>12, <1>13, SMTT(60) DEF Typed
  <1>15. LocalInv(p)'
    <2>1. op[p].mode # "none"
      BY <1>3 DEF Slot
    <2> QED BY <1>1, <1>3, <1>9, <1>10, <1>11, <1>12, <1>13, <2>1
         DEF LocalInv, Fresh, high, h
  <1>16. holder = p /\ \A q \in Proc \ {p} : ~Saving(q) /\ ~islocked[q]
    BY <1>2, Alone
  <1>17. Saving(p)'
    BY <1>11 DEF Saving
  <1> QED BY <1>1, <1>11, <1>13, <1>14, <1>15, <1>16, <1>17, WriteStep

\* When the highest number is deleted, the last one that is left bounds the rest.
LEMMA HighKept ==
    ASSUME NEW x \in Seq(Places), NEW high \in Nat, NEW k \in LastLive(x), Ascending(x, high)
    PROVE  x[k].msgno \in Nat /\ Ascending(x, x[k].msgno)
  <1>1. \A i \in DOMAIN x : x[i] \in Places
    OBVIOUS
  <1>2. k \in DOMAIN x /\ x[k].msgno # DELETEDMSGNO
        /\ \A j \in (k + 1)..Len(x) : x[j].msgno = DELETEDMSGNO
    BY DEF LastLive
  <1>3. \A i \in DOMAIN x : x[i].msgno \in Nat
    BY <1>1 DEF Places
  <1>4. ASSUME NEW i \in DOMAIN x PROVE x[i].msgno <= x[k].msgno
    <2>1. i \in 1..Len(x) /\ k \in 1..Len(x)
      BY <1>2
    <2>2. CASE i > k
      BY <1>2, <1>3, <2>1, <2>2 DEF DELETEDMSGNO
    <2>3. CASE i < k
      <3>1. x[i].msgno < x[k].msgno
        BY <1>2, <2>1, <2>3 DEF Ascending
      <3> QED BY <1>2, <1>3, <3>1
    <2>4. CASE i = k
      BY <1>2, <1>3, <2>4
    <2> QED BY <2>1, <2>2, <2>3, <2>4
  <1> QED BY <1>2, <1>3, <1>4 DEF Ascending

\* Then msginfo, with the new highest number.
LEMMA WriteInfoInv == ASSUME IInv, NEW p \in Proc, WriteInfo(p) PROVE IInv'
  <1>1. /\ pc[p] = "info" /\ pc' = [pc EXCEPT ![p] = "lists"]
        /\ info'.high = NewHigh(p)
        /\ data' = [data EXCEPT ![p].info = info']
        /\ UNCHANGED <<hdr, idx, holder, islocked, msg, op>>
    BY DEF WriteInfo
  <1>2. Saving(p) /\ Typed /\ MutualExclusion /\ LocalInv(p)
    BY <1>1 DEF Saving, IInv
  <1> DEFINE n == op[p].hdr.msgno
             high == IF op[p].mode = "new" THEN n ELSE info.high
  <1>3. /\ data[p].idx = idx /\ data[p].info.high = info.high
        /\ Matched(hdr, idx, high)
    BY <1>1, <1>2 DEF LocalInv, Fresh
  <1>4. hdr \in Seq(Headers) /\ idx \in Seq(Places) /\ info.high \in Nat /\ n \in Nat
    BY <1>2 DEF Typed, Ops, Headers
  <1>5. NewHigh(p) \in Nat /\ Ascending(idx, NewHigh(p))
    <2> DEFINE live == LastLive(idx)
    <2>1. CASE op[p].mode = "del" /\ n = info.high /\ live # {}
      <3>1. PICK k \in live : NewHigh(p) = idx[k].msgno
        BY <1>3, <2>1 DEF NewHigh
      <3> QED BY <1>3, <1>4, <2>1, <3>1, HighKept DEF Matched
    <2>2. CASE ~(op[p].mode = "del" /\ n = info.high /\ live # {})
      <3>1. NewHigh(p) = high
        BY <1>3, <2>2 DEF NewHigh
      <3> QED BY <1>3, <1>4, <3>1 DEF Matched
    <2> QED BY <2>1, <2>2
  <1>6. Matched(hdr, idx, info'.high)
    BY <1>1, <1>3, <1>5 DEF Matched
  <1>7. /\ DOMAIN pc' = Proc /\ pc'[p] = "lists" /\ \A q \in Proc \ {p} : pc'[q] = pc[q]
        /\ DOMAIN data' = Proc /\ \A q \in Proc \ {p} : data'[q] = data[q]
    BY <1>1, <1>2 DEF Typed
  <1>8. Datum(data'[p]) /\ data'[p].idx = data[p].idx
    <2> DEFINE v == info'
    <2>1. data'[p] = [data[p] EXCEPT !.info = v]
      BY <1>1, <1>2 DEF Typed
    <2>2. v.high \in Nat
      BY <1>1, <1>5
    <2> HIDE DEF v
    <2> QED BY <1>2, <2>1, <2>2 DEF Typed, Datum
  <1>9. Typed'
    BY <1>1, <1>2, <1>5, <1>7, <1>8 DEF Typed
  <1>10. LocalInv(p)' /\ Len(hdr) <= Len(hdr')
    <2>1. Len(data[p].idx) <= Len(hdr) /\ Len(hdr) \in Nat
      BY <1>2, <1>4 DEF LocalInv
    <2> QED BY <1>1, <1>6, <1>7, <1>8, <2>1 DEF LocalInv
  <1>11. holder = p /\ \A q \in Proc \ {p} : ~Saving(q) /\ ~islocked[q]
    BY <1>2, Alone
  <1>12. Saving(p)'
    BY <1>7 DEF Saving
  <1> QED BY <1>1, <1>7, <1>9, <1>10, <1>11, <1>12, WriteStep

\* Last the lists, and the lock.
LEMMA FinishInv == ASSUME BaseAssumption, IInv, NEW p \in Proc, Finish(p) PROVE IInv'
  <1>1. /\ pc[p] = "lists" /\ pc' = [pc EXCEPT ![p] = "idle"]
        /\ holder' = IF islocked[p] THEN p ELSE NoProc
        /\ op' = [op EXCEPT ![p] = NoOp]
        /\ msg' = [msg EXCEPT ![p] = IF op[p].mode = "del" THEN NoHeader ELSE @]
        /\ UNCHANGED <<hdr, idx, info, islocked>>
    BY DEF Finish
  <1>2. Saving(p) /\ Typed /\ MutualExclusion /\ LocalInv(p)
    BY <1>1 DEF Saving, IInv
  <1>3. Matched(hdr, idx, info.high)
    BY <1>1, <1>2 DEF LocalInv
  <1>4. PICK l \in Neighbours(data[p], op[p].hdr.msgno) :
            data' = [data EXCEPT ![p] =
                CASE op[p].mode = "new" -> [data[p] EXCEPT !.Msgn = Append(@, op[p].hdr.msgno)]
                  [] op[p].mode = "del" -> Without(data[p], op[p].hdr.msgno, l)
                  [] OTHER              -> data[p]]
    BY DEF Finish
  <1>5. Datum(data'[p]) /\ data'[p].idx = data[p].idx
    <2>1. \/ data'[p] = [data[p] EXCEPT !.Msgn = Append(@, op[p].hdr.msgno)]
          \/ data'[p] = Without(data[p], op[p].hdr.msgno, l)
          \/ data'[p] = data[p]
      BY <1>2, <1>4 DEF Typed
    <2>2. Datum(data[p])
      BY <1>2 DEF Typed
    <2>3. CASE data'[p] = [data[p] EXCEPT !.Msgn = Append(@, op[p].hdr.msgno)]
      <3> DEFINE m == Append(data[p].Msgn, op[p].hdr.msgno)
      <3>1. data'[p] = [data[p] EXCEPT !.Msgn = m]
        BY <2>3
      <3> HIDE DEF m
      <3> QED BY <2>2, <3>1 DEF Datum
    <2>4. CASE data'[p] = Without(data[p], op[p].hdr.msgno, l)
      <3>1. PICK m, r : Without(data[p], op[p].hdr.msgno, l) =
                            [data[p] EXCEPT !.Msgn = m, !.lastread = r]
        BY DEF Without
      <3> QED BY <2>2, <2>4, <3>1 DEF Datum
    <2> QED BY <2>1, <2>2, <2>3, <2>4
  <1>6. /\ DOMAIN pc' = Proc /\ pc'[p] = "idle" /\ \A q \in Proc \ {p} : pc'[q] = pc[q]
        /\ DOMAIN data' = Proc /\ \A q \in Proc \ {p} : data'[q] = data[q]
        /\ op' \in [Proc -> Ops] /\ msg' \in [Proc -> Headers]
    BY <1>1, <1>2, <1>4, Defaults DEF Typed
  <1>7. Typed'
    BY <1>1, <1>2, <1>5, <1>6 DEF Typed
  <1>8. LocalInv(p)' /\ Len(hdr) <= Len(hdr')
    <2>1. Len(data[p].idx) <= Len(hdr) /\ Len(hdr) \in Nat
      BY <1>2 DEF LocalInv, Typed
    <2> QED BY <1>1, <1>5, <1>6, <2>1 DEF LocalInv
  <1>9. \A q \in Proc \ {p} : ~Saving(q) /\ ~islocked[q]
    BY <1>2, Alone
  <1>10. /\ ~Saving(p)' /\ (islocked'[p] <=> holder' = p)
         /\ \A q \in Proc \ {p} : holder' # q
    BY <1>1, <1>6 DEF Saving, BaseAssumption
  <1> QED BY <1>1, <1>3, <1>6, <1>7, <1>8, <1>9, <1>10, WriteStep

\* A scan for personal mail, like a step of nothing, changes no part of it.
LEMMA StillInv ==
    ASSUME IInv, UNCHANGED <<hdr, idx, info, holder, islocked, pc, data, msg, op>>
    PROVE  IInv'
  <1>1. Typed'
    BY DEF IInv, Typed, Datum
  <1>2. MutualExclusion' /\ IndexSound'
    BY DEF IInv, MutualExclusion, IndexSound, Saving, Matched, Paired, Ascending
  <1>3. \A p \in Proc : LocalInv(p)'
    BY DEF IInv, LocalInv, Fresh, Slot, Matched, Paired, Ascending
  <1> QED BY <1>1, <1>2, <1>3 DEF IInv

LEMMA InvStep == ASSUME BaseAssumption, IInv, [Next]_hvars PROVE IInv'
  <1>1. CASE Next
    <2>1. PICK p \in Proc : Step(p)
      BY <1>1 DEF Next
    <2>2. CASE ScanPm(p)
      BY <2>2, StillInv DEF ScanPm, files
    <2> QED BY <2>1, <2>2, OpenInv, ClosedInv, SuspendInv, LoadInv, LockInv, SaveInv,
               WriteHdrInv, WriteIdxInv, WriteInfoInv, FinishInv DEF Step
  <1>2. CASE UNCHANGED hvars
    BY <1>2, StillInv DEF hvars, files
  <1> QED BY <1>1, <1>2

-----------------------------------------------------------------------------
\* What a program knows of the base while it writes headers, index and msginfo
\* one by one stays true, whatever the others do, for any programs and boards.
THEOREM HudsonInvariance == ASSUME BaseAssumption PROVE Spec => []IInv
  <1>1. Init => IInv
    BY InvInit
  <1>2. IInv /\ [Next]_hvars => IInv'
    BY InvStep
  <1> QED BY <1>1, <1>2, PTL DEF Spec

\* A program has the byte behind msginfo locked exactly while it saves or deletes,
\* or has locked the area (lock, unlock and their callers in gmohuds2.cpp).
THEOREM HudsonExclusion == ASSUME BaseAssumption PROVE Spec => []MutualExclusion
  <1>1. IInv => MutualExclusion
    BY DEF IInv
  <1> QED BY <1>1, HudsonInvariance, PTL

\* While nobody saves a message the headers and the index match: as long as each
\* other, the same boards and numbers, ascending to the highest of msginfo.
THEOREM HudsonIndexSound == ASSUME BaseAssumption PROVE Spec => []IndexSound
  <1>1. IInv => IndexSound
    BY DEF IInv
  <1> QED BY <1>1, HudsonInvariance, PTL
-----------------------------------------------------------------------------
\* The numbers of a board.
Nums(x, b) == {x[i].msgno : i \in Active(x, b)}

LEMMA ActiveFinite ==
    ASSUME NEW x \in Seq(Places), NEW b
    PROVE  /\ Active(x, b) \subseteq 1..Len(x) /\ IsFiniteSet(Active(x, b))
           /\ Cardinality(Active(x, b)) \in Nat
  <1>1. Active(x, b) \subseteq 1..Len(x) /\ Len(x) \in Nat
    BY DEF Active
  <1>2. IsFiniteSet(Active(x, b))
    <2>1. IsFiniteSet(1..Len(x))
      BY <1>1, FS_Interval
    <2> QED BY <1>1, <2>1, FS_Subset
  <1> QED BY <1>1, <1>2, FS_CardinalityType

\* As many numbers are listed as messages are active ...
LEMMA NumbersCounted ==
    ASSUME NEW x \in Seq(Places), NEW b
    PROVE  Len(Numbers(x, b)) = Cardinality(Active(x, b))
  <1> DEFINE n == Cardinality(Active(x, b))
             w == [i \in DOMAIN x |-> x[i].msgno]
             v(k) == w[Nth(Active(x, b), k)]
             V == {v(k) : k \in 1..n}
  <1>1. n \in Nat
    BY ActiveFinite
  <1>2. Numbers(x, b) = [k \in 1..n |-> v(k)]
    BY DEF Numbers, Chosen
  <1>3. \A k \in 1..n : v(k) \in V
    OBVIOUS
  <1> HIDE DEF n, w, v, V
  <1>4. [k \in 1..n |-> v(k)] \in Seq(V) /\ Len([k \in 1..n |-> v(k)]) = n
    BY <1>1, <1>3
  <1> QED BY <1>2, <1>4 DEF n

\* ... and while the index ascends they rise.
LEMMA NumbersRise ==
    ASSUME NEW x \in Seq(Places), NEW high, Ascending(x, high), NEW b
    PROVE  /\ Rises(Numbers(x, b), Nums(x, b))
           /\ \A i, j \in Active(x, b) : x[i].msgno = x[j].msgno => i = j
           /\ \A i \in DOMAIN x : x[i].msgno \in Nat
  <1> DEFINE w == [i \in DOMAIN x |-> x[i].msgno]
             S == Active(x, b)
  <1>1. S \subseteq 1..Len(x) /\ Len(x) \in Nat /\ DOMAIN x = 1..Len(x)
    BY DEF Active
  <1>2. \A i \in DOMAIN x : x[i].msgno \in Nat
    <2>1. ASSUME NEW i \in DOMAIN x PROVE x[i].msgno \in Nat
      <3>1. i \in 1..Len(x)
        BY <1>1
      <3>2. x[i] \in Places
        BY <3>1
      <3> QED BY <3>2 DEF Places
    <2> QED BY <2>1
  <1>3. \A i \in S : w[i] = x[i].msgno
    BY <1>1
  <1>4. ASSUME NEW i \in S, NEW j \in S, i < j PROVE x[i].msgno < x[j].msgno
    <2>1. i \in 1..(j - 1) /\ j \in DOMAIN x /\ x[j].msgno # DELETEDMSGNO
      BY <1>1, <1>4 DEF Active
    <2> QED BY <2>1 DEF Ascending
  <1>5. \A i \in S : w[i] \in Nat
    BY <1>1, <1>2, <1>3
  <1>6. \A i, j \in S : i < j => w[i] < w[j]
    BY <1>3, <1>4
  <1> HIDE DEF w, S
  <1>7. Rises(Chosen(w, S), {w[i] : i \in S})
    BY <1>1, <1>5, <1>6, ChosenRises
  <1>8. Rises(Numbers(x, b), Nums(x, b))
    BY <1>3, <1>7 DEF Numbers, Nums, S, w
  <1>9. ASSUME NEW i \in S, NEW j \in S, x[i].msgno = x[j].msgno PROVE i = j
    <2>1. i \in Int /\ j \in Int /\ x[i].msgno \in Nat
      BY <1>1, <1>2
    <2>2. (i < j => x[i].msgno < x[j].msgno) /\ (j < i => x[j].msgno < x[i].msgno)
      BY <1>4
    <2> QED BY <1>9, <2>1, <2>2
  <1> QED BY <1>2, <1>8, <1>9 DEF S

-----------------------------------------------------------------------------
\* Boards share numbers given again: with several, saving or deleting a message
\* another program has deleted may change the entry of a message of another board,
\* and the counts are wrong from then on.  So they are proved for one board.
OneBoard == \A b, c \in Boards : b = c

\* What a save adds to the count of its board.
Change(p) == CASE op[p].mode = "new" -> 1 [] op[p].mode = "del" -> -1 [] OTHER -> 0

Counted == \A b \in Boards : info.active[b] = Cardinality(Active(idx, b))

CountLocal(p) ==
    /\ pc[p] # "closed" => data[p].board \in Boards
    /\ Saving(p) => op[p].hdr.board \in Boards
    /\ pc[p] \in {"header", "index", "info"} => data[p].info = info
    /\ pc[p] = "info" => \A b \in Boards :
          Cardinality(Active(idx, b)) = info.active[b] + (IF b = op[p].hdr.board THEN Change(p) ELSE 0)

\* The counts of msginfo are those of the index, but for a save that has written
\* the one and not yet the other.
CountInv ==
    /\ info \in Infos /\ \A i \in DOMAIN idx : idx[i].board \in Boards
    /\ (\A p \in Proc : pc[p] # "info") => Counted
    /\ \A p \in Proc : CountLocal(p)

\* A new entry counts for its board, the one before it no more.
LEMMA PutActive ==
    ASSUME NEW x \in Seq(Places), NEW at \in 1..(Len(x) + 1), NEW e \in Places, NEW b
    PROVE  Active(Put(x, at, e), b) = IF e.board = b /\ e.msgno # DELETEDMSGNO
                                      THEN Active(x, b) \cup {at} ELSE Active(x, b) \ {at}
  <1> DEFINE new == Put(x, at, e)
  <1>1. /\ DOMAIN new = 1..Len(new)
        /\ Len(new) = IF at = Len(x) + 1 THEN at ELSE Len(x)
        /\ \A i \in 1..Len(new) : new[i] = IF i = at THEN e ELSE x[i]
    BY PutFacts
  <1>2. DOMAIN x = 1..Len(x) /\ Len(x) \in Nat
    OBVIOUS
  <1> HIDE DEF new
  <1>3. ASSUME NEW i
        PROVE  i \in Active(new, b) <=> \/ i = at /\ e.board = b /\ e.msgno # DELETEDMSGNO
                                        \/ i # at /\ i \in Active(x, b)
    <2>1. CASE i = at
      <3>1. i \in DOMAIN new /\ new[i] = e
        BY <1>1, <1>2, <2>1
      <3> QED BY <2>1, <3>1 DEF Active
    <2>2. CASE i # at
      <3>1. i \in DOMAIN new <=> i \in DOMAIN x
        BY <1>1, <1>2, <2>2
      <3>2. i \in DOMAIN x => new[i] = x[i]
        BY <1>1, <2>2, <3>1
      <3> QED BY <2>2, <3>1, <3>2 DEF Active
    <2> QED BY <2>1, <2>2
  <1> QED BY <1>3 DEF new

LEMMA CountInit == ASSUME BaseAssumption PROVE Init => CountInv
  <1> SUFFICES ASSUME Init PROVE CountInv
    OBVIOUS
  <1> DEFINE n == Len(FirstMsgs)
  <1>1. n \in Nat /\ DOMAIN FirstMsgs = 1..n /\ \A i \in 1..n : FirstMsgs[i] \in Boards
    BY DEF BaseAssumption
  <1>2. /\ idx = [i \in 1..n |-> Entry(i, FirstMsgs[i])]
        /\ info = [high |-> n, active |-> [b \in Boards |-> Cardinality({i \in 1..n : FirstMsgs[i] = b})]]
    BY <1>1 DEF Init
  <1>3. \A i \in 1..n : idx[i].board = FirstMsgs[i] /\ idx[i].msgno = i
    BY <1>2 DEF Entry
  <1>4. DOMAIN idx = 1..n
    BY <1>2
  <1> HIDE DEF n
  <1>5. ASSUME NEW b \in Boards
        PROVE  Active(idx, b) = {i \in 1..n : FirstMsgs[i] = b}
    <2>1. \A i \in 1..n : idx[i].msgno # DELETEDMSGNO
      BY <1>1, <1>3 DEF DELETEDMSGNO
    <2> QED BY <1>3, <1>4, <2>1 DEF Active
  <1>6. ASSUME NEW b \in Boards PROVE Cardinality({i \in 1..n : FirstMsgs[i] = b}) \in Int
    <2>1. IsFiniteSet(1..n) /\ {i \in 1..n : FirstMsgs[i] = b} \in SUBSET (1..n)
      BY <1>1, FS_Interval
    <2>2. IsFiniteSet({i \in 1..n : FirstMsgs[i] = b})
      BY <2>1, FS_Subset
    <2> QED BY <2>2, FS_CardinalityType
  <1>7. info \in Infos
    <2> DEFINE c(b) == Cardinality({i \in 1..n : FirstMsgs[i] = b})
    <2>1. \A b \in Boards : c(b) \in Int
      BY <1>6
    <2>2. info = [high |-> n, active |-> [b \in Boards |-> c(b)]]
      BY <1>2
    <2> HIDE DEF c
    <2> QED BY <1>1, <2>1, <2>2 DEF Infos
  <1>8. Counted
    BY <1>2, <1>5 DEF Counted
  <1>9. \A p \in Proc : CountLocal(p)
    BY DEF Init, CountLocal, Saving
  <1> QED BY <1>1, <1>3, <1>4, <1>7, <1>8, <1>9 DEF CountInv

\* A step that leaves index and msginfo alone, and neither writes the index nor
\* msginfo next to do, keeps the counts.
LEMMA CountQuiet ==
    ASSUME CountInv, NEW p \in Proc, UNCHANGED <<idx, info>>,
           \A q \in Proc \ {p} : pc'[q] = pc[q] /\ data'[q] = data[q] /\ op'[q] = op[q],
           pc[p] # "info", pc'[p] # "info",
           pc'[p] # "closed" => data'[p].board \in Boards,
           Saving(p)' => op'[p].hdr.board \in Boards,
           pc'[p] \in {"header", "index"} => data'[p].info = info
    PROVE  CountInv'
  <1>1. ASSUME NEW q \in Proc PROVE CountLocal(q)'
    <2>1. CASE q = p
      BY <2>1 DEF CountLocal
    <2>2. CASE q # p
      <3>1. CountLocal(q) /\ pc'[q] = pc[q] /\ data'[q] = data[q] /\ op'[q] = op[q]
        BY <2>2 DEF CountInv
      <3> QED BY <3>1 DEF CountLocal, Saving, Change
    <2> QED BY <2>1, <2>2
  <1>2. (\A q \in Proc : pc'[q] # "info") => Counted'
    <2>1. (\A q \in Proc : pc'[q] # "info") => \A q \in Proc : pc[q] # "info"
      OBVIOUS
    <2> QED BY <2>1 DEF CountInv, Counted
  <1> QED BY <1>1, <1>2 DEF CountInv

\* The calls that write nothing, and the end of one that does.
LEMMA CountCalls ==
    ASSUME IInv, CountInv, NEW p \in Proc,
           \/ Open(p) \/ OpenScan(p) \/ Close(p) \/ Suspend(p) \/ Load(p)
           \/ Lock(p) \/ Unlock(p) \/ TimesRead(p) \/ Finish(p)
    PROVE  CountInv'
  <1>1. DOMAIN pc = Proc /\ DOMAIN data = Proc /\ op \in [Proc -> Ops] /\ Datum(data[p])
    BY DEF IInv, Typed
  <1>2. pc[p] # "closed" => data[p].board \in Boards
    BY DEF CountInv, CountLocal
  <1>3. ASSUME IndexErrorExit(p), pc[p] = "idle" PROVE CountInv'
    <2>1. /\ UNCHANGED <<idx, info, op>> /\ pc'[p] = "closed"
          /\ \A q \in Proc \ {p} : pc'[q] = pc[q] /\ data'[q] = data[q]
      BY <1>1, <1>3 DEF IndexErrorExit, files
    <2> QED BY <1>3, <2>1, CountQuiet DEF Saving
  <1>4. ASSUME UNCHANGED <<idx, info>>, pc[p] # "info", pc'[p] \in {"opening", "idle"},
               \A q \in Proc \ {p} : pc'[q] = pc[q] /\ op'[q] = op[q],
               NEW d, data' = [data EXCEPT ![p] = d], d.board \in Boards
        PROVE  CountInv'
    <2>1. data'[p] = d /\ \A q \in Proc \ {p} : data'[q] = data[q]
      BY <1>1, <1>4
    <2> QED BY <1>4, <2>1, CountQuiet DEF Saving
  <1>5. CASE Open(p)
    <2>1. /\ UNCHANGED <<idx, info, op>> /\ pc[p] = "closed" /\ pc'[p] = "opening"
          /\ \A q \in Proc \ {p} : pc'[q] = pc[q]
      BY <1>1, <1>5 DEF Open, files
    <2>2. PICK b \in Boards : data' = [data EXCEPT ![p] = [data[p] EXCEPT !.board = b, !.idx = idx]]
      BY <1>5 DEF Open
    <2>3. [data[p] EXCEPT !.board = b, !.idx = idx].board = b
      BY <1>1 DEF Datum
    <2> QED BY <1>4, <2>1, <2>2, <2>3
  <1>6. CASE OpenScan(p)
    <2>1. /\ UNCHANGED <<idx, info, op>> /\ pc[p] = "opening" /\ pc'[p] = "idle"
          /\ \A q \in Proc \ {p} : pc'[q] = pc[q]
      BY <1>1, <1>6 DEF OpenScan, files
    <2>2. PICK m, l, v : data' = [data EXCEPT ![p] =
                [data[p] EXCEPT !.info = info, !.lastrec = v, !.Msgn = m, !.lastread = l]]
      BY <1>6 DEF OpenScan
    <2>3. [data[p] EXCEPT !.info = info, !.lastrec = v, !.Msgn = m, !.lastread = l].board = data[p].board
      BY <1>1 DEF Datum
    <2> QED BY <1>2, <1>4, <2>1, <2>2, <2>3
  <1>7. CASE Close(p)
    <2>1. /\ UNCHANGED <<idx, info, op>> /\ pc[p] = "idle" /\ pc'[p] = "closed"
          /\ \A q \in Proc \ {p} : pc'[q] = pc[q] /\ data'[q] = data[q]
      BY <1>1, <1>7 DEF Close
    <2> QED BY <2>1, CountQuiet DEF Saving
  <1>8. CASE Suspend(p)
    <2>1. UNCHANGED <<idx, info, op, pc>> /\ pc[p] = "idle"
      BY <1>8 DEF Suspend
    <2>2. PICK v : data' = [data EXCEPT ![p] = [data[p] EXCEPT !.lastrec = v]]
      BY <1>8 DEF Suspend
    <2>3. [data[p] EXCEPT !.lastrec = v].board = data[p].board
      BY <1>1 DEF Datum
    <2> QED BY <1>2, <1>4, <2>1, <2>2, <2>3
  <1>9. CASE Load(p)
    <2>1. pc[p] = "idle"
      BY <1>9 DEF Load
    <2>2. CASE IndexErrorExit(p)
      BY <1>3, <2>1, <2>2
    <2>3. CASE ~ IndexErrorExit(p)
      <3>1. PICK r : /\ data' = [data EXCEPT ![p] = [data[p] EXCEPT !.lastread = r]]
                     /\ UNCHANGED <<files, holder, islocked, pc, op, PMrk>>
        BY <1>9, <2>3, Zenon DEF Load
      <3>2. UNCHANGED <<idx, info, op, pc>>
        BY <3>1 DEF files
      <3>3. [data[p] EXCEPT !.lastread = r].board = data[p].board
        BY <1>1 DEF Datum
      <3> QED BY <1>2, <1>4, <2>1, <3>1, <3>2, <3>3
    <2> QED BY <2>2, <2>3
  <1>10. CASE Lock(p) \/ Unlock(p) \/ TimesRead(p)
    <2>1. pc[p] = "idle"
      BY <1>10 DEF Lock, Unlock, TimesRead
    <2>2. CASE IndexErrorExit(p)
      BY <1>3, <2>1, <2>2
    <2>3. CASE ~ IndexErrorExit(p)
      <3>1. /\ UNCHANGED <<idx, info, op, pc>>
            /\ data' = data \/ data' = [data EXCEPT ![p] = Refresh(p)]
        BY <1>10, <2>3 DEF Lock, Unlock, TimesRead, files
      <3>2. Refresh(p).board = data[p].board
        BY <1>1 DEF Datum, Refresh
      <3>3. CASE data' = data
        BY <1>2, <2>1, <3>1, <3>3, CountQuiet DEF Saving
      <3>4. CASE data' = [data EXCEPT ![p] = Refresh(p)]
        BY <1>2, <1>4, <2>1, <3>1, <3>2, <3>4
      <3> QED BY <3>1, <3>3, <3>4
    <2> QED BY <2>2, <2>3
  <1>11. CASE Finish(p)
    <2>1. /\ UNCHANGED <<idx, info>> /\ pc[p] = "lists" /\ pc'[p] = "idle"
          /\ \A q \in Proc \ {p} : pc'[q] = pc[q] /\ op'[q] = op[q]
      BY <1>1, <1>11 DEF Finish
    <2>2. PICK l : data' = [data EXCEPT ![p] =
                CASE op[p].mode = "new" -> [data[p] EXCEPT !.Msgn = Append(@, op[p].hdr.msgno)]
                  [] op[p].mode = "del" -> Without(data[p], op[p].hdr.msgno, l)
                  [] OTHER              -> data[p]]
      BY <1>11, Zenon DEF Finish
    <2> DEFINE d == CASE op[p].mode = "new" -> [data[p] EXCEPT !.Msgn = Append(@, op[p].hdr.msgno)]
                  [] op[p].mode = "del" -> Without(data[p], op[p].hdr.msgno, l)
                  [] OTHER              -> data[p]
    <2>3. d.board = data[p].board
      <3>1. [data[p] EXCEPT !.Msgn = Append(@, op[p].hdr.msgno)].board = data[p].board
        BY <1>1 DEF Datum
      <3>2. Without(data[p], op[p].hdr.msgno, l).board = data[p].board
        <4>1. PICK m, r : Without(data[p], op[p].hdr.msgno, l) =
                              [data[p] EXCEPT !.Msgn = m, !.lastread = r]
          BY DEF Without
        <4>2. [data[p] EXCEPT !.Msgn = m, !.lastread = r].board = data[p].board
          BY <1>1 DEF Datum
        <4> QED BY <4>1, <4>2
      <3> QED BY <3>1, <3>2
    <2> HIDE DEF d
    <2>4. data' = [data EXCEPT ![p] = d]
      BY <2>2 DEF d
    <2> QED BY <1>2, <1>4, <2>1, <2>3, <2>4
  <1> QED BY <1>5, <1>6, <1>7, <1>8, <1>9, <1>10, <1>11

LEMMA CountSave ==
    ASSUME IInv, CountInv, NEW p \in Proc, NEW mode \in {"new", "hdr", "del"}, Save(p, mode)
    PROVE  CountInv'
  <1>1. DOMAIN pc = Proc /\ DOMAIN data = Proc /\ op \in [Proc -> Ops] /\ Datum(data[p]) /\ pc[p] = "idle"
    BY DEF IInv, Typed, Save
  <1>2. data[p].board \in Boards
    BY <1>1 DEF CountInv, CountLocal
  <1> DEFINE d == Refresh(p)
  <1>3. PICK uns :
            LET place == Place(p, d, mode, uns)
            IN  IF place.at = 0 THEN IndexErrorExit(p)
                ELSE /\ holder' = p
                     /\ data' = [data EXCEPT ![p] = d]
                     /\ op' = [op EXCEPT ![p] = place]
                     /\ pc' = [pc EXCEPT ![p] = "header"]
                     /\ UNCHANGED <<files, islocked, msg, seen, PMrk>>
    BY Zenon DEF Save
  <1> DEFINE place == Place(p, d, mode, uns)
  <1>4. CASE place.at = 0
    <2>1. IndexErrorExit(p)
      BY <1>3, <1>4
    <2>2. /\ UNCHANGED <<idx, info, op>> /\ pc'[p] = "closed"
          /\ \A q \in Proc \ {p} : pc'[q] = pc[q] /\ data'[q] = data[q]
      BY <1>1, <2>1 DEF IndexErrorExit, files
    <2> QED BY <1>1, <2>2, CountQuiet DEF Saving
  <1>5. CASE place.at # 0
    <2>1. /\ data' = [data EXCEPT ![p] = d] /\ op' = [op EXCEPT ![p] = place]
          /\ pc' = [pc EXCEPT ![p] = "header"] /\ UNCHANGED <<idx, info>>
      BY <1>3, <1>5 DEF files
    <2>2. d.board = data[p].board /\ d.info = info
      BY <1>1 DEF Datum, Refresh
    <2> HIDE DEF d
    <2>3. place.hdr.board = d.board
      BY DEF Place, Header
    <2> HIDE DEF place
    <2>4. /\ data'[p] = d /\ op'[p] = place /\ pc'[p] = "header"
          /\ \A q \in Proc \ {p} : data'[q] = data[q] /\ pc'[q] = pc[q] /\ op'[q] = op[q]
      BY <1>1, <2>1
    <2> QED BY <1>1, <1>2, <2>1, <2>2, <2>3, <2>4, CountQuiet
  <1> QED BY <1>4, <1>5

LEMMA CountHdr == ASSUME IInv, CountInv, NEW p \in Proc, WriteHdr(p) PROVE CountInv'
  <1>1. /\ pc[p] = "header" /\ pc' = [pc EXCEPT ![p] = "index"] /\ DOMAIN pc = Proc
        /\ UNCHANGED <<idx, info, data, op>>
    BY DEF WriteHdr, IInv, Typed
  <1>2. pc'[p] = "index" /\ \A q \in Proc \ {p} : pc'[q] = pc[q]
    BY <1>1
  <1>3. data[p].board \in Boards /\ op[p].hdr.board \in Boards /\ data[p].info = info
    BY <1>1 DEF CountInv, CountLocal, Saving
  <1> QED BY <1>1, <1>2, <1>3, CountQuiet

\* The index gains the new message, loses the deleted one, or keeps the one saved,
\* if that is an entry of its own board.
OwnEntry(p) == op[p].mode # "new" => idx[op[p].at].board = op[p].hdr.board

LEMMA CountIdx ==
    ASSUME IInv, CountInv, NEW p \in Proc, OwnEntry(p), WriteIdx(p)
    PROVE  CountInv'
  <1> DEFINE at == op[p].at
             h == op[p].hdr
             e == Entry(IF op[p].mode = "del" THEN DELETEDMSGNO ELSE h.msgno, h.board)
             new == Put(idx, at, e)
  <1>1. /\ pc[p] = "index" /\ pc' = [pc EXCEPT ![p] = "info"] /\ idx' = new
        /\ data' = [data EXCEPT ![p] = [data[p] EXCEPT !.idx = Put(data[p].idx, at, e)]]
        /\ UNCHANGED <<info, op>>
    BY DEF WriteIdx
  <1>2. Saving(p) /\ Typed /\ MutualExclusion /\ Slot(p)
    BY <1>1 DEF Saving, IInv, LocalInv
  <1>3. \A q \in Proc \ {p} : ~Saving(q)
    BY <1>2, Alone
  <1>4. Counted
    <2>1. \A q \in Proc : pc[q] # "info"
      BY <1>1, <1>3 DEF Saving
    <2> QED BY <2>1 DEF CountInv
  <1>5. data[p].board \in Boards /\ h.board \in Boards /\ data[p].info = info
    BY <1>1, <1>2 DEF CountInv, CountLocal
  <1>6. idx \in Seq(Places) /\ h.msgno \in Nat /\ info.high \in Nat
    BY <1>2 DEF Typed, Ops, Headers
  <1>7. e \in Places /\ e.board = h.board
        /\ e.msgno = IF op[p].mode = "del" THEN DELETEDMSGNO ELSE h.msgno
    BY <1>5, <1>6 DEF Entry, Places, DELETEDMSGNO
  <1>8. at \in 1..(Len(idx) + 1)
    BY <1>2, <1>6 DEF Slot
  <1> HIDE DEF e
  <1>9. /\ DOMAIN new = 1..Len(new)
        /\ \A i \in 1..Len(new) : new[i] = IF i = at THEN e ELSE idx[i]
        /\ Len(new) = IF at = Len(idx) + 1 THEN at ELSE Len(idx)
    <2> HIDE DEF at, h
    <2> QED BY <1>6, <1>7, <1>8, PutFacts
  <1>10. ASSUME NEW b \in Boards
         PROVE  Active(new, b) = IF e.board = b /\ e.msgno # DELETEDMSGNO
                                 THEN Active(idx, b) \cup {at} ELSE Active(idx, b) \ {at}
    <2> HIDE DEF at, h
    <2> QED BY <1>6, <1>7, <1>8, PutActive
  <1>11. ASSUME NEW i \in DOMAIN new PROVE new[i].board \in Boards
    <2>1. CASE i = at
      BY <1>5, <1>7, <1>9, <2>1
    <2>2. CASE i # at
      <3>1. i \in DOMAIN idx /\ new[i] = idx[i]
        <4> HIDE DEF at, new, h
        <4> QED BY <1>6, <1>8, <1>9, <1>11, <2>2
      <3> QED BY <3>1 DEF CountInv
    <2> QED BY <2>1, <2>2
  <1> HIDE DEF new
  <1>12. ASSUME NEW b \in Boards
         PROVE  Cardinality(Active(new, b)) = info.active[b] + (IF b = h.board THEN Change(p) ELSE 0)
    <2>2. info.active[b] = Cardinality(Active(idx, b))
      BY <1>4 DEF Counted
    <2>3. /\ Active(idx, b) \subseteq 1..Len(idx) /\ IsFiniteSet(Active(idx, b))
          /\ Cardinality(Active(idx, b)) \in Nat
      BY <1>6, ActiveFinite
    <2>0. CASE b # h.board
      <3>1. Active(new, b) = Active(idx, b) \ {at}
        BY <1>7, <1>10, <2>0
      <3>2. at \notin Active(idx, b)
        <4>1. CASE op[p].mode = "new"
          <5>1. at = Len(idx) + 1 /\ Len(idx) \in Nat
            BY <1>2, <1>6, <4>1 DEF Slot
          <5> HIDE DEF at
          <5> QED BY <2>3, <5>1
        <4>2. CASE op[p].mode # "new"
          BY <2>0, <4>2 DEF OwnEntry, Active
        <4> QED BY <4>1, <4>2
      <3>3. Active(new, b) = Active(idx, b)
        BY <3>1, <3>2
      <3> QED BY <2>0, <2>2, <2>3, <3>3
    <2> SUFFICES ASSUME b = h.board
                 PROVE  Cardinality(Active(new, b)) = info.active[b] + Change(p)
      BY <2>0
    <2>1. b = h.board /\ b = e.board
      BY <1>7
    <2>4. CASE op[p].mode = "new"
      <3>1. Active(new, b) = Active(idx, b) \cup {at}
        <4>1. e.msgno # DELETEDMSGNO
          BY <1>2, <1>6, <1>7, <2>4 DEF Slot, DELETEDMSGNO
        <4> QED BY <1>10, <2>1, <4>1
      <3>2. at \notin Active(idx, b)
        <4>1. at = Len(idx) + 1
          BY <1>2, <2>4 DEF Slot
        <4>2. Len(idx) \in Nat /\ Active(idx, b) \subseteq 1..Len(idx)
          BY <1>6, <2>3
        <4> HIDE DEF at
        <4>3. at \notin 1..Len(idx)
          BY <4>1, <4>2
        <4> QED BY <4>2, <4>3
      <3>3. Cardinality(Active(new, b)) = Cardinality(Active(idx, b)) + 1
        <4> HIDE DEF at, new
        <4>1. Cardinality(Active(idx, b) \cup {at}) = Cardinality(Active(idx, b)) + 1
          BY <2>3, <3>2, FS_AddElement
        <4> QED BY <3>1, <4>1
      <3>4. Change(p) = 1
        BY <2>4 DEF Change
      <3> QED BY <2>1, <2>2, <2>3, <3>3, <3>4
    <2>5. CASE op[p].mode # "new"
      <3>1. op[p].mode \in {"hdr", "del"} /\ at \in DOMAIN idx /\ idx[at].msgno = h.msgno /\ h.msgno # DELETEDMSGNO
        BY <1>2, <2>5 DEF Slot
      <3>2. at \in Active(idx, b)
        <4>1. idx[at].board = b
          BY <2>1, <2>5 DEF OwnEntry
        <4> QED BY <3>1, <4>1 DEF Active
      <3>3. CASE op[p].mode = "del"
        <4>1. e.msgno = DELETEDMSGNO
          BY <1>7, <3>3
        <4>2. Active(new, b) = Active(idx, b) \ {at}
          BY <1>10, <4>1
        <4>3. Cardinality(Active(new, b)) = Cardinality(Active(idx, b)) - 1
          <5>1. Cardinality(Active(idx, b) \ {at}) = Cardinality(Active(idx, b)) - 1
            BY <2>3, <3>2, FS_RemoveElement
          <5> QED BY <4>2, <5>1
        <4>4. Change(p) = -1
          BY <3>3 DEF Change
        <4> QED BY <2>1, <2>2, <2>3, <4>3, <4>4
      <3>4. CASE op[p].mode = "hdr"
        <4>1. e.msgno # DELETEDMSGNO
          BY <1>7, <3>1, <3>4
        <4>2. Active(new, b) = Active(idx, b) \cup {at}
          BY <1>10, <2>1, <4>1
        <4>3. Active(new, b) = Active(idx, b)
          BY <3>2, <4>2
        <4>4. Change(p) = 0
          BY <3>4 DEF Change
        <4> QED BY <2>1, <2>2, <2>3, <4>3, <4>4
      <3> QED BY <3>1, <3>3, <3>4
    <2> QED BY <2>4, <2>5
  <1>13. /\ pc'[p] = "info" /\ \A q \in Proc \ {p} : pc'[q] = pc[q]
         /\ data'[p].board = data[p].board /\ data'[p].info = data[p].info
         /\ \A q \in Proc \ {p} : data'[q] = data[q]
    <2>1. Datum(data[p]) /\ DOMAIN pc = Proc /\ DOMAIN data = Proc
      BY <1>2 DEF Typed
    <2> DEFINE x == Put(data[p].idx, at, e)
    <2>2. data'[p] = [data[p] EXCEPT !.idx = x]
      BY <1>1, <2>1
    <2> HIDE DEF x
    <2>3. [data[p] EXCEPT !.idx = x].board = data[p].board /\ [data[p] EXCEPT !.idx = x].info = data[p].info
      BY <2>1 DEF Datum
    <2> QED BY <1>1, <2>1, <2>2, <2>3
  <1>14. CountLocal(p)'
    BY <1>1, <1>5, <1>12, <1>13 DEF CountLocal, Saving, Change
  <1>15. ASSUME NEW q \in Proc \ {p} PROVE CountLocal(q)'
    <2>1. CountLocal(q) /\ ~Saving(q) /\ pc'[q] = pc[q] /\ data'[q] = data[q]
      BY <1>3, <1>13 DEF CountInv
    <2> QED BY <2>1 DEF CountLocal, Saving
  <1>16. info' \in Infos /\ \A i \in DOMAIN idx' : idx'[i].board \in Boards
    BY <1>1, <1>11 DEF CountInv
  <1> QED BY <1>13, <1>14, <1>15, <1>16 DEF CountInv

\* msginfo follows.
LEMMA CountInfo == ASSUME IInv, CountInv, NEW p \in Proc, WriteInfo(p) PROVE CountInv'
  <1> DEFINE b0 == op[p].hdr.board
  <1>1. /\ pc[p] = "info" /\ pc' = [pc EXCEPT ![p] = "lists"]
        /\ info' = [high |-> NewHigh(p),
                    active |-> [data[p].info.active EXCEPT ![b0] = @ + Change(p)]]
        /\ data' = [data EXCEPT ![p].info = info']
        /\ UNCHANGED <<idx, op>>
    BY DEF WriteInfo, Change
  <1>2. Saving(p) /\ Typed /\ MutualExclusion
    BY <1>1 DEF Saving, IInv
  <1>3. \A q \in Proc \ {p} : ~Saving(q)
    BY <1>2, Alone
  <1>4. /\ data[p].board \in Boards /\ b0 \in Boards /\ data[p].info = info
        /\ \A b \in Boards : Cardinality(Active(idx, b)) = info.active[b] + (IF b = b0 THEN Change(p) ELSE 0)
    BY <1>1, <1>2 DEF CountInv, CountLocal
  <1>5. info.active \in [Boards -> Int] /\ Change(p) \in Int
    BY DEF CountInv, Infos, Change
  <1>6. info'.high \in Nat
    <2>1. IInv'
      BY WriteInfoInv
    <2> QED BY <2>1 DEF IInv, Typed
  <1>7. /\ pc'[p] = "lists" /\ \A q \in Proc \ {p} : pc'[q] = pc[q]
        /\ data'[p].board = data[p].board /\ \A q \in Proc \ {p} : data'[q] = data[q]
    <2>1. Datum(data[p]) /\ DOMAIN pc = Proc /\ DOMAIN data = Proc
      BY <1>2 DEF Typed
    <2> DEFINE x == info'
    <2>2. data'[p] = [data[p] EXCEPT !.info = x]
      BY <1>1, <2>1
    <2> HIDE DEF x
    <2>3. [data[p] EXCEPT !.info = x].board = data[p].board
      BY <2>1 DEF Datum
    <2> QED BY <1>1, <2>1, <2>2, <2>3
  <1> DEFINE a == [info.active EXCEPT ![b0] = info.active[b0] + Change(p)]
  <1>8. info' = [high |-> NewHigh(p), active |-> a]
    BY <1>1, <1>4
  <1>9. a \in [Boards -> Int] /\ \A b \in Boards : a[b] = Cardinality(Active(idx, b))
    <2>1. \A b \in Boards : a[b] = info.active[b] + (IF b = b0 THEN Change(p) ELSE 0)
      <3> HIDE DEF b0
      <3> QED BY <1>4, <1>5
    <2> HIDE DEF b0
    <2> QED BY <1>4, <1>5, <2>1
  <1> HIDE DEF a
  <1>10. info' \in Infos /\ info'.active = a
    BY <1>6, <1>8, <1>9 DEF Infos
  <1>11. Counted'
    BY <1>1, <1>9, <1>10 DEF Counted
  <1>12. CountLocal(p)'
    BY <1>1, <1>4, <1>7 DEF CountLocal, Saving
  <1>13. ASSUME NEW q \in Proc \ {p} PROVE CountLocal(q)'
    <2>1. CountLocal(q) /\ ~Saving(q) /\ pc'[q] = pc[q] /\ data'[q] = data[q]
      BY <1>3, <1>7 DEF CountInv
    <2> QED BY <2>1 DEF CountLocal, Saving
  <1>14. \A i \in DOMAIN idx' : idx'[i].board \in Boards
    BY <1>1 DEF CountInv
  <1> QED BY <1>10, <1>11, <1>12, <1>13, <1>14 DEF CountInv

LEMMA CountStill ==
    ASSUME CountInv, UNCHANGED <<idx, info, pc, data, op>>
    PROVE  CountInv'
  <1>1. ASSUME NEW q \in Proc PROVE CountLocal(q)'
    BY DEF CountInv, CountLocal, Saving, Change
  <1>2. (\A q \in Proc : pc'[q] # "info") => Counted'
    BY DEF CountInv, Counted
  <1> QED BY <1>1, <1>2 DEF CountInv

LEMMA CountNext ==
    ASSUME IInv, CountInv, \A p \in Proc : pc[p] = "index" => OwnEntry(p), [Next]_hvars
    PROVE  CountInv'
  <1>1. CASE Next
    <2>1. PICK p \in Proc : Step(p)
      BY <1>1 DEF Next
    <2>2. CASE ScanPm(p)
      BY <2>2, CountStill DEF ScanPm, files
    <2>3. CASE WriteIdx(p)
      <3>1. OwnEntry(p)
        BY <2>3 DEF WriteIdx
      <3> QED BY <2>3, <3>1, CountIdx
    <2> QED BY <2>1, <2>2, <2>3, CountCalls, CountSave, CountHdr, CountInfo DEF Step
  <1>2. CASE UNCHANGED hvars
    BY <1>2, CountStill DEF hvars, files
  <1> QED BY <1>1, <1>2

LEMMA CountStep == ASSUME OneBoard, IInv, CountInv, [Next]_hvars PROVE CountInv'
  <1>1. ASSUME NEW p \in Proc, pc[p] = "index" PROVE OwnEntry(p)
    <2>1. Slot(p) /\ op[p].hdr.board \in Boards
      BY <1>1 DEF IInv, LocalInv, CountInv, CountLocal, Saving
    <2>2. op[p].mode # "new" => idx[op[p].at].board \in Boards
      BY <2>1 DEF Slot, CountInv
    <2> QED BY <2>1, <2>2 DEF OwnEntry, OneBoard
  <1> QED BY <1>1, CountNext

LEMMA CountsFollow == ASSUME IInv, CountInv PROVE CountsSound
  <1> SUFFICES ASSUME \A p \in Proc : ~Saving(p), NEW b \in Boards
               PROVE  info.active[b] = Len(Numbers(idx, b))
    BY DEF CountsSound
  <1>1. Counted
    BY DEF CountInv, Saving
  <1>2. Len(Numbers(idx, b)) = Cardinality(Active(idx, b))
    BY NumbersCounted DEF IInv, Typed
  <1> QED BY <1>1, <1>2 DEF Counted

\* While nobody saves a message, msginfo counts for the board as many messages as
\* the index lists, which raw_scan takes as the size of its list.
THEOREM HudsonCountsSound == ASSUME BaseAssumption, OneBoard PROVE Spec => []CountsSound
  <1>1. Init => IInv /\ CountInv
    BY InvInit, CountInit
  <1>2. IInv /\ CountInv /\ [Next]_hvars => (IInv /\ CountInv)'
    BY InvStep, CountStep
  <1>3. IInv /\ CountInv => CountsSound
    BY CountsFollow
  <1> QED BY <1>1, <1>2, <1>3, PTL DEF Spec

-----------------------------------------------------------------------------
(***************************************************************************)
(* The scanning files, which update_netecho keeps: one place for all, as   *)
(* the manual has it.                                                      *)
(***************************************************************************)
OneDir == Path = Syspath /\ Syspath = Cwd

Writing == {"index", "info", "lists"}

\* What ScanningFiles says, but for some headers.
Scanned(but) ==
    /\ Unsent(NetBoards)  \ but \subseteq lists[Syspath].netmail
    /\ Unsent(EchoBoards) \ but \subseteq lists[Syspath].echomail
    /\ lists[Syspath].netmail \cup lists[Syspath].echomail \subseteq Live \cup but

ListsLocal(p) ==
    /\ pc[p] \in Writing => Scanned({op[p].at})
    /\ pc[p] \in {"info", "lists"} =>
        /\ hdr[op[p].at] = op[p].hdr
        /\ op[p].at \in Live <=> op[p].mode # "del"

\* The files are right but for the header being written, which comes last.
Files(net, echo) == [netmail |-> net, echomail |-> echo]
ListsInv ==
    /\ \E net, echo : lists = [d \in {Path, Syspath, Cwd} |-> Files(net, echo)]
    /\ (\A p \in Proc : pc[p] \notin Writing) => Scanned({})
    /\ \A p \in Proc : ListsLocal(p)

LEMMA ListsInit == Init => ListsInv
  <1> SUFFICES ASSUME Init PROVE ListsInv
    OBVIOUS
  <1>1. lists = [d \in {Path, Syspath, Cwd} |-> Files({}, {})]
    BY DEF Init, Files
  <1>2. Unsent(NetBoards) = {} /\ Unsent(EchoBoards) = {}
    <2>1. \A i \in DOMAIN idx : hdr[i].uns = FALSE
      BY DEF Init, Header
    <2> QED BY <2>1 DEF Unsent, Live
  <1>3. Scanned({})
    BY <1>1, <1>2 DEF Scanned, Files
  <1>4. \A p \in Proc : pc[p] = "closed"
    BY DEF Init
  <1> QED BY <1>1, <1>3, <1>4 DEF ListsInv, ListsLocal, Writing

LEMMA ListsQuiet ==
    ASSUME ListsInv, UNCHANGED <<hdr, idx, lists>>,
           \A q \in Proc : \/ pc[q] \notin Writing /\ pc'[q] \notin Writing
                           \/ pc'[q] = pc[q] /\ op'[q] = op[q]
                           \/ pc[q] = "info" /\ pc'[q] = "lists" /\ op'[q] = op[q]
    PROVE  ListsInv'
  <1>1. \A but : Scanned(but) <=> Scanned(but)'
    BY DEF Scanned, Unsent, Live
  <1>2. ASSUME NEW q \in Proc PROVE ListsLocal(q)'
    BY <1>1 DEF ListsInv, ListsLocal, Writing, Live
  <1>3. (\A q \in Proc : pc'[q] \notin Writing) => Scanned({})'
    BY <1>1 DEF ListsInv, Writing
  <1>4. \E net, echo : lists' = [d \in {Path, Syspath, Cwd} |-> Files(net, echo)]
    BY DEF ListsInv
  <1> QED BY <1>2, <1>3, <1>4 DEF ListsInv

\* When one program writes, it is its part that counts.
LEMMA ListsWriting ==
    ASSUME MutualExclusion, ListsInv, NEW p \in Proc, Saving(p),
           \A q \in Proc \ {p} : pc'[q] = pc[q],
           \E net, echo : lists' = [d \in {Path, Syspath, Cwd} |-> Files(net, echo)],
           ListsLocal(p)', pc'[p] \notin Writing => Scanned({})'
    PROVE  ListsInv'
  <1>1. ASSUME NEW q \in Proc \ {p} PROVE ListsLocal(q)' /\ pc'[q] \notin Writing
    <2>1. pc[q] \notin Writing
      BY Alone DEF Saving, Writing
    <2> QED BY <2>1 DEF ListsLocal, Writing
  <1>2. \A q \in Proc : ListsLocal(q)'
    BY <1>1
  <1>3. (\A q \in Proc : pc'[q] \notin Writing) => Scanned({})'
    OBVIOUS
  <1> QED BY <1>2, <1>3 DEF ListsInv

\* The calls that do not write, and the refresh and the lock of those that do.
LEMMA ListsCalls ==
    ASSUME IInv, ListsInv, NEW p \in Proc,
           \/ Open(p) \/ OpenScan(p) \/ Close(p) \/ Suspend(p) \/ Load(p)
           \/ Lock(p) \/ Unlock(p) \/ TimesRead(p) \/ WriteInfo(p) \/ ScanPm(p)
           \/ \E mode \in {"new", "hdr", "del"} : Save(p, mode)
    PROVE  ListsInv'
  <1>1. DOMAIN pc = Proc /\ op \in [Proc -> Ops]
    BY DEF IInv, Typed
  <1>2. CASE IndexErrorExit(p) /\ pc[p] = "idle"
    <2>1. UNCHANGED <<hdr, idx, lists, op>> /\ pc' = [pc EXCEPT ![p] = "closed"]
      BY <1>2 DEF IndexErrorExit, files
    <2> QED BY <1>1, <1>2, <2>1, ListsQuiet DEF Writing
  <1>3. CASE Open(p) \/ OpenScan(p) \/ Close(p)
    <2>1. UNCHANGED <<hdr, idx, lists, op>> /\ pc[p] \notin Writing
          /\ \E s \in {"opening", "idle", "closed"} : pc' = [pc EXCEPT ![p] = s]
      BY <1>3 DEF Open, OpenScan, Close, files, Writing
    <2> QED BY <1>1, <2>1, ListsQuiet DEF Writing
  <1>4. CASE Suspend(p) \/ Unlock(p) \/ Lock(p) \/ ScanPm(p)
    <2>1. UNCHANGED <<hdr, idx, lists, op, pc>>
      BY <1>4 DEF Suspend, Unlock, Lock, ScanPm, files
    <2> QED BY <2>1, ListsQuiet
  <1>5. CASE Load(p) \/ TimesRead(p)
    <2>1. pc[p] = "idle"
      BY <1>5 DEF Load, TimesRead
    <2>2. CASE ~ IndexErrorExit(p)
      <3>1. UNCHANGED <<hdr, idx, lists, op, pc>>
        BY <1>5, <2>2, Zenon DEF Load, TimesRead, files
      <3> QED BY <3>1, ListsQuiet
    <2> QED BY <1>2, <2>1, <2>2
  <1>6. CASE WriteInfo(p)
    <2>1. UNCHANGED <<hdr, idx, lists, op>> /\ pc[p] = "info" /\ pc' = [pc EXCEPT ![p] = "lists"]
      BY <1>6 DEF WriteInfo
    <2> QED BY <1>1, <2>1, ListsQuiet
  <1>7. ASSUME NEW mode \in {"new", "hdr", "del"}, Save(p, mode) PROVE ListsInv'
    <2>1. pc[p] = "idle"
      BY <1>7 DEF Save
    <2>2. CASE ~ IndexErrorExit(p)
      <3>1. PICK o : /\ op' = [op EXCEPT ![p] = o] /\ pc' = [pc EXCEPT ![p] = "header"]
                     /\ UNCHANGED <<files, islocked, msg, seen, PMrk>>
        BY <1>7, <2>2, Zenon DEF Save
      <3>2. UNCHANGED <<hdr, idx, lists>> /\ pc'[p] = "header"
            /\ \A q \in Proc \ {p} : pc'[q] = pc[q] /\ op'[q] = op[q]
        BY <1>1, <3>1 DEF files
      <3> QED BY <2>1, <3>2, ListsQuiet DEF Writing
    <2> QED BY <1>2, <2>1, <2>2
  <1> QED BY <1>3, <1>4, <1>5, <1>6, <1>7

\* While one program writes, no other does.
LEMMA OthersLists ==
    ASSUME MutualExclusion, NEW p \in Proc, Saving(p), NEW q \in Proc \ {p}
    PROVE  pc[q] \notin Writing
  BY Alone DEF Saving, Writing

LEMMA ListsHdr == ASSUME IInv, ListsInv, NEW p \in Proc, WriteHdr(p) PROVE ListsInv'
  <1> DEFINE at == op[p].at
             new == Put(hdr, at, op[p].hdr)
  <1>1. /\ pc[p] = "header" /\ hdr' = new /\ pc' = [pc EXCEPT ![p] = "index"]
        /\ UNCHANGED <<idx, lists, op>>
    BY DEF WriteHdr
  <1>2. Saving(p) /\ Typed /\ MutualExclusion /\ Slot(p) /\ Matched(hdr, idx, info.high)
    BY <1>1 DEF Saving, IInv, LocalInv
  <1>3. pc'[p] = "index" /\ \A q \in Proc \ {p} : pc'[q] = pc[q] /\ pc[q] \notin Writing
    BY <1>1, <1>2, OthersLists DEF Typed
  <1>4. Scanned({})
    BY <1>1, <1>3 DEF ListsInv, Writing
  <1>5. /\ hdr \in Seq(Headers) /\ op[p].hdr \in Headers /\ Len(hdr) = Len(idx)
        /\ at \in 1..(Len(hdr) + 1) /\ DOMAIN idx = 1..Len(idx) /\ Len(idx) \in Nat
    BY <1>2 DEF Typed, Ops, Matched, Slot
  <1>6. ASSUME NEW i \in DOMAIN idx, i # at PROVE new[i] = hdr[i]
    <2> HIDE DEF at
    <2>1. i \in DOMAIN hdr
      BY <1>5
    <2>2. \A j \in DOMAIN hdr : j # at => Put(hdr, at, op[p].hdr)[j] = hdr[j]
      BY <1>5, PutHeaderElse
    <2> QED BY <1>6, <2>1, <2>2
  <1> HIDE DEF new
  <1>7. \A boards : Unsent(boards)' \ {at} = Unsent(boards) \ {at}
    BY <1>1, <1>6 DEF Unsent, Live
  <1>8. Scanned({at})'
    BY <1>1, <1>4, <1>7 DEF Scanned, Live
  <1>9. ListsLocal(p)'
    BY <1>1, <1>3, <1>8 DEF ListsLocal
  <1>10. \E net, echo : lists' = [d \in {Path, Syspath, Cwd} |-> Files(net, echo)]
    BY <1>1 DEF ListsInv
  <1> QED BY <1>2, <1>3, <1>9, <1>10, ListsWriting DEF Writing

LEMMA ListsIdx == ASSUME IInv, ListsInv, NEW p \in Proc, WriteIdx(p) PROVE ListsInv'
  <1> DEFINE at == op[p].at
             e == Entry(IF op[p].mode = "del" THEN DELETEDMSGNO ELSE op[p].hdr.msgno,
                        op[p].hdr.board)
             new == Put(idx, at, e)
  <1>1. /\ pc[p] = "index" /\ idx' = new /\ pc' = [pc EXCEPT ![p] = "info"]
        /\ UNCHANGED <<hdr, lists, op>>
    BY DEF WriteIdx
  <1>2. Saving(p) /\ Typed /\ MutualExclusion /\ Slot(p) /\ hdr[at] = op[p].hdr
    BY <1>1 DEF Saving, IInv, LocalInv
  <1>3. pc'[p] = "info" /\ \A q \in Proc \ {p} : pc'[q] = pc[q] /\ pc[q] \notin Writing
    BY <1>1, <1>2, OthersLists DEF Typed
  <1>4. Scanned({at})
    BY <1>1 DEF ListsInv, ListsLocal, Writing
  <1>5. /\ idx \in Seq(Places) /\ op[p].hdr \in Headers /\ at \in 1..(Len(idx) + 1)
        /\ DOMAIN idx = 1..Len(idx) /\ Len(idx) \in Nat /\ info.high \in Nat
    BY <1>2 DEF Typed, Ops, Slot
  <1>6. e \in Places /\ e.msgno = IF op[p].mode = "del" THEN DELETEDMSGNO ELSE op[p].hdr.msgno
    BY <1>5 DEF Entry, Places, Headers, DELETEDMSGNO
  <1>7. op[p].hdr.msgno # DELETEDMSGNO
    BY <1>2, <1>5 DEF Slot, DELETEDMSGNO
  <1> HIDE DEF e
  <1>8. /\ DOMAIN new = 1..Len(new) /\ new[at] = e /\ at \in DOMAIN new
        /\ \A i : i # at => (i \in DOMAIN new <=> i \in DOMAIN idx)
        /\ \A i \in DOMAIN idx : i # at => new[i] = idx[i]
    <2> HIDE DEF at
    <2>1. /\ DOMAIN new = 1..Len(new)
          /\ Len(new) = IF at = Len(idx) + 1 THEN at ELSE Len(idx)
          /\ \A i \in 1..Len(new) : new[i] = IF i = at THEN e ELSE idx[i]
      <3>1. idx \in Seq(Places)
        BY <1>5
      <3>2. e \in Places
        BY <1>6
      <3>3. at \in 1..(Len(idx) + 1)
        BY <1>5
      <3> QED BY <3>1, <3>2, <3>3, PutFacts
    <2> HIDE DEF new
    <2>2. at \in DOMAIN new
      BY <1>5, <2>1
    <2>3. ASSUME NEW i, i # at PROVE i \in DOMAIN new <=> i \in DOMAIN idx
      BY <1>5, <2>1, <2>3
    <2> QED BY <2>1, <2>2, <2>3
  <1> HIDE DEF new
  <1>9. at \in Live' <=> op[p].mode # "del"
    BY <1>1, <1>6, <1>7, <1>8 DEF Live
  <1>10. Live' \ {at} = Live \ {at}
    BY <1>1, <1>8 DEF Live
  <1>11. \A boards : Unsent(boards)' \ {at} = Unsent(boards) \ {at}
    BY <1>1, <1>10 DEF Unsent
  <1>12. Scanned({at})'
    BY <1>1, <1>4, <1>10, <1>11 DEF Scanned
  <1>13. ListsLocal(p)'
    BY <1>1, <1>2, <1>3, <1>9, <1>12 DEF ListsLocal
  <1>14. \E net, echo : lists' = [d \in {Path, Syspath, Cwd} |-> Files(net, echo)]
    BY <1>1 DEF ListsInv
  <1> QED BY <1>2, <1>3, <1>13, <1>14, ListsWriting DEF Writing

\* One directory has one file of each kind.
Single(n, e) == [d \in {Syspath} |-> Files(n, e)]
Updated(S, at, del) == IF del THEN S \ {at} ELSE S \cup {at}

LEMMA ListsUpdated ==
    ASSUME OneDir, NEW n, NEW e, NEW at, NEW del \in BOOLEAN
    PROVE  /\ UpdateNetecho(Single(n, e), "netmail", at, del) = Single(Updated(n, at, del), e)
           /\ UpdateNetecho(Single(n, e), "echomail", at, del) = Single(n, Updated(e, at, del))
  <1>1. Single(n, e)[Syspath] = Files(n, e) /\ Files(n, e)["netmail"] = n /\ Files(n, e)["echomail"] = e
    BY DEF Files, Single
  <1>2. ASSUME NEW x PROVE /\ [Single(n, e) EXCEPT ![Syspath]["netmail"] = x] = Single(x, e)
                           /\ [Single(n, e) EXCEPT ![Syspath]["echomail"] = x] = Single(n, x)
    <2>1. /\ [Files(n, e) EXCEPT !["netmail"] = x] = Files(x, e)
          /\ [Files(n, e) EXCEPT !["echomail"] = x] = Files(n, x)
      <3>1. \A y, z : Files(y, z) = [s \in {"netmail", "echomail"} |-> IF s = "netmail" THEN y ELSE z]
        BY DEF Files
      <3> QED BY <3>1
    <2>2. \A r, s : [[d \in {Syspath} |-> r] EXCEPT ![Syspath] = s] = [d \in {Syspath} |-> s]
      OBVIOUS
    <2> QED BY <1>1, <2>1, <2>2 DEF Single
  <1>3. Single(n, e)[Syspath]["netmail"] = n /\ Single(n, e)[Syspath]["echomail"] = e
    BY <1>1
  <1>4. UpdateNetecho(Single(n, e), "netmail", at, del)
            = [Single(n, e) EXCEPT ![Syspath]["netmail"] = Updated(n, at, del)]
    BY <1>3 DEF UpdateNetecho, OneDir, Updated
  <1>5. UpdateNetecho(Single(n, e), "echomail", at, del)
            = [Single(n, e) EXCEPT ![Syspath]["echomail"] = Updated(e, at, del)]
    BY <1>3 DEF UpdateNetecho, OneDir, Updated
  <1> QED BY <1>2, <1>4, <1>5

\* The header written last is added to the files of its kind or taken off both.
LEMMA ListsFinish ==
    ASSUME OneDir, IInv, ListsInv, NEW p \in Proc, Finish(p)
    PROVE  ListsInv'
  <1> DEFINE at == op[p].at
             h == op[p].hdr
             del == op[p].mode = "del"
             D == Syspath
  <1>1. /\ pc[p] = "lists" /\ lists' = NewLists(p) /\ pc' = [pc EXCEPT ![p] = "idle"]
        /\ UNCHANGED <<hdr, idx>>
    BY DEF Finish
  <1>2. Saving(p) /\ DOMAIN pc = Proc /\ MutualExclusion
    BY <1>1 DEF Saving, IInv, Typed
  <1>3. pc'[p] = "idle" /\ \A q \in Proc \ {p} : pc'[q] = pc[q]
    BY <1>1, <1>2
  <1>4. Scanned({at}) /\ hdr[at] = h /\ (at \in Live <=> ~del)
    BY <1>1 DEF ListsInv, ListsLocal, Writing
  <1>5. PICK net, echo : lists = Single(net, echo)
    <2>1. {Path, Syspath, Cwd} = {D}
      BY DEF OneDir
    <2> QED BY <2>1, Zenon DEF ListsInv, Single
  <1> DEFINE net1  == IF (h.uns /\ h.board \in NetBoards) \/ del THEN Updated(net, at, del) ELSE net
             echo1 == IF (h.uns /\ h.board \in EchoBoards) \/ del THEN Updated(echo, at, del) ELSE echo
             first == IF (h.uns /\ h.board \in NetBoards) \/ del
                      THEN UpdateNetecho(lists, "netmail", at, del) ELSE lists
  <1>6. ASSUME NEW n, NEW e
        PROVE  /\ UpdateNetecho(Single(n, e), "netmail", at, del) = Single(Updated(n, at, del), e)
               /\ UpdateNetecho(Single(n, e), "echomail", at, del) = Single(n, Updated(e, at, del))
    <2>1. del \in BOOLEAN
      OBVIOUS
    <2> HIDE DEF del, at
    <2> QED BY <2>1, ListsUpdated
  <1>7. lists' = Single(net1, echo1)
    <2>1. (h.uns /\ h.board \in NetBoards) \/ del => first = Single(Updated(net, at, del), echo)
      BY <1>5, <1>6
    <2>2. first = Single(net1, echo)
      BY <1>5, <2>1
    <2> HIDE DEF first
    <2>3. lists' = IF (h.uns /\ h.board \in EchoBoards) \/ del
                   THEN UpdateNetecho(first, "echomail", at, del) ELSE first
      BY <1>1 DEF NewLists, first
    <2> HIDE DEF net1
    <2>4. UpdateNetecho(first, "echomail", at, del) = Single(net1, Updated(echo, at, del))
      BY <1>6, <2>2
    <2> QED BY <2>2, <2>3, <2>4
  <1>8. lists'[D].netmail = net1 /\ lists'[D].echomail = echo1
        /\ lists[D].netmail = net /\ lists[D].echomail = echo
    <2> HIDE DEF net1, echo1
    <2> QED BY <1>5, <1>7 DEF Files, Single
  <1>9. \A boards : Unsent(boards)' = Unsent(boards)
    BY <1>1 DEF Unsent, Live
  <1>10. Live' = Live
    BY <1>1 DEF Live
  <1>11. \A boards : at \in Unsent(boards) => ~del /\ h.uns /\ h.board \in boards
    BY <1>4 DEF Unsent
  <1>12. Unsent(NetBoards) \subseteq net1 /\ Unsent(EchoBoards) \subseteq echo1
    <2>1. Unsent(NetBoards) \ {at} \subseteq net /\ Unsent(EchoBoards) \ {at} \subseteq echo
      BY <1>4, <1>8 DEF Scanned
    <2> QED BY <2>1, <1>11 DEF Updated
  <1>13. net1 \cup echo1 \subseteq Live
    <2>1. net \cup echo \subseteq Live \cup {at}
      BY <1>4, <1>8 DEF Scanned
    <2> QED BY <1>4, <2>1 DEF Updated
  <1> HIDE DEF net1, echo1
  <1>14. Scanned({})'
    BY <1>8, <1>9, <1>10, <1>12, <1>13 DEF Scanned
  <1>15. \E n, e : lists' = [d \in {Path, Syspath, Cwd} |-> Files(n, e)]
    <2>1. {Path, Syspath, Cwd} = {D}
      BY DEF OneDir
    <2> QED BY <1>7, <2>1, Zenon DEF Single
  <1>16. ListsLocal(p)'
    BY <1>3 DEF ListsLocal, Writing
  <1> QED BY <1>2, <1>3, <1>14, <1>15, <1>16, ListsWriting

LEMMA ListsStep == ASSUME OneDir, IInv, ListsInv, [Next]_hvars PROVE ListsInv'
  <1>1. CASE Next
    <2>1. PICK p \in Proc : Step(p)
      BY <1>1 DEF Next
    <2> QED BY <2>1, ListsCalls, ListsHdr, ListsIdx, ListsFinish DEF Step
  <1>2. CASE UNCHANGED hvars
    <2>1. UNCHANGED <<hdr, idx, lists, pc, op>>
      BY <1>2 DEF hvars, files
    <2> QED BY <2>1, ListsQuiet
  <1> QED BY <1>1, <1>2

LEMMA ListsFollow == ASSUME ListsInv PROVE ScanningFiles
  <1> SUFFICES ASSUME \A p \in Proc : ~Saving(p) PROVE Scanned({})
    BY DEF ScanningFiles, Scanned
  <1> QED BY DEF ListsInv, Saving, Writing

\* Where HUDSONPATH, HUDSONSYSPATH and the working directory are one, the files
\* for mailers name every unsent message and no deleted one, whenever nobody
\* saves (update_netecho).
THEOREM HudsonScanningFiles == ASSUME BaseAssumption, OneDir PROVE Spec => []ScanningFiles
  <1>1. Init => IInv /\ ListsInv
    BY InvInit, ListsInit
  <1>2. IInv /\ ListsInv /\ [Next]_hvars => (IInv /\ ListsInv)'
    BY InvStep, ListsStep
  <1>3. IInv /\ ListsInv => ScanningFiles
    BY ListsFollow
  <1> QED BY <1>1, <1>2, <1>3, PTL DEF Spec

-----------------------------------------------------------------------------
(***************************************************************************)
(* The personal mail scan, on boards of any number.                        *)
(***************************************************************************)
\* lastreadfound finds a lastread number that is there.
LEMMA FoundThere ==
    ASSUME NEW seq, NEW R, Rises(seq, R), NEW lr \in R
    PROVE  Found(seq, lr) = lr
  <1>1. /\ seq \in Seq(Nat) /\ DOMAIN seq = 1..Len(seq) /\ Len(seq) \in Nat
        /\ \A i, j \in 1..Len(seq) : i < j => seq[i] < seq[j]
    BY DEF Rises
  <1>2. PICK k \in 1..Len(seq) : seq[k] = lr
    BY <1>1 DEF Rises, Range
  <1> DEFINE below == {i \in DOMAIN seq : seq[i] < lr}
  <1>3. ASSUME NEW i \in 1..Len(seq) PROVE seq[i] < lr <=> i <= k - 1
    <2>1. i \in Int /\ k \in Int /\ seq[i] \in Nat /\ seq[k] \in Nat
      BY <1>1
    <2>2. (i < k => seq[i] < seq[k]) /\ (k < i => seq[k] < seq[i])
      BY <1>1
    <2> QED BY <1>2, <2>1, <2>2
  <1>4. below = 1..(k - 1)
    <2>1. k \in Int /\ k <= Len(seq)
      OBVIOUS
    <2> QED BY <1>1, <1>3, <2>1
  <1>5. Cardinality(below) = k - 1
    <2>1. Cardinality(1..(k - 1)) = IF 1 > k - 1 THEN 0 ELSE k - 1 - 1 + 1
      BY FS_Interval
    <2>2. k \in Int /\ k >= 1
      OBVIOUS
    <2> HIDE DEF below
    <2> QED BY <1>4, <2>1, <2>2
  <1> DEFINE at == 1 + Cardinality(below)
  <1>6. at = k
    <2> HIDE DEF below
    <2> QED BY <1>5
  <1>7. Found(seq, lr) = IF at > Len(seq) THEN 0
                         ELSE IF at = 1 /\ Len(seq) > 1 /\ seq[1] # lr THEN seq[2] ELSE seq[at]
    BY DEF Found
  <1> HIDE DEF at, below
  <1> QED BY <1>1, <1>2, <1>6, <1>7

\* While the lock is free the index ascends, and its numbers are listed.
LEMMA PmScanned ==
    ASSUME BaseAssumption, IInv, DOMAIN PMrk = Proc, NEW p \in Proc, ScanPm(p)
    PROVE  FindsPersonal
  <1>1. holder = NoProc /\ p \in DOMAIN PMrk
    BY DEF ScanPm
  <1>2. \A q \in Proc : ~Saving(q)
    BY <1>1 DEF IInv, MutualExclusion, BaseAssumption
  <1>3. Ascending(idx, info.high) /\ idx \in Seq(Places)
    BY <1>2 DEF IInv, IndexSound, Matched, Typed
  <1> DEFINE found == {i \in DOMAIN idx :
                /\ idx[i].msgno # DELETEDMSGNO
                /\ idx[i].msgno > Found(Numbers(idx, idx[i].board), lastrecs[p][idx[i].board])
                /\ hdr[i].id \in Personal}
  <1>4. PMrk' = [PMrk EXCEPT ![p] = found]
    BY DEF ScanPm
  <1> HIDE DEF found
  <1>5. PMrk'[p] = found /\ \A q \in Proc \ {p} : PMrk'[q] = PMrk[q]
    BY <1>1, <1>4
  <1>6. ASSUME NEW i \in Live, hdr[i].id \in Personal,
               idx[i].msgno > lastrecs[p][idx[i].board],
               NEW j \in Live, idx[j] = Entry(lastrecs[p][idx[i].board], idx[i].board)
        PROVE  i \in found
    <2> DEFINE b == idx[i].board  lr == lastrecs[p][b]
    <2>1. j \in Active(idx, b) /\ idx[j].msgno = lr
      BY <1>6 DEF Live, Active, Entry
    <2>2. lr \in Nums(idx, b)
      BY <2>1 DEF Nums
    <2> HIDE DEF lr
    <2>3. Rises(Numbers(idx, b), Nums(idx, b))
      BY <1>3, NumbersRise
    <2>4. Found(Numbers(idx, b), lr) = lr
      BY <2>2, <2>3, FoundThere
    <2> QED BY <1>6, <2>4 DEF found, Live, lr
  <1>7. FindsPersonal
    BY <1>5, <1>6, Zenon DEF FindsPersonal
  <1> QED BY <1>7

\* Nothing else touches the personal mail.
LEMMA PmStep ==
    ASSUME BaseAssumption, IInv, DOMAIN PMrk = Proc, [Next]_hvars
    PROVE  DOMAIN PMrk' = Proc /\ [FindsPersonal]_hvars
  <1>1. CASE UNCHANGED PMrk
    BY <1>1 DEF FindsPersonal
  <1>2. ASSUME NEW p \in Proc, Step(p), PMrk' # PMrk PROVE ScanPm(p)
    <2>1. ~ IndexErrorExit(p)
      BY <1>2 DEF IndexErrorExit
    <2>2. ~ Load(p)
      BY <1>2, <2>1, Zenon DEF Load
    <2>3. ~ TimesRead(p)
      BY <1>2, <2>1 DEF TimesRead
    <2>4. ASSUME NEW mode PROVE ~ Save(p, mode)
      BY <1>2, <2>1, Zenon DEF Save
    <2> QED BY <1>2, <2>2, <2>3, <2>4
            DEF Step, Open, OpenScan, Close, Suspend, Lock, Unlock, WriteHdr, WriteIdx, WriteInfo, Finish
  <1>3. ASSUME NEW p \in Proc, ScanPm(p) PROVE DOMAIN PMrk' = Proc /\ FindsPersonal
    <2>1. \E S : PMrk' = [PMrk EXCEPT ![p] = S]
      BY <1>3 DEF ScanPm
    <2> QED BY <1>3, <2>1, PmScanned
  <1>4. UNCHANGED hvars => UNCHANGED PMrk
    BY DEF hvars
  <1> QED BY <1>1, <1>2, <1>3, <1>4 DEF Next

\* A personal mail scan finds every message behind the lastread pointer of its
\* board, if the message lastread names is still there, whatever other programs
\* did (scan_pm, lastreadfound).
THEOREM HudsonFindsPersonal == ASSUME BaseAssumption PROVE Spec => [][FindsPersonal]_hvars
  <1>1. Init => IInv /\ DOMAIN PMrk = Proc
    BY InvInit DEF Init
  <1>2. IInv /\ DOMAIN PMrk = Proc /\ [Next]_hvars => (IInv /\ DOMAIN PMrk = Proc)'
    BY InvStep, PmStep
  <1>3. IInv /\ DOMAIN PMrk = Proc /\ [Next]_hvars => [FindsPersonal]_hvars
    BY PmStep
  <1> QED BY <1>1, <1>2, <1>3, PTL DEF Spec

-----------------------------------------------------------------------------
(***************************************************************************)
(* One program alone, with any boards: what each of its steps does to the  *)
(* files, its copies and its list, field by field.                         *)
(***************************************************************************)
OneProgram == \A p, q \in Proc : p = q

Shaped == /\ DOMAIN lastrecs = Proc /\ DOMAIN seen = Proc
          /\ \A p \in Proc : {"idx", "info", "lastrec", "board", "Msgn", "lastread"} \subseteq DOMAIN data[p]

\* The list, the position and the board stay.
SameList(p) == /\ data'[p].board = data[p].board /\ data'[p].Msgn = data[p].Msgn
               /\ data'[p].lastread = data[p].lastread
Pointers(p) == lastrecs'[p] = [data[p].lastrec EXCEPT ![data[p].board] = LastRead(data[p])]

ViewOpen(p) ==
    /\ pc[p] = "closed" /\ pc'[p] = "opening" /\ UNCHANGED <<hdr, idx, lastrecs, seen>>
    /\ msg'[p] = msg[p] /\ data'[p].idx = idx /\ data'[p].board \in Boards
ViewScan(p) ==
    /\ pc[p] = "opening" /\ pc'[p] = "idle" /\ UNCHANGED <<hdr, idx, lastrecs, seen>>
    /\ msg'[p] = msg[p] /\ data'[p].idx = data[p].idx /\ data'[p].board = data[p].board
    /\ data'[p].lastrec = lastrecs[p]
    /\ data'[p].Msgn = RawScan(data[p].idx, info, data[p].board)
    /\ data'[p].lastread = Position(data'[p].Msgn, lastrecs[p][data[p].board])
ViewEnd(p) ==
    /\ pc[p] = "idle" /\ pc'[p] = "closed" /\ UNCHANGED <<hdr, idx, lastrecs, seen>>
    /\ msg'[p] = NoHeader
    /\ \/ \E r \in DOMAIN data[p].Msgn : HdrIdx(data[p], data[p].Msgn[r]) = 0
       \/ msg[p].msgno # 0 /\ HdrIdx(Refresh(p), msg[p].msgno) = 0
ViewClose(p) ==
    /\ pc[p] = "idle" /\ pc'[p] = "closed" /\ UNCHANGED <<hdr, idx, seen>>
    /\ msg'[p] = NoHeader /\ Pointers(p)
ViewSuspend(p) ==
    /\ pc[p] = "idle" /\ pc'[p] = "idle" /\ UNCHANGED <<hdr, idx, seen>>
    /\ msg'[p] = msg[p] /\ data'[p].idx = data[p].idx /\ SameList(p)
    /\ Pointers(p) /\ data'[p].lastrec = lastrecs'[p]
ViewLoad(p) ==
    /\ pc[p] = "idle" /\ pc'[p] = "idle" /\ UNCHANGED <<hdr, idx, lastrecs>>
    /\ data'[p].idx = data[p].idx /\ data'[p].lastrec = data[p].lastrec
    /\ data'[p].board = data[p].board /\ data'[p].Msgn = data[p].Msgn
    /\ data'[p].lastread \in DOMAIN data[p].Msgn
    /\ msg'[p] = hdr[HdrIdx(data[p], data[p].Msgn[data'[p].lastread])]
    /\ seen'[p] = seen[p] \cup Passed(data'[p])
ViewStay(p) ==
    /\ pc[p] \in {"idle", "closed"} /\ pc'[p] = pc[p] /\ UNCHANGED <<hdr, idx, lastrecs, seen>>
    /\ msg'[p] = msg[p] /\ data'[p].idx \in {data[p].idx, idx} /\ SameList(p)
    /\ data'[p].lastrec \in {data[p].lastrec, lastrecs[p]}
ViewSave(p) ==
    /\ pc[p] = "idle" /\ pc'[p] = "header" /\ UNCHANGED <<hdr, idx, lastrecs, seen>>
    /\ msg'[p] = msg[p] /\ data'[p].idx = idx /\ data'[p].lastrec = lastrecs[p] /\ SameList(p)
    /\ op'[p].mode \in {"new", "hdr", "del"} /\ op'[p].hdr.board = data[p].board
    /\ op'[p].mode = "new" => op'[p].at = Len(hdr) + 1 /\ op'[p].hdr.id = Len(hdr) + 1
    /\ op'[p].mode # "new" =>
        /\ op'[p].hdr.msgno = msg[p].msgno /\ op'[p].hdr.id = msg[p].id /\ msg[p].msgno # 0
        /\ op'[p].at = HdrIdx(data'[p], msg[p].msgno)
ViewHdr(p) ==
    /\ pc[p] = "header" /\ pc'[p] = "index" /\ UNCHANGED <<idx, lastrecs, seen>>
    /\ hdr' = Put(hdr, op[p].at, op[p].hdr)
    /\ msg'[p] = msg[p] /\ op'[p] = op[p] /\ data'[p] = data[p]
NewEntry(p) == Entry(IF op[p].mode = "del" THEN DELETEDMSGNO ELSE op[p].hdr.msgno, op[p].hdr.board)
ViewIdx(p) ==
    /\ pc[p] = "index" /\ pc'[p] = "info" /\ UNCHANGED <<hdr, lastrecs, seen>>
    /\ idx' = Put(idx, op[p].at, NewEntry(p))
    /\ msg'[p] = msg[p] /\ op'[p] = op[p] /\ SameList(p) /\ data'[p].lastrec = data[p].lastrec
    /\ data'[p].idx = Put(data[p].idx, op[p].at, NewEntry(p))
ViewInfo(p) ==
    /\ pc[p] = "info" /\ pc'[p] = "lists" /\ UNCHANGED <<hdr, idx, lastrecs, seen>>
    /\ msg'[p] = msg[p] /\ op'[p] = op[p] /\ SameList(p)
    /\ data'[p].lastrec = data[p].lastrec /\ data'[p].idx = data[p].idx
ViewFinish(p) ==
    LET n == op[p].hdr.msgno IN
    /\ pc[p] = "lists" /\ pc'[p] = "idle" /\ UNCHANGED <<hdr, idx, lastrecs>>
    /\ msg'[p] = IF op[p].mode = "del" THEN NoHeader ELSE msg[p]
    /\ data'[p].idx = data[p].idx /\ data'[p].lastrec = data[p].lastrec
    /\ data'[p].board = data[p].board
    /\ \/ op[p].mode = "new" /\ data'[p].Msgn = Append(data[p].Msgn, n)
                             /\ data'[p].lastread = data[p].lastread
       \/ /\ op[p].mode = "del"
          /\ data'[p].Msgn = Chosen(data[p].Msgn, {i \in DOMAIN data[p].Msgn : data[p].Msgn[i] # n})
          /\ data'[p].lastread = 0 \/ \E x : data'[p].lastread = Position(data'[p].Msgn, x)
       \/ op[p].mode \notin {"new", "del"} /\ SameList(p)
    /\ seen'[p] = seen[p] \cup Passed(data'[p])

View(p) ==
    \/ ViewOpen(p) \/ ViewScan(p) \/ ViewEnd(p) \/ ViewClose(p) \/ ViewSuspend(p) \/ ViewLoad(p)
    \/ ViewStay(p) \/ ViewSave(p) \/ ViewHdr(p) \/ ViewIdx(p) \/ ViewInfo(p) \/ ViewFinish(p)

LEMMA Unaltered ==
    ASSUME NEW d, {"idx", "info", "lastrec", "board", "Msgn", "lastread"} \subseteq DOMAIN d,
           NEW v, NEW w
    PROVE  /\ LET e == [d EXCEPT !.info = v] IN
                /\ DOMAIN e = DOMAIN d /\ e.idx = d.idx /\ e.lastrec = d.lastrec /\ e.board = d.board
                /\ e.Msgn = d.Msgn /\ e.lastread = d.lastread
           /\ LET e == [d EXCEPT !.idx = v] IN
                /\ DOMAIN e = DOMAIN d /\ e.idx = v /\ e.lastrec = d.lastrec /\ e.board = d.board
                /\ e.Msgn = d.Msgn /\ e.lastread = d.lastread
           /\ LET e == [d EXCEPT !.lastrec = v] IN
                /\ DOMAIN e = DOMAIN d /\ e.idx = d.idx /\ e.lastrec = v /\ e.board = d.board
                /\ e.Msgn = d.Msgn /\ e.lastread = d.lastread
           /\ LET e == [d EXCEPT !.lastread = v] IN
                /\ DOMAIN e = DOMAIN d /\ e.idx = d.idx /\ e.lastrec = d.lastrec /\ e.board = d.board
                /\ e.Msgn = d.Msgn /\ e.lastread = v
           /\ LET e == [d EXCEPT !.Msgn = v] IN
                /\ DOMAIN e = DOMAIN d /\ e.idx = d.idx /\ e.lastrec = d.lastrec /\ e.board = d.board
                /\ e.Msgn = v /\ e.lastread = d.lastread
           /\ LET e == [d EXCEPT !.board = v, !.idx = w] IN
                DOMAIN e = DOMAIN d /\ e.idx = w /\ e.board = v
           /\ LET e == [d EXCEPT !.Msgn = v, !.lastread = w] IN
                /\ DOMAIN e = DOMAIN d /\ e.idx = d.idx /\ e.lastrec = d.lastrec /\ e.board = d.board
                /\ e.Msgn = v /\ e.lastread = w
  OBVIOUS

LEMMA RefreshedAll ==
    ASSUME Shaped, NEW p \in Proc
    PROVE  LET d == Refresh(p) IN
           /\ DOMAIN d = DOMAIN data[p] /\ d.idx = idx /\ d.lastrec = lastrecs[p]
           /\ d.board = data[p].board /\ d.Msgn = data[p].Msgn /\ d.lastread = data[p].lastread
  BY DEF Shaped, Refresh

\* If a step changes one program's copies, keeping their fields, all are well shaped.
LEMMA ShapedStep ==
    ASSUME Shaped, NEW p \in Proc, NEW d, data' = [data EXCEPT ![p] = d],
           DOMAIN data = Proc,
           {"idx", "info", "lastrec", "board", "Msgn", "lastread"} \subseteq DOMAIN d,
           DOMAIN lastrecs' = Proc, DOMAIN seen' = Proc
    PROVE  Shaped' /\ data'[p] = d
  BY DEF Shaped

LEMMA ViewStep ==
    ASSUME IInv, Shaped, NEW p \in Proc, Step(p)
    PROVE  View(p) /\ Shaped'
  <1> USE DEF View
  <1> DEFINE Fields == {"idx", "info", "lastrec", "board", "Msgn", "lastread"}
  <1>1. /\ DOMAIN pc = Proc /\ DOMAIN data = Proc /\ DOMAIN op = Proc /\ DOMAIN msg = Proc
        /\ DOMAIN lastrecs = Proc /\ DOMAIN seen = Proc /\ Fields \subseteq DOMAIN data[p]
    BY DEF IInv, Typed, Shaped
  <1>2. Fields \subseteq DOMAIN Refresh(p)
    BY <1>1, RefreshedAll
  <1>3. Fields \subseteq DOMAIN NoData
    BY DEF NoData
  <1>4. ASSUME IndexErrorExit(p), pc[p] = "idle",
               \/ \E r \in DOMAIN data[p].Msgn : HdrIdx(data[p], data[p].Msgn[r]) = 0
               \/ msg[p].msgno # 0 /\ HdrIdx(Refresh(p), msg[p].msgno) = 0
        PROVE  View(p) /\ Shaped'
    <2>1. /\ pc' = [pc EXCEPT ![p] = "closed"] /\ data' = [data EXCEPT ![p] = NoData]
          /\ msg' = [msg EXCEPT ![p] = NoHeader] /\ UNCHANGED <<hdr, idx, lastrecs, seen>>
      BY <1>4 DEF IndexErrorExit, files
    <2>2. ViewEnd(p)
      BY <1>1, <1>4, <2>1 DEF ViewEnd
    <2>3. Shaped'
      BY <1>1, <1>3, <2>1, ShapedStep
    <2> QED BY <2>2, <2>3
  <1>5. CASE Open(p)
    <2>1. PICK b \in Boards : data' = [data EXCEPT ![p] = [data[p] EXCEPT !.board = b, !.idx = idx]]
      BY <1>1, <1>5 DEF Open
    <2> DEFINE d == [data[p] EXCEPT !.board = b, !.idx = idx]
    <2>2. DOMAIN d = DOMAIN data[p] /\ d.idx = idx /\ d.board = b
      BY <1>1, Unaltered
    <2> HIDE DEF d
    <2>3. /\ pc[p] = "closed" /\ pc' = [pc EXCEPT ![p] = "opening"]
          /\ UNCHANGED <<hdr, idx, lastrecs, seen, msg>>
      BY <1>5 DEF Open, files
    <2>4. Shaped' /\ data'[p] = d
      BY <1>1, <2>1, <2>2, <2>3, ShapedStep DEF d
    <2>5. ViewOpen(p)
      BY <1>1, <2>2, <2>3, <2>4 DEF ViewOpen
    <2> QED BY <2>4, <2>5
  <1>6. CASE OpenScan(p)
    <2> DEFINE m == RawScan(data[p].idx, info, data[p].board)
               l == Position(m, lastrecs[p][data[p].board])
               d == [data[p] EXCEPT !.info = info, !.lastrec = lastrecs[p],
                                    !.Msgn = m, !.lastread = l]
    <2>1. data' = [data EXCEPT ![p] = d]
      BY <1>6 DEF OpenScan
    <2>2. /\ pc[p] = "opening" /\ pc' = [pc EXCEPT ![p] = "idle"]
          /\ UNCHANGED <<hdr, idx, lastrecs, seen, msg>>
      BY <1>6 DEF OpenScan, files
    <2> HIDE DEF m, l
    <2>3. /\ DOMAIN d = DOMAIN data[p] /\ d.idx = data[p].idx /\ d.board = data[p].board
          /\ d.lastrec = lastrecs[p] /\ d.Msgn = m /\ d.lastread = l
      BY <1>1
    <2> HIDE DEF d
    <2>4. Shaped' /\ data'[p] = d
      BY <1>1, <2>1, <2>2, <2>3, ShapedStep
    <2>5. ViewScan(p)
      BY <1>1, <2>2, <2>3, <2>4 DEF ViewScan, m, l
    <2> QED BY <2>4, <2>5
  <1>7. CASE Close(p)
    <2>1. /\ pc[p] = "idle" /\ pc' = [pc EXCEPT ![p] = "closed"] /\ data' = [data EXCEPT ![p] = NoData]
          /\ msg' = [msg EXCEPT ![p] = NoHeader] /\ SaveLastread(p) /\ UNCHANGED <<hdr, idx, seen>>
      BY <1>7 DEF Close
    <2>2. DOMAIN lastrecs' = Proc /\ Pointers(p)
      BY <1>1, <2>1 DEF SaveLastread, Pointers
    <2>3. ViewClose(p)
      BY <1>1, <2>1, <2>2 DEF ViewClose
    <2>4. Shaped'
      BY <1>1, <1>3, <2>1, <2>2, ShapedStep
    <2> QED BY <2>3, <2>4
  <1>8. CASE Suspend(p)
    <2> DEFINE v == lastrecs'[p]
               d == [data[p] EXCEPT !.lastrec = v]
    <2>1. /\ pc[p] = "idle" /\ SaveLastread(p) /\ UNCHANGED <<hdr, idx, seen, pc, msg>>
          /\ data' = [data EXCEPT ![p] = d]
      BY <1>8 DEF Suspend
    <2>2. DOMAIN lastrecs' = Proc /\ Pointers(p)
      BY <1>1, <2>1 DEF SaveLastread, Pointers
    <2> HIDE DEF v
    <2>3. /\ DOMAIN d = DOMAIN data[p] /\ d.idx = data[p].idx /\ d.board = data[p].board
          /\ d.lastrec = v /\ d.Msgn = data[p].Msgn /\ d.lastread = data[p].lastread
      BY <1>1, Unaltered
    <2> HIDE DEF d
    <2>4. Shaped' /\ data'[p] = d
      BY <1>1, <2>1, <2>2, <2>3, ShapedStep
    <2>5. ViewSuspend(p)
      BY <2>1, <2>2, <2>3, <2>4 DEF ViewSuspend, SameList, v
    <2> QED BY <2>4, <2>5
  <1>9. CASE Load(p)
    <2>0. pc[p] = "idle"
      BY <1>9 DEF Load
    <2>1. PICK r \in DOMAIN data[p].Msgn :
            LET d == [data[p] EXCEPT !.lastread = r]
                i == HdrIdx(d, d.Msgn[r])
            IN  IF i = 0 THEN IndexErrorExit(p)
                ELSE /\ data' = [data EXCEPT ![p] = d]
                     /\ msg' = [msg EXCEPT ![p] = hdr[i]]
                     /\ seen' = [seen EXCEPT ![p] = @ \cup Passed(d)]
                     /\ UNCHANGED <<files, holder, islocked, pc, op, PMrk>>
      BY <1>9 DEF Load
    <2> DEFINE d == [data[p] EXCEPT !.lastread = r]
    <2>2. /\ DOMAIN d = DOMAIN data[p] /\ d.idx = data[p].idx /\ d.board = data[p].board
          /\ d.lastrec = data[p].lastrec /\ d.Msgn = data[p].Msgn /\ d.lastread = r
      BY <1>1, Unaltered
    <2> DEFINE i == HdrIdx(d, d.Msgn[r])
    <2>3. i = HdrIdx(data[p], data[p].Msgn[r])
      <3> HIDE DEF d
      <3> QED BY <2>2 DEF HdrIdx
    <2>4. CASE i = 0
      BY <1>4, <2>0, <2>1, <2>3, <2>4
    <2>5. CASE i # 0
      <3>1. /\ data' = [data EXCEPT ![p] = d] /\ msg' = [msg EXCEPT ![p] = hdr[i]]
            /\ seen' = [seen EXCEPT ![p] = seen[p] \cup Passed(d)]
            /\ UNCHANGED <<hdr, idx, lastrecs, pc>>
        BY <2>1, <2>5 DEF files
      <3> HIDE DEF d
      <3>2. Shaped' /\ data'[p] = d
        BY <1>1, <2>2, <3>1, ShapedStep
      <3>3. msg'[p] = hdr[i] /\ seen'[p] = seen[p] \cup Passed(d)
        BY <1>1, <3>1
      <3> HIDE DEF i
      <3>5. ViewLoad(p)
        BY <2>0, <2>2, <2>3, <3>1, <3>2, <3>3 DEF ViewLoad
      <3> QED BY <3>2, <3>5
    <2> QED BY <2>4, <2>5
  <1>10. CASE Lock(p) \/ Unlock(p) \/ ScanPm(p)
    <2>1. /\ pc[p] \in {"idle", "closed"} /\ UNCHANGED <<hdr, idx, lastrecs, seen, pc, msg>>
          /\ data' = [data EXCEPT ![p] = Refresh(p)] \/ data' = data
      BY <1>10 DEF Lock, Unlock, ScanPm, files
    <2>2. CASE data' = data
      BY <1>1, <2>1, <2>2 DEF Shaped, ViewStay, SameList
    <2>3. CASE data' = [data EXCEPT ![p] = Refresh(p)]
      <3>1. Shaped' /\ data'[p] = Refresh(p)
        BY <1>1, <1>2, <2>1, <2>3, ShapedStep
      <3>2. ViewStay(p)
        BY <2>1, <3>1, RefreshedAll DEF ViewStay, SameList
      <3> QED BY <3>1, <3>2
    <2> QED BY <2>1, <2>2, <2>3
  <1>11. CASE TimesRead(p)
    <2>1. pc[p] = "idle" /\ msg[p].msgno # 0
      BY <1>11 DEF TimesRead
    <2>2. CASE HdrIdx(Refresh(p), msg[p].msgno) = 0
      BY <1>4, <1>11, <2>1, <2>2 DEF TimesRead
    <2>3. CASE HdrIdx(Refresh(p), msg[p].msgno) # 0
      <3>1. data' = [data EXCEPT ![p] = Refresh(p)] /\ UNCHANGED <<hdr, idx, lastrecs, seen, pc, msg>>
        BY <1>11, <2>3 DEF TimesRead, files
      <3>2. Shaped' /\ data'[p] = Refresh(p)
        BY <1>1, <1>2, <3>1, ShapedStep
      <3>3. ViewStay(p)
        BY <2>1, <3>1, <3>2, RefreshedAll DEF ViewStay, SameList
      <3> QED BY <3>2, <3>3
    <2> QED BY <2>2, <2>3
  <1>12. ASSUME NEW mode \in {"new", "hdr", "del"}, Save(p, mode) PROVE View(p) /\ Shaped'
    <2>0. pc[p] = "idle" /\ (mode # "new" => msg[p].msgno # 0)
      BY <1>12 DEF Save
    <2> DEFINE d == Refresh(p)
    <2>1. PICK uns :
            LET place == Place(p, d, mode, uns)
            IN  IF place.at = 0 THEN IndexErrorExit(p)
                ELSE /\ holder' = p
                     /\ data' = [data EXCEPT ![p] = d]
                     /\ op' = [op EXCEPT ![p] = place]
                     /\ pc' = [pc EXCEPT ![p] = "header"]
                     /\ UNCHANGED <<files, islocked, msg, seen, PMrk>>
      BY <1>12, Zenon DEF Save
    <2> DEFINE place == Place(p, d, mode, uns)
    <2>2. /\ place.mode = mode /\ place.hdr.board = d.board
          /\ mode # "new" => /\ place.at = HdrIdx(d, msg[p].msgno)
                             /\ place.hdr.msgno = msg[p].msgno /\ place.hdr.id = msg[p].id
          /\ mode = "new" => place.at = Len(hdr) + 1 /\ place.hdr.id = Len(hdr) + 1
      BY DEF Place, Header
    <2> HIDE DEF place
    <2>3. CASE place.at = 0
      <3>1. mode # "new"
        <4>1. Len(hdr) \in Nat
          BY DEF IInv, Typed
        <4> QED BY <2>2, <2>3, <4>1
      <3> QED BY <1>4, <2>0, <2>1, <2>2, <2>3, <3>1 DEF place
    <2>4. CASE place.at # 0
      <3>1. /\ data' = [data EXCEPT ![p] = d] /\ op' = [op EXCEPT ![p] = place]
            /\ pc' = [pc EXCEPT ![p] = "header"] /\ UNCHANGED <<hdr, idx, lastrecs, seen, msg>>
        BY <2>1, <2>4 DEF files, place
      <3> HIDE DEF d
      <3>2. Shaped' /\ data'[p] = d
        BY <1>1, <1>2, <3>1, ShapedStep DEF d
      <3>3. op'[p] = place /\ pc'[p] = "header"
        BY <1>1, <3>1
      <3>4. /\ d.idx = idx /\ d.lastrec = lastrecs[p] /\ d.board = data[p].board
            /\ d.Msgn = data[p].Msgn /\ d.lastread = data[p].lastread
        BY RefreshedAll DEF d
      <3>5. ViewSave(p)
        BY <2>0, <2>2, <3>1, <3>2, <3>3, <3>4 DEF ViewSave, SameList
      <3> QED BY <3>2, <3>5
    <2> QED BY <2>3, <2>4
  <1>13. CASE WriteHdr(p)
    <2>1. /\ pc[p] = "header" /\ pc' = [pc EXCEPT ![p] = "index"] /\ hdr' = Put(hdr, op[p].at, op[p].hdr)
          /\ UNCHANGED <<idx, lastrecs, seen, msg, op, data>>
      BY <1>13 DEF WriteHdr
    <2> QED BY <1>1, <2>1 DEF Shaped, ViewHdr
  <1>14. CASE WriteIdx(p)
    <2> DEFINE x == Put(data[p].idx, op[p].at, NewEntry(p))
               d == [data[p] EXCEPT !.idx = x]
    <2>1. /\ pc[p] = "index" /\ pc' = [pc EXCEPT ![p] = "info"]
          /\ idx' = Put(idx, op[p].at, NewEntry(p)) /\ data' = [data EXCEPT ![p] = d]
          /\ UNCHANGED <<hdr, lastrecs, seen, msg, op>>
      BY <1>14 DEF WriteIdx, NewEntry
    <2> HIDE DEF x
    <2>2. /\ DOMAIN d = DOMAIN data[p] /\ d.idx = x /\ d.board = data[p].board
          /\ d.lastrec = data[p].lastrec /\ d.Msgn = data[p].Msgn /\ d.lastread = data[p].lastread
      BY <1>1, Unaltered
    <2> HIDE DEF d
    <2>3. Shaped' /\ data'[p] = d
      BY <1>1, <2>1, <2>2, ShapedStep
    <2>4. ViewIdx(p)
      BY <1>1, <2>1, <2>2, <2>3 DEF ViewIdx, SameList, x
    <2> QED BY <2>3, <2>4
  <1>15. CASE WriteInfo(p)
    <2> DEFINE x == info'
               d == [data[p] EXCEPT !.info = x]
    <2>1. /\ pc[p] = "info" /\ pc' = [pc EXCEPT ![p] = "lists"] /\ data' = [data EXCEPT ![p] = d]
          /\ UNCHANGED <<hdr, idx, lastrecs, seen, msg, op>>
      BY <1>15 DEF WriteInfo
    <2> HIDE DEF x
    <2>2. /\ DOMAIN d = DOMAIN data[p] /\ d.idx = data[p].idx /\ d.board = data[p].board
          /\ d.lastrec = data[p].lastrec /\ d.Msgn = data[p].Msgn /\ d.lastread = data[p].lastread
      BY <1>1, Unaltered
    <2> HIDE DEF d
    <2>3. Shaped' /\ data'[p] = d
      BY <1>1, <2>1, <2>2, ShapedStep
    <2>4. ViewInfo(p)
      BY <1>1, <2>1, <2>2, <2>3 DEF ViewInfo, SameList
    <2> QED BY <2>3, <2>4
  <1>16. CASE Finish(p)
    <2> DEFINE n == op[p].hdr.msgno
               D(l) == CASE op[p].mode = "new" -> [data[p] EXCEPT !.Msgn = Append(@, n)]
                         [] op[p].mode = "del" -> Without(data[p], n, l)
                         [] OTHER              -> data[p]
    <2>1. PICK l : /\ data' = [data EXCEPT ![p] = D(l)]
                   /\ seen' = [seen EXCEPT ![p] = @ \cup Passed(D(l))]
      BY <1>16, Zenon DEF Finish
    <2> DEFINE d == D(l)
    <2>2. /\ pc[p] = "lists" /\ pc' = [pc EXCEPT ![p] = "idle"] /\ UNCHANGED <<hdr, idx, lastrecs>>
          /\ msg' = [msg EXCEPT ![p] = IF op[p].mode = "del" THEN NoHeader ELSE msg[p]]
      BY <1>16 DEF Finish
    <2>3. /\ DOMAIN d = DOMAIN data[p] /\ d.idx = data[p].idx /\ d.board = data[p].board
          /\ d.lastrec = data[p].lastrec
          /\ \/ op[p].mode = "new" /\ d.Msgn = Append(data[p].Msgn, n) /\ d.lastread = data[p].lastread
             \/ /\ op[p].mode = "del"
                /\ d.Msgn = Chosen(data[p].Msgn, {i \in DOMAIN data[p].Msgn : data[p].Msgn[i] # n})
                /\ d.lastread = 0 \/ \E x : d.lastread = Position(d.Msgn, x)
             \/ op[p].mode \notin {"new", "del"} /\ d = data[p]
      <3>1. CASE op[p].mode = "new"
        <4> DEFINE m == Append(data[p].Msgn, n)
        <4>1. d = [data[p] EXCEPT !.Msgn = m]
          BY <3>1
        <4> HIDE DEF d, m
        <4> QED BY <1>1, <3>1, <4>1, Unaltered DEF m
      <3>2. CASE op[p].mode = "del"
        <4> DEFINE m == Chosen(data[p].Msgn, {i \in DOMAIN data[p].Msgn : data[p].Msgn[i] # n})
                   r == IF l = 0 THEN 0 ELSE Position(m, data[p].Msgn[l])
        <4>1. d = [data[p] EXCEPT !.Msgn = m, !.lastread = r]
          BY <3>2 DEF Without
        <4>2. r = 0 \/ \E x : r = Position(m, x)
          OBVIOUS
        <4> HIDE DEF d, m, r
        <4>3. /\ DOMAIN d = DOMAIN data[p] /\ d.idx = data[p].idx /\ d.board = data[p].board
              /\ d.lastrec = data[p].lastrec /\ d.Msgn = m /\ d.lastread = r
          BY <1>1, <4>1, Unaltered
        <4> QED BY <3>2, <4>2, <4>3 DEF m
      <3>3. CASE op[p].mode \notin {"new", "del"}
        BY <3>3
      <3> QED BY <3>1, <3>2, <3>3
    <2>4. data' = [data EXCEPT ![p] = d] /\ seen' = [seen EXCEPT ![p] = seen[p] \cup Passed(d)]
      BY <2>1
    <2> HIDE DEF d, D
    <2>5. Shaped' /\ data'[p] = d
      BY <1>1, <2>2, <2>3, <2>4, ShapedStep
    <2>6. seen'[p] = seen[p] \cup Passed(d) /\ pc'[p] = "idle"
          /\ msg'[p] = IF op[p].mode = "del" THEN NoHeader ELSE msg[p]
      BY <1>1, <2>2, <2>4
    <2>7. ViewFinish(p)
      BY <2>2, <2>3, <2>5, <2>6 DEF ViewFinish, SameList
    <2> QED BY <2>5, <2>7
  <1> HIDE DEF View
  <1> QED BY <1>5, <1>6, <1>7, <1>8, <1>9, <1>10, <1>11, <1>12, <1>13, <1>14, <1>15, <1>16 DEF Step

-----------------------------------------------------------------------------
(***************************************************************************)
(* One program alone, with any boards: its list is that of its board, and  *)
(* the message it has loaded is there.                                     *)
(***************************************************************************)
\* A number that is there is there once, over all boards, and get_hdr_idx finds it.
LEMMA NumberOnce ==
    ASSUME NEW x \in Seq(Places), NEW high, Ascending(x, high),
           NEW i \in DOMAIN x, x[i].msgno # DELETEDMSGNO
    PROVE  /\ \A j \in DOMAIN x : x[j].msgno = x[i].msgno => j = i
           /\ \A d : d.idx = x => HdrIdx(d, x[i].msgno) = i
  <1>1. DOMAIN x = 1..Len(x) /\ Len(x) \in Nat /\ \A j \in DOMAIN x : x[j].msgno \in Nat
    BY NumbersRise
  <1>2. ASSUME NEW j \in DOMAIN x, x[j].msgno = x[i].msgno PROVE j = i
    <2>1. i \in Int /\ j \in Int /\ x[i].msgno \in Nat
      BY <1>1
    <2>2. CASE j < i
      <3>1. j \in 1..(i - 1)
        BY <1>1, <2>2
      <3> QED BY <1>2, <2>1, <3>1 DEF Ascending
    <2>3. CASE i < j
      <3>1. i \in 1..(j - 1) /\ x[j].msgno # DELETEDMSGNO
        BY <1>1, <1>2, <2>3
      <3> QED BY <1>2, <2>1, <3>1 DEF Ascending
    <2> QED BY <2>1, <2>2, <2>3
  <1>3. First(x, x[i].msgno) = {i}
    <2>1. ASSUME NEW j \in 1..(i - 1) PROVE x[j].msgno # x[i].msgno
      <3>1. j \in DOMAIN x /\ j # i
        BY <1>1
      <3> QED BY <1>2, <3>1
    <2> QED BY <1>2, <2>1 DEF First
  <1>4. ASSUME NEW d, d.idx = x PROVE HdrIdx(d, x[i].msgno) = i
    BY <1>3, <1>4 DEF HdrIdx
  <1> QED BY <1>2, <1>4

\* raw_scan lists all numbers, if msginfo counts them all.
LEMMA RawScanAll ==
    ASSUME NEW x \in Seq(Places), NEW high, Ascending(x, high), NEW inf, NEW b,
           inf.active[b] = Cardinality(Active(x, b))
    PROVE  Rises(RawScan(x, inf, b), Nums(x, b))
  <1> DEFINE all == Numbers(x, b)  c == inf.active[b]
  <1>1. Rises(all, Nums(x, b)) /\ c = Len(all)
    BY NumbersRise, NumbersCounted
  <1>2. all \in Seq(Nat)
    BY <1>1 DEF Rises
  <1>3. RawScan(x, inf, b) = IF c \in 1..Len(all) THEN SubSeq(all, 1, c) ELSE all
    BY DEF RawScan
  <1> HIDE DEF all, c
  <1>4. SubSeq(all, 1, c) = all
    BY <1>1, <1>2
  <1> QED BY <1>1, <1>3, <1>4

\* The numbers of a board after a write of the index: one new at its end, ...
LEMMA PutElse ==
    ASSUME NEW x \in Seq(Places), NEW at \in 1..(Len(x) + 1), NEW e \in Places
    PROVE  /\ \A i \in DOMAIN x : i # at => Put(x, at, e)[i] = x[i]
           /\ Put(x, at, e)[at] = e
           /\ DOMAIN x \subseteq DOMAIN Put(x, at, e)
  <1> DEFINE new == Put(x, at, e)
  <1>1. /\ DOMAIN new = 1..Len(new)
        /\ Len(new) = IF at = Len(x) + 1 THEN at ELSE Len(x)
        /\ \A i \in 1..Len(new) : new[i] = IF i = at THEN e ELSE x[i]
    BY PutFacts
  <1>2. DOMAIN x = 1..Len(x) /\ Len(x) \in Nat
    OBVIOUS
  <1> HIDE DEF new
  <1>3. DOMAIN x \subseteq DOMAIN new /\ at \in DOMAIN new
    BY <1>1, <1>2
  <1> QED BY <1>1, <1>3 DEF new

LEMMA NumsAdded ==
    ASSUME NEW x \in Seq(Places), NEW at \in 1..(Len(x) + 1), NEW e \in Places,
           at = Len(x) + 1, e.msgno # DELETEDMSGNO
    PROVE  Nums(Put(x, at, e), e.board) = Nums(x, e.board) \cup {e.msgno}
  <1> DEFINE new == Put(x, at, e)  b == e.board
  <1>1. /\ \A i \in DOMAIN x : i # at => new[i] = x[i]
        /\ new[at] = e
    BY PutElse
  <1>2. Active(new, b) = Active(x, b) \cup {at}
    BY PutActive
  <1>3. DOMAIN x = 1..Len(x) /\ Len(x) \in Nat /\ Active(x, b) \subseteq DOMAIN x
    BY DEF Active
  <1> HIDE DEF new, b
  <1>4. \A i \in Active(x, b) : new[i] = x[i]
    BY <1>1, <1>3
  <1> QED BY <1>1, <1>2, <1>4 DEF Nums, new, b

\* ... one taken away, ...
LEMMA NumsRemoved ==
    ASSUME NEW x \in Seq(Places), NEW high, Ascending(x, high), NEW b,
           NEW at \in Active(x, b), NEW e \in Places, e.msgno = DELETEDMSGNO
    PROVE  Nums(Put(x, at, e), b) = Nums(x, b) \ {x[at].msgno}
  <1> DEFINE new == Put(x, at, e)
  <1>0. at \in 1..(Len(x) + 1) /\ at \in DOMAIN x
    BY DEF Active
  <1>1. \A i \in DOMAIN x : i # at => new[i] = x[i]
    BY <1>0, PutElse
  <1>2. Active(new, b) = Active(x, b) \ {at}
    BY <1>0, PutActive
  <1> HIDE DEF new
  <1>3. \A i \in Active(x, b) \ {at} : new[i] = x[i]
    BY <1>1 DEF Active
  <1>4. \A i \in Active(x, b) : x[i].msgno = x[at].msgno <=> i = at
    BY NumbersRise
  <1> QED BY <1>2, <1>3, <1>4 DEF Nums, new

\* ... or one written again.
LEMMA NumsSame ==
    ASSUME NEW x \in Seq(Places), NEW b, NEW at \in Active(x, b), NEW e \in Places,
           e.board = b, e.msgno = x[at].msgno
    PROVE  Nums(Put(x, at, e), b) = Nums(x, b)
  <1> DEFINE new == Put(x, at, e)
  <1>0. at \in 1..(Len(x) + 1) /\ at \in DOMAIN x /\ e.msgno # DELETEDMSGNO
    BY DEF Active
  <1>1. new[at] = e /\ \A i \in DOMAIN x : i # at => new[i] = x[i]
    BY <1>0, PutElse
  <1>2. Active(new, b) = Active(x, b)
    <2>1. Active(new, b) = Active(x, b) \cup {at}
      BY <1>0, PutActive
    <2> QED BY <2>1
  <1> HIDE DEF new
  <1>3. \A i \in Active(x, b) : new[i].msgno = x[i].msgno
    BY <1>1 DEF Active
  <1> QED BY <1>2, <1>3 DEF Nums, new

\* The message it has loaded is in its board, under its number.
Mine(p) == \E i \in Active(idx, data[p].board) :
                idx[i].msgno = msg[p].msgno /\ hdr[i].id = msg[p].id

ListLocal(p) ==
    LET b == data[p].board  n == op[p].hdr.msgno  mode == op[p].mode
        list == data[p].Msgn  R == Range(data[p].Msgn)
    IN  /\ pc[p] \in {"closed", "opening"} => msg[p].msgno = 0
        /\ pc[p] # "closed" => data[p].idx = idx /\ b \in Boards
        /\ pc[p] \in {"idle", "header", "index"} => Rises(list, Nums(idx, b))
        /\ pc[p] \in {"info", "lists"} =>
            /\ Rises(list, R)
            /\ mode = "new" => Nums(idx, b) = R \cup {n} /\ \A m \in R : m < n
            /\ mode = "del" => Nums(idx, b) = R \ {n}
            /\ mode \notin {"new", "del"} => Nums(idx, b) = R
        /\ msg[p].msgno # 0 /\ ~(pc[p] \in {"info", "lists"} /\ mode = "del") => Mine(p)
        /\ Saving(p) =>
            /\ op[p].hdr.board = b
            /\ mode # "new" => n = msg[p].msgno /\ op[p].hdr.id = msg[p].id
        /\ pc[p] \in {"header", "index"} /\ mode # "new" =>
            op[p].at \in Active(idx, b) /\ hdr[op[p].at].id = op[p].hdr.id

\* The index ascends at all times, the program being alone.
LEMMA AlwaysAscends ==
    ASSUME OneProgram, IInv, NEW p \in Proc
    PROVE  /\ \E high : Ascending(idx, high)
           /\ ~Saving(p) => Matched(hdr, idx, info.high)
           /\ idx \in Seq(Places) /\ hdr \in Seq(Headers)
           /\ DOMAIN idx = 1..Len(idx) /\ Len(idx) \in Nat /\ Len(idx) <= Len(hdr)
  <1>1. idx \in Seq(Places) /\ hdr \in Seq(Headers) /\ Len(idx) <= Len(hdr)
    BY DEF IInv, Typed
  <1>2. CASE ~Saving(p)
    <2>1. \A q \in Proc : ~Saving(q)
      BY <1>2 DEF OneProgram
    <2> QED BY <1>1, <1>2, <2>1 DEF IInv, IndexSound, Matched
  <1>3. CASE Saving(p)
    <2>1. LocalInv(p)
      BY DEF IInv
    <2> QED BY <1>1, <1>3, <2>1 DEF Saving, LocalInv, Matched
  <1> QED BY <1>2, <1>3

LEMMA ListOpens ==
    ASSUME OneProgram, IInv, CountInv, NEW p \in Proc, ListLocal(p),
           ViewOpen(p) \/ ViewScan(p) \/ ViewEnd(p) \/ ViewClose(p)
    PROVE  ListLocal(p)'
  <1>1. NoHeader.msgno = 0
    BY DEF NoHeader, Header
  <1>2. CASE ViewOpen(p)
    BY <1>2 DEF ViewOpen, ListLocal, Saving
  <1>3. CASE ViewScan(p)
    <2> DEFINE b == data[p].board
    <2>1. b \in Boards /\ data[p].idx = idx /\ msg[p].msgno = 0
      BY <1>3 DEF ViewScan, ListLocal
    <2>2. info.active[b] = Cardinality(Active(idx, b))
      <3>1. \A q \in Proc : pc[q] # "info"
        BY <1>3 DEF ViewScan, OneProgram
      <3> QED BY <2>1, <3>1 DEF CountInv, Counted
    <2>3. Rises(RawScan(idx, info, b), Nums(idx, b))
      BY <2>2, AlwaysAscends, RawScanAll
    <2> QED BY <1>3, <2>1, <2>3 DEF ViewScan, ListLocal, Saving
  <1>4. CASE ViewEnd(p) \/ ViewClose(p)
    BY <1>1, <1>4 DEF ViewEnd, ViewClose, ListLocal, Saving
  <1> QED BY <1>2, <1>3, <1>4

\* What does not write.
LEMMA ListCalls ==
    ASSUME OneProgram, IInv, NEW p \in Proc, ListLocal(p),
           ViewSuspend(p) \/ ViewLoad(p) \/ ViewStay(p) \/ ViewSave(p)
    PROVE  ListLocal(p)'
  <1>1. CASE ViewSuspend(p)
    BY <1>1 DEF ViewSuspend, ListLocal, Saving, SameList, Mine, Active
  <1>2. CASE ViewStay(p)
    BY <1>2 DEF ViewStay, ListLocal, Saving, SameList, Mine, Active
  <1>3. CASE ViewLoad(p)
    <2> DEFINE b == data[p].board
               n == data[p].Msgn[data'[p].lastread]
    <2>1. /\ pc[p] = "idle" /\ data[p].idx = idx /\ b \in Boards
          /\ Rises(data[p].Msgn, Nums(idx, b))
      BY <1>3 DEF ViewLoad, ListLocal
    <2>2. n \in Nums(idx, b)
      BY <1>3, <2>1 DEF ViewLoad, Rises, Range
    <2>3. PICK i \in Active(idx, b) : n = idx[i].msgno
      BY <2>2 DEF Nums
    <2>4. i \in DOMAIN idx /\ idx[i].msgno # DELETEDMSGNO
      BY DEF Active
    <2>5. HdrIdx(data[p], n) = i
      BY <2>1, <2>3, <2>4, AlwaysAscends, NumberOnce
    <2>6. msg'[p] = hdr[i]
      BY <1>3, <2>5 DEF ViewLoad
    <2>7. idx[i].msgno = hdr[i].msgno
      <3>1. Matched(hdr, idx, info.high)
        BY <2>1, AlwaysAscends DEF Saving
      <3> QED BY <2>4, <3>1 DEF Matched, Paired
    <2> HIDE DEF n
    <2>8. Mine(p)'
      BY <1>3, <2>6, <2>7 DEF Mine, ViewLoad, Active
    <2> QED BY <1>3, <2>1, <2>8 DEF ViewLoad, ListLocal, Saving
  <1>4. CASE ViewSave(p)
    <2> DEFINE b == data[p].board
    <2>1. /\ pc[p] = "idle" /\ b \in Boards /\ Rises(data[p].Msgn, Nums(idx, b))
          /\ msg[p].msgno # 0 => Mine(p)
          /\ data'[p].idx = idx
      BY <1>4 DEF ViewSave, ListLocal
    <2>2. ASSUME op'[p].mode # "new"
          PROVE  op'[p].at \in Active(idx, b) /\ hdr[op'[p].at].id = op'[p].hdr.id
      <3>1. /\ op'[p].hdr.id = msg[p].id /\ msg[p].msgno # 0
            /\ op'[p].at = HdrIdx(data'[p], msg[p].msgno)
        BY <1>4, <2>2 DEF ViewSave
      <3>2. PICK i \in Active(idx, b) : idx[i].msgno = msg[p].msgno /\ hdr[i].id = msg[p].id
        BY <2>1, <3>1 DEF Mine
      <3>3. i \in DOMAIN idx /\ idx[i].msgno # DELETEDMSGNO
        BY DEF Active
      <3>4. HdrIdx(data'[p], idx[i].msgno) = i
        BY <2>1, <3>3, AlwaysAscends, NumberOnce
      <3> QED BY <3>1, <3>2, <3>4
    <2>3. msg[p].msgno # 0 => Mine(p)'
      BY <1>4, <2>1 DEF ViewSave, SameList, Mine, Active
    <2> QED BY <1>4, <2>1, <2>2, <2>3 DEF ViewSave, ListLocal, SameList, Saving
  <1> QED BY <1>1, <1>2, <1>3, <1>4

\* The header goes to the place of the message, or behind all.
LEMMA ListHdr ==
    ASSUME OneProgram, IInv, NEW p \in Proc, ListLocal(p), ViewHdr(p)
    PROVE  ListLocal(p)'
  <1> DEFINE b == data[p].board  at == op[p].at  h == op[p].hdr
  <1>1. /\ pc[p] = "header" /\ pc'[p] = "index" /\ UNCHANGED <<idx>>
        /\ msg'[p] = msg[p] /\ op'[p] = op[p] /\ data'[p] = data[p]
        /\ hdr' = Put(hdr, at, h)
    BY DEF ViewHdr
  <1>2. /\ idx \in Seq(Places) /\ hdr \in Seq(Headers) /\ Slot(p) /\ Len(hdr) = Len(idx)
        /\ DOMAIN idx = 1..Len(idx) /\ Len(idx) \in Nat /\ h \in Headers
    BY <1>1, AlwaysAscends DEF IInv, LocalInv, Matched, Typed, Ops
  <1>3. at \in 1..(Len(hdr) + 1) /\ (op[p].mode = "new" => at = Len(idx) + 1)
    BY <1>2 DEF Slot
  <1> HIDE DEF at, h
  <1>4. \A i \in DOMAIN idx : hdr'[i] = IF i = at THEN h ELSE hdr[i]
    <2>1. hdr \in Seq(Headers) /\ at \in 1..(Len(hdr) + 1) /\ h \in Headers
      BY <1>2, <1>3
    <2>2. /\ \A i \in DOMAIN hdr : i # at => Put(hdr, at, h)[i] = hdr[i]
          /\ Put(hdr, at, h)[at] = h
      BY <2>1, PutHeaderElse
    <2>3. DOMAIN idx = DOMAIN hdr
      BY <1>2
    <2> QED BY <1>1, <2>2, <2>3
  <1>5. \A i \in Active(idx, b) : hdr'[i].id = hdr[i].id
    <2> SUFFICES ASSUME NEW i \in Active(idx, b), i = at PROVE hdr'[i].id = hdr[i].id
      BY <1>4 DEF Active
    <2>1. i \in DOMAIN idx
      BY DEF Active
    <2>2. op[p].mode # "new"
      BY <1>2, <1>3, <2>1
    <2> QED BY <1>1, <1>4, <2>1, <2>2 DEF ListLocal, at, h
  <1>6. Active(idx, b)' = Active(idx, b)
    BY <1>1 DEF Active
  <1>7. msg[p].msgno # 0 => Mine(p)'
    BY <1>1, <1>5, <1>6 DEF ListLocal, Mine
  <1>8. op[p].mode # "new" => at \in Active(idx, b) /\ hdr'[at].id = h.id
    BY <1>1, <1>5 DEF ListLocal, at, h
  <1>9. Nums(idx, b)' = Nums(idx, b)
    BY <1>1, <1>6 DEF Nums
  <1> QED BY <1>1, <1>6, <1>7, <1>8, <1>9 DEF ListLocal, Saving, at, h

\* The index gains the number, loses it, or keeps all.
LEMMA ListIdx ==
    ASSUME OneProgram, IInv, NEW p \in Proc, ListLocal(p), ViewIdx(p)
    PROVE  ListLocal(p)'
  <1> DEFINE b == data[p].board  at == op[p].at  n == op[p].hdr.msgno  mode == op[p].mode
             e == NewEntry(p)  R == Range(data[p].Msgn)
  <1>1. /\ pc[p] = "index" /\ pc'[p] = "info" /\ UNCHANGED hdr
        /\ idx' = Put(idx, at, e) /\ data'[p].idx = Put(data[p].idx, at, e)
        /\ msg'[p] = msg[p] /\ op'[p] = op[p]
        /\ data'[p].board = b /\ data'[p].Msgn = data[p].Msgn
    BY DEF ViewIdx, SameList
  <1>2. /\ idx \in Seq(Places) /\ Slot(p) /\ DOMAIN idx = 1..Len(idx) /\ Len(idx) \in Nat
        /\ info.high \in Nat /\ n \in Nat
        /\ Ascending(idx, info.high)
    BY <1>1, AlwaysAscends DEF IInv, LocalInv, Typed, Ops, Headers
  <1>3. /\ data[p].idx = idx /\ b \in Boards /\ Rises(data[p].Msgn, Nums(idx, b))
        /\ R = Nums(idx, b) /\ op[p].hdr.board = b
        /\ mode # "new" => at \in Active(idx, b)
        /\ mode # "new" => n = msg[p].msgno /\ op[p].hdr.id = msg[p].id
        /\ msg[p].msgno # 0 => Mine(p)
    BY <1>1 DEF ListLocal, Rises, Saving
  <1>4. /\ at \in 1..(Len(idx) + 1)
        /\ mode = "new" => at = Len(idx) + 1 /\ n = info.high + 1
        /\ mode # "new" => idx[at].msgno = n /\ n # DELETEDMSGNO
    BY <1>2 DEF Slot
  <1>5. e \in Places /\ e.board = b /\ e.msgno = IF mode = "del" THEN DELETEDMSGNO ELSE n
    BY <1>2, <1>3 DEF NewEntry, Entry, Places, DELETEDMSGNO
  <1> HIDE DEF e, at
  <1>6. /\ \A i \in DOMAIN idx : i # at => idx'[i] = idx[i]
        /\ idx'[at] = e
        /\ mode = "new" => Nums(idx', b) = Nums(idx, b) \cup {n}
        /\ mode = "del" => Nums(idx', b) = Nums(idx, b) \ {n}
        /\ mode \notin {"new", "del"} => Nums(idx', b) = Nums(idx, b)
    <2>1. (\A i \in DOMAIN idx : i # at => idx'[i] = idx[i]) /\ idx'[at] = e
      BY <1>1, <1>2, <1>4, <1>5, PutElse
    <2>2. ASSUME mode = "new" PROVE Nums(idx', b) = Nums(idx, b) \cup {n}
      <3>1. e.msgno # DELETEDMSGNO /\ e.msgno = n /\ e.board = b /\ at = Len(idx) + 1
        BY <1>2, <1>4, <1>5, <2>2 DEF DELETEDMSGNO
      <3>2. Nums(Put(idx, at, e), e.board) = Nums(idx, e.board) \cup {e.msgno}
        BY <1>2, <1>4, <1>5, <3>1, NumsAdded
      <3> QED BY <1>1, <3>1, <3>2
    <2>3. ASSUME mode = "del" PROVE Nums(idx', b) = Nums(idx, b) \ {n}
      <3>1. Nums(Put(idx, at, e), b) = Nums(idx, b) \ {idx[at].msgno}
        BY <1>2, <1>3, <1>5, <2>3, NumsRemoved
      <3> QED BY <1>1, <1>4, <2>3, <3>1
    <2>4. ASSUME mode \notin {"new", "del"} PROVE Nums(idx', b) = Nums(idx, b)
      <3>1. Nums(Put(idx, at, e), b) = Nums(idx, b)
        BY <1>2, <1>3, <1>4, <1>5, <2>4, NumsSame
      <3> QED BY <1>1, <3>1
    <2> QED BY <2>1, <2>2, <2>3, <2>4
  <1>7. mode = "new" => \A m \in R : m < n
    <2> SUFFICES ASSUME mode = "new", NEW i \in Active(idx, b) PROVE idx[i].msgno < n
      BY <1>3 DEF Nums
    <2>1. i \in DOMAIN idx /\ idx[i].msgno \in Nat /\ idx[i].msgno <= info.high
      BY <1>2, NumbersRise DEF Active, Ascending
    <2> QED BY <1>2, <1>4, <2>1
  <1>8. msg[p].msgno # 0 /\ mode # "del" => Mine(p)'
    <2> SUFFICES ASSUME msg[p].msgno # 0, mode # "del" PROVE Mine(p)'
      OBVIOUS
    <2>1. PICK i \in Active(idx, b) : idx[i].msgno = msg[p].msgno /\ hdr[i].id = msg[p].id
      BY <1>3 DEF Mine
    <2>2. i \in DOMAIN idx
      BY DEF Active
    <2>3. idx'[i].board = b /\ idx'[i].msgno = idx[i].msgno
      <3>1. CASE i = at
        <4>1. mode # "new"
          BY <1>2, <1>4, <2>2, <3>1
        <4> QED BY <1>4, <1>5, <1>6, <3>1, <4>1
      <3>2. CASE i # at
        BY <1>6, <2>2, <3>2 DEF Active
      <3> QED BY <3>1, <3>2
    <2>4. i \in DOMAIN idx'
      <3>1. DOMAIN idx \subseteq DOMAIN Put(idx, at, e)
        BY <1>2, <1>4, <1>5, PutElse
      <3> QED BY <1>1, <2>2, <3>1
    <2>5. i \in Active(idx', b)
      BY <2>3, <2>4 DEF Active
    <2> QED BY <1>1, <2>1, <2>3, <2>5 DEF Mine
  <1>9. Rises(data[p].Msgn, R)
    BY <1>3
  <1>10. data'[p].idx = idx'
    BY <1>1, <1>3
  <1> HIDE DEF R
  <1>11. /\ mode = "new" => Nums(idx', b) = R \cup {n}
         /\ mode = "del" => Nums(idx', b) = R \ {n}
         /\ mode \notin {"new", "del"} => Nums(idx', b) = R
    BY <1>3, <1>6
  <1>12. Saving(p)' => op[p].hdr.board = b /\ (mode # "new" => n = msg[p].msgno /\ op[p].hdr.id = msg[p].id)
    BY <1>3
  <1> QED BY <1>1, <1>3, <1>7, <1>8, <1>9, <1>10, <1>11, <1>12 DEF ListLocal, R

\* The list follows.
LEMMA ListFinish ==
    ASSUME OneProgram, IInv, NEW p \in Proc, ListLocal(p), ViewInfo(p) \/ ViewFinish(p)
    PROVE  ListLocal(p)'
  <1> DEFINE b == data[p].board  n == op[p].hdr.msgno  mode == op[p].mode  R == Range(data[p].Msgn)
  <1>1. CASE ViewInfo(p)
    BY <1>1 DEF ViewInfo, ListLocal, SameList, Saving, Mine, Active
  <1>2. CASE ViewFinish(p)
    <2>0. /\ pc[p] = "lists" /\ pc'[p] = "idle" /\ UNCHANGED <<hdr, idx>>
          /\ msg'[p] = IF mode = "del" THEN NoHeader ELSE msg[p]
          /\ data'[p].idx = data[p].idx /\ data'[p].board = b
      BY <1>2 DEF ViewFinish
    <2>1. \/ mode = "new" /\ data'[p].Msgn = Append(data[p].Msgn, n)
          \/ /\ mode = "del"
             /\ data'[p].Msgn = Chosen(data[p].Msgn, {i \in DOMAIN data[p].Msgn : data[p].Msgn[i] # n})
          \/ mode \notin {"new", "del"} /\ data'[p].Msgn = data[p].Msgn
      BY <1>2 DEF ViewFinish, SameList
    <2>2. /\ data[p].idx = idx /\ b \in Boards /\ Rises(data[p].Msgn, R)
          /\ mode = "new" => Nums(idx, b) = R \cup {n} /\ \A m \in R : m < n
          /\ mode = "del" => Nums(idx, b) = R \ {n}
          /\ mode \notin {"new", "del"} => Nums(idx, b) = R
          /\ msg[p].msgno # 0 /\ mode # "del" => Mine(p)
      BY <2>0 DEF ListLocal
    <2>3. n \in Nat
      BY DEF IInv, Typed, Ops, Headers
    <2> HIDE DEF R, mode, n
    <2>4. Rises(data'[p].Msgn, Nums(idx, b))
      <3>1. CASE mode = "new"
        <4>1. Rises(Append(data[p].Msgn, n), R \cup {n})
          BY <2>2, <2>3, <3>1, AppendRises
        <4> QED BY <2>1, <2>2, <3>1, <4>1
      <3>2. CASE mode = "del"
        <4>1. Rises(Chosen(data[p].Msgn, {i \in DOMAIN data[p].Msgn : data[p].Msgn[i] # n}), R \ {n})
          BY <2>2, WithoutRises
        <4> QED BY <2>1, <2>2, <3>2, <4>1
      <3>3. CASE mode \notin {"new", "del"}
        BY <2>1, <2>2, <3>3
      <3> QED BY <3>1, <3>2, <3>3
    <2>5. msg'[p].msgno # 0 => Mine(p)'
      <3>1. NoHeader.msgno = 0
        BY DEF NoHeader, Header
      <3>2. msg'[p].msgno # 0 => mode # "del" /\ msg'[p] = msg[p]
        BY <2>0, <3>1
      <3> QED BY <2>0, <2>2, <3>2 DEF Mine, Active
    <2>6. Nums(idx, b)' = Nums(idx, b)
      BY <2>0 DEF Nums, Active
    <2> QED BY <2>0, <2>2, <2>4, <2>5, <2>6 DEF ListLocal, Saving
  <1> QED BY <1>1, <1>2

ListInv == Shaped /\ \A p \in Proc : ListLocal(p)

LEMMA ListInit == Init => ListInv
  <1> SUFFICES ASSUME Init PROVE ListInv
    OBVIOUS
  <1>1. Shaped
    BY DEF Init, Shaped, NoData
  <1>2. NoHeader.msgno = 0
    BY DEF NoHeader, Header
  <1>3. \A p \in Proc : ListLocal(p)
    BY <1>2 DEF Init, ListLocal, Saving
  <1> QED BY <1>1, <1>3 DEF ListInv

LEMMA ListStep ==
    ASSUME OneProgram, IInv, CountInv, ListInv, [Next]_hvars
    PROVE  ListInv'
  <1>1. CASE Next
    <2>1. PICK p \in Proc : Step(p)
      BY <1>1 DEF Next
    <2>2. View(p) /\ Shaped'
      BY <2>1, ViewStep DEF ListInv
    <2>3. ListLocal(p)'
      BY <2>2, ListOpens, ListCalls, ListHdr, ListIdx, ListFinish DEF View, ListInv
    <2> QED BY <2>2, <2>3 DEF ListInv, OneProgram
  <1>2. CASE UNCHANGED hvars
    <2>1. UNCHANGED <<hdr, idx, lastrecs, pc, data, msg, op, seen>>
      BY <1>2 DEF hvars, files
    <2>2. ASSUME NEW p \in Proc PROVE ListLocal(p)'
      <3>1. ListLocal(p)
        BY DEF ListInv
      <3> QED BY <2>1, <3>1 DEF ListLocal, Saving, Mine, Active, Nums
    <2> QED BY <2>1, <2>2 DEF ListInv, Shaped
  <1> QED BY <1>1, <1>2

\* What the count of an index entry wants.
LEMMA ListOwns ==
    ASSUME ListInv, NEW p \in Proc, pc[p] = "index"
    PROVE  OwnEntry(p)
  BY DEF ListInv, ListLocal, OwnEntry, Saving, Active

LEMMA ListFollows ==
    ASSUME OneProgram, IInv, ListInv
    PROVE  ListKept
  <1> SUFFICES ASSUME NEW p \in Proc, pc[p] = "idle"
               PROVE  data[p].Msgn = Numbers(idx, data[p].board)
    BY DEF ListKept
  <1>1. Rises(data[p].Msgn, Nums(idx, data[p].board))
    BY DEF ListInv, ListLocal
  <1>2. Rises(Numbers(idx, data[p].board), Nums(idx, data[p].board))
    BY AlwaysAscends, NumbersRise
  <1> QED BY <1>1, <1>2, RisesOnce

\* A program alone, on any boards: msginfo counts its messages, and its list of
\* numbers (Area::Msgn) is that of its board whatever it saves and deletes.
THEOREM HudsonListKept == ASSUME BaseAssumption, OneProgram PROVE Spec => [](CountsSound /\ ListKept)
  <1>1. Init => IInv /\ CountInv /\ ListInv
    BY InvInit, CountInit, ListInit
  <1>2. IInv /\ CountInv /\ ListInv /\ [Next]_hvars => (IInv /\ CountInv /\ ListInv)'
    BY InvStep, CountNext, ListStep, ListOwns
  <1>3. IInv /\ CountInv /\ ListInv => CountsSound /\ ListKept
    BY CountsFollow, ListFollows
  <1> QED BY <1>1, <1>2, <1>3, PTL DEF Spec

-----------------------------------------------------------------------------
(***************************************************************************)
(* One program alone: the base is a list of messages (MsgList).  A header  *)
(* stays where it was first written, so its place says which message it    *)
(* is, and the places of the messages that are there, in order, are the    *)
(* list.  It changes when the index is written, and at no other step.      *)
(***************************************************************************)
IdInv ==
    /\ \A i \in DOMAIN hdr : hdr[i].id = i
    /\ \A p \in Proc : pc[p] \in {"header", "index"} => op[p].hdr.id = op[p].at

LEMMA IdInit == Init => IdInv
  <1> SUFFICES ASSUME Init PROVE IdInv
    OBVIOUS
  <1>1. \A i \in DOMAIN hdr : hdr[i].id = i
    BY DEF Init, Header
  <1>2. \A p \in Proc : pc[p] = "closed"
    BY DEF Init
  <1> QED BY <1>1, <1>2 DEF IdInv

LEMMA IdStep ==
    ASSUME OneProgram, IInv, ListInv', IInv', IdInv, NEW p \in Proc, View(p)
    PROVE  IdInv'
  <1>0. \A q \in Proc : q = p
    BY DEF OneProgram
  <1>1. CASE ViewHdr(p)
    <2> DEFINE at == op[p].at  h == op[p].hdr
    <2>1. /\ pc[p] = "header" /\ hdr' = Put(hdr, at, h) /\ op'[p] = op[p] /\ h.id = at
      BY <1>1 DEF ViewHdr, IdInv
    <2>2. /\ hdr \in Seq(Headers) /\ Slot(p) /\ Len(hdr) = Len(idx) /\ h \in Headers
          /\ DOMAIN idx = 1..Len(idx) /\ Len(idx) \in Nat
      BY <2>1, AlwaysAscends DEF IInv, LocalInv, Matched, Typed, Ops
    <2>3. at \in 1..(Len(hdr) + 1)
      BY <2>2 DEF Slot
    <2> HIDE DEF at, h
    <2>4. /\ DOMAIN hdr' = 1..Len(hdr')
          /\ Len(hdr') = IF at = Len(hdr) + 1 THEN at ELSE Len(hdr)
          /\ \A i \in 1..Len(hdr') : hdr'[i] = IF i = at THEN h ELSE hdr[i]
      <3>0. hdr \in Seq(Headers) /\ at \in 1..(Len(hdr) + 1) /\ h \in Headers
        BY <2>2, <2>3
      <3>1. /\ Len(Put(hdr, at, h)) = IF at = Len(hdr) + 1 THEN at ELSE Len(hdr)
            /\ \A i \in 1..Len(Put(hdr, at, h)) :
                 Put(hdr, at, h)[i] = IF i = at THEN h ELSE hdr[i]
            /\ DOMAIN Put(hdr, at, h) = 1..Len(Put(hdr, at, h))
        BY <3>0, PutHeader
      <3> QED BY <2>1, <3>1
    <2>5. \A i \in DOMAIN hdr' : hdr'[i].id = i
      <3> SUFFICES ASSUME NEW i \in DOMAIN hdr', i # at PROVE hdr'[i].id = i
        BY <2>1, <2>4
      <3>1. i \in DOMAIN hdr
        BY <2>2, <2>4
      <3> QED BY <2>4, <3>1 DEF IdInv
    <2>6. op'[p].hdr.id = op'[p].at
      BY <2>1 DEF at, h
    <2> QED BY <1>0, <2>5, <2>6 DEF IdInv
  <1>2. CASE ViewSave(p)
    <2>1. hdr' = hdr /\ pc'[p] = "header"
      BY <1>2 DEF ViewSave
    <2>2. CASE op'[p].mode = "new"
      BY <1>0, <1>2, <2>1, <2>2 DEF ViewSave, IdInv
    <2>3. CASE op'[p].mode # "new"
      <3>1. op'[p].at \in DOMAIN idx' /\ hdr'[op'[p].at].id = op'[p].hdr.id
        BY <2>1, <2>3 DEF ListInv, ListLocal, Active
      <3>2. idx' = idx /\ DOMAIN idx \subseteq DOMAIN hdr
        <4>1. idx' = idx
          BY <1>2 DEF ViewSave
        <4>2. hdr \in Seq(Headers) /\ DOMAIN idx = 1..Len(idx) /\ Len(idx) \in Nat /\ Len(idx) <= Len(hdr)
          BY AlwaysAscends
        <4> QED BY <4>1, <4>2
      <3> QED BY <1>0, <2>1, <3>1, <3>2 DEF IdInv
    <2> QED BY <2>2, <2>3
  <1>3. CASE hdr' = hdr /\ pc'[p] \notin {"header", "index"}
    BY <1>0, <1>3 DEF IdInv
  <1>4. CASE ViewOpen(p) \/ ViewScan(p) \/ ViewEnd(p) \/ ViewClose(p) \/ ViewSuspend(p)
    BY <1>3, <1>4 DEF ViewOpen, ViewScan, ViewEnd, ViewClose, ViewSuspend
  <1>5. CASE ViewLoad(p) \/ ViewStay(p) \/ ViewIdx(p) \/ ViewInfo(p) \/ ViewFinish(p)
    BY <1>3, <1>5 DEF ViewLoad, ViewStay, ViewIdx, ViewInfo, ViewFinish
  <1> QED BY <1>1, <1>2, <1>4, <1>5 DEF View

\* What a step does to the messages that are there: nothing, or there is one
\* more behind them, or one less.
LiveStays   == Live' = Live /\ Len(idx') = Len(idx)
LiveAdded   == Live' = Live \cup {Len(idx) + 1} /\ Len(idx') = Len(idx) + 1
LiveRemoved == Len(idx') = Len(idx) /\ \E i \in Live : Live' = Live \ {i}

LEMMA LiveStep ==
    ASSUME OneProgram, IInv, ListInv, NEW p \in Proc, View(p)
    PROVE  LiveStays \/ LiveAdded \/ LiveRemoved
  <1>1. CASE idx' = idx
    BY <1>1 DEF LiveStays, Live
  <1>2. CASE ViewIdx(p)
    <2> DEFINE at == op[p].at  e == NewEntry(p)  mode == op[p].mode  n == op[p].hdr.msgno
    <2>1. pc[p] = "index" /\ idx' = Put(idx, at, e)
      BY <1>2 DEF ViewIdx
    <2>2. /\ idx \in Seq(Places) /\ DOMAIN idx = 1..Len(idx) /\ Len(idx) \in Nat
          /\ Slot(p) /\ info.high \in Nat /\ n \in Nat
      BY <2>1, AlwaysAscends DEF IInv, LocalInv, Typed, Ops, Headers
    <2>3. /\ mode = "new" => at = Len(idx) + 1 /\ n # DELETEDMSGNO
          /\ mode # "new" => at \in Live /\ n # DELETEDMSGNO
          /\ mode \in {"new", "hdr", "del"} /\ at \in 1..(Len(idx) + 1)
      BY <2>2 DEF Slot, Live, DELETEDMSGNO
    <2>4. e \in Places /\ e.msgno = IF mode = "del" THEN DELETEDMSGNO ELSE n
      <3>1. op[p].hdr.board \in Boards \cup {0}
        BY DEF IInv, Typed, Ops, Headers
      <3> QED BY <2>2, <3>1 DEF NewEntry, Entry, Places, DELETEDMSGNO
    <2> HIDE DEF at, e, n
    <2>5. /\ DOMAIN idx' = 1..Len(idx')
          /\ Len(idx') = IF at = Len(idx) + 1 THEN at ELSE Len(idx)
          /\ \A i \in 1..Len(idx') : idx'[i] = IF i = at THEN e ELSE idx[i]
      <3>0. idx \in Seq(Places) /\ at \in 1..(Len(idx) + 1) /\ e \in Places
        BY <2>2, <2>3, <2>4
      <3>1. /\ Len(Put(idx, at, e)) = IF at = Len(idx) + 1 THEN at ELSE Len(idx)
            /\ \A i \in 1..Len(Put(idx, at, e)) :
                 Put(idx, at, e)[i] = IF i = at THEN e ELSE idx[i]
            /\ DOMAIN Put(idx, at, e) = 1..Len(Put(idx, at, e))
        BY <3>0, PutFacts
      <3> QED BY <2>1, <3>1
    <2>6. \A i \in DOMAIN idx : i \in DOMAIN idx' /\ (i # at => idx'[i] = idx[i])
      BY <2>2, <2>3, <2>5
    <2>7. at \in DOMAIN idx' /\ idx'[at] = e
      BY <2>2, <2>3, <2>5
    <2>8. Live \ {at} = Live' \ {at}
      <3>1. DOMAIN idx' \ {at} \subseteq DOMAIN idx
        BY <2>2, <2>3, <2>5
      <3> QED BY <2>6, <3>1 DEF Live
    <2>9. at \in Live' <=> mode # "del"
      BY <2>3, <2>4, <2>7 DEF Live
    <2>10. CASE mode = "new"
      <3>1. at \notin Live
        BY <2>2, <2>3, <2>10 DEF Live
      <3> QED BY <2>3, <2>5, <2>8, <2>9, <2>10, <3>1 DEF LiveAdded
    <2>11. CASE mode # "new"
      <3>1. at \in Live /\ Len(idx') = Len(idx)
        <4>1. at \in Live /\ at \in 1..Len(idx)
          BY <2>2, <2>3, <2>11 DEF Live
        <4>2. at # Len(idx) + 1
          BY <2>2, <4>1
        <4> QED BY <2>5, <4>1, <4>2
      <3>2. CASE mode = "del"
        BY <2>8, <2>9, <3>1, <3>2 DEF LiveRemoved
      <3>3. CASE mode # "del"
        <4>1. \A x : x \in Live' <=> x \in Live
          BY <2>8, <2>9, <3>1, <3>3
        <4> QED BY <3>1, <4>1 DEF LiveStays
      <3> QED BY <3>2, <3>3
    <2> QED BY <2>10, <2>11
  <1>4. CASE ViewOpen(p) \/ ViewScan(p) \/ ViewEnd(p) \/ ViewClose(p) \/ ViewSuspend(p) \/ ViewSave(p)
    BY <1>1, <1>4 DEF ViewOpen, ViewScan, ViewEnd, ViewClose, ViewSuspend, ViewSave
  <1>5. CASE ViewLoad(p) \/ ViewStay(p) \/ ViewHdr(p) \/ ViewInfo(p) \/ ViewFinish(p)
    BY <1>1, <1>5 DEF ViewLoad, ViewStay, ViewHdr, ViewInfo, ViewFinish
  <1> QED BY <1>2, <1>4, <1>5 DEF View

\* The list is that of the places.
LivePlaces == /\ Rises(InOrder(Live), Live) /\ InOrder(Live) \in Seq(Nat)
              /\ Len(InOrder(Live)) = Cardinality(Live)
              /\ \A k \in 1..Cardinality(Live) : hdr[InOrder(Live)[k]].id = InOrder(Live)[k]
              /\ Len(idx) \in Nat /\ Live \subseteq 1..Len(idx)
Mapped == [k \in 1..Cardinality(Live) |-> [msgno |-> hdr[InOrder(Live)[k]].id, by |-> "anyone"]]

LEMMA LiveInOrder == IInv /\ IdInv => LivePlaces
  <1> SUFFICES ASSUME IInv, IdInv PROVE LivePlaces
    OBVIOUS
  <1>1. /\ idx \in Seq(Places) /\ hdr \in Seq(Headers) /\ Len(idx) <= Len(hdr)
    BY DEF IInv, Typed
  <1>2. Len(idx) \in Nat /\ Live \subseteq 1..Len(idx) /\ Live \subseteq DOMAIN hdr
    BY <1>1 DEF Live
  <1>3. Rises(InOrder(Live), Live) /\ Len(InOrder(Live)) = Cardinality(Live)
    BY <1>2, InOrderRises
  <1>4. InOrder(Live) \in Seq(Nat) /\ \A k \in 1..Cardinality(Live) : InOrder(Live)[k] \in Live
    BY <1>3 DEF Rises, Range
  <1> QED BY <1>2, <1>3, <1>4 DEF LivePlaces, IdInv

LEMMA MappedIs == LivePlaces => Mapped = AsList(InOrder(Live))
  BY DEF LivePlaces, Mapped, AsList

LEMMA MappedNext == (IInv /\ IdInv => LivePlaces /\ Mapped = AsList(InOrder(Live)))'
  BY LiveInOrder, MappedIs, PTL

LEMMA ListChanges ==
    ASSUME IInv, IdInv, IInv', IdInv', LiveStays \/ LiveAdded \/ LiveRemoved
    PROVE  [List!Next]_(List!vars)
  <1> DEFINE list == [k \in 1..Cardinality(Live) |->
                        [msgno |-> hdr[InOrder(Live)[k]].id, by |-> "anyone"]]
  <1>0. list = Mapped /\ list' = Mapped'
    BY DEF Mapped
  <1>1. list = AsList(InOrder(Live)) /\ list' = AsList(InOrder(Live')) /\ LivePlaces /\ LivePlaces'
    <2>1. Mapped = AsList(InOrder(Live)) /\ LivePlaces
      BY LiveInOrder, MappedIs
    <2>2. Mapped' = AsList(InOrder(Live))' /\ LivePlaces'
      BY MappedNext
    <2>3. AsList(InOrder(Live))' = AsList(InOrder(Live'))
      BY DEF AsList, InOrder, Chosen, Nth
    <2> HIDE DEF list
    <2> QED BY <1>0, <2>1, <2>2, <2>3
  <1>2. /\ Rises(InOrder(Live), Live) /\ InOrder(Live) \in Seq(Nat)
        /\ Len(idx) \in Nat /\ \A i \in Live : i \in Nat /\ i <= Len(idx)
    BY <1>1 DEF LivePlaces
  <1>3. Rises(InOrder(Live'), Live')
    BY <1>1 DEF LivePlaces, InOrder, Chosen, Nth
  <1> HIDE DEF list
  <1>4. CASE LiveStays
    BY <1>1, <1>4 DEF LiveStays, List!vars, list
  <1>5. CASE LiveAdded
    <2> DEFINE new == Len(idx) + 1
    <2>1. Live' = Live \cup {new} /\ new \in Nat /\ \A i \in Live : i < new
      BY <1>2, <1>5 DEF LiveAdded
    <2> HIDE DEF new
    <2>2. Rises(Append(InOrder(Live), new), Live \cup {new})
      BY <1>2, <2>1, AppendRises
    <2>3. InOrder(Live') = Append(InOrder(Live), new)
      BY <1>3, <2>1, <2>2, RisesOnce
    <2>4. list' = Append(list, [msgno |-> new, by |-> "anyone"])
      BY <1>1, <1>2, <2>1, <2>3, AsListAppend
    <2>5. List!Post
      BY <1>5, <2>4 DEF List!Post, LiveAdded, new, list
    <2> QED BY <2>5 DEF List!Next
  <1>6. CASE LiveRemoved
    <2>1. PICK i \in Live : Live' = Live \ {i}
      BY <1>6 DEF LiveRemoved
    <2>2. PICK k \in 1..Len(InOrder(Live)) : InOrder(Live)[k] = i
      BY <1>2, <2>1 DEF Rises, Range
    <2>3. Rises(RemoveAt(InOrder(Live), k), Live \ {i})
      <3>1. Len(InOrder(Live)) \in Nat
        BY <1>2
      <3> QED BY <1>2, <2>2, <3>1, RemoveAtRises, Zenon
    <2>4. InOrder(Live') = RemoveAt(InOrder(Live), k)
      BY <1>3, <2>1, <2>3, RisesOnce
    <2>5. list' = RemoveAt(list, k) /\ k \in DOMAIN list
      <3>1. list' = RemoveAt(list, k)
        BY <1>1, <1>2, <2>4, AsListRemove
      <3>2. k \in DOMAIN list
        BY <1>1 DEF AsList
      <3> QED BY <3>1, <3>2
    <2>6. List!Drop
      BY <1>6, <2>5 DEF List!Drop, LiveRemoved, List!RemoveAt, RemoveAt, list
    <2> QED BY <2>6 DEF List!Next
  <1> QED BY <1>4, <1>5, <1>6

LEMMA ListBegins == ASSUME IInv, IdInv PROVE List!Init
  <1> DEFINE list == [k \in 1..Cardinality(Live) |->
                        [msgno |-> hdr[InOrder(Live)[k]].id, by |-> "anyone"]]
  <1>1. LivePlaces /\ list = AsList(InOrder(Live))
    BY LiveInOrder, MappedIs DEF Mapped
  <1>2. Rises(InOrder(Live), Live) /\ Len(idx) \in Nat /\ \A i \in Live : i <= Len(idx)
    BY <1>1 DEF LivePlaces
  <1> HIDE DEF list
  <1>3. /\ list \in Seq([msgno : Nat, by : {"anyone"}])
        /\ \A i \in DOMAIN list : list[i].msgno <= Len(idx)
        /\ \A i, j \in DOMAIN list : i < j => list[i].msgno < list[j].msgno
    BY <1>1, <1>2, AsListFacts
  <1> QED BY <1>2, <1>3 DEF list, List!Init, List!Message

LEMMA HudsonListStep ==
    ASSUME BaseAssumption, OneProgram, IInv, CountInv, ListInv, IdInv, [Next]_hvars
    PROVE  IInv' /\ CountInv' /\ ListInv' /\ IdInv' /\ [List!Next]_(List!vars)
  <1>1. IInv' /\ CountInv' /\ ListInv'
    BY InvStep, CountNext, ListStep, ListOwns
  <1>2. IdInv' /\ (LiveStays \/ LiveAdded \/ LiveRemoved)
    <2>1. CASE Next
      <3>1. PICK p \in Proc : Step(p)
        BY <2>1 DEF Next
      <3>2. View(p)
        BY <3>1, ViewStep DEF ListInv
      <3> QED BY <1>1, <3>2, IdStep, LiveStep
    <2>2. CASE UNCHANGED hvars
      BY <2>2 DEF hvars, files, IdInv, LiveStays, Live
    <2> QED BY <2>1, <2>2
  <1> QED BY <1>1, <1>2, ListChanges

\* Hudson: for one program alone, on any boards, the headers and their index are
\* a list of messages.  A new one goes to the end, one is removed, and nothing
\* else, a header written again included, changes what is in it or its order.
THEOREM HudsonIsList == ASSUME BaseAssumption, OneProgram PROVE Spec => ListImplemented
  <1> DEFINE Inv == IInv /\ CountInv /\ ListInv /\ IdInv
  <1>1. Init => Inv /\ List!Init
    BY InvInit, CountInit, ListInit, IdInit, ListBegins
  <1>2. Inv /\ [Next]_hvars => Inv' /\ [List!Next]_(List!vars)
    BY HudsonListStep
  <1> QED BY <1>1, <1>2, PTL DEF Spec, ListImplemented, List!Spec

-----------------------------------------------------------------------------
\* A position among rising numbers has no greater number before it.
LEMMA PositionType ==
    ASSUME NEW s \in Seq(Nat), NEW lr
    PROVE  Position(s, lr) \in 0..Len(s)
  <1> DEFINE T == {i \in DOMAIN s : s[i] <= lr}
  <1>1. T \subseteq 1..Len(s) /\ Len(s) \in Nat
    OBVIOUS
  <1>2. IsFiniteSet(1..Len(s)) /\ Cardinality(1..Len(s)) = Len(s)
    <2>1. IsFiniteSet(1..Len(s))
          /\ Cardinality(1..Len(s)) = IF 1 > Len(s) THEN 0 ELSE Len(s) - 1 + 1
      BY <1>1, FS_Interval
    <2> QED BY <1>1, <2>1
  <1> HIDE DEF T
  <1>3. IsFiniteSet(T) /\ Cardinality(T) <= Len(s)
    BY <1>1, <1>2, FS_Subset
  <1>4. Cardinality(T) \in Nat
    BY <1>3, FS_CardinalityType
  <1> QED BY <1>1, <1>3, <1>4 DEF Position, T

LEMMA PositionBounds ==
    ASSUME NEW s, NEW R, Rises(s, R), NEW lr \in Nat, NEW k \in 1..Position(s, lr)
    PROVE  k \in 1..Len(s) /\ s[k] <= lr
  <1>1. /\ s \in Seq(Nat) /\ DOMAIN s = 1..Len(s) /\ Len(s) \in Nat
        /\ \A i \in 1..Len(s) : s[i] \in Nat
        /\ \A i, j \in 1..Len(s) : i < j => s[i] < s[j]
    BY DEF Rises
  <1>2. Position(s, lr) \in 0..Len(s)
    BY <1>1, PositionType
  <1>3. k \in 1..Len(s) /\ k \in Nat
    BY <1>1, <1>2
  <1>4. SUFFICES ASSUME ~ (s[k] <= lr) PROVE FALSE
    BY <1>3
  <1> DEFINE T == {i \in DOMAIN s : s[i] <= lr}
  <1>5. T \subseteq 1..(k - 1)
    <2> SUFFICES ASSUME NEW i \in 1..Len(s), s[i] <= lr PROVE i \in 1..(k - 1)
      BY <1>1
    <2>1. s[i] \in Nat /\ s[k] \in Nat /\ (k < i => s[k] < s[i]) /\ i \in Int /\ k \in Int
      BY <1>1, <1>3
    <2> QED BY <1>3, <1>4, <2>1
  <1>6. IsFiniteSet(1..(k - 1)) /\ Cardinality(1..(k - 1)) = k - 1
    <2>1. IsFiniteSet(1..(k - 1))
          /\ Cardinality(1..(k - 1)) = IF 1 > k - 1 THEN 0 ELSE k - 1 - 1 + 1
      BY <1>3, FS_Interval
    <2> QED BY <1>3, <2>1
  <1> HIDE DEF T
  <1>7. Cardinality(T) <= k - 1
    <2>1. Cardinality(T) <= Cardinality(1..(k - 1))
      BY <1>5, <1>6, FS_Subset
    <2> QED BY <1>6, <2>1
  <1>8. Cardinality(T) = Position(s, lr)
    BY DEF T, Position
  <1> QED BY <1>2, <1>3, <1>7, <1>8

\* The user has been at or past what pointers say of some messages.
SeenTo(p, r, S) == \A i \in S : idx[i].msgno <= r[idx[i].board] => hdr[i].id \in seen[p]

HidLocal(p) ==
    LET b == data[p].board
    IN  /\ lastrecs[p] \in Lastrec
        /\ pc[p] \in {"closed", "opening"} => SeenTo(p, lastrecs[p], Live)
        /\ pc[p] \notin {"closed", "opening"} =>
            /\ data[p].lastrec = lastrecs[p]
            /\ data[p].lastread \in 0..Len(data[p].Msgn)
            /\ SeenTo(p, lastrecs[p], {i \in Live : idx[i].board # b})
            /\ \A i \in Active(idx, b), k \in 1..data[p].lastread :
                    data[p].Msgn[k] = idx[i].msgno => hdr[i].id \in seen[p]

LEMMA HidInit == ASSUME BaseAssumption PROVE Init => \A p \in Proc : HidLocal(p)
  <1> SUFFICES ASSUME Init, NEW p \in Proc PROVE HidLocal(p)
    OBVIOUS
  <1> DEFINE n == Len(FirstMsgs)
  <1>1. n \in Nat /\ DOMAIN FirstMsgs = 1..n /\ \A i \in 1..n : FirstMsgs[i] \in Boards
    BY DEF BaseAssumption
  <1>2. /\ idx = [i \in 1..n |-> Entry(i, FirstMsgs[i])]
        /\ hdr = [i \in 1..n |-> Header(i, FirstMsgs[i], i, FALSE)]
        /\ lastrecs \in [Proc -> [Boards -> 0..n]]
        /\ seen[p] = {i \in 1..n : i <= lastrecs[p][FirstMsgs[i]]}
        /\ pc[p] = "closed"
    BY <1>1 DEF Init
  <1> HIDE DEF n
  <1>3. \A i \in 1..n : idx[i].board = FirstMsgs[i] /\ idx[i].msgno = i /\ hdr[i].id = i
    BY <1>2 DEF Entry, Header
  <1>4. DOMAIN idx = 1..n
    BY <1>2
  <1>5. lastrecs[p] \in Lastrec
    <2>1. lastrecs[p] \in [Boards -> 0..n] /\ 0..n \subseteq Nat
      BY <1>1, <1>2
    <2> QED BY <2>1 DEF Lastrec
  <1>6. SeenTo(p, lastrecs[p], Live)
    <2> SUFFICES ASSUME NEW i \in 1..n, idx[i].msgno <= lastrecs[p][idx[i].board]
                 PROVE  hdr[i].id \in seen[p]
      BY <1>4 DEF SeenTo, Live
    <2>1. i <= lastrecs[p][FirstMsgs[i]] /\ hdr[i].id = i
      BY <1>3
    <2> QED BY <1>2, <2>1
  <1> QED BY <1>2, <1>5, <1>6 DEF HidLocal

\* A number of the list is that of a message of the board, which get_hdr_idx finds.
LEMMA Listed ==
    ASSUME OneProgram, IInv, NEW p \in Proc, NEW d, d.idx = idx,
           NEW b, NEW i \in Active(idx, b)
    PROVE  /\ HdrIdx(d, idx[i].msgno) = i /\ i # 0
           /\ \A k \in 1..d.lastread : d.Msgn[k] = idx[i].msgno => hdr[i].id \in Passed(d)
  <1>1. i \in DOMAIN idx /\ idx[i].msgno # DELETEDMSGNO
    BY DEF Active
  <1>2. HdrIdx(d, idx[i].msgno) = i
    BY <1>1, AlwaysAscends, NumberOnce
  <1>3. i # 0
    BY <1>1, AlwaysAscends
  <1>4. ASSUME NEW k \in 1..d.lastread, d.Msgn[k] = idx[i].msgno PROVE hdr[i].id \in Passed(d)
    <2>1. idx[i].msgno \in {m \in {d.Msgn[j] : j \in 1..d.lastread} : HdrIdx(d, m) # 0}
      BY <1>2, <1>3, <1>4
    <2> QED BY <1>2, <2>1 DEF Passed
  <1> QED BY <1>2, <1>3, <1>4

\* So the program does not end for a number that is not there.
LEMMA NeverEnds ==
    ASSUME OneProgram, IInv, NEW p \in Proc, ListLocal(p)
    PROVE  ~ ViewEnd(p)
  <1> SUFFICES ASSUME ViewEnd(p) PROVE FALSE
    OBVIOUS
  <1> DEFINE b == data[p].board
  <1>1. /\ pc[p] = "idle" /\ data[p].idx = idx /\ Rises(data[p].Msgn, Nums(idx, b))
        /\ msg[p].msgno # 0 => Mine(p)
    BY DEF ViewEnd, ListLocal
  <1>2. ASSUME NEW r \in DOMAIN data[p].Msgn PROVE HdrIdx(data[p], data[p].Msgn[r]) # 0
    <2>1. data[p].Msgn[r] \in Nums(idx, b)
      BY <1>1 DEF Rises, Range
    <2>2. PICK i \in Active(idx, b) : data[p].Msgn[r] = idx[i].msgno
      BY <2>1 DEF Nums
    <2> QED BY <1>1, <2>2, Listed
  <1>3. ASSUME msg[p].msgno # 0 PROVE HdrIdx(Refresh(p), msg[p].msgno) # 0
    <2>1. PICK i \in Active(idx, b) : idx[i].msgno = msg[p].msgno
      BY <1>1, <1>3 DEF Mine
    <2>2. Refresh(p).idx = idx
      BY Refreshed DEF IInv
    <2> QED BY <2>1, <2>2, Listed
  <1> QED BY <1>2, <1>3 DEF ViewEnd

LEMMA HidOpens ==
    ASSUME OneProgram, IInv, NEW p \in Proc, ListLocal(p), ListLocal(p)', HidLocal(p),
           ViewOpen(p) \/ ViewScan(p)
    PROVE  HidLocal(p)'
  <1> DEFINE b == data[p].board
  <1>1. /\ pc[p] \in {"closed", "opening"} /\ UNCHANGED <<hdr, idx, lastrecs, seen>>
        /\ lastrecs[p] \in Lastrec /\ SeenTo(p, lastrecs[p], Live)
    BY DEF HidLocal, ViewOpen, ViewScan
  <1>2. CASE ViewOpen(p)
    BY <1>1, <1>2 DEF ViewOpen, HidLocal, SeenTo, Live
  <1>3. CASE ViewScan(p)
    <2> DEFINE list == data'[p].Msgn  lr == lastrecs[p][b]
    <2>1. /\ pc'[p] = "idle" /\ data'[p].board = b /\ data'[p].lastrec = lastrecs[p]
          /\ data'[p].lastread = Position(list, lr) /\ b \in Boards
      BY <1>3 DEF ViewScan, ListLocal
    <2>2. Rises(list, Nums(idx, b)') /\ lr \in Nat
      BY <1>1, <2>1 DEF ListLocal, Lastrec
    <2>3. data'[p].lastread \in 0..Len(list)
      BY <2>1, <2>2, PositionType DEF Rises
    <2>4. ASSUME NEW i \in Active(idx, b), NEW k \in 1..data'[p].lastread, list[k] = idx[i].msgno
          PROVE  hdr[i].id \in seen[p]
      <3>1. list[k] <= lr
        BY <2>1, <2>2, PositionBounds
      <3>2. i \in Live /\ idx[i].board = b
        BY DEF Active, Live
      <3> HIDE DEF list
      <3> QED BY <1>1, <2>4, <3>1, <3>2 DEF SeenTo
    <2>5. SeenTo(p, lastrecs[p], {i \in Live : idx[i].board # b})
      BY <1>1 DEF SeenTo
    <2> HIDE DEF lr
    <2> QED BY <1>1, <2>1, <2>3, <2>4, <2>5 DEF HidLocal, SeenTo, Active, Live
  <1> QED BY <1>2, <1>3

\* The pointers written: that of the board is at the position, the others stay.
LEMMA PointersSeen ==
    ASSUME OneProgram, IInv, NEW p \in Proc, ListLocal(p), HidLocal(p), CountInv,
           pc[p] = "idle", Pointers(p)
    PROVE  /\ lastrecs'[p] \in Lastrec
           /\ SeenTo(p, lastrecs'[p], Live)
  <1> DEFINE b == data[p].board  list == data[p].Msgn  l == data[p].lastread  v == LastRead(data[p])
  <1>1. /\ b \in Boards /\ Rises(list, Nums(idx, b))
        /\ data[p].lastrec = lastrecs[p] /\ l \in 0..Len(list)
        /\ SeenTo(p, lastrecs[p], {i \in Live : idx[i].board # b})
        /\ \A i \in Active(idx, b), k \in 1..l : list[k] = idx[i].msgno => hdr[i].id \in seen[p]
        /\ lastrecs[p] \in [Boards -> Nat]
    BY DEF ListLocal, HidLocal, Lastrec
  <1>2. /\ list \in Seq(Nat) /\ Len(list) \in Nat /\ DOMAIN list = 1..Len(list)
        /\ \A i \in 1..Len(list) : list[i] \in Nat
        /\ \A i, j \in 1..Len(list) : i < j => list[i] < list[j]
        /\ Range(list) = Nums(idx, b)
    BY <1>1 DEF Rises
  <1>3. v = IF l = 0 THEN 0 ELSE list[l]
    BY DEF LastRead
  <1>4. v \in Nat /\ lastrecs'[p] = [lastrecs[p] EXCEPT ![b] = v]
    <2>1. l # 0 => l \in 1..Len(list)
      BY <1>1, <1>2
    <2> QED BY <1>1, <1>2, <1>3, <2>1 DEF Pointers
  <1> HIDE DEF v
  <1>5. /\ lastrecs'[p] \in Lastrec /\ lastrecs'[p][b] = v
        /\ \A c \in Boards \ {b} : lastrecs'[p][c] = lastrecs[p][c]
    BY <1>1, <1>4 DEF Lastrec
  <1>6. ASSUME NEW i \in Live, idx[i].msgno <= lastrecs'[p][idx[i].board]
        PROVE  hdr[i].id \in seen[p]
    <2>1. idx[i].board \in Boards /\ i \in DOMAIN idx /\ idx[i].msgno # 0 /\ idx[i].msgno \in Nat
      BY AlwaysAscends, NumbersRise DEF Live, CountInv, DELETEDMSGNO
    <2>2. CASE idx[i].board # b
      BY <1>1, <1>5, <1>6, <2>1, <2>2 DEF SeenTo
    <2>3. CASE idx[i].board = b
      <3>1. i \in Active(idx, b)
        BY <2>1, <2>3 DEF Active, DELETEDMSGNO
      <3>2. PICK k \in 1..Len(list) : list[k] = idx[i].msgno
        <4>1. idx[i].msgno \in Range(list)
          BY <1>2, <3>1 DEF Nums
        <4> QED BY <1>2, <4>1 DEF Range
      <3>3. idx[i].msgno <= v
        BY <1>5, <1>6, <2>3
      <3>4. l # 0
        BY <1>3, <2>1, <3>3
      <3>5. l \in 1..Len(list) /\ v = list[l]
        BY <1>1, <1>2, <1>3, <3>4
      <3>6. k <= l
        <4>1. k \in Int /\ l \in Int /\ list[k] \in Nat /\ list[l] \in Nat /\ (l < k => list[l] < list[k])
          BY <1>2, <3>5
        <4> QED BY <3>2, <3>3, <3>5, <4>1
      <3>7. k \in 1..l
        BY <1>2, <3>5, <3>6
      <3> QED BY <1>1, <3>1, <3>2, <3>7
    <2> QED BY <2>2, <2>3
  <1> QED BY <1>5, <1>6 DEF SeenTo

LEMMA HidCalls ==
    ASSUME OneProgram, IInv, CountInv, NEW p \in Proc, ListLocal(p), HidLocal(p),
           ViewClose(p) \/ ViewSuspend(p) \/ ViewLoad(p) \/ ViewStay(p) \/ ViewSave(p)
    PROVE  HidLocal(p)'
  <1> DEFINE b == data[p].board
  <1>1. CASE ViewClose(p)
    <2>1. pc[p] = "idle" /\ pc'[p] = "closed" /\ UNCHANGED <<hdr, idx, seen>> /\ Pointers(p)
      BY <1>1 DEF ViewClose
    <2>2. lastrecs'[p] \in Lastrec /\ SeenTo(p, lastrecs'[p], Live)
      BY <2>1, PointersSeen
    <2> QED BY <2>1, <2>2 DEF HidLocal, SeenTo, Live
  <1>2. CASE ViewSuspend(p)
    <2>1. /\ pc[p] = "idle" /\ pc'[p] = "idle" /\ UNCHANGED <<hdr, idx, seen>> /\ Pointers(p)
          /\ data'[p].lastrec = lastrecs'[p] /\ data'[p].board = b
          /\ data'[p].Msgn = data[p].Msgn /\ data'[p].lastread = data[p].lastread
      BY <1>2 DEF ViewSuspend, SameList
    <2>2. lastrecs'[p] \in Lastrec /\ SeenTo(p, lastrecs'[p], Live)
      BY <2>1, PointersSeen
    <2>3. SeenTo(p, lastrecs'[p], {i \in Live : idx[i].board # b})
      BY <2>2 DEF SeenTo
    <2> QED BY <2>1, <2>2, <2>3 DEF HidLocal, SeenTo, Live, Active
  <1>3. CASE ViewStay(p) \/ ViewSave(p)
    <2>1. /\ UNCHANGED <<hdr, idx, lastrecs, seen>>
          /\ (pc[p] = "closed" /\ pc'[p] = "closed") \/ (pc[p] = "idle" /\ pc'[p] \in {"idle", "header"})
          /\ data'[p].lastrec \in {data[p].lastrec, lastrecs[p]} /\ data'[p].board = b
          /\ data'[p].Msgn = data[p].Msgn /\ data'[p].lastread = data[p].lastread
      BY <1>3 DEF ViewStay, ViewSave, SameList
    <2> QED BY <2>1 DEF HidLocal, SeenTo, Live, Active
  <1>4. CASE ViewLoad(p)
    <2>1. /\ pc[p] = "idle" /\ pc'[p] = "idle" /\ UNCHANGED <<hdr, idx, lastrecs>>
          /\ data'[p].idx = data[p].idx /\ data'[p].lastrec = data[p].lastrec
          /\ data'[p].board = b /\ data'[p].Msgn = data[p].Msgn
          /\ data'[p].lastread \in DOMAIN data[p].Msgn
          /\ seen'[p] = seen[p] \cup Passed(data'[p])
      BY <1>4 DEF ViewLoad
    <2>2. data[p].idx = idx /\ Rises(data[p].Msgn, Nums(idx, b))
      BY <2>1 DEF ListLocal
    <2>3. data'[p].lastread \in 0..Len(data[p].Msgn)
      BY <2>1, <2>2 DEF Rises
    <2>4. ASSUME NEW i \in Active(idx, b), NEW k \in 1..data'[p].lastread,
                 data'[p].Msgn[k] = idx[i].msgno
          PROVE  hdr[i].id \in seen'[p]
      <3> DEFINE d == data'[p]
      <3>1. d.idx = idx
        BY <2>1, <2>2
      <3>2. hdr[i].id \in Passed(d)
        BY <2>4, <3>1, Listed
      <3> QED BY <2>1, <3>2
    <2> QED BY <2>1, <2>3, <2>4 DEF HidLocal, SeenTo, Live, Active
  <1> QED BY <1>1, <1>2, <1>3, <1>4

\* Writing the header and the index: which message is at a place stays.
LEMMA HidWrites ==
    ASSUME OneProgram, IInv, NEW p \in Proc, ListLocal(p), ListLocal(p)', HidLocal(p),
           ViewHdr(p) \/ ViewIdx(p)
    PROVE  HidLocal(p)'
  <1> DEFINE b == data[p].board  at == op[p].at  h == op[p].hdr  mode == op[p].mode
             list == data[p].Msgn  l == data[p].lastread
  <1>1. /\ lastrecs[p] \in Lastrec /\ data[p].lastrec = lastrecs[p] /\ l \in 0..Len(list)
        /\ SeenTo(p, lastrecs[p], {i \in Live : idx[i].board # b})
        /\ \A i \in Active(idx, b), k \in 1..l : list[k] = idx[i].msgno => hdr[i].id \in seen[p]
    BY DEF ViewHdr, ViewIdx, HidLocal
  <1>2. /\ idx \in Seq(Places) /\ hdr \in Seq(Headers) /\ Slot(p)
        /\ DOMAIN idx = 1..Len(idx) /\ Len(idx) \in Nat /\ h \in Headers
        /\ mode # "new" => at \in Active(idx, b) /\ hdr[at].id = h.id
    BY AlwaysAscends DEF IInv, LocalInv, Typed, Ops, ViewHdr, ViewIdx, ListLocal
  <1>3. CASE ViewHdr(p)
    <2>1. /\ pc[p] = "header" /\ pc'[p] = "index" /\ UNCHANGED <<idx, lastrecs, seen>>
          /\ data'[p] = data[p] /\ hdr' = Put(hdr, at, h)
      BY <1>3 DEF ViewHdr
    <2>2. Len(hdr) = Len(idx)
      BY <2>1 DEF IInv, LocalInv, Matched
    <2>3. at \in 1..(Len(hdr) + 1) /\ (mode = "new" => at = Len(idx) + 1)
      BY <1>2, <2>2 DEF Slot
    <2>4. \A i \in DOMAIN idx : hdr'[i].id = hdr[i].id
      <3>1. /\ \A i \in DOMAIN hdr : i # at => Put(hdr, at, h)[i] = hdr[i]
            /\ Put(hdr, at, h)[at] = h
        <4> HIDE DEF at, h
        <4>1. hdr \in Seq(Headers) /\ at \in 1..(Len(hdr) + 1) /\ h \in Headers
          BY <1>2, <2>3
        <4> QED BY <4>1, PutHeaderElse
      <3>2. DOMAIN idx = DOMAIN hdr
        BY <1>2, <2>2
      <3>3. ASSUME at \in DOMAIN idx PROVE mode # "new"
        BY <1>2, <2>3, <3>3
      <3> HIDE DEF at, h
      <3> QED BY <1>2, <2>1, <3>1, <3>2, <3>3
    <2> HIDE DEF at, h
    <2>5. Active(idx, b) \subseteq DOMAIN idx /\ Live \subseteq DOMAIN idx
      BY DEF Active, Live
    <2>6. SeenTo(p, lastrecs[p], {i \in Live : idx[i].board # b})'
      BY <1>1, <2>1, <2>4, <2>5 DEF SeenTo, Live
    <2>7. (\A i \in Active(idx, b), k \in 1..l : list[k] = idx[i].msgno => hdr[i].id \in seen[p])'
      BY <1>1, <2>1, <2>4, <2>5 DEF Active
    <2> QED BY <1>1, <2>1, <2>6, <2>7 DEF HidLocal
  <1>4. CASE ViewIdx(p)
    <2> DEFINE e == NewEntry(p)  new == Put(idx, at, e)
    <2>1. /\ pc[p] = "index" /\ pc'[p] = "info" /\ UNCHANGED <<hdr, lastrecs, seen>>
          /\ idx' = new
          /\ data'[p].board = b /\ data'[p].Msgn = list /\ data'[p].lastread = l
          /\ data'[p].lastrec = data[p].lastrec /\ op'[p] = op[p]
      BY <1>4 DEF ViewIdx, SameList
    <2>2. op[p].hdr.board = b /\ Rises(list, Nums(idx, b)) /\ b \in Boards
      BY <2>1 DEF ListLocal, Saving
    <2>3. e \in Places /\ e.board = b /\ e.msgno = IF mode = "del" THEN DELETEDMSGNO ELSE h.msgno
      BY <1>2, <2>2 DEF NewEntry, Entry, Places, Headers, DELETEDMSGNO
    <2>4. at \in 1..(Len(idx) + 1) /\ (mode # "new" => idx[at].msgno = h.msgno)
      BY <1>2 DEF Slot
    <2> HIDE DEF at, h, e
    <2>5. /\ \A i \in DOMAIN new : i # at => i \in DOMAIN idx /\ new[i] = idx[i]
          /\ new[at] = e
      <3>1. /\ DOMAIN new = 1..Len(new)
            /\ Len(new) = IF at = Len(idx) + 1 THEN at ELSE Len(idx)
            /\ \A i \in 1..Len(new) : new[i] = IF i = at THEN e ELSE idx[i]
        <4>1. idx \in Seq(Places) /\ at \in 1..(Len(idx) + 1) /\ e \in Places
          BY <1>2, <2>3, <2>4
        <4> QED BY <4>1, PutFacts
      <3> HIDE DEF new
      <3> QED BY <1>2, <2>4, <3>1
    <2> HIDE DEF new
    <2>6. ASSUME NEW i \in Live', idx'[i].board # b, idx'[i].msgno <= lastrecs[p][idx'[i].board]
          PROVE  hdr[i].id \in seen[p]
      <3>1. i \in DOMAIN idx /\ idx'[i] = idx[i] /\ i \in Live
        BY <2>1, <2>3, <2>5, <2>6 DEF Live
      <3> QED BY <1>1, <2>6, <3>1 DEF SeenTo
    <2>7. ASSUME NEW i \in Active(new, b), NEW k \in 1..l, list[k] = new[i].msgno
          PROVE  hdr[i].id \in seen[p]
      <3>1. CASE i # at
        <4>1. i \in Active(idx, b) /\ new[i] = idx[i]
          BY <2>5, <3>1 DEF Active
        <4> QED BY <1>1, <2>7, <4>1
      <3>2. CASE i = at
        <4>1. mode # "del"
          BY <2>3, <2>5, <3>2 DEF Active
        <4>2. mode # "new"
          <5> SUFFICES ASSUME mode = "new" PROVE FALSE
            OBVIOUS
          <5>1. \A m \in Range(list) : m < h.msgno
            BY <2>1 DEF ListLocal, h
          <5>2. k \in DOMAIN list /\ list[k] \in Nat
            BY <1>1, <2>2 DEF Rises
          <5>3. list[k] < h.msgno
            BY <5>1, <5>2 DEF Range
          <5>4. list[k] = h.msgno
            BY <2>3, <2>5, <2>7, <3>2
          <5> QED BY <5>2, <5>3, <5>4
        <4>3. at \in Active(idx, b) /\ list[k] = idx[at].msgno
          BY <1>2, <2>3, <2>4, <2>5, <2>7, <3>2, <4>1, <4>2
        <4> QED BY <1>1, <3>2, <4>3
      <3> QED BY <3>1, <3>2
    <2>8. SeenTo(p, lastrecs[p], {i \in Live : idx[i].board # b})'
      BY <2>1, <2>6 DEF SeenTo
    <2> QED BY <1>1, <2>1, <2>7, <2>8 DEF HidLocal
  <1> QED BY <1>3, <1>4

LEMMA HidFinish ==
    ASSUME OneProgram, IInv, NEW p \in Proc, ListLocal(p), ListLocal(p)', HidLocal(p),
           ViewInfo(p) \/ ViewFinish(p)
    PROVE  HidLocal(p)'
  <1> DEFINE b == data[p].board
  <1>1. CASE ViewInfo(p)
    BY <1>1 DEF ViewInfo, SameList, HidLocal, SeenTo, Live, Active
  <1>2. CASE ViewFinish(p)
    <2>1. /\ pc[p] = "lists" /\ pc'[p] = "idle" /\ UNCHANGED <<hdr, idx, lastrecs>>
          /\ data'[p].idx = data[p].idx /\ data'[p].board = b /\ data'[p].lastrec = data[p].lastrec
          /\ seen'[p] = seen[p] \cup Passed(data'[p])
      BY <1>2 DEF ViewFinish
    <2>2. data[p].idx = idx /\ Rises(data[p].Msgn, Range(data[p].Msgn))
          /\ Rises(data'[p].Msgn, Nums(idx, b)')
      BY <2>1 DEF ListLocal
    <2>3. data'[p].lastread \in 0..Len(data'[p].Msgn)
      <3>1. data[p].lastread \in 0..Len(data[p].Msgn)
        BY <2>1 DEF HidLocal
      <3>2. data[p].Msgn \in Seq(Nat) /\ data'[p].Msgn \in Seq(Nat)
        BY <2>2 DEF Rises
      <3>3. CASE data'[p].Msgn = Append(data[p].Msgn, op[p].hdr.msgno)
                 /\ data'[p].lastread = data[p].lastread
        <4>1. Len(data'[p].Msgn) = Len(data[p].Msgn) + 1 /\ Len(data[p].Msgn) \in Nat
          BY <3>2, <3>3
        <4> QED BY <3>1, <3>3, <4>1
      <3>4. CASE data'[p].lastread = 0 \/ \E x : data'[p].lastread = Position(data'[p].Msgn, x)
        <4>1. Len(data'[p].Msgn) \in Nat
          BY <3>2
        <4> QED BY <3>2, <3>4, <4>1, PositionType
      <3>5. CASE SameList(p)
        BY <3>1, <3>5 DEF SameList
      <3> QED BY <1>2, <3>3, <3>4, <3>5 DEF ViewFinish
    <2>4. ASSUME NEW i \in Active(idx, b), NEW k \in 1..data'[p].lastread,
                 data'[p].Msgn[k] = idx[i].msgno
          PROVE  hdr[i].id \in seen'[p]
      <3> DEFINE d == data'[p]
      <3>1. d.idx = idx
        BY <2>1, <2>2
      <3>2. hdr[i].id \in Passed(d)
        BY <2>4, <3>1, Listed
      <3> QED BY <2>1, <3>2
    <2> QED BY <2>1, <2>3, <2>4 DEF HidLocal, SeenTo, Live, Active
  <1> QED BY <1>1, <1>2

HidInv == \A p \in Proc : HidLocal(p)

LEMMA HidStep ==
    ASSUME OneProgram, IInv, CountInv, ListInv, HidInv, [Next]_hvars
    PROVE  HidInv'
  <1>1. CASE Next
    <2>1. PICK p \in Proc : Step(p)
      BY <1>1 DEF Next
    <2>2. View(p)
      BY <2>1, ViewStep DEF ListInv
    <2>3. ListLocal(p) /\ ListLocal(p)' /\ HidLocal(p)
      <3>1. ListInv'
        BY ListStep
      <3> QED BY <3>1 DEF ListInv, HidInv
    <2>4. HidLocal(p)'
      BY <2>2, <2>3, NeverEnds, HidOpens, HidCalls, HidWrites, HidFinish DEF View
    <2> QED BY <2>4 DEF HidInv, OneProgram
  <1>2. CASE UNCHANGED hvars
    <2>1. UNCHANGED <<hdr, idx, lastrecs, pc, data, seen>>
      BY <1>2 DEF hvars, files
    <2>2. ASSUME NEW p \in Proc PROVE HidLocal(p)'
      <3>1. HidLocal(p)
        BY DEF HidInv
      <3> QED BY <2>1, <3>1 DEF HidLocal, SeenTo, Live, Active
    <2> QED BY <2>2 DEF HidInv
  <1> QED BY <1>1, <1>2

\* A program alone never puts a message the user has not been at or past behind
\* his lastread pointer (save_lastread, and Area::DeleteMsg's moves of the position),
\* though it gives the numbers of deleted messages again.
THEOREM HudsonNothingHidden == ASSUME BaseAssumption, OneProgram PROVE Spec => []NothingHidden
  <1>1. Init => IInv /\ CountInv /\ ListInv /\ HidInv
    BY InvInit, CountInit, ListInit, HidInit DEF HidInv
  <1>2. IInv /\ CountInv /\ ListInv /\ HidInv /\ [Next]_hvars
        => (IInv /\ CountInv /\ ListInv /\ HidInv)'
    BY InvStep, CountNext, ListStep, ListOwns, HidStep
  <1>3. HidInv => NothingHidden
    BY DEF HidInv, HidLocal, SeenTo, NothingHidden
  <1> QED BY <1>1, <1>2, <1>3, PTL DEF Spec
=============================================================================

--------------------------- MODULE JamBaseProofs ---------------------------
(***************************************************************************)
(* Proofs about JamBase, for any set of programs and any bounds.           *)
(***************************************************************************)
EXTENDS JamBase, TLAPS, SequenceTheorems, FiniteSetTheorems

USE DEF Gone, NoMsg

\* What a write at a position, or at the end of a file, leaves behind.
LEMMA PutType ==
    ASSUME NEW S, NEW file \in Seq(S), NEW at \in Nat, NEW what \in S
    PROVE  Put(file, at, what) \in Seq(S)
  BY DEF Put

LEMMA PutProperties ==
    ASSUME NEW S, NEW file \in Seq(S), NEW at \in 1..(Len(file) + 1), NEW what \in S
    PROVE  /\ Len(file) <= Len(Put(file, at, what))
           /\ at \in 1..Len(Put(file, at, what))
           /\ \A i \in 1..Len(Put(file, at, what)) :
                i = at \/ i \in 1..Len(file)
           /\ \A i \in 1..Len(Put(file, at, what)) :
                Put(file, at, what)[i] = IF i = at THEN what ELSE file[i]
  <1>1. CASE at \in DOMAIN file
    BY <1>1 DEF Put
  <1>2. CASE at \notin DOMAIN file
    <2>1. Put(file, at, what) = Append(file, what)
      BY <1>2 DEF Put
    <2>2. at = Len(file) + 1
      BY <1>2
    <2> QED BY <2>1, <2>2
  <1> QED BY <1>1, <1>2

\* The same for a file of numbers.
LEMMA PutNumber ==
    ASSUME NEW file \in Seq(Nat), NEW at \in 1..(Len(file) + 1), NEW what \in Nat
    PROVE  \A i \in 1..Len(Put(file, at, what)) :
              \/ i = at /\ Put(file, at, what)[i] = what
              \/ i \in 1..Len(file) /\ Put(file, at, what)[i] = file[i]
  <1>1. CASE at \in DOMAIN file
    BY <1>1 DEF Put
  <1>2. CASE at \notin DOMAIN file
    <2>1. Put(file, at, what) = Append(file, what)
      BY <1>2 DEF Put
    <2>2. at = Len(file) + 1
      BY <1>2
    <2> QED BY <2>1, <2>2
  <1> QED BY <1>1, <1>2

\* What a write leaves of the index, and of the headers.
LEMMA PutIndex ==
    ASSUME NEW file \in Seq(Nat), NEW at \in 1..(Len(file) + 1), NEW what \in Nat
    PROVE  /\ Put(file, at, what) \in Seq(Nat)
           /\ Len(file) <= Len(Put(file, at, what))
           /\ at \in 1..Len(Put(file, at, what))
           /\ \A i \in 1..Len(Put(file, at, what)) : i = at \/ i \in 1..Len(file)
           /\ \A i \in 1..Len(Put(file, at, what)) :
                Put(file, at, what)[i] = IF i = at THEN what ELSE file[i]
  <1>1. at \in Nat
    OBVIOUS
  <1>2. Put(file, at, what) \in Seq(Nat)
    BY <1>1, PutType
  <1> QED BY <1>2, PutProperties

LEMMA PutHeader ==
    ASSUME NEW file \in Seq(Headers), NEW at \in 1..(Len(file) + 1), NEW what \in Headers
    PROVE  /\ Put(file, at, what) \in Seq(Headers)
           /\ Len(file) <= Len(Put(file, at, what))
           /\ at \in 1..Len(Put(file, at, what))
           /\ \A i \in 1..Len(Put(file, at, what)) : i = at \/ i \in 1..Len(file)
           /\ \A i \in 1..Len(Put(file, at, what)) :
                Put(file, at, what)[i] = IF i = at THEN what ELSE file[i]
  <1>1. at \in Nat
    OBVIOUS
  <1>2. Put(file, at, what) \in Seq(Headers)
    BY <1>1, PutType
  <1> QED BY <1>2, PutProperties

LEMMA PutHeaderAt ==
    ASSUME NEW file \in Seq(Headers), NEW at \in 1..(Len(file) + 1), NEW what \in Headers,
           NEW i \in 1..Len(Put(file, at, what))
    PROVE  Put(file, at, what)[i] = IF i = at THEN what ELSE file[i]
  BY PutHeader

\* Replacing an element keeps a sequence's type and length.
LEMMA SeqUpdate ==
    ASSUME NEW S, NEW file \in Seq(S), NEW at \in 1..Len(file), NEW what \in S
    PROVE  /\ [file EXCEPT ![at] = what] \in Seq(S)
           /\ Len([file EXCEPT ![at] = what]) = Len(file)
  OBVIOUS

-----------------------------------------------------------------------------
LEMMA HeaderType ==
    \A no, text \in Nat, del \in BOOLEAN, len \in SubLen, stored \in SubLen \cup {0} :
        Header(no, del, len, stored, text) \in Headers
  BY DEF Header, Headers

LEMMA Defaults == NoCopy \in Headers /\ NoOp \in Ops
  <1>1. NoCopy \in Headers
    <2>1. 0 \in Nat /\ FALSE \in BOOLEAN /\ 1 \in SubLen /\ 1 \in SubLen \cup {0}
      BY DEF SubLen
    <2> QED BY <2>1, HeaderType DEF NoCopy
  <1> QED BY <1>1 DEF NoOp, Ops

\* Changing one field of a record keeps its type.
LEMMA FieldChanges ==
    /\ \A o \in Ops : \A x \in Nat : [o EXCEPT !.slot = x] \in Ops
    /\ \A m \in Modes \cup {"lock"} : [NoOp EXCEPT !.mode = m] \in Ops
    /\ \A i \in HdrInfo : \A x \in Int :
        [i EXCEPT !.activemsgs = @ + x] \in HdrInfo
    /\ \A h \in Headers : [h EXCEPT !.del = TRUE] \in Headers
  <1>1. \A o \in Ops : \A x \in Nat : [o EXCEPT !.slot = x] \in Ops
    BY DEF Ops
  <1>2. \A m \in Modes \cup {"lock"} : [NoOp EXCEPT !.mode = m] \in Ops
    <2>1. \A o \in Ops : \A m \in Modes \cup {"lock"} : [o EXCEPT !.mode = m] \in Ops
      BY DEF Ops
    <2> QED BY <2>1, Defaults
  <1>3. \A i \in HdrInfo : \A x \in Int :
            [i EXCEPT !.activemsgs = @ + x] \in HdrInfo
    BY DEF HdrInfo
  <1>4. \A h \in Headers : [h EXCEPT !.del = TRUE] \in Headers
    BY DEF Headers
  <1> QED BY <1>1, <1>2, <1>3, <1>4

LEMMA PcNames ==
    /\ Busy \subseteq Pcs
    /\ {"closed", "blank", "idle", "held", "loading"} \subseteq Pcs
    /\ {"closed", "blank", "idle", "held", "loading"} \cap Busy = {}
    /\ {"refresh", "build", "header", "index", "info", "text", "timesread",
        "finish", "unlock", "closing"} = Busy
  BY DEF Pcs, Busy

-----------------------------------------------------------------------------
LEMMA InvInit == Init => IInv
  <1> SUFFICES ASSUME Init PROVE IInv
    OBVIOUS
  <1>1. TypeOK
    <2>1. jhr \in Seq(Headers)
      <3>1. Header(1, FALSE, 1, 1, 1) \in Headers
        <4>1. 1 \in Nat /\ FALSE \in BOOLEAN /\ 1 \in SubLen /\ 1 \in SubLen \cup {0}
          BY DEF SubLen
        <4> QED BY <4>1, HeaderType
      <3> DEFINE h == Header(1, FALSE, 1, 1, 1)
      <3> HIDE DEF h
      <3>2. h \in Headers
        BY <3>1 DEF h
      <3>3. <<h>> \in Seq(Headers) /\ << >> \in Seq(Headers)
        BY <3>2
      <3>4. jhr = << >> \/ jhr = <<h>>
        BY DEF Init, h
      <3> QED BY <3>3, <3>4
    <2>2. jdx \in Seq(Nat) /\ jdt \in Seq(Nat)
      BY DEF Init
    <2>3. info \in HdrInfo
      BY OptionAssumption DEF Init, HdrInfo
    <2>4. hdrinfo \in [Proc -> HdrInfo]
      BY DEF Init, HdrInfo
    <2>5. pc \in [Proc -> Pcs]
      BY PcNames DEF Init
    <2> QED
      BY <2>1, <2>2, <2>3, <2>4, <2>5, Defaults DEF Init, TypeOK
  <1>2. LockInv
    BY PcNames, ProcAssumption DEF LockInv, InLock, Init
  <1>3. IndexNumbers
    BY DEF IndexNumbers, Init, Header
  <1>4. \A p \in Proc : LocalInv(p)
    BY DEF LocalInv, Init, NoCopy, Header
  <1> QED BY <1>1, <1>2, <1>3, <1>4 DEF IInv

-----------------------------------------------------------------------------
\* A message loaded in memory, and not deleted for good, has its header on file.
LEMMA Loaded ==
    ASSUME IInv, NEW p \in Proc, msg[p].no # NoMsg
    PROVE  /\ msg[p].no \in 1..Len(jdx)
           /\ jdx[msg[p].no] # Gone =>
                /\ jdx[msg[p].no] \in 1..Len(jhr)
                /\ jhr[jdx[msg[p].no]] \in Headers
                /\ jhr[jdx[msg[p].no]].no = msg[p].no
  BY DEF IInv, LocalInv, IndexNumbers, TypeOK

\* A rebuilt header is one of the same message, in place or at the end.
LEMMA RebuiltProperties ==
    ASSUME IInv, NEW p \in Proc, msg[p].no # NoMsg, jdx[msg[p].no] # Gone,
           NEW len \in SubLen, NEW text \in Nat
    PROVE  /\ Rebuilt(p, len, text) \in Ops
           /\ Rebuilt(p, len, text).hdr.no = msg[p].no
           /\ Rebuilt(p, len, text).slot \in {jdx[msg[p].no], Len(jhr) + 1}
  <1> DEFINE m      == msg[p]
             mode   == op[p].mode
             at     == jdx[m.no]
             moved  == jhr[at].len # len
             del    == m.del \/ mode = "del"
             stored == Stored(mode, moved, len, jhr[at].stored)
             change == Change(mode, jhr[at].del, m.del)
             slot   == IF moved THEN Len(jhr) + 1 ELSE at
             h      == Header(m.no, del, len, stored, text)
  <1>1. m \in Headers /\ jhr[at] \in Headers /\ at \in Nat /\ Len(jhr) + 1 \in Nat
        /\ mode \in Modes \cup {"none", "lock"}
    <2>1. at \in DOMAIN jhr /\ m.no \in Nat /\ msg[p] \in Headers /\ op[p] \in Ops
          /\ jhr \in Seq(Headers)
      BY Loaded DEF IInv, TypeOK
    <2> QED BY <2>1 DEF Ops
  <1>2. stored \in SubLen \cup {0}
    BY <1>1 DEF Headers, Stored
  <1>3. m.no \in Nat /\ del \in BOOLEAN
    BY <1>1 DEF Headers
  <1>4. h \in Headers
    <2> HIDE DEF stored, del
    <2> QED BY <1>2, <1>3, HeaderType
  <1>5. h.no = m.no
    BY DEF Header
  <1>6. slot \in Nat /\ slot \in {at, Len(jhr) + 1} /\ change \in Int
    BY <1>1 DEF Change
  <1>7. Rebuilt(p, len, text) = [mode |-> mode, slot |-> slot, hdr |-> h, change |-> change]
    BY DEF Rebuilt
  <1> HIDE DEF h, slot, change, mode, at
  <1>8. Rebuilt(p, len, text) \in Ops
    BY <1>1, <1>4, <1>6, <1>7 DEF Ops
  <1>9. Rebuilt(p, len, text).hdr = h /\ Rebuilt(p, len, text).slot = slot
    BY <1>7
  <1> QED BY <1>5, <1>6, <1>8, <1>9 DEF at

\* What BuildUpdate leaves behind.
LEMMA UpdateProperties ==
    ASSUME IInv, NEW p \in Proc, pc[p] = "build", BuildUpdate(p), op[p].mode # "new"
    PROVE  LET at == jdx[msg[p].no] IN
           /\ at \in 1..Len(jhr)
           /\ jhr[at].no = msg[p].no
           /\ jhr' = jhr \/ jhr' = [jhr EXCEPT ![at].del = TRUE]
           /\ jhr' \in Seq(Headers)
           /\ \E o \in Ops : /\ op' = [op EXCEPT ![p] = o]
                             /\ o.hdr.no = msg[p].no
                             /\ o.slot \in {at, Len(jhr) + 1}
           /\ pc' = [pc EXCEPT ![p] = "header"]
  <1> DEFINE m == msg[p]  at == jdx[m.no]  old == jhr[at]
  <1>0. m.no # NoMsg
    BY DEF IInv, LocalInv
  <1>1. m \in Headers /\ old \in Headers /\ at \in 1..Len(jhr) /\ old.no = m.no
    BY <1>0, Loaded DEF BuildUpdate, IInv, TypeOK
  <1>2. PICK len \in SubLen, text \in Nat :
            /\ jhr' = IF old.len = len THEN jhr ELSE [jhr EXCEPT ![at].del = TRUE]
            /\ op' = [op EXCEPT ![p] = Rebuilt(p, len, text)]
    <2>1. m.len \in SubLen /\ m.text \in Nat /\ Len(jdt) + 1 \in Nat
      BY <1>1 DEF Headers, IInv, TypeOK
    <2> QED BY <2>1, ZenonT(60) DEF BuildUpdate
  <1>3. jhr' = jhr \/ jhr' = [jhr EXCEPT ![at].del = TRUE]
    BY <1>2
  <1>4. jhr' \in Seq(Headers)
    <2>1. [old EXCEPT !.del = TRUE] \in Headers
      BY <1>1, FieldChanges
    <2>2. jhr' = jhr \/ jhr' = [jhr EXCEPT ![at] = [old EXCEPT !.del = TRUE]]
      BY <1>3
    <2>3. jhr \in Seq(Headers)
      BY DEF IInv, TypeOK
    <2> DEFINE new == [old EXCEPT !.del = TRUE]
    <2> HIDE DEF new
    <2>4. [jhr EXCEPT ![at] = new] \in Seq(Headers)
      BY <1>1, <2>1, <2>3, SeqUpdate DEF new
    <2> QED BY <2>2, <2>3, <2>4 DEF new
  <1>5. \E o \in Ops : /\ op' = [op EXCEPT ![p] = o]
                       /\ o.hdr.no = m.no
                       /\ o.slot \in {at, Len(jhr) + 1}
    BY <1>0, <1>2, RebuiltProperties DEF BuildUpdate
  <1> QED BY <1>1, <1>3, <1>4, <1>5 DEF BuildUpdate

-----------------------------------------------------------------------------
\* A step of one program leaves the others' state alone ...
Frame(p) ==
    \A q \in Proc \ {p} : /\ pc'[q] = pc[q] /\ islocked'[q] = islocked[q]
                          /\ msg'[q] = msg[q] /\ op'[q] = op[q]

LEMMA StepFrame ==
    ASSUME TypeOK, NEW p \in Proc, Step(p) PROVE Frame(p)
  <1> USE DEF TypeOK, Frame, files
  <1>1. CASE OpenArea(p) \/ InitHdrInfo(p) \/ LoadIndex(p) \/ LoadHeader(p)
    BY <1>1 DEF OpenArea, InitHdrInfo, LoadIndex, LoadHeader
  <1>2. ASSUME NEW mode, Acquire(p, mode) PROVE Frame(p)
    BY <1>2 DEF Acquire
  <1>3. CASE Refresh(p) \/ CallHeld(p) \/ AreaUnlock(p)
    BY <1>3 DEF Refresh, CallHeld, AreaUnlock
  <1>4. CASE Build(p)
    BY <1>4 DEF Build, BuildNew, BuildGone, BuildUpdate
  <1>5. CASE WriteHeader(p) \/ WriteIndex(p) \/ WriteInfo(p) \/ WriteText(p)
    BY <1>5 DEF WriteHeader, WriteIndex, WriteInfo, WriteText
  <1>6. CASE UpdateTimesread(p) \/ Finish(p) \/ Unlock(p)
    BY <1>6 DEF UpdateTimesread, Finish, Unlock
  <1>7. CASE Crash(p)
    BY <1>7 DEF Crash
  <1> QED
    BY <1>1, <1>2, <1>3, <1>4, <1>5, <1>6, <1>7
       DEF Step, Run, Choose, Call, AreaLock

\* ... and only building and writing a message touches headers and index.
LEMMA StepWrites ==
    ASSUME NEW p \in Proc, Step(p)
    PROVE  Build(p) \/ WriteHeader(p) \/ WriteIndex(p) \/ UNCHANGED <<jhr, jdx>>
  BY DEF Step, Run, Choose, Call, AreaLock, files, OpenArea, InitHdrInfo,
         LoadIndex, LoadHeader, Acquire, Refresh, CallHeld, AreaUnlock,
         WriteInfo, WriteText, UpdateTimesread, Finish, Unlock, Crash

\* The three cases of building a message are told apart by the mode.
LEMMA BuildCases ==
    ASSUME IInv, NEW p \in Proc, Build(p)
    PROVE  \/ BuildNew(p) /\ op[p].mode = "new"
           \/ BuildGone(p)
           \/ BuildUpdate(p) /\ op[p].mode # "new"
  BY DEF Build

-----------------------------------------------------------------------------
LEMMA TypeStep ==
    ASSUME IInv, NEW p \in Proc, Step(p) PROVE TypeOK'
  <1> USE DEF TypeOK, files
  <1> USE PcNames, Defaults
  <1>0. TypeOK
    BY DEF IInv
  <1>1. CASE OpenArea(p)
    BY <1>0, <1>1 DEF OpenArea
  <1>2. CASE InitHdrInfo(p)
    <2>1. hdrinfo' \in [Proc -> HdrInfo]
      BY <1>0, <1>2 DEF InitHdrInfo, HdrInfo
    <2> QED BY <1>0, <1>2, <2>1 DEF InitHdrInfo
  <1>3. CASE LoadIndex(p)
    <2>1. op' \in [Proc -> Ops]
      <3>1. PICK n \in DOMAIN jdx :
                op' = [op EXCEPT ![p] = [op[p] EXCEPT !.slot = jdx[n]]]
        BY <1>3 DEF LoadIndex
      <3>2. op[p] \in Ops /\ jdx[n] \in Nat
        BY <1>0
      <3>3. [op[p] EXCEPT !.slot = jdx[n]] \in Ops
        BY <3>2, FieldChanges
      <3> QED BY <1>0, <3>1, <3>3
    <2> QED BY <1>0, <1>3, <2>1 DEF LoadIndex
  <1>4. CASE LoadHeader(p)
    <2>1. jhr[op[p].slot] \in Headers
      BY <1>0, <1>4 DEF LoadHeader, IInv, LocalInv
    <2> QED BY <1>0, <1>4, <2>1 DEF LoadHeader, Back
  <1>5. ASSUME NEW mode \in Modes \cup {"lock"}, Acquire(p, mode) PROVE TypeOK'
    <2>1. [NoOp EXCEPT !.mode = mode] \in Ops
      BY FieldChanges
    <2> QED BY <1>0, <1>5, <2>1 DEF Acquire
  <1>6. CASE Refresh(p)
    BY <1>0, <1>6 DEF Refresh
  <1>7. CASE CallHeld(p)
    <2>1. op' \in [Proc -> Ops]
      <3>1. PICK mode \in {"new", "hdr", "txt", "del"} :
                op' = [op EXCEPT ![p] = [NoOp EXCEPT !.mode = mode]]
        BY <1>7 DEF CallHeld
      <3>2. [NoOp EXCEPT !.mode = mode] \in Ops
        BY FieldChanges DEF Modes
      <3> QED BY <1>0, <3>1, <3>2
    <2> QED BY <1>0, <1>7, <2>1 DEF CallHeld
  <1>8. CASE AreaUnlock(p)
    BY <1>0, <1>8 DEF AreaUnlock
  <1>9. CASE WriteHeader(p)
    <2>1. op[p].slot \in Nat /\ op[p].hdr \in Headers
      BY <1>0 DEF Ops
    <2>2. Put(jhr, op[p].slot, op[p].hdr) \in Seq(Headers)
      BY <1>0, <2>1, PutType
    <2> QED BY <1>0, <1>9, <2>2 DEF WriteHeader
  <1>10. CASE WriteIndex(p)
    <2>1. op[p].slot \in Nat /\ op[p].hdr.no \in Nat
      BY <1>0 DEF Ops, Headers
    <2>2. \A slot \in Nat : Put(jdx, op[p].hdr.no, slot) \in Seq(Nat)
      BY <1>0, <2>1, PutType
    <2> QED BY <1>0, <1>10, <2>1, <2>2 DEF WriteIndex
  <1>11. CASE WriteInfo(p)
    <2>1. hdrinfo' \in [Proc -> HdrInfo]
      <3>1. op[p].change \in Int /\ hdrinfo[p] \in HdrInfo
        BY <1>0 DEF Ops
      <3>2. [hdrinfo[p] EXCEPT !.activemsgs = @ + op[p].change] \in HdrInfo
        BY <3>1, FieldChanges
      <3> QED BY <1>0, <1>11, <3>2 DEF WriteInfo
    <2> QED BY <1>0, <1>11, <2>1 DEF WriteInfo
  <1>12. CASE WriteText(p)
    <2>1. op[p].hdr.text \in Nat /\ op[p].hdr.no \in Nat
      BY <1>0 DEF Ops, Headers
    <2>2. Put(jdt, op[p].hdr.text, op[p].hdr.no) \in Seq(Nat)
      BY <1>0, <2>1, PutType
    <2> QED BY <1>0, <1>12, <2>2 DEF WriteText
  <1>13. CASE UpdateTimesread(p)
    BY <1>0, <1>13 DEF UpdateTimesread
  <1>14. CASE Finish(p)
    BY <1>0, <1>14 DEF Finish
  <1>15. CASE Unlock(p)
    BY <1>0, <1>15 DEF Unlock
  <1>17. CASE Crash(p)
    BY <1>0, <1>17 DEF Crash
  <1>18. CASE Build(p)
    <2>1. ASSUME BuildNew(p) PROVE TypeOK'
      <3>1. PICK len \in SubLen :
              op' = [op EXCEPT ![p] =
                      [mode   |-> "new",
                       hdr    |-> Header(Len(jdx) + 1, FALSE, len, len, Len(jdt) + 1),
                       slot   |-> Len(jhr) + 1,
                       change |-> 1]]
        BY <2>1 DEF BuildNew
      <3> DEFINE h == Header(Len(jdx) + 1, FALSE, len, len, Len(jdt) + 1)
      <3>2. /\ Len(jdx) + 1 \in Nat /\ Len(jdt) + 1 \in Nat /\ Len(jhr) + 1 \in Nat
            /\ FALSE \in BOOLEAN /\ len \in SubLen \cup {0}
        BY <1>0
      <3>3. h \in Headers
        BY <3>2, HeaderType
      <3> HIDE DEF h
      <3>4. [mode |-> "new", hdr |-> h, slot |-> Len(jhr) + 1, change |-> 1] \in Ops
        BY <3>2, <3>3 DEF Ops, Modes
      <3>5. op' \in [Proc -> Ops]
        BY <1>0, <3>1, <3>4 DEF h
      <3> QED BY <1>0, <1>18, <2>1, <3>5 DEF BuildNew, Build
    <2>2. ASSUME BuildGone(p) PROVE TypeOK'
      BY <1>0, <1>18, <2>2 DEF BuildGone, Build
    <2>3. ASSUME BuildUpdate(p), op[p].mode # "new" PROVE TypeOK'
      <3>0. pc[p] = "build"
        BY <1>18 DEF Build
      <3>1. jhr' \in Seq(Headers) /\ \E o \in Ops : op' = [op EXCEPT ![p] = o]
        BY <2>3, <3>0, UpdateProperties
      <3> QED BY <1>0, <1>18, <2>3, <3>1, ZenonT(60) DEF BuildUpdate, Build
    <2> QED BY <1>18, <2>1, <2>2, <2>3, BuildCases
  <1> QED
    BY <1>1, <1>2, <1>3, <1>4, <1>5, <1>6, <1>7, <1>8, <1>9, <1>10, <1>11,
       <1>12, <1>13, <1>14, <1>15, <1>17, <1>18
       DEF Step, Run, Choose, Call, AreaLock

-----------------------------------------------------------------------------
\* The lock is taken only when free, given up only by the one that holds it,
\* and each program is inside only while it does.
LEMMA LockStep ==
    ASSUME IInv, NEW p \in Proc, Step(p) PROVE LockInv'
  <1> USE DEF files, InLock, LockInv
  <1>0. TypeOK /\ LockInv /\ NoProc \notin Proc
    BY ProcAssumption DEF IInv
  <1>f. Frame(p)
    BY <1>0, StepFrame
  <1>t. p \in DOMAIN pc /\ p \in DOMAIN islocked
    BY <1>0 DEF TypeOK
  <1>l. ASSUME /\ \/ holder' = holder
                  \/ holder = p /\ holder' = NoProc
                  \/ holder = NoProc /\ holder' = p
               /\ InLock(p)' <=> holder' = p
               /\ islocked'[p] => pc'[p] \in {"held", "loading", "build", "header",
                                              "index", "info", "text", "finish"}
               /\ pc'[p] = "held" => islocked'[p]
        PROVE  LockInv'
    <2>1. ASSUME NEW q \in Proc, q # p
          PROVE  /\ holder' = q <=> InLock(q)'
                 /\ islocked'[q] => pc'[q] \in {"held", "loading", "build", "header",
                                                "index", "info", "text", "finish"}
                 /\ pc'[q] = "held" => islocked'[q]
      <3>1. pc'[q] = pc[q] /\ islocked'[q] = islocked[q]
        BY <1>f, <2>1 DEF Frame
      <3>2. holder' = q <=> holder = q
        BY <1>0, <1>l, <2>1
      <3> QED BY <1>0, <3>1, <3>2
    <2> QED BY <1>l, <2>1
  <1>1. CASE OpenArea(p) \/ InitHdrInfo(p) \/ LoadIndex(p) \/ LoadHeader(p)
    <2>1. holder' = holder /\ islocked'[p] = islocked[p]
      BY <1>1 DEF OpenArea, InitHdrInfo, LoadIndex, LoadHeader
    <2>2. InLock(p)' <=> InLock(p)
      BY <1>0, <1>t, <1>1, <2>1 DEF OpenArea, InitHdrInfo, LoadIndex, LoadHeader, Back, Busy
    <2>3. islocked[p] => pc'[p] = "held" \/ pc'[p] = "loading"
      BY <1>0, <1>t, <1>1 DEF OpenArea, InitHdrInfo, LoadIndex, LoadHeader, Back
    <2>4. pc'[p] = "held" => islocked[p]
      BY <1>t, <1>1 DEF OpenArea, InitHdrInfo, LoadIndex, LoadHeader, Back
    <2> QED BY <1>0, <1>l, <2>1, <2>2, <2>3, <2>4
  <1>2. ASSUME NEW mode, Acquire(p, mode) PROVE LockInv'
    BY <1>0, <1>t, <1>2, <1>l DEF Acquire, Busy
  <1>3. CASE Refresh(p)
    BY <1>0, <1>t, <1>3, <1>l DEF Refresh, Busy
  <1>4. CASE CallHeld(p) \/ AreaUnlock(p)
    BY <1>0, <1>t, <1>4, <1>l DEF CallHeld, AreaUnlock, Busy
  <1>5. CASE Build(p)
    BY <1>0, <1>t, <1>5, <1>l DEF Build, BuildNew, BuildGone, BuildUpdate, Busy
  <1>6. CASE WriteHeader(p) \/ WriteIndex(p) \/ WriteInfo(p) \/ WriteText(p)
    BY <1>0, <1>t, <1>6, <1>l DEF WriteHeader, WriteIndex, WriteInfo, WriteText, Busy
  <1>7. CASE UpdateTimesread(p)
    BY <1>0, <1>t, <1>7, <1>l DEF UpdateTimesread, Busy
  <1>10. CASE Finish(p)
    <2>1. holder = p /\ holder' = holder /\ islocked'[p] = islocked[p]
      BY <1>0, <1>10 DEF Finish, Busy
    <2>2. pc'[p] = CASE islocked[p]                           -> "held"
                     [] ~islocked[p] /\ op[p].mode = "close" -> "closing"
                     [] OTHER                                 -> "unlock"
      BY <1>t, <1>10 DEF Finish
    <2>3. islocked[p] => pc'[p] = "held"
      <3>1. CASE islocked[p]
        BY <2>2, <3>1
      <3> QED BY <3>1
    <2>4. pc'[p] \in Busy \cup {"held"} /\ (pc'[p] = "held" => islocked[p])
      BY <2>2 DEF Busy
    <2> QED BY <1>l, <2>1, <2>3, <2>4
  <1>9. CASE Unlock(p)
    <2>1. pc[p] \in {"unlock", "closing"} /\ ~islocked[p]
      BY <1>0, <1>9 DEF Unlock
    <2>2. holder = p
      BY <1>0, <2>1 DEF Busy
    <2>3. /\ holder' = NoProc /\ ~islocked'[p]
          /\ pc'[p] = "closed" \/ pc'[p] = "idle"
      BY <1>t, <1>9, <2>1 DEF Unlock
    <2> QED BY <1>0, <1>l, <2>2, <2>3 DEF Busy
  <1>8. CASE Crash(p)
    BY <1>0, <1>t, <1>8, <1>l DEF Crash, Busy
  <1> QED
    BY <1>1, <1>2, <1>3, <1>4, <1>5, <1>6, <1>7, <1>8, <1>9, <1>10
       DEF Step, Run, Choose, Call, AreaLock

-----------------------------------------------------------------------------
\* The files only grow, and a header stays that of the message it was written
\* for.
Grows ==
    /\ Len(jhr) <= Len(jhr')
    /\ \A s \in 1..Len(jhr) : jhr'[s].no = jhr[s].no
    /\ Len(jdx) <= Len(jdx')

LEMMA StepGrows ==
    ASSUME IInv, NEW p \in Proc, Step(p) PROVE Grows
  <1>0. TypeOK /\ LocalInv(p) /\ jhr \in Seq(Headers) /\ jdx \in Seq(Nat)
        /\ op[p] \in Ops /\ op[p].slot \in Nat /\ op[p].hdr \in Headers
        /\ op[p].hdr.no \in Nat
    BY DEF IInv, TypeOK, Ops, Headers
  <1>1. CASE UNCHANGED <<jhr, jdx>>
    BY <1>0, <1>1 DEF Grows
  <1>2. CASE Build(p)
    <2>1. UNCHANGED jdx /\ pc[p] = "build"
      BY <1>2 DEF Build
    <2>2. CASE UNCHANGED jhr
      BY <1>0, <2>1, <2>2 DEF Grows
    <2>3. CASE BuildUpdate(p) /\ op[p].mode # "new"
      <3> DEFINE at == jdx[msg[p].no]
      <3>1. /\ at \in 1..Len(jhr)
            /\ jhr' = jhr \/ jhr' = [jhr EXCEPT ![at].del = TRUE]
        BY <2>1, <2>3, UpdateProperties
      <3>2. CASE jhr' = jhr
        BY <1>0, <2>1, <3>2 DEF Grows
      <3>3. CASE jhr' = [jhr EXCEPT ![at] = [jhr[at] EXCEPT !.del = TRUE]]
        <4> HIDE DEF at
        <4>1. Len(jhr') = Len(jhr)
          BY <1>0, <3>1, <3>3
        <4>2. jhr[at] \in Headers
          BY <1>0, <3>1
        <4>3. [jhr[at] EXCEPT !.del = TRUE].no = jhr[at].no
          BY <4>2 DEF Headers
        <4>4. \A s \in 1..Len(jhr) : jhr'[s].no = jhr[s].no
          BY <1>0, <3>1, <3>3, <4>3
        <4> QED BY <1>0, <2>1, <4>1, <4>4 DEF Grows
      <3> QED BY <3>1, <3>2, <3>3
    <2> QED BY <1>2, <2>2, <2>3, BuildCases DEF BuildNew, BuildGone
  <1>3. CASE WriteHeader(p)
    <2> DEFINE new == Put(jhr, op[p].slot, op[p].hdr)
    <2>0. op[p].slot \in 1..(Len(jhr) + 1)
      BY <1>0, <1>3 DEF WriteHeader, LocalInv
    <2>1. jhr' = new /\ UNCHANGED jdx
      BY <1>3 DEF WriteHeader
    <2>2. /\ Len(jhr) <= Len(new)
          /\ \A i \in 1..Len(new) : new[i] = IF i = op[p].slot THEN op[p].hdr ELSE jhr[i]
      BY <1>0, <2>0, PutProperties
    <2>t. new \in Seq(Headers)
      BY <1>0, PutType
    <2> HIDE DEF new
    <2>3. op[p].slot \in DOMAIN jhr => jhr[op[p].slot].no = op[p].hdr.no
      BY <1>0, <1>3 DEF WriteHeader, LocalInv
    <2> QED BY <1>0, <2>t, <2>1, <2>2, <2>3 DEF Grows
  <1>4. CASE WriteIndex(p)
    <2>1. PICK slot \in Nat : jdx' = Put(jdx, op[p].hdr.no, slot)
      BY <1>0, <1>4 DEF WriteIndex
    <2>2. op[p].hdr.no \in 1..(Len(jdx) + 1)
      BY <1>0, <1>4 DEF WriteIndex, LocalInv
    <2>3. Len(jdx) <= Len(Put(jdx, op[p].hdr.no, slot))
      BY <1>0, <2>2, PutProperties
    <2> QED BY <1>0, <1>4, <2>1, <2>3 DEF Grows, WriteIndex
  <1> QED BY <1>1, <1>2, <1>3, <1>4, StepWrites

\* Under each index entry the header is still that of its message.
LEMMA IndexStep ==
    ASSUME IInv, NEW p \in Proc, Step(p) PROVE IndexNumbers'
  <1>0. TypeOK /\ LocalInv(p) /\ IndexNumbers /\ jhr \in Seq(Headers)
        /\ jdx \in Seq(Nat) /\ jhr' \in Seq(Headers) /\ jdx' \in Seq(Nat)
        /\ op[p].slot \in Nat /\ op[p].hdr.no \in Nat
    BY TypeStep DEF IInv, TypeOK, Ops, Headers
  <1>1. Grows
    BY StepGrows
  <1>2. CASE jdx' = jdx
    BY <1>0, <1>1, <1>2, SMTT(60) DEF Grows, IndexNumbers
  <1>3. CASE WriteIndex(p)
    <2>1. PICK slot \in Nat : /\ slot \in {Gone, op[p].slot}
                             /\ jdx' = Put(jdx, op[p].hdr.no, slot)
      BY <1>0, <1>3 DEF WriteIndex
    <2>2. /\ op[p].slot \in 1..Len(jhr) /\ jhr[op[p].slot].no = op[p].hdr.no
          /\ op[p].hdr.no \in 1..(Len(jdx) + 1) /\ jhr' = jhr
      BY <1>0, <1>3 DEF WriteIndex, LocalInv
    <2>3. \A i \in 1..Len(Put(jdx, op[p].hdr.no, slot)) :
              \/ i = op[p].hdr.no /\ Put(jdx, op[p].hdr.no, slot)[i] = slot
              \/ i \in 1..Len(jdx) /\ Put(jdx, op[p].hdr.no, slot)[i] = jdx[i]
      BY <1>0, <2>2, PutNumber
    <2>4. \A i \in 1..Len(jdx') : \/ i = op[p].hdr.no /\ jdx'[i] = slot
                                  \/ i \in 1..Len(jdx) /\ jdx'[i] = jdx[i]
      BY <2>1, <2>3
    <2>5. ASSUME NEW n \in DOMAIN jdx', jdx'[n] # Gone
          PROVE  jdx'[n] \in DOMAIN jhr' /\ jhr'[jdx'[n]].no = n
      <3>1. CASE n = op[p].hdr.no /\ jdx'[n] = slot
        BY <1>0, <2>1, <2>2, <2>5, <3>1
      <3>2. CASE n \in 1..Len(jdx) /\ jdx'[n] = jdx[n]
        BY <1>0, <2>2, <2>5, <3>2 DEF IndexNumbers
      <3>3. n \in 1..Len(jdx')
        BY <1>0
      <3> QED BY <2>4, <3>1, <3>2, <3>3
    <2> QED BY <2>5 DEF IndexNumbers
  <1> QED
    BY <1>2, <1>3, StepWrites DEF Build, WriteHeader

-----------------------------------------------------------------------------
\* What the other programs know stays true: those inside the lock see no
\* change of the files, the others only rely on what grows.
LEMMA OthersStep ==
    ASSUME IInv, NEW p \in Proc, Step(p), NEW q \in Proc, q # p
    PROVE  LocalInv(q)'
  <1>0. TypeOK /\ TypeOK' /\ LocalInv(q) /\ Frame(p) /\ Grows
    BY TypeStep, StepFrame, StepGrows DEF IInv
  <1>1. /\ pc'[q] = pc[q] /\ msg'[q] = msg[q] /\ op'[q] = op[q]
        /\ jhr \in Seq(Headers) /\ jdx \in Seq(Nat)
        /\ jhr' \in Seq(Headers) /\ jdx' \in Seq(Nat)
    BY <1>0 DEF Frame, TypeOK
  <1>2. CASE UNCHANGED <<jhr, jdx>>
    BY <1>0, <1>1, <1>2 DEF LocalInv
  <1>3. CASE Build(p) \/ WriteHeader(p) \/ WriteIndex(p)
    <2>1. InLock(p)
      BY <1>3 DEF Build, WriteHeader, WriteIndex, InLock, Busy
    <2>2. ~InLock(q)
      BY <2>1 DEF IInv, LockInv
    <2>3. pc[q] \notin Busy
      BY <2>2 DEF InLock
    <2>4. /\ pc[q] = "loading" => /\ op[q].slot \in 1..Len(jhr)
                                  /\ jhr[op[q].slot].no \in 1..Len(jdx)
          /\ msg[q].no # NoMsg => msg[q].no \in 1..Len(jdx)
      BY <1>0, <1>1, SMTT(60) DEF LocalInv
    <2>5. /\ pc[q] = "loading" => /\ op[q].slot \in 1..Len(jhr')
                                  /\ jhr'[op[q].slot].no \in 1..Len(jdx')
          /\ msg[q].no # NoMsg => msg[q].no \in 1..Len(jdx')
      <3>1. /\ Len(jhr) \in Nat /\ Len(jhr') \in Nat /\ Len(jdx) \in Nat
            /\ Len(jdx') \in Nat
        BY <1>1
      <3>2. 1..Len(jhr) \subseteq 1..Len(jhr') /\ 1..Len(jdx) \subseteq 1..Len(jdx')
        BY <1>0, <3>1 DEF Grows
      <3>3. \A s \in 1..Len(jhr) : jhr'[s].no = jhr[s].no
        BY <1>0 DEF Grows
      <3> QED BY <2>4, <3>2, <3>3
    <2> QED BY <1>1, <2>3, <2>5, SMTT(60) DEF LocalInv, Busy
  <1> QED BY <1>2, <1>3, StepWrites

\* Acquiring the lock for one of the calls.
LEMMA LocalAcquire ==
    ASSUME IInv, NEW p \in Proc, NEW mode \in Modes \cup {"lock"},
           Acquire(p, mode), mode = "lock" \/ MayCall(p, mode)
    PROVE  LocalInv(p)'
  <1>1. TypeOK /\ LocalInv(p)
    BY DEF IInv
  <1>2. /\ pc'[p] = "refresh" /\ op'[p] = [NoOp EXCEPT !.mode = mode]
        /\ UNCHANGED <<jhr, jdx, msg>>
    BY <1>1 DEF Acquire, TypeOK, files
  <1>3. op'[p].mode = mode
    BY <1>2, Defaults DEF Ops
  <1> QED BY <1>1, <1>2, <1>3 DEF LocalInv, MayCall, Modes

LEMMA LocalStep ==
    ASSUME IInv, NEW p \in Proc, Step(p) PROVE LocalInv(p)'
  <1>0. TypeOK /\ LocalInv(p) /\ IndexNumbers /\ LockInv
    BY DEF IInv
  <1>t. /\ p \in DOMAIN pc /\ p \in DOMAIN op /\ p \in DOMAIN msg
        /\ jhr \in Seq(Headers) /\ jdx \in Seq(Nat) /\ op[p] \in Ops
        /\ msg[p] \in Headers
    BY <1>0 DEF TypeOK
  <1>n. NoOp.mode = "none" /\ NoCopy.no = NoMsg
    BY DEF NoOp, NoCopy, Header
  <1>1. CASE OpenArea(p) \/ InitHdrInfo(p)
    BY <1>0, <1>t, <1>1 DEF OpenArea, InitHdrInfo, files, LocalInv
  <1>2. CASE LoadIndex(p)
    <2>1. PICK n \in DOMAIN jdx : /\ jdx[n] # Gone
                                  /\ op' = [op EXCEPT ![p] = [op[p] EXCEPT !.slot = jdx[n]]]
      BY <1>2 DEF LoadIndex
    <2>2. op'[p].slot = jdx[n]
      BY <1>t, <2>1 DEF Ops
    <2>3. /\ pc'[p] = "loading" /\ UNCHANGED <<jhr, jdx, msg>>
      BY <1>t, <1>2 DEF LoadIndex, files
    <2> QED BY <1>0, <2>1, <2>2, <2>3 DEF LocalInv, IndexNumbers
  <1>3. CASE LoadHeader(p)
    BY <1>0, <1>t, <1>3 DEF LoadHeader, Back, files, LocalInv
  <1>4. CASE Refresh(p)
    <2>1. op[p].mode \in Modes \cup {"lock"}
      BY <1>0, <1>t, <1>4 DEF Refresh, Ops, LocalInv
    <2> QED BY <1>0, <1>t, <1>4, <2>1 DEF Refresh, files, LocalInv, Modes
  <1>5. CASE CallHeld(p)
    <2>1. PICK mode \in {"new", "hdr", "txt", "del"} :
              MayCall(p, mode) /\ op' = [op EXCEPT ![p] = [NoOp EXCEPT !.mode = mode]]
      BY <1>5 DEF CallHeld
    <2>2. op'[p].mode = mode
      BY <1>t, <2>1, Defaults DEF Ops
    <2> QED BY <1>0, <1>t, <1>5, <2>1, <2>2 DEF CallHeld, MayCall, files, LocalInv
  <1>6. CASE AreaUnlock(p)
    BY <1>0, <1>t, <1>6 DEF AreaUnlock, files, LocalInv
  <1>7. CASE Build(p)
    <2>1. CASE BuildNew(p) /\ op[p].mode = "new"
      <3>1. /\ op'[p].hdr.no = Len(jdx) + 1 /\ op'[p].slot = Len(jhr) + 1
            /\ pc'[p] = "header" /\ UNCHANGED <<jhr, jdx, msg>>
        BY <1>t, <1>7, <2>1 DEF Build, BuildNew, Header
      <3> QED BY <1>0, <1>t, <3>1 DEF LocalInv
    <2>2. CASE BuildGone(p)
      BY <1>0, <1>t, <1>7, <2>2 DEF Build, BuildGone, LocalInv
    <2>3. CASE BuildUpdate(p) /\ op[p].mode # "new"
      <3> DEFINE at == jdx[msg[p].no]
      <3>1. pc[p] = "build" /\ UNCHANGED <<jdx, msg>>
        BY <1>7 DEF Build
      <3>2. msg[p].no \in 1..Len(jdx)
        BY <1>0, <1>t, <2>3, <3>1 DEF LocalInv
      <3>3. /\ at \in 1..Len(jhr)
            /\ jhr[at].no = msg[p].no
            /\ jhr' = jhr \/ jhr' = [jhr EXCEPT ![at].del = TRUE]
            /\ jhr' \in Seq(Headers)
            /\ op'[p].hdr.no = msg[p].no
            /\ op'[p].slot \in {at, Len(jhr) + 1}
            /\ pc'[p] = "header"
        BY <1>t, <2>3, <3>1, UpdateProperties
      <3>4. jhr'[at].no = jhr[at].no
        BY <3>3, StepGrows DEF Grows
      <3>5. Len(jhr') = Len(jhr)
        BY <1>t, <3>3
      <3> QED BY <1>0, <1>t, <3>1, <3>2, <3>3, <3>4, <3>5, SMTT(60) DEF LocalInv
    <2> QED BY <1>7, <2>1, <2>2, <2>3, BuildCases
  <1>8. CASE WriteHeader(p)
    <2>1. /\ op[p].hdr \in Headers /\ op[p].slot \in 1..(Len(jhr) + 1)
          /\ op[p].slot \in Nat /\ op[p].hdr.no \in 1..(Len(jdx) + 1)
          /\ jhr \in Seq(Headers)
      BY <1>0, <1>t, <1>8 DEF WriteHeader, Ops, LocalInv
    <2> DEFINE new == Put(jhr, op[p].slot, op[p].hdr)
    <2>2. /\ op[p].slot \in 1..Len(new)
          /\ \A i \in 1..Len(new) : new[i] = IF i = op[p].slot THEN op[p].hdr ELSE jhr[i]
      BY <2>1, PutProperties
    <2>3. new \in Seq(Headers)
      BY <2>1, PutType
    <2>4. jhr' = new /\ pc'[p] = "index" /\ UNCHANGED <<jdx, msg, op>>
      BY <1>t, <1>8 DEF WriteHeader
    <2> HIDE DEF new
    <2>5. op[p].slot \in 1..Len(jhr') /\ jhr'[op[p].slot] = op[p].hdr
      BY <2>2, <2>4
    <2> QED BY <1>0, <2>1, <2>3, <2>4, <2>5 DEF LocalInv
  <1>9. CASE WriteIndex(p)
    <2>1. pc'[p] = "info" /\ UNCHANGED <<jhr, msg>> /\ Len(jdx) <= Len(jdx')
          /\ jdx' \in Seq(Nat)
      BY <1>t, <1>9, StepGrows, TypeStep DEF WriteIndex, Grows, TypeOK
    <2> QED BY <1>0, <1>t, <2>1 DEF LocalInv
  <1>10. CASE WriteInfo(p) \/ WriteText(p)
    BY <1>0, <1>t, <1>10 DEF WriteInfo, WriteText, LocalInv
  <1>11. CASE UpdateTimesread(p) \/ Finish(p) \/ Unlock(p)
    BY <1>0, <1>t, <1>n, <1>11 DEF UpdateTimesread, Finish, Unlock, files, LocalInv
  <1>12. CASE Crash(p)
    BY <1>0, <1>t, <1>n, <1>12 DEF Crash, files, LocalInv
  <1> QED
    BY <1>1, <1>2, <1>3, <1>4, <1>5, <1>6, <1>7, <1>8, <1>9, <1>10, <1>11,
       <1>12, LocalAcquire
       DEF Step, Run, Choose, Call, AreaLock

LEMMA InvStep == IInv /\ [Next]_vars => IInv'
  <1> SUFFICES ASSUME IInv, [Next]_vars PROVE IInv'
    OBVIOUS
  <1>1. ASSUME NEW p \in Proc, Step(p) PROVE IInv'
    <2>1. ASSUME NEW q \in Proc PROVE LocalInv(q)'
      BY <1>1, LocalStep, OthersStep
    <2> QED BY <1>1, <2>1, TypeStep, LockStep, IndexStep DEF IInv
  <1>2. CASE UNCHANGED vars
    BY <1>2 DEF vars, IInv, TypeOK, LockInv, InLock, IndexNumbers, LocalInv
  <1> QED BY <1>1, <1>2 DEF Next

-----------------------------------------------------------------------------
\* The inductive invariant holds always, whatever the programs do and
\* wherever they are killed.
THEOREM Invariance == Spec => []IInv
  BY InvInit, InvStep, PTL DEF Spec

\* Every file and every program's state keeps its shape.
THEOREM TypeCorrect == Spec => []TypeOK
  <1>1. IInv => TypeOK
    BY DEF IInv
  <1> QED BY <1>1, Invariance, PTL

\* The lock of the .jhr's first byte excludes: no two programs are between
\* ::lock and ::unlock, or between Area::Lock and Area::Unlock, at once.
THEOREM Exclusion == Spec => []MutualExclusion
  <1>1. IInv => MutualExclusion
    BY DEF IInv, LockInv, MutualExclusion
  <1> QED BY <1>1, Invariance, PTL

\* The index always finds a header of the message it names, even while others
\* write, after programs were killed, and for readers that take no lock.
THEOREM IndexCorrect == Spec => []IndexNumbers
  <1>1. IInv => IndexNumbers
    BY DEF IInv
  <1> QED BY <1>1, Invariance, PTL

LEMMA HeadersNext == IInv /\ [Next]_vars => [KeepsHeaders]_vars
  <1> SUFFICES ASSUME IInv, Next PROVE KeepsHeaders
    OBVIOUS
  <1>1. IInv'
    BY InvStep
  <1>2. jhr \in Seq(Headers) /\ jhr' \in Seq(Headers)
    BY <1>1 DEF IInv, TypeOK
  <1>3. Grows
    BY StepGrows DEF Next
  <1> QED BY <1>2, <1>3 DEF Grows, KeepsHeaders

\* No write puts a header over that of another message.
THEOREM HeadersStay == Spec => HeadersKept
  BY HeadersNext, Invariance, PTL DEF Spec, HeadersKept

-----------------------------------------------------------------------------
\* Once the base has its header info record, open_area never writes one.
SignedInv ==
    /\ info.signed
    /\ \A p \in Proc : pc[p] # "blank"

FreshInv == SignedInv /\ HdrinfoFresh

LEMMA FreshStep ==
    ASSUME IInv, FreshInv, NEW p \in Proc, Step(p) PROVE FreshInv'
  <1> USE DEF files, InLock, FreshInv, SignedInv, HdrinfoFresh
  <1>0. /\ TypeOK /\ TypeOK' /\ LockInv /\ LockInv' /\ Frame(p)
        /\ info \in HdrInfo /\ hdrinfo[p] \in HdrInfo
    BY TypeStep, LockStep, StepFrame DEF IInv, TypeOK
  <1>t. p \in DOMAIN pc /\ p \in DOMAIN hdrinfo /\ p \in DOMAIN islocked
    BY <1>0 DEF TypeOK
  <1>o. ASSUME \/ info' = info
               \/ InLock(p) /\ info'.signed
               , \A q \in Proc \ {p} : hdrinfo'[q] = hdrinfo[q]
               , pc'[p] # "blank"
               , InLock(p)' /\ pc'[p] # "refresh" => hdrinfo'[p] = info'
        PROVE  FreshInv'
    <2>1. info'.signed
      BY <1>o
    <2>2. ASSUME NEW q \in Proc, InLock(q)', pc'[q] # "refresh", q # p
          PROVE  hdrinfo'[q] = info'
      <3>1. InLock(q) /\ pc[q] # "refresh"
        BY <1>0, <2>2 DEF Frame
      <3>2. hdrinfo[q] = info /\ ~InLock(p)
        BY <1>0, <2>2, <3>1 DEF LockInv
      <3> QED BY <1>o, <2>2, <3>2
    <2>3. \A q \in Proc : pc'[q] # "blank"
      BY <1>o, <1>0 DEF Frame
    <2> QED BY <1>o, <2>1, <2>2, <2>3
  <1>1. CASE OpenArea(p)
    <2>1. pc[p] = "closed" /\ ~islocked[p]
      BY <1>0, <1>1 DEF OpenArea, LockInv
    <2>2. info' = info /\ pc'[p] = "idle" /\ ~islocked'[p]
      BY <1>t, <1>1, <2>1 DEF OpenArea
    <2>3. \A q \in Proc \ {p} : hdrinfo'[q] = hdrinfo[q]
      BY <1>0, <1>1 DEF OpenArea, TypeOK
    <2> QED BY <1>o, <2>2, <2>3 DEF Busy
  <1>2. CASE InitHdrInfo(p) \/ LoadIndex(p) \/ LoadHeader(p)
    BY <1>0, <1>t, <1>2, <1>o DEF InitHdrInfo, LoadIndex, LoadHeader, Back, Busy
  <1>3. ASSUME NEW mode, Acquire(p, mode) PROVE FreshInv'
    BY <1>0, <1>t, <1>3, <1>o DEF Acquire
  <1>4. CASE Refresh(p)
    BY <1>0, <1>t, <1>4, <1>o DEF Refresh
  <1>5. CASE CallHeld(p) \/ AreaUnlock(p)
    BY <1>0, <1>t, <1>5, <1>o DEF CallHeld, AreaUnlock, Busy
  <1>6. CASE Build(p)
    BY <1>0, <1>t, <1>6, <1>o DEF Build, BuildNew, BuildGone, BuildUpdate, Busy
  <1>7. CASE WriteHeader(p) \/ WriteIndex(p) \/ WriteText(p) \/ UpdateTimesread(p)
    BY <1>0, <1>t, <1>7, <1>o
       DEF WriteHeader, WriteIndex, WriteText, UpdateTimesread, Busy
  <1>8. CASE WriteInfo(p)
    <2>1. InLock(p) /\ hdrinfo[p] = info
      BY <1>8 DEF WriteInfo, Busy
    <2>2. hdrinfo'[p] = [info EXCEPT !.activemsgs = @ + op[p].change]
      BY <1>t, <1>8, <2>1 DEF WriteInfo
    <2>3. hdrinfo'[p].signed
      BY <1>0, <2>2 DEF HdrInfo
    <2>4. pc'[p] # "blank" /\ info' = hdrinfo'[p]
          /\ \A q \in Proc \ {p} : hdrinfo'[q] = hdrinfo[q]
      BY <1>0, <1>t, <1>8 DEF WriteInfo, TypeOK
    <2> QED BY <1>o, <2>1, <2>3, <2>4
  <1>9. CASE Finish(p) \/ Unlock(p)
    BY <1>0, <1>t, <1>9, <1>o DEF Finish, Unlock, Busy
  <1>10. CASE Crash(p)
    BY <1>0, <1>t, <1>10, <1>o DEF Crash, Busy
  <1> QED
    BY <1>1, <1>2, <1>3, <1>4, <1>5, <1>6, <1>7, <1>8, <1>9, <1>10
       DEF Step, Run, Choose, Call, AreaLock

LEMMA FreshInit == ASSUME ~Blank PROVE Init => FreshInv
  <1> SUFFICES ASSUME Init PROVE FreshInv
    OBVIOUS
  <1>1. info.signed
    <2>1. info.signed = ~Blank
      BY DEF Init
    <2> QED BY <2>1
  <1>2. \A p \in Proc : pc[p] = "closed" /\ ~islocked[p]
    BY DEF Init
  <1> QED BY <1>1, <1>2 DEF FreshInv, SignedInv, HdrinfoFresh, InLock, Busy

LEMMA FreshNext == IInv /\ FreshInv /\ [Next]_vars => FreshInv'
  <1> SUFFICES ASSUME IInv, FreshInv, [Next]_vars PROVE FreshInv'
    OBVIOUS
  <1>1. ASSUME NEW p \in Proc, Step(p) PROVE FreshInv'
    BY <1>1, FreshStep
  <1>2. CASE UNCHANGED vars
    BY <1>2 DEF vars, FreshInv, SignedInv, HdrinfoFresh, InLock
  <1> QED BY <1>1, <1>2 DEF Next

\* In a base that already has a header info record, a program inside the lock
\* works on what is on file: no count of another program is ever undone.
THEOREM CountsKept == ASSUME ~Blank PROVE Spec => []HdrinfoFresh
  <1>1. FreshInv => HdrinfoFresh
    BY DEF FreshInv
  <1> QED BY <1>1, FreshInit, FreshNext, Invariance, PTL DEF Spec

-----------------------------------------------------------------------------
\* The text of a message is on file, under its number, or about to be written
\* for it by the program that has the lock.
Writing(q) == pc[q] \in {"index", "info", "text"} /\ op[q].mode \in {"new", "txt"}
Owned(h)   == h.text \in DOMAIN jdt /\ jdt[h.text] = h.no
Coming(h)  == \E q \in Proc : /\ Writing(q)
                              /\ op[q].hdr.text = h.text /\ op[q].hdr.no = h.no
HasText(h) == Owned(h) \/ Coming(h)

TextLocal(p) ==
    /\ msg[p].no # NoMsg => HasText(msg[p])
    /\ pc[p] \in {"header", "index", "info", "text"} =>
        \/ Owned(op[p].hdr)
        \/ op[p].mode \in {"new", "txt"} /\ op[p].hdr.text = Len(jdt) + 1
    /\ pc[p] = "text" => op[p].mode \in {"new", "txt"}

\* So it is for every header there ever was, and for those in memory, if no
\* program is killed in between.
TextInv == /\ \A s \in DOMAIN jhr : HasText(jhr[s])
           /\ \A p \in Proc : TextLocal(p)

LEMMA NothingComing ==
    ASSUME IInv, NEW p \in Proc, InLock(p), ~Writing(p), NEW h
    PROVE  ~Coming(h)
  <1>1. \A q \in Proc : InLock(q) => q = p
    BY DEF IInv, LockInv
  <1>2. \A q \in Proc : Writing(q) => InLock(q)
    BY DEF Writing, InLock, Busy
  <1> QED BY <1>1, <1>2 DEF Coming

\* What the program that has the lock does with texts: it keeps what it will
\* write, or writes it.
TextsStay(p) == /\ jdt' = jdt
                /\ Writing(p) => Writing(p)' /\ op'[p] = op[p]

LEMMA TextSteps ==
    ASSUME TypeOK, NEW p \in Proc, Step(p), ~Crash(p)
    PROVE  TextsStay(p) \/ WriteText(p)
  <1> USE DEF TextsStay, Writing, files, TypeOK
  <1>1. CASE OpenArea(p) \/ InitHdrInfo(p) \/ LoadIndex(p) \/ LoadHeader(p)
    BY <1>1 DEF OpenArea, InitHdrInfo, LoadIndex, LoadHeader
  <1>2. ASSUME NEW mode, Acquire(p, mode) PROVE TextsStay(p)
    BY <1>2 DEF Acquire
  <1>3. CASE Refresh(p) \/ CallHeld(p) \/ AreaUnlock(p)
    BY <1>3 DEF Refresh, CallHeld, AreaUnlock
  <1>4. CASE Build(p)
    BY <1>4 DEF Build, BuildNew, BuildGone, BuildUpdate
  <1>5. CASE WriteHeader(p) \/ WriteIndex(p)
    BY <1>5 DEF WriteHeader, WriteIndex
  <1>6. CASE WriteInfo(p)
    BY <1>6 DEF WriteInfo
  <1>7. CASE UpdateTimesread(p) \/ Finish(p) \/ Unlock(p)
    BY <1>7 DEF UpdateTimesread, Finish, Unlock
  <1> QED
    BY <1>1, <1>2, <1>3, <1>4, <1>5, <1>6, <1>7
       DEF Step, Run, Choose, Call, AreaLock

\* Writing a text takes none away, and brings the one that was coming.
LEMMA TextWritten ==
    ASSUME IInv, TextInv, NEW p \in Proc, WriteText(p)
    PROVE  /\ \A t \in DOMAIN jdt : t \in DOMAIN jdt' /\ jdt'[t] = jdt[t]
           /\ op[p].hdr.text \in DOMAIN jdt'
           /\ jdt'[op[p].hdr.text] = op[p].hdr.no
  <1> DEFINE t == op[p].hdr.text  no == op[p].hdr.no
  <1>1. jdt \in Seq(Nat) /\ no \in Nat /\ pc[p] = "text" /\ jdt' = Put(jdt, t, no)
    BY DEF IInv, TypeOK, Ops, Headers, WriteText
  <1>2. Owned(op[p].hdr) \/ t = Len(jdt) + 1
    BY <1>1 DEF TextInv, TextLocal
  <1>3. t \in 1..(Len(jdt) + 1) /\ (t \in 1..Len(jdt) => jdt[t] = no)
    BY <1>1, <1>2 DEF Owned
  <1> DEFINE new == Put(jdt, t, no)
  <1> HIDE DEF t, no
  <1>4. /\ new \in Seq(Nat) /\ Len(jdt) <= Len(new) /\ t \in 1..Len(new)
        /\ \A i \in 1..Len(new) : new[i] = IF i = t THEN no ELSE jdt[i]
    <2>1. t \in Nat /\ jdt \in Seq(Nat) /\ no \in Nat /\ t \in 1..(Len(jdt) + 1)
      BY <1>1, <1>3
    <2>2. Put(jdt, t, no) \in Seq(Nat)
      BY <2>1, PutType
    <2>3. /\ Len(jdt) <= Len(Put(jdt, t, no)) /\ t \in 1..Len(Put(jdt, t, no))
          /\ \A i \in 1..Len(Put(jdt, t, no)) :
                Put(jdt, t, no)[i] = IF i = t THEN no ELSE jdt[i]
      BY <2>1, PutProperties
    <2> QED BY <2>2, <2>3
  <1> HIDE DEF new
  <1>5. ASSUME NEW i \in DOMAIN jdt PROVE i \in DOMAIN new /\ new[i] = jdt[i]
    <2>1. i \in 1..Len(jdt) /\ Len(jdt) \in Nat /\ Len(new) \in Nat
          /\ DOMAIN new = 1..Len(new)
      BY <1>1, <1>4
    <2>2. i \in 1..Len(new)
      BY <1>4, <2>1
    <2>3. new[i] = IF i = t THEN no ELSE jdt[i]
      BY <1>4, <2>2
    <2> QED BY <1>3, <2>1, <2>2, <2>3
  <1>6. t \in DOMAIN new /\ new[t] = no
    BY <1>4
  <1> QED BY <1>1, <1>5, <1>6 DEF t, no, new

\* A header that has its text keeps it.
LEMMA TextKept ==
    ASSUME IInv, TextInv, NEW p \in Proc, Step(p), ~Crash(p), NEW h, HasText(h)
    PROVE  \/ h.text \in DOMAIN jdt' /\ jdt'[h.text] = h.no
           \/ \E q \in Proc : /\ Writing(q)'
                              /\ op'[q].hdr.text = h.text /\ op'[q].hdr.no = h.no
  <1>0. TypeOK /\ Frame(p)
    BY StepFrame DEF IInv
  <1>1. CASE TextsStay(p)
    <2>1. \A q \in Proc : Writing(q) => Writing(q)' /\ op'[q] = op[q]
      BY <1>0, <1>1 DEF TextsStay, Frame, Writing
    <2> QED BY <1>1, <2>1 DEF HasText, Owned, Coming, TextsStay
  <1>2. CASE WriteText(p)
    <2>1. CASE Owned(h)
      BY <1>2, <2>1, TextWritten DEF Owned
    <2>2. CASE Coming(h)
      <3>1. PICK q \in Proc : Writing(q) /\ op[q].hdr.text = h.text /\ op[q].hdr.no = h.no
        BY <2>2 DEF Coming
      <3>2. InLock(p) /\ InLock(q)
        BY <1>2, <3>1 DEF WriteText, InLock, Busy, Writing
      <3>3. q = p
        BY <3>2 DEF IInv, LockInv
      <3> QED BY <1>2, <3>1, <3>3, TextWritten
    <2> QED BY <2>1, <2>2 DEF HasText
  <1> QED BY <1>0, <1>1, <1>2, TextSteps

\* A rebuilt header keeps the text of the message in memory, or is about to
\* get a new one; the header on file keeps its text, if it is marked deleted.
LEMMA UpdateText ==
    ASSUME IInv, NEW p \in Proc, pc[p] = "build", BuildUpdate(p), op[p].mode # "new"
    PROVE  /\ op'[p].mode = op[p].mode
           /\ op'[p].hdr.no = msg[p].no
           /\ \/ op'[p].hdr.text = msg[p].text
              \/ op[p].mode = "txt" /\ op'[p].hdr.text = Len(jdt) + 1
           /\ DOMAIN jhr' = DOMAIN jhr
           /\ \A s \in DOMAIN jhr : jhr'[s].no = jhr[s].no /\ jhr'[s].text = jhr[s].text
  <1> DEFINE at == jdx[msg[p].no]
  <1>1. PICK len \in Nat, text \in {msg[p].text, Len(jdt) + 1} :
            /\ op' = [op EXCEPT ![p] = Rebuilt(p, len, text)]
            /\ op[p].mode = "txt" \/ text = msg[p].text
    <2>1. SubLen \subseteq Nat /\ msg[p].len \in Nat
      <3>1. msg[p] \in Headers
        BY DEF IInv, TypeOK
      <3>2. msg[p].len \in SubLen
        BY <3>1 DEF Headers
      <3> QED BY <3>2 DEF SubLen
    <2>2. PICK len \in IF op[p].mode = "txt" THEN SubLen ELSE {msg[p].len},
               text \in IF op[p].mode = "txt" THEN {msg[p].text, Len(jdt) + 1}
                                              ELSE {msg[p].text} :
            op' = [op EXCEPT ![p] = Rebuilt(p, len, text)]
      BY Zenon DEF BuildUpdate
    <2>3. len \in Nat /\ text \in {msg[p].text, Len(jdt) + 1}
          /\ (op[p].mode = "txt" \/ text = msg[p].text)
      BY <2>1, <2>2
    <2> QED BY <2>2, <2>3
  <1>2. op'[p] = Rebuilt(p, len, text)
    BY <1>1 DEF IInv, TypeOK
  <1>3. Rebuilt(p, len, text).mode = op[p].mode
    BY DEF Rebuilt
  <1>4. Rebuilt(p, len, text).hdr.no = msg[p].no /\ Rebuilt(p, len, text).hdr.text = text
    BY DEF Rebuilt, Header
  <1>5. jhr \in Seq(Headers) /\ at \in 1..Len(jhr)
        /\ (jhr' = jhr \/ jhr' = [jhr EXCEPT ![at] = [jhr[at] EXCEPT !.del = TRUE]])
    BY UpdateProperties DEF IInv, TypeOK
  <1> HIDE DEF at
  <1>6. jhr[at] \in Headers
    BY <1>5
  <1>7. /\ [jhr[at] EXCEPT !.del = TRUE].no = jhr[at].no
        /\ [jhr[at] EXCEPT !.del = TRUE].text = jhr[at].text
    BY <1>6 DEF Headers
  <1>8. DOMAIN jhr' = DOMAIN jhr
    BY <1>5
  <1>9. \A s \in DOMAIN jhr : jhr'[s].no = jhr[s].no /\ jhr'[s].text = jhr[s].text
    BY <1>5, <1>7
  <1> QED BY <1>1, <1>2, <1>3, <1>4, <1>8, <1>9

LEMMA HeadersText ==
    ASSUME IInv, TextInv, NEW p \in Proc, Step(p), ~Crash(p)
    PROVE  (\A s \in DOMAIN jhr : HasText(jhr[s]))'
  <1> USE DEF HasText, Owned, Coming
  <1>0. TypeOK /\ LocalInv(p)
    BY DEF IInv
  <1>1. CASE jhr' = jhr
    <2>1. \A s \in DOMAIN jhr : HasText(jhr[s])
      BY DEF TextInv
    <2> QED BY <1>1, <2>1, TextKept
  <1>2. CASE Build(p)
    <2>1. pc[p] = "build"
      BY <1>2 DEF Build
    <2>2. CASE BuildUpdate(p) /\ op[p].mode # "new"
      <3>1. /\ DOMAIN jhr' = DOMAIN jhr
            /\ \A s \in DOMAIN jhr : jhr'[s].no = jhr[s].no /\ jhr'[s].text = jhr[s].text
        BY <2>1, <2>2, UpdateText
      <3>2. \A s \in DOMAIN jhr : HasText(jhr[s])
        BY DEF TextInv
      <3> QED BY <3>1, <3>2, TextKept
    <2> QED BY <1>1, <1>2, <2>2, BuildCases DEF BuildNew, BuildGone
  <1>3. CASE WriteHeader(p)
    <2> DEFINE h == op[p].hdr  slot == op[p].slot  new == Put(jhr, slot, h)
    <2>1. /\ jhr \in Seq(Headers) /\ h \in Headers /\ slot \in 1..(Len(jhr) + 1)
          /\ slot \in Nat /\ pc[p] = "header"
      BY <1>0, <1>3 DEF TypeOK, Ops, WriteHeader, LocalInv
    <2>2. /\ jhr' = new /\ pc'[p] = "index" /\ UNCHANGED <<jdt, op>>
      BY <1>0, <1>3 DEF WriteHeader, TypeOK
    <2>3. /\ \A i \in 1..Len(new) : i = slot \/ i \in 1..Len(jhr)
          /\ \A i \in 1..Len(new) : new[i] = IF i = slot THEN h ELSE jhr[i]
      BY <2>1, PutProperties
    <2>t. new \in Seq(Headers)
      BY <2>1, PutType
    <2> HIDE DEF new, slot
    <2>4. (h.text \in DOMAIN jdt' /\ jdt'[h.text] = h.no) \/ (Writing(p)' /\ op'[p].hdr = h)
      BY <2>1, <2>2 DEF TextInv, TextLocal, Writing
    <2>5. ASSUME NEW s \in DOMAIN jhr' PROVE HasText(jhr[s])'
      <3>0. s \in 1..Len(new)
        BY <2>2, <2>t
      <3>1. CASE s = slot
        <4>1. jhr'[s] = h
          BY <2>2, <2>3, <3>0, <3>1
        <4> QED BY <2>4, <4>1
      <3>2. CASE s # slot
        <4>1. s \in DOMAIN jhr /\ jhr'[s] = jhr[s]
          BY <2>1, <2>2, <2>3, <3>0, <3>2
        <4>2. HasText(jhr[s])
          BY <4>1 DEF TextInv
        <4> QED BY <4>1, <4>2, TextKept
      <3> QED BY <3>1, <3>2
    <2> QED BY <2>5
  <1> QED BY <1>1, <1>2, <1>3, StepWrites DEF WriteIndex

\* Between two steps a program has the text of what it is saving.
Saves(p) == pc[p] \in {"header", "index", "info", "text"}

LEMMA SavingSteps ==
    ASSUME IInv, NEW p \in Proc, Step(p), Saves(p)'
    PROVE  \/ Build(p) /\ ~BuildGone(p)
           \/ Saves(p) /\ op'[p] = op[p] /\ jdt' = jdt
  <1> USE DEF Saves
  <1>0. p \in DOMAIN pc /\ TypeOK
    BY DEF IInv, TypeOK
  <1>1. CASE OpenArea(p) \/ InitHdrInfo(p) \/ LoadIndex(p) \/ LoadHeader(p)
    BY <1>0, <1>1 DEF OpenArea, InitHdrInfo, LoadIndex, LoadHeader, Back
  <1>2. ASSUME NEW mode, Acquire(p, mode) PROVE FALSE
    BY <1>0, <1>2 DEF Acquire
  <1>3. CASE Refresh(p) \/ CallHeld(p) \/ AreaUnlock(p)
    BY <1>0, <1>3 DEF Refresh, CallHeld, AreaUnlock
  <1>4. CASE Build(p)
    BY <1>0, <1>4 DEF Build, BuildGone
  <1>5. CASE WriteHeader(p) \/ WriteIndex(p) \/ WriteInfo(p)
    BY <1>0, <1>5 DEF WriteHeader, WriteIndex, WriteInfo
  <1>6. CASE WriteText(p) \/ UpdateTimesread(p) \/ Unlock(p) \/ Crash(p)
    BY <1>0, <1>6 DEF WriteText, UpdateTimesread, Unlock, Crash
  <1>7. CASE Finish(p)
    <2>1. pc'[p] = CASE islocked[p]                           -> "held"
                     [] ~islocked[p] /\ op[p].mode = "close" -> "closing"
                     [] OTHER                                 -> "unlock"
      BY <1>0, <1>7 DEF Finish
    <2>2. pc'[p] \in {"held", "closing", "unlock"}
      BY <2>1
    <2> QED BY <2>2
  <1> QED
    BY <1>1, <1>2, <1>3, <1>4, <1>5, <1>6, <1>7
       DEF Step, Run, Choose, Call, AreaLock

LEMMA SavedText ==
    ASSUME IInv, TextInv, NEW p \in Proc, Step(p), Saves(p)'
    PROVE  \/ Owned(op[p].hdr)'
           \/ (op[p].mode \in {"new", "txt"} /\ op[p].hdr.text = Len(jdt) + 1)'
  <1>1. CASE Build(p) /\ ~BuildGone(p)
    <2>0. pc[p] = "build" /\ jdt' = jdt
      BY <1>1 DEF Build
    <2>1. CASE BuildNew(p)
      <3>1. /\ op'[p].mode = "new" /\ op'[p].hdr.text = Len(jdt) + 1
        BY <2>1 DEF BuildNew, IInv, TypeOK, Header
      <3> QED BY <2>0, <3>1
    <2>2. CASE BuildUpdate(p) /\ op[p].mode # "new"
      <3>1. /\ op'[p].mode = op[p].mode /\ op'[p].hdr.no = msg[p].no
            /\ \/ op'[p].hdr.text = msg[p].text
               \/ op[p].mode = "txt" /\ op'[p].hdr.text = Len(jdt) + 1
        BY <2>0, <2>2, UpdateText
      <3>2. InLock(p) /\ ~Writing(p)
        BY <2>0 DEF InLock, Busy, Writing
      <3>3. msg[p].no # NoMsg
        BY <2>0, <2>2 DEF IInv, LocalInv
      <3>4. Owned(msg[p])
        BY <3>2, <3>3, NothingComing DEF TextInv, TextLocal, HasText
      <3> QED BY <2>0, <3>1, <3>4 DEF Owned
    <2> QED BY <1>1, <2>1, <2>2, BuildCases
  <1>2. CASE Saves(p) /\ op'[p] = op[p] /\ jdt' = jdt
    <2>1. Owned(op[p].hdr) \/ (op[p].mode \in {"new", "txt"} /\ op[p].hdr.text = Len(jdt) + 1)
      BY <1>2 DEF TextInv, TextLocal, Saves
    <2> QED BY <1>2, <2>1 DEF Owned
  <1> QED BY <1>1, <1>2, SavingSteps

\* What a program has in memory it had before, has just loaded, or is nothing.
LEMMA MemorySteps ==
    ASSUME IInv, NEW p \in Proc, Step(p)
    PROVE  msg'[p] \in {msg[p], NoCopy} \/ LoadHeader(p)
  <1>0. TypeOK
    BY DEF IInv
  <1>1. CASE OpenArea(p) \/ InitHdrInfo(p) \/ LoadIndex(p)
    BY <1>1 DEF OpenArea, InitHdrInfo, LoadIndex
  <1>2. ASSUME NEW mode, Acquire(p, mode) PROVE msg' = msg
    BY <1>2 DEF Acquire
  <1>3. CASE Refresh(p) \/ CallHeld(p) \/ AreaUnlock(p) \/ Build(p)
    BY <1>3 DEF Refresh, CallHeld, AreaUnlock, Build
  <1>4. CASE WriteHeader(p) \/ WriteIndex(p) \/ WriteInfo(p) \/ WriteText(p)
    BY <1>4 DEF WriteHeader, WriteIndex, WriteInfo, WriteText
  <1>5. CASE UpdateTimesread(p) \/ Unlock(p) \/ Finish(p) \/ Crash(p)
    BY <1>0, <1>5 DEF UpdateTimesread, Unlock, Finish, Crash, TypeOK
  <1> QED
    BY <1>1, <1>2, <1>3, <1>4, <1>5 DEF Step, Run, Choose, Call, AreaLock

\* A text is written where new text was announced.
LEMMA TextFrom ==
    ASSUME IInv, NEW p \in Proc, Step(p), pc'[p] = "text"
    PROVE  WriteInfo(p)
  <1>0. p \in DOMAIN pc
    BY DEF IInv, TypeOK
  <1>1. CASE OpenArea(p) \/ InitHdrInfo(p) \/ LoadIndex(p) \/ LoadHeader(p)
    BY <1>0, <1>1 DEF OpenArea, InitHdrInfo, LoadIndex, LoadHeader, Back
  <1>2. ASSUME NEW mode, Acquire(p, mode) PROVE FALSE
    BY <1>0, <1>2 DEF Acquire
  <1>3. CASE Refresh(p) \/ CallHeld(p) \/ AreaUnlock(p)
    BY <1>0, <1>3 DEF Refresh, CallHeld, AreaUnlock
  <1>4. CASE Build(p) \/ WriteHeader(p) \/ WriteIndex(p) \/ WriteText(p)
    BY <1>0, <1>4 DEF Build, BuildNew, BuildGone, BuildUpdate, WriteHeader, WriteIndex,
                      WriteText
  <1>5. CASE UpdateTimesread(p) \/ Unlock(p) \/ Crash(p)
    BY <1>0, <1>5 DEF UpdateTimesread, Unlock, Crash
  <1>6. CASE Finish(p)
    <2>1. pc'[p] = CASE islocked[p]                           -> "held"
                     [] ~islocked[p] /\ op[p].mode = "close" -> "closing"
                     [] OTHER                                 -> "unlock"
      BY <1>0, <1>6 DEF Finish
    <2>2. pc'[p] \in {"held", "closing", "unlock"}
      BY <2>1
    <2> QED BY <2>2
  <1> QED
    BY <1>1, <1>2, <1>3, <1>4, <1>5, <1>6 DEF Step, Run, Choose, Call, AreaLock

LEMMA TextStep ==
    ASSUME IInv, TextInv, NEW p \in Proc, Step(p), ~Crash(p)
    PROVE  TextInv'
  <1>0. TypeOK /\ Frame(p) /\ LocalInv(p)
    BY StepFrame DEF IInv
  <1>1. (\A s \in DOMAIN jhr : HasText(jhr[s]))'
    BY HeadersText
  <1>2. ASSUME NEW q \in Proc, msg'[q].no # NoMsg PROVE HasText(msg[q])'
    <2> USE DEF HasText, Owned, Coming
    <2>1. CASE msg'[q] = msg[q]
      <3>1. HasText(msg[q])
        BY <1>2, <2>1 DEF TextInv, TextLocal
      <3> QED BY <2>1, <3>1, TextKept
    <2>2. CASE q = p /\ LoadHeader(p)
      <3>1. op[p].slot \in DOMAIN jhr /\ msg'[p] = jhr[op[p].slot]
        BY <1>0, <2>2 DEF LoadHeader, LocalInv, TypeOK
      <3>2. HasText(jhr[op[p].slot])
        BY <3>1 DEF TextInv
      <3> QED BY <2>2, <3>1, <3>2, TextKept
    <2>3. NoCopy.no = NoMsg
      BY DEF NoCopy, Header
    <2> QED BY <1>0, <1>2, <2>1, <2>2, <2>3, MemorySteps DEF Frame
  <1>3. ASSUME NEW q \in Proc, Saves(q)'
        PROVE  \/ Owned(op[q].hdr)'
               \/ (op[q].mode \in {"new", "txt"} /\ op[q].hdr.text = Len(jdt) + 1)'
    <2>1. CASE q = p
      BY <1>3, <2>1, SavedText
    <2>2. CASE q # p
      <3>1. Saves(q) /\ op'[q] = op[q]
        BY <1>0, <1>3, <2>2 DEF Frame, Saves
      <3>2. InLock(q) /\ ~InLock(p)
        BY <2>2, <3>1 DEF Saves, InLock, Busy, IInv, LockInv
      <3>3. jdt' = jdt
        BY <1>0, <3>2, TextSteps DEF TextsStay, WriteText, InLock, Busy
      <3>4. Owned(op[q].hdr) \/ (op[q].mode \in {"new", "txt"} /\ op[q].hdr.text = Len(jdt) + 1)
        BY <3>1 DEF TextInv, TextLocal, Saves
      <3> QED BY <3>1, <3>3, <3>4 DEF Owned
    <2> QED BY <2>1, <2>2
  <1>4. ASSUME NEW q \in Proc, pc'[q] = "text" PROVE op'[q].mode \in {"new", "txt"}
    <2>1. CASE q # p
      BY <1>0, <1>4, <2>1 DEF Frame, TextInv, TextLocal
    <2>2. CASE q = p
      <3>1. WriteInfo(p) /\ p \in DOMAIN pc
        BY <1>0, <1>4, <2>2, TextFrom DEF TypeOK
      <3> QED BY <1>4, <2>2, <3>1 DEF WriteInfo
    <2> QED BY <2>1, <2>2
  <1> QED BY <1>1, <1>2, <1>3, <1>4 DEF TextInv, TextLocal, Saves

LEMMA TextInit == Init => TextInv
  <1> SUFFICES ASSUME Init PROVE TextInv
    OBVIOUS
  <1>1. \A s \in DOMAIN jhr : Owned(jhr[s])
    BY DEF Init, Owned, Header
  <1>2. \A p \in Proc : pc[p] = "closed" /\ msg[p].no = NoMsg
    BY DEF Init, NoCopy, Header
  <1> QED BY <1>1, <1>2 DEF TextInv, TextLocal, HasText

LEMMA TextNext ==
    ASSUME MayCrash = {}
    PROVE  IInv /\ TextInv /\ [Next]_vars => TextInv'
  <1> SUFFICES ASSUME IInv, TextInv, [Next]_vars PROVE TextInv'
    OBVIOUS
  <1>1. ASSUME NEW p \in Proc, Step(p) PROVE TextInv'
    <2>1. ~Crash(p)
      BY DEF Crash
    <2> QED BY <1>1, <2>1, TextStep
  <1>2. CASE UNCHANGED vars
    BY <1>2 DEF vars, TextInv, TextLocal, HasText, Owned, Coming, Writing
  <1> QED BY <1>1, <1>2 DEF Next

\* Nobody writing, nothing is still to come.
LEMMA TextDone == IInv /\ TextInv => TextOwned
  <1> SUFFICES ASSUME IInv, TextInv, holder = NoProc, NEW n \in Live
               PROVE  /\ jhr[jdx[n]].text \in DOMAIN jdt
                      /\ jdt[jhr[jdx[n]].text] = n
    BY DEF TextOwned
  <1>1. jdx[n] \in DOMAIN jhr /\ jhr[jdx[n]].no = n
    BY DEF IInv, IndexNumbers, Live
  <1>2. HasText(jhr[jdx[n]])
    BY <1>1 DEF TextInv
  <1>3. \A q \in Proc : ~Writing(q)
    BY ProcAssumption DEF IInv, LockInv, InLock, Busy, Writing
  <1> QED BY <1>1, <1>2, <1>3 DEF HasText, Owned, Coming

\* Unless a program is killed while it writes, two live messages never share a
\* text, and each finds its own: a header in memory, however old, points to a
\* text that stays that message's, and new text goes to the end.
THEOREM TextsOwned == ASSUME MayCrash = {} PROVE Spec => []TextOwned
  <1>1. IInv /\ TextInv => TextOwned
    BY TextDone
  <1> QED BY <1>1, TextInit, TextNext, Invariance, PTL DEF Spec
-----------------------------------------------------------------------------
\* A program that has the base to itself, and is not killed.  (With a second one
\* activemsgs may drift, subfields may get lost, and a header may be written
\* through the index entry of a message deleted for good.)
Alone == MayCrash = {} /\ \A p, q \in Proc : p = q

\* The message in memory is about to be dropped.
Dropped(p) == /\ pc[p] \in {"header", "index", "info", "text", "finish"}
              /\ op[p].mode \in {"new", "txt", "del"}

AloneLocal(p) ==
    /\ pc[p] = "loading" => jdx[jhr[op[p].slot].no] = op[p].slot
    /\ msg[p].no # NoMsg /\ ~Dropped(p) =>
        jdx[msg[p].no] # Gone /\ jhr[jdx[msg[p].no]] = msg[p]
    /\ pc[p] # "closed" => hdrinfo[p].activemsgs = info.activemsgs
    /\ pc[p] \in {"header", "index"} =>
        /\ op[p].mode \in {"new", "hdr", "txt", "del"}
        /\ op[p].mode = "hdr" => /\ msg[p].no # NoMsg
                                 /\ op[p].hdr = msg[p] /\ op[p].slot = jdx[msg[p].no]
        /\ op[p].mode = "del" => op[p].hdr.del
        /\ op[p].hdr.stored = op[p].hdr.len
        /\ info.activemsgs + op[p].change =
             Cardinality(Live \ {op[p].hdr.no}) + (IF op[p].hdr.del THEN 0 ELSE 1)
    /\ pc[p] = "index" => jhr[op[p].slot] = op[p].hdr
    /\ pc[p] = "info"  => info.activemsgs + op[p].change = Cardinality(Live)

\* What it has in memory is on file, the counts it adds up are right, and every
\* header it writes has the subfields it announces.
AloneInv ==
    /\ ~wild /\ SubfieldsStored
    /\ (\A p \in Proc : pc[p] \notin {"header", "index", "info"}) =>
            info.activemsgs = Cardinality(Live)
    /\ \A p \in Proc : AloneLocal(p)

LEMMA LiveCount ==
    ASSUME TypeOK, NEW n
    PROVE  /\ Live \subseteq 1..Len(jdx) /\ Cardinality(Live) \in Nat
           /\ IsFiniteSet(Live \ {n}) /\ Cardinality(Live \ {n}) \in Nat
           /\ Cardinality(Live) = Cardinality(Live \ {n}) + (IF n \in Live THEN 1 ELSE 0)
  <1>1. Live \subseteq 1..Len(jdx) /\ Len(jdx) \in Nat
    BY DEF Live, TypeOK
  <1>2. IsFiniteSet(Live)
    <2>1. IsFiniteSet(1..Len(jdx))
      BY <1>1, FS_Interval
    <2> QED BY <1>1, <2>1, FS_Subset
  <1>3. IsFiniteSet(Live \ {n}) /\ Cardinality(Live \ {n}) \in Nat /\ Cardinality(Live) \in Nat
    BY <1>2, FS_RemoveElement, FS_CardinalityType
  <1>4. Cardinality(Live) = Cardinality(Live \ {n}) + (IF n \in Live THEN 1 ELSE 0)
    <2>1. CASE n \in Live
      <3>1. Live = (Live \ {n}) \cup {n}
        BY <2>1
      <3>2. Cardinality((Live \ {n}) \cup {n}) = Cardinality(Live \ {n}) + 1
        BY <1>3, FS_AddElement
      <3> QED BY <2>1, <3>1, <3>2
    <2>2. CASE n \notin Live
      <3>1. Live = Live \ {n}
        BY <2>2
      <3> QED BY <1>3, <2>2, <3>1
    <2> QED BY <2>1, <2>2
  <1> QED BY <1>1, <1>3, <1>4

\* A step that writes neither headers nor index, and adds nothing to the count.
LEMMA AloneQuiet ==
    ASSUME Alone, AloneInv, NEW p \in Proc, UNCHANGED <<jhr, jdx, wild>>,
           info'.activemsgs = info.activemsgs,
           pc[p] \notin {"header", "index", "info"}, pc'[p] \notin {"header", "index", "info"},
           pc'[p] = "loading" => jdx[jhr[op'[p].slot].no] = op'[p].slot,
           msg'[p].no # NoMsg /\ ~Dropped(p)' =>
                jdx[msg'[p].no] # Gone /\ jhr[jdx[msg'[p].no]] = msg'[p],
           pc'[p] # "closed" => hdrinfo'[p].activemsgs = info.activemsgs
    PROVE  AloneInv'
  <1>1. SubfieldsStored' /\ ~wild'
    BY DEF AloneInv, SubfieldsStored
  <1>2. Live' = Live
    BY DEF Live
  <1>3. \A q \in Proc : q = p
    BY DEF Alone
  <1>4. info'.activemsgs = Cardinality(Live')
    BY <1>2, <1>3 DEF AloneInv
  <1>5. AloneLocal(p)'
    BY <1>2 DEF AloneLocal
  <1> QED BY <1>1, <1>3, <1>4, <1>5 DEF AloneInv

LEMMA AloneInit == Init => AloneInv
  <1> SUFFICES ASSUME Init PROVE AloneInv
    OBVIOUS
  <1>1. /\ ~wild /\ \A p \in Proc : pc[p] = "closed" /\ msg[p].no = NoMsg
    BY DEF Init, NoCopy, Header
  <1>2. CASE Blank
    <2>1. jdx = << >> /\ info.activemsgs = 0
      BY <1>2 DEF Init
    <2>2. Live = {} /\ SubfieldsStored
      BY <2>1 DEF Live, SubfieldsStored
    <2>3. Cardinality(Live) = 0
      BY <2>2, FS_EmptySet
    <2> QED BY <1>1, <2>1, <2>2, <2>3 DEF AloneInv, AloneLocal
  <1>3. CASE ~Blank
    <2>1. jdx = <<1>> /\ jhr = <<Header(1, FALSE, 1, 1, 1)>> /\ info.activemsgs = 1
      BY <1>3 DEF Init
    <2>2. DOMAIN jdx = {1} /\ jdx[1] = 1
      BY <2>1
    <2>3. jhr[1].stored = jhr[1].len /\ ~jhr[1].del
      BY <2>1 DEF Header
    <2>4. Live = {1} /\ SubfieldsStored
      BY <2>2, <2>3 DEF Live, SubfieldsStored
    <2>5. Cardinality(Live) = 1
      BY <2>4, FS_Singleton
    <2> QED BY <1>1, <2>1, <2>4, <2>5 DEF AloneInv, AloneLocal
  <1> QED BY <1>2, <1>3

\* Opening, loading, locking, and what needs no change of the files.
LEMMA AloneCalls ==
    ASSUME IInv, Alone, AloneInv, NEW p \in Proc,
           \/ OpenArea(p) \/ InitHdrInfo(p) \/ LoadIndex(p) \/ LoadHeader(p)
           \/ Call(p) \/ AreaLock(p) \/ Refresh(p) \/ CallHeld(p) \/ AreaUnlock(p) \/ Unlock(p)
    PROVE  AloneInv'
  <1>0. TypeOK /\ LocalInv(p) /\ AloneLocal(p) /\ DOMAIN pc = Proc /\ DOMAIN hdrinfo = Proc
        /\ DOMAIN msg = Proc /\ DOMAIN op = Proc /\ info \in HdrInfo /\ hdrinfo[p] \in HdrInfo
    BY DEF IInv, TypeOK, AloneInv
  <1>1. CASE OpenArea(p)
    <2>1. /\ pc[p] = "closed" /\ pc'[p] \in {"idle", "blank"} /\ hdrinfo'[p] = info
          /\ UNCHANGED <<jhr, jdx, wild, info, msg>>
      BY <1>0, <1>1 DEF OpenArea, files
    <2> QED BY <1>0, <2>1, AloneQuiet DEF AloneLocal, Dropped
  <1>2. CASE InitHdrInfo(p)
    <2>1. /\ pc[p] = "blank" /\ pc'[p] = "idle" /\ info' = hdrinfo'[p]
          /\ hdrinfo'[p] = [hdrinfo[p] EXCEPT !.signed = TRUE]
          /\ UNCHANGED <<jhr, jdx, wild, msg>>
      BY <1>0, <1>2 DEF InitHdrInfo
    <2>2. hdrinfo'[p].activemsgs = hdrinfo[p].activemsgs
      BY <1>0, <2>1 DEF HdrInfo
    <2> QED BY <1>0, <2>1, <2>2, AloneQuiet DEF AloneLocal, Dropped
  <1>3. CASE LoadIndex(p)
    <2>1. /\ pc[p] \in {"idle", "held"} /\ pc'[p] = "loading"
          /\ UNCHANGED <<jhr, jdx, wild, info, msg, hdrinfo>>
      BY <1>0, <1>3 DEF LoadIndex, files
    <2>2. PICK n \in DOMAIN jdx : /\ jdx[n] # Gone
                                  /\ op' = [op EXCEPT ![p] = [op[p] EXCEPT !.slot = jdx[n]]]
      BY <1>3 DEF LoadIndex
    <2>3. op'[p].slot = jdx[n]
      <3>1. op[p] \in Ops
        BY <1>0 DEF TypeOK
      <3> QED BY <1>0, <2>2, <3>1 DEF Ops
    <2>4. jdx[jhr[op'[p].slot].no] = op'[p].slot
      BY <2>2, <2>3 DEF IInv, IndexNumbers
    <2> QED BY <1>0, <2>1, <2>4, AloneQuiet DEF AloneLocal, Dropped
  <1>4. CASE LoadHeader(p)
    <2>1. /\ pc[p] = "loading" /\ pc'[p] \in {"idle", "held"} /\ msg'[p] = jhr[op[p].slot]
          /\ UNCHANGED <<jhr, jdx, wild, info, hdrinfo>>
      BY <1>0, <1>4 DEF LoadHeader, files, Back
    <2>2. op[p].slot # Gone /\ jdx[msg'[p].no] = op[p].slot
      <3>1. op[p].slot \in 1..Len(jhr)
        BY <1>0, <2>1 DEF LocalInv, TypeOK
      <3> QED BY <1>0, <2>1, <3>1 DEF AloneLocal
    <2> QED BY <1>0, <2>1, <2>2, AloneQuiet DEF AloneLocal
  <1>5. CASE Call(p) \/ AreaLock(p) \/ Refresh(p) \/ CallHeld(p) \/ AreaUnlock(p) \/ Unlock(p)
    <2>1. /\ pc[p] \in {"idle", "refresh", "held", "unlock", "closing"}
          /\ pc'[p] \in {"refresh", "held", "timesread", "finish", "build", "idle", "closed"}
          /\ UNCHANGED <<jhr, jdx, wild, info, msg>>
          /\ hdrinfo'[p] = info \/ hdrinfo' = hdrinfo
      BY <1>0, <1>5 DEF Call, AreaLock, Acquire, Refresh, CallHeld, AreaUnlock, Unlock, files
    <2>2. ~Dropped(p)
      BY <2>1 DEF Dropped
    <2> QED BY <1>0, <2>1, <2>2, AloneQuiet DEF AloneLocal
  <1> QED BY <1>1, <1>2, <1>3, <1>4, <1>5

\* What ends a call, with or without a message saved.
LEMMA AloneEnds ==
    ASSUME IInv, Alone, AloneInv, NEW p \in Proc,
           (BuildGone(p) /\ Build(p)) \/ UpdateTimesread(p) \/ WriteText(p) \/ Finish(p)
    PROVE  AloneInv'
  <1>0. TypeOK /\ LocalInv(p) /\ AloneLocal(p) /\ DOMAIN pc = Proc /\ DOMAIN msg = Proc
    BY DEF IInv, TypeOK, AloneInv
  <1>1. CASE BuildGone(p) /\ Build(p)
    <2>1. /\ pc[p] = "build" /\ pc'[p] = "finish"
          /\ UNCHANGED <<jhr, jdx, wild, info, msg, hdrinfo>>
      BY <1>0, <1>1 DEF Build, BuildGone
    <2> QED BY <1>0, <2>1, AloneQuiet DEF AloneLocal, Dropped
  <1>2. CASE UpdateTimesread(p)
    <2>1. /\ pc[p] = "timesread" /\ pc'[p] = "finish"
          /\ UNCHANGED <<jhr, jdx, info, msg, hdrinfo>>
      BY <1>0, <1>2 DEF UpdateTimesread, files
    <2>2. jdx[msg[p].no] # Gone
      BY <1>0, <2>1 DEF LocalInv, AloneLocal, Dropped
    <2>3. wild' = wild
      <3>1. wild \in BOOLEAN /\ wild' = (wild \/ jdx[msg[p].no] = Gone)
        BY <1>0, <1>2 DEF UpdateTimesread, TypeOK
      <3> QED BY <2>2, <3>1
    <2> QED BY <1>0, <2>1, <2>3, AloneQuiet DEF AloneLocal, Dropped
  <1>3. CASE WriteText(p)
    <2>1. /\ pc[p] = "text" /\ pc'[p] = "finish"
          /\ UNCHANGED <<jhr, jdx, wild, info, msg, hdrinfo, op>>
      BY <1>0, <1>3 DEF WriteText
    <2> QED BY <1>0, <2>1, AloneQuiet DEF AloneLocal, Dropped
  <1>4. CASE Finish(p)
    <2>1. /\ pc[p] = "finish" /\ pc'[p] \in {"held", "closing", "unlock"}
          /\ UNCHANGED <<jhr, jdx, wild, hdrinfo>>
      <3>1. pc'[p] = CASE islocked[p]                           -> "held"
                       [] ~islocked[p] /\ op[p].mode = "close" -> "closing"
                       [] OTHER                                 -> "unlock"
        BY <1>0, <1>4 DEF Finish
      <3>2. pc'[p] \in {"held", "closing", "unlock"}
        BY <3>1
      <3> QED BY <1>4, <3>2 DEF Finish
    <2>2. info' = info \/ info' = hdrinfo[p]
      BY <1>4 DEF Finish
    <2>3. info'.activemsgs = info.activemsgs /\ hdrinfo[p].activemsgs = info.activemsgs
      BY <1>0, <2>1, <2>2 DEF AloneLocal
    <2>4. CASE op[p].mode \in {"new", "txt", "del", "close"}
      <3>1. msg'[p].no = NoMsg
        BY <1>0, <1>4, <2>4 DEF Finish, NoCopy, Header
      <3> QED BY <2>1, <2>3, <3>1, AloneQuiet
    <2>5. CASE op[p].mode \notin {"new", "txt", "del", "close"}
      <3>1. msg' = msg
        BY <1>4, <2>5 DEF Finish
      <3>2. ~Dropped(p)
        BY <2>5 DEF Dropped
      <3> QED BY <1>0, <2>1, <2>3, <3>1, <3>2, AloneQuiet DEF AloneLocal
    <2> QED BY <2>4, <2>5
  <1> QED BY <1>1, <1>2, <1>3, <1>4

LEMMA AloneBuildNew ==
    ASSUME IInv, Alone, AloneInv, NEW p \in Proc, Build(p), BuildNew(p)
    PROVE  AloneInv'
  <1>0. TypeOK /\ AloneLocal(p) /\ DOMAIN pc = Proc /\ DOMAIN op = Proc
        /\ \A q \in Proc : q = p
    BY DEF IInv, TypeOK, AloneInv, Alone
  <1> DEFINE n == Len(jdx) + 1
  <1>1. PICK len \in SubLen :
            op' = [op EXCEPT ![p] = [mode   |-> "new",
                                     hdr    |-> Header(n, FALSE, len, len, Len(jdt) + 1),
                                     slot   |-> Len(jhr) + 1,
                                     change |-> 1]]
    BY DEF BuildNew
  <1>2. /\ pc[p] = "build" /\ pc'[p] = "header"
        /\ UNCHANGED <<jhr, jdx, wild, info, msg, hdrinfo>>
    BY <1>0 DEF Build, BuildNew
  <1>3. /\ op'[p].mode = "new" /\ op'[p].change = 1
        /\ op'[p].hdr = Header(n, FALSE, len, len, Len(jdt) + 1)
    BY <1>0, <1>1
  <1>4. op'[p].hdr.no = n /\ ~op'[p].hdr.del /\ op'[p].hdr.stored = op'[p].hdr.len
    BY <1>3 DEF Header
  <1>5. info.activemsgs = Cardinality(Live) /\ Live' = Live
    BY <1>0, <1>2 DEF AloneInv, Live
  <1>6. Cardinality(Live \ {n}) = Cardinality(Live)
    <2>1. Live \subseteq 1..Len(jdx) /\ Len(jdx) \in Nat
      BY <1>0 DEF TypeOK, Live
    <2>2. n \notin Live
      BY <2>1
    <2>3. Live \ {n} = Live
      BY <2>2
    <2> QED BY <2>3
  <1> HIDE DEF n
  <1>7. AloneLocal(p)'
    <2>1. Dropped(p)'
      BY <1>2, <1>3 DEF Dropped
    <2>2. hdrinfo'[p].activemsgs = info'.activemsgs
      BY <1>0, <1>2 DEF AloneLocal
    <2> QED BY <1>2, <1>3, <1>4, <1>5, <1>6, <2>1, <2>2 DEF AloneLocal
  <1>8. SubfieldsStored' /\ ~wild'
    BY <1>2 DEF AloneInv, SubfieldsStored
  <1> QED BY <1>0, <1>2, <1>7, <1>8 DEF AloneInv

\* The message in memory is the one on file: saving its header changes nothing.
LEMMA AloneBuildUpdate ==
    ASSUME IInv, Alone, AloneInv, NEW p \in Proc, Build(p), BuildUpdate(p), op[p].mode # "new"
    PROVE  AloneInv'
  <1> DEFINE m    == msg[p]
             mode == op[p].mode
             at   == jdx[m.no]
             o    == op'[p]
             rest == Live \ {m.no}
  <1>0. TypeOK /\ AloneLocal(p) /\ LocalInv(p) /\ IndexNumbers /\ DOMAIN pc = Proc /\ DOMAIN op = Proc
        /\ \A q \in Proc : q = p
    BY DEF IInv, TypeOK, AloneInv, Alone
  <1>1. /\ pc[p] = "build" /\ pc'[p] = "header"
        /\ UNCHANGED <<jdx, wild, info, msg, hdrinfo>>
    BY <1>0 DEF Build, BuildUpdate
  <1>2. /\ m.no # NoMsg /\ mode \in {"hdr", "txt", "del"}
        /\ at # Gone /\ jhr[at] = m /\ m.no \in DOMAIN jdx
    BY <1>0, <1>1 DEF LocalInv, AloneLocal, Dropped
  <1>3. m \in Headers /\ at \in DOMAIN jhr /\ m.stored = m.len
    <2>1. m \in Headers /\ at \in DOMAIN jhr
      BY <1>0, <1>2 DEF TypeOK, IndexNumbers
    <2> QED BY <1>2, <2>1 DEF AloneInv, SubfieldsStored
  <1>4. PICK len, text :
            /\ jhr' = IF jhr[at].len = len THEN jhr ELSE [jhr EXCEPT ![at].del = TRUE]
            /\ op' = [op EXCEPT ![p] = Rebuilt(p, len, text)]
            /\ mode # "txt" => len = m.len /\ text = m.text
    <2>1. PICK len \in IF op[p].mode = "txt" THEN SubLen ELSE {msg[p].len},
               text \in IF op[p].mode = "txt" THEN {msg[p].text, Len(jdt) + 1}
                                              ELSE {msg[p].text} :
              /\ jhr' = IF jhr[jdx[msg[p].no]].len = len THEN jhr
                        ELSE [jhr EXCEPT ![jdx[msg[p].no]].del = TRUE]
              /\ op' = [op EXCEPT ![p] = Rebuilt(p, len, text)]
      BY Zenon DEF BuildUpdate
    <2> QED BY <2>1
  <1> DEFINE moved == m.len # len
  <1>5. /\ o.mode = mode /\ o.change = Change(mode, m.del, m.del)
        /\ o.slot = IF moved THEN Len(jhr) + 1 ELSE at
        /\ o.hdr = Header(m.no, m.del \/ mode = "del", len, Stored(mode, moved, len, m.stored), text)
    <2>1. o = Rebuilt(p, len, text)
      BY <1>0, <1>4
    <2> QED BY <1>2, <2>1 DEF Rebuilt
  <1>6. /\ o.hdr.no = m.no /\ o.hdr.len = len /\ o.hdr.text = text
        /\ o.hdr.del = (m.del \/ mode = "del")
        /\ o.hdr.stored = Stored(mode, moved, len, m.stored)
    BY <1>5 DEF Header
  <1>7. o.hdr.stored = o.hdr.len
    BY <1>2, <1>3, <1>4, <1>6 DEF Stored
  <1>8. mode = "hdr" => o.hdr = m /\ o.slot = at /\ jhr' = jhr
    <2> SUFFICES ASSUME mode = "hdr" PROVE o.hdr = m /\ o.slot = at /\ jhr' = jhr
      OBVIOUS
    <2>1. ~moved /\ len = m.len /\ text = m.text /\ jhr' = jhr
      BY <1>2, <1>4
    <2>2. Stored(mode, moved, len, m.stored) = m.stored
      BY <2>1 DEF Stored
    <2>3. m.del \in BOOLEAN /\ (m.del \/ mode = "del") = m.del
      BY <1>3 DEF Headers
    <2>4. o.hdr = Header(m.no, m.del, m.len, m.stored, m.text)
      <3> HIDE DEF mode, m
      <3> QED BY <1>5, <2>1, <2>2, <2>3
    <2>5. o.hdr = m
      <3> HIDE DEF m, o
      <3> QED BY <1>3, <2>4 DEF Header, Headers
    <2> QED BY <1>5, <2>1, <2>5
  <1>9. /\ DOMAIN jhr' = DOMAIN jhr
        /\ \A s \in DOMAIN jhr : /\ s # at => jhr'[s] = jhr[s]
                                 /\ jhr'[s].stored = jhr[s].stored /\ jhr'[s].len = jhr[s].len
    <2> DEFINE x == [m EXCEPT !.del = TRUE]
    <2>1. jhr' = jhr \/ jhr' = [jhr EXCEPT ![at] = x]
      BY <1>2, <1>4
    <2>2. x.stored = m.stored /\ x.len = m.len
      BY <1>3 DEF Headers
    <2> HIDE DEF x, m, at
    <2> QED BY <1>2, <2>1, <2>2 DEF m, at
  <1>10. \A n \in DOMAIN jdx : n # m.no /\ jdx[n] # Gone => jdx[n] # at /\ jdx[n] \in DOMAIN jhr
    BY <1>0, <1>2 DEF IndexNumbers
  <1>11. Live' \ {m.no} = rest
    <2>1. ASSUME NEW n, n # m.no PROVE n \in Live' <=> n \in Live
      <3>1. CASE n \in DOMAIN jdx /\ jdx[n] # Gone
        <4>1. jhr'[jdx[n]] = jhr[jdx[n]]
          BY <1>9, <1>10, <2>1, <3>1
        <4> QED BY <1>1, <3>1, <4>1 DEF Live
      <3>2. CASE ~(n \in DOMAIN jdx /\ jdx[n] # Gone)
        BY <1>1, <3>2 DEF Live
      <3> QED BY <3>1, <3>2
    <2> QED BY <2>1
  <1>12. info.activemsgs + o.change = Cardinality(rest) + (IF o.hdr.del THEN 0 ELSE 1)
    <2>1. info.activemsgs = Cardinality(rest) + (IF m.del THEN 0 ELSE 1)
      <3>1. info.activemsgs = Cardinality(Live)
        BY <1>0, <1>1 DEF AloneInv
      <3>2. m.no \in Live <=> ~m.del
        BY <1>2 DEF Live
      <3>3. Cardinality(Live) = Cardinality(rest) + (IF m.no \in Live THEN 1 ELSE 0)
        BY <1>0, LiveCount
      <3> HIDE DEF rest
      <3> QED BY <3>1, <3>2, <3>3
    <2>2. Cardinality(rest) \in Nat
      BY <1>0, LiveCount
    <2>3. m.del \in BOOLEAN
      BY <1>3 DEF Headers
    <2>4. o.change = IF mode = "del" /\ ~m.del THEN -1 ELSE 0
      BY <1>5, <2>3 DEF Change
    <2>5. o.hdr.del <=> m.del \/ mode = "del"
      BY <1>6
    <2> HIDE DEF rest, m, o
    <2> QED BY <2>1, <2>2, <2>3, <2>4, <2>5
  <1>13. AloneLocal(p)'
    <2>1. /\ msg' = msg /\ jdx' = jdx /\ info' = info
          /\ hdrinfo'[p].activemsgs = info.activemsgs
      BY <1>0, <1>1 DEF AloneLocal
    <2>2. Cardinality(Live' \ {o.hdr.no}) = Cardinality(rest)
      BY <1>6, <1>11
    <2>3. mode = "del" => o.hdr.del
      BY <1>6
    <2>4. mode # "hdr" => Dropped(p)'
      BY <1>1, <1>2, <1>5 DEF Dropped
    <2>5. mode = "hdr" => jhr'[at] = m
      BY <1>2, <1>8
    <2> HIDE DEF rest
    <2> QED BY <1>1, <1>2, <1>5, <1>6, <1>7, <1>8, <1>12, <2>1, <2>2, <2>3, <2>4, <2>5
         DEF AloneLocal
  <1>14. SubfieldsStored' /\ ~wild'
    <2>1. ASSUME NEW n \in DOMAIN jdx, jdx[n] # Gone
          PROVE  jhr'[jdx[n]].stored = jhr'[jdx[n]].len
      <3>1. jdx[n] \in DOMAIN jhr
        BY <1>0, <2>1 DEF IndexNumbers
      <3>2. jhr[jdx[n]].stored = jhr[jdx[n]].len
        BY <2>1 DEF AloneInv, SubfieldsStored
      <3> QED BY <1>9, <3>1, <3>2
    <2> QED BY <1>1, <2>1 DEF AloneInv, SubfieldsStored
  <1> QED BY <1>0, <1>1, <1>13, <1>14 DEF AloneInv

LEMMA AloneWriteHeader ==
    ASSUME IInv, Alone, AloneInv, NEW p \in Proc, WriteHeader(p)
    PROVE  AloneInv'
  <1> DEFINE h    == op[p].hdr
             slot == op[p].slot
             new  == Put(jhr, slot, h)
  <1>0. TypeOK /\ AloneLocal(p) /\ LocalInv(p) /\ IndexNumbers /\ DOMAIN pc = Proc
        /\ \A q \in Proc : q = p
    BY DEF IInv, TypeOK, AloneInv, Alone
  <1>1. /\ pc[p] = "header" /\ pc'[p] = "index" /\ jhr' = new
        /\ UNCHANGED <<jdx, wild, info, msg, op, hdrinfo>>
    BY <1>0 DEF WriteHeader
  <1>2. /\ jhr \in Seq(Headers) /\ h \in Headers /\ slot \in 1..(Len(jhr) + 1)
        /\ slot \in DOMAIN jhr => jhr[slot].no = h.no
    BY <1>0, <1>1 DEF TypeOK, Ops, LocalInv
  <1>3. /\ op[p].mode \in {"new", "hdr", "txt", "del"}
        /\ op[p].mode = "hdr" => msg[p].no # NoMsg /\ h = msg[p] /\ slot = jdx[msg[p].no]
        /\ op[p].mode = "del" => h.del
        /\ h.stored = h.len
        /\ info.activemsgs + op[p].change =
             Cardinality(Live \ {h.no}) + (IF h.del THEN 0 ELSE 1)
        /\ hdrinfo[p].activemsgs = info.activemsgs
    BY <1>0, <1>1 DEF AloneLocal
  <1>4. /\ slot \in 1..Len(new)
        /\ \A i \in 1..Len(new) : new[i] = IF i = slot THEN h ELSE jhr[i]
        /\ Len(jhr) <= Len(new) /\ Len(jhr) \in Nat /\ Len(new) \in Nat
    <2> HIDE DEF h, slot, new
    <2>1. jhr \in Seq(Headers) /\ h \in Headers /\ slot \in 1..(Len(jhr) + 1)
      BY <1>2
    <2>2. /\ Put(jhr, slot, h) \in Seq(Headers) /\ Len(jhr) <= Len(Put(jhr, slot, h))
          /\ slot \in 1..Len(Put(jhr, slot, h))
      BY <2>1, PutHeader
    <2>3. \A i \in 1..Len(Put(jhr, slot, h)) :
               Put(jhr, slot, h)[i] = IF i = slot THEN h ELSE jhr[i]
      BY <2>1, PutHeaderAt
    <2> QED BY <2>1, <2>2, <2>3 DEF new
  <1> HIDE DEF h, slot, new
  <1>5. \A i \in DOMAIN jhr : new[i] = IF i = slot THEN h ELSE jhr[i]
    BY <1>2, <1>4
  <1>6. ASSUME NEW n \in DOMAIN jdx, jdx[n] # Gone
        PROVE  /\ jhr'[jdx[n]] = IF jdx[n] = slot THEN h ELSE jhr[jdx[n]]
               /\ n # h.no => jdx[n] # slot
    BY <1>0, <1>1, <1>2, <1>5, <1>6 DEF IndexNumbers
  <1>7. Live' \ {h.no} = Live \ {h.no}
    <2>1. ASSUME NEW n, n # h.no PROVE n \in Live' <=> n \in Live
      <3>1. CASE n \in DOMAIN jdx /\ jdx[n] # Gone
        <4>1. jhr'[jdx[n]] = jhr[jdx[n]]
          BY <1>6, <2>1, <3>1
        <4> QED BY <1>1, <3>1, <4>1 DEF Live
      <3>2. CASE ~(n \in DOMAIN jdx /\ jdx[n] # Gone)
        BY <1>1, <3>2 DEF Live
      <3> QED BY <3>1, <3>2
    <2> QED BY <2>1
  <1>8. SubfieldsStored' /\ ~wild'
    <2>1. ASSUME NEW n \in DOMAIN jdx, jdx[n] # Gone
          PROVE  jhr'[jdx[n]].stored = jhr'[jdx[n]].len
      BY <1>3, <1>6, <2>1 DEF AloneInv, SubfieldsStored
    <2> QED BY <1>1, <2>1 DEF AloneInv, SubfieldsStored
  <1>9. op'[p].hdr = h /\ op'[p].slot = slot /\ jhr'[slot] = h
    BY <1>1, <1>4 DEF h, slot
  <1>10. msg'[p].no # NoMsg /\ ~Dropped(p)' =>
            jdx'[msg'[p].no] # Gone /\ jhr'[jdx'[msg'[p].no]] = msg'[p]
    <2> SUFFICES ASSUME msg[p].no # NoMsg, ~Dropped(p)'
                 PROVE  jdx[msg[p].no] # Gone /\ jhr'[jdx[msg[p].no]] = msg[p]
      BY <1>1
    <2>1. op[p].mode = "hdr" /\ ~Dropped(p)
      BY <1>1, <1>3 DEF Dropped
    <2>2. jdx[msg[p].no] # Gone
      BY <1>0, <2>1 DEF AloneLocal
    <2> QED BY <1>3, <1>9, <2>1, <2>2
  <1>11. AloneLocal(p)'
    <2>1. /\ op'[p].mode = op[p].mode /\ op'[p].change = op[p].change /\ msg' = msg /\ jdx' = jdx
          /\ info' = info /\ hdrinfo' = hdrinfo
      BY <1>1
    <2>2. Cardinality(Live' \ {op'[p].hdr.no}) = Cardinality(Live \ {h.no})
      BY <1>7, <1>9
    <2> QED BY <1>1, <1>3, <1>9, <1>10, <2>1, <2>2 DEF AloneLocal
  <1> QED BY <1>0, <1>1, <1>8, <1>11 DEF AloneInv

LEMMA AloneWriteIndex ==
    ASSUME IInv, Alone, AloneInv, NEW p \in Proc, WriteIndex(p)
    PROVE  AloneInv'
  <1> DEFINE h    == op[p].hdr
             slot == op[p].slot
             no   == h.no
             e    == IF op[p].mode = "del" /\ HardDelete THEN Gone ELSE slot
             new  == Put(jdx, no, e)
  <1>0. TypeOK /\ AloneLocal(p) /\ LocalInv(p) /\ IndexNumbers /\ DOMAIN pc = Proc
        /\ \A q \in Proc : q = p
    BY DEF IInv, TypeOK, AloneInv, Alone
  <1>1. /\ pc[p] = "index" /\ pc'[p] = "info" /\ jdx' = new
        /\ UNCHANGED <<jhr, wild, info, msg, op, hdrinfo>>
    BY <1>0 DEF WriteIndex
  <1>2. /\ jdx \in Seq(Nat) /\ no \in 1..(Len(jdx) + 1) /\ slot \in DOMAIN jhr
        /\ slot \in Nat /\ slot # Gone /\ jhr[slot] = h
    <2>1. slot \in DOMAIN jhr /\ jhr \in Seq(Headers)
      BY <1>0, <1>1 DEF LocalInv, TypeOK
    <2>2. slot \in 1..Len(jhr)
      BY <2>1
    <2> QED BY <1>0, <1>1, <2>1, <2>2 DEF TypeOK, LocalInv, AloneLocal
  <1>3. /\ op[p].mode \in {"new", "hdr", "txt", "del"}
        /\ op[p].mode = "hdr" => msg[p].no # NoMsg /\ h = msg[p] /\ slot = jdx[msg[p].no]
        /\ op[p].mode = "del" => h.del
        /\ h.stored = h.len
        /\ info.activemsgs + op[p].change =
             Cardinality(Live \ {no}) + (IF h.del THEN 0 ELSE 1)
        /\ hdrinfo[p].activemsgs = info.activemsgs
    BY <1>0, <1>1 DEF AloneLocal
  <1>4. /\ e \in Nat /\ (e = Gone => h.del) /\ (e # Gone => e = slot)
        /\ op[p].mode = "hdr" => e = slot
    BY <1>2, <1>3
  <1>5. /\ no \in 1..Len(new) /\ DOMAIN new = 1..Len(new)
        /\ \A i \in 1..Len(new) : i = no \/ i \in 1..Len(jdx)
        /\ \A i \in 1..Len(new) : new[i] = IF i = no THEN e ELSE jdx[i]
        /\ Len(jdx) <= Len(new) /\ Len(jdx) \in Nat /\ Len(new) \in Nat
    <2> HIDE DEF no, e
    <2>1. jdx \in Seq(Nat) /\ no \in 1..(Len(jdx) + 1) /\ e \in Nat
      BY <1>2, <1>4
    <2>3. /\ new \in Seq(Nat) /\ Len(jdx) <= Len(new) /\ no \in 1..Len(new)
          /\ \A i \in 1..Len(new) : i = no \/ i \in 1..Len(jdx)
          /\ \A i \in 1..Len(new) : new[i] = IF i = no THEN e ELSE jdx[i]
      BY <2>1, PutIndex
    <2>2. DOMAIN new = 1..Len(new) /\ Len(new) \in Nat /\ Len(jdx) \in Nat
      BY <2>1, <2>3
    <2> HIDE DEF new
    <2> QED BY <2>2, <2>3
  <1> HIDE DEF slot, e, new, no
  <1>6. /\ \A i \in DOMAIN jdx : i \in DOMAIN new /\ (i # no => new[i] = jdx[i])
        /\ \A i \in DOMAIN new : i # no => i \in DOMAIN jdx
        /\ no \in DOMAIN new /\ new[no] = e
    BY <1>2, <1>5
  <1>7. Live' = IF h.del THEN Live \ {no} ELSE (Live \ {no}) \cup {no}
    <2>1. ASSUME NEW n, n # no PROVE n \in Live' <=> n \in Live
      <3>1. n \in DOMAIN new <=> n \in DOMAIN jdx
        BY <1>6, <2>1
      <3>2. n \in DOMAIN jdx => new[n] = jdx[n]
        BY <1>6, <2>1
      <3> QED BY <1>1, <3>1, <3>2 DEF Live
    <2>2. no \in Live' <=> ~h.del
      <3>1. no \in Live' <=> e # Gone /\ ~jhr[e].del
        BY <1>1, <1>6 DEF Live
      <3> QED BY <1>2, <1>4, <3>1
    <2> QED BY <2>1, <2>2
  <1>8. info.activemsgs + op[p].change = Cardinality(Live')
    <2>1. /\ IsFiniteSet(Live \ {no}) /\ Cardinality(Live \ {no}) \in Nat
      BY <1>0, LiveCount
    <2>2. CASE h.del
      BY <1>3, <1>7, <2>1, <2>2
    <2>3. CASE ~h.del
      <3>1. Cardinality((Live \ {no}) \cup {no}) = Cardinality(Live \ {no}) + 1
        BY <2>1, FS_AddElement
      <3> QED BY <1>3, <1>7, <2>1, <2>3, <3>1
    <2> QED BY <2>2, <2>3
  <1>9. SubfieldsStored' /\ ~wild'
    <2>1. ASSUME NEW n \in DOMAIN new, new[n] # Gone
          PROVE  jhr[new[n]].stored = jhr[new[n]].len
      <3>1. CASE n = no
        BY <1>2, <1>3, <1>4, <1>6, <2>1, <3>1
      <3>2. CASE n # no
        BY <1>6, <2>1, <3>2 DEF AloneInv, SubfieldsStored
      <3> QED BY <3>1, <3>2
    <2> QED BY <1>1, <2>1 DEF AloneInv, SubfieldsStored
  <1>10. msg'[p].no # NoMsg /\ ~Dropped(p)' =>
            jdx'[msg'[p].no] # Gone /\ jhr'[jdx'[msg'[p].no]] = msg'[p]
    <2> SUFFICES ASSUME msg[p].no # NoMsg, ~Dropped(p)'
                 PROVE  jdx'[msg[p].no] # Gone /\ jhr[jdx'[msg[p].no]] = msg[p]
      BY <1>1
    <2>1. op[p].mode = "hdr"
      BY <1>1, <1>3 DEF Dropped
    <2>2. msg[p].no = no /\ jdx'[no] = slot
      BY <1>1, <1>3, <1>4, <1>6, <2>1 DEF no
    <2> QED BY <1>2, <1>3, <2>1, <2>2
  <1>11. AloneLocal(p)'
    BY <1>1, <1>3, <1>8, <1>10 DEF AloneLocal
  <1> QED BY <1>0, <1>1, <1>9, <1>11 DEF AloneInv

LEMMA AloneWriteInfo ==
    ASSUME IInv, Alone, AloneInv, NEW p \in Proc, WriteInfo(p)
    PROVE  AloneInv'
  <1>0. TypeOK /\ AloneLocal(p) /\ DOMAIN pc = Proc /\ DOMAIN hdrinfo = Proc
        /\ hdrinfo[p] \in HdrInfo /\ \A q \in Proc : q = p
    BY DEF IInv, TypeOK, AloneInv, Alone
  <1>1. /\ pc[p] = "info" /\ pc'[p] \in {"text", "finish"} /\ info' = hdrinfo'[p]
        /\ hdrinfo'[p] = [hdrinfo[p] EXCEPT !.activemsgs = @ + op[p].change]
        /\ UNCHANGED <<jhr, jdx, wild, msg, op>>
    BY <1>0 DEF WriteInfo
  <1>2. info'.activemsgs = hdrinfo[p].activemsgs + op[p].change
    BY <1>0, <1>1 DEF HdrInfo
  <1>3. Live' = Live
    BY <1>1 DEF Live
  <1>4. info'.activemsgs = Cardinality(Live')
    BY <1>0, <1>1, <1>2, <1>3 DEF AloneLocal
  <1>5. AloneLocal(p)'
    BY <1>0, <1>1 DEF AloneLocal, Dropped
  <1>6. SubfieldsStored' /\ ~wild'
    BY <1>1 DEF AloneInv, SubfieldsStored
  <1> QED BY <1>0, <1>4, <1>5, <1>6 DEF AloneInv

LEMMA AloneNext == ASSUME Alone PROVE IInv /\ AloneInv /\ [Next]_vars => AloneInv'
  <1> SUFFICES ASSUME IInv, AloneInv, [Next]_vars PROVE AloneInv'
    OBVIOUS
  <1>1. ASSUME NEW p \in Proc, Step(p) PROVE AloneInv'
    <2>1. ~Crash(p)
      BY DEF Crash, Alone
    <2>2. CASE Build(p)
      BY <2>2, BuildCases, AloneBuildNew, AloneEnds, AloneBuildUpdate
    <2> QED BY <1>1, <2>1, <2>2, AloneCalls, AloneEnds, AloneWriteHeader, AloneWriteIndex,
               AloneWriteInfo DEF Step, Run, Choose
  <1>2. CASE UNCHANGED vars
    <2>1. UNCHANGED <<jhr, jdx, info, wild, pc, hdrinfo, msg, op>> /\ Live' = Live
      BY <1>2 DEF vars, Live
    <2>2. ASSUME NEW p \in Proc PROVE AloneLocal(p)'
      <3>1. AloneLocal(p)
        BY DEF AloneInv
      <3>2. Cardinality(Live' \ {op'[p].hdr.no}) = Cardinality(Live \ {op[p].hdr.no})
        BY <2>1
      <3> QED BY <2>1, <3>1, <3>2 DEF AloneLocal, Dropped
    <2>3. SubfieldsStored' /\ ~wild'
      BY <2>1 DEF AloneInv, SubfieldsStored
    <2> QED BY <2>1, <2>2, <2>3 DEF AloneInv
  <1> QED BY <1>1, <1>2 DEF Next

\* While nobody writes, the counts are right.
LEMMA AloneDone == ASSUME Alone PROVE IInv /\ AloneInv => ActiveMsgs
  <1> SUFFICES ASSUME IInv, AloneInv, holder = NoProc PROVE info.activemsgs = Cardinality(Live)
    BY DEF ActiveMsgs
  <1>1. \A p \in Proc : pc[p] \notin {"header", "index", "info"}
    BY ProcAssumption DEF IInv, LockInv, InLock, Busy
  <1> QED BY <1>1 DEF AloneInv

\* For a program that has the base to itself, activemsgs is the number of the
\* messages not deleted, whenever it is not writing (save_message).
THEOREM CountsExact == ASSUME Alone PROVE Spec => []ActiveMsgs
  <1>1. IInv /\ AloneInv => ActiveMsgs
    BY AloneDone
  <1> QED BY <1>1, AloneInit, AloneNext, Invariance, PTL DEF Spec

\* ... every header is followed by the subfields it announces, and none is
\* written through the index entry of a message deleted for good.
THEOREM SubfieldsKept == ASSUME Alone PROVE Spec => [](SubfieldsStored /\ NoWildWrite)
  <1>1. AloneInv => SubfieldsStored /\ NoWildWrite
    BY DEF AloneInv, NoWildWrite
  <1> QED BY <1>1, AloneInit, AloneNext, Invariance, PTL DEF Spec
=============================================================================
